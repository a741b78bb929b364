----------------------------- MODULE AlertStore -----------------------------
(***************************************************************************)
(* alert.Store (internal/alert/alert.go): verdicts are queued by the       *)
(* pipeline without blocking, and one aggregator goroutine folds them into *)
(* deduplicated detections kept in a bounded ring.  Policy swaps (reload)  *)
(* and retention purges travel the same queue; API handlers read.          *)
(*                                                                         *)
(* Abstracted: severity, confidence, reason and the per-model verdicts of a*)
(* detection; disagreement; the sync barrier tests use.  A key stands for  *)
(* (source, destination, class).                                           *)
(***************************************************************************)
EXTENDS Integers, FiniteSets, SequencesExt

CONSTANTS
    Keys, Flows, Scores,
    FlowsOf,        \* bound: flows whose verdicts carry a key
    InitPolicy,     \* [min: threshold, rules: sequence of sets of keys]
    Policies,       \* bound: policies a reload may swap in
    MaxRecent, Window, QueueSize, MaxFlowIDs,
    MaxTime,        \* bound: packet time
    MaxObserved,    \* bound: Observe calls
    MaxAdmin,       \* bound: SetPolicy and PurgeBefore calls
    None

ASSUME AlertAssumption ==
    /\ {MaxRecent, QueueSize, MaxFlowIDs} \subseteq Nat \ {0}
    /\ {Window, MaxTime, MaxObserved, MaxAdmin} \subseteq Nat /\ Scores \subseteq Nat
    /\ None \notin Keys \cup Nat /\ FlowsOf \in [Keys -> SUBSET Flows]
    /\ {InitPolicy} \cup Policies \subseteq [min : Nat, rules : Seq(SUBSET Keys)]

Times == 1..MaxTime
Slots == 0..(MaxRecent - 1)

VARIABLES
    queue,          \* Store.ch
    aggregator,     \* looping, swapping (policy set, hits not yet), publishing, stopped
    pol, hits,      \* Store.pol and suppressHits
    ring, head, full, byID, active,
    counts,         \* created, deduped, evicted, expired, observed, dropped, suppressed, byRule
    published,      \* ids of the AlertCreated events, in order
    caller,         \* a SetPolicy or PurgeBefore call
    quit,           \* Close was called
    calls,          \* Observe and administrative calls so far (bounds)
    statsPanicked   \* a Stats call indexed suppressHits out of range

ringVars == <<ring, head, full, byID, active>>
policyVars == <<pol, hits>>
vars == <<queue, aggregator, policyVars, ringVars, counts, published, caller, quit, calls,
          statsPanicked>>

Idle == [pc |-> "idle"]

Init ==
    /\ queue = <<>> /\ aggregator = "looping"
    /\ pol = InitPolicy /\ hits = [i \in DOMAIN InitPolicy.rules |-> 0]
    /\ ring = [i \in Slots |-> None] /\ head = 0 /\ full = FALSE
    /\ byID = {} /\ active = [k \in Keys |-> None]
    /\ counts = [c \in {"created", "deduped", "evicted", "expired", "observed", "dropped",
                        "suppressed", "byRule"} |-> 0]
    /\ published = <<>> /\ caller = Idle /\ quit = FALSE
    /\ calls = [observe |-> 0, admin |-> 0] /\ statsPanicked = FALSE

Count(names) == [c \in DOMAIN counts |-> IF c \in names THEN counts[c] + 1 ELSE counts[c]]

-----------------------------------------------------------------------------
(* Callers: the pipeline, reload and retention, the API, shutdown. *)

\* Never blocks: a full queue drops the verdict and counts it.  Nothing tells a
\* closed store apart.
Observe(o) ==
    /\ calls.observe < MaxObserved
    /\ calls' = [calls EXCEPT !.observe = @ + 1]
    /\ IF Len(queue) < QueueSize
       THEN queue' = Append(queue, [kind |-> "verdict", oc |-> o]) /\ UNCHANGED counts
       ELSE counts' = Count({"dropped"}) /\ UNCHANGED queue
    /\ UNCHANGED <<aggregator, policyVars, ringVars, published, caller, quit, statsPanicked>>

\* SetPolicy and PurgeBefore send (blocking), then wait to be told it is done.
Call(item) ==
    /\ caller = Idle /\ calls.admin < MaxAdmin
    /\ calls' = [calls EXCEPT !.admin = @ + 1]
    /\ caller' = [pc |-> "sending", item |-> item]
    /\ UNCHANGED <<queue, aggregator, policyVars, ringVars, counts, published, quit, statsPanicked>>

CallSends ==
    /\ caller.pc = "sending" /\ Len(queue) < QueueSize
    /\ queue' = Append(queue, caller.item)
    /\ caller' = [pc |-> "waiting"]
    /\ UNCHANGED <<aggregator, policyVars, ringVars, counts, published, quit, calls, statsPanicked>>

CallGivesUp ==
    /\ caller.pc \in {"sending", "waiting"} /\ quit
    /\ caller' = Idle
    /\ UNCHANGED <<queue, aggregator, policyVars, ringVars, counts, published, quit, calls,
                   statsPanicked>>

CallReturns ==
    /\ caller.pc = "done" /\ caller' = Idle
    /\ UNCHANGED <<queue, aggregator, policyVars, ringVars, counts, published, quit, calls,
                   statsPanicked>>

Stats ==
    /\ ~statsPanicked /\ statsPanicked' = (Len(pol.rules) > Len(hits))
    /\ UNCHANGED <<queue, aggregator, policyVars, ringVars, counts, published, caller, quit, calls>>

Close ==
    /\ ~quit /\ quit' = TRUE
    /\ UNCHANGED <<queue, aggregator, policyVars, ringVars, counts, published, caller, calls,
                   statsPanicked>>

-----------------------------------------------------------------------------
(* The aggregator. *)

Retained == {ring[i] : i \in Slots} \ {None}
WithID(id) == CHOOSE d \in Retained : d.id = id

MatchedRule(o) ==   \* 0 when no rule covers it; the first match is the one counted
    IF \E i \in DOMAIN pol.rules : o.key \in pol.rules[i]
    THEN CHOOSE i \in DOMAIN pol.rules :
            /\ o.key \in pol.rules[i]
            /\ \A j \in 1..(i - 1) : o.key \notin pol.rules[j]
    ELSE 0

WithinSliding(d, ts) ==   \* mutant: every repeat extends the window
    ts <= d.last + Window

\* Anchored at the first occurrence; an earlier timestamp is inside.
WithinWindow(d, ts) == ts <= d.ts + Window

NewFlows(flows, f) ==
    IF f \in Range(flows) THEN flows
    ELSE Append(IF Len(flows) >= MaxFlowIDs THEN Tail(flows) ELSE flows, f)

Folded(d, o) ==
    [d EXCEPT !.count = @ + 1, !.last = IF o.ts > @ THEN o.ts ELSE @,
              !.flows = NewFlows(@, o.flow)]

FoldWakes(d, o) ==   \* mutant: a repeat publishes too
    /\ ring' = [i \in Slots |-> IF ring[i] = d THEN Folded(d, o) ELSE ring[i]]
    /\ counts' = Count({"observed", "deduped"})
    /\ aggregator' = "publishing"
    /\ UNCHANGED <<head, full, byID, active>>

Fold(d, o) ==
    /\ ring' = [i \in Slots |-> IF ring[i] = d THEN Folded(d, o) ELSE ring[i]]
    /\ counts' = Count({"observed", "deduped"})
    /\ aggregator' = "looping"
    /\ UNCHANGED <<head, full, byID, active>>

ForgottenByKey(k, old) ==   \* mutant: the key is cleared, whichever detection holds it
    active[k] # None /\ old # None /\ old.key = k

Forgotten(k, old) == active[k] # None /\ old # None /\ old.key = k /\ active[k] = old.id

Advance(h) == (h + 1) % MaxRecent

FullAfter(h) == full \/ h = 0

Evicts(old) == IF old = None THEN {} ELSE {"evicted"}

OpenNew(o) ==
    LET id == counts.created + 1
        old == ring[head]
    IN /\ ring' = [ring EXCEPT ![head] = [id |-> id, key |-> o.key, ts |-> o.ts, last |-> o.ts,
                                          count |-> 1, flows |-> <<o.flow>>]]
       /\ head' = Advance(head) /\ full' = FullAfter(Advance(head))
       /\ byID' = (byID \ (IF old = None THEN {} ELSE {old.id})) \cup {id}
       /\ active' = [k \in Keys |-> IF k = o.key THEN id
                                    ELSE IF Forgotten(k, old) THEN None ELSE active[k]]
       /\ counts' = Count({"observed", "created"} \cup Evicts(old))
       /\ aggregator' = "publishing"

Apply(o) ==
    IF o.score < pol.min
    THEN counts' = Count({"observed", "suppressed"}) /\ UNCHANGED <<hits, ringVars, aggregator>>
    ELSE IF MatchedRule(o) # 0
    THEN /\ hits' = [hits EXCEPT ![MatchedRule(o)] = @ + 1]
         /\ counts' = Count({"observed", "byRule"}) /\ UNCHANGED <<ringVars, aggregator>>
    ELSE /\ UNCHANGED hits
         /\ IF active[o.key] # None /\ WithinWindow(WithID(active[o.key]), o.ts)
            THEN Fold(WithID(active[o.key]), o)
            ELSE OpenNew(o)

Takes(kind) ==
    /\ aggregator = "looping" /\ queue # <<>> /\ Head(queue).kind = kind
    /\ queue' = Tail(queue)
    /\ UNCHANGED <<quit, calls, statsPanicked>>

TakeVerdict ==
    /\ Takes("verdict")
    /\ Apply(Head(queue).oc)
    /\ UNCHANGED <<pol, published, caller>>

\* Outside the lock: the event goes out after readers can see the detection.
Publish ==
    /\ aggregator = "publishing" /\ aggregator' = "looping"
    /\ published' = Append(published, counts.created)
    /\ UNCHANGED <<queue, policyVars, ringVars, counts, caller, quit, calls, statsPanicked>>

Done == IF caller.pc = "waiting" THEN [pc |-> "done"] ELSE caller

TakePolicy ==
    /\ Takes("policy")
    /\ pol' = Head(queue).policy /\ aggregator' = "swapping"
    /\ UNCHANGED <<hits, ringVars, counts, published, caller>>

ResetHits ==
    /\ aggregator = "swapping" /\ aggregator' = "looping"
    /\ hits' = [i \in DOMAIN pol.rules |-> 0]
    /\ caller' = Done
    /\ UNCHANGED <<queue, pol, ringVars, counts, published, quit, calls, statsPanicked>>

TakePurgeQuiet ==   \* mutant: the purge does not close its done channel
    /\ Takes("purge")
    /\ UNCHANGED <<policyVars, aggregator, ringVars, counts, published, caller>>

TakePurge ==
    /\ Takes("purge")
    /\ LET old == {i \in Slots : ring[i] # None /\ ring[i].last < Head(queue).before}
       IN /\ ring' = [i \in Slots |-> IF i \in old THEN None ELSE ring[i]]
          /\ byID' = byID \ {ring[i].id : i \in old}
          /\ active' = [k \in Keys |-> IF \E i \in old : Forgotten(k, ring[i])
                                       THEN None ELSE active[k]]
          /\ counts' = [counts EXCEPT !.expired = @ + Cardinality(old)]
    /\ caller' = Done
    /\ UNCHANGED <<policyVars, head, full, aggregator, published>>

Stop ==
    /\ aggregator = "looping" /\ quit
    /\ aggregator' = "stopped"
    /\ UNCHANGED <<queue, policyVars, ringVars, counts, published, caller, quit, calls,
                   statsPanicked>>

Aggregator == TakeVerdict \/ Publish \/ TakePolicy \/ ResetHits \/ TakePurge \/ Stop

Occurrences == {o \in [key : Keys, ts : Times, score : Scores, flow : Flows] : o.flow \in FlowsOf[o.key]}
\* Every timestamp is at least 1: a purge before 1 would expire nothing.
AdminItems == [kind : {"policy"}, policy : Policies] \cup [kind : {"purge"}, before : 2..MaxTime]

Next ==
    \/ Aggregator \/ CallSends \/ CallGivesUp \/ CallReturns \/ Stats \/ Close
    \/ \E o \in Occurrences : Observe(o)
    \/ \E item \in AdminItems : Call(item)

Spec == Init /\ [][Next]_vars

\* The aggregator runs; Go serves a sender blocked on the queue in turn.
Fairness == WF_vars(Aggregator) /\ SF_vars(CallSends) /\ WF_vars(CallGivesUp) /\ WF_vars(CallReturns)
FairSpec == Spec /\ Fairness

-----------------------------------------------------------------------------
(* Properties *)

Detection == [id : Nat, key : Keys, ts : Times, last : Times, count : Nat, flows : Seq(Flows)]
ASSUME NoneAssumption == None \notin Detection

TypeOK ==
    /\ Len(queue) <= QueueSize
    /\ aggregator \in {"looping", "swapping", "publishing", "stopped"}
    /\ pol \in Policies \cup {InitPolicy} /\ hits \in Seq(Nat)
    /\ ring \in [Slots -> Detection \cup {None}] /\ head \in Slots /\ full \in BOOLEAN
    /\ byID \subseteq Nat /\ active \in [Keys -> Nat \cup {None}]
    /\ \A c \in DOMAIN counts : counts[c] \in Nat
    /\ published \in Seq(Nat)
    /\ caller.pc \in {"idle", "sending", "waiting", "done"}
    /\ quit \in BOOLEAN /\ statsPanicked \in BOOLEAN

\* The three views of the retained detections agree, through evictions and purges
\* that leave holes: what an id finds is what the ring holds, and a key finds the
\* newest detection of that key (alert.go open, purge).
IndexesAgree ==
    /\ byID = {d.id : d \in Retained}
    /\ \A k \in Keys :
          LET ids == {d.id : d \in {e \in Retained : e.key = k}}
          IN IF ids = {} THEN active[k] = None
             ELSE active[k] \in ids /\ \A id \in ids : id <= active[k]

\* A reader that walks back from head, as far as head or, once full, all the way,
\* sees every retained detection (alert.go Detections).
ReadersSeeAll == ~full => \A i \in Slots : i >= head => ring[i] = None

\* Every verdict is in one counter or still queued, every detection retained,
\* evicted or expired (PROJECT.md 22: every drop path counted).
EverythingCounted ==
    /\ calls.observe = counts.observed + counts.dropped
                       + Cardinality({i \in DOMAIN queue : queue[i].kind = "verdict"})
    /\ counts.observed = counts.created + counts.deduped + counts.suppressed + counts.byRule
    /\ counts.created = Cardinality(Retained) + counts.evicted + counts.expired

\* A sustained attack is one detection per window: a detection absorbs nothing
\* past the window anchored at its first verdict, and two retained detections of
\* one key never share a window, in whatever order timestamps came (withinWindow).
WindowsAnchored ==
    /\ \A d \in Retained : d.last <= d.ts + Window
    /\ \A d, e \in Retained : (d.key = e.key /\ d.id < e.id) => e.ts > d.ts + Window

\* The affected-flows list names distinct flows, at most MaxFlowIDs, and never more
\* than there were verdicts (alert.go fold).
FlowListSound ==
    \A d \in Retained :
        Len(d.flows) <= MaxFlowIDs /\ Len(d.flows) <= d.count /\ IsInjective(d.flows)

\* One AlertCreated per detection, in the order they were opened, none for a
\* repeat: the event can only lag by the one being published (apply).
OneEventPerDetection ==
    published = [i \in 1..(counts.created - IF aggregator = "publishing" THEN 1 ELSE 0) |-> i]

\* SetPolicy and PurgeBefore return, also when the store is closed meanwhile.
CallsReturn == (caller.pc = "sending") ~> (caller.pc = "idle")

\* alert.go:155 says the aggregator is "the only reader of s.pol and
\* s.suppressHits": a status request never finds them out of step.
StatsInStep == ~statsPanicked

\* One list under every index: the ring, the maps by id, by key and by flow, and what readers get
\* (Store.open, Store.purge, Store.Detections).
ListsAgree == TypeOK /\ IndexesAgree /\ ReadersSeeAll /\ FlowListSound

\* One detection, one count, one event (Store.apply, Store.fold, Store.open).
CountsAgree == EverythingCounted /\ OneEventPerDetection

=============================================================================
