----------------------------- MODULE ReviewStore -----------------------------
(***************************************************************************)
(* Human reviews (internal/review): one record and one file per flow id,   *)
(* the model's prediction captured at the first decision and carried       *)
(* through every later one.  The flow ids are a counter of the process     *)
(* (cmd/synapsed/main.go): a daemon that starts again reads the reviews    *)
(* back and hands the same ids to new flows.                               *)
(***************************************************************************)
EXTENDS AuditLog

CONSTANTS MaxFlows,     \* bound on the flow ids of one boot
          Classes,      \* traffic classes
          RingSize,     \* classifications the store retains, and Put scans
          MaxReviews,   \* bound on the decisions accepted
          MaxBoots      \* bound on the daemon's starts

ASSUME ReviewAssumption == RingSize \in Nat \ {0} /\ {MaxBoots, MaxFlows} \subseteq Nat

FlowIds == 1 .. MaxFlows
Terminal == {"correct", "incorrect", "ignored_pattern"}
ReviewStates == Terminal \cup {"unreviewed", "unsure"}
NoLabel == "none"
NoReview == [state |-> "none"]

VARIABLES boot,         \* which start of the daemon this is
          lastFlow,     \* the newest flow id of this boot
          verdicts,     \* classifications retained, oldest first
          records,      \* flow ids whose flow record is retained
          byFlow,       \* the store's index: flow id to review
          files,        \* the review directory
          decisions     \* per flow id: every decision accepted, oldest first

storeVars == <<boot, lastFlow, verdicts, records>>
reviewVars == <<byFlow, files, decisions>>

ReviewInit ==
    /\ boot = 1 /\ lastFlow = 0 /\ verdicts = <<>> /\ records = {}
    /\ byFlow = [f \in FlowIds |-> NoReview]
    /\ files = [f \in FlowIds |-> NoReview]
    /\ decisions = [f \in FlowIds |-> <<>>]

-----------------------------------------------------------------------------
(* The flow store, as the review store and the dataset builder read it. *)

\* a new flow, or another snapshot of one still retained, is classified
Classify(f, c) ==
    /\ f \in records \/ f = lastFlow + 1
    /\ LET all == Append(verdicts, [flow |-> f, class |-> c])
       IN  verdicts' = SubSeq(all, Max({1, Len(all) - RingSize + 1}), Len(all))
    /\ records' = records \cup {f}
    /\ lastFlow' = Max({lastFlow, f})
    /\ UNCHANGED <<boot, reviewVars, auditVars>>

\* the flow ring is not the classification ring: a record may go before its verdicts
EvictRecord(f) ==
    /\ f \in records
    /\ records' = records \ {f}
    /\ UNCHANGED <<boot, lastFlow, verdicts, reviewVars, auditVars>>

-----------------------------------------------------------------------------
(* Put. *)

ClassificationFor(f) == {i \in DOMAIN verdicts : verdicts[i].flow = f}
Capture(f) == verdicts[Max(ClassificationFor(f))].class

\* validate: a state asserts a class or it does not, and never contradicts itself
Consistent(state, label, pred) ==
    CASE state = "correct"   -> label \in {NoLabel, pred}
      [] state = "incorrect" -> label \notin {NoLabel, pred}
      [] OTHER               -> label = NoLabel

EffectiveLabel(r) ==
    CASE r.state = "correct"   -> r.pred
      [] r.state = "incorrect" -> r.label
      [] OTHER                 -> NoLabel

PredictionRetaken(f) ==   \* mutant: a correction captures the verdict of the day
    IF ClassificationFor(f) # {} THEN Capture(f) ELSE byFlow[f].pred

PredictionOf(f) == IF byFlow[f] # NoReview THEN byFlow[f].pred ELSE Capture(f)

HistoryOf(f) ==
    IF byFlow[f] = NoReview THEN <<>>
    ELSE Append(byFlow[f].history, [state |-> byFlow[f].state, label |-> byFlow[f].label])

Updated(f, state, label) ==
    [state |-> state, label |-> label, pred |-> PredictionOf(f), history |-> HistoryOf(f)]

\* persisted, then indexed, under the store's lock; announced after it
Put(o, f, state, label) ==
    /\ Free(o)
    /\ byFlow[f] # NoReview \/ ClassificationFor(f) # {}
    /\ Consistent(state, label, PredictionOf(f))
    /\ LET upd == Updated(f, state, label)
       IN  /\ byFlow' = [byFlow EXCEPT ![f] = upd]
           /\ files' = [files EXCEPT ![f] = upd]
           /\ decisions' = [decisions EXCEPT ![f] = Append(@,
                [state |-> state, label |-> label, boot |-> boot,
                 class |-> EffectiveLabel(upd), verdict |-> PredictionOf(f)])]
    /\ Owe(o, Line("ReviewUpdated", f, Len(decisions[f]) + 1))
    /\ UNCHANGED storeVars

\* load reads the files back; the flow store starts empty and its ids from one
ReviewRestart ==
    /\ boot' = boot + 1
    /\ lastFlow' = 0 /\ verdicts' = <<>> /\ records' = {}
    /\ byFlow' = files
    /\ UNCHANGED <<files, decisions>>

-----------------------------------------------------------------------------
(* The queue: the newest verdict of every flow that still needs a human. *)

StateOf(f) == IF byFlow[f] = NoReview THEN "unreviewed" ELSE byFlow[f].state
Queue == {[flow |-> f, class |-> Capture(f), state |-> StateOf(f)] :
            f \in {g \in FlowIds : ClassificationFor(g) # {} /\ StateOf(g) \notin Terminal}}

-----------------------------------------------------------------------------
(* Properties. *)

\* A review is the last decision made of its flow id, every earlier one is in its
\* history in order, and the prediction beside it is the verdict captured at the
\* first, whatever the model says later, across corrections, racing requests and
\* restarts; a flow leaves the queue by its last decision alone (review.go:455).
ReviewTrail ==
    \A f \in FlowIds :
        IF decisions[f] = <<>> THEN byFlow[f] = NoReview
        ELSE /\ HistoryOf(f) = [i \in DOMAIN decisions[f] |->
                    [state |-> decisions[f][i].state, label |-> decisions[f][i].label]]
             /\ byFlow[f].pred = decisions[f][1].verdict
             /\ Last(decisions[f]).class # NoLabel => f \notin {q.flow : q \in Queue}
=============================================================================
