------------------------------ MODULE MemStore ------------------------------
(***************************************************************************)
(* storage.Mem (internal/storage/memstore.go): a ring of flow record       *)
(* versions and, per flow, the history of the versions retained for it,    *)
(* and a ring of verdicts.  Ring and histories are kept in step by sequence *)
(* numbers only, while the ring overwrites its oldest slot, a history sheds *)
(* its oldest version at its own cap, and the retention sweep takes versions *)
(* out of the middle of both.  Every operation holds the store's lock, so  *)
(* each is one step; the pipeline and the sweeper call them.               *)
(***************************************************************************)
EXTENDS Integers, SequencesExt, FiniteSets, FiniteSetsExt

CONSTANTS
    Ids,        \* flow ids
    Cap,        \* capacity of the ring of flows
    ClsCap,     \* capacity of the ring of verdicts
    HistCap,    \* FlowHistoryCap
    None

ASSUME StoreAssumption == {Cap, ClsCap, HistCap} \subseteq Nat \ {0}

VARIABLES
    flows,      \* the ring of versions [seq, rec]: its slots, where it writes next, whether it wrapped
    hist,       \* flow id -> its retained versions, oldest first
    flowSeq,
    cls,        \* the ring of verdicts
    evicted, expired, dropped,  \* flowEvict, flowExpire, verDrop
    clsEvicted, clsExpired      \* clsEvict, clsExpire

storeVars == <<flows, hist, flowSeq, cls, evicted, expired, dropped, clsEvicted, clsExpired>>
clsGone == clsEvicted + clsExpired

Empty(cap) == [slots |-> [i \in 0..(cap - 1) |-> None], head |-> 0, full |-> FALSE]

StoreInit ==
    /\ flows = Empty(Cap) /\ hist = [id \in Ids |-> <<>>] /\ flowSeq = 0
    /\ cls = Empty(ClsCap)
    /\ evicted = 0 /\ expired = 0 /\ dropped = 0 /\ clsEvicted = 0 /\ clsExpired = 0

Size(ring) == Cardinality(DOMAIN ring.slots)
RingLen(ring) == IF ring.full THEN Size(ring) ELSE ring.head

\* Newest first, as readers see a ring.
Collect(ring) ==
    [i \in 1..RingLen(ring) |-> ring.slots[(ring.head - i + Size(ring)) % Size(ring)]]

Write(ring, x) ==
    LET next == (ring.head + 1) % Size(ring)
    IN [slots |-> [ring.slots EXCEPT ![ring.head] = x], head |-> next,
        full |-> ring.full \/ next = 0]

\* The elements of s at the positions in at, in their order.
Kept(s, at) ==
    [n \in 1..Cardinality(at) |-> s[CHOOSE i \in at : Cardinality({j \in at : j <= i}) = n]]

\* The survivors, given newest first, go back into the ring oldest first.
Relay(ring, live) ==
    [slots |-> [i \in DOMAIN ring.slots |-> IF i < Len(live) THEN live[Len(live) - i] ELSE None],
     head |-> Len(live) % Size(ring), full |-> Len(live) = Size(ring)]

-----------------------------------------------------------------------------

DropUnchecked(h, v) ==   \* mutant: the history's oldest goes, whichever it is
    IF h = <<>> THEN h ELSE Tail(h)

\* dropVersion: the version that leaves the ring leaves its history, if it is still
\* there - then it is the oldest.
DropVersion(h, v) == IF h = <<>> \/ Head(h).seq # v.seq THEN h ELSE Tail(h)

AppendCapped(h, v) == Append(IF Len(h) >= HistCap THEN Tail(h) ELSE h, v)

PutFlow(row) ==
    LET v == [seq |-> flowSeq + 1, rec |-> row]
        old == flows.slots[flows.head]
        trimmed == IF flows.full THEN [hist EXCEPT ![old.rec.id] = DropVersion(@, old)] ELSE hist
    IN /\ hist' = [trimmed EXCEPT ![row.id] = AppendCapped(@, v)]
       /\ dropped' = IF Len(trimmed[row.id]) >= HistCap THEN dropped + 1 ELSE dropped
       /\ flows' = Write(flows, v)
       /\ evicted' = IF flows.full THEN evicted + 1 ELSE evicted
       /\ flowSeq' = flowSeq + 1
       /\ UNCHANGED <<cls, expired, clsEvicted, clsExpired>>

PutClassification(verdict) ==
    /\ cls' = Write(cls, verdict)
    /\ clsEvicted' = IF cls.full THEN clsEvicted + 1 ELSE clsEvicted
    /\ UNCHANGED <<flows, hist, flowSeq, evicted, expired, dropped, clsExpired>>

FilterNothing(h, live) == h   \* mutant: the histories are not filtered in step

Filter(h, live) == Kept(h, {i \in DOMAIN h : h[i] \in Range(live)})

\* purgeFlows and purgeClassifications; a cutoff of 0 skips its category
PurgeBefore(flowsBefore, classificationsBefore) ==
    LET newest == Collect(flows)
        newestCls == Collect(cls)
        live == Kept(newest, {i \in DOMAIN newest : newest[i].rec.ts >= flowsBefore})
        liveCls == Kept(newestCls, {i \in DOMAIN newestCls : newestCls[i].ts >= classificationsBefore})
        stale == Len(live) < RingLen(flows)
        staleCls == Len(liveCls) < RingLen(cls)
    IN /\ stale \/ staleCls
       /\ flows' = IF stale THEN Relay(flows, live) ELSE flows
       /\ hist' = IF stale THEN [id \in Ids |-> Filter(hist[id], live)] ELSE hist
       /\ expired' = expired + RingLen(flows) - Len(live)
       /\ cls' = IF staleCls THEN Relay(cls, liveCls) ELSE cls
       /\ clsExpired' = clsExpired + RingLen(cls) - Len(liveCls)
       /\ UNCHANGED <<flowSeq, evicted, dropped, clsEvicted>>

RecentFlows == Collect(flows)
RecentClassifications == Collect(cls)
=============================================================================
