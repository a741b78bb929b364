-------------------------- MODULE AlertStoreProofs --------------------------
(* Proofs about AlertStore for every value of its constants: any keys, flows and policies,
   any ring, window and queue, any interleaving of verdicts, reloads, purges and readers. *)
EXTENDS AlertStore, FiniteSetTheorems, SequenceTheorems, TLAPS

CountNames ==
    {"created", "deduped", "evicted", "expired", "observed", "dropped", "suppressed", "byRule"}

LEMMA CountFacts ==
    ASSUME counts \in [CountNames -> Nat], NEW names
    PROVE  /\ Count(names) \in [CountNames -> Nat]
           /\ \A c \in CountNames : Count(names)[c] = IF c \in names THEN counts[c] + 1 ELSE counts[c]
BY DEF Count

(* The ring, by slot. *)

Held == {i \in Slots : ring[i] # None}

\* Slot i was filled before slot j, when the next one to be filled is h.
Before(i, j, h) == (i >= h /\ j < h) \/ (i < j /\ (i >= h <=> j >= h))

RingTypes ==
    /\ ring \in [Slots -> Detection \cup {None}] /\ head \in Slots /\ full \in BOOLEAN
    /\ active \in [Keys -> Nat \cup {None}] /\ counts \in [CountNames -> Nat]

\* Ids grow round the ring, up to the number of detections opened.
Ordered ==
    /\ \A i, j \in Held : Before(i, j, head) => ring[i].id < ring[j].id
    /\ \A i \in Held : ring[i].id \in 1..counts.created

Anchored ==
    /\ \A i \in Held : ring[i].ts <= ring[i].last /\ ring[i].last <= ring[i].ts + Window
    /\ \A i, j \in Held : ring[i].key = ring[j].key /\ ring[i].id < ring[j].id
                             => ring[j].ts > ring[i].ts + Window

\* The key finds the newest detection of that key, and nothing when there is none.
ByKey ==
    \A k \in Keys :
        /\ active[k] = None => \A i \in Held : ring[i].key # k
        /\ active[k] # None =>
              \E a \in Held : /\ ring[a].key = k /\ ring[a].id = active[k]
                              /\ \A j \in Held : ring[j].key = k => ring[j].id <= ring[a].id

ByID == byID = {ring[i].id : i \in Held}

Listed ==
    \A i \in Held : /\ Len(ring[i].flows) <= MaxFlowIDs /\ Len(ring[i].flows) <= ring[i].count
                    /\ IsInjective(ring[i].flows)

RingInv == RingTypes /\ Ordered /\ Anchored /\ ByKey /\ ByID /\ Listed /\ ReadersSeeAll

LEMMA HeldType ==
    ASSUME RingTypes, NEW i \in Held
    PROVE  /\ i \in Slots /\ ring[i] \in Detection /\ ring[i].id \in Nat /\ ring[i].key \in Keys
           /\ ring[i].ts \in Times /\ ring[i].last \in Times /\ ring[i].count \in Nat
           /\ ring[i].flows \in Seq(Flows) /\ ring[i].ts \in Int /\ ring[i].last \in Int
BY DEF RingTypes, Held, Detection, Times

LEMMA SlotsAreInts == Slots \subseteq Int /\ MaxRecent \in Nat \ {0} /\ \A i \in Slots : 0 <= i /\ i < MaxRecent
BY AlertAssumption DEF Slots

\* No two slots hold the same detection.
LEMMA SlotsDiffer ==
    ASSUME RingTypes, Ordered, NEW i \in Held, NEW j \in Held, ring[i].id = ring[j].id
    PROVE  i = j
<1> SUFFICES ASSUME i # j PROVE FALSE
  OBVIOUS
<1>1. i \in Int /\ j \in Int /\ head \in Int
  BY SlotsAreInts DEF Held, RingTypes
<1>2. Before(i, j, head) \/ Before(j, i, head)
  BY <1>1 DEF Before
<1>3. ring[i].id \in Nat /\ ring[j].id \in Nat
  BY HeldType
<1>. QED BY <1>2, <1>3 DEF Ordered

LEMMA AdvanceFacts ==
    ASSUME NEW h \in Slots
    PROVE  Advance(h) \in Slots /\ Advance(h) = IF h = MaxRecent - 1 THEN 0 ELSE h + 1
<1>1. h \in Int /\ 0 <= h /\ h < MaxRecent /\ MaxRecent \in Nat \ {0}
  BY SlotsAreInts
<1>2. CASE h = MaxRecent - 1
  <2>1. (h + 1) % MaxRecent = 0
    BY <1>1, <1>2
  <2>. QED BY <1>1, <1>2, <2>1 DEF Advance, Slots
<1>3. CASE h # MaxRecent - 1
  <2>1. (h + 1) % MaxRecent = h + 1
    BY <1>1, <1>3
  <2>. QED BY <1>1, <1>3, <2>1 DEF Advance, Slots
<1>. QED BY <1>2, <1>3

-----------------------------------------------------------------------------
(* Folding a repeat into its detection. *)

\* A flow is appended once, and the list keeps to its bound by dropping its oldest.
LEMMA NewFlowsFacts ==
    ASSUME NEW flows \in Seq(Flows), NEW f \in Flows, Len(flows) <= MaxFlowIDs, IsInjective(flows)
    PROVE  /\ NewFlows(flows, f) \in Seq(Flows) /\ Len(NewFlows(flows, f)) <= MaxFlowIDs
           /\ Len(NewFlows(flows, f)) <= Len(flows) + 1 /\ IsInjective(NewFlows(flows, f))
<1>1. MaxFlowIDs \in Nat \ {0} /\ Len(flows) \in Nat /\ DOMAIN flows = 1..Len(flows)
  BY AlertAssumption, LenProperties
<1>2. CASE f \in Range(flows)
  BY <1>1, <1>2 DEF NewFlows
<1>3. CASE f \notin Range(flows)
  <2> DEFINE base == IF Len(flows) >= MaxFlowIDs THEN Tail(flows) ELSE flows
             n == Len(base)
  <2>1. /\ base \in Seq(Flows) /\ n < MaxFlowIDs /\ n <= Len(flows) /\ n \in Nat
        /\ \A i \in 1..n : base[i] \in Range(flows)
        /\ \A i, j \in 1..n : base[i] = base[j] => i = j
    <3>1. CASE Len(flows) >= MaxFlowIDs
      <4>1. flows # <<>>
        BY <1>1, <3>1
      <4>2. /\ Tail(flows) \in Seq(Flows) /\ Len(Tail(flows)) = Len(flows) - 1
            /\ \A i \in 1..Len(Tail(flows)) : Tail(flows)[i] = flows[i + 1]
        BY <4>1, HeadTailProperties
      <4>3. base = Tail(flows)
        BY <3>1
      <4>4. \A i \in 1..Len(Tail(flows)) : i + 1 \in DOMAIN flows
        BY <1>1, <4>2
      <4>5. \A i \in 1..Len(Tail(flows)) : Tail(flows)[i] \in Range(flows)
        BY <4>2, <4>4 DEF Range
      <4>6. \A i, j \in 1..Len(Tail(flows)) : Tail(flows)[i] = Tail(flows)[j] => i = j
        <5> SUFFICES ASSUME NEW i \in 1..Len(Tail(flows)), NEW j \in 1..Len(Tail(flows)),
                            Tail(flows)[i] = Tail(flows)[j]
                     PROVE  i = j
          OBVIOUS
        <5>1. flows[i + 1] = flows[j + 1]
          BY <4>2
        <5>2. i + 1 = j + 1
          BY <4>4, <5>1 DEF IsInjective
        <5>. QED BY <5>2
      <4>. QED BY <1>1, <3>1, <4>2, <4>3, <4>5, <4>6
    <3>2. CASE ~ (Len(flows) >= MaxFlowIDs)
      BY <1>1, <3>2 DEF IsInjective, Range
    <3>. QED BY <3>1, <3>2
  <2>2. NewFlows(flows, f) = Append(base, f)
    BY <1>3 DEF NewFlows
  <2> HIDE DEF base
  <2>3. /\ Append(base, f) \in Seq(Flows) /\ Len(Append(base, f)) = n + 1
        /\ DOMAIN Append(base, f) = 1..(n + 1)
        /\ \A i \in 1..n : Append(base, f)[i] = base[i]
        /\ Append(base, f)[n + 1] = f
    BY <2>1
  <2>4. \A i \in 1..n : base[i] # f
    BY <1>3, <2>1
  <2>5. IsInjective(Append(base, f))
    <3> SUFFICES ASSUME NEW i \in 1..(n + 1), NEW j \in 1..(n + 1), Append(base, f)[i] = Append(base, f)[j]
                 PROVE  i = j
      BY <2>3 DEF IsInjective
    <3>1. CASE i \in 1..n /\ j \in 1..n
      BY <2>1, <2>3, <3>1
    <3>2. CASE i \notin 1..n /\ j \notin 1..n
      BY <2>1, <3>2
    <3>3. CASE i \in 1..n /\ j \notin 1..n
      <4>1. j = n + 1
        BY <2>1, <3>3
      <4>. QED BY <2>3, <2>4, <3>3, <4>1
    <3>4. CASE i \notin 1..n /\ j \in 1..n
      <4>1. i = n + 1
        BY <2>1, <3>4
      <4>. QED BY <2>3, <2>4, <3>4, <4>1
    <3>. QED BY <3>1, <3>2, <3>3, <3>4
  <2>6. n + 1 <= MaxFlowIDs /\ n + 1 <= Len(flows) + 1
    BY <1>1, <2>1
  <2> HIDE DEF n
  <2>. QED BY <2>2, <2>3, <2>5, <2>6
<1>. QED BY <1>2, <1>3

LEMMA OccurrenceType ==
    ASSUME NEW o \in Occurrences
    PROVE  o.key \in Keys /\ o.ts \in Times /\ o.ts \in Int /\ o.flow \in Flows
BY DEF Occurrences, Times

LEMMA FoldedFacts ==
    ASSUME NEW d \in Detection, NEW o \in Occurrences, d.ts <= d.last, d.last <= d.ts + Window,
           o.ts <= d.ts + Window, Len(d.flows) <= MaxFlowIDs, Len(d.flows) <= d.count,
           IsInjective(d.flows)
    PROVE  LET f == Folded(d, o)
           IN  /\ f \in Detection /\ f.id = d.id /\ f.key = d.key /\ f.ts = d.ts
               /\ f.ts <= f.last /\ f.last <= f.ts + Window
               /\ Len(f.flows) <= MaxFlowIDs /\ Len(f.flows) <= f.count /\ IsInjective(f.flows)
<1> DEFINE f == Folded(d, o)
<1>1. d.id \in Nat /\ d.key \in Keys /\ d.ts \in Times /\ d.last \in Times /\ d.count \in Nat
      /\ d.flows \in Seq(Flows) /\ d.ts \in Int /\ d.last \in Int /\ Len(d.flows) \in Nat
  BY LenProperties DEF Detection, Times
<1>2. o.ts \in Times /\ o.ts \in Int /\ o.flow \in Flows
  BY OccurrenceType
<1>3. /\ NewFlows(d.flows, o.flow) \in Seq(Flows) /\ Len(NewFlows(d.flows, o.flow)) <= MaxFlowIDs
      /\ Len(NewFlows(d.flows, o.flow)) <= Len(d.flows) + 1 /\ IsInjective(NewFlows(d.flows, o.flow))
  BY <1>1, <1>2, NewFlowsFacts
<1>4. /\ f.id = d.id /\ f.key = d.key /\ f.ts = d.ts /\ f.count = d.count + 1
      /\ f.last = (IF o.ts > d.last THEN o.ts ELSE d.last)
      /\ f.flows = NewFlows(d.flows, o.flow)
  BY DEF Folded, Detection
<1>5. f \in Detection
  <2> DEFINE count == d.count + 1
             last == IF o.ts > d.last THEN o.ts ELSE d.last
             flows == NewFlows(d.flows, o.flow)
  <2>1. f = [d EXCEPT !.count = count, !.last = last, !.flows = flows]
    BY DEF Folded
  <2>2. count \in Nat /\ last \in Times /\ flows \in Seq(Flows)
    BY <1>1, <1>2, <1>3
  <2> HIDE DEF count, last, flows, f
  <2>. QED BY <2>1, <2>2 DEF Detection
<1>6. f.ts <= f.last /\ f.last <= f.ts + Window
  BY <1>1, <1>2, <1>4
<1>7. Len(f.flows) <= f.count
  <2>1. Len(f.flows) \in Nat
    BY <1>3, <1>4, LenProperties
  <2>. QED BY <1>1, <1>3, <1>4, <2>1
<1> HIDE DEF f
<1>8. f \in Detection /\ f.id = d.id /\ f.key = d.key /\ f.ts = d.ts
      /\ f.ts <= f.last /\ f.last <= f.ts + Window
      /\ Len(f.flows) <= MaxFlowIDs /\ Len(f.flows) <= f.count /\ IsInjective(f.flows)
  BY <1>3, <1>4, <1>5, <1>6, <1>7
<1>. QED BY <1>8 DEF f

\* The detection a key finds is the one in this slot.
LEMMA FoundByKey ==
    ASSUME RingInv, NEW k \in Keys, active[k] # None
    PROVE  \E a \in Held : /\ ring[a].key = k /\ ring[a].id = active[k] /\ WithID(active[k]) = ring[a]
                           /\ \A j \in Held : ring[j].key = k => ring[j].id <= ring[a].id
<1>1. PICK a \in Held : /\ ring[a].key = k /\ ring[a].id = active[k]
                        /\ \A j \in Held : ring[j].key = k => ring[j].id <= ring[a].id
  BY DEF RingInv, ByKey
<1>2. ring[a] \in Retained
  BY DEF Held, Retained
<1>3. \A d \in Retained : d.id = active[k] => d = ring[a]
  BY <1>1, SlotsDiffer DEF Retained, Held, RingInv
<1>4. WithID(active[k]) = ring[a]
  BY <1>1, <1>2, <1>3 DEF WithID
<1>. QED BY <1>1, <1>4

LEMMA FoldRing ==
    ASSUME RingInv, NEW o \in Occurrences, NEW a \in Held, o.ts <= ring[a].ts + Window, Fold(ring[a], o)
    PROVE  RingInv' /\ Held' = Held /\ counts' = Count({"observed", "deduped"}) /\ aggregator' = "looping"
<1>1. /\ ring[a] \in Detection /\ ring[a].ts <= ring[a].last /\ ring[a].last <= ring[a].ts + Window
      /\ Len(ring[a].flows) <= MaxFlowIDs /\ Len(ring[a].flows) <= ring[a].count
      /\ IsInjective(ring[a].flows) /\ a \in Slots
  BY HeldType DEF RingInv, Anchored, Listed
<1> DEFINE f == Folded(ring[a], o)
<1>2. /\ f \in Detection /\ f.id = ring[a].id /\ f.key = ring[a].key /\ f.ts = ring[a].ts
      /\ f.ts <= f.last /\ f.last <= f.ts + Window
      /\ Len(f.flows) <= MaxFlowIDs /\ Len(f.flows) <= f.count /\ IsInjective(f.flows)
  BY <1>1, FoldedFacts
<1>3. \A i \in Slots : ring[i] = ring[a] => i = a
  BY <1>1, SlotsDiffer DEF RingInv, Held
<1> HIDE DEF f
<1>4. /\ ring'[a] = f /\ \A i \in Slots \ {a} : ring'[i] = ring[i]
      /\ ring' \in [Slots -> Detection \cup {None}]
      /\ counts' = Count({"observed", "deduped"}) /\ aggregator' = "looping"
      /\ UNCHANGED <<head, full, byID, active>>
  BY <1>1, <1>2, <1>3 DEF Fold, RingInv, RingTypes, f
<1>5. Held' = Held
  BY <1>1, <1>2, <1>4, NoneAssumption DEF Held
<1>6. \A i \in Held : ring'[i].id = ring[i].id /\ ring'[i].key = ring[i].key /\ ring'[i].ts = ring[i].ts
  BY <1>2, <1>4 DEF Held
<1>7. counts' \in [CountNames -> Nat] /\ counts'.created = counts.created
  BY <1>4, CountFacts DEF RingInv, RingTypes, CountNames
<1>8. RingTypes'
  BY <1>4, <1>7 DEF RingInv, RingTypes
<1>9. Ordered'
  BY <1>4, <1>5, <1>6, <1>7 DEF RingInv, Ordered
<1>10. Anchored'
  <2>1. \A i \in Held : ring'[i].ts <= ring'[i].last /\ ring'[i].last <= ring'[i].ts + Window
    BY <1>2, <1>4 DEF RingInv, Anchored, Held
  <2>. QED BY <1>5, <1>6, <2>1 DEF RingInv, Anchored
<1>11. ByKey'
  BY <1>4, <1>5, <1>6 DEF RingInv, ByKey
<1>12. ByID'
  BY <1>4, <1>5, <1>6 DEF RingInv, ByID
<1>13. Listed'
  <2>1. \A i \in Held : i # a => ring'[i] = ring[i]
    BY <1>4 DEF Held
  <2>. QED BY <1>2, <1>4, <1>5, <2>1 DEF RingInv, Listed
<1>14. ReadersSeeAll'
  BY <1>1, <1>4, NoneAssumption DEF RingInv, ReadersSeeAll, Held
<1>. QED BY <1>4, <1>5, <1>8, <1>9, <1>10, <1>11, <1>12, <1>13, <1>14 DEF RingInv

-----------------------------------------------------------------------------
(* Opening a detection, over the oldest one when the ring is full. *)

LEMMA OpenNewRing ==
    ASSUME RingInv, NEW o \in Occurrences, OpenNew(o),
           active[o.key] # None => ~ WithinWindow(WithID(active[o.key]), o.ts)
    PROVE  /\ RingInv' /\ Held' = Held \cup {head} /\ aggregator' = "publishing"
           /\ counts' = Count({"observed", "created"} \cup Evicts(ring[head]))
<1> DEFINE id == counts.created + 1
           n == [id |-> id, key |-> o.key, ts |-> o.ts, last |-> o.ts, count |-> 1, flows |-> <<o.flow>>]
           old == ring[head]
<1>1. RingTypes /\ Ordered /\ Anchored /\ ByKey /\ ByID /\ Listed /\ ReadersSeeAll
  BY DEF RingInv
<1>2. o.key \in Keys /\ o.ts \in Times /\ o.ts \in Int /\ o.flow \in Flows
  BY OccurrenceType
<1>3. head \in Slots /\ counts.created \in Nat /\ id \in Nat /\ id # None /\ Window \in Nat
  BY <1>1, AlertAssumption, SMTT(30) DEF RingTypes, CountNames
<1>4. /\ n \in Detection /\ n # None /\ n.id = id /\ n.key = o.key /\ n.ts = o.ts /\ n.last = o.ts
      /\ n.flows = <<o.flow>> /\ n.count = 1
  <2> DEFINE flows == <<o.flow>>
  <2>1. flows \in Seq(Flows) /\ 1 \in Nat
    BY <1>2
  <2>2. n = [id |-> id, key |-> o.key, ts |-> o.ts, last |-> o.ts, count |-> 1, flows |-> flows]
    OBVIOUS
  <2> HIDE DEF id, n, flows
  <2>3. n \in Detection
    BY <1>2, <1>3, <2>1, <2>2 DEF Detection
  <2>4. n.id = id /\ n.key = o.key /\ n.ts = o.ts /\ n.last = o.ts /\ n.flows = flows /\ n.count = 1
    BY <2>2
  <2>. QED BY <2>3, <2>4, NoneAssumption DEF flows
<1>5. /\ ring' = [ring EXCEPT ![head] = n]
      /\ head' = Advance(head) /\ full' = FullAfter(Advance(head))
      /\ byID' = (byID \ (IF old = None THEN {} ELSE {old.id})) \cup {id}
      /\ active' = [k \in Keys |-> IF k = o.key THEN id
                                   ELSE IF Forgotten(k, old) THEN None ELSE active[k]]
      /\ counts' = Count({"observed", "created"} \cup Evicts(old))
      /\ aggregator' = "publishing"
  BY DEF OpenNew
<1> HIDE DEF id, n, old
<1>6. /\ ring'[head] = n /\ \A i \in Slots \ {head} : ring'[i] = ring[i]
      /\ ring' \in [Slots -> Detection \cup {None}]
  BY <1>1, <1>3, <1>4, <1>5 DEF RingTypes
<1>7. Held' = Held \cup {head} /\ \A i \in Held' : i # head => i \in Held /\ ring'[i] = ring[i]
  BY <1>3, <1>4, <1>6 DEF Held
<1>8. Advance(head) \in Slots /\ Advance(head) = IF head = MaxRecent - 1 THEN 0 ELSE head + 1
  BY <1>3, AdvanceFacts
<1>9. counts' \in [CountNames -> Nat] /\ counts'.created = id
  <2>1. "created" \in {"observed", "created"} \cup Evicts(old) /\ "created" \in CountNames
    BY DEF CountNames
  <2>. QED BY <1>1, <1>5, <2>1, CountFacts DEF RingTypes, id
<1>10. \A i \in Held : ring[i].id \in Nat /\ ring[i].id < id
  BY <1>1, <1>3, HeldType DEF Ordered, id
<1>11. RingTypes'
  <2>1. full' \in BOOLEAN
    BY <1>1, <1>5 DEF FullAfter, RingTypes
  <2>2. active' \in [Keys -> Nat \cup {None}]
    BY <1>1, <1>3, <1>5 DEF RingTypes
  <2>. QED BY <1>5, <1>6, <1>8, <1>9, <2>1, <2>2 DEF RingTypes
<1>12. Ordered'
  <2>1. \A i \in Held' : ring'[i].id \in 1..counts'.created
    BY <1>1, <1>3, <1>4, <1>6, <1>7, <1>9, <1>10 DEF Ordered, id
  <2>2. ASSUME NEW i \in Held', NEW j \in Held', Before(i, j, head')
        PROVE  ring'[i].id < ring'[j].id
    <3>1. i \in Int /\ j \in Int /\ head \in Int /\ MaxRecent \in Int
          /\ 0 <= i /\ i < MaxRecent /\ 0 <= j /\ j < MaxRecent
      BY <1>3, SlotsAreInts DEF Held
    <3>2. head' = IF head = MaxRecent - 1 THEN 0 ELSE head + 1
      BY <1>5, <1>8
    <3>3. i # head
      BY <2>2, <3>1, <3>2 DEF Before
    <3>4. CASE j = head
      BY <1>4, <1>6, <1>7, <1>10, <3>3, <3>4
    <3>5. CASE j # head
      <4>1. Before(i, j, head)
        BY <2>2, <3>1, <3>2, <3>3, <3>5 DEF Before
      <4>. QED BY <1>1, <1>7, <3>3, <3>5, <4>1 DEF Ordered
    <3>. QED BY <3>4, <3>5
  <2>. QED BY <2>1, <2>2 DEF Ordered
\* the detection the key finds is over, and those before it were over even earlier
<1>13. ASSUME NEW j \in Held, ring[j].key = o.key PROVE o.ts > ring[j].ts + Window
  <2>1. active[o.key] # None
    BY <1>1, <1>2, <1>13 DEF ByKey
  <2>2. PICK a \in Held : /\ ring[a].key = o.key /\ ring[a].id = active[o.key]
                          /\ WithID(active[o.key]) = ring[a]
                          /\ \A i \in Held : ring[i].key = o.key => ring[i].id <= ring[a].id
    BY <1>2, <2>1, FoundByKey
  <2>3. ring[a].ts \in Int /\ ring[j].ts \in Int /\ ring[a].id \in Nat /\ ring[j].id \in Nat
    BY <1>1, HeldType
  <2>4. o.ts > ring[a].ts + Window
    BY <1>2, <1>3, <2>1, <2>2, <2>3 DEF WithinWindow
  <2>5. CASE j = a
    BY <2>4, <2>5
  <2>6. CASE j # a
    <3>1. ring[j].id # ring[a].id
      BY <1>1, <2>6, SlotsDiffer
    <3>2. ring[j].id < ring[a].id
      BY <1>13, <2>2, <2>3, <3>1
    <3>3. ring[a].ts > ring[j].ts + Window
      BY <1>1, <1>13, <2>2, <3>2 DEF Anchored
    <3>. QED BY <1>2, <1>3, <2>3, <2>4, <3>3
  <2>. QED BY <2>5, <2>6
<1>14. Anchored'
  <2>1. ASSUME NEW i \in Held' PROVE ring'[i].ts <= ring'[i].last /\ ring'[i].last <= ring'[i].ts + Window
    <3>1. CASE i = head
      BY <1>2, <1>3, <1>4, <1>6, <3>1
    <3>2. CASE i # head
      BY <1>1, <1>7, <3>2 DEF Anchored
    <3>. QED BY <3>1, <3>2
  <2>2. ASSUME NEW i \in Held', NEW j \in Held', ring'[i].key = ring'[j].key, ring'[i].id < ring'[j].id
        PROVE  ring'[j].ts > ring'[i].ts + Window
    <3>1. i # head
      <4> SUFFICES ASSUME i = head PROVE FALSE
        OBVIOUS
      <4>1. CASE j = head
        BY <1>3, <1>4, <1>6, <2>2, <4>1
      <4>2. CASE j # head
        <5>1. ring'[j].id < id /\ ring'[j].id \in Nat
          BY <1>7, <1>10, <4>2
        <5>. QED BY <1>3, <1>4, <1>6, <2>2, <5>1
      <4>. QED BY <4>1, <4>2
    <3>2. CASE j = head
      BY <1>4, <1>6, <1>7, <1>13, <2>2, <3>1, <3>2
    <3>3. CASE j # head
      BY <1>1, <1>7, <2>2, <3>1, <3>3 DEF Anchored
    <3>. QED BY <3>2, <3>3
  <2>. QED BY <2>1, <2>2 DEF Anchored
\* the slot that is filled held the oldest detection of all
<1>15. ASSUME NEW j \in Held, j # head, head \in Held PROVE old.id < ring[j].id
  <2>1. Before(head, j, head)
    BY <1>3, <1>15, SlotsAreInts DEF Before, Held
  <2>. QED BY <1>1, <1>15, <2>1 DEF Ordered, old
<1>16. ByKey'
  <2> SUFFICES ASSUME NEW k \in Keys
               PROVE  /\ active'[k] = None => \A i \in Held' : ring'[i].key # k
                      /\ active'[k] # None =>
                            \E a \in Held' : /\ ring'[a].key = k /\ ring'[a].id = active'[k]
                                             /\ \A j \in Held' : ring'[j].key = k => ring'[j].id <= ring'[a].id
    BY DEF ByKey
  <2>1. CASE k = o.key
    <3>1. active'[k] = id /\ head \in Held' /\ ring'[head].key = k /\ ring'[head].id = id
      BY <1>4, <1>5, <1>6, <1>7, <2>1
    <3>2. \A j \in Held' : ring'[j].id <= id
      BY <1>3, <1>4, <1>6, <1>7, <1>10
    <3>. QED BY <1>3, <3>1, <3>2
  <2>2. CASE k # o.key /\ Forgotten(k, old)
    <3>1. active'[k] = None
      BY <1>5, <2>2
    <3>2. active[k] # None /\ head \in Held /\ old.key = k /\ active[k] = old.id
      BY <1>3, <2>2 DEF Forgotten, Held, old
    <3>3. ASSUME NEW j \in Held, j # head PROVE ring[j].key # k
      <4> SUFFICES ASSUME ring[j].key = k PROVE FALSE
        OBVIOUS
      <4>1. PICK a \in Held : /\ ring[a].id = active[k]
                              /\ \A i \in Held : ring[i].key = k => ring[i].id <= ring[a].id
        BY <1>1, <3>2 DEF ByKey
      <4>2. ring[j].id <= old.id /\ old.id < ring[j].id
        BY <1>15, <3>2, <3>3, <4>1
      <4>3. ring[j].id \in Nat /\ old.id \in Nat
        BY <1>1, <3>2, HeldType DEF old
      <4>. QED BY <4>2, <4>3
    <3>. QED BY <1>4, <1>6, <1>7, <2>2, <3>1, <3>3
  <2>3. CASE k # o.key /\ ~ Forgotten(k, old)
    <3>1. active'[k] = active[k]
      BY <1>5, <2>3
    <3>2. CASE active[k] = None
      BY <1>1, <1>4, <1>6, <1>7, <2>3, <3>1, <3>2 DEF ByKey
    <3>3. CASE active[k] # None
      <4>1. PICK a \in Held : /\ ring[a].key = k /\ ring[a].id = active[k]
                              /\ \A j \in Held : ring[j].key = k => ring[j].id <= ring[a].id
        BY <1>1, <3>3 DEF ByKey
      <4>2. a # head
        BY <2>3, <3>3, <4>1 DEF Forgotten, Held, old
      <4>3. a \in Held' /\ ring'[a] = ring[a]
        BY <1>7, <4>2
      <4>4. \A j \in Held' : ring'[j].key = k => ring'[j].id <= ring[a].id
        BY <1>4, <1>6, <1>7, <2>3, <4>1
      <4>. QED BY <3>1, <3>3, <4>1, <4>3, <4>4
    <3>. QED BY <3>2, <3>3
  <2>. QED BY <2>1, <2>2, <2>3
<1>17. ByID'
  <2>1. \A x : x \in byID' <=> x = id \/ \E i \in Held : i # head /\ x = ring[i].id
    <3>1. \A i \in Held : i # head /\ head \in Held => ring[i].id # old.id
      BY <1>1, SlotsDiffer DEF old
    <3>2. \A x : x \in byID <=> \E i \in Held : x = ring[i].id
      BY <1>1 DEF ByID
    <3>3. old = None <=> head \notin Held
      BY <1>3 DEF Held, old
    <3>4. \A x : x \in byID' <=> x = id \/ (x \in byID /\ (head \in Held => x # old.id))
      BY <1>5, <3>3
    <3>. QED BY <3>1, <3>2, <3>4 DEF old
  <2>2. \A x : (\E i \in Held' : x = ring'[i].id) <=> x = id \/ \E i \in Held : i # head /\ x = ring[i].id
    BY <1>4, <1>6, <1>7
  <2>. QED BY <2>1, <2>2 DEF ByID
<1>18. Listed'
  <2>1. Len(n.flows) = 1 /\ IsInjective(n.flows)
    BY <1>4 DEF IsInjective
  <2>2. 1 <= MaxFlowIDs
    BY AlertAssumption
  <2>3. ASSUME NEW i \in Held'
        PROVE  /\ Len(ring'[i].flows) <= MaxFlowIDs /\ Len(ring'[i].flows) <= ring'[i].count
               /\ IsInjective(ring'[i].flows)
    <3>1. CASE i = head
      <4>1. ring'[i] = n /\ n.count = 1
        BY <1>4, <1>6, <3>1
      <4>2. Len(ring'[i].flows) = 1 /\ ring'[i].count = 1
        BY <2>1, <4>1
      <4>3. Len(ring'[i].flows) <= MaxFlowIDs /\ Len(ring'[i].flows) <= ring'[i].count
        BY <2>2, <4>2
      <4>4. IsInjective(ring'[i].flows)
        BY <2>1, <4>1
      <4>. QED BY <4>3, <4>4
    <3>2. CASE i # head
      BY <1>1, <1>7, <3>2 DEF Listed
    <3>. QED BY <3>1, <3>2
  <2>. QED BY <2>3 DEF Listed
<1>19. ReadersSeeAll'
  <2> SUFFICES ASSUME ~ full', NEW i \in Slots, i >= head' PROVE ring'[i] = None
    BY DEF ReadersSeeAll
  <2>1. ~ full /\ head' # 0
    BY <1>5 DEF FullAfter
  <2>2. i \in Int /\ head \in Int /\ head' = head + 1
    BY <1>3, <1>5, <1>8, <2>1, SlotsAreInts
  <2>. QED BY <1>1, <1>6, <2>1, <2>2 DEF ReadersSeeAll
<1>. QED BY <1>5, <1>7, <1>11, <1>12, <1>14, <1>16, <1>17, <1>18, <1>19 DEF RingInv, old

-----------------------------------------------------------------------------
(* A retention purge, which leaves holes. *)

LEMMA HeldFinite == IsFiniteSet(Held) /\ Cardinality(Held) \in Nat
<1>1. IsFiniteSet(Slots)
  BY SlotsAreInts, FS_Interval DEF Slots
<1>. QED BY <1>1, FS_Subset, FS_CardinalityType DEF Held

Purged == {i \in Held : ring[i].last < Head(queue).before}

LEMMA PurgeRing ==
    ASSUME RingInv, Head(queue).before \in Int, TakePurge
    PROVE  /\ RingInv' /\ Held' = Held \ Purged /\ aggregator' = aggregator
           /\ counts' = [counts EXCEPT !.expired = @ + Cardinality(Purged)]
           /\ Purged \subseteq Held /\ Cardinality(Purged) \in Nat
           /\ Cardinality(Held') = Cardinality(Held) - Cardinality(Purged)
<1>1. RingTypes /\ Ordered /\ Anchored /\ ByKey /\ ByID /\ Listed /\ ReadersSeeAll
  BY DEF RingInv
<1>2. Purged = {i \in Slots : ring[i] # None /\ ring[i].last < Head(queue).before} /\ Purged \subseteq Held
      /\ Held \subseteq Slots
  BY DEF Purged, Held
<1>3. /\ ring' = [i \in Slots |-> IF i \in Purged THEN None ELSE ring[i]]
      /\ byID' = byID \ {ring[i].id : i \in Purged}
      /\ active' = [k \in Keys |-> IF \E i \in Purged : Forgotten(k, ring[i]) THEN None ELSE active[k]]
      /\ counts' = [counts EXCEPT !.expired = @ + Cardinality(Purged)]
      /\ head' = head /\ full' = full /\ aggregator' = aggregator
  BY <1>2 DEF TakePurge, policyVars
<1>4. Held' = Held \ Purged /\ \A i \in Held' : i \in Held /\ i \notin Purged /\ ring'[i] = ring[i]
  BY <1>2, <1>3 DEF Held
<1>5. /\ IsFiniteSet(Purged) /\ Cardinality(Purged) \in Nat
      /\ Cardinality(Held') = Cardinality(Held) - Cardinality(Purged)
  <2>1. IsFiniteSet(Purged) /\ Cardinality(Purged) \in Nat
    BY <1>2, HeldFinite, FS_Subset, FS_CardinalityType
  <2>2. Held \cap Purged = Purged
    BY <1>2
  <2>. QED BY <1>4, <2>1, <2>2, HeldFinite, FS_Difference
<1>6. counts' \in [CountNames -> Nat] /\ counts'.created = counts.created
  <2> DEFINE c == Cardinality(Purged)
  <2> HIDE DEF c
  <2>1. counts' = [counts EXCEPT !.expired = @ + c] /\ c \in Nat
    BY <1>3, <1>5 DEF c
  <2>. QED BY <1>1, <2>1 DEF RingTypes, CountNames
<1>7. RingTypes'
  <2>1. ring' \in [Slots -> Detection \cup {None}] /\ active' \in [Keys -> Nat \cup {None}]
    BY <1>1, <1>3 DEF RingTypes
  <2>. QED BY <1>1, <1>3, <1>6, <2>1 DEF RingTypes
<1>8. Ordered'
  BY <1>1, <1>3, <1>4, <1>6 DEF Ordered
<1>9. Anchored'
  BY <1>1, <1>4 DEF Anchored
<1>10. ByKey'
  <2> SUFFICES ASSUME NEW k \in Keys
               PROVE  /\ active'[k] = None => \A i \in Held' : ring'[i].key # k
                      /\ active'[k] # None =>
                            \E a \in Held' : /\ ring'[a].key = k /\ ring'[a].id = active'[k]
                                             /\ \A j \in Held' : ring'[j].key = k => ring'[j].id <= ring'[a].id
    BY DEF ByKey
  <2>1. CASE active[k] = None
    BY <1>1, <1>3, <1>4, <2>1 DEF ByKey
  <2>2. CASE active[k] # None
    <3>1. PICK a \in Held : /\ ring[a].key = k /\ ring[a].id = active[k]
                            /\ \A j \in Held : ring[j].key = k => ring[j].id <= ring[a].id
      BY <1>1, <2>2 DEF ByKey
    <3>2. ring[a] # None /\ ring[a].ts \in Int /\ ring[a].last \in Int /\ ring[a].id \in Nat
      BY <1>1, HeldType DEF Held
    \* the newest of a key is the last of them to be purged
    <3>3. CASE a \in Purged
      <4>1. Forgotten(k, ring[a])
        BY <2>2, <3>1, <3>2 DEF Forgotten
      <4>2. active'[k] = None
        BY <1>3, <3>3, <4>1
      <4>3. ASSUME NEW j \in Held', ring'[j].key = k PROVE FALSE
        <5>1. j \in Held /\ j \notin Purged /\ j # a /\ ring[j].key = k
          BY <1>4, <3>3, <4>3
        <5>2. ring[j].ts \in Int /\ ring[j].last \in Int /\ ring[j].id \in Nat /\ Window \in Int
          BY <1>1, <5>1, HeldType, AlertAssumption
        <5>3. ring[j].id < ring[a].id
          BY <1>1, <3>1, <3>2, <5>1, <5>2, SlotsDiffer
        <5>4. ring[a].ts > ring[j].ts + Window /\ ring[j].last <= ring[j].ts + Window
              /\ ring[a].ts <= ring[a].last
          BY <1>1, <3>1, <5>1, <5>3 DEF Anchored
        <5>5. ring[a].last < Head(queue).before /\ ~ (ring[j].last < Head(queue).before)
          BY <3>3, <5>1 DEF Purged
        <5>. QED BY <3>2, <5>2, <5>4, <5>5
      <4>. QED BY <4>2, <4>3
    <3>4. CASE a \notin Purged
      <4>1. \A i \in Purged : ~ Forgotten(k, ring[i])
        BY <1>1, <1>2, <3>1, <3>4, SlotsDiffer DEF Forgotten
      <4>2. active'[k] = active[k] /\ a \in Held'
        BY <1>3, <1>4, <3>4, <4>1
      <4>. QED BY <1>4, <2>2, <3>1, <4>2
    <3>. QED BY <3>3, <3>4
  <2>. QED BY <2>1, <2>2
<1>11. ByID'
  <2>1. \A x : x \in byID' <=> x \in byID /\ \A i \in Purged : x # ring[i].id
    BY <1>3
  <2>2. \A x : x \in byID <=> \E i \in Held : x = ring[i].id
    BY <1>1 DEF ByID
  <2>3. \A i \in Held, j \in Purged : ring[i].id = ring[j].id => i = j
    BY <1>1, <1>2, SlotsDiffer
  <2>4. \A x : x \in byID' <=> \E i \in Held' : x = ring'[i].id
    BY <1>2, <1>4, <2>1, <2>2, <2>3
  <2>. QED BY <2>4 DEF ByID
<1>12. Listed'
  BY <1>1, <1>4 DEF Listed
<1>13. ReadersSeeAll'
  BY <1>1, <1>3 DEF ReadersSeeAll
<1>. QED BY <1>2, <1>3, <1>4, <1>5, <1>7, <1>8, <1>9, <1>10, <1>11, <1>12, <1>13 DEF RingInv

-----------------------------------------------------------------------------
(* Counting what waits in the queue and what readers get. *)

Items == [kind : {"verdict"}, oc : Occurrences] \cup AdminItems
Verdicts(q) == {i \in DOMAIN q : q[i].kind = "verdict"}

LEMMA VerdictsFinite ==
    ASSUME NEW q \in Seq(Items)
    PROVE  IsFiniteSet(Verdicts(q)) /\ Cardinality(Verdicts(q)) \in Nat
<1>1. Len(q) \in Nat /\ DOMAIN q = 1..Len(q)
  BY LenProperties
<1>2. IsFiniteSet(1..Len(q))
  BY <1>1, FS_Interval
<1>. QED BY <1>1, <1>2, FS_Subset, FS_CardinalityType DEF Verdicts

LEMMA VerdictsAppend ==
    ASSUME NEW q \in Seq(Items), NEW e \in Items
    PROVE  Cardinality(Verdicts(Append(q, e)))
              = Cardinality(Verdicts(q)) + (IF e.kind = "verdict" THEN 1 ELSE 0)
<1>1. /\ Append(q, e) \in Seq(Items) /\ Len(Append(q, e)) = Len(q) + 1
      /\ \A i \in 1..Len(q) : Append(q, e)[i] = q[i]
      /\ Append(q, e)[Len(q) + 1] = e
  BY AppendProperties
<1>2. Len(q) \in Nat /\ DOMAIN q = 1..Len(q) /\ DOMAIN Append(q, e) = 1..(Len(q) + 1)
  BY <1>1, LenProperties
<1>3. IsFiniteSet(Verdicts(q)) /\ Cardinality(Verdicts(q)) \in Nat /\ Len(q) + 1 \notin Verdicts(q)
  BY <1>2, VerdictsFinite DEF Verdicts
<1>4. CASE e.kind = "verdict"
  <2>1. Verdicts(Append(q, e)) = Verdicts(q) \cup {Len(q) + 1}
    BY <1>1, <1>2, <1>4 DEF Verdicts
  <2>. QED BY <1>3, <1>4, <2>1, FS_AddElement
<1>5. CASE e.kind # "verdict"
  <2>1. Verdicts(Append(q, e)) = Verdicts(q)
    BY <1>1, <1>2, <1>5 DEF Verdicts
  <2>. QED BY <1>3, <1>5, <2>1
<1>. QED BY <1>4, <1>5

LEMMA VerdictsTail ==
    ASSUME NEW q \in Seq(Items), q # <<>>
    PROVE  Cardinality(Verdicts(q))
              = Cardinality(Verdicts(Tail(q))) + (IF Head(q).kind = "verdict" THEN 1 ELSE 0)
<1>1. /\ Tail(q) \in Seq(Items) /\ Len(Tail(q)) = Len(q) - 1
      /\ \A i \in 1..Len(Tail(q)) : Tail(q)[i] = q[i + 1]
  BY HeadTailProperties
<1>2. /\ Len(q) \in Nat /\ DOMAIN q = 1..Len(q) /\ DOMAIN Tail(q) = 1..(Len(q) - 1) /\ Len(q) # 0
      /\ Head(q) = q[1]
  BY <1>1, LenProperties, EmptySeq
<1>3. IsFiniteSet(Verdicts(q)) /\ IsFiniteSet(Verdicts(Tail(q))) /\ Cardinality(Verdicts(q)) \in Nat
      /\ Cardinality(Verdicts(Tail(q))) \in Nat
  BY <1>1, VerdictsFinite
<1> DEFINE later == Verdicts(q) \ {1}
           shift == [i \in Verdicts(Tail(q)) |-> i + 1]
<1>4. shift \in Bijection(Verdicts(Tail(q)), later)
  <2>1. ASSUME NEW i \in Verdicts(Tail(q)) PROVE shift[i] = i + 1 /\ i \in Nat /\ shift[i] \in later
    BY <1>1, <1>2 DEF Verdicts
  <2>2. ASSUME NEW j \in later PROVE \E i \in Verdicts(Tail(q)) : shift[i] = j
    <3>1. j \in 2..Len(q) /\ q[j].kind = "verdict"
      BY <1>2 DEF Verdicts
    <3>2. j - 1 \in 1..Len(Tail(q)) /\ (j - 1) + 1 = j
      BY <1>1, <1>2, <3>1
    <3>3. Tail(q)[j - 1] = q[(j - 1) + 1]
      BY <1>1, <3>2
    <3>4. Tail(q)[j - 1].kind = "verdict"
      BY <3>1, <3>2, <3>3
    <3>5. j - 1 \in Verdicts(Tail(q))
      BY <1>1, <1>2, <3>2, <3>4 DEF Verdicts
    <3>6. shift[j - 1] = j
      BY <3>2, <3>5
    <3>. QED BY <3>5, <3>6
  <2>3. shift \in [Verdicts(Tail(q)) -> later] /\ DOMAIN shift = Verdicts(Tail(q))
    BY <2>1
  <2> HIDE DEF shift, later
  <2>4. IsInjective(shift)
    <3> SUFFICES ASSUME NEW i \in Verdicts(Tail(q)), NEW j \in Verdicts(Tail(q)), shift[i] = shift[j]
                 PROVE  i = j
      BY <2>3 DEF IsInjective
    <3>. QED BY <2>1
  <2>. QED BY <2>2, <2>3, <2>4 DEF Bijection, Injection, Surjection
<1>5. Cardinality(later) = Cardinality(Verdicts(Tail(q)))
  BY <1>3, <1>4, FS_Bijection DEF ExistsBijection
<1>6. Cardinality(later) = IF 1 \in Verdicts(q) THEN Cardinality(Verdicts(q)) - 1 ELSE Cardinality(Verdicts(q))
  BY <1>3, FS_RemoveElement
<1>7. 1 \in Verdicts(q) <=> Head(q).kind = "verdict"
  BY <1>2 DEF Verdicts
<1> HIDE DEF later
<1>. QED BY <1>3, <1>5, <1>6, <1>7

\* Readers get one detection per slot that is held.
LEMMA RetainedCount ==
    ASSUME RingTypes, Ordered
    PROVE  Cardinality(Retained) = Cardinality(Held)
<1> DEFINE at == [i \in Held |-> ring[i]]
<1>1. \A i \in Held : at[i] = ring[i] /\ at[i] \in Retained
  BY DEF Held, Retained
<1>2. \A d \in Retained : \E i \in Held : at[i] = d
  BY DEF Held, Retained
<1>3. at \in [Held -> Retained] /\ DOMAIN at = Held
  BY <1>1
<1> HIDE DEF at
<1>4. IsInjective(at)
  BY <1>1, <1>3, SlotsDiffer DEF IsInjective
<1>5. at \in Bijection(Held, Retained)
  BY <1>2, <1>3, <1>4 DEF Bijection, Injection, Surjection
<1>. QED BY <1>5, HeldFinite, FS_Bijection DEF ExistsBijection

-----------------------------------------------------------------------------
(* The inductive invariant. *)

QueueTypes ==
    /\ queue \in Seq(Items) /\ Len(queue) <= QueueSize
    /\ aggregator \in {"looping", "swapping", "publishing", "stopped"}
    /\ pol \in Policies \cup {InitPolicy} /\ hits \in Seq(Nat)
    /\ calls \in [{"observe", "admin"} -> Nat]
    /\ caller.pc \in {"idle", "sending", "waiting", "done"}
    /\ caller.pc = "sending" => caller.item \in AdminItems
    /\ quit \in BOOLEAN /\ statsPanicked \in BOOLEAN

Tallies ==
    /\ calls.observe = counts.observed + counts.dropped + Cardinality(Verdicts(queue))
    /\ counts.observed = counts.created + counts.deduped + counts.suppressed + counts.byRule
    /\ counts.created = Cardinality(Held) + counts.evicted + counts.expired

Announced ==
    /\ aggregator = "publishing" => counts.created >= 1
    /\ OneEventPerDetection

AlertInv == RingInv /\ QueueTypes /\ Tallies /\ Announced

LEMMA AlertInit == Init => AlertInv
<1> SUFFICES ASSUME Init PROVE AlertInv
  OBVIOUS
<1>1. /\ queue = <<>> /\ aggregator = "looping" /\ pol = InitPolicy
      /\ ring = [i \in Slots |-> None] /\ head = 0 /\ full = FALSE
      /\ byID = {} /\ active = [k \in Keys |-> None] /\ published = <<>> /\ caller = Idle
      /\ quit = FALSE /\ calls = [observe |-> 0, admin |-> 0] /\ statsPanicked = FALSE
      /\ counts = [c \in CountNames |-> 0]
  BY DEF Init, CountNames
<1>2. Held = {} /\ 0 \in Slots /\ Cardinality(Held) = 0
  <2>1. Held = {}
    BY <1>1 DEF Held
  <2>2. 0 \in Slots
    BY SlotsAreInts DEF Slots
  <2>. QED BY <2>1, <2>2, FS_EmptySet
<1>3. \A c \in CountNames : counts[c] = 0
  BY <1>1
<1>4. RingTypes
  BY <1>1, <1>2 DEF RingTypes
<1>5. Ordered /\ Anchored /\ ByKey /\ Listed
  BY <1>1, <1>2 DEF Ordered, Anchored, ByKey, Listed
<1>6. ByID /\ ReadersSeeAll
  BY <1>1, <1>2 DEF ByID, ReadersSeeAll
<1>7. hits \in Seq(Nat)
  <2>1. InitPolicy \in [min : Nat, rules : Seq(SUBSET Keys)]
    BY AlertAssumption
  <2>2. DOMAIN InitPolicy.rules = 1..Len(InitPolicy.rules) /\ Len(InitPolicy.rules) \in Nat
    BY <2>1, LenProperties
  <2>3. hits = [i \in 1..Len(InitPolicy.rules) |-> 0]
    BY <2>2 DEF Init
  <2>. QED BY <2>2, <2>3
<1>8. QueueTypes
  <2>1. queue \in Seq(Items) /\ Len(queue) <= QueueSize
    BY <1>1, AlertAssumption
  <2>2. calls \in [{"observe", "admin"} -> Nat]
    BY <1>1
  <2>3. caller.pc = "idle"
    BY <1>1 DEF Idle
  <2>. QED BY <1>1, <1>7, <2>1, <2>2, <2>3 DEF QueueTypes
<1>9. Tallies
  <2>1. Verdicts(queue) = {}
    BY <1>1 DEF Verdicts
  <2>2. Cardinality(Verdicts(queue)) = 0
    BY <2>1, FS_EmptySet
  <2>3. calls.observe = 0
    BY <1>1
  <2>. QED BY <1>2, <1>3, <2>2, <2>3 DEF Tallies, CountNames
<1>10. Announced
  <2>1. counts.created = 0 /\ aggregator = "looping" /\ published = <<>>
    BY <1>1, <1>3 DEF CountNames
  <2>. QED BY <2>1 DEF Announced, OneEventPerDetection
<1>. QED BY <1>4, <1>5, <1>6, <1>8, <1>9, <1>10 DEF AlertInv, RingInv

\* What a step keeps that leaves the ring alone and opens nothing.
LEMMA RingKept ==
    ASSUME RingInv, UNCHANGED ringVars, counts' \in [CountNames -> Nat], counts'.created = counts.created
    PROVE  RingInv' /\ Held' = Held
<1>1. UNCHANGED <<ring, head, full, byID, active>>
  BY DEF ringVars
<1>2. Held' = Held
  BY <1>1 DEF Held
<1>. QED BY <1>1, <1>2 DEF RingInv, RingTypes, Ordered, Anchored, ByKey, ByID, Listed, ReadersSeeAll

LEMMA ItemKinds ==
    /\ \A e \in Items : e.kind \in {"verdict", "policy", "purge"}
    /\ \A e \in Items : e.kind = "verdict" => e.oc \in Occurrences
    /\ \A e \in Items : e.kind = "policy" => e.policy \in Policies
    /\ \A e \in Items : e.kind = "purge" => e.before \in Int
    /\ \A e \in AdminItems : e \in Items /\ e.kind # "verdict"
    /\ \A o \in Occurrences : [kind |-> "verdict", oc |-> o] \in Items
BY DEF Items, AdminItems

LEMMA ObserveKeeps ==
    ASSUME AlertInv, NEW o \in Occurrences, Observe(o)
    PROVE  AlertInv'
<1>1. RingInv /\ QueueTypes /\ Tallies /\ Announced /\ counts \in [CountNames -> Nat] /\ RingTypes
  BY DEF AlertInv, RingInv, RingTypes
<1>2. /\ UNCHANGED <<aggregator, pol, hits, ring, head, full, byID, active, published, caller, quit,
                     statsPanicked>>
      /\ calls' = [calls EXCEPT !.observe = @ + 1]
  BY DEF Observe, policyVars, ringVars
<1>3. calls' \in [{"observe", "admin"} -> Nat] /\ calls'.observe = calls.observe + 1 /\ calls.observe \in Nat
  BY <1>1, <1>2 DEF QueueTypes
<1>4. CASE Len(queue) < QueueSize
  <2> DEFINE e == [kind |-> "verdict", oc |-> o]
  <2>1. e \in Items /\ e.kind = "verdict"
    BY ItemKinds
  <2>2. queue' = Append(queue, e) /\ counts' = counts
    BY <1>4 DEF Observe
  <2> HIDE DEF e
  <2>3. queue \in Seq(Items) /\ Len(queue) \in Nat
    BY <1>1, LenProperties DEF QueueTypes
  <2>4. queue' \in Seq(Items) /\ Len(queue') = Len(queue) + 1
    BY <2>1, <2>2, <2>3, AppendProperties
  <2>5. Cardinality(Verdicts(queue')) = Cardinality(Verdicts(queue)) + 1 /\ Cardinality(Verdicts(queue)) \in Nat
    BY <2>1, <2>2, <2>3, VerdictsAppend, VerdictsFinite
  <2>6. RingInv' /\ Held' = Held
    BY <1>1, <1>2, <2>2, RingKept DEF ringVars
  <2>7. Len(queue') <= QueueSize
    BY <1>4, <2>3, <2>4, AlertAssumption
  <2>8. QueueTypes'
    BY <1>1, <1>2, <1>3, <2>4, <2>7 DEF QueueTypes
  <2>9. Tallies'
    BY <1>1, <1>3, <2>2, <2>5, <2>6, SMTT(30) DEF Tallies, CountNames
  <2>10. Announced'
    BY <1>1, <1>2, <2>2 DEF Announced, OneEventPerDetection
  <2>. QED BY <2>6, <2>8, <2>9, <2>10 DEF AlertInv
<1>5. CASE ~ (Len(queue) < QueueSize)
  <2>1. counts' = Count({"dropped"}) /\ queue' = queue
    BY <1>5 DEF Observe
  <2>2. /\ counts' \in [CountNames -> Nat]
        /\ \A c \in CountNames : counts'[c] = IF c = "dropped" THEN counts[c] + 1 ELSE counts[c]
    BY <1>1, <2>1, CountFacts
  <2>3. counts'.created = counts.created
    BY <2>2 DEF CountNames
  <2>4. UNCHANGED ringVars
    BY <1>2 DEF ringVars
  <2>5. RingInv' /\ Held' = Held
    BY <1>1, <2>2, <2>3, <2>4, RingKept
  <2>6. QueueTypes'
    BY <1>1, <1>2, <1>3, <2>1 DEF QueueTypes
  <2>7. Cardinality(Verdicts(queue)) \in Nat
    BY <1>1, VerdictsFinite DEF QueueTypes
  <2>8. Tallies'
    BY <1>1, <1>3, <2>1, <2>2, <2>5, <2>7 DEF Tallies, CountNames
  <2>9. Announced'
    BY <1>1, <1>2, <2>3 DEF Announced, OneEventPerDetection
  <2>. QED BY <2>5, <2>6, <2>8, <2>9 DEF AlertInv
<1>. QED BY <1>4, <1>5

LEMMA CountsAreNat ==
    ASSUME counts \in [CountNames -> Nat]
    PROVE  /\ counts.created \in Nat /\ counts.deduped \in Nat /\ counts.evicted \in Nat
           /\ counts.expired \in Nat /\ counts.observed \in Nat /\ counts.dropped \in Nat
           /\ counts.suppressed \in Nat /\ counts.byRule \in Nat
BY DEF CountNames

LEMMA SuppressedKeeps ==
    ASSUME RingInv, QueueTypes, NEW i, NEW c \in {"suppressed", "byRule"}, UNCHANGED ringVars,
           counts' = Count({"observed", c}), hits' \in {hits, [hits EXCEPT ![i] = @ + 1]}
    PROVE  /\ RingInv' /\ Held' = Held /\ hits' \in Seq(Nat)
           /\ \A n \in CountNames : counts'[n] = IF n \in {"observed", c} THEN counts[n] + 1 ELSE counts[n]
<1>1. counts \in [CountNames -> Nat] /\ hits \in Seq(Nat)
  BY DEF RingInv, RingTypes, QueueTypes
<1>2. /\ counts' \in [CountNames -> Nat]
      /\ \A n \in CountNames : counts'[n] = IF n \in {"observed", c} THEN counts[n] + 1 ELSE counts[n]
  BY <1>1, CountFacts
<1>3. counts'.created = counts.created
  BY <1>2 DEF CountNames
<1>4. hits' \in Seq(Nat)
  <2> SUFFICES ASSUME hits' = [hits EXCEPT ![i] = @ + 1] PROVE hits' \in Seq(Nat)
    BY <1>1
  <2>1. hits \in [1..Len(hits) -> Nat] /\ Len(hits) \in Nat
    BY <1>1, LenProperties
  <2>2. \A j \in 1..Len(hits) : hits'[j] \in Nat
    BY <2>1
  <2>3. hits' \in [1..Len(hits) -> Nat]
    BY <2>1, <2>2
  <2>. QED BY <2>1, <2>3
<1>. QED BY <1>2, <1>3, <1>4, RingKept

LEMMA TakeVerdictKeeps ==
    ASSUME AlertInv, TakeVerdict
    PROVE  AlertInv'
<1>1. RingInv /\ QueueTypes /\ Tallies /\ Announced /\ counts \in [CountNames -> Nat] /\ RingTypes
  BY DEF AlertInv, RingInv, RingTypes
<1>2. /\ aggregator = "looping" /\ queue # <<>> /\ Head(queue).kind = "verdict"
      /\ queue' = Tail(queue) /\ UNCHANGED <<pol, published, caller, quit, calls, statsPanicked>>
  BY DEF TakeVerdict, Takes
<1> DEFINE o == Head(queue).oc
<1>3. queue \in Seq(Items) /\ Len(queue) \in Nat /\ Head(queue) \in Items
  BY <1>1, <1>2, LenProperties, HeadTailProperties DEF QueueTypes
<1>4. o \in Occurrences
  BY <1>2, <1>3, ItemKinds
<1>5. Apply(o)
  BY DEF TakeVerdict
<1> HIDE DEF o
<1>6. queue' \in Seq(Items) /\ Len(queue') <= QueueSize
  <2>1. Len(queue') = Len(queue) - 1 /\ queue' \in Seq(Items)
    BY <1>2, <1>3, HeadTailProperties
  <2>. QED BY <1>1, <1>3, <2>1, AlertAssumption DEF QueueTypes
<1>7. /\ Cardinality(Verdicts(queue)) = Cardinality(Verdicts(queue')) + 1
      /\ Cardinality(Verdicts(queue')) \in Nat
  BY <1>2, <1>3, <1>6, VerdictsTail, VerdictsFinite
<1>8. calls.observe \in Nat
  BY <1>1 DEF QueueTypes
<1>9. /\ counts.created \in Nat /\ counts.deduped \in Nat /\ counts.evicted \in Nat
      /\ counts.expired \in Nat /\ counts.observed \in Nat /\ counts.dropped \in Nat
      /\ counts.suppressed \in Nat /\ counts.byRule \in Nat /\ Tallies /\ Cardinality(Held) \in Nat
      /\ calls' = calls
  BY <1>1, <1>2, CountsAreNat, HeldFinite
<1>10. QueueTypes' \/ hits' \notin Seq(Nat) \/ aggregator' \notin {"looping", "publishing"}
  BY <1>1, <1>2, <1>6 DEF QueueTypes
\* a suppressed verdict is counted and nothing else
<1>11. ASSUME NEW i, NEW c \in {"suppressed", "byRule"}, UNCHANGED <<ringVars, aggregator>>,
              counts' = Count({"observed", c}), hits' \in {hits, [hits EXCEPT ![i] = @ + 1]}
       PROVE  AlertInv'
  <2>1. /\ RingInv' /\ Held' = Held /\ hits' \in Seq(Nat)
        /\ \A n \in CountNames : counts'[n] = IF n \in {"observed", c} THEN counts[n] + 1 ELSE counts[n]
    BY <1>1, <1>11, SuppressedKeeps
  <2>2. /\ counts'.observed = counts.observed + 1 /\ counts'.dropped = counts.dropped
        /\ counts'.created = counts.created /\ counts'.deduped = counts.deduped
        /\ counts'.evicted = counts.evicted /\ counts'.expired = counts.expired
    BY <1>1, <1>11, <2>1 DEF CountNames
  <2>3. \/ counts'.suppressed = counts.suppressed + 1 /\ counts'.byRule = counts.byRule
        \/ counts'.suppressed = counts.suppressed /\ counts'.byRule = counts.byRule + 1
    BY <1>11, <2>1 DEF CountNames
  <2>4. Tallies'
    <3>1. calls'.observe = counts'.observed + counts'.dropped + Cardinality(Verdicts(queue'))
      <4>1. /\ calls.observe = counts.observed + counts.dropped + (Cardinality(Verdicts(queue')) + 1)
            /\ calls'.observe = calls.observe
        BY <1>7, <1>9 DEF Tallies
      <4>2. Cardinality(Verdicts(queue')) \in Nat /\ counts.observed \in Nat /\ counts.dropped \in Nat
        BY <1>7, <1>9
      <4>. QED BY <2>2, <4>1, <4>2
    <3>2. counts'.observed = counts'.created + counts'.deduped + counts'.suppressed + counts'.byRule
      BY <1>9, <2>2, <2>3 DEF Tallies
    <3>3. counts'.created = Cardinality(Held') + counts'.evicted + counts'.expired
      BY <1>9, <2>1, <2>2 DEF Tallies
    <3>. QED BY <3>1, <3>2, <3>3 DEF Tallies
  <2>5. Announced'
    BY <1>1, <1>2, <1>11, <2>2 DEF Announced, OneEventPerDetection
  <2>6. QueueTypes'
    BY <1>2, <1>10, <1>11, <2>1
  <2>. QED BY <2>1, <2>4, <2>5, <2>6 DEF AlertInv
<1>12. CASE o.score < pol.min
  <2>1. UNCHANGED <<ringVars, aggregator>> /\ counts' = Count({"observed", "suppressed"}) /\ hits' = hits
    BY <1>5, <1>12 DEF Apply
  <2>. QED BY <1>11, <2>1
<1>13. CASE ~ (o.score < pol.min) /\ MatchedRule(o) # 0
  <2>1. /\ UNCHANGED <<ringVars, aggregator>> /\ counts' = Count({"observed", "byRule"})
        /\ hits' = [hits EXCEPT ![MatchedRule(o)] = @ + 1]
    BY <1>5, <1>13 DEF Apply
  <2>. QED BY <1>11, <2>1
<1>14. CASE /\ ~ (o.score < pol.min) /\ MatchedRule(o) = 0
            /\ active[o.key] # None /\ WithinWindow(WithID(active[o.key]), o.ts)
  <2>1. Fold(WithID(active[o.key]), o) /\ hits' = hits
    BY <1>5, <1>14 DEF Apply
  <2>2. PICK a \in Held : /\ ring[a].key = o.key /\ ring[a].id = active[o.key]
                          /\ WithID(active[o.key]) = ring[a]
                          /\ \A j \in Held : ring[j].key = o.key => ring[j].id <= ring[a].id
    BY <1>1, <1>4, <1>14, FoundByKey, OccurrenceType
  <2>3. Fold(ring[a], o) /\ o.ts <= ring[a].ts + Window
    BY <1>14, <2>1, <2>2 DEF WithinWindow
  <2>4. RingInv' /\ Held' = Held /\ counts' = Count({"observed", "deduped"}) /\ aggregator' = "looping"
    BY <1>1, <1>4, <2>3, FoldRing
  <2>5. \A n \in CountNames : counts'[n] = IF n \in {"observed", "deduped"} THEN counts[n] + 1 ELSE counts[n]
    BY <1>1, <2>4, CountFacts
  <2>6. counts'.created = counts.created
    BY <2>5 DEF CountNames
  <2>7. Tallies'
    <3>1. /\ counts'.created = counts.created /\ counts'.observed = counts.observed + 1
          /\ counts'.dropped = counts.dropped /\ counts'.deduped = counts.deduped + 1
          /\ counts'.suppressed = counts.suppressed /\ counts'.byRule = counts.byRule
          /\ counts'.expired = counts.expired /\ counts'.evicted = counts.evicted
      BY <2>5 DEF CountNames
    <3>2. calls'.observe = counts'.observed + counts'.dropped + Cardinality(Verdicts(queue'))
      BY <1>7, <1>8, <1>9, <3>1 DEF Tallies
    <3>3. counts'.observed = counts'.created + counts'.deduped + counts'.suppressed + counts'.byRule
      BY <1>9, <3>1 DEF Tallies
    <3>4. counts'.created = Cardinality(Held') + counts'.evicted + counts'.expired
      BY <1>9, <2>4, <3>1 DEF Tallies
    <3>. QED BY <3>2, <3>3, <3>4 DEF Tallies
  <2>8. Announced'
    BY <1>1, <1>2, <2>4, <2>6 DEF Announced, OneEventPerDetection
  <2>9. QueueTypes'
    BY <1>1, <1>10, <2>1, <2>4 DEF QueueTypes
  <2>. QED BY <2>4, <2>7, <2>8, <2>9 DEF AlertInv
<1>15. CASE /\ ~ (o.score < pol.min) /\ MatchedRule(o) = 0
            /\ ~ (active[o.key] # None /\ WithinWindow(WithID(active[o.key]), o.ts))
  <2>1. OpenNew(o) /\ hits' = hits
    BY <1>5, <1>15 DEF Apply
  <2>2. /\ RingInv' /\ Held' = Held \cup {head} /\ aggregator' = "publishing"
        /\ counts' = Count({"observed", "created"} \cup Evicts(ring[head]))
    BY <1>1, <1>4, <1>15, <2>1, OpenNewRing
  <2>3. \A n \in CountNames : counts'[n] = IF n \in {"observed", "created"} \cup Evicts(ring[head])
                                           THEN counts[n] + 1 ELSE counts[n]
    BY <1>1, <2>2, CountFacts
  <2>4. head \in Held <=> ring[head] # None
    BY <1>1 DEF RingTypes, Held
  <2>5. /\ Cardinality(Held') = (IF head \in Held THEN Cardinality(Held) ELSE Cardinality(Held) + 1)
        /\ Cardinality(Held) \in Nat
    BY <2>2, HeldFinite, FS_AddElement
  <2>6. counts'.evicted = IF head \in Held THEN counts.evicted + 1 ELSE counts.evicted
    BY <2>3, <2>4 DEF Evicts, CountNames
  <2>7. /\ counts'.created = counts.created + 1 /\ counts'.observed = counts.observed + 1
        /\ counts'.dropped = counts.dropped /\ counts'.deduped = counts.deduped
        /\ counts'.suppressed = counts.suppressed /\ counts'.byRule = counts.byRule
        /\ counts'.expired = counts.expired
    BY <2>3 DEF Evicts, CountNames
  <2>8. Tallies'
    BY <1>7, <1>8, <1>9, <2>5, <2>6, <2>7 DEF Tallies
  <2>9. counts.created \in Nat /\ (counts.created + 1) - 1 = counts.created - 0
    BY <1>1 DEF CountNames
  <2>10. Announced'
    BY <1>1, <1>2, <2>2, <2>7, <2>9 DEF Announced, OneEventPerDetection
  <2>11. QueueTypes'
    BY <1>1, <1>10, <2>1, <2>2 DEF QueueTypes
  <2>. QED BY <2>2, <2>8, <2>10, <2>11 DEF AlertInv
<1>. QED BY <1>12, <1>13, <1>14, <1>15

LEMMA CallerKeeps ==
    ASSUME AlertInv,
           \/ \E item \in AdminItems : Call(item)
           \/ CallSends \/ CallGivesUp \/ CallReturns \/ Stats \/ Close
    PROVE  AlertInv'
<1>1. RingInv /\ QueueTypes /\ Tallies /\ Announced /\ counts \in [CountNames -> Nat]
      /\ queue \in Seq(Items) /\ Len(queue) \in Nat
  BY LenProperties DEF AlertInv, RingInv, RingTypes, QueueTypes
<1>2. UNCHANGED <<aggregator, pol, hits, ringVars, counts, published>>
  BY DEF Call, CallSends, CallGivesUp, CallReturns, Stats, Close, policyVars
<1>3. RingInv' /\ Held' = Held
  BY <1>1, <1>2, RingKept
<1>4. Announced'
  BY <1>1, <1>2 DEF Announced, OneEventPerDetection
<1>5. calls' \in [{"observe", "admin"} -> Nat] /\ calls'.observe = calls.observe
  <2>1. CASE \E item \in AdminItems : Call(item)
    BY <1>1, <2>1, SMTT(30) DEF Call, QueueTypes
  <2>2. CASE CallSends \/ CallGivesUp \/ CallReturns \/ Stats \/ Close
    BY <1>1, <2>2 DEF CallSends, CallGivesUp, CallReturns, Stats, Close, QueueTypes
  <2>. QED BY <2>1, <2>2
<1>6. /\ caller'.pc \in {"idle", "sending", "waiting", "done"}
      /\ caller'.pc = "sending" => caller'.item \in AdminItems
      /\ quit' \in BOOLEAN /\ statsPanicked' \in BOOLEAN
  <2>1. CASE \E item \in AdminItems : Call(item)
    BY <1>1, <2>1 DEF Call, QueueTypes
  <2>2. CASE CallSends \/ CallGivesUp \/ CallReturns
    <3>1. caller'.pc \in {"idle", "waiting"} /\ UNCHANGED <<quit, statsPanicked>>
      BY <2>2 DEF CallSends, CallGivesUp, CallReturns, Idle
    <3>2. quit' \in BOOLEAN /\ statsPanicked' \in BOOLEAN
      BY <1>1, <3>1 DEF QueueTypes
    <3>3. caller'.pc \in {"idle", "sending", "waiting", "done"} /\ caller'.pc # "sending"
      BY <3>1
    <3>. QED BY <3>2, <3>3
  <2>3. CASE Stats \/ Close
    <3>1. caller' = caller
      BY <2>3 DEF Stats, Close
    <3>2. quit' \in BOOLEAN
      BY <1>1, <2>3 DEF Stats, Close, QueueTypes
    <3>3. statsPanicked' \in BOOLEAN
      <4>1. CASE Stats
        <5>1. statsPanicked' = (Len(pol.rules) > Len(hits))
          BY <4>1 DEF Stats
        <5>2. (Len(pol.rules) > Len(hits)) \in BOOLEAN
          OBVIOUS
        <5>. QED BY <5>1, <5>2, Zenon
      <4>2. CASE Close
        BY <1>1, <4>2 DEF Close, QueueTypes
      <4>. QED BY <2>3, <4>1, <4>2
    <3>. QED BY <1>1, <3>1, <3>2, <3>3 DEF QueueTypes
  <2>. QED BY <2>1, <2>2, <2>3
<1>7. /\ queue' \in Seq(Items) /\ Len(queue') <= QueueSize
      /\ Cardinality(Verdicts(queue')) = Cardinality(Verdicts(queue))
  <2>1. CASE CallSends
    <3>1. caller.item \in Items /\ caller.item.kind # "verdict"
      BY <1>1, <2>1, ItemKinds DEF CallSends, QueueTypes
    <3>2. queue' = Append(queue, caller.item) /\ Len(queue) < QueueSize
      BY <2>1 DEF CallSends
    <3> DEFINE item == caller.item
    <3> HIDE DEF item
    <3>3. item \in Items /\ item.kind # "verdict" /\ queue' = Append(queue, item)
      BY <3>1, <3>2 DEF item
    <3>4. queue' \in Seq(Items) /\ Len(queue') = Len(queue) + 1
      BY <1>1, <3>3, AppendProperties
    <3>5. Cardinality(Verdicts(queue')) = Cardinality(Verdicts(queue))
      BY <1>1, <3>3, VerdictsAppend, VerdictsFinite
    <3>6. Len(queue') <= QueueSize
      BY <1>1, <3>2, <3>4, AlertAssumption
    <3>. QED BY <3>4, <3>5, <3>6
  <2>2. CASE ~ CallSends
    <3>1. queue' = queue
      BY <2>2 DEF Call, CallGivesUp, CallReturns, Stats, Close
    <3>. QED BY <1>1, <3>1 DEF QueueTypes
  <2>. QED BY <2>1, <2>2
<1>8. QueueTypes'
  BY <1>1, <1>2, <1>5, <1>6, <1>7 DEF QueueTypes
<1>9. Tallies'
  BY <1>1, <1>2, <1>3, <1>5, <1>7 DEF Tallies
<1>. QED BY <1>3, <1>4, <1>8, <1>9 DEF AlertInv

LEMMA DoneType ==
    ASSUME QueueTypes, caller' \in {caller, Done}
    PROVE  /\ caller'.pc \in {"idle", "sending", "waiting", "done"}
           /\ caller'.pc = "sending" => caller'.item \in AdminItems
BY DEF QueueTypes, Done

\* Publishing, swapping the policy and stopping touch neither ring nor counters.
LEMMA AggregatorKeeps ==
    ASSUME AlertInv, Publish \/ TakePolicy \/ ResetHits \/ Stop
    PROVE  AlertInv'
<1>1. RingInv /\ QueueTypes /\ Tallies /\ Announced /\ counts \in [CountNames -> Nat]
      /\ queue \in Seq(Items) /\ Len(queue) \in Nat
  BY LenProperties DEF AlertInv, RingInv, RingTypes, QueueTypes
<1>2. UNCHANGED <<ringVars, counts, quit, calls, statsPanicked>> /\ caller' \in {caller, Done}
  BY DEF Publish, TakePolicy, Takes, ResetHits, Stop, policyVars
<1>3. RingInv' /\ Held' = Held
  BY <1>1, <1>2, RingKept
<1>4. /\ queue' \in Seq(Items) /\ Len(queue') <= QueueSize
      /\ Cardinality(Verdicts(queue')) = Cardinality(Verdicts(queue))
      /\ pol' \in Policies \cup {InitPolicy}
  <2>1. CASE TakePolicy
    <3>1. queue # <<>> /\ Head(queue).kind = "policy" /\ queue' = Tail(queue) /\ pol' = Head(queue).policy
      BY <2>1 DEF TakePolicy, Takes
    <3>2. Head(queue) \in Items /\ queue' \in Seq(Items) /\ Len(queue') = Len(queue) - 1
      BY <1>1, <3>1, HeadTailProperties
    <3>3. Cardinality(Verdicts(queue')) = Cardinality(Verdicts(queue))
      <4>1. Cardinality(Verdicts(queue)) = Cardinality(Verdicts(queue')) + 0
        BY <1>1, <3>1, VerdictsTail
      <4>. QED BY <3>2, <4>1, VerdictsFinite
    <3>4. Len(queue') <= QueueSize
      BY <1>1, <3>2, AlertAssumption DEF QueueTypes
    <3>. QED BY <3>1, <3>2, <3>3, <3>4, ItemKinds
  <2>2. CASE Publish \/ ResetHits \/ Stop
    <3>1. queue' = queue /\ pol' = pol
      BY <2>2 DEF Publish, ResetHits, Stop, policyVars
    <3>. QED BY <1>1, <3>1 DEF QueueTypes
  <2>. QED BY <2>1, <2>2
<1>5. aggregator' \in {"looping", "swapping", "stopped"} /\ hits' \in Seq(Nat)
  <2>1. CASE ResetHits
    <3>1. pol \in [min : Nat, rules : Seq(SUBSET Keys)]
      BY <1>1, AlertAssumption DEF QueueTypes
    <3>2. DOMAIN pol.rules = 1..Len(pol.rules) /\ Len(pol.rules) \in Nat
      BY <3>1, LenProperties
    <3>3. hits' = [i \in 1..Len(pol.rules) |-> 0]
      BY <2>1, <3>2 DEF ResetHits
    <3>4. hits' \in Seq(Nat)
      BY <3>2, <3>3
    <3>. QED BY <2>1, <3>4 DEF ResetHits
  <2>2. CASE Publish \/ TakePolicy \/ Stop
    BY <1>1, <2>2 DEF Publish, TakePolicy, Stop, QueueTypes, policyVars
  <2>. QED BY <2>1, <2>2
<1>6. QueueTypes'
  BY <1>1, <1>2, <1>4, <1>5, DoneType DEF QueueTypes
<1>7. Tallies'
  BY <1>1, <1>2, <1>3, <1>4 DEF Tallies
<1>8. Announced'
  <2>1. CASE Publish
    <3> DEFINE n == counts.created
    <3>1. n \in Nat /\ n >= 1 /\ aggregator = "publishing" /\ aggregator' = "looping"
      BY <1>1, <2>1, CountsAreNat DEF Announced, Publish
    <3>2. published = [i \in 1..(n - 1) |-> i] /\ published' = Append(published, n) /\ counts' = counts
      BY <1>1, <2>1, <3>1 DEF Announced, OneEventPerDetection, Publish
    <3> HIDE DEF n
    <3>3. published \in Seq(Nat) /\ Len(published) = n - 1
      BY <3>1, <3>2
    <3>4. /\ Append(published, n) \in Seq(Nat) /\ Len(Append(published, n)) = n
          /\ \A i \in 1..(n - 1) : Append(published, n)[i] = i
          /\ Append(published, n)[n] = n
      BY <3>1, <3>2, <3>3, AppendProperties
    <3>5. published' = [i \in 1..n |-> i]
      <4>1. DOMAIN published' = 1..n
        BY <3>2, <3>4, LenProperties
      <4>2. \A i \in 1..n : published'[i] = i
        BY <3>1, <3>2, <3>4
      <4>3. published' \in Seq(Nat)
        BY <3>2, <3>4
      <4>. QED BY <4>1, <4>2, <4>3
    <3>6. n - 0 = n
      BY <3>1
    <3>. QED BY <3>1, <3>2, <3>5, <3>6 DEF Announced, OneEventPerDetection, n
  <2>2. CASE TakePolicy \/ ResetHits \/ Stop
    <3>1. aggregator # "publishing" /\ aggregator' # "publishing" /\ published' = published
      BY <2>2 DEF TakePolicy, Takes, ResetHits, Stop
    <3>. QED BY <1>1, <1>2, <3>1 DEF Announced, OneEventPerDetection
  <2>. QED BY <2>1, <2>2
<1>. QED BY <1>3, <1>6, <1>7, <1>8 DEF AlertInv

LEMMA TakePurgeKeeps ==
    ASSUME AlertInv, TakePurge
    PROVE  AlertInv'
<1>1. RingInv /\ QueueTypes /\ Tallies /\ Announced /\ counts \in [CountNames -> Nat]
      /\ queue \in Seq(Items) /\ Len(queue) \in Nat
  BY LenProperties DEF AlertInv, RingInv, RingTypes, QueueTypes
<1>2. /\ aggregator = "looping" /\ queue # <<>> /\ Head(queue).kind = "purge" /\ queue' = Tail(queue)
      /\ UNCHANGED <<pol, hits, aggregator, published, quit, calls, statsPanicked>> /\ caller' = Done
  BY DEF TakePurge, Takes, policyVars
<1>3. Head(queue) \in Items /\ queue' \in Seq(Items) /\ Len(queue') = Len(queue) - 1
  BY <1>1, <1>2, HeadTailProperties
<1>4. /\ RingInv' /\ Held' = Held \ Purged /\ aggregator' = aggregator
      /\ counts' = [counts EXCEPT !.expired = @ + Cardinality(Purged)]
      /\ Purged \subseteq Held /\ Cardinality(Purged) \in Nat
      /\ Cardinality(Held') = Cardinality(Held) - Cardinality(Purged)
  BY <1>1, <1>2, <1>3, ItemKinds, PurgeRing
<1>5. Cardinality(Verdicts(queue')) = Cardinality(Verdicts(queue))
  <2>1. Cardinality(Verdicts(queue)) = Cardinality(Verdicts(queue')) + 0
    BY <1>1, <1>2, VerdictsTail
  <2>. QED BY <1>3, <2>1, VerdictsFinite
<1>6. Len(queue') <= QueueSize
  BY <1>1, <1>3, AlertAssumption DEF QueueTypes
<1>7. QueueTypes'
  BY <1>1, <1>2, <1>3, <1>6, DoneType DEF QueueTypes
<1>8. /\ counts'.created = counts.created /\ counts'.observed = counts.observed
      /\ counts'.dropped = counts.dropped /\ counts'.deduped = counts.deduped
      /\ counts'.suppressed = counts.suppressed /\ counts'.byRule = counts.byRule
      /\ counts'.evicted = counts.evicted /\ counts'.expired = counts.expired + Cardinality(Purged)
  BY <1>1, <1>4 DEF CountNames
<1>9. Tallies'
  <2>1. counts'.created = Cardinality(Held') + counts'.evicted + counts'.expired
    BY <1>1, <1>4, <1>8, CountsAreNat, HeldFinite, SMTT(30) DEF Tallies
  <2>. QED BY <1>1, <1>2, <1>5, <1>8, <2>1 DEF Tallies
<1>10. Announced'
  BY <1>1, <1>2, <1>8 DEF Announced, OneEventPerDetection
<1>. QED BY <1>4, <1>7, <1>9, <1>10 DEF AlertInv

LEMMA AlertNext == AlertInv /\ [Next]_vars => AlertInv'
<1> SUFFICES ASSUME AlertInv, [Next]_vars PROVE AlertInv'
  OBVIOUS
<1>1. CASE \E o \in Occurrences : Observe(o)
  BY <1>1, ObserveKeeps
<1>2. CASE TakeVerdict
  BY <1>2, TakeVerdictKeeps
<1>3. CASE TakePurge
  BY <1>3, TakePurgeKeeps
<1>4. CASE Publish \/ TakePolicy \/ ResetHits \/ Stop
  BY <1>4, AggregatorKeeps
<1>5. CASE \/ \E item \in AdminItems : Call(item)
           \/ CallSends \/ CallGivesUp \/ CallReturns \/ Stats \/ Close
  BY <1>5, CallerKeeps
<1>6. CASE UNCHANGED vars
  <2>1. UNCHANGED <<ringVars, counts>> /\ UNCHANGED <<queue, aggregator, pol, hits, published, caller,
                    quit, calls, statsPanicked>>
    BY <1>6 DEF vars, policyVars
  <2>2. RingInv' /\ Held' = Held
    BY <2>1, RingKept DEF AlertInv, RingInv, RingTypes
  <2>. QED BY <2>1, <2>2 DEF AlertInv, QueueTypes, Tallies, Announced, OneEventPerDetection
<1>. QED BY <1>1, <1>2, <1>3, <1>4, <1>5, <1>6 DEF Next, Aggregator

-----------------------------------------------------------------------------
(* What the invariant says of the properties the runs check. *)

LEMMA AlertImplies == AlertInv => ListsAgree /\ WindowsAnchored /\ CountsAgree
<1> SUFFICES ASSUME AlertInv PROVE ListsAgree /\ WindowsAnchored /\ CountsAgree
  OBVIOUS
<1>1. RingTypes /\ Ordered /\ Anchored /\ ByKey /\ ByID /\ Listed /\ ReadersSeeAll
  BY DEF AlertInv, RingInv
<1>2. QueueTypes /\ Tallies /\ Announced
  BY DEF AlertInv
<1>3. \A d : d \in Retained <=> \E i \in Held : d = ring[i]
  BY DEF Retained, Held
<1>4. TypeOK
  <2>1. byID \subseteq Nat
    BY <1>1, HeldType DEF ByID
  <2>2. published \in Seq(Nat)
    <3> DEFINE n == counts.created - IF aggregator = "publishing" THEN 1 ELSE 0
    <3>1. n \in Nat
      BY <1>1, <1>2, CountsAreNat DEF Announced, RingTypes
    <3>2. published = [i \in 1..n |-> i]
      BY <1>2 DEF Announced, OneEventPerDetection
    <3> HIDE DEF n
    <3>. QED BY <3>1, <3>2
  <2>. QED BY <1>1, <1>2, <2>1, <2>2 DEF TypeOK, RingTypes, QueueTypes
<1>5. IndexesAgree
  <2>1. byID = {d.id : d \in Retained}
    <3>1. \A x : (\E d \in Retained : x = d.id) <=> (\E i \in Held : x = ring[i].id)
      BY <1>3
    <3>. QED BY <1>1, <3>1 DEF ByID
  <2>2. ASSUME NEW k \in Keys, NEW ids, ids = {d.id : d \in {e \in Retained : e.key = k}}
        PROVE  IF ids = {} THEN active[k] = None
               ELSE active[k] \in ids /\ \A x \in ids : x <= active[k]
    <3>1. \A x : x \in ids <=> \E i \in Held : ring[i].key = k /\ x = ring[i].id
      BY <1>3, <2>2
    <3>2. CASE active[k] = None
      BY <1>1, <3>1, <3>2 DEF ByKey
    <3>3. CASE active[k] # None
      <4>1. PICK a \in Held : /\ ring[a].key = k /\ ring[a].id = active[k]
                              /\ \A j \in Held : ring[j].key = k => ring[j].id <= ring[a].id
        BY <1>1, <3>3 DEF ByKey
      <4>. QED BY <3>1, <4>1
    <3>. QED BY <3>2, <3>3
  <2>. QED BY <2>1, <2>2 DEF IndexesAgree
<1>6. FlowListSound
  BY <1>1, <1>3 DEF FlowListSound, Listed
<1>7. WindowsAnchored
  BY <1>1, <1>3 DEF WindowsAnchored, Anchored
<1>8. EverythingCounted
  <2>1. Cardinality(Retained) = Cardinality(Held)
    BY <1>1, RetainedCount
  <2>. QED BY <1>2, <2>1 DEF EverythingCounted, Tallies, Verdicts
<1>. QED BY <1>1, <1>2, <1>4, <1>5, <1>6, <1>7, <1>8 DEF ListsAgree, CountsAgree, Announced

LEMMA AlertAlwaysInv == Spec => []AlertInv
BY AlertInit, AlertNext, PTL DEF Spec

\* However verdicts, repeats, evictions, policy swaps and purges interleave, the ring, the map by id,
\* the map by key and what a reader walks are one list of detections, each with a sound flow list
\* (Store.open, Store.fold, Store.purge, Store.Detections in internal/alert/alert.go).
THEOREM ListsAlwaysAgree == Spec => []ListsAgree
BY AlertAlwaysInv, AlertImplies, PTL

\* A detection absorbs nothing past the window anchored at its first verdict, and two retained
\* detections of one key never share a window, whatever the order of timestamps (withinWindow).
THEOREM WindowsAlwaysAnchored == Spec => []WindowsAnchored
BY AlertAlwaysInv, AlertImplies, PTL

\* Every verdict offered is in exactly one counter or still queued, every detection is retained,
\* evicted or expired, and has had exactly one AlertCreated event (Store.apply).
THEOREM CountsAlwaysAgree == Spec => []CountsAgree
BY AlertAlwaysInv, AlertImplies, PTL

=============================================================================
