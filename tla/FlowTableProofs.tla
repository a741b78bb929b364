-------------------------- MODULE FlowTableProofs --------------------------
(* Proofs about FlowTable for every value of its constants. *)
EXTENDS FlowTable, FiniteSetTheorems, TLAPS

LEMMA NoFlowIsNoEntry == NoFlow \notin Entry
BY DEF NoFlow, Entry

LEMMA LiveEntry ==
    ASSUME NEW t \in Table, NEW k \in Live(t)
    PROVE  k \in Keys /\ t.flows[k] \in Entry
BY DEF Table, Live

LEMMA NewEntryType ==
    ASSUME NEW id \in Nat \ {0}, NEW p \in Packet
    PROVE  NewEntry(id, p) \in Entry
BY OptionsAssumption, ClockAssumption DEF NewEntry, Entry, Packet, Other, Sides, Times, NoTime

LEMMA FoldType ==
    ASSUME NEW e \in Entry, NEW p \in Packet
    PROVE  Fold(e, p) \in Entry
BY DEF Fold, Entry, Packet, Times, Sides

LEMMA RecType ==
    ASSUME NEW e \in Entry, NEW reason \in CloseReasons \cup {"snapshot"}
    PROVE  Rec(e, reason) \in Emission
BY DEF Rec, Entry, Emission

LEMMA EvictType ==
    ASSUME NEW t \in Table, NEW k \in Live(t)
    PROVE  Evict(t, k) \in Table
<1> DEFINE flows == [t.flows EXCEPT ![k] = NoFlow]
           closed == t.closed + 1
           evicted == t.evicted + 1
           emitted == t.emitted \cup {Rec(t.flows[k], "evicted")}
<1>1. closed \in Nat /\ evicted \in Nat /\ emitted \in SUBSET Emission
  BY LiveEntry, RecType DEF CloseReasons, Table
<1>2. flows \in [Keys -> Entry \cup {NoFlow}]
  BY DEF Table
<1>3. Evict(t, k) = [t EXCEPT !.flows = flows, !.closed = closed, !.evicted = evicted,
                              !.emitted = emitted]
  BY DEF Evict
<1> HIDE DEF flows, closed, evicted, emitted
<1>. QED BY <1>1, <1>2, <1>3 DEF Table

LEMMA InsertedType ==
    ASSUME NEW t \in Table, NEW p \in Packet
    PROVE  Inserted(t, p) \in Table
<1> DEFINE started == NextID(t)
           recentDown == [t.recentDown EXCEPT ![p.key] = NoTime]
           flows == [t.flows EXCEPT ![p.key] = NewEntry(NextID(t), p)]
<1>1. started \in Nat /\ NewEntry(NextID(t), p) \in Entry
  BY NewEntryType DEF Table, NextID
<1>2. recentDown \in [Keys -> Times \cup {NoTime}] /\ flows \in [Keys -> Entry \cup {NoFlow}]
  BY <1>1 DEF Table
<1>3. Inserted(t, p) = [t EXCEPT !.started = started, !.recentDown = recentDown, !.flows = flows]
  BY DEF Inserted
<1> HIDE DEF started, recentDown, flows
<1>. QED BY <1>1, <1>2, <1>3 DEF Table

LEMMA OpenedType ==
    ASSUME NEW t \in Table, NEW p \in Packet
    PROVE  Opened(t, p) \subseteq Table
<1>1. Oldest(Inserted(t, p)) \subseteq Live(Inserted(t, p))
  BY DEF Oldest
<1>. QED BY <1>1, InsertedType, EvictType DEF Opened

LEMMA FoldIntoType ==
    ASSUME NEW t \in Table, NEW e \in Entry, NEW p \in Packet
    PROVE  FoldInto(t, e, p) \in Table
<1> DEFINE f == Fold(e, p)
           closed == t.closed + 1
           emitted == t.emitted \cup {Rec(f, "fin_rst")}
           down == [t EXCEPT !.flows[p.key] = NoFlow, !.recentDown[p.key] = p.ts,
                             !.closed = closed, !.emitted = emitted]
           kept == [t EXCEPT !.flows[p.key] = f]
<1>1. f \in Entry /\ closed \in Nat /\ p.key \in Keys /\ p.ts \in Times
  BY FoldType DEF Table, Packet
<1>2. emitted \in SUBSET Emission
  BY <1>1, RecType DEF CloseReasons, Table
<1>3. FoldInto(t, e, p) \in {t, down, kept}
  BY DEF FoldInto
<1> HIDE DEF f, closed, emitted
<1>4. down \in Table /\ kept \in Table
  BY <1>1, <1>2 DEF Table
<1>. QED BY <1>3, <1>4

LEMMA ObserveType ==
    ASSUME NEW t \in Table, NEW p \in Packet, NEW u \in Observe(t, p)
    PROVE  u \in Table
<1>1. CASE p.key \in Live(t)
  BY <1>1, LiveEntry, FoldIntoType DEF Observe, EntryFor
<1>2. CASE p.key \notin Live(t) /\ Absorbs(t, p)
  BY <1>2 DEF Observe
<1>3. CASE p.key \notin Live(t) /\ ~ Absorbs(t, p)
  <2>1. NewEntry(NextID(t), p) \in Entry
    BY NewEntryType DEF Table, NextID
  <2>2. PICK o \in Opened(t, p) : u = FoldInto(o, NewEntry(NextID(t), p), p)
    BY <1>3 DEF Observe, EntryFor
  <2>. QED BY <2>1, <2>2, OpenedType, FoldIntoType
<1>. QED BY <1>1, <1>2, <1>3

\* The packet that is not absorbed is of a flow already counted.
LEMMA ObserveStarts ==
    ASSUME NEW t \in Table, NEW p \in Packet, NEW u \in Observe(t, p),
           ~ Absorbs(t, p), p.key \notin Live(u), ~ TearsDown(EntryFor(t, p), p)
    PROVE  u.started \in Nat \ {0}
<1>1. p.key \notin Live(t)
  <2> SUFFICES ASSUME p.key \in Live(t) PROVE FALSE
    OBVIOUS
  <2>1. EntryFor(t, p) \in Entry /\ p.key \in Keys
    BY LiveEntry DEF EntryFor
  <2>2. u = [t EXCEPT !.flows[p.key] = Fold(EntryFor(t, p), p)]
    BY DEF Observe, FoldInto
  <2>3. u.flows[p.key] = Fold(EntryFor(t, p), p)
    BY <2>1, <2>2 DEF Table
  <2>4. Fold(EntryFor(t, p), p) # NoFlow
    BY <2>1, FoldType, NoFlowIsNoEntry
  <2>. QED BY <2>1, <2>3, <2>4 DEF Live
<1>2. PICK o \in Opened(t, p) : u = FoldInto(o, EntryFor(t, p), p)
  BY <1>1 DEF Observe
<1>3. Inserted(t, p) \in Table /\ Inserted(t, p).started = t.started + 1 /\ t.started \in Nat
  <2>1. Inserted(t, p) \in Table
    BY InsertedType
  <2>2. Inserted(t, p).started = t.started + 1 /\ t.started \in Nat
    BY DEF Inserted, Table, NextID
  <2>. QED BY <2>1, <2>2
<1>4. o \in Table /\ o.started = t.started + 1
  <2>1. \A i \in Table : \A k : Evict(i, k).started = i.started
    BY DEF Evict, Table
  <2>2. o = Inserted(t, p) \/ \E k : o = Evict(Inserted(t, p), k)
    BY DEF Opened
  <2>. QED BY <1>3, <2>1, <2>2, OpenedType
<1>5. u.started = o.started
  BY <1>2, <1>4 DEF FoldInto, Table
<1>. QED BY <1>3, <1>4, <1>5

LEMMA LiveFinite ==
    ASSUME NEW t, NEW S \in SUBSET Live(t)
    PROVE  IsFiniteSet(S) /\ Cardinality(S) \in Nat
<1>1. S \subseteq Keys
  BY DEF Live
<1>. QED BY <1>1, KeysAssumption, FS_Subset, FS_CardinalityType

LEMMA SnapshotType ==
    ASSUME NEW e \in Entry
    PROVE  Snapshot(e) \in Entry
BY DEF Snapshot, Entry

LEMMA TickType ==
    ASSUME NEW t \in Table, NEW now \in Times
    PROVE  Tick(t, now) \in Table
<1> DEFINE aged == {k \in Live(t) : OverAge(t.flows[k], now)}
           idle == {k \in Live(t) \ aged : Idle(t.flows[k], now)}
           due  == {k \in Live(t) \ (aged \cup idle) : SnapshotDue(t.flows[k], now)}
           recentDown == [k \in Keys |-> IF now - t.recentDown[k] >= GraceWindow THEN NoTime
                                         ELSE t.recentDown[k]]
           flows == [k \in Keys |->
                       IF k \in aged \cup idle THEN NoFlow
                       ELSE IF k \in due
                       THEN [Snapshot(t.flows[k]) EXCEPT !.nextSnapshotAt = now + SnapshotInterval]
                       ELSE t.flows[k]]
           closed == t.closed + Cardinality(aged \cup idle)
           emitted == t.emitted \cup {Rec(t.flows[k], "max_lifetime") : k \in aged}
                        \cup {Rec(t.flows[k], "idle") : k \in idle}
                        \cup {Rec(Snapshot(t.flows[k]), "snapshot") : k \in due}
<1>1. closed \in Nat
  BY LiveFinite DEF Table
<1>2. ASSUME NEW k \in due
      PROVE  [Snapshot(t.flows[k]) EXCEPT !.nextSnapshotAt = now + SnapshotInterval] \in Entry
  <2>1. Snapshot(t.flows[k]) \in Entry /\ now + SnapshotInterval \in Int
    BY LiveEntry, SnapshotType, OptionsAssumption, ClockAssumption DEF Times
  <2>. QED BY <2>1 DEF Entry
<1>3. emitted \in SUBSET Emission
  <2>1. \A k \in Live(t) : /\ Rec(t.flows[k], "max_lifetime") \in Emission
                           /\ Rec(t.flows[k], "idle") \in Emission
                           /\ Rec(Snapshot(t.flows[k]), "snapshot") \in Emission
    BY LiveEntry, SnapshotType, RecType DEF CloseReasons
  <2>2. aged \subseteq Live(t) /\ idle \subseteq Live(t) /\ due \subseteq Live(t)
    OBVIOUS
  <2> HIDE DEF aged, idle, due
  <2>. QED BY <2>1, <2>2 DEF Table
<1>4. recentDown \in [Keys -> Times \cup {NoTime}]
  BY DEF Table
<1>5. Tick(t, now) = [t EXCEPT !.recentDown = recentDown, !.flows = flows,
                               !.closed = closed, !.emitted = emitted]
  BY DEF Tick
<1> HIDE DEF aged, idle, due
<1>6. flows \in [Keys -> Entry \cup {NoFlow}]
  BY <1>2 DEF Table
<1> HIDE DEF recentDown, flows, closed, emitted
<1>. QED BY <1>1, <1>3, <1>4, <1>5, <1>6, ZenonT(60) DEF Table

LEMMA FlushType ==
    ASSUME NEW t \in Table
    PROVE  Flush(t) \in Table
<1> DEFINE flows == [k \in Keys |-> NoFlow]
           closed == t.closed + Cardinality(Live(t))
           emitted == t.emitted \cup {Rec(t.flows[k], "capture_end") : k \in Live(t)}
<1>1. closed \in Nat
  BY LiveFinite DEF Table
<1>2. emitted \in SUBSET Emission
  BY LiveEntry, RecType DEF CloseReasons, Table
<1>3. Flush(t) = [t EXCEPT !.flows = flows, !.closed = closed, !.emitted = emitted]
  BY DEF Flush
<1>4. flows \in [Keys -> Entry \cup {NoFlow}]
  OBVIOUS
<1> HIDE DEF flows, closed, emitted
<1>. QED BY <1>1, <1>2, <1>3, <1>4, ZenonT(60) DEF Table

LEMMA ArrivingType ==
    ASSUME TypeOK, pacer.n < MaxPackets, NEW p \in Arriving
    PROVE  p \in Packet /\ p.n = pacer.n + 1
BY FlagsAssumption, OptionsAssumption DEF Arriving, Packet, TypeOK

LEMMA EntryForType ==
    ASSUME NEW t \in Table, NEW p \in Packet
    PROVE  EntryFor(t, p) \in Entry
<1>1. NextID(t) \in Nat \ {0}
  BY DEF Table, NextID
<1>. QED BY <1>1, NewEntryType, LiveEntry DEF EntryFor

LEMMA TornType ==
    ASSUME NEW t \in Table, NEW p \in Packet
    PROVE  Torn(t, p) \subseteq Teardown
<1>1. EntryFor(t, p).id \in Nat \ {0}
  BY EntryForType DEF Entry
<1>2. p.key \in Keys /\ p.ts \in Times
  BY DEF Packet
<1>. QED BY <1>1, <1>2 DEF Torn, Teardown

LEMMA SweptAtType ==
    ASSUME NEW d \in Teardown, NEW now \in Times
    PROVE  SweptAt(d, now) \in Teardown
BY DEF SweptAt, Teardown

LEMMA FlowTableInitType == Init => TypeOK
<1> SUFFICES ASSUME Init PROVE TypeOK
  OBVIOUS
<1>1. NewTable \in Table
  BY DEF NewTable, Table
<1>2. pacer \in [n: 0..MaxPackets, last: Times \cup {NoTime}]
  BY OptionsAssumption DEF Init
<1>3. 0 \in Times
  BY ClockAssumption DEF Times
<1>. QED BY <1>1, <1>2, <1>3 DEF Init, TypeOK

LEMMA FlowTableNextType == TypeOK /\ [Next]_vars => TypeOK'
<1> SUFFICES ASSUME TypeOK, [Next]_vars PROVE TypeOK'
  OBVIOUS
<1>1. ASSUME NEW p \in Arriving, Deliver(p) PROVE TypeOK'
  <2>1. p \in Packet /\ p.n = pacer.n + 1 /\ p.ts \in Times
    <3>1. pacer.n < MaxPackets
      BY <1>1 DEF Deliver
    <3>. QED BY <3>1, ArrivingType DEF Packet
  <2>2. PICK t \in Observe(table, p) : table' = IF Due(pacer, p.ts) THEN Tick(t, p.ts) ELSE t
    BY <1>1 DEF Deliver
  <2>3. table' \in Table
    BY <2>1, <2>2, ObserveType, TickType DEF TypeOK
  <2>4. pacer' \in [n: 0..MaxPackets, last: Times \cup {NoTime}] /\ pacer'.n = pacer.n + 1
    BY <1>1, <2>1, OptionsAssumption DEF Deliver, Paced, TypeOK
  <2>5. absorbed' \subseteq 1..pacer'.n
    <3>1. absorbed' \subseteq absorbed \cup {pacer.n + 1}
      BY <1>1, <2>1 DEF Deliver
    <3>2. pacer.n \in Nat /\ absorbed \subseteq 1..pacer.n
      BY DEF TypeOK
    <3>. QED BY <2>4, <3>1, <3>2
  <2>6. astray' \subseteq [n: 1..pacer'.n, id: Nat \ {0}]
    <3>1. PICK o \in Observe(table, p) :
             astray' = IF Strays(table, o, p) THEN astray \cup {[n |-> p.n, id |-> o.started]} ELSE astray
      BY <1>1 DEF Deliver
    <3>2. pacer.n \in Nat /\ astray \subseteq [n: 1..pacer.n, id: Nat \ {0}]
      BY DEF TypeOK
    <3>3. Strays(table, o, p) => o.started \in Nat \ {0}
      BY <2>1, ObserveStarts DEF TypeOK, Strays
    <3>4. p.n \in 1..pacer'.n /\ 1..pacer.n \subseteq 1..pacer'.n
      BY <2>1, <2>4, <3>2
    <3>5. astray \subseteq [n: 1..pacer'.n, id: Nat \ {0}]
      BY <3>2, <3>4
    <3>. QED BY <3>1, <3>3, <3>4, <3>5
  <2>7. downs' \subseteq Teardown
    <3>1. downs \cup Torn(table, p) \subseteq Teardown
      BY <2>1, TornType DEF TypeOK
    <3>2. downs' = LET all == downs \cup Torn(table, p)
                   IN IF Due(pacer, p.ts) THEN {SweptAt(d, p.ts) : d \in all} ELSE all
      BY <1>1 DEF Deliver
    <3>. QED BY <2>1, <3>1, <3>2, SweptAtType
  <2>. QED BY <1>1, <2>1, <2>3, <2>4, <2>5, <2>6, <2>7 DEF TypeOK, Deliver
<1>2. CASE CaptureEnd
  BY <1>2, FlushType DEF CaptureEnd, TypeOK
<1>3. CASE UNCHANGED vars
  BY <1>3 DEF vars, TypeOK
<1>. QED BY <1>1, <1>2, <1>3 DEF Next

\* Type correctness: whatever packets arrive, in whatever order of timestamps,
\* the table, its pacer and the emitted records keep their declared types
\* (internal/flow/table.go, internal/flow/pacer.go).
THEOREM FlowTableTypeCorrect == Spec => []TypeOK
BY FlowTableInitType, FlowTableNextType, PTL DEF Spec

-----------------------------------------------------------------------------
(* Every operation of the table folds a packet into the flow of its key, which it
   may open, and then sweeps: it closes some flows, each with one record, and takes
   a snapshot of others.  Observe does the first and closes at most the evicted flow
   and the one torn down; Tick and Flush only sweep.  So an invariant of the table
   needs two lemmas, one for Grown and one for Sweeps. *)

Grown(t, p) ==
    [t EXCEPT !.flows[p.key] = Fold(EntryFor(t, p), p),
              !.started = IF p.key \in Live(t) THEN @ ELSE NextID(t),
              !.recentDown[p.key] = IF p.key \in Live(t) THEN @ ELSE NoTime]

Snapped(e, now) == [Snapshot(e) EXCEPT !.nextSnapshotAt = now + SnapshotInterval]

\* From t to u the flows of K close, flow k for the reason why[k], and a snapshot is taken of
\* those of D.
Sweeps(t, u, K, D, why, now) ==
    /\ K \subseteq Live(t) /\ D \subseteq Live(t) /\ K \cap D = {}
    /\ \A k \in K : why[k] \in CloseReasons
    /\ u.started = t.started
    /\ u.flows = [k \in Keys |-> IF k \in K THEN NoFlow
                                 ELSE IF k \in D THEN Snapped(t.flows[k], now) ELSE t.flows[k]]
    /\ u.emitted = t.emitted \cup {Rec(t.flows[k], why[k]) : k \in K}
                     \cup {Rec(Snapshot(t.flows[k]), "snapshot") : k \in D}

LEMMA GrownFields ==
    ASSUME NEW t \in Table, NEW p \in Packet
    PROVE  /\ Grown(t, p).flows = [t.flows EXCEPT ![p.key] = Fold(EntryFor(t, p), p)]
           /\ Grown(t, p).started = IF p.key \in Live(t) THEN t.started ELSE t.started + 1
           /\ Grown(t, p).recentDown =
                 IF p.key \in Live(t) THEN t.recentDown ELSE [t.recentDown EXCEPT ![p.key] = NoTime]
           /\ Grown(t, p).emitted = t.emitted
           /\ Fold(EntryFor(t, p), p) \in Entry /\ p.key \in Keys
           /\ Grown(t, p).flows[p.key] = Fold(EntryFor(t, p), p)
           /\ \A k \in Keys \ {p.key} : Grown(t, p).flows[k] = t.flows[k]
           /\ Live(Grown(t, p)) = Live(t) \cup {p.key}
<1>1. Fold(EntryFor(t, p), p) \in Entry /\ p.key \in Keys
  BY EntryForType, FoldType DEF Packet
<1>2. Grown(t, p).flows = [t.flows EXCEPT ![p.key] = Fold(EntryFor(t, p), p)]
  BY DEF Grown, Table
<1>3. Grown(t, p).started = IF p.key \in Live(t) THEN t.started ELSE t.started + 1
  BY DEF Grown, Table, NextID
<1>4. Grown(t, p).recentDown =
         IF p.key \in Live(t) THEN t.recentDown ELSE [t.recentDown EXCEPT ![p.key] = NoTime]
  <2>1. t.recentDown \in [Keys -> Times \cup {NoTime}]
    BY DEF Table
  <2>. QED BY <1>1, <2>1 DEF Grown, Table
<1>5. Grown(t, p).emitted = t.emitted
  BY DEF Grown, Table
<1>6. t.flows \in [Keys -> Entry \cup {NoFlow}]
  BY DEF Table
<1>7. /\ Grown(t, p).flows[p.key] = Fold(EntryFor(t, p), p)
      /\ \A k \in Keys \ {p.key} : Grown(t, p).flows[k] = t.flows[k]
  BY <1>1, <1>2, <1>6
<1>8. Live(Grown(t, p)) = Live(t) \cup {p.key}
  BY <1>1, <1>7, NoFlowIsNoEntry DEF Live
<1>. QED BY <1>1, <1>2, <1>3, <1>4, <1>5, <1>7, <1>8

LEMMA GrownType ==
    ASSUME NEW t \in Table, NEW p \in Packet
    PROVE  Grown(t, p) \in Table
<1> DEFINE flows == [t.flows EXCEPT ![p.key] = Fold(EntryFor(t, p), p)]
           started == IF p.key \in Live(t) THEN t.started ELSE NextID(t)
           recentDown == [t.recentDown EXCEPT ![p.key] = IF p.key \in Live(t) THEN @ ELSE NoTime]
<1>1. flows \in [Keys -> Entry \cup {NoFlow}]
  BY GrownFields DEF Table
<1>2. started \in Nat
  BY DEF Table, NextID
<1>3. recentDown \in [Keys -> Times \cup {NoTime}]
  BY DEF Table
<1>4. Grown(t, p) = [t EXCEPT !.flows = flows, !.started = started, !.recentDown = recentDown]
  BY DEF Grown
<1> HIDE DEF flows, started, recentDown
<1>. QED BY <1>1, <1>2, <1>3, <1>4, ZenonT(60) DEF Table

LEMMA SnappedType ==
    ASSUME NEW e \in Entry, NEW now \in Times
    PROVE  /\ Snapshot(e) \in Entry /\ Snapped(e, now) \in Entry
           /\ Snapshot(e).snapshots = e.snapshots + 1 /\ Snapped(e, now).snapshots = e.snapshots + 1
           /\ \A x \in {Snapshot(e), Snapped(e, now)} :
                 /\ x.id = e.id /\ x.key = e.key /\ x.first = e.first /\ x.last = e.last
                 /\ x.syn = e.syn /\ x.packets = e.packets
           /\ Snapped(e, now).nextSnapshotAt = now + SnapshotInterval
<1>1. Snapshot(e) \in Entry /\ now + SnapshotInterval \in Int
  BY SnapshotType, OptionsAssumption, ClockAssumption DEF Times
<1>2. Snapped(e, now) \in Entry
  BY <1>1 DEF Snapped, Entry
<1>. QED BY <1>1, <1>2 DEF Snapped, Snapshot, Entry

\* What a sweep leaves live, and what it emits.
LEMMA SweepsFacts ==
    ASSUME NEW t \in Table, NEW u, NEW K, NEW D, NEW why, NEW now \in Times,
           Sweeps(t, u, K, D, why, now)
    PROVE  /\ Live(u) = Live(t) \ K
           /\ \A k \in Live(u) : u.flows[k] = IF k \in D THEN Snapped(t.flows[k], now) ELSE t.flows[k]
           /\ t.emitted \subseteq u.emitted
           /\ \A k \in K : Rec(t.flows[k], why[k]) \in u.emitted
           /\ \A k \in D : Rec(Snapshot(t.flows[k]), "snapshot") \in u.emitted
           /\ \A r \in u.emitted :
                 \/ r \in t.emitted
                 \/ \E k \in K : r = Rec(t.flows[k], why[k])
                 \/ \E k \in D : r = Rec(Snapshot(t.flows[k]), "snapshot")
<1>1. \A k \in D : Snapped(t.flows[k], now) # NoFlow
  BY LiveEntry, SnappedType, NoFlowIsNoEntry DEF Sweeps
<1>2. \A k \in Keys : u.flows[k] = IF k \in K THEN NoFlow
                                   ELSE IF k \in D THEN Snapped(t.flows[k], now) ELSE t.flows[k]
  BY DEF Sweeps
<1>3. K \subseteq Live(t) /\ D \subseteq Live(t) /\ K \cap D = {}
  BY DEF Sweeps
<1>4. Live(u) = Live(t) \ K
  BY <1>1, <1>2, <1>3 DEF Live
<1>5. \A k \in Live(u) : u.flows[k] = IF k \in D THEN Snapped(t.flows[k], now) ELSE t.flows[k]
  BY <1>2, <1>4 DEF Live
<1>. QED BY <1>4, <1>5 DEF Sweeps

LEMMA FoldIntoFields ==
    ASSUME NEW t \in Table, NEW p \in Packet, NEW e \in Entry
    PROVE  LET u == FoldInto(t, e, p)
               down == TearsDown(e, p)
           IN /\ u.started = t.started
              /\ u.flows = IF down THEN [t.flows EXCEPT ![p.key] = NoFlow]
                           ELSE IF p.key \in Live(t) THEN [t.flows EXCEPT ![p.key] = Fold(e, p)]
                           ELSE t.flows
              /\ u.emitted = t.emitted \cup (IF down THEN {Rec(Fold(e, p), "fin_rst")} ELSE {})
              /\ u.recentDown = IF down THEN [t.recentDown EXCEPT ![p.key] = p.ts] ELSE t.recentDown
<1> DEFINE f == Fold(e, p)
<1>1. CASE TearsDown(e, p)
  BY <1>1 DEF FoldInto, Table
<1>2. CASE ~ TearsDown(e, p) /\ p.key \in Live(t)
  BY <1>2 DEF FoldInto, Table
<1>3. CASE ~ TearsDown(e, p) /\ p.key \notin Live(t)
  BY <1>3 DEF FoldInto, Table
<1>. QED BY <1>1, <1>2, <1>3

LEMMA InsertedFields ==
    ASSUME NEW t \in Table, NEW p \in Packet
    PROVE  /\ Inserted(t, p).started = NextID(t) /\ Inserted(t, p).emitted = t.emitted
           /\ Inserted(t, p).recentDown = [t.recentDown EXCEPT ![p.key] = NoTime]
           /\ Inserted(t, p).flows = [t.flows EXCEPT ![p.key] = NewEntry(NextID(t), p)]
           /\ Live(Inserted(t, p)) = Live(t) \cup {p.key}
           /\ Inserted(t, p).flows[p.key] = NewEntry(NextID(t), p)
           /\ \A k \in Live(t) \ {p.key} : Inserted(t, p).flows[k] = t.flows[k]
<1> DEFINE e == NewEntry(NextID(t), p)
<1>1. /\ Inserted(t, p).started = NextID(t) /\ Inserted(t, p).emitted = t.emitted
      /\ Inserted(t, p).recentDown = [t.recentDown EXCEPT ![p.key] = NoTime]
      /\ Inserted(t, p).flows = [t.flows EXCEPT ![p.key] = e]
  BY DEF Inserted, Table
<1>2. p.key \in Keys /\ e # NoFlow /\ t.flows \in [Keys -> Entry \cup {NoFlow}]
  BY NewEntryType, NoFlowIsNoEntry DEF Table, Packet, NextID
<1>3. Live(Inserted(t, p)) = Live(t) \cup {p.key}
  BY <1>1, <1>2 DEF Live
<1>4. /\ Inserted(t, p).flows[p.key] = e
      /\ \A k \in Live(t) \ {p.key} : Inserted(t, p).flows[k] = t.flows[k]
  BY <1>1, <1>2 DEF Live
<1>. QED BY <1>1, <1>3, <1>4

\* A full table holds another flow than the one just opened.
LEMMA FullTableHasAnother ==
    ASSUME NEW t \in Table, NEW p \in Packet, p.key \notin Live(t),
           MaxFlows > 0, Cardinality(Live(Inserted(t, p))) > MaxFlows
    PROVE  Live(t) # {}
<1> SUFFICES ASSUME Live(t) = {} PROVE FALSE
  OBVIOUS
<1>1. Live(Inserted(t, p)) = {p.key}
  BY InsertedFields
<1>2. Cardinality({p.key}) = 1
  BY FS_Singleton
<1>. QED BY <1>1, <1>2, OptionsAssumption

\* o is t with a flow opened for p and the flows of V evicted.
Opens(t, p, o, V) ==
    /\ o.started = NextID(t)
    /\ o.recentDown = [t.recentDown EXCEPT ![p.key] = NoTime]
    /\ o.flows = [k \in Keys |-> IF k = p.key THEN NewEntry(NextID(t), p)
                                 ELSE IF k \in V THEN NoFlow ELSE t.flows[k]]
    /\ o.emitted = t.emitted \cup {Rec(t.flows[k], "evicted") : k \in V}
    /\ \A k \in V : t.flows[k].last <= p.ts

\* o is t with a flow opened for p that is at once evicted itself, another being no older.
OpensInVain(t, p, o) ==
    /\ o.started = NextID(t)
    /\ o.recentDown = [t.recentDown EXCEPT ![p.key] = NoTime]
    /\ o.flows = t.flows
    /\ o.emitted = t.emitted \cup {Rec(NewEntry(NextID(t), p), "evicted")}
    /\ \E j \in Live(t) : p.ts <= t.flows[j].last

\* Opening a flow evicts another one, or with packets out of order the one opened
\* (table.go open, evictOldest).
LEMMA OpenedFields ==
    ASSUME NEW t \in Table, NEW p \in Packet, p.key \notin Live(t), NEW o \in Opened(t, p)
    PROVE  OpensInVain(t, p, o) \/ \E V \in SUBSET Live(t) : Opens(t, p, o, V)
<1> DEFINE i == Inserted(t, p)
           e == NewEntry(NextID(t), p)
<1>1. /\ i.started = NextID(t) /\ i.emitted = t.emitted
      /\ i.recentDown = [t.recentDown EXCEPT ![p.key] = NoTime]
      /\ i.flows = [t.flows EXCEPT ![p.key] = e]
      /\ Live(i) = Live(t) \cup {p.key} /\ i.flows[p.key] = e
      /\ \A k \in Live(t) \ {p.key} : i.flows[k] = t.flows[k]
  BY InsertedFields
<1>2. t.flows \in [Keys -> Entry \cup {NoFlow}] /\ p.key \in Keys /\ e.last = p.ts
  BY DEF Table, Packet, NewEntry
<1>3. CASE o = i
  <2>1. i.flows = [k \in Keys |-> IF k = p.key THEN e ELSE IF k \in {} THEN NoFlow ELSE t.flows[k]]
    BY <1>1, <1>2
  <2>2. i.emitted = t.emitted \cup {Rec(t.flows[k], "evicted") : k \in {}}
    BY <1>1
  <2> HIDE DEF i
  <2>3. Opens(t, p, o, {})
    BY <1>1, <1>3, <2>1, <2>2 DEF Opens
  <2>. QED BY <2>3
<1>4. CASE o # i
  <2>1. PICK v \in Oldest(i) : o = Evict(i, v)
    BY <1>4 DEF Opened
  <2>2. MaxFlows > 0 /\ Cardinality(Live(i)) > MaxFlows
    BY <1>4 DEF Opened
  <2>3. i \in Table
    BY InsertedType
  <2> HIDE DEF i
  <2>4. /\ o.started = i.started /\ o.recentDown = i.recentDown
        /\ o.flows = [i.flows EXCEPT ![v] = NoFlow]
        /\ o.emitted = i.emitted \cup {Rec(i.flows[v], "evicted")}
    BY <2>1, <2>3 DEF Evict, Table
  <2>5. v \in Live(t) \cup {p.key} /\ \A j \in Live(t) \cup {p.key} : i.flows[v].last <= i.flows[j].last
    BY <1>1, <2>1 DEF Oldest
  <2>6. CASE v = p.key
    <3>1. PICK j \in Live(t) : TRUE
      BY <2>2, FullTableHasAnother DEF i
    <3>2. p.ts <= t.flows[j].last
      BY <1>1, <1>2, <2>5, <2>6
    <3>3. o.flows = t.flows
      <4>1. t.flows[p.key] = NoFlow
        BY <1>2 DEF Live
      <4> HIDE DEF e
      <4>. QED BY <1>1, <1>2, <2>4, <2>6, <4>1
    <3>4. OpensInVain(t, p, o)
      BY <1>1, <2>4, <2>6, <3>2, <3>3 DEF OpensInVain
    <3>. QED BY <3>4
  <2>7. CASE v # p.key
    <3>1. v \in Live(t) /\ v \in Keys /\ i.flows[v] = t.flows[v]
      BY <1>1, <2>5, <2>7 DEF Live
    <3>2. {Rec(t.flows[k], "evicted") : k \in {v}} = {Rec(i.flows[v], "evicted")}
      BY <3>1
    <3>3. o.flows = [k \in Keys |-> IF k = p.key THEN e ELSE IF k \in {v} THEN NoFlow ELSE t.flows[k]]
      <4> HIDE DEF e
      <4>. QED BY <1>1, <1>2, <2>4, <2>7, <3>1
    <3>4. \A k \in {v} : t.flows[k].last <= p.ts
      BY <1>1, <1>2, <2>5, <3>1
    <3>5. Opens(t, p, o, {v})
      BY <1>1, <2>4, <3>2, <3>3, <3>4 DEF Opens
    <3>. QED BY <3>1, <3>5
  <2>. QED BY <2>6, <2>7
<1>. QED BY <1>3, <1>4

\* In u the table of t has in addition the record r of a flow that was evicted at birth: the one
\* counted last, torn down by the packet that opened it, or one counted now.
Bears(t, u, r) ==
    /\ u \in Table /\ r \in Emission /\ Stillborn(r) /\ r.index = 0
    /\ u.flows = t.flows /\ u.emitted = t.emitted \cup {r} /\ r.id = u.started
    /\ \A x \in t.emitted : x.id = r.id => x.reason # "snapshot"
    /\ r.key \notin Live(t) /\ \E j \in Live(t) : r.last <= t.flows[j].last
    /\ \/ /\ u.started = t.started /\ u.recentDown = t.recentDown
          /\ \E s : Closings(t, r.id) = {s} /\ ClosedTwice(r, s)
       \/ /\ u.started = t.started + 1
          /\ u.recentDown = [t.recentDown EXCEPT ![r.key] = NoTime]

\* The packet p folded into its flow, and the flows of K closed: that one when p tears it down,
\* others evicted.
Folds(t, p, u, K, why) ==
    /\ Sweeps(Grown(t, p), u, K, {}, why, p.ts)
    /\ p.key \in K <=> TearsDown(EntryFor(t, p), p)
    /\ \A k \in K : why[k] = IF k = p.key THEN "fin_rst" ELSE "evicted"
    /\ \A k \in K \ {p.key} : k \in Live(t) /\ t.flows[k].last <= p.ts
    /\ \A k \in Keys : u.recentDown[k] = IF k = p.key /\ k \in K THEN p.ts
                                         ELSE Grown(t, p).recentDown[k]

\* What a step that folds p does, from the table o in which its flow is open and the flows of V
\* have been evicted.
LEMMA FoldsAfterOpening ==
    ASSUME NEW t \in Table, NEW p \in Packet, NEW o \in Table, NEW V \in SUBSET Live(t),
           p.key \notin V,
           o.started = Grown(t, p).started, o.recentDown = Grown(t, p).recentDown,
           o.flows = [k \in Keys |-> IF k = p.key THEN EntryFor(t, p)
                                     ELSE IF k \in V THEN NoFlow ELSE t.flows[k]],
           o.emitted = t.emitted \cup {Rec(t.flows[k], "evicted") : k \in V},
           \A k \in V : t.flows[k].last <= p.ts
    PROVE  \E K, why : Folds(t, p, FoldInto(o, EntryFor(t, p), p), K, why)
<1> DEFINE g == Grown(t, p)
           e == EntryFor(t, p)
           f == Fold(e, p)
           down == TearsDown(e, p)
           u == FoldInto(o, e, p)
           K == V \cup (IF down THEN {p.key} ELSE {})
           why == [k \in K |-> IF k = p.key THEN "fin_rst" ELSE "evicted"]
<1>1. e \in Entry /\ f \in Entry /\ p.key \in Keys
  BY EntryForType, FoldType DEF Packet
<1>2. p.key \in Live(o)
  BY <1>1, NoFlowIsNoEntry DEF Live
<1>3. u \in Table
  BY <1>1, FoldIntoType
<1>4. /\ u.started = o.started
      /\ u.flows = IF down THEN [o.flows EXCEPT ![p.key] = NoFlow] ELSE [o.flows EXCEPT ![p.key] = f]
      /\ u.emitted = o.emitted \cup (IF down THEN {Rec(f, "fin_rst")} ELSE {})
      /\ u.recentDown = IF down THEN [o.recentDown EXCEPT ![p.key] = p.ts] ELSE o.recentDown
  BY <1>1, <1>2, FoldIntoFields
<1>5. /\ g.flows = [t.flows EXCEPT ![p.key] = f] /\ g.emitted = t.emitted /\ g.flows[p.key] = f
      /\ \A k \in Keys \ {p.key} : g.flows[k] = t.flows[k]
      /\ Live(g) = Live(t) \cup {p.key} /\ g.recentDown \in [Keys -> Times \cup {NoTime}]
  BY GrownFields, GrownType DEF Table
<1>6. V \subseteq Keys /\ t.flows \in [Keys -> Entry \cup {NoFlow}]
  BY DEF Live, Table
<1> HIDE DEF g, e, f, down, u
<1>7. {Rec(g.flows[k], why[k]) : k \in K}
         = {Rec(t.flows[k], "evicted") : k \in V} \cup (IF down THEN {Rec(f, "fin_rst")} ELSE {})
  <2>1. \A k \in V : g.flows[k] = t.flows[k] /\ why[k] = "evicted" /\ k \in K
    BY <1>5, <1>6
  <2>2. \A k \in K \ V : k = p.key /\ down /\ why[k] = "fin_rst" /\ g.flows[k] = f
    BY <1>5
  <2>3. down => p.key \in K \ V
    OBVIOUS
  <2> HIDE DEF K, why
  <2>4. CASE down
    BY <2>1, <2>2, <2>3, <2>4
  <2>5. CASE ~ down
    BY <2>1, <2>2, <2>5
  <2>. QED BY <2>4, <2>5
<1>8. u.flows = [k \in Keys |-> IF k \in K THEN NoFlow
                                ELSE IF k \in {} THEN Snapped(g.flows[k], p.ts) ELSE g.flows[k]]
  <2>1. \A k \in Keys : u.flows[k] = IF k \in K THEN NoFlow ELSE g.flows[k]
    <3>1. CASE down
      BY <1>1, <1>4, <1>5, <1>6, <3>1 DEF e
    <3>2. CASE ~ down
      BY <1>1, <1>4, <1>5, <1>6, <3>2 DEF e
    <3>. QED BY <3>1, <3>2
  <2>2. u.flows \in [Keys -> Entry \cup {NoFlow}]
    BY <1>3 DEF Table
  <2> HIDE DEF K
  <2>. QED BY <2>1, <2>2
<1>9. u.emitted = g.emitted \cup {Rec(g.flows[k], why[k]) : k \in K}
                    \cup {Rec(Snapshot(g.flows[k]), "snapshot") : k \in {}}
  BY <1>4, <1>5, <1>7
<1>10. K \subseteq Live(g) /\ \A k \in K : why[k] \in CloseReasons
  BY <1>5 DEF CloseReasons
<1>11. Sweeps(g, u, K, {}, why, p.ts)
  BY <1>4, <1>8, <1>9, <1>10 DEF Sweeps, g
<1>12. \A k \in Keys : u.recentDown[k] = IF k = p.key /\ k \in K THEN p.ts ELSE g.recentDown[k]
  BY <1>1, <1>4, <1>5 DEF g
<1>13. /\ p.key \in K <=> down
       /\ \A k \in K : why[k] = IF k = p.key THEN "fin_rst" ELSE "evicted"
       /\ \A k \in K \ {p.key} : k \in Live(t) /\ t.flows[k].last <= p.ts
  OBVIOUS
<1> HIDE DEF K, why
<1>. QED BY <1>11, <1>12, <1>13 DEF Folds, g, u, e, down

\* A flow evicted at birth: its packet is folded into memory the table no longer reaches, or
\* tears it down all the same.
LEMMA OpenedInVain ==
    ASSUME NEW t \in Table, NEW p \in Packet, NEW o \in Table, OpensInVain(t, p, o),
           p.key \notin Live(t), \A r \in t.emitted : r.id <= t.started
    PROVE  LET r == Rec(NewEntry(NextID(t), p), "evicted")
               u == FoldInto(o, EntryFor(t, p), p)
           IN IF TearsDown(EntryFor(t, p), p)
              THEN \E v \in Table : \E why : Folds(t, p, v, {p.key}, why) /\ Bears(v, u, r)
              ELSE Bears(t, u, r) /\ u.started = t.started + 1 /\ p.key \notin Live(u)
<1> DEFINE e == NewEntry(NextID(t), p)
           f == Fold(e, p)
           r == Rec(e, "evicted")
           s == Rec(f, "fin_rst")
           u == FoldInto(o, e, p)
           g == Grown(t, p)
<1>1. e \in Entry /\ f \in Entry /\ p.key \in Keys /\ p.ts \in Times /\ EntryFor(t, p) = e
  BY EntryForType, FoldType DEF Packet, EntryFor
<1>2. /\ e.id = t.started + 1 /\ e.key = p.key /\ e.first = p.ts /\ e.last = p.ts
      /\ e.snapshots = 0 /\ e.packets = {} /\ t.started \in Nat
  BY DEF NewEntry, NextID, Table
<1>3. f.id = e.id /\ f.key = e.key /\ f.first = e.first /\ f.last = e.last /\ f.packets = {p.n}
  <2> HIDE DEF e
  <2>. QED BY <1>1, <1>2 DEF Fold, Entry
<1>4. /\ r \in Emission /\ r.id = t.started + 1 /\ r.key = p.key /\ r.first = p.ts /\ r.last = p.ts
      /\ r.reason = "evicted" /\ r.index = 0 /\ r.packets = {}
  <2> HIDE DEF e
  <2>. QED BY <1>1, <1>2, RecType DEF Rec, CloseReasons
<1>5. s.id = t.started + 1 /\ s.reason = "fin_rst" /\ s.first = p.ts /\ s.last = p.ts /\ s.packets = {p.n}
  <2> HIDE DEF e, f
  <2>. QED BY <1>2, <1>3 DEF Rec
<1>6. Stillborn(r) /\ ClosedTwice(r, s)
  <2> HIDE DEF r, s
  <2>. QED BY <1>4, <1>5, FS_Singleton DEF Stillborn, ClosedTwice
<1>7. /\ o.started = t.started + 1 /\ o.recentDown = [t.recentDown EXCEPT ![p.key] = NoTime]
      /\ o.flows = t.flows /\ o.emitted = t.emitted \cup {r}
      /\ \E j \in Live(t) : p.ts <= t.flows[j].last
  BY <1>2 DEF OpensInVain, NextID
<1>8. Live(o) = Live(t) /\ t.flows \in [Keys -> Entry \cup {NoFlow}] /\ t.flows[p.key] = NoFlow
      /\ t.recentDown \in [Keys -> Times \cup {NoTime}]
  BY <1>1, <1>7 DEF Live, Table
<1>9. /\ u \in Table /\ u.started = o.started /\ u.flows = o.flows
      /\ u.emitted = o.emitted \cup (IF TearsDown(e, p) THEN {s} ELSE {})
      /\ u.recentDown = IF TearsDown(e, p) THEN [o.recentDown EXCEPT ![p.key] = p.ts] ELSE o.recentDown
  <2> HIDE DEF e
  <2>1. u \in Table
    BY <1>1, FoldIntoType
  <2>2. /\ u.started = o.started
        /\ u.flows = IF TearsDown(e, p) THEN [o.flows EXCEPT ![p.key] = NoFlow] ELSE o.flows
        /\ u.emitted = o.emitted \cup (IF TearsDown(e, p) THEN {s} ELSE {})
        /\ u.recentDown = IF TearsDown(e, p) THEN [o.recentDown EXCEPT ![p.key] = p.ts] ELSE o.recentDown
    BY <1>1, <1>8, FoldIntoFields
  <2>3. [o.flows EXCEPT ![p.key] = NoFlow] = o.flows
    BY <1>7, <1>8
  <2> HIDE DEF u
  <2>. QED BY <2>1, <2>2, <2>3
<1>10. Live(u) = Live(t)
  BY <1>7, <1>9 DEF Live
<1> HIDE DEF e, f, r, s, u
<1>13. \A x \in t.emitted : x.id # t.started + 1
  <2>1. \A x \in t.emitted : x.id \in Nat /\ x.id <= t.started
    BY DEF Table, Emission
  <2>. QED BY <1>2, <2>1
<1>11. CASE ~ TearsDown(e, p)
  <2>1. u.flows = t.flows /\ u.emitted = t.emitted \cup {r} /\ u.started = t.started + 1
        /\ u.recentDown = [t.recentDown EXCEPT ![r.key] = NoTime]
    BY <1>4, <1>7, <1>9, <1>11
  <2>2. Bears(t, u, r)
    BY <1>4, <1>6, <1>7, <1>9, <1>13, <2>1 DEF Bears
  <2>. QED BY <1>1, <1>10, <1>11, <2>1, <2>2 DEF r, u, e
<1>12. CASE TearsDown(e, p)
  <2> DEFINE v == [g EXCEPT !.flows[p.key] = NoFlow, !.recentDown[p.key] = p.ts, !.emitted = @ \cup {s}]
             why == [k \in {p.key} |-> "fin_rst"]
  <2>1. /\ g \in Table /\ g.flows = [t.flows EXCEPT ![p.key] = f] /\ g.started = t.started + 1
        /\ g.recentDown = [t.recentDown EXCEPT ![p.key] = NoTime] /\ g.emitted = t.emitted
        /\ Live(g) = Live(t) \cup {p.key} /\ g.flows[p.key] = f
    <3>1. g \in Table
      BY GrownType
    <3>. QED BY <1>1, <3>1, GrownFields DEF f
  <2>2. s \in Emission
    BY <1>1, RecType DEF s, CloseReasons
  <2> HIDE DEF g
  <2>3. /\ v.flows = t.flows /\ v.started = t.started + 1
        /\ v.recentDown = [t.recentDown EXCEPT ![p.key] = p.ts] /\ v.emitted = t.emitted \cup {s}
    <3>1. /\ v.flows = [g.flows EXCEPT ![p.key] = NoFlow] /\ v.started = g.started
          /\ v.recentDown = [g.recentDown EXCEPT ![p.key] = p.ts] /\ v.emitted = g.emitted \cup {s}
      BY <2>1 DEF Table
    <3>. QED BY <1>1, <1>8, <2>1, <3>1
  <2>4. v \in Table
    <3>1. /\ [g.flows EXCEPT ![p.key] = NoFlow] \in [Keys -> Entry \cup {NoFlow}]
          /\ [g.recentDown EXCEPT ![p.key] = p.ts] \in [Keys -> Times \cup {NoTime}]
          /\ g.emitted \cup {s} \in SUBSET Emission
      BY <1>1, <2>1, <2>2 DEF Table
    <3>. QED BY <2>1, <3>1 DEF Table
  <2> HIDE DEF v
  <2>5. Live(v) = Live(t)
    BY <2>3 DEF Live
  <2>6. Sweeps(g, v, {p.key}, {}, why, p.ts)
    <3>1. v.flows = [k \in Keys |-> IF k \in {p.key} THEN NoFlow
                                    ELSE IF k \in {} THEN Snapped(g.flows[k], p.ts) ELSE g.flows[k]]
      BY <1>1, <1>8, <2>1, <2>3
    <3>2. v.emitted = g.emitted \cup {Rec(g.flows[k], why[k]) : k \in {p.key}}
                        \cup {Rec(Snapshot(g.flows[k]), "snapshot") : k \in {}}
      BY <2>1, <2>3 DEF s
    <3>3. \A k \in {p.key} : why[k] \in CloseReasons
      BY DEF CloseReasons
    <3>. QED BY <2>1, <2>3, <3>1, <3>2, <3>3 DEF Sweeps
  <2>7. \A k \in Keys : v.recentDown[k] = IF k = p.key /\ k \in {p.key} THEN p.ts ELSE g.recentDown[k]
    BY <1>1, <1>8, <2>1, <2>3
  <2>8. Folds(t, p, v, {p.key}, why)
    BY <1>1, <1>12, <2>6, <2>7 DEF Folds, g
  <2>9. Closings(v, r.id) = {s}
    BY <1>4, <1>5, <1>13, <2>3 DEF Closings, CloseReasons
  <2>10. u.flows = v.flows /\ u.started = v.started /\ u.emitted = v.emitted \cup {r}
         /\ u.recentDown = v.recentDown
    BY <1>1, <1>7, <1>8, <1>9, <1>12, <2>3
  <2>11. \E j \in Live(v) : r.last <= v.flows[j].last
    BY <1>4, <1>7, <2>3, <2>5
  <2>12. \A x \in v.emitted : x.id = r.id => x.reason # "snapshot"
    BY <1>4, <1>5, <1>13, <2>3
  <2>13. Bears(v, u, r)
    BY <1>4, <1>6, <1>9, <2>3, <2>5, <2>9, <2>10, <2>11, <2>12 DEF Bears
  <2>. QED BY <1>1, <1>12, <2>4, <2>8, <2>13 DEF r, u, e
<1>. QED BY <1>11, <1>12

\* Observe, whatever the packet's timestamp: the packet is absorbed; or folded into the flow of
\* its key, and then at most that flow is torn down and another one evicted; or the flow it opens
\* is evicted at birth, torn down by the same packet or not.
LEMMA ObserveSteps ==
    ASSUME NEW t \in Table, NEW p \in Packet, NEW u \in Observe(t, p),
           \A r \in t.emitted : r.id <= t.started
    PROVE  LET r == Rec(NewEntry(NextID(t), p), "evicted")
           IN \/ Absorbs(t, p) /\ u = t
              \/ ~ Absorbs(t, p) /\ ~ Strays(t, u, p) /\ \E K, why : Folds(t, p, u, K, why)
              \/ Strays(t, u, p) /\ p.key \notin Live(t) /\ Bears(t, u, r) /\ u.started = t.started + 1
              \/ /\ ~ Absorbs(t, p) /\ ~ Strays(t, u, p)
                 /\ \E v \in Table : \E why : Folds(t, p, v, {p.key}, why) /\ Bears(v, u, r)
<1> DEFINE e == EntryFor(t, p)
<1>1. CASE Absorbs(t, p)
  BY <1>1 DEF Observe, Absorbs
<1>2. ASSUME ~ Absorbs(t, p), NEW K, NEW why, Folds(t, p, u, K, why)
      PROVE  ~ Strays(t, u, p)
  <2>1. Live(u) = (Live(t) \cup {p.key}) \ K
    <3>1. Grown(t, p) \in Table /\ Live(Grown(t, p)) = Live(t) \cup {p.key} /\ p.ts \in Times
      BY GrownFields, GrownType DEF Packet
    <3>2. Sweeps(Grown(t, p), u, K, {}, why, p.ts)
      BY <1>2 DEF Folds
    <3>3. Live(u) = Live(Grown(t, p)) \ K
      BY <3>1, <3>2, SweepsFacts
    <3>. QED BY <3>1, <3>3
  <2>. QED BY <1>2, <2>1 DEF Strays, Folds
<1>3. CASE p.key \in Live(t)
  <2>1. u = FoldInto(t, e, p) /\ ~ Absorbs(t, p)
    BY <1>3 DEF Observe, Absorbs
  <2>2. t.flows = [k \in Keys |-> IF k = p.key THEN e ELSE IF k \in {} THEN NoFlow ELSE t.flows[k]]
    BY <1>3 DEF EntryFor, Table
  <2>3. t.started = Grown(t, p).started /\ t.recentDown = Grown(t, p).recentDown
    BY <1>3, GrownFields
  <2>4. t.emitted = t.emitted \cup {Rec(t.flows[k], "evicted") : k \in {}}
    OBVIOUS
  <2> DEFINE V == {}
  <2>5. /\ V \in SUBSET Live(t) /\ p.key \notin V /\ \A k \in V : t.flows[k].last <= p.ts
        /\ t.flows = [k \in Keys |-> IF k = p.key THEN EntryFor(t, p)
                                     ELSE IF k \in V THEN NoFlow ELSE t.flows[k]]
        /\ t.emitted = t.emitted \cup {Rec(t.flows[k], "evicted") : k \in V}
    BY <2>2, <2>4
  <2> HIDE DEF V
  <2>6. \E K, why : Folds(t, p, FoldInto(t, EntryFor(t, p), p), K, why)
    BY <2>3, <2>5, FoldsAfterOpening
  <2>7. \E K, why : Folds(t, p, u, K, why)
    BY <2>1, <2>6
  <2>. QED BY <1>2, <2>1, <2>7
<1>4. CASE p.key \notin Live(t) /\ ~ Absorbs(t, p)
  <2>1. PICK o \in Opened(t, p) : u = FoldInto(o, e, p)
    BY <1>4 DEF Observe
  <2>2. o \in Table /\ e = NewEntry(NextID(t), p)
    BY <1>4, OpenedType DEF EntryFor
  <2>3. CASE OpensInVain(t, p, o)
    <3>1. LET r == Rec(NewEntry(NextID(t), p), "evicted")
          IN IF TearsDown(e, p)
             THEN \E v \in Table : \E why : Folds(t, p, v, {p.key}, why) /\ Bears(v, u, r)
             ELSE Bears(t, u, r) /\ u.started = t.started + 1 /\ p.key \notin Live(u)
      BY <1>4, <2>1, <2>2, <2>3, OpenedInVain
    <3>. QED BY <1>4, <3>1 DEF Strays
  <2>4. ASSUME NEW V \in SUBSET Live(t), Opens(t, p, o, V)
        PROVE  \E K, why : Folds(t, p, u, K, why)
    <3>1. /\ o.flows = [k \in Keys |-> IF k = p.key THEN e ELSE IF k \in V THEN NoFlow ELSE t.flows[k]]
          /\ o.emitted = t.emitted \cup {Rec(t.flows[k], "evicted") : k \in V}
          /\ \A k \in V : t.flows[k].last <= p.ts
      BY <2>2, <2>4 DEF Opens
    <3>2. o.started = Grown(t, p).started /\ o.recentDown = Grown(t, p).recentDown
      BY <1>4, <2>4, GrownFields DEF Opens, NextID
    <3>3. p.key \notin V
      BY <1>4
    <3> HIDE DEF e
    <3>. QED BY <2>1, <2>2, <3>1, <3>2, <3>3, FoldsAfterOpening DEF e
  <2>. QED BY <1>2, <1>4, <2>3, <2>4, OpenedFields
<1>. QED BY <1>1, <1>3, <1>4

LEMMA TickSweeps ==
    ASSUME NEW t \in Table, NEW now \in Times
    PROVE  /\ \E K, D, why :
                 /\ Sweeps(t, Tick(t, now), K, D, why, now)
                 /\ \A k \in K : why[k] \notin {"fin_rst", "evicted"}
                 /\ \A k \in Live(t) \ K : /\ ~ OverAge(t.flows[k], now) /\ ~ Idle(t.flows[k], now)
                                           /\ k \notin D => ~ SnapshotDue(t.flows[k], now)
           /\ Tick(t, now).recentDown =
                 [k \in Keys |-> IF now - t.recentDown[k] >= GraceWindow THEN NoTime ELSE t.recentDown[k]]
<1> DEFINE aged == {k \in Live(t) : OverAge(t.flows[k], now)}
           idle == {k \in Live(t) \ aged : Idle(t.flows[k], now)}
           due  == {k \in Live(t) \ (aged \cup idle) : SnapshotDue(t.flows[k], now)}
           u == Tick(t, now)
           K == aged \cup idle
           why == [k \in K |-> IF k \in aged THEN "max_lifetime" ELSE "idle"]
<1>1. /\ u.started = t.started
      /\ u.flows = [k \in Keys |-> IF k \in K THEN NoFlow
                       ELSE IF k \in due
                       THEN [Snapshot(t.flows[k]) EXCEPT !.nextSnapshotAt = now + SnapshotInterval]
                       ELSE t.flows[k]]
      /\ u.emitted = t.emitted \cup {Rec(t.flows[k], "max_lifetime") : k \in aged}
                        \cup {Rec(t.flows[k], "idle") : k \in idle}
                        \cup {Rec(Snapshot(t.flows[k]), "snapshot") : k \in due}
      /\ u.recentDown = [k \in Keys |-> IF now - t.recentDown[k] >= GraceWindow THEN NoTime
                                        ELSE t.recentDown[k]]
  BY DEF Tick, Table
<1>2. K \subseteq Live(t) /\ due \subseteq Live(t) /\ K \cap due = {} /\ aged \cap idle = {}
  OBVIOUS
<1>3. \A k \in K : why[k] \in CloseReasons /\ why[k] \notin {"fin_rst", "evicted"}
  BY DEF CloseReasons
<1>4. \A k \in Live(t) \ K : /\ ~ OverAge(t.flows[k], now) /\ ~ Idle(t.flows[k], now)
                             /\ k \notin due => ~ SnapshotDue(t.flows[k], now)
  OBVIOUS
<1>5. {Rec(t.flows[k], why[k]) : k \in K}
         = {Rec(t.flows[k], "max_lifetime") : k \in aged} \cup {Rec(t.flows[k], "idle") : k \in idle}
  <2>1. \A k \in aged : k \in K /\ why[k] = "max_lifetime"
    OBVIOUS
  <2>2. \A k \in idle : k \in K /\ why[k] = "idle"
    BY <1>2
  <2>3. \A k \in K : k \in aged \/ k \in idle
    OBVIOUS
  <2> HIDE DEF aged, idle, K, why
  <2>. QED BY <2>1, <2>2, <2>3
<1> HIDE DEF aged, idle, due, K, why, u
<1>6. u.emitted = t.emitted \cup {Rec(t.flows[k], why[k]) : k \in K}
                    \cup {Rec(Snapshot(t.flows[k]), "snapshot") : k \in due}
  BY <1>1, <1>5
<1>7. Sweeps(t, u, K, due, why, now)
  BY <1>1, <1>2, <1>3, <1>6 DEF Sweeps, Snapped
<1>. QED BY <1>1, <1>3, <1>4, <1>7 DEF u

LEMMA FlushSweeps ==
    ASSUME NEW t \in Table, NEW now \in Times
    PROVE  /\ \E why : /\ Sweeps(t, Flush(t), Live(t), {}, why, now)
                       /\ \A k \in Live(t) : why[k] \notin {"fin_rst", "evicted"}
           /\ Flush(t).recentDown = t.recentDown
<1> DEFINE u == Flush(t)
           why == [k \in Live(t) |-> "capture_end"]
<1>1. /\ u.started = t.started /\ u.flows = [k \in Keys |-> NoFlow] /\ u.recentDown = t.recentDown
      /\ u.emitted = t.emitted \cup {Rec(t.flows[k], "capture_end") : k \in Live(t)}
  BY DEF Flush, Table
<1>2. \A k \in Live(t) : why[k] \in CloseReasons /\ why[k] \notin {"fin_rst", "evicted"}
  BY DEF CloseReasons
<1>3. {Rec(t.flows[k], why[k]) : k \in Live(t)} = {Rec(t.flows[k], "capture_end") : k \in Live(t)}
  OBVIOUS
<1>4. \A k \in Keys : k \notin Live(t) => t.flows[k] = NoFlow
  BY DEF Live
<1> HIDE DEF u, why
<1>5. u.flows = [k \in Keys |-> IF k \in Live(t) THEN NoFlow
                                ELSE IF k \in {} THEN Snapped(t.flows[k], now) ELSE t.flows[k]]
  BY <1>1, <1>4
<1>6. u.emitted = t.emitted \cup {Rec(t.flows[k], why[k]) : k \in Live(t)}
                    \cup {Rec(Snapshot(t.flows[k]), "snapshot") : k \in {}}
  BY <1>1, <1>3
<1>7. Sweeps(t, u, Live(t), {}, why, now)
  BY <1>1, <1>2, <1>5, <1>6 DEF Sweeps
<1>. QED BY <1>1, <1>2, <1>7 DEF u

-----------------------------------------------------------------------------
(* Closing is terminal. *)

\* Two closing records of one flow.
SameClosing(r, s) == r = s \/ ClosedTwice(r, s) \/ ClosedTwice(s, r)

\* What the ids say: ClosesOnce, with the ids of all records and entries in the range handed
\* out, and the live flow of a key its newest.
Books(t) ==
    /\ \A r \in t.emitted : r.id \in 1..t.started
    /\ \A k \in Live(t) : t.flows[k].id \in 1..t.started /\ t.flows[k].key = k
    /\ \A id \in 1..t.started : Closings(t, id) # {} \/ \E k \in Live(t) : t.flows[k].id = id
    /\ \A k \in Live(t) : Closings(t, t.flows[k].id) = {}
    /\ \A id \in 1..t.started : \A r, s \in Closings(t, id) : SameClosing(r, s)
    /\ \A j, k \in Live(t) : t.flows[j].id = t.flows[k].id => j = k
    /\ \A r \in t.emitted : r.key \in Live(t) => r.id <= t.flows[r.key].id

LEMMA FoldKeeps ==
    ASSUME NEW e \in Entry, NEW p \in Packet
    PROVE  /\ Fold(e, p).id = e.id /\ Fold(e, p).key = e.key /\ Fold(e, p).first = e.first
           /\ Fold(e, p).snapshots = e.snapshots /\ Fold(e, p).nextSnapshotAt = e.nextSnapshotAt
           /\ Fold(e, p).packets = e.packets \cup {p.n}
           /\ Fold(e, p).last >= e.last /\ Fold(e, p).last >= p.ts
           /\ e.last <= p.ts => Fold(e, p).last = p.ts
           /\ Fold(e, p).syn = (e.syn \/ "SYN" \in p.flags)
<1>1. e.last \in Int /\ p.ts \in Int
  BY DEF Entry, Packet, Times
<1>2. /\ Fold(e, p).id = e.id /\ Fold(e, p).key = e.key /\ Fold(e, p).first = e.first
      /\ Fold(e, p).snapshots = e.snapshots /\ Fold(e, p).nextSnapshotAt = e.nextSnapshotAt
      /\ Fold(e, p).packets = e.packets \cup {p.n}
      /\ Fold(e, p).last = IF p.ts > e.last THEN p.ts ELSE e.last
      /\ Fold(e, p).syn = (e.syn \/ "SYN" \in p.flags)
  BY DEF Fold, Entry
<1>. QED BY <1>1, <1>2

LEMMA GrownBooks ==
    ASSUME NEW t \in Table, NEW p \in Packet, Books(t)
    PROVE  Books(Grown(t, p))
<1> DEFINE u == Grown(t, p)
           f == Fold(EntryFor(t, p), p)
<1>1. /\ u.emitted = t.emitted /\ Live(u) = Live(t) \cup {p.key}
      /\ u.started = IF p.key \in Live(t) THEN t.started ELSE t.started + 1
      /\ u.flows[p.key] = f /\ \A k \in Keys \ {p.key} : u.flows[k] = t.flows[k]
  BY GrownFields
<1>2. f.id = EntryFor(t, p).id /\ f.key = EntryFor(t, p).key
  BY EntryForType, FoldKeeps
<1>3. t.started \in Nat /\ Live(t) \subseteq Keys
  BY DEF Table, Live
<1>4. \A id : Closings(u, id) = Closings(t, id)
  BY <1>1 DEF Closings
<1>5. CASE p.key \in Live(t)
  <2>1. f.id = t.flows[p.key].id /\ f.key = t.flows[p.key].key
    BY <1>2, <1>5 DEF EntryFor
  <2>2. /\ Live(u) = Live(t) /\ u.started = t.started /\ u.emitted = t.emitted
        /\ \A k \in Live(t) : u.flows[k].id = t.flows[k].id /\ u.flows[k].key = t.flows[k].key
    BY <1>1, <1>3, <1>5, <2>1
  <2> HIDE DEF u
  <2>3. Books(u)
    BY <1>4, <2>2 DEF Books
  <2>. QED BY <2>3 DEF u
<1>6. CASE p.key \notin Live(t)
  <2>1. f.id = t.started + 1 /\ f.key = p.key
    BY <1>2, <1>6 DEF EntryFor, NewEntry, NextID
  <2>2. \A k \in Live(t) : u.flows[k] = t.flows[k] /\ k # p.key
    BY <1>1, <1>3, <1>6
  <2> HIDE DEF u, f
  <2>3. u.started = t.started + 1 /\ u.emitted = t.emitted /\ u.flows[p.key].id = u.started
    BY <1>1, <1>6, <2>1
  <2>4. Closings(t, t.started + 1) = {}
    <3>1. \A r \in t.emitted : r.id # t.started + 1
      BY <1>3 DEF Books
    <3>. QED BY <3>1 DEF Closings
  <2>5. \A id \in 1..u.started : id \in 1..t.started \/ id = t.started + 1
    BY <1>3, <2>3
  <2>6. \A id \in 1..t.started : id \in 1..u.started /\ id # t.started + 1 /\ id < t.started + 1
    BY <1>3, <2>3
  <2>7. u.started \in 1..u.started
    BY <1>3, <2>3
  <2>8. \A r \in u.emitted : r.id \in 1..u.started
    BY <2>3, <2>6 DEF Books
  <2>9. \A k \in Live(u) : u.flows[k].id \in 1..u.started /\ u.flows[k].key = k
    BY <1>1, <2>1, <2>2, <2>3, <2>6, <2>7 DEF Books
  <2>10. \A id \in 1..u.started : Closings(u, id) # {} \/ \E k \in Live(u) : u.flows[k].id = id
    BY <1>1, <1>4, <2>2, <2>3, <2>5 DEF Books
  <2>11. \A k \in Live(u) : Closings(u, u.flows[k].id) = {}
    BY <1>1, <1>4, <2>2, <2>3, <2>4 DEF Books
  <2>12. \A id \in 1..u.started : \A r, s \in Closings(u, id) : SameClosing(r, s)
    BY <1>4, <2>4, <2>5 DEF Books
  <2>13. \A j, k \in Live(u) : u.flows[j].id = u.flows[k].id => j = k
    BY <1>1, <2>2, <2>3, <2>6 DEF Books
  <2>14. \A r \in u.emitted : r.key \in Live(u) => r.id <= u.flows[r.key].id
    <3> SUFFICES ASSUME NEW r \in t.emitted, r.key \in Live(u) PROVE r.id <= u.flows[r.key].id
      BY <2>3
    <3>1. CASE r.key = p.key
      <4>1. r.id \in 1..t.started
        BY DEF Books
      <4>. QED BY <1>3, <2>3, <3>1, <4>1
    <3>2. CASE r.key # p.key
      BY <1>1, <2>2, <3>2 DEF Books
    <3>. QED BY <3>1, <3>2
  <2>15. Books(u)
    BY <2>8, <2>9, <2>10, <2>11, <2>12, <2>13, <2>14 DEF Books
  <2>. QED BY <2>15 DEF u
<1>. QED BY <1>5, <1>6

LEMMA SweepsBooks ==
    ASSUME NEW t \in Table, NEW u, NEW K, NEW D, NEW why, NEW now \in Times,
           Sweeps(t, u, K, D, why, now), Books(t)
    PROVE  Books(u)
<1>1. /\ Live(u) = Live(t) \ K /\ K \subseteq Live(t) /\ D \subseteq Live(t)
      /\ u.started = t.started /\ t.emitted \subseteq u.emitted
  <2>1. Live(u) = Live(t) \ K /\ t.emitted \subseteq u.emitted
    BY SweepsFacts
  <2>. QED BY <2>1 DEF Sweeps
<1>2. \A k \in Live(u) : u.flows[k].id = t.flows[k].id /\ u.flows[k].key = t.flows[k].key
  BY <1>1, SweepsFacts, SnappedType, LiveEntry
<1>3. \A k \in K : LET c == Rec(t.flows[k], why[k])
                   IN  c \in u.emitted /\ c.id = t.flows[k].id /\ c.key = t.flows[k].key /\ c.reason \in CloseReasons
  <2>1. \A k \in K : Rec(t.flows[k], why[k]) \in u.emitted
    BY SweepsFacts
  <2>2. \A k \in K : why[k] \in CloseReasons
    BY DEF Sweeps
  <2>. QED BY <2>1, <2>2 DEF Rec
<1>4. \A k \in D : LET c == Rec(Snapshot(t.flows[k]), "snapshot")
                   IN  c.id = t.flows[k].id /\ c.key = t.flows[k].key /\ c.reason \notin CloseReasons
  BY <1>1, SnappedType, LiveEntry DEF Rec, CloseReasons
<1>5. \A r \in u.emitted :
         \/ r \in t.emitted
         \/ \E k \in K : r = Rec(t.flows[k], why[k])
         \/ \E k \in D : r = Rec(Snapshot(t.flows[k]), "snapshot")
  BY SweepsFacts
<1>6. \A r \in u.emitted : r \in t.emitted \/ \E k \in K \cup D : r.id = t.flows[k].id /\ r.key = t.flows[k].key
  BY <1>3, <1>4, <1>5
<1>7. \A r \in u.emitted : r.reason \in CloseReasons => r \in t.emitted \/ \E k \in K : r = Rec(t.flows[k], why[k])
  BY <1>4, <1>5
<1>8. \A id : Closings(t, id) \subseteq Closings(u, id)
  BY <1>1 DEF Closings
<1>9. \A r \in u.emitted : r.id \in 1..u.started
  BY <1>1, <1>6 DEF Books
<1>10. \A k \in Live(u) : u.flows[k].id \in 1..u.started /\ u.flows[k].key = k
  BY <1>1, <1>2 DEF Books
<1>11. \A id \in 1..u.started : Closings(u, id) # {} \/ \E k \in Live(u) : u.flows[k].id = id
  <2> SUFFICES ASSUME NEW id \in 1..u.started, Closings(u, id) = {}
               PROVE  \E k \in Live(u) : u.flows[k].id = id
    OBVIOUS
  <2>1. PICK k \in Live(t) : t.flows[k].id = id
    BY <1>1, <1>8 DEF Books
  <2>2. k \notin K
    BY <1>3, <2>1 DEF Closings
  <2>. QED BY <1>1, <1>2, <2>1, <2>2
<1>12. \A k \in Live(u) : Closings(u, u.flows[k].id) = {}
  <2> SUFFICES ASSUME NEW k \in Live(u), NEW r \in Closings(u, u.flows[k].id) PROVE FALSE
    OBVIOUS
  <2>1. r \in u.emitted /\ r.id = t.flows[k].id /\ r.reason \in CloseReasons /\ k \in Live(t) /\ k \notin K
    BY <1>1, <1>2 DEF Closings
  <2>2. CASE r \in t.emitted
    BY <2>1, <2>2 DEF Books, Closings
  <2>3. CASE \E j \in K : r = Rec(t.flows[j], why[j])
    BY <1>1, <1>3, <2>1, <2>3 DEF Books
  <2>. QED BY <1>7, <2>1, <2>2, <2>3
<1>13. \A id \in 1..u.started : \A r, s \in Closings(u, id) : SameClosing(r, s)
  <2> SUFFICES ASSUME NEW id \in 1..u.started, NEW r \in Closings(u, id), NEW s \in Closings(u, id)
               PROVE  SameClosing(r, s)
    OBVIOUS
  <2>1. /\ r \in u.emitted /\ r.id = id /\ r.reason \in CloseReasons
        /\ s \in u.emitted /\ s.id = id /\ s.reason \in CloseReasons
    BY DEF Closings
  <2>2. CASE r \in t.emitted /\ s \in t.emitted
    BY <1>1, <2>1, <2>2 DEF Books, Closings
  <2>3. ASSUME NEW j \in K, r = Rec(t.flows[j], why[j]) PROVE SameClosing(r, s)
    <3>1. t.flows[j].id = id /\ j \in Live(t)
      BY <1>1, <1>3, <2>1, <2>3
    <3>2. s \notin t.emitted
      BY <2>1, <3>1 DEF Books, Closings
    <3>3. PICK k \in K : s = Rec(t.flows[k], why[k])
      BY <1>7, <2>1, <3>2
    <3>. QED BY <1>1, <1>3, <2>1, <2>3, <3>1, <3>3 DEF Books, SameClosing
  <2>4. ASSUME NEW j \in K, s = Rec(t.flows[j], why[j]) PROVE SameClosing(r, s)
    <3>1. t.flows[j].id = id /\ j \in Live(t)
      BY <1>1, <1>3, <2>1, <2>4
    <3>2. r \notin t.emitted
      BY <2>1, <3>1 DEF Books, Closings
    <3>3. PICK k \in K : r = Rec(t.flows[k], why[k])
      BY <1>7, <2>1, <3>2
    <3>. QED BY <1>1, <1>3, <2>1, <2>4, <3>1, <3>3 DEF Books, SameClosing
  <2>. QED BY <1>7, <2>1, <2>2, <2>3, <2>4
<1>14. \A j, k \in Live(u) : u.flows[j].id = u.flows[k].id => j = k
  BY <1>1, <1>2 DEF Books
<1>15. \A r \in u.emitted : r.key \in Live(u) => r.id <= u.flows[r.key].id
  <2> SUFFICES ASSUME NEW r \in u.emitted, r.key \in Live(u) PROVE r.id <= u.flows[r.key].id
    OBVIOUS
  <2>1. r.key \in Live(t) /\ u.flows[r.key].id = t.flows[r.key].id
    BY <1>1, <1>2
  <2>2. CASE r \in t.emitted
    BY <2>1, <2>2 DEF Books
  <2>3. CASE \E k \in K \cup D : r.id = t.flows[k].id /\ r.key = t.flows[k].key
    <3>1. PICK k \in K \cup D : r.id = t.flows[k].id /\ r.key = t.flows[k].key
      BY <2>3
    <3>2. r.key = k /\ t.flows[k].id \in 1..t.started
      BY <1>1, <3>1 DEF Books
    <3>. QED BY <2>1, <3>1, <3>2
  <2>. QED BY <1>6, <2>2, <2>3
<1>. QED BY <1>9, <1>10, <1>11, <1>12, <1>13, <1>14, <1>15 DEF Books

LEMMA BearsBooks ==
    ASSUME NEW t \in Table, NEW u, NEW r, Bears(t, u, r), Books(t)
    PROVE  Books(u)
<1>1. /\ u \in Table /\ r \in Emission /\ Stillborn(r) /\ r.reason \in CloseReasons
      /\ u.flows = t.flows /\ u.emitted = t.emitted \cup {r} /\ Live(u) = Live(t) /\ r.id = u.started
      /\ t.started \in Nat /\ u.started \in Nat /\ r.id \in Nat \ {0}
  BY DEF Bears, Live, Stillborn, CloseReasons, Table, Emission
<1>2. \A id : Closings(u, id) = Closings(t, id) \cup (IF id = r.id THEN {r} ELSE {})
  BY <1>1 DEF Closings
<1>3. \A k \in Live(t) : t.flows[k].id # r.id
  <2>1. CASE u.started = t.started + 1
    <3>1. \A k \in Live(t) : t.flows[k].id \in 1..t.started
      BY DEF Books
    <3>. QED BY <1>1, <2>1, <3>1
  <2>2. CASE u.started # t.started + 1
    BY <2>2 DEF Bears, Books
  <2>. QED BY <2>1, <2>2
<1>4. 1..t.started \subseteq 1..u.started /\ \A id \in 1..u.started : id \in 1..t.started \/ id = r.id
  <2>1. u.started = t.started \/ u.started = t.started + 1
    BY DEF Bears
  <2>. QED BY <1>1, <2>1
<1>5. \A x \in u.emitted : x.id \in 1..u.started
  BY <1>1, <1>4 DEF Books
<1>6. \A k \in Live(u) : u.flows[k].id \in 1..u.started /\ u.flows[k].key = k
  BY <1>1, <1>4 DEF Books
<1>7. \A id \in 1..u.started : Closings(u, id) # {} \/ \E k \in Live(u) : u.flows[k].id = id
  BY <1>1, <1>2, <1>4 DEF Books
<1>8. \A k \in Live(u) : Closings(u, u.flows[k].id) = {}
  BY <1>1, <1>2, <1>3 DEF Books
<1>9. \A id \in 1..u.started : \A x, y \in Closings(u, id) : SameClosing(x, y)
  <2> SUFFICES ASSUME NEW id \in 1..u.started, NEW x \in Closings(u, id), NEW y \in Closings(u, id)
               PROVE  SameClosing(x, y)
    OBVIOUS
  <2>1. CASE id # r.id
    BY <1>2, <1>4, <2>1 DEF Books
  <2>2. CASE id = r.id
    <3>1. Closings(t, r.id) = {} \/ \E s : Closings(t, r.id) = {s} /\ ClosedTwice(r, s)
      <4>1. CASE u.started = t.started + 1
        <5>1. \A z \in t.emitted : z.id # t.started + 1
          BY <1>1 DEF Books
        <5>. QED BY <1>1, <4>1, <5>1 DEF Closings
      <4>2. CASE u.started # t.started + 1
        BY <4>2 DEF Bears
      <4>. QED BY <4>1, <4>2
    <3>. QED BY <1>2, <2>2, <3>1 DEF SameClosing
  <2>. QED BY <2>1, <2>2
<1>10. \A j, k \in Live(u) : u.flows[j].id = u.flows[k].id => j = k
  BY <1>1 DEF Books
<1>11. \A x \in u.emitted : x.key \in Live(u) => x.id <= u.flows[x.key].id
  <2>1. r.key \notin Live(t)
    BY DEF Bears
  <2>. QED BY <1>1, <2>1 DEF Books
<1>. QED BY <1>5, <1>6, <1>7, <1>8, <1>9, <1>10, <1>11 DEF Books

-----------------------------------------------------------------------------
(* No packet is lost or counted twice. *)

Holders(t, n) == {k \in Live(t) : n \in t.flows[k].packets}
Finals(t, n) == {r \in t.emitted : r.reason \in CloseReasons /\ n \in r.packets}

\* Of the packets 1..N those of A were absorbed, and each of the others is in one live flow
\* or in one closing record; nothing holds a packet that has not come.
Accounts(t, N, A) ==
    /\ \A n : n \notin 1..N => Holders(t, n) = {} /\ Finals(t, n) = {}
    /\ \A n \in A : Holders(t, n) = {} /\ Finals(t, n) = {}
    /\ \A n \in (1..N) \ A : \/ Finals(t, n) = {} /\ \E k : Holders(t, n) = {k}
                             \/ Holders(t, n) = {} /\ \E r : Finals(t, n) = {r}

LEMMA GrownAccounts ==
    ASSUME NEW t \in Table, NEW p \in Packet, NEW N \in Nat, p.n = N + 1, NEW A \in SUBSET (1..N),
           Accounts(t, N, A)
    PROVE  Accounts(Grown(t, p), N + 1, A)
<1> DEFINE u == Grown(t, p)
           e == EntryFor(t, p)
<1>1. /\ u.emitted = t.emitted /\ Live(u) = Live(t) \cup {p.key}
      /\ u.flows[p.key] = Fold(e, p) /\ \A k \in Keys \ {p.key} : u.flows[k] = t.flows[k]
  BY GrownFields
<1>2. Fold(e, p).packets = e.packets \cup {N + 1}
  BY EntryForType, FoldKeeps
<1>3. e.packets = IF p.key \in Live(t) THEN t.flows[p.key].packets ELSE {}
  BY DEF EntryFor, NewEntry
<1>4. Live(t) \subseteq Keys
  BY DEF Live
<1> HIDE DEF u, e
<1>5. \A n : Finals(u, n) = Finals(t, n)
  BY <1>1 DEF Finals
<1>6. \A n : n # N + 1 => Holders(u, n) = Holders(t, n)
  BY <1>1, <1>2, <1>3, <1>4 DEF Holders
<1>7. N + 1 \notin 1..N /\ (1..N+1) = (1..N) \cup {N + 1}
  OBVIOUS
<1>8. Holders(u, N + 1) = {p.key}
  <2>1. Holders(t, N + 1) = {}
    BY <1>7 DEF Accounts
  <2>2. \A k \in Live(u) : N + 1 \in u.flows[k].packets <=> k = p.key
    BY <1>1, <1>2, <1>4, <2>1 DEF Holders
  <2>. QED BY <1>1, <2>2 DEF Holders
<1>9. Finals(u, N + 1) = {}
  BY <1>5, <1>7 DEF Accounts
<1>10. Accounts(u, N + 1, A)
  <2>1. \A n : n \notin 1..N+1 => Holders(u, n) = {} /\ Finals(u, n) = {}
    BY <1>5, <1>6, <1>7 DEF Accounts
  <2>2. \A n \in A : Holders(u, n) = {} /\ Finals(u, n) = {}
    BY <1>5, <1>6, <1>7 DEF Accounts
  <2>3. \A n \in (1..N+1) \ A : \/ Finals(u, n) = {} /\ \E k : Holders(u, n) = {k}
                                \/ Holders(u, n) = {} /\ \E r : Finals(u, n) = {r}
    <3> SUFFICES ASSUME NEW n \in (1..N+1) \ A
                 PROVE  \/ Finals(u, n) = {} /\ \E k : Holders(u, n) = {k}
                        \/ Holders(u, n) = {} /\ \E r : Finals(u, n) = {r}
      OBVIOUS
    <3>1. CASE n = N + 1
      BY <1>8, <1>9, <3>1
    <3>2. CASE n # N + 1
      <4>1. n \in (1..N) \ A
        BY <1>7, <3>2
      <4>. QED BY <1>5, <1>6, <3>2, <4>1 DEF Accounts
    <3>. QED BY <3>1, <3>2
  <2>. QED BY <2>1, <2>2, <2>3 DEF Accounts
<1>. QED BY <1>10 DEF u

LEMMA AbsorbedAccounts ==
    ASSUME NEW t, NEW N \in Nat, NEW A \in SUBSET (1..N), Accounts(t, N, A)
    PROVE  Accounts(t, N + 1, A \cup {N + 1})
<1>1. N + 1 \notin 1..N /\ (1..N+1) = (1..N) \cup {N + 1}
  OBVIOUS
<1>2. (1..N+1) \ (A \cup {N + 1}) = (1..N) \ A
  BY <1>1
<1>. QED BY <1>1, <1>2 DEF Accounts

LEMMA SweepsAccounts ==
    ASSUME NEW t \in Table, NEW u, NEW K, NEW D, NEW why, NEW now \in Times,
           Sweeps(t, u, K, D, why, now), NEW N \in Nat, NEW A \in SUBSET (1..N), Accounts(t, N, A)
    PROVE  Accounts(u, N, A)
<1>1. Live(u) = Live(t) \ K /\ t.emitted \subseteq u.emitted
  BY SweepsFacts
<1>2. K \subseteq Live(t) /\ D \subseteq Live(t)
  BY DEF Sweeps
<1>3. \A k \in Live(u) : u.flows[k].packets = t.flows[k].packets
  BY <1>1, SweepsFacts, SnappedType, LiveEntry
<1>4. \A k \in K : LET c == Rec(t.flows[k], why[k])
                   IN  c \in u.emitted /\ c.packets = t.flows[k].packets /\ c.reason \in CloseReasons
  <2>1. \A k \in K : Rec(t.flows[k], why[k]) \in u.emitted
    BY SweepsFacts
  <2>2. \A k \in K : why[k] \in CloseReasons
    BY DEF Sweeps
  <2>. QED BY <2>1, <2>2 DEF Rec
<1>5. \A r \in u.emitted : r.reason \in CloseReasons => r \in t.emitted \/ \E k \in K : r = Rec(t.flows[k], why[k])
  <2>1. \A k \in D : Rec(Snapshot(t.flows[k]), "snapshot").reason \notin CloseReasons
    BY DEF Rec, CloseReasons
  <2>. QED BY <2>1, SweepsFacts
<1>6. \A n : Holders(u, n) = Holders(t, n) \ K
  BY <1>1, <1>3 DEF Holders
<1>7. \A n : Finals(u, n) = Finals(t, n) \cup {Rec(t.flows[k], why[k]) : k \in Holders(t, n) \cap K}
  <2> SUFFICES ASSUME NEW n
               PROVE  Finals(u, n) = Finals(t, n) \cup {Rec(t.flows[k], why[k]) : k \in Holders(t, n) \cap K}
    OBVIOUS
  <2>1. \A r \in Finals(u, n) : r \in Finals(t, n) \/ \E k \in Holders(t, n) \cap K : r = Rec(t.flows[k], why[k])
    BY <1>2, <1>4, <1>5 DEF Finals, Holders
  <2>2. \A k \in Holders(t, n) \cap K : Rec(t.flows[k], why[k]) \in Finals(u, n)
    BY <1>4 DEF Finals, Holders
  <2>3. Finals(t, n) \subseteq Finals(u, n)
    BY <1>1 DEF Finals
  <2>. QED BY <2>1, <2>2, <2>3
<1>8. \A n : Holders(t, n) = {} => Holders(u, n) = {} /\ Finals(u, n) = Finals(t, n)
  BY <1>6, <1>7
<1>9. ASSUME NEW n \in (1..N) \ A
      PROVE  \/ Finals(u, n) = {} /\ \E k : Holders(u, n) = {k}
             \/ Holders(u, n) = {} /\ \E r : Finals(u, n) = {r}
  <2>1. CASE Holders(t, n) = {} /\ \E r : Finals(t, n) = {r}
    BY <1>8, <2>1
  <2>2. CASE Finals(t, n) = {} /\ \E k : Holders(t, n) = {k}
    <3>1. PICK k : Holders(t, n) = {k}
      BY <2>2
    <3>2. CASE k \in K
      <4>1. Holders(u, n) = {} /\ Finals(u, n) = {Rec(t.flows[k], why[k])}
        BY <1>6, <1>7, <2>2, <3>1, <3>2
      <4>. QED BY <4>1
    <3>3. CASE k \notin K
      <4>1. Holders(u, n) = {k} /\ Finals(u, n) = {}
        BY <1>6, <1>7, <2>2, <3>1, <3>3
      <4>. QED BY <4>1
    <3>. QED BY <3>2, <3>3
  <2>. QED BY <2>1, <2>2 DEF Accounts
<1>10. \A n : n \notin 1..N => Holders(u, n) = {} /\ Finals(u, n) = {}
  BY <1>8 DEF Accounts
<1>11. \A n \in A : Holders(u, n) = {} /\ Finals(u, n) = {}
  BY <1>8 DEF Accounts
<1>. QED BY <1>9, <1>10, <1>11 DEF Accounts

LEMMA BearsAccounts ==
    ASSUME NEW t \in Table, NEW u, NEW r, Bears(t, u, r), NEW N \in Nat, NEW A \in SUBSET (1..N),
           Accounts(t, N, A)
    PROVE  Accounts(u, N, A)
<1>1. u.flows = t.flows /\ u.emitted = t.emitted \cup {r} /\ r.packets = {}
  BY DEF Bears, Stillborn
<1>2. \A n : Holders(u, n) = Holders(t, n) /\ Finals(u, n) = Finals(t, n)
  BY <1>1 DEF Holders, Finals, Live
<1>. QED BY <1>2 DEF Accounts

\* The packets of S went astray, each with the flow that was evicted under it.
Lost(t, S) ==
    /\ \A a \in S : a.id \in 1..t.started /\ \E r \in t.emitted : Stillborn(r) /\ Closings(t, a.id) = {r}
    /\ \A a, b \in S : a.id = b.id => a = b

LEMMA GrownLost ==
    ASSUME NEW t \in Table, NEW p \in Packet, NEW S, Lost(t, S)
    PROVE  Lost(Grown(t, p), S)
<1> DEFINE u == Grown(t, p)
<1>1. u.emitted = t.emitted /\ t.started \in Nat /\ u.started \in {t.started, t.started + 1}
  BY GrownFields DEF Table
<1> HIDE DEF u
<1>2. \A id : Closings(u, id) = Closings(t, id)
  BY <1>1 DEF Closings
<1>3. 1..t.started \subseteq 1..u.started
  BY <1>1
<1>4. Lost(u, S)
  BY <1>1, <1>2, <1>3 DEF Lost
<1>. QED BY <1>4 DEF u

LEMMA SweepsLost ==
    ASSUME NEW t \in Table, NEW u, NEW K, NEW D, NEW why, NEW now \in Times,
           Sweeps(t, u, K, D, why, now), Books(t), NEW S, Lost(t, S)
    PROVE  Lost(u, S)
<1>1. u.started = t.started /\ t.emitted \subseteq u.emitted /\ K \subseteq Live(t)
  BY SweepsFacts DEF Sweeps
<1>2. \A r \in u.emitted : r.reason \in CloseReasons => r \in t.emitted \/ \E k \in K : r.id = t.flows[k].id
  <2>1. \A k \in D : Rec(Snapshot(t.flows[k]), "snapshot").reason \notin CloseReasons
    BY DEF Rec, CloseReasons
  <2>2. \A k \in K : Rec(t.flows[k], why[k]).id = t.flows[k].id
    BY DEF Rec
  <2>. QED BY <2>1, <2>2, SweepsFacts
<1>3. ASSUME NEW id, Closings(t, id) # {} PROVE Closings(u, id) = Closings(t, id)
  <2>1. \A k \in K : t.flows[k].id # id
    BY <1>1, <1>3 DEF Books
  <2>. QED BY <1>1, <1>2, <2>1 DEF Closings
<1>. QED BY <1>1, <1>3 DEF Lost

\* The flow that was evicted at birth, with its packet when that went astray.
LEMMA BearsLost ==
    ASSUME NEW t \in Table, NEW u, NEW r, Bears(t, u, r), Books(t), NEW S, Lost(t, S)
    PROVE  /\ Lost(u, S)
           /\ u.started = t.started + 1 => \A n : Lost(u, S \cup {[n |-> n, id |-> u.started]})
<1>1. /\ Stillborn(r) /\ r.reason \in CloseReasons /\ u.emitted = t.emitted \cup {r} /\ r.id = u.started
      /\ t.started \in Nat /\ u.started \in {t.started, t.started + 1}
  BY DEF Bears, Stillborn, CloseReasons, Table
<1>2. \A id : id # r.id => Closings(u, id) = Closings(t, id)
  BY <1>1 DEF Closings
<1>3. \A a \in S : a.id # r.id
  <2> SUFFICES ASSUME NEW a \in S, a.id = r.id PROVE FALSE
    OBVIOUS
  <2>1. a.id \in 1..t.started
    BY DEF Lost
  <2>2. u.started # t.started + 1
    BY <1>1, <2>1
  <2>3. PICK s : Closings(t, r.id) = {s} /\ ClosedTwice(r, s)
    BY <2>2 DEF Bears
  <2>4. \E x : Stillborn(x) /\ Closings(t, r.id) = {x}
    BY DEF Lost
  <2>. QED BY <2>3, <2>4 DEF ClosedTwice, Stillborn
<1>4. 1..t.started \subseteq 1..u.started
  BY <1>1
<1>5. Lost(u, S)
  BY <1>1, <1>2, <1>3, <1>4 DEF Lost
<1>6. ASSUME u.started = t.started + 1, NEW n PROVE Lost(u, S \cup {[n |-> n, id |-> u.started]})
  <2> DEFINE b == [n |-> n, id |-> u.started]
  <2>1. \A x \in t.emitted : x.id # u.started
    BY <1>1, <1>6 DEF Books
  <2>2. Closings(u, u.started) = {r}
    BY <1>1, <2>1 DEF Closings
  <2>3. b.id = r.id /\ u.started \in 1..u.started
    BY <1>1, <1>6
  <2> HIDE DEF b
  <2>4. Lost(u, S \cup {b})
    BY <1>1, <1>3, <1>5, <2>2, <2>3 DEF Lost
  <2>. QED BY <2>4 DEF b
<1>. QED BY <1>5, <1>6

-----------------------------------------------------------------------------
(* An evicted flow was never the only newest. *)

Outlived(t) ==
    \A r \in t.emitted : r.reason = "evicted" => \E x \in Seen(t) : x.id # r.id /\ x.last >= r.last

LEMMA EmittedTypes ==
    ASSUME NEW t \in Table, NEW r \in t.emitted
    PROVE  /\ r.id \in Nat /\ r.key \in Keys /\ r.first \in Nat /\ r.last \in Nat
           /\ r.first \in Times /\ r.last \in Times
BY ClockAssumption DEF Table, Emission, Times

LEMMA SeenTypes ==
    ASSUME NEW t \in Table, NEW x \in Seen(t)
    PROVE  x.last \in Int /\ x.id \in Nat
BY EmittedTypes, LiveEntry, ClockAssumption DEF Seen, Entry, Times

LEMMA GrownOutlived ==
    ASSUME NEW t \in Table, NEW p \in Packet, Outlived(t)
    PROVE  Outlived(Grown(t, p))
<1> DEFINE u == Grown(t, p)
           f == Fold(EntryFor(t, p), p)
<1>1. /\ u.emitted = t.emitted /\ Live(u) = Live(t) \cup {p.key}
      /\ u.flows[p.key] = f /\ \A k \in Keys \ {p.key} : u.flows[k] = t.flows[k]
  BY GrownFields
<1>2. f.id = EntryFor(t, p).id /\ f.last >= EntryFor(t, p).last /\ EntryFor(t, p) \in Entry /\ f \in Entry
  BY EntryForType, FoldType, FoldKeeps
<1>3. p.key \in Live(t) => EntryFor(t, p) = t.flows[p.key]
  BY DEF EntryFor
<1>4. Live(t) \subseteq Keys
  BY DEF Live
<1> HIDE DEF u, f
<1>5. ASSUME NEW x \in Seen(t) PROVE \E y \in Seen(u) : y.id = x.id /\ y.last >= x.last
  <2>1. x.last \in Int
    BY SeenTypes
  <2>2. CASE x \in t.emitted
    BY <1>1, <2>1, <2>2 DEF Seen
  <2>3. ASSUME NEW k \in Live(t), x = t.flows[k]
        PROVE  u.flows[k] \in Seen(u) /\ u.flows[k].id = x.id /\ u.flows[k].last >= x.last
    <3>1. u.flows[k] \in Seen(u)
      BY <1>1 DEF Seen
    <3>2. CASE k = p.key
      BY <1>1, <1>2, <1>3, <2>3, <3>1, <3>2
    <3>3. CASE k # p.key
      BY <1>1, <1>4, <2>1, <2>3, <3>1, <3>3
    <3>. QED BY <3>2, <3>3
  <2>. QED BY <2>2, <2>3 DEF Seen
<1>6. u \in Table
  BY GrownType DEF u
<1>7. Outlived(u)
  <2> SUFFICES ASSUME NEW r \in t.emitted, r.reason = "evicted"
               PROVE  \E y \in Seen(u) : y.id # r.id /\ y.last >= r.last
    BY <1>1 DEF Outlived
  <2>1. PICK x \in Seen(t) : x.id # r.id /\ x.last >= r.last
    BY DEF Outlived
  <2>2. PICK y \in Seen(u) : y.id = x.id /\ y.last >= x.last
    BY <1>5
  <2>3. r.last \in Int /\ x.last \in Int /\ y.last \in Int
    BY <1>6, SeenTypes, EmittedTypes
  <2>. QED BY <2>1, <2>2, <2>3
<1>. QED BY <1>7 DEF u

LEMMA SweepsOutlived ==
    ASSUME NEW t \in Table, NEW u, NEW K, NEW D, NEW why, NEW now \in Times,
           Sweeps(t, u, K, D, why, now), Books(t), Outlived(t),
           \A k \in K : why[k] = "evicted" => \E j \in Live(t) \ {k} : t.flows[k].last <= t.flows[j].last
    PROVE  Outlived(u)
<1>1. Live(u) = Live(t) \ K /\ t.emitted \subseteq u.emitted /\ K \subseteq Live(t)
  <2>1. Live(u) = Live(t) \ K /\ t.emitted \subseteq u.emitted
    BY SweepsFacts
  <2>. QED BY <2>1 DEF Sweeps
<1>2. ASSUME NEW x \in Seen(t) PROVE \E y \in Seen(u) : y.id = x.id /\ y.last = x.last
  <2>1. CASE x \in t.emitted
    BY <1>1, <2>1 DEF Seen
  <2>2. ASSUME NEW k \in Live(t), x = t.flows[k] PROVE \E y \in Seen(u) : y.id = x.id /\ y.last = x.last
    <3>1. CASE k \in K
      <4>1. Rec(t.flows[k], why[k]) \in u.emitted
        BY <3>1, SweepsFacts
      <4>2. Rec(t.flows[k], why[k]).id = x.id /\ Rec(t.flows[k], why[k]).last = x.last
        BY <2>2 DEF Rec
      <4>. QED BY <4>1, <4>2 DEF Seen
    <3>2. CASE k \notin K
      <4>1. k \in Live(u) /\ u.flows[k].id = x.id /\ u.flows[k].last = x.last
        BY <1>1, <2>2, <3>2, SweepsFacts, SnappedType, LiveEntry
      <4>. QED BY <4>1 DEF Seen
    <3>. QED BY <3>1, <3>2
  <2>. QED BY <2>1, <2>2 DEF Seen
<1>3. ASSUME NEW r \in u.emitted, r.reason = "evicted"
      PROVE  \E x \in Seen(t) : x.id # r.id /\ x.last >= r.last
  <2>1. CASE r \in t.emitted
    BY <1>3, <2>1 DEF Outlived
  <2>2. CASE r \notin t.emitted
    <3>1. \A k \in D : Rec(Snapshot(t.flows[k]), "snapshot").reason # "evicted"
      BY DEF Rec
    <3>2. PICK k \in K : r = Rec(t.flows[k], why[k])
      BY <1>3, <2>2, <3>1, SweepsFacts
    <3>3. r.id = t.flows[k].id /\ r.last = t.flows[k].last /\ why[k] = "evicted"
      BY <1>3, <3>2 DEF Rec
    <3>4. PICK j \in Live(t) \ {k} : t.flows[k].last <= t.flows[j].last
      BY <3>3
    <3>5. t.flows[j].id # t.flows[k].id
      BY <1>1, <3>4 DEF Books
    <3>6. t.flows[j] \in Seen(t) /\ t.flows[j].last \in Int /\ t.flows[k].last \in Int
      BY <1>1, LiveEntry, ClockAssumption DEF Seen, Entry, Times
    <3>. QED BY <3>3, <3>4, <3>5, <3>6
  <2>. QED BY <2>1, <2>2
<1>. QED BY <1>2, <1>3 DEF Outlived

LEMMA BearsOutlived ==
    ASSUME NEW t \in Table, NEW u, NEW r, Bears(t, u, r), Books(t), Outlived(t)
    PROVE  Outlived(u)
<1>1. u.flows = t.flows /\ u.emitted = t.emitted \cup {r} /\ Live(u) = Live(t) /\ r.last \in Int
  BY ClockAssumption DEF Bears, Live, Emission, Times
<1>2. Seen(t) \subseteq Seen(u)
  BY <1>1 DEF Seen
<1>3. PICK j \in Live(t) : r.last <= t.flows[j].last
  BY DEF Bears
<1>4. t.flows[j] \in Seen(u) /\ t.flows[j].last \in Int
  BY <1>2, LiveEntry, ClockAssumption DEF Seen, Entry, Times
<1>5. t.flows[j].id # r.id
  <2>1. CASE u.started = t.started + 1
    <3>1. t.flows[j].id \in 1..t.started /\ t.started \in Nat /\ r.id = t.started + 1
      BY <2>1 DEF Books, Table, Bears
    <3>. QED BY <3>1
  <2>2. CASE u.started # t.started + 1
    BY <2>2 DEF Bears, Books
  <2>. QED BY <2>1, <2>2
<1>. QED BY <1>1, <1>2, <1>3, <1>4, <1>5 DEF Outlived

-----------------------------------------------------------------------------
(* The versions of a flow. *)

Numbered(t, id) == {s \in t.emitted : s.id = id /\ s.reason = "snapshot"}

\* The flow has the snapshots 1..m, and what is known of it now holds all of theirs.
VersionsTo(t, id, m, packets, last) ==
    /\ IsFiniteSet(Numbered(t, id)) /\ Cardinality(Numbered(t, id)) = m
    /\ {s.index : s \in Numbered(t, id)} = 1..m
    /\ \A s \in Numbered(t, id) : s.packets \subseteq packets /\ s.last <= last

Versions(t) ==
    /\ \A k \in Live(t) : LET e == t.flows[k] IN VersionsTo(t, e.id, e.snapshots, e.packets, e.last)
    /\ \A r \in t.emitted : r.reason \in CloseReasons => VersionsTo(t, r.id, r.index, r.packets, r.last)
    /\ \A id : \A r, s \in Numbered(t, id) :
          s.index < r.index => s.packets \subseteq r.packets /\ s.last <= r.last

LEMMA GrownVersions ==
    ASSUME NEW t \in Table, NEW p \in Packet, Books(t), Versions(t)
    PROVE  Versions(Grown(t, p))
<1> DEFINE u == Grown(t, p)
           e == EntryFor(t, p)
           f == Fold(e, p)
<1>1. /\ u.emitted = t.emitted /\ Live(u) = Live(t) \cup {p.key}
      /\ u.flows[p.key] = f /\ \A k \in Keys \ {p.key} : u.flows[k] = t.flows[k]
  BY GrownFields
<1>2. /\ f.id = e.id /\ f.snapshots = e.snapshots /\ e.packets \subseteq f.packets /\ e.last <= f.last
      /\ e \in Entry /\ f \in Entry
  BY EntryForType, FoldKeeps, FoldType
<1>3. \A id : Numbered(u, id) = Numbered(t, id)
  BY <1>1 DEF Numbered
<1>4. \A id, m, packets, last : VersionsTo(u, id, m, packets, last) <=> VersionsTo(t, id, m, packets, last)
  BY <1>3 DEF VersionsTo
<1>5. \A id : \A s \in Numbered(t, id) : s.last \in Int
  BY DEF Numbered, Table, Emission, Times
<1>6. VersionsTo(u, f.id, f.snapshots, f.packets, f.last)
  <2>1. VersionsTo(t, e.id, e.snapshots, e.packets, e.last)
    <3>1. CASE p.key \in Live(t)
      BY <3>1 DEF Versions, EntryFor
    <3>2. CASE p.key \notin Live(t)
      <4>1. e.id = t.started + 1 /\ e.snapshots = 0
        BY <3>2 DEF EntryFor, NewEntry, NextID
      <4>2. Numbered(t, e.id) = {}
        <5>1. t.started + 1 \notin 1..t.started
          BY DEF Table
        <5>. QED BY <4>1, <5>1 DEF Numbered, Books
      <4>3. Cardinality(Numbered(t, e.id)) = 0 /\ IsFiniteSet(Numbered(t, e.id))
        BY <4>2, FS_EmptySet
      <4>4. 1..0 = {}
        OBVIOUS
      <4>. QED BY <4>1, <4>2, <4>3, <4>4 DEF VersionsTo
    <3>. QED BY <3>1, <3>2
  <2>2. f.last \in Int /\ e.last \in Int
    BY <1>2 DEF Entry, Times
  <2> HIDE DEF e, f, u
  <2>3. \A s \in Numbered(t, e.id) : s.packets \subseteq f.packets /\ s.last <= f.last
    BY <1>2, <1>5, <2>1, <2>2 DEF VersionsTo
  <2>. QED BY <1>2, <1>3, <2>1, <2>3 DEF VersionsTo
<1>7. \A k \in Live(t) \ {p.key} : u.flows[k] = t.flows[k]
  BY <1>1 DEF Live
<1> HIDE DEF e, f, u
<1>8. \A k \in Live(u) : LET x == u.flows[k] IN VersionsTo(u, x.id, x.snapshots, x.packets, x.last)
  <2> SUFFICES ASSUME NEW k \in Live(u)
               PROVE  VersionsTo(u, u.flows[k].id, u.flows[k].snapshots, u.flows[k].packets, u.flows[k].last)
    OBVIOUS
  <2>1. CASE k = p.key
    BY <1>1, <1>6, <2>1
  <2>2. CASE k # p.key
    BY <1>1, <1>4, <1>7, <2>2 DEF Versions
  <2>. QED BY <2>1, <2>2
<1>9. \A r \in u.emitted : r.reason \in CloseReasons => VersionsTo(u, r.id, r.index, r.packets, r.last)
  BY <1>1, <1>4 DEF Versions
<1>10. \A id : \A r, s \in Numbered(u, id) : s.index < r.index => s.packets \subseteq r.packets /\ s.last <= r.last
  BY <1>3 DEF Versions
<1>11. Versions(u)
  BY <1>8, <1>9, <1>10 DEF Versions
<1>. QED BY <1>11 DEF u

\* Taking the next snapshot of a flow.
LEMMA NextVersion ==
    ASSUME NEW t \in Table, NEW u, NEW id, NEW m \in Nat, NEW packets, NEW last \in Int, NEW x,
           VersionsTo(t, id, m, packets, last), Numbered(u, id) = Numbered(t, id) \cup {x},
           x.index = m + 1, x.packets = packets, x.last = last
    PROVE  VersionsTo(u, id, m + 1, packets, last)
<1> DEFINE S == Numbered(t, id)
<1>1. IsFiniteSet(S) /\ Cardinality(S) = m /\ {s.index : s \in S} = 1..m
      /\ \A s \in S : s.packets \subseteq packets /\ s.last <= last
  BY DEF VersionsTo
<1>2. x \notin S
  <2>1. m + 1 \notin 1..m
    OBVIOUS
  <2>. QED BY <1>1, <2>1
<1>3. IsFiniteSet(S \cup {x}) /\ Cardinality(S \cup {x}) = m + 1
  BY <1>1, <1>2, FS_AddElement
<1>4. {s.index : s \in S \cup {x}} = {s.index : s \in S} \cup {m + 1}
  OBVIOUS
<1>5. (1..m) \cup {m + 1} = 1..(m + 1)
  OBVIOUS
<1>6. \A s \in S \cup {x} : s.packets \subseteq packets /\ s.last <= last
  BY <1>1
<1>. QED BY <1>1, <1>3, <1>4, <1>5, <1>6 DEF VersionsTo

LEMMA SweepsVersions ==
    ASSUME NEW t \in Table, NEW u \in Table, NEW K, NEW D, NEW why, NEW now \in Times,
           Sweeps(t, u, K, D, why, now), Books(t), Versions(t)
    PROVE  Versions(u)
<1> DEFINE snap(k) == Rec(Snapshot(t.flows[k]), "snapshot")
<1>1. Live(u) = Live(t) \ K /\ t.emitted \subseteq u.emitted
  BY SweepsFacts
<1>2. K \subseteq Live(t) /\ D \subseteq Live(t) /\ K \cap D = {}
  BY DEF Sweeps
<1>3. \A k \in Live(t) :
         LET e == t.flows[k] IN /\ e.snapshots \in Nat /\ e.last \in Int
                                /\ VersionsTo(t, e.id, e.snapshots, e.packets, e.last)
  BY LiveEntry DEF Versions, Entry, Times
<1>4. \A k \in D : /\ snap(k) \in u.emitted /\ snap(k).id = t.flows[k].id /\ snap(k).reason = "snapshot"
                   /\ snap(k).index = t.flows[k].snapshots + 1
                   /\ snap(k).packets = t.flows[k].packets /\ snap(k).last = t.flows[k].last
  <2>1. \A k \in D : snap(k) \in u.emitted
    BY SweepsFacts
  <2>2. \A k \in D : /\ Snapshot(t.flows[k]).id = t.flows[k].id
                     /\ Snapshot(t.flows[k]).snapshots = t.flows[k].snapshots + 1
                     /\ Snapshot(t.flows[k]).packets = t.flows[k].packets
                     /\ Snapshot(t.flows[k]).last = t.flows[k].last
    BY <1>2, SnappedType, LiveEntry
  <2>. QED BY <2>1, <2>2 DEF Rec
<1>5. \A r \in u.emitted : r.reason = "snapshot" => r \in t.emitted \/ \E k \in D : r = snap(k)
  <2>1. \A k \in K : Rec(t.flows[k], why[k]).reason # "snapshot"
    BY DEF Rec, Sweeps, CloseReasons
  <2>. QED BY <2>1, SweepsFacts
<1>6. \A r \in u.emitted : r.reason \in CloseReasons => r \in t.emitted \/ \E k \in K : r = Rec(t.flows[k], why[k])
  <2>1. \A k \in D : snap(k).reason \notin CloseReasons
    BY <1>4 DEF CloseReasons
  <2>. QED BY <2>1, SweepsFacts
<1>7. \A k \in K : LET c == Rec(t.flows[k], why[k])
                   IN  /\ c.id = t.flows[k].id /\ c.index = t.flows[k].snapshots
                       /\ c.packets = t.flows[k].packets /\ c.last = t.flows[k].last
  BY DEF Rec
<1>8. \A k \in D : u.flows[k] = Snapped(t.flows[k], now) /\ k \in Live(u)
  BY <1>1, <1>2, SweepsFacts
<1>9. \A k \in Live(u) \ D : u.flows[k] = t.flows[k] /\ k \in Live(t)
  BY <1>1, SweepsFacts
<1> HIDE DEF snap
<1>10. \A k \in D : Numbered(u, t.flows[k].id) = Numbered(t, t.flows[k].id) \cup {snap(k)}
  <2>1. \A j, k \in D : t.flows[j].id = t.flows[k].id => j = k
    BY <1>2 DEF Books
  <2>. QED BY <1>1, <1>4, <1>5, <2>1 DEF Numbered
<1>11. \A id : (\A k \in D : t.flows[k].id # id) => Numbered(u, id) = Numbered(t, id)
  BY <1>1, <1>4, <1>5 DEF Numbered
<1>12. \A id, m, packets, last : (\A k \in D : t.flows[k].id # id) /\ VersionsTo(t, id, m, packets, last)
                                    => VersionsTo(u, id, m, packets, last)
  BY <1>11 DEF VersionsTo
<1>13. \A k \in Live(u) : LET e == u.flows[k] IN VersionsTo(u, e.id, e.snapshots, e.packets, e.last)
  <2> SUFFICES ASSUME NEW k \in Live(u)
               PROVE  VersionsTo(u, u.flows[k].id, u.flows[k].snapshots, u.flows[k].packets, u.flows[k].last)
    OBVIOUS
  <2>1. CASE k \in D
    <3>1. /\ u.flows[k].id = t.flows[k].id /\ u.flows[k].snapshots = t.flows[k].snapshots + 1
          /\ u.flows[k].packets = t.flows[k].packets /\ u.flows[k].last = t.flows[k].last
      BY <1>2, <1>8, <2>1, SnappedType, LiveEntry
    <3>2. VersionsTo(u, t.flows[k].id, t.flows[k].snapshots + 1, t.flows[k].packets, t.flows[k].last)
      <4>1. /\ t.flows[k].snapshots \in Nat /\ t.flows[k].last \in Int
            /\ VersionsTo(t, t.flows[k].id, t.flows[k].snapshots, t.flows[k].packets, t.flows[k].last)
        BY <1>2, <1>3, <2>1
      <4>. QED BY <1>4, <1>10, <2>1, <4>1, NextVersion
    <3>. QED BY <3>1, <3>2
  <2>2. CASE k \notin D
    <3>1. u.flows[k] = t.flows[k] /\ k \in Live(t) /\ \A j \in D : t.flows[j].id # t.flows[k].id
      BY <1>2, <1>9, <2>2 DEF Books
    <3>. QED BY <1>3, <1>12, <3>1
  <2>. QED BY <2>1, <2>2
<1>14. \A r \in u.emitted : r.reason \in CloseReasons => VersionsTo(u, r.id, r.index, r.packets, r.last)
  <2> SUFFICES ASSUME NEW r \in u.emitted, r.reason \in CloseReasons
               PROVE  VersionsTo(u, r.id, r.index, r.packets, r.last)
    OBVIOUS
  <2>1. CASE r \in t.emitted
    <3>1. \A k \in D : t.flows[k].id # r.id
      BY <1>2, <2>1 DEF Books, Closings
    <3>. QED BY <1>12, <2>1, <3>1 DEF Versions
  <2>2. CASE \E k \in K : r = Rec(t.flows[k], why[k])
    <3>1. PICK k \in K : r = Rec(t.flows[k], why[k])
      BY <2>2
    <3>2. k \in Live(t) /\ \A j \in D : t.flows[j].id # t.flows[k].id
      BY <1>2 DEF Books
    <3>3. /\ r.id = t.flows[k].id /\ r.index = t.flows[k].snapshots
          /\ r.packets = t.flows[k].packets /\ r.last = t.flows[k].last
      BY <1>7, <3>1
    <3>. QED BY <1>3, <1>12, <3>2, <3>3
  <2>. QED BY <1>6, <2>1, <2>2
<1>15. \A id : \A r, s \in Numbered(u, id) : s.index < r.index => s.packets \subseteq r.packets /\ s.last <= r.last
  <2> SUFFICES ASSUME NEW id, NEW r \in Numbered(u, id), NEW s \in Numbered(u, id), s.index < r.index
               PROVE  s.packets \subseteq r.packets /\ s.last <= r.last
    OBVIOUS
  <2>1. CASE \A k \in D : t.flows[k].id # id
    BY <1>11, <2>1 DEF Versions
  <2>2. CASE \E k \in D : t.flows[k].id = id
    <3>1. PICK k \in D : t.flows[k].id = id
      BY <2>2
    <3>2. /\ t.flows[k].snapshots \in Nat /\ t.flows[k].last \in Int
          /\ VersionsTo(t, id, t.flows[k].snapshots, t.flows[k].packets, t.flows[k].last)
      BY <1>2, <1>3, <3>1
    <3>3. r \in Numbered(t, id) \cup {snap(k)} /\ s \in Numbered(t, id) \cup {snap(k)}
      BY <1>10, <3>1
    <3>4. \A v \in Numbered(t, id) : /\ v.index \in 1..t.flows[k].snapshots
                                     /\ v.packets \subseteq t.flows[k].packets /\ v.last <= t.flows[k].last
      BY <3>2 DEF VersionsTo
    <3>5. CASE r = snap(k)
      <4>1. s # snap(k)
        BY <1>4, <3>1, <3>2, <3>5
      <4>. QED BY <1>4, <3>1, <3>3, <3>4, <3>5, <4>1
    <3>6. CASE s = snap(k) /\ r # snap(k)
      <4>1. r.index \in 1..t.flows[k].snapshots /\ s.index = t.flows[k].snapshots + 1
        BY <1>4, <3>1, <3>3, <3>4, <3>6
      <4>. QED BY <3>2, <4>1
    <3>7. CASE s # snap(k) /\ r # snap(k)
      BY <3>3, <3>7 DEF Versions
    <3>. QED BY <3>5, <3>6, <3>7
  <2>. QED BY <2>1, <2>2
<1>. QED BY <1>13, <1>14, <1>15 DEF Versions

LEMMA BearsVersions ==
    ASSUME NEW t \in Table, NEW u, NEW r, Bears(t, u, r), Versions(t)
    PROVE  Versions(u)
<1>1. /\ u.flows = t.flows /\ u.emitted = t.emitted \cup {r} /\ r.reason = "evicted" /\ r.index = 0
      /\ \A x \in t.emitted : x.id = r.id => x.reason # "snapshot"
  BY DEF Bears, Stillborn
<1>2. \A id : Numbered(u, id) = Numbered(t, id)
  BY <1>1 DEF Numbered
<1>3. \A id, m, packets, last : VersionsTo(u, id, m, packets, last) <=> VersionsTo(t, id, m, packets, last)
  BY <1>2 DEF VersionsTo
<1>4. VersionsTo(t, r.id, r.index, r.packets, r.last)
  <2>1. Numbered(t, r.id) = {}
    BY <1>1 DEF Numbered
  <2>2. 1..0 = {}
    OBVIOUS
  <2>. QED BY <1>1, <2>1, <2>2, FS_EmptySet DEF VersionsTo
<1>5. \A k \in Live(u) : LET e == u.flows[k] IN VersionsTo(u, e.id, e.snapshots, e.packets, e.last)
  BY <1>1, <1>3 DEF Versions, Live
<1>6. \A x \in u.emitted : x.reason \in CloseReasons => VersionsTo(u, x.id, x.index, x.packets, x.last)
  BY <1>1, <1>3, <1>4 DEF Versions
<1>7. \A id : \A x, y \in Numbered(u, id) : y.index < x.index => y.packets \subseteq x.packets /\ y.last <= x.last
  BY <1>2 DEF Versions
<1>. QED BY <1>5, <1>6, <1>7 DEF Versions

\* Every record of a flow is one of its snapshots or a closing record.
LEMMA VersionsAreCumulative ==
    ASSUME table \in Table, Books(table), Versions(table)
    PROVE  SnapshotsCumulative
<1> SUFFICES ASSUME NEW r \in table.emitted
             PROVE  LET versions == {s \in table.emitted : s.id = r.id}
                        numbered == {s \in versions : s.reason = "snapshot"}
                    IN /\ {s.index : s \in numbered} = 1..Cardinality(numbered)
                       /\ r.index \in 0..Cardinality(numbered)
                       /\ \A s \in versions : s.index < r.index => s.packets \subseteq r.packets /\ s.last <= r.last
                       /\ r \in numbered => \A s \in Closings(table, r.id) :
                             r.index <= s.index /\ r.packets \subseteq s.packets
  BY DEF SnapshotsCumulative
<1> DEFINE versions == {s \in table.emitted : s.id = r.id}
           numbered == {s \in versions : s.reason = "snapshot"}
<1>1. numbered = Numbered(table, r.id)
  BY DEF Numbered
<1>2. \A s \in versions : s \in Numbered(table, r.id) \/ s \in Closings(table, r.id)
  BY DEF Numbered, Closings, Table, Emission
<1>3. \A s \in Closings(table, r.id) : VersionsTo(table, r.id, s.index, s.packets, s.last) /\ s.index \in Nat
  BY DEF Closings, Versions, Table, Emission
<1>4. \E m, packets, last : m \in Nat /\ VersionsTo(table, r.id, m, packets, last)
  <2>1. CASE Closings(table, r.id) = {}
    <3>1. PICK k \in Live(table) : table.flows[k].id = r.id
      BY <2>1 DEF Books
    <3>2. table.flows[k].snapshots \in Nat
      BY <3>1, LiveEntry DEF Entry
    <3>3. VersionsTo(table, r.id, table.flows[k].snapshots, table.flows[k].packets, table.flows[k].last)
      BY <3>1 DEF Versions
    <3>. QED BY <3>2, <3>3
  <2>2. CASE Closings(table, r.id) # {}
    BY <1>3, <2>2
  <2>. QED BY <2>1, <2>2
<1>5. PICK m, packets, last : m \in Nat /\ VersionsTo(table, r.id, m, packets, last)
  BY <1>4
<1>6. Cardinality(numbered) = m /\ {s.index : s \in numbered} = 1..m
  BY <1>1, <1>5 DEF VersionsTo
<1>7. \A s \in Numbered(table, r.id) : s.index \in 1..m
  BY <1>1, <1>6
<1>8. \A c \in Closings(table, r.id) :
         c.index = m /\ \A s \in Numbered(table, r.id) : s.packets \subseteq c.packets /\ s.last <= c.last
  BY <1>1, <1>3, <1>6 DEF VersionsTo
<1>9. r \in versions
  OBVIOUS
<1>10. r.index \in 0..m
  <2>1. CASE r \in Numbered(table, r.id)
    <3>1. r.index \in 1..m
      BY <1>7, <2>1
    <3>. QED BY <3>1
  <2>2. CASE r \in Closings(table, r.id)
    <3>1. r.index = m
      BY <1>8, <2>2
    <3>. QED BY <1>5, <3>1
  <2>. QED BY <1>2, <1>9, <2>1, <2>2
<1>11. ASSUME NEW s \in versions, s.index < r.index
       PROVE  s.packets \subseteq r.packets /\ s.last <= r.last
  <2>1. s \in Numbered(table, r.id)
    <3> SUFFICES ASSUME s \in Closings(table, r.id) PROVE FALSE
      BY <1>2
    <3>1. s.index = m
      BY <1>8
    <3>. QED BY <1>5, <1>10, <1>11, <3>1
  <2>2. CASE r \in Numbered(table, r.id)
    BY <1>11, <2>1, <2>2 DEF Versions
  <2>3. CASE r \in Closings(table, r.id)
    BY <1>8, <2>1, <2>3
  <2>. QED BY <1>2, <1>9, <2>2, <2>3
<1>12. ASSUME NEW s \in Closings(table, r.id), r \in numbered
       PROVE  r.index <= s.index /\ r.packets \subseteq s.packets
  <2>1. s.index = m /\ r.packets \subseteq s.packets
    BY <1>1, <1>8, <1>12
  <2>. QED BY <1>5, <1>10, <2>1
<1>. QED BY <1>6, <1>10, <1>11, <1>12

-----------------------------------------------------------------------------
(* The grace window. *)

Newer(t, d) == \E x \in Seen(t) : x.key = d.key /\ d.id < x.id

Over(d) == d.swept - d.at >= GraceWindow

\* Where the newest flow of a key was torn down, the key is still held or a sweep has found the
\* window over; NoPhantomFlow; and the live flow of a key is younger than its teardowns.
Quiet(t, Q) ==
    /\ \A d \in Q : ~ Newer(t, d) => t.recentDown[d.key] = d.at \/ Over(d)
    /\ \A d \in Q : \A x \in Seen(t) :
          NextOfKey(t, d, x) /\ x.packets # {} /\ x.first - d.at < GraceWindow => x.syn \/ Over(d)
    /\ \A d \in Q : d.id <= t.started /\ (d.key \in Live(t) => d.id < t.flows[d.key].id)
    /\ \A k \in Live(t) : t.flows[k].packets # {}

LEMMA GrownQuiet ==
    ASSUME NEW t \in Table, NEW p \in Packet, NEW Q \in SUBSET Teardown,
           Books(t), Quiet(t, Q), ~ Absorbs(t, p)
    PROVE  Quiet(Grown(t, p), Q)
<1> DEFINE u == Grown(t, p)
           e == EntryFor(t, p)
           f == Fold(e, p)
<1>1. /\ u.emitted = t.emitted /\ Live(u) = Live(t) \cup {p.key} /\ p.key \in Keys
      /\ u.flows[p.key] = f /\ \A k \in Keys \ {p.key} : u.flows[k] = t.flows[k]
      /\ u.recentDown = IF p.key \in Live(t) THEN t.recentDown ELSE [t.recentDown EXCEPT ![p.key] = NoTime]
      /\ u.started = IF p.key \in Live(t) THEN t.started ELSE t.started + 1
  BY GrownFields
<1>2. /\ f.id = e.id /\ f.key = e.key /\ f.first = e.first /\ f.syn = (e.syn \/ "SYN" \in p.flags)
      /\ f.packets # {}
  BY EntryForType, FoldKeeps
<1>3. Live(t) \subseteq Keys /\ \A k \in Live(t) : k # p.key => u.flows[k] = t.flows[k]
  BY <1>1 DEF Live
<1>4. p.ts \in Int /\ t.recentDown \in [Keys -> Times \cup {NoTime}] /\ t.started \in Nat
  BY DEF Packet, Times, Table
<1>5. \A d \in Q : d.key \in Keys /\ d.id \in Nat /\ d.at \in Int /\ d.at # NoTime /\ d.id <= t.started
  BY DEF Teardown, Quiet, Times, NoTime
<1>6. CASE p.key \in Live(t)
  <2>1. f.id = t.flows[p.key].id /\ f.key = t.flows[p.key].key /\ f.first = t.flows[p.key].first
        /\ (t.flows[p.key].syn => f.syn)
    BY <1>2, <1>6 DEF EntryFor
  <2>2. Live(u) = Live(t) /\ u.recentDown = t.recentDown /\ u.started = t.started
    BY <1>1, <1>6
  <2> HIDE DEF u, f
  <2>3. \A k \in Live(t) : /\ u.flows[k].id = t.flows[k].id /\ u.flows[k].key = t.flows[k].key
                           /\ u.flows[k].first = t.flows[k].first
                           /\ t.flows[k].syn => u.flows[k].syn
    BY <1>1, <1>3, <2>1
  <2>4. \A d \in Q : Newer(t, d) => Newer(u, d)
    BY <1>1, <2>2, <2>3 DEF Newer, Seen
  <2>5. \A x \in Seen(u) : x.packets # {} => \E y \in Seen(t) :
           y.id = x.id /\ y.key = x.key /\ y.first = x.first /\ (y.syn => x.syn) /\ y.packets # {}
    <3> SUFFICES ASSUME NEW x \in Seen(u), x.packets # {}
                 PROVE  \E y \in Seen(t) : y.id = x.id /\ y.key = x.key /\ y.first = x.first
                                           /\ (y.syn => x.syn) /\ y.packets # {}
      OBVIOUS
    <3>1. CASE x \in t.emitted
      BY <3>1 DEF Seen
    <3>2. CASE x \notin t.emitted
      <4>1. PICK k \in Live(t) : x = u.flows[k]
        BY <1>1, <2>2, <3>2 DEF Seen
      <4>2. t.flows[k] \in Seen(t) /\ t.flows[k].packets # {}
        BY DEF Seen, Quiet
      <4>. QED BY <2>3, <4>1, <4>2
    <3>. QED BY <3>1, <3>2
  <2>6. \A d \in Q : ~ Newer(u, d) => u.recentDown[d.key] = d.at \/ Over(d)
    BY <2>2, <2>4 DEF Quiet
  <2>7. ASSUME NEW d \in Q, NEW x \in Seen(u), NextOfKey(u, d, x), x.packets # {},
               x.first - d.at < GraceWindow
        PROVE  x.syn \/ Over(d)
    <3>1. PICK y \in Seen(t) : y.id = x.id /\ y.key = x.key /\ y.first = x.first /\ (y.syn => x.syn)
                               /\ y.packets # {}
      BY <2>5, <2>7
    <3>2. NextOfKey(t, d, y)
      BY <1>1, <2>7, <3>1 DEF NextOfKey
    <3>3. y.syn \/ Over(d)
      BY <2>7, <3>1, <3>2 DEF Quiet
    <3>. QED BY <3>1, <3>3
  <2>8. \A d \in Q : d.id <= u.started /\ (d.key \in Live(u) => d.id < u.flows[d.key].id)
    BY <2>2, <2>3 DEF Quiet
  <2>9. \A k \in Live(u) : u.flows[k].packets # {}
    BY <1>1, <1>2, <1>3, <2>2 DEF Quiet, f
  <2>10. Quiet(u, Q)
    BY <2>6, <2>7, <2>8, <2>9 DEF Quiet
  <2>. QED BY <2>10 DEF u
<1>7. CASE p.key \notin Live(t)
  <2>1. f.id = t.started + 1 /\ f.key = p.key /\ f.first = p.ts
    BY <1>2, <1>7 DEF EntryFor, NewEntry, NextID
  <2>2. u.recentDown = [t.recentDown EXCEPT ![p.key] = NoTime] /\ u.started = t.started + 1
    BY <1>1, <1>7
  <2> HIDE DEF u, f
  <2>3. \A r \in t.emitted : r.id <= t.started
    BY <1>4 DEF Books
  <2>4. Seen(u) = Seen(t) \cup {f}
    BY <1>1, <1>3, <1>7 DEF Seen
  <2>5. \A d \in Q : d.key = p.key => Newer(u, d)
    <3>1. \A d \in Q : d.id < f.id
      BY <1>4, <1>5, <2>1
    <3>. QED BY <2>1, <2>4, <3>1 DEF Newer
  <2>6. \A d \in Q : Newer(t, d) => Newer(u, d)
    BY <2>4 DEF Newer
  <2>7. ASSUME NEW d \in Q, ~ Newer(u, d)
        PROVE  u.recentDown[d.key] = d.at \/ Over(d)
    <3>1. ~ Newer(t, d) /\ d.key # p.key /\ d.key \in Keys
      BY <1>5, <2>5, <2>6, <2>7
    <3>2. u.recentDown[d.key] = t.recentDown[d.key]
      BY <1>4, <2>2, <3>1
    <3>. QED BY <3>1, <3>2 DEF Quiet
  <2>8. ASSUME NEW d \in Q, NEW x \in Seen(u), NextOfKey(u, d, x), x.packets # {},
               x.first - d.at < GraceWindow
        PROVE  x.syn \/ Over(d)
    <3>1. NextOfKey(t, d, x)
      BY <1>1, <2>8 DEF NextOfKey
    <3>2. CASE x \in Seen(t)
      BY <2>8, <3>1, <3>2 DEF Quiet
    <3>3. CASE x = f
      <4>1. d.key = p.key /\ \A s \in t.emitted : s.key = p.key => s.id <= d.id
        <5>1. d.key = p.key /\ \A s \in t.emitted : s.key = p.key => s.id <= d.id \/ t.started + 1 <= s.id
          BY <2>1, <3>1, <3>3 DEF NextOfKey
        <5>2. \A s \in t.emitted : ~ (t.started + 1 <= s.id)
          BY <1>4, <2>3, EmittedTypes
        <5>. QED BY <5>1, <5>2
      <4>2. ~ Newer(t, d)
        <5> SUFFICES ASSUME NEW y \in Seen(t), y.key = d.key, d.id < y.id PROVE FALSE
          BY DEF Newer
        <5>1. CASE y \in t.emitted
          <6>1. y.id <= d.id /\ y.id \in Nat /\ d.id \in Nat
            BY <1>5, <4>1, <5>1, EmittedTypes
          <6>. QED BY <6>1
        <5>2. CASE y \notin t.emitted
          <6>1. PICK k \in Live(t) : y = t.flows[k]
            BY <5>2 DEF Seen
          <6>2. y.key = k
            BY <6>1 DEF Books
          <6>. QED BY <1>7, <4>1, <6>2
        <5>. QED BY <5>1, <5>2
      <4>3. t.recentDown[p.key] = d.at \/ Over(d)
        BY <4>1, <4>2 DEF Quiet
      <4>4. p.ts - d.at < GraceWindow /\ d.at # NoTime
        BY <1>5, <2>1, <2>8, <3>3
      <4>5. t.recentDown[p.key] = d.at => "SYN" \in p.flags
        BY <1>7, <4>4 DEF Absorbs
      <4>6. "SYN" \in p.flags => x.syn
        BY <1>2, <3>3 DEF f
      <4>. QED BY <4>3, <4>5, <4>6
    <3>. QED BY <2>4, <3>2, <3>3
  <2>9. \A d \in Q : d.id <= u.started /\ (d.key \in Live(u) => d.id < u.flows[d.key].id)
    <3>1. \A d \in Q : d.id < t.started + 1 /\ d.id <= u.started
      BY <1>4, <1>5, <2>2
    <3>. QED BY <1>1, <1>3, <2>1, <3>1 DEF Quiet
  <2>10. \A k \in Live(u) : u.flows[k].packets # {}
    BY <1>1, <1>2, <1>3 DEF Quiet, f
  <2>11. Quiet(u, Q)
    BY <2>7, <2>8, <2>9, <2>10 DEF Quiet
  <2>. QED BY <2>11 DEF u
<1>. QED BY <1>6, <1>7

\* c is the teardown d as it stands after a sweep from t to u, or after a flow of K closed.
StillDown(t, u, K, d, c) ==
    /\ c.key = d.key /\ c.id = d.id /\ c.at = d.at /\ (Over(d) => Over(c))
    /\ \/ u.recentDown[d.key] = t.recentDown[d.key]
       \/ t.recentDown[d.key] = d.at => Over(c)
       \/ d.key \in K

LEMMA SweepsQuiet ==
    ASSUME NEW t \in Table, NEW u, NEW K, NEW D, NEW why, NEW now \in Times,
           Sweeps(t, u, K, D, why, now), Books(t), NEW Q \in SUBSET Teardown, Quiet(t, Q),
           NEW R \in SUBSET Teardown,
           \A c \in R : \/ \E d \in Q : StillDown(t, u, K, d, c)
                        \/ c.key \in K /\ c.id = t.flows[c.key].id /\ u.recentDown[c.key] = c.at
    PROVE  Quiet(u, R)
<1>1. /\ Live(u) = Live(t) \ K /\ t.emitted \subseteq u.emitted /\ u.started = t.started
      /\ K \subseteq Live(t) /\ D \subseteq Live(t) /\ Live(t) \subseteq Keys
  <2>1. Live(u) = Live(t) \ K /\ t.emitted \subseteq u.emitted
    BY SweepsFacts
  <2>. QED BY <2>1 DEF Sweeps, Live
<1>2. \A k \in Live(u) : /\ u.flows[k].id = t.flows[k].id /\ u.flows[k].key = t.flows[k].key
                         /\ u.flows[k].first = t.flows[k].first /\ u.flows[k].syn = t.flows[k].syn
                         /\ u.flows[k].packets = t.flows[k].packets
  BY <1>1, SweepsFacts, SnappedType, LiveEntry
<1>3. \A k \in K : LET c == Rec(t.flows[k], why[k])
                   IN  /\ c \in u.emitted /\ c.id = t.flows[k].id /\ c.key = t.flows[k].key
                       /\ c.first = t.flows[k].first /\ c.syn = t.flows[k].syn
                       /\ c.packets = t.flows[k].packets
  <2>1. \A k \in K : Rec(t.flows[k], why[k]) \in u.emitted
    BY SweepsFacts
  <2>. QED BY <2>1 DEF Rec
<1>4. \A k \in D : LET c == Rec(Snapshot(t.flows[k]), "snapshot")
                   IN  /\ c.id = t.flows[k].id /\ c.key = t.flows[k].key
                       /\ c.first = t.flows[k].first /\ c.syn = t.flows[k].syn
                       /\ c.packets = t.flows[k].packets
  <2>1. \A k \in D : /\ Snapshot(t.flows[k]).id = t.flows[k].id /\ Snapshot(t.flows[k]).key = t.flows[k].key
                     /\ Snapshot(t.flows[k]).first = t.flows[k].first /\ Snapshot(t.flows[k]).syn = t.flows[k].syn
                     /\ Snapshot(t.flows[k]).packets = t.flows[k].packets
    BY <1>1, SnappedType, LiveEntry
  <2>. QED BY <2>1 DEF Rec
<1>5. \A r \in u.emitted : \/ r \in t.emitted
                           \/ \E k \in K : r = Rec(t.flows[k], why[k])
                           \/ \E k \in D : r = Rec(Snapshot(t.flows[k]), "snapshot")
  BY SweepsFacts
<1>6. \A d : Newer(t, d) => Newer(u, d)
  <2> SUFFICES ASSUME NEW d, NEW x \in Seen(t), x.key = d.key, d.id < x.id PROVE Newer(u, d)
    BY DEF Newer
  <2>1. \E y \in Seen(u) : y.key = x.key /\ y.id = x.id
    BY <1>1, <1>2, <1>3 DEF Seen
  <2>. QED BY <2>1 DEF Newer
<1>7. \A x \in Seen(u) : \E y \in Seen(t) :
         y.id = x.id /\ y.key = x.key /\ y.first = x.first /\ y.syn = x.syn /\ y.packets = x.packets
  <2> SUFFICES ASSUME NEW x \in Seen(u)
               PROVE  \E y \in Seen(t) : /\ y.id = x.id /\ y.key = x.key /\ y.first = x.first
                                         /\ y.syn = x.syn /\ y.packets = x.packets
    OBVIOUS
  <2>1. CASE x \in t.emitted
    BY <2>1 DEF Seen
  <2>2. CASE x \in u.emitted \ t.emitted
    <3>1. PICK k \in Live(t) : /\ x.id = t.flows[k].id /\ x.key = t.flows[k].key
                               /\ x.first = t.flows[k].first /\ x.syn = t.flows[k].syn
                               /\ x.packets = t.flows[k].packets
      BY <1>1, <1>3, <1>4, <1>5, <2>2
    <3>. QED BY <3>1 DEF Seen
  <2>3. CASE x \notin u.emitted
    <3>1. PICK k \in Live(u) : x = u.flows[k]
      BY <2>3 DEF Seen
    <3>. QED BY <1>1, <1>2, <3>1 DEF Seen
  <2>. QED BY <2>1, <2>2, <2>3
<1>8. ASSUME NEW c \in R, NEW d \in Q, StillDown(t, u, K, d, c), ~ Newer(u, c)
      PROVE  u.recentDown[c.key] = c.at \/ Over(c)
  <2>1. c.key = d.key /\ c.id = d.id /\ c.at = d.at /\ (Over(d) => Over(c)) /\ d.id \in Nat
    BY <1>8 DEF StillDown, Teardown
  <2>2. ~ Newer(u, d)
    BY <1>8, <2>1 DEF Newer
  <2>3. t.recentDown[d.key] = d.at \/ Over(d)
    BY <1>6, <2>2 DEF Quiet
  <2>4. d.key \notin K
    <3> SUFFICES ASSUME d.key \in K PROVE FALSE
      OBVIOUS
    <3>1. d.id < t.flows[d.key].id /\ t.flows[d.key].key = d.key
      BY <1>1 DEF Quiet, Books
    <3>2. Rec(t.flows[d.key], why[d.key]) \in Seen(u)
      BY <1>3 DEF Seen
    <3>. QED BY <1>3, <2>2, <3>1, <3>2 DEF Newer
  <2>5. u.recentDown[d.key] = t.recentDown[d.key] \/ (t.recentDown[d.key] = d.at => Over(c))
    BY <1>8, <2>4 DEF StillDown
  <2>. QED BY <2>1, <2>3, <2>5
<1>9. ASSUME NEW c \in R, NEW d \in Q, StillDown(t, u, K, d, c), NEW x \in Seen(u),
             NextOfKey(u, c, x), x.packets # {}, x.first - c.at < GraceWindow
      PROVE  x.syn \/ Over(c)
  <2>1. PICK y \in Seen(t) : /\ y.id = x.id /\ y.key = x.key /\ y.first = x.first
                             /\ y.syn = x.syn /\ y.packets = x.packets
    BY <1>7
  <2>2. c.key = d.key /\ c.id = d.id /\ c.at = d.at /\ (Over(d) => Over(c))
    BY <1>9 DEF StillDown
  <2>3. NextOfKey(t, d, y)
    BY <1>1, <1>9, <2>1, <2>2 DEF NextOfKey
  <2>4. y.syn \/ Over(d)
    BY <1>9, <2>1, <2>2, <2>3 DEF Quiet
  <2>. QED BY <2>1, <2>2, <2>4
<1>10. ASSUME NEW c \in R, c.key \in K, c.id = t.flows[c.key].id PROVE ~ Newer(u, c)
  <2> SUFFICES ASSUME NEW x \in Seen(u), x.key = c.key, c.id < x.id PROVE FALSE
    BY DEF Newer
  <2>1. PICK y \in Seen(t) : y.id = x.id /\ y.key = x.key
    BY <1>7
  <2>2. c.id \in Nat /\ c.key \in Live(t)
    BY <1>1, <1>10 DEF Teardown
  <2>3. CASE y \in t.emitted
    <3>1. y.id <= t.flows[c.key].id /\ y.id \in Nat
      BY <2>1, <2>2, <2>3, EmittedTypes DEF Books
    <3>. QED BY <1>10, <2>1, <2>2, <3>1
  <2>4. CASE y \notin t.emitted
    <3>1. PICK j \in Live(t) : y = t.flows[j]
      BY <2>4 DEF Seen
    <3>2. j = c.key
      BY <2>1, <3>1 DEF Books
    <3>. QED BY <1>10, <2>1, <2>2, <3>1, <3>2
  <2>. QED BY <2>3, <2>4
<1>11. \A c \in R : ~ Newer(u, c) => u.recentDown[c.key] = c.at \/ Over(c)
  BY <1>8
<1>12. ASSUME NEW c \in R, NEW x \in Seen(u), NextOfKey(u, c, x), x.packets # {}, x.first - c.at < GraceWindow
       PROVE  x.syn \/ Over(c)
  <2>1. Newer(u, c)
    BY <1>12 DEF NextOfKey, Newer
  <2>2. \E d \in Q : StillDown(t, u, K, d, c)
    BY <1>10, <2>1
  <2>. QED BY <1>9, <1>12, <2>2
<1>13. ASSUME NEW c \in R PROVE c.id <= u.started /\ (c.key \in Live(u) => c.id < u.flows[c.key].id)
  <2>1. CASE \E d \in Q : StillDown(t, u, K, d, c)
    <3>1. PICK d \in Q : c.key = d.key /\ c.id = d.id
      BY <2>1 DEF StillDown
    <3>. QED BY <1>1, <1>2, <3>1 DEF Quiet
  <2>2. CASE c.key \in K /\ c.id = t.flows[c.key].id
    <3>1. c.id \in 1..t.started
      BY <1>1, <2>2 DEF Books
    <3>2. t.started \in Nat
      BY DEF Table
    <3>. QED BY <1>1, <2>2, <3>1, <3>2
  <2>. QED BY <2>1, <2>2
<1>14. \A k \in Live(u) : u.flows[k].packets # {}
  BY <1>1, <1>2 DEF Quiet
<1>. QED BY <1>11, <1>12, <1>13, <1>14 DEF Quiet

LEMMA BearsQuiet ==
    ASSUME NEW t \in Table, NEW u, NEW r, Bears(t, u, r), NEW Q \in SUBSET Teardown, Quiet(t, Q)
    PROVE  Quiet(u, Q)
<1>1. /\ u.flows = t.flows /\ u.emitted = t.emitted \cup {r} /\ r.packets = {} /\ Live(u) = Live(t)
      /\ t.started \in Nat /\ u.started \in {t.started, t.started + 1} /\ r.id = u.started
  BY DEF Bears, Stillborn, Live, Table
<1>2. Seen(u) = Seen(t) \cup {r}
  BY <1>1 DEF Seen
<1>3. \A d \in Q : Newer(t, d) => Newer(u, d)
  BY <1>2 DEF Newer
<1>4. \A d \in Q : d.id \in Nat /\ d.id <= t.started /\ d.id <= u.started
  <2>1. \A d \in Q : d.id \in Nat /\ d.id <= t.started
    BY DEF Teardown, Quiet
  <2>. QED BY <1>1, <2>1
<1>5. ASSUME NEW d \in Q, ~ Newer(u, d) PROVE u.recentDown[d.key] = d.at \/ Over(d)
  <2>1. t.recentDown[d.key] = d.at \/ Over(d)
    BY <1>3, <1>5 DEF Quiet
  <2>2. u.recentDown[d.key] = t.recentDown[d.key]
    <3>1. CASE u.started = t.started + 1
      <4>1. d.id < r.id
        BY <1>1, <1>4, <3>1
      <4>2. d.key # r.key
        BY <1>2, <1>5, <4>1 DEF Newer
      <4>3. u.recentDown = [t.recentDown EXCEPT ![r.key] = NoTime]
        BY <1>1, <3>1 DEF Bears
      <4>4. d.key \in Keys /\ t.recentDown \in [Keys -> Times \cup {NoTime}]
        BY DEF Teardown, Table
      <4>. QED BY <4>2, <4>3, <4>4
    <3>2. CASE u.started # t.started + 1
      BY <3>2 DEF Bears
    <3>. QED BY <3>1, <3>2
  <2>. QED BY <2>1, <2>2
<1>6. ASSUME NEW d \in Q, NEW x \in Seen(u), NextOfKey(u, d, x), x.packets # {}, x.first - d.at < GraceWindow
      PROVE  x.syn \/ Over(d)
  <2>1. x \in Seen(t)
    BY <1>1, <1>2, <1>6
  <2>2. NextOfKey(t, d, x)
    BY <1>1, <1>6 DEF NextOfKey
  <2>. QED BY <1>6, <2>1, <2>2 DEF Quiet
<1>7. \A d \in Q : d.id <= u.started /\ (d.key \in Live(u) => d.id < u.flows[d.key].id)
  BY <1>1, <1>4 DEF Quiet
<1>8. \A k \in Live(u) : u.flows[k].packets # {}
  BY <1>1 DEF Quiet
<1>. QED BY <1>5, <1>6, <1>7, <1>8 DEF Quiet

-----------------------------------------------------------------------------
(* The invariant of the table: all the books at once. *)

Consistent(t, N, A, S, Q) ==
    /\ t \in Table /\ Books(t) /\ Versions(t) /\ Outlived(t)
    /\ Accounts(t, N, A) /\ Lost(t, S) /\ Quiet(t, Q)

LEMMA GrownConsistent ==
    ASSUME NEW t, NEW p \in Packet, NEW N \in Nat, p.n = N + 1, NEW A \in SUBSET (1..N), NEW S,
           NEW Q \in SUBSET Teardown, Consistent(t, N, A, S, Q), ~ Absorbs(t, p)
    PROVE  Consistent(Grown(t, p), N + 1, A, S, Q)
<1>1. t \in Table /\ Books(t)
  BY DEF Consistent
<1>2. Grown(t, p) \in Table /\ Books(Grown(t, p)) /\ Versions(Grown(t, p))
  BY <1>1, GrownType, GrownBooks, GrownVersions DEF Consistent
<1>3. Accounts(Grown(t, p), N + 1, A)
  BY <1>1, GrownAccounts DEF Consistent
<1>4. Outlived(Grown(t, p)) /\ Lost(Grown(t, p), S)
  BY <1>1, GrownOutlived, GrownLost DEF Consistent
<1>5. Quiet(Grown(t, p), Q)
  BY <1>1, GrownQuiet DEF Consistent
<1>. QED BY <1>2, <1>3, <1>4, <1>5 DEF Consistent

LEMMA SweepsConsistent ==
    ASSUME NEW t, NEW u \in Table, NEW K, NEW D, NEW why, NEW now \in Times,
           Sweeps(t, u, K, D, why, now), NEW N \in Nat, NEW A \in SUBSET (1..N), NEW S,
           NEW Q \in SUBSET Teardown, NEW R \in SUBSET Teardown, Consistent(t, N, A, S, Q),
           \A k \in K : why[k] = "evicted" => \E j \in Live(t) \ {k} : t.flows[k].last <= t.flows[j].last,
           \A c \in R : \/ \E d \in Q : StillDown(t, u, K, d, c)
                        \/ c.key \in K /\ c.id = t.flows[c.key].id /\ u.recentDown[c.key] = c.at
    PROVE  Consistent(u, N, A, S, R)
<1>1. t \in Table /\ Books(t)
  BY DEF Consistent
<1>2. Books(u) /\ Versions(u)
  BY <1>1, SweepsBooks, SweepsVersions DEF Consistent
<1>3. Accounts(u, N, A)
  BY <1>1, SweepsAccounts DEF Consistent
<1>4. Outlived(u)
  BY <1>1, SweepsOutlived DEF Consistent
<1>5. Lost(u, S)
  BY <1>1, SweepsLost DEF Consistent
<1>6. Quiet(u, R)
  BY <1>1, SweepsQuiet DEF Consistent
<1>. QED BY <1>2, <1>3, <1>4, <1>5, <1>6 DEF Consistent

LEMMA BearsConsistent ==
    ASSUME NEW t, NEW u, NEW r, Bears(t, u, r), NEW N \in Nat, NEW A \in SUBSET (1..N), NEW S,
           NEW Q \in SUBSET Teardown, Consistent(t, N, A, S, Q)
    PROVE  /\ Consistent(u, N, A, S, Q)
           /\ u.started = t.started + 1 => \A n : Lost(u, S \cup {[n |-> n, id |-> u.started]})
<1>1. t \in Table /\ Books(t) /\ u \in Table
  BY DEF Consistent, Bears
<1>2. Books(u) /\ Versions(u)
  BY <1>1, BearsBooks, BearsVersions DEF Consistent
<1>3. Accounts(u, N, A)
  BY <1>1, BearsAccounts DEF Consistent
<1>4. Outlived(u) /\ Quiet(u, Q)
  BY <1>1, BearsOutlived, BearsQuiet DEF Consistent
<1>5. Lost(u, S) /\ (u.started = t.started + 1 => \A n : Lost(u, S \cup {[n |-> n, id |-> u.started]}))
  BY <1>1, BearsLost DEF Consistent
<1>. QED BY <1>1, <1>2, <1>3, <1>4, <1>5 DEF Consistent

LEMMA FoldsConsistent ==
    ASSUME NEW t, NEW p \in Packet, NEW N \in Nat, p.n = N + 1, NEW A \in SUBSET (1..N), NEW S,
           NEW Q \in SUBSET Teardown, Consistent(t, N, A, S, Q), ~ Absorbs(t, p),
           NEW v \in Table, NEW K, NEW why, Folds(t, p, v, K, why)
    PROVE  Consistent(v, N + 1, A, S, Q \cup Torn(t, p))
<1> DEFINE g == Grown(t, p)
           f == Fold(EntryFor(t, p), p)
<1>1. t \in Table /\ p.ts \in Times /\ p.ts \in Int
  BY DEF Consistent, Packet, Times
<1>2. Consistent(g, N + 1, A, S, Q)
  BY GrownConsistent
<1>3. /\ g.flows[p.key] = f /\ f \in Entry /\ Live(g) = Live(t) \cup {p.key}
      /\ \A k \in Keys \ {p.key} : g.flows[k] = t.flows[k]
  BY <1>1, GrownFields
<1>4. f.id = EntryFor(t, p).id /\ f.last >= p.ts /\ f.last \in Int
  <2>1. f.last \in Int
    BY <1>3, ClockAssumption DEF Entry, Times
  <2>. QED BY <1>1, <2>1, EntryForType, FoldKeeps
<1> HIDE DEF g, f
<1>5. /\ Sweeps(g, v, K, {}, why, p.ts)
      /\ p.key \in K <=> TearsDown(EntryFor(t, p), p)
      /\ \A k \in K : why[k] = IF k = p.key THEN "fin_rst" ELSE "evicted"
      /\ \A k \in K \ {p.key} : k \in Live(t) /\ t.flows[k].last <= p.ts
      /\ \A k \in Keys : v.recentDown[k] = IF k = p.key /\ k \in K THEN p.ts ELSE g.recentDown[k]
  BY DEF Folds, g
<1>6. ASSUME NEW k \in K, why[k] = "evicted"
      PROVE  \E j \in Live(g) \ {k} : g.flows[k].last <= g.flows[j].last
  <2>1. k # p.key /\ k \in Live(t) /\ t.flows[k].last <= p.ts
    BY <1>5, <1>6
  <2>2. g.flows[k] = t.flows[k] /\ t.flows[k].last \in Int
    BY <1>1, <1>3, <2>1, LiveEntry, ClockAssumption DEF Live, Entry, Times
  <2>. QED BY <1>1, <1>3, <1>4, <2>1, <2>2
<1>7. Q \cup Torn(t, p) \in SUBSET Teardown
  BY <1>1, TornType
<1>8. ASSUME NEW c \in Q \cup Torn(t, p)
      PROVE  \/ \E d \in Q : StillDown(g, v, K, d, c)
             \/ c.key \in K /\ c.id = g.flows[c.key].id /\ v.recentDown[c.key] = c.at
  <2>1. CASE c \in Q
    <3>1. c.key \in Keys
      BY <2>1 DEF Teardown
    <3>2. v.recentDown[c.key] = g.recentDown[c.key] \/ c.key \in K
      BY <1>5, <3>1
    <3>. QED BY <2>1, <3>2 DEF StillDown
  <2>2. CASE c \in Torn(t, p)
    <3>1. c.key = p.key /\ c.id = EntryFor(t, p).id /\ c.at = p.ts /\ TearsDown(EntryFor(t, p), p)
      BY <2>2 DEF Torn
    <3>2. p.key \in Keys
      BY DEF Packet
    <3>. QED BY <1>3, <1>4, <1>5, <3>1, <3>2
  <2>. QED BY <2>1, <2>2
<1>9. A \in SUBSET (1..(N + 1)) /\ N + 1 \in Nat
  OBVIOUS
<1>. QED BY <1>1, <1>2, <1>5, <1>6, <1>7, <1>8, <1>9, SweepsConsistent

LEMMA ObserveConsistent ==
    ASSUME NEW t, NEW p \in Packet, NEW N \in Nat, p.n = N + 1, NEW A \in SUBSET (1..N), NEW S,
           NEW Q \in SUBSET Teardown, Consistent(t, N, A, S, Q), NEW u \in Observe(t, p)
    PROVE  Consistent(u, N + 1,
                      IF Absorbs(t, p) \/ Strays(t, u, p) THEN A \cup {p.n} ELSE A,
                      IF Strays(t, u, p) THEN S \cup {[n |-> p.n, id |-> u.started]} ELSE S,
                      Q \cup Torn(t, p))
<1> DEFINE r == Rec(NewEntry(NextID(t), p), "evicted")
<1>1. t \in Table /\ u \in Table /\ Q \cup Torn(t, p) \in SUBSET Teardown
  BY ObserveType, TornType DEF Consistent
<1>2. \A x \in t.emitted : x.id <= t.started
  BY <1>1 DEF Consistent, Books, Table
<1>3. A \in SUBSET (1..(N + 1)) /\ N + 1 \in Nat
  OBVIOUS
<1>4. CASE Absorbs(t, p) /\ u = t
  <2>1. Accounts(t, N + 1, A \cup {N + 1})
    BY AbsorbedAccounts DEF Consistent
  <2>2. Torn(t, p) = {} /\ ~ Strays(t, u, p)
    BY <1>4 DEF Torn, Strays
  <2>. QED BY <1>4, <2>1, <2>2 DEF Consistent
<1>5. ASSUME ~ Absorbs(t, p), ~ Strays(t, u, p), NEW K, NEW why, Folds(t, p, u, K, why)
      PROVE  Consistent(u, N + 1, A, S, Q \cup Torn(t, p))
  BY <1>1, <1>5, FoldsConsistent
<1> HIDE DEF r
<1>6. CASE Strays(t, u, p) /\ p.key \notin Live(t) /\ Bears(t, u, r) /\ u.started = t.started + 1
  <2>1. Consistent(u, N, A, S, Q) /\ Lost(u, S \cup {[n |-> p.n, id |-> u.started]})
    BY <1>6, BearsConsistent
  <2>2. Accounts(u, N + 1, A \cup {N + 1})
    BY <2>1, AbsorbedAccounts DEF Consistent
  <2>3. Torn(t, p) = {}
    BY <1>6 DEF Strays, Torn
  <2>. QED BY <1>6, <2>1, <2>2, <2>3 DEF Consistent
<1>7. ASSUME ~ Absorbs(t, p), ~ Strays(t, u, p), NEW v \in Table, NEW why,
             Folds(t, p, v, {p.key}, why), Bears(v, u, r)
      PROVE  Consistent(u, N + 1, A, S, Q \cup Torn(t, p))
  <2>1. Consistent(v, N + 1, A, S, Q \cup Torn(t, p))
    BY <1>7, FoldsConsistent
  <2>. QED BY <1>1, <1>3, <1>7, <2>1, BearsConsistent
<1>. QED BY <1>1, <1>2, <1>4, <1>5, <1>6, <1>7, ObserveSteps DEF r

LEMMA TickConsistent ==
    ASSUME NEW t, NEW now \in Times, NEW N \in Nat, NEW A \in SUBSET (1..N), NEW S,
           NEW Q \in SUBSET Teardown, Consistent(t, N, A, S, Q)
    PROVE  Consistent(Tick(t, now), N, A, S, {SweptAt(d, now) : d \in Q})
<1> DEFINE u == Tick(t, now)
           R == {SweptAt(d, now) : d \in Q}
<1>1. t \in Table /\ u \in Table /\ now \in Int
  BY TickType DEF Consistent, Times
<1>2. PICK K, D, why :
         /\ Sweeps(t, u, K, D, why, now)
         /\ \A k \in K : why[k] \notin {"fin_rst", "evicted"}
         /\ \A k \in Live(t) \ K : /\ ~ OverAge(t.flows[k], now) /\ ~ Idle(t.flows[k], now)
                                   /\ k \notin D => ~ SnapshotDue(t.flows[k], now)
  BY <1>1, TickSweeps
<1>3. u.recentDown =
         [k \in Keys |-> IF now - t.recentDown[k] >= GraceWindow THEN NoTime ELSE t.recentDown[k]]
  BY <1>1, TickSweeps
<1> HIDE DEF u
<1>4. ASSUME NEW d \in Q PROVE StillDown(t, u, K, d, SweptAt(d, now)) /\ SweptAt(d, now) \in Teardown
  <2> DEFINE c == SweptAt(d, now)
  <2>1. c \in Teardown /\ d.key \in Keys /\ d.at \in Int /\ d.swept \in Int
    <3>1. d \in Teardown
      OBVIOUS
    <3>2. d.key \in Keys /\ d.at \in Times /\ d.swept \in Times \cup {NoTime}
      BY <3>1 DEF Teardown
    <3>3. c \in Teardown
      BY <3>1, SweptAtType
    <3>. QED BY <3>2, <3>3, ClockAssumption DEF Times, NoTime
  <2>2. c.key = d.key /\ c.id = d.id /\ c.at = d.at /\ c.swept = IF now > d.swept THEN now ELSE d.swept
    BY DEF SweptAt, Teardown
  <2> HIDE DEF c
  <2>3. Over(d) => Over(c)
    BY <1>1, <2>1, <2>2, OptionsAssumption DEF Over
  <2>4. now - d.at >= GraceWindow => Over(c)
    BY <1>1, <2>1, <2>2, OptionsAssumption DEF Over
  <2>5. u.recentDown[d.key] = t.recentDown[d.key] \/ now - t.recentDown[d.key] >= GraceWindow
    BY <1>3, <2>1
  <2>. QED BY <2>1, <2>2, <2>3, <2>4, <2>5 DEF StillDown, c
<1>5. R \in SUBSET Teardown /\ \A c \in R : \E d \in Q : StillDown(t, u, K, d, c)
  BY <1>4
<1>6. \A k \in K : why[k] # "evicted"
  BY <1>2
<1> HIDE DEF R
<1>7. Consistent(u, N, A, S, R)
  BY <1>1, <1>2, <1>5, <1>6, SweepsConsistent
<1>. QED BY <1>7 DEF u, R

LEMMA FlushConsistent ==
    ASSUME NEW t, NEW N \in Nat, NEW A \in SUBSET (1..N), NEW S,
           NEW Q \in SUBSET Teardown, Consistent(t, N, A, S, Q)
    PROVE  Consistent(Flush(t), N, A, S, Q)
<1>1. t \in Table /\ Flush(t) \in Table /\ 0 \in Times
  BY FlushType, ClockAssumption DEF Consistent, Times
<1>2. PICK why : Sweeps(t, Flush(t), Live(t), {}, why, 0) /\ \A k \in Live(t) : why[k] \notin {"fin_rst", "evicted"}
  BY <1>1, FlushSweeps
<1>3. Flush(t).recentDown = t.recentDown
  BY <1>1, FlushSweeps
<1>4. \A c \in Q : StillDown(t, Flush(t), Live(t), c, c)
  BY <1>3 DEF StillDown
<1>5. \A k \in Live(t) : why[k] # "evicted"
  BY <1>2
<1>. QED BY <1>1, <1>2, <1>4, <1>5, SweepsConsistent

Gone == absorbed \cup {a.n : a \in astray}

TableInv == TypeOK /\ Consistent(table, pacer.n, Gone, astray, downs)

LEMMA TableInitInv == Init => TableInv
<1> SUFFICES ASSUME Init PROVE TableInv
  OBVIOUS
<1>1. /\ Live(table) = {} /\ table.started = 0 /\ table.emitted = {}
      /\ pacer.n = 0 /\ absorbed = {} /\ astray = {} /\ downs = {}
  BY DEF Init, NewTable, Live
<1>2. Books(table) /\ Versions(table) /\ Outlived(table)
  BY <1>1 DEF Books, Versions, Closings, Numbered, Outlived
<1>3. Accounts(table, pacer.n, Gone)
  BY <1>1 DEF Accounts, Holders, Finals, Gone
<1>4. Quiet(table, downs) /\ Lost(table, astray)
  BY <1>1 DEF Quiet, Lost
<1>. QED BY <1>2, <1>3, <1>4, FlowTableInitType DEF TableInv, Consistent, TypeOK

LEMMA TableNextInv == TableInv /\ [Next]_vars => TableInv'
<1> SUFFICES ASSUME TableInv, [Next]_vars PROVE TableInv'
  OBVIOUS
<1>1. TypeOK /\ TypeOK'
  BY FlowTableNextType DEF TableInv
<1>2. pacer.n \in Nat /\ Gone \in SUBSET (1..pacer.n) /\ downs \in SUBSET Teardown
  <2>1. \A a \in astray : a.n \in 1..pacer.n
    BY <1>1 DEF TypeOK
  <2>2. pacer.n \in 0..MaxPackets /\ absorbed \subseteq 1..pacer.n /\ downs \subseteq Teardown
    BY <1>1 DEF TypeOK
  <2>3. {a.n : a \in astray} \subseteq 1..pacer.n
    BY <2>1
  <2>4. pacer.n \in Nat
    <3>1. MaxPackets \in Nat
      BY OptionsAssumption
    <3>. QED BY <2>2, <3>1
  <2>5. Gone \subseteq 1..pacer.n
    BY <2>2, <2>3 DEF Gone
  <2>. QED BY <2>2, <2>4, <2>5
<1>3. ASSUME NEW p \in Arriving, Deliver(p)
      PROVE  Consistent(table', pacer.n + 1, Gone', astray', downs') /\ pacer'.n = pacer.n + 1
  <2>1. p \in Packet /\ p.ts \in Times /\ p.n = pacer.n + 1
    <3>1. pacer.n < MaxPackets
      BY <1>3 DEF Deliver
    <3>. QED BY <1>1, <3>1, ArrivingType DEF Packet
  <2>2. PICK t \in Observe(table, p) :
           /\ table' = IF Due(pacer, p.ts) THEN Tick(t, p.ts) ELSE t
           /\ astray' = IF Strays(table, t, p) THEN astray \cup {[n |-> p.n, id |-> t.started]} ELSE astray
    BY <1>3 DEF Deliver
  <2> DEFINE all == downs \cup Torn(table, p)
  <2>3. downs' = IF Due(pacer, p.ts) THEN {SweptAt(d, p.ts) : d \in all} ELSE all
    BY <1>3 DEF Deliver
  <2>4. absorbed' = IF Absorbs(table, p) THEN absorbed \cup {p.n} ELSE absorbed
    BY <1>3 DEF Deliver
  <2>5. Gone' = IF Absorbs(table, p) \/ Strays(table, t, p) THEN Gone \cup {p.n} ELSE Gone
    <3> DEFINE x == [n |-> p.n, id |-> t.started]
    <3>1. x.n = p.n
      OBVIOUS
    <3> HIDE DEF x
    <3>2. CASE Strays(table, t, p)
      <4>1. astray' = astray \cup {x}
        BY <2>2, <3>2 DEF x
      <4>2. {a.n : a \in astray'} = {a.n : a \in astray} \cup {p.n}
        BY <3>1, <4>1
      <4>. QED BY <2>4, <3>2, <4>2 DEF Gone
    <3>3. CASE ~ Strays(table, t, p)
      <4>1. astray' = astray
        BY <2>2, <3>3
      <4>. QED BY <2>4, <3>3, <4>1 DEF Gone
    <3>. QED BY <3>2, <3>3
  <2>6. Consistent(t, pacer.n + 1, Gone', astray', all)
    BY <1>2, <2>1, <2>2, <2>5, ObserveConsistent DEF TableInv
  <2>7. Gone' \in SUBSET (1..(pacer.n + 1)) /\ pacer.n + 1 \in Nat /\ all \in SUBSET Teardown
    <3>1. pacer.n + 1 \in Nat /\ p.n \in 1..(pacer.n + 1) /\ 1..pacer.n \subseteq 1..(pacer.n + 1)
      BY <1>2, <2>1
    <3>2. Torn(table, p) \subseteq Teardown
      BY <1>1, <2>1, TornType DEF TypeOK
    <3>. QED BY <1>2, <2>5, <3>1, <3>2
  <2> HIDE DEF all
  <2>8. Consistent(Tick(t, p.ts), pacer.n + 1, Gone', astray', {SweptAt(d, p.ts) : d \in all})
    BY <2>1, <2>6, <2>7, TickConsistent
  <2>9. pacer'.n = pacer.n + 1
    BY <1>3 DEF Deliver, Paced
  <2>. QED BY <2>2, <2>3, <2>6, <2>8, <2>9
<1>4. CASE CaptureEnd
  <2>1. Consistent(Flush(table), pacer.n, Gone, astray, downs)
    BY <1>2, FlushConsistent DEF TableInv
  <2>2. table' = Flush(table) /\ pacer' = pacer /\ Gone' = Gone /\ astray' = astray /\ downs' = downs
    BY <1>4 DEF CaptureEnd, Gone
  <2>. QED BY <1>1, <2>1, <2>2 DEF TableInv
<1>5. CASE UNCHANGED vars
  BY <1>1, <1>5 DEF vars, TableInv, Gone
<1>. QED BY <1>1, <1>3, <1>4, <1>5 DEF Next, TableInv

\* Closing is terminal: for any number of keys, any timers, any max_flows and packets stamped in
\* any order, every flow id is live under one key or closed, with one closing record - or two for
\* a flow that its own opening evicted and its first packet tore down - and a flow is evicted only
\* where another is no older (flow/table.go Observe, Tick, Flush, evictOldest;
\* docs/architecture.md, the five close reasons).
THEOREM FlowsCloseOnce == Spec => []ClosesOnce
<1>1. TableInv => ClosesOnce
  BY DEF TableInv, Consistent, Books, SameClosing, Outlived, ClosesOnce
<1>. QED BY <1>1, TableInitInv, TableNextInv, PTL DEF Spec

\* No packet is lost or counted twice: of any number of packets, stamped in any order, each one
\* was absorbed by the grace window, or sits in exactly one flow, live or closed, or is the one
\* packet of a flow evicted at birth (flow/table.go Observe, fold, emit).
THEOREM EveryPacketAccounted == Spec => []PacketsAccounted
<1>1. ASSUME TableInv, NEW n \in 1..pacer.n
      PROVE  Cardinality(Holders(table, n)) + Cardinality(Finals(table, n)) = IF n \in Gone THEN 0 ELSE 1
  <2>1. Cardinality({}) = 0 /\ \A x : Cardinality({x}) = 1
    BY FS_EmptySet, FS_Singleton
  <2>2. Accounts(table, pacer.n, Gone)
    BY <1>1 DEF TableInv, Consistent
  <2>3. CASE n \in Gone
    <3>1. Holders(table, n) = {} /\ Finals(table, n) = {}
      BY <2>2, <2>3 DEF Accounts
    <3>. QED BY <2>1, <2>3, <3>1
  <2>4. CASE n \notin Gone
    <3>1. \/ Finals(table, n) = {} /\ \E k : Holders(table, n) = {k}
          \/ Holders(table, n) = {} /\ \E r : Finals(table, n) = {r}
      BY <2>2, <2>4 DEF Accounts
    <3>2. \/ Cardinality(Finals(table, n)) = 0 /\ Cardinality(Holders(table, n)) = 1
          \/ Cardinality(Finals(table, n)) = 1 /\ Cardinality(Holders(table, n)) = 0
      BY <2>1, <3>1
    <3>. QED BY <2>4, <3>2
  <2>. QED BY <2>3, <2>4
<1>2. TableInv => Lost(table, astray)
  BY DEF TableInv, Consistent
<1>3. TableInv => PacketsAccounted
  BY <1>1, <1>2 DEF PacketsAccounted, Holders, Finals, Gone, Lost
<1>. QED BY <1>3, TableInitInv, TableNextInv, PTL DEF Spec

\* What the table emits is real, whatever the order of timestamps: no trailing packet opens a
\* phantom flow within the grace window, and the versions of a flow are numbered without a gap and
\* only grow (flow/table.go Observe, Tick, emitSnapshot, emit, graceWindow).
THEOREM EmittedRecordsAreReal == Spec => []RecordsAreReal
<1>1. TableInv => RecordsAreReal
  <2> SUFFICES ASSUME TableInv PROVE NoPhantomFlow /\ SnapshotsCumulative
    BY DEF RecordsAreReal
  <2>1. NoPhantomFlow
    BY DEF TableInv, Consistent, Quiet, Over, NoPhantomFlow
  <2>2. SnapshotsCumulative
    BY VersionsAreCumulative DEF TableInv, Consistent
  <2>. QED BY <2>1, <2>2
<1>. QED BY <1>1, TableInitInv, TableNextInv, PTL DEF Spec

-----------------------------------------------------------------------------
(* Expiry. *)

LEMMA FoldIntoEntries ==
    ASSUME NEW t \in Table, NEW p \in Packet, NEW e \in Entry, NEW k \in Live(FoldInto(t, e, p))
    PROVE  LET u == FoldInto(t, e, p)
           IN \/ u.flows[k] = Fold(e, p)
              \/ k # p.key /\ k \in Live(t) /\ u.flows[k] = t.flows[k]
<1> DEFINE u == FoldInto(t, e, p)
           f == Fold(e, p)
<1>1. \/ u.flows = [t.flows EXCEPT ![p.key] = NoFlow]
      \/ u.flows = [t.flows EXCEPT ![p.key] = f]
      \/ u.flows = t.flows /\ p.key \notin Live(t)
  BY DEF FoldInto, Table
<1>2. p.key \in Keys /\ k \in Keys /\ u.flows[k] # NoFlow
  BY DEF Packet, Live
<1>3. t.flows \in [Keys -> Entry \cup {NoFlow}]
  BY DEF Table
<1> HIDE DEF u, f
<1>4. u.flows[k] = f \/ (k # p.key /\ k \in Live(t) /\ u.flows[k] = t.flows[k])
  BY <1>1, <1>2, <1>3 DEF Live
<1>. QED BY <1>4 DEF u, f

LEMMA OpenedEntries ==
    ASSUME NEW t \in Table, NEW p \in Packet, NEW o \in Opened(t, p), NEW k \in Live(o), k # p.key
    PROVE  k \in Live(t) /\ o.flows[k] = t.flows[k]
<1> DEFINE i == Inserted(t, p)
<1>1. i.flows = [t.flows EXCEPT ![p.key] = NewEntry(NextID(t), p)]
  BY InsertedFields
<1>2. i \in Table /\ t.flows \in [Keys -> Entry \cup {NoFlow}]
  BY InsertedType DEF Table
<1>3. o = i \/ \E v \in Oldest(i) : o = Evict(i, v)
  BY DEF Opened
<1> HIDE DEF i
<1>4. o.flows[k] = i.flows[k]
  <2>1. CASE \E v \in Oldest(i) : o = Evict(i, v)
    <3>1. PICK v \in Oldest(i) : o = Evict(i, v)
      BY <2>1
    <3>2. o.flows = [i.flows EXCEPT ![v] = NoFlow]
      BY <1>2, <3>1 DEF Evict, Table
    <3>3. i.flows \in [Keys -> Entry \cup {NoFlow}]
      BY <1>2 DEF Table
    <3>. QED BY <3>2, <3>3 DEF Live
  <2>. QED BY <1>3, <2>1
<1>. QED BY <1>1, <1>2, <1>4 DEF Live

\* Whatever the timestamps: after Observe a live entry is one of before, or the packet's flow.
LEMMA ObserveEntries ==
    ASSUME NEW t \in Table, NEW p \in Packet, NEW u \in Observe(t, p), NEW k \in Live(u)
    PROVE  \/ k \in Live(t) /\ u.flows[k] = t.flows[k]
           \/ ~ Absorbs(t, p) /\ u.flows[k] = Fold(EntryFor(t, p), p)
<1>1. EntryFor(t, p) \in Entry
  BY EntryForType
<1>2. CASE p.key \in Live(t)
  <2>1. u = FoldInto(t, EntryFor(t, p), p) /\ ~ Absorbs(t, p)
    BY <1>2 DEF Observe, EntryFor, Absorbs
  <2>. QED BY <1>1, <2>1, FoldIntoEntries
<1>3. CASE p.key \notin Live(t) /\ Absorbs(t, p)
  BY <1>3 DEF Observe
<1>4. CASE p.key \notin Live(t) /\ ~ Absorbs(t, p)
  <2>1. PICK o \in Opened(t, p) : u = FoldInto(o, EntryFor(t, p), p)
    BY <1>4 DEF Observe, EntryFor
  <2>2. o \in Table
    BY OpenedType
  <2>3. \/ u.flows[k] = Fold(EntryFor(t, p), p)
        \/ k # p.key /\ k \in Live(o) /\ u.flows[k] = o.flows[k]
    BY <1>1, <2>1, <2>2, FoldIntoEntries
  <2>. QED BY <1>4, <2>3, OpenedEntries
<1>. QED BY <1>2, <1>3, <1>4

\* Nothing of the entry was due at the time at.
Fresh(e, at) == ~ OverAge(e, at) /\ ~ Idle(e, at) /\ ~ SnapshotDue(e, at)

LEMMA EarlierFresh ==
    ASSUME NEW e \in Entry, NEW at \in Times, NEW earlier \in Times, earlier <= at, Fresh(e, at)
    PROVE  Fresh(e, earlier)
<1>1. e.first \in Int /\ e.last \in Int /\ e.nextSnapshotAt \in Int /\ at \in Int /\ earlier \in Int
  BY DEF Entry, Times
<1>. QED BY <1>1, OptionsAssumption DEF Fresh, OverAge, Idle, SnapshotDue

LEMMA NewEntryFresh ==
    ASSUME NEW id \in Nat \ {0}, NEW p \in Packet
    PROVE  Fresh(NewEntry(id, p), p.ts)
<1>1. p.ts \in Int /\ p.ts - p.ts = 0
  BY DEF Packet, Times
<1>. QED BY <1>1, OptionsAssumption DEF Fresh, OverAge, Idle, SnapshotDue, NewEntry

LEMMA FoldFresh ==
    ASSUME NEW e \in Entry, NEW p \in Packet, NEW at \in Times, Fresh(e, at)
    PROVE  Fresh(Fold(e, p), at)
<1> DEFINE f == Fold(e, p)
<1>1. f.first = e.first /\ f.nextSnapshotAt = e.nextSnapshotAt /\ f.last >= e.last
  BY FoldKeeps
<1>2. f.last \in Int /\ e.last \in Int /\ at \in Int
  BY FoldType DEF Entry, Times
<1> HIDE DEF f
<1>3. Fresh(f, at)
  BY <1>1, <1>2, OptionsAssumption DEF Fresh, OverAge, Idle, SnapshotDue
<1>. QED BY <1>3 DEF f

\* A sweep leaves nothing due.
LEMMA TickFresh ==
    ASSUME NEW t \in Table, NEW now \in Times, NEW k \in Live(Tick(t, now))
    PROVE  Fresh(Tick(t, now).flows[k], now)
<1>1. PICK K, D, why :
         /\ Sweeps(t, Tick(t, now), K, D, why, now)
         /\ \A j \in K : why[j] \notin {"fin_rst", "evicted"}
         /\ \A j \in Live(t) \ K : /\ ~ OverAge(t.flows[j], now) /\ ~ Idle(t.flows[j], now)
                                   /\ j \notin D => ~ SnapshotDue(t.flows[j], now)
  BY TickSweeps
<1>2. k \in Live(t) \ K /\ Tick(t, now).flows[k] = IF k \in D THEN Snapped(t.flows[k], now) ELSE t.flows[k]
  BY <1>1, SweepsFacts
<1>3. CASE k \in D
  <2> DEFINE e == t.flows[k]
             s == Snapped(e, now)
  <2>1. s.first = e.first /\ s.last = e.last /\ s.nextSnapshotAt = now + SnapshotInterval
    BY <1>2, LiveEntry, SnappedType
  <2>2. ~ OverAge(e, now) /\ ~ Idle(e, now)
    BY <1>1, <1>2
  <2>3. now \in Int /\ SnapshotInterval \in Int
    BY OptionsAssumption DEF Times
  <2> HIDE DEF e, s
  <2>4. Fresh(s, now)
    BY <2>1, <2>2, <2>3 DEF Fresh, OverAge, Idle, SnapshotDue
  <2>. QED BY <1>2, <1>3, <2>4 DEF e, s
<1>4. CASE k \notin D
  BY <1>1, <1>2, <1>4 DEF Fresh
<1>. QED BY <1>3, <1>4

\* Once a packet has come, nothing was due at the pacer's last sweep or seed, and
\* that was less than a tick interval of packet time ago.
PacedInv ==
    /\ TypeOK
    /\ pacer.last = NoTime => Live(table) = {}
    /\ pacer.last # NoTime =>
          /\ pacer.last <= clock /\ clock - pacer.last < TickInterval
          /\ \A k \in Live(table) : Fresh(table.flows[k], pacer.last)

\* Every flow left by a packet is fresh at the time the pacer then counts from.
LEMMA ObserveFresh ==
    ASSUME TypeOK, PacedInv, NEW p \in Packet, NEW u \in Observe(table, p), NEW k \in Live(u),
           NEW at \in Times, at <= p.ts, pacer.last # NoTime => at <= pacer.last
    PROVE  Fresh(u.flows[k], at)
<1>1. table \in Table /\ p.ts \in Times /\ pacer.last \in Times \cup {NoTime}
  BY DEF TypeOK, Packet
<1>2. ASSUME NEW j \in Live(table) PROVE Fresh(table.flows[j], at)
  <2>1. pacer.last \in Times /\ Fresh(table.flows[j], pacer.last) /\ at <= pacer.last
    BY <1>1 DEF PacedInv
  <2>. QED BY <1>1, <2>1, LiveEntry, EarlierFresh
<1>3. Fresh(EntryFor(table, p), at)
  <2>1. CASE p.key \in Live(table)
    BY <1>2, <2>1 DEF EntryFor
  <2>2. CASE p.key \notin Live(table)
    <3>1. NextID(table) \in Nat \ {0}
      BY <1>1 DEF NextID, Table
    <3>2. Fresh(NewEntry(NextID(table), p), at)
      BY <1>1, <3>1, NewEntryFresh, NewEntryType, EarlierFresh
    <3>. QED BY <2>2, <3>2 DEF EntryFor
  <2>. QED BY <2>1, <2>2
<1>4. Fresh(Fold(EntryFor(table, p), p), at)
  BY <1>1, <1>3, EntryForType, FoldFresh
<1>. QED BY <1>1, <1>2, <1>4, ObserveEntries

LEMMA PacedInitInv == Init => PacedInv
BY FlowTableInitType DEF Init, NewTable, Live, PacedInv

LEMMA PacedNextInv == PacedInv /\ [Next]_vars => PacedInv'
<1> SUFFICES ASSUME PacedInv, [Next]_vars PROVE PacedInv'
  OBVIOUS
<1>1. TypeOK /\ TypeOK'
  BY FlowTableNextType DEF PacedInv
<1>2. ASSUME NEW p \in Arriving, Deliver(p) PROVE PacedInv'
  <2>1. p \in Packet /\ p.ts \in Times /\ p.ts \in Int /\ NoTime \notin Times
    <3>1. pacer.n < MaxPackets
      BY <1>2 DEF Deliver
    <3>. QED BY <1>1, <3>1, ArrivingType DEF Packet, Times, NoTime
  <2>2. PICK u \in Observe(table, p) : table' = IF Due(pacer, p.ts) THEN Tick(u, p.ts) ELSE u
    BY <1>2 DEF Deliver
  <2>3. /\ clock' = p.ts
        /\ pacer'.last = IF pacer.last = NoTime \/ p.ts < pacer.last \/ Due(pacer, p.ts) THEN p.ts
                         ELSE pacer.last
    BY <1>2 DEF Deliver, Paced
  <2>4. pacer.last \in Times \cup {NoTime} /\ pacer.last \in Int /\ TickInterval \in Nat \ {0}
    BY <1>1, OptionsAssumption DEF TypeOK, Times, NoTime
  <2>5. CASE Due(pacer, p.ts)
    <3>1. \A k \in Live(table') : Fresh(table'.flows[k], p.ts)
      BY <1>1, <2>1, <2>2, <2>5, ObserveType, TickFresh DEF TypeOK
    <3>. QED BY <1>1, <2>1, <2>3, <2>4, <2>5, <3>1 DEF PacedInv
  <2>6. CASE ~ Due(pacer, p.ts)
    <3>1. pacer'.last \in Times /\ pacer'.last <= p.ts
      BY <2>1, <2>3, <2>4
    <3>2. pacer.last # NoTime => pacer'.last <= pacer.last
      BY <2>1, <2>3, <2>4, <2>6
    <3>3. p.ts - pacer'.last < TickInterval
      BY <2>1, <2>3, <2>4, <2>6 DEF Due
    <3>4. \A k \in Live(table') : Fresh(table'.flows[k], pacer'.last)
      BY <1>1, <2>1, <2>2, <2>6, <3>1, <3>2, ObserveFresh
    <3>. QED BY <1>1, <2>1, <2>3, <3>1, <3>3, <3>4 DEF PacedInv
  <2>. QED BY <2>5, <2>6
<1>3. CASE CaptureEnd
  <2>1. Live(table') = {}
    BY <1>1, <1>3 DEF CaptureEnd, Flush, Live, TypeOK, Table
  <2>. QED BY <1>1, <1>3, <2>1 DEF CaptureEnd, PacedInv
<1>4. CASE UNCHANGED vars
  BY <1>1, <1>4 DEF vars, PacedInv, Live
<1>. QED BY <1>2, <1>3, <1>4 DEF Next

\* Expiry stays responsive whatever the packet rate and however packet time jumps: no flow
\* outlives its idle timeout, its lifetime or a due snapshot by a tick interval of capture
\* time (flow/pacer.go Due with flow/table.go Tick; issue #137).
THEOREM ExpiryStaysResponsive == Spec => []ExpiryResponsive
<1>1. PacedInv => ExpiryResponsive
  <2> SUFFICES ASSUME PacedInv, NEW k \in Live(table)
               PROVE  LET e == table.flows[k]
                      IN  /\ IdleTimeout > 0 => clock - e.last < IdleTimeout + TickInterval
                          /\ MaxLifetime > 0 => clock - e.first < MaxLifetime + TickInterval
                          /\ SnapshotInterval > 0 => clock < e.nextSnapshotAt + TickInterval
    BY DEF ExpiryResponsive
  <2> DEFINE e == table.flows[k]
  <2>1. e \in Entry
    BY LiveEntry DEF PacedInv, TypeOK
  <2>2. Fresh(e, pacer.last) /\ clock - pacer.last < TickInterval
    BY DEF PacedInv
  <2>3. e.last \in Int /\ e.first \in Int /\ e.nextSnapshotAt \in Int /\ clock \in Int /\ pacer.last \in Int
    BY <2>1 DEF Entry, Times, PacedInv, TypeOK, NoTime
  <2> HIDE DEF e
  <2>4. /\ IdleTimeout > 0 => clock - e.last < IdleTimeout + TickInterval
        /\ MaxLifetime > 0 => clock - e.first < MaxLifetime + TickInterval
        /\ SnapshotInterval > 0 => clock < e.nextSnapshotAt + TickInterval
    BY <2>2, <2>3, OptionsAssumption DEF Fresh, OverAge, Idle, SnapshotDue
  <2>. QED BY <2>4 DEF e
<1>. QED BY <1>1, PacedInitInv, PacedNextInv, PTL DEF Spec

=============================================================================
