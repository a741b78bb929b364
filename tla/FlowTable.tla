----------------------------- MODULE FlowTable -----------------------------
(***************************************************************************)
(* The flow table (internal/flow/table.go) together with the pacer that    *)
(* decides when it is swept (internal/flow/pacer.go), driven by the packet *)
(* loop of internal/pipeline/pipeline.go.  One goroutine owns the table,   *)
(* so one packet (Observe, then Tick when it is due) is one step.          *)
(*                                                                         *)
(* The byte, size and inter-arrival accumulators of a Record are           *)
(* abstracted to the set of packets folded into it: packets are numbered   *)
(* in arrival order.  The table is one record, named as the Go struct is.  *)
(* astray and downs are history: they only remember what the properties    *)
(* speak of.  Timestamps may stand still and step back, as captures' do.   *)
(***************************************************************************)
EXTENDS Integers, FiniteSets

CONSTANTS
    Keys,              \* normalised 5-tuples with their observation point
    TcpKeys,           \* the keys whose protocol is TCP
    FlagSets,          \* the sets of TCP flags a packet may carry
    Deltas,            \* how far a packet's timestamp is from the previous one
    MaxTS,             \* bound: timestamps are 0..MaxTS
    MaxPackets,        \* bound: packets delivered before capture end
    IdleTimeout, MaxLifetime, SnapshotInterval, MaxFlows,   \* Options
    GraceWindow,       \* graceWindow
    TickEvery, TickInterval

ASSUME KeysAssumption == IsFiniteSet(Keys) /\ TcpKeys \subseteq Keys
ASSUME FlagsAssumption == \A f \in FlagSets : f \subseteq {"SYN", "ACK", "FIN", "RST"}
ASSUME ClockAssumption == Deltas \subseteq Int /\ MaxTS \in Nat
ASSUME OptionsAssumption ==
    /\ {IdleTimeout, MaxLifetime, SnapshotInterval, MaxFlows} \subseteq Nat
    /\ {GraceWindow, TickEvery, TickInterval, MaxPackets} \subseteq Nat \ {0}

VARIABLES
    table,     \* flow.Table: flows, recentDown, counters, and what onFlow got
    pacer,     \* flow.Pacer: n and last
    clock,     \* timestamp of the last packet delivered
    absorbed,  \* numbers of the packets the grace window swallowed
    astray,    \* the packets folded into a flow their own opening had evicted
    downs,     \* the FIN/RST teardowns, each with the latest sweep since
    ended      \* the source is exhausted and the table flushed

vars == <<table, pacer, clock, absorbed, astray, downs, ended>>

Sides == {"A", "B"}
Times == 0..MaxTS
NoTime == -1           \* time.Time{}, and a key absent from recentDown
NoFlow == [id |-> 0]   \* a key absent from the flows map

Other(side) == IF side = "A" THEN "B" ELSE "A"

Packet == [n: 1..MaxPackets, key: Keys, src: Sides, flags: SUBSET {"SYN", "ACK", "FIN", "RST"}, ts: Times]

CloseReasons == {"fin_rst", "idle", "max_lifetime", "capture_end", "evicted"}

Entry == [id: Nat \ {0}, key: Keys, initiator: Sides, first: Times, last: Times,
          syn: BOOLEAN, fins: SUBSET Sides, snapshots: Nat, nextSnapshotAt: Int,
          packets: SUBSET (1..MaxPackets)]

Live(t) == {k \in Keys : t.flows[k] # NoFlow}

-----------------------------------------------------------------------------
(* Observe: fold one packet into its flow. *)

NewTable ==
    [flows |-> [k \in Keys |-> NoFlow], recentDown |-> [k \in Keys |-> NoTime],
     started |-> 0, closed |-> 0, evicted |-> 0, emitted |-> {}]

Rec(e, reason) ==
    [id |-> e.id, key |-> e.key, reason |-> reason, index |-> e.snapshots,
     first |-> e.first, last |-> e.last, syn |-> e.syn, packets |-> e.packets]

AbsorbsTooShort(t, p) ==   \* mutant: an off-by-one in the grace window
    /\ p.key \notin Live(t)
    /\ t.recentDown[p.key] # NoTime
    /\ p.ts - t.recentDown[p.key] + 1 < GraceWindow
    /\ ~ (p.key \in TcpKeys /\ "SYN" \in p.flags)

Absorbs(t, p) ==
    /\ p.key \notin Live(t)
    /\ t.recentDown[p.key] # NoTime
    /\ p.ts - t.recentDown[p.key] < GraceWindow
    /\ ~ (p.key \in TcpKeys /\ "SYN" \in p.flags)

NewEntry(id, p) ==
    [id |-> id, key |-> p.key,
     initiator |-> IF {"SYN", "ACK"} \subseteq p.flags THEN Other(p.src) ELSE p.src,
     first |-> p.ts, last |-> p.ts, syn |-> FALSE, fins |-> {}, snapshots |-> 0,
     nextSnapshotAt |-> IF SnapshotInterval > 0 THEN p.ts + SnapshotInterval ELSE NoTime,
     packets |-> {}]

Fold(e, p) ==
    [e EXCEPT !.last = IF p.ts > @ THEN p.ts ELSE @,
              !.syn = @ \/ "SYN" \in p.flags,
              !.fins = IF "FIN" \in p.flags THEN @ \cup {p.src} ELSE @,
              !.packets = @ \cup {p.n}]

Oldest(t) ==
    {k \in Live(t) : \A j \in Live(t) : t.flows[k].last <= t.flows[j].last}

Evict(t, k) ==
    [t EXCEPT !.flows[k] = NoFlow, !.closed = @ + 1, !.evicted = @ + 1,
              !.emitted = @ \cup {Rec(t.flows[k], "evicted")}]

NextID(t) == t.started + 1   \* Options.IDGen

Inserted(t, p) ==
    [t EXCEPT !.started = NextID(t), !.recentDown[p.key] = NoTime,
              !.flows[p.key] = NewEntry(NextID(t), p)]

\* Which of several equally old flows is evicted depends on Go's map order.
Opened(t, p) ==
    LET o == Inserted(t, p)
    IN IF MaxFlows > 0 /\ Cardinality(Live(o)) > MaxFlows
       THEN {Evict(o, k) : k \in Oldest(o)}
       ELSE {o}

\* With this packet the conversation of e is torn down.
TearsDown(e, p) == "RST" \in p.flags \/ Fold(e, p).fins = Sides

FoldIntoKeeps(t, e, p) ==   \* mutant: a torn down flow stays in the map
    LET f == Fold(e, p)
    IN IF TearsDown(e, p)
       THEN [t EXCEPT !.flows[p.key] = f, !.recentDown[p.key] = p.ts,
                      !.closed = @ + 1, !.emitted = @ \cup {Rec(f, "fin_rst")}]
       ELSE [t EXCEPT !.flows[p.key] = f]

FoldIntoLate(t, e, p) ==   \* mutant: the record is emitted before the packet is folded
    LET f == Fold(e, p)
    IN IF TearsDown(e, p)
       THEN [t EXCEPT !.flows[p.key] = NoFlow, !.recentDown[p.key] = p.ts,
                      !.closed = @ + 1, !.emitted = @ \cup {Rec(e, "fin_rst")}]
       ELSE [t EXCEPT !.flows[p.key] = f]

\* Observe holds a pointer e to the entry: when opening it evicted that same
\* entry, the packet is folded into memory the table no longer reaches.
FoldInto(t, e, p) ==
    LET f == Fold(e, p)
    IN IF TearsDown(e, p)
       THEN [t EXCEPT !.flows[p.key] = NoFlow, !.recentDown[p.key] = p.ts,
                      !.closed = @ + 1, !.emitted = @ \cup {Rec(f, "fin_rst")}]
       ELSE IF p.key \in Live(t) THEN [t EXCEPT !.flows[p.key] = f] ELSE t

EntryFor(t, p) == IF p.key \in Live(t) THEN t.flows[p.key] ELSE NewEntry(NextID(t), p)

Observe(t, p) ==
    IF p.key \in Live(t) THEN {FoldInto(t, EntryFor(t, p), p)}
    ELSE IF Absorbs(t, p) THEN {t}
    ELSE {FoldInto(o, EntryFor(t, p), p) : o \in Opened(t, p)}

-----------------------------------------------------------------------------
(* Tick and Flush: sweep the whole table. *)

OverAge(e, now) == MaxLifetime > 0 /\ now - e.first >= MaxLifetime
Idle(e, now) == IdleTimeout > 0 /\ now - e.last >= IdleTimeout
SnapshotDue(e, now) == SnapshotInterval > 0 /\ now >= e.nextSnapshotAt

Snapshot(e) == [e EXCEPT !.snapshots = @ + 1]

Tick(t, now) ==
    LET aged == {k \in Live(t) : OverAge(t.flows[k], now)}
        idle == {k \in Live(t) \ aged : Idle(t.flows[k], now)}
        due  == {k \in Live(t) \ (aged \cup idle) : SnapshotDue(t.flows[k], now)}
    IN [t EXCEPT
          !.recentDown = [k \in Keys |-> IF now - @[k] >= GraceWindow THEN NoTime ELSE @[k]],
          !.flows = [k \in Keys |->
                       IF k \in aged \cup idle THEN NoFlow
                       ELSE IF k \in due
                       THEN [Snapshot(@[k]) EXCEPT !.nextSnapshotAt = now + SnapshotInterval]
                       ELSE @[k]],
          !.closed = @ + Cardinality(aged \cup idle),
          !.emitted = @ \cup {Rec(t.flows[k], "max_lifetime") : k \in aged}
                        \cup {Rec(t.flows[k], "idle") : k \in idle}
                        \cup {Rec(Snapshot(t.flows[k]), "snapshot") : k \in due}]

Flush(t) ==
    [t EXCEPT !.flows = [k \in Keys |-> NoFlow],
              !.closed = @ + Cardinality(Live(t)),
              !.emitted = @ \cup {Rec(t.flows[k], "capture_end") : k \in Live(t)}]

-----------------------------------------------------------------------------
(* The pacer: is a sweep due after the packet stamped ts? *)

DueByCount(pc, ts) ==   \* mutant: the clock was never seeded (issue #137)
    (pc.n + 1) % TickEvery = 0

Due(pc, ts) ==
    /\ pc.last # NoTime
    /\ ts >= pc.last
    /\ (pc.n + 1) % TickEvery = 0 \/ ts - pc.last >= TickInterval

Paced(pc, ts) ==
    [n |-> pc.n + 1,
     last |-> IF pc.last = NoTime \/ ts < pc.last \/ Due(pc, ts) THEN ts ELSE pc.last]

-----------------------------------------------------------------------------
(* History: what Observe, from t to u, did with the packet p. *)

Strays(t, u, p) == ~ Absorbs(t, p) /\ ~ TearsDown(EntryFor(t, p), p) /\ p.key \notin Live(u)

Torn(t, p) ==
    IF ~ Absorbs(t, p) /\ TearsDown(EntryFor(t, p), p)
    THEN {[key |-> p.key, id |-> EntryFor(t, p).id, at |-> p.ts, swept |-> NoTime]}
    ELSE {}

Teardown == [key: Keys, id: Nat \ {0}, at: Times, swept: Times \cup {NoTime}]

SweptAt(d, now) == IF now > d.swept THEN [d EXCEPT !.swept = now] ELSE d

-----------------------------------------------------------------------------
Init ==
    /\ table = NewTable
    /\ pacer = [n |-> 0, last |-> NoTime]
    /\ clock = 0
    /\ absorbed = {} /\ astray = {} /\ downs = {}
    /\ ended = FALSE

Arriving ==
    {p \in [n: {pacer.n + 1}, key: Keys, src: Sides, flags: FlagSets,
            ts: {clock + d : d \in Deltas} \cap Times] :
        p.key \notin TcpKeys => p.flags = {}}

Deliver(p) ==
    /\ ~ended
    /\ pacer.n < MaxPackets
    /\ \E t \in Observe(table, p) :
          /\ table' = IF Due(pacer, p.ts) THEN Tick(t, p.ts) ELSE t
          /\ astray' = IF Strays(table, t, p) THEN astray \cup {[n |-> p.n, id |-> t.started]}
                       ELSE astray
    /\ downs' = LET all == downs \cup Torn(table, p)
                IN IF Due(pacer, p.ts) THEN {SweptAt(d, p.ts) : d \in all} ELSE all
    /\ pacer' = Paced(pacer, p.ts)
    /\ clock' = p.ts
    /\ absorbed' = IF Absorbs(table, p) THEN absorbed \cup {p.n} ELSE absorbed
    /\ UNCHANGED ended

CaptureEnd ==
    /\ ~ended
    /\ table' = Flush(table)
    /\ ended' = TRUE
    /\ UNCHANGED <<pacer, clock, absorbed, astray, downs>>

Next == (\E p \in Arriving : Deliver(p)) \/ CaptureEnd

Spec == Init /\ [][Next]_vars

-----------------------------------------------------------------------------
(* Properties *)

Emission == [id: Nat \ {0}, key: Keys, reason: CloseReasons \cup {"snapshot"}, index: Nat,
             first: Times, last: Times, syn: BOOLEAN, packets: SUBSET (1..MaxPackets)]

Closings(t, id) == {r \in t.emitted : r.id = id /\ r.reason \in CloseReasons}

Table == [flows: [Keys -> Entry \cup {NoFlow}], recentDown: [Keys -> Times \cup {NoTime}],
          started: Nat, closed: Nat, evicted: Nat, emitted: SUBSET Emission]

\* Every variable has the type its Go declaration gives it (flow/table.go Table,
\* entry; flow/pacer.go Pacer).
TypeOK ==
    /\ table \in Table
    /\ pacer \in [n: 0..MaxPackets, last: Times \cup {NoTime}]
    /\ clock \in Times
    /\ absorbed \subseteq 1..pacer.n
    /\ astray \subseteq [n: 1..pacer.n, id: Nat \ {0}]
    /\ downs \subseteq Teardown
    /\ ended \in BOOLEAN

Seen(t) == t.emitted \cup {t.flows[k] : k \in Live(t)}

\* The record of a flow evicted while it was being opened: no packet is in it.
Stillborn(r) == r.reason = "evicted" /\ r.packets = {}

\* Two records close one flow: the packet that opened it was a RST, and the table was full of
\* flows no older, so that it was evicted at birth and torn down all the same.
ClosedTwice(r, s) ==
    /\ Stillborn(r) /\ s.reason = "fin_rst"
    /\ s.first = r.first /\ s.last = r.last /\ Cardinality(s.packets) = 1

\* Every flow id handed out is either live under exactly one key or closed, never both, and
\* closing is terminal: one closing record each (docs/architecture.md, "each terminal - the entry
\* is deleted from the table"; flow/table.go emit).  The one flow with two records is the one its
\* own opening evicted: as a flow is evicted only where another is no older, that takes a packet
\* stamped no later than an earlier one (evictOldest).
ClosesOnce ==
    /\ \A id \in 1..table.started :
          Closings(table, id) # {} \/ \E k \in Live(table) : table.flows[k].id = id
    /\ \A k \in Live(table) : Closings(table, table.flows[k].id) = {}
    /\ \A id \in 1..table.started : \A r, s \in Closings(table, id) :
          r = s \/ ClosedTwice(r, s) \/ ClosedTwice(s, r)
    /\ \A j, k \in Live(table) : table.flows[j].id = table.flows[k].id => j = k
    /\ \A r \in table.emitted : r.reason = "evicted" =>
          \E x \in Seen(table) : x.id # r.id /\ x.last >= r.last

\* No packet is lost or counted twice: each one delivered was absorbed by the grace window, or
\* sits in exactly one flow - live, or in its closing record (flow/table.go Observe, fold).  The
\* packet that opened a flow evicted at birth is in no record; it is the only one of that flow,
\* which reports no packets.
PacketsAccounted ==
    /\ \A n \in 1..pacer.n :
        Cardinality({k \in Live(table) : n \in table.flows[k].packets})
        + Cardinality({r \in table.emitted : r.reason \in CloseReasons /\ n \in r.packets})
        = IF n \in absorbed \cup {a.n : a \in astray} THEN 0 ELSE 1
    /\ \A a \in astray : \E r \in table.emitted : Stillborn(r) /\ Closings(table, a.id) = {r}
    /\ \A a, b \in astray : a.id = b.id => a = b

\* max_flows bounds the live table, however flows are opened and whatever the
\* order of their timestamps (flow/table.go open, evictOldest).
CapacityBound == MaxFlows > 0 => Cardinality(Live(table)) <= MaxFlows

\* x is of the flow of d's key that was opened next after the teardown d.
NextOfKey(t, d, x) ==
    /\ x.key = d.key /\ d.id < x.id
    /\ \A s \in t.emitted : s.key = d.key => s.id <= d.id \/ x.id <= s.id

\* A trailing packet never opens a phantom flow: when a conversation is torn down and the next flow
\* of its key begins within the grace window of the teardown, that one has seen a SYN - unless a
\* sweep in between was stamped later than the window, time then stepping back (flow/table.go
\* graceWindow, Observe, and the purge of recentDown in Tick).
NoPhantomFlow ==
    \A d \in downs : \A x \in Seen(table) :
        NextOfKey(table, d, x) /\ x.packets # {} /\ x.first - d.at < GraceWindow
            => x.syn \/ d.swept - d.at >= GraceWindow

\* Expiry stays responsive on a quiet link (issue #137): whatever packet arrived
\* last, no flow outlives its idle timeout, its lifetime or a due snapshot by a
\* tick interval of capture time (flow/pacer.go Due with flow/table.go Tick).
ExpiryResponsive ==
    \A k \in Live(table) : LET e == table.flows[k] IN
        /\ IdleTimeout > 0 => clock - e.last < IdleTimeout + TickInterval
        /\ MaxLifetime > 0 => clock - e.first < MaxLifetime + TickInterval
        /\ SnapshotInterval > 0 => clock < e.nextSnapshotAt + TickInterval

\* What a reader of one flow's versions relies on: snapshots are numbered 1, 2,
\* ... without a gap or a repeat, each holds every packet of the ones before it,
\* and the closing record carries the last index and all the packets
\* (flow/table.go Tick, emitSnapshot, emit).
SnapshotsCumulative ==
    \A r \in table.emitted :
        LET versions == {s \in table.emitted : s.id = r.id}
            numbered == {s \in versions : s.reason = "snapshot"}
        IN /\ {s.index : s \in numbered} = 1..Cardinality(numbered)
           /\ r.index \in 0..Cardinality(numbered)
           /\ \A s \in versions : s.index < r.index => s.packets \subseteq r.packets /\ s.last <= r.last
           /\ r \in numbered => \A s \in Closings(table, r.id) :
                 r.index <= s.index /\ r.packets \subseteq s.packets

\* What the table emits is real: every record is of packets that came, and the snapshots of a
\* flow only grow (Table.Observe, fold, emitSnapshot).
RecordsAreReal == NoPhantomFlow /\ SnapshotsCumulative

=============================================================================
