------------------------------ MODULE Insight ------------------------------
(***************************************************************************)
(* insight.Index (internal/insight): bounded aggregates over the classified *)
(* flow stream - host profiles, the traffic matrix, the timeline.  The     *)
(* pipeline hands over an observation with one non-blocking send, one      *)
(* aggregator goroutine folds them in under the write lock, and readers see *)
(* whatever has been folded.                                               *)
(***************************************************************************)
EXTENDS Integers, SequencesExt, FiniteSets, FiniteSetsExt, Functions

CONSTANTS
    Initiator, Responder, Port,     \* conversation -> its two addresses (naturals, ordered as text) and service port
    MaxHosts, MaxKeys, MaxPairs, RecentCap, QueueSize,
    RingShapes      \* the timeline rings: a sequence of [width, len]

ASSUME InsightAssumption ==
    /\ {MaxHosts, MaxKeys, MaxPairs, RecentCap, QueueSize} \subseteq Nat \ {0}
    /\ \A i \in DOMAIN RingShapes : RingShapes[i].width > 0 /\ RingShapes[i].len > 0

VARIABLES
    queue,          \* Index.ch
    unqueued,       \* observations dropped because the queue was full
    aggregator,     \* "running", "closing" (quit is closed), "stopped" (the loop has returned)
    hosts,          \* address -> profile, for the tracked ones
    pairs,          \* <<initiator, responder>> -> cell, for the tracked ones
    rings,          \* the timeline
    hostsEvicted, pairsEvicted, observed

insightVars == <<queue, unqueued, aggregator, hosts, pairs, rings, hostsEvicted, pairsEvicted, observed>>

\* a bucket start of 0 is a slot never written
NoBucket == [ts |-> 0, total |-> 0, byClass |-> <<>>]

InsightInit ==
    /\ queue = <<>> /\ unqueued = 0 /\ aggregator = "running"
    /\ hosts = <<>> /\ pairs = <<>>
    /\ rings = [i \in DOMAIN RingShapes |->
                  [buf |-> [j \in 0..(RingShapes[i].len - 1) |-> NoBucket], newest |-> 0, late |-> 0]]
    /\ hostsEvicted = 0 /\ pairsEvicted = 0 /\ observed = 0

-----------------------------------------------------------------------------
(* Producer side *)

\* One non-blocking send, also after Close.
Observe(ob) ==
    /\ IF Len(queue) < QueueSize
       THEN queue' = Append(queue, ob) /\ UNCHANGED unqueued
       ELSE unqueued' = unqueued + 1 /\ UNCHANGED queue
    /\ UNCHANGED <<aggregator, hosts, pairs, rings, hostsEvicted, pairsEvicted, observed>>

-----------------------------------------------------------------------------
(* Top-N counters *)

Heaviest(c, n) ==   \* the count at index n of the descending list
    CHOOSE x \in Range(c) :
        /\ Cardinality({k \in DOMAIN c : c[k] > x}) <= n
        /\ Cardinality({k \in DOMAIN c : c[k] >= x}) > n

Lightened(c, keep) ==
    LET light == {k \in DOMAIN c : c[k] <= Heaviest(c, Min({keep, Cardinality(DOMAIN c) - 1}))}
        \* the loop counts each deletion twice: once in the map's length, once in dropped
        gone == (Cardinality(DOMAIN c) - keep + 1) \div 2
    IN {Restrict(c, DOMAIN c \ s) : s \in kSubset(gone, light)}

Increment(c, k) == [x \in DOMAIN c \cup {k} |-> (IF x \in DOMAIN c THEN c[x] ELSE 0) + (IF x = k THEN 1 ELSE 0)]

\* add, in the possible orders in which the map is walked.
Added(c, k) ==
    IF k \notin DOMAIN c /\ Cardinality(DOMAIN c) >= MaxKeys
    THEN {Increment(d, k) : d \in Lightened(c, MaxKeys \div 2)}
    ELSE {Increment(c, k)}

-----------------------------------------------------------------------------
(* Timeline *)

Bucket(t, width) == t - (t % width)

\* ring.add: the slot of a newer bucket is taken over, an older sample is late
AddToRing(r, shape, ob) ==
    LET i == (ob.ts \div shape.width) % shape.len
        b == Bucket(ob.ts, shape.width)
        slot == IF b > r.buf[i].ts THEN [NoBucket EXCEPT !.ts = b] ELSE r.buf[i]
    IN IF b < r.buf[i].ts THEN [r EXCEPT !.late = @ + 1]
       ELSE [r EXCEPT !.buf[i] = [slot EXCEPT !.total = @ + 1, !.byClass = Increment(@, ob.class)],
                      !.newest = Max({@, b})]

-----------------------------------------------------------------------------
(* Hosts *)

NewHost ==
    [lastSeen |-> 0, initiated |-> 0, responded |-> 0, bytesIn |-> 0, bytesOut |-> 0, verdicts |-> 0,
     ports |-> <<>>, peers |-> <<>>, recent |-> <<>>, recentHead |-> 0]

KeepHosts == Max({MaxHosts - MaxHosts \div 4, 1})

\* pruneHosts: the least recently active quarter goes, ties by address
MoreActive(hs, a, b) ==
    hs[a].lastSeen > hs[b].lastSeen \/ (hs[a].lastSeen = hs[b].lastSeen /\ a < b)
ActiveHosts(hs) == {ip \in DOMAIN hs : Cardinality({o \in DOMAIN hs : MoreActive(hs, o, ip)}) < KeepHosts}

WithHost(hs, ip) ==
    IF ip \in DOMAIN hs THEN hs
    ELSE LET room == IF Cardinality(DOMAIN hs) >= MaxHosts THEN Restrict(hs, ActiveHosts(hs)) ELSE hs
         IN [x \in DOMAIN room \cup {ip} |-> IF x = ip THEN NewHost ELSE room[x]]

Remember(h, ref) ==
    IF Len(h.recent) < RecentCap THEN [h EXCEPT !.recent = Append(@, ref)]
    ELSE [h EXCEPT !.recent[h.recentHead + 1] = ref, !.recentHead = (@ + 1) % RecentCap]

\* Verdicts count from every record, volumes from terminal records only.
SeenByHost(h, ob, out) ==
    LET h1 == [h EXCEPT !.lastSeen = Max({@, ob.ts}), !.verdicts = @ + 1]
        peer == IF out THEN Responder[ob.conv] ELSE Initiator[ob.conv]
        side == IF out THEN [h1 EXCEPT !.initiated = @ + 1, !.bytesOut = @ + ob.bytes]
                ELSE [h1 EXCEPT !.responded = @ + 1, !.bytesIn = @ + ob.bytes]
    IN IF ~ob.terminal THEN {h1}
       ELSE {Remember([side EXCEPT !.ports = ps, !.peers = qs], ob.id) :
                ps \in Added(h.ports, Port[ob.conv]), qs \in Added(h.peers, peer)}

Fold(hs, ip, ob, out) ==
    LET with == WithHost(hs, ip)
    IN {[with EXCEPT ![ip] = h] : h \in SeenByHost(with[ip], ob, out)}

HostsAfter(hs, ob) ==
    LET one == Fold(hs, Initiator[ob.conv], ob, TRUE)
    IN IF Responder[ob.conv] = Initiator[ob.conv] THEN one
       ELSE UNION {Fold(h, Responder[ob.conv], ob, FALSE) : h \in one}

RecentNewestFirst(h) ==
    LET n == Len(h.recent)
        head == IF n < RecentCap THEN n ELSE h.recentHead
    IN [i \in 1..n |-> h.recent[((head - i + n) % n) + 1]]

-----------------------------------------------------------------------------
(* Traffic matrix *)

NewCell == [flows |-> 0, bytes |-> 0, verdicts |-> 0]

Heavier(a, pa, b, pb) ==
    \/ pa.flows > pb.flows
    \/ /\ pa.flows = pb.flows
       /\ \/ pa.bytes > pb.bytes
          \/ pa.bytes = pb.bytes /\ (a[1] < b[1] \/ (a[1] = b[1] /\ a[2] < b[2]))

KeepPairs == Max({MaxPairs \div 2, 1})
HeavyPairs(m) == {k \in DOMAIN m : Cardinality({o \in DOMAIN m : Heavier(o, m[o], k, m[k])}) < KeepPairs}

SeenByCellAlways(p, ob) ==   \* mutant: snapshots add to the volumes
    [p EXCEPT !.verdicts = @ + 1, !.flows = @ + 1, !.bytes = @ + ob.bytes]

SeenByCell(p, ob) ==
    LET p1 == [p EXCEPT !.verdicts = @ + 1]
    IN IF ob.terminal THEN [p1 EXCEPT !.flows = @ + 1, !.bytes = @ + ob.bytes] ELSE p1

PairsAfter(m, ob) ==
    LET k == <<Initiator[ob.conv], Responder[ob.conv]>>
        room == IF k \notin DOMAIN m /\ Cardinality(DOMAIN m) >= MaxPairs THEN Restrict(m, HeavyPairs(m)) ELSE m
    IN [x \in DOMAIN room \cup {k} |->
          LET cell == IF x \in DOMAIN room THEN room[x] ELSE NewCell
          IN IF x = k THEN SeenByCell(cell, ob) ELSE cell]

-----------------------------------------------------------------------------
(* The aggregator *)

\* how many profiles the two lookups of one observation evict
HostsOut(hs, ob) ==
    LET one == CHOOSE h \in Fold(hs, Initiator[ob.conv], ob, TRUE) : TRUE
    IN Cardinality(DOMAIN hs \ DOMAIN one)
       + Cardinality(DOMAIN one \ DOMAIN WithHost(one, Responder[ob.conv]))

Apply ==
    /\ aggregator # "stopped" /\ queue # <<>>
    /\ LET ob == Head(queue)
       IN /\ hosts' \in HostsAfter(hosts, ob)
          /\ hostsEvicted' = hostsEvicted + HostsOut(hosts, ob)
          /\ pairs' = PairsAfter(pairs, ob)
          /\ pairsEvicted' = pairsEvicted + Cardinality(DOMAIN pairs \ DOMAIN PairsAfter(pairs, ob))
          /\ rings' = [i \in DOMAIN rings |-> AddToRing(rings[i], RingShapes[i], ob)]
    /\ queue' = Tail(queue) /\ observed' = observed + 1
    /\ UNCHANGED <<unqueued, aggregator>>

\* The loop picks quit; what is queued stays queued.
Quit ==
    /\ aggregator = "closing" /\ aggregator' = "stopped"
    /\ UNCHANGED <<queue, unqueued, hosts, pairs, rings, hostsEvicted, pairsEvicted, observed>>

\* Close: quit is closed; the call returns when the loop has left
CloseIndex ==
    /\ aggregator = "running" /\ aggregator' = "closing"
    /\ UNCHANGED <<queue, unqueued, hosts, pairs, rings, hostsEvicted, pairsEvicted, observed>>

-----------------------------------------------------------------------------
(* What a reader gets *)

\* ring.series without bounds: dense from the oldest live bucket to the newest
Series(i) ==
    LET r == rings[i]  w == RingShapes[i].width  span == RingShapes[i].len * w
        live == {r.buf[j].ts : j \in DOMAIN r.buf} \cap (r.newest - span + w)..r.newest
        at(b) == r.buf[(b \div w) % RingShapes[i].len]
        starts == {b \in Min(live)..r.newest : b % w = 0}
    IN IF r.newest = 0 THEN <<>>
       ELSE [b \in starts |-> IF at(b).ts = b THEN at(b) ELSE [NoBucket EXCEPT !.ts = b]]

\* BucketSamples over verdicts: bucket -> how many
BucketSamples(verdicts, w) ==
    [b \in {Bucket(verdicts[j].ts, w) : j \in DOMAIN verdicts} |->
        Cardinality({j \in DOMAIN verdicts : Bucket(verdicts[j].ts, w) = b})]

Partial == pairsEvicted > 0
=============================================================================
