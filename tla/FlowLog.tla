------------------------------ MODULE FlowLog ------------------------------
(***************************************************************************)
(* What the flow store promises, without its ring and its map: a log of    *)
(* numbered flow record versions, at most Cap of them.  A flow's history   *)
(* shows the newest HistCap versions of it that were not dropped; a version*)
(* that fell out of its flow's history (listed = FALSE) is still in the log. *)
(***************************************************************************)
EXTENDS Naturals, FiniteSets

CONSTANTS MaxTime, Cap, HistCap

VARIABLES
    log,        \* a set of [seq, rec, listed]
    stored,
    offered     \* the rows the environment may put now

Init == log = {} /\ stored = 0

Oldest(versions) == CHOOSE v \in versions : \A w \in versions : v.seq <= w.seq
Listed(versions, id) == {v \in versions : v.rec.id = id /\ v.listed}

Unlist(versions, v) == (versions \ {v}) \cup {[seq |-> v.seq, rec |-> v.rec, listed |-> FALSE]}

Put(row) ==
    LET kept == IF Cardinality(log) = Cap THEN log \ {Oldest(log)} ELSE log
        own == Listed(kept, row.id)
        room == IF Cardinality(own) >= HistCap THEN Unlist(kept, Oldest(own)) ELSE kept
    IN /\ log' = room \cup {[seq |-> stored + 1, rec |-> row, listed |-> TRUE]}
       /\ stored' = stored + 1

Purge(cutoff) ==
    /\ log' = {v \in log : v.rec.ts >= cutoff}
    /\ UNCHANGED stored

Next ==
    \/ \E row \in offered : Put(row)
    \/ \E cutoff \in 1..(MaxTime + 1) : Purge(cutoff)

Spec == Init /\ [][Next]_<<log, stored>>
=============================================================================
