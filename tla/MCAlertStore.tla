---------------------------- MODULE MCAlertStore ----------------------------
(* AlertStore on small instances: a key that three flows hit, one that a single flow
   hits, and policies: Loose has a rule for traffic that does not occur, Strict lets
   nothing through, Expected has a rule for the traffic of k1. *)
EXTENDS AlertStore

CONSTANTS k1, k2, f1, f2, f3

TwoKeys == {k1, k2}
AllFlows == {f1, f2, f3}
OneFlow == {f1}
Sweep == [k \in TwoKeys |-> IF k = k1 THEN AllFlows ELSE OneFlow]
OneScore == {1}
Loose == [min |-> 1, rules |-> <<{}>>]
Strict == [min |-> 2, rules |-> <<>>]
Expected == [min |-> 1, rules |-> <<{k1}>>]
Swaps == {Strict, Expected}
=============================================================================
