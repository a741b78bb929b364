---------------------------- MODULE MCFlowTable ----------------------------
(* FlowTable on small instances: one TCP conversation and two that have no flags. *)
EXTENDS FlowTable, TLC

CONSTANTS k1, k2, k3

AllKeys == {k1, k2, k3}
TcpOnly == {k1}
Flags == {{}, {"SYN"}, {"FIN"}, {"RST"}}
Steps == {-2, 0, 3}
Alike == Permutations({k2, k3})
=============================================================================
