---------------------------- MODULE MCCollector ----------------------------
(* Collector on a small instance: connections of one sensor, which reconnects while
   earlier connections of it are still being served, and a capture of the daemon's own
   that has the sensor's name until an operator deletes it. *)
EXTENDS Collector

CONSTANTS c1, c2, c3, edge, edge_s1, edge_s2

Three == {c1, c2, c3}
RowNames == {edge, edge_s1, edge_s2}
OwnCapture == {edge}
OneSensor == [c \in Three |-> edge]
Suffixed == [c \in Three |-> IF c = c1 THEN edge_s1 ELSE edge_s2]
=============================================================================
