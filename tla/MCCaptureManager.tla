-------------------------- MODULE MCCaptureManager --------------------------
(* CaptureManager on a small instance: two sources under names of their own, one
   of which may fail and be removed while the other keeps running. *)
EXTENDS CaptureManager

CONSTANTS s1, s2, eth0, lan

Two == {s1, s2}
JustS2 == {s2}
JustLan == {lan}
TwoNames == {eth0, lan}
OwnName == [s \in Two |-> IF s = s1 THEN {eth0} ELSE {lan}]
=============================================================================
