------------------------- MODULE MCModelActivation -------------------------
(* Scoring over ModelActivation with two classifiers that compete for the primary
   role, a sequence model and an anomaly model in roles of their own. *)
EXTENDS Scoring, TLC

CONSTANTS mlp, cnn, gru, auto, primary, sequence, anomaly, p1, p2

SomeModels == {mlp, cnn, gru, auto}
AllRoles == {primary, sequence, anomaly}
Family == [m \in SomeModels |->
             CASE m = auto -> anomaly [] m = gru -> sequence [] OTHER -> primary]
TopClass == [m \in SomeModels \cup {None} |-> IF m = gru THEN "scan" ELSE "normal"]
Pair == {p1, p2}
Alike == Permutations(Pair) \cup Permutations({mlp, cnn})
OnDisk == {{mlp, cnn}, {mlp, gru}, {cnn, gru}, {mlp, auto}, {cnn, auto}, {gru, auto}}
AllOps == {"activate", "deactivate"}
=============================================================================
