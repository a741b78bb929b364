------------------------------ MODULE MCSensor ------------------------------
(***************************************************************************)
(* SensorSession on a small instance: a session that streams and meets     *)
(* disturbances of one kind, hellos of this daemon against configurations, *)
(* and hellos of other builds.                                             *)
(***************************************************************************)
EXTENDS SensorSession

CONSTANTS tok, other

Setup(cfg, hello, sink, packets, may) ==
    [cfg |-> cfg, hello |-> hello, sink |-> sink, packets |-> packets, may |-> may, connect |-> FALSE]
Cfg(mode, link, token) == [mode |-> mode, link |-> link, token |-> token]

\* a pipeline's cancel is the manager's without its second step: one of them for each mode
Meets(m) == Disturbances \ {IF m = "raw" THEN "pipeline" ELSE "manager"}
Packets(m, d) == IF m = "raw" /\ d \in {"error", "stop", "slow", "quiet"} THEN 3
                 ELSE IF m = "flow" /\ d = "reset" THEN 1 ELSE 2
Stream(m, d) == Setup(Cfg(m, 1, tok), HelloOf(TRUE, AnyLink, tok), TRUE, Packets(m, d), {d})
Streams == UNION {{Stream(m, d) : d \in Meets(m)} : m \in {"raw", "flow"}}
Daemons == {Setup(Cfg(m, l, t), HelloOf(sink, want, secret), sink, 0, {}) :
               m \in Modes, l \in {1, 101, 113}, t \in {NoToken, tok},
               sink \in BOOLEAN, want \in {AnyLink, 1, 101}, secret \in {tok, other}}
Builds == {Setup(Cfg(m, 1, tok), [version |-> v, max |-> x, link |-> AnyLink, token |-> tok], TRUE, 0, {}) :
               m \in Modes, v \in 0 .. 3, x \in 0 .. 3}
Calls == {[Setup(Cfg("raw", 1, tok), HelloOf(TRUE, AnyLink, secret), TRUE, 1, {d}) EXCEPT !.connect = TRUE] :
               secret \in {tok, other}, d \in {"stop", "reset", "error"}}
AllSetups == Streams \cup Daemons \cup Builds \cup Calls
=============================================================================
