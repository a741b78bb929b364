------------------------------- MODULE MCLive -------------------------------
(***************************************************************************)
(* One behaviour has either clients and two data-plane publishers, or      *)
(* replays whose events the pump takes without a tick or a stop.           *)
(***************************************************************************)
EXTENDS ReplayControl

MCDataPlane == {-1, -2}
MCPublishers == {Ctl} \cup Ids \cup MCDataPlane

NoReplay == \A r \in Ids : phase[r] = "new"
NoTraffic == /\ \A c \in Clients : conn[c] = "away"
             /\ \A n \in DOMAIN drawn : drawn[n].type # "FlowClosed"
             /\ \A i \in DOMAIN sent : Len(sent[i]) = BatchCap
             /\ pump # "stopped"

MCNext == Next /\ (NoReplay \/ NoTraffic)'
MCSpec == Init /\ [][MCNext]_vars /\ StreamFairness
=============================================================================
