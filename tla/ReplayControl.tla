---------------------------- MODULE ReplayControl ----------------------------
(***************************************************************************)
(* The replay controller (cmd/synapsed/replay.go) publishing on the live   *)
(* channel.  A replay has two goroutines: the one that runs the pipeline   *)
(* over the file and settles the status when it ends, and a progress       *)
(* ticker.  Stop cancels the context of both; a replay that ends by itself *)
(* cancels nothing, so its ticker outlives it.                             *)
(***************************************************************************)
EXTENDS EventStream

CONSTANTS DataPlane,    \* the pipelines' goroutines, as publishers
          MaxReplays,   \* bound on the replays started
          FilePackets   \* packets in the replayed capture

Ids == 1 .. MaxReplays
Ctl == 0                \* publishes while holding c.mu; a replay publishes as itself

ASSUME ReplayAssumption ==
    /\ MaxReplays \in Nat /\ FilePackets \in Nat
    /\ {Ctl} \cup Ids \cup DataPlane \subseteq Publishers
    /\ DataPlane \cap ({Ctl} \cup Ids) = {}

VARIABLES mu,           \* "free", or what its holder is publishing
          status,       \* what GET /replay shows
          cancelOf,     \* the replay c.cancel belongs to, 0 when nil
          stopping,     \* the cancel function Stop took before it let c.mu go
          phase,        \* per replay
          cancelled,    \* per replay: its context has ended
          decoded,      \* per replay: packets the source has decoded
          seen,         \* per replay: packets the pipeline has taken
          failed,       \* per replay: the run ended with the source's error
          ticking       \* replays whose progress goroutine is alive

ctlVars == <<mu, status, cancelOf, stopping, phase, cancelled, decoded, seen, failed, ticking>>
vars == <<streamVars, ctlVars>>

Idle == [running |-> FALSE, id |-> 0, packets |-> 0, err |-> FALSE]

Init ==
    /\ StreamInit
    /\ mu = "free" /\ status = Idle /\ cancelOf = 0 /\ stopping = 0
    /\ phase = [r \in Ids |-> "new"]
    /\ cancelled = [r \in Ids |-> FALSE]
    /\ decoded = [r \in Ids |-> 0]
    /\ seen = [r \in Ids |-> 0]
    /\ failed = [r \in Ids |-> FALSE]
    /\ ticking = {}

-----------------------------------------------------------------------------
(* Start, under c.mu up to the spawning of its goroutines. *)

StartFails ==
    /\ mu = "free" /\ ~status.running
    /\ status' = [status EXCEPT !.err = TRUE]
    /\ UNCHANGED <<streamVars, mu, cancelOf, stopping, phase, cancelled, decoded, seen, failed, ticking>>

StartAnnouncesLate(r) ==   \* mutant: c.mu is let go before the start is published
    /\ mu = "free" /\ ~status.running /\ phase[r] = "new"
    /\ status' = [Idle EXCEPT !.running = TRUE, !.id = r]
    /\ cancelOf' = r
    /\ phase' = [phase EXCEPT ![r] = "running"]
    /\ mu' = "free"
    /\ Draw(Ctl, [type |-> "ReplayStarted", id |-> r])
    /\ UNCHANGED <<stopping, cancelled, decoded, seen, failed, ticking>>

Start(r) ==
    /\ mu = "free" /\ ~status.running
    /\ phase[r] = "new" /\ \A q \in 1 .. r - 1 : phase[q] # "new"
    /\ status' = [Idle EXCEPT !.running = TRUE, !.id = r]
    /\ cancelOf' = r
    /\ phase' = [phase EXCEPT ![r] = "starting"]
    /\ mu' = "start"
    /\ Draw(Ctl, [type |-> "ReplayStarted", id |-> r])
    /\ UNCHANGED <<stopping, cancelled, decoded, seen, failed, ticking>>

Spawned == {r \in Ids : phase[r] = "starting"}

\* the publication under c.mu is done: Start spawns its goroutines, c.mu is free
Release ==
    /\ Send(Ctl)
    /\ mu' = "free"
    /\ phase' = [r \in Ids |-> IF r \in Spawned THEN "running" ELSE phase[r]]
    /\ ticking' = ticking \cup Spawned
    /\ UNCHANGED <<status, cancelOf, stopping, cancelled, decoded, seen, failed>>

StopTakes ==
    /\ mu = "free" /\ cancelOf # 0 /\ stopping = 0
    /\ stopping' = cancelOf
    /\ UNCHANGED <<streamVars, mu, status, cancelOf, phase, cancelled, decoded, seen, failed, ticking>>

StopCancels ==
    /\ stopping # 0
    /\ cancelled' = [cancelled EXCEPT ![stopping] = TRUE]
    /\ stopping' = 0
    /\ UNCHANGED <<streamVars, mu, status, cancelOf, phase, decoded, seen, failed, ticking>>

-----------------------------------------------------------------------------
(* The replayed source and the pipeline goroutine. *)

Decode(r) ==
    /\ phase[r] = "running" /\ ~cancelled[r] /\ decoded[r] < FilePackets
    /\ decoded' = [decoded EXCEPT ![r] = @ + 1]
    /\ UNCHANGED <<streamVars, mu, status, cancelOf, stopping, phase, cancelled, seen, failed, ticking>>

Take(r) ==
    /\ phase[r] = "running" /\ seen[r] < decoded[r]
    /\ seen' = [seen EXCEPT ![r] = @ + 1]
    /\ UNCHANGED <<streamVars, mu, status, cancelOf, stopping, phase, cancelled, decoded, failed, ticking>>

\* pipeline.Run returns: the file is exhausted, the context has ended, or the
\* source's error was taken before the packets still buffered
RunReturns(r) ==
    /\ phase[r] = "running"
    /\ \/ (seen[r] = FilePackets \/ cancelled[r]) /\ UNCHANGED failed
       \/ decoded[r] < FilePackets /\ failed' = [failed EXCEPT ![r] = TRUE]
    /\ phase' = [phase EXCEPT ![r] = "returned"]
    /\ UNCHANGED <<streamVars, mu, status, cancelOf, stopping, cancelled, decoded, seen, ticking>>

Settle(r) ==
    /\ phase[r] = "returned" /\ mu = "free"
    /\ status' = [status EXCEPT !.running = FALSE, !.packets = seen[r],
                                !.err = @ \/ failed[r]]
    /\ cancelOf' = 0
    /\ phase' = [phase EXCEPT ![r] = "settled"]
    /\ UNCHANGED <<streamVars, mu, stopping, cancelled, decoded, seen, failed, ticking>>

\* the end is published after c.mu is let go: a new replay may start before it
Finish(r) ==
    /\ phase[r] = "settled"
    /\ Draw(r, [type |-> "ReplayFinished", id |-> r])
    /\ phase' = [phase EXCEPT ![r] = "finishing"]
    /\ UNCHANGED <<mu, status, cancelOf, stopping, cancelled, decoded, seen, failed, ticking>>

Finished(r) ==
    /\ Send(r)
    /\ phase' = [phase EXCEPT ![r] = "finished"]
    /\ UNCHANGED <<mu, status, cancelOf, stopping, cancelled, decoded, seen, failed, ticking>>

-----------------------------------------------------------------------------
(* The progress goroutine of replay r, over r's source. *)

Progress(r) ==
    /\ r \in ticking /\ mu = "free" /\ status.running
    /\ status' = [status EXCEPT !.packets = decoded[r]]
    /\ mu' = "progress"
    /\ Draw(Ctl, [type |-> "ReplayProgress", id |-> status.id])
    /\ UNCHANGED <<cancelOf, stopping, phase, cancelled, decoded, seen, failed, ticking>>

ProgressEnds(r) ==
    /\ r \in ticking /\ cancelled[r]
    /\ ticking' = ticking \ {r}
    /\ UNCHANGED <<streamVars, mu, status, cancelOf, stopping, phase, cancelled, decoded, seen, failed>>

-----------------------------------------------------------------------------
ReplayStep(r) ==
    \/ Start(r) \/ Decode(r) \/ Take(r) \/ RunReturns(r) \/ Settle(r)
    \/ Finish(r) \/ Finished(r) \/ Progress(r) \/ ProgressEnds(r)

DataStep(p) == Draw(p, [type |-> "FlowClosed", id |-> 0]) \/ Send(p)

Next ==
    \/ \E p \in DataPlane : DataStep(p) /\ UNCHANGED ctlVars
    \/ \E r \in Ids : ReplayStep(r)
    \/ StartFails \/ Release \/ StopTakes \/ StopCancels
    \/ (PumpStep \/ \E c \in Clients : ClientStep(c)) /\ UNCHANGED ctlVars

Spec == Init /\ [][Next]_vars /\ StreamFairness

-----------------------------------------------------------------------------
(* Properties. *)

\* Once no replay runs, the packet count the status shows is the last replay's own
\* and the one its ReplayFinished event carries: neither its own ticker nor one
\* left over from an earlier replay writes to it any more (replay.go:133).
FinalCountStands ==
    ~status.running /\ status.id # 0 => status.packets = seen[status.id]

\* The live channel never announces the end of a replay before its start,
\* although the end is published without the lock (replay.go:83, 105).
FinishFollowsStart ==
    \A r \in Ids, s \in Spots :
        drawn[Number(s)] = [type |-> "ReplayFinished", id |-> r] =>
            \/ \E t \in Spots : Earlier(t, s) /\ drawn[Number(t)] = [type |-> "ReplayStarted", id |-> r]
            \/ \E n \in dropped : drawn[n] = [type |-> "ReplayStarted", id |-> r]

\* The story of a replay ends as it went: its last count is not replaced by a progress report
\* that comes late, and no run finishes that did not start (replayController.Start, progress).
ReplayStory == FinalCountStands /\ FinishFollowsStart

=============================================================================
