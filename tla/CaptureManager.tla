--------------------------- MODULE CaptureManager ---------------------------
(***************************************************************************)
(* capture.Manager (internal/capture/manager.go): N sources, one forwarder *)
(* goroutine each, merged into one bounded channel the pipeline drains.    *)
(* Sources come and go while it runs (Add, Remove); the whole stops when   *)
(* the daemon's context is cancelled and Close is called.                  *)
(*                                                                         *)
(* Packets of one source are indistinguishable: channels hold counts.  A   *)
(* source is external: it produces packets, may fail, and closes its       *)
(* channel at its own end, or once it is cancelled or closed.              *)
(***************************************************************************)
EXTENDS Integers, FiniteSets, Functions

CONSTANTS
    Sources, Names, None,
    NamesOf,     \* bound: names a source may be added under
    MaxPackets,  \* bound: packets a source produces
    SrcBuf,      \* capacity of a source's own channel
    Buf,         \* capacity of the merged channel m.out
    Late,        \* bound: sources that may be added once the context is cancelled
    Failing,     \* bound: sources that may fail
    Removable    \* bound: names an operator may remove

ASSUME ManagerAssumption ==
    /\ IsFiniteSet(Sources) /\ None \notin Sources /\ NamesOf \in [Sources -> SUBSET Names]
    /\ {MaxPackets, SrcBuf, Buf} \subseteq Nat \ {0}
    /\ Late \subseteq Sources /\ Failing \subseteq Sources /\ Removable \subseteq Names

VARIABLES
    srcs,           \* m.srcs: name -> the source registered under it
    state,          \* managedSource.state ("new": not yet handed to Add)
    fwd,            \* where each forwarder goroutine is
    stopping,       \* sources whose own context is cancelled or that were closed
    ctx,            \* m.ctx is cancelled
    started,        \* Packets was called
    sampler,        \* sampleLoop
    outClosed,      \* close(m.out) was executed
    late,           \* history: the sources added after that
    merged,         \* packets of each source in m.out
    buffered,       \* packets of each source in its own channel
    open,           \* sources whose packet channel is not closed
    errs,           \* terminal error of each source: none, fatal (unread), taken
    produced, consumed, drops,
    residue,        \* packets of each source sampleLoop found left in m.out
    shutdownDrops,  \* m.shutdownDrops
    remover,        \* a Remove in progress and its source
    closer,         \* the Close call
    pipeline,       \* the reader of m.out
    panicked        \* a forwarder sent on the closed m.out

managerVars == <<srcs, state, ctx, started, sampler, outClosed, late>>
sourceVars  == <<open, errs, produced>>
countVars   == <<consumed, drops, residue, shutdownDrops>>
callerVars  == <<remover, closer, pipeline, panicked>>
vars == <<managerVars, fwd, stopping, merged, buffered, sourceVars, countVars, callerVars>>

FwdStates == {"idle", "select", "holding", "draining", "pending", "done"}
LiveForwarders == {s \in Sources : fwd[s] \notin {"idle", "done"}}
Registered == {s \in Sources : \E n \in Names : srcs[n] = s}

Init ==
    /\ srcs = [n \in Names |-> None] /\ state = [s \in Sources |-> "new"]
    /\ fwd = [s \in Sources |-> "idle"] /\ stopping = {}
    /\ ctx = FALSE /\ started = FALSE /\ sampler = "idle" /\ outClosed = FALSE /\ late = {}
    /\ open = Sources /\ errs = [s \in Sources |-> "none"]
    /\ merged = [s \in Sources |-> 0] /\ buffered = merged /\ produced = merged
    /\ consumed = merged /\ drops = merged /\ residue = merged /\ shutdownDrops = 0
    /\ remover = [pc |-> "idle", src |-> None] /\ closer = "idle"
    /\ pipeline = "idle" /\ panicked = FALSE

-----------------------------------------------------------------------------
(* Registration. *)

Add(s, n) ==
    /\ state[s] = "new" /\ srcs[n] = None
    /\ ctx => s \in Late
    /\ srcs' = [srcs EXCEPT ![n] = s]
    /\ state' = [state EXCEPT ![s] = IF started THEN "running" ELSE "stopped"]
    /\ fwd' = [fwd EXCEPT ![s] = IF started THEN "select" ELSE @]
    /\ late' = IF outClosed THEN late \cup {s} ELSE late
    /\ UNCHANGED <<ctx, started, sampler, outClosed, stopping, merged, buffered, sourceVars,
                   countVars, callerVars>>

Packets ==
    /\ ~started /\ closer = "idle"
    /\ started' = TRUE /\ sampler' = "ticking" /\ pipeline' = "reading"
    /\ state' = [s \in Sources |-> IF s \in Registered THEN "running" ELSE state[s]]
    /\ fwd' = [s \in Sources |-> IF s \in Registered THEN "select" ELSE fwd[s]]
    /\ UNCHANGED <<srcs, ctx, outClosed, late, stopping, merged, buffered, sourceVars, countVars,
                   remover, closer, panicked>>

RemoveRow(n) ==
    /\ remover.pc = "idle" /\ srcs[n] # None
    /\ remover' = [pc |-> "cancel", src |-> srcs[n]]
    /\ srcs' = [srcs EXCEPT ![n] = None]
    /\ UNCHANGED <<state, ctx, started, sampler, outClosed, late, fwd, stopping, merged, buffered,
                   sourceVars, countVars, closer, pipeline, panicked>>

RemoveCancel ==
    /\ remover.pc = "cancel"
    /\ remover' = [remover EXCEPT !.pc = "wait"]
    /\ stopping' = stopping \cup {remover.src}
    /\ UNCHANGED <<managerVars, fwd, merged, buffered, sourceVars, countVars, closer, pipeline,
                   panicked>>

\* Remove returns when the forwarder has exited - or after five seconds.
RemoveReturn(timedOut) ==
    /\ remover.pc = "wait"
    /\ remover.src \in LiveForwarders => timedOut
    /\ remover' = [pc |-> "idle", src |-> None]
    /\ state' = [state EXCEPT ![remover.src] = "stopped"]
    /\ UNCHANGED <<srcs, ctx, started, sampler, outClosed, late, fwd, stopping, merged, buffered,
                   sourceVars, countVars, closer, pipeline, panicked>>

-----------------------------------------------------------------------------
(* The forwarder of source s. *)

\* Both shutdown branches: give up on this source and discard what it buffered.
Abandon(s, newState) ==
    /\ state' = [state EXCEPT ![s] = newState]
    /\ stopping' = stopping \cup {s}
    /\ fwd' = [fwd EXCEPT ![s] = "draining"]

Discard(s) ==
    /\ drops' = [drops EXCEPT ![s] = @ + 1]
    /\ shutdownDrops' = shutdownDrops + 1

FwdCancelled(s) ==
    /\ fwd[s] = "select" /\ ctx
    /\ Abandon(s, "stopped")
    /\ UNCHANGED <<srcs, ctx, started, sampler, outClosed, late, merged, buffered, sourceVars,
                   countVars, callerVars>>

FwdErrorReturns(s) ==   \* mutant: what the failed source had buffered is not drained
    /\ fwd[s] = "select" /\ errs[s] = "fatal"
    /\ errs' = [errs EXCEPT ![s] = "taken"]
    /\ state' = [state EXCEPT ![s] = "error"]
    /\ fwd' = [fwd EXCEPT ![s] = "done"]
    /\ UNCHANGED <<srcs, ctx, started, sampler, outClosed, late, stopping, merged, buffered, open,
                   produced, countVars, callerVars>>

FwdError(s) ==
    /\ fwd[s] = "select" /\ errs[s] = "fatal"
    /\ errs' = [errs EXCEPT ![s] = "taken"]
    /\ Abandon(s, "error")
    /\ UNCHANGED <<srcs, ctx, started, sampler, outClosed, late, merged, buffered, open, produced,
                   countVars, callerVars>>

FwdReceive(s) ==
    /\ fwd[s] = "select" /\ buffered[s] > 0
    /\ buffered' = [buffered EXCEPT ![s] = @ - 1]
    /\ fwd' = [fwd EXCEPT ![s] = "holding"]
    /\ UNCHANGED <<managerVars, stopping, merged, sourceVars, countVars, callerVars>>

FwdEndOfSource(s) ==
    /\ fwd[s] = "select" /\ buffered[s] = 0 /\ s \notin open
    /\ fwd' = [fwd EXCEPT ![s] = "pending"]
    /\ UNCHANGED <<managerVars, stopping, merged, buffered, sourceVars, countVars, callerVars>>

FwdSend(s) ==
    /\ fwd[s] = "holding"
    /\ IF outClosed
       THEN panicked' = TRUE /\ UNCHANGED <<merged, fwd>>
       ELSE /\ SumFunction(merged) < Buf
            /\ merged' = [merged EXCEPT ![s] = @ + 1]
            /\ fwd' = [fwd EXCEPT ![s] = "select"]
            /\ UNCHANGED panicked
    /\ UNCHANGED <<managerVars, stopping, buffered, sourceVars, countVars, remover, closer,
                   pipeline>>

FwdSendCancelledSilent(s) ==   \* mutant: the packet in hand is dropped uncounted
    /\ fwd[s] = "holding" /\ ctx
    /\ Abandon(s, "stopped")
    /\ UNCHANGED <<srcs, ctx, started, sampler, outClosed, late, merged, buffered, sourceVars,
                   countVars, callerVars>>

FwdSendCancelled(s) ==
    /\ fwd[s] = "holding" /\ ctx
    /\ Discard(s)
    /\ Abandon(s, "stopped")
    /\ UNCHANGED <<srcs, ctx, started, sampler, outClosed, late, merged, buffered, sourceVars,
                   consumed, residue, callerVars>>

FwdDrain(s) ==
    /\ fwd[s] = "draining" /\ buffered[s] > 0
    /\ buffered' = [buffered EXCEPT ![s] = @ - 1]
    /\ Discard(s)
    /\ UNCHANGED <<managerVars, fwd, stopping, merged, sourceVars, consumed, residue, callerVars>>

FwdDrained(s) ==
    /\ fwd[s] = "draining" /\ buffered[s] = 0 /\ s \notin open
    /\ fwd' = [fwd EXCEPT ![s] = "done"]
    /\ UNCHANGED <<managerVars, stopping, merged, buffered, sourceVars, countVars, callerVars>>

PendingErrUnread(s) ==   \* mutant: the error channel is not looked at again
    /\ fwd[s] = "pending"
    /\ errs' = errs
    /\ state' = [state EXCEPT ![s] = IF @ = "running" THEN "stopped" ELSE @]
    /\ fwd' = [fwd EXCEPT ![s] = "done"]
    /\ UNCHANGED <<srcs, ctx, started, sampler, outClosed, late, stopping, merged, buffered, open,
                   produced, countVars, callerVars>>

PendingErr(s) ==
    /\ fwd[s] = "pending"
    /\ errs' = [errs EXCEPT ![s] = IF @ = "fatal" THEN "taken" ELSE @]
    /\ state' = [state EXCEPT ![s] = IF errs[s] = "fatal" THEN "error"
                                     ELSE IF @ = "running" THEN "stopped" ELSE @]
    /\ fwd' = [fwd EXCEPT ![s] = "done"]
    /\ UNCHANGED <<srcs, ctx, started, sampler, outClosed, late, stopping, merged, buffered, open,
                   produced, countVars, callerVars>>

Forwarder(s) ==
    \/ FwdCancelled(s) \/ FwdError(s) \/ FwdReceive(s) \/ FwdEndOfSource(s)
    \/ FwdSend(s) \/ FwdSendCancelled(s) \/ FwdDrain(s) \/ FwdDrained(s) \/ PendingErr(s)

-----------------------------------------------------------------------------
(* sampleLoop at shutdown, and Close. *)

SamplerWake ==
    /\ sampler = "ticking" /\ ctx
    /\ sampler' = "waiting"
    /\ UNCHANGED <<srcs, state, ctx, started, outClosed, late, fwd, stopping, merged, buffered,
                   sourceVars, countVars, callerVars>>

SamplerClosesEarly ==   \* mutant: m.out is closed without waiting for the forwarders
    /\ sampler = "waiting"
    /\ outClosed' = TRUE /\ sampler' = "residue"
    /\ UNCHANGED <<srcs, state, ctx, started, late, fwd, stopping, merged, buffered, sourceVars,
                   countVars, callerVars>>

SamplerCloses ==
    /\ sampler = "waiting" /\ LiveForwarders = {}
    /\ outClosed' = TRUE /\ sampler' = "residue"
    /\ UNCHANGED <<srcs, state, ctx, started, late, fwd, stopping, merged, buffered, sourceVars,
                   countVars, callerVars>>

SamplerResidue(s) ==
    /\ sampler = "residue" /\ merged[s] > 0
    /\ merged' = [merged EXCEPT ![s] = @ - 1]
    /\ residue' = [residue EXCEPT ![s] = @ + 1]
    /\ shutdownDrops' = shutdownDrops + 1
    /\ UNCHANGED <<managerVars, fwd, stopping, buffered, sourceVars, consumed, drops, callerVars>>

SamplerDone ==
    /\ sampler = "residue" /\ \A s \in Sources : merged[s] = 0
    /\ sampler' = "done"
    /\ UNCHANGED <<srcs, state, ctx, started, outClosed, late, fwd, stopping, merged, buffered,
                   sourceVars, countVars, callerVars>>

CloseCancel ==
    /\ closer = "idle" /\ started
    /\ ctx' = TRUE /\ closer' = "closing"
    /\ UNCHANGED <<srcs, state, started, sampler, outClosed, late, fwd, stopping, merged, buffered,
                   sourceVars, countVars, remover, pipeline, panicked>>

\* A source removed since Close took its list is closed by its Remove.
CloseSources ==
    /\ closer = "closing"
    /\ stopping' = stopping \cup Registered
    /\ closer' = "waiting"
    /\ UNCHANGED <<managerVars, fwd, merged, buffered, sourceVars, countVars, remover, pipeline,
                   panicked>>

CloseReturn ==
    /\ closer = "waiting" /\ LiveForwarders = {} /\ sampler = "done"
    /\ closer' = "returned"
    /\ UNCHANGED <<managerVars, fwd, stopping, merged, buffered, sourceVars, countVars, remover,
                   pipeline, panicked>>

-----------------------------------------------------------------------------
(* The sources, the daemon's context and the reader of the merged channel. *)

Produce(s) ==
    /\ fwd[s] # "idle" /\ s \in open
    /\ produced[s] < MaxPackets /\ buffered[s] < SrcBuf
    /\ produced' = [produced EXCEPT ![s] = @ + 1]
    /\ buffered' = [buffered EXCEPT ![s] = @ + 1]
    /\ UNCHANGED <<managerVars, fwd, stopping, merged, open, errs, countVars, callerVars>>

SourceFails(s) ==
    /\ s \in Failing /\ fwd[s] # "idle" /\ s \in open /\ s \notin stopping /\ errs[s] = "none"
    /\ errs' = [errs EXCEPT ![s] = "fatal"]
    /\ UNCHANGED <<managerVars, fwd, stopping, merged, buffered, open, produced, countVars,
                   callerVars>>

SourceEnds(s) ==
    /\ fwd[s] # "idle" /\ s \in open
    /\ open' = open \ {s}
    /\ UNCHANGED <<managerVars, fwd, stopping, merged, buffered, errs, produced, countVars,
                   callerVars>>

ParentCancel ==
    /\ started /\ ~ctx /\ ctx' = TRUE
    /\ UNCHANGED <<srcs, state, started, sampler, outClosed, late, fwd, stopping, merged, buffered,
                   sourceVars, countVars, callerVars>>

Consume(s) ==
    /\ pipeline = "reading" /\ merged[s] > 0
    /\ merged' = [merged EXCEPT ![s] = @ - 1]
    /\ consumed' = [consumed EXCEPT ![s] = @ + 1]
    /\ UNCHANGED <<managerVars, fwd, stopping, buffered, sourceVars, drops, residue,
                   shutdownDrops, callerVars>>

PipelineStops ==
    /\ pipeline = "reading" /\ ctx
    /\ pipeline' = "stopped"
    /\ UNCHANGED <<managerVars, fwd, stopping, merged, buffered, sourceVars, countVars, remover,
                   closer, panicked>>

Shutdown ==
    \/ SamplerWake \/ SamplerCloses \/ (\E s \in Sources : SamplerResidue(s)) \/ SamplerDone
    \/ CloseSources \/ CloseReturn

Next ==
    /\ ~panicked
    /\ \/ Packets \/ CloseCancel \/ ParentCancel \/ PipelineStops \/ RemoveCancel \/ Shutdown
       \/ \E s \in Sources :
             \/ \E n \in NamesOf[s] : Add(s, n)
             \/ Forwarder(s) \/ Produce(s) \/ SourceFails(s) \/ SourceEnds(s) \/ Consume(s)
       \/ \E n \in Removable : RemoveRow(n)
       \/ \E timedOut \in BOOLEAN : RemoveReturn(timedOut)

Spec == Init /\ [][Next]_vars

\* Goroutines that can run do run; a send on a full channel is served in order
\* (Go queues blocked senders first in first out), hence strong fairness of
\* FwdSend; a source that was cancelled, closed or that failed closes its channel.
Fairness ==
    /\ WF_vars(Shutdown) /\ WF_vars(RemoveCancel) /\ WF_vars(PipelineStops)
    /\ \A s \in Sources :
          /\ WF_vars(Forwarder(s)) /\ SF_vars(FwdSend(s)) /\ WF_vars(Consume(s))
          /\ WF_vars((s \in stopping \/ errs[s] # "none") /\ SourceEnds(s))

FairSpec == Spec /\ Fairness

-----------------------------------------------------------------------------
(* Properties *)

TypeOK ==
    /\ srcs \in [Names -> Sources \cup {None}]
    /\ state \in [Sources -> {"new", "stopped", "running", "error"}]
    /\ fwd \in [Sources -> FwdStates]
    /\ stopping \subseteq Sources /\ open \subseteq Sources /\ late \subseteq Sources
    /\ errs \in [Sources -> {"none", "fatal", "taken"}]
    /\ sampler \in {"idle", "ticking", "waiting", "residue", "done"}
    /\ ctx \in BOOLEAN /\ started \in BOOLEAN /\ outClosed \in BOOLEAN /\ panicked \in BOOLEAN
    /\ merged \in [Sources -> Nat] /\ buffered \in [Sources -> Nat]
    /\ produced \in [Sources -> Nat] /\ consumed \in [Sources -> Nat]
    /\ drops \in [Sources -> Nat] /\ residue \in [Sources -> Nat] /\ shutdownDrops \in Nat
    /\ remover \in [pc : {"idle"}, src : {None}] \cup [pc : {"cancel", "wait"}, src : Sources]
    /\ closer \in {"idle", "closing", "waiting", "returned"}
    /\ pipeline \in {"idle", "reading", "stopped"}

Holding(s) == IF fwd[s] = "holding" THEN 1 ELSE 0

\* No silent loss (issue #138): every packet a source handed over is in its
\* channel, in its forwarder's hand, in the merged channel, consumed by the
\* pipeline, or in a drop counter (manager.go launch, sampleLoop).
PacketsConserved ==
    \A s \in Sources :
        produced[s] = buffered[s] + Holding(s) + merged[s] + consumed[s] + drops[s] + residue[s]

\* The daemon-lifetime counter is the sum of what was discarded per source and of
\* the residue, removed sources included (manager.go shutdownDrops).
DropsAddUp == shutdownDrops = SumFunction(drops) + SumFunction(residue)

\* The merged channel is closed only once every forwarder has exited (manager.go:365-366), so no
\* forwarder launched before that is there to send on it, whenever its source was added, failed or
\* was removed. Add launches a forwarder after the close as before (manager.go:176): only such a
\* one, with a packet of its source in hand, sends on the closed channel and brings the daemon down.
NoSendOnClosed ==
    /\ outClosed => LiveForwarders \subseteq late
    /\ panicked => \E s \in late : fwd[s] = "holding"
    /\ late # {} => ctx

\* While the daemon runs, the row of a registered source says what its forwarder
\* is doing - a failure shows whichever of the source's two channels was looked
\* at first, and a slow Remove of an earlier source of that name does not mark the
\* new one stopped (manager.go launch, pendingErr, Remove).
RowsTellTheTruth ==
    \A s \in Registered :
        (started /\ ~ctx) =>
            state[s] = IF fwd[s] = "draining" THEN "error"
                       ELSE IF fwd[s] # "done" THEN "running"
                       ELSE IF errs[s] = "none" THEN "stopped" ELSE "error"

\* Isolation: as long as the daemon runs, a packet some source produced is
\* eventually consumed or counted, whatever the other sources do - fail, end, be
\* removed (manager.go, "every other source and the pipeline keep running").
EveryPacketSettles ==
    \A s \in Sources : \A n \in 1..MaxPackets :
        produced[s] >= n ~> (panicked \/ consumed[s] + drops[s] + residue[s] >= n)

\* Close returns: every forwarder exits, the merged channel is closed and drained - unless a
\* late forwarder panicked.
CloseReturns == closer = "closing" ~> (closer = "returned" \/ panicked)

\* Nothing waits for ever: a packet read from a source reaches the pipeline or a drop counter,
\* and Close comes back (Manager.launch, Manager.Close).
Settles == EveryPacketSettles /\ CloseReturns

=============================================================================
