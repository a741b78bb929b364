---------------------------- MODULE Subprocess ----------------------------
(***************************************************************************)
(* pcapSubprocess (internal/capture): tcpdump, locally or over ssh, writes *)
(* a capture stream to a pipe; decodePCAPStream turns it into packets.     *)
(* Close and the cancellation of the context come from other goroutines.   *)
(*                                                                         *)
(* The child writes the items of a script.  "header" opens the stream (a   *)
(* "foreign" one has an unknown magic or link type); then come records     *)
(* that decode ("rec") or do not ("odd"), one whose length is out of range *)
(* ("absurd"), or one cut short ("half").  How bytes are framed into items *)
(* is in module Containers.                                                *)
(***************************************************************************)
EXTENDS Naturals, Sequences

CONSTANTS
    Scripts,    \* what the child may write
    PipeCap,    \* bound: items the pipe holds
    ChanCap,    \* capacity of the packet channel (256)
    Forever     \* whether the child may go on without an end

Items == {"header", "foreign", "rec", "odd", "absurd", "half"}

ASSUME SubprocessAssumption == Scripts \subseteq Seq(Items) /\ {PipeCap, ChanCap} \subseteq Nat

VARIABLES
    run,        \* the goroutine of Packets: [pc, started, cancel, decErr, err]
    closed,     \* p.closed
    stopped,    \* the caller's context is done
    closing,    \* Close is between its swap and the cancel it looks up
    child,      \* forks: it leaves a grandchild behind, which keeps the pipe open (holder)
    pipe,       \* what has been written and not read
    written,    \* the records written so far
    chan,       \* the packet channel
    taken       \* what its reader has received

subVars == <<run, closed, stopped, closing, child, pipe, written, chan, taken>>

\* cctx: cancelled through p.cancel, or with the caller's context.
Ctx == run.cancel = "called" \/ stopped
Alive == child.state = "running"
WritersLeft == Alive \/ child.holder

SubInit ==
    /\ run = [pc |-> "idle", cancel |-> "none", decErr |-> "none", err |-> "none"]
    /\ closed = FALSE /\ stopped = FALSE /\ closing = FALSE
    /\ \E script \in Scripts, holder \in BOOLEAN :
          child = [state |-> "none", code |-> 0, script |-> script, holder |-> FALSE, forks |-> holder, delayed |-> FALSE]
    /\ pipe = <<>> /\ written = <<>> /\ chan = <<>> /\ taken = <<>>

-----------------------------------------------------------------------------
(* The child and the operating system *)

\* It blocks while the pipe is full.
Write ==
    /\ Alive /\ child.script # <<>> /\ Len(pipe) < PipeCap /\ run.pc # "ended"
    /\ pipe' = Append(pipe, Head(child.script))
    /\ written' = IF Head(child.script) = "rec" THEN Append(written, Len(written) + 1) ELSE written
    /\ child' = [child EXCEPT !.script = Tail(@)]
    /\ UNCHANGED <<run, closed, stopped, closing, chan, taken>>

\* It ends by itself: done, or with an error.
Exit(code) ==
    /\ Alive /\ (code = 0 => child.script = <<>>)
    /\ child' = [child EXCEPT !.state = "exited", !.code = code, !.holder = child.forks]
    /\ UNCHANGED <<run, closed, stopped, closing, pipe, written, chan, taken>>

\* exec.CommandContext: when cctx is done the group is killed.
Kill ==
    /\ Alive /\ Ctx
    /\ child' = [child EXCEPT !.state = "killed", !.holder = child.forks]
    /\ UNCHANGED <<run, closed, stopped, closing, pipe, written, chan, taken>>

HolderEnds ==
    /\ child.holder /\ child' = [child EXCEPT !.holder = FALSE]
    /\ UNCHANGED <<run, closed, stopped, closing, pipe, written, chan, taken>>

\* WaitDelay: the pipe a grandchild keeps open is closed from this side.
WaitDelay ==
    /\ child.holder /\ (Ctx \/ run.pc = "waiting")
    /\ child' = [child EXCEPT !.holder = FALSE, !.delayed = TRUE]
    /\ UNCHANGED <<run, closed, stopped, closing, pipe, written, chan, taken>>

-----------------------------------------------------------------------------
(* run *)

To(pc) == run' = [run EXCEPT !.pc = pc]
Fails(e) == run' = [run EXCEPT !.pc = "waiting", !.decErr = e]

Packets ==
    /\ run.pc = "idle" /\ To("cancel")
    /\ UNCHANGED <<closed, stopped, closing, child, pipe, written, chan, taken>>

StoreCancelLate ==   \* mutant: p.closed is looked at before p.cancel is set
    /\ run.pc \in {"cancel", "late"}
    /\ run' = IF run.pc = "late" THEN [run EXCEPT !.pc = "start", !.cancel = "set"]
              ELSE [run EXCEPT !.pc = IF closed THEN "ended" ELSE "late"]
    /\ UNCHANGED <<closed, stopped, closing, child, pipe, written, chan, taken>>

StoreCancel ==
    /\ run.pc = "cancel" /\ run' = [run EXCEPT !.pc = "closed?", !.cancel = "set"]
    /\ UNCHANGED <<closed, stopped, closing, child, pipe, written, chan, taken>>

CheckClosed ==
    /\ run.pc = "closed?" /\ To(IF closed THEN "ended" ELSE "start")
    /\ UNCHANGED <<closed, stopped, closing, child, pipe, written, chan, taken>>

\* cmd.Start; it fails without a binary, and with a context that is already done.
Spawn ==
    /\ run.pc = "start"
    /\ \/ /\ ~Ctx /\ To("header")
          /\ child' = [child EXCEPT !.state = "running"]
       \/ run' = [run EXCEPT !.pc = "ended", !.err = "start"] /\ child' = child
    /\ UNCHANGED <<closed, stopped, closing, pipe, written, chan, taken>>

\* The global header.
Header ==
    /\ run.pc = "header"
    /\ \/ /\ pipe # <<>> /\ pipe' = Tail(pipe)
          /\ IF Head(pipe) = "header" THEN To("record") ELSE Fails("foreign")
       \/ pipe = <<>> /\ ~WritersLeft /\ pipe' = pipe /\ Fails("foreign")
    /\ UNCHANGED <<closed, stopped, closing, child, written, chan, taken>>

\* One record: the context is looked at, then the reader blocks until there is one or
\* no writer is left.
Record ==
    /\ run.pc = "record"
    /\ \/ Ctx /\ Fails("cancelled") /\ pipe' = pipe
       \/ /\ pipe # <<>> /\ pipe' = Tail(pipe)
          /\ Head(pipe) = "half" => ~WritersLeft   \* waits for the rest
          /\ CASE Head(pipe) = "rec" -> To("send")
               [] Head(pipe) = "odd" -> To("record")
               [] Head(pipe) = "absurd" -> Fails("length")
               [] OTHER -> Fails("short")
       \/ pipe = <<>> /\ ~WritersLeft /\ pipe' = pipe /\ To("waiting")
    /\ UNCHANGED <<closed, stopped, closing, child, written, chan, taken>>

Send ==
    /\ run.pc = "send"
    /\ \/ /\ Len(chan) < ChanCap /\ To("record")
          /\ chan' = Append(chan, Len(chan) + Len(taken) + 1)
       \/ Ctx /\ Fails("cancelled") /\ chan' = chan
    /\ UNCHANGED <<closed, stopped, closing, child, pipe, written, taken>>

VerdictByExit ==   \* mutant: only the exit status counts
    IF closed \/ stopped THEN "none" ELSE IF child.code > 0 THEN "exit" ELSE "none"

\* A deliberate stop is no error; the exit status comes before the decoder's error.
Verdict ==
    CASE closed \/ stopped -> "none"
      [] child.code > 0 -> "exit"
      [] child.delayed -> "wait"
      [] run.decErr # "cancelled" -> run.decErr
      [] OTHER -> "none"

\* cmd.Wait reaps the child; it does not stop it.
Reap ==
    /\ run.pc = "waiting" /\ ~Alive /\ ~child.holder
    /\ run' = [run EXCEPT !.pc = "ended", !.err = Verdict]
    /\ child' = [child EXCEPT !.state = "reaped"]
    /\ UNCHANGED <<closed, stopped, closing, pipe, written, chan, taken>>

Run == StoreCancel \/ CheckClosed \/ Spawn \/ Header \/ Record \/ Send \/ Reap

-----------------------------------------------------------------------------
(* The others *)

CloseSwap ==
    /\ ~closed /\ closed' = TRUE /\ closing' = TRUE
    /\ UNCHANGED <<run, stopped, child, pipe, written, chan, taken>>

CloseCancel ==
    /\ closing /\ closing' = FALSE
    /\ run' = IF run.cancel = "set" THEN [run EXCEPT !.cancel = "called"] ELSE run
    /\ UNCHANGED <<closed, stopped, child, pipe, written, chan, taken>>

Stop ==
    /\ ~stopped /\ stopped' = TRUE
    /\ UNCHANGED <<run, closed, closing, child, pipe, written, chan, taken>>

Take ==
    /\ chan # <<>>
    /\ taken' = Append(taken, Head(chan)) /\ chan' = Tail(chan)
    /\ UNCHANGED <<run, closed, stopped, closing, child, pipe, written>>

SubNext ==
    \/ Write \/ (\E code \in {0, 1} : Exit(code)) \/ Kill \/ HolderEnds \/ WaitDelay
    \/ Packets \/ Run
    \/ CloseSwap \/ CloseCancel \/ Stop \/ Take

\* The goroutine and Close run on, a killed process dies and a timer expires.  A child
\* that is not Forever comes to its end; nobody has to read the channel.
SubFairness ==
    /\ WF_subVars(Run) /\ WF_subVars(CloseCancel) /\ WF_subVars(Kill) /\ WF_subVars(WaitDelay)
    /\ ~Forever => WF_subVars(Write) /\ WF_subVars(Exit(0))

SubSpec == SubInit /\ [][SubNext]_subVars /\ SubFairness

-----------------------------------------------------------------------------
(* Properties *)

\* A source that was closed or whose context is done ends, its child reaped, whenever
\* that happens: before the child exists, while it blocks on the pipe, while nobody reads
\* the channel, with a grandchild that keeps the pipe (subprocess.go, "kill the group and
\* reap -- no zombies, no leaked fds").
ChildReaped ==
    (closed \/ stopped) ~> (run.pc \in {"idle", "ended"} /\ child.state \in {"none", "reaped"})

\* Unless an error was reported or somebody stopped the source, every packet the child
\* wrote is in the channel, once and in order (capture.go:40, "the error channel carries
\* the terminal error, if any").
CleanEndIsComplete ==
    (run.pc = "ended" /\ run.err = "none" /\ ~closed /\ ~stopped) => taken \o chan = written

\* A malformed stream ends the source with an error (subprocess.go:52-53, "The terminal
\* error (non-zero exit, spawn failure, malformed stream) lands on the error channel").
MalformedReported ==
    (run.decErr \in {"foreign", "length"}) ~> (run.err # "none" \/ closed \/ stopped)
=============================================================================
