--------------------------- MODULE SensorSession ---------------------------
(***************************************************************************)
(* One SYNPOIP session, end to end.  On the sensor: the packet source, in  *)
(* the record modes Aggregate with its flow table, serveConn's loop with   *)
(* its frameWriter, and the goroutine that reads the daemon's frames.  On  *)
(* the daemon: the read loop of PCAPOverIP or sessionSource, the goroutine *)
(* that says goodbye on cancel, recordRoute.deliver.  Between them a byte  *)
(* stream each way.                                                        *)
(*                                                                         *)
(* First the handshake: what a hello says, what the sensor answers and what*)
(* the daemon accepts.  A hello, a configuration and an answer are records;*)
(* tokens are model values, link types the libpcap numbers.                *)
(*                                                                         *)
(* A packet is a number, a flow the one packet that opened it (FlowTable   *)
(* models the table): its record is the packet's number again.             *)
(*                                                                         *)
(* Last runConnect (cmd/synapse-sensor/connect.go): a sensor behind NAT    *)
(* dials the collector, serves one session on the connection, and dials    *)
(* again when it is over.  A setup with connect = FALSE is a sensor that   *)
(* listens and serves a single connection.  The collector's old session is *)
(* gone before the next one: Collector models those that overlap.          *)
(***************************************************************************)
EXTENDS Naturals, Sequences, SequencesExt, FiniteSets

CONSTANTS
    NoToken,      \* the empty bearer token
    Setups,       \* what a session may start from, [cfg, hello, sink], and its bounds: how many
                  \* packets the source has and which disturbances it may meet
    MaxPackets,   \* bound on the former
    Bad,          \* packets that do not decode
    SourceCap,    \* record channel of the packet source
    FramesCap,    \* frame channel of Aggregate
    BufCap,       \* frames the write buffer holds
    BatchMax,     \* maxBatchFrames
    WireCap,      \* frames in the sockets before a write blocks
    OutCap,       \* the daemon's packet and record channels
    RetryMin, RetryMax

Version1 == 1
Version2 == 2
VersionMax == Version2
Modes == {"raw", "flow", "feature"}
AnyLink == 0
Decodable == {1, 101}   \* LinkEthernet and LinkRaw

MinVersion(mode) == IF mode = "raw" THEN Version1 ELSE Version2

PayloadSchema(mode) ==
    CASE mode = "flow" -> "flow-record-v1" [] mode = "feature" -> "flow-features-v1"
      [] OTHER -> ""

-----------------------------------------------------------------------------
(* The daemon's hello.  sink: there is a channel for records.              *)

helloCeiling(sink) == IF sink THEN VersionMax ELSE Version1

\* the fixed version stays 1, the ceiling rides in the metadata
HelloOf(sink, link, token) ==
    [version |-> Version1, max |-> helloCeiling(sink), link |-> link, token |-> token]

\* max_version is left out, on writing and on reading, unless it says more than version
Ceiling(h) == IF h.max > h.version THEN h.max ELSE h.version

-----------------------------------------------------------------------------
(* negotiate, and the accept serveConn writes.                             *)

Negotiate(h, cfg) ==
    LET version == IF Ceiling(h) > VersionMax THEN VersionMax ELSE Ceiling(h) IN
    CASE h.version = 0 \/ h.version > VersionMax -> [code |-> "version", version |-> 0]
      [] cfg.token # NoToken /\ h.token # cfg.token -> [code |-> "unauthorized", version |-> 0]
      [] h.link # AnyLink /\ h.link # cfg.link -> [code |-> "link-type", version |-> 0]
      [] version < MinVersion(cfg.mode) -> [code |-> "mode", version |-> 0]
      [] OTHER -> [code |-> "ok", version |-> version]

Rejection(code) == [code |-> code, version |-> 0, link |-> 0, mode |-> "raw", schema |-> ""]

\* mode and schema are on the wire from version 2 on; a reader of version 1 assumes raw
AnswerTo(h, cfg) ==
    LET n == Negotiate(h, cfg) IN
    IF n.code # "ok" THEN Rejection(n.code)
    ELSE [code |-> "ok", version |-> n.version, link |-> cfg.link,
          mode |-> IF n.version >= Version2 THEN cfg.mode ELSE "raw",
          schema |-> IF n.version >= Version2 THEN PayloadSchema(cfg.mode) ELSE ""]

-----------------------------------------------------------------------------
(* The daemon on the answer.                                               *)

ValidateAccept(a) ==
    /\ a.version \in 1 .. VersionMax
    /\ a.mode \in Modes
    /\ a.version >= MinVersion(a.mode)
    /\ a.version >= Version2 => a.schema = PayloadSchema(a.mode)

\* a link type matters to raw frames only
LinkUsable(a) == a.mode = "raw" => a.link \in Decodable

Accepted(a) == a.code = "ok" /\ ValidateAccept(a) /\ LinkUsable(a)

-----------------------------------------------------------------------------
(* The session.                                                            *)

Disturbances == {"error", "stop", "reset", "slow", "quiet", "idle", "manager", "pipeline"}

ASSUME SensorSessionAssumption ==
    /\ \A s \in Setups : s.cfg.mode \in Modes /\ s.sink \in BOOLEAN
                         /\ s.packets \in 0 .. MaxPackets /\ s.may \subseteq Disturbances
    \* a daemon without a channel for records is of this build; another's hello may say anything
    /\ \A s \in Setups : /\ s.hello.version \in Nat /\ s.hello.max \in Nat
                         /\ s.sink \/ s.hello = HelloOf(FALSE, s.hello.link, s.hello.token)
    /\ MaxPackets \in Nat /\ Bad \subseteq 1 .. MaxPackets
    /\ {SourceCap, FramesCap, BufCap, BatchMax, WireCap, OutCap, RetryMin, RetryMax} \subseteq Nat \ {0}

VARIABLES
    setup,    \* the member of Setups
    phase,    \* of the handshake: dialled, hello, answered
    answer,   \* what the sensor answered
    \* the sensor
    src,      \* packet source: [n |-> produced, on |-> running, err |-> what its error channel holds]
    srcq,     \* its channel
    agg,      \* Aggregate: [pc, held, hand, stopped, err]
    frames,   \* its frame channel
    encoded,  \* every record it handed over, in order (history)
    sv,       \* serveConn: [pc, batch, after, ticked]
    buf,      \* frames in the writer
    sctx,     \* connCtx is cancelled
    stopping, \* the sensor's own context is: SIGTERM
    reader,   \* the goroutine reading the daemon's frames: off, on, done
    \* the network
    wire, back, sOpen, dOpen, broken,
    \* the daemon
    dd,       \* read loop: [pc, hand, why, recs]
    dctx,     \* the session's context is cancelled
    closer,   \* the goroutine that ends the session on cancel: wait, close, done
    manager,  \* Close: "", "cancelled", "closed"
    got,      \* packets or records handed to the pipeline, in order (history)
    queued,   \* of these, still in the channel
    \* runConnect
    loop      \* [pc, delay]

sensorVars == <<src, srcq, agg, frames, encoded, sv, buf, sctx, reader, stopping>>
netVars == <<wire, back, sOpen, dOpen, broken>>
daemonVars == <<dd, dctx, closer, manager, got, queued>>
vars == <<setup, phase, answer, sensorVars, netVars, daemonVars>>
allVars == <<vars, loop>>

Raw == setup.cfg.mode = "raw"
Bye(reason) == <<"bye", reason>>
IsData(f) == f[1] \in {"packet", "record"}

SourceOff == [n |-> 0, on |-> FALSE, err |-> "none"]
AggregateOff == [pc |-> "off", held |-> {}, hand |-> 0, stopped |-> FALSE, err |-> "none"]
ServeOff == [pc |-> "off", batch |-> 0, after |-> "", ticked |-> FALSE]
SessionOff == [pc |-> "off", hand |-> 0, why |-> "", recs |-> 0]

Init ==
    /\ setup \in Setups /\ phase = "dialled" /\ answer = Rejection("none")
    /\ src = SourceOff /\ srcq = <<>> /\ agg = AggregateOff /\ frames = <<>> /\ encoded = <<>>
    /\ sv = ServeOff /\ buf = <<>> /\ sctx = FALSE /\ reader = "off" /\ stopping = FALSE
    /\ wire = <<>> /\ back = <<>> /\ sOpen = TRUE /\ dOpen = TRUE /\ broken = FALSE
    /\ dd = SessionOff /\ dctx = FALSE /\ closer = "wait" /\ manager = "" /\ got = <<>> /\ queued = 0

-----------------------------------------------------------------------------
(* The handshake.                                                          *)

\* ClientHandshake, its first half
SayHello ==
    /\ phase = "dialled" /\ phase' = "hello"
    /\ UNCHANGED <<setup, answer, sensorVars, netVars, daemonVars>>

\* serveConn up to its loop: an accepted session starts streaming at once
Answer ==
    /\ phase = "hello" /\ phase' = "answered"
    /\ answer' = AnswerTo(setup.hello, setup.cfg)
    /\ IF answer'.code = "ok"
       THEN /\ sv' = [sv EXCEPT !.pc = "select"]
            /\ reader' = "on" /\ src' = [src EXCEPT !.on = TRUE]
            /\ agg' = [agg EXCEPT !.pc = IF Raw THEN "done" ELSE "loop"]
            /\ UNCHANGED sOpen
       ELSE sOpen' = FALSE /\ UNCHANGED <<sv, reader, src, agg>>
    /\ UNCHANGED <<setup, srcq, frames, encoded, buf, sctx, stopping, wire, back, dOpen, broken, daemonVars>>

\* the answer arrives and is judged; one that is declined closes the connection
TakeAnswer ==
    /\ phase = "answered" /\ dd.pc = "off" /\ ~broken
    /\ IF Accepted(answer)
       THEN dd' = [dd EXCEPT !.pc = "read"] /\ UNCHANGED <<wire, dOpen>>
       ELSE dd' = [dd EXCEPT !.pc = "done", !.why = "declined"] /\ wire' = <<>> /\ dOpen' = FALSE
    /\ UNCHANGED <<setup, phase, answer, sensorVars, back, sOpen, broken, dctx, closer, manager, got, queued>>

HandshakeFails ==
    /\ phase = "answered" /\ dd.pc = "off" /\ broken
    /\ dd' = [dd EXCEPT !.pc = "done", !.why = "lost"] /\ dOpen' = FALSE
    /\ UNCHANGED <<setup, phase, answer, sensorVars, wire, back, sOpen, broken, dctx, closer, manager, got, queued>>

-----------------------------------------------------------------------------
(* The packet source: PcapFileStream and LiveStreamer.Stream.              *)

Produce ==
    /\ src.on /\ src.n < setup.packets /\ Len(srcq) < SourceCap
    /\ src' = [src EXCEPT !.n = @ + 1] /\ srcq' = Append(srcq, src.n + 1)
    /\ UNCHANGED <<setup, phase, answer, agg, frames, encoded, sv, buf, sctx, reader, stopping, netVars, daemonVars>>

\* end of file or of capture, a read error, or the session's context
SourceEnds(err) ==
    /\ src.on
    /\ err = "none" => src.n = setup.packets
    /\ err = "cancel" => sctx
    /\ err = "error" => "error" \in setup.may
    /\ src' = [src EXCEPT !.on = FALSE, !.err = err]
    /\ UNCHANGED <<setup, phase, answer, srcq, agg, frames, encoded, sv, buf, sctx, reader, stopping, netVars, daemonVars>>

Source == Produce \/ \E err \in {"none", "error", "cancel"} : SourceEnds(err)

-----------------------------------------------------------------------------
(* Aggregate: select over the context, the source's error, its packets.    *)

rest == <<setup, phase, answer, sv, buf, sctx, reader, stopping, netVars, daemonVars>>

AggStop ==
    /\ agg.pc = "loop" /\ sctx
    /\ agg' = [agg EXCEPT !.pc = "flush", !.stopped = TRUE]
    /\ UNCHANGED <<rest, src, srcq, frames, encoded>>

AggError ==
    /\ agg.pc = "loop" /\ src.err # "none"
    /\ agg' = [agg EXCEPT !.pc = "flush", !.err = src.err] /\ src' = [src EXCEPT !.err = "none"]
    /\ UNCHANGED <<rest, srcq, frames, encoded>>

AggEnd ==
    /\ agg.pc = "loop" /\ ~src.on /\ srcq = <<>>
    /\ agg' = [agg EXCEPT !.pc = "flush"]
    /\ UNCHANGED <<rest, src, srcq, frames, encoded>>

\* Observe and Tick: the packet joins the table and a flow may be closed by it
AggObserve ==
    /\ agg.pc = "loop" /\ srcq # <<>>
    /\ srcq' = Tail(srcq)
    /\ LET held == agg.held \cup ({Head(srcq)} \ Bad) IN
       \/ agg' = [agg EXCEPT !.held = held]
       \/ \E p \in held : agg' = [agg EXCEPT !.pc = "emit", !.held = held \ {p}, !.hand = p]
    /\ UNCHANGED <<rest, src, frames, encoded>>

FlushKeepsFlow ==   \* mutant: a flow that was flushed stays in the table
    /\ agg.pc = "flush" /\ agg.hand = 0
    /\ IF agg.held = {} THEN agg' = [agg EXCEPT !.pc = "done"]
       ELSE IF agg.stopped THEN agg' = [agg EXCEPT !.held = {}]
       ELSE \E p \in agg.held : agg' = [agg EXCEPT !.held = @ \ {CHOOSE q \in @ : TRUE}, !.hand = p]
    /\ UNCHANGED <<rest, src, srcq, frames, encoded>>

\* tbl.Flush: every flow left, unless the consumer has gone; then both channels close
AggFlush ==
    /\ agg.pc = "flush" /\ agg.hand = 0
    /\ IF agg.held = {} THEN agg' = [agg EXCEPT !.pc = "done"]
       ELSE IF agg.stopped THEN agg' = [agg EXCEPT !.held = {}]
       ELSE \E p \in agg.held : agg' = [agg EXCEPT !.held = @ \ {p}, !.hand = p]
    /\ UNCHANGED <<rest, src, srcq, frames, encoded>>

EmitOrDrop ==   \* mutant: a frame that finds the channel full is dropped
    /\ agg.hand # 0
    /\ agg' = [agg EXCEPT !.hand = 0, !.pc = IF @ = "emit" THEN "loop" ELSE @]
    /\ frames' = IF Len(frames) < FramesCap THEN Append(frames, agg.hand) ELSE frames
    /\ encoded' = Append(encoded, agg.hand)
    /\ UNCHANGED <<rest, src, srcq>>

Emit ==
    /\ agg.hand # 0 /\ Len(frames) < FramesCap
    /\ agg' = [agg EXCEPT !.hand = 0, !.pc = IF @ = "emit" THEN "loop" ELSE @]
    /\ frames' = Append(frames, agg.hand) /\ encoded' = Append(encoded, agg.hand)
    /\ UNCHANGED <<rest, src, srcq>>

EmitGone ==
    /\ agg.hand # 0 /\ sctx
    /\ agg' = [agg EXCEPT !.hand = 0, !.stopped = TRUE, !.pc = IF @ = "emit" THEN "loop" ELSE @]
    /\ UNCHANGED <<rest, src, srcq, frames, encoded>>

Aggregate == AggStop \/ AggError \/ AggEnd \/ AggObserve \/ AggFlush \/ Emit \/ EmitGone

-----------------------------------------------------------------------------
(* serveConn's loop.  Its input is the source's channel or Aggregate's.    *)

In == IF Raw THEN srcq ELSE frames
InClosed == IF Raw THEN ~src.on ELSE agg.pc = "done"
InErr == IF Raw THEN src.err ELSE IF agg.pc = "done" THEN agg.err ELSE "none"
TakeIn == IF Raw THEN srcq' = Tail(srcq) /\ UNCHANGED frames ELSE frames' = Tail(frames) /\ UNCHANGED srcq
Framed(x) == <<IF Raw THEN "packet" ELSE "record", x>>

same == <<setup, phase, answer, src, agg, encoded, reader, stopping, netVars, daemonVars>>

\* bye: the goodbye is queued behind what is buffered, everything is flushed
SayBye(reason) ==
    /\ sv' = [sv EXCEPT !.pc = "flush", !.after = "close"]
    /\ buf' = Append(buf, Bye(reason))
    /\ UNCHANGED <<same, srcq, frames, sctx>>

SeesCancel == sv.pc = "select" /\ sctx /\ SayBye("server closing")
SeesError == sv.pc = "select" /\ InErr = "error" /\ SayBye("source error")
SeesEnd == sv.pc \in {"select", "drain"} /\ sv.batch < BatchMax /\ In = <<>> /\ InClosed
           /\ SayBye("end of capture")

\* bound: one tick
Keepalive ==
    /\ sv.pc = "select" /\ "quiet" \in setup.may /\ ~sv.ticked
    /\ sv' = [sv EXCEPT !.pc = "flush", !.after = "select", !.ticked = TRUE]
    /\ buf' = Append(buf, <<"keepalive">>)
    /\ UNCHANGED <<same, srcq, frames, sctx>>

\* write: the first frame of a batch, and while the source is backlogged the next
TakeFrame ==
    /\ sv.pc \in {"select", "drain"} /\ In # <<>>
    /\ sv.batch < BatchMax /\ Len(buf) < BufCap
    /\ TakeIn
    /\ sv' = [sv EXCEPT !.pc = "drain", !.batch = @ + 1]
    /\ buf' = Append(buf, Framed(Head(In)))
    /\ UNCHANGED <<same, sctx>>

\* nothing more is ready, or the batch is full
StartFlush ==
    /\ sv.pc = "drain" /\ (sv.batch = BatchMax \/ (In = <<>> /\ ~InClosed))
    /\ sv' = [sv EXCEPT !.pc = "flush", !.after = "select"]
    /\ UNCHANGED <<same, srcq, frames, buf, sctx>>

\* a flush, a full buffer or an aged batch moves buffered frames to the socket
PassOn ==
    /\ sv.pc \in {"drain", "flush"} /\ buf # <<>>
    /\ dOpen /\ ~broken /\ Len(wire) < WireCap
    /\ wire' = Append(wire, Head(buf)) /\ buf' = Tail(buf)
    /\ UNCHANGED <<setup, phase, answer, src, srcq, agg, frames, encoded, sv, sctx, reader, stopping,
                   back, sOpen, dOpen, broken, daemonVars>>

Flushed ==
    /\ sv.pc = "flush" /\ buf = <<>> /\ sv.after = "select"
    /\ sv' = [sv EXCEPT !.pc = "select", !.batch = 0]
    /\ UNCHANGED <<same, srcq, frames, buf, sctx>>

\* the deferred cancel and conn.Close of every way out
Leave ==
    /\ sv' = [sv EXCEPT !.pc = "closed"] /\ buf' = <<>> /\ sctx' = TRUE /\ sOpen' = FALSE
    /\ UNCHANGED <<setup, phase, answer, src, srcq, agg, frames, encoded, reader, stopping,
                   wire, back, dOpen, broken, daemonVars>>

SaidBye == sv.pc = "flush" /\ buf = <<>> /\ sv.after = "close" /\ Leave

\* the peer is gone, or reads so slowly that the batch's deadline passes
WriteFails ==
    /\ sv.pc \in {"drain", "flush"} /\ buf # <<>>
    /\ ~dOpen \/ broken \/ (Len(wire) = WireCap /\ "slow" \in setup.may)
    /\ Leave

Serve == SeesCancel \/ SeesError \/ SeesEnd \/ TakeFrame \/ Keepalive \/ StartFlush \/ PassOn \/ Flushed \/ SaidBye \/ WriteFails

\* the reader goroutine: a goodbye, an end of stream or an error cancels the session
ReadBack ==
    /\ reader = "on" /\ (back # <<>> \/ ~dOpen \/ ~sOpen \/ broken)
    /\ reader' = "done" /\ sctx' = TRUE
    /\ back' = IF back = <<>> THEN back ELSE Tail(back)
    /\ UNCHANGED <<setup, phase, answer, src, srcq, agg, frames, encoded, sv, buf, stopping,
                   wire, sOpen, dOpen, broken, daemonVars>>

\* SIGTERM: the sensor's own context
SensorStops ==
    /\ ~sctx /\ reader = "on" /\ "stop" \in setup.may
    /\ sctx' = TRUE /\ stopping' = TRUE
    /\ UNCHANGED <<setup, phase, answer, src, srcq, agg, frames, encoded, sv, buf, reader, netVars, daemonVars>>

\* the connection is reset: what has not been read is lost from some frame on
Break ==
    /\ ~broken /\ sOpen /\ dOpen /\ phase = "answered" /\ "reset" \in setup.may
    /\ broken' = TRUE /\ \E k \in 0 .. Len(wire) : wire' = SubSeq(wire, 1, k)
    /\ UNCHANGED <<setup, phase, answer, sensorVars, back, sOpen, dOpen, daemonVars>>

-----------------------------------------------------------------------------
(* The daemon's read loop.                                                 *)

kept == <<setup, phase, answer, sensorVars, back, sOpen, broken>>

\* readLoop returns: the session's context is cancelled, run waits for the closer
Ends(why) ==
    /\ dd' = [dd EXCEPT !.pc = "waiting", !.why = why, !.hand = 0] /\ dctx' = TRUE
    /\ UNCHANGED <<kept, dOpen, closer, manager, got, queued>>

ReadFrame(type) == dd.pc = "read" /\ dOpen /\ wire # <<>> /\ Head(wire)[1] = type /\ wire' = Tail(wire)

ReadPacket ==
    /\ ReadFrame("packet")
    /\ dd' = IF Head(wire)[2] \in Bad THEN dd
             ELSE [dd EXCEPT !.pc = "give", !.hand = Head(wire)[2]]
    /\ UNCHANGED <<kept, dOpen, dctx, closer, manager, got, queued>>

\* deliver: the record is counted before it is sent
ReadRecord ==
    /\ ReadFrame("record")
    /\ dd' = IF answer.mode = "raw" THEN dd
             ELSE [dd EXCEPT !.pc = "give", !.hand = Head(wire)[2], !.recs = @ + 1]
    /\ UNCHANGED <<kept, dOpen, dctx, closer, manager, got, queued>>

ReadKeepalive ==
    /\ ReadFrame("keepalive")
    /\ UNCHANGED <<kept, dOpen, daemonVars>>

ReadGoodbye == ReadFrame("bye") /\ Ends(Head(wire)[2])

\* end of stream, a reset, a closed connection, or nothing within the read-idle timeout
ReadFails ==
    /\ dd.pc = "read" /\ (wire = <<>> \/ ~dOpen)
    /\ dctx \/ broken \/ ~sOpen \/ ~dOpen \/ "idle" \in setup.may
    /\ Ends(IF dctx THEN "cancelled" ELSE IF broken THEN "lost" ELSE IF ~sOpen THEN "eof" ELSE "idle")
    /\ UNCHANGED wire

\* the blocking send to the pipeline; a nil channel never takes it
Give ==
    /\ dd.pc = "give" /\ queued < OutCap /\ (answer.mode = "raw" \/ setup.sink)
    /\ dd' = [dd EXCEPT !.pc = "read", !.hand = 0]
    /\ got' = Append(got, dd.hand) /\ queued' = queued + 1
    /\ UNCHANGED <<kept, wire, dOpen, dctx, closer, manager>>

GiveUp == dd.pc = "give" /\ dctx /\ Ends("cancelled") /\ UNCHANGED wire

\* on cancel: goodbye, then close; Close closes the connection by itself too
SayGoodbye ==
    /\ dctx /\ closer = "wait" /\ dd.pc \notin {"off", "done"}
    /\ closer' = "close" /\ back' = IF dOpen THEN Append(back, Bye("closing")) ELSE back
    /\ UNCHANGED <<setup, phase, answer, sensorVars, wire, sOpen, dOpen, broken, dd, dctx, manager, got, queued>>

CloseConn ==
    /\ dOpen' = FALSE /\ wire' = <<>>
    /\ UNCHANGED <<setup, phase, answer, sensorVars, back, sOpen, broken, dd, dctx, got, queued>>

CloserCloses == closer = "close" /\ closer' = "done" /\ CloseConn /\ UNCHANGED manager
ManagerCloses == manager = "cancelled" /\ manager' = "closed" /\ CloseConn /\ UNCHANGED closer

SessionDone ==
    /\ dd.pc = "waiting" /\ closer = "done"
    /\ dd' = [dd EXCEPT !.pc = "done"]
    /\ UNCHANGED <<kept, wire, dOpen, dctx, closer, manager, got, queued>>

DaemonSession ==
    \/ ReadPacket \/ ReadRecord \/ ReadKeepalive \/ ReadGoodbye \/ Give \/ GiveUp
    \/ SayGoodbye \/ CloserCloses \/ SessionDone

\* Close of an operator or the manager cancels first; the pipeline's context only cancels
Close(caller) ==
    /\ ~dctx /\ dd.pc \in {"read", "give"} /\ caller \in setup.may
    /\ dctx' = TRUE /\ manager' = IF caller = "manager" THEN "cancelled" ELSE manager
    /\ UNCHANGED <<kept, wire, dOpen, dd, closer, got, queued>>

\* what the channel holds when the session is over is no longer its business
PipelineTakes ==
    /\ queued > 0 /\ ~dctx /\ queued' = queued - 1
    /\ UNCHANGED <<kept, wire, dOpen, dd, dctx, closer, manager, got>>

-----------------------------------------------------------------------------
Next ==
    \/ SayHello \/ Answer \/ TakeAnswer \/ HandshakeFails
    \/ Source \/ Aggregate \/ Serve \/ ReadBack \/ SensorStops \/ Break
    \/ DaemonSession \/ ReadFails \/ ManagerCloses \/ PipelineTakes
    \/ \E caller \in {"manager", "pipeline"} : Close(caller)

\* no goroutine of the session is left
AllGone ==
    /\ ~src.on /\ agg.pc \in {"off", "done"} /\ sv.pc \in {"off", "closed"} /\ reader # "on"
    /\ dd.pc = "done" /\ ~sOpen /\ ~dOpen

\* Every goroutine of a session runs: the loops of the sensor, the daemon's read loop, its
\* closer; a read of a connection that is closed or reset returns; the pipeline reads its
\* channels.  Nothing makes the source end, an operator act or the network fail.
SensorRuns == Serve \/ ReadBack \/ (sctx /\ SourceEnds("cancel"))
DaemonRuns == TakeAnswer \/ HandshakeFails \/ DaemonSession \/ ManagerCloses
              \/ ((dctx \/ broken \/ ~sOpen \/ ~dOpen) /\ ReadFails)
Fairness ==
    /\ WF_vars(SayHello \/ Answer) /\ WF_vars(SensorRuns) /\ WF_vars(Aggregate)
    /\ WF_vars(DaemonRuns) /\ WF_vars(PipelineTakes)

-----------------------------------------------------------------------------
(* runConnect.                                                             *)

\* a ceiling below the floor is raised to it
Ceil == IF RetryMax < RetryMin THEN RetryMin ELSE RetryMax
nextDelay(d) == IF 2 * d > Ceil THEN Ceil ELSE 2 * d

ConnectInit == Init /\ loop = [pc |-> IF setup.connect THEN "dial" ELSE "listen", delay |-> RetryMin]

Serving == loop.pc \in {"listen", "serve"}
Session == Serving /\ Next /\ UNCHANGED loop

DialFailureEnds ==   \* mutant: the loop is left when a dial fails
    /\ loop.pc = "dial" /\ ~stopping
    /\ loop' = [loop EXCEPT !.pc = "stopped"] /\ UNCHANGED vars

DialFails ==
    /\ loop.pc = "dial" /\ ~stopping
    /\ loop' = [loop EXCEPT !.pc = "sleep"] /\ UNCHANGED vars

\* a dial that succeeds resets the backoff, whatever becomes of the session
Dial ==
    /\ loop.pc = "dial" /\ ~stopping
    /\ loop' = [pc |-> "serve", delay |-> RetryMin]
    /\ phase' = "dialled" /\ answer' = Rejection("none")
    /\ src' = SourceOff /\ srcq' = <<>> /\ agg' = AggregateOff /\ frames' = <<>> /\ encoded' = <<>>
    /\ sv' = ServeOff /\ buf' = <<>> /\ sctx' = FALSE /\ reader' = "off"
    /\ wire' = <<>> /\ back' = <<>> /\ sOpen' = TRUE /\ dOpen' = TRUE /\ broken' = FALSE
    /\ dd' = SessionOff /\ dctx' = FALSE /\ closer' = "wait" /\ manager' = "" /\ got' = <<>> /\ queued' = 0
    /\ UNCHANGED <<setup, stopping>>

SessionOver ==
    /\ loop.pc = "serve" /\ AllGone
    /\ loop' = [loop EXCEPT !.pc = IF stopping THEN "stopped" ELSE "sleep"] /\ UNCHANGED vars

Wake ==
    /\ loop.pc = "sleep" /\ ~stopping
    /\ loop' = [pc |-> "dial", delay |-> nextDelay(loop.delay)] /\ UNCHANGED vars

\* SIGTERM between two sessions: the dial and the sleep watch the context
StopBetween ==
    /\ loop.pc \in {"dial", "sleep"} /\ "stop" \in setup.may
    /\ stopping' = TRUE /\ loop' = [loop EXCEPT !.pc = "stopped"]
    /\ UNCHANGED <<setup, phase, answer, src, srcq, agg, frames, encoded, sv, buf, sctx, reader,
                   netVars, daemonVars>>

ConnectNext == Session \/ DialFails \/ Dial \/ SessionOver \/ Wake \/ StopBetween

\* the collector can be reached again and again
ConnectSpec ==
    /\ ConnectInit /\ [][ConnectNext]_allVars /\ Fairness
    /\ SF_allVars(Dial) /\ WF_allVars(DialFails \/ Dial) /\ WF_allVars(SessionOver) /\ WF_allVars(Wake)

-----------------------------------------------------------------------------
(* Properties *)

TypeOK ==
    /\ setup \in Setups /\ phase \in {"dialled", "hello", "answered"}
    /\ src.n \in 0 .. MaxPackets /\ Len(srcq) <= SourceCap /\ Len(frames) <= FramesCap
    /\ agg.pc \in {"off", "loop", "emit", "flush", "done"} /\ agg.held \subseteq 1 .. MaxPackets
    /\ sv.pc \in {"off", "select", "drain", "flush", "closed"} /\ sv.batch \in 0 .. BatchMax
    /\ Len(buf) <= BufCap + 1 /\ Len(wire) <= WireCap /\ queued \in 0 .. OutCap
    /\ dd.pc \in {"off", "read", "give", "waiting", "done"} /\ dd.recs \in Nat

\* s is the packets that decode of the first n, in their order
Decoded(s, n) == ToSet(s) = 1 .. n \ Bad /\ \A i, j \in DOMAIN s : i < j => s[i] < s[j]

\* Whatever fails, the pipeline gets a prefix of what the sensor sent: no packet or record
\* twice, none in another's place, none left out between two (framewriter.go:49-59, the
\* batching only moves record boundaries).
InOrderOnce ==
    /\ IF Raw THEN \E n \in 0 .. src.n : Decoded(got, n) ELSE IsPrefix(got, encoded)
    /\ \A i, j \in DOMAIN got : got[i] = got[j] => i = j

\* A failure the sensor knows of may lie unread beside the channel that is closed: select, or
\* the drain, may then take the close (server.go:281-291, 354-364).
FailurePassedBy == src.err # "none" \/ agg.err # "none" \/ agg.stopped

\* A session that ends with the goodbye "end of capture" has delivered everything that was
\* sent, what was in the writer's buffer and the final Flush included, and it is all of the
\* capture, unless the source had failed or the session was cancelled and that was passed by.
\* One that ends with "source error" had an error: an end is never told as a failure
\* (aggregate.go:146-148, framewriter.go:162-172).
EndOfCaptureIsComplete ==
    /\ dd.why = "end of capture" =>
         /\ IF Raw THEN Decoded(got, src.n) ELSE got = encoded
         /\ ToSet(got) = 1 .. setup.packets \ Bad \/ FailurePassedBy
    /\ dd.why = "source error" => "error" \in {src.err, agg.err}

\* A record is counted once and is then in the pipeline's channel or in the read loop's
\* hand; the one record a cancel can lose is the one in hand (records.go:89-96).
RecordsCounted ==
    answer.mode # "raw" =>
        \/ dd.recs = Len(got) + (IF dd.pc = "give" THEN 1 ELSE 0)
        \/ dd.recs = Len(got) + 1 /\ dctx

\* Both ends of a running session agree: on a version neither exceeds, on the mode the
\* sensor is in, on a link type the daemon decodes; and records have somewhere to go
\* (server.go:37-47: a record mode is never downgraded, records.go:16-18).
EndsAgree ==
    /\ answer.code = "ok" =>
          /\ answer.version <= VersionMax /\ answer.version <= Ceiling(setup.hello)
          /\ setup.cfg.token \in {NoToken, setup.hello.token}
    /\ dd.pc \in {"read", "give"} =>
          /\ answer.mode = setup.cfg.mode
          /\ answer.mode # "raw" => setup.sink
          /\ answer.mode = "raw" => answer.link \in Decodable /\ setup.hello.link \in {AnyLink, answer.link}

Over == sctx \/ dctx \/ broken \/ (phase = "answered" /\ ~src.on)

\* However a session comes to its end, on either side, both sides wind down: no goroutine
\* of it stays behind a full channel, a full socket or a lost peer.
SessionWindsDown == Over ~> AllGone

\* A link that drops heals by itself: as long as nobody stops the sensor and the collector
\* can be reached, every session, declined ones included, is followed by another
\* (connect.go:43-45).
Reconnects == loop.pc = "sleep" ~> loop.pc = "serve" \/ stopping

\* Every record arrives once, in order, and the two ends' counters tell it (pcapoverip server.go and client.go).
RecordsArriveOnce == TypeOK /\ InOrderOnce /\ RecordsCounted

\* What the daemon is told of an end agrees with what it has got: "end of capture" stands
\* behind everything that was sent, and behind the whole capture wherever no failure was
\* passed by; "source error" behind an error (Session.WriteGoodbye, the client's read loop).
EndsTellTheTruth == EndOfCaptureIsComplete /\ EndsAgree

\* A session that is over lets all its goroutines go, and the next one is tried.
SessionsTurnOver == SessionWindsDown /\ Reconnects
=============================================================================
