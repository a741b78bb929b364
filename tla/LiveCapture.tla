---------------------------- MODULE LiveCapture ----------------------------
(***************************************************************************)
(* Live capture on a network interface: AFPacket with Recvfrom or with the *)
(* TPACKET_V3 ring, BPFDevice on FreeBSD (internal/capture), and the       *)
(* LiveStreamer that opens one of them for each connected daemon.          *)
(*                                                                         *)
(* Four parties share a source: its read goroutine, whoever reads its      *)
(* channel, whoever asks for its statistics, whoever closes it.  Below them*)
(* is the kernel: a descriptor number that is closed is given to the next  *)
(* open, a drop counter that AF_PACKET resets when it is read, and blocks  *)
(* of shared memory that belong to one side at a time.                     *)
(***************************************************************************)
EXTENDS Naturals, Sequences, SequencesExt, FiniteSets, FiniteSetsExt

CONSTANTS
    Captures,        \* the captures opened, one after the other
    KindOf,         \* "recv", "ring" or "bpf" for each
    Fds,            \* the descriptor numbers the process gets
    Recycled,       \* the sources that may be opened under a number that was closed before
    Kept,           \* sources of the daemon, which keeps a failed one in its list; the
                    \* others belong to a LiveStreamer
    Frames,         \* bound: frames that arrive on each interface
    QueueCap,       \* frames the socket's or device's buffer holds
    BlockCap, Blocks, \* frames per block of a ring, and blocks
    OutCap,         \* capacity of the source's channel (512)
    Bad             \* the frames packet.Decode refuses

NoFd == 0

ASSUME CaptureAssumption ==
    /\ IsFiniteSet(Captures) /\ NoFd \notin Captures /\ Kept \subseteq Captures
    /\ KindOf \in [Captures -> {"recv", "ring", "bpf"}]
    /\ Fds \subseteq Nat \ {NoFd}
    /\ BlockCap \in Nat \ {0} /\ Blocks \in Nat \ {0}

VARIABLES
    src,        \* the state of each AFPacket or BPFDevice
    sock,       \* its socket or device in the kernel
    fdOf,       \* whose descriptor a number is, NoFd when it is closed
    out,        \* the channel of each source
    got,        \* what its reader has taken from it
    poll,       \* the source whose drop counter is about to be read
    retired     \* LiveStreamer.retired: the totals of the captures that ended

captureVars == <<src, sock, fdOf, out, got, poll, retired>>

\* struct tpacket_block_desc: who owns the block, and how many of its frames are filled.
Block == [user |-> FALSE, num |-> 0, frames |-> [i \in 1 .. BlockCap |-> NoFd]]

CaptureInit ==
    /\ src = [s \in Captures |->
                [pc |-> "none", fd |-> NoFd, closed |-> FALSE, cancelled |-> FALSE,
                 buf |-> <<>>, left |-> 0, at |-> 0, hand |-> NoFd, cursor |-> 0, tracked |-> FALSE,
                 packets |-> 0, refused |-> 0, drops |-> 0]]
    /\ sock = [s \in Captures |-> [queue |-> <<>>, arrived |-> 0, lost |-> 0, dropped |-> 0,
                                  blocks |-> [b \in 0 .. Blocks - 1 |-> Block], fill |-> 0]]
    /\ fdOf = [n \in Fds |-> NoFd]
    /\ out = [s \in Captures |-> <<>>] /\ got = out
    /\ poll = NoFd /\ retired = [packets |-> 0, drops |-> 0]

Ring(s) == KindOf[s] = "ring"
Opened(s) == fdOf[src[s].fd] = s
Started(s) == src[s].pc \notin {"none", "open"}
Over(s) == src[s].pc = "over"

-----------------------------------------------------------------------------
(* The kernel *)

\* A frame goes to the buffer, or to the block the kernel is filling; without room it
\* is dropped and counted.
Arrive(s) ==
    /\ src[s].pc # "none" /\ Opened(s) /\ sock[s].arrived < Frames[s]
    /\ LET k == sock[s]
           n == k.arrived + 1
           block == k.blocks[k.fill]
           full == block.num + 1 = BlockCap
       IN sock' = [sock EXCEPT ![s] =
            IF Ring(s) /\ ~block.user
            THEN [k EXCEPT !.arrived = n, !.fill = IF full THEN (@ + 1) % Blocks ELSE @,
                           !.blocks[k.fill] = [user |-> full, num |-> @.num + 1,
                                               frames |-> [@.frames EXCEPT ![block.num + 1] = n]]]
            ELSE IF ~Ring(s) /\ Len(k.queue) < QueueCap
            THEN [k EXCEPT !.arrived = n, !.queue = Append(@, n)]
            ELSE [k EXCEPT !.arrived = n, !.lost = @ + 1, !.dropped = @ + 1]]
    /\ UNCHANGED <<src, fdOf, out, got, poll, retired>>

\* afpRingRetireMs: a block that is not full is handed up after a while.
Retire(s) ==
    /\ Ring(s) /\ src[s].pc # "none" /\ Opened(s)
    /\ LET k == sock[s] IN
         /\ ~k.blocks[k.fill].user /\ k.blocks[k.fill].num > 0
         /\ sock' = [sock EXCEPT ![s] = [k EXCEPT !.blocks[k.fill].user = TRUE,
                                                  !.fill = (@ + 1) % Blocks]]
    /\ UNCHANGED <<src, fdOf, out, got, poll, retired>>

-----------------------------------------------------------------------------
(* The source and its read loop *)

FreeFds(s) ==
    {n \in Fds : fdOf[n] = NoFd /\ (s \in Recycled \/ \A t \in Captures : src[t].fd # n)}

\* A program is built for Linux or for FreeBSD.
SamePlatform(s, t) == (KindOf[s] = "bpf") = (KindOf[t] = "bpf")

\* NewAFPacket, NewBPFDevice: the number is the lowest that is free; counters start
\* from zero.
Open(s) ==
    /\ src[s].pc = "none" /\ FreeFds(s) # {}
    /\ \A t \in Captures : src[t].pc # "none" => SamePlatform(s, t)
    /\ fdOf' = [fdOf EXCEPT ![Min(FreeFds(s))] = s]
    /\ src' = [src EXCEPT ![s].pc = "open", ![s].fd = Min(FreeFds(s))]
    /\ UNCHANGED <<sock, out, got, poll, retired>>

\* Packets or RawPackets; the streamer tracks the source before.
Start(s) ==
    /\ src[s].pc = "open" /\ ~src[s].closed
    /\ src' = [src EXCEPT ![s].pc = "check", ![s].tracked = s \notin Kept]
    /\ UNCHANGED <<sock, fdOf, out, got, poll, retired>>

Check(s) ==
    /\ src[s].pc = "check"
    /\ src' = [src EXCEPT ![s].pc = IF src[s].cancelled \/ src[s].closed THEN "leave" ELSE "read"]
    /\ UNCHANGED <<sock, fdOf, out, got, poll, retired>>

\* With nothing there the call times out and the loop starts over.
TimesOut(s) ==
    /\ src[s].pc = "read"
    /\ IF Ring(s) THEN ~sock[s].blocks[src[s].cursor].user ELSE sock[s].queue = <<>>
    /\ src' = [src EXCEPT ![s].pc = "check"]
    /\ UNCHANGED <<sock, fdOf, out, got, poll, retired>>

\* One call brings a frame, or the whole store buffer of a BPF device.
Read(s) ==
    /\ src[s].pc = "read" /\ ~Ring(s) /\ sock[s].queue # <<>>
    /\ LET n == IF KindOf[s] = "recv" THEN 1 ELSE Len(sock[s].queue) IN
         /\ src' = [src EXCEPT ![s].pc = "walk", ![s].left = n, ![s].at = 1,
                               ![s].buf = SubSeq(sock[s].queue, 1, n)]
         /\ sock' = [sock EXCEPT ![s].queue = SubSeq(@, n + 1, Len(@))]
    /\ UNCHANGED <<fdOf, out, got, poll, retired>>

Returned(s) == [sock EXCEPT ![s].blocks[src[s].cursor].user = FALSE,
                            ![s].blocks[src[s].cursor].num = 0]

\* The block at the cursor is ours: it is walked where it lies.
Ready(s) ==
    /\ src[s].pc = "read" /\ Ring(s) /\ sock[s].blocks[src[s].cursor].user
    /\ src' = [src EXCEPT ![s].pc = "walk", ![s].at = 1,
                          ![s].left = sock[s].blocks[src[s].cursor].num]
    /\ UNCHANGED <<sock, fdOf, out, got, poll, retired>>

\* The interface went away; the ring's epoll loop has no such answer.
ReadFails(s) ==
    /\ src[s].pc = "read" /\ ~Ring(s) /\ sock[s].queue = <<>>
    /\ src' = [src EXCEPT ![s].pc = "leave"]
    /\ UNCHANGED <<sock, fdOf, out, got, poll, retired>>

FrameAt(s, i) == IF Ring(s) THEN sock[s].blocks[src[s].cursor].frames[i] ELSE src[s].buf[i]

\* The next frame is counted and decoded.
Walk(s) ==
    /\ src[s].pc = "walk" /\ src[s].left > 0
    /\ LET f == FrameAt(s, src[s].at) IN
       src' = [src EXCEPT ![s].at = @ + 1, ![s].left = @ - 1, ![s].packets = @ + 1,
                          ![s].hand = IF f \in Bad THEN NoFd ELSE f,
                          ![s].pc = IF f \in Bad THEN "walk" ELSE "emit",
                          ![s].refused = IF f \in Bad THEN @ + 1 ELSE @]
    /\ UNCHANGED <<sock, fdOf, out, got, poll, retired>>

\* A ring's block goes back to the kernel, and the next one is looked at before the
\* loop starts over.
Walked(s) ==
    /\ src[s].pc = "walk" /\ src[s].left = 0
    /\ sock' = IF Ring(s) THEN Returned(s) ELSE sock
    /\ src' = [src EXCEPT ![s].buf = <<>>, ![s].at = 0,
                          ![s].cursor = IF Ring(s) THEN (@ + 1) % Blocks ELSE @,
                          ![s].pc = IF ~Ring(s) THEN "check"
                                    ELSE IF src[s].closed THEN "leave" ELSE "read"]
    /\ UNCHANGED <<fdOf, out, got, poll, retired>>

\* emit: into the channel, unless the context is cancelled or the source closed.
Emit(s) ==
    /\ src[s].pc = "emit"
    /\ \/ /\ Len(out[s]) < OutCap /\ out' = [out EXCEPT ![s] = Append(@, src[s].hand)]
          /\ src' = [src EXCEPT ![s].pc = "walk", ![s].hand = NoFd]
       \/ /\ src[s].cancelled \/ src[s].closed
          /\ src' = [src EXCEPT ![s].pc = "leave"] /\ out' = out
    /\ UNCHANGED <<sock, fdOf, got, poll, retired>>

\* The deferred calls: the ring is unmapped, the descriptor and the channels are closed.
Leave(s) ==
    /\ src[s].pc = "leave"
    /\ fdOf' = [fdOf EXCEPT ![src[s].fd] = NoFd]
    /\ src' = [src EXCEPT ![s].pc = "over", ![s].hand = NoFd, ![s].buf = <<>>, ![s].left = 0]
    /\ UNCHANGED <<sock, out, got, poll, retired>>

ReadLoop(s) ==
    \/ Check(s) \/ TimesOut(s) \/ Read(s) \/ Ready(s) \/ Walk(s) \/ Walked(s)
    \/ Emit(s) \/ Leave(s)

-----------------------------------------------------------------------------
(* Those who use it *)

\* Without a read loop nobody else closes the descriptor.
Close(s) ==
    /\ src[s].pc # "none" /\ ~src[s].closed
    /\ src' = [src EXCEPT ![s].closed = TRUE, ![s].pc = IF @ = "open" THEN "over" ELSE @]
    /\ fdOf' = IF Started(s) THEN fdOf ELSE [fdOf EXCEPT ![src[s].fd] = NoFd]
    /\ UNCHANGED <<sock, out, got, poll, retired>>

CancelCapture(s) ==
    /\ Started(s) /\ ~src[s].cancelled
    /\ src' = [src EXCEPT ![s].cancelled = TRUE]
    /\ UNCHANGED <<sock, fdOf, out, got, poll, retired>>

Receive(s) ==
    /\ out[s] # <<>>
    /\ got' = [got EXCEPT ![s] = Append(@, Head(out[s]))]
    /\ out' = [out EXCEPT ![s] = Tail(@)]
    /\ UNCHANGED <<src, sock, fdOf, poll, retired>>

\* Stats, pollDrops: a closed source is left alone.
PollBegins(s) ==
    /\ poll = NoFd /\ src[s].pc # "none" /\ ~src[s].closed
    /\ s \in Kept \/ src[s].tracked
    /\ poll' = s
    /\ UNCHANGED <<src, sock, fdOf, out, got, retired>>

DropsOverwritten(s, t) == sock[t].lost   \* mutant: PACKET_STATISTICS taken for a running total

\* PACKET_STATISTICS counts since the last call, BIOCGSTATS since the device was opened.
Drops(s, t) == IF KindOf[t] = "bpf" THEN sock[t].dropped ELSE src[s].drops + sock[t].lost

\* The call names a number, not a source: it is answered for whoever holds it now.
PollAnswered ==
    /\ poll # NoFd
    /\ LET t == fdOf[src[poll].fd] IN
       IF t = NoFd THEN UNCHANGED <<src, sock>>
       ELSE /\ src' = [src EXCEPT ![poll].drops = Drops(poll, t)]
            /\ sock' = [sock EXCEPT ![t].lost = 0]
    /\ poll' = NoFd
    /\ UNCHANGED <<fdOf, out, got, retired>>

Added(s) == [packets |-> retired.packets + src[s].packets, drops |-> retired.drops + src[s].drops]

\* LiveStreamer.Stream's goroutine is done with a capture that ended or was cancelled:
\* it has closed the source, and its counters go to the retired total, under the lock
\* the poll of Stats holds.
Untrack(s) ==
    /\ src[s].tracked /\ src[s].closed /\ poll = NoFd
    /\ src' = [src EXCEPT ![s].tracked = FALSE]
    /\ retired' = Added(s)
    /\ UNCHANGED <<sock, fdOf, out, got, poll>>

\* The streamer closes a capture that ended or was cancelled; the manager only one that
\* is removed.
MayClose(s) ==
    IF s \in Kept THEN src[s].cancelled \/ src[s].pc = "open"
    ELSE src[s].pc = "open" \/ Over(s) \/ src[s].cancelled

CaptureNext ==
    \E s \in Captures :
        \/ Open(s) \/ Start(s) \/ ReadLoop(s) \/ ReadFails(s) \/ Arrive(s) \/ Retire(s)
        \/ (MayClose(s) /\ Close(s))
        \/ CancelCapture(s) \/ Receive(s) \/ PollBegins(s) \/ Untrack(s)
        \/ PollAnswered

CaptureSpec == CaptureInit /\ [][CaptureNext]_captureVars

\* The goroutine runs; a call to the kernel returns.
CaptureFairness == \A s \in Captures : WF_captureVars(ReadLoop(s))

-----------------------------------------------------------------------------
(* Properties *)

\* What is in a block from one of its frames on.
InBlock(b, from) == [i \in 1 .. b.num + 1 - from |-> b.frames[from + i - 1]]

\* The frames on their way from the kernel to the reader of the channel: what each place
\* holds, the reader's end first.
Line(s) ==
    LET r == src[s]
        block(i) == sock[s].blocks[(r.cursor + i - 1) % Blocks]
        next == IF r.pc \in {"walk", "emit"} THEN r.at ELSE 1
    IN <<got[s], out[s], IF r.hand = NoFd THEN <<>> ELSE <<r.hand>>>>
         \o (IF Ring(s) THEN [i \in 1 .. Blocks |-> InBlock(block(i), IF i = 1 THEN next ELSE 1)]
             ELSE <<[i \in 1 .. r.left |-> r.buf[r.at + i - 1]], sock[s].queue>>)

Rising(t) == \A i, j \in DOMAIN t : i < j => t[i] < t[j]
OnLine(line) == UNION {Range(line[a]) : a \in DOMAIN line}

\* Every frame is delivered at most once and in the order the interface saw it, whether
\* it was copied by Recvfrom or read from memory shared with the kernel; while the loop
\* runs, a frame that is not on its way was dropped by the kernel or refused by the
\* decoder, and counted (afpacket_ring_linux.go, "drains every block").
FramesInOrderOnce ==
    \A s \in Captures :
        ~Over(s) /\ src[s].pc # "leave" =>
            /\ \A a \in DOMAIN Line(s) : Rising(Line(s)[a])
            /\ \A a, b \in DOMAIN Line(s) :
                a < b => \A x \in Range(Line(s)[a]), y \in Range(Line(s)[b]) : x < y
            /\ sock[s].arrived = Cardinality(OnLine(Line(s))) + src[s].refused + sock[s].dropped

\* A drop of the kernel is counted by one source, once, although reading PACKET_STATISTICS
\* resets it and BIOCGSTATS does not, which is why a device reports its own only while its
\* number is not another's as well; and what a LiveStreamer reports to its daemons is
\* the sum over all captures it ever opened, across reconnects (livestream.go Stats).
DropsCountedOnce ==
    /\ SumFunction([s \in Captures |->
            IF KindOf[s] = "bpf" THEN 0 ELSE src[s].drops + sock[s].lost - sock[s].dropped]) = 0
    /\ \A s \in Captures :
        KindOf[s] = "bpf" /\ (\A t \in Captures \ {s} : src[t].fd # src[s].fd) => src[s].drops <= sock[s].dropped
    /\ retired.drops + SumFunction([s \in Captures |-> IF src[s].tracked THEN src[s].drops ELSE 0])
         = SumFunction([s \in Captures |-> IF s \in Kept THEN 0 ELSE src[s].drops])

\* A source that was cancelled or closed lets its descriptor go, on an idle interface and
\* with nobody reading its channel (afpReadTimeout, "what makes Close and ctx cancellation
\* responsive"), and never closes a number that is not its own.
SourceLetsGo ==
    \A s \in Captures : (src[s].pc # "none" /\ (src[s].cancelled \/ src[s].closed)) ~> Over(s)

OwnDescriptor == \A s \in Captures : src[s].pc \notin {"none", "over"} => Opened(s)

\* The drops a source reports are packets "the kernel discarded before this process could
\* read them" on its interface (capture.go:21-24, pollDrops).
DropsAreItsOwn == \A s \in Captures : src[s].drops <= sock[s].dropped

\* A source reads and counts its own: each frame once and in order, each drop once, and only
\* through a descriptor it holds (AFPacket, BPFDevice, LiveStreamer.Stats).
FramesAreItsOwn == FramesInOrderOnce /\ DropsCountedOnce /\ OwnDescriptor
=============================================================================
