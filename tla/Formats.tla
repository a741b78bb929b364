------------------------------ MODULE Formats ------------------------------
(***************************************************************************)
(* What one peer or tool writes, another reads: each step writes a message,*)
(* a record, a file, a chunk or a block, damages it or cuts it short, and  *)
(* has the program's reader read it.                                       *)
(***************************************************************************)
EXTENDS Codec, Containers

CONSTANTS
    Hellos, Answers, Sessions, \* messages, and sequences of frames that follow an answer
    Records,                   \* record headers, with a feature vector and counts
    Identities,                \* names a sensor may have
    Files, Chunks, RingBlocks, \* inputs in pieces: [kind, pieces, frames, clean]
    Damage                     \* values a damaged cell or byte takes

VARIABLES
    asked,   \* what was written: [about, ...]
    answer   \* what was read

formatVars == <<asked, answer>>

FormatsInit == asked = [about |-> "nothing"] /\ answer = Error

Asks(question, reading) == asked' = question /\ answer' = reading

\* One cell of a sequence takes another value.
DamagedAt(s, i, v) == [s EXCEPT ![i] = v]

-----------------------------------------------------------------------------

ReadHello ==
    \E h \in Hellos : MarshalHello(h) # Error /\
        LET cells == MarshalHello(h) IN
        \E n \in 0 .. Len(cells) : \E behind \in {<<>>, <<Goodbye, 0>>} :
            /\ behind # <<>> => n = Len(cells)
            /\ Asks([about |-> "hello", hello |-> h, cut |-> n < Len(cells), behind |-> behind],
                    ReadClientHello(SubSeq(cells, 1, n) \o behind))

\* An answer with the frames of a session behind it, cut anywhere.
Sent(f) ==
    IF f.type = Packet THEN WritePacketFrame(Head(f.payload), Tail(f.payload))
    ELSE WriteFrame(f.type, f.payload)
FramesOf(session) == FlattenSeq([i \in DOMAIN session |-> Sent(session[i])])

ReadSession ==
    \E a \in Answers, session \in Sessions :
        LET cells == IF a.code = 0 THEN MarshalAccept(a) ELSE MarshalReject(a.code, a.filter)
            whole == cells \o FramesOf(session)
        IN /\ cells # Error
           /\ \A i \in DOMAIN session : Sent(session[i]) # Error
           /\ \E n \in 0 .. Len(whole) :
                LET r == ReadServerResponse(SubSeq(whole, 1, n)) IN
                Asks([about |-> "session", said |-> a, session |-> session, cells |-> n, answerCells |-> Len(cells)],
                     IF r = Error THEN [read |-> FALSE]
                     ELSE [read |-> TRUE, response |-> r, frames |-> ReadFrames[r.rest]])

\* A feature record goes as the record frame, a flow record as the other one.
Written(kind, r) == IF kind = "flow" THEN EncodeFlowRecord(r) ELSE EncodeFeatureRecord(r)
Decoded(kind, cells) == IF kind = "flow" THEN DecodeFlowRecord(cells) ELSE DecodeFeatureRecord(cells)

ReadRecord ==
    \E kind \in {"flow", "feature"}, r \in Records :
        Asks([about |-> "record", kind |-> kind, record |-> r], Decoded(kind, Written(kind, r)))

ReadDamagedRecord ==
    \E kind \in {"flow", "feature"}, r \in Records :
        LET cells == Written(kind, r) IN
        \/ \E n \in 0 .. Len(cells) - 1 :
              Asks([about |-> "bad record", kind |-> kind, cells |-> SubSeq(cells, 1, n)],
                   Decoded(kind, SubSeq(cells, 1, n)))
        \/ Asks([about |-> "bad record", kind |-> kind, cells |-> Append(cells, 0)],
                Decoded(kind, Append(cells, 0)))
        \/ \E i \in DOMAIN cells, v \in Damage :
              Asks([about |-> "bad record", kind |-> kind, cells |-> DamagedAt(cells, i, v)],
                   Decoded(kind, DamagedAt(cells, i, v)))

ReadIdentity ==
    \E a, b, c, d \in Identities, suffix \in SessionSuffixes :
        LET prefix == FormatSessionPrefix(<<a, b, c, d>>)
            session == NewSessionID(prefix, suffix)
        IN Asks([about |-> "identity", fields |-> <<a, b, c, d>>, prefix |-> prefix, session |-> session],
                ParseSensorIdentity(session))

-----------------------------------------------------------------------------
(* Files, chunks and blocks come in pieces: every piece holds at most one   *)
(* frame, which is read when the piece is whole; clean says how an input    *)
(* that is neither cut nor damaged ends.                                    *)

Reader(input, b) ==
    CASE input.kind = "pcapng" -> ReadNG(b)
      [] input.kind = "pcap" -> ReadPcap(b)
      [] input.kind = "chunk" -> Chunk(b)

ReadWhole ==
    \E input \in Files \cup Chunks :
        Asks([about |-> "whole", input |-> input], Reader(input, FlattenSeq(input.pieces)))

\* The first n bytes; or every byte, one of them changed.
ReadDamaged ==
    \E input \in Files \cup Chunks :
        LET b == FlattenSeq(input.pieces) IN
        \/ \E n \in 0 .. Len(b) - 1 :
              Asks([about |-> "damaged", input |-> input, at |-> n + 1, cut |-> TRUE],
                   Reader(input, SubSeq(b, 1, n)))
        \/ \E i \in DOMAIN b, v \in Damage :
              Asks([about |-> "damaged", input |-> input, at |-> i, cut |-> FALSE],
                   Reader(input, DamagedAt(b, i, v)))

\* OpenPCAPFile before Packets, and the sensor's reader beside the daemon's.
OpenFile ==
    \E input \in Files :
        LET b == FlattenSeq(input.pieces) IN
        \E n \in 0 .. Len(b) :
            LET cut == SubSeq(b, 1, n) IN
            Asks([about |-> "open", input |-> input, read |-> Reader(input, cut)],
                 [opens |-> IF input.kind = "pcap" THEN OpenPcap(cut) ELSE OpenNG(cut),
                  replay |-> IF input.kind = "pcap" THEN ReplayPcap(cut) ELSE Reader(input, cut)])

\* A block of the ring with another one on each side.
ReadBlock ==
    \E block \in RingBlocks, i \in 0 .. Len(FlattenSeq((CHOOSE b \in RingBlocks : TRUE).pieces)), v \in Damage :
        LET b == FlattenSeq(block.pieces)
            around == [j \in 1 .. Len(b) |-> 99]
            mem == around \o (IF i \in DOMAIN b THEN DamagedAt(b, i, v) ELSE b) \o around
        IN Asks([about |-> "block", input |-> block, at |-> i, cut |-> FALSE], WalkBlock(mem, Len(b), Len(b)))

FormatsNext ==
    /\ asked.about = "nothing"
    /\ \/ ReadHello \/ ReadSession \/ ReadRecord \/ ReadDamagedRecord \/ ReadIdentity
       \/ ReadWhole \/ ReadDamaged \/ OpenFile \/ ReadBlock

FormatsSpec == FormatsInit /\ [][FormatsNext]_formatVars

-----------------------------------------------------------------------------
(* Properties *)

\* A hello is read as it was meant or not at all; an answer leaves the stream at the
\* first frame, whatever its version, so that every frame of the session is read as it
\* was written; a session cut short gives the frames before the cut (protocol.go, "A v1
\* client would read these bytes as a frame header").
StreamStaysAligned ==
    /\ asked.about = "hello" =>
         IF asked.cut THEN answer = Error
         ELSE /\ answer.rest = asked.behind
              /\ answer.hello = [asked.hello EXCEPT !.max = IF @ > asked.hello.version THEN @ ELSE 0]
    /\ asked.about = "session" =>
         /\ answer.read = (asked.cells >= asked.answerCells)
         /\ answer.read /\ asked.said.code = 0 =>
              answer.response.accept = [f \in DOMAIN answer.response.accept |-> asked.said[f]]
         /\ answer.read /\ asked.said.code # 0 =>
              /\ answer.response.reject = asked.said.code
              /\ IsPrefix(answer.response.reason, asked.said.filter)
         /\ answer.read =>
              /\ IsPrefix(answer.frames, asked.session)
              /\ \A n \in DOMAIN asked.session :
                   asked.cells >= asked.answerCells + Len(FramesOf(SubSeq(asked.session, 1, n)))
                     => Len(answer.frames) >= n

\* The record that was read, to be written again.
Rebuilt(kind) ==
    LET body == IF kind = "flow" THEN "counts" ELSE "values" IN
    [f \in DOMAIN answer.id \cup {body} |-> IF f = body THEN answer[f] ELSE answer.id[f]]

\* A record a sensor aggregated arrives with every field where it was, so that the
\* features computed from it and its flow key are those of the sensor; what is cut,
\* longer, of another layout or otherwise not a record is refused, and two different
\* payloads are never read as the same record (records.go, "a malformed record is an
\* error the caller counts and skips").
RecordsSurvive ==
    /\ asked.about = "record" =>
         LET r == asked.record IN
         IF r.reason \notin DOMAIN WireReason THEN answer = Error
         ELSE /\ \A f \in DOMAIN answer.id \ {"initiator", "responder"} : answer.id[f] = r[f]
              /\ KeyOf(answer.id.initiator, answer.id.initiatorPort, answer.id.responder, answer.id.responderPort)
                   = KeyOf(Unmap(r.responder), r.responderPort, Unmap(r.initiator), r.initiatorPort)
              /\ IF asked.kind = "flow" THEN answer.counts = r.counts ELSE answer.values = r.values
    /\ asked.about = "bad record" /\ answer # Error =>
         Written(asked.kind, Rebuilt(asked.kind)) = asked.cells

\* The daemon knows a sensor by the names it packed into its session id, none of which
\* can pass for another field, and a long name never makes the answer unsendable.
IdentitySurvives ==
    asked.about = "identity" =>
        /\ Len(asked.session) <= MaxText
        /\ Len(asked.prefix) < Budget /\ asked.prefix # <<>> =>
             answer = [i \in 1 .. 4 |-> Sanitise(asked.fields[i])]

FramesIn(input, n) == SelectSeq(SubSeq(input.frames, 1, n), LAMBDA f : f # <<>>)
AllFrames(input) == FramesIn(input, Len(input.frames))
EndOf(input, n) == Len(FlattenSeq(SubSeq(input.pieces, 1, n)))

FramesRead == [i \in DOMAIN answer.frames |->
                 IF asked.input.kind = "pcapng" THEN answer.frames[i].data ELSE answer.frames[i]]

\* How many pieces lie before a byte; whether an input cut there has lost part of a frame (not only what pads it).
WholeBefore(input, at) == Max({n \in 0 .. Len(input.pieces) : EndOf(input, n) < at})
CutsFrame(input, at) ==
    /\ EndOf(input, WholeBefore(input, at)) # at - 1
    /\ input.frames[WholeBefore(input, at) + 1] # <<>>
    /\ FramesRead = FramesIn(input, WholeBefore(input, at))

\* Whatever holds captured frames gives them back as they were, in order, up to where the
\* reader has to refuse it.  Cut short it gives those before the cut and no other, and a cut
\* inside a frame is no clean end; damaged, it gives those before the damage, and nothing is
\* said of what follows (a length that was changed gives what stands there).  A damaged ring
\* block never gives a byte of the blocks beside it (pcapng.go, bpfchunk.go "a chunk whose
\* tail is garbage still yields its good packets", afpacket_ring_linux.go "must never index
\* out of range").
ContainersReadBack ==
    /\ asked.about = "whole" => answer.clean = asked.input.clean /\ FramesRead = AllFrames(asked.input)
    /\ asked.about = "damaged" =>
         /\ IsPrefix(FramesIn(asked.input, WholeBefore(asked.input, asked.at)), FramesRead)
         /\ asked.cut => IsPrefix(FramesRead, AllFrames(asked.input))
         /\ asked.cut /\ CutsFrame(asked.input, asked.at) => ~answer.clean
    /\ asked.about = "block" =>
         /\ asked.at = 0 => FramesRead = AllFrames(asked.input)
         /\ asked.at # 0 =>
              IsPrefix(FramesIn(asked.input, WholeBefore(asked.input, asked.at)), FramesRead)
         /\ \A i \in DOMAIN FramesRead : 99 \notin ToSet(FramesRead[i])

\* A file that was refused at the start of a replay has no packet to give, and a capture
\* replayed by a sensor gives the daemon the packets it would have read itself.
ReadersAgree ==
    asked.about = "open" =>
        /\ ~answer.opens => asked.read.frames = <<>>
        /\ IsPrefix(asked.read.frames, answer.replay.frames)
        /\ asked.read.clean => answer.replay = asked.read

\* What is written is what is read: frames, records, names and files survive the trip through
\* their bytes, and two readers of the same bytes agree (pcapoverip, sensor records, pcap readers).
FormatsReadBack ==
    StreamStaysAligned /\ RecordsSurvive /\ IdentitySurvives /\ ContainersReadBack /\ ReadersAgree

=============================================================================
