----------------------------- MODULE Containers -----------------------------
(***************************************************************************)
(* Bytes into frames (internal/capture): the pcapng reader, the classic    *)
(* pcap readers of the daemon and of the sensor's replay, the chunks of a  *)
(* BPF device and the blocks of a TPACKET_V3 ring.  A file, chunk or block *)
(* is a sequence of bytes; an index outside of it is an error of TLC's, as *)
(* it would be a panic of the program.  The writers, which put together    *)
(* the inputs, follow the formats.                                         *)
(***************************************************************************)
EXTENDS Naturals, Sequences, SequencesExt

CONSTANTS
    SnapLen,     \* maxSnapLen
    Slack,       \* what a block may be longer than that (ngMaxBlockLen)
    ReplaySlack, \* what the sensor's replay takes above it (MaxFramePayload - 8)
    MaxInterfaces \* ngMaxInterfaces

Huge == 16777216

Byte(v, i) == (v \div 256 ^ i) % 256
Word(order, v) == IF order = "LE" THEN <<Byte(v, 0), Byte(v, 1), Byte(v, 2), 0>>
                  ELSE <<0, Byte(v, 2), Byte(v, 1), Byte(v, 0)>>
Half(order, v) == IF order = "LE" THEN <<Byte(v, 0), Byte(v, 1)>> ELSE <<Byte(v, 1), Byte(v, 0)>>

\* Numbers above 24 bits are one number here, above every limit.
U32(order, b, off) ==
    LET d(i) == b[off + (IF order = "LE" THEN 1 + i ELSE 4 - i)] IN
    IF d(3) > 0 THEN Huge ELSE d(0) + 256 * d(1) + 65536 * d(2)
U16(order, b, off) ==
    LET d(i) == b[off + (IF order = "LE" THEN 1 + i ELSE 2 - i)] IN d(0) + 256 * d(1)

Padded(n) == ((n + 3) \div 4) * 4
From(b, n) == SubSeq(b, n + 1, Len(b))
Refuse == [ok |-> FALSE]

-----------------------------------------------------------------------------
(* pcapng.  A section is [order, ifaces, rest].                             *)

SHB == <<10, 13, 13, 10>>
Section == 168627466   \* their number, in either order
OrderMagic(order) == IF order = "LE" THEN <<77, 60, 43, 26>> ELSE <<26, 43, 60, 77>>
IDB == 1
SPB == 3
EPB == 6
Links == {1, 101}

\* newPCAPNGReader
OpenSection(b) ==
    LET order == CHOOSE o \in {"LE", "BE"} : SubSeq(b, 9, 12) = OrderMagic(o)
        total == U32(order, b, 4)
    IN IF \/ Len(b) < 12 \/ SubSeq(b, 1, 4) # SHB
          \/ \A o \in {"LE", "BE"} : SubSeq(b, 9, 12) # OrderMagic(o)
       THEN Refuse
       ELSE IF total < 28 \/ total % 4 # 0 \/ total > SnapLen + Slack \/ total > Len(b)
       THEN Refuse
       ELSE IF U32(order, b, total - 4) # total THEN Refuse
       ELSE [ok |-> TRUE, order |-> order, ifaces |-> <<>>, rest |-> From(b, total)]

\* readBlock: the end of the file is an end only where a block would begin.
NextBlock(z) ==
    LET b == z.rest
        total == U32(z.order, b, 4)
    IN IF b = <<>> THEN [ok |-> TRUE, end |-> TRUE]
       ELSE IF Len(b) < 8 THEN Refuse
       ELSE IF total < 12 \/ total % 4 # 0 \/ total > SnapLen + Slack \/ total > Len(b)
       THEN Refuse
       ELSE IF U32(z.order, b, total - 4) # total THEN Refuse
       ELSE [ok |-> TRUE, end |-> FALSE, body |-> SubSeq(b, 9, total - 4), rest |-> From(b, total),
             type |-> IF SubSeq(b, 1, 4) = SHB THEN Section ELSE U32(z.order, b, 0)]

\* tsUnitsPerSec: a power of ten that fits 64 bits, or of two.
Resolution(v) == IF v < 128 THEN v <= 19 ELSE v - 128 <= 63

\* addInterface: the options are walked for if_tsresol; a run that leaves the block ends.
RECURSIVE OptionsOK(_, _, _)
OptionsOK(order, b, off) ==
    IF off + 4 > Len(b) THEN TRUE
    ELSE LET code == U16(order, b, off)
             olen == U16(order, b, off + 2)
         IN CASE code = 0 \/ off + 4 + olen > Len(b) -> TRUE
              [] code = 9 /\ olen >= 1 /\ off + 4 + olen <= Len(b) /\ ~Resolution(b[off + 5]) -> FALSE
              [] OTHER -> OptionsOK(order, b, off + 4 + Padded(olen))

AddInterface(z, body) ==
    IF Len(body) < 8 \/ Len(z.ifaces) >= MaxInterfaces THEN Refuse
    ELSE IF U16(z.order, body, 0) \notin Links \/ ~OptionsOK(z.order, body, 8) THEN Refuse
    ELSE [z EXCEPT !.ifaces = Append(@, U16(z.order, body, 0))]

\* parseEPB: captured length, block and interface are held against each other.
EnhancedPacket(z, b) ==
    IF Len(b) < 20 THEN Refuse
    ELSE LET iface == U32(z.order, b, 0)
             caplen == U32(z.order, b, 12)
         IN IF caplen > SnapLen \/ 20 + caplen > Len(b) \/ iface >= Len(z.ifaces) THEN Refuse
            ELSE [ok |-> TRUE, link |-> z.ifaces[iface + 1], data |-> SubSeq(b, 21, 20 + caplen)]

\* parseSPB: the body bounds what the original length claims.
SimplePacket(z, b) ==
    IF z.ifaces = <<>> \/ Len(b) < 4 THEN Refuse
    ELSE LET n == Min({U32(z.order, b, 0), Len(b) - 4}) IN
         IF n > SnapLen THEN Refuse
         ELSE [ok |-> TRUE, link |-> z.ifaces[1], data |-> SubSeq(b, 5, 4 + n)]

\* next, until the section ends: the frames read, and how it ended.
RECURSIVE Blocks(_)
Blocks(z) ==
    LET block == NextBlock(z)
        after == [z EXCEPT !.rest = block.rest]
        frame == IF block.type = EPB THEN EnhancedPacket(z, block.body) ELSE SimplePacket(z, block.body)
        iface == AddInterface(after, block.body)
        stop == [frames |-> <<>>, clean |-> FALSE]
    IN IF ~block.ok THEN stop
       ELSE IF block.end THEN [frames |-> <<>>, clean |-> TRUE]
       ELSE CASE block.type = Section -> stop   \* a second one
              [] block.type = IDB -> IF iface.ok THEN Blocks(iface) ELSE stop
              [] block.type \in {EPB, SPB} ->
                   IF ~frame.ok THEN stop
                   ELSE LET more == Blocks(after) IN
                        [more EXCEPT !.frames = <<[link |-> frame.link, data |-> frame.data]>> \o @]
              [] OTHER -> Blocks(after)

ReadNG(b) ==
    LET z == OpenSection(b) IN
    IF z.ok THEN Blocks(z) ELSE [frames |-> <<>>, clean |-> FALSE]

\* primeInterfaces: OpenPCAPFile reads up to the first packet.
RECURSIVE Primed(_)
Primed(z) ==
    LET block == NextBlock(z)
        after == [z EXCEPT !.rest = block.rest]
        iface == AddInterface(after, block.body)
    IN IF ~block.ok THEN FALSE
       ELSE IF block.end THEN z.ifaces # <<>>
       ELSE CASE block.type = Section -> FALSE
              [] block.type = IDB -> iface.ok /\ Primed(iface)
              [] block.type \in {EPB, SPB} -> z.ifaces # <<>>
              [] OTHER -> Primed(after)

OpenNG(b) == LET z == OpenSection(b) IN z.ok /\ Primed(z)

-----------------------------------------------------------------------------
(* Classic pcap.  The magic number tells byte order and resolution.         *)

Magics == [micro |-> <<212, 195, 178, 161>>, nano |-> <<77, 60, 178, 161>>]
OrderOf(b) ==
    CASE SubSeq(b, 1, 4) \in {Magics.micro, Magics.nano} -> "LE"
      [] Reverse(SubSeq(b, 1, 4)) \in {Magics.micro, Magics.nano} -> "BE"
      [] OTHER -> "none"

OpenPcap(b) ==
    IF Len(b) < 24 \/ OrderOf(b) = "none" THEN FALSE ELSE U32(OrderOf(b), b, 20) \in Links

\* A header that is cut short ends the stream as if it were not there; a body is an
\* error.  The two readers differ in the length they take.
RECURSIVE PcapRecords(_, _, _)
PcapRecords(order, b, cap) ==
    LET n == U32(order, b, 8) IN
    IF Len(b) < 16 THEN [frames |-> <<>>, clean |-> TRUE]
    ELSE IF n = 0 \/ n > cap \/ 16 + n > Len(b) THEN [frames |-> <<>>, clean |-> FALSE]
    ELSE LET more == PcapRecords(order, From(b, 16 + n), cap) IN
         [more EXCEPT !.frames = <<SubSeq(b, 17, 16 + n)>> \o @]

ReadPcap(b) ==
    IF OpenPcap(b) THEN PcapRecords(OrderOf(b), From(b, 24), SnapLen)
    ELSE [frames |-> <<>>, clean |-> FALSE]

\* PcapFileStream, replayFile: the copy of the reader in package pcapoverip.
ReplayPcap(b) ==
    IF OpenPcap(b) THEN PcapRecords(OrderOf(b), From(b, 24), SnapLen + ReplaySlack)
    ELSE [frames |-> <<>>, clean |-> FALSE]

-----------------------------------------------------------------------------
(* BPF chunks: caplen, datalen and hdrlen of each record, then the frame.   *)

MinHdr == 10
Align == 4

WordAlign(n) == ((n + Align - 1) \div Align) * Align

RECURSIVE Chunk(_)
Chunk(b) ==
    IF b = <<>> THEN [frames |-> <<>>, clean |-> TRUE]
    ELSE IF Len(b) < MinHdr THEN [frames |-> <<>>, clean |-> FALSE]
    ELSE LET caplen == U32("LE", b, 0)
             hdrlen == U16("LE", b, 8)
         IN IF hdrlen < MinHdr \/ caplen > SnapLen \/ hdrlen > Len(b) \/ caplen > Len(b) - hdrlen
            THEN [frames |-> <<>>, clean |-> FALSE]
            ELSE LET more == Chunk(From(b, WordAlign(hdrlen + caplen))) IN
                 [more EXCEPT !.frames = <<SubSeq(b, hdrlen + 1, hdrlen + caplen)>> \o @]

-----------------------------------------------------------------------------
(* Ring blocks: the number of frames and the offset of the first; then for  *)
(* each frame the offset of the next, its length and where it begins.       *)

FrameHdr == 10

\* ringWalkBlock: i frames are left, the next header is at cur, both counted from the
\* start of the memory; the block is size bytes from base.
RECURSIVE WalkFrames(_, _, _, _, _)
WalkFrames(mem, base, end, cur, i) ==
    IF i = 0 THEN [frames |-> <<>>, clean |-> TRUE]
    ELSE IF cur < base \/ cur + FrameHdr > end THEN [frames |-> <<>>, clean |-> FALSE]
    ELSE LET next == U32("LE", mem, cur)
             snap == U32("LE", mem, cur + 4)
             mac == U16("LE", mem, cur + 8)
             start == cur + mac
         IN IF mac = 0 \/ snap = 0 \/ start + snap > end THEN [frames |-> <<>>, clean |-> FALSE]
            ELSE LET more == IF next = 0 THEN [frames |-> <<>>, clean |-> TRUE]
                             ELSE WalkFrames(mem, base, end, cur + next, i - 1)
                 IN [more EXCEPT !.frames = <<SubSeq(mem, start + 1, start + snap)>> \o @]

WalkBlock(mem, base, size) ==
    IF base + size > Len(mem) \/ base + 8 > Len(mem) THEN [frames |-> <<>>, clean |-> FALSE]
    ELSE WalkFrames(mem, base, base + size, base + U32("LE", mem, base + 4), U32("LE", mem, base))

-----------------------------------------------------------------------------
(* Writers of well-formed inputs.  Each gives its pieces, so that an input  *)
(* can be cut or damaged inside a piece.                                    *)

Fill(n) == [i \in 1 .. n |-> 0]
Block(order, type, body) ==
    LET total == Word(order, Len(body) + 12) IN Word(order, type) \o total \o body \o total

SectionHeader(order) ==
    SHB \o Word(order, 28) \o OrderMagic(order) \o Fill(12) \o Word(order, 28)

\* An interface, with its timestamp resolution as an option or without.
Interface(order, link, resolution) ==
    Block(order, IDB, Half(order, link) \o Fill(6)
        \o (IF resolution = 0 THEN <<>>
            ELSE Half(order, 9) \o Half(order, 1) \o <<resolution, 0, 0, 0>> \o Fill(4)))

Enhanced(order, iface, data) ==
    Block(order, EPB, Word(order, iface) \o Fill(8) \o Word(order, Len(data)) \o Word(order, Len(data))
        \o data \o Fill(Padded(Len(data)) - Len(data)))

Simple(order, data) ==
    Block(order, SPB, Word(order, Len(data)) \o data \o Fill(Padded(Len(data)) - Len(data)))

\* Interface statistics, and a custom block that is not to be copied (0x40000BAD).
Statistics(order) == Block(order, 5, <<9, 9, 9, 9>>)
Custom(order) ==
    LET type == <<173, 11, 0, 64>> IN
    (IF order = "LE" THEN type ELSE Reverse(type)) \o From(Statistics(order), 4)

PcapHeader(order, kind, link) ==
    (IF order = "LE" THEN Magics[kind] ELSE Reverse(Magics[kind])) \o Fill(16) \o Word(order, link)
PcapRecord(order, data) == Fill(8) \o Word(order, Len(data)) \o Word(order, Len(data)) \o data

\* A record of a chunk, with the padding the kernel puts behind the header and, but for
\* the last record, behind the frame.
ChunkRecord(data, pad, last) ==
    LET n == MinHdr + pad + Len(data) IN
    Word("LE", Len(data)) \o Word("LE", Len(data)) \o Half("LE", MinHdr + pad) \o Fill(pad) \o data
      \o (IF last THEN <<>> ELSE Fill(WordAlign(n) - n))

RingFrame(data, last) ==
    Word("LE", IF last THEN 0 ELSE FrameHdr + 2 + Len(data)) \o Word("LE", Len(data))
      \o Half("LE", FrameHdr + 2) \o Fill(2) \o data
=============================================================================
