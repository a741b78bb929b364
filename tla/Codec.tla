------------------------------- MODULE Codec -------------------------------
(***************************************************************************)
(* The SYNPOIP wire format (internal/capture/pcapoverip): hello, answer,   *)
(* frames, the two record payloads and the identity a sensor packs into    *)
(* its session id.  A message is a sequence of cells, one per field of     *)
(* fixed width and one per byte of a string, each a number; lengths count  *)
(* cells.  A reader that takes the wrong fields is misaligned here as it   *)
(* is on the wire.                                                         *)
(***************************************************************************)
EXTENDS Naturals, Sequences, SequencesExt

CONSTANTS
    MaxToken, MaxMeta, MaxText, \* caps of the token, the metadata, and of filter, session id and reason
    MaxFrame,                   \* MaxFramePayload
    Values,                     \* features.Size (48)
    MaxField, Budget,           \* maxSensorIDField, sensorPrefixBudget
    Suffix,                     \* cells newSessionID appends, its dash included (17)
    Error                       \* what is returned in place of a value

Magic == 7

-----------------------------------------------------------------------------
(* Readers.  A cursor holds what is left and the fields taken so far.       *)

Cursor(cells) == [ok |-> TRUE, rest |-> cells, got |-> <<>>]
Fail(c) == [c EXCEPT !.ok = FALSE]

ReadFixed(c, n) ==
    IF ~c.ok \/ Len(c.rest) < n THEN Fail(c)
    ELSE [c EXCEPT !.rest = SubSeq(@, n + 1, Len(@)),
                   !.got = Append(@, SubSeq(c.rest, 1, n))]

\* A length, and as many bytes; a length over the cap is an error before any is read.
ReadBlob(c, cap) ==
    IF ~c.ok \/ c.rest = <<>> \/ Head(c.rest) > cap THEN Fail(c)
    ELSE ReadFixed([c EXCEPT !.rest = Tail(@)], Head(c.rest))

Blob(bytes) == <<Len(bytes)>> \o bytes
Clip(s, n) == SubSeq(s, 1, IF Len(s) < n THEN Len(s) ELSE n)

-----------------------------------------------------------------------------
(* Hello and answer.  Marshal is Error where the code returns one.          *)

\* The metadata: the sensor's name, and max_version unless it restates the version.
MarshalHello(h) ==
    IF Len(h.token) > MaxToken THEN Error
    ELSE <<Magic, h.version, h.link>> \o Blob(h.token)
           \o Blob(<<h.sensor, IF h.max <= h.version THEN 0 ELSE h.max>>)

ReadClientHello(cells) ==
    LET c == ReadBlob(ReadBlob(ReadFixed(Cursor(cells), 3), MaxToken), MaxMeta)
        meta == c.got[3]
    IN IF ~c.ok \/ c.got[1][1] # Magic \/ Len(meta) \notin {0, 2} THEN Error
       ELSE [hello |-> [version |-> c.got[1][2], link |-> c.got[1][3], token |-> c.got[2],
                        sensor |-> IF meta = <<>> THEN 0 ELSE meta[1],
                        max |-> IF meta = <<>> \/ meta[2] <= c.got[1][2] THEN 0 ELSE meta[2]],
             rest |-> c.rest]

\* ModeRaw, ModeFlow, ModeFeature and their schemas.
RawMode == 0
SchemaOf(mode) == IF mode = RawMode THEN <<>> ELSE <<mode>>

MarshalAccept(a) ==
    IF \/ Len(a.filter) > MaxText \/ Len(a.session) > MaxText \/ Len(a.schema) > MaxText
       \/ a.version < 2 /\ a.mode # RawMode
    THEN Error
    ELSE <<Magic, 0, a.version, a.link>> \o Blob(a.filter) \o Blob(a.session)
           \o (IF a.version < 2 THEN <<>> ELSE <<a.mode>> \o Blob(a.schema))

\* A reason that is too long is cut.
MarshalReject(code, reason) == <<Magic, code>> \o Blob(Clip(reason, MaxText))

ReadAcceptAlwaysTail(c) ==   \* mutant: the tail of version 2 is read whatever the version
    LET body == ReadBlob(ReadBlob(ReadFixed(c, 2), MaxText), MaxText) IN
    ReadBlob(ReadFixed(body, 1), MaxText)

\* The tail is there from version 2 on.
ReadAccept(c) ==
    LET body == ReadBlob(ReadBlob(ReadFixed(c, 2), MaxText), MaxText) IN
    IF ~body.ok \/ body.got[2][1] < 2 THEN body
    ELSE ReadBlob(ReadFixed(body, 1), MaxText)

ReadServerResponse(cells) ==
    LET c == ReadFixed(Cursor(cells), 2)
        refused == ReadBlob(c, MaxText)
        a == ReadAccept(c)
        tail == Len(a.got) = 6
    IN CASE ~c.ok -> Error
         [] c.ok /\ c.got[1][1] # Magic -> Error
         [] c.ok /\ c.got[1][1] = Magic /\ c.got[1][2] # 0 ->
              IF ~refused.ok THEN Error
              ELSE [reject |-> c.got[1][2], reason |-> refused.got[2], rest |-> refused.rest]
         [] OTHER ->
              IF ~a.ok THEN Error
              ELSE [accept |-> [version |-> a.got[2][1], link |-> a.got[2][2],
                                filter |-> a.got[3], session |-> a.got[4],
                                mode |-> IF tail THEN a.got[5][1] ELSE RawMode,
                                schema |-> IF tail THEN a.got[6] ELSE <<>>],
                    rest |-> a.rest]

-----------------------------------------------------------------------------
(* Frames                                                                   *)

Packet == 1
Keepalive == 2
Goodbye == 3

WriteFrame(type, payload) ==
    IF Len(payload) > MaxFrame THEN Error ELSE <<type>> \o Blob(payload)

PacketFramePayload(ts, raw) == <<ts>> \o raw

\* frameWriter.writePacketFrame: the same bytes without the payload in between.
WritePacketFrame(ts, raw) ==
    IF Len(raw) + 1 > MaxFrame THEN Error ELSE <<Packet, Len(raw) + 1, ts>> \o raw

\* The frames a reader gets before it meets an end or an error, which are the same to
\* its callers: a session ends well with a goodbye.
ReadFrames[cells \in Seq(Nat)] ==
    LET c == ReadBlob(ReadFixed(Cursor(cells), 1), MaxFrame) IN
    IF ~c.ok THEN <<>>
    ELSE <<[type |-> c.got[1][1], payload |-> c.got[2]]>> \o ReadFrames[c.rest]

-----------------------------------------------------------------------------
(* Records.  The encoder and the decoder each name the fields in the order  *)
(* they touch them.                                                         *)

CountsWritten == <<
    "fwdPackets", "bwdPackets", "fwdBytes", "bwdBytes", "fwdPayload", "bwdPayload",
    "sizeMin", "sizeMax", "small", "large", "syn", "ack", "fin", "rst", "psh", "urg",
    "initialWindow", "windowCount", "iatCount", "fwdIATCount", "bwdIATCount",
    "sizeSum", "sizeSumSq", "fwdSizeSum", "bwdSizeSum", "windowSum", "iatSum", "iatSumSq",
    "iatMin", "iatMax", "fwdIATSum", "bwdIATSum">>

CountsRead == <<
    "fwdPackets", "bwdPackets", "fwdBytes", "bwdBytes", "fwdPayload", "bwdPayload",
    "sizeMin", "sizeMax", "small", "large", "syn", "ack", "fin", "rst", "psh", "urg",
    "initialWindow", "windowCount", "iatCount", "fwdIATCount", "bwdIATCount",
    "sizeSum", "sizeSumSq", "fwdSizeSum", "bwdSizeSum", "windowSum", "iatSum", "iatSumSq",
    "iatMin", "iatMax", "fwdIATSum", "bwdIATSum">>

\* reasonToWire: a name the table does not have travels as 0, which no decoder takes.
WireReason == [snapshot |-> 1, fin_rst |-> 2, idle |-> 3, max_lifetime |-> 4, capture_end |-> 5,
               evicted |-> 6]
ReasonToWire(r) == IF r \in DOMAIN WireReason THEN WireReason[r] ELSE 0

\* An address is [kind, bits]; an IPv4 address mapped into IPv6 travels as IPv4.
NoAddr == [kind |-> "none", bits |-> 0]
Unmap(a) == IF a.kind = "mapped" THEN [a EXCEPT !.kind = "v4"] ELSE a
EncodeAddr(a) ==
    CASE a.kind = "none" -> <<0>>
      [] a.kind = "v6" -> <<16, a.bits>>
      [] OTHER -> <<4, a.bits>>

Header(r) ==
    <<1, r.proto, ReasonToWire(r.reason), 0, r.snapshot, r.id, r.first, r.last>>
      \o EncodeAddr(r.initiator) \o <<r.initiatorPort>>
      \o EncodeAddr(r.responder) \o <<r.responderPort>>

EncodeFlowRecord(r) ==
    Header(r) \o [i \in DOMAIN CountsWritten |-> r.counts[CountsWritten[i]]]

EncodeFeatureRecord(r) == Header(r) \o <<Values>> \o r.values

\* cur.addr: one cell for the length, and one for the bytes unless there are none.
ReadAddr(c) ==
    IF ~c.ok \/ c.rest = <<>> THEN Fail(c)
    ELSE CASE Head(c.rest) = 0 -> ReadFixed(c, 1)
           [] Head(c.rest) \in {4, 16} -> ReadFixed(c, 2)
           [] OTHER -> Fail(c)

AddrOf(cells) ==
    CASE cells[1] = 0 -> NoAddr
      [] cells[1] = 4 -> [kind |-> "v4", bits |-> cells[2]]
      [] OTHER -> [kind |-> "v6", bits |-> cells[2]]

ReadHeader(cells) ==
    LET c == ReadFixed(ReadAddr(ReadFixed(ReadAddr(ReadFixed(Cursor(cells), 8)), 1)), 1) IN
    IF c.ok /\ c.got[1][1] = 1 /\ c.got[1][3] \in 1 .. 6 /\ c.got[1][4] = 0 THEN c ELSE Fail(c)

Identity(c) ==
    [proto |-> c.got[1][2],
     reason |-> CHOOSE r \in DOMAIN WireReason : WireReason[r] = c.got[1][3],
     snapshot |-> c.got[1][5], id |-> c.got[1][6], first |-> c.got[1][7], last |-> c.got[1][8],
     initiator |-> AddrOf(c.got[2]), initiatorPort |-> c.got[3][1],
     responder |-> AddrOf(c.got[4]), responderPort |-> c.got[5][1]]

Counts == [f \in ToSet(CountsRead) |-> CHOOSE i \in DOMAIN CountsRead : CountsRead[i] = f]

\* cur.done: nothing may follow.
DecodeFlowRecord(cells) ==
    LET c == ReadFixed(ReadHeader(cells), Len(CountsRead)) IN
    IF ~c.ok \/ c.rest # <<>> THEN Error
    ELSE [id |-> Identity(c), counts |-> [f \in DOMAIN Counts |-> c.got[6][Counts[f]]]]

DecodeFeatureRecord(cells) ==
    LET c == ReadFixed(ReadFixed(ReadHeader(cells), 1), Values) IN
    IF ~c.ok \/ c.rest # <<>> THEN Error
    ELSE IF c.got[6][1] # Values THEN Error
    ELSE [id |-> Identity(c), values |-> c.got[7]]

\* KeyOfEndpoints: the lower endpoint comes first.  Rank orders the addresses.
Rank(a) == CASE a.kind = "none" -> 0 [] a.kind = "v4" -> 1 + a.bits
             [] OTHER -> 100 + a.bits
KeyOf(a, pa, b, pb) ==
    IF Rank(a) < Rank(b) \/ (Rank(a) = Rank(b) /\ pa <= pb)
    THEN <<a, pa, b, pb>> ELSE <<b, pb, a, pa>>

-----------------------------------------------------------------------------
(* The identity of a sensor in its session id.  A name is a sequence of     *)
(* cells; Bar and Dash are two of them, Hex stands for the random suffix.   *)

Bar == 1
Dash == 2
Hex == 3
Underscore == 4
SessionWord == 9   \* "session", the suffix where there is no randomness
SessionSuffixes == {[i \in 1 .. Suffix - 1 |-> Hex], <<SessionWord>>}

Sanitise(v) ==
    LET short == Clip(v, MaxField) IN
    [i \in DOMAIN short |-> IF short[i] = Bar THEN Underscore ELSE short[i]]

\* Fields joined with the separator, empty ones at the end dropped, clipped to the budget.
FormatSessionPrefix(fields) ==
    LET clean == [i \in DOMAIN fields |-> Sanitise(fields[i])]
        used == {i \in DOMAIN clean : clean[i] # <<>>}
        last == IF used = {} THEN 0 ELSE CHOOSE i \in used : \A j \in used : j <= i
        joined == FlattenSeq([i \in 1 .. last |-> (IF i > 1 THEN <<Bar>> ELSE <<>>) \o clean[i]])
    IN Clip(joined, Budget)

NewSessionID(prefix, suffix) ==
    Clip(IF prefix = <<>> THEN suffix ELSE prefix \o <<Dash>> \o suffix, MaxText)

\* One trailing dash group comes off: the word, or the suffix's length and alphabet.
StripSessionSuffix(s) ==
    LET dashes == {i \in DOMAIN s : s[i] = Dash}
        at == CHOOSE i \in dashes : \A j \in dashes : j <= i
    IN IF dashes = {} THEN s
       ELSE IF SubSeq(s, at + 1, Len(s)) \in SessionSuffixes THEN SubSeq(s, 1, at - 1) ELSE s

\* The fields of a prefix, split at the separators; those that are missing are empty.
ParseSensorIdentity(session) ==
    LET s == StripSessionSuffix(session)
        bars == SetToSortSeq({i \in DOMAIN s : s[i] = Bar}, <)
        ends == bars \o <<Len(s) + 1>>
        starts == <<1>> \o [i \in DOMAIN bars |-> bars[i] + 1]
    IN [i \in 1 .. 4 |-> IF i > Len(ends) THEN <<>> ELSE SubSeq(s, starts[i], ends[i] - 1)]
=============================================================================
