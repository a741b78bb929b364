----------------------------- MODULE MCReading -----------------------------
(* What the daemon reads, answers, loads and reports, as five machines that do not meet: a
   behaviour is of one of them (machine), the others stay where they begin. *)
EXTENDS Formats, ReadViews, Summaries, Reload, Network

VARIABLE machine

-----------------------------------------------------------------------------
(* Formats: small messages, records, files, chunks and ring blocks. *)

\* Versions, link types and strings around each cap.
Strings == {<<>>, <<5>>, <<5, 6, 5>>}
HelloSet == [version : {1, 2}, link : {0, 101}, token : Strings, sensor : {0, 8}, max : {0, 1, 2, 3}]
AnswerSet ==
    {[code |-> code, version |-> v, link |-> 1, filter |-> filter, session |-> id,
      mode |-> mode, schema |-> SchemaOf(mode)] :
        code \in {0, 2}, v \in {1, 2}, filter \in {<<>>, <<5, 6>>, [i \in 1 .. 9 |-> 5]},
        id \in {<<>>, <<6>>}, mode \in {0, 1, 2}}
Frame(type, payload) == [type |-> type, payload |-> payload]
SessionSet ==
    {<<>>, <<Frame(Goodbye, <<>>)>>,
     <<Frame(Packet, PacketFramePayload(1, <<0, 3>>)), Frame(Keepalive, <<>>), Frame(4, <<1, 2, 3>>)>>}

Addrs == {NoAddr, [kind |-> "v4", bits |-> 3], [kind |-> "v6", bits |-> 3], [kind |-> "mapped", bits |-> 5]}
RecordSet ==
    {[proto |-> 6, reason |-> why, snapshot |-> n, id |-> 11, first |-> 12, last |-> 13, initiator |-> a,
      initiatorPort |-> 14, responder |-> b, responderPort |-> 15,
      values |-> [i \in 1 .. Values |-> 20 + i],
      counts |-> [f \in DOMAIN Counts |-> 40 + Counts[f]]] :
        why \in {"snapshot", "evicted", "lost"}, n \in {0, 2}, a \in Addrs, b \in Addrs}

Names == {<<>>, <<5>>, <<5, Bar>>, <<6, Dash, SessionWord>>, <<Dash, Hex, Hex, Hex>>, <<Underscore, Dash, 6, 7, 8>>}

NG(order, other, packets) ==
    LET blocks == [i \in DOMAIN packets |->
                     IF packets[i].simple THEN Simple(order, packets[i].data)
                     ELSE Enhanced(order, packets[i].iface, packets[i].data)]
    IN [kind |-> "pcapng",
        pieces |-> <<SectionHeader(order), Interface(order, 1, 9), other, Interface(order, 101, 0)>> \o blocks,
        frames |-> <<<<>>, <<>>, <<>>, <<>>>> \o [i \in DOMAIN packets |-> packets[i].data], clean |-> TRUE]

\* one interface more than the reader takes, between two packets
Crowded(order) ==
    [kind |-> "pcapng",
     pieces |-> <<SectionHeader(order), Interface(order, 1, 0), Interface(order, 1, 0), Enhanced(order, 1, <<4, 5>>),
                  Interface(order, 1, 0), Enhanced(order, 0, <<6, 7>>)>>,
     frames |-> <<<<>>, <<>>, <<>>, <<4, 5>>, <<>>, <<>>>>, clean |-> FALSE]

Pcap(order, kind, packets) ==
    [kind |-> "pcap",
     pieces |-> <<PcapHeader(order, kind, 1)>>
        \o FlattenSeq([i \in DOMAIN packets |->
              <<SubSeq(PcapRecord(order, packets[i]), 1, 16), packets[i]>>]),
     frames |-> <<<<>>>> \o FlattenSeq([i \in DOMAIN packets |-> <<<<>>, packets[i]>>]), clean |-> TRUE]

Long == <<1, 2, 3, 4, 5, 6, 7, 8>>
FileSet ==
    {NG(order, IF s THEN Statistics(order) ELSE Custom(order),
        <<[simple |-> s, iface |-> 1, data |-> <<4, 5>>], [simple |-> FALSE, iface |-> 0, data |-> Long]>>) :
        order \in {"LE", "BE"}, s \in BOOLEAN}
    \cup {Crowded(order) : order \in {"LE", "BE"}}
    \cup {Pcap(order, kind, <<<<4, 5>>, Long>>) : order \in {"LE", "BE"}, kind \in {"micro", "nano"}}

ChunkSet ==
    {[kind |-> "chunk", pieces |-> <<ChunkRecord(<<4, 5, 6>>, p, FALSE), ChunkRecord(Long, 0, FALSE), ChunkRecord(<<7>>, p, TRUE)>>,
      frames |-> <<<<4, 5, 6>>, Long, <<7>>>>, clean |-> TRUE] : p \in {0, 2}}

RingSet ==
    {[kind |-> "block",
      pieces |-> <<Word("LE", 2) \o Word("LE", 8 + gap) \o Fill(gap), RingFrame(<<4, 5>>, FALSE), RingFrame(Long, TRUE)>>,
      frames |-> <<<<>>, <<4, 5>>, Long>>, clean |-> TRUE] : gap \in {4}}

Corrupt == {0, 1, 4, 6, 16, 255}

-----------------------------------------------------------------------------
(* ReadViews: requests on up to four versions of flows. *)

Row(id, ts, reason, idx, bytes, class, dis, score) ==
    [id |-> id, ts |-> ts, reason |-> reason, idx |-> idx, bytes |-> bytes, ends |-> {id, 9},
     sensor |-> IF id = 1 THEN "s" ELSE "t", class |-> class, dis |-> dis, score |-> score]
T == TRUE
F == FALSE
\* a long flow with two snapshots, and one more packet of the second's time before its terminal
\* record, beside another flow
LongFlow == <<Row(1, 1, "snapshot", 1, 3, "normal", F, 5), Row(2, 2, "fin", 0, 2, "scan", F, 7),
          Row(1, 2, "snapshot", 2, 5, "scan", F, 9), Row(1, 2, "idle", 2, 6, "normal", T, 3)>>
Mixed == <<Row(3, 3, "fin", 0, 4, "scan", F, 5), Row(1, 1, "fin", 0, 1, "normal", F, 9),
           Row(2, 2, "rst", 0, 2, "normal", T, 2), Row(4, 4, "fin", 0, 3, "dos", T, 2)>>
\* two versions of one time, the oldest of all that is stored
TiedFirst == <<Row(1, 1, "snapshot", 1, 3, "normal", F, 5), Row(1, 1, "idle", 1, 4, "scan", F, 6),
               Row(2, 2, "fin", 0, 2, "scan", F, 7), Row(3, 3, "fin", 0, 4, "scan", F, 5)>>
All == [class |-> None, dis |-> F, sensor |-> None]
Scan == [All EXCEPT !.class = "scan"]
Disputed == [All EXCEPT !.dis = T]
OfS == [All EXCEPT !.sensor = "s"]
Ask(kind, id, host, from, keep, limit, scan) ==
    [kind |-> kind, id |-> id, host |-> host, from |-> from, keep |-> keep, limit |-> limit, scan |-> scan]
Flow(kind) == {Ask(kind, id, None, 0, All, 0, 0) : id \in {1, 2}}
Lists == {Ask("hostflows", 0, host, from, keep, limit, 0) :
            host \in {1, 9}, from \in {0, 2}, keep \in {Scan, Disputed}, limit \in {1, 9}}
         \cup {Ask("flows", 0, None, 0, OfS, 9, 0), Ask("verdicts", 0, 9, 2, Scan, 9, 0)}
Reports == {Ask("report", 0, host, from, keep, limit, scan) :
            host \in {None, 9, 2}, from \in {0, 2}, keep \in {All, Disputed, Scan}, limit \in {2, 4}, scan \in {2, 5}}
Setup(rows, q, cut, models) == [rows |-> rows, ask |-> q, cut |-> cut, models |-> models]
AllSetups ==
    {Setup(rows, q, cut, {}) : rows \in {LongFlow, TiedFirst}, q \in Flow("snapshots"), cut \in {0, 2}}
    \cup {Setup(Remove(LongFlow, LongFlow[k]), q, cut, {"m", "n"}) : k \in {2, 4}, q \in Flow("explain"), cut \in {0, 2}}
    \cup {Setup(rows, q, cut, {}) : rows \in {LongFlow, Mixed}, q \in Lists \cup Reports, cut \in {0, 2, 3}}

-----------------------------------------------------------------------------
(* Summaries: small fleets, windows, scans, queues and stores. *)

\* location 1 comes before the unassigned bucket's name 2, location 3 after it
Sensor(id, place, padded, mode, up, drops) ==
    [id |-> id, session |-> 10 + place, place |-> place, padded |-> padded, mode |-> mode, up |-> up, drops |-> drops]
SomeSensors ==
    {Sensor(0, 1, FALSE, "raw", TRUE, 0), Sensor(4, 1, TRUE, "raw", TRUE, 2), Sensor(5, 3, FALSE, "flow", FALSE, 0),
     Sensor(5, 0, FALSE, "feature", TRUE, 0), Sensor(6, 0, TRUE, "other", TRUE, 0), Sensor(7, 2, FALSE, "raw", TRUE, 0),
     Sensor(8, 3, TRUE, "raw", TRUE, 0)}
FleetSet == UNION {[1..n -> SomeSensors] : n \in 0..3}

WindowRow(ts, a, b) == [ts |-> ts, values |-> <<a, b>>]
WindowRows == {WindowRow(1, 0, 0), WindowRow(2, 4, 0), WindowRow(2, 9, 2), WindowRow(3, 2, 6)}
DriftSet ==
    [rows : UNION {[1..n -> WindowRows] : n \in 0..2}, from : {1, 3},
     base : {NoBase, [mean |-> <<2, 1>>, std |-> <<2, 1>>], [mean |-> <<3, 3>>, std |-> <<0, 5>>]},
     bands : {[warn |-> w, drift |-> d, suggestZ |-> z, suggestN |-> n] : w \in {1, 2}, d \in {1, 2}, z \in {1, 3}, n \in {0, 1, 2}}]

Output(model, class) == [model |-> model, class |-> class, score |-> IF class = "scan" THEN 7 ELSE 4]
Outputs == {Output(1, "scan"), Output(1, "normal"), Output(2, "scan"), Output(2, "normal"), Output(3, "dos")}
ScanRows == UNION {[1..n -> Outputs] : n \in 1..2} \cup {<<Output(3, "dos"), Output(1, "scan"), Output(2, "normal")>>}
ScanSet == {<<>>} \cup [1..2 -> ScanRows]

Waiting(flow, ts, dis, scores) == [flow |-> flow, ts |-> ts, dis |-> dis, scores |-> scores]
QueueRows ==
    {<<Waiting(1, 4, FALSE, <<6, 4>>), Waiting(2, 3, d, s), Waiting(1, 2, TRUE, <<9, 1>>), Waiting(3, 3, FALSE, t), Waiting(0, 1, TRUE, <<5, 5>>)>> :
        d \in BOOLEAN, s \in {<<1, 0>>, <<30, 20>>, <<0, 0>>, <<-1, 7>>}, t \in {<<6, 5>>, <<1, 2>>, <<70, 30>>}}
QueueSet ==
    [rows : QueueRows, states : [0..3 -> {"unreviewed", "unsure", "correct"}],
     by : {"recent", "uncertainty", "disagreement"}, limit : {0, 1, 2}]

Verdict(flow, ts, class, dis, score) == [flow |-> flow, ts |-> ts, class |-> class, dis |-> dis, score |-> score]
Scanned ==
    {<<Verdict(3, 4, c, TRUE, 5), Verdict(1, 3, "scan", FALSE, 9), Verdict(2, 3, d, TRUE, 5),
       Verdict(1, 2, "normal", TRUE, 3), Verdict(4, 1, "normal", FALSE, 9)>> :
        <<c, d>> \in {<<"scan", "scan">>, <<"other", "scan">>, <<"other", "normal">>}}
Columns == [port |-> 2, tcp |-> 3, udp |-> 4, icmp |-> 5]
Record(v, port, bits) == <<v, port>> \o bits
\* the first column runs from 4 to 10 or from 0 to 10; 6 is an inner edge of three bins from 4 to 10
FlowSets ==
    {[f \in {1, 2, 3, 4} \ gone |-> CASE f = 1 -> Record(a, 8, <<1, 0, 0>>) [] f = 2 -> Record(6, 5, <<0, 1, 0>>)
                                      [] f = 3 -> Record(4, 8, <<1, 0, 0>>) [] f = 4 -> Record(10, 2, <<0, 0, 0>>)] :
        gone \in {{}, {3}}, a \in {4, NotFinite}}
Sel(from, dis, min, limit, scan) == [from |-> from, dis |-> dis, min |-> min, limit |-> limit, scan |-> scan]
CutSet ==
    [verdicts : Scanned, flows : FlowSets,
     sel : {Sel(0, FALSE, 0, 0, 0), Sel(2, FALSE, 0, 0, 0), Sel(0, TRUE, 0, 0, 0), Sel(0, FALSE, 4, 3, 0),
            Sel(0, FALSE, 0, 3, 0), Sel(0, FALSE, 0, 0, 4), Sel(0, FALSE, 4, 0, 4)}]

-----------------------------------------------------------------------------
(* Reload: files, environments and command lines. *)

None0 == [s \in {} |-> 0]
MCFiles ==
    {Unreadable, None0, "logging.level" :> 1, "alerts.policy" :> 1, "logging.level" :> Bad @@ "alerts.policy" :> 2,
     "logging.level" :> 2 @@ "alerts.policy" :> 2 @@ "logging.format" :> 1, "server" :> 1 @@ "drift" :> 1, "alerts.per_class.scan" :> 9,
     "alerts.max_recent" :> 1 @@ "auth" :> Bad}
MCEnvs == {None0, "logging.level" :> 3}
MCFlags == {None0, "server" :> 2}

-----------------------------------------------------------------------------
(* Network: graphs of up to three nodes. *)

Node(op, in, out) ==
    [op |-> op, in |-> in, out |-> out, transA |-> FALSE, transB |-> FALSE, axis |-> Undeclared, value |-> Undeclared]
Stored(name, dims, count, ints) == [name |-> name, dims |-> dims, count |-> count, ints |-> ints, type |-> "float32"]
Turn(n) == [n EXCEPT !.transB = TRUE]

\* w2x3 and w3x2 are layers, b a bias, c a wide one, s the operand of a Reshape, k a scalar
StoredTensors ==
    <<Stored("w2x3", <<2, 3>>, 6, <<>>), Stored("w3x2", <<3, 2>>, 6, <<>>), Stored("b", <<3>>, 3, <<>>),
      Stored("c", <<2, 3>>, 6, <<>>), Stored("s", <<2>>, 2, <<-1, 1>>), Stored("k", <<>>, 1, <<>>)>>

Pool ==
    {Node("Gemm", <<"x", "w2x3", "b">>, <<"h">>), Turn(Node("Gemm", <<"x", "w3x2">>, <<"h">>)),
     [Node("Gemm", <<"x", "w2x3">>, <<"h">>) EXCEPT !.transA = TRUE],
     Node("MatMul", <<"h", "w3x2">>, <<"g">>), Node("MatMul", <<"x", "w2x3">>, <<"y">>),
     Turn(Node("Gemm", <<"g", "w3x2", "c">>, <<"y">>)), Node("Relu", <<"h">>, <<"y">>), Node("Relu", <<"x">>, <<"x">>),
     Node("Softmax", <<"h">>, <<"y">>), Node("Add", <<"x", "g">>, <<"y">>), Node("Add", <<"h", "c">>, <<"y">>),
     Node("Reshape", <<"h", "s">>, <<"y">>), [Node("Flatten", <<"h">>, <<"g">>) EXCEPT !.axis = 0],
     Node("Dropout", <<"h">>, <<"g", "mask">>), Node("Add", <<"g", "mask">>, <<"y">>),
     Node("BatchNormalization", <<"h", "b", "b", "b", "b">>, <<"y">>), Node("MatMul", <<"y", "w3x2">>, <<"h">>),
     Node("Identity", <<"k">>, <<"y">>)}
Odd == {[Node("Constant", <<>>, <<"s">>) EXCEPT !.value = Stored("", <<1>>, 1, <<3>>)],
        [Node("Constant", <<>>, <<"s">>) EXCEPT !.value = Stored("", <<2>>, 1, <<3>>)], Node("Conv", <<"x">>, <<"y">>)}

Graph(family, nodes, in, out) ==
    [family |-> family, inits |-> StoredTensors, nodes |-> nodes,
     inputs |-> <<[name |-> "x", shape |-> in]>>, outputs |-> <<[name |-> "y", shape |-> out]>>]
NetworkSet ==
    {Graph(f, <<a, b>>, in, out) : f \in {"flow-classifier-v1"}, a \in Pool \cup Odd, b \in Pool,
        in \in {Undeclared, <<2, 2>>}, out \in {Undeclared, <<0, 3>>}}
    \cup {Graph(f, <<a, b>>, <<0, 2>>, out) : f \in {"flow-anomaly-v1", "flow-sequence-v1"},
        a, b \in {n \in Pool : n.in[1] \in {"x", "h"}}, out \in {Undeclared, <<0, 2>>}}
    \cup {Graph("flow-classifier-v1", p, Undeclared, Undeclared) :
             p \in UNION {{<<a, b, c>>, <<c, b, a>>, <<b, c, a>>} : a \in {n \in Pool : n.in[1] = "x"}, b \in Pool,
                                                                c \in {n \in Pool : n.out = <<"y">>}}}
    \cup {[Graph("flow-classifier-v1", <<a>>, Undeclared, Undeclared) EXCEPT !.outputs = o, !.inputs = @ \o i] :
            a \in Pool, o \in {<<>>, <<[name |-> "", shape |-> Undeclared]>>, <<[name |-> "h", shape |-> Undeclared]>>},
            i \in {<<>>, <<[name |-> "b", shape |-> Undeclared]>>, <<[name |-> "z", shape |-> Undeclared]>>}}
    \cup {[Graph("flow-classifier-v1", <<Node("Identity", <<"x">>, <<"y">>)>>, Undeclared, Undeclared) EXCEPT
             !.inits = <<Stored(n, d, 2, <<>>)>>] : n \in {"", "w"}, d \in {<<2>>, <<3>>, <<-1>>}}
AnyNetwork == Graph("flow-classifier-v1", <<Node("MatMul", <<"x", "w2x3">>, <<"y">>)>>, Undeclared, Undeclared)

-----------------------------------------------------------------------------
MCInit ==
    /\ machine \in {"formats", "views", "summaries", "reload", "networks"}
    /\ FormatsInit /\ SummariesInit
    /\ (machine # "views" => setup = CHOOSE s \in Setups : TRUE) /\ ReadInit
    /\ (machine # "reload" => file = NoPath /\ env = None0 /\ flags = None0) /\ ReloadInit
    /\ IF machine = "networks" THEN NetworkInit ELSE network = AnyNetwork /\ Unread

MCNext ==
    /\ UNCHANGED machine
    /\ \/ machine = "formats" /\ FormatsNext /\ UNCHANGED <<readVars, summaryVars, reloadVars, networkVars>>
       \/ machine = "views" /\ ReadNext /\ UNCHANGED <<formatVars, summaryVars, reloadVars, networkVars>>
       \/ machine = "summaries" /\ SummariesNext /\ UNCHANGED <<formatVars, readVars, reloadVars, networkVars>>
       \/ machine = "reload" /\ ReloadNext /\ UNCHANGED <<formatVars, readVars, summaryVars, networkVars>>
       \/ machine = "networks" /\ NetworkNext /\ UNCHANGED <<formatVars, readVars, summaryVars, reloadVars>>

MCSpec == MCInit /\ [][MCNext]_<<formatVars, readVars, summaryVars, reloadVars, networkVars, machine>>
=============================================================================
