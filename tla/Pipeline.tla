------------------------------ MODULE Pipeline ------------------------------
(***************************************************************************)
(* pipeline.Run (internal/pipeline/pipeline.go), the one goroutine between *)
(* the capture sources and remote sensors on one side and the flow store,  *)
(* the sequence windows and the insight index on the other, with what runs *)
(* beside it in the daemon (cmd/synapsed/main.go): the index's aggregator, *)
(* the retention sweep, a change of the sequence models, the shutdown.     *)
(* The flow table is taken for what the pipeline sees of it: a packet may  *)
(* make it emit a record, Flush makes it emit every open flow.             *)
(*                                                                         *)
(* The sequence windows (seqwindow.go) keep per conversation the last      *)
(* WindowLen feature vectors, read by a sequence model; a table of at most *)
(* WindowCap conversations, whose least recently updated quarter goes when *)
(* a new one comes.  Touched by the pipeline goroutine only.               *)
(***************************************************************************)
EXTENDS MemStore, Insight

CONSTANTS
    Setups,             \* a setup: what the sensors send, how many packets of which conversations come, what else may happen
    RecordsCap,         \* sensorRecords
    WindowLen,          \* schema.SequenceLenV1
    WindowCap,          \* seqWindows.cap (16 at least in the code)
    FirstTime, MaxTime  \* bound: timestamps; the first is past every ring's bucket 0

ASSUME WindowAssumption == WindowLen \in Nat \ {0} /\ WindowCap \in Nat \ {0}
ASSUME SetupsAssumption ==
    /\ FirstTime \in Nat \ {0} /\ MaxTime \in Nat
    /\ \A s \in Setups :
        /\ s.feed \in Seq([number : Nat, mode : {"flow", "neither"}, conv : DOMAIN Initiator, ts : Nat,
                           terminal : BOOLEAN, bytes : Nat])
        /\ \A k \in DOMAIN s.feed : s.feed[k].number = k
        /\ s.packets \in Nat /\ s.convs \subseteq DOMAIN Initiator
        /\ 1..(s.packets + Len(s.feed)) \subseteq Ids

VARIABLES
    windows,            \* conversation -> [buf, next, fill, lastSeen], for the ones in the table
    seqEvicted,
    setup,
    records, accepting, \* the channel of sensor records; opt.Records is not nil
    sent,               \* how many the sensors have put on it
    pc,                 \* "select", "drain", "flush", "done"
    todo, stage,        \* the rows being published and where their head is in publish
    table,              \* conversation -> its open flow [id, bytes, ts]
    clock, packets,
    nextId,             \* the daemon's flow id allocator
    rejected,
    cancelled,
    seqModels           \* is a sequence model live?

-----------------------------------------------------------------------------
(* The sequence windows. *)

windowVars == <<windows, seqEvicted>>
WindowsInit == windows = <<>> /\ seqEvicted = 0

NewRing == [buf |-> [i \in 0..(WindowLen - 1) |-> 0], next |-> 0, fill |-> 0, lastSeen |-> 0]

Target == Max({WindowCap - WindowCap \div 4, 1})

\* the lastSeen at index n - Target of the ascending list of all n of them
Cutoff(m) ==
    CHOOSE t \in {m[k].lastSeen : k \in DOMAIN m} :
        /\ Cardinality({k \in DOMAIN m : m[k].lastSeen < t}) <= Cardinality(DOMAIN m) - Target
        /\ Cardinality({k \in DOMAIN m : m[k].lastSeen <= t}) > Cardinality(DOMAIN m) - Target

PrunedToCut(m) ==   \* mutant: the cut itself goes as well
    {k \in DOMAIN m : m[k].lastSeen <= Cutoff(m)}

\* prune: strictly older than the cutoff, so equal times keep each other
Pruned(m) == {k \in DOMAIN m : m[k].lastSeen < Cutoff(m)}

WriteRing(r, v, at) ==
    [buf |-> [r.buf EXCEPT ![r.next] = v], next |-> (r.next + 1) % WindowLen,
     fill |-> Min({r.fill + 1, WindowLen}), lastSeen |-> at]

\* The ring's contents oldest first.
Contents(r) == [i \in 1..r.fill |-> r.buf[(r.next - r.fill + WindowLen + i - 1) % WindowLen]]

Push(key, v, at) ==
    LET known == key \in DOMAIN windows
        out == IF known \/ Cardinality(DOMAIN windows) < WindowCap THEN {} ELSE Pruned(windows)
        kept == Restrict(windows, DOMAIN windows \ out)
        ring == IF known THEN windows[key] ELSE NewRing
    IN /\ windows' = [k \in DOMAIN kept \cup {key} |-> IF k = key THEN WriteRing(ring, v, at) ELSE kept[k]]
       /\ seqEvicted' = seqEvicted + Cardinality(out)

-----------------------------------------------------------------------------
(* The pipeline and what runs beside it. *)

inputs == <<records, accepting, sent>>
work == <<todo, stage, nextId, rejected>>
flowTable == <<table, clock, packets>>
beside == <<setup, cancelled, seqModels>>
pipeVars == <<pc, inputs, work, flowTable, beside>>
vars == <<storeVars, windowVars, insightVars, pipeVars>>

Init ==
    /\ StoreInit /\ WindowsInit /\ InsightInit
    /\ setup \in Setups
    /\ records = <<>> /\ accepting = TRUE /\ sent = 0
    /\ pc = "select" /\ todo = <<>> /\ stage = "store"
    /\ table = <<>> /\ clock = FirstTime /\ packets = 0
    /\ nextId = 1 /\ rejected = 0 /\ cancelled = FALSE /\ seqModels = setup.seq

Sensors ==
    /\ sent < Len(setup.feed) /\ Len(records) < RecordsCap
    /\ records' = Append(records, setup.feed[sent + 1]) /\ sent' = sent + 1
    /\ UNCHANGED <<work, flowTable, beside, accepting, pc>>
    /\ UNCHANGED <<storeVars, windowVars, insightVars>>

-----------------------------------------------------------------------------
(* publish: store it, announce it, score it, store and announce the verdict, hand it on *)

\* the model reads nothing but the features
Verdict(row) == row.bytes % 2

StoreRow ==
    /\ todo # <<>> /\ stage = "store" /\ stage' = "score"
    /\ PutFlow(Head(todo))
    /\ UNCHANGED <<inputs, flowTable, beside, pc, todo, nextId, rejected>>
    /\ UNCHANGED <<windowVars, insightVars>>

ScoreRow ==
    /\ todo # <<>> /\ stage = "score" /\ stage' = "notify"
    /\ LET row == Head(todo)
       IN /\ IF seqModels THEN Push(row.conv, flowSeq, row.ts) ELSE UNCHANGED windowVars
          /\ PutClassification([id |-> row.id, ts |-> row.ts, conv |-> row.conv, class |-> Verdict(row)])
    /\ UNCHANGED <<inputs, flowTable, beside, pc, todo, nextId, rejected>>
    /\ UNCHANGED insightVars

\* observationOf
ObservationOf(row) ==
    [id |-> row.id, conv |-> row.conv, terminal |-> row.terminal, ts |-> row.ts, bytes |-> row.bytes, class |-> Verdict(row)]

Notify ==
    /\ todo # <<>> /\ stage = "notify" /\ stage' = "store"
    /\ Observe(ObservationOf(Head(todo))) /\ todo' = Tail(todo)
    /\ UNCHANGED <<inputs, flowTable, beside, pc, nextId, rejected>>
    /\ UNCHANGED <<storeVars, windowVars>>

Publish == StoreRow \/ ScoreRow \/ Notify

-----------------------------------------------------------------------------
(* The select loop *)

Quiet == UNCHANGED <<storeVars, windowVars, insightVars>>
At(label) == pc = label /\ todo = <<>>

\* A row of the flow table, and one of a sensor's record under a new id.
TableRow(c, f, terminal) ==
    [id |-> f.id, conv |-> c, terminal |-> terminal, ts |-> f.ts, bytes |-> f.bytes, from |-> 0]

RecordRow(r) ==
    [id |-> nextId, conv |-> r.conv, terminal |-> r.terminal, ts |-> r.ts, bytes |-> r.bytes, from |-> r.number]

OnRecord(r) ==
    IF r.mode = "neither"
    THEN rejected' = rejected + 1 /\ UNCHANGED <<todo, nextId>>
    ELSE todo' = <<RecordRow(r)>> /\ nextId' = nextId + 1 /\ UNCHANGED rejected

TakeRecord ==
    /\ At("select") /\ accepting /\ records # <<>>
    /\ OnRecord(Head(records)) /\ records' = Tail(records)
    /\ UNCHANGED <<flowTable, beside, accepting, sent, pc, stage>> /\ Quiet

\* The record input is closed: packets go on.
RecordsEnd ==
    /\ At("select") /\ accepting /\ "close" \in setup.may
    /\ sent = Len(setup.feed) /\ records = <<>> /\ accepting' = FALSE
    /\ UNCHANGED <<work, flowTable, beside, records, sent, pc>> /\ Quiet

Folded(c, t) ==
    IF c \in DOMAIN table THEN [table EXCEPT ![c] = [id |-> table[c].id, bytes |-> table[c].bytes + 1, ts |-> t]]
    ELSE [x \in DOMAIN table \cup {c} |-> IF x = c THEN [id |-> nextId, bytes |-> 1, ts |-> t] ELSE table[x]]

\* Observe and Tick: nothing comes out, or one flow, closed or as a snapshot.
TakePacket ==
    /\ At("select") /\ packets < setup.packets
    /\ \E c \in setup.convs, t \in {clock, clock + 1} :
        /\ t <= MaxTime /\ clock' = t /\ packets' = packets + 1
        /\ nextId' = IF c \in DOMAIN table THEN nextId ELSE nextId + 1
        /\ LET tbl == Folded(c, t)
           IN \/ table' = tbl /\ UNCHANGED todo
              \/ \E d \in DOMAIN tbl :
                  \/ todo' = <<TableRow(d, tbl[d], TRUE)>> /\ table' = Restrict(tbl, DOMAIN tbl \ {d})
                  \/ todo' = <<TableRow(d, tbl[d], FALSE)>> /\ table' = tbl
    /\ UNCHANGED <<inputs, beside, pc, stage, rejected>> /\ Quiet

\* ctx.Done, an error on errc, or the packet channel closed: the loop ends whatever is still queued
LeaveLoop ==
    /\ At("select") /\ (cancelled \/ "end" \in setup.may)
    /\ pc' = IF accepting THEN "drain" ELSE "flush"
    /\ UNCHANGED <<inputs, work, flowTable, beside>> /\ Quiet

DrainRecord ==
    /\ At("drain") /\ records # <<>>
    /\ OnRecord(Head(records)) /\ records' = Tail(records)
    /\ UNCHANGED <<flowTable, beside, accepting, sent, pc, stage>> /\ Quiet

DrainWaits ==   \* mutant: no default arm, the drain ends when the sensors have
    /\ At("drain") /\ records = <<>> /\ sent = Len(setup.feed) /\ "close" \in setup.may
    /\ pc' = "flush"
    /\ UNCHANGED <<inputs, work, flowTable, beside>> /\ Quiet

\* the default arm
DrainEnds ==
    /\ At("drain") /\ records = <<>> /\ pc' = "flush"
    /\ UNCHANGED <<inputs, work, flowTable, beside>> /\ Quiet

\* tbl.Flush: every open flow, oldest first
Flush ==
    /\ At("flush") /\ pc' = "done"
    /\ LET ids == [i \in 1..(nextId - 1) |-> i]
           open == Kept(ids, {table[c].id : c \in DOMAIN table})
           flow(id) == CHOOSE c \in DOMAIN table : table[c].id = id
       IN todo' = [i \in DOMAIN open |-> TableRow(flow(open[i]), table[flow(open[i])], TRUE)]
    /\ table' = <<>>
    /\ UNCHANGED <<inputs, beside, stage, clock, packets, nextId, rejected>> /\ Quiet

PipelineStep ==
    \/ Publish \/ TakeRecord \/ RecordsEnd \/ TakePacket
    \/ LeaveLoop \/ DrainRecord \/ DrainEnds \/ Flush

-----------------------------------------------------------------------------
(* Beside it *)

\* retentionSweeper.sweep with windows configured for flows, verdicts or both; it shares
\* nothing with the aggregator, nor with Notify, so it is enough to let it go when both are through
Sweep ==
    /\ "sweep" \in setup.may /\ queue = <<>> /\ stage # "notify"
    /\ \E t \in FirstTime..(MaxTime + 1) : PurgeBefore(t, 0) \/ PurgeBefore(0, t) \/ PurgeBefore(t, t)
    /\ UNCHANGED <<windowVars, insightVars, pipeVars>>

ToggleModels ==
    /\ "models" \in setup.may /\ seqModels' = ~seqModels
    /\ UNCHANGED <<inputs, work, flowTable, setup, pc, cancelled>> /\ Quiet

Cancel ==
    /\ "stop" \in setup.may /\ ~cancelled /\ cancelled' = TRUE
    /\ UNCHANGED <<inputs, work, flowTable, setup, pc, seqModels>> /\ Quiet

\* main closes the index 50 ms after the sources, without asking the pipeline.
CloseInsight == cancelled /\ CloseIndex /\ UNCHANGED <<storeVars, windowVars, pipeVars>>

Aggregate == (Apply \/ Quit) /\ UNCHANGED <<storeVars, windowVars, pipeVars>>

Next == Sensors \/ PipelineStep \/ Sweep \/ ToggleModels \/ Cancel \/ CloseInsight \/ Aggregate

Spec ==
    /\ Init /\ [][Next]_vars
    /\ WF_vars(PipelineStep) /\ WF_vars(Aggregate) /\ WF_vars(CloseInsight)

-----------------------------------------------------------------------------
(* Properties *)

TheLog == Reverse(RecentFlows)
AbstractLog == {[seq |-> v.seq, rec |-> v.rec, listed |-> v \in Range(hist[v.rec.id])] : v \in Range(TheLog)}
Log == INSTANCE FlowLog WITH
    log <- AbstractLog, stored <- flowSeq,
    offered <- IF todo # <<>> /\ stage = "store" THEN {Head(todo)} ELSE {}

\* Ring and histories of the store implement the log of FlowLog, whatever order the
\* pipeline's rows and the retention sweep come in.
ImplementsLog == Log!Spec

VersionsOf(id) == Kept(TheLog, {i \in DOMAIN TheLog : TheLog[i].rec.id = id})
Unlisted == {v \in Range(TheLog) : v \notin Range(hist[v.rec.id])}

\* A flow's history is a suffix of its versions in the ring, not empty while the ring
\* holds one, within its cap; every record ever put is in the ring, evicted or expired
\* (comment of dropVersion, FlowHistoryCap, Stats).
HistoryIsRingSuffix ==
    /\ \A id \in Ids :
        /\ IsSuffix(hist[id], VersionsOf(id))
        /\ hist[id] = <<>> => VersionsOf(id) = <<>>
        /\ Len(hist[id]) <= HistCap
    /\ flowSeq = RingLen(flows) + evicted + expired
    /\ Cardinality(Unlisted) <= dropped

\* Ids are the daemon's own: the versions under one id are one flow's, and nothing
\* follows its terminal record; every row gets one verdict, in order, under its id
\* (CLAUDE.md rule quoted at nextID; publish).
OneFlowPerId ==
    /\ \A i, j \in DOMAIN TheLog :
        LET a == TheLog[i].rec  b == TheLog[j].rec
        IN i < j /\ a.id = b.id => a.conv = b.conv /\ a.from = b.from /\ ~a.terminal
    /\ RingLen(cls) + clsGone = IF todo # <<>> /\ stage = "score" THEN flowSeq - 1 ELSE flowSeq
    /\ evicted + expired + clsGone = 0 =>
        \A i \in 1..RingLen(cls) : Reverse(RecentClassifications)[i].id = TheLog[i].rec.id

Numbers(s) == {s[i].number : i \in DOMAIN s}
FromRows == {todo[i].from : i \in DOMAIN todo} \cup {TheLog[i].rec.from : i \in DOMAIN TheLog}

\* A record a sensor handed over is in the channel, rejected, or a row - once.
RecordsSettle ==
    evicted + expired = 0 =>
        /\ \A k \in 1..sent :
            setup.feed[k].mode # "neither" =>
                (k \in Numbers(records)) # (k \in FromRows)
        /\ \A i, j \in DOMAIN TheLog : i < j /\ TheLog[j].rec.from > 0 => TheLog[i].rec.from < TheLog[j].rec.from
        /\ rejected = Cardinality({k \in 1..sent : setup.feed[k].mode = "neither" /\ k \notin Numbers(records)})

-----------------------------------------------------------------------------

HandedLate == IF todo # <<>> /\ stage # "store" THEN 1 ELSE 0   \* a row stored and not yet handed on

\* Nothing on its way to the index, nothing lost on the way, and the store still whole.
CaughtUp == todo = <<>> /\ queue = <<>> /\ unqueued = 0 /\ evicted + expired + clsGone = 0

Rows(test(_)) == {i \in DOMAIN TheLog : test(TheLog[i].rec)}
BytesOf(is) == MapThenSumSet(LAMBDA i : TheLog[i].rec.bytes, is)
PairOf(r) == <<Initiator[r.conv], Responder[r.conv]>>
Touches(r, ip) == ip \in {Initiator[r.conv], Responder[r.conv]}

CellTruth(k) ==
    LET closed == Rows(LAMBDA r : r.terminal /\ PairOf(r) = k)
    IN [flows |-> Cardinality(closed), bytes |-> BytesOf(closed), verdicts |-> Cardinality(Rows(LAMBDA r : PairOf(r) = k))]

AtMost(a, b) == \A f \in DOMAIN a : a[f] <= b[f]

CounterSound(c, truth, keys) ==
    /\ \A k \in DOMAIN c : c[k] <= truth[k]
    /\ Cardinality(DOMAIN c) <= MaxKeys
    /\ Cardinality({k \in keys : truth[k] > 0}) <= MaxKeys => \A k \in keys : truth[k] > 0 => k \in DOMAIN c /\ c[k] = truth[k]

PeerOf(r, ip) == IF Initiator[r.conv] = ip THEN Responder[r.conv] ELSE Initiator[r.conv]

HostExact(ip) ==
    LET h == hosts[ip]
        closed == Rows(LAMBDA r : r.terminal /\ Touches(r, ip))
        out == Rows(LAMBDA r : r.terminal /\ Initiator[r.conv] = ip)
        recents == SelectSeq(RecentFlows, LAMBDA v : v.rec.terminal /\ Touches(v.rec, ip))
    IN /\ h.initiated = Cardinality(out) /\ h.responded = Cardinality(closed \ out)
       /\ h.bytesOut = BytesOf(out) /\ h.bytesIn = BytesOf(closed \ out)
       /\ h.verdicts = Cardinality(Rows(LAMBDA r : Touches(r, ip)))
       /\ h.lastSeen = Max({TheLog[i].rec.ts : i \in Rows(LAMBDA r : Touches(r, ip))})
       /\ Len(h.recent) = Min({RecentCap, Len(recents)})
       /\ \A i \in DOMAIN h.recent : RecentNewestFirst(h)[i] = recents[i].rec.id
       /\ CounterSound(h.ports, [p \in Range(Port) |-> Cardinality({i \in closed : Port[TheLog[i].rec.conv] = p})], Range(Port))
       /\ CounterSound(h.peers, [p \in Range(Initiator) \cup Range(Responder) |->
                                   Cardinality({i \in closed : PeerOf(TheLog[i].rec, ip) = p})], Range(Initiator) \cup Range(Responder))

\* Once the index has caught up, its matrix and its profiles say what a scan of the
\* store says - exactly for what was never evicted, never more for what was - within
\* their caps, and no observation is unaccounted for (matrix.go, "A false Partial
\* means these pairs are everything the daemon saw in scope").
ViewsAgree ==
    /\ observed + unqueued + Len(queue) + HandedLate = flowSeq
    /\ Cardinality(DOMAIN pairs) <= MaxPairs /\ Cardinality(DOMAIN hosts) <= MaxHosts
    /\ CaughtUp =>
        /\ \A k \in DOMAIN pairs : AtMost(pairs[k], CellTruth(k))
        /\ ~Partial => \A i \in DOMAIN TheLog :
                         LET k == PairOf(TheLog[i].rec) IN k \in DOMAIN pairs /\ pairs[k] = CellTruth(k)
        /\ hostsEvicted = 0 =>
            /\ \A i \in DOMAIN TheLog : \A ip \in {Initiator[TheLog[i].rec.conv], Responder[TheLog[i].rec.conv]} : ip \in DOMAIN hosts
            /\ \A ip \in DOMAIN hosts : HostExact(ip)

\* Within its window every ring shows each bucket's verdicts, all of them and no others,
\* the same as bucketing the stored verdicts ("exact within its window", timeline.go);
\* what is missing is counted late.
TimelineExact ==
    CaughtUp =>
        \A i \in DOMAIN rings :
            LET shown == Series(i)
                samples == BucketSamples(RecentClassifications, RingShapes[i].width)
                window == {b \in DOMAIN samples : b > rings[i].newest - RingShapes[i].len * RingShapes[i].width}
            IN /\ DOMAIN shown \cap DOMAIN samples = window
               /\ \A b \in DOMAIN shown :
                    /\ shown[b].total = IF b \in window THEN samples[b] ELSE 0
                    /\ shown[b].total = SumFunction(shown[b].byClass)
               /\ rings[i].late <= Cardinality({v \in 1..RingLen(cls) : Bucket(RecentClassifications[v].ts, RingShapes[i].width) \notin window})

-----------------------------------------------------------------------------

LastUpTo(n, s) == IF Len(s) <= n THEN s ELSE SubSeq(s, Len(s) - n + 1, Len(s))
Remembered(c) == IF c \in DOMAIN windows THEN Contents(windows[c]) ELSE <<>>
EquallyIdle(c) == {k \in DOMAIN windows : windows[k].lastSeen = windows[c].lastSeen}

WindowsRemembered ==
    /\ \A c \in DOMAIN windows' :
        \/ c \in DOMAIN windows /\ windows'[c] = windows[c]
        \/ Contents(windows'[c]) = LastUpTo(WindowLen, Append(Remembered(c), flowSeq))
    /\ LET gone == DOMAIN windows \ DOMAIN windows'
       IN /\ seqEvicted' = seqEvicted + Cardinality(gone)
          /\ gone # {} => Cardinality(gone) <= Cardinality(DOMAIN windows) - Target
          /\ \A g \in gone, k \in DOMAIN windows \cap DOMAIN windows' : windows[g].lastSeen < windows[k].lastSeen
    /\ Cardinality(DOMAIN windows') > WindowCap =>
        \/ DOMAIN windows' = DOMAIN windows
        \/ \E c \in DOMAIN windows : Cardinality(EquallyIdle(c)) > WindowCap \div 4

\* A conversation's window is its last WindowLen vectors since it was last dropped; only
\* conversations idle for longer than all that stay are dropped, about a quarter, counted; a new
\* one takes the table past its cap only when more than a quarter of the cap is equally idle.
WindowsRemember == [][WindowsRemembered]_vars

-----------------------------------------------------------------------------

\* After a cancellation the pipeline ends with every open flow published, though sensors
\* may go on sending, and Close of the index returns though the pipeline still feeds it
\* (main.go's shutdown, the drain's default arm).
PipelineStops == cancelled ~> At("done") /\ table = <<>> /\ aggregator = "stopped"

\* insight.go says of Close: "Observe after Close is a counted drop".
CountedAfterClose == [][aggregator = "stopped" => queue' = queue]_vars

\* The store is the record of what was published: a history is the end of what the ring holds of
\* a flow, an id is one flow, and a record published is stored or counted as gone.
StoreIsTheRecord == HistoryIsRingSuffix /\ OneFlowPerId /\ RecordsSettle

\* Two views of one stream agree: the store's and the insight index's, and the timeline is exact.
ViewsTellTheSame == ViewsAgree /\ TimelineExact

=============================================================================
