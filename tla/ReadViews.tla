------------------------------ MODULE ReadViews ------------------------------
(***************************************************************************)
(* The read side of the API over the record store: a flow's snapshots      *)
(* (flow_snapshots.go), the explanation of its verdict (flows.go), filtered *)
(* flow lists (hosts.go, api.go) and the investigation report (report.go). *)
(* No handler sees the store at one moment: each reads it, the runtime and *)
(* the registry one lock at a time, while the pipeline publishes versions  *)
(* and verdicts, the sweeper purges and an operator activates models.  One *)
(* request is followed from its first read to its answer.                  *)
(***************************************************************************)
EXTENDS MemStore

CONSTANTS
    Setups,     \* [rows, ask, cut, models]: the versions the pipeline publishes in order,
                \* the request, the sweep's cutoff (0: no sweep), models that get activated
    Heuristic,
    HostScanLimit   \* hostScanLimit and classFilterScan: how many of the newest rows a filter looks at

\* The flow table never takes back a flow's last-seen time or counters; packets of one
\* time make two versions seen last at one time with different counters.
ASSUME RowsAssumption ==
    /\ HostScanLimit \in Nat \ {0}
    /\ \A s \in Setups : \A i, j \in DOMAIN s.rows :
        i < j /\ s.rows[i].id = s.rows[j].id => s.rows[i].ts <= s.rows[j].ts /\ s.rows[i].bytes <= s.rows[j].bytes

VARIABLES
    setup,
    stored,         \* rows whose version is in the store
    verdicts,       \* every verdict put, in order
    loaded,         \* the runtime's primary model
    active,         \* the registry's active primary entry, None: none
    req             \* the request: where its handler is, and what it has read

readVars == <<storeVars, setup, stored, verdicts, loaded, active, req>>

ask == setup.ask

ReadInit ==
    /\ StoreInit /\ setup \in Setups
    /\ stored = 0 /\ verdicts = <<>>
    /\ loaded = Heuristic /\ active = None
    /\ req = [step |-> "asked", since |-> 0, hist |-> <<>>, scan |-> <<>>, live |-> None,
              rows |-> <<>>, listed |-> <<>>, notes |-> {}, partial |-> FALSE]

-----------------------------------------------------------------------------
(* around the handlers *)

\* publish: the version, and in a later step its verdict by the model then loaded
PublishFlow ==
    /\ stored < Len(setup.rows) /\ stored = Len(verdicts)
    /\ PutFlow(setup.rows[stored + 1]) /\ stored' = stored + 1
    /\ UNCHANGED <<setup, verdicts, loaded, active, req>>

PublishVerdict ==
    /\ stored > Len(verdicts)
    /\ LET c == setup.rows[stored] @@ [model |-> loaded, row |-> stored]
       IN PutClassification(c) /\ verdicts' = Append(verdicts, c)
    /\ UNCHANGED <<setup, stored, loaded, active, req>>

Sweep ==
    /\ setup.cut > 0 /\ PurgeBefore(setup.cut, setup.cut)
    /\ UNCHANGED <<setup, stored, verdicts, loaded, active, req>>

\* Activate, Deactivate: the registry's entry first, the runtime after it.
SetStatus ==
    /\ loaded = (IF active = None THEN Heuristic ELSE active)
    /\ active' \in (setup.models \cup {None}) \ {active}
    /\ setup.models # {}
    /\ UNCHANGED <<storeVars, setup, stored, verdicts, loaded, req>>

ActivateRole ==
    /\ loaded # (IF active = None THEN Heuristic ELSE active)
    /\ loaded' = (IF active = None THEN Heuristic ELSE active)
    /\ UNCHANGED <<storeVars, setup, stored, verdicts, active, req>>

-----------------------------------------------------------------------------
(* the handlers *)

Reads == UNCHANGED <<storeVars, setup, stored, verdicts, loaded, active>>
At(kind, step) == ask.kind = kind /\ req.step = step
First(n, s) == SubSeq(s, 1, IF n = 0 THEN Len(s) ELSE Min({n, Len(s)}))

HistoryOf(id) == [i \in DOMAIN hist[id] |-> hist[id][i].rec]

\* handleFlowSnapshots and handleFlowExplain begin alike: 404 without a history.
ReadHistory ==
    /\ ask.kind \in {"snapshots", "explain"} /\ req.step = "asked"
    /\ req' = [req EXCEPT !.since = Len(verdicts), !.hist = HistoryOf(ask.id),
                          !.step = IF hist[ask.id] = <<>> THEN "404" ELSE "history"]
    /\ Reads

TakeVerdictByOrder(h, cs, i) ==   \* mutant: joined by position, whatever the timestamp
    IF i \in DOMAIN cs THEN cs[i] ELSE None

\* takeVerdict over the history, oldest version first: the i-th of the versions seen last
\* at a time gets the i-th verdict stamped so.
TakeVerdict(h, cs, i) ==
    LET at == SelectSeq(cs, LAMBDA c : c.ts = h[i].ts)
        turn == Cardinality({j \in 1..i : h[j].ts = h[i].ts})
    IN IF turn \in DOMAIN at THEN at[turn] ELSE None

\* classificationsFor, then a row per version.
Snapshots ==
    /\ At("snapshots", "history")
    /\ LET cs == Reverse(SelectSeq(RecentClassifications, LAMBDA c : c.id = ask.id))
           h == req.hist
       IN req' = [req EXCEPT
            !.step = "answered", !.scan = cs,
            !.rows = [i \in DOMAIN h |-> [rec |-> h[i], verdict |-> TakeVerdict(h, cs, i)]],
            !.notes = {n \in {"truncated", "snapshotting", "missing"} :
                CASE n = "truncated" -> h[1].reason = "snapshot" /\ h[1].idx > 1
                  [] n = "snapshotting" -> \E i \in DOMAIN h : h[i].reason = "snapshot"
                  [] n = "missing" -> \E i \in DOMAIN h : TakeVerdict(h, cs, i) = None}]
    /\ Reads

\* versionAt
VersionAt(h, ts) ==
    LET at == {i \in DOMAIN h : h[i].ts = ts} IN IF at = {} THEN None ELSE h[Max(at)]

\* latestClassification; without a verdict there is nothing to explain.
ReadVerdict ==
    /\ At("explain", "history")
    /\ LET cs == SelectSeq(RecentClassifications, LAMBDA c : c.id = ask.id)
           v == VersionAt(req.hist, cs[1].ts)
       IN req' = IF cs = <<>> THEN [req EXCEPT !.step = "answered", !.notes = {"no verdict"}]
                 ELSE [req EXCEPT !.step = "verdict", !.scan = <<cs[1]>>,
                                  !.rows = <<IF v = None THEN Last(req.hist) ELSE v>>,
                                  !.notes = IF v = None THEN {"other version"} ELSE {}]
    /\ Reads

ReadLive ==
    /\ At("explain", "verdict") /\ req' = [req EXCEPT !.step = "live", !.live = loaded] /\ Reads

\* activeNormalizer: the registry's active entry must be the model asked about.
ActiveNormalizer(model) == IF active = model THEN active ELSE None

\* handleFlowExplain's account of the verdict's model; modelInputFor.
ExplainModel ==
    /\ At("explain", "live")
    /\ LET model == req.scan[1].model
           bundle == ActiveNormalizer(model)
       IN req' = [req EXCEPT !.step = "answered", !.listed =
            <<IF req.live # model THEN [input |-> "unknown", by |-> None]
              ELSE IF model = Heuristic THEN [input |-> "raw", by |-> None]
              ELSE IF bundle = None THEN [input |-> "unknown", by |-> None]
              ELSE [input |-> "normalized", by |-> bundle]>>]
    /\ Reads

\* classFilters.match
Match(c, f) ==
    /\ f.class # None => c.class = f.class
    /\ f.dis => c.dis
    /\ f.sensor # None => c.sensor = f.sensor

\* the index both lists build from a newest-first scan: the first verdict seen of a flow
NewestVerdict(cs, id) ==
    LET of == {i \in DOMAIN cs : cs[i].id = id} IN IF of = {} THEN None ELSE cs[Min(of)]

\* handleHostFlows: the verdicts, then the flows.
ReadVerdicts ==
    /\ At("hostflows", "asked")
    /\ req' = [req EXCEPT !.step = "joined", !.since = Len(verdicts),
                          !.scan = First(HostScanLimit, RecentClassifications)]
    /\ Reads

ListFlows ==
    /\ At("hostflows", "joined")
    /\ LET Keep(v) == LET c == NewestVerdict(req.scan, v.rec.id)
                      IN ask.host \in v.rec.ends /\ v.rec.ts >= ask.from /\ c # None /\ Match(c, ask.keep)
       IN req' = [req EXCEPT !.step = "answered",
                             !.rows = First(ask.limit, SelectSeq(First(HostScanLimit, RecentFlows), Keep))]
    /\ Reads

\* handleFlows with a scope: every stored row carries its sensor.
ScopeFlows ==
    /\ At("flows", "asked")
    /\ req' = [req EXCEPT !.step = "answered", !.since = Len(verdicts), !.rows =
            First(ask.limit, SelectSeq(First(HostScanLimit, RecentFlows), LAMBDA v : v.rec.sensor = ask.keep.sensor))]
    /\ Reads

\* handleClassifications and handleHostClassifications: one filtered scan.
ListVerdicts ==
    /\ At("verdicts", "asked")
    /\ LET Keep(c) == (ask.host # None => ask.host \in c.ends) /\ c.ts >= ask.from /\ Match(c, ask.keep)
       IN req' = [req EXCEPT !.step = "answered", !.since = Len(verdicts),
                  !.rows = First(ask.limit, SelectSeq(First(HostScanLimit, RecentClassifications), Keep))]
    /\ Reads

-----------------------------------------------------------------------------
(* report.Build *)

\* A host's profile lags behind the verdicts: it may be unknown yet.
FindHost ==
    /\ At("report", "asked") /\ ask.host # None
    /\ \/ req' = [req EXCEPT !.step = "404"]
       \/ /\ \E i \in DOMAIN verdicts : ask.host \in verdicts[i].ends
          /\ req' = [req EXCEPT !.step = "found"]
    /\ Reads

Notable(c) == c.dis \/ c.class # "normal"
InScope(c) ==
    /\ ask.host # None => ask.host \in c.ends
    /\ ask.from > 0 => c.ts >= ask.from
    /\ Match(c, ask.keep)

\* disagreements, then confidence, then newest, then flow id; the sort is stable
Before(a, b) ==
    LET ra == <<IF a.dis THEN 0 ELSE 1, -a.score, -a.ts, a.id, -a.row>>
        rb == <<IF b.dis THEN 0 ELSE 1, -b.score, -b.ts, b.id, -b.row>>
    IN \E i \in 1..5 : ra[i] < rb[i] /\ \A j \in 1..(i - 1) : ra[j] = rb[j]

\* The one scan, the scope, and the ranked candidates of notableFlows.
ScanVerdicts ==
    /\ At("report", IF ask.host = None THEN "asked" ELSE "found")
    /\ LET scan == First(ask.scan, RecentClassifications)
           found == SelectSeq(scan, LAMBDA c : InScope(c) /\ Notable(c))
       IN req' = [req EXCEPT !.step = "rows", !.since = Len(verdicts), !.scan = scan,
                             !.listed = SortSeq(found, Before)]
    /\ Reads

Shown == First(ask.limit, req.listed)

\* store.Flow for each listed verdict, a lock each.
FillRow ==
    /\ At("report", "rows") /\ Len(req.rows) < Len(Shown)
    /\ LET c == Shown[Len(req.rows) + 1]
           h == hist[c.id]
       IN req' = [req EXCEPT !.rows = Append(@, [verdict |-> c, rec |-> IF h = <<>> THEN None ELSE Last(h).rec])]
    /\ Reads

\* coverage: what limited this report, as the store's counters tell it now.
Coverage(n, scanned, missing) ==
    \/ evicted > 0 \/ clsEvicted > 0
    \/ Len(scanned) >= ask.scan
    \/ ask.from > 0 /\ scanned # <<>> /\ ask.from < Last(scanned).ts
    \/ n > Len(Shown)
    \/ missing

Finish ==
    /\ At("report", "rows") /\ Len(req.rows) = Len(Shown)
    /\ req' = [req EXCEPT !.step = "answered", !.partial =
                Coverage(Len(req.listed), req.scan, \E i \in DOMAIN req.rows : req.rows[i].rec = None)]
    /\ Reads

-----------------------------------------------------------------------------

\* a bound: what goes on around the request is followed until it is answered
Pending == req.step \notin {"answered", "404"}

ReadNext ==
    \/ Pending /\ (PublishFlow \/ PublishVerdict \/ Sweep \/ SetStatus \/ ActivateRole)
    \/ ReadHistory \/ Snapshots \/ ReadVerdict \/ ReadLive \/ ExplainModel
    \/ ReadVerdicts \/ ListFlows \/ ScopeFlows \/ ListVerdicts
    \/ FindHost \/ ScanVerdicts \/ FillRow \/ Finish

ReadSpec == ReadInit /\ [][ReadNext]_readVars

Answered(kind) == ask.kind = kind /\ req.step = "answered"

-----------------------------------------------------------------------------
(* what the answers promise *)

\* Versions of the flow published so far that were seen last at ts.
PublishedAt(ts) == {n \in 1..stored : setup.rows[n].id = ask.id /\ setup.rows[n].ts = ts}

\* The first of them is retained, and so is its verdict.
FirstRetained(ts) ==
    LET first == Min(PublishedAt(ts))
    IN setup.rows[first] \in Range(req.hist) /\ \E c \in Range(req.scan) : c.row = first

\* A version is shown with a verdict of its flow and time, and with its own where the first
\* version of that time is retained with its verdict; no verdict is shown twice; a version
\* alone at its time has its verdict unless that is not retained (comments of
\* flowVersionView.Verdict and in handleFlowSnapshots).
PairedVerdicts ==
    Answered("snapshots") =>
        /\ \A i \in DOMAIN req.rows : LET r == req.rows[i] IN
            /\ r.verdict # None =>
                /\ r.verdict.id = r.rec.id /\ r.verdict.ts = r.rec.ts
                /\ FirstRetained(r.rec.ts) => setup.rows[r.verdict.row] = r.rec
                /\ \A j \in 1..(i - 1) : r.verdict # req.rows[j].verdict
            /\ \A c \in Range(req.scan) :
                c.ts = r.rec.ts /\ (\A j \in DOMAIN req.rows \ {i} : req.rows[j].rec.ts # c.ts) => r.verdict # None
        /\ "missing" \notin req.notes => \A i \in DOMAIN req.rows : req.rows[i].verdict # None

\* Version m of the flow, seen last when version n was, and one of the two published while
\* the request was answered.
TiedMeanwhile(n) == \E m \in PublishedAt(setup.rows[n].ts) \ {n} : m > req.since \/ n > req.since

\* The features explained are those the verdict was computed from, or a note says they are
\* another version's, or two versions share that time and one came meanwhile; a normalized
\* input comes from the bundle of the model that scored; no later verdict was there when
\* the request came (comments of handleFlowExplain and activeNormalizer).
ExplainIsTheVerdict ==
    Answered("explain") /\ req.notes # {"no verdict"} =>
        LET c == req.scan[1] IN
        /\ \/ "other version" \in req.notes
           \/ req.rows[1] = setup.rows[c.row]
           \/ TiedMeanwhile(c.row) /\ req.rows[1].ts = c.ts
        /\ req.listed[1].input = "normalized" => req.listed[1].by = c.model
        /\ req.listed[1].input = "raw" => c.model = Heuristic
        /\ \A i \in (c.row + 1)..req.since : verdicts[i].id # ask.id

NewestBy(n, id) ==
    LET of == {i \in 1..n : verdicts[i].id = id} IN IF of = {} THEN None ELSE verdicts[Max(of)]
Expired(c) == c.ts < setup.cut

\* A filtered list of flows: each row is of the host and the newest verdict of its flow when
\* the request came passes the filter; and every such version among the newest HostScanLimit
\* stored, its verdict among the newest HostScanLimit, is there, up to the limit
\* (handleHostFlows; filters as in handleClassifications).
ListedFlowsMatch ==
    Answered("hostflows") =>
        LET Wanted(rec) ==
                LET c == NewestBy(req.since, rec.id)
                IN ask.host \in rec.ends /\ rec.ts >= ask.from /\ c # None /\ Match(c, ask.keep)
        IN /\ \A i \in DOMAIN req.rows : Wanted(req.rows[i].rec)
           /\ \/ Len(req.rows) = ask.limit
              \/ \A v \in Range(First(HostScanLimit, RecentFlows)) :
                    v.seq <= req.since /\ Wanted(v.rec) /\ NewestBy(req.since, v.rec.id) \in Range(req.scan)
                    => v \in Range(req.rows)

Ranked(rows) == \A i, j \in DOMAIN rows : i < j /\ rows[j].verdict.dis => rows[i].verdict.dis

\* A report that does not call itself partial lists every notable verdict in its scope put
\* before its scan, but for those the retention sweep took, each with its flow's record, in
\* rank order ("the single flag a reader can branch on", Coverage).
ReportComplete ==
    Answered("report") =>
        /\ Ranked(req.rows)
        /\ ~req.partial =>
            /\ \A i \in 1..req.since :
                InScope(verdicts[i]) /\ Notable(verdicts[i]) /\ ~Expired(verdicts[i])
                => \E k \in DOMAIN req.rows : req.rows[k].verdict.row = i
            /\ \A k \in DOMAIN req.rows : req.rows[k].rec.id = req.rows[k].verdict.id

\* A request answers with what belongs together, whatever is published, purged or activated
\* between its reads.
ReadsHoldTogether == PairedVerdicts /\ ExplainIsTheVerdict /\ ListedFlowsMatch /\ ReportComplete

=============================================================================
