------------------------------ MODULE Summaries ------------------------------
(***************************************************************************)
(* The folds a daemon answers questions with: the sensor topology          *)
(* (api/topology.go), drift (drift.go), the model comparison                *)
(* (model_comparison.go), the review queue (review/queue.go), and a dataset *)
(* cut and its statistics (dataset/build.go, stats.go).  Quantities are     *)
(* exact: integers, or fractions [num, den] compared by cross-multiplying.  *)
(***************************************************************************)
EXTENDS Integers, Sequences, FiniteSets, SequencesExt, FiniteSetsExt

CONSTANTS
    Fleets,          \* lists of connected sensors
    DriftQuestions,  \* [rows, base, bands, from]
    ScanQuestions,   \* scanned verdicts, each a sequence of model outputs
    QueueQuestions,  \* [rows, states, by, limit]
    CutQuestions,    \* [verdicts, flows, sel]
    NoBase,          \* no training distribution
    NotFinite,       \* a NaN or an infinity
    NoName, Unassigned,         \* the empty location and the bucket it goes to; names are numbers
    Labels, DatasetColumns,     \* traffic classes, and the flags and ports among the columns
    MinDatasetRows, Bins, OutlierZ, OutlierCap, TopPorts, MaxDatasets

VARIABLES
    posed, shown,    \* the question and its answer
    datasets,        \* versions cut so far
    statsByHash      \* the statistics kept, by content

summaryVars == <<posed, shown, datasets, statsByHash>>

Total(s) == FoldLeft(LAMBDA a, b : a + b, 0, s)
CountOf(s, P(_)) == Len(SelectSeq(s, P))
Less(a, b) == a.num * b.den < b.num * a.den
AtLeast(z, k) == z.num >= k * z.den
Page(s, n) == SubSeq(s, 1, IF n = 0 THEN Len(s) ELSE Min({n, Len(s)}))
\* the first place where two tuples of keys differ decides
ByKeys(a, b) == \E i \in DOMAIN a : a[i] < b[i] /\ \A j \in 1..(i - 1) : a[j] = b[j]
Flag(b) == IF b THEN 1 ELSE 0
Distance(a, b) == IF a < b THEN b - a ELSE a - b

-----------------------------------------------------------------------------
(* handleSensorTopology.  A sensor: [id, session, place, padded, mode, up, drops]. *)

PlaceOf(s) == IF s.place = NoName THEN Unassigned ELSE s.place   \* trimmed: padding does not count

Attribution(s) == IF s.id = NoName \/ s.mode \notin {"raw", "flow", "feature"} THEN "none"
                  ELSE IF s.mode = "raw" THEN "packets" ELSE "records"

LocationHealth(members) ==
    LET running == CountOf(members, LAMBDA s : s.up) IN
    IF running = 0 THEN "down"
    ELSE IF running < Len(members) \/ Total([i \in DOMAIN members |-> members[i].drops]) > 0 THEN "degraded"
    ELSE "ok"

\* The first sensor of a group says whether it is the unassigned bucket.
LocationGroup(fleet, key) ==
    LET members == SelectSeq(fleet, LAMBDA s : PlaceOf(s) = key)
    IN [location |-> key, unassigned |-> members[1].place = NoName, count |-> Len(members),
        attributable |-> CountOf(members, LAMBDA s : Attribution(s) # "none"),
        drops |-> Total([i \in DOMAIN members |-> members[i].drops]), health |-> LocationHealth(members),
        sensors |-> SortSeq(members, LAMBDA a, b : ByKeys(<<a.id, a.session>>, <<b.id, b.session>>))]

Topology(fleet) ==
    LET keys == SetToSeq({PlaceOf(fleet[i]) : i \in DOMAIN fleet})
        groups == [k \in DOMAIN keys |-> LocationGroup(fleet, keys[k])]
        Keys(g) == <<Flag(g.unassigned), -g.count, g.location>>
    IN [locations |-> SortSeq(groups, LAMBDA a, b : ByKeys(Keys(a), Keys(b))),
        sensors |-> Total([k \in DOMAIN groups |-> groups[k].count]),
        attributable |-> Total([k \in DOMAIN groups |-> groups[k].attributable]),
        unassigned |-> Total([k \in DOMAIN groups |-> IF groups[k].unassigned THEN groups[k].count ELSE 0])]

\* the scope a client gets for a location it was shown
SensorIDsAtLocation(fleet, loc) == {fleet[i].id : i \in {j \in DOMAIN fleet : PlaceOf(fleet[j]) = loc}}

AskTopology ==
    \E fleet \in Fleets :
        /\ posed' = [about |-> "topology", fleet |-> fleet]
        /\ shown' = LET t == Topology(fleet) IN
                    [t EXCEPT !.locations = [k \in DOMAIN @ |->
                        [group |-> @[k], scope |-> SensorIDsAtLocation(fleet, @[k].location)]]]
        /\ UNCHANGED <<datasets, statsByHash>>

-----------------------------------------------------------------------------
(* handleDrift, under bands the configuration accepts *)

ValidateDrift(d) == d.warn > 0 /\ d.warn <= d.drift /\ d.drift <= d.suggestZ /\ d.suggestN >= 1

\* z of feature j over the window: |mean - base mean| / base std, the mean of none is 0;
\* a base std of 0 counts as a hundredth
DriftZ(window, base, j) ==
    LET n == Len(window)
        sum == Total([i \in DOMAIN window |-> window[i].values[j]])
    IN [num |-> 100 * Distance(sum, (IF n = 0 THEN 1 ELSE n) * base.mean[j]),
        den |-> (IF n = 0 THEN 1 ELSE n) * Max({100 * base.std[j], 1})]

Band(z, d) == IF AtLeast(z, d.drift) THEN "drift" ELSE IF AtLeast(z, d.warn) THEN "warn" ELSE "stable"

Drift(q) ==
    LET window == SelectSeq(q.rows, LAMBDA r : r.ts >= q.from)
        feats == [j \in DOMAIN q.base.mean |->
                    [index |-> j, z |-> DriftZ(window, q.base, j), state |-> Band(DriftZ(window, q.base, j), q.bands)]]
        listed == SortSeq(feats, LAMBDA a, b : Less(b.z, a.z))
        drifting == CountOf(feats, LAMBDA f : f.state = "drift")
    IN IF q.base = NoBase THEN [state |-> "no_baseline", flows |-> Len(window), suggestion |-> {}]
       ELSE [state |-> IF window = <<>> THEN "no_baseline"
                       ELSE IF drifting > 0 THEN "drift"
                       ELSE IF \E j \in DOMAIN feats : feats[j].state = "warn" THEN "warn" ELSE "stable",
             flows |-> Len(window), features |-> listed,
             suggestion |-> {AtLeast(listed[1].z, q.bands.suggestZ) \/ drifting >= q.bands.suggestN}]

AskDrift ==
    \E q \in DriftQuestions :
        /\ ValidateDrift(q.bands)
        /\ posed' = [about |-> "drift", q |-> q] /\ shown' = Drift(q)
        /\ UNCHANGED <<datasets, statsByHash>>

-----------------------------------------------------------------------------
(* handleModelComparison.  An output: [model, class, score]. *)

PairAsScored(a, b) ==   \* mutant: the ids are put in order, the outputs are not
    [key |-> IF b.model < a.model THEN <<b.model, a.model>> ELSE <<a.model, b.model>>, a |-> a, b |-> b]

PairByID(a, b) ==
    IF b.model < a.model THEN [key |-> <<b.model, a.model>>, a |-> b, b |-> a]
    ELSE [key |-> <<a.model, b.model>>, a |-> a, b |-> b]

PairsOfRow(outs) ==
    LET places == SetToSeq({p \in (DOMAIN outs) \X (DOMAIN outs) :
                               p[1] < p[2] /\ outs[p[1]].model # outs[p[2]].model})
    IN [k \in DOMAIN places |-> PairByID(outs[places[k][1]], outs[places[k][2]])]

Compare(rows) ==
    LET pairs == FlattenSeq([i \in DOMAIN rows |-> PairsOfRow(rows[i])])
        keys == {pairs[i].key : i \in DOMAIN pairs}
        Of(key) == SelectSeq(pairs, LAMBDA p : p.key = key)
    IN [compared |-> CountOf(rows, LAMBDA outs : Len(outs) >= 2),
        pairs |-> [key \in keys |->
           [both |-> Len(Of(key)),
            agree |-> CountOf(Of(key), LAMBDA p : p.a.class = p.b.class),
            delta |-> Total([i \in DOMAIN Of(key) |-> Distance(Of(key)[i].a.score, Of(key)[i].b.score)]),
            matrix |-> [x, y \in Labels |-> CountOf(Of(key), LAMBDA p : p.a.class = x /\ p.b.class = y)]]]]

AskComparison ==
    \E rows \in ScanQuestions :
        /\ posed' = [about |-> "comparison", rows |-> rows] /\ shown' = Compare(rows)
        /\ UNCHANGED <<datasets, statsByHash>>

-----------------------------------------------------------------------------
(* Store.Queue.  A verdict: [flow, ts, dis, scores], newest first. *)

\* rank: the two best shares of the positive mass
Margin(scores) ==
    LET mass == Total([i \in DOMAIN scores |-> Max({scores[i], 0})])
        high == SortSeq([i \in DOMAIN scores |-> Max({scores[i], 0})], LAMBDA a, b : a > b)
    IN IF mass = 0 THEN [num |-> 0, den |-> 1] ELSE [num |-> high[1] - high[2], den |-> mass]

QueueItems(rows, states) ==
    LET First(i) == rows[i].flow # 0 /\ \A j \in 1..(i - 1) : rows[j].flow # rows[i].flow
        places == SetToSortSeq({i \in DOMAIN rows : First(i)
                      /\ states[rows[i].flow] \notin {"correct", "incorrect", "ignored_pattern"}}, <)
    IN [k \in DOMAIN places |-> rows[places[k]] @@ [margin |-> Margin(rows[places[k]].scores)]]

Newer(a, b) == ByKeys(<<-a.ts, -a.flow>>, <<-b.ts, -b.flow>>)
LeastSure(a, b) == Less(a.margin, b.margin) \/ (~Less(b.margin, a.margin) /\ Newer(a, b))

SortQueue(items, by) ==
    SortSeq(items, LAMBDA a, b :
        CASE by = "uncertainty" -> LeastSure(a, b)
          [] by = "disagreement" -> IF a.dis # b.dis THEN a.dis ELSE LeastSure(a, b)
          [] by = "recent" -> Newer(a, b))

AskQueue ==
    \E q \in QueueQuestions :
        /\ posed' = [about |-> "queue", q |-> q]
        /\ shown' = Page(SortQueue(QueueItems(q.rows, q.states), q.by), q.limit)
        /\ UNCHANGED <<datasets, statsByHash>>

-----------------------------------------------------------------------------
(* A dataset: build, finish and renderCSV.  A verdict: [flow, ts, class, dis, score]. *)

Selected(c, sel) ==
    /\ c.ts >= sel.from
    /\ sel.dis => c.dis
    /\ c.score >= sel.min

\* of each flow the newest verdict the selection takes
FirstSeen(cs, i, sel) == \A j \in 1..(i - 1) : ~(cs[j].flow = cs[i].flow /\ Selected(cs[j], sel))

Cleaned(v) == IF v = NotFinite THEN 0 ELSE v

\* the rows in flow id order; a verdict whose record is gone has none
RowsOf(q) ==
    LET scan == Page(q.verdicts, q.sel.scan)
        taken == SetToSortSeq({i \in DOMAIN scan : /\ Selected(scan[i], q.sel) /\ FirstSeen(scan, i, q.sel)
                                                   /\ scan[i].flow \in DOMAIN q.flows}, <)
        kept == Page(taken, q.sel.limit)
        rows == [k \in DOMAIN kept |->
            [flow |-> scan[kept[k]].flow, label |-> scan[kept[k]].class,
             values |-> [c \in DOMAIN q.flows[scan[kept[k]].flow] |-> Cleaned(q.flows[scan[kept[k]].flow][c])]]]
    IN SortSeq(rows, LAMBDA a, b : a.flow < b.flow)

LabelsOf(rows) == {rows[i].label : i \in DOMAIN rows}
LabelCounts(rows) == [l \in LabelsOf(rows) |-> CountOf(rows, LAMBDA r : r.label = l)]
Csv(rows) == [i \in DOMAIN rows |-> <<rows[i].values, rows[i].label>>]
Worth(rows) == Cardinality(LabelsOf(rows)) >= 2 /\ Len(rows) >= MinDatasetRows

CutDataset ==
    \E q \in CutQuestions :
        LET rows == RowsOf(q)
            built == [csv |-> Csv(rows), labels |-> LabelCounts(rows),
                      dupes |-> Len(rows) - Cardinality(Range(Csv(rows)))]
        IN /\ Len(datasets) < MaxDatasets
           /\ posed' = [about |-> "cut", q |-> q]
           /\ shown' = IF Worth(rows) THEN [built |-> TRUE, rows |-> rows, dupes |-> built.dupes] ELSE [built |-> FALSE]
           /\ datasets' = IF Worth(rows) THEN Append(datasets, built) ELSE datasets
           /\ UNCHANGED statsByHash

-----------------------------------------------------------------------------
(* Manager.Stats: over the rows read back from the file, kept by content hash. *)

Column(csv, c) == [i \in DOMAIN csv |-> csv[i][1][c]]
Spread(col) == LET n == Len(col) IN Total([i \in DOMAIN col |-> (n * col[i] - Total(col)) * (n * col[i] - Total(col))])

\* four times the quantile at k quarters
Quantile(sorted, k) ==
    LET pos == k * (Len(sorted) - 1)
        lo == sorted[(pos \div 4) + 1]
    IN IF pos % 4 = 0 THEN 4 * lo ELSE lo * (4 - (pos % 4)) + sorted[(pos \div 4) + 2] * (pos % 4)

\* Bins times the i-th edge of a linear histogram, from 0
Edge(low, high, i) == Bins * low + (high - low) * i

\* histogramCounts: SearchFloat64s finds the first edge not below v, so a value on an inner
\* edge is counted below it
BinOf(low, high, v) ==
    LET below == Cardinality({i \in 0..Bins : Edge(low, high, i) < Bins * v})
    IN Min({Max({below, 1}), Bins})

FeatureStats(csv, c) ==
    LET col == Column(csv, c)
        sorted == SortSeq(col, <)
        low == sorted[1]
        high == sorted[Len(col)]
    IN [low |-> low, high |-> high, quartiles |-> [k \in 1..3 |-> Quantile(sorted, k)],
        bins |-> IF low = high THEN <<>>
                 ELSE [b \in 1..Bins |-> CountOf(col, LAMBDA v : BinOf(low, high, v) = b)]]

LabelDistribution(csv, manifest) ==
    LET counts == [l \in Labels |-> CountOf(csv, LAMBDA r : r[2] = l)]
        Said(l) == IF l \in DOMAIN manifest THEN manifest[l] ELSE 0
    IN [counts |-> counts, unknown |-> CountOf(csv, LAMBDA r : r[2] \notin Labels),
        mismatch |-> \E l \in Labels : Said(l) # counts[l]]

TopOf(col) ==
    LET ports == SetToSeq(Range(col))
        counted == [k \in DOMAIN ports |-> <<ports[k], CountOf(col, LAMBDA v : v = ports[k])>>]
    IN Page(SortSeq(counted, LAMBDA a, b : ByKeys(<<-a[2], a[1]>>, <<-b[2], b[1]>>)), TopPorts)

\* the first flag set, in this order
ProtocolOf(values) ==
    LET set == {p \in {"tcp", "udp", "icmp"} : values[DatasetColumns[p]] >= 1}
    IN CASE "tcp" \in set -> "tcp" [] set = {"udp"} \/ set = {"udp", "icmp"} -> "udp"
         [] set = {"icmp"} -> "icmp" [] set = {} -> "other"

\* Pearson's coefficient of two columns: its sign and its square; 0 without variance
Correlation(csv, c, d) ==
    LET x == Column(csv, c)
        y == Column(csv, d)
        n == Len(csv)
        cov == Total([i \in DOMAIN csv |-> (n * x[i] - Total(x)) * (n * y[i] - Total(y))])
    IN IF Spread(x) = 0 \/ Spread(y) = 0 THEN [sign |-> 0, num |-> 0, den |-> 1]
       ELSE [sign |-> IF cov < 0 THEN -1 ELSE Flag(cov > 0), num |-> cov * cov, den |-> Spread(x) * Spread(y)]

\* the square of the largest z of a row; columns without variance have none
RowZ(csv, i) ==
    LET Z(c) == LET col == Column(csv, c)
                    d == Len(col) * col[i] - Total(col)
                IN [num |-> d * d * Len(col), den |-> Spread(col)]
        zs == {Z(c) : c \in {d \in DOMAIN csv[i][1] : Spread(Column(csv, d)) > 0}}
    IN IF zs = {} THEN [num |-> 0, den |-> 1] ELSE CHOOSE z \in zs : \A y \in zs : ~Less(z, y)

OutlierReport(csv) ==
    LET zs == [i \in DOMAIN csv |-> [row |-> i, z |-> RowZ(csv, i)]]
        found == SelectSeq(zs, LAMBDA o : o.z.num > OutlierZ * OutlierZ * o.z.den)
    IN [count |-> Len(found),
        rows |-> Page(SortSeq(found, LAMBDA a, b : Less(b.z, a.z) \/ (~Less(a.z, b.z) /\ a.row < b.row)), OutlierCap)]

ComputeStats(v) ==
    LET csv == datasets[v].csv IN
    [ref |-> v, rows |-> Len(csv),
     features |-> [c \in DOMAIN csv[1][1] |-> FeatureStats(csv, c)],
     labels |-> LabelDistribution(csv, datasets[v].labels),
     ports |-> TopOf(Column(csv, DatasetColumns["port"])),
     protocols |-> [p \in {"tcp", "udp", "icmp", "other"} |-> CountOf(csv, LAMBDA r : ProtocolOf(r[1]) = p)],
     correlation |-> [c, d \in DOMAIN csv[1][1] |-> Correlation(csv, c, d)],
     outliers |-> OutlierReport(csv)]

ReadStats ==
    \E v \in DOMAIN datasets :
        LET csv == datasets[v].csv
            st == IF csv \in DOMAIN statsByHash THEN statsByHash[csv] ELSE ComputeStats(v)
        IN /\ posed' = [about |-> "stats", version |-> v] /\ shown' = st
           /\ statsByHash' = (csv :> st) @@ statsByHash
           /\ UNCHANGED datasets

-----------------------------------------------------------------------------

SummariesInit ==
    /\ posed = [about |-> "nothing"] /\ shown = <<>>
    /\ datasets = <<>> /\ statsByHash = <<>>

\* a bound: a question that concerns no dataset is the only one, and datasets are cut when
\* nothing else has been asked or the last one's statistics were read
Fresh == posed.about = "nothing"

SummariesNext ==
    \/ Fresh /\ (AskTopology \/ AskDrift \/ AskComparison \/ AskQueue)
    \/ (Fresh \/ posed.about = "stats") /\ CutDataset
    \/ ReadStats

SummariesSpec == SummariesInit /\ [][SummariesNext]_summaryVars

-----------------------------------------------------------------------------
(* what the answers promise *)

\* The location a client is shown, sent back as the scope, selects the sensors it was shown
\* with; each sensor is in one group, and the totals are those of the fleet (comments of
\* TopologyLocation.Location and sensorIDsAtLocation).
LocationScopesAgree ==
    posed.about = "topology" =>
        LET fleet == posed.fleet
            Group(k) == shown.locations[k].group
        IN /\ \A k \in DOMAIN shown.locations :
                shown.locations[k].scope = {Group(k).sensors[i].id : i \in DOMAIN Group(k).sensors}
           /\ \A i \in DOMAIN fleet : \E k \in DOMAIN shown.locations :
                {j \in DOMAIN shown.locations : fleet[i] \in Range(Group(j).sensors)} = {k}
           /\ shown.sensors = Len(fleet)
           /\ shown.attributable = CountOf(fleet, LAMBDA s : Attribution(s) # "none")
           /\ \A k \in DOMAIN shown.locations : Group(k).health = "ok" =>
                \A i \in DOMAIN Group(k).sensors : Group(k).sensors[i].up /\ Group(k).sensors[i].drops = 0

\* Over a window with flows, retraining is suggested only when the state is drift, and the
\* state is that of the feature listed first, which has moved the most (ValidateDrift,
\* handleDrift).
SuggestionMeansDrift ==
    posed.about = "drift" /\ shown.flows > 0 /\ shown.suggestion # {} =>
        /\ TRUE \in shown.suggestion => shown.state = "drift"
        /\ shown.state = shown.features[1].state
        /\ \A j \in DOMAIN shown.features : ~Less(shown.features[1].z, shown.features[j].z)

\* "It is absent when state is no_baseline" (docs/adr/0038).
NoSuggestionWithoutState ==
    posed.about = "drift" /\ shown.state = "no_baseline" => shown.suggestion = {}

\* A pair's counts are those of the rows both models scored, each model's class on its own
\* axis, whatever the order of the outputs (handleModelComparison's note on class_matrix).
ComparisonIsFair ==
    posed.about = "comparison" =>
        \A a, b \in {o.model : o \in UNION {Range(posed.rows[i]) : i \in DOMAIN posed.rows}} : a < b =>
            LET Rows(P(_, _)) == {<<i, x, y>> \in UNION {{i} \X (DOMAIN posed.rows[i]) \X (DOMAIN posed.rows[i]) : i \in DOMAIN posed.rows} :
                    posed.rows[i][x].model = a /\ posed.rows[i][y].model = b /\ P(posed.rows[i][x], posed.rows[i][y])}
                both == Rows(LAMBDA x, y : TRUE)
            IN /\ (<<a, b>> \in DOMAIN shown.pairs) <=> both # {}
               /\ both # {} => LET p == shown.pairs[<<a, b>>] IN
                    /\ p.both = Cardinality(both)
                    /\ p.agree = Cardinality(Rows(LAMBDA x, y : x.class = y.class))
                    /\ \A c, d \in Labels : p.matrix[c, d] = Cardinality(Rows(LAMBDA x, y : x.class = c /\ y.class = d))

\* A page holds the newest verdict of flows still to be decided, each once, and no flow left
\* out is one the model was less sure of; scores scaled by a factor rank alike (comments of
\* Store.Queue and rank).
QueueIsFair ==
    posed.about = "queue" =>
        LET rows == posed.q.rows
            Waits(i) == rows[i].flow # 0 /\ posed.q.states[rows[i].flow] \in {"unreviewed", "unsure"}
            Newest(i) == \A j \in 1..(i - 1) : rows[j].flow # rows[i].flow
            Unsure(i, item) ==    \* row i is less sure than the item, whose scores may be scaled
                LET scaled == [k \in DOMAIN item.scores |-> 3 * item.scores[k]]
                IN Less(Margin(rows[i].scores), Margin(scaled))
        IN /\ \A k \in DOMAIN shown : \E i \in DOMAIN rows :
                /\ rows[i].flow = shown[k].flow /\ rows[i].ts = shown[k].ts /\ Newest(i) /\ Waits(i)
                /\ \A l \in 1..(k - 1) : shown[l].flow # shown[k].flow
           /\ \A i \in DOMAIN rows : Newest(i) /\ Waits(i) =>
                \/ \E k \in DOMAIN shown : shown[k].flow = rows[i].flow
                \/ /\ Len(shown) = posed.q.limit
                   /\ posed.q.by = "uncertainty" => \A k \in DOMAIN shown : ~Unsure(i, shown[k])

\* A cut holds one row per flow, labelled by the newest verdict selected, every such flow
\* whose record is kept, up to the limit, and no value that is not finite; rows counted as
\* duplicates are those with an equal one left (comments in build and renderCSV).
CutIsHonest ==
    posed.about = "cut" /\ shown.built =>
        LET q == posed.q
            rows == shown.rows
            Newest(f) == CHOOSE i \in DOMAIN q.verdicts :
                            /\ q.verdicts[i].flow = f /\ Selected(q.verdicts[i], q.sel)
                            /\ \A j \in DOMAIN q.verdicts : q.verdicts[j].flow = f /\ Selected(q.verdicts[j], q.sel) => i <= j
        IN /\ \A k \in DOMAIN rows :
                /\ rows[k].label = q.verdicts[Newest(rows[k].flow)].class
                /\ \A c \in DOMAIN rows[k].values : rows[k].values[c] # NotFinite
                /\ \A l \in 1..(k - 1) : rows[l].flow < rows[k].flow
           /\ \/ Len(rows) = q.sel.limit
              \/ \A i \in DOMAIN q.verdicts :
                    (q.sel.scan = 0 \/ i <= q.sel.scan) /\ Selected(q.verdicts[i], q.sel) /\ q.verdicts[i].flow \in DOMAIN q.flows
                    => \E k \in DOMAIN rows : rows[k].flow = q.verdicts[i].flow

\* Statistics are those of the version asked about: its labels are the manifest's, every
\* value is in the first bucket whose upper edge it does not exceed, quartiles are in order within the range, a
\* correlation is at most one, and few rows are outliers of many (comments in stats.go).
StatsReadBack ==
    posed.about = "stats" =>
        LET csv == datasets[posed.version].csv
            n == Len(csv)
        IN /\ shown.rows = n /\ ~shown.labels.mismatch
           /\ MapThenSumSet(LAMBDA l : shown.labels.counts[l], Labels) + shown.labels.unknown = n
           /\ MapThenSumSet(LAMBDA p : shown.protocols[p], DOMAIN shown.protocols) = n
           /\ \A c \in DOMAIN csv[1][1] :
                LET f == shown.features[c]
                    col == Column(csv, c)
                IN /\ \A k \in 1..3 : 4 * f.low <= f.quartiles[k] /\ f.quartiles[k] <= 4 * f.high
                   /\ \A k \in 1..3 : /\ 4 * CountOf(col, LAMBDA v : 4 * v < f.quartiles[k]) < k * (n - 1) + 4
                                      /\ 4 * CountOf(col, LAMBDA v : 4 * v > f.quartiles[k]) < (4 - k) * (n - 1) + 4
                   /\ f.bins # <<>> => Total(f.bins) = n /\ \A b \in 1..Bins :
                        Total(SubSeq(f.bins, 1, b)) = CountOf(col, LAMBDA v : Bins * v <= Edge(f.low, f.high, b))
           /\ \A c, d \in DOMAIN csv[1][1] : /\ shown.correlation[c, d].num <= shown.correlation[c, d].den
                                             /\ shown.correlation[c, d] = shown.correlation[d, c]
           /\ shown.outliers.count * OutlierZ * OutlierZ <= n * Len(csv[1][1])

\* "A version's CSV never changes, so a hit is always valid" (dataset.go:165): the answer
\* names the version that was asked about.
StatsNameTheirVersion == posed.about = "stats" => shown.ref = posed.version

\* Each fold says no more than its rows: locations, drift, comparison and the review queue; a
\* dataset is what its selection says, and its statistics are of the rows in its file.
FoldsAreFair ==
    /\ LocationScopesAgree /\ SuggestionMeansDrift /\ ComparisonIsFair /\ QueueIsFair
    /\ CutIsHonest /\ StatsReadBack

=============================================================================
