--------------------------- MODULE DatasetManager ---------------------------
(***************************************************************************)
(* Datasets cut from the flow store and the reviews (internal/dataset):    *)
(* immutable version directories, built outside the manager's lock and     *)
(* put in place by a rename under it.  One dataset id; its versions are    *)
(* numbers.                                                                *)
(***************************************************************************)
EXTENDS ReviewStore

CONSTANTS MaxVersion,   \* bound on the version numbers
          MinRows,      \* fewer rows are not worth a dataset
          MaxCuts       \* bound on the versions put in place

ASSUME DatasetAssumption == MinRows \in Nat \ {0} /\ MaxVersion \in Nat

Versions == 1 .. MaxVersion
Selections == {"model", "reviewed", "reviewed+ignored"}

VARIABLES index,        \* the manager's map: the manifests it lists
          dirs,         \* version directories on disk: the files they hold
          cutting,      \* per request: the rows it has built and their lineage
          asked,        \* versions a delete has been run on since they were cut
          cuts          \* every version ever put in place, oldest first

datasetVars == <<index, dirs, cutting, asked, cuts>>
NoCut == [sel |-> "none"]
Empty == [v \in {} |-> {}]

DatasetInit ==
    /\ index = Empty /\ dirs = Empty /\ asked = {} /\ cuts = <<>>
    /\ cutting = [o \in Operators |-> NoCut]

-----------------------------------------------------------------------------
(* The rows a selection produces. *)

Row(f, label, human) == [flow |-> f, boot |-> boot, label |-> label, human |-> human]

\* build: the newest verdict of each flow whose record is still retained
BuildModel ==
    {Row(f, Capture(f), FALSE) : f \in {g \in records : ClassificationFor(g) # {}}}

AnyLabelIsHuman(r) ==   \* mutant: an ignored pattern passes for a human's label
    EffectiveLabel(r) # NoLabel \/ r.state = "ignored_pattern"

HumanLabel(r) == EffectiveLabel(r) # NoLabel

\* buildReviewed: a decision that asserts a class, and with the opt-in an ignored
\* pattern under the class the model gave it
BuildReviewed(ignored) ==
    LET listed == {f \in records : /\ byFlow[f] # NoReview
                                   /\ \/ byFlow[f].state \in {"correct", "incorrect"}
                                      \/ ignored /\ byFlow[f].state = "ignored_pattern"}
        Label(r) == IF EffectiveLabel(r) # NoLabel THEN EffectiveLabel(r) ELSE r.pred
    IN  {Row(f, Label(byFlow[f]), HumanLabel(byFlow[f])) : f \in listed}

Build(sel) == IF sel = "model" THEN BuildModel ELSE BuildReviewed(sel = "reviewed+ignored")

\* finish: one class, or too few rows, teaches nothing
Usable(rows) ==
    Cardinality({r.label : r \in rows}) >= 2 /\ Cardinality(rows) >= MinRows

\* labelingSource and reviewedLabelingSource
LabelingSource(rows) ==
    LET human == {r \in rows : r.human}
    IN  IF human = rows THEN "human_review"
        ELSE IF human # {} THEN "human_review+model_prediction" ELSE "model_prediction"

-----------------------------------------------------------------------------
(* Create and Derive: the rows are built before the manager's lock is taken. *)

Parents(parent) == IF parent = 0 THEN <<>> ELSE <<parent>> \o index[parent].parents

Cut(o, sel, parent) ==
    /\ Free(o) /\ cutting[o] = NoCut
    /\ parent = 0 \/ parent \in DOMAIN index
    /\ Usable(Build(sel))
    /\ cutting' = [cutting EXCEPT ![o] =
            [sel |-> sel, rows |-> Build(sel), parents |-> Parents(parent)]]
    /\ UNCHANGED <<storeVars, reviewVars, auditVars, index, dirs, asked, cuts>>

NextVersion == IF DOMAIN index = {} THEN 1 ELSE Max(DOMAIN index) + 1

IndexedIsTaken(v) == v \in DOMAIN index   \* mutant: a directory nobody could read is replaced

Taken(v) == v \in DOMAIN index \/ v \in DOMAIN dirs

Manifest(o, v) ==
    [version |-> v, rows |-> cutting[o].rows, parents |-> cutting[o].parents,
     source |-> LabelingSource(cutting[o].rows)]

With(fn, v, m) == [w \in DOMAIN fn \cup {v} |-> IF w = v THEN m ELSE fn[w]]
Without(fn, v) == [w \in DOMAIN fn \ {v} |-> fn[w]]
Complete(m) == {[file |-> "manifest.json", of |-> m], [file |-> "dataset.csv", of |-> m]}

CutEvent(cut) == IF cut.parents = <<>> THEN "DatasetCreated" ELSE "DatasetDerived"

\* the version asked for, or the next one; the staged directory is renamed into place
Install(o, v) ==
    /\ cutting[o] # NoCut /\ v \in Versions /\ ~Taken(v)
    /\ dirs' = With(dirs, v, Complete(Manifest(o, v)))
    /\ index' = With(index, v, Manifest(o, v))
    /\ cuts' = Append(cuts, Manifest(o, v))
    /\ cutting' = [cutting EXCEPT ![o] = NoCut]
    /\ asked' = asked \ {v}
    /\ Owe(o, Line(CutEvent(cutting[o]), v, Len(cuts) + 1))
    /\ UNCHANGED <<storeVars, reviewVars>>

\* the version is taken, in the index or by a directory nobody can read
InstallRefused(o, v) ==
    /\ cutting[o] # NoCut /\ Taken(v)
    /\ cutting' = [cutting EXCEPT ![o] = NoCut]
    /\ UNCHANGED <<storeVars, reviewVars, auditVars, index, dirs, asked, cuts>>

Delete(o, v) ==
    /\ Free(o) /\ v \in DOMAIN index
    /\ index' = Without(index, v)
    /\ dirs' = Without(dirs, v)
    /\ asked' = asked \cup {v}
    /\ Owe(o, Line("DatasetDeleted", v, Len(cuts)))
    /\ UNCHANGED <<storeVars, reviewVars, cutting, cuts>>

FilesOf(v) == IF v \in DOMAIN dirs THEN dirs[v] ELSE {}

\* RemoveAll stops half way: an error, nothing audited, the version still listed
DeleteFails(v, left) ==
    /\ v \in DOMAIN index /\ left # FilesOf(v)
    /\ dirs' = With(dirs, v, left)
    /\ asked' = asked \cup {v}
    /\ UNCHANGED <<storeVars, reviewVars, auditVars, index, cutting, cuts>>

\* scan: the directories with a manifest, read from it
Readable_(d) == {v \in DOMAIN d : \E x \in d[v] : x.file = "manifest.json"}
ManifestIn(files_) == (CHOOSE x \in files_ : x.file = "manifest.json").of

DatasetRestart ==
    /\ index' = [v \in Readable_(dirs) |-> ManifestIn(dirs[v])]
    /\ cutting' = [o \in Operators |-> NoCut]
    /\ UNCHANGED <<dirs, asked, cuts>>

-----------------------------------------------------------------------------
(* Properties. *)

\* A version is put in place once: until it is deleted it holds exactly what its
\* request built, and no request ever writes over a directory, not even over one a
\* broken delete left behind and nothing lists (dataset.go:494).
VersionsImmutable ==
    [][\A v \in DOMAIN dirs : v \in DOMAIN dirs' => dirs'[v] \subseteq dirs[v]]_dirs

\* Only a delete takes anything away: a version nobody ran a delete on is listed,
\* complete, under the manifest it was cut with, after any crash; and the next
\* version number is free unless a broken delete is in its way (dataset.go:411).
OnlyDeletesDamage ==
    /\ \A i \in DOMAIN cuts : cuts[i].version \notin asked =>
        LET v == cuts[i].version
        IN  /\ v \in DOMAIN index /\ v \in DOMAIN dirs
            /\ dirs[v] = Complete(index[v])
            /\ \E j \in i .. Len(cuts) : cuts[j] = index[v]
    /\ NextVersion \in DOMAIN dirs => NextVersion \in asked

\* A dataset says "human_review" only when a person gave each of its labels to the
\* flow id it stands beside: none is a model's, whatever is reviewed, un-reviewed,
\* ignored or reclassified while it is cut (reviewed.go:16).
HumanReviewIsHuman ==
    \A i \in DOMAIN cuts : cuts[i].source = "human_review" =>
        \A r \in cuts[i].rows :
            \E j \in DOMAIN decisions[r.flow] : decisions[r.flow][j].class = r.label

\* ... and gave it to that very flow: the label column "genuinely came from a human
\* decision" on the traffic beside it, not on a flow that had its number before a
\* restart (reviewed.go:20).
HumanLabelsAreForTheirFlow ==
    \A i \in DOMAIN cuts : cuts[i].source = "human_review" =>
        \A r \in cuts[i].rows :
            \E j \in DOMAIN decisions[r.flow] :
                decisions[r.flow][j].class = r.label /\ decisions[r.flow][j].boot = r.boot
=============================================================================
