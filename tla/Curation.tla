------------------------------ MODULE Curation ------------------------------
(***************************************************************************)
(* The curation side of the daemon: reviews, the datasets cut from them    *)
(* and the training runs that use those, sharing the flow store, one audit *)
(* log and the restarts of one process (cmd/synapsed/main.go, api.go).     *)
(***************************************************************************)
EXTENDS DatasetManager, TrainingRuns

curationVars == <<storeVars, reviewVars, datasetVars, runVars, auditVars>>

CurationInit == AuditInit /\ ReviewInit /\ DatasetInit /\ TrainingInit

Decided == Cardinality({d \in FlowIds \X (1 .. MaxReviews) : d[2] \in DOMAIN decisions[d[1]]})

\* the flow store goes on underneath
StoreStep ==
    /\ \/ \E f \in FlowIds, c \in Classes : Classify(f, c)
       \/ \E f \in FlowIds : EvictRecord(f)
    /\ UNCHANGED <<datasetVars, runVars>>

HandleReviewWrite(o) ==
    /\ Decided < MaxReviews
    /\ \E f \in FlowIds, s \in ReviewStates, l \in Classes \cup {NoLabel} : Put(o, f, s, l)
    /\ UNCHANGED <<datasetVars, runVars>>

\* Create, or Derive when the request names a parent
HandleDatasetCreate(o) ==
    /\ \/ /\ Len(cuts) < MaxCuts
          /\ \E sel \in Selections, p \in Versions \cup {0} : Cut(o, sel, p)
       \/ \E v \in Versions : Install(o, v) \/ InstallRefused(o, v)
    /\ UNCHANGED runVars

HandleDatasetDelete(o) ==
    /\ \E v \in Versions :
        Delete(o, v) \/ \E left \in SUBSET FilesOf(v) : DeleteFails(v, left)
    /\ UNCHANGED runVars

Elsewhere == UNCHANGED <<storeVars, reviewVars, datasetVars>>
HandleTrainingCreate(o) == (\E r \in Runs : Start(o, r)) /\ Elsewhere
HandleTrainingFail(o) == (\E r \in Runs : Terminate(o, r, "failed")) /\ Elsewhere

\* a report whose event is "done" ends the run, any other is progress
HandleTrainingProgress(o) ==
    /\ \E r \in Runs :
        \/ Terminate(o, r, "completed")
        \/ Len(reports[r]) < MaxReports /\ \E e \in Epochs : AppendProgress(r, e)
    /\ Elsewhere

WriteLine(o) == (\E how \in Outcomes : LogSubject(o, how)) /\ Elsewhere /\ UNCHANGED runVars
Time == Tick /\ Elsewhere

\* the daemon stops at any point, perhaps in the middle of a delete, and starts again
StoresRestart ==
    /\ boot < MaxBoots
    /\ AuditRestart /\ ReviewRestart /\ DatasetRestart /\ TrainingRestart

CurationNext ==
    \/ StoreStep \/ Time \/ StoresRestart
    \/ \E o \in Operators :
        \/ HandleDatasetCreate(o) \/ WriteLine(o)
        \/ /\ cutting[o] = NoCut
           /\ \/ HandleReviewWrite(o) \/ HandleDatasetDelete(o)
              \/ HandleTrainingCreate(o) \/ HandleTrainingProgress(o) \/ HandleTrainingFail(o)

CurationSpec == CurationInit /\ [][CurationNext]_curationVars

-----------------------------------------------------------------------------
\* What was accepted and calls for a line, store by store.
ReviewLines == UNION {{Line("ReviewUpdated", f, n) : n \in DOMAIN decisions[f]} : f \in FlowIds}
StartLines == {Line("TrainingStarted", r, 0) : r \in {x \in Runs : byId[x] # NoRun}}
EndLines ==
    UNION {{Line(EndEvent(reports[r][n].status), r, n) : n \in DOMAIN reports[r] \ Progress(r)} : r \in Runs}
CutLines == {Line(CutEvent(cuts[n]), cuts[n].version, n) : n \in DOMAIN cuts}
Changes == ReviewLines \cup StartLines \cup EndLines \cup CutLines

\* Each review, start and end of a run and cut of a version that was accepted has exactly one
\* line, a version that is gone has the line of its delete, and no other line is ever written,
\* whichever requests race.  The line is appended after the store has let its lock go: it is
\* in the file, or its request still owes it, or the daemon stopped before it and it is lost -
\* the change stands without a line (training.go:375, review.go:589, datasets.go:252, :328).
EveryChangeHasItsLine ==
    /\ LinesOnce
    /\ {l \in Lines : l.event # "DatasetDeleted"} = Changes
    /\ \A l \in Lines : l.event = "DatasetDeleted" /\ l.subject \in DOMAIN dirs =>
          \E n \in DOMAIN cuts : n > l.nth /\ cuts[n].version = l.subject
    /\ \A n \in DOMAIN cuts : cuts[n].version \notin DOMAIN dirs =>
          \E k \in n .. Len(cuts) : Line("DatasetDeleted", cuts[n].version, k) \in Lines

\* The trails tell what happened: a review is the last of its decisions and a run what was
\* reported of it, each with its history; every change has its line, unless a stop took it; and
\* the lines appended read back in order, but for a failed append and the one line glued to it.
TrailsTellWhatHappened == ReviewTrail /\ RunTrail /\ EveryChangeHasItsLine /\ AuditReadable

\* An operator's work stands: a version changes only by a delete, and a label cut as a human's
\* was given by a human (Manager.Delete, Manager.create).
OperatorWorkStands == OnlyDeletesDamage /\ HumanReviewIsHuman

=============================================================================
