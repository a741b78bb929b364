----------------------------- MODULE MCCuration -----------------------------
(***************************************************************************)
(* One behaviour has training runs and appends that fail; or reviews and   *)
(* one dataset cut from them; or several requests cutting, deriving and    *)
(* deleting versions.  In the last two a line is written before the next   *)
(* change: the kinds share the audit log and the restarts only.            *)
(***************************************************************************)
EXTENDS Curation

NoRuns == now = 0 /\ \A r \in Runs : byId[r] = NoRun
LinesWritten == Failures = 0 /\ Cardinality({o \in Operators : ~Free(o)}) <= 1
OneVerdictEach == Len(verdicts) = lastFlow /\ records = 1 .. lastFlow
NoDecisions == \A f \in FlowIds : decisions[f] = <<>>

Training == lastFlow = 0 /\ NoDecisions /\ cuts = <<>>
Busy == {o \in Operators : cutting[o] # NoCut}
Reviewing == /\ NoRuns /\ LinesWritten /\ asked = {} /\ Cardinality(Busy) + Len(cuts) <= 1
             /\ boot > 1 => OneVerdictEach
             /\ \A o \in Busy : cutting[o].sel # "model" /\ cutting[o].parents = <<>>
             /\ Busy # {} \/ cuts # <<>> => lastFlow = MaxFlows
Versioning == /\ NoRuns /\ LinesWritten /\ NoDecisions /\ OneVerdictEach
              /\ Cardinality(asked) <= 1
              /\ \A o \in Busy : Len(cutting[o].parents) <= 1
              /\ boot > 1 => Cardinality(Busy) <= 1

MCNext == CurationNext /\ (Training \/ Reviewing \/ Versioning)'
MCSpec == CurationInit /\ [][MCNext]_curationVars

\* where no append fails, the order of the lines already written changes nothing that follows
View == <<storeVars, reviewVars, datasetVars, runVars, owed, lost,
          IF Training THEN <<auditFile, newline, appended>> ELSE Appended>>
Symmetry == Permutations(Operators) \cup Permutations(Classes)
=============================================================================
