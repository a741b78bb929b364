---------------------------- MODULE TrainingRuns ----------------------------
(***************************************************************************)
(* The mirror of external training runs (internal/training): a trainer     *)
(* registers a run and posts its progress, again when it is unsure the     *)
(* daemon heard it; the daemon keeps the newest reports, on disk and in    *)
(* its index, until a report ends the run.                                 *)
(***************************************************************************)
EXTENDS AuditLog

CONSTANTS Runs,         \* run ids
          Epochs,       \* epoch numbers a report may carry; 0 when it has none
          HistoryCap,   \* reports a run keeps
          StaleAfter,   \* silence after which a running run is shown as stale
          MaxTime,      \* bound on the clock
          MaxReports    \* bound on the reports accepted for a run

ASSUME TrainingAssumption == HistoryCap \in Nat \ {0} /\ StaleAfter \in Nat /\ Epochs \subseteq Nat

VARIABLES byId,         \* the store's index
          runFiles,     \* the training directory
          now,          \* the clock
          reports       \* per run: every report accepted, oldest first

runVars == <<byId, runFiles, now, reports>>
NoRun == [status |-> "none"]
TerminalStatus == {"completed", "failed"}

TrainingInit ==
    /\ now = 0
    /\ byId = [r \in Runs |-> NoRun] /\ runFiles = [r \in Runs |-> NoRun]
    /\ reports = [r \in Runs |-> <<>>]

\* persistLocked, then the index, under the store's lock
Store(r, upd) ==
    /\ byId' = [byId EXCEPT ![r] = upd]
    /\ runFiles' = [runFiles EXCEPT ![r] = upd]

Start(o, r) ==
    /\ Free(o) /\ byId[r] = NoRun
    /\ Store(r, [status |-> "running", epoch |-> 0, history |-> <<>>, updated |-> now])
    /\ Owe(o, Line("TrainingStarted", r, 0))
    /\ UNCHANGED <<now, reports>>

Open(r) == byId[r].status = "running"

Capped(history) ==
    IF Len(history) <= HistoryCap THEN history
    ELSE SubSeq(history, Len(history) - HistoryCap + 1, Len(history))

\* a report with no epoch of its own leaves the run's
AppendProgress(r, epoch) ==
    /\ Open(r)
    /\ Store(r, [byId[r] EXCEPT !.history = Capped(Append(@, epoch)), !.updated = now,
                                !.epoch = IF epoch > 0 THEN epoch ELSE @])
    /\ reports' = [reports EXCEPT ![r] = Append(@, [epoch |-> epoch, status |-> "running"])]
    /\ UNCHANGED <<now, auditVars>>

EndEvent(status) == IF status = "completed" THEN "TrainingCompleted" ELSE "TrainingFailed"

\* terminate: Finish ("done" among the progress reports) and Fail
Terminate(o, r, status) ==
    /\ Free(o) /\ Open(r)
    /\ Store(r, [byId[r] EXCEPT !.status = status, !.updated = now])
    /\ reports' = [reports EXCEPT ![r] = Append(@, [epoch |-> 0, status |-> status])]
    /\ Owe(o, Line(EndEvent(status), r, Len(reports[r]) + 1))
    /\ UNCHANGED now

\* staleize: how Get and List show a run; never stored
Shown(r) ==
    IF byId[r].status = "running" /\ now - byId[r].updated > StaleAfter
    THEN "stale" ELSE byId[r].status

Tick ==
    /\ now < MaxTime /\ now' = now + 1
    /\ UNCHANGED <<byId, runFiles, reports, auditVars>>

TrainingRestart ==
    /\ byId' = runFiles
    /\ UNCHANGED <<runFiles, now, reports>>

-----------------------------------------------------------------------------
\* the progress reports of a run: all but the one that ended it
Progress(r) == {i \in DOMAIN reports[r] : reports[r][i].status = "running"}

\* A run keeps the newest reports it accepted, in order, and its epoch is the last
\* one reported; the report that ends it is its last, however trainers repeat
\* themselves and the daemon restarts; a silent run shows as stale only until it is
\* heard again, and an ended one never does (training.go:250).
RunTrail ==
    \A r \in Runs : byId[r] # NoRun =>
        /\ \A i \in DOMAIN reports[r] \ Progress(r) :
                i = Len(reports[r]) /\ Shown(r) = reports[r][i].status
        /\ LET heard == Cardinality(Progress(r))
               kept == byId[r].history
           IN  /\ Len(kept) = IF heard < HistoryCap THEN heard ELSE HistoryCap
               /\ \A i \in DOMAIN kept : kept[i] = reports[r][heard - Len(kept) + i].epoch
        /\ IF \A i \in DOMAIN reports[r] : reports[r][i].epoch = 0 THEN byId[r].epoch = 0
           ELSE \E i \in DOMAIN reports[r] :
                    /\ byId[r].epoch = reports[r][i].epoch /\ byId[r].epoch # 0
                    /\ \A j \in DOMAIN reports[r] : j > i => reports[r][j].epoch = 0
=============================================================================
