-------------------------- MODULE ModelActivation --------------------------
(***************************************************************************)
(* Which model scores the traffic.  Four places hold an answer: the model  *)
(* registry (internal/registry), its file registry.json, the live model    *)
(* set of inference.Runtime, and the audit log.  The activate and          *)
(* deactivate handlers (internal/api/models.go) update them one after the  *)
(* other without a lock of their own, requests run concurrently, a write of*)
(* the file can fail, and the daemon can stop between any two steps.       *)
(***************************************************************************)
EXTENDS FiniteSets

CONSTANTS
    Models, Roles, RoleOf,
    Procs,          \* bound: requests served at the same time
    None,           \* no model; in the runtime, the fallback of that role
    Ops,            \* what operators ask for: activate, deactivate
    Shelves         \* bound: the sets of bundles that may be on disk together

Marks == {"even", "crossed", "idle", "told", "lost"}

ASSUME ActivationAssumption ==
    /\ RoleOf \in [Models -> Roles] /\ None \notin Models
    /\ Ops \subseteq {"activate", "deactivate"} /\ Procs \cap Marks = {}

VARIABLES
    phase,      \* the daemon: down, reconcile, scan or serving
    status,     \* Registry.byID[m].Status; "unknown" when not registered
    disk,       \* the statuses in registry.json
    runtime,    \* the live model of each role in inference.Runtime
    lastAudit,  \* the event of the newest audit record of each model
    reconciled, \* Registry.reconciled, not audited yet
    req,        \* the request each handler is serving
    lead,       \* history: the request whose status change the live model of the role has
                \* still to follow; "even" once it has, "idle" when that request deactivated
                \* another model than the active one, "crossed" when an older request came after it
    line        \* history: the request that has still to audit the newest change of a model;
                \* "told" once it has, "lost" when no request will or an older one came after it

vars == <<phase, status, disk, runtime, lastAudit, reconciled, req, lead, line>>

Statuses == {"registered", "active", "deactivated"}
Known == {m \in Models : status[m] # "unknown"}
Requests ==
    [pc : {"idle", "set", "swap", "audit_prev", "audit"}, op : {"activate", "deactivate"},
     model : Models \cup {None}, prev : Models \cup {None}]
NoRequest == [pc |-> "idle", op |-> "activate", model |-> None, prev |-> None]

Init ==
    /\ phase = "down"
    /\ status = [m \in Models |-> "unknown"] /\ disk = status
    /\ runtime = [r \in Roles |-> None]
    /\ lastAudit = [m \in Models |-> "none"]
    /\ reconciled = {} /\ req = [p \in Procs |-> NoRequest]
    /\ lead = [r \in Roles |-> "even"] /\ line = [m \in Models |-> "told"]

-----------------------------------------------------------------------------
(* Startup: registry.Open, the audit of what it demoted, the sweep.        *)

ReconcileKeeps(st) == st   \* mutant: activation survives a restart

Reconcile(st) == IF st = "active" THEN "deactivated" ELSE st

\* The reconciled registry is written back; when that fails the old file stays.
Open(written) ==
    /\ phase = "down" /\ phase' = "reconcile"
    /\ status' = [m \in Models |-> Reconcile(disk[m])]
    /\ reconciled' = {m \in Models : disk[m] = "active"}
    /\ disk' = IF written /\ reconciled' # {} THEN status' ELSE disk
    /\ runtime' = [r \in Roles |-> None]
    /\ UNCHANGED <<lastAudit, req, lead, line>>

AuditReconciled(m) ==
    /\ phase = "reconcile" /\ m \in reconciled
    /\ reconciled' = reconciled \ {m}
    /\ lastAudit' = [lastAudit EXCEPT ![m] = "deactivated"]
    /\ line' = [line EXCEPT ![m] = "told"]
    /\ UNCHANGED <<phase, status, disk, runtime, req, lead>>

StartSweep ==
    /\ phase = "reconcile" /\ reconciled = {}
    /\ phase' = "scan"
    /\ UNCHANGED <<status, disk, runtime, lastAudit, reconciled, req, lead, line>>

\* A bundle found on disk: a new one is registered, and rolled back when the file
\* cannot be written; a known one is refreshed, its status untouched.
Register(m, written) ==
    /\ phase = "scan" /\ \E shelf \in Shelves : Known \cup {m} \subseteq shelf
    /\ LET registered == IF m \in Known THEN status ELSE [status EXCEPT ![m] = "registered"]
       IN /\ status' = IF written THEN registered ELSE status
          /\ disk' = IF written THEN registered ELSE disk
          /\ lastAudit' = IF written /\ m \notin Known
                          THEN [lastAudit EXCEPT ![m] = "registered"] ELSE lastAudit
    /\ UNCHANGED <<phase, runtime, reconciled, req, lead, line>>

Serve ==
    /\ phase = "scan" /\ phase' = "serving"
    /\ UNCHANGED <<status, disk, runtime, lastAudit, reconciled, req, lead, line>>

\* What is still to be audited when the daemon stops never is.
Crash ==
    /\ phase # "down" /\ phase' = "down"
    /\ req' = [p \in Procs |-> NoRequest] /\ reconciled' = {}
    /\ status' = [m \in Models |-> "unknown"] /\ runtime' = [r \in Roles |-> None]
    /\ lead' = [r \in Roles |-> "even"]
    /\ line' = [m \in Models |-> IF line[m] \in Procs \/ m \in reconciled THEN "lost" ELSE line[m]]
    /\ UNCHANGED <<disk, lastAudit>>

-----------------------------------------------------------------------------
(* Registry.SetStatus: one step under the registry's lock. *)

SameRoleActives(m) ==
    {o \in Models \ {m} : status[o] = "active" /\ RoleOf[o] = RoleOf[m]}

SetStatusToOnly(m, st) == [status EXCEPT ![m] = st]   \* mutant: no demotion

SetStatusTo(m, st) ==
    [o \in Models |->
        IF o = m THEN st
        ELSE IF st = "active" /\ o \in SameRoleActives(m) THEN "deactivated" ELSE status[o]]

PersistNoRollback(next, written) ==   \* mutant: memory keeps what the file did not take
    /\ status' = next
    /\ disk' = IF written THEN next ELSE disk

\* The change is kept, in memory and in the file, or neither.
Persist(next, written) ==
    /\ status' = IF written THEN next ELSE status
    /\ disk' = IF written THEN next ELSE disk

-----------------------------------------------------------------------------
(* The handlers. *)

\* The active model of a role, the first in registration order: there is at most
\* one (OneActivePerRole).
ActiveByRole(r) ==
    LET active == {m \in Models : status[m] = "active" /\ RoleOf[m] = r}
    IN IF active = {} THEN None ELSE CHOOSE m \in active : TRUE

\* Get, the bundle is loaded and built, and the model to be replaced is looked up.
Begin(p, op, m) ==
    /\ phase = "serving" /\ req[p].pc = "idle" /\ op \in Ops /\ m \in Known
    /\ req' = [req EXCEPT ![p] = [pc |-> "set", op |-> op, model |-> m,
                                  prev |-> ActiveByRole(RoleOf[m])]]
    /\ UNCHANGED <<phase, status, disk, runtime, lastAudit, reconciled, lead, line>>

\* A model it demotes is audited when it is the one the request had looked up.
Owed(p, m) ==
    IF m = req[p].model THEN p
    ELSE IF req[p].op = "activate" /\ m \in SameRoleActives(req[p].model)
    THEN IF m = req[p].prev THEN p ELSE "lost"
    ELSE line[m]

SetStatus(p, written) ==
    /\ req[p].pc = "set"
    /\ Persist(SetStatusTo(req[p].model,
                           IF req[p].op = "activate" THEN "active" ELSE "deactivated"), written)
    /\ req' = [req EXCEPT ![p] = IF written THEN [@ EXCEPT !.pc = "swap"] ELSE NoRequest]
    /\ lead' = IF written THEN [lead EXCEPT ![RoleOf[req[p].model]] = p] ELSE lead
    /\ line' = IF written THEN [m \in Models |-> Owed(p, m)] ELSE line
    /\ UNCHANGED <<phase, runtime, lastAudit, reconciled>>

\* How a role stands once the request has changed the live model.
Followed(p, r) ==
    CASE lead[r] \in Procs \ {p} -> lead[r]
      [] lead[r] \notin Procs -> "crossed"
      [] OTHER -> IF req[p].op = "deactivate" /\ ActiveByRole(r) # None THEN "idle" ELSE "even"

\* Runtime.ActivateRole or DeactivateRole.
Swap(p) ==
    /\ req[p].pc = "swap"
    /\ runtime' = [runtime EXCEPT ![RoleOf[req[p].model]] =
                      IF req[p].op = "activate" THEN req[p].model ELSE None]
    /\ req' = [req EXCEPT ![p].pc = "audit_prev"]
    /\ lead' = [lead EXCEPT ![RoleOf[req[p].model]] = Followed(p, RoleOf[req[p].model])]
    /\ UNCHANGED <<phase, status, disk, lastAudit, reconciled, line>>

\* The request's line about a model: the one still owed, or one that comes late.
Audit(p, m, event) ==
    /\ lastAudit' = [lastAudit EXCEPT ![m] = event]
    /\ line' = [line EXCEPT ![m] =
            IF @ = p THEN "told"
            ELSE IF @ = "told" /\ (event = "activated") # (lastAudit[m] = "activated") THEN "lost"
            ELSE @]

\* An activation audits the model it replaced, as it was looked up at the start.
AuditReplaced(p) ==
    /\ req[p].pc = "audit_prev"
    /\ IF req[p].op = "activate" /\ req[p].prev \notin {None, req[p].model}
       THEN Audit(p, req[p].prev, "deactivated") ELSE UNCHANGED <<lastAudit, line>>
    /\ req' = [req EXCEPT ![p].pc = "audit"]
    /\ UNCHANGED <<phase, status, disk, runtime, reconciled, lead>>

AuditSelf(p) ==
    /\ req[p].pc = "audit"
    /\ Audit(p, req[p].model, IF req[p].op = "activate" THEN "activated" ELSE "deactivated")
    /\ req' = [req EXCEPT ![p] = NoRequest]
    /\ UNCHANGED <<phase, status, disk, runtime, reconciled, lead>>

Handler(p) ==
    \/ \E op \in {"activate", "deactivate"}, m \in Models : Begin(p, op, m)
    \/ \E written \in BOOLEAN : SetStatus(p, written)
    \/ Swap(p) \/ AuditReplaced(p) \/ AuditSelf(p)

Next ==
    \/ \E written \in BOOLEAN : Open(written)
    \/ \E m \in Models : AuditReconciled(m)
    \/ StartSweep \/ Serve \/ Crash
    \/ \E m \in Models, written \in BOOLEAN : Register(m, written)
    \/ \E p \in Procs : Handler(p)

Spec == Init /\ [][Next]_vars

-----------------------------------------------------------------------------
(* Properties *)

TypeOK ==
    /\ phase \in {"down", "reconcile", "scan", "serving"}
    /\ status \in [Models -> Statuses \cup {"unknown"}]
    /\ disk \in [Models -> Statuses \cup {"unknown"}]
    /\ runtime \in [Roles -> Models \cup {None}]
    /\ lastAudit \in [Models -> {"none", "registered", "activated", "deactivated"}]
    /\ reconciled \subseteq Models
    /\ req \in [Procs -> Requests]
    /\ lead \in [Roles -> Procs \cup {"even", "crossed", "idle"}]
    /\ line \in [Models -> Procs \cup {"told", "lost"}]

OneActive(st) ==
    \A m, o \in Models :
        (st[m] = "active" /\ st[o] = "active" /\ RoleOf[m] = RoleOf[o]) => m = o

\* At most one entry is active per role, in memory and in registry.json, under
\* concurrent requests, failed writes and stops (registry.go SetStatus, ADR 0037).
OneActivePerRole == OneActive(status) /\ OneActive(disk)

\* While the daemon runs, the file says what the registry says; it may lag in one
\* way only, an activation the registry has already taken back because the write
\* of the startup reconciliation failed (registry.go persistLocked, load).
FileFollowsMemory ==
    phase # "down" =>
        \A m \in Models : disk[m] = status[m] \/ (disk[m] = "active" /\ status[m] = "deactivated")

\* Once the live model of a role has followed the newest status change of the role, the entry
\* the registry calls active is what scores the traffic, and without one the fallback does.
\* The status does not always reflect the Runtime, as registry.go:192 has it: a request that
\* took its status first may swap last ("crossed"), and deactivating an entry that is not the
\* active one takes the active model out of the Runtime all the same ("idle").
StatusMatchesRuntime ==
    phase = "serving" =>
        \A r \in Roles :
            /\ lead[r] = "even" =>
                  \A m \in Models : RoleOf[m] = r => (status[m] = "active" <=> runtime[r] = m)
            /\ lead[r] = "idle" => runtime[r] = None
            /\ \A p \in Procs : lead[r] = p => req[p].pc = "swap" /\ RoleOf[req[p].model] = r

\* Once the newest change of a model has its line, the newest audit record of the model says
\* whether it is active; a line still to come is one its request is about to write.  "Reading
\* the log per model gives the right answer" (models.go:236) fails where a line is lost: a
\* stop before it, a model demoted by a request that had looked up another, and the line of
\* an older request that comes after the newer one's.
AuditTellsWhatIsActive ==
    phase \in {"scan", "serving"} =>
        \A m \in Models :
            /\ line[m] = "told" => (status[m] = "active" <=> lastAudit[m] = "activated")
            /\ \A p \in Procs : line[m] = p => /\ req[p].pc \in {"swap", "audit_prev", "audit"}
                                             /\ m \in {req[p].model, req[p].prev}

\* The registry, the live set and the audit log say the same of every model, as far as the
\* handlers of models.go, which take no lock across the three, keep them together: whatever
\* requests overlap, writes fail and stops occur, they part only in the cases named above.
StatusAndTrailAreTrue == StatusMatchesRuntime /\ AuditTellsWhatIsActive

=============================================================================
