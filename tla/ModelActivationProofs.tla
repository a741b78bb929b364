----------------------- MODULE ModelActivationProofs -----------------------
(***************************************************************************)
(* Proofs about ModelActivation for every value of its constants: any      *)
(* number of models, roles and concurrent requests, writes that fail and   *)
(* stops at any point.                                                     *)
(***************************************************************************)
EXTENDS Scoring, FiniteSetTheorems, SequenceTheorems, TLAPS

AnyStatus == Statuses \cup {"unknown"}

(* What the operators return. *)

LEMMA ActiveByRoleType ==
    ASSUME NEW r \in Roles
    PROVE  ActiveByRole(r) \in Models \cup {None}
BY DEF ActiveByRole

LEMMA SetStatusToType ==
    ASSUME status \in [Models -> AnyStatus], NEW m, NEW st \in Statuses
    PROVE  SetStatusTo(m, st) \in [Models -> AnyStatus]
BY DEF SetStatusTo, AnyStatus, Statuses

LEMMA AdvanceType ==
    ASSUME NEW q \in Requests, NEW at \in {"swap", "audit_prev", "audit"}
    PROVE  [q EXCEPT !.pc = at] \in Requests
BY DEF Requests

LEMMA NoRequestType == NoRequest \in Requests
BY DEF NoRequest, Requests

\* Every step of a handler leaves every request well formed.
LEMMA HandlerRequests ==
    ASSUME TypeOK, NEW p \in Procs, Handler(p)
    PROVE  req' \in [Procs -> Requests]
<1>1. req \in [Procs -> Requests] /\ req[p] \in Requests
  BY DEF TypeOK
<1>2. ASSUME NEW op \in {"activate", "deactivate"}, NEW m \in Models, Begin(p, op, m)
      PROVE  req' \in [Procs -> Requests]
  <2>1. ActiveByRole(RoleOf[m]) \in Models \cup {None}
    BY ActivationAssumption, ActiveByRoleType
  <2>2. [pc |-> "set", op |-> op, model |-> m, prev |-> ActiveByRole(RoleOf[m])] \in Requests
    BY <2>1 DEF Requests
  <2>. QED BY <1>1, <1>2, <2>2 DEF Begin
<1>3. ASSUME NEW written \in BOOLEAN, SetStatus(p, written)
      PROVE  req' \in [Procs -> Requests]
  <2>1. [req[p] EXCEPT !.pc = "swap"] \in Requests
    BY <1>1, AdvanceType
  <2>. QED BY <1>1, <1>3, <2>1, NoRequestType DEF SetStatus
<1>4. CASE Swap(p)
  <2>1. [req[p] EXCEPT !.pc = "audit_prev"] \in Requests
    BY <1>1, AdvanceType
  <2>. QED BY <1>1, <1>4, <2>1 DEF Swap
<1>5. CASE AuditReplaced(p)
  <2>1. [req[p] EXCEPT !.pc = "audit"] \in Requests
    BY <1>1, AdvanceType
  <2>. QED BY <1>1, <1>5, <2>1 DEF AuditReplaced
<1>6. CASE AuditSelf(p)
  BY <1>1, <1>6, NoRequestType DEF AuditSelf
<1>. QED BY <1>2, <1>3, <1>4, <1>5, <1>6 DEF Handler

LEMMA PersistType ==
    ASSUME status \in [Models -> AnyStatus], disk \in [Models -> AnyStatus],
           NEW next \in [Models -> AnyStatus], NEW written, Persist(next, written)
    PROVE  status' \in [Models -> AnyStatus] /\ disk' \in [Models -> AnyStatus]
BY DEF Persist

-----------------------------------------------------------------------------
(* Type correctness. *)

LEMMA InitType == Init => TypeOK
BY ActivationAssumption, NoRequestType DEF Init, TypeOK, Statuses

LEMMA AuditType ==
    ASSUME TypeOK, NEW p \in Procs, NEW m, NEW event \in {"activated", "deactivated"}, Audit(p, m, event)
    PROVE  /\ lastAudit' \in [Models -> {"none", "registered", "activated", "deactivated"}]
           /\ line' \in [Models -> Procs \cup {"told", "lost"}]
BY DEF Audit, TypeOK

LEMMA HandlerType ==
    ASSUME TypeOK, NEW p \in Procs, Handler(p)
    PROVE  TypeOK'
<1>1. req' \in [Procs -> Requests]
  BY HandlerRequests
<1>2. req[p].model \in Models \cup {None} /\ req[p].op \in {"activate", "deactivate"}
  BY DEF TypeOK, Requests
<1>3. ASSUME NEW op \in {"activate", "deactivate"}, NEW m \in Models, Begin(p, op, m)
      PROVE  TypeOK'
  BY <1>1, <1>3 DEF Begin, TypeOK
<1>4. ASSUME NEW written \in BOOLEAN, SetStatus(p, written)
      PROVE  TypeOK'
  <2> DEFINE st == IF req[p].op = "activate" THEN "active" ELSE "deactivated"
             next == SetStatusTo(req[p].model, st)
  <2>1. st \in Statuses /\ status \in [Models -> AnyStatus] /\ disk \in [Models -> AnyStatus]
    BY DEF Statuses, AnyStatus, TypeOK
  <2>2. next \in [Models -> AnyStatus]
    BY <2>1, SetStatusToType
  <2>3. Persist(next, written) /\ UNCHANGED <<phase, runtime, lastAudit, reconciled>>
    BY <1>4 DEF SetStatus
  <2>5. lead' \in [Roles -> Procs \cup {"even", "crossed", "idle"}]
    BY <1>4 DEF SetStatus, TypeOK
  <2>6. line' \in [Models -> Procs \cup {"told", "lost"}]
    <3>1. \A m \in Models : Owed(p, m) \in Procs \cup {"told", "lost"}
      BY DEF Owed, TypeOK
    <3>. QED BY <1>4, <3>1 DEF SetStatus, TypeOK
  <2> HIDE DEF next
  <2>4. status' \in [Models -> AnyStatus] /\ disk' \in [Models -> AnyStatus]
    BY <2>1, <2>2, <2>3, PersistType
  <2>. QED BY <1>1, <2>3, <2>4, <2>5, <2>6 DEF TypeOK, AnyStatus
<1>5. CASE Swap(p)
  <2>1. \A r \in Roles : Followed(p, r) \in Procs \cup {"even", "crossed", "idle"}
    BY DEF Followed
  <2>2. lead' \in [Roles -> Procs \cup {"even", "crossed", "idle"}]
    BY <1>5, <2>1 DEF Swap, TypeOK
  <2>3. runtime' \in [Roles -> Models \cup {None}]
    BY <1>2, <1>5 DEF Swap, TypeOK
  <2>. QED BY <1>1, <1>5, <2>2, <2>3 DEF Swap, TypeOK
<1>6. CASE AuditReplaced(p)
  BY <1>1, <1>6, AuditType DEF AuditReplaced, TypeOK
<1>7. CASE AuditSelf(p)
  BY <1>1, <1>7, AuditType DEF AuditSelf, TypeOK
<1>. QED BY <1>3, <1>4, <1>5, <1>6, <1>7 DEF Handler

LEMMA OpenType ==
    ASSUME TypeOK, NEW written \in BOOLEAN, Open(written)
    PROVE  TypeOK'
<1>1. \A m \in Models : Reconcile(disk[m]) \in AnyStatus
  BY DEF Reconcile, TypeOK, AnyStatus, Statuses
<1>2. status' \in [Models -> AnyStatus]
  BY <1>1 DEF Open
<1>3. runtime' \in [Roles -> Models \cup {None}] /\ reconciled' \subseteq Models
  BY DEF Open
<1>. QED BY <1>2, <1>3 DEF Open, TypeOK, AnyStatus

LEMMA RegisterType ==
    ASSUME TypeOK, NEW m \in Models, NEW written \in BOOLEAN, Register(m, written)
    PROVE  TypeOK'
BY DEF Register, TypeOK, Statuses

LEMMA NextType == TypeOK /\ [Next]_vars => TypeOK'
<1> SUFFICES ASSUME TypeOK, [Next]_vars
             PROVE  TypeOK'
  OBVIOUS
<1>1. CASE UNCHANGED vars
  BY <1>1 DEF vars, TypeOK
<1>2. ASSUME NEW m \in Models, AuditReconciled(m)
      PROVE  TypeOK'
  BY <1>2 DEF AuditReconciled, TypeOK
<1>3. CASE StartSweep \/ Serve
  BY <1>3 DEF StartSweep, Serve, TypeOK
<1>4. CASE Crash
  BY <1>4, NoRequestType DEF Crash, TypeOK
<1>. QED BY <1>1, <1>2, <1>3, <1>4, OpenType, RegisterType, HandlerType DEF Next

\* Every variable keeps its type: the daemon's phases, the registry's statuses, the
\* live set, the audit log and the requests being served.
THEOREM ModelsTypeCorrect == Spec => []TypeOK
BY InitType, NextType, PTL DEF Spec

-----------------------------------------------------------------------------
(* One active entry per role, and a file that follows the registry.        *)

LEMMA SetStatusToOneActive ==
    ASSUME status \in [Models -> AnyStatus], OneActive(status), NEW m, NEW st \in Statuses
    PROVE  OneActive(SetStatusTo(m, st))
<1> DEFINE next == SetStatusTo(m, st)
<1> SUFFICES ASSUME NEW a \in Models, NEW b \in Models, next[a] = "active", next[b] = "active",
                    RoleOf[a] = RoleOf[b]
             PROVE  a = b
  BY DEF OneActive
<1>1. ASSUME NEW o \in Models, next[o] = "active"
      PROVE  (o = m /\ st = "active") \/ (status[o] = "active" /\ (o = m \/ o \notin SameRoleActives(m) \/ st # "active"))
  BY <1>1 DEF SetStatusTo
<1>2. CASE a = m \/ b = m
  BY <1>1, <1>2 DEF SetStatusTo, SameRoleActives
<1>3. CASE a # m /\ b # m
  BY <1>1, <1>3 DEF OneActive
<1>. QED BY <1>2, <1>3

Inv == TypeOK /\ OneActivePerRole /\ FileFollowsMemory

LEMMA InitInv == Init => Inv
<1> SUFFICES ASSUME Init PROVE Inv
  OBVIOUS
<1>1. TypeOK
  BY InitType
<1>2. OneActivePerRole /\ FileFollowsMemory
  BY DEF Init, OneActivePerRole, OneActive, FileFollowsMemory
<1>. QED BY <1>1, <1>2 DEF Inv

\* The kept and the discarded outcome of a change preserve both properties.
LEMMA PersistInv ==
    ASSUME Inv, NEW next \in [Models -> AnyStatus], OneActive(next), NEW written \in BOOLEAN,
           Persist(next, written), phase' = phase
    PROVE  OneActivePerRole' /\ FileFollowsMemory'
<1>1. CASE written
  BY <1>1 DEF Persist, OneActivePerRole, OneActive, FileFollowsMemory
<1>2. CASE ~ written
  BY <1>2 DEF Persist, Inv, OneActivePerRole, OneActive, FileFollowsMemory
<1>. QED BY <1>1, <1>2

LEMMA OpenInv ==
    ASSUME Inv, NEW written \in BOOLEAN, Open(written)
    PROVE  OneActivePerRole' /\ FileFollowsMemory'
<1>1. \A m \in Models : status'[m] # "active"
  BY DEF Open, Reconcile
<1>2. \A m \in Models : status'[m] = IF disk[m] = "active" THEN "deactivated" ELSE disk[m]
  BY DEF Open, Reconcile
<1>3. disk' = status' \/ disk' = disk
  BY DEF Open
<1>4. OneActive(status') /\ OneActive(disk')
  BY <1>1, <1>3 DEF OneActive, Inv, OneActivePerRole
<1>5. FileFollowsMemory'
  BY <1>2, <1>3 DEF FileFollowsMemory
<1>. QED BY <1>4, <1>5 DEF OneActivePerRole, OneActive

LEMMA RegisterInv ==
    ASSUME Inv, NEW m \in Models, NEW written \in BOOLEAN, Register(m, written)
    PROVE  OneActivePerRole' /\ FileFollowsMemory'
<1> DEFINE next == IF m \in Known THEN status ELSE [status EXCEPT ![m] = "registered"]
<1>1. status \in [Models -> AnyStatus] /\ OneActive(status)
  BY DEF Inv, TypeOK, AnyStatus, OneActivePerRole
<1>2. next \in [Models -> AnyStatus]
  BY <1>1 DEF AnyStatus, Statuses
<1>3. \A o \in Models : next[o] = "active" => status[o] = "active"
  BY <1>1
<1>4. OneActive(next)
  BY <1>1, <1>3 DEF OneActive
<1>5. Persist(next, written) /\ phase' = phase
  BY DEF Register, Persist
<1> HIDE DEF next
<1>. QED BY <1>2, <1>4, <1>5, PersistInv

LEMMA HandlerInv ==
    ASSUME Inv, NEW p \in Procs, Handler(p)
    PROVE  OneActivePerRole' /\ FileFollowsMemory'
<1>1. ASSUME NEW written \in BOOLEAN, SetStatus(p, written)
      PROVE  OneActivePerRole' /\ FileFollowsMemory'
  <2> DEFINE st == IF req[p].op = "activate" THEN "active" ELSE "deactivated"
             next == SetStatusTo(req[p].model, st)
  <2>1. status \in [Models -> AnyStatus] /\ OneActive(status) /\ st \in Statuses
    BY DEF Inv, TypeOK, AnyStatus, OneActivePerRole, Statuses
  <2>2. next \in [Models -> AnyStatus]
    BY <2>1, SetStatusToType
  <2>3. OneActive(next)
    BY <2>1, SetStatusToOneActive
  <2>4. Persist(next, written) /\ phase' = phase
    BY <1>1 DEF SetStatus
  <2> HIDE DEF next
  <2>. QED BY <2>2, <2>3, <2>4, PersistInv
<1>2. CASE UNCHANGED <<phase, status, disk>>
  BY <1>2 DEF Inv, OneActivePerRole, OneActive, FileFollowsMemory
<1>. QED BY <1>1, <1>2 DEF Handler, Begin, Swap, AuditReplaced, AuditSelf

LEMMA NextInv == Inv /\ [Next]_vars => Inv'
<1> SUFFICES ASSUME Inv, [Next]_vars
             PROVE  OneActivePerRole' /\ FileFollowsMemory'
  BY NextType DEF Inv
<1>1. ASSUME UNCHANGED <<status, disk>>, phase = "down" => phase' = "down"
      PROVE  OneActivePerRole' /\ FileFollowsMemory'
  BY <1>1 DEF Inv, OneActivePerRole, OneActive, FileFollowsMemory
<1>2. CASE UNCHANGED vars
  BY <1>1, <1>2 DEF vars
<1>3. ASSUME NEW m \in Models, AuditReconciled(m)
      PROVE  OneActivePerRole' /\ FileFollowsMemory'
  BY <1>1, <1>3 DEF AuditReconciled
<1>4. CASE StartSweep \/ Serve
  BY <1>1, <1>4 DEF StartSweep, Serve
<1>5. CASE Crash
  BY <1>5 DEF Crash, Inv, OneActivePerRole, OneActive, FileFollowsMemory
<1>. QED BY <1>2, <1>3, <1>4, <1>5, OpenInv, RegisterInv, HandlerInv DEF Next

\* At most one entry is active per role, in the registry and in registry.json,
\* whatever requests interleave, writes fail or stops occur (registry.go SetStatus).
THEOREM OneActiveAlways == Spec => []OneActivePerRole
<1>1. Inv => OneActivePerRole
  BY DEF Inv
<1>. QED BY <1>1, InitInv, NextInv, PTL DEF Spec

\* registry.json never says anything of a running daemon's registry but the truth,
\* save for activations the startup took back (registry.go persistLocked, load).
THEOREM FileAlwaysFollows == Spec => []FileFollowsMemory
<1>1. Inv => FileFollowsMemory
  BY DEF Inv
<1>. QED BY <1>1, InitInv, NextInv, PTL DEF Spec

-----------------------------------------------------------------------------
(* The status, the live set and the audit log.  The handlers update the three one after the
   other and without a common lock, so what holds at every step is, role by role and model by
   model, what the newest change still lacks: the swap of its request, or its line. *)

Busy(p) == req[p].pc # "idle"

\* The live model of the role against its entries.
Follows(r) ==
    /\ lead[r] = "even" => \A m \in Models : RoleOf[m] = r => (status[m] = "active" <=> runtime[r] = m)
    /\ lead[r] = "idle" => runtime[r] = None
    /\ \A p \in Procs : lead[r] = p =>
          /\ req[p].pc = "swap" /\ RoleOf[req[p].model] = r
          /\ status[req[p].model] = "active" <=> req[p].op = "activate"

\* The line the request is still to write of its own model, or of the one it replaced.
OwesOwn(p, m) ==
    /\ m = req[p].model /\ req[p].pc \in {"swap", "audit_prev", "audit"}
    /\ status[m] = "active" <=> req[p].op = "activate"

OwesReplaced(p, m) ==
    /\ m = req[p].prev /\ m # req[p].model /\ req[p].op = "activate"
    /\ req[p].pc \in {"swap", "audit_prev"} /\ status[m] # "active"

\* The audit log against the entry of the model.
Comes(m) ==
    /\ line[m] = "told" => (status[m] = "active" <=> lastAudit[m] = "activated")
    /\ \A p \in Procs : line[m] = p => OwesOwn(p, m) \/ OwesReplaced(p, m)

\* What the startup finds, and what it still has to audit.
Starting ==
    /\ \A p \in Procs : ~ Busy(p)
    /\ \A m \in Models : status[m] # "active" /\ line[m] \in {"told", "lost"}
    /\ \A r \in Roles : runtime[r] = None /\ lead[r] = "even"
    /\ phase = "down" =>
          \A m \in Models : line[m] = "told" /\ lastAudit[m] = "activated" => disk[m] = "active"
    /\ phase = "reconcile" =>
          \A m \in Models : line[m] = "told" /\ lastAudit[m] = "activated" => m \in reconciled
    /\ phase = "scan" => \A m \in Models : line[m] = "told" => lastAudit[m] # "activated"

TrailInv ==
    /\ Inv
    /\ phase # "serving" => Starting
    /\ phase = "serving" => /\ \A p \in Procs : Busy(p) => req[p].model \in Models
                            /\ \A r \in Roles : Follows(r)
                            /\ \A m \in Models : Comes(m)

LEMMA InitTrail == Init => TrailInv
<1> SUFFICES ASSUME Init PROVE TrailInv
  OBVIOUS
<1>1. Starting
  BY DEF Init, Starting, Busy, NoRequest
<1>. QED BY <1>1, InitInv DEF Init, TrailInv

\* A step of the startup.
LEMMA StartupTrail ==
    ASSUME TrailInv, Inv', phase # "serving", \/ \E written \in BOOLEAN : Open(written)
                                              \/ \E m \in Models : AuditReconciled(m)
                                              \/ StartSweep \/ Serve
                                              \/ \E m \in Models, written \in BOOLEAN : Register(m, written)
    PROVE  TrailInv'
<1>1. Starting /\ TypeOK
  BY DEF TrailInv, Inv
<1>2. ASSUME NEW written \in BOOLEAN, Open(written) PROVE TrailInv'
  <2>1. phase = "down" /\ phase' = "reconcile" /\ reconciled' = {m \in Models : disk[m] = "active"}
        /\ UNCHANGED <<lastAudit, req, lead, line>> /\ runtime' = [r \in Roles |-> None]
    BY <1>2 DEF Open
  <2>2. \A m \in Models : status'[m] # "active"
    BY <1>2 DEF Open, Reconcile
  <2>. QED BY <1>1, <2>1, <2>2 DEF TrailInv, Starting, Busy
<1>3. ASSUME NEW m \in Models, AuditReconciled(m) PROVE TrailInv'
  <2>1. /\ phase = "reconcile" /\ phase' = "reconcile" /\ reconciled' = reconciled \ {m}
        /\ lastAudit' = [lastAudit EXCEPT ![m] = "deactivated"] /\ line' = [line EXCEPT ![m] = "told"]
        /\ UNCHANGED <<status, disk, runtime, req, lead>>
    BY <1>3 DEF AuditReconciled
  <2>2. \A o \in Models : IF o = m THEN lastAudit'[o] = "deactivated" /\ line'[o] = "told"
                          ELSE lastAudit'[o] = lastAudit[o] /\ line'[o] = line[o]
    BY <1>1, <2>1 DEF TypeOK
  <2>. QED BY <1>1, <2>1, <2>2 DEF TrailInv, Starting, Busy
<1>4. CASE StartSweep
  BY <1>1, <1>4 DEF StartSweep, TrailInv, Starting, Busy
<1>5. CASE Serve
  <2>1. phase = "scan" /\ phase' = "serving"
        /\ UNCHANGED <<status, disk, runtime, lastAudit, reconciled, req, lead, line>>
    BY <1>5 DEF Serve
  <2>2. \A r \in Roles : Follows(r)'
    BY <1>1, <2>1, ActivationAssumption DEF Follows, Starting, Marks
  <2>3. \A m \in Models : Comes(m)'
    BY <1>1, <2>1, ActivationAssumption DEF Comes, Starting, Marks
  <2>4. \A p \in Procs : ~ Busy(p)'
    BY <1>1, <2>1 DEF Starting, Busy
  <2>. QED BY <2>1, <2>2, <2>3, <2>4 DEF TrailInv
<1>6. ASSUME NEW m \in Models, NEW written \in BOOLEAN, Register(m, written) PROVE TrailInv'
  <2>1. phase = "scan" /\ UNCHANGED <<phase, runtime, reconciled, req, lead, line>>
    BY <1>6 DEF Register
  <2>2. \A o \in Models : status'[o] # "active" /\ (line[o] = "told" => lastAudit'[o] # "activated")
    BY <1>1, <1>6, <2>1 DEF Register, TypeOK, Starting
  <2>. QED BY <1>1, <2>1, <2>2 DEF TrailInv, Starting, Busy
<1>. QED BY <1>2, <1>3, <1>4, <1>5, <1>6

LEMMA CrashTrail ==
    ASSUME TrailInv, Inv', Crash
    PROVE  TrailInv'
<1>1. phase # "down" /\ phase' = "down" /\ UNCHANGED <<disk, lastAudit>>
      /\ req' = [p \in Procs |-> NoRequest] /\ reconciled' = {} /\ lead' = [r \in Roles |-> "even"]
      /\ status' = [m \in Models |-> "unknown"] /\ runtime' = [r \in Roles |-> None]
      /\ line' = [m \in Models |-> IF line[m] \in Procs \/ m \in reconciled THEN "lost" ELSE line[m]]
  BY DEF Crash
<1>2. \A m \in Models : line'[m] \in {"told", "lost"}
                        /\ (line'[m] = "told" => line[m] = "told" /\ m \notin reconciled)
  BY <1>1 DEF TrailInv, Inv, TypeOK
<1>3. ASSUME NEW m \in Models, line'[m] = "told", lastAudit[m] = "activated"
      PROVE  disk[m] = "active"
  <2>1. line[m] = "told" /\ m \notin reconciled
    BY <1>2, <1>3
  <2>2. phase \in {"reconcile", "scan", "serving"}
    BY <1>1 DEF TrailInv, Inv, TypeOK
  <2>3. phase = "serving"
    BY <1>3, <2>1, <2>2 DEF TrailInv, Starting
  <2>4. status[m] = "active"
    BY <1>3, <2>1, <2>3 DEF TrailInv, Comes
  <2>. QED BY <1>1, <2>4 DEF TrailInv, Inv, FileFollowsMemory
<1>4. Starting'
  BY <1>1, <1>2, <1>3 DEF Starting, Busy, NoRequest
<1>. QED BY <1>1, <1>4 DEF TrailInv

\* What a step leaves alone of a role and of a model.
LEMMA RoleKept ==
    ASSUME NEW r, Follows(r), lead'[r] = lead[r], runtime'[r] = runtime[r],
           \A m \in Models : RoleOf[m] = r => status'[m] = status[m],
           \A p \in Procs : lead[r] = p => req'[p] = req[p] /\ req[p].model \in Models
    PROVE  Follows(r)'
BY DEF Follows

LEMMA ModelKept ==
    ASSUME NEW m, Comes(m), line'[m] = line[m], status'[m] = status[m],
           lastAudit'[m] = "activated" <=> lastAudit[m] = "activated",
           \A p \in Procs : line[m] = p => req'[p] = req[p]
    PROVE  Comes(m)'
BY DEF Comes, OwesOwn, OwesReplaced

\* What is known of a request when it takes a step.
LEMMA RequestFacts ==
    ASSUME TrailInv, NEW p \in Procs, Busy(p)
    PROVE  /\ phase = "serving" /\ TypeOK /\ req[p] \in Requests
           /\ req[p].model \in Models /\ RoleOf[req[p].model] \in Roles
           /\ \A r \in Roles : Follows(r)
           /\ \A m \in Models : Comes(m)
<1>1. phase = "serving"
  BY DEF TrailInv, Starting
<1>. QED BY <1>1, ActivationAssumption DEF TrailInv, Inv, TypeOK

\* The request that leads a role is one with its model at hand.
LEMMA LeaderHasModel ==
    ASSUME TrailInv, phase = "serving", NEW r \in Roles, NEW p \in Procs, lead[r] = p
    PROVE  req[p].model \in Models /\ req[p].pc = "swap"
BY DEF TrailInv, Follows, Busy

LEMMA BeginTrail ==
    ASSUME TrailInv, Inv', NEW p \in Procs, NEW op \in {"activate", "deactivate"}, NEW m \in Models,
           Begin(p, op, m)
    PROVE  TrailInv'
<1>1. /\ phase = "serving" /\ req[p].pc = "idle" /\ TypeOK
      /\ UNCHANGED <<phase, status, disk, runtime, lastAudit, reconciled, lead, line>>
      /\ \A o \in Procs \ {p} : req'[o] = req[o]
      /\ req'[p] = [pc |-> "set", op |-> op, model |-> m, prev |-> ActiveByRole(RoleOf[m])]
  BY DEF Begin, TrailInv, Inv, TypeOK
<1>2. \A r \in Roles : Follows(r)'
  <2> TAKE r \in Roles
  <2>1. \A o \in Procs : lead[r] = o => req'[o] = req[o] /\ req[o].model \in Models
    BY <1>1, LeaderHasModel
  <2>. QED BY <1>1, <2>1, RoleKept DEF TrailInv
<1>3. \A o \in Models : Comes(o)'
  <2> TAKE o \in Models
  <2>1. \A q \in Procs : line[o] = q => req'[q] = req[q]
    BY <1>1 DEF TrailInv, Comes, OwesOwn, OwesReplaced
  <2>. QED BY <1>1, <2>1, ModelKept DEF TrailInv
<1>4. \A o \in Procs : Busy(o)' => req'[o].model \in Models
  BY <1>1 DEF TrailInv, Busy
<1>. QED BY <1>1, <1>2, <1>3, <1>4 DEF TrailInv

\* The request leads its role now, and owes the line of every entry it changed or leaves it to nobody.
LEMMA SetStatusTrail ==
    ASSUME TrailInv, Inv', NEW p \in Procs, NEW written \in BOOLEAN, SetStatus(p, written)
    PROVE  TrailInv'
<1> DEFINE q == req[p]
           r == RoleOf[q.model]
           st == IF q.op = "activate" THEN "active" ELSE "deactivated"
           next == SetStatusTo(q.model, st)
<1>1. /\ q.pc = "set" /\ phase = "serving" /\ TypeOK /\ q \in Requests /\ q.model \in Models
      /\ r \in Roles /\ \A x \in Roles : Follows(x)
  BY RequestFacts DEF SetStatus, Busy
<1>0. \A m \in Models : Comes(m)
  BY RequestFacts DEF SetStatus, Busy
<1>2. /\ \A o \in Procs \ {p} : req'[o] = req[o]
      /\ req'[p] = IF written THEN [q EXCEPT !.pc = "swap"] ELSE NoRequest
      /\ UNCHANGED <<phase, runtime, lastAudit, reconciled>>
      /\ status' = IF written THEN next ELSE status
      /\ lead' = IF written THEN [lead EXCEPT ![r] = p] ELSE lead
      /\ line' = IF written THEN [m \in Models |-> Owed(p, m)] ELSE line
  BY <1>1 DEF SetStatus, Persist, TypeOK
<1>3. /\ \A x \in Roles : lead[x] # p
      /\ \A x \in Roles, o \in Procs : lead[x] = o => req'[o] = req[o] /\ req[o].model \in Models
  BY <1>1, <1>2, LeaderHasModel
<1>4. \A m \in Models, o \in Procs : line[m] = o => o # p /\ req'[o] = req[o]
  BY <1>0, <1>1, <1>2 DEF Comes, OwesOwn, OwesReplaced
<1>5. \A o \in Procs : Busy(o)' => req'[o].model \in Models
  BY <1>1, <1>2 DEF TrailInv, Busy, NoRequest, Requests
<1>6. ASSUME ~ written PROVE TrailInv'
  <2>1. \A x \in Roles : Follows(x)'
    BY <1>1, <1>2, <1>3, <1>6, RoleKept
  <2>2. \A m \in Models : Comes(m)'
    BY <1>0, <1>2, <1>4, <1>6, ModelKept
  <2>. QED BY <1>1, <1>2, <1>5, <2>1, <2>2 DEF TrailInv
<1>7. ASSUME written PROVE TrailInv'
  <2>1. /\ req'[p].pc = "swap" /\ req'[p].model = q.model /\ req'[p].op = q.op /\ req'[p].prev = q.prev
        /\ status' = next /\ line' = [m \in Models |-> Owed(p, m)]
        /\ lead'[r] = p /\ \A x \in Roles \ {r} : lead'[x] = lead[x]
    BY <1>1, <1>2, <1>7 DEF Requests, TypeOK
  <2>2. \A m \in Models : next[m] = IF m = q.model THEN st
                                    ELSE IF st = "active" /\ m \in SameRoleActives(q.model)
                                    THEN "deactivated" ELSE status[m]
    BY DEF SetStatusTo
  <2>3. \A m \in Models : RoleOf[m] # r => next[m] = status[m]
    BY <2>2 DEF SameRoleActives
  <2>4. st = "active" <=> q.op = "activate"
    OBVIOUS
  <2> HIDE DEF next, st
  <2>5. ASSUME NEW x \in Roles PROVE Follows(x)'
    <3>1. CASE x = r
      <4>1. status'[q.model] = "active" <=> q.op = "activate"
        BY <1>1, <2>1, <2>2, <2>4
      <4>. QED BY <2>1, <3>1, <4>1, ActivationAssumption DEF Follows, Marks
    <3>2. CASE x # r
      <4>1. lead'[x] = lead[x] /\ runtime'[x] = runtime[x]
            /\ \A m \in Models : RoleOf[m] = x => status'[m] = status[m]
        BY <1>2, <2>1, <2>3, <3>2
      <4>. QED BY <1>1, <1>3, <4>1, RoleKept
    <3>. QED BY <3>1, <3>2
  <2>6. ASSUME NEW m \in Models PROVE Comes(m)'
    <3>1. CASE m = q.model
      <4>1. line'[m] = p /\ (status'[m] = "active" <=> q.op = "activate")
        BY <1>1, <2>1, <2>2, <2>4, <3>1 DEF Owed
      <4>2. OwesOwn(p, m)'
        BY <2>1, <3>1, <4>1 DEF OwesOwn
      <4>. QED BY <4>1, <4>2, ActivationAssumption DEF Comes, Marks
    <3>2. CASE m # q.model /\ q.op = "activate" /\ m \in SameRoleActives(q.model)
      <4>1. line'[m] = (IF m = q.prev THEN p ELSE "lost") /\ status'[m] # "active"
        BY <2>1, <2>2, <2>4, <3>2 DEF Owed
      <4>2. m = q.prev => OwesReplaced(p, m)'
        BY <2>1, <3>2, <4>1 DEF OwesReplaced
      <4>. QED BY <4>1, <4>2, ActivationAssumption DEF Comes, Marks
    <3>3. CASE m # q.model /\ ~ (q.op = "activate" /\ m \in SameRoleActives(q.model))
      <4>1. line'[m] = line[m] /\ status'[m] = status[m]
        BY <2>1, <2>2, <2>4, <3>3 DEF Owed
      <4>. QED BY <1>0, <1>2, <1>4, <4>1, ModelKept
    <3>. QED BY <3>1, <3>2, <3>3
  <2>. QED BY <1>1, <1>2, <1>5, <2>5, <2>6 DEF TrailInv
<1>. QED BY <1>6, <1>7

\* The live model follows: of the newest change, of an older one, or of one that was no change of it.
LEMMA SwapTrail ==
    ASSUME TrailInv, Inv', NEW p \in Procs, Swap(p)
    PROVE  TrailInv'
<1> DEFINE q == req[p]
           r == RoleOf[q.model]
<1>1. /\ q.pc = "swap" /\ phase = "serving" /\ TypeOK /\ q \in Requests /\ q.model \in Models
      /\ r \in Roles /\ \A x \in Roles : Follows(x)
  BY RequestFacts DEF Swap, Busy
<1>0. \A m \in Models : Comes(m)
  BY RequestFacts DEF Swap, Busy
<1>2. /\ \A o \in Procs \ {p} : req'[o] = req[o]
      /\ req'[p] = [q EXCEPT !.pc = "audit_prev"]
      /\ UNCHANGED <<phase, status, disk, lastAudit, reconciled, line>>
      /\ runtime'[r] = IF q.op = "activate" THEN q.model ELSE None
      /\ \A x \in Roles \ {r} : runtime'[x] = runtime[x]
      /\ lead'[r] = Followed(p, r) /\ \A x \in Roles \ {r} : lead'[x] = lead[x]
  BY <1>1 DEF Swap, TypeOK
<1>3. req'[p].pc = "audit_prev" /\ req'[p].model = q.model /\ req'[p].op = q.op /\ req'[p].prev = q.prev
  BY <1>1, <1>2 DEF Requests
<1>4. q.op \in {"activate", "deactivate"} /\ lead[r] \in Procs \cup {"even", "crossed", "idle"}
  BY <1>1 DEF Requests, TypeOK
<1>5. ASSUME NEW x \in Roles \ {r} PROVE Follows(x)'
  <2>1. \A o \in Procs : lead[x] = o => o # p /\ req'[o] = req[o] /\ req[o].model \in Models
    BY <1>1, <1>2, LeaderHasModel DEF Follows
  <2>. QED BY <1>1, <1>2, <2>1, RoleKept
<1>6. ASSUME NEW x \in Roles, x = r PROVE Follows(x)'
  <2>1. CASE lead[r] = p
    <3>1. status[q.model] = "active" <=> q.op = "activate"
      BY <1>1, <2>1 DEF Follows
    <3>2. Followed(p, r) = IF q.op = "deactivate" /\ ActiveByRole(r) # None THEN "idle" ELSE "even"
      BY <2>1 DEF Followed
    <3>3. CASE q.op = "activate"
      <4>1. \A m \in Models : RoleOf[m] = r => (status[m] = "active" <=> m = q.model)
        BY <1>1, <3>1, <3>3 DEF TrailInv, Inv, OneActivePerRole, OneActive
      <4>2. lead'[r] = "even" /\ runtime'[r] = q.model
        BY <1>2, <3>2, <3>3
      <4>. QED BY <1>6, <1>2, <4>1, <4>2, ActivationAssumption DEF Follows, Marks
    <3>4. CASE q.op = "deactivate"
      <4>1. runtime'[r] = None
        BY <1>2, <3>4
      <4>2. ASSUME ActiveByRole(r) = None, NEW m \in Models, RoleOf[m] = r PROVE status[m] # "active"
        BY <4>2, ActivationAssumption DEF ActiveByRole
      <4>3. CASE ActiveByRole(r) = None
        <5>1. lead'[r] = "even"
          BY <1>2, <3>2, <4>3
        <5>. QED BY <1>6, <1>2, <4>1, <4>2, <4>3, <5>1, ActivationAssumption DEF Follows, Marks
      <4>4. CASE ActiveByRole(r) # None
        <5>1. lead'[r] = "idle"
          BY <1>2, <3>2, <3>4, <4>4
        <5>. QED BY <1>6, <4>1, <5>1, ActivationAssumption DEF Follows, Marks
      <4>. QED BY <4>3, <4>4
    <3>. QED BY <1>4, <3>3, <3>4
  <2>2. CASE lead[r] \in Procs \ {p}
    <3>1. lead'[r] = lead[r]
      BY <1>2, <2>2 DEF Followed
    <3>2. PICK o \in Procs \ {p} : lead[r] = o
      BY <2>2
    <3>3. /\ req'[o] = req[o] /\ req[o].pc = "swap" /\ RoleOf[req[o].model] = r
          /\ status[req[o].model] = "active" <=> req[o].op = "activate"
      BY <1>1, <1>2, <3>2 DEF Follows
    <3>. QED BY <1>6, <1>2, <3>1, <3>2, <3>3, ActivationAssumption DEF Follows, Marks
  <2>3. CASE lead[r] \notin Procs
    <3>1. lead'[r] = "crossed"
      BY <1>2, <2>3 DEF Followed
    <3>. QED BY <1>6, <3>1, ActivationAssumption DEF Follows, Marks
  <2>. QED BY <2>1, <2>2, <2>3
<1>7. ASSUME NEW m \in Models PROVE Comes(m)'
  <2>1. ASSUME NEW o \in Procs, line[m] = o PROVE OwesOwn(o, m)' \/ OwesReplaced(o, m)'
    <3>1. OwesOwn(o, m) \/ OwesReplaced(o, m)
      BY <1>0, <2>1 DEF Comes
    <3>2. CASE o = p
      BY <1>2, <1>3, <3>1, <3>2 DEF OwesOwn, OwesReplaced
    <3>3. CASE o # p
      BY <1>2, <3>1, <3>3 DEF OwesOwn, OwesReplaced
    <3>. QED BY <3>2, <3>3
  <2>. QED BY <1>0, <1>2, <2>1 DEF Comes
<1>8. \A o \in Procs : Busy(o)' => req'[o].model \in Models
  BY <1>1, <1>2, <1>3 DEF TrailInv, Busy
<1>. QED BY <1>1, <1>2, <1>5, <1>6, <1>7, <1>8 DEF TrailInv

\* A line of p about m: the one owed makes the log true of m, a late one is marked.
LEMMA LineTells ==
    ASSUME TypeOK, NEW p \in Procs, NEW m \in Models, NEW event \in {"activated", "deactivated"},
           Audit(p, m, event), status' = status, Comes(m),
           line[m] = p => (status[m] = "active" <=> event = "activated"),
           \A o \in Procs \ {p} : req'[o] = req[o]
    PROVE  Comes(m)'
<1>1. /\ lastAudit'[m] = event
      /\ line'[m] = IF line[m] = p THEN "told"
                    ELSE IF line[m] = "told" /\ (event = "activated") # (lastAudit[m] = "activated")
                    THEN "lost" ELSE line[m]
  BY DEF Audit, TypeOK
<1>2. CASE line[m] = p
  <2>1. line'[m] = "told"
    BY <1>1, <1>2
  <2>. QED BY <1>1, <1>2, <2>1, ActivationAssumption DEF Comes, Marks
<1>3. CASE line[m] = "told"
  <2>1. line[m] # p
    BY <1>3, ActivationAssumption DEF Marks
  <2>2. CASE (event = "activated") # (lastAudit[m] = "activated")
    <3>1. line'[m] = "lost"
      BY <1>1, <1>3, <2>1, <2>2
    <3>. QED BY <3>1, ActivationAssumption DEF Comes, Marks
  <2>3. CASE (event = "activated") = (lastAudit[m] = "activated")
    <3>1. line'[m] = "told"
      BY <1>1, <1>3, <2>1, <2>3
    <3>2. status[m] = "active" <=> event = "activated"
      BY <1>3, <2>3 DEF Comes
    <3>. QED BY <1>1, <3>1, <3>2, ActivationAssumption DEF Comes, Marks
  <2>. QED BY <2>2, <2>3
<1>4. CASE line[m] # p /\ line[m] # "told"
  <2>1. line'[m] = line[m]
    BY <1>1, <1>4
  <2>. QED BY <1>4, <2>1 DEF Comes, OwesOwn, OwesReplaced
<1>. QED BY <1>2, <1>3, <1>4

\* A step of p that writes a line about m and moves p on leaves every role as it is.
LEMMA RolesKept ==
    ASSUME TrailInv, phase = "serving", NEW p \in Procs, req[p].pc # "swap",
           \A o \in Procs \ {p} : req'[o] = req[o], UNCHANGED <<status, runtime, lead>>
    PROVE  \A r \in Roles : Follows(r)'
<1> TAKE r \in Roles
<1>1. \A o \in Procs : lead[r] = o => req'[o] = req[o] /\ req[o].model \in Models
  BY LeaderHasModel
<1>. QED BY <1>1, RoleKept DEF TrailInv

LEMMA AuditReplacedTrail ==
    ASSUME TrailInv, Inv', NEW p \in Procs, AuditReplaced(p)
    PROVE  TrailInv'
<1> DEFINE q == req[p]
           replaces == q.op = "activate" /\ q.prev \notin {None, q.model}
<1>1. q.pc = "audit_prev" /\ phase = "serving" /\ TypeOK /\ q \in Requests /\ q.model \in Models
  BY RequestFacts DEF AuditReplaced, Busy
<1>0. \A m \in Models : Comes(m)
  BY RequestFacts DEF AuditReplaced, Busy
<1>2. /\ \A o \in Procs \ {p} : req'[o] = req[o]
      /\ req'[p] = [q EXCEPT !.pc = "audit"]
      /\ UNCHANGED <<phase, status, disk, runtime, reconciled, lead>>
      /\ IF replaces THEN Audit(p, q.prev, "deactivated") ELSE UNCHANGED <<lastAudit, line>>
  BY <1>1 DEF AuditReplaced, TypeOK
<1>3. req'[p].pc = "audit" /\ req'[p].model = q.model /\ req'[p].op = q.op /\ req'[p].prev = q.prev
  BY <1>1, <1>2 DEF Requests
<1>4. \A r \in Roles : Follows(r)'
  BY <1>1, <1>2, RolesKept
<1>5. ASSUME NEW m \in Models PROVE Comes(m)'
  <2>1. CASE replaces /\ m = q.prev
    <3>1. line[m] = p => status[m] # "active"
      BY <1>0, <2>1 DEF Comes, OwesOwn, OwesReplaced
    <3>2. Audit(p, m, "deactivated")
      BY <1>2, <2>1
    <3>. QED BY <1>0, <1>1, <1>2, <3>1, <3>2, LineTells
  <2>2. CASE ~ (replaces /\ m = q.prev)
    <3>1. line'[m] = line[m] /\ lastAudit'[m] = lastAudit[m]
      BY <1>1, <1>2, <2>2 DEF Audit, TypeOK
    <3>2. ASSUME NEW o \in Procs, line[m] = o PROVE OwesOwn(o, m)' \/ OwesReplaced(o, m)'
      <4>1. OwesOwn(o, m) \/ OwesReplaced(o, m)
        BY <1>0, <3>2 DEF Comes
      <4>2. CASE o # p
        BY <1>2, <4>1, <4>2 DEF OwesOwn, OwesReplaced
      <4>3. CASE o = p
        <5>1. ~ OwesReplaced(p, m)
          BY <2>2, ActivationAssumption DEF OwesReplaced
        <5>. QED BY <1>2, <1>3, <4>1, <4>3, <5>1 DEF OwesOwn
      <4>. QED BY <4>2, <4>3
    <3>. QED BY <1>0, <1>2, <3>1, <3>2 DEF Comes
  <2>. QED BY <2>1, <2>2
<1>6. \A o \in Procs : Busy(o)' => req'[o].model \in Models
  BY <1>1, <1>2, <1>3 DEF TrailInv, Busy
<1>. QED BY <1>1, <1>2, <1>4, <1>5, <1>6 DEF TrailInv

LEMMA AuditSelfTrail ==
    ASSUME TrailInv, Inv', NEW p \in Procs, AuditSelf(p)
    PROVE  TrailInv'
<1> DEFINE q == req[p]
           event == IF q.op = "activate" THEN "activated" ELSE "deactivated"
<1>1. q.pc = "audit" /\ phase = "serving" /\ TypeOK /\ q.model \in Models
  BY RequestFacts DEF AuditSelf, Busy
<1>0. \A m \in Models : Comes(m)
  BY RequestFacts DEF AuditSelf, Busy
<1>2. /\ \A o \in Procs \ {p} : req'[o] = req[o]
      /\ req'[p] = NoRequest /\ Audit(p, q.model, event)
      /\ UNCHANGED <<phase, status, disk, runtime, reconciled, lead>>
  BY <1>1 DEF AuditSelf, TypeOK
<1>3. \A r \in Roles : Follows(r)'
  BY <1>1, <1>2, RolesKept
<1>4. ASSUME NEW m \in Models PROVE Comes(m)'
  <2>1. line[m] = p => m = q.model /\ (status[m] = "active" <=> q.op = "activate")
    BY <1>0, <1>1 DEF Comes, OwesOwn, OwesReplaced
  <2>2. CASE m = q.model
    <3>1. event \in {"activated", "deactivated"} /\ (event = "activated" <=> q.op = "activate")
      OBVIOUS
    <3> HIDE DEF event
    <3>. QED BY <1>0, <1>1, <1>2, <2>1, <2>2, <3>1, LineTells
  <2>3. CASE m # q.model
    <3>1. line'[m] = line[m] /\ lastAudit'[m] = lastAudit[m]
      BY <1>1, <1>2, <2>3 DEF Audit, TypeOK
    <3>2. \A o \in Procs : line[m] = o => req'[o] = req[o]
      BY <1>2, <2>1, <2>3
    <3>. QED BY <1>0, <1>2, <3>1, <3>2, ModelKept
  <2>. QED BY <2>2, <2>3
<1>5. \A o \in Procs : Busy(o)' => req'[o].model \in Models
  BY <1>1, <1>2 DEF TrailInv, Busy, NoRequest
<1>. QED BY <1>1, <1>2, <1>3, <1>4, <1>5 DEF TrailInv

LEMMA NextTrail == TrailInv /\ [Next]_vars => TrailInv'
<1> SUFFICES ASSUME TrailInv, [Next]_vars PROVE TrailInv'
  OBVIOUS
<1>1. Inv'
  BY NextInv DEF TrailInv
<1>2. CASE UNCHANGED vars
  BY <1>1, <1>2 DEF vars, TrailInv, Starting, Busy, Follows, Comes, OwesOwn, OwesReplaced
<1>3. CASE Crash
  BY <1>1, <1>3, CrashTrail
<1>4. ASSUME NEW p \in Procs, Handler(p) PROVE TrailInv'
  BY <1>1, <1>4, BeginTrail, SetStatusTrail, SwapTrail, AuditReplacedTrail, AuditSelfTrail DEF Handler
<1>5. ASSUME \/ \E written \in BOOLEAN : Open(written)
             \/ \E m \in Models : AuditReconciled(m)
             \/ StartSweep \/ Serve
             \/ \E m \in Models, written \in BOOLEAN : Register(m, written)
      PROVE  TrailInv'
  <2>1. phase # "serving"
    BY <1>5 DEF Open, AuditReconciled, StartSweep, Serve, Register
  <2>. QED BY <1>1, <1>5, <2>1, StartupTrail
<1>. QED BY <1>2, <1>3, <1>4, <1>5 DEF Next

\* The registry, the live set and the audit log part in the named cases only: an older request
\* that swaps or writes its line last, the deactivation of an entry that is not the active one,
\* a demotion by a request that had looked up another, a stop before a line.  For any number of
\* models, roles and overlapping requests, whatever writes of the file fail and whenever the
\* daemon stops (registry.go SetStatus, models.go activate and deactivate).
THEOREM StatusAndTrailAlwaysTrue == Spec => []StatusAndTrailAreTrue
<1>1. TrailInv => StatusAndTrailAreTrue
  <2> SUFFICES ASSUME TrailInv PROVE StatusMatchesRuntime /\ AuditTellsWhatIsActive
    BY DEF StatusAndTrailAreTrue
  <2>1. StatusMatchesRuntime
    BY DEF TrailInv, Follows, StatusMatchesRuntime
  <2>2. CASE phase = "serving"
    <3>1. \A m \in Models : Comes(m)
      BY <2>2 DEF TrailInv
    <3>. QED BY <2>1, <3>1 DEF Comes, OwesOwn, OwesReplaced, AuditTellsWhatIsActive
  <2>3. CASE phase = "scan"
    <3>1. Starting
      BY <2>3 DEF TrailInv
    <3>. QED BY <2>1, <2>3, <3>1, ActivationAssumption DEF Starting, AuditTellsWhatIsActive, Marks
  <2>. QED BY <2>1, <2>2, <2>3 DEF AuditTellsWhatIsActive
<1>. QED BY <1>1, InitTrail, NextTrail, PTL DEF Spec

-----------------------------------------------------------------------------
(* Scoring: what one score saw of the runtime, role by role. *)

\* The outputs of a supervised model m and a sequence model n.
Said(m, n) == <<Output(m, Primary)>> \o (IF n = None THEN <<>> ELSE <<Output(n, Sequence)>>)

LEMMA OneOrTwo ==
    ASSUME NEW x, NEW y
    PROVE  /\ <<x>> \o <<>> = <<x>> /\ <<x>> \o <<y>> = <<x, y>>
           /\ SubSeq(<<x>>, 1, 1) = <<x>> /\ SubSeq(<<x, y>>, 1, 1) = <<x>>
<1> DEFINE S == {x, y}
<1>1. /\ <<x>> \in Seq(S) /\ Len(<<x>>) = 1 /\ <<x>>[1] = x
      /\ <<y>> \in Seq(S) /\ Len(<<y>>) = 1 /\ <<y>>[1] = y
      /\ <<x, y>> \in Seq(S) /\ Len(<<x, y>>) = 2 /\ <<x, y>>[1] = x /\ <<x, y>>[2] = y
  OBVIOUS
<1> HIDE DEF S
<1>2. <<x>> \o <<>> = <<x>> /\ SubSeq(<<x>>, 1, 1) = <<x>>
  BY <1>1, ConcatEmptySeq, SubSeqFull
<1>3. /\ <<x>> \o <<y>> \in Seq(S) /\ Len(<<x>> \o <<y>>) = 2
      /\ (<<x>> \o <<y>>)[1] = x /\ (<<x>> \o <<y>>)[2] = y
  <2>1. /\ <<x>> \o <<y>> \in Seq(S) /\ Len(<<x>> \o <<y>>) = Len(<<x>>) + Len(<<y>>)
        /\ \A i \in 1 .. Len(<<x>>) + Len(<<y>>) :
            (<<x>> \o <<y>>)[i] = IF i <= Len(<<x>>) THEN <<x>>[i] ELSE <<y>>[i - Len(<<x>>)]
    BY <1>1, ConcatProperties
  <2>2. \A i \in 1 .. 2 : (<<x>> \o <<y>>)[i] = IF i <= 1 THEN <<x>>[i] ELSE <<y>>[i - 1]
    BY <1>1, <2>1
  <2>. QED BY <1>1, <2>1, <2>2
<1>4. <<x>> \o <<y>> = <<x, y>>
  <2> DEFINE s == <<x>> \o <<y>>
             t == <<x, y>>
  <2>1. s \in Seq(S) /\ t \in Seq(S) /\ Len(s) = Len(t) /\ \A i \in 1 .. Len(s) : s[i] = t[i]
    BY <1>1, <1>3
  <2> HIDE DEF s, t
  <2>2. s = t
    BY <2>1, SeqEqual
  <2>. QED BY <2>2 DEF s, t
<1>5. SubSeq(<<x, y>>, 1, 1) = <<x>>
  <2> DEFINE s == SubSeq(<<x, y>>, 1, 1)
             t == <<x>>
  <2>1. s \in Seq(S) /\ Len(s) = 1 /\ s[1] = x
    <3>1. \A i \in 1 .. 1 : <<x, y>>[i] \in S
      BY <1>1 DEF S
    <3>2. /\ s \in Seq(S) /\ Len(s) = (IF 1 <= 1 THEN 1 - 1 + 1 ELSE 0)
          /\ \A i \in 1 .. 1 - 1 + 1 : s[i] = <<x, y>>[1 + i - 1]
      BY <3>1, SubSeqProperties
    <3>3. 1 \in 1 .. 1 - 1 + 1 /\ 1 + 1 - 1 = 1
      OBVIOUS
    <3> HIDE DEF s
    <3>. QED BY <1>1, <3>2, <3>3
  <2>2. t \in Seq(S) /\ Len(s) = Len(t) /\ \A i \in 1 .. Len(s) : s[i] = t[i]
    BY <1>1, <2>1
  <2> HIDE DEF s, t
  <2>3. s = t
    BY <2>1, <2>2, SeqEqual
  <2>. QED BY <2>3 DEF s, t
<1>. QED BY <1>2, <1>4, <1>5

LEMMA SaidFacts ==
    ASSUME NEW m, NEW n
    PROVE  /\ n = None => Said(m, n) = <<Output(m, Primary)>>
           /\ n # None => Said(m, n) = <<Output(m, Primary), Output(n, Sequence)>>
           /\ Said(m, n)[1] = Output(m, Primary) /\ SubSeq(Said(m, n), 1, 1) = <<Output(m, Primary)>>
<1> DEFINE x == Output(m, Primary)
           y == Output(n, Sequence)
<1>1. /\ <<x>> \o <<>> = <<x>> /\ <<x>> \o <<y>> = <<x, y>>
      /\ SubSeq(<<x>>, 1, 1) = <<x>> /\ SubSeq(<<x, y>>, 1, 1) = <<x>>
  BY OneOrTwo
<1>2. /\ n = None => Said(m, n) = <<x>>
      /\ n # None => Said(m, n) = <<x, y>>
  BY <1>1 DEF Said
<1>3. <<x>>[1] = x /\ <<x, y>>[1] = x
  OBVIOUS
<1>. QED BY <1>1, <1>2, <1>3

\* One supervised output decides.
LEMMA DriverOfOne ==
    ASSUME NEW m
    PROVE  Driver(<<Output(m, Primary)>>) = <<Output(m, Primary)>>
<1> DEFINE x == Output(m, Primary)
           s == <<x>>
<1>1. DOMAIN s = {1} /\ s[1] = x /\ s # <<>> /\ x.role = Primary
  BY DEF Output
<1>2. {i \in DOMAIN s : s[i].role = Primary} = {1}
  BY <1>1
<1>3. (CHOOSE i \in {1} : \A j \in {1} : i <= j) = 1
  OBVIOUS
<1>. QED BY <1>1, <1>2, <1>3 DEF Driver

\* The outputs are collected in the order of their roles already.
LEMMA RankedSaid ==
    ASSUME NEW m, NEW n
    PROVE  Ranked(Said(m, n)) = Said(m, n)
<1> DEFINE x == Output(m, Primary)
           y == Output(n, Sequence)
           Before(s, i) == {j \in DOMAIN s :
               \/ s[j].role = Primary /\ s[i].role # Primary
               \/ (s[j].role = Primary <=> s[i].role = Primary) /\ j < i}
           At(s, k) == CHOOSE i \in DOMAIN s : Cardinality(Before(s, i)) = k - 1
<1>1. x.role = Primary /\ y.role # Primary
  BY ScoringAssumption DEF Output
<1>2. Cardinality({}) = 0 /\ Cardinality({1}) = 1
  BY FS_EmptySet, FS_Singleton
<1>3. \A s : Ranked(s) = [k \in 1 .. Len(s) |-> s[At(s, k)]]
  BY DEF Ranked
<1>4. ASSUME n = None PROVE Ranked(Said(m, n)) = Said(m, n)
  <2> DEFINE s == <<x>>
  <2>1. DOMAIN s = {1} /\ Len(s) = 1 /\ s[1] = x
    OBVIOUS
  <2>2. Before(s, 1) = {}
    BY <2>1
  <2>3. At(s, 1) = 1
    BY <1>2, <2>1, <2>2
  <2>4. Ranked(s) = [k \in 1 .. 1 |-> s[At(s, k)]]
    BY <1>3, <2>1
  <2> HIDE DEF At, s
  <2>5. Ranked(s) = <<s[1]>>
    BY <2>3, <2>4
  <2>6. Ranked(s) = s
    BY <2>1, <2>5 DEF s
  <2>. QED BY <1>4, <2>6, SaidFacts DEF s
<1>5. ASSUME n # None PROVE Ranked(Said(m, n)) = Said(m, n)
  <2> DEFINE s == <<x, y>>
  <2>1. DOMAIN s = {1, 2} /\ Len(s) = 2 /\ s[1] = x /\ s[2] = y
    OBVIOUS
  <2> HIDE DEF x, y, s
  <2>2. Before(s, 1) = {}
    BY <1>1, <2>1
  <2>3. Before(s, 2) = {1}
    BY <1>1, <2>1
  <2>4. At(s, 1) = 1 /\ At(s, 2) = 2
    BY <1>2, <2>1, <2>2, <2>3
  <2>5. Ranked(s) = [k \in 1 .. 2 |-> s[At(s, k)]]
    BY <1>3, <2>1
  <2> HIDE DEF At
  <2>6. Ranked(s) = <<s[1], s[2]>>
    BY <2>4, <2>5
  <2>7. Ranked(s) = s
    BY <2>1, <2>6 DEF s
  <2>. QED BY <1>5, <2>7, SaidFacts DEF s, x, y
<1>. QED BY <1>4, <1>5

\* Of one change of the runtime a score saw, in each role, what was live before or after.
Seen(r, m) == score.swaps <= 1 => m \in {score.began[r], runtime[r]}

Spoken ==
    \E m, n :
        /\ score.outputs = Said(m, n) /\ score.verdict = <<Output(m, Primary)>>
        /\ score.disagreement = Disagreement(Said(m, n))
        /\ Seen(Primary, m) /\ Seen(Sequence, n)

SupervisedSpoken ==
    \E m : /\ score.outputs = <<Output(m, Primary)>> /\ score.verdict = <<Output(m, Primary)>>
           /\ Seen(Primary, m)

ScoreShape ==
    /\ score = [pc |-> score.pc, window |-> score.window, outputs |-> score.outputs,
                verdict |-> score.verdict, disagreement |-> score.disagreement,
                anomaly |-> score.anomaly, began |-> score.began, swaps |-> score.swaps]
    /\ score.pc \in {"idle", "supervised", "sequence", "anomaly", "done"} /\ score.swaps \in Nat

Changes ==
    /\ score.swaps = 0 => score.began = runtime
    /\ score.swaps = 1 => \E r \in Roles : \A q \in Roles \ {r} : score.began[q] = runtime[q]
    /\ score.swaps <= 1 => (score.window <=> score.began[Sequence] # None)

ScoreInv ==
    /\ ScoreShape
    /\ score.pc # "idle" => phase = "serving" /\ Changes
    /\ score.pc = "sequence" => SupervisedSpoken
    /\ score.pc = "anomaly" => Spoken
    /\ score.pc = "done" => Spoken /\ Seen(Anomaly, score.anomaly)

LEMMA NoScoreInv == ASSUME score = NoScore PROVE ScoreInv
BY DEF NoScore, ScoreInv, ScoreShape

\* A step of the score itself.
LEMMA ScoreBeginsInv ==
    ASSUME ScoreInv, ScoreBegins PROVE ScoreInv'
<1>1. /\ score' = [NoScore EXCEPT !.pc = "supervised", !.began = runtime,
                                  !.window = runtime[Sequence] # None]
      /\ phase = "serving" /\ phase' = phase /\ runtime' = runtime
  BY DEF ScoreBegins, vars
<1>2. /\ score'.pc = "supervised" /\ score'.began = runtime /\ score'.swaps = 0
      /\ score'.window = (runtime[Sequence] # None) /\ ScoreShape'
  BY <1>1 DEF NoScore, ScoreShape
<1>3. score'.window <=> score'.began[Sequence] # None
  BY <1>2
<1>4. Changes'
  <2>1. score'.swaps # 1 /\ score'.began = runtime'
    BY <1>1, <1>2
  <2>. QED BY <1>3, <2>1 DEF Changes
<1>. QED BY <1>1, <1>2, <1>4 DEF ScoreInv

LEMMA ScoreSupervisedInv ==
    ASSUME ScoreInv, ScoreSupervised PROVE ScoreInv'
<1> DEFINE m == runtime[Primary]
<1>1. /\ score.pc = "supervised" /\ phase' = phase /\ runtime' = runtime
      /\ score' = [score EXCEPT !.pc = "sequence", !.outputs = Live(Primary),
                                !.verdict = Driver(Live(Primary))]
  BY DEF ScoreSupervised, vars
<1>2. Live(Primary) = <<Output(m, Primary)>> /\ Driver(Live(Primary)) = <<Output(m, Primary)>>
  BY DriverOfOne DEF Live
<1>3. /\ score'.pc = "sequence" /\ score'.outputs = <<Output(m, Primary)>>
      /\ score'.verdict = <<Output(m, Primary)>> /\ ScoreShape'
      /\ UNCHANGED <<score.swaps, score.began, score.window>>
  BY <1>1, <1>2 DEF ScoreInv, ScoreShape
<1>4. SupervisedSpoken'
  BY <1>1, <1>3 DEF SupervisedSpoken, Seen
<1>. QED BY <1>1, <1>3, <1>4 DEF ScoreInv, Changes

LEMMA ScoreSequencesInv ==
    ASSUME ScoreInv, ScoreSequences PROVE ScoreInv'
<1>0. PICK n : n = IF score.window THEN runtime[Sequence] ELSE None
  OBVIOUS
<1> DEFINE more == IF score.window THEN Live(Sequence) ELSE <<>>
           all == score.outputs \o more
<1>1. /\ score.pc = "sequence" /\ phase' = phase /\ runtime' = runtime
      /\ score' = [score EXCEPT !.pc = "anomaly", !.outputs = all, !.disagreement = Disagreement(all)]
  BY DEF ScoreSequences, vars
<1>2. PICK m : /\ score.outputs = <<Output(m, Primary)>> /\ score.verdict = <<Output(m, Primary)>>
               /\ Seen(Primary, m)
  BY <1>1 DEF ScoreInv, SupervisedSpoken
<1>3. more = IF n = None THEN <<>> ELSE <<Output(n, Sequence)>>
  BY <1>0, ScoringAssumption DEF Live
<1>4. all = Said(m, n)
  BY <1>2, <1>3 DEF Said
<1> HIDE DEF all, more
<1>5. /\ score'.pc = "anomaly" /\ score'.outputs = Said(m, n) /\ ScoreShape'
      /\ score'.disagreement = Disagreement(Said(m, n))
      /\ UNCHANGED <<score.swaps, score.began, score.window, score.verdict>>
  BY <1>1, <1>4 DEF ScoreInv, ScoreShape
<1>6. Seen(Sequence, n)
  BY <1>0, <1>1 DEF ScoreInv, Changes, Seen
<1>7. Seen(Primary, m)' /\ Seen(Sequence, n)'
  BY <1>1, <1>2, <1>5, <1>6 DEF Seen
<1>8. Spoken'
  BY <1>2, <1>5, <1>7 DEF Spoken
<1>. QED BY <1>1, <1>5, <1>8 DEF ScoreInv, Changes

LEMMA ScoreAnomalyInv ==
    ASSUME ScoreInv, ScoreAnomaly PROVE ScoreInv'
<1>1. /\ score.pc = "anomaly" /\ phase' = phase /\ runtime' = runtime
      /\ score' = [score EXCEPT !.pc = "done", !.anomaly = runtime[Anomaly],
                                !.outputs = Ranked(score.outputs)]
  BY DEF ScoreAnomaly, vars
<1>2. Spoken
  BY <1>1 DEF ScoreInv
<1>3. Ranked(score.outputs) = score.outputs
  BY <1>2, RankedSaid DEF Spoken
<1>4. /\ score'.pc = "done" /\ score'.anomaly = runtime[Anomaly] /\ ScoreShape'
      /\ UNCHANGED <<score.swaps, score.began, score.window, score.verdict, score.outputs, score.disagreement>>
  BY <1>1, <1>3 DEF ScoreInv, ScoreShape
<1>5. Spoken'
  BY <1>1, <1>2, <1>4 DEF Spoken, Seen
<1>6. Seen(Anomaly, score.anomaly)'
  BY <1>1, <1>4 DEF Seen
<1>. QED BY <1>1, <1>4, <1>5, <1>6 DEF ScoreInv, Changes

\* A serving daemon changes what is live in one role at a time.
LEMMA OneRoleAtATime ==
    ASSUME TypeOK, phase = "serving", phase' # "down", Next
    PROVE  phase' = "serving" /\ \E r \in Roles : \A q \in Roles \ {r} : runtime'[q] = runtime[q]
<1>1. ASSUME runtime' = runtime PROVE \E r \in Roles : \A q \in Roles \ {r} : runtime'[q] = runtime[q]
  BY <1>1, ScoringAssumption
<1>2. ASSUME NEW p \in Procs, Swap(p)
      PROVE  phase' = phase /\ \E r \in Roles : \A q \in Roles \ {r} : runtime'[q] = runtime[q]
  <2> DEFINE r == RoleOf[req[p].model]
  <2>1. \A q \in Roles \ {r} : runtime'[q] = runtime[q]
    BY <1>2 DEF Swap, TypeOK
  <2>2. CASE r \in Roles
    BY <1>2, <2>1, <2>2 DEF Swap
  <2>3. CASE r \notin Roles
    BY <1>2, <2>1, <2>3, ScoringAssumption DEF Swap
  <2>. QED BY <2>2, <2>3
<1>3. CASE \E p \in Procs : Handler(p)
  BY <1>1, <1>2, <1>3 DEF Handler, Begin, SetStatus, AuditReplaced, AuditSelf
<1>4. CASE \E written \in BOOLEAN : Open(written)
  BY <1>4 DEF Open
<1>5. CASE \E m \in Models : AuditReconciled(m)
  BY <1>5 DEF AuditReconciled
<1>6. CASE StartSweep \/ Serve \/ Crash
  BY <1>6 DEF StartSweep, Serve, Crash
<1>7. CASE \E m \in Models, written \in BOOLEAN : Register(m, written)
  BY <1>7 DEF Register
<1>. QED BY <1>3, <1>4, <1>5, <1>6, <1>7 DEF Next

LEMMA ElsewhereInv ==
    ASSUME TypeOK, ScoreInv, Elsewhere PROVE ScoreInv'
<1>1. CASE phase' = "down"
  <2>1. score' = NoScore
    BY <1>1 DEF Elsewhere
  <2>. QED BY <2>1 DEF NoScore, ScoreInv, ScoreShape
<1>2. CASE phase' # "down" /\ score.pc = "idle"
  <2>1. score' = score
    BY <1>2 DEF Elsewhere
  <2>. QED BY <1>2, <2>1 DEF ScoreInv, ScoreShape
<1>3. CASE phase' # "down" /\ score.pc # "idle" /\ runtime' = runtime
  <2>1. score' = score /\ phase' = "serving"
    BY <1>3, OneRoleAtATime DEF Elsewhere, ScoreInv
  <2>. QED BY <1>3, <2>1 DEF ScoreInv, ScoreShape, Changes, SupervisedSpoken, Spoken, Seen
<1>4. CASE phase' # "down" /\ score.pc # "idle" /\ runtime' # runtime
  <2>1. phase' = "serving" /\ \E r \in Roles : \A q \in Roles \ {r} : runtime'[q] = runtime[q]
    BY <1>4, OneRoleAtATime DEF Elsewhere, ScoreInv
  <2>2. score' = IF score.swaps + 1 >= MaxSwaps
                 THEN [score EXCEPT !.swaps = MaxSwaps, !.began = NoScore.began]
                 ELSE [score EXCEPT !.swaps = score.swaps + 1]
    BY <1>4 DEF Elsewhere
  <2>3. /\ ScoreShape'
        /\ UNCHANGED <<score.pc, score.window, score.outputs, score.verdict, score.disagreement,
                       score.anomaly>>
        /\ score'.swaps # 0
        /\ score'.swaps <= 1 => score.swaps = 0 /\ score'.swaps = 1 /\ score'.began = score.began
    <3>1. ScoreShape /\ score.swaps \in Nat /\ MaxSwaps \in Nat /\ MaxSwaps > 1
      BY ScoringAssumption DEF ScoreInv, ScoreShape
    <3>2. CASE score.swaps + 1 >= MaxSwaps
      <4>1. score' = [score EXCEPT !.swaps = MaxSwaps, !.began = NoScore.began]
        BY <2>2, <3>2
      <4>2. /\ score'.swaps = MaxSwaps /\ ScoreShape'
            /\ UNCHANGED <<score.pc, score.window, score.outputs, score.verdict, score.disagreement,
                           score.anomaly>>
        BY <3>1, <4>1 DEF ScoreShape
      <4>. QED BY <3>1, <4>2
    <3>3. CASE ~ (score.swaps + 1 >= MaxSwaps)
      <4>1. score' = [score EXCEPT !.swaps = score.swaps + 1]
        BY <2>2, <3>3
      <4>2. /\ score'.swaps = score.swaps + 1 /\ ScoreShape' /\ score'.began = score.began
            /\ UNCHANGED <<score.pc, score.window, score.outputs, score.verdict, score.disagreement,
                           score.anomaly>>
        BY <3>1, <4>1 DEF ScoreShape
      <4>. QED BY <3>1, <4>2
    <3>. QED BY <3>2, <3>3
  <2>4. Changes'
    BY <1>4, <2>1, <2>3 DEF ScoreInv, Changes
  <2>5. score'.swaps <= 1 => score.swaps <= 1 /\ score'.began = score.began /\ runtime = score.began
    BY <1>4, <2>3 DEF ScoreInv, Changes
  <2>6. \A r, m : Seen(r, m) => Seen(r, m)'
    BY <2>5 DEF Seen
  <2>7. SupervisedSpoken => SupervisedSpoken'
    BY <2>3, <2>6 DEF SupervisedSpoken
  <2>8. Spoken => Spoken'
    BY <2>3, <2>6 DEF Spoken
  <2>. QED BY <2>1, <2>3, <2>4, <2>6, <2>7, <2>8 DEF ScoreInv
<1>. QED BY <1>1, <1>2, <1>3, <1>4

\* What was seen of one change is one whole set.
LEMMA ScoreIsWhole == ScoreInv => NeverAMix
<1> SUFFICES ASSUME ScoreInv, score.pc = "done"
             PROVE  /\ score.verdict = SubSeq(score.outputs, 1, 1) /\ score.verdict[1].role = Primary
                    /\ score.swaps <= 1 =>
                        [outputs |-> score.outputs, disagreement |-> score.disagreement,
                         anomaly |-> score.anomaly] \in {Whole(score.began), Whole(runtime)}
  BY DEF NeverAMix
<1>1. PICK m, n : /\ score.outputs = Said(m, n) /\ score.verdict = <<Output(m, Primary)>>
                  /\ score.disagreement = Disagreement(Said(m, n))
                  /\ Seen(Primary, m) /\ Seen(Sequence, n)
  BY DEF ScoreInv, Spoken
<1>2. score.verdict = SubSeq(score.outputs, 1, 1) /\ score.verdict[1].role = Primary
  <2>1. <<Output(m, Primary)>>[1] = Output(m, Primary) /\ Output(m, Primary).role = Primary
    BY DEF Output
  <2>. QED BY <1>1, <2>1, SaidFacts
<1>3. \A set : Whole(set) = [outputs |-> Said(set[Primary], set[Sequence]),
                             disagreement |-> Disagreement(Said(set[Primary], set[Sequence])),
                             anomaly |-> set[Anomaly]]
  BY DEF Whole, Said
<1>4. ASSUME score.swaps <= 1
      PROVE  \/ m = score.began[Primary] /\ n = score.began[Sequence] /\ score.anomaly = score.began[Anomaly]
             \/ m = runtime[Primary] /\ n = runtime[Sequence] /\ score.anomaly = runtime[Anomaly]
  <2>1. /\ m \in {score.began[Primary], runtime[Primary]} /\ n \in {score.began[Sequence], runtime[Sequence]}
        /\ score.anomaly \in {score.began[Anomaly], runtime[Anomaly]}
    BY <1>1, <1>4 DEF Seen, ScoreInv
  <2>2. CASE score.swaps = 0
    BY <2>1, <2>2 DEF ScoreInv, Changes
  <2>3. CASE score.swaps = 1
    <3>1. PICK r \in Roles : \A q \in Roles \ {r} : score.began[q] = runtime[q]
      BY <2>3 DEF ScoreInv, Changes
    <3>. QED BY <2>1, <3>1, ScoringAssumption
  <2>. QED BY <1>4, <2>2, <2>3 DEF ScoreInv, ScoreShape
<1>. QED BY <1>1, <1>2, <1>3, <1>4

\* While one role changes hands, a score answers as the whole set before the change or the
\* whole set after it, never a mix of the two, and its verdict is that of the supervised model
\* it records, for any models, any number of requests and stops at any point
\* (Runtime.score, Runtime.ActivateRole and DeactivateRole; inference.go:218).
THEOREM ScoresNeverMix == ScoringSpec => []NeverAMix
<1>1. ScoringInit => TypeOK /\ ScoreInv
  BY InitType, NoScoreInv DEF ScoringInit
<1>2. TypeOK /\ ScoreInv /\ [ScoringNext]_scoringVars => TypeOK' /\ ScoreInv'
  <2> SUFFICES ASSUME TypeOK, ScoreInv, [ScoringNext]_scoringVars PROVE TypeOK' /\ ScoreInv'
    OBVIOUS
  <2>1. [Next]_vars
    BY DEF ScoringNext, scoringVars, ScoreBegins, ScoreSupervised, ScoreSequences, ScoreAnomaly,
           Stored, Elsewhere
  <2>2. TypeOK'
    BY <2>1, NextType
  <2>3. CASE Stored
    <3>1. score' = NoScore
      BY <2>3 DEF Stored
    <3>. QED BY <2>2, <3>1 DEF NoScore, ScoreInv, ScoreShape
  <2>4. CASE UNCHANGED scoringVars
    BY <2>2, <2>4 DEF scoringVars, vars, ScoreInv, ScoreShape, Changes, SupervisedSpoken, Spoken, Seen
  <2>. QED BY <2>2, <2>3, <2>4, ScoreBeginsInv, ScoreSupervisedInv, ScoreSequencesInv,
              ScoreAnomalyInv, ElsewhereInv DEF ScoringNext
<1>3. ScoreInv => NeverAMix
  BY ScoreIsWhole
<1>. QED BY <1>1, <1>2, <1>3, PTL DEF ScoringSpec
=============================================================================
