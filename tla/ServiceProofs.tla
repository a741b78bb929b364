---------------------------- MODULE ServiceProofs ----------------------------
(* Proofs about three services of the daemon, for every value of their constants: the sensor
   collector (any number of connections, names and places), hot reload (any files,
   environments and command lines, any number of edits, signals and restarts), and curation
   (any number of requests, flows, versions, runs, restarts and failures). *)
EXTENDS Collector, Reload, Curation, FiniteSetTheorems, SequenceTheorems, WellFoundedInduction, TLAPS

(* The collector. *)

Labels == {"new", "refused", "handshaking", "accepted", "registered",
           "streaming", "removing", "forgetting", "gone"}

LEMMA FreeNameIsFree ==
    ASSUME TypeOK, NEW c \in Conns, FreeName(c) # None
    PROVE  FreeName(c) \in Names /\ row[FreeName(c)] = None
BY CollectorAssumption DEF FreeName

LEMMA GotoMoves ==
    ASSUME TypeOK, NEW c \in Conns, NEW label \in Labels, Goto(c, label)
    PROVE  /\ pc' \in [Conns -> Labels] /\ pc'[c] = label
           /\ \A d \in Conns \ {c} : pc'[d] = pc[d]
BY DEF Goto, TypeOK, Labels

LEMMA DropRowFacts ==
    ASSUME TypeOK, NEW n \in Names, DropRow(n)
    PROVE  /\ row' \in [Names -> Conns \cup {None, Local}] /\ halted' \subseteq Conns
           /\ row'[n] = None /\ \A m \in Names \ {n} : row'[m] = row[m]
BY DEF DropRow, TypeOK

LEMMA CollectorInitType == Init => TypeOK
BY CollectorAssumption DEF Init, TypeOK

\* A connection that has registered holds the name it got.
NamesKnown ==
    \A c \in Conns : pc[c] \in {"registered", "streaming", "removing", "forgetting"} => regName[c] \in Names

\* A row and a peer entry are of a connection at that point of serve, under the name it got.
Places ==
    \A c \in Conns : \A n \in Names :
        /\ row[n] = c => pc[c] \in {"registered", "streaming", "removing"} /\ regName[c] = n
        /\ peers[n] = c => pc[c] \in {"streaming", "removing", "forgetting"} /\ regName[c] = n

PlacesInv == TypeOK /\ NamesKnown /\ Places /\ ServedBound

\* One step of serve of c; what it does to the rows, the peers and the names.
LEMMA ServeKeepsPlaces ==
    ASSUME TypeOK, NamesKnown, Places, NEW c \in Conns, Serve(c)
    PROVE  TypeOK' /\ NamesKnown' /\ Places'
<1>1. CASE HandshakeFails(c)
  BY <1>1, GotoMoves DEF HandshakeFails, At, TypeOK, NamesKnown, Places, Labels
<1>2. CASE HandshakeDone(c)
  BY <1>2, GotoMoves DEF HandshakeDone, At, TypeOK, NamesKnown, Places, Labels
<1>3. CASE RegisterRefused(c)
  BY <1>3, GotoMoves DEF RegisterRefused, At, TypeOK, NamesKnown, Places, Labels
<1>4. CASE Register(c)
  <2>1. FreeName(c) \in Names /\ row[FreeName(c)] = None /\ None \notin Conns
    BY <1>4, FreeNameIsFree, CollectorAssumption DEF Register
  <2>2. /\ pc' \in [Conns -> Labels] /\ pc'[c] = "registered" /\ pc[c] = "accepted"
        /\ \A d \in Conns \ {c} : pc'[d] = pc[d]
    BY <1>4, GotoMoves DEF Register, At, Labels
  <2>3. /\ regName' = [regName EXCEPT ![c] = FreeName(c)] /\ row' = [row EXCEPT ![FreeName(c)] = c]
        /\ live' = live \cup {c} /\ UNCHANGED <<peers, halted, ctx, listener>>
    BY <1>4 DEF Register
  <2>. QED BY <2>1, <2>2, <2>3 DEF TypeOK, NamesKnown, Places, Labels
<1>5. CASE Enlist(c)
  <2>1. /\ pc' \in [Conns -> Labels] /\ pc'[c] = "streaming" /\ pc[c] = "registered"
        /\ \A d \in Conns \ {c} : pc'[d] = pc[d]
    BY <1>5, GotoMoves DEF Enlist, At, Labels
  <2>2. /\ peers' = [peers EXCEPT ![regName[c]] = c] /\ regName[c] \in Names
        /\ UNCHANGED <<regName, row, live, halted, ctx, listener>>
    BY <1>5, <2>1 DEF Enlist, NamesKnown
  <2>. QED BY <2>1, <2>2 DEF TypeOK, NamesKnown, Places, Labels
<1>6. CASE CloseOnShutdown(c)
  BY <1>6 DEF CloseOnShutdown, TypeOK, NamesKnown, Places
<1>7. CASE SeesDone(c)
  BY <1>7, GotoMoves DEF SeesDone, At, TypeOK, NamesKnown, Places, Labels
<1>8. CASE Deregister(c)
  <2>1. /\ pc' \in [Conns -> Labels] /\ pc'[c] = "forgetting" /\ pc[c] = "removing"
        /\ \A d \in Conns \ {c} : pc'[d] = pc[d]
    BY <1>8, GotoMoves DEF Deregister, At, Labels
  <2>2. regName[c] \in Names /\ UNCHANGED <<regName, peers, live, ctx, listener>>
    BY <1>8, <2>1 DEF Deregister, NamesKnown
  <2>3. /\ row' \in [Names -> Conns \cup {None, Local}] /\ halted' \subseteq Conns
        /\ row'[regName[c]] = None /\ \A m \in Names \ {regName[c]} : row'[m] = row[m]
    BY <1>8, <2>2, DropRowFacts DEF Deregister
  <2>. QED BY <2>1, <2>2, <2>3, CollectorAssumption DEF TypeOK, NamesKnown, Places, Labels
<1>9. CASE Forget(c)
  <2>1. /\ pc' \in [Conns -> Labels] /\ pc'[c] = "gone" /\ pc[c] = "forgetting"
        /\ \A d \in Conns \ {c} : pc'[d] = pc[d]
    BY <1>9, GotoMoves DEF Forget, At, Labels
  <2>2. /\ peers' = [peers EXCEPT ![regName[c]] = None] /\ regName[c] \in Names
        /\ UNCHANGED <<regName, row, live, halted, ctx, listener>>
    BY <1>9, <2>1 DEF Forget, NamesKnown
  <2>. QED BY <2>1, <2>2, CollectorAssumption DEF TypeOK, NamesKnown, Places, Labels
<1>. QED BY <1>1, <1>2, <1>3, <1>4, <1>5, <1>6, <1>7, <1>8, <1>9 DEF Serve

\* serve takes no connection in: the set being served only shrinks.
LEMMA ServeShrinks ==
    ASSUME TypeOK, NEW c \in Conns, Serve(c)
    PROVE  InServe' \subseteq InServe
<1>1. c \in InServe /\ \A d \in Conns \ {c} : pc'[d] = pc[d]
  BY DEF Serve, HandshakeFails, HandshakeDone, Register, RegisterRefused, Enlist, CloseOnShutdown,
         SeesDone, Deregister, Forget, At, Goto, TypeOK, InServe
<1>. QED BY <1>1 DEF InServe

LEMMA ServedIsFinite ==
    ASSUME NEW S \in SUBSET Conns
    PROVE  IsFiniteSet(S) /\ Cardinality(S) \in Nat
BY CollectorAssumption, FS_Subset, FS_CardinalityType

\* Accept adds one connection, and only below the limit and its slack.
LEMMA AcceptKeepsBound ==
    ASSUME TypeOK, ServedBound, NEW c \in Conns, Accept(c)
    PROVE  ServedBound'
<1>1. MaxSensors + Slack \in Nat
  BY CollectorAssumption
<1>2. InServe \subseteq Conns /\ IsFiniteSet(InServe) /\ Cardinality(InServe) \in Nat
  BY ServedIsFinite DEF InServe
<1>3. \A d \in Conns \ {c} : pc'[d] = pc[d]
  BY DEF Accept, Goto, TypeOK
<1>4. CASE AtCapacity
  <2>1. pc'[c] = "refused"
    BY <1>4 DEF Accept, Goto, TypeOK
  <2>2. InServe' \subseteq InServe
    BY <1>3, <2>1 DEF InServe
  <2>3. Cardinality(InServe') <= Cardinality(InServe) /\ Cardinality(InServe') \in Nat
    BY <1>2, <2>2, FS_Subset, FS_CardinalityType
  <2>. QED BY <1>1, <1>2, <2>3 DEF ServedBound
<1>5. CASE ~ AtCapacity
  <2>1. pc'[c] = "handshaking" /\ pc[c] = "new"
    BY <1>5 DEF Accept, At, Goto, TypeOK
  <2>2. InServe' = InServe \cup {c} /\ c \notin InServe
    BY <1>3, <2>1 DEF InServe
  <2>3. Cardinality(InServe') = Cardinality(InServe) + 1
    BY <1>2, <2>2, FS_AddElement
  <2>4. ~ (Cardinality(InServe) >= MaxSensors + Slack)
    BY <1>5 DEF AtCapacity
  <2>. QED BY <1>1, <1>2, <2>3, <2>4 DEF ServedBound
<1>. QED BY <1>4, <1>5

LEMMA PlacesInitInv == Init => PlacesInv
<1> SUFFICES ASSUME Init PROVE PlacesInv
  OBVIOUS
<1>1. NamesKnown /\ Places
  BY CollectorAssumption DEF Init, NamesKnown, Places
<1>2. InServe = {}
  BY DEF Init, InServe
<1>3. ServedBound
  BY <1>2, FS_EmptySet, CollectorAssumption DEF ServedBound
<1>. QED BY <1>1, <1>3, CollectorInitType DEF PlacesInv

LEMMA SameServed ==
    ASSUME ServedBound, TypeOK, InServe' \subseteq InServe
    PROVE  ServedBound'
<1>1. Cardinality(InServe') <= Cardinality(InServe) /\ Cardinality(InServe') \in Nat
      /\ Cardinality(InServe) \in Nat
  BY ServedIsFinite, FS_Subset, FS_CardinalityType DEF InServe
<1>. QED BY <1>1, CollectorAssumption DEF ServedBound

LEMMA PlacesNextInv == PlacesInv /\ [Next]_vars => PlacesInv'
<1> SUFFICES ASSUME PlacesInv, [Next]_vars PROVE PlacesInv'
  OBVIOUS
<1>1. TypeOK /\ NamesKnown /\ Places /\ ServedBound
  BY DEF PlacesInv
<1>2. ASSUME UNCHANGED pc PROVE ServedBound'
  BY <1>1, <1>2, SameServed DEF InServe
<1>3. CASE Cancel
  BY <1>1, <1>2, <1>3 DEF Cancel, PlacesInv, TypeOK, NamesKnown, Places
<1>4. CASE CloseListener
  BY <1>1, <1>2, <1>4 DEF CloseListener, PlacesInv, TypeOK, NamesKnown, Places
<1>5. CASE RunReturn
  BY <1>1, <1>2, <1>5 DEF RunReturn, PlacesInv, TypeOK, NamesKnown, Places
<1>6. ASSUME NEW c \in Conns, Accept(c) PROVE PlacesInv'
  <2>1. PICK label \in {"refused", "handshaking"} : Goto(c, label)
    BY <1>6 DEF Accept
  <2>2. TypeOK' /\ NamesKnown' /\ Places'
    <3>1. /\ pc' \in [Conns -> Labels] /\ pc'[c] = label /\ \A d \in Conns \ {c} : pc'[d] = pc[d]
      BY <1>1, <2>1, GotoMoves DEF Labels
    <3>2. pc[c] = "new" /\ UNCHANGED <<regName, row, peers, live, halted, ctx, listener>>
      BY <1>6 DEF Accept, At
    <3>. QED BY <1>1, <3>1, <3>2 DEF TypeOK, NamesKnown, Places, Labels
  <2>. QED BY <1>1, <1>6, <2>2, AcceptKeepsBound DEF PlacesInv
<1>7. ASSUME NEW c \in Conns, Serve(c) PROVE PlacesInv'
  BY <1>1, <1>7, ServeKeepsPlaces, ServeShrinks, SameServed DEF PlacesInv
<1>8. ASSUME NEW c \in Conns, SessionEnds(c) PROVE PlacesInv'
  BY <1>1, <1>2, <1>8 DEF SessionEnds, PlacesInv, TypeOK, NamesKnown, Places
<1>9. ASSUME NEW n \in Names, DeleteCapture(n) PROVE PlacesInv'
  <2>1. /\ row' \in [Names -> Conns \cup {None, Local}] /\ halted' \subseteq Conns
        /\ row'[n] = None /\ \A m \in Names \ {n} : row'[m] = row[m]
    BY <1>1, <1>9, DropRowFacts DEF DeleteCapture
  <2>2. UNCHANGED <<pc, regName, peers, live, ctx, listener>>
    BY <1>9 DEF DeleteCapture
  <2>. QED BY <1>1, <1>2, <2>1, <2>2, CollectorAssumption DEF PlacesInv, TypeOK, NamesKnown, Places
<1>10. CASE UNCHANGED vars
  BY <1>1, <1>2, <1>10 DEF vars, PlacesInv, TypeOK, NamesKnown, Places
<1>. QED BY <1>3, <1>4, <1>5, <1>6, <1>7, <1>8, <1>9, <1>10 DEF Next

\* The places taken are places of sensors that are there: for any number of sensors, names
\* and operators' deletes, at most max_sensors and the slack are served, and no connection
\* that is gone has a row or a peer entry (capture/collector.go Run, serve).
THEOREM PlacesAlwaysReal == Spec => []PlacesAreReal
<1>1. PlacesInv => PlacesAreReal
  BY DEF PlacesInv, Places, PlacesAreReal, NoGhosts, InServe
<1>. QED BY <1>1, PlacesInitInv, PlacesNextInv, PTL DEF Spec

-----------------------------------------------------------------------------
(* Reload. *)

LEMMA SettingsFacts == Live \subseteq Settings /\ Restart \subseteq Settings /\ Live \cap Restart = {}
BY DEF Live, Restart, Settings, Policy, PerClass

\* Policy and the level are all that is applied.
LEMMA LiveSplits == Live = {"logging.level"} \cup Policy /\ "logging.level" \notin Policy
BY DEF Live, Policy, PerClass

\* The command line touches nothing that a reload applies.
LEMMA FlagsLeaveLive ==
    ASSUME NEW f \in FlagSets, NEW c
    PROVE  SameLive(Over(f, c), c)
BY FlagsAssumption, SettingsFacts DEF SameLive, Over

\* Applying a part of the settings changes these to next's, when they differed from cur's.
LEMMA ApplyFacts ==
    ASSUME NEW part \in SUBSET Settings, Apply(part), \A s \in part : running[s] = cur[s]
    PROVE  /\ \A s \in part : running'[s] = next[s]
           /\ \A s \in Settings \ part : running'[s] = running[s]
BY DEF Apply

(* Where watch is in a reload. *)

\* The settings in force against the reloader's own configurations: as cur says, save for the
\* part of next that has been applied.
InForce ==
    /\ at \in {"wait", "load", "level"} => SameLive(running, cur)
    /\ at = "policy" => /\ running["logging.level"] = next["logging.level"]
                        /\ \A s \in Policy : running[s] = cur[s]

\* What is in force, and what is being applied, the file has validly stood for.
Stood ==
    /\ \E c \in valid : SameLive(cur, c)
    /\ at \in {"level", "policy"} => \E c \in valid : SameLive(next, c)
    /\ Accepted(file, env) => Load(file, env) \in valid

\* A SIGHUP later than the last edit is waiting, or being served with the file as it is, or
\* has been served.
Heard ==
    wanted /\ ~ signal =>
        /\ at \in {"level", "policy"} => next = Load(file, env)
        /\ at = "wait" => (Accepted(file, env) => SameLive(running, Load(file, env)))

\* Without a path there is nothing to load, and the defaults stay in force.
Pathless == file = NoPath => at \in {"wait", "load"} /\ SameLive(running, Load(file, env))

Diverged == \A s \in Restart : running[s] # cur[s] => s \in reported

ReloadInv ==
    /\ at \in {"wait", "load", "level", "policy"} /\ flags \in FlagSets
    /\ InForce /\ Stood /\ Heard /\ Pathless /\ Diverged

LEMMA ReloadInitInv == ReloadInit => ReloadInv
<1> SUFFICES ASSUME ReloadInit PROVE ReloadInv
  OBVIOUS
<1>1. SameLive(running, Load(file, env)) /\ cur = running
  BY FlagsLeaveLive DEF ReloadInit
<1>2. InForce /\ Stood /\ Heard /\ Pathless /\ Diverged
  BY <1>1 DEF ReloadInit, InForce, Stood, Heard, Pathless, Diverged, SameLive
<1>. QED BY <1>2 DEF ReloadInit, ReloadInv

LEMMA ReloadNextInv == ReloadInv /\ [ReloadNext]_reloadVars => ReloadInv'
<1> SUFFICES ASSUME ReloadInv, [ReloadNext]_reloadVars PROVE ReloadInv'
  OBVIOUS
<1> USE DEF ReloadInv
<1>1. CASE Edit
  <2>1. file # NoPath /\ file' \in Contents /\ file' # NoPath
    BY <1>1, FileAssumption DEF Edit
  <2>2. /\ valid' = IF Accepted(file', env) THEN valid \cup {Load(file', env)} ELSE valid
        /\ ~ wanted' /\ UNCHANGED <<env, flags, running, cur, signal, at, next, reported>>
    BY <1>1 DEF Edit
  <2>3. Accepted(file', env') => Load(file', env') \in valid'
    BY <2>2 DEF Accepted, Load
  <2>4. valid \subseteq valid'
    BY <2>2
  <2>5. Stood'
    BY <2>2, <2>3, <2>4 DEF Stood
  <2>. QED BY <2>1, <2>2, <2>5 DEF InForce, Heard, Pathless, Diverged
<1>2. CASE Hangup
  BY <1>2 DEF Hangup, InForce, Stood, Heard, Pathless, Diverged, Accepted, Load
<1>3. CASE Take
  BY <1>3 DEF Take, InForce, Stood, Heard, Pathless, Diverged, Accepted, Load
<1>4. CASE LoadFile
  <2>1. at = "load" /\ UNCHANGED <<file, env, flags, running, cur, signal, reported, valid, wanted>>
    BY <1>4 DEF LoadFile
  <2>2. Load(file', env') = Load(file, env) /\ (Accepted(file', env') <=> Accepted(file, env))
    BY <2>1
  <2>3. CASE file = NoPath \/ ~ Accepted(file, env)
    <3>1. at' = "wait" /\ next' = next
      BY <1>4, <2>3 DEF LoadFile
    <3>2. file = NoPath => SameLive(running, Load(file, env))
      BY DEF Pathless
    <3>. QED BY <2>1, <2>2, <2>3, <3>1, <3>2 DEF InForce, Stood, Heard, Pathless, Diverged
  <2>4. CASE file # NoPath /\ Accepted(file, env)
    <3>1. at' = "level" /\ next' = Load(file, env)
      BY <1>4, <2>4 DEF LoadFile
    <3>2. \E c \in valid : SameLive(next', c)
      BY <2>4, <3>1 DEF Stood, SameLive
    <3>. QED BY <2>1, <2>2, <2>4, <3>1, <3>2 DEF InForce, Stood, Heard, Pathless, Diverged
  <2>. QED BY <2>3, <2>4
<1>5. CASE ApplyLevel
  <2>1. /\ at = "level" /\ at' = "policy" /\ Apply({"logging.level"})
        /\ UNCHANGED <<file, env, flags, cur, signal, next, reported, valid, wanted>>
    BY <1>5 DEF ApplyLevel
  <2>2. \A s \in Live : running[s] = cur[s]
    BY <2>1 DEF InForce, SameLive
  <2>3. running'["logging.level"] = next["logging.level"]
        /\ \A s \in Settings \ {"logging.level"} : running'[s] = running[s]
    BY <2>1, <2>2, LiveSplits, SettingsFacts, ApplyFacts
  <2>4. InForce'
    BY <2>1, <2>2, <2>3, LiveSplits, SettingsFacts DEF InForce
  <2>5. Diverged'
    BY <2>1, <2>3, LiveSplits, SettingsFacts DEF Diverged
  <2>6. Stood' /\ Heard' /\ Pathless'
    BY <2>1 DEF Stood, Heard, Pathless, Accepted, Load
  <2>. QED BY <2>1, <2>4, <2>5, <2>6
<1>6. CASE ApplyPolicy
  <2>1. /\ at = "policy" /\ at' = "wait" /\ Apply(Policy)
        /\ cur' = next /\ reported' = reported \cup RestartRequired(cur, next)
        /\ UNCHANGED <<file, env, flags, signal, next, valid, wanted>>
    BY <1>6 DEF ApplyPolicy
  <2>2. /\ \A s \in Policy : running'[s] = next[s]
        /\ \A s \in Settings \ Policy : running'[s] = running[s]
    BY <2>1, LiveSplits, SettingsFacts, ApplyFacts DEF InForce
  <2>3. SameLive(running', next)
    BY <2>1, <2>2, LiveSplits, SettingsFacts DEF InForce, SameLive
  <2>4. InForce'
    BY <2>1, <2>3 DEF InForce
  <2>5. Diverged'
    <3> SUFFICES ASSUME NEW s \in Restart, running'[s] # next[s] PROVE s \in reported'
      BY <2>1 DEF Diverged
    <3>1. running'[s] = running[s]
      BY <2>2, LiveSplits, SettingsFacts
    <3>. QED BY <2>1, <3>1 DEF Diverged, RestartRequired
  <2>6. Stood' /\ Heard' /\ Pathless'
    BY <2>1, <2>3 DEF Stood, Heard, Pathless, Accepted, Load
  <2>. QED BY <2>1, <2>4, <2>5, <2>6
<1>7. CASE RestartDaemon
  <2>1. /\ Accepted(file, env) /\ running' = Over(flags, Load(file, env)) /\ cur' = running'
        /\ signal' = FALSE /\ at' = "wait" /\ next' = cur' /\ reported' = {}
        /\ UNCHANGED <<file, env, flags, valid, wanted>>
    BY <1>7 DEF RestartDaemon
  <2>2. SameLive(running', Load(file, env))
    BY <2>1, FlagsLeaveLive
  <2>3. Load(file', env') = Load(file, env) /\ Accepted(file', env')
    BY <2>1
  <2>. QED BY <2>1, <2>2, <2>3 DEF InForce, Stood, Heard, Pathless, Diverged, SameLive
<1>8. CASE UNCHANGED reloadVars
  BY <1>8 DEF reloadVars, InForce, Stood, Heard, Pathless, Diverged, Accepted, Load
<1>. QED BY <1>1, <1>2, <1>3, <1>4, <1>5, <1>6, <1>7, <1>8 DEF ReloadNext

\* A reload keeps its word, whatever the file holds and whenever it is edited: between two
\* reloads one configuration the file has validly stood for is in force, a SIGHUP after the
\* last edit is never lost, and what was not applied has been named (cmd/synapsed/reload.go).
THEOREM ReloadAlwaysKeepsItsWord == ReloadSpec => []ReloadKeepsItsWord
<1>1. ReloadInv => ReloadKeepsItsWord
  <2> SUFFICES ASSUME ReloadInv PROVE OneValidFile /\ AskedIsHeard /\ DivergenceWasReported
    BY DEF ReloadKeepsItsWord
  <2>1. OneValidFile
    BY DEF ReloadInv, InForce, Stood, OneValidFile, SameLive
  <2>2. AskedIsHeard
    BY DEF ReloadInv, Heard, AskedIsHeard
  <2>3. DivergenceWasReported
    BY DEF ReloadInv, Diverged, DivergenceWasReported
  <2>. QED BY <2>1, <2>2, <2>3
<1>. QED BY <1>1, ReloadInitInv, ReloadNextInv, PTL DEF ReloadSpec


-----------------------------------------------------------------------------
(* The largest of a bounded set of numbers, from the order of the naturals being well founded. *)

LEMMA LeastNat ==
    ASSUME NEW T, T \subseteq Nat, T # {}
    PROVE  \E x \in T : \A y \in T : x <= y
<1> DEFINE R == {p \in Nat \X Nat : p[1] < p[2]}
<1>1. IsWellFoundedOn(R, Nat)
  <2>1. OpToRel(<, Nat) = R
    BY DEF OpToRel
  <2>. QED BY <2>1, NatLessThanWellFounded
<1>2. PICK x \in T : \A y \in T : ~ (<<y, x>> \in R)
  BY <1>1, WFMin
<1>3. \A y \in T : ~ (y < x)
  BY <1>2
<1>. QED BY <1>3

LEMMA MaxIsLargest ==
    ASSUME NEW S, S \subseteq Nat, S # {}, NEW n \in Nat, \A y \in S : y <= n
    PROVE  Max(S) \in S /\ \A y \in S : y <= Max(S)
<1> DEFINE B == {m \in Nat : \A y \in S : y <= m}
<1>1. n \in B /\ B \subseteq Nat
  OBVIOUS
<1> HIDE DEF B
<1>2. PICK m \in B : \A k \in B : m <= k
  BY <1>1, LeastNat
<1>3. m \in S
  <2>1. m \in Nat /\ \A y \in S : y \in Nat /\ y <= m
    BY DEF B
  <2>2. CASE m = 0
    <3>1. PICK y \in S : TRUE
      OBVIOUS
    <3>2. y = m
      BY <2>1, <2>2, <3>1
    <3>. QED BY <3>2
  <2>3. CASE m # 0 /\ m \notin S
    <3>1. m - 1 \in Nat /\ \A y \in S : y <= m - 1
      BY <2>1, <2>3
    <3>2. m - 1 \in B
      BY <3>1 DEF B
    <3>. QED BY <1>2, <2>1, <3>2
  <2>. QED BY <2>2, <2>3
<1>4. \E x \in S : \A y \in S : x >= y
  BY <1>3 DEF B
<1>5. Max(S) \in S /\ \A y \in S : Max(S) >= y
  BY <1>4, Zenon DEF Max
<1>. QED BY <1>5

LEMMA MaxOfTwo ==
    ASSUME NEW a \in Nat, NEW b \in Int
    PROVE  Max({a, b}) = IF a >= b THEN a ELSE b
<1>1. \E x \in {a, b} : \A y \in {a, b} : x >= y
  OBVIOUS
<1>2. Max({a, b}) \in {a, b} /\ \A y \in {a, b} : Max({a, b}) >= y
  BY <1>1, Zenon DEF Max
<1>. QED BY <1>2

-----------------------------------------------------------------------------
(* Curation.  The audit log: what a fragment at the end of the file will still cost. *)

LastPiece == Last(Last(auditFile)).how

Owing == IF newline THEN 0 ELSE IF LastPiece = "torn" THEN 1 ELSE 2

LogType ==
    /\ \E X : auditFile \in Seq(Seq(X)) /\ \A i \in DOMAIN auditFile : auditFile[i] # <<>>
    /\ \E X : appended \in Seq(X) /\ \A i \in DOMAIN appended : appended[i].how \in Outcomes
    /\ newline \in BOOLEAN

LogInv ==
    /\ ReadInOrder
    /\ ~ newline => auditFile # <<>> /\ LastPiece \in {"torn", "unterminated"}
    /\ appended # <<>> /\ Last(appended).how \in {"torn", "unterminated"} =>
          ~ newline /\ LastPiece = Last(appended).how
    /\ Len(appended) + Owing <=
          Cardinality(Readable) + Cardinality(Ended({"none", "torn"}, Len(appended)))
          + Cardinality(Ended({"torn"}, Len(appended))) + 2 * Cardinality(Ended({"unterminated"}, Len(appended)))

(* Reviews. *)

Tags == Classes \cup {NoLabel}
Verdict == [flow : FlowIds, class : Classes]
Judgement == [state : ReviewStates, label : Tags]
Review == [state : ReviewStates, label : Tags, pred : Classes, history : Seq(Judgement)]
Decision == [state : ReviewStates, label : Tags, boot : Nat, class : Tags, verdict : Classes]

ReviewType ==
    /\ boot \in Nat /\ verdicts \in Seq(Verdict) /\ records \subseteq FlowIds
    /\ byFlow \in [FlowIds -> Review \cup {NoReview}] /\ files = byFlow
    /\ decisions \in [FlowIds -> Seq(Decision)]

Judged(s) == [i \in DOMAIN s |-> [state |-> s[i].state, label |-> s[i].label]]

\* A review is what its decisions made it.
ReviewInv ==
    \A f \in FlowIds :
        IF decisions[f] = <<>> THEN byFlow[f] = NoReview
        ELSE /\ byFlow[f] # NoReview
             /\ HistoryOf(f) = Judged(decisions[f])
             /\ byFlow[f].pred = decisions[f][1].verdict
             /\ Last(decisions[f]).class = EffectiveLabel(byFlow[f])

(* Datasets. *)

\* Every human row has its decision.
Vouched(given, rows) ==
    \A r \in rows : /\ r.flow \in FlowIds
                    /\ r.human => \E j \in DOMAIN given[r.flow] : given[r.flow][j].class = r.label

RowsInv ==
    /\ \A o \in Operators : cutting[o] # NoCut => Vouched(decisions, cutting[o].rows)
    /\ \A i \in DOMAIN cuts : Vouched(decisions, cuts[i].rows) /\ cuts[i].source = LabelingSource(cuts[i].rows)

\* Without a delete the index, the directory and the history agree.
VersionsInv ==
    /\ DOMAIN index \subseteq Versions /\ DOMAIN dirs \subseteq Versions
    /\ cutting = [o \in Operators |-> cutting[o]] /\ \E X : cuts \in Seq(X)
    /\ \A v \in DOMAIN dirs \ asked : v \in DOMAIN index /\ dirs[v] = Complete(index[v])
    /\ \A i \in DOMAIN cuts : cuts[i].version \notin asked =>
          /\ cuts[i].version \in DOMAIN index /\ cuts[i].version \in DOMAIN dirs
          /\ \E j \in i .. Len(cuts) : cuts[j] = index[cuts[i].version]

(* Training runs. *)

Statuses == {"running", "completed", "failed"}
Run_ == [status : Statuses, epoch : Nat, history : Seq(Nat), updated : Nat]
Report == [epoch : Nat, status : Statuses]

TrainingType ==
    /\ now \in Nat
    /\ byId \in [Runs -> Run_ \cup {NoRun}] /\ runFiles = byId
    /\ reports \in [Runs -> Seq(Report)]

\* The first n reports of a run are progress, and the run is what they made it.
Told(run, said, n) ==
    /\ n = IF run.status = "running" THEN Len(said) ELSE Len(said) - 1
    /\ \A i \in 1 .. n : said[i].status = "running"
    /\ n # Len(said) => said[Len(said)].status = run.status /\ said[Len(said)].epoch = 0
    /\ Len(run.history) = IF n < HistoryCap THEN n ELSE HistoryCap
    /\ \A i \in 1 .. Len(run.history) : run.history[i] = said[n - Len(run.history) + i].epoch
    /\ \/ run.epoch = 0 /\ \A i \in 1 .. n : said[i].epoch = 0
       \/ \E i \in 1 .. n : /\ run.epoch = said[i].epoch /\ run.epoch # 0
                            /\ \A j \in 1 .. n : j > i => said[j].epoch = 0

RunInv ==
    \A r \in Runs : IF byId[r] = NoRun THEN reports[r] = <<>>
                    ELSE \E n \in 0 .. Len(reports[r]) : Told(byId[r], reports[r], n)

LEMMA LogFacts ==
    ASSUME LogType
    PROVE  /\ Len(appended) \in Nat /\ DOMAIN appended = 1 .. Len(appended)
           /\ Len(auditFile) \in Nat /\ DOMAIN auditFile = 1 .. Len(auditFile)
           /\ Readable \subseteq 1 .. Len(auditFile) /\ IsFiniteSet(Readable) /\ Cardinality(Readable) \in Nat
           /\ \A H : \A n \in Nat : IsFiniteSet(Ended(H, n)) /\ Cardinality(Ended(H, n)) \in Nat
<1>1. PICK X : auditFile \in Seq(Seq(X))
  BY DEF LogType
<1>2. PICK Z : appended \in Seq(Z)
  BY DEF LogType
<1>3. /\ Len(appended) \in Nat /\ DOMAIN appended = 1 .. Len(appended)
      /\ Len(auditFile) \in Nat /\ DOMAIN auditFile = 1 .. Len(auditFile)
  BY <1>1, <1>2, LenProperties
<1>4. Readable \subseteq 1 .. Len(auditFile)
  BY <1>3 DEF Readable
<1>5. \A m \in Nat : IsFiniteSet(1 .. m)
  BY FS_Interval
<1>6. IsFiniteSet(Readable) /\ Cardinality(Readable) \in Nat
  BY <1>3, <1>4, <1>5, FS_Subset, FS_CardinalityType
<1>7. ASSUME NEW H, NEW n \in Nat
      PROVE  IsFiniteSet(Ended(H, n)) /\ Cardinality(Ended(H, n)) \in Nat
  <2>1. Ended(H, n) \subseteq 1 .. n
    BY DEF Ended
  <2>. QED BY <1>5, <2>1, FS_Subset, FS_CardinalityType
<1>. QED BY <1>3, <1>4, <1>6, <1>7

\* One more append.
LEMMA AppendedGrows ==
    ASSUME LogType, NEW p, p.how \in Outcomes, appended' = Append(appended, p)
    PROVE  /\ \E X : appended' \in Seq(X)
           /\ Len(appended') = Len(appended) + 1 /\ DOMAIN appended' = 1 .. Len(appended) + 1
           /\ appended'[Len(appended) + 1] = p /\ appended' # <<>> /\ Last(appended)' = p
           /\ \A i \in 1 .. Len(appended) : appended'[i] = appended[i]
           /\ \A i \in DOMAIN appended' : appended'[i].how \in Outcomes
           /\ \A H : Cardinality(Ended(H, Len(appended))') =
                       Cardinality(Ended(H, Len(appended))) + (IF p.how \in H THEN 1 ELSE 0)
<1> DEFINE n == Len(appended)
<1>1. PICK X : appended \in Seq(X) /\ \A i \in DOMAIN appended : appended[i].how \in Outcomes
  BY DEF LogType
<1>2. appended \in Seq(X \cup {p})
  BY <1>1, SeqMonotonic
<1>3. /\ appended' \in Seq(X \cup {p}) /\ appended' # <<>> /\ Len(appended') = n + 1
      /\ (\A i \in 1 .. n : appended'[i] = appended[i]) /\ appended'[n + 1] = p
  BY <1>2, AppendProperties
<1>4. n \in Nat /\ DOMAIN appended = 1 .. n /\ DOMAIN appended' = 1 .. n + 1
  BY <1>2, <1>3, LenProperties
<1>5. \A i \in 1 .. n + 1 : i = n + 1 \/ i \in 1 .. n
  BY <1>4
<1>6. \A i \in DOMAIN appended' : appended'[i].how \in Outcomes
  BY <1>1, <1>3, <1>4, <1>5
<1>7. ASSUME NEW H
      PROVE  Cardinality(Ended(H, n)') = Cardinality(Ended(H, n)) + (IF p.how \in H THEN 1 ELSE 0)
  <2> DEFINE E == {i \in 1 .. n : appended[i].how \in H}
  <2>1. Ended(H, n)' = {i \in 1 .. n + 1 : appended'[i].how \in H} /\ Ended(H, n) = E
    BY <1>3 DEF Ended
  <2>2. IsFiniteSet(E) /\ Cardinality(E) \in Nat
    BY <1>4, <2>1, LogFacts
  <2>3. n + 1 \notin E
    BY <1>4
  <2>4. CASE p.how \in H
    <3>1. Ended(H, n)' = E \cup {n + 1}
      BY <1>3, <1>4, <1>5, <2>1, <2>4
    <3>2. Cardinality(E \cup {n + 1}) = Cardinality(E) + 1
      BY <2>2, <2>3, FS_AddElement
    <3>. QED BY <2>1, <2>4, <3>1, <3>2
  <2>5. CASE p.how \notin H
    <3>1. Ended(H, n)' = E
      BY <1>3, <1>4, <1>5, <2>1, <2>5
    <3>2. Cardinality(Ended(H, n)') = Cardinality(E) + 0
      BY <2>2, <3>1
    <3>. QED BY <2>1, <2>5, <3>2
  <2>. QED BY Zenon, <2>4, <2>5
<1>. QED BY <1>3, <1>4, <1>6, <1>7 DEF Last

\* A line of its own, or a piece behind the fragment at the end of the file.
LEMMA FileGrows ==
    ASSUME LogType, LogInv, NEW p, p.how \in {"whole", "unterminated", "torn"}, auditFile' = WithPiece(p)
    PROVE  /\ \E X : auditFile' \in Seq(Seq(X)) /\ \A i \in DOMAIN auditFile' : auditFile'[i] # <<>>
           /\ auditFile' # <<>> /\ LastPiece' = p.how
           /\ newline =>
                /\ Readable' = Readable \cup (IF p.how = "torn" THEN {} ELSE {Len(auditFile) + 1})
                /\ auditFile'[Len(auditFile) + 1][1] = p
                /\ \A i \in 1 .. Len(auditFile) : auditFile'[i] = auditFile[i]
           /\ ~ newline =>
                /\ Readable' = Readable \ {Len(auditFile)}
                /\ \A i \in 1 .. Len(auditFile) - 1 : auditFile'[i] = auditFile[i]
                /\ LastPiece = "torn" => Len(auditFile) \notin Readable
<1> DEFINE k == Len(auditFile)
<1>1. PICK X : auditFile \in Seq(Seq(X)) /\ \A i \in DOMAIN auditFile : auditFile[i] # <<>>
  BY DEF LogType
<1> DEFINE Y == X \cup {p}
<1>2. auditFile \in Seq(Seq(Y))
  <2>1. Seq(X) \subseteq Seq(Y)
    BY SeqMonotonic
  <2>. QED BY <1>1, <2>1, SeqMonotonic
<1>3. k \in Nat /\ DOMAIN auditFile = 1 .. k /\ p \in Y
  BY LogFacts
<1>4. CASE newline
  <2>1. auditFile' = Append(auditFile, <<p>>) /\ <<p>> \in Seq(Y) /\ <<p>> # <<>> /\ Len(<<p>>) = 1 /\ <<p>>[1] = p
    BY <1>3, <1>4 DEF WithPiece
  <2>2. /\ auditFile' \in Seq(Seq(Y)) /\ auditFile' # <<>> /\ Len(auditFile') = k + 1
        /\ (\A i \in 1 .. k : auditFile'[i] = auditFile[i]) /\ auditFile'[k + 1] = <<p>>
    BY <1>2, <2>1, AppendProperties
  <2>3. DOMAIN auditFile' = 1 .. k + 1 /\ \A i \in 1 .. k + 1 : i = k + 1 \/ i \in 1 .. k
    BY <1>3, <2>2, LenProperties
  <2>4. LastPiece' = p.how
    BY <2>1, <2>2 DEF LastPiece, Last
  <2>5. Readable' = Readable \cup (IF p.how = "torn" THEN {} ELSE {k + 1})
    <3>1. DecodeLine(<<p>>) <=> p.how # "torn"
      BY <2>1 DEF DecodeLine
    <3>2. Readable = {i \in 1 .. k : DecodeLine(auditFile[i])}
          /\ Readable' = {i \in 1 .. k + 1 : DecodeLine(auditFile'[i])}
      BY <1>3, <2>3 DEF Readable, DecodeLine
    <3>3. \A i \in 1 .. k : i \in 1 .. k + 1 /\ (DecodeLine(auditFile'[i]) <=> DecodeLine(auditFile[i]))
      BY <1>3, <2>2
    <3>4. k + 1 \in 1 .. k + 1 /\ (DecodeLine(auditFile'[k + 1]) <=> p.how # "torn")
      BY <1>3, <2>2, <3>1
    <3>. QED BY <2>3, <3>2, <3>3, <3>4
  <2>6. \A i \in DOMAIN auditFile' : auditFile'[i] # <<>>
    BY <1>1, <1>3, <2>1, <2>2, <2>3
  <2>. QED BY <1>4, <2>1, <2>2, <2>4, <2>5, <2>6
<1>5. CASE ~ newline
  <2>1. auditFile # <<>> /\ LastPiece \in {"torn", "unterminated"}
    BY <1>5 DEF LogInv
  <2>2. k \in Nat \ {0} /\ k \in 1 .. k
    BY <1>2, <2>1, EmptySeq
  <2> DEFINE last == auditFile[k]
             m == Len(last)
  <2>3. last \in Seq(Y) /\ m \in Nat \ {0}
    BY <1>1, <1>2, <1>3, <2>2, ElementOfSeq, EmptySeq
  <2>4. /\ Append(last, p) \in Seq(Y) /\ Append(last, p) # <<>> /\ Len(Append(last, p)) = m + 1
        /\ Append(last, p)[m + 1] = p
    BY <1>3, <2>3, AppendProperties
  <2>5. auditFile' = [auditFile EXCEPT ![k] = Append(last, p)]
    BY <1>5 DEF WithPiece
  <2> DEFINE now_ == Append(last, p)
  <2> HIDE DEF last, m, now_
  <2>6. /\ auditFile' \in Seq(Seq(Y)) /\ Len(auditFile') = k /\ auditFile'[k] = now_
        /\ \A i \in 1 .. k : i # k => auditFile'[i] = auditFile[i]
    BY <1>2, <2>2, <2>4, <2>5, ExceptSeq DEF now_
  <2>7. DOMAIN auditFile' = 1 .. k /\ auditFile' # <<>>
    BY <2>2, <2>6, LenProperties, EmptySeq
  <2>8. LastPiece' = p.how
    BY <2>4, <2>6 DEF LastPiece, Last, now_
  <2>9. ~ DecodeLine(now_)
    BY <2>3, <2>4 DEF DecodeLine, now_
  <2>10. Readable' = Readable \ {k}
    <3>1. Readable = {i \in 1 .. k : DecodeLine(auditFile[i])}
          /\ Readable' = {i \in 1 .. k : DecodeLine(auditFile'[i])}
      BY <1>3, <2>7 DEF Readable, DecodeLine
    <3>. QED BY <2>6, <2>9, <3>1
  <2>11. LastPiece = "torn" => k \notin Readable
    BY <2>3 DEF LastPiece, Last, Readable, DecodeLine, last, m
  <2>12. \A i \in DOMAIN auditFile' : auditFile'[i] # <<>>
    BY <1>1, <1>3, <2>4, <2>6, <2>7 DEF now_
  <2>13. \A i \in 1 .. k - 1 : auditFile'[i] = auditFile[i]
    BY <2>2, <2>6
  <2>. QED BY <1>5, <2>6, <2>7, <2>8, <2>10, <2>11, <2>12, <2>13
<1>. QED BY <1>4, <1>5

LEMMA LogSubjectStep ==
    ASSUME LogType, LogInv, NEW o \in Operators, NEW how \in Outcomes, LogSubject(o, how)
    PROVE  LogType' /\ LogInv'
<1> DEFINE p == [line |-> owed[o], how |-> how]
           n == Len(appended)
           k == Len(auditFile)
           R == Cardinality(Readable)
           a == Cardinality(Ended({"none", "torn"}, n))
           t == Cardinality(Ended({"torn"}, n))
           u == Cardinality(Ended({"unterminated"}, n))
<1>1. p.how = how /\ p.line = owed[o] /\ appended' = Append(appended, p) /\ newline \in BOOLEAN
  BY DEF LogSubject, LogType
<1>2. \/ how = "none" /\ UNCHANGED <<auditFile, newline>>
      \/ /\ how \in {"whole", "unterminated", "torn"}
         /\ auditFile' = WithPiece(p) /\ (newline' <=> how = "whole") /\ newline' \in BOOLEAN
  BY DEF LogSubject, Outcomes
<1> HIDE DEF p
<1>3. /\ \E X : appended' \in Seq(X)
      /\ Len(appended') = n + 1 /\ DOMAIN appended' = 1 .. n + 1
      /\ appended'[n + 1] = p /\ appended' # <<>> /\ Last(appended)' = p
      /\ \A i \in 1 .. n : appended'[i] = appended[i]
      /\ \A i \in DOMAIN appended' : appended'[i].how \in Outcomes
  BY <1>1, AppendedGrows
<1>4. /\ n \in Nat /\ DOMAIN appended = 1 .. n /\ k \in Nat /\ Readable \subseteq 1 .. k
      /\ IsFiniteSet(Readable) /\ R \in Nat /\ a \in Nat /\ t \in Nat /\ u \in Nat
  BY LogFacts
<1>5. PICK pos \in [Readable -> 1 .. n] :
            /\ \A i \in Readable : appended[pos[i]].line = auditFile[i][1].line
            /\ \A i, j \in Readable : i < j => pos[i] < pos[j]
  BY <1>4 DEF LogInv, ReadInOrder
<1>6. /\ a' = a + (IF how \in {"none", "torn"} THEN 1 ELSE 0) /\ t' = t + (IF how \in {"torn"} THEN 1 ELSE 0)
      /\ u' = u + (IF how \in {"unterminated"} THEN 1 ELSE 0)
  BY <1>1, AppendedGrows
<1>7. n + Owing <= R + a + t + 2 * u
  BY DEF LogInv
<1>8. CASE how = "none"
  <2>1. UNCHANGED <<auditFile, newline>>
    BY <1>2, <1>8
  <2>2. Readable' = Readable /\ R' = R /\ Owing' = Owing /\ LastPiece' = LastPiece
    BY <2>1 DEF Readable, DecodeLine, Owing, LastPiece
  <2>3. LogType'
    BY <1>3, <2>1 DEF LogType
  <2>4. ReadInOrder'
    <3>1. pos \in [Readable -> 1 .. n + 1] /\ \A i \in Readable : appended'[pos[i]] = appended[pos[i]]
      BY <1>3, <1>4, <1>5
    <3>. QED BY <1>3, <1>5, <2>1, <2>2, <3>1 DEF ReadInOrder
  <2>5. n + 1 + Owing <= R + (a + 1) + t + 2 * u /\ a' = a + 1 /\ t' = t /\ u' = u
    <3>1. Owing \in Nat
      BY DEF Owing
    <3> HIDE DEF n, R, a, t, u
    <3>2. a' = a + 1 /\ t' = t /\ u' = u
      BY <1>4, <1>6, <1>8
    <3>3. n + 1 + Owing <= R + (a + 1) + t + 2 * u
      BY <1>4, <1>7, <3>1
    <3>. QED BY <3>2, <3>3
  <2>6. Len(appended') + Owing' <= R' + a' + t' + 2 * u'
    BY <1>3, <2>2, <2>5
  <2>7. Last(appended)'.how = "none"
    BY <1>1, <1>3, <1>8
  <2>. QED BY <2>1, <2>2, <2>3, <2>4, <2>6, <2>7 DEF LogInv
<1>9. CASE how # "none"
  <2>1. /\ how \in {"whole", "unterminated", "torn"} /\ p.how = how
        /\ auditFile' = WithPiece(p) /\ (newline' <=> how = "whole") /\ newline' \in BOOLEAN
    BY <1>1, <1>2, <1>9
  <2>2. /\ \E X : auditFile' \in Seq(Seq(X)) /\ \A i \in DOMAIN auditFile' : auditFile'[i] # <<>>
        /\ auditFile' # <<>> /\ LastPiece' = how
        /\ newline =>
             /\ Readable' = Readable \cup (IF how = "torn" THEN {} ELSE {k + 1})
             /\ auditFile'[k + 1][1] = p
             /\ \A i \in 1 .. k : auditFile'[i] = auditFile[i]
        /\ ~ newline =>
             /\ Readable' = Readable \ {k}
             /\ \A i \in 1 .. k - 1 : auditFile'[i] = auditFile[i]
             /\ LastPiece = "torn" => k \notin Readable
    BY <2>1, FileGrows
  <2>3. LogType'
    BY <1>3, <2>1, <2>2 DEF LogType
  <2>4. ~ newline' => auditFile' # <<>> /\ LastPiece' \in {"torn", "unterminated"}
    BY <2>1, <2>2
  <2>5. Last(appended)'.how \in {"torn", "unterminated"} => ~ newline' /\ LastPiece' = Last(appended)'.how
    BY <1>3, <2>1, <2>2
  <2>6. Owing' = IF how = "whole" THEN 0 ELSE IF how = "torn" THEN 1 ELSE 2
    BY <2>1, <2>2 DEF Owing
  <2>7. CASE newline
    <3>1. ReadInOrder'
      <4> DEFINE to == [i \in Readable' |-> IF i = k + 1 THEN n + 1 ELSE pos[i]]
      <4>1. \A i \in Readable' : i = k + 1 \/ (i \in Readable /\ i \in 1 .. k /\ i # k + 1)
        BY <1>4, <2>2, <2>7
      <4>2. to \in [Readable' -> 1 .. n + 1] /\ \A i \in Readable : i \in 1 .. k /\ pos[i] \in 1 .. n
        BY <1>4, <1>5, <4>1
      <4>3. ASSUME NEW i \in Readable' PROVE appended'[to[i]].line = auditFile'[i][1].line
        <5>1. CASE i = k + 1
          BY <1>3, <2>2, <2>7, <5>1
        <5>2. CASE i # k + 1
          BY <1>3, <1>5, <2>2, <2>7, <4>1, <4>2, <5>2
        <5>. QED BY <5>1, <5>2
      <4>4. ASSUME NEW i \in Readable', NEW j \in Readable', i < j PROVE to[i] < to[j]
        <5>1. i # k + 1 /\ i \in Readable
          BY <1>4, <4>1, <4>4
        <5>2. CASE j = k + 1
          BY <1>4, <4>2, <5>1, <5>2
        <5>3. CASE j # k + 1
          BY <1>5, <4>1, <4>4, <5>1, <5>3
        <5>. QED BY <5>2, <5>3
      <4> HIDE DEF to
      <4>. QED BY <1>3, <4>2, <4>3, <4>4 DEF ReadInOrder
    <3>2. R' = R + (IF how = "torn" THEN 0 ELSE 1)
      <4>1. k + 1 \notin Readable
        BY <1>4
      <4>2. CASE how = "torn"
        BY <1>4, <2>2, <2>7, <4>2
      <4>3. CASE how # "torn"
        BY <1>4, <2>2, <2>7, <4>1, <4>3, FS_AddElement
      <4>. QED BY <4>2, <4>3
    <3>3. n <= R + a + t + 2 * u
      BY <1>7, <1>4, <2>7 DEF Owing
    <3>4. n + 1 + Owing' <= R' + a' + t' + 2 * u'
      <4> HIDE DEF n, R, a, t, u
      <4>1. CASE how = "whole"
        BY <1>4, <1>6, <2>6, <3>2, <3>3, <4>1
      <4>2. CASE how = "torn"
        BY <1>4, <1>6, <2>6, <3>2, <3>3, <4>2
      <4>3. CASE how = "unterminated"
        BY <1>4, <1>6, <2>6, <3>2, <3>3, <4>3
      <4>. QED BY <2>1, <4>1, <4>2, <4>3
    <3>. QED BY <1>3, <2>3, <2>4, <2>5, <3>1, <3>4 DEF LogInv
  <2>8. CASE ~ newline
    <3>1. Readable' = Readable \ {k} /\ \A i \in Readable' : i \in Readable /\ i \in 1 .. k - 1
      <4>1. Readable' = Readable \ {k}
        BY <2>2, <2>8
      <4>2. \A i \in 1 .. k : i # k => i \in 1 .. k - 1
        BY <1>4
      <4>. QED BY <1>4, <4>1, <4>2
    <3>2. ReadInOrder'
      <4> DEFINE to == [i \in Readable' |-> pos[i]]
      <4>1. to \in [Readable' -> 1 .. n + 1] /\ \A i \in Readable' : to[i] = pos[i] /\ pos[i] \in 1 .. n
        <5>1. \A i \in Readable' : pos[i] \in 1 .. n /\ pos[i] \in 1 .. n + 1
          BY <1>4, <1>5, <3>1
        <5>. QED BY <5>1
      <4>2. ASSUME NEW i \in Readable' PROVE appended'[to[i]].line = auditFile'[i][1].line
        BY <1>3, <1>5, <2>2, <2>8, <3>1, <4>1
      <4>3. ASSUME NEW i \in Readable', NEW j \in Readable', i < j PROVE to[i] < to[j]
        BY <1>5, <3>1, <4>1, <4>3
      <4> HIDE DEF to
      <4>. QED BY <1>3, <4>1, <4>2, <4>3 DEF ReadInOrder
    <3>3. R' \in Nat /\ R' >= R - 1 /\ (LastPiece = "torn" => R' = R)
      <4>1. Cardinality(Readable \ {k}) = IF k \in Readable THEN R - 1 ELSE R
        BY <1>4, FS_RemoveElement
      <4>2. R' = IF k \in Readable THEN R - 1 ELSE R
        BY <3>1, <4>1
      <4>3. k \in Readable => R # 0
        BY <1>4, FS_EmptySet
      <4>. QED BY <1>4, <2>2, <2>8, <4>2, <4>3
    <3>4. LastPiece \in {"torn", "unterminated"} /\ Owing = IF LastPiece = "torn" THEN 1 ELSE 2
      BY <2>8 DEF LogInv, Owing
    <3> HIDE DEF n, a, t, u
    <3>5. n + 1 <= R' + a + t + 2 * u
      <4>1. CASE LastPiece = "torn"
        <5>1. Owing = 1 /\ R' = R
          BY <3>3, <3>4, <4>1
        <5>. QED BY <1>4, <1>7, <5>1
      <4>2. CASE LastPiece = "unterminated"
        <5>1. Owing = 2 /\ R' \in Nat /\ R' >= R - 1
          BY <3>3, <3>4, <4>2
        <5>. QED BY <1>4, <1>7, <5>1
      <4>. QED BY <3>4, <4>1, <4>2
    <3>6. n + 1 + Owing' <= R' + a' + t' + 2 * u'
      <4>1. R' \in Nat /\ n \in Nat /\ a \in Nat /\ t \in Nat /\ u \in Nat
        BY <1>4, <3>3
      <4>2. CASE how = "whole"
        <5>1. a' = a /\ t' = t /\ u' = u /\ Owing' = 0
          BY <1>4, <1>6, <2>6, <4>2
        <5>. QED BY <3>5, <4>1, <5>1
      <4>3. CASE how = "torn"
        <5>1. a' = a + 1 /\ t' = t + 1 /\ u' = u /\ Owing' = 1
          BY <1>4, <1>6, <2>6, <4>3
        <5>. QED BY <3>5, <4>1, <5>1
      <4>4. CASE how = "unterminated"
        <5>1. a' = a /\ t' = t /\ u' = u + 1 /\ Owing' = 2
          BY <1>4, <1>6, <2>6, <4>4
        <5>. QED BY <3>5, <4>1, <5>1
      <4>. QED BY <2>1, <4>2, <4>3, <4>4
    <3> USE DEF n, a, t, u
    <3>. QED BY <1>3, <2>3, <2>4, <2>5, <3>2, <3>6 DEF LogInv
  <2>. QED BY <1>1, <2>7, <2>8
<1>. QED BY Zenon, <1>8, <1>9

LEMMA LogKept ==
    ASSUME LogType, LogInv, UNCHANGED <<auditFile, newline, appended>>
    PROVE  LogType' /\ LogInv'
<1>1. LogType'
  BY DEF LogType
<1>2. Readable' = Readable /\ LastPiece' = LastPiece /\ Owing' = Owing
  BY DEF Readable, DecodeLine, LastPiece, Owing
<1>3. ReadInOrder'
  BY <1>2 DEF LogInv, ReadInOrder
<1>4. \A H : Ended(H, Len(appended))' = Ended(H, Len(appended))
  BY DEF Ended
<1>. QED BY <1>1, <1>2, <1>3, <1>4 DEF LogInv

LEMMA LogReadable ==
    ASSUME LogType, LogInv
    PROVE  AuditReadable
<1> DEFINE n == Len(appended)
           R == Cardinality(Readable)
           a == Cardinality(Ended({"none", "torn"}, n))
           t == Cardinality(Ended({"torn"}, n))
           u == Cardinality(Ended({"unterminated"}, n))
           tt == Cardinality(Ended({"torn"}, n - 1))
           uu == Cardinality(Ended({"unterminated"}, n - 1))
<1>1. n \in Nat /\ R \in Nat /\ a \in Nat /\ t \in Nat /\ u \in Nat /\ n + Owing <= R + a + t + 2 * u
  BY LogFacts DEF LogInv
<1>2. PICK X : appended \in Seq(X) /\ \A i \in DOMAIN appended : appended[i].how \in Outcomes
  BY DEF LogType
<1>3. CASE n = 0
  <2>1. 1 .. n = {} /\ 1 .. n - 1 = {}
    BY <1>3
  <2>2. a = 0 /\ t = 0 /\ u = 0 /\ tt = 0 /\ uu = 0
    BY <2>1, FS_EmptySet DEF Ended
  <2>3. Owing \in Nat
    BY DEF Owing
  <2>4. n - R <= a + tt + 2 * uu
    BY <1>1, <2>2, <2>3
  <2>. QED BY <2>4 DEF AuditReadable, LogInv
<1>4. CASE n # 0
  <2>1. n - 1 \in Nat /\ \A i : i \in 1 .. n <=> i = n \/ i \in 1 .. n - 1
    BY <1>1, <1>4
  <2>2. n \notin 1 .. n - 1 /\ appended[n].how \in Outcomes /\ appended # <<>>
    BY <1>1, <1>2, <1>4, LenProperties, EmptySeq
  <2>3. tt \in Nat /\ uu \in Nat
    BY <2>1, LogFacts
  <2>4. ASSUME NEW H PROVE /\ appended[n].how \in H => Cardinality(Ended(H, n)) = Cardinality(Ended(H, n - 1)) + 1
                           /\ appended[n].how \notin H => Cardinality(Ended(H, n)) = Cardinality(Ended(H, n - 1))
    <3> DEFINE E == Ended(H, n - 1)
    <3>1. IsFiniteSet(E) /\ n \notin E
      BY <2>1, <2>2, LogFacts DEF Ended
    <3>2. ASSUME appended[n].how \in H PROVE Ended(H, n) = E \cup {n}
      BY <2>1, <3>2 DEF Ended
    <3>3. ASSUME appended[n].how \notin H PROVE Ended(H, n) = E
      BY <2>1, <3>3 DEF Ended
    <3> HIDE DEF E
    <3>4. Cardinality(E \cup {n}) = Cardinality(E) + 1
      BY <3>1, FS_AddElement
    <3>. QED BY <3>2, <3>3, <3>4 DEF E
  <2>5. Last(appended) = appended[n]
    BY DEF Last
  <2>6. CASE appended[n].how = "torn"
    <3>1. Owing = 1
      BY <2>2, <2>5, <2>6 DEF LogInv, Owing
    <3>2. t = tt + 1 /\ u = uu
      BY <2>4, <2>6
    <3>3. n - R <= a + tt + 2 * uu
      <4> HIDE DEF n, R, a, t, u, tt, uu
      <4>. QED BY <1>1, <2>3, <3>1, <3>2
    <3>. QED BY <3>3 DEF AuditReadable, LogInv
  <2>7. CASE appended[n].how = "unterminated"
    <3>1. Owing = 2
      BY <2>2, <2>5, <2>7 DEF LogInv, Owing
    <3>2. t = tt /\ u = uu + 1
      BY <2>4, <2>7
    <3>3. n - R <= a + tt + 2 * uu
      <4> HIDE DEF n, R, a, t, u, tt, uu
      <4>. QED BY <1>1, <2>3, <3>1, <3>2
    <3>. QED BY <3>3 DEF AuditReadable, LogInv
  <2>8. CASE appended[n].how \in {"whole", "none"}
    <3>1. Owing \in Nat
      BY DEF Owing
    <3>2. t = tt /\ u = uu
      BY <2>4, <2>8
    <3>3. n - R <= a + tt + 2 * uu
      <4> HIDE DEF n, R, a, t, u, tt, uu
      <4>. QED BY <1>1, <2>3, <3>1, <3>2
    <3>. QED BY <3>3 DEF AuditReadable, LogInv
  <2>. QED BY <2>2, <2>6, <2>7, <2>8 DEF Outcomes
<1>. QED BY <1>3, <1>4

(* The steps on the reviews. *)

LEMMA NoReviewApart == NoReview \notin Review /\ \A r \in Review : r.state \in ReviewStates
<1>1. NoReview.state = "none" /\ "none" \notin ReviewStates
  BY DEF NoReview, ReviewStates, Terminal
<1>. QED BY <1>1 DEF Review

LEMMA CaptureTyped ==
    ASSUME ReviewType, NEW f \in FlowIds, ClassificationFor(f) # {}
    PROVE  Capture(f) \in Classes
<1>1. verdicts \in Seq(Verdict) /\ Len(verdicts) \in Nat /\ DOMAIN verdicts = 1 .. Len(verdicts)
  BY LenProperties DEF ReviewType
<1>2. ClassificationFor(f) \subseteq 1 .. Len(verdicts)
  BY <1>1 DEF ClassificationFor
<1>3. Max(ClassificationFor(f)) \in ClassificationFor(f)
  BY <1>1, <1>2, MaxIsLargest
<1>4. verdicts[Max(ClassificationFor(f))] \in Verdict
  BY <1>1, <1>2, <1>3, ElementOfSeq
<1>. QED BY <1>4 DEF Capture, Verdict

LEMMA SeqOfFunction ==
    ASSUME NEW S, NEW n \in Nat, NEW s \in [1 .. n -> S]
    PROVE  s \in Seq(S) /\ Len(s) = n
<1>1. s \in Seq(S)
  BY SeqDef
<1>2. DOMAIN s = 1 .. n /\ DOMAIN s = 1 .. Len(s) /\ Len(s) \in Nat
  BY <1>1, LenProperties
<1>. QED BY <1>1, <1>2

LEMMA JudgedFacts ==
    ASSUME NEW s \in Seq(Decision)
    PROVE  /\ Judged(s) \in Seq(Judgement) /\ Len(Judged(s)) = Len(s)
           /\ \A i \in 1 .. Len(s) : Judged(s)[i] = [state |-> s[i].state, label |-> s[i].label]
<1>1. Len(s) \in Nat /\ DOMAIN s = 1 .. Len(s) /\ \A i \in 1 .. Len(s) : s[i] \in Decision
  BY LenProperties, ElementOfSeq
<1>2. \A i \in 1 .. Len(s) : [state |-> s[i].state, label |-> s[i].label] \in Judgement
  BY <1>1 DEF Decision, Judgement
<1>3. Judged(s) \in [1 .. Len(s) -> Judgement]
  BY <1>1, <1>2 DEF Judged
<1>4. Judged(s) \in Seq(Judgement) /\ Len(Judged(s)) = Len(s)
  BY <1>1, <1>3, SeqOfFunction
<1>. QED BY <1>1, <1>4 DEF Judged

LEMMA JudgedAppend ==
    ASSUME NEW s \in Seq(Decision), NEW d \in Decision
    PROVE  Judged(Append(s, d)) = Append(Judged(s), [state |-> d.state, label |-> d.label])
<1> DEFINE n == Len(s)
           t == Append(s, d)
           j == [state |-> d.state, label |-> d.label]
<1>1. /\ n \in Nat /\ t \in Seq(Decision) /\ Len(t) = n + 1 /\ t[n + 1] = d
      /\ \A i \in 1 .. n : t[i] = s[i]
  BY LenProperties, AppendProperties
<1>2. j \in Judgement
  BY DEF Decision, Judgement
<1> HIDE DEF t, j
<1>3. /\ Judged(s) \in Seq(Judgement) /\ Len(Judged(s)) = n
      /\ \A i \in 1 .. n : Judged(s)[i] = [state |-> s[i].state, label |-> s[i].label]
  BY JudgedFacts
<1>4. /\ Judged(t) \in Seq(Judgement) /\ Len(Judged(t)) = n + 1
      /\ \A i \in 1 .. n + 1 : Judged(t)[i] = [state |-> t[i].state, label |-> t[i].label]
  BY <1>1, JudgedFacts
<1>5. /\ Append(Judged(s), j) \in Seq(Judgement) /\ Len(Append(Judged(s), j)) = n + 1
      /\ Append(Judged(s), j)[n + 1] = j /\ \A i \in 1 .. n : Append(Judged(s), j)[i] = Judged(s)[i]
  BY <1>2, <1>3, AppendProperties
<1>6. ASSUME NEW i \in 1 .. n + 1 PROVE Judged(t)[i] = Append(Judged(s), j)[i]
  <2>1. CASE i = n + 1
    BY <1>1, <1>4, <1>5, <2>1 DEF j
  <2>2. CASE i \in 1 .. n
    BY <1>1, <1>3, <1>4, <1>5, <2>2
  <2>3. i = n + 1 \/ i \in 1 .. n
    BY <1>1
  <2>. QED BY Zenon, <2>1, <2>2, <2>3
<1>7. Judged(t) = Append(Judged(s), j)
  BY <1>4, <1>5, <1>6, SeqEqual
<1>. QED BY <1>7 DEF t, j

LEMMA HistoryIsJudged ==
    ASSUME ReviewType, ReviewInv, NEW f \in FlowIds
    PROVE  HistoryOf(f) = Judged(decisions[f]) /\ decisions[f] \in Seq(Decision)
<1>1. decisions[f] \in Seq(Decision)
  BY DEF ReviewType
<1>2. CASE decisions[f] = <<>>
  <2>1. HistoryOf(f) = <<>>
    BY <1>2 DEF ReviewInv, HistoryOf
  <2>2. Judged(decisions[f]) \in Seq(Judgement) /\ Len(Judged(decisions[f])) = 0
    BY <1>1, <1>2, JudgedFacts, EmptySeq
  <2>3. Judged(decisions[f]) = <<>>
    BY <2>2, EmptySeq
  <2>. QED BY <1>1, <2>1, <2>3
<1>3. CASE decisions[f] # <<>>
  BY <1>1, <1>3 DEF ReviewInv
<1>. QED BY <1>2, <1>3

\* The decisions that were made stay.
Kept ==
    \A f \in FlowIds : \A i \in DOMAIN decisions[f] :
        i \in DOMAIN decisions'[f] /\ decisions'[f][i] = decisions[f][i]

LEMMA PutStep ==
    ASSUME ReviewType, ReviewInv, NEW o \in Operators, NEW f \in FlowIds, NEW s \in ReviewStates, NEW l \in Tags,
           Put(o, f, s, l)
    PROVE  ReviewType' /\ ReviewInv' /\ Kept
<1> DEFINE upd == Updated(f, s, l)
           pred == PredictionOf(f)
           old == decisions[f]
           d == [state |-> s, label |-> l, boot |-> boot, class |-> EffectiveLabel(upd), verdict |-> pred]
<1>1. /\ byFlow' = [byFlow EXCEPT ![f] = upd] /\ files' = [files EXCEPT ![f] = upd]
      /\ decisions' = [decisions EXCEPT ![f] = Append(old, d)]
      /\ UNCHANGED <<boot, verdicts, records>>
      /\ byFlow[f] # NoReview \/ ClassificationFor(f) # {}
  BY DEF Put, storeVars
<1>2. pred \in Classes
  <2>1. CASE byFlow[f] # NoReview
    BY <2>1 DEF ReviewType, PredictionOf, Review
  <2>2. CASE byFlow[f] = NoReview
    BY <1>1, <2>2, CaptureTyped DEF PredictionOf
  <2>. QED BY <2>1, <2>2
<1> HIDE DEF pred
<1>3. HistoryOf(f) = Judged(old) /\ old \in Seq(Decision) /\ Judged(old) \in Seq(Judgement)
  BY HistoryIsJudged, JudgedFacts
<1>4. upd = [state |-> s, label |-> l, pred |-> pred, history |-> Judged(old)]
  BY <1>3 DEF Updated, pred
<1> HIDE DEF upd
<1>5. /\ upd \in Review /\ upd # NoReview
      /\ upd.state = s /\ upd.label = l /\ upd.pred = pred /\ upd.history = Judged(old)
  <2>1. upd \in Review
    BY <1>2, <1>3, <1>4 DEF Review
  <2>. QED BY <1>4, <2>1, NoReviewApart
<1>6. EffectiveLabel(upd) \in Tags
  BY <1>2, <1>5 DEF EffectiveLabel, Tags
<1>7. d \in Decision /\ d.state = s /\ d.label = l /\ d.class = EffectiveLabel(upd) /\ d.verdict = pred
  BY <1>2, <1>6 DEF Decision, ReviewType
<1> HIDE DEF d
<1>8. /\ Append(old, d) \in Seq(Decision) /\ Append(old, d) # <<>> /\ Len(Append(old, d)) = Len(old) + 1
      /\ Append(old, d)[Len(old) + 1] = d /\ \A i \in 1 .. Len(old) : Append(old, d)[i] = old[i]
  BY <1>3, <1>7, AppendProperties
<1>9. /\ Len(old) \in Nat /\ DOMAIN old = 1 .. Len(old) /\ DOMAIN Append(old, d) = 1 .. Len(old) + 1
  BY <1>3, <1>8, LenProperties
<1>10. /\ byFlow'[f] = upd /\ decisions'[f] = Append(old, d)
       /\ \A g \in FlowIds : g # f => byFlow'[g] = byFlow[g] /\ decisions'[g] = decisions[g]
  BY <1>1 DEF ReviewType
<1>11. ReviewType'
  <2>1. byFlow' \in [FlowIds -> Review \cup {NoReview}] /\ files' = byFlow'
    BY <1>1, <1>5 DEF ReviewType
  <2>2. decisions' \in [FlowIds -> Seq(Decision)]
    BY <1>1, <1>8 DEF ReviewType
  <2>. QED BY <1>1, <2>1, <2>2 DEF ReviewType
<1>12. Kept
  <2>1. \A i \in DOMAIN old : i \in DOMAIN Append(old, d) /\ Append(old, d)[i] = old[i]
    BY <1>8, <1>9
  <2>. QED BY <1>10, <2>1 DEF Kept
<1>13. ReviewInv'
  <2>1. ASSUME NEW g \in FlowIds, g # f
        PROVE  IF decisions'[g] = <<>> THEN byFlow'[g] = NoReview
               ELSE /\ byFlow'[g] # NoReview
                    /\ HistoryOf(g)' = Judged(decisions'[g])
                    /\ byFlow'[g].pred = decisions'[g][1].verdict
                    /\ Last(decisions'[g]).class = EffectiveLabel(byFlow'[g])
    <3>1. byFlow'[g] = byFlow[g] /\ decisions'[g] = decisions[g] /\ HistoryOf(g)' = HistoryOf(g)
      BY <1>10, <2>1 DEF HistoryOf
    <3>. QED BY <3>1 DEF ReviewInv
  <2>2. HistoryOf(f)' = Judged(decisions'[f])
    <3>1. HistoryOf(f)' = Append(Judged(old), [state |-> s, label |-> l])
      BY <1>5, <1>10 DEF HistoryOf
    <3>2. Judged(Append(old, d)) = Append(Judged(old), [state |-> d.state, label |-> d.label])
      BY <1>3, <1>7, JudgedAppend
    <3>. QED BY <1>7, <1>10, <3>1, <3>2
  <2>3. upd.pred = Append(old, d)[1].verdict
    <3>1. CASE old = <<>>
      <4>1. Append(old, d)[1] = d
        BY <1>8, <3>1, EmptySeq
      <4>. QED BY <1>5, <1>7, <4>1
    <3>2. CASE old # <<>>
      <4>1. Len(old) # 0
        BY <1>3, <3>2, EmptySeq
      <4>2. 1 \in 1 .. Len(old)
        BY <1>9, <4>1
      <4>3. byFlow[f] # NoReview /\ byFlow[f].pred = old[1].verdict
        BY <3>2 DEF ReviewInv
      <4>4. pred = byFlow[f].pred
        BY <4>3 DEF pred, PredictionOf
      <4>. QED BY <1>5, <1>8, <4>2, <4>3, <4>4
    <3>. QED BY <3>1, <3>2
  <2>4. Last(Append(old, d)).class = EffectiveLabel(upd)
    BY <1>7, <1>8 DEF Last
  <2>. QED BY <1>5, <1>8, <1>10, <2>1, <2>2, <2>3, <2>4 DEF ReviewInv
<1>. QED BY <1>11, <1>12, <1>13

LEMMA ClassifyStep ==
    ASSUME ReviewType, ReviewInv, NEW f \in FlowIds, NEW c \in Classes, Classify(f, c) \/ EvictRecord(f)
    PROVE  ReviewType' /\ ReviewInv' /\ Kept
<1>1. UNCHANGED <<boot, byFlow, files, decisions>> /\ records' \subseteq FlowIds
  BY DEF Classify, EvictRecord, reviewVars, ReviewType
<1>2. verdicts' \in Seq(Verdict)
  <2> DEFINE v == [flow |-> f, class |-> c]
             all == Append(verdicts, v)
             from == Max({1, Len(all) - RingSize + 1})
  <2>1. CASE Classify(f, c)
    <3>1. verdicts \in Seq(Verdict) /\ v \in Verdict
      BY DEF ReviewType, Verdict
    <3>2. all \in Seq(Verdict) /\ Len(all) \in Nat
      BY <3>1, AppendProperties, LenProperties
    <3>3. verdicts' = SubSeq(all, from, Len(all))
      BY <2>1 DEF Classify
    <3> HIDE DEF all
    <3>4. from \in Int /\ from >= 1
      <4>1. Len(all) - RingSize + 1 \in Int
        BY <3>2, ReviewAssumption
      <4>. QED BY <4>1, MaxOfTwo
    <3> HIDE DEF from
    <3>5. \A i \in from .. Len(all) : all[i] \in Verdict
      <4>1. \A i \in from .. Len(all) : i \in 1 .. Len(all)
        BY <3>2, <3>4
      <4>. QED BY <3>2, <4>1, ElementOfSeq
    <3>. QED BY <3>2, <3>3, <3>4, <3>5, SubSeqProperties
  <2>2. CASE EvictRecord(f)
    BY <2>2 DEF EvictRecord, ReviewType
  <2>. QED BY <2>1, <2>2
<1>3. ReviewType'
  BY <1>1, <1>2 DEF ReviewType
<1>4. ReviewInv'
  BY <1>1 DEF ReviewInv, HistoryOf
<1>. QED BY <1>1, <1>3, <1>4 DEF Kept

LEMMA ReviewRestartStep ==
    ASSUME ReviewType, ReviewInv, ReviewRestart
    PROVE  ReviewType' /\ ReviewInv' /\ Kept
<1>1. byFlow' = byFlow /\ UNCHANGED <<files, decisions>> /\ verdicts' = <<>> /\ records' = {} /\ boot' = boot + 1
  BY DEF ReviewRestart, ReviewType
<1>2. ReviewType'
  <2>1. <<>> \in Seq(Verdict)
    BY EmptySeq
  <2>. QED BY <1>1, <2>1 DEF ReviewType
<1>3. ReviewInv'
  BY <1>1 DEF ReviewInv, HistoryOf
<1>. QED BY <1>1, <1>2, <1>3 DEF Kept

LEMMA ReviewKept ==
    ASSUME ReviewType, ReviewInv, UNCHANGED <<storeVars, reviewVars>>
    PROVE  ReviewType' /\ ReviewInv' /\ Kept
<1>1. UNCHANGED <<boot, verdicts, records, byFlow, files, decisions>>
  BY DEF storeVars, reviewVars
<1>2. ReviewType'
  BY <1>1 DEF ReviewType
<1>3. ReviewInv'
  BY <1>1 DEF ReviewInv, HistoryOf
<1>. QED BY <1>1, <1>2, <1>3 DEF Kept

LEMMA ReviewsTrail ==
    ASSUME ReviewType, ReviewInv
    PROVE  ReviewTrail
<1> SUFFICES ASSUME NEW f \in FlowIds
             PROVE  IF decisions[f] = <<>> THEN byFlow[f] = NoReview
                    ELSE /\ HistoryOf(f) = Judged(decisions[f])
                         /\ byFlow[f].pred = decisions[f][1].verdict
                         /\ Last(decisions[f]).class # NoLabel => f \notin {q.flow : q \in Queue}
  BY DEF ReviewTrail, Judged
<1>1. ASSUME decisions[f] # <<>>, Last(decisions[f]).class # NoLabel
      PROVE  f \notin {q.flow : q \in Queue}
  <2>1. byFlow[f] # NoReview /\ EffectiveLabel(byFlow[f]) # NoLabel
    BY <1>1 DEF ReviewInv
  <2>2. byFlow[f].state \in {"correct", "incorrect"}
    BY <2>1 DEF EffectiveLabel
  <2>3. StateOf(f) \in Terminal
    BY <2>1, <2>2 DEF StateOf, Terminal
  <2>4. ASSUME NEW q \in Queue PROVE q.flow # f
    <3>1. PICK g \in FlowIds : StateOf(g) \notin Terminal /\ q = [flow |-> g, class |-> Capture(g), state |-> StateOf(g)]
      BY <2>4 DEF Queue
    <3>2. q.flow = g
      BY <3>1
    <3>. QED BY <2>3, <3>1, <3>2
  <2>. QED BY <2>4
<1>. QED BY <1>1 DEF ReviewInv

(* The rows and the versions cut from them. *)

LEMMA VouchedKept ==
    ASSUME ReviewType, Kept, NEW rows, Vouched(decisions, rows)
    PROVE  Vouched(decisions', rows)
<1> SUFFICES ASSUME NEW r \in rows
             PROVE  /\ r.flow \in FlowIds
                    /\ r.human => \E j \in DOMAIN decisions'[r.flow] : decisions'[r.flow][j].class = r.label
  BY DEF Vouched
<1>1. r.flow \in FlowIds
  BY DEF Vouched
<1>2. ASSUME r.human PROVE \E j \in DOMAIN decisions'[r.flow] : decisions'[r.flow][j].class = r.label
  <2>1. PICK j \in DOMAIN decisions[r.flow] : decisions[r.flow][j].class = r.label
    BY <1>2 DEF Vouched
  <2>2. j \in DOMAIN decisions'[r.flow] /\ decisions'[r.flow][j] = decisions[r.flow][j]
    BY <1>1, <2>1, Zenon DEF Kept
  <2>. QED BY <2>1, <2>2
<1>. QED BY <1>1, <1>2

\* What a selection produces is vouched for when it is built.
LEMMA BuiltIsVouched ==
    ASSUME ReviewType, ReviewInv, NEW sel
    PROVE  Vouched(decisions, Build(sel))
<1>1. Vouched(decisions, BuildModel)
  <2> SUFFICES ASSUME NEW r \in BuildModel PROVE r.flow \in FlowIds /\ ~ r.human
    BY DEF Vouched
  <2>1. PICK f \in records : r = Row(f, Capture(f), FALSE)
    BY DEF BuildModel
  <2>2. r.flow = f /\ r.human = FALSE
    BY <2>1 DEF Row
  <2>. QED BY <2>1, <2>2 DEF ReviewType
<1>2. ASSUME NEW ignored PROVE Vouched(decisions, BuildReviewed(ignored))
  <2> SUFFICES ASSUME NEW r \in BuildReviewed(ignored)
               PROVE  /\ r.flow \in FlowIds
                      /\ r.human => \E j \in DOMAIN decisions[r.flow] : decisions[r.flow][j].class = r.label
    BY DEF Vouched
  <2> DEFINE Label(x) == IF EffectiveLabel(x) # NoLabel THEN EffectiveLabel(x) ELSE x.pred
  <2>1. PICK f \in records : /\ byFlow[f] # NoReview
                             /\ r = Row(f, Label(byFlow[f]), HumanLabel(byFlow[f]))
    BY Zenon DEF BuildReviewed
  <2> HIDE DEF Label
  <2>2. r.flow = f /\ r.label = Label(byFlow[f]) /\ r.human = HumanLabel(byFlow[f]) /\ f \in FlowIds
    BY <2>1 DEF Row, ReviewType
  <2>3. ASSUME HumanLabel(byFlow[f])
        PROVE  \E j \in DOMAIN decisions[f] : decisions[f][j].class = Label(byFlow[f])
    <3>1. Label(byFlow[f]) = EffectiveLabel(byFlow[f])
      BY <2>3 DEF HumanLabel, Label
    <3>2. decisions[f] # <<>> /\ Last(decisions[f]).class = EffectiveLabel(byFlow[f])
      BY <2>1, <2>2 DEF ReviewInv
    <3>3. decisions[f] \in Seq(Decision)
      BY <2>2 DEF ReviewType
    <3>4. Len(decisions[f]) \in DOMAIN decisions[f]
      BY <3>2, <3>3, EmptySeq, LenProperties
    <3>. QED BY <3>1, <3>2, <3>4 DEF Last
  <2>. QED BY <2>2, <2>3, Zenon
<1>. QED BY <1>1, <1>2, Zenon DEF Build

LEMMA RowsKept ==
    ASSUME ReviewType, Kept, RowsInv, cuts' = cuts, \A o \in Operators : cutting'[o] \in {cutting[o], NoCut}
    PROVE  RowsInv'
<1>1. \A o \in Operators : cutting'[o] # NoCut => Vouched(decisions', cutting'[o].rows)
  <2> SUFFICES ASSUME NEW o \in Operators, cutting'[o] # NoCut PROVE Vouched(decisions', cutting[o].rows)
    OBVIOUS
  <2>1. Vouched(decisions, cutting[o].rows)
    BY DEF RowsInv
  <2>. QED BY <2>1, VouchedKept
<1>2. \A i \in DOMAIN cuts : Vouched(decisions', cuts[i].rows) /\ cuts[i].source = LabelingSource(cuts[i].rows)
  <2> SUFFICES ASSUME NEW i \in DOMAIN cuts
               PROVE  Vouched(decisions', cuts[i].rows) /\ cuts[i].source = LabelingSource(cuts[i].rows)
    OBVIOUS
  <2>1. Vouched(decisions, cuts[i].rows) /\ cuts[i].source = LabelingSource(cuts[i].rows)
    BY DEF RowsInv
  <2>. QED BY <2>1, VouchedKept
<1>. QED BY <1>1, <1>2 DEF RowsInv

LEMMA CutStep ==
    ASSUME ReviewType, ReviewInv, RowsInv, VersionsInv, NEW o \in Operators, NEW sel, NEW parent, Cut(o, sel, parent)
    PROVE  RowsInv' /\ VersionsInv'
<1> DEFINE c == [sel |-> sel, rows |-> Build(sel), parents |-> Parents(parent)]
<1>1. /\ cutting' = [cutting EXCEPT ![o] = c] /\ UNCHANGED <<index, dirs, asked, cuts, decisions>>
  BY DEF Cut, reviewVars
<1>2. c.rows = Build(sel)
  OBVIOUS
<1> HIDE DEF c
<1>3. /\ cutting' = [p \in Operators |-> cutting'[p]] /\ cutting'[o] = c
      /\ \A p \in Operators : p # o => cutting'[p] = cutting[p]
  BY <1>1, Zenon DEF VersionsInv
<1>4. Vouched(decisions, c.rows)
  BY <1>2, BuiltIsVouched
<1>5. RowsInv'
  BY <1>1, <1>3, <1>4 DEF RowsInv
<1>6. VersionsInv'
  BY <1>1, <1>3 DEF VersionsInv
<1>. QED BY <1>5, <1>6

\* The version that is put in place was free, in the index and on the disk.
LEMMA InstallStep ==
    ASSUME ReviewType, RowsInv, VersionsInv, NEW o \in Operators, NEW v, Install(o, v)
    PROVE  RowsInv' /\ VersionsInv'
<1> DEFINE m == Manifest(o, v)
           n == Len(cuts)
<1>1. /\ cutting[o] # NoCut /\ v \in Versions /\ ~ Taken(v)
      /\ dirs' = With(dirs, v, Complete(m)) /\ index' = With(index, v, m)
      /\ cuts' = Append(cuts, m) /\ cutting' = [cutting EXCEPT ![o] = NoCut]
      /\ asked' = asked \ {v} /\ decisions' = decisions
  BY DEF Install, reviewVars
<1>2. m.version = v /\ m.rows = cutting[o].rows /\ m.source = LabelingSource(m.rows)
  BY DEF Manifest
<1> HIDE DEF m
<1>3. PICK X : cuts \in Seq(X)
  BY DEF VersionsInv
<1>4. cuts \in Seq(X \cup {m})
  BY <1>3, SeqMonotonic
<1>5. /\ cuts' \in Seq(X \cup {m}) /\ Len(cuts') = n + 1 /\ cuts'[n + 1] = m
      /\ \A i \in 1 .. n : cuts'[i] = cuts[i]
  BY <1>1, <1>4, AppendProperties
<1>6. n \in Nat /\ DOMAIN cuts = 1 .. n /\ DOMAIN cuts' = 1 .. n + 1
      /\ \A i \in 1 .. n + 1 : i = n + 1 \/ i \in 1 .. n
  BY <1>3, <1>5, LenProperties
<1>7. /\ cutting' = [p \in Operators |-> cutting'[p]] /\ cutting'[o] = NoCut
      /\ \A p \in Operators : p # o => cutting'[p] = cutting[p]
  BY <1>1, Zenon DEF VersionsInv
<1>8. RowsInv'
  <2>1. ASSUME NEW i \in 1 .. n + 1
        PROVE  Vouched(decisions, cuts'[i].rows) /\ cuts'[i].source = LabelingSource(cuts'[i].rows)
    <3>1. CASE i = n + 1
      BY <1>1, <1>2, <1>5, <3>1 DEF RowsInv
    <3>2. CASE i \in 1 .. n
      BY <1>5, <1>6, <3>2 DEF RowsInv
    <3>. QED BY <1>6, <3>1, <3>2
  <2>2. \A p \in Operators : cutting'[p] # NoCut => Vouched(decisions, cutting'[p].rows)
    BY <1>7 DEF RowsInv
  <2>. QED BY <1>1, <1>6, <2>1, <2>2 DEF RowsInv
<1>9. /\ DOMAIN index' = DOMAIN index \cup {v} /\ index'[v] = m /\ DOMAIN dirs' = DOMAIN dirs \cup {v}
      /\ dirs'[v] = Complete(m) /\ v \notin DOMAIN index /\ v \notin DOMAIN dirs
      /\ \A w \in DOMAIN index : index'[w] = index[w]
      /\ \A w \in DOMAIN dirs : dirs'[w] = dirs[w]
  BY <1>1 DEF With, Taken
<1>10. VersionsInv'
  <2>1. ASSUME NEW w \in DOMAIN dirs' \ asked' PROVE w \in DOMAIN index' /\ dirs'[w] = Complete(index'[w])
    <3>1. CASE w = v
      BY <1>9, <3>1
    <3>2. CASE w # v
      <4>1. w \in DOMAIN dirs \ asked
        BY <1>1, <1>9, <3>2
      <4>2. w \in DOMAIN index /\ dirs[w] = Complete(index[w])
        BY <4>1 DEF VersionsInv
      <4>. QED BY <1>9, <4>1, <4>2
    <3>. QED BY <3>1, <3>2
  <2>2. ASSUME NEW i \in 1 .. n + 1, cuts'[i].version \notin asked'
        PROVE  /\ cuts'[i].version \in DOMAIN index' /\ cuts'[i].version \in DOMAIN dirs'
               /\ \E j \in i .. n + 1 : cuts'[j] = index'[cuts'[i].version]
    <3>1. CASE cuts'[i].version = v
      <4>1. n + 1 \in i .. n + 1
        BY <1>6
      <4>. QED BY <1>5, <1>9, <3>1, <4>1
    <3>2. CASE cuts'[i].version # v
      <4>1. i \in 1 .. n
        BY <1>2, <1>5, <1>6, <3>2
      <4>2. cuts'[i] = cuts[i] /\ cuts[i].version \notin asked
        BY <1>1, <1>5, <2>2, <3>2, <4>1
      <4>3. PICK j \in i .. n : cuts[j] = index[cuts[i].version]
        BY <1>6, <4>1, <4>2 DEF VersionsInv
      <4>4. cuts[i].version \in DOMAIN index /\ cuts[i].version \in DOMAIN dirs
        BY <1>6, <4>1, <4>2 DEF VersionsInv
      <4>5. j \in 1 .. n /\ j \in i .. n + 1
        BY <1>6, <4>1
      <4>6. cuts'[j] = index'[cuts[i].version]
        BY <1>5, <1>9, <4>3, <4>4, <4>5
      <4>. QED BY <1>9, <4>2, <4>4, <4>5, <4>6
    <3>. QED BY <3>1, <3>2
  <2>3. DOMAIN index' \subseteq Versions /\ DOMAIN dirs' \subseteq Versions
    BY <1>1, <1>9 DEF VersionsInv
  <2>. QED BY <1>5, <1>6, <1>7, <2>1, <2>2, <2>3 DEF VersionsInv
<1>. QED BY <1>8, <1>10

LEMMA DeleteStep ==
    ASSUME ReviewType, RowsInv, VersionsInv, NEW o, NEW v,
           Delete(o, v) \/ \E left \in SUBSET FilesOf(v) : DeleteFails(v, left)
    PROVE  RowsInv' /\ VersionsInv'
<1>1. UNCHANGED <<decisions, cutting, cuts>> /\ asked' = asked \cup {v} /\ v \in DOMAIN index
  BY DEF Delete, DeleteFails, reviewVars
<1>2. /\ DOMAIN index' \subseteq DOMAIN index /\ DOMAIN dirs' \subseteq DOMAIN dirs \cup {v}
      /\ \A w \in DOMAIN index : w # v => w \in DOMAIN index' /\ index'[w] = index[w]
      /\ \A w \in DOMAIN dirs : w # v => w \in DOMAIN dirs' /\ dirs'[w] = dirs[w]
  <2>1. CASE Delete(o, v)
    BY <2>1 DEF Delete, Without
  <2>2. CASE \E left \in SUBSET FilesOf(v) : DeleteFails(v, left)
    <3>1. PICK left : DeleteFails(v, left)
      BY <2>2
    <3>. QED BY <3>1 DEF DeleteFails, With
  <2>. QED BY <2>1, <2>2
<1>3. RowsInv'
  BY <1>1 DEF RowsInv
<1>4. DOMAIN index' \subseteq Versions /\ DOMAIN dirs' \subseteq Versions
  BY <1>1, <1>2 DEF VersionsInv
<1>5. ASSUME NEW w \in DOMAIN dirs' \ asked' PROVE w \in DOMAIN index' /\ dirs'[w] = Complete(index'[w])
  <2>1. w # v /\ w \in DOMAIN dirs \ asked
    BY <1>1, <1>2
  <2>2. w \in DOMAIN index /\ dirs[w] = Complete(index[w])
    BY <2>1 DEF VersionsInv
  <2>. QED BY <1>2, <2>1, <2>2
<1>6. ASSUME NEW i \in DOMAIN cuts, cuts[i].version \notin asked'
      PROVE  /\ cuts[i].version \in DOMAIN index' /\ cuts[i].version \in DOMAIN dirs'
             /\ \E j \in i .. Len(cuts) : cuts[j] = index'[cuts[i].version]
  <2>1. cuts[i].version \notin asked /\ cuts[i].version # v
    BY <1>1, <1>6
  <2>2. /\ cuts[i].version \in DOMAIN index /\ cuts[i].version \in DOMAIN dirs
        /\ \E j \in i .. Len(cuts) : cuts[j] = index[cuts[i].version]
    BY <2>1 DEF VersionsInv
  <2>. QED BY <1>2, <2>1, <2>2
<1>7. VersionsInv'
  BY <1>1, <1>4, <1>5, <1>6 DEF VersionsInv
<1>. QED BY <1>3, <1>7

\* What a directory says of itself.
LEMMA ManifestOfComplete == \A m : ManifestIn(Complete(m)) = m /\ \E x \in Complete(m) : x.file = "manifest.json"
<1> SUFFICES ASSUME NEW m PROVE ManifestIn(Complete(m)) = m /\ \E x \in Complete(m) : x.file = "manifest.json"
  OBVIOUS
<1>1. \E x \in Complete(m) : x.file = "manifest.json"
  <2>1. [file |-> "manifest.json", of |-> m] \in Complete(m)
    BY Zenon DEF Complete
  <2>2. [file |-> "manifest.json", of |-> m].file = "manifest.json"
    BY Zenon
  <2>. QED BY <2>1, <2>2, Zenon
<1>2. (CHOOSE x \in Complete(m) : x.file = "manifest.json") \in Complete(m)
  BY <1>1, Zenon
<1>3. \A x \in Complete(m) : x.of = m
  BY DEF Complete
<1>. QED BY <1>1, <1>2, <1>3, Zenon DEF ManifestIn

LEMMA DatasetRestartStep ==
    ASSUME ReviewType, Kept, RowsInv, VersionsInv, DatasetRestart
    PROVE  RowsInv' /\ VersionsInv'
<1>1. /\ index' = [v \in Readable_(dirs) |-> ManifestIn(dirs[v])]
      /\ cutting' = [o \in Operators |-> NoCut] /\ UNCHANGED <<dirs, asked, cuts>>
  BY DEF DatasetRestart
<1>2. RowsInv'
  BY <1>1, RowsKept
<1>3. DOMAIN index' \subseteq DOMAIN dirs
  BY <1>1, Zenon DEF Readable_
<1>4. ASSUME NEW w \in DOMAIN dirs \ asked PROVE w \in DOMAIN index /\ w \in DOMAIN index' /\ index'[w] = index[w]
  <2>1. w \in DOMAIN index /\ dirs[w] = Complete(index[w])
    BY DEF VersionsInv
  <2>2. ManifestIn(dirs[w]) = index[w] /\ w \in Readable_(dirs)
    BY <2>1, ManifestOfComplete, Zenon DEF Readable_
  <2>. QED BY <1>1, <2>1, <2>2
<1>5. ASSUME NEW w \in DOMAIN dirs \ asked PROVE dirs[w] = Complete(index'[w])
  BY <1>4 DEF VersionsInv
<1>6. ASSUME NEW i \in DOMAIN cuts, cuts[i].version \notin asked
      PROVE  /\ cuts[i].version \in DOMAIN index' /\ cuts[i].version \in DOMAIN dirs
             /\ \E j \in i .. Len(cuts) : cuts[j] = index'[cuts[i].version]
  <2>1. /\ cuts[i].version \in DOMAIN dirs
        /\ \E j \in i .. Len(cuts) : cuts[j] = index[cuts[i].version]
    BY <1>6 DEF VersionsInv
  <2>. QED BY <1>4, <1>6, <2>1
<1>7. VersionsInv'
  BY <1>1, <1>3, <1>4, <1>5, <1>6 DEF VersionsInv
<1>. QED BY <1>2, <1>7

LEMMA VersionsKept ==
    ASSUME VersionsInv, UNCHANGED <<index, dirs, asked, cuts>>, cutting' = [o \in Operators |-> cutting'[o]]
    PROVE  VersionsInv'
BY DEF VersionsInv

LEMMA WorkStands ==
    ASSUME RowsInv, VersionsInv
    PROVE  OperatorWorkStands
<1>1. ASSUME NEW i \in DOMAIN cuts, cuts[i].source = "human_review", NEW r \in cuts[i].rows
      PROVE  \E j \in DOMAIN decisions[r.flow] : decisions[r.flow][j].class = r.label
  <2>1. LabelingSource(cuts[i].rows) = "human_review"
    BY <1>1, Zenon DEF RowsInv
  <2>2. r.human
    BY <1>1, <2>1, Zenon DEF LabelingSource
  <2>3. Vouched(decisions, cuts[i].rows)
    BY DEF RowsInv
  <2>. QED BY <2>2, <2>3 DEF Vouched
<1>2. HumanReviewIsHuman
  BY <1>1, Zenon DEF HumanReviewIsHuman
<1>3. ASSUME NEW i \in DOMAIN cuts, cuts[i].version \notin asked
      PROVE  LET v == cuts[i].version
             IN  /\ v \in DOMAIN index /\ v \in DOMAIN dirs
                 /\ dirs[v] = Complete(index[v])
                 /\ \E j \in i .. Len(cuts) : cuts[j] = index[v]
  BY <1>3 DEF VersionsInv
<1>4. ASSUME NextVersion \in DOMAIN dirs, NextVersion \notin asked PROVE FALSE
  <2>1. NextVersion \in DOMAIN index
    BY <1>4 DEF VersionsInv
  <2>2. NextVersion = Max(DOMAIN index) + 1
    BY <2>1 DEF NextVersion
  <2>3. DOMAIN index \subseteq Nat /\ \A w \in DOMAIN index : w <= MaxVersion
    BY DEF VersionsInv, Versions
  <2>4. Max(DOMAIN index) \in DOMAIN index /\ \A w \in DOMAIN index : w <= Max(DOMAIN index)
    BY <2>1, <2>3, DatasetAssumption, MaxIsLargest
  <2>. QED BY <2>1, <2>2, <2>3, <2>4
<1>5. OnlyDeletesDamage
  BY <1>3, <1>4, Zenon DEF OnlyDeletesDamage
<1>. QED BY <1>2, <1>5 DEF OperatorWorkStands

(* The steps on the training runs. *)

LEMMA NoRunApart == \A run \in Run_ : run # NoRun
<1> SUFFICES ASSUME NEW run \in Run_ PROVE run # NoRun
  OBVIOUS
<1>1. run.status \in Statuses /\ NoRun.status = "none" /\ "none" \notin Statuses
  BY DEF Run_, NoRun, Statuses
<1>. QED BY <1>1

LEMMA ToldAtStart ==
    ASSUME NEW t \in Nat
    PROVE  Told([status |-> "running", epoch |-> 0, history |-> <<>>, updated |-> t], <<>>, 0)
<1> DEFINE run == [status |-> "running", epoch |-> 0, history |-> <<>>, updated |-> t]
<1>1. run.status = "running" /\ run.epoch = 0 /\ run.history = <<>>
  OBVIOUS
<1> HIDE DEF run
<1>2. Len(run.history) = 0 /\ 1 .. 0 = {} /\ 1 .. Len(run.history) = {}
  BY <1>1
<1>3. Told(run, <<>>, 0)
  BY <1>1, <1>2, TrainingAssumption DEF Told
<1>. QED BY <1>3 DEF run

LEMMA NumbersFrom ==
    ASSUME NEW s, NEW lo \in Int, NEW hi \in Int, lo <= hi, \A i \in lo .. hi : s[i] \in Nat
    PROVE  /\ SubSeq(s, lo, hi) \in Seq(Nat) /\ Len(SubSeq(s, lo, hi)) = hi - lo + 1
           /\ \A i \in 1 .. hi - lo + 1 : SubSeq(s, lo, hi)[i] = s[lo + i - 1]
BY SubSeqProperties

\* One more progress report.
LEMMA ToldMore ==
    ASSUME NEW run \in Run_, NEW said \in Seq(Report), NEW n \in Nat, Told(run, said, n),
           run.status = "running", NEW e \in Nat, NEW t \in Nat, NEW top, top = IF e > 0 THEN e ELSE run.epoch,
           NEW upd, upd = [run EXCEPT !.history = Capped(Append(run.history, e)), !.updated = t, !.epoch = top]
    PROVE  upd \in Run_ /\ Told(upd, Append(said, [epoch |-> e, status |-> "running"]), n + 1)
<1> DEFINE h == run.history
           k == Len(h)
           a == Append(h, e)
           d == [epoch |-> e, status |-> "running"]
           more == Append(said, d)
           cap == HistoryCap
<1>1. cap \in Nat \ {0} /\ n = Len(said) /\ h \in Seq(Nat) /\ run.epoch \in Nat
  BY TrainingAssumption DEF Told, Run_
<1>2. k \in Nat /\ k = IF n < cap THEN n ELSE cap
  BY <1>1, LenProperties DEF Told
<1>3. a \in Seq(Nat) /\ Len(a) = k + 1 /\ a[k + 1] = e /\ \A i \in 1 .. k : a[i] = h[i]
  BY <1>1, AppendProperties
<1>4. d \in Report /\ d.epoch = e /\ d.status = "running"
  BY DEF Report, Statuses
<1> HIDE DEF d
<1>5. more \in Seq(Report) /\ Len(more) = n + 1 /\ more[n + 1] = d /\ \A i \in 1 .. n : more[i] = said[i]
  BY <1>1, <1>4, AppendProperties
<1>6. /\ upd.status = "running" /\ upd.history = Capped(a) /\ upd.updated = t
      /\ upd.epoch = IF e > 0 THEN e ELSE run.epoch
      /\ upd = [status |-> upd.status, epoch |-> upd.epoch, history |-> upd.history, updated |-> upd.updated]
  BY DEF Run_
<1> HIDE DEF a, more
<1>7. /\ Capped(a) \in Seq(Nat) /\ Len(Capped(a)) = IF n + 1 < cap THEN n + 1 ELSE cap
      /\ \A i \in 1 .. Len(Capped(a)) : Capped(a)[i] = more[n + 1 - Len(Capped(a)) + i].epoch
  <2>1. \A i \in 1 .. k : h[i] = said[n - k + i].epoch
    BY DEF Told
  <2>2. \A i \in 1 .. k : n - k + i \in 1 .. n
    BY <1>1, <1>2
  <2>3. ASSUME NEW i \in 1 .. k + 1 PROVE a[i] = more[n - k + i].epoch
    <3>1. CASE i = k + 1
      <4>1. n - k + i = n + 1
        BY <1>2, <3>1
      <4>. QED BY <1>3, <1>4, <1>5, <3>1, <4>1
    <3>2. CASE i \in 1 .. k
      BY <1>3, <1>5, <2>1, <2>2, <3>2
    <3>3. i = k + 1 \/ i \in 1 .. k
      BY <1>2
    <3>. QED BY Zenon, <3>1, <3>2, <3>3
  <2>4. CASE n < cap
    <3>1. k = n /\ Capped(a) = a /\ Len(a) = n + 1
      BY <1>1, <1>2, <1>3, <2>4 DEF Capped
    <3>2. Len(Capped(a)) = IF n + 1 < cap THEN n + 1 ELSE cap
      BY <1>1, <2>4, <3>1
    <3>3. ASSUME NEW i \in 1 .. Len(Capped(a)) PROVE Capped(a)[i] = more[n + 1 - Len(Capped(a)) + i].epoch
      <4>1. i \in 1 .. k + 1 /\ n + 1 - Len(Capped(a)) + i = n - k + i
        <5> HIDE DEF k
        <5>1. Len(Capped(a)) = n + 1 /\ k = n /\ i \in 1 .. n + 1 /\ n \in Nat
          BY <3>1
        <5>. QED BY <5>1
      <4>. QED BY <2>3, <3>1, <4>1
    <3>. QED BY <1>3, <3>1, <3>2, <3>3
  <2>5. CASE ~ (n < cap)
    <3>1. k = cap /\ ~ (Len(a) <= cap) /\ Len(a) = cap + 1 /\ Len(a) - cap + 1 = 2
      BY <1>1, <1>2, <1>3, <2>5
    <3>2. Capped(a) = SubSeq(a, 2, cap + 1)
      BY <3>1 DEF Capped
    <3>3. \A i \in 2 .. cap + 1 : a[i] \in Nat
      <4>1. \A i \in 2 .. cap + 1 : i \in 1 .. Len(a)
        BY <1>1, <3>1
      <4>. QED BY <1>3, <4>1, ElementOfSeq
    <3>4. /\ Capped(a) \in Seq(Nat) /\ Len(Capped(a)) = cap
          /\ \A i \in 1 .. cap : Capped(a)[i] = a[i + 1]
      <4> DEFINE hi == cap + 1
      <4>1. 2 \in Int /\ hi \in Int /\ 2 <= hi /\ \A i \in 2 .. hi : a[i] \in Nat
        BY <1>1, <3>3
      <4>2. hi - 2 + 1 = cap /\ \A i \in 1 .. cap : 2 + i - 1 = i + 1
        BY <1>1
      <4>3. Capped(a) = SubSeq(a, 2, hi)
        BY <3>2
      <4> HIDE DEF hi
      <4>4. /\ SubSeq(a, 2, hi) \in Seq(Nat) /\ Len(SubSeq(a, 2, hi)) = hi - 2 + 1
            /\ \A i \in 1 .. hi - 2 + 1 : SubSeq(a, 2, hi)[i] = a[2 + i - 1]
        BY <4>1, NumbersFrom, Zenon
      <4>. QED BY <4>2, <4>3, <4>4
    <3>5. ASSUME NEW i \in 1 .. cap PROVE Capped(a)[i] = more[n + 1 - cap + i].epoch
      <4>1. i + 1 \in 1 .. k + 1 /\ n - k + (i + 1) = n + 1 - cap + i
        <5> HIDE DEF k, cap
        <5>1. k = cap /\ cap \in Nat /\ i \in 1 .. cap
          BY <1>1, <3>1
        <5>. QED BY <5>1
      <4>2. a[i + 1] = more[n - k + (i + 1)].epoch
        BY <2>3, <4>1
      <4>. QED BY <3>4, <4>1, <4>2
    <3>6. cap = IF n + 1 < cap THEN n + 1 ELSE cap
      BY <1>1, <2>5
    <3>. QED BY <3>4, <3>5, <3>6
  <2>. QED BY <2>4, <2>5
<1>8. upd \in Run_
  <2>1. upd.epoch \in Nat
    BY <1>1, <1>6
  <2>. QED BY <1>6, <1>7, <2>1 DEF Run_, Statuses
<1>9. \A i \in 1 .. n + 1 : i = n + 1 \/ i \in 1 .. n
  OBVIOUS
<1>10. \A i \in 1 .. n + 1 : more[i].status = "running"
  <2>1. \A i \in 1 .. n : said[i].status = "running"
    BY DEF Told
  <2>. QED BY <1>4, <1>5, <1>9, <2>1
<1>11. \/ upd.epoch = 0 /\ \A i \in 1 .. n + 1 : more[i].epoch = 0
       \/ \E i \in 1 .. n + 1 : /\ upd.epoch = more[i].epoch /\ upd.epoch # 0
                                /\ \A j \in 1 .. n + 1 : j > i => more[j].epoch = 0
  <2>1. CASE e > 0
    <3>1. upd.epoch = e /\ e # 0 /\ more[n + 1].epoch = e /\ n + 1 \in 1 .. n + 1
      BY <1>4, <1>5, <1>6, <2>1
    <3>2. \A j \in 1 .. n + 1 : ~ (j > n + 1)
      OBVIOUS
    <3>. QED BY <3>1, <3>2
  <2>2. CASE ~ (e > 0)
    <3>1. e = 0 /\ upd.epoch = run.epoch /\ more[n + 1].epoch = 0
      BY <1>4, <1>5, <1>6, <2>2
    <3>2. CASE run.epoch = 0 /\ \A i \in 1 .. n : said[i].epoch = 0
      BY <1>5, <1>9, <3>1, <3>2
    <3>3. CASE \E i \in 1 .. n : /\ run.epoch = said[i].epoch /\ run.epoch # 0
                                 /\ \A j \in 1 .. n : j > i => said[j].epoch = 0
      <4>1. PICK i \in 1 .. n : /\ run.epoch = said[i].epoch /\ run.epoch # 0
                                /\ \A j \in 1 .. n : j > i => said[j].epoch = 0
        BY <3>3
      <4>2. i \in 1 .. n + 1 /\ upd.epoch = more[i].epoch /\ upd.epoch # 0
        BY <1>5, <3>1, <4>1
      <4>3. \A j \in 1 .. n + 1 : j > i => more[j].epoch = 0
        BY <1>5, <1>9, <3>1, <4>1
      <4>. QED BY <4>2, <4>3
    <3>. QED BY <3>2, <3>3 DEF Told
  <2>. QED BY <2>1, <2>2
<1>12. Told(upd, more, n + 1)
  <2> DEFINE m == n + 1
  <2>1. m = IF upd.status = "running" THEN Len(more) ELSE Len(more) - 1
    BY <1>5, <1>6
  <2>2. Len(upd.history) = IF m < HistoryCap THEN m ELSE HistoryCap
    BY <1>6, <1>7
  <2>3. \A i \in 1 .. Len(upd.history) : upd.history[i] = more[m - Len(upd.history) + i].epoch
    <3> DEFINE kept == upd.history
    <3>1. kept = Capped(a)
      BY <1>6
    <3> HIDE DEF kept
    <3>2. \A i \in 1 .. Len(kept) : kept[i] = more[m - Len(kept) + i].epoch
      <4> SUFFICES ASSUME NEW i \in 1 .. Len(kept) PROVE kept[i] = more[m - Len(kept) + i].epoch
        OBVIOUS
      <4>1. i \in 1 .. Len(Capped(a)) /\ m - Len(kept) = n + 1 - Len(Capped(a))
        BY <3>1
      <4>2. Capped(a)[i] = more[n + 1 - Len(Capped(a)) + i].epoch
        BY <1>7, <4>1
      <4>. QED BY <3>1, <4>1, <4>2
    <3>. QED BY <3>2 DEF kept
  <2>4. m = Len(more)
    BY <1>5
  <2>5. /\ \A i \in 1 .. m : more[i].status = "running"
        /\ \/ upd.epoch = 0 /\ \A i \in 1 .. m : more[i].epoch = 0
           \/ \E i \in 1 .. m : /\ upd.epoch = more[i].epoch /\ upd.epoch # 0
                                /\ \A j \in 1 .. m : j > i => more[j].epoch = 0
    BY <1>10, <1>11
  <2> HIDE DEF m
  <2>6. Told(upd, more, m)
    BY <2>1, <2>2, <2>3, <2>4, <2>5, Zenon DEF Told
  <2>. QED BY <2>6 DEF m
<1>. QED BY <1>8, <1>12 DEF more, d

\* The report that ends the run.
LEMMA ToldTheEnd ==
    ASSUME NEW run \in Run_, NEW said \in Seq(Report), NEW n \in Nat, Told(run, said, n),
           run.status = "running", NEW s \in {"completed", "failed"}, NEW t \in Nat, NEW upd,
           upd = [run EXCEPT !.status = s, !.updated = t]
    PROVE  upd \in Run_ /\ Told(upd, Append(said, [epoch |-> 0, status |-> s]), n)
<1> DEFINE d == [epoch |-> 0, status |-> s]
           more == Append(said, d)
<1>1. n = Len(said) /\ s \in Statuses /\ s # "running"
  BY DEF Told, Statuses
<1>2. d \in Report /\ d.epoch = 0 /\ d.status = s
  BY <1>1 DEF Report
<1> HIDE DEF d
<1>3. more \in Seq(Report) /\ Len(more) = n + 1 /\ more[n + 1] = d /\ \A i \in 1 .. n : more[i] = said[i]
  BY <1>1, <1>2, AppendProperties
<1>4. /\ upd \in Run_ /\ upd.status = s /\ upd.history = run.history /\ upd.epoch = run.epoch
  BY <1>1 DEF Run_
<1> HIDE DEF more
<1>5. \A i \in 1 .. Len(run.history) : n - Len(run.history) + i \in 1 .. n
  <2>1. Len(run.history) \in Nat /\ Len(run.history) <= n
    <3>1. Len(run.history) = IF n < HistoryCap THEN n ELSE HistoryCap
      BY DEF Told
    <3>. QED BY <3>1, TrainingAssumption
  <2>. QED BY <2>1
<1>6. /\ \A i \in 1 .. n : said[i].status = "running"
      /\ Len(run.history) = IF n < HistoryCap THEN n ELSE HistoryCap
      /\ \A i \in 1 .. Len(run.history) : run.history[i] = said[n - Len(run.history) + i].epoch
      /\ \/ run.epoch = 0 /\ \A i \in 1 .. n : said[i].epoch = 0
         \/ \E i \in 1 .. n : /\ run.epoch = said[i].epoch /\ run.epoch # 0
                              /\ \A j \in 1 .. n : j > i => said[j].epoch = 0
  BY DEF Told
<1>7. \/ run.epoch = 0 /\ \A i \in 1 .. n : more[i].epoch = 0
      \/ \E i \in 1 .. n : /\ run.epoch = more[i].epoch /\ run.epoch # 0
                           /\ \A j \in 1 .. n : j > i => more[j].epoch = 0
  BY <1>3, <1>6
<1>8. n = Len(more) - 1
  BY <1>3
<1>9. \A i \in 1 .. Len(run.history) : run.history[i] = more[n - Len(run.history) + i].epoch
  BY <1>3, <1>5, <1>6
<1>10. \A i \in 1 .. n : more[i].status = "running"
  BY <1>3, <1>6
<1>11. Told(upd, more, n)
  <2>1. n = IF upd.status = "running" THEN Len(more) ELSE Len(more) - 1
    BY <1>1, <1>4, <1>8
  <2>2. more[Len(more)].status = upd.status /\ more[Len(more)].epoch = 0
    BY <1>2, <1>3, <1>4
  <2>3. upd.history = run.history /\ upd.epoch = run.epoch
    BY <1>4
  <2>4. Len(upd.history) = IF n < HistoryCap THEN n ELSE HistoryCap
    BY <1>6, <2>3
  <2>5. \A i \in 1 .. Len(upd.history) : upd.history[i] = more[n - Len(upd.history) + i].epoch
    BY <1>9, <2>3
  <2>6. \/ upd.epoch = 0 /\ \A i \in 1 .. n : more[i].epoch = 0
        \/ \E i \in 1 .. n : /\ upd.epoch = more[i].epoch /\ upd.epoch # 0
                             /\ \A j \in 1 .. n : j > i => more[j].epoch = 0
    BY <1>7, <2>3
  <2>. QED BY <1>10, <2>1, <2>2, <2>4, <2>5, <2>6, Zenon DEF Told
<1>. QED BY <1>4, <1>11 DEF more, d

LEMMA RunStep ==
    ASSUME TrainingType, RunInv, NEW r \in Runs, NEW upd \in Run_, NEW said \in Seq(Report),
           NEW n \in 0 .. Len(said), Told(upd, said, n), now' = now,
           byId' = [byId EXCEPT ![r] = upd], runFiles' = [runFiles EXCEPT ![r] = upd],
           reports' = [reports EXCEPT ![r] = said]
    PROVE  TrainingType' /\ RunInv'
<1>1. /\ byId'[r] = upd /\ reports'[r] = said
      /\ \A q \in Runs : q # r => byId'[q] = byId[q] /\ reports'[q] = reports[q]
  BY DEF TrainingType
<1>2. byId' \in [Runs -> Run_ \cup {NoRun}] /\ runFiles' = byId'
  BY DEF TrainingType
<1>3. reports' \in [Runs -> Seq(Report)]
  BY DEF TrainingType
<1>4. TrainingType'
  BY <1>2, <1>3 DEF TrainingType
<1>5. RunInv'
  <2> SUFFICES ASSUME NEW q \in Runs
               PROVE  IF byId'[q] = NoRun THEN reports'[q] = <<>>
                      ELSE \E k \in 0 .. Len(reports'[q]) : Told(byId'[q], reports'[q], k)
    BY DEF RunInv
  <2>1. CASE q = r
    <3>1. upd # NoRun
      BY NoRunApart
    <3>. QED BY <1>1, <2>1, <3>1
  <2>2. CASE q # r
    BY <1>1, <2>2 DEF RunInv
  <2>. QED BY <2>1, <2>2
<1>. QED BY <1>4, <1>5

LEMMA RunOfAnOpen ==
    ASSUME TrainingType, RunInv, NEW r \in Runs, Open(r)
    PROVE  /\ byId[r] \in Run_ /\ byId[r].status = "running" /\ reports[r] \in Seq(Report)
           /\ Len(reports[r]) \in Nat /\ Told(byId[r], reports[r], Len(reports[r]))
<1>1. byId[r].status = "running" /\ byId[r] # NoRun
  <2>1. NoRun.status = "none"
    BY DEF NoRun
  <2>. QED BY <2>1 DEF Open
<1>2. byId[r] \in Run_ /\ reports[r] \in Seq(Report)
  BY <1>1 DEF TrainingType
<1>3. PICK n \in 0 .. Len(reports[r]) : Told(byId[r], reports[r], n)
  BY <1>1 DEF RunInv
<1>4. n = Len(reports[r])
  BY <1>1, <1>3 DEF Told
<1>. QED BY <1>1, <1>2, <1>3, <1>4, LenProperties

LEMMA StartStep ==
    ASSUME TrainingType, RunInv, NEW o \in Operators, NEW r \in Runs, Start(o, r)
    PROVE  TrainingType' /\ RunInv'
<1> DEFINE upd == [status |-> "running", epoch |-> 0, history |-> <<>>, updated |-> now]
<1>1. /\ byId[r] = NoRun /\ now' = now /\ reports' = reports
      /\ byId' = [byId EXCEPT ![r] = upd] /\ runFiles' = [runFiles EXCEPT ![r] = upd]
  BY DEF Start, Store
<1>2. upd \in Run_
  <2>1. <<>> \in Seq(Nat)
    BY EmptySeq
  <2>. QED BY <2>1 DEF Run_, Statuses, TrainingType
<1>3. reports[r] = <<>> /\ reports' = [reports EXCEPT ![r] = <<>>] /\ <<>> \in Seq(Report) /\ Len(<<>>) = 0
  <2>1. reports[r] = <<>>
    BY <1>1 DEF RunInv
  <2>2. reports \in [Runs -> Seq(Report)]
    BY DEF TrainingType
  <2>. QED BY <1>1, <2>1, <2>2, EmptySeq
<1>4. Told(upd, <<>>, 0) /\ 0 \in 0 .. Len(<<>>)
  BY <1>3, ToldAtStart DEF TrainingType
<1> HIDE DEF upd
<1>. QED BY <1>1, <1>2, <1>3, <1>4, RunStep

LEMMA ProgressStep ==
    ASSUME TrainingType, RunInv, NEW r \in Runs, NEW e \in Epochs, AppendProgress(r, e)
    PROVE  TrainingType' /\ RunInv'
<1> DEFINE top == IF e > 0 THEN e ELSE byId[r].epoch
           upd == [byId[r] EXCEPT !.history = Capped(Append(byId[r].history, e)), !.updated = now,
                                  !.epoch = top]
           said == Append(reports[r], [epoch |-> e, status |-> "running"])
           n == Len(reports[r])
<1>1. /\ Open(r) /\ now' = now /\ byId' = [byId EXCEPT ![r] = upd] /\ runFiles' = [runFiles EXCEPT ![r] = upd]
      /\ reports' = [reports EXCEPT ![r] = said]
  BY DEF AppendProgress, Store
<1>2. /\ byId[r] \in Run_ /\ byId[r].status = "running" /\ reports[r] \in Seq(Report)
      /\ n \in Nat /\ Told(byId[r], reports[r], n)
  BY <1>1, RunOfAnOpen
<1>3. e \in Nat /\ now \in Nat
  BY TrainingAssumption DEF TrainingType
<1>4. upd \in Run_ /\ Told(upd, said, n + 1)
  <2> HIDE DEF top
  <2>1. top = IF e > 0 THEN e ELSE byId[r].epoch
    BY DEF top
  <2>. QED BY <1>2, <1>3, <2>1, ToldMore
<1>5. said \in Seq(Report) /\ n + 1 \in 0 .. Len(said)
  <2>1. [epoch |-> e, status |-> "running"] \in Report
    BY <1>3 DEF Report, Statuses
  <2>. QED BY <1>2, <2>1, AppendProperties
<1> HIDE DEF upd, said
<1>. QED BY <1>1, <1>4, <1>5, RunStep

LEMMA TerminateStep ==
    ASSUME TrainingType, RunInv, NEW o \in Operators, NEW r \in Runs, NEW s \in {"completed", "failed"},
           Terminate(o, r, s)
    PROVE  TrainingType' /\ RunInv'
<1> DEFINE upd == [byId[r] EXCEPT !.status = s, !.updated = now]
           said == Append(reports[r], [epoch |-> 0, status |-> s])
           run == byId[r]
           n == Len(reports[r])
<1>1. /\ Open(r) /\ now' = now /\ byId' = [byId EXCEPT ![r] = upd] /\ runFiles' = [runFiles EXCEPT ![r] = upd]
      /\ reports' = [reports EXCEPT ![r] = said]
  BY DEF Terminate, Store
<1>2. /\ byId[r] \in Run_ /\ byId[r].status = "running" /\ reports[r] \in Seq(Report)
      /\ n \in Nat /\ Told(byId[r], reports[r], n)
  BY <1>1, RunOfAnOpen
<1>3. now \in Nat
  BY DEF TrainingType
<1>4. upd \in Run_ /\ Told(upd, said, n)
  <2> HIDE DEF run
  <2>1. run \in Run_ /\ run.status = "running" /\ Told(run, reports[r], n)
    BY <1>2 DEF run
  <2>2. upd = [run EXCEPT !.status = s, !.updated = now]
    BY DEF run
  <2> HIDE DEF upd
  <2>. QED BY <1>2, <1>3, <2>1, <2>2, ToldTheEnd
<1>5. said \in Seq(Report) /\ n \in 0 .. Len(said)
  <2>1. [epoch |-> 0, status |-> s] \in Report
    BY DEF Report, Statuses
  <2>. QED BY <1>2, <2>1, AppendProperties
<1> HIDE DEF upd, said
<1>. QED BY <1>1, <1>4, <1>5, RunStep

LEMMA RunsKept ==
    ASSUME TrainingType, RunInv, byId' \in {byId, runFiles}, UNCHANGED <<runFiles, reports>>, now' \in {now, now + 1}
    PROVE  TrainingType' /\ RunInv'
<1>1. byId' = byId /\ now' \in Nat
  BY DEF TrainingType
<1>2. TrainingType'
  BY <1>1 DEF TrainingType
<1>3. RunInv'
  BY <1>1 DEF RunInv
<1>. QED BY <1>2, <1>3

LEMMA RunsTrail ==
    ASSUME TrainingType, RunInv
    PROVE  RunTrail
<1> SUFFICES ASSUME NEW r \in Runs, byId[r] # NoRun
             PROVE  /\ \A i \in DOMAIN reports[r] \ Progress(r) :
                          i = Len(reports[r]) /\ Shown(r) = reports[r][i].status
                    /\ LET heard == Cardinality(Progress(r))
                           kept == byId[r].history
                       IN  /\ Len(kept) = IF heard < HistoryCap THEN heard ELSE HistoryCap
                           /\ \A i \in DOMAIN kept : kept[i] = reports[r][heard - Len(kept) + i].epoch
                    /\ IF \A i \in DOMAIN reports[r] : reports[r][i].epoch = 0 THEN byId[r].epoch = 0
                       ELSE \E i \in DOMAIN reports[r] :
                              /\ byId[r].epoch = reports[r][i].epoch /\ byId[r].epoch # 0
                              /\ \A j \in DOMAIN reports[r] : j > i => reports[r][j].epoch = 0
  BY Zenon DEF RunTrail
<1> DEFINE run == byId[r]
           said == reports[r]
           k == Len(said)
<1>1. run \in Run_ /\ said \in Seq(Report)
  BY DEF TrainingType
<1>2. k \in Nat /\ DOMAIN said = 1 .. k
  BY <1>1, LenProperties
<1>3. run.history \in Seq(Nat) /\ DOMAIN run.history = 1 .. Len(run.history)
  BY <1>1, LenProperties DEF Run_
<1>4. PICK n \in 0 .. k : Told(run, said, n)
  BY DEF RunInv
<1> HIDE DEF run, said, k
<1>5. /\ n = IF run.status = "running" THEN k ELSE k - 1
      /\ \A i \in 1 .. n : said[i].status = "running"
      /\ n # k => said[k].status = run.status /\ said[k].epoch = 0
  BY <1>4 DEF Told, k
<1>6. /\ Len(run.history) = IF n < HistoryCap THEN n ELSE HistoryCap
      /\ \A i \in 1 .. Len(run.history) : run.history[i] = said[n - Len(run.history) + i].epoch
  BY <1>4 DEF Told
<1>7. \/ run.epoch = 0 /\ \A i \in 1 .. n : said[i].epoch = 0
      \/ \E i \in 1 .. n : /\ run.epoch = said[i].epoch /\ run.epoch # 0
                           /\ \A j \in 1 .. n : j > i => said[j].epoch = 0
  BY <1>4 DEF Told
<1>8. n \in Nat /\ \A i \in 1 .. k : i \in 1 .. n \/ (i = k /\ n # k /\ i \notin 1 .. n)
  BY <1>2, <1>5
<1>9. n # k => run.status # "running" /\ said[k].status # "running"
  BY <1>5
<1>10. Progress(r) = 1 .. n
  <2>1. Progress(r) = {i \in 1 .. k : said[i].status = "running"}
    BY <1>2 DEF Progress, said
  <2>2. 1 .. n \subseteq 1 .. k
    BY <1>2, <1>5
  <2>. QED BY <1>5, <1>8, <1>9, <2>1, <2>2
<1>11. Cardinality(Progress(r)) = n
  <2>1. Cardinality(1 .. n) = IF 1 > n THEN 0 ELSE n - 1 + 1
    BY <1>8, FS_Interval
  <2>. QED BY <1>8, <1>10, <2>1
<1>12. ASSUME NEW i \in DOMAIN said \ Progress(r) PROVE i = k /\ Shown(r) = said[i].status
  <2>1. i = k /\ n # k
    BY <1>2, <1>8, <1>10
  <2>2. Shown(r) = run.status
    BY <1>9, <2>1, Zenon DEF Shown, run
  <2>. QED BY <1>5, <2>1, <2>2
<1>13. IF \A i \in DOMAIN said : said[i].epoch = 0 THEN run.epoch = 0
       ELSE \E i \in DOMAIN said : /\ run.epoch = said[i].epoch /\ run.epoch # 0
                                   /\ \A j \in DOMAIN said : j > i => said[j].epoch = 0
  <2>1. \A i \in 1 .. n : i \in DOMAIN said
    BY <1>2, <1>5
  <2>2. CASE run.epoch = 0 /\ \A i \in 1 .. n : said[i].epoch = 0
    <3>1. \A i \in DOMAIN said : said[i].epoch = 0
      BY <1>2, <1>5, <1>8, <2>2
    <3>. QED BY <2>2, <3>1
  <2>3. CASE \E i \in 1 .. n : /\ run.epoch = said[i].epoch /\ run.epoch # 0
                               /\ \A j \in 1 .. n : j > i => said[j].epoch = 0
    <3>1. PICK i \in 1 .. n : /\ run.epoch = said[i].epoch /\ run.epoch # 0
                              /\ \A j \in 1 .. n : j > i => said[j].epoch = 0
      BY <2>3
    <3>2. \A j \in DOMAIN said : j > i => said[j].epoch = 0
      BY <1>2, <1>5, <1>8, <3>1
    <3>. QED BY <2>1, <3>1, <3>2
  <2>. QED BY <1>7, <2>2, <2>3
<1>14. /\ Len(run.history) = IF n < HistoryCap THEN n ELSE HistoryCap
       /\ \A i \in DOMAIN run.history : run.history[i] = said[n - Len(run.history) + i].epoch
  BY <1>3, <1>6, Zenon
<1>. QED BY <1>11, <1>12, <1>13, <1>14, Zenon DEF run, said, k

(* The lines of the changes. *)

OwedTyped == owed = [o \in Operators |-> owed[o]]

\* A version that is gone was deleted, at the latest now, and one that is there has been cut since.
Deleted ==
    /\ \A l \in Lines : l.event = "DatasetDeleted" /\ l.subject \in DOMAIN dirs =>
          \E n \in DOMAIN cuts : n > l.nth /\ cuts[n].version = l.subject
    /\ \A n \in DOMAIN cuts : cuts[n].version \notin DOMAIN dirs =>
          \E k \in n .. Len(cuts) : Line("DatasetDeleted", cuts[n].version, k) \in Lines
    /\ \A l \in Lines : l.event = "DatasetDeleted" => l.nth \in Nat /\ l.nth <= Len(cuts)
    /\ DOMAIN index \subseteq DOMAIN dirs

LinesInv ==
    /\ OwedTyped /\ LinesOnce /\ Deleted
    /\ {l \in Lines : l.event # "DatasetDeleted"} = Changes
    /\ \A o \in Operators : cutting[o] # NoCut => owed[o] = NoLine

LEMMA LinesTold == LinesInv => EveryChangeHasItsLine
BY Zenon DEF LinesInv, Deleted, EveryChangeHasItsLine

\* A line that was nowhere is owed by one request.
LEMMA OweLines ==
    ASSUME OwedTyped, LinesOnce, NEW o \in Operators, Free(o), NEW l, l \notin Lines, l # NoLine, Owe(o, l)
    PROVE  OwedTyped' /\ LinesOnce' /\ Lines' = Lines \cup {l} /\ owed'[o] = l
           /\ \A p \in Operators : p # o => owed'[p] = owed[p]
<1>1. /\ owed' = [owed EXCEPT ![o] = l] /\ appended' = appended /\ lost' = lost /\ Appended' = Appended
  BY DEF Owe, Appended
<1>2. owed'[o] = l /\ (\A p \in Operators : p # o => owed'[p] = owed[p]) /\ OwedTyped'
  BY <1>1, Zenon DEF OwedTyped
<1>3. l \notin Appended /\ l \notin lost /\ \A p \in Operators : owed[p] # l
  BY DEF Lines
<1>4. LinesOnce'
  <2>1. \A i, j \in DOMAIN appended' : appended'[i].line = appended'[j].line => i = j
    BY <1>1 DEF LinesOnce
  <2>2. ASSUME NEW p \in Operators, owed'[p] # NoLine
        PROVE  owed'[p] \notin Appended \cup lost /\ \A q \in Operators : owed'[q] = owed'[p] => q = p
    <3>1. CASE p = o
      BY <1>2, <1>3, <3>1
    <3>2. CASE p # o
      <4>1. owed'[p] = owed[p] /\ owed[p] # NoLine /\ owed[p] # l
        BY <1>2, <1>3, <2>2, <3>2
      <4>. QED BY <1>2, <4>1 DEF LinesOnce, Free
    <3>. QED BY <3>1, <3>2
  <2>3. Appended \cap lost = {}
    BY DEF LinesOnce
  <2>. QED BY <1>1, <2>1, <2>2, <2>3, Zenon DEF LinesOnce, Free
<1>5. Lines' = Lines \cup {l}
  <2>1. {owed'[p] : p \in Operators} \ {NoLine} = ({owed[p] : p \in Operators} \ {NoLine}) \cup {l}
    BY <1>2 DEF Free
  <2>. QED BY <1>1, <2>1 DEF Lines
<1>. QED BY <1>2, <1>4, <1>5

\* The line appended is the one that was owed.
LEMMA LogLines ==
    ASSUME LogType, OwedTyped, LinesOnce, NEW o \in Operators, NEW how \in Outcomes, LogSubject(o, how)
    PROVE  OwedTyped' /\ LinesOnce' /\ Lines' = Lines /\ \A p \in Operators : owed'[p] \in {owed[p], NoLine}
<1> DEFINE p_ == [line |-> owed[o], how |-> how]
           n == Len(appended)
<1>1. /\ owed[o] # NoLine /\ appended' = Append(appended, p_) /\ owed' = [owed EXCEPT ![o] = NoLine]
      /\ lost' = lost
  BY DEF LogSubject
<1>2. p_.line = owed[o] /\ p_.how \in Outcomes
  OBVIOUS
<1> HIDE DEF p_
<1>3. /\ n \in Nat /\ DOMAIN appended = 1 .. n /\ DOMAIN appended' = 1 .. n + 1
      /\ appended'[n + 1] = p_ /\ \A i \in 1 .. n : appended'[i] = appended[i]
  BY <1>1, <1>2, LogFacts, AppendedGrows
<1>4. owed'[o] = NoLine /\ (\A p \in Operators : p # o => owed'[p] = owed[p]) /\ OwedTyped'
  BY <1>1, Zenon DEF OwedTyped
<1>5. \A i \in 1 .. n + 1 : i = n + 1 \/ i \in 1 .. n
  BY <1>3
<1>6. Appended' = Appended \cup {owed[o]}
  <2>1. n + 1 \in 1 .. n + 1 /\ \A i \in 1 .. n : i \in 1 .. n + 1
    BY <1>3
  <2>. QED BY <1>2, <1>3, <1>5, <2>1 DEF Appended
<1>7. owed[o] \notin Appended /\ owed[o] \notin lost /\ \A q \in Operators : owed[q] = owed[o] => q = o
  BY <1>1, Zenon DEF LinesOnce, Free
<1>8. LinesOnce'
  <2>1. ASSUME NEW i \in 1 .. n + 1, NEW j \in 1 .. n + 1, appended'[i].line = appended'[j].line
        PROVE  i = j
    <3>1. \A k \in 1 .. n : appended'[k].line # owed[o]
      BY <1>3, <1>7 DEF Appended
    <3>2. \A k, m \in 1 .. n : appended'[k].line = appended'[m].line => k = m
      BY <1>3 DEF LinesOnce
    <3>3. appended'[n + 1].line = owed[o]
      BY <1>2, <1>3
    <3>. QED BY <1>5, <2>1, <3>1, <3>2, <3>3
  <2>2. ASSUME NEW p \in Operators, owed'[p] # NoLine
        PROVE  owed'[p] \notin Appended' \cup lost /\ \A q \in Operators : owed'[q] = owed'[p] => q = p
    <3>1. p # o /\ owed'[p] = owed[p] /\ owed[p] # NoLine /\ owed[p] # owed[o]
      BY <1>4, <1>7, <2>2
    <3>2. owed[p] \notin Appended \cup lost /\ \A q \in Operators : owed[q] = owed[p] => q = p
      BY <3>1, Zenon DEF LinesOnce, Free
    <3>3. \A q \in Operators : owed'[q] = owed'[p] => q = p
      BY <1>4, <2>2, <3>1, <3>2
    <3>. QED BY <1>6, <3>1, <3>2, <3>3
  <2>3. Appended' \cap lost = {}
    BY <1>6, <1>7 DEF LinesOnce
  <2>. QED BY <1>1, <1>3, <2>1, <2>2, <2>3, Zenon DEF LinesOnce, Free
<1>9. Lines' = Lines
  <2>1. {owed'[p] : p \in Operators} \ {NoLine} = ({owed[p] : p \in Operators} \ {NoLine}) \ {owed[o]}
    BY <1>4, <1>7
  <2>. QED BY <1>1, <1>6, <2>1 DEF Lines
<1>. QED BY <1>4, <1>8, <1>9

\* A stop loses the lines that are owed and keeps count of them.
LEMMA LostLines ==
    ASSUME OwedTyped, LinesOnce, AuditRestart
    PROVE  OwedTyped' /\ LinesOnce' /\ Lines' = Lines /\ \A p \in Operators : owed'[p] = NoLine
<1>1. /\ owed' = [o \in Operators |-> NoLine] /\ appended' = appended /\ Appended' = Appended
      /\ lost' = lost \cup ({owed[o] : o \in Operators} \ {NoLine})
  BY DEF AuditRestart, Appended
<1>2. (\A p \in Operators : owed'[p] = NoLine) /\ OwedTyped'
  BY <1>1, Zenon DEF OwedTyped
<1>3. LinesOnce'
  <2>1. \A o \in Operators : owed[o] # NoLine => owed[o] \notin Appended
    BY Zenon DEF LinesOnce, Free
  <2>2. Appended \cap lost' = {}
    BY <1>1, <2>1 DEF LinesOnce
  <2>3. \A i, j \in DOMAIN appended' : appended'[i].line = appended'[j].line => i = j
    BY <1>1 DEF LinesOnce
  <2>. QED BY <1>1, <1>2, <2>2, <2>3, Zenon DEF LinesOnce, Free
<1>4. Lines' = Lines
  BY <1>1, <1>2 DEF Lines
<1>. QED BY <1>2, <1>3, <1>4

LEMMA LinesStay ==
    ASSUME OwedTyped, LinesOnce, UNCHANGED <<appended, owed, lost>>
    PROVE  OwedTyped' /\ LinesOnce' /\ Lines' = Lines
<1>1. Appended' = Appended
  BY DEF Appended
<1>. QED BY <1>1 DEF OwedTyped, LinesOnce, Free, Lines

LEMMA LineFields ==
    \A e, s, n : /\ Line(e, s, n).event = e /\ Line(e, s, n).subject = s /\ Line(e, s, n).nth = n
                 /\ Line(e, s, n) # NoLine
<1> SUFFICES ASSUME NEW e, NEW s, NEW n
             PROVE  /\ Line(e, s, n).event = e /\ Line(e, s, n).subject = s /\ Line(e, s, n).nth = n
                    /\ Line(e, s, n) # NoLine
  OBVIOUS
<1>1. Line(e, s, n).event = e /\ Line(e, s, n).subject = s /\ Line(e, s, n).nth = n
  BY DEF Line
<1>2. Line(e, s, n) # NoLine
  <2>1. DOMAIN Line(e, s, n) = {"event", "subject", "nth"} /\ DOMAIN NoLine = {"event"}
    BY DEF Line, NoLine
  <2>. QED BY <2>1
<1>. QED BY <1>1, <1>2

\* The events of the four are different, so a line is of one of them.
LEMMA EventsApart ==
    /\ \A l \in ReviewLines : l.event = "ReviewUpdated" /\ l.subject \in FlowIds /\ l.nth \in DOMAIN decisions[l.subject]
    /\ \A l \in StartLines : l.event = "TrainingStarted" /\ byId[l.subject] # NoRun
    /\ \A l \in EndLines : /\ l.event \in {"TrainingCompleted", "TrainingFailed"}
                           /\ l.subject \in Runs /\ l.nth \in DOMAIN reports[l.subject]
    /\ \A l \in CutLines : l.event \in {"DatasetCreated", "DatasetDerived"} /\ l.nth \in DOMAIN cuts
<1>1. ASSUME NEW l \in ReviewLines
      PROVE  l.event = "ReviewUpdated" /\ l.subject \in FlowIds /\ l.nth \in DOMAIN decisions[l.subject]
  <2>1. PICK f \in FlowIds : \E n \in DOMAIN decisions[f] : l = Line("ReviewUpdated", f, n)
    BY DEF ReviewLines
  <2>. QED BY <2>1, LineFields
<1>2. ASSUME NEW l \in StartLines PROVE l.event = "TrainingStarted" /\ byId[l.subject] # NoRun
  <2>1. PICK r \in Runs : byId[r] # NoRun /\ l = Line("TrainingStarted", r, 0)
    BY DEF StartLines
  <2>. QED BY <2>1, LineFields
<1>3. ASSUME NEW l \in EndLines
      PROVE  /\ l.event \in {"TrainingCompleted", "TrainingFailed"}
             /\ l.subject \in Runs /\ l.nth \in DOMAIN reports[l.subject]
  <2>1. PICK r \in Runs : \E n \in DOMAIN reports[r] : l = Line(EndEvent(reports[r][n].status), r, n)
    BY DEF EndLines
  <2>. QED BY <2>1, LineFields DEF EndEvent
<1>4. ASSUME NEW l \in CutLines
      PROVE  l.event \in {"DatasetCreated", "DatasetDerived"} /\ l.nth \in DOMAIN cuts
  <2>1. PICK n \in DOMAIN cuts : l = Line(CutEvent(cuts[n]), cuts[n].version, n)
    BY DEF CutLines
  <2>. QED BY <2>1, LineFields DEF CutEvent
<1>. QED BY <1>1, <1>2, <1>3, <1>4

LEMMA NoChangeIsADelete == \A l \in Changes : l.event # "DatasetDeleted"
BY EventsApart DEF Changes

\* One element more, whatever it is.
LEMMA AppendOne ==
    ASSUME NEW X, NEW s \in Seq(X), NEW d
    PROVE  /\ Len(s) \in Nat /\ DOMAIN s = 1 .. Len(s) /\ DOMAIN Append(s, d) = 1 .. Len(s) + 1
           /\ Append(s, d)[Len(s) + 1] = d /\ Len(Append(s, d)) = Len(s) + 1
           /\ \A i \in 1 .. Len(s) : Append(s, d)[i] = s[i]
<1>1. s \in Seq(X \cup {d}) /\ d \in X \cup {d}
  BY SeqMonotonic
<1>. QED BY <1>1, AppendProperties, LenProperties

\* A decision more is a line more.
LEMMA ReviewLinesGrow ==
    ASSUME ReviewType, NEW o \in Operators, NEW f \in FlowIds, NEW s \in ReviewStates, NEW t \in Tags,
           Put(o, f, s, t), NEW l, l = Line("ReviewUpdated", f, Len(decisions[f]) + 1)
    PROVE  ReviewLines' = ReviewLines \cup {l} /\ l \notin Changes
<1> DEFINE old == decisions[f]
           n == Len(old)
<1>1. PICK d : decisions' = [decisions EXCEPT ![f] = Append(old, d)]
  BY DEF Put
<1>2. n \in Nat /\ DOMAIN old = 1 .. n
  BY LenProperties DEF ReviewType
<1>3. /\ DOMAIN decisions'[f] = 1 .. n + 1
      /\ \A g \in FlowIds : g # f => decisions'[g] = decisions[g]
  <2>1. decisions'[f] = Append(old, d) /\ \A g \in FlowIds : g # f => decisions'[g] = decisions[g]
    BY <1>1 DEF ReviewType
  <2>2. DOMAIN Append(old, d) = 1 .. n + 1
    BY AppendOne DEF ReviewType
  <2>. QED BY <2>1, <2>2
<1>4. n + 1 \in 1 .. n + 1 /\ n + 1 \notin 1 .. n /\ \A i : i \in 1 .. n + 1 <=> i = n + 1 \/ i \in 1 .. n
  BY <1>2
<1> HIDE DEF n, old
<1>5. ReviewLines' = ReviewLines \cup {l}
  <2>1. ASSUME NEW x \in ReviewLines' PROVE x \in ReviewLines \cup {l}
    <3>0. PICK g \in FlowIds : \E i \in DOMAIN decisions'[g] : x = Line("ReviewUpdated", g, i)
      BY DEF ReviewLines, Line
    <3>1. PICK i \in DOMAIN decisions'[g] : x = Line("ReviewUpdated", g, i)
      BY <3>0
    <3>2. CASE g = f
      BY <1>2, <1>3, <1>4, <3>1, <3>2 DEF ReviewLines, n, old
    <3>3. CASE g # f
      BY <1>3, <3>1, <3>3 DEF ReviewLines
    <3>. QED BY <3>2, <3>3
  <2>2. ASSUME NEW x \in ReviewLines PROVE x \in ReviewLines'
    <3>0. PICK g \in FlowIds : \E i \in DOMAIN decisions[g] : x = Line("ReviewUpdated", g, i)
      BY DEF ReviewLines
    <3>1. PICK i \in DOMAIN decisions[g] : x = Line("ReviewUpdated", g, i)
      BY <3>0
    <3>2. i \in DOMAIN decisions'[g]
      BY <1>2, <1>3, <1>4 DEF old
    <3>. QED BY <3>1, <3>2 DEF ReviewLines, Line
  <2>3. l \in ReviewLines'
    <3>1. l = Line("ReviewUpdated", f, n + 1) /\ n + 1 \in DOMAIN decisions'[f]
      BY <1>3, <1>4 DEF n, old
    <3>2. ReviewLines' = UNION {{Line("ReviewUpdated", g, i) : i \in DOMAIN decisions'[g]} : g \in FlowIds}
      BY DEF ReviewLines, Line
    <3>. QED BY <3>1, <3>2
  <2>. QED BY <2>1, <2>2, <2>3
<1>6. l \notin Changes
  <2>1. l.event = "ReviewUpdated" /\ l.subject = f /\ l.nth = n + 1
    BY LineFields DEF n, old
  <2>2. l.nth \notin DOMAIN decisions[f]
    BY <1>2, <1>4, <2>1 DEF old
  <2>. QED BY <2>1, <2>2, EventsApart DEF Changes
<1>. QED BY <1>5, <1>6

\* A run that starts is a line, the report that ends it another.
LEMMA StartLinesGrow ==
    ASSUME TrainingType, RunInv, NEW o \in Operators, NEW r \in Runs, Start(o, r),
           NEW l, l = Line("TrainingStarted", r, 0)
    PROVE  StartLines' = StartLines \cup {l} /\ EndLines' = EndLines /\ l \notin Changes
<1>1. /\ byId[r] = NoRun /\ reports' = reports
      /\ \E upd \in [status : {"running"}, epoch : Nat, history : Seq(Nat), updated : Nat] :
            byId' = [byId EXCEPT ![r] = upd]
  <2>1. <<>> \in Seq(Nat)
    BY EmptySeq
  <2>. QED BY <2>1 DEF Start, Store, TrainingType
<1>2. PICK upd \in Run_ : byId' = [byId EXCEPT ![r] = upd]
  BY <1>1 DEF Run_, Statuses
<1>3. byId'[r] # NoRun /\ \A q \in Runs : q # r => byId'[q] = byId[q]
  BY <1>2, NoRunApart DEF TrainingType
<1>4. StartLines' = StartLines \cup {l}
  <2>1. {x \in Runs : byId'[x] # NoRun} = {x \in Runs : byId[x] # NoRun} \cup {r}
    BY <1>1, <1>3
  <2>2. StartLines' = {Line("TrainingStarted", q, 0) : q \in {x \in Runs : byId'[x] # NoRun}}
    BY DEF StartLines, Line
  <2>. QED BY <2>1, <2>2 DEF StartLines
<1>5. EndLines' = EndLines
  BY <1>1 DEF EndLines, Progress, EndEvent, Line
<1>6. l \notin Changes
  <2>1. l.event = "TrainingStarted" /\ l.subject = r
    BY LineFields
  <2>. QED BY <1>1, <2>1, EventsApart DEF Changes
<1>. QED BY <1>4, <1>5, <1>6

LEMMA ProgressLines ==
    ASSUME TrainingType, RunInv, NEW r \in Runs, NEW e \in Epochs, AppendProgress(r, e)
    PROVE  StartLines' = StartLines /\ EndLines' = EndLines
<1> DEFINE n == Len(reports[r])
           d == [epoch |-> e, status |-> "running"]
<1>1. PICK upd : /\ byId' = [byId EXCEPT ![r] = upd] /\ reports' = [reports EXCEPT ![r] = Append(reports[r], d)]
                 /\ Open(r)
  BY DEF AppendProgress, Store
<1>2. byId[r] # NoRun
  BY <1>1, RunOfAnOpen, NoRunApart
<1>3. byId'[r] # NoRun
  <2>1. TrainingType' /\ RunInv'
    BY ProgressStep
  <2>2. reports'[r] = Append(reports[r], d) /\ Len(Append(reports[r], d)) = Len(reports[r]) + 1
        /\ Len(reports[r]) \in Nat
    BY <1>1, AppendOne DEF TrainingType
  <2>3. reports'[r] # <<>>
    <3>1. Len(<<>>) = 0
      BY EmptySeq
    <3>2. Len(reports'[r]) # 0
      BY <2>2
    <3>. QED BY <3>1, <3>2, Zenon
  <2>. QED BY <2>1, <2>3 DEF RunInv
<1>4. StartLines' = StartLines
  <2>1. \A q \in Runs : byId'[q] # NoRun <=> byId[q] # NoRun
    BY <1>1, <1>2, <1>3 DEF TrainingType
  <2>2. {x \in Runs : byId'[x] # NoRun} = {x \in Runs : byId[x] # NoRun}
    BY <2>1
  <2>. QED BY <2>2 DEF StartLines, Line
<1> HIDE DEF d
<1>5. /\ reports'[r] = Append(reports[r], d) /\ \A q \in Runs : q # r => reports'[q] = reports[q]
      /\ d.status = "running"
  BY <1>1 DEF TrainingType, d
<1>6. /\ n \in Nat /\ DOMAIN reports[r] = 1 .. n /\ DOMAIN reports'[r] = 1 .. n + 1
      /\ reports'[r][n + 1] = d /\ \A i \in 1 .. n : reports'[r][i] = reports[r][i]
  BY <1>5, AppendOne DEF TrainingType
<1> HIDE DEF n
<1>7. \A q \in Runs : /\ DOMAIN reports'[q] \ Progress(q)' = DOMAIN reports[q] \ Progress(q)
                      /\ \A i \in DOMAIN reports[q] \ Progress(q) : reports'[q][i] = reports[q][i]
  <2> SUFFICES ASSUME NEW q \in Runs
               PROVE  /\ {i \in DOMAIN reports'[q] : reports'[q][i].status # "running"}
                            = {i \in DOMAIN reports[q] : reports[q][i].status # "running"}
                      /\ \A i \in DOMAIN reports[q] : reports'[q][i] = reports[q][i]
    BY DEF Progress
  <2>1. CASE q = r
    <3>1. \A i : i \in 1 .. n + 1 <=> i = n + 1 \/ i \in 1 .. n
      BY <1>6
    <3>. QED BY <1>5, <1>6, <2>1, <3>1
  <2>2. CASE q # r
    BY <1>5, <2>2
  <2>. QED BY <2>1, <2>2
<1>8. EndLines' = EndLines
  <2>1. \A q \in Runs : {Line(EndEvent(reports'[q][i].status), q, i) : i \in DOMAIN reports'[q] \ Progress(q)'}
                     = {Line(EndEvent(reports[q][i].status), q, i) : i \in DOMAIN reports[q] \ Progress(q)}
    BY <1>7
  <2>2. EndLines' = UNION {{Line(EndEvent(reports'[q][i].status), q, i) : i \in DOMAIN reports'[q] \ Progress(q)'}
                        : q \in Runs}
    BY DEF EndLines, EndEvent, Line
  <2>3. ASSUME NEW x
        PROVE  (\E q \in Runs : x \in {Line(EndEvent(reports'[q][i].status), q, i) : i \in DOMAIN reports'[q] \ Progress(q)'})
               <=> (\E q \in Runs : x \in {Line(EndEvent(reports[q][i].status), q, i) : i \in DOMAIN reports[q] \ Progress(q)})
    BY <2>1, Zenon
  <2>4. \A x : x \in EndLines' <=>
            \E q \in Runs : x \in {Line(EndEvent(reports'[q][i].status), q, i) : i \in DOMAIN reports'[q] \ Progress(q)'}
    BY <2>2
  <2>5. \A x : x \in EndLines <=>
            \E q \in Runs : x \in {Line(EndEvent(reports[q][i].status), q, i) : i \in DOMAIN reports[q] \ Progress(q)}
    BY DEF EndLines
  <2>6. \A x : x \in EndLines' <=> x \in EndLines
    BY <2>3, <2>4, <2>5, Zenon
  <2>. QED BY <2>6, Zenon
<1>. QED BY <1>4, <1>8

LEMMA EndLinesGrow ==
    ASSUME TrainingType, RunInv, NEW o \in Operators, NEW r \in Runs, NEW s \in {"completed", "failed"},
           Terminate(o, r, s), NEW l, l = Line(EndEvent(s), r, Len(reports[r]) + 1)
    PROVE  StartLines' = StartLines /\ EndLines' = EndLines \cup {l} /\ l \notin Changes
<1> DEFINE n == Len(reports[r])
           d == [epoch |-> 0, status |-> s]
<1>1. PICK upd : /\ byId' = [byId EXCEPT ![r] = upd] /\ reports' = [reports EXCEPT ![r] = Append(reports[r], d)]
                 /\ Open(r)
  BY DEF Terminate, Store
<1>2. byId[r] # NoRun
  BY <1>1, RunOfAnOpen, NoRunApart
<1>3. byId'[r] # NoRun
  <2>1. TrainingType' /\ RunInv'
    BY TerminateStep
  <2>2. reports'[r] = Append(reports[r], d) /\ Len(Append(reports[r], d)) = Len(reports[r]) + 1
        /\ Len(reports[r]) \in Nat
    BY <1>1, AppendOne DEF TrainingType
  <2>3. reports'[r] # <<>>
    <3>1. Len(<<>>) = 0
      BY EmptySeq
    <3>2. Len(reports'[r]) # 0
      BY <2>2
    <3>. QED BY <3>1, <3>2, Zenon
  <2>. QED BY <2>1, <2>3 DEF RunInv
<1>4. StartLines' = StartLines
  <2>1. \A q \in Runs : byId'[q] # NoRun <=> byId[q] # NoRun
    BY <1>1, <1>2, <1>3 DEF TrainingType
  <2>2. {x \in Runs : byId'[x] # NoRun} = {x \in Runs : byId[x] # NoRun}
    BY <2>1
  <2>. QED BY <2>2 DEF StartLines, Line
<1> HIDE DEF d
<1>5. /\ reports'[r] = Append(reports[r], d) /\ \A q \in Runs : q # r => reports'[q] = reports[q]
      /\ d.status = s /\ s # "running"
  BY <1>1 DEF TrainingType, d
<1>6. /\ n \in Nat /\ DOMAIN reports[r] = 1 .. n /\ DOMAIN reports'[r] = 1 .. n + 1
      /\ reports'[r][n + 1] = d /\ \A i \in 1 .. n : reports'[r][i] = reports[r][i]
  BY <1>5, AppendOne DEF TrainingType
<1>7. l = Line(EndEvent(s), r, n + 1)
  OBVIOUS
<1> HIDE DEF n
<1>8. \A i : i \in 1 .. n + 1 <=> i = n + 1 \/ i \in 1 .. n
  BY <1>6
<1>9. n + 1 \notin 1 .. n
  BY <1>6
<1>10. \A q \in Runs : /\ DOMAIN reports[q] \ Progress(q) = {i \in DOMAIN reports[q] : reports[q][i].status # "running"}
                      /\ DOMAIN reports'[q] \ Progress(q)'
                            = {i \in DOMAIN reports'[q] : reports'[q][i].status # "running"}
  BY DEF Progress
<1>11. \A q \in Runs : \A i : i \in DOMAIN reports'[q] \ Progress(q)' <=>
            i \in DOMAIN reports[q] \ Progress(q) \/ (q = r /\ i = n + 1)
  <2> SUFFICES ASSUME NEW q \in Runs, NEW i
               PROVE  i \in {j \in DOMAIN reports'[q] : reports'[q][j].status # "running"} <=>
                      i \in {j \in DOMAIN reports[q] : reports[q][j].status # "running"} \/ (q = r /\ i = n + 1)
    BY <1>10
  <2>1. CASE q = r
    BY <1>5, <1>6, <1>8, <1>9, <2>1
  <2>2. CASE q # r
    BY <1>5, <2>2
  <2>. QED BY <2>1, <2>2
<1>12. \A q \in Runs : \A i \in DOMAIN reports[q] : reports'[q][i] = reports[q][i]
  BY <1>5, <1>6
<1>13. EndLines' = EndLines \cup {l}
  <2>1. EndLines' = UNION {{Line(EndEvent(reports'[q][i].status), q, i) : i \in DOMAIN reports'[q] \ Progress(q)'}
                        : q \in Runs}
    BY DEF EndLines, EndEvent, Line
  <2>2. ASSUME NEW x \in EndLines' PROVE x \in EndLines \cup {l}
    <3>1. PICK q \in Runs : \E i \in DOMAIN reports'[q] \ Progress(q)' : x = Line(EndEvent(reports'[q][i].status), q, i)
      BY <2>1
    <3>2. PICK i \in DOMAIN reports'[q] \ Progress(q)' : x = Line(EndEvent(reports'[q][i].status), q, i)
      BY <3>1
    <3>3. CASE i \in DOMAIN reports[q] \ Progress(q)
      BY <1>12, <3>2, <3>3 DEF EndLines
    <3>4. CASE q = r /\ i = n + 1
      BY <1>5, <1>6, <1>7, <3>2, <3>4
    <3>. QED BY <1>11, <3>3, <3>4
  <2>3. ASSUME NEW x \in EndLines PROVE x \in EndLines'
    <3>1. PICK q \in Runs : \E i \in DOMAIN reports[q] \ Progress(q) : x = Line(EndEvent(reports[q][i].status), q, i)
      BY DEF EndLines
    <3>2. PICK i \in DOMAIN reports[q] \ Progress(q) : x = Line(EndEvent(reports[q][i].status), q, i)
      BY <3>1
    <3>3. i \in DOMAIN reports'[q] \ Progress(q)' /\ x = Line(EndEvent(reports'[q][i].status), q, i)
      BY <1>11, <1>12, <3>2
    <3>. QED BY <2>1, <3>3
  <2>4. l \in EndLines'
    <3>1. n + 1 \in DOMAIN reports'[r] \ Progress(r)' /\ l = Line(EndEvent(reports'[r][n + 1].status), r, n + 1)
      BY <1>5, <1>6, <1>7, <1>11
    <3>. QED BY <2>1, <3>1
  <2>. QED BY <2>2, <2>3, <2>4
<1>14. l \notin Changes
  <2>1. l.event \in {"TrainingCompleted", "TrainingFailed"} /\ l.subject = r /\ l.nth = n + 1
    BY <1>7, LineFields DEF EndEvent
  <2>. QED BY <1>6, <1>9, <2>1, EventsApart DEF Changes
<1>. QED BY <1>4, <1>13, <1>14

\* A version put in place is a line.
LEMMA CutLinesGrow ==
    ASSUME VersionsInv, NEW o \in Operators, NEW v, Install(o, v),
           NEW l, l = Line(CutEvent(cutting[o]), v, Len(cuts) + 1)
    PROVE  CutLines' = CutLines \cup {l} /\ l \notin Changes
<1> DEFINE m == Manifest(o, v)
           n == Len(cuts)
<1>1. cuts' = Append(cuts, m)
  BY DEF Install
<1>2. m.version = v /\ m.parents = cutting[o].parents
  BY DEF Manifest
<1> HIDE DEF m
<1>3. /\ n \in Nat /\ DOMAIN cuts = 1 .. n /\ DOMAIN cuts' = 1 .. n + 1 /\ cuts'[n + 1] = m
      /\ \A i \in 1 .. n : cuts'[i] = cuts[i]
  BY <1>1, AppendOne DEF VersionsInv
<1>4. l = Line(CutEvent(m), m.version, n + 1)
  BY <1>2 DEF CutEvent
<1> HIDE DEF n
<1>5. n + 1 \in 1 .. n + 1 /\ n + 1 \notin 1 .. n /\ \A i : i \in 1 .. n + 1 <=> i = n + 1 \/ i \in 1 .. n
  BY <1>3
<1>6. CutLines' = {Line(CutEvent(cuts'[i]), cuts'[i].version, i) : i \in DOMAIN cuts'}
  BY DEF CutLines, CutEvent, Line
<1>7. CutLines' = CutLines \cup {l}
  <2>1. ASSUME NEW x \in CutLines' PROVE x \in CutLines \cup {l}
    <3>1. PICK i \in DOMAIN cuts' : x = Line(CutEvent(cuts'[i]), cuts'[i].version, i)
      BY <1>6
    <3>2. CASE i = n + 1
      BY <1>3, <1>4, <3>1, <3>2
    <3>3. CASE i \in 1 .. n
      BY <1>3, <3>1, <3>3 DEF CutLines
    <3>. QED BY <1>3, <1>5, <3>2, <3>3
  <2>2. ASSUME NEW x \in CutLines PROVE x \in CutLines'
    <3>1. PICK i \in DOMAIN cuts : x = Line(CutEvent(cuts[i]), cuts[i].version, i)
      BY DEF CutLines
    <3>2. i \in DOMAIN cuts' /\ x = Line(CutEvent(cuts'[i]), cuts'[i].version, i)
      BY <1>3, <1>5, <3>1
    <3>. QED BY <1>6, <3>2
  <2>3. l \in CutLines'
    BY <1>3, <1>4, <1>5, <1>6
  <2>. QED BY <2>1, <2>2, <2>3
<1>8. l \notin Changes
  <2>1. l.event \in {"DatasetCreated", "DatasetDerived"} /\ l.nth = n + 1
    BY <1>4, LineFields DEF CutEvent
  <2>. QED BY <1>3, <1>5, <2>1, EventsApart DEF Changes
<1>. QED BY <1>7, <1>8

LEMMA SameReviewLines == ASSUME decisions' = decisions PROVE ReviewLines' = ReviewLines
BY DEF ReviewLines, Line

LEMMA SameRunLines ==
    ASSUME byId' = byId, reports' = reports PROVE StartLines' = StartLines /\ EndLines' = EndLines
BY DEF StartLines, EndLines, Progress, EndEvent, Line

LEMMA SameCutLines == ASSUME cuts' = cuts PROVE CutLines' = CutLines
BY DEF CutLines, CutEvent, Line

(* Every change has its line: step by step. *)

LEMMA DeletedStay ==
    ASSUME Deleted, \A l : l \in Lines /\ l.event = "DatasetDeleted" <=> l \in Lines' /\ l.event = "DatasetDeleted",
           cuts' = cuts, DOMAIN dirs' = DOMAIN dirs, DOMAIN index' \subseteq DOMAIN dirs
    PROVE  Deleted'
<1>1. \A v, k : Line("DatasetDeleted", v, k) \in Lines <=> Line("DatasetDeleted", v, k) \in Lines'
  BY LineFields
<1>2. \A n \in DOMAIN cuts' : cuts'[n].version \notin DOMAIN dirs' =>
          \E k \in n .. Len(cuts') : Line("DatasetDeleted", cuts'[n].version, k) \in Lines'
  BY <1>1 DEF Deleted
<1>3. \A l \in Lines' : l.event = "DatasetDeleted" /\ l.subject \in DOMAIN dirs' =>
          \E n \in DOMAIN cuts' : n > l.nth /\ cuts'[n].version = l.subject
  BY DEF Deleted
<1>4. \A l \in Lines' : l.event = "DatasetDeleted" => l.nth \in Nat /\ l.nth <= Len(cuts')
  BY DEF Deleted
<1>. QED BY <1>2, <1>3, <1>4 DEF Deleted, Line

LEMMA NothingToTell ==
    ASSUME LinesInv, OwedTyped', LinesOnce', Lines' = Lines, Changes' = Changes,
           cuts' = cuts, DOMAIN dirs' = DOMAIN dirs, DOMAIN index' \subseteq DOMAIN dirs,
           \A o \in Operators : cutting'[o] # NoCut => owed'[o] = NoLine
    PROVE  LinesInv'
<1>1. Deleted /\ {l \in Lines : l.event # "DatasetDeleted"} = Changes
  BY DEF LinesInv
<1>2. Deleted'
  BY <1>1, DeletedStay
<1>3. {l \in Lines' : l.event # "DatasetDeleted"} = Changes'
  BY <1>1
<1>. QED BY <1>2, <1>3, Zenon DEF LinesInv

\* A change and the line it calls for.
LEMMA ChangeToldOnce ==
    ASSUME LinesInv, NEW o \in Operators, Free(o), NEW l, l \notin Changes, l.event # "DatasetDeleted", l # NoLine,
           Owe(o, l), Changes' = Changes \cup {l}
    PROVE  /\ OwedTyped' /\ LinesOnce' /\ Lines' = Lines \cup {l}
           /\ {x \in Lines' : x.event # "DatasetDeleted"} = Changes'
           /\ \A p \in Operators : p # o => owed'[p] = owed[p]
<1>1. l \notin Lines
  BY DEF LinesInv
<1>2. /\ OwedTyped' /\ LinesOnce' /\ Lines' = Lines \cup {l}
      /\ \A p \in Operators : p # o => owed'[p] = owed[p]
  BY <1>1, OweLines DEF LinesInv
<1>3. {x \in Lines' : x.event # "DatasetDeleted"} = {x \in Lines : x.event # "DatasetDeleted"} \cup {l}
  BY <1>2
<1>. QED BY <1>2, <1>3 DEF LinesInv

LEMMA ChangeElsewhere ==
    ASSUME LinesInv, NEW o \in Operators, Free(o), NEW l, l \notin Changes, l.event # "DatasetDeleted", l # NoLine,
           Owe(o, l), Changes' = Changes \cup {l}, cutting[o] = NoCut, UNCHANGED <<index, dirs, cutting, cuts>>
    PROVE  LinesInv'
<1>1. /\ OwedTyped' /\ LinesOnce' /\ Lines' = Lines \cup {l}
      /\ {x \in Lines' : x.event # "DatasetDeleted"} = Changes'
      /\ \A p \in Operators : p # o => owed'[p] = owed[p]
  BY ChangeToldOnce
<1>2. Deleted'
  <2>1. \A x : x \in Lines /\ x.event = "DatasetDeleted" <=> x \in Lines' /\ x.event = "DatasetDeleted"
    BY <1>1
  <2>. QED BY <2>1, DeletedStay DEF LinesInv, Deleted
<1>3. \A p \in Operators : cutting'[p] # NoCut => owed'[p] = NoLine
  BY <1>1 DEF LinesInv
<1>. QED BY <1>1, <1>2, <1>3, Zenon DEF LinesInv

LEMMA InstallTold ==
    ASSUME LinesInv, VersionsInv, NEW o \in Operators, NEW v, Install(o, v), UNCHANGED <<byId, reports>>
    PROVE  LinesInv'
<1> DEFINE l == Line(CutEvent(cutting[o]), v, Len(cuts) + 1)
           m == Manifest(o, v)
           n == Len(cuts)
<1>1. /\ cutting[o] # NoCut /\ ~ Taken(v) /\ Owe(o, l) /\ decisions' = decisions /\ m.version = v
      /\ cuts' = Append(cuts, m) /\ cutting' = [cutting EXCEPT ![o] = NoCut]
      /\ DOMAIN dirs' = DOMAIN dirs \cup {v} /\ DOMAIN index' = DOMAIN index \cup {v}
  BY DEF Install, reviewVars, With, Manifest
<1>2. l.event # "DatasetDeleted" /\ l # NoLine
  BY LineFields DEF CutEvent
<1>3. CutLines' = CutLines \cup {l} /\ l \notin Changes
  BY CutLinesGrow
<1> HIDE DEF l, m
<1>4. Changes' = Changes \cup {l}
  BY <1>1, <1>3, SameReviewLines, SameRunLines DEF Changes
<1>5. Free(o)
  BY <1>1 DEF LinesInv, Free
<1>6. /\ OwedTyped' /\ LinesOnce' /\ Lines' = Lines \cup {l}
      /\ {x \in Lines' : x.event # "DatasetDeleted"} = Changes'
      /\ \A p \in Operators : p # o => owed'[p] = owed[p]
  BY <1>1, <1>2, <1>3, <1>4, <1>5, ChangeToldOnce
<1>7. \A p \in Operators : cutting'[p] # NoCut => owed'[p] = NoLine
  <2>1. cutting'[o] = NoCut /\ \A p \in Operators : p # o => cutting'[p] = cutting[p]
    BY <1>1, Zenon DEF VersionsInv
  <2>. QED BY <1>6, <2>1 DEF LinesInv
<1>8. /\ n \in Nat /\ DOMAIN cuts = 1 .. n /\ DOMAIN cuts' = 1 .. n + 1 /\ cuts'[n + 1] = m
      /\ Len(cuts') = n + 1 /\ \A i \in 1 .. n : cuts'[i] = cuts[i]
  BY <1>1, AppendOne DEF VersionsInv
<1> HIDE DEF n
<1>9. /\ n + 1 \in 1 .. n + 1 /\ \A i : i \in 1 .. n + 1 <=> i = n + 1 \/ i \in 1 .. n
      /\ \A i \in 1 .. n : \A k \in i .. n : k \in i .. n + 1
  BY <1>8
<1>10. \A x \in Lines' : x.event = "DatasetDeleted" => x \in Lines
  BY <1>2, <1>6
<1>11. Deleted'
  <2>1. \A x \in Lines' : x.event = "DatasetDeleted" => x.nth \in Nat /\ x.nth <= n
    BY <1>10 DEF LinesInv, Deleted, n
  <2>2. \A x \in Lines' : x.event = "DatasetDeleted" => x.nth \in Nat /\ x.nth <= n + 1
    BY <1>8, <2>1
  <2>3. ASSUME NEW x \in Lines', x.event = "DatasetDeleted", x.subject \in DOMAIN dirs'
        PROVE  \E i \in DOMAIN cuts' : i > x.nth /\ cuts'[i].version = x.subject
    <3>1. CASE x.subject = v
      <4>1. n + 1 > x.nth
        BY <1>8, <2>1, <2>3
      <4>. QED BY <1>1, <1>8, <1>9, <3>1, <4>1
    <3>2. CASE x.subject # v
      <4>1. PICK i \in DOMAIN cuts : i > x.nth /\ cuts[i].version = x.subject
        BY <1>1, <1>10, <2>3, <3>2 DEF LinesInv, Deleted
      <4>. QED BY <1>8, <1>9, <4>1
    <3>. QED BY <3>1, <3>2
  <2>4. ASSUME NEW i \in DOMAIN cuts', cuts'[i].version \notin DOMAIN dirs'
        PROVE  \E k \in i .. Len(cuts') : Line("DatasetDeleted", cuts'[i].version, k) \in Lines'
    <3>1. i \in 1 .. n
      BY <1>1, <1>8, <1>9, <2>4
    <3>2. cuts'[i] = cuts[i] /\ cuts[i].version \notin DOMAIN dirs
      BY <1>1, <1>8, <2>4, <3>1
    <3>3. PICK k \in i .. n : Line("DatasetDeleted", cuts[i].version, k) \in Lines
      BY <1>8, <3>1, <3>2 DEF LinesInv, Deleted, n
    <3>. QED BY <1>6, <1>8, <1>9, <3>1, <3>2, <3>3
  <2>5. DOMAIN index' \subseteq DOMAIN dirs'
    BY <1>1 DEF LinesInv, Deleted
  <2>. QED BY <1>8, <2>2, <2>3, <2>4, <2>5 DEF Deleted, Line
<1>. QED BY <1>6, <1>7, <1>11, Zenon DEF LinesInv

LEMMA DeleteTold ==
    ASSUME LinesInv, VersionsInv, NEW o \in Operators, cutting[o] = NoCut, NEW v, Delete(o, v),
           UNCHANGED <<byId, reports>>
    PROVE  LinesInv'
<1> DEFINE n == Len(cuts)
           l == Line("DatasetDeleted", v, n)
<1>1. /\ Free(o) /\ v \in DOMAIN index /\ Owe(o, l) /\ UNCHANGED <<decisions, cutting, cuts>>
      /\ DOMAIN dirs' = DOMAIN dirs \ {v} /\ DOMAIN index' = DOMAIN index \ {v}
  BY DEF Delete, reviewVars, Without
<1>2. n \in Nat /\ DOMAIN cuts = 1 .. n
  BY LenProperties DEF VersionsInv
<1>3. l.event = "DatasetDeleted" /\ l # NoLine /\ l.subject = v /\ l.nth = n
  BY LineFields
<1>4. l \notin Lines
  <2>1. \A i \in 1 .. n : ~ (i > n)
    BY <1>2
  <2>. QED BY <1>1, <1>2, <1>3, <2>1 DEF LinesInv, Deleted
<1>5. /\ OwedTyped' /\ LinesOnce' /\ Lines' = Lines \cup {l}
      /\ \A p \in Operators : p # o => owed'[p] = owed[p]
  BY <1>1, <1>3, <1>4, OweLines DEF LinesInv
<1>6. {x \in Lines' : x.event # "DatasetDeleted"} = Changes'
  <2>1. Changes' = Changes
    BY <1>1, SameReviewLines, SameRunLines, SameCutLines DEF Changes
  <2>. QED BY <1>3, <1>5, <2>1 DEF LinesInv
<1>7. \A p \in Operators : cutting'[p] # NoCut => owed'[p] = NoLine
  BY <1>1, <1>5 DEF LinesInv
<1>8. Deleted'
  <2>1. \A x \in Lines' : x.event = "DatasetDeleted" => x.nth \in Nat /\ x.nth <= n
    BY <1>2, <1>3, <1>5 DEF LinesInv, Deleted
  <2>2. ASSUME NEW x \in Lines', x.event = "DatasetDeleted", x.subject \in DOMAIN dirs'
        PROVE  \E i \in DOMAIN cuts : i > x.nth /\ cuts[i].version = x.subject
    BY <1>1, <1>3, <1>5, <2>2 DEF LinesInv, Deleted
  <2>3. ASSUME NEW i \in DOMAIN cuts, cuts[i].version \notin DOMAIN dirs'
        PROVE  \E k \in i .. n : Line("DatasetDeleted", cuts[i].version, k) \in Lines'
    <3>1. CASE cuts[i].version = v
      <4>1. n \in i .. n
        BY <1>2
      <4>. QED BY <1>5, <3>1, <4>1
    <3>2. CASE cuts[i].version # v
      BY <1>1, <1>5, <2>3, <3>2 DEF LinesInv, Deleted
    <3>. QED BY <3>1, <3>2
  <2>4. DOMAIN index' \subseteq DOMAIN dirs'
    BY <1>1 DEF LinesInv, Deleted
  <2>. QED BY <1>1, <2>1, <2>2, <2>3, <2>4 DEF Deleted, Line
<1>. QED BY <1>5, <1>6, <1>7, <1>8, Zenon DEF LinesInv

(* The curation side together. *)

CurationInv ==
    /\ LogType /\ LogInv
    /\ ReviewType /\ ReviewInv
    /\ RowsInv /\ VersionsInv
    /\ TrainingType /\ RunInv
    /\ LinesInv

LEMMA CurationInitInv == CurationInit => CurationInv
<1> SUFFICES ASSUME CurationInit PROVE CurationInv
  OBVIOUS
<1>1. AuditInit /\ ReviewInit /\ DatasetInit /\ TrainingInit
  BY DEF CurationInit
<1>2. LogType /\ LogInv
  <2>1. auditFile = <<>> /\ newline = TRUE /\ appended = <<>> /\ Len(appended) = 0
    BY <1>1 DEF AuditInit
  <2>2. <<>> \in Seq(Seq(Nat)) /\ <<>> \in Seq(Nat) /\ \A x : x \notin DOMAIN <<>>
    BY EmptySeq
  <2>3. LogType
    <3>1. \E X : auditFile \in Seq(Seq(X)) /\ \A i \in DOMAIN auditFile : auditFile[i] # <<>>
      BY <2>1, <2>2
    <3>2. \E X : appended \in Seq(X) /\ \A i \in DOMAIN appended : appended[i].how \in Outcomes
      BY <2>1, <2>2
    <3>. QED BY <2>1, <3>1, <3>2 DEF LogType
  <2>4. Readable = {}
    BY <2>1, <2>2 DEF Readable
  <2>5. ReadInOrder
    <3> DEFINE at_ == [i \in {} |-> 0]
    <3>1. at_ \in [Readable -> DOMAIN appended]
      BY <2>4
    <3>. QED BY <2>4, <3>1 DEF ReadInOrder
  <2>6. Owing = 0
    BY <2>1 DEF Owing
  <2>7. Cardinality(Readable) \in Nat /\ \A H : Cardinality(Ended(H, Len(appended))) \in Nat
    BY <2>1, <2>3, LogFacts
  <2>. QED BY <2>1, <2>3, <2>5, <2>6, <2>7 DEF LogInv
<1>3. ReviewType /\ ReviewInv
  <2>1. ReviewType
    <3>1. <<>> \in Seq(Verdict) /\ <<>> \in Seq(Decision)
      BY EmptySeq
    <3>2. byFlow \in [FlowIds -> Review \cup {NoReview}] /\ files = byFlow
      BY <1>1 DEF ReviewInit
    <3>3. decisions \in [FlowIds -> Seq(Decision)]
      BY <1>1, <3>1 DEF ReviewInit
    <3>. QED BY <1>1, <3>1, <3>2, <3>3 DEF ReviewInit, ReviewType
  <2>2. ReviewInv
    BY <1>1 DEF ReviewInit, ReviewInv
  <2>. QED BY <2>1, <2>2
<1>4. RowsInv /\ VersionsInv
  <2>1. /\ DOMAIN index = {} /\ DOMAIN dirs = {} /\ cuts = <<>>
        /\ cutting = [o \in Operators |-> NoCut]
    BY <1>1 DEF DatasetInit, Empty
  <2>2. cuts \in Seq(Nat) /\ DOMAIN cuts = {}
    BY <2>1, EmptySeq
  <2>. QED BY <2>1, <2>2 DEF RowsInv, VersionsInv
<1>5. TrainingType /\ RunInv
  <2>1. <<>> \in Seq(Report)
    BY EmptySeq
  <2>2. TrainingType
    BY <1>1, <2>1 DEF TrainingInit, TrainingType
  <2>3. RunInv
    BY <1>1 DEF TrainingInit, RunInv
  <2>. QED BY <2>2, <2>3
<1>6. LinesInv
  <2>1. /\ \A o \in Operators : owed[o] = NoLine /\ cutting[o] = NoCut
        /\ OwedTyped /\ lost = {} /\ DOMAIN appended = {} /\ DOMAIN cuts = {} /\ DOMAIN index = {}
    <3>1. DOMAIN <<>> = {}
      BY EmptySeq
    <3>2. OwedTyped /\ \A o \in Operators : owed[o] = NoLine /\ cutting[o] = NoCut
      BY <1>1 DEF AuditInit, DatasetInit, OwedTyped
    <3>. QED BY <1>1, <3>1, <3>2 DEF AuditInit, DatasetInit, Empty
  <2>2. Lines = {} /\ LinesOnce
    BY <2>1 DEF Lines, Appended, LinesOnce, Free
  <2>3. Changes = {}
    <3>1. \A f \in FlowIds : DOMAIN decisions[f] = {}
      BY <1>1, EmptySeq DEF ReviewInit
    <3>2. \A r \in Runs : byId[r] = NoRun /\ DOMAIN reports[r] = {}
      BY <1>1, EmptySeq DEF TrainingInit
    <3>3. ReviewLines = {} /\ StartLines = {} /\ EndLines = {} /\ CutLines = {}
      BY <2>1, <3>1, <3>2 DEF ReviewLines, StartLines, EndLines, CutLines
    <3>. QED BY <3>3 DEF Changes
  <2>4. Deleted
    BY <2>1, <2>2 DEF Deleted
  <2>. QED BY <2>1, <2>2, <2>3, <2>4 DEF LinesInv
<1>. QED BY <1>2, <1>3, <1>4, <1>5, <1>6 DEF CurationInv

\* A change in one store reaches the datasets' rows through the decisions alone.
LEMMA DatasetsKept ==
    ASSUME ReviewType, Kept, RowsInv, VersionsInv, UNCHANGED datasetVars
    PROVE  RowsInv' /\ VersionsInv'
<1>1. UNCHANGED <<index, dirs, cutting, asked, cuts>>
  BY DEF datasetVars
<1>2. RowsInv'
  BY <1>1, RowsKept
<1>3. cutting' = [o \in Operators |-> cutting'[o]]
  BY <1>1, Zenon DEF VersionsInv
<1>. QED BY <1>1, <1>2, <1>3, VersionsKept

LEMMA TrainingStays ==
    ASSUME TrainingType, RunInv, UNCHANGED runVars
    PROVE  TrainingType' /\ RunInv'
<1>1. byId' = byId /\ UNCHANGED <<runFiles, reports>> /\ now' = now
  BY DEF runVars
<1>. QED BY <1>1, RunsKept

LEMMA LinesKept ==
    ASSUME LinesInv, UNCHANGED <<decisions, byId, reports, datasetVars, appended, owed, lost>>
    PROVE  LinesInv'
<1>1. UNCHANGED <<index, dirs, cutting, cuts>>
  BY DEF datasetVars
<1>2. Changes' = Changes
  BY <1>1, SameReviewLines, SameRunLines, SameCutLines DEF Changes
<1>3. OwedTyped' /\ LinesOnce' /\ Lines' = Lines
  BY LinesStay DEF LinesInv
<1>. QED BY <1>1, <1>2, <1>3, NothingToTell DEF LinesInv, Deleted

LEMMA CurationNextInv == CurationInv /\ [CurationNext]_curationVars => CurationInv'
<1> SUFFICES ASSUME CurationInv, [CurationNext]_curationVars PROVE CurationInv'
  OBVIOUS
<1> USE DEF CurationInv
<1>1. CASE StoreStep
  <2>1. UNCHANGED <<datasetVars, runVars>>
    BY <1>1 DEF StoreStep
  <2>2. ReviewType' /\ ReviewInv' /\ Kept /\ UNCHANGED auditVars
    <3>1. PICK f \in FlowIds : (\E c \in Classes : Classify(f, c)) \/ EvictRecord(f)
      BY <1>1 DEF StoreStep
    <3>2. CASE \E c \in Classes : Classify(f, c)
      BY <3>2, ClassifyStep DEF Classify
    <3>3. CASE EvictRecord(f)
      <4>1. UNCHANGED <<boot, verdicts, byFlow, files, decisions>> /\ records' \subseteq FlowIds /\ UNCHANGED auditVars
        BY <3>3 DEF EvictRecord, reviewVars, ReviewType
      <4>2. ReviewType'
        BY <4>1 DEF ReviewType
      <4>3. ReviewInv'
        BY <4>1 DEF ReviewInv, HistoryOf
      <4>. QED BY <4>1, <4>2, <4>3 DEF Kept
    <3>. QED BY <3>1, <3>2, <3>3
  <2>3. LogType' /\ LogInv'
    BY <2>2, LogKept DEF auditVars
  <2>4. UNCHANGED <<decisions, byId, reports, datasetVars, appended, owed, lost>>
    <3>1. decisions' = decisions
      BY <1>1 DEF StoreStep, Classify, EvictRecord, reviewVars
    <3>. QED BY <2>1, <2>2, <3>1 DEF runVars, auditVars
  <2>. QED BY <2>1, <2>2, <2>3, <2>4, DatasetsKept, TrainingStays, LinesKept
<1>2. CASE Time
  <2>1. UNCHANGED <<storeVars, reviewVars, datasetVars, byId, runFiles, reports, auditVars>> /\ now' = now + 1
    BY <1>2 DEF Time, Tick, Elsewhere
  <2>2. LogType' /\ LogInv'
    BY <2>1, LogKept DEF auditVars
  <2>3. ReviewType' /\ ReviewInv' /\ Kept
    BY <2>1, ReviewKept
  <2>4. LinesInv'
    BY <2>1, LinesKept DEF auditVars, reviewVars
  <2>. QED BY <2>1, <2>2, <2>3, <2>4, DatasetsKept, RunsKept
<1>3. CASE StoresRestart
  <2>1. AuditRestart /\ ReviewRestart /\ DatasetRestart /\ TrainingRestart
    BY <1>3 DEF StoresRestart
  <2>2. LogType' /\ LogInv'
    BY <2>1, LogKept DEF AuditRestart
  <2>3. ReviewType' /\ ReviewInv' /\ Kept
    BY <2>1, ReviewRestartStep
  <2>4. TrainingType' /\ RunInv'
    BY <2>1, RunsKept DEF TrainingRestart
  <2>5. LinesInv'
    <3>1. /\ decisions' = decisions /\ cuts' = cuts /\ dirs' = dirs /\ reports' = reports /\ byId' = byId
          /\ DOMAIN index' \subseteq DOMAIN dirs /\ \A o \in Operators : cutting'[o] = NoCut
      BY <2>1 DEF ReviewRestart, DatasetRestart, TrainingRestart, TrainingType, Readable_
    <3>2. Changes' = Changes
      BY <3>1, SameReviewLines, SameRunLines, SameCutLines DEF Changes
    <3>3. OwedTyped' /\ LinesOnce' /\ Lines' = Lines
      BY <2>1, LostLines DEF LinesInv
    <3>. QED BY <3>1, <3>2, <3>3, NothingToTell
  <2>. QED BY <2>1, <2>2, <2>3, <2>4, <2>5, DatasetRestartStep
<1>4. ASSUME NEW o \in Operators, cutting[o] = NoCut, HandleReviewWrite(o) PROVE CurationInv'
  <2>1. PICK f \in FlowIds, s \in ReviewStates, l \in Tags : Put(o, f, s, l)
    BY <1>4 DEF HandleReviewWrite, Tags
  <2>2. UNCHANGED <<datasetVars, runVars>>
    BY <1>4 DEF HandleReviewWrite
  <2>3. ReviewType' /\ ReviewInv' /\ Kept
    BY <2>1, PutStep
  <2>4. LogType' /\ LogInv'
    <3>1. UNCHANGED <<auditFile, newline, appended>>
      BY <2>1 DEF Put, Owe
    <3>. QED BY <3>1, LogKept
  <2>5. LinesInv'
    <3> DEFINE line == Line("ReviewUpdated", f, Len(decisions[f]) + 1)
    <3>1. Free(o) /\ Owe(o, line) /\ UNCHANGED <<index, dirs, cutting, cuts, byId, reports>>
      BY <2>1, <2>2 DEF Put, datasetVars, runVars
    <3>2. line.event # "DatasetDeleted" /\ line # NoLine
      BY LineFields
    <3>3. ReviewLines' = ReviewLines \cup {line} /\ line \notin Changes
      BY <2>1, ReviewLinesGrow
    <3> HIDE DEF line
    <3>4. Changes' = Changes \cup {line}
      BY <3>1, <3>3, SameRunLines, SameCutLines DEF Changes
    <3>. QED BY <1>4, <3>1, <3>2, <3>3, <3>4, ChangeElsewhere
  <2>. QED BY <2>2, <2>3, <2>4, <2>5, DatasetsKept, TrainingStays
<1>5. ASSUME NEW o \in Operators, HandleDatasetCreate(o) \/ (cutting[o] = NoCut /\ HandleDatasetDelete(o))
      PROVE  CurationInv'
  <2>1. UNCHANGED <<storeVars, reviewVars, runVars, auditFile, newline, appended>>
    BY <1>5 DEF HandleDatasetCreate, HandleDatasetDelete, Cut, Install, InstallRefused, Delete, DeleteFails,
                auditVars, Owe
  <2>2. ReviewType' /\ ReviewInv' /\ Kept
    BY <2>1, ReviewKept
  <2>3. LogType' /\ LogInv'
    BY <2>1, LogKept
  <2>4. RowsInv' /\ VersionsInv'
    <3>1. CASE \E sel \in Selections, p \in Versions \cup {0} : Cut(o, sel, p)
      BY <3>1, CutStep
    <3>2. CASE \E v \in Versions : Install(o, v)
      BY <3>2, InstallStep
    <3>3. CASE \E v \in Versions : InstallRefused(o, v)
      <4>1. UNCHANGED <<index, dirs, asked, cuts>> /\ cutting' = [cutting EXCEPT ![o] = NoCut]
        BY <3>3 DEF InstallRefused
      <4>2. cutting' = [p \in Operators |-> cutting'[p]] /\ \A p \in Operators : cutting'[p] \in {cutting[p], NoCut}
        BY <4>1, Zenon DEF VersionsInv
      <4>. QED BY <2>2, <4>1, <4>2, RowsKept, VersionsKept
    <3>4. CASE HandleDatasetDelete(o)
      <4>1. PICK v : Delete(o, v) \/ \E left \in SUBSET FilesOf(v) : DeleteFails(v, left)
        BY <3>4 DEF HandleDatasetDelete
      <4>. QED BY <4>1, DeleteStep
    <3>. QED BY <1>5, <3>1, <3>2, <3>3, <3>4 DEF HandleDatasetCreate
  <2>5. LinesInv'
    <3>1. decisions' = decisions /\ byId' = byId /\ reports' = reports
      BY <2>1 DEF reviewVars, runVars
    <3>2. CASE \E v \in Versions : Install(o, v)
      BY <3>1, <3>2, InstallTold
    <3>3. CASE cutting[o] = NoCut /\ \E v \in Versions : Delete(o, v)
      BY <3>1, <3>3, DeleteTold
    <3>4. ASSUME UNCHANGED <<cuts, auditVars>>, DOMAIN dirs' = DOMAIN dirs, index' = index,
                 \A p \in Operators : cutting'[p] # NoCut => owed[p] = NoLine
          PROVE  LinesInv'
      <4>1. Changes' = Changes
        BY <3>1, <3>4, SameReviewLines, SameRunLines, SameCutLines DEF Changes
      <4>2. OwedTyped' /\ LinesOnce' /\ Lines' = Lines /\ owed' = owed
        BY <3>4, LinesStay DEF LinesInv, auditVars
      <4>. QED BY <3>4, <4>1, <4>2, NothingToTell DEF LinesInv, Deleted
    <3>5. ASSUME NEW c, cutting' = [cutting EXCEPT ![o] = c], c # NoCut => Free(o),
                 UNCHANGED <<index, dirs, cuts, auditVars>>
          PROVE  LinesInv'
      <4>1. cutting'[o] = c /\ \A p \in Operators : p # o => cutting'[p] = cutting[p]
        BY <3>5, Zenon DEF VersionsInv
      <4>2. \A p \in Operators : cutting'[p] # NoCut => owed[p] = NoLine
        BY <3>5, <4>1 DEF LinesInv, Free
      <4>. QED BY <3>4, <3>5, <4>2
    <3>6. CASE \E sel \in Selections, p \in Versions \cup {0} : Cut(o, sel, p)
      <4>1. /\ Free(o) /\ UNCHANGED <<index, dirs, cuts, auditVars>>
            /\ \E c : cutting' = [cutting EXCEPT ![o] = c]
        BY <3>6 DEF Cut
      <4>. QED BY <3>5, <4>1
    <3>7. CASE \E v \in Versions : InstallRefused(o, v)
      <4>1. cutting' = [cutting EXCEPT ![o] = NoCut] /\ UNCHANGED <<index, dirs, cuts, auditVars>>
        BY <3>7 DEF InstallRefused
      <4>. QED BY <3>5, <4>1
    <3>8. CASE \E v \in Versions : \E left \in SUBSET FilesOf(v) : DeleteFails(v, left)
      <4>1. PICK v \in Versions : \E left \in SUBSET FilesOf(v) : DeleteFails(v, left)
        BY <3>8
      <4>2. PICK left \in SUBSET FilesOf(v) : DeleteFails(v, left)
        BY <4>1
      <4>3. DOMAIN dirs' = DOMAIN dirs \cup {v} /\ v \in DOMAIN index
            /\ UNCHANGED <<index, cuts, cutting, auditVars>>
        BY <4>2 DEF DeleteFails, With
      <4>4. v \in DOMAIN dirs
        BY <4>3 DEF LinesInv, Deleted
      <4>. QED BY <3>4, <4>3, <4>4 DEF LinesInv
    <3>. QED BY <1>5, <3>2, <3>3, <3>6, <3>7, <3>8 DEF HandleDatasetCreate, HandleDatasetDelete
  <2>. QED BY <2>1, <2>2, <2>3, <2>4, <2>5, TrainingStays
<1>6. ASSUME NEW o \in Operators, cutting[o] = NoCut,
             HandleTrainingCreate(o) \/ HandleTrainingProgress(o) \/ HandleTrainingFail(o)
      PROVE  CurationInv'
  <2>1. UNCHANGED <<storeVars, reviewVars, datasetVars>>
    BY <1>6 DEF HandleTrainingCreate, HandleTrainingProgress, HandleTrainingFail, Elsewhere
  <2>2. UNCHANGED <<auditFile, newline, appended>> /\ TrainingType' /\ RunInv'
    <3>1. CASE \E r \in Runs : Start(o, r)
      BY <3>1, StartStep DEF Start, Owe
    <3>2. CASE \E r \in Runs : Terminate(o, r, "failed")
      BY <3>2, TerminateStep DEF Terminate, Owe
    <3>3. CASE \E r \in Runs : Terminate(o, r, "completed")
      BY <3>3, TerminateStep DEF Terminate, Owe
    <3>4. CASE \E r \in Runs : \E e \in Epochs : AppendProgress(r, e)
      BY <3>4, ProgressStep DEF AppendProgress, auditVars
    <3>. QED BY <1>6, <3>1, <3>2, <3>3, <3>4
             DEF HandleTrainingCreate, HandleTrainingProgress, HandleTrainingFail
  <2>3. LogType' /\ LogInv'
    BY <2>2, LogKept
  <2>4. ReviewType' /\ ReviewInv' /\ Kept
    BY <2>1, ReviewKept
  <2>5. LinesInv'
    <3>1. decisions' = decisions /\ UNCHANGED <<index, dirs, cutting, cuts>>
      BY <2>1 DEF reviewVars, datasetVars
    <3>2. ReviewLines' = ReviewLines /\ CutLines' = CutLines
      BY <3>1, SameReviewLines, SameCutLines
    <3>3. CASE \E r \in Runs : Start(o, r)
      <4>1. PICK r \in Runs : Start(o, r)
        BY <3>3
      <4> DEFINE line == Line("TrainingStarted", r, 0)
      <4>2. Free(o) /\ Owe(o, line)
        BY <4>1 DEF Start
      <4>3. line.event # "DatasetDeleted" /\ line # NoLine
        BY LineFields
      <4>4. StartLines' = StartLines \cup {line} /\ EndLines' = EndLines /\ line \notin Changes
        BY <4>1, StartLinesGrow
      <4> HIDE DEF line
      <4>5. Changes' = Changes \cup {line}
        BY <3>2, <4>4 DEF Changes
      <4>. QED BY <1>6, <3>1, <4>2, <4>3, <4>4, <4>5, ChangeElsewhere
    <3>4. ASSUME NEW r \in Runs, NEW s \in {"completed", "failed"}, Terminate(o, r, s) PROVE LinesInv'
      <4> DEFINE line == Line(EndEvent(s), r, Len(reports[r]) + 1)
      <4>2. Free(o) /\ Owe(o, line)
        BY <3>4 DEF Terminate
      <4>3. line.event # "DatasetDeleted" /\ line # NoLine
        BY LineFields DEF EndEvent
      <4>4. StartLines' = StartLines /\ EndLines' = EndLines \cup {line} /\ line \notin Changes
        BY <3>4, EndLinesGrow
      <4> HIDE DEF line
      <4>5. Changes' = Changes \cup {line}
        BY <3>2, <4>4 DEF Changes
      <4>. QED BY <1>6, <3>1, <4>2, <4>3, <4>4, <4>5, ChangeElsewhere
    <3>5. CASE \E r \in Runs : \E e \in Epochs : AppendProgress(r, e)
      <4>1. PICK r \in Runs : \E e \in Epochs : AppendProgress(r, e)
        BY <3>5
      <4>2. PICK e \in Epochs : AppendProgress(r, e)
        BY <4>1
      <4>3. Changes' = Changes
        BY <3>2, <4>2, ProgressLines DEF Changes
      <4>4. UNCHANGED <<appended, owed, lost>>
        BY <4>2 DEF AppendProgress, auditVars
      <4>5. OwedTyped' /\ LinesOnce' /\ Lines' = Lines
        BY <4>4, LinesStay DEF LinesInv
      <4>. QED BY <3>1, <4>3, <4>4, <4>5, NothingToTell DEF LinesInv, Deleted
    <3>6. \/ \E r \in Runs : Start(o, r) \/ Terminate(o, r, "failed") \/ Terminate(o, r, "completed")
          \/ \E r \in Runs : \E e \in Epochs : AppendProgress(r, e)
      BY <1>6 DEF HandleTrainingCreate, HandleTrainingProgress, HandleTrainingFail
    <3>. QED BY <3>3, <3>4, <3>5, <3>6
  <2>. QED BY <2>1, <2>2, <2>3, <2>4, <2>5, DatasetsKept
<1>7. ASSUME NEW o \in Operators, WriteLine(o) PROVE CurationInv'
  <2>1. UNCHANGED <<storeVars, reviewVars, datasetVars, runVars>>
    BY <1>7 DEF WriteLine, Elsewhere
  <2>2. PICK how \in Outcomes : LogSubject(o, how)
    BY <1>7 DEF WriteLine
  <2>3. LogType' /\ LogInv'
    BY <2>2, LogSubjectStep
  <2>4. ReviewType' /\ ReviewInv' /\ Kept
    BY <2>1, ReviewKept
  <2>5. LinesInv'
    <3>1. UNCHANGED <<decisions, byId, reports, index, dirs, cutting, cuts>>
      BY <2>1 DEF reviewVars, runVars, datasetVars
    <3>2. Changes' = Changes
      BY <3>1, SameReviewLines, SameRunLines, SameCutLines DEF Changes
    <3>3. OwedTyped' /\ LinesOnce' /\ Lines' = Lines /\ \A p \in Operators : owed'[p] \in {owed[p], NoLine}
      BY <2>2, LogLines DEF LinesInv
    <3>. QED BY <3>1, <3>2, <3>3, NothingToTell DEF LinesInv, Deleted
  <2>. QED BY <2>1, <2>3, <2>4, <2>5, DatasetsKept, TrainingStays
<1>8. CASE UNCHANGED curationVars
  <2>1. UNCHANGED <<storeVars, reviewVars, datasetVars, runVars, auditVars>>
    BY <1>8 DEF curationVars
  <2>2. LogType' /\ LogInv'
    BY <2>1, LogKept DEF auditVars
  <2>3. ReviewType' /\ ReviewInv' /\ Kept
    BY <2>1, ReviewKept
  <2>4. LinesInv'
    BY <2>1, LinesKept DEF reviewVars, runVars, auditVars
  <2>. QED BY <2>1, <2>2, <2>3, <2>4, DatasetsKept, TrainingStays
<1>. QED BY <1>1, <1>2, <1>3, <1>4, <1>5, <1>6, <1>7, <1>8 DEF CurationNext

\* The trails tell what happened, over any number of restarts, racing requests and appends cut
\* short: a review is the decisions made of its flow, a training run the reports it accepted;
\* each of them, and each version cut or deleted, has one line - appended, owed by its request,
\* or lost to a stop that came first; and the log read back loses no more than the fragments
\* cost (review.go:455, training.go:250, datasets.go:252, audit.go:137).
THEOREM TrailsAlwaysTell == CurationSpec => []TrailsTellWhatHappened
<1>1. CurationInv => TrailsTellWhatHappened
  BY LogReadable, ReviewsTrail, RunsTrail, LinesTold DEF CurationInv, TrailsTellWhatHappened
<1>. QED BY <1>1, CurationInitInv, CurationNextInv, PTL DEF CurationSpec

\* An operator's work stands: a version nobody ran a delete on is listed and complete after any
\* crash, and a dataset that says its labels are human has every one of them from a decision
\* (dataset.go:411, reviewed.go:16).
THEOREM OperatorWorkAlwaysStands == CurationSpec => []OperatorWorkStands
<1>1. CurationInv => OperatorWorkStands
  BY WorkStands DEF CurationInv
<1>. QED BY <1>1, CurationInitInv, CurationNextInv, PTL DEF CurationSpec

\* No request ever writes into a version directory that is there, whoever lists it: a directory
\* only loses files, and to a delete alone (dataset.go:494).
THEOREM VersionsAreImmutable == CurationSpec => VersionsImmutable
<1>1. ASSUME [CurationNext]_curationVars, NEW v \in DOMAIN dirs, v \in DOMAIN dirs'
      PROVE  dirs'[v] \subseteq dirs[v]
  <2>1. CASE dirs' = dirs
    BY <2>1
  <2>2. CASE \E o \in Operators, w \in Versions : Install(o, w)
    <3>1. PICK o \in Operators, w \in Versions : ~ Taken(w) /\ dirs' = With(dirs, w, Complete(Manifest(o, w)))
      BY <2>2 DEF Install
    <3>2. v # w
      BY <3>1 DEF Taken
    <3>. QED BY <3>1, <3>2 DEF With
  <2>3. CASE \E o \in Operators, w \in Versions : Delete(o, w)
    <3>1. PICK w \in Versions : dirs' = Without(dirs, w)
      BY <2>3 DEF Delete
    <3>2. v \in DOMAIN dirs \ {w} /\ dirs'[v] = dirs[v]
      BY <1>1, <3>1 DEF Without
    <3>. QED BY <3>2
  <2>4. CASE \E w \in Versions : \E left \in SUBSET FilesOf(w) : DeleteFails(w, left)
    <3>1. PICK w \in Versions : \E left \in SUBSET FilesOf(w) : DeleteFails(w, left)
      BY <2>4
    <3>4. PICK left \in SUBSET FilesOf(w) : dirs' = With(dirs, w, left)
      BY <3>1 DEF DeleteFails
    <3>2. CASE v = w
      <4>1. dirs'[v] = left /\ FilesOf(w) = dirs[v]
        BY <1>1, <3>4, <3>2 DEF With, FilesOf
      <4>. QED BY <3>4, <4>1
    <3>3. CASE v # w
      <4>1. dirs'[v] = dirs[v]
        BY <1>1, <3>4, <3>3 DEF With
      <4>. QED BY <4>1
    <3>. QED BY <3>2, <3>3
  <2>5. ASSUME dirs' # dirs
        PROVE  \/ \E o \in Operators, w \in Versions : Install(o, w) \/ Delete(o, w)
               \/ \E w \in Versions : \E left \in SUBSET FilesOf(w) : DeleteFails(w, left)
    <3>1. CurationNext /\ datasetVars' # datasetVars
      BY <1>1, <2>5 DEF curationVars, datasetVars
    <3>2. ~ StoreStep /\ ~ Time /\ ~ StoresRestart
      BY <2>5, <3>1 DEF StoreStep, Time, Elsewhere, StoresRestart, DatasetRestart
    <3>3. PICK o \in Operators :
            \/ HandleReviewWrite(o) \/ HandleDatasetCreate(o) \/ HandleDatasetDelete(o)
            \/ HandleTrainingCreate(o) \/ HandleTrainingProgress(o) \/ HandleTrainingFail(o)
            \/ WriteLine(o)
      BY <3>1, <3>2 DEF CurationNext
    <3>4. HandleDatasetCreate(o) \/ HandleDatasetDelete(o)
      BY <3>1, <3>3 DEF HandleReviewWrite, HandleTrainingCreate, HandleTrainingProgress, HandleTrainingFail,
                        WriteLine, Elsewhere
    <3>5. CASE HandleDatasetCreate(o)
      BY <2>5, <3>5 DEF HandleDatasetCreate, Cut, InstallRefused
    <3>6. CASE HandleDatasetDelete(o)
      BY <3>6 DEF HandleDatasetDelete
    <3>. QED BY <3>4, <3>5, <3>6
  <2>. QED BY <2>1, <2>2, <2>3, <2>4, <2>5
<1>2. [CurationNext]_curationVars => [\A v \in DOMAIN dirs : v \in DOMAIN dirs' => dirs'[v] \subseteq dirs[v]]_dirs
  BY <1>1
<1>. QED BY <1>2, PTL DEF CurationSpec, VersionsImmutable
=============================================================================
