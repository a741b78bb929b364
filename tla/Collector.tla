----------------------------- MODULE Collector -----------------------------
(***************************************************************************)
(* capture.Collector (internal/capture/collector.go): sensors dial in, each*)
(* accepted connection is served by a goroutine of its own that registers a*)
(* row with the capture manager and a peer with the collector, waits for   *)
(* the session to end, and takes both away again.  An operator can delete  *)
(* the row meanwhile (DELETE /api/v1/captures/{name}), and a sensor that   *)
(* lost its connection dials again while the old one is still being served.*)
(*                                                                         *)
(* The manager is seen through Add and Remove only (CaptureManager models  *)
(* it): row is its name -> source map; a row may also be a capture of the  *)
(* daemon's own, which has the name first.                                 *)
(***************************************************************************)
EXTENDS Naturals, FiniteSets

CONSTANTS
    Conns,      \* bound: connections that dial in, each with its own session
    Names,      \* row names
    NameOf,     \* sensor id a connection reports
    AltOf,      \* <sensor id>#<session suffix>, tried when that name is taken
    MaxSensors,        \* max_sensors
    Slack,      \* maxHandshakeSlack
    Captures,   \* names under which the daemon's own captures are registered
    Local,      \* such a capture's row
    None

ASSUME CollectorAssumption ==
    /\ IsFiniteSet(Conns) /\ {None, Local} \cap Conns = {} /\ Captures \subseteq Names
    /\ NameOf \in [Conns -> Names] /\ AltOf \in [Conns -> Names]
    /\ MaxSensors \in Nat \ {0} /\ Slack \in Nat

VARIABLES
    pc,         \* where the serve goroutine of each connection is
    regName,    \* regName of serve: the name it got
    row,        \* the manager's rows: name -> session of that connection, or Local
    peers,      \* Collector.peers: name -> connection
    live,       \* sessions whose Done channel is not closed
    halted,    \* sessions that were cancelled or closed
    ctx,        \* the daemon's context is cancelled
    listener    \* open, closed, or Run has returned

vars == <<pc, regName, row, peers, live, halted, ctx, listener>>

InServe == {c \in Conns : pc[c] \notin {"new", "refused", "gone"}}
Enlisted == {n \in Names : peers[n] # None}

Init ==
    /\ pc = [c \in Conns |-> "new"] /\ regName = [c \in Conns |-> None]
    /\ row = [n \in Names |-> IF n \in Captures THEN Local ELSE None]
    /\ peers = [n \in Names |-> None]
    /\ live = {} /\ halted = {} /\ ctx = FALSE /\ listener = "open"

At(c, label) == pc[c] = label
Goto(c, label) == pc' = [pc EXCEPT ![c] = label]

-----------------------------------------------------------------------------
(* Run: the accept loop. *)

AtCapacity == Cardinality(Enlisted) >= MaxSensors \/ Cardinality(InServe) >= MaxSensors + Slack

Accept(c) ==
    /\ At(c, "new") /\ listener = "open"
    /\ Goto(c, IF AtCapacity THEN "refused" ELSE "handshaking")
    /\ UNCHANGED <<regName, row, peers, live, halted, ctx, listener>>

CloseListener ==
    /\ ctx /\ listener = "open"
    /\ listener' = "closed"
    /\ UNCHANGED <<pc, regName, row, peers, live, halted, ctx>>

RunReturn ==
    /\ listener = "closed" /\ InServe = {}
    /\ listener' = "returned"
    /\ UNCHANGED <<pc, regName, row, peers, live, halted, ctx>>

-----------------------------------------------------------------------------
(* serve: one connection. *)

\* TLS and SYNPOIP handshakes and the checks of what the sensor accepted; both
\* handshakes have a deadline, so one of these two happens.
HandshakeFails(c) ==
    /\ At(c, "handshaking") /\ Goto(c, "gone")
    /\ UNCHANGED <<regName, row, peers, live, halted, ctx, listener>>

HandshakeDone(c) ==
    /\ At(c, "handshaking") /\ Goto(c, "accepted")
    /\ UNCHANGED <<regName, row, peers, live, halted, ctx, listener>>

FreeName(c) ==
    IF row[NameOf[c]] = None THEN NameOf[c]
    ELSE IF row[AltOf[c]] = None THEN AltOf[c] ELSE None

Register(c) ==
    /\ At(c, "accepted") /\ FreeName(c) # None
    /\ Goto(c, "registered")
    /\ regName' = [regName EXCEPT ![c] = FreeName(c)]
    /\ row' = [row EXCEPT ![FreeName(c)] = c]
    /\ live' = live \cup {c}
    /\ UNCHANGED <<peers, halted, ctx, listener>>

RegisterRefused(c) ==
    /\ At(c, "accepted") /\ FreeName(c) = None
    /\ Goto(c, "gone")
    /\ UNCHANGED <<regName, row, peers, live, halted, ctx, listener>>

Enlist(c) ==
    /\ At(c, "registered") /\ Goto(c, "streaming")
    /\ peers' = [peers EXCEPT ![regName[c]] = c]
    /\ UNCHANGED <<regName, row, live, halted, ctx, listener>>

CloseOnShutdown(c) ==
    /\ At(c, "streaming") /\ ctx /\ c \notin halted
    /\ halted' = halted \cup {c}
    /\ UNCHANGED <<pc, regName, row, peers, live, ctx, listener>>

SeesDone(c) ==
    /\ At(c, "streaming") /\ c \notin live
    /\ Goto(c, "removing")
    /\ UNCHANGED <<regName, row, peers, live, halted, ctx, listener>>

DropRowLeavesSession(n) ==   \* mutant: the row goes, its session is left running
    /\ row' = [row EXCEPT ![n] = None]
    /\ halted' = halted

\* Manager.Remove: the row goes at once, whosever it is now, and its session is
\* cancelled and closed.
DropRow(n) ==
    /\ row' = [row EXCEPT ![n] = None]
    /\ halted' = halted \cup ({row[n]} \ {None, Local})

DeregisterByID(c) ==   \* mutant: the sensor id is used, not the name it got
    /\ At(c, "removing") /\ Goto(c, "forgetting")
    /\ DropRow(NameOf[c])
    /\ UNCHANGED <<regName, peers, live, ctx, listener>>

Deregister(c) ==
    /\ At(c, "removing") /\ Goto(c, "forgetting")
    /\ DropRow(regName[c])
    /\ UNCHANGED <<regName, peers, live, ctx, listener>>

Forget(c) ==
    /\ At(c, "forgetting") /\ Goto(c, "gone")
    /\ peers' = [peers EXCEPT ![regName[c]] = None]
    /\ UNCHANGED <<regName, row, live, halted, ctx, listener>>

Serve(c) ==
    \/ HandshakeFails(c) \/ HandshakeDone(c) \/ Register(c) \/ RegisterRefused(c) \/ Enlist(c)
    \/ CloseOnShutdown(c) \/ SeesDone(c) \/ Deregister(c) \/ Forget(c)

-----------------------------------------------------------------------------
(* The session (sessionSource.run), the operator, the daemon's context.    *)

\* The stream ends: goodbye, EOF, read-idle timeout, cancel or Close.
SessionEnds(c) ==
    /\ c \in live /\ live' = live \ {c}
    /\ UNCHANGED <<pc, regName, row, peers, halted, ctx, listener>>

DeleteCapture(n) ==
    /\ row[n] # None
    /\ DropRow(n)
    /\ UNCHANGED <<pc, regName, peers, live, ctx, listener>>

Cancel ==
    /\ ~ctx /\ ctx' = TRUE
    /\ UNCHANGED <<pc, regName, row, peers, live, halted, listener>>

Next ==
    \/ Cancel \/ CloseListener \/ RunReturn
    \/ \E c \in Conns : Accept(c) \/ Serve(c) \/ SessionEnds(c)
    \/ \E n \in Names : DeleteCapture(n)

Spec == Init /\ [][Next]_vars

\* The daemon's goroutines run; the handshake deadlines and the cancelled read
\* end every handshake and every stopped session.  Nothing makes a sensor dial,
\* a running session end, or an operator act.
Fairness ==
    /\ WF_vars(CloseListener) /\ WF_vars(RunReturn)
    /\ \A c \in Conns :
          /\ WF_vars(Serve(c))
          /\ WF_vars((c \in halted \/ ctx) /\ SessionEnds(c))

FairSpec == Spec /\ Fairness

-----------------------------------------------------------------------------
(* Properties *)

TypeOK ==
    /\ pc \in [Conns -> {"new", "refused", "handshaking", "accepted", "registered",
                         "streaming", "removing", "forgetting", "gone"}]
    /\ regName \in [Conns -> Names \cup {None}]
    /\ row \in [Names -> Conns \cup {None, Local}] /\ peers \in [Names -> Conns \cup {None}]
    /\ live \subseteq Conns /\ halted \subseteq Conns
    /\ ctx \in BOOLEAN /\ listener \in {"open", "closed", "returned"}

\* At most max_sensors + maxHandshakeSlack connections are being served, however
\* they interleave with registrations and disconnects (collector.go Run).
ServedBound == Cardinality(InServe) <= MaxSensors + Slack

\* A connection that is no longer served has neither a row nor a peer entry: no
\* disconnected sensor stays listed or holds a slot, whatever the order of its
\* end, an operator's delete and a reconnect (collector.go serve).
NoGhosts ==
    \A c \in Conns : \A n \in Names :
        /\ row[n] = c => c \in InServe
        /\ peers[n] = c => c \in InServe

\* A peer whose row is gone - deleted by an operator, or taken away by the serve
\* goroutine of an earlier connection - does not stay listed (DELETE
\* /api/v1/captures/{name} ends the session, and its serve goroutine forgets it).
RowlessPeersLeave ==
    \A c \in Conns : \A n \in Names :
        (peers[n] = c /\ row[n] # c) ~> (peers[n] # c)

\* Once the context is cancelled, Run returns (collector.go Run).
RunReturns == ctx ~> listener = "returned"

\* docs/architecture.md: the collector registers each peer as its own manager
\* source, "removing it when the stream ends" - its own, never another peer's.
RemovesItsOwnRow ==
    [][\A c \in Conns : Deregister(c) => row[regName[c]] \in {c, None}]_vars

\* The places taken are places of sensors that are there: no more than the limit and its slack,
\* and none that outlives its session (Collector.serve, registeredCount).
PlacesAreReal == TypeOK /\ ServedBound /\ NoGhosts

\* No peer and no listener stays for ever: a session without a row ends, and Run returns
\* (Collector.serve, Collector.Run).
PeersSettle == RowlessPeersLeave /\ RunReturns

=============================================================================
