----------------------------- MODULE EventStream -----------------------------
(***************************************************************************)
(* The live channel: the event bus (internal/events), the pump that        *)
(* batches its events (internal/api), the WebSocket hub and its            *)
(* connections (internal/wshub).  Publishers never wait: a number is drawn *)
(* and the event is put into the pump's queue in two steps under a shared  *)
(* read lock, so two publishers interleave between them.                   *)
(***************************************************************************)
EXTENDS Integers, Sequences, FiniteSets, SequencesExt

CONSTANTS Publishers,   \* goroutines that publish
          Clients,      \* WebSocket connections, each used once
          QueueSize,    \* live.client_queue_size: the pump's and a client's queue
          BatchCap,     \* events that force a flush (256)
          MaxEvents     \* bound on the events published

ASSUME EventStreamAssumption ==
    /\ QueueSize \in Nat \ {0}
    /\ BatchCap \in Nat \ {0}
    /\ MaxEvents \in Nat

VARIABLES drawn,        \* what was published, by sequence number
          held,         \* per publisher: the number drawn and not yet sent, or 0
          subQ,         \* the pump's subscription: numbers in channel order
          dropped,      \* numbers the full subscription refused
          pump,         \* "select", "closing" (closing victims) or "stopped"
          batch,        \* numbers the pump has taken since its last flush
          victims,      \* clients whose queue refused the last broadcast
          sent,         \* every payload broadcast, in order (h.framesBatched)
          hub,          \* registered clients
          conn,         \* per client: "away", "open" or "done"
          wmu,          \* per client: "free", or "frame" while a write holds the lock
          sendQ,        \* per client: payloads queued
          frame,        \* per client: payload its writer has taken off the queue
          writer,       \* per client: "idle", "waiting", "writing" or "leaving"
          got,          \* per client: payloads written to the socket
          joined,       \* per client: payloads broadcast before it registered
          drops         \* refusals counted against clients

busVars == <<drawn, held, subQ, dropped>>
pumpVars == <<pump, batch, victims, sent, drops>>
clientVars == <<hub, conn, wmu, sendQ, frame, writer, got, joined>>
streamVars == <<busVars, pumpVars, clientVars>>

StreamInit ==
    /\ drawn = <<>> /\ held = [p \in Publishers |-> 0]
    /\ subQ = <<>> /\ dropped = {}
    /\ pump = "select" /\ batch = <<>> /\ victims = {} /\ sent = <<>> /\ drops = 0
    /\ hub = {}
    /\ conn = [c \in Clients |-> "away"]
    /\ wmu = [c \in Clients |-> "free"]
    /\ sendQ = [c \in Clients |-> <<>>]
    /\ frame = [c \in Clients |-> <<>>]
    /\ writer = [c \in Clients |-> "idle"]
    /\ got = [c \in Clients |-> <<>>]
    /\ joined = [c \in Clients |-> 0]

-----------------------------------------------------------------------------
(* The bus. *)

Draw(p, what) ==
    /\ held[p] = 0
    /\ Len(drawn) < MaxEvents
    /\ drawn' = Append(drawn, what)
    /\ held' = [held EXCEPT ![p] = Len(drawn) + 1]
    /\ UNCHANGED <<subQ, dropped, pumpVars, clientVars>>

Subscribed == pump # "stopped"

Send(p) ==
    /\ held[p] # 0
    /\ held' = [held EXCEPT ![p] = 0]
    /\ IF ~Subscribed THEN UNCHANGED <<subQ, dropped>>
       ELSE IF Len(subQ) < QueueSize
       THEN subQ' = Append(subQ, held[p]) /\ UNCHANGED dropped
       ELSE dropped' = dropped \cup {held[p]} /\ UNCHANGED subQ
    /\ UNCHANGED <<drawn, pumpVars, clientVars>>

-----------------------------------------------------------------------------
(* The hub's broadcast, called by the pump with its batch. *)

BroadcastSkips(payload) ==   \* mutant: a full client is skipped and kept
    /\ sent' = Append(sent, payload)
    /\ sendQ' = [c \in Clients |-> IF c \in hub /\ Len(sendQ[c]) < QueueSize
                                   THEN Append(sendQ[c], payload) ELSE sendQ[c]]
    /\ UNCHANGED <<victims, pump>>

Broadcast(payload) ==
    LET full == {c \in hub : Len(sendQ[c]) >= QueueSize}
    IN  /\ sent' = Append(sent, payload)
        /\ sendQ' = [c \in Clients |-> IF c \in hub \ full
                                       THEN Append(sendQ[c], payload) ELSE sendQ[c]]
        /\ victims' = full
        /\ pump' = IF full = {} THEN "select" ELSE "closing"

PumpTake ==
    /\ pump = "select" /\ subQ # <<>>
    /\ subQ' = Tail(subQ)
    /\ LET b == Append(batch, Head(subQ))
       IN  IF Len(b) >= BatchCap
           THEN Broadcast(b) /\ batch' = <<>>
           ELSE batch' = b /\ UNCHANGED <<sent, sendQ, victims, pump>>
    /\ UNCHANGED <<drawn, held, dropped, drops, hub, conn, wmu, frame, writer, got, joined>>

PumpTick ==
    /\ pump = "select" /\ batch # <<>>
    /\ Broadcast(batch) /\ batch' = <<>>
    /\ UNCHANGED <<busVars, drops, hub, conn, wmu, frame, writer, got, joined>>

\* conn.Close takes the connection's write lock, once
CanClose(c) == conn[c] = "done" \/ wmu[c] = "free"

CountVictim(c) ==   \* mutant: the refusal is counted, the connection stays
    /\ pump = "closing" /\ c \in victims
    /\ drops' = drops + 1
    /\ victims' = victims \ {c}
    /\ pump' = IF victims = {c} THEN "select" ELSE "closing"
    /\ UNCHANGED <<busVars, batch, sent, clientVars>>

CloseVictim(c) ==
    /\ pump = "closing" /\ c \in victims /\ CanClose(c)
    /\ drops' = drops + 1
    /\ conn' = [conn EXCEPT ![c] = "done"]
    /\ victims' = victims \ {c}
    /\ pump' = IF victims = {c} THEN "select" ELSE "closing"
    /\ UNCHANGED <<busVars, batch, sent, hub, wmu, sendQ, frame, writer, got, joined>>

\* the daemon's context ends: the batch is dropped and the subscription closed
PumpStop ==
    /\ pump = "select"
    /\ pump' = "stopped" /\ subQ' = <<>> /\ batch' = <<>>
    /\ UNCHANGED <<drawn, held, dropped, victims, sent, drops, clientVars>>

-----------------------------------------------------------------------------
(* A client: the upgrade, its writer loop (Hub.Add) and its read loop. *)

Connect(c) ==
    /\ conn[c] = "away" /\ pump # "stopped"
    /\ conn' = [conn EXCEPT ![c] = "open"]
    /\ hub' = hub \cup {c}
    /\ joined' = [joined EXCEPT ![c] = Len(sent)]
    /\ UNCHANGED <<busVars, pumpVars, wmu, sendQ, frame, writer, got>>

\* select may choose a queued payload even when the connection is done
Dequeue(c) ==
    /\ c \in hub /\ writer[c] = "idle" /\ sendQ[c] # <<>>
    /\ frame' = [frame EXCEPT ![c] = Head(sendQ[c])]
    /\ sendQ' = [sendQ EXCEPT ![c] = Tail(@)]
    /\ writer' = [writer EXCEPT ![c] = "waiting"]
    /\ UNCHANGED <<busVars, pumpVars, hub, conn, wmu, got, joined>>

WriteStart(c) ==
    /\ writer[c] = "waiting" /\ wmu[c] = "free"
    /\ writer' = [writer EXCEPT ![c] = "writing"]
    /\ wmu' = [wmu EXCEPT ![c] = "frame"]
    /\ UNCHANGED <<busVars, pumpVars, hub, conn, sendQ, frame, got, joined>>

WriteEnd(c) ==
    /\ writer[c] = "writing" /\ conn[c] = "open"
    /\ got' = [got EXCEPT ![c] = Append(@, frame[c])]
    /\ writer' = [writer EXCEPT ![c] = "idle"]
    /\ wmu' = [wmu EXCEPT ![c] = "free"]
    /\ UNCHANGED <<busVars, pumpVars, hub, conn, sendQ, frame, joined>>

\* the socket is closed, or the write deadline passed
WriteFail(c) ==
    /\ writer[c] = "writing"
    /\ writer' = [writer EXCEPT ![c] = "leaving"]
    /\ wmu' = [wmu EXCEPT ![c] = "free"]
    /\ UNCHANGED <<busVars, pumpVars, hub, conn, sendQ, frame, got, joined>>

Unregister(c) ==
    /\ c \in hub
    /\ writer[c] = "leaving" \/ (writer[c] = "idle" /\ conn[c] = "done")
    /\ hub' = hub \ {c}
    /\ writer' = [writer EXCEPT ![c] = "leaving"]
    /\ UNCHANGED <<busVars, pumpVars, conn, wmu, sendQ, frame, got, joined>>

\* Close by the leaving writer, or by the read loop when the peer goes away
ReaderEnds(c) ==
    /\ conn[c] = "open" /\ wmu[c] = "free"
    /\ conn' = [conn EXCEPT ![c] = "done"]
    /\ UNCHANGED <<busVars, pumpVars, hub, wmu, sendQ, frame, writer, got, joined>>

CloseLeft(c) == c \notin hub /\ ReaderEnds(c)

-----------------------------------------------------------------------------
ClientStep(c) ==
    \/ Connect(c) \/ Dequeue(c) \/ WriteStart(c) \/ WriteEnd(c) \/ WriteFail(c)
    \/ Unregister(c) \/ ReaderEnds(c)

PumpStep == PumpTake \/ PumpTick \/ PumpStop \/ \E c \in Clients : CloseVictim(c)

\* Every goroutine is scheduled; a write ends by its deadline; the ticker ticks.
StreamFairness ==
    /\ WF_streamVars(PumpTake) /\ WF_streamVars(PumpTick)
    /\ \A p \in Publishers : WF_streamVars(Send(p))
    /\ \A c \in Clients :
        /\ SF_streamVars(CloseVictim(c)) /\ SF_streamVars(CloseLeft(c))
        /\ SF_streamVars(WriteStart(c))
        /\ WF_streamVars(WriteEnd(c) \/ WriteFail(c))
        /\ WF_streamVars(Unregister(c))

-----------------------------------------------------------------------------
(* Properties. *)

\* What the pump has sent, has taken and will take, frame by frame, and the spots in it.
Frames == sent \o <<batch, subQ>>
Spots == UNION {{f} \X DOMAIN Frames[f] : f \in DOMAIN Frames}
Number(s) == Frames[s[1]][s[2]]
Earlier(s, t) == s[1] < t[1] \/ (s[1] = t[1] /\ s[2] < t[2])

Held == {held[p] : p \in Publishers} \ {0}

\* Every number drawn is in exactly one place - with one publisher, at one spot on
\* its way through the pump, or counted as dropped - as long as the pump runs: a full
\* queue loses no event silently and none is delivered twice, whatever the
\* publishers' order between drawing a number and sending it.
EventsAccounted ==
    LET onTheWay == {Number(s) : s \in Spots}
    IN  pump # "stopped" =>
            /\ onTheWay \cup Held \cup dropped = 1 .. Len(drawn)
            /\ onTheWay \cap Held = {} /\ onTheWay \cap dropped = {} /\ Held \cap dropped = {}
            /\ \A s, t \in Spots : Number(s) = Number(t) => s = t
            /\ \A p, q \in Publishers : held[p] = held[q] /\ held[p] # 0 => p = q

\* What a client has been sent is the run of broadcasts since it registered, with
\* no frame missing in the middle: a client that cannot keep up is cut off
\* before the frame after the one it lost can reach it (hub.go:82).
NoSilentGap ==
    \A c \in Clients : conn[c] # "away" =>
        IsPrefix(got[c], SubSeq(sent, joined[c] + 1, Len(sent)))

\* A client whose queue refused a broadcast leaves the hub, even if its socket
\* accepts nothing more: the hub never keeps a dead client (hub.go:72).
VictimsLeave ==
    \A c \in Clients : (c \in victims) ~> (c \notin hub)

\* Nothing goes missing unsaid: every event published is delivered, waiting or counted as
\* dropped, and a client that misses one is told or closed (Bus.Publish, Hub.Broadcast).
NothingMissingUnsaid == EventsAccounted /\ NoSilentGap

=============================================================================
