------------------------ MODULE CaptureManagerProofs ------------------------
(***************************************************************************)
(* Proofs about CaptureManager for every set of sources and names, every   *)
(* channel capacity and every number of packets, and about the captures it *)
(* runs (LiveCapture) for every size of socket, ring and channel.          *)
(***************************************************************************)
EXTENDS CaptureManager, LiveCapture, FiniteSetTheorems, SequenceTheorems, WellFoundedInduction, TLAPS

USE DEF managerVars, sourceVars, countVars, callerVars, FwdStates

LEMMA InitType == Init => TypeOK
<1> SUFFICES ASSUME Init PROVE TypeOK
  OBVIOUS
<1>1. merged = [s \in Sources |-> 0] /\ merged \in [Sources -> Nat]
  BY DEF Init
<1>2. remover \in [pc : {"idle"}, src : {None}]
  BY DEF Init
<1>. QED BY <1>1, <1>2 DEF Init, TypeOK

LEMMA ForwarderType ==
    ASSUME TypeOK, NEW s \in Sources, Forwarder(s)
    PROVE  TypeOK'
<1> USE DEF TypeOK
<1>1. CASE FwdCancelled(s)
  BY <1>1 DEF FwdCancelled, Abandon
<1>2. CASE FwdError(s)
  BY <1>2 DEF FwdError, Abandon
<1>3. CASE FwdReceive(s)
  BY <1>3 DEF FwdReceive
<1>4. CASE FwdEndOfSource(s)
  BY <1>4 DEF FwdEndOfSource
<1>5. CASE FwdSend(s)
  <2>1. CASE outClosed
    BY <1>5, <2>1 DEF FwdSend
  <2>2. CASE ~ outClosed
    <3>1. merged' \in [Sources -> Nat] /\ fwd' \in [Sources -> FwdStates]
      BY <1>5, <2>2 DEF FwdSend
    <3>2. UNCHANGED <<managerVars, stopping, buffered, sourceVars, countVars, callerVars>>
      BY <1>5, <2>2 DEF FwdSend
    <3>. QED BY <3>1, <3>2
  <2>. QED BY <2>1, <2>2
<1>6. CASE FwdSendCancelled(s)
  BY <1>6 DEF FwdSendCancelled, Abandon, Discard
<1>7. CASE FwdDrain(s)
  BY <1>7 DEF FwdDrain, Discard
<1>8. CASE FwdDrained(s)
  BY <1>8 DEF FwdDrained
<1>9. CASE PendingErr(s)
  BY <1>9 DEF PendingErr
<1>. QED BY <1>1, <1>2, <1>3, <1>4, <1>5, <1>6, <1>7, <1>8, <1>9 DEF Forwarder

LEMMA ShutdownType ==
    ASSUME TypeOK, Shutdown
    PROVE  TypeOK'
<1> USE DEF TypeOK
<1>1. CASE SamplerWake
  BY <1>1 DEF SamplerWake
<1>2. CASE SamplerCloses
  BY <1>2 DEF SamplerCloses
<1>3. CASE SamplerDone
  BY <1>3 DEF SamplerDone
<1>4. CASE CloseSources
  BY <1>4 DEF CloseSources, Registered
<1>5. CASE CloseReturn
  BY <1>5 DEF CloseReturn
<1>6. ASSUME NEW s \in Sources, SamplerResidue(s)
      PROVE  TypeOK'
  BY <1>6 DEF SamplerResidue
<1>. QED BY <1>1, <1>2, <1>3, <1>4, <1>5, <1>6 DEF Shutdown

LEMMA SourceType ==
    ASSUME TypeOK, NEW s \in Sources,
           (\E n \in NamesOf[s] : Add(s, n)) \/ Produce(s) \/ SourceFails(s) \/ SourceEnds(s) \/ Consume(s)
    PROVE  TypeOK'
<1> USE DEF TypeOK
<1>1. ASSUME NEW n \in NamesOf[s], Add(s, n)
      PROVE  TypeOK'
  <2>1. srcs' \in [Names -> Sources \cup {None}]
    BY <1>1 DEF Add
  <2>2. state' \in [Sources -> {"new", "stopped", "running", "error"}] /\ fwd' \in [Sources -> FwdStates]
    BY <1>1 DEF Add
  <2>. QED BY <1>1, <2>1, <2>2 DEF Add
<1>2. CASE Produce(s)
  BY <1>2 DEF Produce
<1>3. CASE SourceFails(s)
  BY <1>3 DEF SourceFails
<1>4. CASE SourceEnds(s)
  BY <1>4 DEF SourceEnds
<1>5. CASE Consume(s)
  BY <1>5 DEF Consume
<1>. QED BY <1>1, <1>2, <1>3, <1>4, <1>5

LEMMA CallerType ==
    ASSUME TypeOK, Packets \/ CloseCancel \/ ParentCancel \/ PipelineStops \/ RemoveCancel
    PROVE  TypeOK'
<1> USE DEF TypeOK
<1>1. CASE Packets
  <2>1. state' \in [Sources -> {"new", "stopped", "running", "error"}] /\ fwd' \in [Sources -> FwdStates]
    BY <1>1 DEF Packets
  <2>. QED BY <1>1, <2>1 DEF Packets
<1>2. CASE CloseCancel
  BY <1>2 DEF CloseCancel
<1>3. CASE ParentCancel
  BY <1>3 DEF ParentCancel
<1>4. CASE PipelineStops
  BY <1>4 DEF PipelineStops
<1>5. CASE RemoveCancel
  <2>1. remover \in [pc : {"cancel", "wait"}, src : Sources]
    BY <1>5 DEF RemoveCancel
  <2>2. remover' \in [pc : {"cancel", "wait"}, src : Sources] /\ stopping' \subseteq Sources
    BY <1>5, <2>1 DEF RemoveCancel
  <2>. QED BY <1>5, <2>2 DEF RemoveCancel
<1>. QED BY <1>1, <1>2, <1>3, <1>4, <1>5

LEMMA RemoveType ==
    ASSUME TypeOK,
           (\E n \in Removable : RemoveRow(n)) \/ (\E timedOut \in BOOLEAN : RemoveReturn(timedOut))
    PROVE  TypeOK'
<1> USE DEF TypeOK
<1>1. ASSUME NEW n \in Removable, RemoveRow(n)
      PROVE  TypeOK'
  <2>1. n \in Names /\ srcs[n] \in Sources
    BY <1>1, ManagerAssumption DEF RemoveRow
  <2>. QED BY <1>1, <2>1 DEF RemoveRow
<1>2. ASSUME NEW timedOut \in BOOLEAN, RemoveReturn(timedOut)
      PROVE  TypeOK'
  BY <1>2 DEF RemoveReturn
<1>. QED BY <1>1, <1>2

LEMMA NextType == TypeOK /\ [Next]_vars => TypeOK'
<1> SUFFICES ASSUME TypeOK, [Next]_vars PROVE TypeOK'
  OBVIOUS
<1>1. CASE UNCHANGED vars
  BY <1>1 DEF vars, TypeOK
<1>. QED BY <1>1, ForwarderType, ShutdownType, SourceType, CallerType, RemoveType DEF Next

\* Every variable keeps its type, for every number of sources and packets.
THEOREM ManagerTypeCorrect == Spec => []TypeOK
BY InitType, NextType, PTL DEF Spec

-----------------------------------------------------------------------------
(* Forwarders exist only for sources that were added to a started manager. *)

ForwardersStarted ==
    /\ ~ started => \A s \in Sources : fwd[s] = "idle"
    /\ \A s \in Sources : state[s] = "new" => fwd[s] = "idle"

LEMMA ForwarderStarted ==
    ASSUME TypeOK, ForwardersStarted, NEW s \in Sources, Forwarder(s)
    PROVE  ForwardersStarted'
<1>1. fwd[s] # "idle" /\ started' = started
  BY DEF Forwarder, FwdCancelled, FwdError, FwdReceive, FwdEndOfSource, FwdSend,
         FwdSendCancelled, FwdDrain, FwdDrained, PendingErr
<1>2. started /\ state[s] # "new"
  BY <1>1 DEF ForwardersStarted
<1>3. /\ state' \in [Sources -> {"new", "stopped", "running", "error"}]
      /\ state'[s] # "new" /\ (\A o \in Sources \ {s} : state'[o] = state[o])
  BY <1>2 DEF Forwarder, FwdCancelled, FwdError, FwdReceive, FwdEndOfSource, FwdSend,
         FwdSendCancelled, FwdDrain, FwdDrained, PendingErr, Abandon, TypeOK
<1>4. \A o \in Sources \ {s} : fwd'[o] = fwd[o]
  BY DEF Forwarder, FwdCancelled, FwdError, FwdReceive, FwdEndOfSource, FwdSend,
         FwdSendCancelled, FwdDrain, FwdDrained, PendingErr, Abandon, TypeOK
<1>. QED BY <1>1, <1>2, <1>3, <1>4 DEF ForwardersStarted

LEMMA OtherStarted ==
    ASSUME TypeOK, ForwardersStarted, [Next]_vars, ~ \E s \in Sources : Forwarder(s)
    PROVE  ForwardersStarted'
<1>1. CASE UNCHANGED <<started, state, fwd>>
  BY <1>1 DEF ForwardersStarted
<1>2. ASSUME NEW s \in Sources, NEW n \in NamesOf[s], Add(s, n)
      PROVE  ForwardersStarted'
  BY <1>2 DEF Add, ForwardersStarted, TypeOK
<1>3. CASE Packets
  BY <1>3 DEF Packets, ForwardersStarted, TypeOK
<1>4. ASSUME NEW timedOut \in BOOLEAN, RemoveReturn(timedOut)
      PROVE  ForwardersStarted'
  <2>1. UNCHANGED <<started, fwd>> /\ \A o \in Sources : state'[o] \in {state[o], "stopped"}
    BY <1>4 DEF RemoveReturn, TypeOK
  <2>. QED BY <2>1 DEF ForwardersStarted
<1>5. CASE Shutdown \/ CloseCancel \/ ParentCancel \/ PipelineStops \/ RemoveCancel
  BY <1>1, <1>5 DEF Shutdown, SamplerWake, SamplerCloses, SamplerResidue, SamplerDone, CloseSources,
         CloseReturn, CloseCancel, ParentCancel, PipelineStops, RemoveCancel
<1>6. ASSUME NEW s \in Sources, Produce(s) \/ SourceFails(s) \/ SourceEnds(s) \/ Consume(s)
      PROVE  ForwardersStarted'
  BY <1>1, <1>6 DEF Produce, SourceFails, SourceEnds, Consume
<1>7. ASSUME NEW n \in Removable, RemoveRow(n)
      PROVE  ForwardersStarted'
  BY <1>1, <1>7 DEF RemoveRow
<1>8. CASE UNCHANGED vars
  BY <1>1, <1>8 DEF vars
<1>. QED BY <1>2, <1>3, <1>4, <1>5, <1>6, <1>7, <1>8 DEF Next

LEMMA NextStarted == TypeOK /\ ForwardersStarted /\ [Next]_vars => ForwardersStarted'
BY ForwarderStarted, OtherStarted

-----------------------------------------------------------------------------
(* No packet is lost uncounted. *)

Balance(s) ==
    produced[s] = buffered[s] + Holding(s) + merged[s] + consumed[s] + drops[s] + residue[s]

LEMMA ForwarderBalance ==
    ASSUME TypeOK, NEW s \in Sources, Forwarder(s), NEW o \in Sources, Balance(o)
    PROVE  Balance(o)'
<1> USE DEF TypeOK, Balance, Holding
<1>1. CASE FwdCancelled(s)
  BY <1>1 DEF FwdCancelled, Abandon
<1>2. CASE FwdError(s)
  BY <1>2 DEF FwdError, Abandon
<1>3. CASE FwdReceive(s)
  BY <1>3 DEF FwdReceive
<1>4. CASE FwdEndOfSource(s)
  BY <1>4 DEF FwdEndOfSource
<1>5. CASE FwdSend(s)
  BY <1>5 DEF FwdSend
<1>6. CASE FwdSendCancelled(s)
  BY <1>6 DEF FwdSendCancelled, Abandon, Discard
<1>7. CASE FwdDrain(s)
  BY <1>7 DEF FwdDrain, Discard
<1>8. CASE FwdDrained(s)
  BY <1>8 DEF FwdDrained
<1>9. CASE PendingErr(s)
  BY <1>9 DEF PendingErr
<1>. QED BY <1>1, <1>2, <1>3, <1>4, <1>5, <1>6, <1>7, <1>8, <1>9 DEF Forwarder

LEMMA OtherBalance ==
    ASSUME TypeOK, ForwardersStarted, [Next]_vars, ~ \E s \in Sources : Forwarder(s),
           NEW o \in Sources, Balance(o)
    PROVE  Balance(o)'
<1> USE DEF TypeOK, Balance, Holding
<1>1. CASE UNCHANGED <<fwd, produced, buffered, merged, consumed, drops, residue>>
  BY <1>1
<1>2. ASSUME NEW s \in Sources, NEW n \in NamesOf[s], Add(s, n)
      PROVE  Balance(o)'
  BY <1>2 DEF Add, ForwardersStarted
<1>3. CASE Packets
  BY <1>3 DEF Packets, ForwardersStarted
<1>4. ASSUME NEW s \in Sources, Produce(s)
      PROVE  Balance(o)'
  BY <1>4 DEF Produce
<1>5. ASSUME NEW s \in Sources, Consume(s)
      PROVE  Balance(o)'
  BY <1>5 DEF Consume
<1>6. ASSUME NEW s \in Sources, SamplerResidue(s)
      PROVE  Balance(o)'
  BY <1>6 DEF SamplerResidue
<1>7. CASE SamplerWake \/ SamplerCloses \/ SamplerDone \/ CloseSources \/ CloseReturn \/ CloseCancel
           \/ ParentCancel \/ PipelineStops \/ RemoveCancel
  BY <1>1, <1>7 DEF SamplerWake, SamplerCloses, SamplerDone, CloseSources, CloseReturn, CloseCancel,
         ParentCancel, PipelineStops, RemoveCancel
<1>8. ASSUME NEW s \in Sources, SourceFails(s) \/ SourceEnds(s)
      PROVE  Balance(o)'
  BY <1>1, <1>8 DEF SourceFails, SourceEnds
<1>9. ASSUME NEW n \in Removable, RemoveRow(n)
      PROVE  Balance(o)'
  BY <1>1, <1>9 DEF RemoveRow
<1>10. ASSUME NEW timedOut \in BOOLEAN, RemoveReturn(timedOut)
      PROVE  Balance(o)'
  BY <1>1, <1>10 DEF RemoveReturn
<1>11. CASE UNCHANGED vars
  BY <1>1, <1>11 DEF vars
<1>. QED BY <1>2, <1>3, <1>4, <1>5, <1>6, <1>7, <1>8, <1>9, <1>10, <1>11 DEF Next, Shutdown

ConservationInv == TypeOK /\ ForwardersStarted /\ PacketsConserved

LEMMA InitConservation == Init => ConservationInv
<1> SUFFICES ASSUME Init PROVE ConservationInv
  OBVIOUS
<1>1. ForwardersStarted
  BY DEF Init, ForwardersStarted
<1>2. PacketsConserved
  BY DEF Init, PacketsConserved, Holding
<1>. QED BY <1>1, <1>2, InitType DEF ConservationInv

LEMMA NextConservation == ConservationInv /\ [Next]_vars => ConservationInv'
<1> SUFFICES ASSUME ConservationInv, [Next]_vars PROVE ConservationInv'
  OBVIOUS
<1>1. TypeOK /\ ForwardersStarted /\ (\A o \in Sources : Balance(o))
  BY DEF ConservationInv, PacketsConserved, Balance
<1>2. TypeOK' /\ ForwardersStarted'
  BY <1>1, NextType, NextStarted
<1>3. ASSUME NEW o \in Sources
      PROVE  Balance(o)'
  BY <1>1, ForwarderBalance, OtherBalance
<1>4. PacketsConserved'
  BY <1>3 DEF PacketsConserved, Balance
<1>. QED BY <1>2, <1>4 DEF ConservationInv

\* No silent loss, for every number of sources, packets and channel slots: what a
\* source handed over is buffered, in a forwarder's hand, in the merged channel,
\* consumed, or in a drop counter (manager.go launch, sampleLoop).
THEOREM NoSilentLoss == Spec => []PacketsConserved
<1>1. ConservationInv => PacketsConserved
  BY DEF ConservationInv
<1>. QED BY <1>1, InitConservation, NextConservation, PTL DEF Spec

-----------------------------------------------------------------------------
(* The merged channel is closed after the last forwarder. *)

ClosedLast ==
    /\ sampler = "idle" <=> ~ started
    /\ ctx => started
    /\ sampler \in {"waiting", "residue", "done"} => ctx
    /\ outClosed => sampler \in {"residue", "done"}
    /\ late # {} => outClosed
    /\ NoSendOnClosed

CloseInv == TypeOK /\ ForwardersStarted /\ ClosedLast

LEMMA InitClose == Init => CloseInv
<1> SUFFICES ASSUME Init PROVE CloseInv
  OBVIOUS
<1>1. ForwardersStarted /\ ClosedLast
  BY DEF Init, ForwardersStarted, ClosedLast, NoSendOnClosed
<1>. QED BY <1>1, InitType DEF CloseInv

LEMMA ForwarderClose ==
    ASSUME CloseInv, ~ panicked, NEW s \in Sources, Forwarder(s)
    PROVE  ClosedLast'
<1>1. s \in LiveForwarders /\ UNCHANGED <<sampler, started, ctx, outClosed, late>>
  BY DEF Forwarder, FwdCancelled, FwdError, FwdReceive, FwdEndOfSource, FwdSend,
         FwdSendCancelled, FwdDrain, FwdDrained, PendingErr, LiveForwarders
<1>2. LiveForwarders' \subseteq LiveForwarders
  <2>1. fwd' \in [Sources -> FwdStates] /\ \A o \in Sources \ {s} : fwd'[o] = fwd[o]
    BY DEF Forwarder, FwdCancelled, FwdError, FwdReceive, FwdEndOfSource, FwdSend,
           FwdSendCancelled, FwdDrain, FwdDrained, PendingErr, Abandon, CloseInv, TypeOK
  <2>. QED BY <1>1, <2>1 DEF LiveForwarders
<1>3. panicked' => \E o \in late' : fwd'[o] = "holding"
  <2>1. CASE FwdSend(s) /\ outClosed
    <3>1. fwd[s] = "holding" /\ fwd' = fwd /\ s \in late
      BY <1>1, <2>1 DEF FwdSend, CloseInv, ClosedLast, NoSendOnClosed
    <3>. QED BY <1>1, <3>1
  <2>2. CASE ~ (FwdSend(s) /\ outClosed)
    BY <2>2 DEF Forwarder, FwdCancelled, FwdError, FwdReceive, FwdEndOfSource, FwdSend,
           FwdSendCancelled, FwdDrain, FwdDrained, PendingErr
  <2>. QED BY <2>1, <2>2
<1>. QED BY <1>1, <1>2, <1>3 DEF CloseInv, ClosedLast, NoSendOnClosed

LEMMA AddClose ==
    ASSUME CloseInv, ~ panicked, NEW s \in Sources, NEW n \in NamesOf[s], Add(s, n)
    PROVE  ClosedLast'
<1>1. UNCHANGED <<sampler, started, ctx, outClosed, panicked>>
  BY DEF Add
<1>2. late' = IF outClosed THEN late \cup {s} ELSE late
  BY DEF Add
<1>3. LiveForwarders' \subseteq LiveForwarders \cup {s}
  BY DEF Add, LiveForwarders, CloseInv, TypeOK
<1>4. outClosed => ctx
  BY DEF CloseInv, ClosedLast
<1>. QED BY <1>1, <1>2, <1>3, <1>4 DEF CloseInv, ClosedLast, NoSendOnClosed

LEMMA OtherClose ==
    ASSUME CloseInv, ~ panicked, [Next]_vars, ~ \E s \in Sources : Forwarder(s)
    PROVE  ClosedLast'
<1> USE DEF CloseInv, ClosedLast, LiveForwarders, NoSendOnClosed
<1>1. CASE UNCHANGED <<fwd, sampler, started, ctx, outClosed, late, panicked>>
  BY <1>1
<1>2. ASSUME NEW s \in Sources, NEW n \in NamesOf[s], Add(s, n)
      PROVE  ClosedLast'
  BY <1>2, AddClose
<1>3. CASE Packets
  BY <1>3 DEF Packets, TypeOK
<1>4. CASE SamplerWake
  BY <1>4 DEF SamplerWake, TypeOK
<1>5. CASE SamplerCloses
  BY <1>5 DEF SamplerCloses, TypeOK
<1>6. CASE SamplerDone
  BY <1>6 DEF SamplerDone, TypeOK
<1>7. CASE CloseCancel
  BY <1>7 DEF CloseCancel, TypeOK
<1>8. CASE ParentCancel
  BY <1>8 DEF ParentCancel, TypeOK
<1>9. CASE CloseSources \/ CloseReturn \/ PipelineStops \/ RemoveCancel
  BY <1>1, <1>9 DEF CloseSources, CloseReturn, PipelineStops, RemoveCancel
<1>10. ASSUME NEW s \in Sources,
              SamplerResidue(s) \/ Produce(s) \/ SourceFails(s) \/ SourceEnds(s) \/ Consume(s)
      PROVE  ClosedLast'
  BY <1>1, <1>10 DEF SamplerResidue, Produce, SourceFails, SourceEnds, Consume
<1>11. ASSUME NEW n \in Removable, RemoveRow(n)
      PROVE  ClosedLast'
  BY <1>1, <1>11 DEF RemoveRow
<1>12. ASSUME NEW timedOut \in BOOLEAN, RemoveReturn(timedOut)
      PROVE  ClosedLast'
  BY <1>1, <1>12 DEF RemoveReturn
<1>13. CASE UNCHANGED vars
  BY <1>1, <1>13 DEF vars
<1> HIDE DEF ClosedLast
<1>. QED BY <1>2, <1>3, <1>4, <1>5, <1>6, <1>7, <1>8, <1>9, <1>10, <1>11, <1>12, <1>13 DEF Next, Shutdown

LEMMA NextClose == CloseInv /\ [Next]_vars => CloseInv'
<1> SUFFICES ASSUME CloseInv, [Next]_vars PROVE CloseInv'
  OBVIOUS
<1>1. TypeOK' /\ ForwardersStarted'
  BY NextType, NextStarted DEF CloseInv
<1>2. CASE ~ panicked
  <2>1. ClosedLast'
    BY <1>2, ForwarderClose, OtherClose
  <2>. QED BY <1>1, <2>1 DEF CloseInv
<1>3. CASE panicked
  BY <1>3, <1>1 DEF Next, vars, CloseInv, ClosedLast, NoSendOnClosed, LiveForwarders
<1>. QED BY <1>2, <1>3

\* m.out is closed after the last forwarder there was: for any number of sources, added, failing
\* and removed at any time, only a forwarder launched by an Add that came after the close can send
\* on the closed channel (manager.go:176, :365-374).
THEOREM ClosedAfterForwarders == Spec => []NoSendOnClosed
<1>1. CloseInv => NoSendOnClosed
  BY DEF CloseInv, ClosedLast
<1>. QED BY <1>1, InitClose, NextClose, PTL DEF Spec

-----------------------------------------------------------------------------
(* What a row says. *)

\* A source is registered under one name at most, and never again once removed.
RegisteredOnce ==
    /\ \A n, k \in Names : srcs[n] = srcs[k] /\ srcs[n] # None => n = k
    /\ \A n \in Names : srcs[n] # None => state[srcs[n]] # "new" /\ srcs[n] # remover.src
    /\ remover.src # None => state[remover.src] # "new"

\* A forwarder that reached the end of its source finds its channel closed.
EndedIsClosed ==
    /\ \A s \in Sources : fwd[s] \in {"pending", "done"} => s \notin open
    /\ \A s \in Sources : fwd[s] = "idle" => errs[s] = "none"
    /\ \A s \in Sources : errs[s] = "taken" => fwd[s] \in {"draining", "done"}

RowState(s) ==
    IF fwd[s] = "draining" THEN "error"
    ELSE IF fwd[s] # "done" THEN "running"
    ELSE IF errs[s] = "none" THEN "stopped" ELSE "error"

RowTrue(s) ==
    started /\ ~ ctx => state[s] = RowState(s) /\ (fwd[s] = "draining" => errs[s] = "taken")

RowsTrue == \A s \in Registered : RowTrue(s)
RowInv == TypeOK /\ ForwardersStarted /\ RegisteredOnce /\ EndedIsClosed /\ RowsTrue

LEMMA InitRow == Init => RowInv
<1> SUFFICES ASSUME Init PROVE RowInv
  OBVIOUS
<1>1. ForwardersStarted /\ EndedIsClosed
  BY DEF Init, ForwardersStarted, EndedIsClosed
<1>2. RegisteredOnce /\ RowsTrue
  BY DEF Init, RegisteredOnce, RowsTrue, RowTrue
<1>. QED BY <1>1, <1>2, InitType DEF RowInv

\* What the forwarder of s does to the row, the errors and the state of s.
LEMMA ForwarderOwn ==
    ASSUME RowInv, NEW s \in Sources, Forwarder(s)
    PROVE  /\ \A o \in Sources \ {s} : fwd'[o] = fwd[o] /\ state'[o] = state[o] /\ errs'[o] = errs[o]
           /\ UNCHANGED <<srcs, remover, started, ctx, open>>
           /\ state'[s] # "new" /\ fwd'[s] # "idle"
<1>1. fwd[s] # "idle" /\ state[s] # "new"
  BY DEF Forwarder, FwdCancelled, FwdError, FwdReceive, FwdEndOfSource, FwdSend,
         FwdSendCancelled, FwdDrain, FwdDrained, PendingErr, RowInv, ForwardersStarted
<1> USE DEF RowInv, TypeOK
<1>2. CASE FwdCancelled(s)
  BY <1>1, <1>2 DEF FwdCancelled, Abandon
<1>3. CASE FwdError(s)
  BY <1>1, <1>3 DEF FwdError, Abandon
<1>4. CASE FwdReceive(s)
  BY <1>1, <1>4 DEF FwdReceive
<1>5. CASE FwdEndOfSource(s)
  BY <1>1, <1>5 DEF FwdEndOfSource
<1>6. CASE FwdSend(s)
  BY <1>1, <1>6 DEF FwdSend
<1>7. CASE FwdSendCancelled(s)
  BY <1>1, <1>7 DEF FwdSendCancelled, Abandon, Discard
<1>8. CASE FwdDrain(s)
  BY <1>1, <1>8 DEF FwdDrain, Discard
<1>9. CASE FwdDrained(s)
  BY <1>1, <1>9 DEF FwdDrained
<1>10. CASE PendingErr(s)
  BY <1>1, <1>10 DEF PendingErr
<1>. QED BY <1>2, <1>3, <1>4, <1>5, <1>6, <1>7, <1>8, <1>9, <1>10 DEF Forwarder

LEMMA ForwarderEnds ==
    ASSUME RowInv, NEW s \in Sources, Forwarder(s)
    PROVE  /\ fwd'[s] \in {"pending", "done"} => s \notin open
           /\ errs'[s] = "taken" => fwd'[s] \in {"draining", "done"}
<1> USE DEF RowInv, TypeOK, EndedIsClosed
<1>1. CASE FwdCancelled(s)
  BY <1>1 DEF FwdCancelled, Abandon
<1>2. CASE FwdError(s)
  BY <1>2 DEF FwdError, Abandon
<1>3. CASE FwdReceive(s)
  BY <1>3 DEF FwdReceive
<1>4. CASE FwdEndOfSource(s)
  BY <1>4 DEF FwdEndOfSource
<1>5. CASE FwdSend(s)
  BY <1>5 DEF FwdSend
<1>6. CASE FwdSendCancelled(s)
  BY <1>6 DEF FwdSendCancelled, Abandon, Discard
<1>7. CASE FwdDrain(s)
  BY <1>7 DEF FwdDrain, Discard
<1>8. CASE FwdDrained(s)
  BY <1>8 DEF FwdDrained
<1>9. CASE PendingErr(s)
  BY <1>9 DEF PendingErr
<1>. QED BY <1>1, <1>2, <1>3, <1>4, <1>5, <1>6, <1>7, <1>8, <1>9 DEF Forwarder

LEMMA ForwarderRow ==
    ASSUME RowInv, NEW s \in Sources, Forwarder(s), RowTrue(s)
    PROVE  RowTrue(s)'
<1> USE DEF RowInv, TypeOK, EndedIsClosed, RowTrue, RowState
<1>1. CASE FwdCancelled(s)
  BY <1>1 DEF FwdCancelled, Abandon
<1>2. CASE FwdError(s)
  BY <1>2 DEF FwdError, Abandon
<1>3. CASE FwdReceive(s)
  BY <1>3 DEF FwdReceive
<1>4. CASE FwdEndOfSource(s)
  BY <1>4 DEF FwdEndOfSource
<1>5. CASE FwdSend(s)
  BY <1>5 DEF FwdSend
<1>6. CASE FwdSendCancelled(s)
  BY <1>6 DEF FwdSendCancelled, Abandon, Discard
<1>7. CASE FwdDrain(s)
  BY <1>7 DEF FwdDrain, Discard
<1>8. CASE FwdDrained(s)
  BY <1>8 DEF FwdDrained
<1>9. CASE PendingErr(s)
  BY <1>9 DEF PendingErr
<1>. QED BY <1>1, <1>2, <1>3, <1>4, <1>5, <1>6, <1>7, <1>8, <1>9 DEF Forwarder

LEMMA OtherRow ==
    ASSUME RowInv, [Next]_vars, ~ \E s \in Sources : Forwarder(s)
    PROVE  RegisteredOnce' /\ EndedIsClosed' /\ RowsTrue'
<1> USE DEF RowInv, RegisteredOnce, EndedIsClosed, RowsTrue
<1>1. ASSUME UNCHANGED <<srcs, state, remover, started, fwd, errs>>, open' \subseteq open, ctx => ctx'
      PROVE  RegisteredOnce' /\ EndedIsClosed' /\ RowsTrue'
  BY <1>1 DEF RowTrue, RowState, Registered
<1>2. ASSUME NEW s \in Sources, NEW n \in NamesOf[s], Add(s, n)
      PROVE  RegisteredOnce' /\ EndedIsClosed' /\ RowsTrue'
  <2>1. n \in Names /\ state[s] = "new" /\ srcs[n] = None /\ fwd[s] = "idle" /\ s # None
    BY <1>2, ManagerAssumption DEF Add, ForwardersStarted
  <2>2. /\ srcs' = [srcs EXCEPT ![n] = s] /\ UNCHANGED <<remover, started, ctx, open, errs>>
        /\ state' = [state EXCEPT ![s] = IF started THEN "running" ELSE "stopped"]
        /\ fwd' = [fwd EXCEPT ![s] = IF started THEN "select" ELSE @]
    BY <1>2 DEF Add
  <2>3. RegisteredOnce'
    BY <2>1, <2>2, ManagerAssumption DEF TypeOK
  <2>4. EndedIsClosed'
    BY <2>1, <2>2 DEF TypeOK
  <2>5. ASSUME NEW o \in Registered'
        PROVE  RowTrue(o)'
    <3>1. o = s \/ (o # s /\ o \in Registered)
      BY <2>1, <2>2 DEF Registered, TypeOK
    <3>2. CASE o = s
      BY <2>1, <2>2, <3>2 DEF TypeOK, RowTrue, RowState
    <3>3. CASE o # s /\ o \in Registered
      <4>1. state'[o] = state[o] /\ fwd'[o] = fwd[o] /\ RowTrue(o) /\ o \in Sources
        BY <2>2, <3>3 DEF TypeOK, Registered
      <4>. QED BY <2>2, <4>1 DEF RowTrue, RowState
    <3>. QED BY <3>1, <3>2, <3>3
  <2>. QED BY <2>3, <2>4, <2>5
<1>3. CASE Packets
  <2>1. /\ \A s \in Registered : state'[s] = "running" /\ fwd'[s] = "select"
        /\ \A s \in Sources \ Registered : state'[s] = state[s] /\ fwd'[s] = fwd[s]
        /\ \A s \in Sources : fwd[s] = "idle" /\ errs[s] = "none" /\ s # None
        /\ UNCHANGED <<srcs, remover, ctx, open, errs>>
    BY <1>3, ManagerAssumption DEF Packets, ForwardersStarted, Registered
  <2>2. RegisteredOnce'
    BY <2>1 DEF TypeOK, Registered
  <2>3. EndedIsClosed'
    BY <2>1
  <2>4. Registered' = Registered
    BY <2>1 DEF Registered
  <2>5. RowsTrue'
    BY <2>1, <2>4 DEF RowTrue, RowState
  <2>. QED BY <2>2, <2>3, <2>5
<1>4. ASSUME NEW n \in Removable, RemoveRow(n)
      PROVE  RegisteredOnce' /\ EndedIsClosed' /\ RowsTrue'
  <2>1. /\ n \in Names /\ srcs[n] \in Sources /\ srcs' = [srcs EXCEPT ![n] = None]
        /\ remover'.src = srcs[n] /\ UNCHANGED <<state, started, ctx, fwd, open, errs>>
    BY <1>4, ManagerAssumption DEF RemoveRow, TypeOK
  <2>2. RegisteredOnce'
    BY <2>1 DEF TypeOK
  <2>3. Registered' \subseteq Registered
    BY <2>1, ManagerAssumption DEF Registered, TypeOK
  <2>. QED BY <2>1, <2>2, <2>3 DEF RowTrue, RowState
<1>5. CASE RemoveCancel
  <2>1. remover'.src = remover.src
    BY <1>5 DEF RemoveCancel, TypeOK
  <2>2. UNCHANGED <<srcs, state, started, ctx, fwd, errs, open>>
    BY <1>5 DEF RemoveCancel
  <2>. QED BY <2>1, <2>2 DEF RowTrue, RowState, Registered
<1>6. ASSUME NEW timedOut \in BOOLEAN, RemoveReturn(timedOut)
      PROVE  RegisteredOnce' /\ EndedIsClosed' /\ RowsTrue'
  <2>1. remover.src \in Sources /\ remover.src \notin Registered
    <3>1. remover \in [pc : {"cancel", "wait"}, src : Sources]
      BY <1>6 DEF RemoveReturn, TypeOK
    <3>2. remover.src # None
      BY <3>1, ManagerAssumption
    <3>. QED BY <3>1, <3>2 DEF Registered
  <2>2. /\ state' = [state EXCEPT ![remover.src] = "stopped"] /\ remover'.src = None
        /\ UNCHANGED <<srcs, started, ctx, fwd, errs, open>>
    BY <1>6 DEF RemoveReturn
  <2>3. RegisteredOnce'
    BY <2>2 DEF TypeOK
  <2>4. \A o \in Registered : o \in Sources /\ state'[o] = state[o]
    BY <2>1, <2>2 DEF TypeOK, Registered
  <2>. QED BY <2>2, <2>3, <2>4 DEF RowTrue, RowState, Registered
<1>7. ASSUME NEW s \in Sources, SourceFails(s)
      PROVE  RegisteredOnce' /\ EndedIsClosed' /\ RowsTrue'
  <2>1. /\ s \in open /\ errs[s] = "none" /\ errs' = [errs EXCEPT ![s] = "fatal"] /\ fwd[s] # "idle"
        /\ UNCHANGED <<srcs, state, remover, started, ctx, fwd, open>>
    BY <1>7 DEF SourceFails
  <2>2. EndedIsClosed' /\ RegisteredOnce'
    BY <2>1 DEF TypeOK
  <2>3. RowsTrue'
    BY <2>1 DEF TypeOK, RowTrue, RowState, Registered
  <2>. QED BY <2>2, <2>3
<1>8. CASE Shutdown \/ CloseCancel \/ ParentCancel \/ PipelineStops
  BY <1>1, <1>8 DEF Shutdown, SamplerWake, SamplerCloses, SamplerResidue, SamplerDone, CloseSources,
         CloseReturn, CloseCancel, ParentCancel, PipelineStops
<1>9. ASSUME NEW s \in Sources, Produce(s) \/ SourceEnds(s) \/ Consume(s)
      PROVE  RegisteredOnce' /\ EndedIsClosed' /\ RowsTrue'
  BY <1>1, <1>9 DEF Produce, SourceEnds, Consume
<1>10. CASE UNCHANGED vars
  BY <1>1, <1>10 DEF vars
<1> HIDE DEF RegisteredOnce, EndedIsClosed, RowsTrue
<1>. QED BY <1>2, <1>3, <1>4, <1>5, <1>6, <1>7, <1>8, <1>9, <1>10 DEF Next

LEMMA NextRow == RowInv /\ [Next]_vars => RowInv'
<1> SUFFICES ASSUME RowInv, [Next]_vars PROVE RowInv'
  OBVIOUS
<1>1. TypeOK' /\ ForwardersStarted'
  BY NextType, NextStarted DEF RowInv
<1>2. ASSUME NEW s \in Sources, Forwarder(s)
      PROVE  RegisteredOnce' /\ EndedIsClosed' /\ RowsTrue'
  <2>1. /\ \A o \in Sources \ {s} : fwd'[o] = fwd[o] /\ state'[o] = state[o] /\ errs'[o] = errs[o]
        /\ UNCHANGED <<srcs, remover, started, ctx, open>>
        /\ state'[s] # "new" /\ fwd'[s] # "idle"
    BY <1>2, ForwarderOwn
  <2>2. /\ fwd'[s] \in {"pending", "done"} => s \notin open
        /\ errs'[s] = "taken" => fwd'[s] \in {"draining", "done"}
    BY <1>2, ForwarderEnds
  <2>3. RegisteredOnce'
    <3>1. \A o \in Sources : state[o] # "new" => state'[o] # "new"
      BY <2>1
    <3>2. (\A n \in Names : srcs[n] \in Sources \cup {None}) /\ remover.src \in Sources \cup {None}
      BY DEF RowInv, TypeOK
    <3>. QED BY <2>1, <3>1, <3>2 DEF RegisteredOnce, RowInv
  <2>4. EndedIsClosed'
    BY <2>1, <2>2 DEF EndedIsClosed, RowInv
  <2>5. ASSUME NEW o \in Registered'
        PROVE  RowTrue(o)'
    <3>1. o \in Registered /\ o \in Sources /\ RowTrue(o)
      BY <2>1 DEF Registered, RowInv, RowsTrue
    <3>2. CASE o = s
      BY <1>2, <3>1, <3>2, ForwarderRow
    <3>3. CASE o # s
      BY <2>1, <3>1, <3>3 DEF RowTrue, RowState
    <3>. QED BY <3>2, <3>3
  <2>. QED BY <2>3, <2>4, <2>5 DEF RowsTrue
<1>3. RegisteredOnce' /\ EndedIsClosed' /\ RowsTrue'
  BY <1>2, OtherRow
<1>. QED BY <1>1, <1>3 DEF RowInv

\* The row of a registered source tells what its forwarder is doing, also when an
\* earlier source of that name is still being removed (manager.go launch, pendingErr,
\* Remove).
THEOREM RowsAlwaysTrue == Spec => []RowsTellTheTruth
<1>1. RowInv => RowsTellTheTruth
  BY DEF RowInv, RowsTrue, RowTrue, RowState, RowsTellTheTruth
<1>. QED BY <1>1, InitRow, NextRow, PTL DEF Spec

-----------------------------------------------------------------------------
(* Sums over a finite set.  SumFunction is a fold; what it adds up to follows from there being
   no least set of which it is false. *)

LEMMA LeastOf ==
    ASSUME NEW T, T \subseteq Nat, T # {}
    PROVE  \E x \in T : \A y \in T : x <= y
<1> DEFINE R == {p \in Nat \X Nat : p[1] < p[2]}
<1>1. IsWellFoundedOn(R, Nat)
  <2>1. OpToRel(<, Nat) = R
    BY DEF OpToRel
  <2>. QED BY <2>1, NatLessThanWellFounded
<1>2. PICK x \in T : \A y \in T : ~ (<<y, x>> \in R)
  BY <1>1, WFMin
<1>3. \A y \in T : ~ (y < x)
  BY <1>2
<1>. QED BY <1>3

Pick(s) == CHOOSE x \in s : TRUE

\* A set of subsets that has the empty one and every one it has without its chosen element has them all.
LEMMA SubsetsByChoice ==
    ASSUME NEW S, IsFiniteSet(S), NEW G \in SUBSET (SUBSET S), {} \in G,
           \A s \in SUBSET S : s # {} /\ s \ {Pick(s)} \in G => s \in G
    PROVE  G = SUBSET S
<1> SUFFICES ASSUME NEW t \in SUBSET S, t \notin G PROVE FALSE
  OBVIOUS
<1> DEFINE size == [s \in SUBSET S |-> Cardinality(s)]
           T == {size[s] : s \in (SUBSET S) \ G}
<1>1. \A s \in SUBSET S : IsFiniteSet(s) /\ size[s] \in Nat /\ size[s] = Cardinality(s)
  BY FS_Subset, FS_CardinalityType
<1>2. T \subseteq Nat /\ T # {}
  <2>1. \A y \in T : y \in Nat
    <3> HIDE DEF size
    <3>. QED BY <1>1
  <2>2. size[t] \in T
    <3> HIDE DEF size
    <3>. QED OBVIOUS
  <2> HIDE DEF T
  <2>. QED BY <2>1, <2>2
<1>3. PICK n \in T : \A y \in T : n <= y
  BY <1>2, LeastOf
<1>4. PICK s \in (SUBSET S) \ G : n = size[s]
  BY <1>3
<1>5. s # {} /\ Pick(s) \in s
  <2>1. s # {}
    BY <1>4
  <2>. QED BY <2>1 DEF Pick
<1>6. s \ {Pick(s)} \in (SUBSET S) \ G
  BY <1>4, <1>5
<1>7. size[s \ {Pick(s)}] = size[s] - 1
  <2>1. PICK x \in s : x = Pick(s)
    BY <1>5
  <2>2. IsFiniteSet(s)
    BY <1>1
  <2>3. Cardinality(s \ {x}) = Cardinality(s) - 1
    BY <2>2, FS_RemoveElement
  <2>. QED BY <1>1, <1>6, <2>1, <2>3
<1>8. size[s \ {Pick(s)}] \in T
  BY <1>6
<1>9. size[s] <= size[s \ {Pick(s)}]
  BY <1>3, <1>4, <1>8
<1>10. size[s] \in Nat
  BY <1>1
<1> HIDE DEF size
<1>. QED BY <1>7, <1>9, <1>10

Sums(f, h, D) == \A s \in D : h[s] = IF s = {} THEN 0 ELSE f[Pick(s)] + h[s \ {Pick(s)}]

LEMMA SumsExist ==
    ASSUME NEW S, IsFiniteSet(S), NEW f \in [S -> Int]
    PROVE  \E h \in [SUBSET S -> Int] : Sums(f, h, SUBSET S)
<1> DEFINE Small(n) == {s \in SUBSET S : Cardinality(s) <= n}
           T == {n \in Nat : ~ \E h \in [Small(n) -> Int] : Sums(f, h, Small(n))}
<1>1. \A s \in SUBSET S : IsFiniteSet(s) /\ Cardinality(s) \in Nat /\ Cardinality(s) <= Cardinality(S)
  BY FS_Subset, FS_CardinalityType
<1>2. T = {}
  <2> SUFFICES ASSUME NEW some \in T PROVE FALSE
    OBVIOUS
  <2>1. PICK n \in T : \A y \in T : n <= y
    <3> T \subseteq Nat
      OBVIOUS
    <3> HIDE DEF T
    <3>. QED BY LeastOf
  <2>2. n # 0
    <3> SUFFICES ASSUME n = 0 PROVE FALSE
      OBVIOUS
    <3>1. \A s \in Small(0) : s = {}
      BY <1>1, FS_EmptySet
    <3> DEFINE h == [s \in Small(0) |-> 0]
    <3>2. h \in [Small(0) -> Int] /\ Sums(f, h, Small(0))
      BY <3>1 DEF Sums
    <3>. QED BY <2>1, <3>2
  <2>3. n - 1 \in Nat /\ n - 1 \notin T
    <3>1. n \in Nat
      BY <2>1
    <3>2. n - 1 \in Nat /\ ~ (n <= n - 1)
      BY <2>2, <3>1
    <3> HIDE DEF T
    <3>. QED BY <2>1, <3>2
  <2>4. PICK h \in [Small(n - 1) -> Int] : Sums(f, h, Small(n - 1))
    BY <2>3
  <2> DEFINE g == [s \in Small(n) |-> IF s \in Small(n - 1) THEN h[s] ELSE f[Pick(s)] + h[s \ {Pick(s)}]]
  <2>5. \A s \in Small(n) : s # {} => Pick(s) \in s /\ Pick(s) \in S /\ s \ {Pick(s)} \in Small(n - 1)
    <3> SUFFICES ASSUME NEW s \in Small(n), s # {}
                 PROVE  Pick(s) \in s /\ Pick(s) \in S /\ s \ {Pick(s)} \in Small(n - 1)
      OBVIOUS
    <3>1. Pick(s) \in s
      BY DEF Pick
    <3>2. Cardinality(s \ {Pick(s)}) = Cardinality(s) - 1
      BY <1>1, <3>1, FS_RemoveElement
    <3>. QED BY <1>1, <2>1, <3>1, <3>2
  <2>6. {} \in Small(n - 1) /\ Small(n - 1) \subseteq Small(n)
    BY <1>1, <2>1, <2>3, FS_EmptySet
  <2>7. g \in [Small(n) -> Int]
    <3> SUFFICES ASSUME NEW s \in Small(n) PROVE g[s] \in Int
      OBVIOUS
    <3>1. CASE s \in Small(n - 1)
      <4> HIDE DEF Small
      <4>. QED BY <2>4, <3>1
    <3>2. CASE s \notin Small(n - 1)
      <4>1. s # {}
        BY <2>6, <3>2
      <4>2. f[Pick(s)] \in Int /\ h[s \ {Pick(s)}] \in Int
        <5> HIDE DEF Small
        <5>. QED BY <2>4, <2>5, <4>1
      <4> HIDE DEF Small
      <4>. QED BY <3>2, <4>2
    <3>. QED BY <3>1, <3>2
  <2>8. Sums(f, g, Small(n))
    <3> SUFFICES ASSUME NEW s \in Small(n)
                 PROVE  g[s] = IF s = {} THEN 0 ELSE f[Pick(s)] + g[s \ {Pick(s)}]
      BY DEF Sums
    <3>1. CASE s = {}
      <4> HIDE DEF Small
      <4>. QED BY <2>4, <2>6, <3>1 DEF Sums
    <3>2. CASE s # {}
      <4>1. s \ {Pick(s)} \in Small(n - 1) /\ g[s \ {Pick(s)}] = h[s \ {Pick(s)}]
        <5> HIDE DEF Small
        <5>. QED BY <2>5, <2>6, <3>2
      <4>2. g[s] = f[Pick(s)] + h[s \ {Pick(s)}]
        <5> HIDE DEF Small
        <5>. QED BY <2>4, <3>2 DEF Sums
      <4>. QED BY <3>2, <4>1, <4>2
    <3>. QED BY <3>1, <3>2
  <2>. QED BY <2>1, <2>7, <2>8
<1>3. Cardinality(S) \in Nat /\ Small(Cardinality(S)) = SUBSET S
  BY <1>1, FS_CardinalityType
<1>4. PICK h \in [Small(Cardinality(S)) -> Int] : Sums(f, h, Small(Cardinality(S)))
  BY <1>2, <1>3
<1> HIDE DEF Small
<1>. QED BY <1>3, <1>4

LEMMA SumFunctionIs ==
    ASSUME NEW S, IsFiniteSet(S), NEW f \in [S -> Int]
    PROVE  \E h \in [SUBSET S -> Int] : Sums(f, h, SUBSET S) /\ SumFunction(f) = h[S]
<1> DEFINE body(h) == [s \in SUBSET S |-> IF s = {} THEN 0 ELSE f[Pick(s)] + h[s \ {Pick(s)}]]
           iter == CHOOSE h : h = body(h)
<1>1. DOMAIN f = S
  OBVIOUS
<1>2. SumFunction(f) = iter[S]
  BY <1>1 DEF SumFunction, SumFunctionOnSet, FoldFunctionOnSet, MapThenFoldSet, Pick
<1>3. iter = body(iter)
  <2>1. PICK h \in [SUBSET S -> Int] : Sums(f, h, SUBSET S)
    BY SumsExist
  <2>2. h = body(h)
    BY <2>1 DEF Sums
  <2>. QED BY <2>2
<1>4. PICK h \in [SUBSET S -> Int] : Sums(f, h, SUBSET S)
  BY SumsExist
<1>5. PICK g : g = iter
  OBVIOUS
<1>6. \A s \in SUBSET S : g[s] = IF s = {} THEN 0 ELSE f[Pick(s)] + g[s \ {Pick(s)}]
  <2>1. g = [s \in SUBSET S |-> IF s = {} THEN 0 ELSE f[Pick(s)] + g[s \ {Pick(s)}]]
    BY <1>3, <1>5
  <2>. QED BY <2>1
<1> DEFINE G == {s \in SUBSET S : g[s] = h[s]}
<1>7. {} \in G
  <2>1. {} \in SUBSET S
    OBVIOUS
  <2>2. g[{}] = 0
    BY <1>6, <2>1
  <2>3. h[{}] = 0
    BY <1>4, <2>1 DEF Sums
  <2>. QED BY <2>1, <2>2, <2>3
<1>8. ASSUME NEW s \in SUBSET S, s # {}, s \ {Pick(s)} \in G PROVE s \in G
  <2>1. g[s \ {Pick(s)}] = h[s \ {Pick(s)}]
    BY <1>8
  <2>2. g[s] = f[Pick(s)] + g[s \ {Pick(s)}]
    BY <1>6, <1>8
  <2>3. h[s] = f[Pick(s)] + h[s \ {Pick(s)}]
    BY <1>4, <1>8 DEF Sums
  <2>. QED BY <2>1, <2>2, <2>3
<1>9. G \in SUBSET (SUBSET S)
  OBVIOUS
<1> HIDE DEF G
<1>10. G = SUBSET S
  BY <1>7, <1>8, <1>9, SubsetsByChoice
<1>11. g[S] = h[S]
  BY <1>10 DEF G
<1>. QED BY <1>2, <1>4, <1>5, <1>11

\* A sum is a number, and changes by what one of its terms does.
LEMMA SumIsNumber ==
    ASSUME NEW S, IsFiniteSet(S), NEW f \in [S -> Int]
    PROVE  SumFunction(f) \in Int
<1>1. PICK h \in [SUBSET S -> Int] : SumFunction(f) = h[S]
  BY SumFunctionIs
<1>. QED BY <1>1

LEMMA SumOfNothing ==
    ASSUME NEW S, IsFiniteSet(S), NEW f \in [S -> Int], \A x \in S : f[x] = 0
    PROVE  SumFunction(f) = 0
<1>1. PICK h \in [SUBSET S -> Int] : Sums(f, h, SUBSET S) /\ SumFunction(f) = h[S]
  BY SumFunctionIs
<1> DEFINE G == {s \in SUBSET S : h[s] = 0}
<1>2. {} \in G
  BY <1>1 DEF Sums
<1>3. ASSUME NEW s \in SUBSET S, s # {}, s \ {Pick(s)} \in G PROVE s \in G
  <2>1. Pick(s) \in S
    BY <1>3 DEF Pick
  <2>2. h[s] = f[Pick(s)] + h[s \ {Pick(s)}]
    BY <1>1, <1>3 DEF Sums
  <2>. QED BY <1>3, <2>1, <2>2
<1>4. G = SUBSET S
  <2> HIDE DEF G
  <2>1. G \in SUBSET (SUBSET S)
    BY DEF G
  <2>. QED BY <1>2, <1>3, <2>1, SubsetsByChoice
<1>. QED BY <1>1, <1>4

LEMMA SumOfChanged ==
    ASSUME NEW S, IsFiniteSet(S), NEW f \in [S -> Int], NEW g \in [S -> Int], NEW p \in S,
           \A x \in S : x # p => g[x] = f[x]
    PROVE  SumFunction(g) = SumFunction(f) + (g[p] - f[p])
<1>1. PICK h \in [SUBSET S -> Int] : Sums(f, h, SUBSET S) /\ SumFunction(f) = h[S]
  BY SumFunctionIs
<1>2. PICK k \in [SUBSET S -> Int] : Sums(g, k, SUBSET S) /\ SumFunction(g) = k[S]
  BY SumFunctionIs
<1>3. PICK d \in Int : d = g[p] - f[p]
  OBVIOUS
<1> DEFINE G == {s \in SUBSET S : k[s] = IF p \in s THEN h[s] + d ELSE h[s]}
<1>4. {} \in G
  BY <1>1, <1>2 DEF Sums
<1>5. ASSUME NEW s \in SUBSET S, s # {}, s \ {Pick(s)} \in G PROVE s \in G
  <2>1. PICK x \in s : x = Pick(s) /\ x \in S
    BY <1>5 DEF Pick
  <2>2. h[s] = f[x] + h[s \ {x}] /\ k[s] = g[x] + k[s \ {x}]
    BY <1>1, <1>2, <1>5, <2>1 DEF Sums
  <2>3. k[s \ {x}] = IF p \in s \ {x} THEN h[s \ {x}] + d ELSE h[s \ {x}]
    BY <1>5, <2>1
  <2>4. /\ h[s \ {x}] \in Int /\ k[s \ {x}] \in Int /\ f[x] \in Int /\ g[x] \in Int
        /\ f[p] \in Int /\ g[p] \in Int
    BY <2>1
  <2>5. CASE x = p
    <3>1. p \in s /\ p \notin s \ {x}
      BY <2>1, <2>5
    <3>. QED BY <1>3, <2>2, <2>3, <2>4, <2>5, <3>1
  <2>6. CASE x # p
    <3>1. g[x] = f[x] /\ (p \in s \ {x} <=> p \in s)
      BY <2>1, <2>6
    <3>. QED BY <1>3, <2>2, <2>3, <2>4, <3>1
  <2>. QED BY <2>5, <2>6
<1>6. G = SUBSET S
  <2> HIDE DEF G
  <2>1. G \in SUBSET (SUBSET S)
    BY DEF G
  <2>. QED BY <1>4, <1>5, <2>1, SubsetsByChoice
<1>7. k[S] = h[S] + d
  BY <1>6
<1>. QED BY <1>1, <1>2, <1>3, <1>7

-----------------------------------------------------------------------------
(* The lifetime counter is the sum of what was discarded per source. *)

OneMoreAt(f, g, s) == g = [f EXCEPT ![s] = @ + 1]

LEMMA OneMore ==
    ASSUME NEW f \in [Sources -> Nat], NEW s \in Sources, NEW g \in [Sources -> Nat], OneMoreAt(f, g, s)
    PROVE  SumFunction(g) = SumFunction(f) + 1
<1>1. PICK a \in [Sources -> Int] : a = f
  OBVIOUS
<1>2. PICK b \in [Sources -> Int] : b = g
  OBVIOUS
<1>3. \A x \in Sources : x # s => b[x] = a[x]
  BY <1>1, <1>2 DEF OneMoreAt
<1>4. IsFiniteSet(Sources)
  BY ManagerAssumption
<1>5. SumFunction(b) = SumFunction(a) + (b[s] - a[s])
  BY <1>3, <1>4, SumOfChanged
<1>6. f[s] \in Nat /\ g[s] = f[s] + 1
  BY DEF OneMoreAt
<1>7. b[s] - a[s] = 1
  BY <1>1, <1>2, <1>6
<1>. QED BY <1>1, <1>2, <1>5, <1>7

Uncounted == UNCHANGED <<drops, residue, shutdownDrops>>

LEMMA DiscardAdds ==
    ASSUME TypeOK, DropsAddUp, NEW s \in Sources, Discard(s), UNCHANGED residue
    PROVE  DropsAddUp'
<1>1. PICK f \in [Sources -> Nat] : f = drops
  BY DEF TypeOK
<1>2. PICK g \in [Sources -> Nat] : g = drops'
  BY DEF TypeOK, Discard
<1>3. OneMoreAt(f, g, s)
  BY <1>1, <1>2 DEF Discard, OneMoreAt
<1>4. SumFunction(g) = SumFunction(f) + 1
  BY <1>3, OneMore
<1>5. PICK x \in Int, y \in Int : x = SumFunction(drops) /\ y = SumFunction(residue)
  <2>1. drops \in [Sources -> Int] /\ residue \in [Sources -> Int] /\ IsFiniteSet(Sources)
    BY ManagerAssumption DEF TypeOK
  <2>. QED BY <2>1, SumIsNumber
<1>6. shutdownDrops' = (x + y) + 1 /\ SumFunction(drops') = x + 1 /\ SumFunction(residue') = y
  BY <1>1, <1>2, <1>4, <1>5 DEF DropsAddUp, Discard
<1>. QED BY <1>6 DEF DropsAddUp

LEMMA ResidueAdds ==
    ASSUME TypeOK, DropsAddUp, NEW s \in Sources, SamplerResidue(s)
    PROVE  DropsAddUp'
<1>1. PICK f \in [Sources -> Nat] : f = residue
  BY DEF TypeOK
<1>2. PICK g \in [Sources -> Nat] : g = residue'
  BY DEF TypeOK, SamplerResidue
<1>3. OneMoreAt(f, g, s)
  BY <1>1, <1>2 DEF SamplerResidue, OneMoreAt
<1>4. SumFunction(g) = SumFunction(f) + 1
  BY <1>3, OneMore
<1>5. PICK x \in Int, y \in Int : x = SumFunction(drops) /\ y = SumFunction(residue)
  <2>1. drops \in [Sources -> Int] /\ residue \in [Sources -> Int] /\ IsFiniteSet(Sources)
    BY ManagerAssumption DEF TypeOK
  <2>. QED BY <2>1, SumIsNumber
<1>6. shutdownDrops' = (x + y) + 1 /\ SumFunction(drops') = x /\ SumFunction(residue') = y + 1
  BY <1>1, <1>2, <1>4, <1>5 DEF DropsAddUp, SamplerResidue
<1>. QED BY <1>6 DEF DropsAddUp

LEMMA NextAdds == TypeOK /\ DropsAddUp /\ [Next]_vars => DropsAddUp'
<1> SUFFICES ASSUME TypeOK, DropsAddUp, [Next]_vars PROVE DropsAddUp'
  OBVIOUS
<1>1. ASSUME Uncounted PROVE DropsAddUp'
  BY <1>1 DEF Uncounted, DropsAddUp
<1>2. ASSUME NEW s \in Sources, Forwarder(s) PROVE DropsAddUp'
  <2>1. CASE FwdSendCancelled(s)
    BY <2>1, DiscardAdds DEF FwdSendCancelled
  <2>2. CASE FwdDrain(s)
    BY <2>2, DiscardAdds DEF FwdDrain
  <2>3. CASE FwdCancelled(s) \/ FwdError(s) \/ FwdReceive(s) \/ FwdEndOfSource(s) \/ FwdSend(s) \/ FwdDrained(s) \/ PendingErr(s)
    BY <1>1, <2>3 DEF FwdCancelled, FwdError, FwdReceive, FwdEndOfSource, FwdSend, FwdDrained, PendingErr, Abandon, Uncounted
  <2>. QED BY <1>2, <2>1, <2>2, <2>3 DEF Forwarder
<1>3. ASSUME NEW s \in Sources, SamplerResidue(s) PROVE DropsAddUp'
  BY <1>3, ResidueAdds
<1>4. ASSUME NEW s \in Sources, NEW n \in NamesOf[s], Add(s, n) PROVE DropsAddUp'
  BY <1>1, <1>4 DEF Add, Uncounted
<1>5. CASE Packets
  BY <1>1, <1>5 DEF Packets, Uncounted
<1>6. ASSUME NEW s \in Sources, Produce(s) \/ Consume(s) \/ SourceFails(s) \/ SourceEnds(s) PROVE DropsAddUp'
  BY <1>1, <1>6 DEF Produce, Consume, SourceFails, SourceEnds, Uncounted
<1>7. CASE SamplerWake \/ SamplerCloses \/ SamplerDone \/ CloseSources \/ CloseReturn \/ CloseCancel
           \/ ParentCancel \/ PipelineStops \/ RemoveCancel
  BY <1>1, <1>7 DEF SamplerWake, SamplerCloses, SamplerDone, CloseSources, CloseReturn, CloseCancel,
         ParentCancel, PipelineStops, RemoveCancel, Uncounted
<1>8. ASSUME NEW n \in Removable, RemoveRow(n) PROVE DropsAddUp'
  BY <1>1, <1>8 DEF RemoveRow, Uncounted
<1>9. ASSUME NEW timedOut \in BOOLEAN, RemoveReturn(timedOut) PROVE DropsAddUp'
  BY <1>1, <1>9 DEF RemoveReturn, Uncounted
<1>10. CASE UNCHANGED vars
  BY <1>1, <1>10 DEF vars, Uncounted
<1>. QED BY <1>2, <1>3, <1>4, <1>5, <1>6, <1>7, <1>8, <1>9, <1>10 DEF Next, Shutdown

\* What the daemon reports as dropped over its life is what was discarded for each source that
\* was cancelled, failed or was removed, and what was left in the merged channel at the end, for
\* any number of sources (manager.go, shutdownDrops).
THEOREM DropsAlwaysAddUp == Spec => []DropsAddUp
<1>1. Init => TypeOK /\ DropsAddUp
  <2> SUFFICES ASSUME Init PROVE DropsAddUp
    BY InitType
  <2>0. merged = [s \in Sources |-> 0] /\ merged \in [Sources -> Nat]
    BY DEF Init
  <2>1. PICK f \in [Sources -> Int] : f = [s \in Sources |-> 0]
    BY <2>0
  <2>2. IsFiniteSet(Sources) /\ \A s \in Sources : f[s] = 0
    BY <2>1, ManagerAssumption
  <2>3. SumFunction(f) = 0
    BY <2>2, SumOfNothing
  <2>4. drops = f /\ residue = f /\ shutdownDrops = 0
    BY <2>1 DEF Init
  <2>. QED BY <2>3, <2>4 DEF DropsAddUp
<1>. QED BY <1>1, NextType, NextAdds, PTL DEF Spec

-----------------------------------------------------------------------------
(* Captures (LiveCapture): lines of frames. *)

\* n places hold frames 1 to top in their order, each once, but for those that are gone.
Sound(L, n, top, gone) ==
    /\ DOMAIN L = 1..n
    /\ \A a \in 1..n : L[a] \in Seq(Nat) /\ Rising(L[a])
    /\ \A a, b \in 1..n : a < b => \A x \in Range(L[a]), y \in Range(L[b]) : x < y
    /\ \A a \in 1..n : Range(L[a]) \subseteq 1..top
    /\ top = Cardinality(OnLine(L)) + gone

LEMMA RangeIs ==
    ASSUME NEW t \in Seq(Nat)
    PROVE  /\ Range(t) \subseteq Nat /\ \A x : x \in Range(t) <=> \E i \in 1..Len(t) : x = t[i]
           /\ Range(t) = {} <=> t = <<>>
<1>1. DOMAIN t = 1..Len(t) /\ Len(t) \in Nat /\ \A i \in 1..Len(t) : t[i] \in Nat
  BY LenProperties, ElementOfSeq
<1>2. Range(t) \subseteq Nat /\ \A x : x \in Range(t) <=> \E i \in 1..Len(t) : x = t[i]
  BY <1>1 DEF Range
<1>3. t = <<>> <=> Len(t) = 0
  BY EmptySeq
<1>4. Range(t) = {} <=> Len(t) = 0
  <2>1. CASE Len(t) = 0
    BY <1>2, <2>1
  <2>2. CASE Len(t) # 0
    <3>1. 1 \in 1..Len(t)
      BY <1>1, <2>2
    <3>. QED BY <1>2, <2>2, <3>1
  <2>. QED BY <2>1, <2>2
<1>. QED BY <1>2, <1>3, <1>4

\* The first of a rising sequence is before the others.
LEMMA RisingTail ==
    ASSUME NEW t \in Seq(Nat), Rising(t), t # <<>>
    PROVE  /\ Tail(t) \in Seq(Nat) /\ Rising(Tail(t)) /\ Head(t) \in Nat
           /\ Range(t) = Range(Tail(t)) \cup {Head(t)} /\ Head(t) \notin Range(Tail(t))
           /\ \A y \in Range(Tail(t)) : Head(t) < y
<1>1. /\ Tail(t) \in Seq(Nat) /\ Len(Tail(t)) = Len(t) - 1 /\ Head(t) = t[1] /\ Len(t) \in Nat \ {0}
      /\ \A i \in 1..Len(Tail(t)) : Tail(t)[i] = t[i + 1]
      /\ DOMAIN t = 1..Len(t) /\ DOMAIN Tail(t) = 1..Len(Tail(t))
  BY HeadTailProperties, LenProperties, EmptySeq
<1>2. \A i \in 1..Len(t) : t[i] \in Nat
  BY ElementOfSeq
<1>3. \A i, j \in 1..Len(t) : i < j => t[i] < t[j]
  BY <1>1 DEF Rising
<1>4. Rising(Tail(t))
  <2> SUFFICES ASSUME NEW i \in 1..Len(Tail(t)), NEW j \in 1..Len(Tail(t)), i < j PROVE Tail(t)[i] < Tail(t)[j]
    BY <1>1 DEF Rising
  <2>1. i + 1 \in 1..Len(t) /\ j + 1 \in 1..Len(t) /\ i + 1 < j + 1
    BY <1>1
  <2>2. t[i + 1] < t[j + 1]
    BY <1>3, <2>1
  <2>. QED BY <1>1, <2>2
<1>5. \A x : x \in Range(t) <=> x \in Range(Tail(t)) \/ x = t[1]
  <2>1. \A x : x \in Range(t) <=> \E i \in 1..Len(t) : x = t[i]
    BY RangeIs
  <2>2. \A x : x \in Range(Tail(t)) <=> \E i \in 1..(Len(t) - 1) : x = t[i + 1]
    <3>1. \A x : x \in Range(Tail(t)) <=> \E i \in 1..Len(Tail(t)) : x = Tail(t)[i]
      BY <1>1, RangeIs
    <3>. QED BY <1>1, <3>1
  <2>3. ASSUME NEW i \in 1..Len(t), i # 1 PROVE \E j \in 1..(Len(t) - 1) : t[i] = t[j + 1]
    <3>1. i - 1 \in 1..(Len(t) - 1) /\ (i - 1) + 1 = i
      BY <1>1, <2>3
    <3>. QED BY <3>1
  <2>4. ASSUME NEW i \in 1..(Len(t) - 1) PROVE i + 1 \in 1..Len(t)
    BY <1>1
  <2>5. 1 \in 1..Len(t)
    BY <1>1
  <2>6. ASSUME NEW x \in Range(t), x # t[1] PROVE x \in Range(Tail(t))
    <3>1. PICK i \in 1..Len(t) : x = t[i]
      BY <2>1
    <3>. QED BY <2>2, <2>3, <2>6, <3>1
  <2>7. ASSUME NEW x \in Range(Tail(t)) PROVE x \in Range(t)
    BY <2>1, <2>2, <2>4
  <2>8. t[1] \in Range(t)
    BY <2>1, <2>5
  <2>. QED BY <2>6, <2>7, <2>8
<1>6. \A y \in Range(Tail(t)) : t[1] < y
  <2> SUFFICES ASSUME NEW y \in Range(Tail(t)) PROVE t[1] < y
    OBVIOUS
  <2>1. PICK i \in 1..Len(Tail(t)) : y = t[i + 1]
    <3>1. PICK i \in 1..Len(Tail(t)) : y = Tail(t)[i]
      BY <1>1, RangeIs
    <3>. QED BY <1>1, <3>1
  <2>2. i + 1 \in 1..Len(t) /\ 1 < i + 1 /\ 1 \in 1..Len(t)
    BY <1>1
  <2>. QED BY <1>3, <2>1, <2>2
<1>7. t[1] \notin Range(Tail(t)) /\ t[1] \in Nat
  <2>1. t[1] \in Nat
    BY <1>1, <1>2
  <2>. QED BY <1>6, <2>1
<1>. QED BY <1>1, <1>4, <1>5, <1>6, <1>7

LEMMA RisingAppend ==
    ASSUME NEW t \in Seq(Nat), Rising(t), NEW x \in Nat, \A y \in Range(t) : y < x
    PROVE  Append(t, x) \in Seq(Nat) /\ Rising(Append(t, x)) /\ Range(Append(t, x)) = Range(t) \cup {x}
<1> DEFINE u == Append(t, x)
<1>1. /\ u \in Seq(Nat) /\ Len(u) = Len(t) + 1 /\ Len(t) \in Nat /\ u[Len(t) + 1] = x
      /\ \A i \in 1..Len(t) : u[i] = t[i] /\ t[i] \in Nat
      /\ DOMAIN t = 1..Len(t) /\ DOMAIN u = 1..Len(u)
  BY AppendProperties, LenProperties, ElementOfSeq
<1> HIDE DEF u
<1>2. \A y : y \in Range(t) <=> \E i \in 1..Len(t) : y = t[i]
  BY RangeIs
<1>3. Rising(u)
  <2> SUFFICES ASSUME NEW i \in 1..Len(u), NEW j \in 1..Len(u), i < j PROVE u[i] < u[j]
    BY <1>1 DEF Rising
  <2>1. i \in 1..Len(t)
    BY <1>1
  <2>2. CASE j = Len(t) + 1
    BY <1>1, <1>2, <2>1, <2>2
  <2>3. CASE j # Len(t) + 1
    <3>1. j \in 1..Len(t)
      <4>1. j \in 1..(Len(t) + 1) /\ Len(t) \in Nat
        BY <1>1
      <4>. QED BY <2>3, <4>1
    <3>2. t[i] < t[j]
      BY <1>1, <2>1, <3>1 DEF Rising
    <3>. QED BY <1>1, <2>1, <3>1, <3>2
  <2>. QED BY <2>2, <2>3
<1>4. \A y : y \in Range(u) <=> y \in Range(t) \/ y = x
  <2>1. \A y : y \in Range(u) <=> \E i \in 1..(Len(t) + 1) : y = u[i]
    BY <1>1, RangeIs
  <2>2. 1..(Len(t) + 1) = 1..Len(t) \cup {Len(t) + 1}
    BY <1>1
  <2>. QED BY <1>1, <1>2, <2>1, <2>2
<1>. QED BY <1>1, <1>3, <1>4 DEF u

LEMMA NothingRises == <<>> \in Seq(Nat) /\ Rising(<<>>) /\ Range(<<>>) = {}
<1>1. <<>> \in Seq(Nat) /\ Len(<<>>) = 0
  BY EmptySeq
<1>2. DOMAIN <<>> = 1..0
  BY <1>1, LenProperties
<1>. QED BY <1>1, <1>2, RangeIs DEF Rising

\* The frames on a line of n places are those of its places.
LEMMA OnLineIs ==
    ASSUME NEW L, NEW n \in Nat, DOMAIN L = 1..n
    PROVE  \A x : x \in OnLine(L) <=> \E a \in 1..n : x \in Range(L[a])
BY DEF OnLine

LEMMA LineIsFinite ==
    ASSUME NEW n \in Nat, NEW L, NEW top \in Nat, NEW gone, Sound(L, n, top, gone)
    PROVE  IsFiniteSet(OnLine(L)) /\ Cardinality(OnLine(L)) \in Nat
<1>1. \A x : x \in OnLine(L) <=> \E a \in 1..n : x \in Range(L[a])
  BY OnLineIs DEF Sound
<1>2. OnLine(L) \subseteq 1..top
  BY <1>1 DEF Sound
<1>3. IsFiniteSet(1..top)
  BY FS_Interval
<1>4. IsFiniteSet(OnLine(L))
  BY <1>2, <1>3, FS_Subset
<1>. QED BY <1>4, FS_CardinalityType

\* A line whose places hold the same frames in the same order is as sound.
LEMMA SameFrames ==
    ASSUME NEW n \in Nat, NEW L, NEW M, NEW top \in Nat, NEW gone \in Nat, Sound(L, n, top, gone), DOMAIN M = 1..n,
           \A a \in 1..n : M[a] \in Seq(Nat) /\ Rising(M[a]),
           \A a, b \in 1..n : a < b => \A x \in Range(M[a]), y \in Range(M[b]) : x < y,
           \A x : (\E a \in 1..n : x \in Range(M[a])) <=> \E a \in 1..n : x \in Range(L[a])
    PROVE  Sound(M, n, top, gone)
<1>1. OnLine(M) = OnLine(L)
  <2>1. \A x : x \in OnLine(L) <=> \E a \in 1..n : x \in Range(L[a])
    BY OnLineIs DEF Sound
  <2>2. \A x : x \in OnLine(M) <=> \E a \in 1..n : x \in Range(M[a])
    BY OnLineIs
  <2>. QED BY <2>1, <2>2
<1>2. \A a \in 1..n : Range(M[a]) \subseteq 1..top
  BY DEF Sound
<1>. QED BY <1>1, <1>2 DEF Sound

\* The first frame of one place moves to the end of another, with nothing between the two.
LEMMA Moved ==
    ASSUME NEW n \in Nat, NEW L, NEW M, NEW top \in Nat, NEW gone \in Nat, Sound(L, n, top, gone),
           NEW a \in 1..n, NEW b \in 1..n, a < b, L[b] # <<>>, \A c \in 1..n : a < c /\ c < b => L[c] = <<>>,
           DOMAIN M = 1..n, M[a] = Append(L[a], Head(L[b])), M[b] = Tail(L[b]),
           \A c \in 1..n : c # a /\ c # b => M[c] = L[c]
    PROVE  Sound(M, n, top, gone)
<1>1. PICK h : h = Head(L[b])
  OBVIOUS
<1>2. /\ L[a] \in Seq(Nat) /\ Rising(L[a]) /\ L[b] \in Seq(Nat) /\ Rising(L[b])
      /\ \A c, d \in 1..n : c < d => \A x \in Range(L[c]), y \in Range(L[d]) : x < y
      /\ \A c \in 1..n : L[c] \in Seq(Nat) /\ Rising(L[c]) /\ (L[c] = <<>> => Range(L[c]) = {})
  BY NothingRises DEF Sound
<1>3. /\ M[b] \in Seq(Nat) /\ Rising(M[b]) /\ h \in Nat /\ Range(L[b]) = Range(M[b]) \cup {h}
      /\ \A y \in Range(M[b]) : h < y
  BY <1>1, <1>2, RisingTail
<1>4. \A y \in Range(L[a]) : y < h
  BY <1>2, <1>3
<1>5. M[a] \in Seq(Nat) /\ Rising(M[a]) /\ Range(M[a]) = Range(L[a]) \cup {h}
  <2>1. PICK t : t = L[a]
    OBVIOUS
  <2>2. t \in Seq(Nat) /\ Rising(t) /\ M[a] = Append(t, h) /\ \A y \in Range(t) : y < h
    BY <1>1, <1>2, <1>4, <2>1
  <2>3. Append(t, h) \in Seq(Nat) /\ Rising(Append(t, h)) /\ Range(Append(t, h)) = Range(t) \cup {h}
    BY <1>3, <2>2, RisingAppend
  <2>. QED BY <2>1, <2>2, <2>3
<1>6. \A c \in 1..n : M[c] \in Seq(Nat) /\ Rising(M[c])
  BY <1>2, <1>3, <1>5
<1>7. ASSUME NEW c \in 1..n, NEW d \in 1..n, c < d, NEW x \in Range(M[c]), NEW y \in Range(M[d]) PROVE x < y
  <2>1. CASE c = a /\ d = b
    BY <1>2, <1>3, <1>5, <1>7, <2>1
  <2>2. CASE c = a /\ d # b
    <3>1. y \in Range(L[d]) /\ a < d
      BY <1>7, <2>2
    <3>2. CASE d < b
      BY <1>2, <3>1, <3>2
    <3>3. CASE b < d
      <4>1. \A z \in Range(L[b]) : z < y
        BY <1>2, <3>1, <3>3
      <4>2. \A z \in Range(L[a]) : z < y
        BY <1>2, <3>1
      <4>. QED BY <1>3, <1>5, <1>7, <2>2, <4>1, <4>2
    <3>. QED BY <2>2, <3>2, <3>3
  <2>3. CASE c # a /\ d = a
    <3>1. x \in Range(L[c]) \/ c = b
      BY <1>7, <2>3
    <3>2. c # b /\ c < b /\ c < a
      BY <1>7, <2>3
    <3>3. \A z \in Range(L[a]) \cup Range(L[b]) : x < z
      BY <1>2, <3>1, <3>2
    <3>. QED BY <1>3, <1>5, <1>7, <2>3, <3>3
  <2>4. CASE c # a /\ d # a
    <3>1. \A e \in 1..n : e # a => Range(M[e]) \subseteq Range(L[e])
      BY <1>3
    <3>. QED BY <1>2, <1>7, <2>4, <3>1
  <2>. QED BY <2>1, <2>2, <2>3, <2>4
<1>8. \A x : (\E c \in 1..n : x \in Range(M[c])) <=> \E c \in 1..n : x \in Range(L[c])
  <2>1. ASSUME NEW c \in 1..n, NEW x \in Range(M[c]) PROVE \E d \in 1..n : x \in Range(L[d])
    BY <1>3, <1>5
  <2>2. ASSUME NEW c \in 1..n, NEW x \in Range(L[c]) PROVE \E d \in 1..n : x \in Range(M[d])
    BY <1>3, <1>5
  <2>. QED BY <2>1, <2>2
<1>. QED BY <1>6, <1>7, <1>8, SameFrames

\* The first frame of a place goes.
LEMMA Refused ==
    ASSUME NEW n \in Nat, NEW L, NEW M, NEW top \in Nat, NEW gone \in Nat, Sound(L, n, top, gone),
           NEW b \in 1..n, L[b] # <<>>, DOMAIN M = 1..n, M[b] = Tail(L[b]), \A c \in 1..n : c # b => M[c] = L[c]
    PROVE  Sound(M, n, top, gone + 1)
<1>1. PICK h : h = Head(L[b])
  OBVIOUS
<1>2. /\ L[b] \in Seq(Nat) /\ Rising(L[b])
      /\ \A c, d \in 1..n : c < d => \A x \in Range(L[c]), y \in Range(L[d]) : x < y
      /\ \A c \in 1..n : L[c] \in Seq(Nat) /\ Rising(L[c]) /\ Range(L[c]) \subseteq 1..top
  BY DEF Sound
<1>3. /\ M[b] \in Seq(Nat) /\ Rising(M[b]) /\ h \in Nat /\ Range(L[b]) = Range(M[b]) \cup {h} /\ h \notin Range(M[b])
  BY <1>1, <1>2, RisingTail
<1>4. \A c \in 1..n : M[c] \in Seq(Nat) /\ Rising(M[c]) /\ Range(M[c]) \subseteq Range(L[c])
  BY <1>2, <1>3
<1>5. \A c \in 1..n : h \notin Range(M[c])
  <2> SUFFICES ASSUME NEW c \in 1..n, h \in Range(M[c]) PROVE FALSE
    OBVIOUS
  <2>1. c # b /\ h \in Range(L[c]) /\ h \in Range(L[b])
    BY <1>3, <1>4
  <2>. QED BY <1>2, <1>3, <2>1
<1>6. OnLine(M) = OnLine(L) \ {h} /\ h \in OnLine(L)
  <2>1. \A x : x \in OnLine(L) <=> \E a \in 1..n : x \in Range(L[a])
    BY OnLineIs DEF Sound
  <2>2. \A x : x \in OnLine(M) <=> \E a \in 1..n : x \in Range(M[a])
    BY OnLineIs
  <2>3. ASSUME NEW a \in 1..n, NEW x \in Range(L[a]), x # h PROVE x \in Range(M[a])
    BY <1>3, <2>3
  <2>. QED BY <1>3, <1>4, <1>5, <2>1, <2>2, <2>3
<1>7. IsFiniteSet(OnLine(L)) /\ Cardinality(OnLine(L)) \in Nat
  BY LineIsFinite
<1>8. Cardinality(OnLine(M)) = Cardinality(OnLine(L)) - 1
  BY <1>6, <1>7, FS_RemoveElement
<1>9. top = Cardinality(OnLine(M)) + (gone + 1)
  BY <1>7, <1>8 DEF Sound
<1>. QED BY <1>2, <1>4, <1>9 DEF Sound

\* A new frame comes last.
LEMMA Arrived ==
    ASSUME NEW n \in Nat, NEW L, NEW M, NEW top \in Nat, NEW gone \in Nat, Sound(L, n, top, gone),
           NEW b \in 1..n, \A c \in 1..n : b < c => L[c] = <<>>,
           DOMAIN M = 1..n, M[b] = Append(L[b], top + 1), \A c \in 1..n : c # b => M[c] = L[c]
    PROVE  Sound(M, n, top + 1, gone)
<1>2. /\ \A c, d \in 1..n : c < d => \A x \in Range(L[c]), y \in Range(L[d]) : x < y
      /\ \A c \in 1..n : L[c] \in Seq(Nat) /\ Rising(L[c]) /\ Range(L[c]) \subseteq 1..top /\ (L[c] = <<>> => Range(L[c]) = {})
  BY NothingRises DEF Sound
<1>3. \A c \in 1..n : \A y \in Range(L[c]) : y \in Nat /\ y < top + 1
  <2>1. \A y \in 1..top : y \in Nat /\ y < top + 1
    OBVIOUS
  <2>. QED BY <1>2, <2>1
<1>4. M[b] \in Seq(Nat) /\ Rising(M[b]) /\ Range(M[b]) = Range(L[b]) \cup {top + 1}
  <2>1. PICK t : t = L[b]
    OBVIOUS
  <2>2. t \in Seq(Nat) /\ Rising(t) /\ M[b] = Append(t, top + 1) /\ \A y \in Range(t) : y < top + 1
    BY <1>2, <1>3, <2>1
  <2>3. PICK x \in Nat : x = top + 1
    OBVIOUS
  <2>4. Append(t, x) \in Seq(Nat) /\ Rising(Append(t, x)) /\ Range(Append(t, x)) = Range(t) \cup {x}
    BY <2>2, <2>3, RisingAppend
  <2>. QED BY <2>1, <2>2, <2>3, <2>4
<1>5. \A c \in 1..n : M[c] \in Seq(Nat) /\ Rising(M[c]) /\ Range(M[c]) \subseteq 1..(top + 1)
  <2>1. 1..top \subseteq 1..(top + 1) /\ top + 1 \in 1..(top + 1)
    OBVIOUS
  <2> SUFFICES ASSUME NEW c \in 1..n PROVE M[c] \in Seq(Nat) /\ Rising(M[c]) /\ Range(M[c]) \subseteq 1..(top + 1)
    OBVIOUS
  <2>2. Range(L[b]) \subseteq 1..top
    BY <1>2
  <2>3. CASE c = b
    BY <1>4, <2>1, <2>2, <2>3
  <2>4. CASE c # b
    <3>1. M[c] = L[c] /\ L[c] \in Seq(Nat) /\ Rising(L[c]) /\ Range(L[c]) \subseteq 1..top
      BY <1>2, <2>4
    <3>. QED BY <2>1, <3>1
  <2>. QED BY <2>3, <2>4
<1>6. ASSUME NEW c \in 1..n, NEW d \in 1..n, c < d, NEW x \in Range(M[c]), NEW y \in Range(M[d]) PROVE x < y
  <2>1. CASE c = b
    <3>1. M[d] = L[d] /\ L[d] = <<>>
      BY <1>6, <2>1
    <3>2. Range(M[d]) = {}
      BY <3>1, NothingRises
    <3>. QED BY <1>6, <3>2
  <2>2. CASE d = b
    <3>1. x \in Range(L[c]) /\ c < b
      BY <1>6, <2>2
    <3>2. CASE y = top + 1
      BY <1>3, <3>1, <3>2
    <3>3. CASE y # top + 1
      <4>1. y \in Range(L[b])
        BY <1>4, <1>6, <2>2, <3>3
      <4>. QED BY <1>2, <3>1, <4>1
    <3>. QED BY <3>2, <3>3
  <2>3. CASE c # b /\ d # b
    <3>1. M[c] = L[c] /\ M[d] = L[d]
      BY <2>3
    <3>. QED BY <1>2, <1>6, <3>1
  <2>. QED BY <2>1, <2>2, <2>3
<1>7. OnLine(M) = OnLine(L) \cup {top + 1} /\ top + 1 \notin OnLine(L)
  <2>1. \A x : x \in OnLine(L) <=> \E a \in 1..n : x \in Range(L[a])
    BY OnLineIs DEF Sound
  <2>2. \A x : x \in OnLine(M) <=> \E a \in 1..n : x \in Range(M[a])
    BY OnLineIs
  <2>3. \A x : x \in OnLine(M) <=> x \in OnLine(L) \/ x = top + 1
    BY <1>4, <2>1, <2>2
  <2>4. top + 1 \notin OnLine(L)
    <3> SUFFICES ASSUME top + 1 \in OnLine(L) PROVE FALSE
      OBVIOUS
    <3>1. PICK a \in 1..n : top + 1 \in Range(L[a])
      BY <2>1
    <3>2. top + 1 < top + 1
      BY <1>3, <3>1
    <3>. QED BY <3>2
  <2>. QED BY <2>3, <2>4
<1>8. IsFiniteSet(OnLine(L)) /\ Cardinality(OnLine(L)) \in Nat
  BY LineIsFinite
<1>9. Cardinality(OnLine(M)) = Cardinality(OnLine(L)) + 1
  BY <1>7, <1>8, FS_AddElement
<1>10. top + 1 = Cardinality(OnLine(M)) + gone
  BY <1>8, <1>9 DEF Sound
<1>. QED BY <1>5, <1>6, <1>10 DEF Sound

LEMMA OneLost ==
    ASSUME NEW n \in Nat, NEW L, NEW top \in Nat, NEW gone \in Nat, Sound(L, n, top, gone)
    PROVE  Sound(L, n, top + 1, gone + 1)
<1>1. \A a \in 1..n : Range(L[a]) \subseteq 1..(top + 1)
  BY DEF Sound
<1>2. Cardinality(OnLine(L)) \in Nat
  BY LineIsFinite
<1>. QED BY <1>1, <1>2 DEF Sound

-----------------------------------------------------------------------------
(* The places of a capture's line. *)

LEMMA Wrap ==
    ASSUME NEW cap \in Nat \ {0}, NEW x \in Int
    PROVE  /\ 0 <= x /\ x < cap => x % cap = x
           /\ cap <= x /\ x < cap + cap => x % cap = x - cap
<1>1. ASSUME 0 <= x, x < cap PROVE x % cap = x
  BY <1>1
<1>2. ASSUME cap <= x, x < cap + cap PROVE x % cap = x - cap
  BY <1>2
<1>. QED BY <1>1, <1>2

\* The i-th block behind c.
Behind(c, i) == IF c + i < Blocks THEN c + i ELSE c + i - Blocks

LEMMA Around ==
    ASSUME NEW c \in 0..(Blocks - 1)
    PROVE  /\ \A i \in 0..Blocks : (c + i) % Blocks = Behind(c, i) /\ Behind(c, i) \in 0..(Blocks - 1)
           /\ \A i, j \in 0..(Blocks - 1) : Behind(c, i) = Behind(c, j) => i = j
           /\ Behind(c, 0) = c /\ Behind(c, Blocks) = c
           /\ \A i \in 0..(Blocks - 1) : Behind(Behind(c, 1), i) = Behind(c, i + 1)
<1>1. Blocks \in Nat \ {0} /\ c \in Nat /\ c < Blocks
  BY CaptureAssumption
<1>2. ASSUME NEW i \in 0..Blocks PROVE (c + i) % Blocks = Behind(c, i) /\ Behind(c, i) \in 0..(Blocks - 1)
  <2>1. PICK x \in Int : x = c + i
    BY <1>1
  <2>2. Blocks \in Nat \ {0} /\ 0 <= x /\ x <= Blocks + (Blocks - 1)
    BY <1>1, <2>1
  <2>3. CASE x < Blocks
    <3>1. x % Blocks = x
      BY <2>2, <2>3, Wrap
    <3>2. Behind(c, i) = x
      BY <2>1, <2>3 DEF Behind
    <3>3. x \in 0..(Blocks - 1)
      BY <2>2, <2>3
    <3>. QED BY <2>1, <3>1, <3>2, <3>3
  <2>4. CASE Blocks <= x
    <3>1. x < Blocks + Blocks
      BY <2>2
    <3>2. x % Blocks = x - Blocks
      BY <2>2, <2>4, <3>1, Wrap
    <3>3. x - Blocks \in 0..(Blocks - 1) /\ ~ (x < Blocks)
      BY <2>2, <2>4
    <3>4. Behind(c, i) = x - Blocks
      BY <1>1, <2>1, <2>4 DEF Behind
    <3>. QED BY <2>1, <3>2, <3>3, <3>4
  <2>5. x < Blocks \/ Blocks <= x
    BY <2>2
  <2>. QED BY <2>3, <2>4, <2>5
<1>3. \A i, j \in 0..(Blocks - 1) : Behind(c, i) = Behind(c, j) => i = j
  BY <1>1 DEF Behind
<1>4. Behind(c, 0) = c /\ Behind(c, Blocks) = c
  BY <1>1 DEF Behind
<1>5. \A i \in 0..(Blocks - 1) : Behind(Behind(c, 1), i) = Behind(c, i + 1)
  BY <1>1 DEF Behind
<1>. QED BY <1>2, <1>3, <1>4, <1>5

\* A stretch of frames.
Stretch(f, from, n) == [i \in 1..n |-> f[from + i - 1]]

LEMMA StretchFacts ==
    ASSUME NEW cap \in Nat, NEW f \in [1..cap -> Nat], NEW from \in Nat, from >= 1, NEW n \in Nat, from + n <= cap + 1
    PROVE  /\ Stretch(f, from, n) \in Seq(Nat) /\ Len(Stretch(f, from, n)) = n
           /\ \A i \in 1..n : Stretch(f, from, n)[i] = f[from + i - 1]
           /\ n = 0 <=> Stretch(f, from, n) = <<>>
           /\ n > 0 => Head(Stretch(f, from, n)) = f[from]
           /\ n > 0 => Tail(Stretch(f, from, n)) = Stretch(f, from + 1, n - 1)
<1> DEFINE t == Stretch(f, from, n)
<1>1. \A i \in 1..n : f[from + i - 1] \in Nat
  OBVIOUS
<1>2. t \in [1..n -> Nat]
  BY <1>1 DEF Stretch
<1>3. t \in Seq(Nat)
  BY <1>2, SeqDef
<1>4. \A i \in 1..n : t[i] = f[from + i - 1]
  BY DEF Stretch
<1>5. Len(t) = n
  <2>1. DOMAIN t = 1..n /\ DOMAIN t = 1..Len(t) /\ Len(t) \in Nat
    BY <1>2, <1>3, LenProperties
  <2> HIDE DEF t
  <2>. QED BY <2>1
<1>6. n = 0 <=> t = <<>>
  <2> HIDE DEF t
  <2>. QED BY <1>3, <1>5, EmptySeq
<1>7. ASSUME n > 0 PROVE Head(t) = f[from] /\ f[from] \in Nat /\ Tail(t) = Stretch(f, from + 1, n - 1)
  <2> DEFINE u == Stretch(f, from + 1, n - 1)
  <2>1. u \in [1..(n - 1) -> Nat] /\ \A i \in 1..(n - 1) : u[i] = f[from + i]
    <3>1. \A i \in 1..(n - 1) : f[(from + 1) + i - 1] = f[from + i] /\ f[from + i] \in Nat
      BY <1>7
    <3>. QED BY <3>1 DEF Stretch
  <2>2. u \in Seq(Nat) /\ n - 1 \in Nat
    BY <1>7, <2>1, SeqDef
  <2>3. Len(u) = n - 1
    <3>1. DOMAIN u = 1..(n - 1) /\ DOMAIN u = 1..Len(u) /\ Len(u) \in Nat
      BY <2>1, <2>2, LenProperties
    <3> HIDE DEF u
    <3>. QED BY <2>2, <3>1
  <2> HIDE DEF t, u
  <2>4. Head(t) = t[1] /\ Tail(t) \in Seq(Nat) /\ Len(Tail(t)) = n - 1 /\ \A i \in 1..(n - 1) : Tail(t)[i] = t[i + 1]
    BY <1>3, <1>5, <1>6, <1>7, HeadTailProperties
  <2>5. \A i \in 1..(n - 1) : Tail(t)[i] = u[i]
    <3> SUFFICES ASSUME NEW i \in 1..(n - 1) PROVE Tail(t)[i] = u[i]
      OBVIOUS
    <3>1. i + 1 \in 1..n /\ from + (i + 1) - 1 = from + i
      BY <1>7
    <3>. QED BY <1>4, <2>1, <2>4, <3>1
  <2>6. Tail(t) = u
    BY <2>2, <2>3, <2>4, <2>5, SeqEqual
  <2>7. 1 \in 1..n /\ from + 1 - 1 = from
    BY <1>7
  <2>8. t[1] = f[from] /\ f[from] \in Nat
    BY <1>1, <1>4, <2>7
  <2>. QED BY <2>4, <2>6, <2>8 DEF u
<1>. QED BY <1>3, <1>4, <1>5, <1>6, <1>7 DEF t

LEMMA StretchHead ==
    ASSUME NEW cap \in Nat, NEW f \in [1..cap -> Nat], NEW from \in Nat, from >= 1, NEW n \in Nat, n > 0, from + n <= cap + 1
    PROVE  Head(Stretch(f, from, n)) = f[from]
<1>1. PICK t : t = Stretch(f, from, n)
  OBVIOUS
<1>2. t \in [1..n -> Nat] /\ t[1] = f[from]
  <2>1. \A i \in 1..n : f[from + i - 1] \in Nat
    OBVIOUS
  <2>2. 1 \in 1..n /\ from + 1 - 1 = from
    OBVIOUS
  <2>. QED BY <1>1, <2>1, <2>2 DEF Stretch
<1>3. t \in Seq(Nat)
  BY <1>2, SeqDef
<1>4. t # <<>>
  <2>1. DOMAIN t = 1..n /\ DOMAIN t = 1..Len(t) /\ Len(t) \in Nat
    BY <1>2, <1>3, LenProperties
  <2>2. Len(t) # 0
    BY <2>1
  <2>. QED BY <1>3, <2>2, EmptySeq
<1>5. Head(t) = t[1]
  BY <1>3, <1>4, HeadTailProperties
<1>. QED BY <1>1, <1>2, <1>5

LEMMA StretchIsSeq ==
    ASSUME NEW cap \in Nat, NEW f \in [1..cap -> Nat], NEW n \in Nat, n <= cap
    PROVE  Stretch(f, 1, n) \in Seq(Nat) /\ Len(Stretch(f, 1, n)) = n /\ \A i \in 1..n : Stretch(f, 1, n)[i] = f[i]
<1> DEFINE t == Stretch(f, 1, n)
<1>1. t \in [1..n -> Nat] /\ \A i \in 1..n : t[i] = f[i]
  <2>1. \A i \in 1..n : 1 + i - 1 = i /\ f[i] \in Nat
    OBVIOUS
  <2>. QED BY <2>1 DEF Stretch
<1> HIDE DEF t
<1>2. t \in Seq(Nat)
  BY <1>1, SeqDef
<1>3. DOMAIN t = 1..n /\ DOMAIN t = 1..Len(t) /\ Len(t) \in Nat
  BY <1>1, <1>2, LenProperties
<1>. QED BY <1>1, <1>2, <1>3 DEF t

\* One more frame behind a stretch.
LEMMA StretchMore ==
    ASSUME NEW cap \in Nat, NEW f \in [1..cap -> Nat], NEW n \in Nat, n < cap,
           NEW g \in [1..cap -> Nat], \A i \in 1..n : g[i] = f[i]
    PROVE  Stretch(g, 1, n + 1) = Append(Stretch(f, 1, n), g[n + 1])
<1> DEFINE t == Stretch(f, 1, n)
           u == Stretch(g, 1, n + 1)
<1>0. PICK x \in Nat : x = g[n + 1]
  OBVIOUS
<1>1. g \in [1..cap -> Nat] /\ g[n + 1] = x /\ \A i \in 1..n : g[i] = f[i]
  BY <1>0
<1>2. t \in Seq(Nat) /\ Len(t) = n /\ \A i \in 1..n : t[i] = f[i]
  <2>1. PICK m \in Nat : m = n /\ m <= cap
    OBVIOUS
  <2>2. m <= cap
    BY <2>1
  <2>3. Stretch(f, 1, m) \in Seq(Nat) /\ Len(Stretch(f, 1, m)) = m /\ \A i \in 1..m : Stretch(f, 1, m)[i] = f[i]
    BY <2>2, StretchIsSeq
  <2>. QED BY <2>1, <2>3
<1>3. u \in Seq(Nat) /\ Len(u) = n + 1 /\ \A i \in 1..(n + 1) : u[i] = g[i]
  <2>1. PICK m \in Nat : m = n + 1 /\ m <= cap
    OBVIOUS
  <2>2. m <= cap
    BY <2>1
  <2>3. Stretch(g, 1, m) \in Seq(Nat) /\ Len(Stretch(g, 1, m)) = m /\ \A i \in 1..m : Stretch(g, 1, m)[i] = g[i]
    BY <2>2, StretchIsSeq
  <2>. QED BY <2>1, <2>3
<1> HIDE DEF t, u
<1>4. Append(t, x) \in Seq(Nat) /\ Len(Append(t, x)) = n + 1 /\ Append(t, x)[n + 1] = x /\ \A i \in 1..n : Append(t, x)[i] = t[i]
  BY <1>2, AppendProperties
<1>5. \A i \in 1..(n + 1) : u[i] = Append(t, x)[i]
  <2> SUFFICES ASSUME NEW i \in 1..(n + 1) PROVE u[i] = Append(t, x)[i]
    OBVIOUS
  <2>1. CASE i = n + 1
    BY <1>1, <1>3, <1>4, <2>1
  <2>2. CASE i # n + 1
    <3>1. i \in 1..n
      BY <2>2
    <3>. QED BY <1>1, <1>2, <1>3, <1>4, <3>1
  <2>. QED BY <2>1, <2>2
<1>6. u = Append(t, x)
  BY <1>3, <1>4, <1>5, SeqEqual
<1>. QED BY <1>0, <1>6 DEF t, u

Pcs == {"none", "open", "check", "read", "walk", "emit", "leave", "over"}
SourceState ==
    [pc : Pcs, fd : Fds \cup {NoFd}, closed : BOOLEAN, cancelled : BOOLEAN, buf : Seq(Nat), left : Nat, at : Nat,
     hand : Nat, cursor : 0..(Blocks - 1), tracked : BOOLEAN, packets : Nat, refused : Nat, drops : Nat]
BlockState == [user : BOOLEAN, num : Nat, frames : [1..BlockCap -> Nat]]
SockState ==
    [queue : Seq(Nat), arrived : Nat, lost : Nat, dropped : Nat, blocks : [0..(Blocks - 1) -> BlockState],
     fill : 0..(Blocks - 1)]

Walking(r) == r.pc \in {"walk", "emit"}
BlockAt(r, k, i) == k.blocks[Behind(r.cursor, i)]
InHand(r) == IF r.hand = NoFd THEN <<>> ELSE <<r.hand>>
Shared(r, k, i) == InBlock(BlockAt(r, k, i), IF i = 0 /\ Walking(r) THEN r.at ELSE 1)
Rest(r) == Stretch(r.buf, r.at, r.left)

\* The line of a source, given what it and its socket, its channel and its reader hold.
Place(r, k, g, o, ring, a) ==
    IF a = 1 THEN g ELSE IF a = 2 THEN o ELSE IF a = 3 THEN InHand(r)
    ELSE IF ring THEN Shared(r, k, a - 4) ELSE IF a = 4 THEN Rest(r) ELSE k.queue
Places(ring) == IF ring THEN 3 + Blocks ELSE 5
Lined(r, k, g, o, ring) == [a \in 1..Places(ring) |-> Place(r, k, g, o, ring, a)]

LEMMA PlacesAre ==
    ASSUME NEW r, NEW k, NEW g, NEW o, NEW ring \in BOOLEAN
    PROVE  /\ Places(ring) \in Nat /\ Places(ring) >= 4 /\ Places(ring) = IF ring THEN 3 + Blocks ELSE 5
           /\ DOMAIN Lined(r, k, g, o, ring) = 1..Places(ring)
           /\ \A a \in 1..Places(ring) : Lined(r, k, g, o, ring)[a] = Place(r, k, g, o, ring, a)
<1>1. Blocks \in Nat \ {0}
  BY CaptureAssumption
<1>2. Places(ring) \in Nat /\ Places(ring) >= 4 /\ Places(ring) = IF ring THEN 3 + Blocks ELSE 5
  BY <1>1 DEF Places
<1>. QED BY <1>2 DEF Lined

\* Three places before the others.
LEMMA ThreeBefore ==
    ASSUME NEW a, NEW b, NEW c, NEW n \in Nat, NEW t, DOMAIN t = 1..n, t = [i \in 1..n |-> t[i]]
    PROVE  <<a, b, c>> \o t = [i \in 1..(3 + n) |-> IF i = 1 THEN a ELSE IF i = 2 THEN b ELSE IF i = 3 THEN c ELSE t[i - 3]]
<1> DEFINE S == {a, b, c} \cup {t[i] : i \in 1..n}
           l == <<a, b, c>>
           u == l \o t
<1>1. l \in Seq(S) /\ Len(l) = 3 /\ l[1] = a /\ l[2] = b /\ l[3] = c
  OBVIOUS
<1>2. t \in Seq(S) /\ Len(t) = n
  <2>1. \A i \in 1..n : t[i] \in S
    OBVIOUS
  <2> HIDE DEF S
  <2>2. t \in [1..n -> S]
    BY <2>1
  <2>3. t \in Seq(S)
    BY <2>2, SeqDef
  <2>4. DOMAIN t = 1..Len(t) /\ Len(t) \in Nat
    BY <2>3, LenProperties
  <2>. QED BY <2>3, <2>4
<1> HIDE DEF S, l
<1>3. /\ u \in Seq(S) /\ Len(u) = 3 + n
      /\ \A i \in 1..(3 + n) : u[i] = IF i <= 3 THEN l[i] ELSE t[i - 3]
  <2>1. /\ u \in Seq(S) /\ Len(u) = Len(l) + Len(t)
        /\ \A i \in 1 .. Len(l) + Len(t) : u[i] = IF i <= Len(l) THEN l[i] ELSE t[i - Len(l)]
    BY <1>1, <1>2, ConcatProperties
  <2> HIDE DEF u
  <2>. QED BY <1>1, <1>2, <2>1
<1> HIDE DEF u
<1>4. u = [i \in 1..(3 + n) |-> u[i]]
  BY <1>3, LenProperties
<1>5. \A i \in 1..(3 + n) : u[i] = IF i = 1 THEN a ELSE IF i = 2 THEN b ELSE IF i = 3 THEN c ELSE t[i - 3]
  <2> SUFFICES ASSUME NEW i \in 1..(3 + n) PROVE u[i] = IF i = 1 THEN a ELSE IF i = 2 THEN b ELSE IF i = 3 THEN c ELSE t[i - 3]
    OBVIOUS
  <2>0. u[i] = IF i <= 3 THEN l[i] ELSE t[i - 3]
    BY <1>3
  <2>1. CASE i = 1
    BY <1>1, <2>0, <2>1
  <2>2. CASE i = 2
    BY <1>1, <2>0, <2>2
  <2>3. CASE i = 3
    BY <1>1, <2>0, <2>3
  <2>4. CASE i > 3
    BY <2>0, <2>4
  <2>. QED BY <2>1, <2>2, <2>3, <2>4
<1>. QED BY <1>4, <1>5 DEF u, l

LEMMA LineIs ==
    ASSUME NEW s \in Captures, src[s] \in SourceState, sock[s] \in SockState
    PROVE  Line(s) = Lined(src[s], sock[s], got[s], out[s], Ring(s))
<1>1. PICK r, k : r = src[s] /\ k = sock[s] /\ r \in SourceState /\ k \in SockState
  OBVIOUS
<1>2. r.cursor \in 0..(Blocks - 1) /\ Blocks \in Nat \ {0}
  BY <1>1, CaptureAssumption DEF SourceState
<1>3. CASE Ring(s)
  <2> DEFINE t == [i \in 1..Blocks |-> InBlock(k.blocks[(r.cursor + i - 1) % Blocks], IF i = 1 THEN IF r.pc \in {"walk", "emit"} THEN r.at ELSE 1 ELSE 1)]
  <2>1. Line(s) = <<got[s], out[s], InHand(r)>> \o t
    BY <1>1, <1>3 DEF Line, InHand
  <2>2. DOMAIN t = 1..Blocks /\ t = [i \in 1..Blocks |-> t[i]]
    OBVIOUS
  <2>3. \A i \in 1..Blocks : t[i] = Shared(r, k, i - 1)
    <3> SUFFICES ASSUME NEW i \in 1..Blocks PROVE t[i] = Shared(r, k, i - 1)
      OBVIOUS
    <3>1. PICK j \in 0..(Blocks - 1) : j = i - 1
      BY <1>2
    <3>2. r.cursor + i - 1 = r.cursor + j /\ (i = 1 <=> j = 0)
      BY <1>2, <3>1
    <3>3. (r.cursor + j) % Blocks = Behind(r.cursor, j)
      <4>1. PICK c \in 0..(Blocks - 1) : c = r.cursor
        BY <1>2
      <4>2. j \in 0..Blocks
        BY <1>2
      <4>. QED BY <4>1, <4>2, Around
    <3>4. t[i] = InBlock(k.blocks[Behind(r.cursor, j)], IF i = 1 THEN IF r.pc \in {"walk", "emit"} THEN r.at ELSE 1 ELSE 1)
      BY <3>2, <3>3
    <3>. QED BY <3>1, <3>2, <3>4 DEF Shared, BlockAt, Walking
  <2> HIDE DEF t
  <2>4. Line(s) = [i \in 1..(3 + Blocks) |-> IF i = 1 THEN got[s] ELSE IF i = 2 THEN out[s] ELSE IF i = 3 THEN InHand(r) ELSE t[i - 3]]
    BY <1>2, <2>1, <2>2, ThreeBefore
  <2>5. ASSUME NEW i \in 1..(3 + Blocks), i \notin {1, 2, 3} PROVE t[i - 3] = Shared(r, k, i - 4)
    <3>1. i - 3 \in 1..Blocks /\ (i - 3) - 1 = i - 4
      BY <1>2, <2>5
    <3>. QED BY <2>3, <3>1
  <2>6. \A i \in 1..(3 + Blocks) : Place(r, k, got[s], out[s], TRUE, i) =
           IF i = 1 THEN got[s] ELSE IF i = 2 THEN out[s] ELSE IF i = 3 THEN InHand(r) ELSE t[i - 3]
    BY <2>5 DEF Place
  <2>7. Ring(s) = TRUE
    BY <1>3 DEF Ring
  <2>8. Lined(r, k, got[s], out[s], TRUE) = [i \in 1..(3 + Blocks) |-> IF i = 1 THEN got[s] ELSE IF i = 2 THEN out[s] ELSE IF i = 3 THEN InHand(r) ELSE t[i - 3]]
    BY <2>6 DEF Lined, Places
  <2>. QED BY <1>1, <2>4, <2>7, <2>8
<1>4. CASE ~ Ring(s)
  <2> DEFINE t == <<Rest(r), k.queue>>
  <2>1. Line(s) = <<got[s], out[s], InHand(r)>> \o t
    BY <1>1, <1>4 DEF Line, InHand, Rest, Stretch
  <2>2. DOMAIN t = 1..2 /\ t = [i \in 1..2 |-> t[i]] /\ t[1] = Rest(r) /\ t[2] = k.queue
    OBVIOUS
  <2> HIDE DEF t
  <2>3. Line(s) = [i \in 1..(3 + 2) |-> IF i = 1 THEN got[s] ELSE IF i = 2 THEN out[s] ELSE IF i = 3 THEN InHand(r) ELSE t[i - 3]]
    BY <2>1, <2>2, ThreeBefore
  <2>4. \A i \in 1..5 : Place(r, k, got[s], out[s], FALSE, i) =
           IF i = 1 THEN got[s] ELSE IF i = 2 THEN out[s] ELSE IF i = 3 THEN InHand(r) ELSE t[i - 3]
    <3>1. \A i \in 1..5 : i \in {1, 2, 3} \/ (i = 4 /\ i - 3 = 1) \/ (i = 5 /\ i - 3 = 2)
      OBVIOUS
    <3>. QED BY <2>2, <3>1 DEF Place
  <2>5. Ring(s) = FALSE
    BY <1>4 DEF Ring
  <2>6. Lined(r, k, got[s], out[s], FALSE) = [i \in 1..(3 + 2) |-> IF i = 1 THEN got[s] ELSE IF i = 2 THEN out[s] ELSE IF i = 3 THEN InHand(r) ELSE t[i - 3]]
    <3>1. 3 + 2 = 5
      OBVIOUS
    <3>. QED BY <2>4, <3>1 DEF Lined, Places
  <2>. QED BY <1>1, <2>3, <2>5, <2>6
<1>. QED BY <1>3, <1>4

\* The fourth place is done with: the others move up.
LEMMA Rotated ==
    ASSUME NEW n \in Nat, NEW L, NEW M, NEW top \in Nat, NEW gone \in Nat, Sound(L, n, top, gone), n >= 4, L[4] = <<>>,
           DOMAIN M = 1..n, \A a \in 1..3 : M[a] = L[a], \A a \in 4..(n - 1) : M[a] = L[a + 1], M[n] = <<>>
    PROVE  Sound(M, n, top, gone)
<1> DEFINE from == [a \in 1..n |-> IF a < 4 THEN a ELSE a + 1]
<1>1. \A a \in 1..(n - 1) : from[a] \in 1..n /\ M[a] = L[from[a]] /\ from[a] # 4
  <2> SUFFICES ASSUME NEW a \in 1..(n - 1) PROVE from[a] \in 1..n /\ M[a] = L[from[a]] /\ from[a] # 4
    OBVIOUS
  <2>1. CASE a < 4
    BY <2>1
  <2>2. CASE a >= 4
    BY <2>2
  <2>. QED BY <2>1, <2>2
<1>2. \A a, b \in 1..(n - 1) : a < b => from[a] < from[b]
  OBVIOUS
<1>3. \A c \in 1..n : c # 4 => \E a \in 1..(n - 1) : from[a] = c
  <2> SUFFICES ASSUME NEW c \in 1..n, c # 4 PROVE \E a \in 1..(n - 1) : from[a] = c
    OBVIOUS
  <2>1. CASE c < 4
    <3>1. c \in 1..(n - 1) /\ from[c] = c
      BY <2>1
    <3>. QED BY <3>1
  <2>2. CASE c > 4
    <3>1. PICK a \in 1..(n - 1) : a = c - 1
      BY <2>2
    <3>2. a \in 1..n /\ ~ (a < 4) /\ a + 1 = c
      BY <2>2, <3>1
    <3>3. from[a] = c
      BY <3>2
    <3> HIDE DEF from
    <3>. QED BY <3>1, <3>3
  <2> HIDE DEF from
  <2>. QED BY <2>1, <2>2
<1> HIDE DEF from
<1>4. /\ \A c, d \in 1..n : c < d => \A x \in Range(L[c]), y \in Range(L[d]) : x < y
      /\ \A c \in 1..n : L[c] \in Seq(Nat) /\ Rising(L[c])
      /\ Range(L[4]) = {} /\ Range(M[n]) = {} /\ M[n] \in Seq(Nat) /\ Rising(M[n])
  BY NothingRises DEF Sound
<1>5. \A a \in 1..n : a = n \/ a \in 1..(n - 1)
  OBVIOUS
<1>6. \A a \in 1..n : M[a] \in Seq(Nat) /\ Rising(M[a])
  BY <1>1, <1>4, <1>5
<1>7. ASSUME NEW a \in 1..n, NEW b \in 1..n, a < b, NEW x \in Range(M[a]), NEW y \in Range(M[b]) PROVE x < y
  <2>1. a \in 1..(n - 1) /\ b \in 1..(n - 1)
    BY <1>4, <1>5, <1>7
  <2>2. from[a] < from[b] /\ from[a] \in 1..n /\ from[b] \in 1..n /\ x \in Range(L[from[a]]) /\ y \in Range(L[from[b]])
    BY <1>1, <1>2, <1>7, <2>1
  <2>. QED BY <1>4, <2>2
<1>8. \A x : (\E a \in 1..n : x \in Range(M[a])) <=> \E a \in 1..n : x \in Range(L[a])
  <2>1. ASSUME NEW x, NEW a \in 1..n, x \in Range(M[a]) PROVE \E c \in 1..n : x \in Range(L[c])
    BY <1>1, <1>4, <1>5, <2>1
  <2>2. ASSUME NEW x, NEW c \in 1..n, x \in Range(L[c]) PROVE \E a \in 1..n : x \in Range(M[a])
    <3>1. PICK a \in 1..(n - 1) : from[a] = c
      BY <1>3, <1>4, <2>2
    <3>2. a \in 1..n
      BY <3>1
    <3>. QED BY <1>1, <2>2, <3>1, <3>2
  <2>. QED BY <2>1, <2>2
<1>. QED BY <1>6, <1>7, <1>8, SameFrames

\* A rising sequence is cut in two.
LEMMA Cut ==
    ASSUME NEW t \in Seq(Nat), Rising(t), NEW m \in 1..Len(t)
    PROVE  /\ SubSeq(t, 1, m) \in Seq(Nat) /\ Rising(SubSeq(t, 1, m)) /\ Len(SubSeq(t, 1, m)) = m
           /\ SubSeq(t, m + 1, Len(t)) \in Seq(Nat) /\ Rising(SubSeq(t, m + 1, Len(t)))
           /\ Range(t) = Range(SubSeq(t, 1, m)) \cup Range(SubSeq(t, m + 1, Len(t)))
           /\ \A x \in Range(SubSeq(t, 1, m)), y \in Range(SubSeq(t, m + 1, Len(t))) : x < y
<1>1. PICK n : n = Len(t)
  OBVIOUS
<1>2. n \in Nat /\ m \in Nat /\ m <= n /\ DOMAIN t = 1..n /\ \A i \in 1..n : t[i] \in Nat
  BY <1>1, LenProperties, ElementOfSeq
<1>3. \A i, j \in 1..n : i < j => t[i] < t[j]
  BY <1>2 DEF Rising
<1>4. PICK u : u = SubSeq(t, 1, m)
  OBVIOUS
<1>5. PICK v : v = SubSeq(t, m + 1, n)
  OBVIOUS
<1>6. u \in Seq(Nat) /\ Len(u) = m /\ \A i \in 1..m : u[i] = t[i]
  <2>1. PICK a \in Int : a = 1
    OBVIOUS
  <2>2. PICK b \in Int : b = m
    BY <1>2
  <2>3. u = SubSeq(t, a, b) /\ \A i \in a..b : t[i] \in Nat
    BY <1>2, <1>4, <2>1, <2>2
  <2>4. /\ u \in Seq(Nat) /\ Len(u) = IF a <= b THEN b - a + 1 ELSE 0
        /\ \A i \in 1..(b - a + 1) : u[i] = t[a + i - 1]
    BY <2>3, SubSeqProperties
  <2>5. b - a + 1 = m /\ a <= b /\ \A i \in 1..m : a + i - 1 = i
    BY <1>2, <2>1, <2>2
  <2>. QED BY <2>4, <2>5
<1>7. v \in Seq(Nat) /\ Len(v) = n - m /\ \A i \in 1..(n - m) : v[i] = t[m + i]
  <2>1. PICK a \in Int : a = m + 1
    BY <1>2
  <2>2. PICK b \in Int : b = n
    BY <1>2
  <2>3. v = SubSeq(t, a, b) /\ \A i \in a..b : t[i] \in Nat
    BY <1>2, <1>5, <2>1, <2>2
  <2>4. /\ v \in Seq(Nat) /\ Len(v) = IF a <= b THEN b - a + 1 ELSE 0
        /\ \A i \in 1..(b - a + 1) : v[i] = t[a + i - 1]
    BY <2>3, SubSeqProperties
  <2>5. b - a + 1 = n - m /\ (IF a <= b THEN b - a + 1 ELSE 0) = n - m /\ \A i \in 1..(n - m) : a + i - 1 = m + i
    BY <1>2, <2>1, <2>2
  <2>6. PICK c : c = n - m /\ b - a + 1 = c
    BY <2>5
  <2>7. \A i \in 1..c : v[i] = t[m + i]
    <3>1. \A i \in 1..c : v[i] = t[a + i - 1]
      BY <2>4, <2>6
    <3>. QED BY <2>5, <2>6, <3>1
  <2>. QED BY <2>4, <2>5, <2>6, <2>7
<1>8. Rising(u) /\ Rising(v)
  <2>1. \A i, j \in 1..m : i < j => u[i] < u[j]
    BY <1>2, <1>3, <1>6
  <2>2. \A i, j \in 1..(n - m) : i < j => v[i] < v[j]
    <3> SUFFICES ASSUME NEW i \in 1..(n - m), NEW j \in 1..(n - m), i < j PROVE v[i] < v[j]
      OBVIOUS
    <3>1. m + i \in 1..n /\ m + j \in 1..n /\ m + i < m + j
      BY <1>2
    <3>2. t[m + i] < t[m + j]
      BY <1>3, <3>1
    <3>. QED BY <1>7, <3>2
  <2>3. DOMAIN u = 1..m /\ DOMAIN v = 1..(n - m)
    BY <1>6, <1>7, LenProperties
  <2>. QED BY <2>1, <2>2, <2>3 DEF Rising
<1>9. /\ \A x : x \in Range(t) <=> \E i \in 1..n : x = t[i]
      /\ \A x : x \in Range(u) <=> \E i \in 1..m : x = t[i]
      /\ \A x : x \in Range(v) <=> \E i \in 1..(n - m) : x = t[m + i]
  <2>1. /\ \A x : x \in Range(t) <=> \E i \in 1..Len(t) : x = t[i]
        /\ \A x : x \in Range(u) <=> \E i \in 1..Len(u) : x = u[i]
        /\ \A x : x \in Range(v) <=> \E i \in 1..Len(v) : x = v[i]
    BY <1>6, <1>7, RangeIs
  <2>2. \A x : x \in Range(t) <=> \E i \in 1..n : x = t[i]
    BY <1>1, <2>1
  <2>3. \A x : x \in Range(u) <=> \E i \in 1..m : x = t[i]
    BY <1>6, <2>1
  <2>4. \A x : x \in Range(v) <=> \E i \in 1..(n - m) : x = t[m + i]
    <3>1. PICK c : c = n - m
      OBVIOUS
    <3>2. Len(v) = c /\ \A i \in 1..c : v[i] = t[m + i]
      BY <1>7, <3>1
    <3>3. \A x : x \in Range(v) <=> \E i \in 1..c : x = v[i]
      BY <2>1, <3>2
    <3>4. \A x : x \in Range(v) <=> \E i \in 1..c : x = t[m + i]
      BY <3>2, <3>3
    <3>. QED BY <3>1, <3>4
  <2>. QED BY <2>2, <2>3, <2>4
<1>10. \A x : x \in Range(t) <=> x \in Range(u) \/ x \in Range(v)
  <2>1. ASSUME NEW i \in 1..n PROVE i \in 1..m \/ \E j \in 1..(n - m) : i = m + j
    <3>1. CASE i <= m
      BY <1>2, <3>1
    <3>2. CASE i > m
      <4>1. i - m \in 1..(n - m) /\ i = m + (i - m)
        BY <1>2, <3>2
      <4>. QED BY <4>1
    <3>. QED BY <1>2, <3>1, <3>2
  <2>2. ASSUME NEW x \in Range(t) PROVE x \in Range(u) \/ x \in Range(v)
    <3>1. PICK i \in 1..n : x = t[i]
      BY <1>9
    <3>2. CASE i \in 1..m
      BY <1>9, <3>1, <3>2
    <3>3. ASSUME NEW j \in 1..(n - m), i = m + j PROVE x \in Range(v)
      BY <1>9, <3>1, <3>3
    <3>. QED BY <2>1, <3>2, <3>3
  <2>3. \A i \in 1..m : i \in 1..n
    BY <1>2
  <2>4. \A i \in 1..(n - m) : m + i \in 1..n
    BY <1>2
  <2>5. \A x \in Range(u) : x \in Range(t)
    BY <1>9, <2>3
  <2>6. \A x \in Range(v) : x \in Range(t)
    BY <1>9, <2>4
  <2>. QED BY <2>2, <2>5, <2>6
<1>11. ASSUME NEW x \in Range(u), NEW y \in Range(v) PROVE x < y
  <2>1. PICK i \in 1..m : x = t[i]
    BY <1>9
  <2>2. PICK j \in 1..(n - m) : y = t[m + j]
    BY <1>9
  <2>3. i \in 1..n /\ m + j \in 1..n /\ i < m + j
    BY <1>2
  <2>. QED BY <1>3, <2>1, <2>2, <2>3
<1>12. Range(t) = Range(u) \cup Range(v)
  BY <1>10
<1>. QED BY <1>1, <1>4, <1>5, <1>6, <1>7, <1>8, <1>11, <1>12

\* The front of the fifth place moves to the fourth.
LEMMA Split ==
    ASSUME NEW L, NEW M, NEW top \in Nat, NEW gone \in Nat, Sound(L, 5, top, gone), L[4] = <<>>,
           NEW m \in 1..Len(L[5]), DOMAIN M = 1..5, \A a \in 1..3 : M[a] = L[a],
           M[4] = SubSeq(L[5], 1, m), M[5] = SubSeq(L[5], m + 1, Len(L[5]))
    PROVE  Sound(M, 5, top, gone)
<1>1. /\ \A c, d \in 1..5 : c < d => \A x \in Range(L[c]), y \in Range(L[d]) : x < y
      /\ \A c \in 1..5 : L[c] \in Seq(Nat) /\ Rising(L[c])
      /\ Range(L[4]) = {}
  BY NothingRises DEF Sound
<1>2. PICK t : t = L[5]
  OBVIOUS
<1>3. t \in Seq(Nat) /\ Rising(t) /\ m \in 1..Len(t) /\ M[4] = SubSeq(t, 1, m) /\ M[5] = SubSeq(t, m + 1, Len(t))
  BY <1>1, <1>2
<1>4. /\ M[4] \in Seq(Nat) /\ Rising(M[4]) /\ M[5] \in Seq(Nat) /\ Rising(M[5])
      /\ Range(t) = Range(M[4]) \cup Range(M[5]) /\ \A x \in Range(M[4]), y \in Range(M[5]) : x < y
  <2>1. /\ SubSeq(t, 1, m) \in Seq(Nat) /\ Rising(SubSeq(t, 1, m))
        /\ SubSeq(t, m + 1, Len(t)) \in Seq(Nat) /\ Rising(SubSeq(t, m + 1, Len(t)))
        /\ Range(t) = Range(SubSeq(t, 1, m)) \cup Range(SubSeq(t, m + 1, Len(t)))
        /\ \A x \in Range(SubSeq(t, 1, m)), y \in Range(SubSeq(t, m + 1, Len(t))) : x < y
    BY <1>3, Cut
  <2>. QED BY <1>3, <2>1
<1>5. 1..5 = {1, 2, 3, 4, 5} /\ 1..3 = {1, 2, 3}
  OBVIOUS
<1>6. \A a \in 1..5 : M[a] \in Seq(Nat) /\ Rising(M[a])
  BY <1>1, <1>4, <1>5
<1>7. ASSUME NEW a \in 1..5, NEW b \in 1..5, a < b, NEW x \in Range(M[a]), NEW y \in Range(M[b]) PROVE x < y
  <2>1. CASE a = 4
    <3>1. b = 5
      BY <1>7, <2>1
    <3>. QED BY <1>4, <1>7, <2>1, <3>1
  <2>2. CASE a \in 1..3 /\ b \in 1..3
    <3>1. x \in Range(L[a]) /\ y \in Range(L[b])
      BY <1>7, <2>2
    <3>. QED BY <1>1, <1>7, <3>1
  <2>3. CASE a \in 1..3 /\ b \in {4, 5}
    <3>1. x \in Range(L[a]) /\ y \in Range(L[5]) /\ a < 5
      <4>1. M[a] = L[a] /\ a < 5
        BY <2>3
      <4>2. Range(M[b]) \subseteq Range(t)
        <5>1. CASE b = 4
          BY <1>4, <5>1
        <5>2. CASE b = 5
          BY <1>4, <5>2
        <5>. QED BY <2>3, <5>1, <5>2
      <4>. QED BY <1>2, <1>7, <4>1, <4>2
    <3>. QED BY <1>1, <1>5, <3>1
  <2>4. a \in 1..4 /\ (b \in 1..3 \/ b \in {4, 5}) /\ (a = 4 \/ a \in 1..3)
    BY <1>7
  <2>. QED BY <2>1, <2>2, <2>3, <2>4
<1>8. \A x : (\E a \in 1..5 : x \in Range(M[a])) <=> \E a \in 1..5 : x \in Range(L[a])
  <2>1. ASSUME NEW x, NEW a \in 1..5, x \in Range(M[a]) PROVE \E c \in 1..5 : x \in Range(L[c])
    <3>1. CASE a \in {1, 2, 3}
      BY <1>5, <2>1, <3>1
    <3>2. CASE a \in {4, 5}
      <4>1. x \in Range(L[5])
        BY <1>2, <1>4, <2>1, <3>2
      <4>. QED BY <1>5, <4>1
    <3>. QED BY <1>5, <3>1, <3>2
  <2>2. ASSUME NEW x, NEW c \in 1..5, x \in Range(L[c]) PROVE \E a \in 1..5 : x \in Range(M[a])
    <3>1. CASE c \in {1, 2, 3}
      BY <1>5, <2>2, <3>1
    <3>2. CASE c = 5
      <4>1. x \in Range(M[4]) \/ x \in Range(M[5])
        BY <1>2, <1>4, <2>2, <3>2
      <4>. QED BY <1>5, <4>1
    <3>. QED BY <1>1, <1>5, <2>2, <3>1, <3>2
  <2>. QED BY <2>1, <2>2
<1>9. 5 \in Nat
  OBVIOUS
<1>. QED BY <1>6, <1>7, <1>8, <1>9, SameFrames

-----------------------------------------------------------------------------
(* One capture, step by step: r is the source, k its socket, g what was read, o the channel. *)

\* What is being walked and how far it is.
Held(r, k, ring) == IF ring THEN k.blocks[r.cursor].frames ELSE r.buf
WalkOk(r, k, ring) ==
    /\ r.at >= 1 /\ r.at + r.left = 1 + (IF ring THEN k.blocks[r.cursor].num ELSE Len(r.buf))
    /\ ring => k.blocks[r.cursor].user /\ k.blocks[r.cursor].num <= BlockCap

\* The first p blocks from the cursor on are the source's, the kernel fills the next one, and
\* those behind are empty.
RingOk(k, c, p) ==
    /\ k.fill = Behind(c, p)
    /\ \A i \in 0..(Blocks - 1) :
          /\ k.blocks[Behind(c, i)].user <=> i < p
          /\ k.blocks[Behind(c, i)].num <= BlockCap
          /\ i = p => k.blocks[Behind(c, i)].num < BlockCap
          /\ i > p => k.blocks[Behind(c, i)].num = 0

LineOk(r, k, g, o, ring) ==
    /\ r.hand = NoFd <=> r.pc # "emit"
    /\ ring => \E p \in 0..Blocks : RingOk(k, r.cursor, p)
    /\ IF Walking(r) THEN WalkOk(r, k, ring) ELSE ring \/ r.left = 0
    /\ Sound(Lined(r, k, g, o, ring), Places(ring), k.arrived, r.refused + k.dropped)

LEMMA EmptyStretch ==
    ASSUME NEW f, NEW from
    PROVE  Stretch(f, from, 0) = <<>>
<1>1. PICK t : t = Stretch(f, from, 0)
  OBVIOUS
<1>2. t \in [1..0 -> Nat]
  BY <1>1 DEF Stretch
<1>3. t \in Seq(Nat)
  BY <1>2, SeqDef
<1>4. DOMAIN t = 1..0 /\ DOMAIN t = 1..Len(t) /\ Len(t) \in Nat
  BY <1>2, <1>3, LenProperties
<1>. QED BY <1>1, <1>3, <1>4, EmptySeq

LEMMA FourthPlace ==
    ASSUME NEW r \in SourceState, NEW k \in SockState, NEW ring \in BOOLEAN, Walking(r), WalkOk(r, k, ring)
    PROVE  /\ \A g, o : Place(r, k, g, o, ring, 4) = Stretch(Held(r, k, ring), r.at, r.left)
           /\ \E cap \in Nat : Held(r, k, ring) \in [1..cap -> Nat] /\ r.at + r.left <= cap + 1
<1>1. r.at \in Nat /\ r.left \in Nat /\ r.cursor \in 0..(Blocks - 1) /\ r.buf \in Seq(Nat)
  BY DEF SourceState
<1>2. CASE ring
  <2>1. PICK b \in BlockState : b = k.blocks[r.cursor]
    BY <1>1 DEF SockState
  <2>2. BlockAt(r, k, 0) = b
    <3>1. PICK c \in 0..(Blocks - 1) : c = r.cursor
      BY <1>1
    <3>2. Behind(c, 0) = c
      BY Around
    <3>. QED BY <2>1, <3>1, <3>2 DEF BlockAt
  <2>3. b.num \in Nat /\ b.frames \in [1..BlockCap -> Nat] /\ BlockCap \in Nat
    BY <2>1, CaptureAssumption DEF BlockState
  <2>4. b.num + 1 - r.at = r.left /\ r.at + r.left <= BlockCap + 1
    <3>1. r.at + r.left = 1 + b.num /\ b.num <= BlockCap
      BY <1>2, <2>1 DEF WalkOk
    <3>2. PICK a \in Nat, m \in Nat, x \in Nat : a = r.at /\ m = r.left /\ x = b.num
      BY <1>1, <2>3
    <3>0. a + m = 1 + x /\ x <= BlockCap
      BY <3>1, <3>2
    <3>3. x + 1 - a = m /\ a + m <= BlockCap + 1
      BY <2>3, <3>0
    <3>. QED BY <3>2, <3>3
  <2>5. InBlock(b, r.at) = Stretch(b.frames, r.at, r.left)
    BY <2>4 DEF InBlock, Stretch
  <2>6. Shared(r, k, 0) = Stretch(b.frames, r.at, r.left)
    BY <2>2, <2>5 DEF Shared
  <2>7. \A g, o : Place(r, k, g, o, ring, 4) = Shared(r, k, 0)
    <3>1. 4 - 4 = 0
      OBVIOUS
    <3>. QED BY <1>2, <3>1 DEF Place
  <2>8. Held(r, k, ring) = b.frames
    BY <1>2, <2>1 DEF Held
  <2>. QED BY <2>3, <2>4, <2>6, <2>7, <2>8
<1>3. CASE ~ ring
  <2>1. \A g, o : Place(r, k, g, o, ring, 4) = Rest(r)
    BY <1>3 DEF Place
  <2>2. Held(r, k, ring) = r.buf
    BY <1>3 DEF Held
  <2>3. r.buf \in [1..Len(r.buf) -> Nat] /\ Len(r.buf) \in Nat
    BY <1>1, LenProperties
  <2>4. r.at + r.left <= Len(r.buf) + 1
    BY <1>1, <1>3, <2>3 DEF WalkOk
  <2>. QED BY <2>1, <2>2, <2>3, <2>4 DEF Rest
<1>. QED BY <1>2, <1>3

LEMMA FourthFacts ==
    ASSUME NEW r \in SourceState, NEW k \in SockState, NEW ring \in BOOLEAN, Walking(r), WalkOk(r, k, ring), NEW g, NEW o
    PROVE  /\ r.left = 0 <=> Place(r, k, g, o, ring, 4) = <<>>
           /\ r.left > 0 => /\ Head(Place(r, k, g, o, ring, 4)) = Held(r, k, ring)[r.at] /\ Held(r, k, ring)[r.at] \in Nat
                            /\ Tail(Place(r, k, g, o, ring, 4)) = Stretch(Held(r, k, ring), r.at + 1, r.left - 1)
<1>1. PICK f : f = Held(r, k, ring)
  OBVIOUS
<1>2. PICK at \in Nat, n \in Nat : at = r.at /\ n = r.left /\ at >= 1
  BY DEF SourceState, WalkOk
<1>3. Place(r, k, g, o, ring, 4) = Stretch(f, at, n)
  BY <1>1, <1>2, FourthPlace
<1>4. PICK cap \in Nat : f \in [1..cap -> Nat] /\ at + n <= cap + 1
  BY <1>1, <1>2, FourthPlace
<1>0. at >= 1
  BY <1>2
<1>5. n = 0 <=> Stretch(f, at, n) = <<>>
  BY <1>0, <1>4, StretchFacts
<1>6. ASSUME n > 0 PROVE Head(Stretch(f, at, n)) = f[at] /\ f[at] \in Nat
  <2>1. at \in 1..cap
    BY <1>0, <1>4, <1>6
  <2>2. f[at] \in Nat
    BY <1>4, <2>1
  <2>3. PICK x \in [1..cap -> Nat] : x = f
    BY <1>4
  <2>4. at + n <= cap + 1
    BY <1>4
  <2>5. Head(Stretch(x, at, n)) = x[at]
    BY <1>0, <1>6, <2>4, StretchHead
  <2>6. Head(Stretch(f, at, n)) = f[at]
    BY <2>3, <2>5
  <2>. QED BY <2>2, <2>6
<1>7. ASSUME n > 0 PROVE Tail(Stretch(f, at, n)) = Stretch(f, at + 1, n - 1)
  BY <1>0, <1>4, <1>7, StretchFacts
<1>. QED BY <1>1, <1>2, <1>3, <1>5, <1>6, <1>7

\* A step that touches nothing of the line.
LEMMA StepSame ==
    ASSUME NEW r \in SourceState, NEW q \in SourceState, NEW k \in SockState, NEW j \in SockState, NEW g, NEW o,
           NEW ring \in BOOLEAN, LineOk(r, k, g, o, ring),
           q.hand = r.hand, q.buf = r.buf, q.left = r.left, q.at = r.at, q.cursor = r.cursor, q.refused = r.refused,
           Walking(q) <=> Walking(r), q.pc = "emit" <=> r.pc = "emit",
           j.queue = k.queue, j.arrived = k.arrived, j.dropped = k.dropped, j.blocks = k.blocks, j.fill = k.fill
    PROVE  LineOk(q, j, g, o, ring)
<1>1. \A a : Place(q, j, g, o, ring, a) = Place(r, k, g, o, ring, a)
  BY DEF Place, InHand, Shared, BlockAt, Rest
<1>2. Lined(q, j, g, o, ring) = Lined(r, k, g, o, ring)
  BY <1>1 DEF Lined
<1>3. ASSUME NEW p, RingOk(k, r.cursor, p) PROVE RingOk(j, q.cursor, p)
  BY <1>3 DEF RingOk
<1>4. WalkOk(r, k, ring) <=> WalkOk(q, j, ring)
  BY DEF WalkOk
<1>. QED BY <1>2, <1>3, <1>4 DEF LineOk

\* The block at the cursor is taken on.
LEMMA StepReady ==
    ASSUME NEW r \in SourceState, NEW q \in SourceState, NEW k \in SockState, NEW g, NEW o, LineOk(r, k, g, o, TRUE),
           r.pc = "read", k.blocks[r.cursor].user, q.pc = "walk", q.at = 1, q.left = k.blocks[r.cursor].num,
           q.hand = r.hand, q.buf = r.buf, q.cursor = r.cursor, q.refused = r.refused
    PROVE  LineOk(q, k, g, o, TRUE)
<1>1. \A a : Place(q, k, g, o, TRUE, a) = Place(r, k, g, o, TRUE, a)
  BY DEF Place, InHand, Shared, BlockAt, Walking
<1>2. Lined(q, k, g, o, TRUE) = Lined(r, k, g, o, TRUE)
  BY <1>1 DEF Lined
<1>3. PICK c \in 0..(Blocks - 1) : c = r.cursor
  BY DEF SourceState
<1>4. PICK p \in 0..Blocks : RingOk(k, c, p)
  BY <1>3 DEF LineOk
<1>5. k.blocks[c].num <= BlockCap /\ k.blocks[c].num \in Nat
  <2>1. Behind(c, 0) = c /\ 0 \in 0..(Blocks - 1)
    BY Around, CaptureAssumption
  <2>2. k.blocks[c].num <= BlockCap
    BY <1>4, <2>1 DEF RingOk
  <2>. QED BY <2>2 DEF SockState, BlockState
<1>6. WalkOk(q, k, TRUE)
  BY <1>3, <1>5 DEF WalkOk
<1>7. RingOk(k, q.cursor, p)
  BY <1>3, <1>4
<1>8. Walking(q)
  BY DEF Walking
<1>. QED BY <1>2, <1>6, <1>7, <1>8 DEF LineOk

\* A frame is taken up, and refused or held to be sent.
LEMMA StepWalk ==
    ASSUME NEW r \in SourceState, NEW q \in SourceState, NEW k \in SockState, NEW g, NEW o, NEW ring \in BOOLEAN,
           LineOk(r, k, g, o, ring), r.pc = "walk", r.left > 0, NEW f, f = Held(r, k, ring)[r.at],
           q.at = r.at + 1, q.left = r.left - 1, q.buf = r.buf, q.cursor = r.cursor,
           \/ q.pc = "emit" /\ q.hand = f /\ q.refused = r.refused
           \/ q.pc = "walk" /\ q.hand = NoFd /\ q.refused = r.refused + 1
    PROVE  LineOk(q, k, g, o, ring)
<1> DEFINE L == Lined(r, k, g, o, ring)
           M == Lined(q, k, g, o, ring)
<1>1. PICK n \in Nat : n = Places(ring) /\ n >= 4
  BY PlacesAre
<1>2. /\ DOMAIN L = 1..n /\ DOMAIN M = 1..n
      /\ \A a \in 1..n : L[a] = Place(r, k, g, o, ring, a) /\ M[a] = Place(q, k, g, o, ring, a)
  BY <1>1, PlacesAre
<1> HIDE DEF L, M
<1>3. 1 \in 1..n /\ 2 \in 1..n /\ 3 \in 1..n /\ 4 \in 1..n
  BY <1>1
<1>4. Walking(r) /\ Walking(q) /\ WalkOk(r, k, ring) /\ r.hand = NoFd
  BY DEF Walking, LineOk
<1>5. WalkOk(q, k, ring)
  <2>1. r.at \in Nat /\ r.left \in Nat
    BY DEF SourceState
  <2>2. q.at + q.left = r.at + r.left /\ q.at >= 1
    BY <2>1
  <2>. QED BY <1>4, <2>2 DEF WalkOk
<1>6. L[4] # <<>> /\ Head(L[4]) = f /\ f \in Nat /\ M[4] = Tail(L[4])
  <2>1. /\ r.left = 0 <=> Place(r, k, g, o, ring, 4) = <<>>
        /\ r.left > 0 => /\ Head(Place(r, k, g, o, ring, 4)) = Held(r, k, ring)[r.at] /\ Held(r, k, ring)[r.at] \in Nat
                         /\ Tail(Place(r, k, g, o, ring, 4)) = Stretch(Held(r, k, ring), r.at + 1, r.left - 1)
    BY <1>4, FourthFacts
  <2>2. Place(q, k, g, o, ring, 4) = Stretch(Held(q, k, ring), q.at, q.left)
    BY <1>4, <1>5, FourthPlace
  <2>3. Held(q, k, ring) = Held(r, k, ring)
    BY DEF Held
  <2>. QED BY <1>2, <1>3, <2>1, <2>2, <2>3
<1>7. PICK top \in Nat, gone \in Nat : top = k.arrived /\ gone = r.refused + k.dropped
  <2>1. k.arrived \in Nat /\ r.refused \in Nat /\ k.dropped \in Nat
    BY DEF SourceState, SockState
  <2>. QED BY <2>1
<1>8. Sound(L, n, top, gone)
  BY <1>1, <1>7 DEF LineOk, L
<1>9. f # NoFd
  <2>1. L[4] \in Seq(Nat) /\ Rising(L[4]) /\ Range(L[4]) \subseteq 1..top
    BY <1>3, <1>8 DEF Sound
  <2>2. f \in Range(L[4])
    <3>1. PICK t \in Seq(Nat) : t = L[4]
      BY <2>1
    <3>2. Range(t) = Range(Tail(t)) \cup {Head(t)}
      BY <1>6, <2>1, <3>1, RisingTail
    <3>. QED BY <1>6, <3>1, <3>2
  <2>. QED BY <2>1, <2>2 DEF NoFd
<1>10. \A a \in 1..n : a \notin {3, 4} => M[a] = L[a]
  <2> SUFFICES ASSUME NEW a \in 1..n, a \notin {3, 4} PROVE Place(q, k, g, o, ring, a) = Place(r, k, g, o, ring, a)
    BY <1>2
  <2>1. a - 4 # 0
    OBVIOUS
  <2>2. Shared(q, k, a - 4) = Shared(r, k, a - 4)
    BY <2>1 DEF Shared, BlockAt
  <2>. QED BY <2>2 DEF Place
<1>11. L[3] = <<>> /\ M[3] = IF q.pc = "emit" THEN <<f>> ELSE <<>>
  BY <1>2, <1>3, <1>4, <1>9 DEF Place, InHand
<1>12. CASE q.pc = "emit"
  <2>1. M[3] = Append(L[3], Head(L[4]))
    <3>1. Append(<<>>, f) = <<f>>
      OBVIOUS
    <3>. QED BY <1>6, <1>11, <1>12, <3>1
  <2>2. \A c \in 1..n : ~ (3 < c /\ c < 4)
    OBVIOUS
  <2>3. PICK a \in 1..n, b \in 1..n : a = 3 /\ b = 4 /\ a < b
    BY <1>3
  <2>4. Sound(M, n, top, gone)
    <3>1. /\ L[b] # <<>> /\ M[a] = Append(L[a], Head(L[b])) /\ M[b] = Tail(L[b])
          /\ \A c \in 1..n : a < c /\ c < b => L[c] = <<>>
          /\ \A c \in 1..n : c # a /\ c # b => M[c] = L[c]
      BY <1>6, <1>10, <2>1, <2>2, <2>3
    <3>2. a < b
      BY <2>3
    <3>. QED BY <1>2, <1>8, <3>1, <3>2, Moved
  <2>. QED BY <1>1, <1>4, <1>5, <1>7, <1>9, <1>12, <2>4 DEF LineOk, M
<1>13. CASE q.pc = "walk"
  <2>1. PICK b \in 1..n : b = 4
    BY <1>3
  <2>2. \A c \in 1..n : c # b => M[c] = L[c]
    BY <1>10, <1>11, <1>13, <2>1
  <2>3. Sound(M, n, top, gone + 1)
    <3>1. L[b] # <<>> /\ M[b] = Tail(L[b])
      BY <1>6, <2>1
    <3>. QED BY <1>2, <1>8, <2>2, <3>1, Refused
  <2>4. q.refused + k.dropped = gone + 1
    <3>1. PICK x \in Nat, y \in Nat : x = r.refused /\ y = k.dropped
      BY DEF SourceState, SockState
    <3>2. q.refused = x + 1 /\ gone = x + y
      BY <1>7, <1>13, <3>1
    <3>3. (x + 1) + y = (x + y) + 1
      OBVIOUS
    <3>. QED BY <3>1, <3>2, <3>3
  <2>. QED BY <1>1, <1>4, <1>5, <1>7, <1>13, <2>3, <2>4 DEF LineOk, M
<1>. QED BY <1>12, <1>13

\* A frame is sent.
LEMMA StepEmit ==
    ASSUME NEW r \in SourceState, NEW q \in SourceState, NEW k \in SockState, NEW g, NEW o, NEW ring \in BOOLEAN,
           LineOk(r, k, g, o, ring), r.pc = "emit", q.pc = "walk", q.hand = NoFd,
           q.at = r.at, q.left = r.left, q.buf = r.buf, q.cursor = r.cursor, q.refused = r.refused
    PROVE  LineOk(q, k, g, Append(o, r.hand), ring)
<1> DEFINE w == Append(o, r.hand)
           L == Lined(r, k, g, o, ring)
           M == Lined(q, k, g, w, ring)
<1>1. PICK n \in Nat : n = Places(ring) /\ n >= 4
  BY PlacesAre
<1>2. /\ DOMAIN L = 1..n /\ DOMAIN M = 1..n
      /\ \A a \in 1..n : L[a] = Place(r, k, g, o, ring, a) /\ M[a] = Place(q, k, g, w, ring, a)
  BY <1>1, PlacesAre
<1> HIDE DEF L, M
<1>3. 2 \in 1..n /\ 3 \in 1..n /\ \A a \in 1..n : a # 2 /\ a # 3 => a = 1 \/ a >= 4
  BY <1>1
<1>4. Walking(r) /\ Walking(q) /\ WalkOk(r, k, ring) /\ r.hand # NoFd
  BY DEF Walking, LineOk
<1>5. WalkOk(q, k, ring)
  BY <1>4 DEF WalkOk
<1>6. L[2] = o /\ M[2] = w /\ L[3] = <<r.hand>> /\ M[3] = <<>>
  BY <1>2, <1>3, <1>4 DEF Place, InHand
<1>7. L[3] # <<>> /\ Head(L[3]) = r.hand /\ Tail(L[3]) = <<>>
  <2>1. <<r.hand>> # <<>> /\ Head(<<r.hand>>) = r.hand /\ Tail(<<r.hand>>) = <<>>
    OBVIOUS
  <2>. QED BY <1>6, <2>1
<1>8. \A a \in 1..n : a # 2 /\ a # 3 => M[a] = L[a]
  <2> SUFFICES ASSUME NEW a \in 1..n, a # 2, a # 3 PROVE Place(q, k, g, w, ring, a) = Place(r, k, g, o, ring, a)
    BY <1>2
  <2>1. a = 1 \/ a >= 4
    BY <1>3
  <2>2. Shared(q, k, a - 4) = Shared(r, k, a - 4) /\ Rest(q) = Rest(r)
    BY <1>4 DEF Shared, BlockAt, Rest
  <2>. QED BY <2>1, <2>2 DEF Place
<1>9. PICK top \in Nat, gone \in Nat : top = k.arrived /\ gone = r.refused + k.dropped
  <2>1. k.arrived \in Nat /\ r.refused \in Nat /\ k.dropped \in Nat
    BY DEF SourceState, SockState
  <2>. QED BY <2>1
<1>10. Sound(L, n, top, gone)
  BY <1>1, <1>9 DEF LineOk, L
<1>11. Sound(M, n, top, gone)
  <2>1. PICK a \in 1..n, b \in 1..n : a = 2 /\ b = 3
    BY <1>3
  <2>2. a < b
    BY <2>1
  <2>3. L[b] # <<>> /\ M[a] = Append(L[a], Head(L[b])) /\ M[b] = Tail(L[b])
    BY <1>6, <1>7, <2>1
  <2>4. \A c \in 1..n : ~ (a < c /\ c < b)
    BY <2>1
  <2>5. \A c \in 1..n : c # a /\ c # b => M[c] = L[c]
    BY <1>8, <2>1
  <2>. QED BY <1>2, <1>10, <2>2, <2>3, <2>4, <2>5, Moved
<1>12. Sound(Lined(q, k, g, w, ring), Places(ring), k.arrived, q.refused + k.dropped)
  BY <1>1, <1>9, <1>11 DEF M
<1>. QED BY <1>4, <1>5, <1>12 DEF LineOk

\* The reader takes a frame.
LEMMA StepReceive ==
    ASSUME NEW r \in SourceState, NEW k \in SockState, NEW g, NEW o, o # <<>>, NEW ring \in BOOLEAN, LineOk(r, k, g, o, ring)
    PROVE  LineOk(r, k, Append(g, Head(o)), Tail(o), ring)
<1> DEFINE v == Append(g, Head(o))
           w == Tail(o)
           L == Lined(r, k, g, o, ring)
           M == Lined(r, k, v, w, ring)
<1>1. PICK n \in Nat : n = Places(ring) /\ n >= 4
  BY PlacesAre
<1>2. /\ DOMAIN L = 1..n /\ DOMAIN M = 1..n
      /\ \A a \in 1..n : L[a] = Place(r, k, g, o, ring, a) /\ M[a] = Place(r, k, v, w, ring, a)
  BY <1>1, PlacesAre
<1> HIDE DEF L, M
<1>3. 1 \in 1..n /\ 2 \in 1..n
  BY <1>1
<1>4. L[1] = g /\ L[2] = o /\ M[1] = v /\ M[2] = w
  BY <1>2, <1>3 DEF Place
<1>5. \A a \in 1..n : a # 1 /\ a # 2 => M[a] = L[a]
  BY <1>2 DEF Place
<1>6. PICK top \in Nat, gone \in Nat : top = k.arrived /\ gone = r.refused + k.dropped
  <2>1. k.arrived \in Nat /\ r.refused \in Nat /\ k.dropped \in Nat
    BY DEF SourceState, SockState
  <2>. QED BY <2>1
<1>7. Sound(L, n, top, gone)
  BY <1>1, <1>6 DEF LineOk, L
<1>8. Sound(M, n, top, gone)
  <2>1. PICK a \in 1..n, b \in 1..n : a = 1 /\ b = 2
    BY <1>3
  <2>2. a < b
    BY <2>1
  <2>3. L[b] # <<>> /\ M[a] = Append(L[a], Head(L[b])) /\ M[b] = Tail(L[b])
    BY <1>4, <2>1
  <2>4. \A c \in 1..n : ~ (a < c /\ c < b)
    BY <2>1
  <2>5. \A c \in 1..n : c # a /\ c # b => M[c] = L[c]
    BY <1>5, <2>1
  <2>. QED BY <1>2, <1>7, <2>2, <2>3, <2>4, <2>5, Moved
<1>9. Sound(Lined(r, k, v, w, ring), Places(ring), k.arrived, r.refused + k.dropped)
  BY <1>1, <1>6, <1>8 DEF M
<1>. QED BY <1>9 DEF LineOk

\* The read buffer is used up.
LEMMA StepBufferWalked ==
    ASSUME NEW r \in SourceState, NEW q \in SourceState, NEW k \in SockState, NEW g, NEW o, LineOk(r, k, g, o, FALSE),
           r.pc = "walk", r.left = 0, q.pc = "check", q.left = 0, q.hand = r.hand, q.refused = r.refused
    PROVE  LineOk(q, k, g, o, FALSE)
<1>1. Rest(r) = <<>> /\ Rest(q) = <<>>
  BY EmptyStretch DEF Rest
<1>2. \A a : Place(q, k, g, o, FALSE, a) = Place(r, k, g, o, FALSE, a)
  BY <1>1 DEF Place, InHand
<1>3. Lined(q, k, g, o, FALSE) = Lined(r, k, g, o, FALSE)
  BY <1>2 DEF Lined
<1>. QED BY <1>3 DEF LineOk, Walking

\* A call brings the first m frames of the queue.
LEMMA StepRead ==
    ASSUME NEW r \in SourceState, NEW q \in SourceState, NEW k \in SockState, NEW j \in SockState, NEW g, NEW o,
           LineOk(r, k, g, o, FALSE), r.pc = "read", NEW m \in 1..Len(k.queue), q.pc = "walk", q.at = 1, q.left = m,
           q.buf = SubSeq(k.queue, 1, m), q.hand = r.hand, q.refused = r.refused,
           j.queue = SubSeq(k.queue, m + 1, Len(k.queue)), j.arrived = k.arrived, j.dropped = k.dropped
    PROVE  LineOk(q, j, g, o, FALSE)
<1> DEFINE L == Lined(r, k, g, o, FALSE)
           M == Lined(q, j, g, o, FALSE)
<1>1. Places(FALSE) = 5
  BY DEF Places
<1>2. /\ DOMAIN L = 1..5 /\ DOMAIN M = 1..5
      /\ \A a \in 1..5 : L[a] = Place(r, k, g, o, FALSE, a) /\ M[a] = Place(q, j, g, o, FALSE, a)
  BY <1>1 DEF Lined
<1> HIDE DEF L, M
<1>3. r.left = 0 /\ r.hand = NoFd
  BY DEF LineOk, Walking
<1>4. L[4] = <<>> /\ L[5] = k.queue /\ M[5] = j.queue /\ M[4] = Rest(q)
  <2>1. Rest(r) = <<>>
    BY <1>3, EmptyStretch DEF Rest
  <2>2. 4 \in 1..5 /\ 5 \in 1..5
    OBVIOUS
  <2>. QED BY <1>2, <2>1, <2>2 DEF Place
<1>5. PICK top \in Nat, gone \in Nat : top = k.arrived /\ gone = r.refused + k.dropped
  <2>1. k.arrived \in Nat /\ r.refused \in Nat /\ k.dropped \in Nat
    BY DEF SourceState, SockState
  <2>. QED BY <2>1
<1>6. Sound(L, 5, top, gone)
  BY <1>1, <1>5 DEF LineOk, L
<1>7. PICK u : u = SubSeq(k.queue, 1, m)
  OBVIOUS
<1>8. u \in Seq(Nat) /\ Len(u) = m
  <2>1. L[5] \in Seq(Nat) /\ Rising(L[5])
    <3>1. 5 \in 1..5
      OBVIOUS
    <3>. QED BY <1>6, <3>1 DEF Sound
  <2>2. PICK t \in Seq(Nat) : t = k.queue /\ Rising(t)
    BY <1>4, <2>1
  <2>3. m \in 1..Len(t)
    BY <2>2
  <2>4. SubSeq(t, 1, m) \in Seq(Nat) /\ Len(SubSeq(t, 1, m)) = m
    BY <2>2, <2>3, Cut
  <2>. QED BY <1>7, <2>2, <2>4
<1>9. Rest(q) = u
  <2>1. Rest(q) = Stretch(u, 1, m)
    BY <1>7 DEF Rest
  <2>2. m \in Nat /\ u \in [1..m -> Nat] /\ m <= m
    BY <1>8, LenProperties
  <2>3. Stretch(u, 1, m) \in Seq(Nat) /\ Len(Stretch(u, 1, m)) = m /\ \A i \in 1..m : Stretch(u, 1, m)[i] = u[i]
    BY <2>2, StretchIsSeq
  <2>4. Stretch(u, 1, m) = u
    BY <1>8, <2>3, SeqEqual
  <2>. QED BY <2>1, <2>4
<1>10. \A a \in 1..3 : M[a] = L[a]
  BY <1>2 DEF Place, InHand
<1>11. Sound(M, 5, top, gone)
  <2>1. /\ m \in 1..Len(L[5]) /\ M[4] = SubSeq(L[5], 1, m) /\ M[5] = SubSeq(L[5], m + 1, Len(L[5]))
    BY <1>4, <1>7, <1>9
  <2>. QED BY <1>2, <1>4, <1>6, <1>10, <2>1, Split
<1>12. Sound(Lined(q, j, g, o, FALSE), Places(FALSE), j.arrived, q.refused + j.dropped)
  BY <1>1, <1>5, <1>11 DEF M
<1>13. WalkOk(q, j, FALSE) /\ Walking(q)
  <2>1. 1 + m = 1 + Len(q.buf) /\ 1 >= 1
    BY <1>7, <1>8
  <2>. QED BY <2>1 DEF WalkOk, Walking
<1>. QED BY <1>3, <1>12, <1>13 DEF LineOk

\* A frame comes into the kernel's buffer.
LEMMA StepQueued ==
    ASSUME NEW r \in SourceState, NEW k \in SockState, NEW j \in SockState, NEW g, NEW o, LineOk(r, k, g, o, FALSE),
           j.arrived = k.arrived + 1, j.queue = Append(k.queue, k.arrived + 1), j.dropped = k.dropped
    PROVE  LineOk(r, j, g, o, FALSE)
<1> DEFINE L == Lined(r, k, g, o, FALSE)
           M == Lined(r, j, g, o, FALSE)
<1>1. Places(FALSE) = 5
  BY DEF Places
<1>2. /\ DOMAIN L = 1..5 /\ DOMAIN M = 1..5
      /\ \A a \in 1..5 : L[a] = Place(r, k, g, o, FALSE, a) /\ M[a] = Place(r, j, g, o, FALSE, a)
  BY <1>1 DEF Lined
<1> HIDE DEF L, M
<1>3. PICK b \in 1..5 : b = 5
  OBVIOUS
<1>4. PICK top \in Nat, gone \in Nat : top = k.arrived /\ gone = r.refused + k.dropped
  <2>1. k.arrived \in Nat /\ r.refused \in Nat /\ k.dropped \in Nat
    BY DEF SourceState, SockState
  <2>. QED BY <2>1
<1>5. Sound(L, 5, top, gone)
  BY <1>1, <1>4 DEF LineOk, L
<1>6. M[b] = Append(L[b], top + 1)
  BY <1>2, <1>3, <1>4 DEF Place
<1>7. \A c \in 1..5 : c # b => M[c] = L[c]
  BY <1>2, <1>3 DEF Place
<1>8. \A c \in 1..5 : b < c => L[c] = <<>>
  BY <1>3
<1>9. PICK n \in Nat : n = 5
  OBVIOUS
<1>10. Sound(M, n, top + 1, gone)
  <2>1. /\ Sound(L, n, top, gone) /\ DOMAIN M = 1..n /\ b \in 1..n
        /\ \A c \in 1..n : c # b => M[c] = L[c]
        /\ \A c \in 1..n : b < c => L[c] = <<>>
    BY <1>2, <1>5, <1>7, <1>8, <1>9
  <2>. QED BY <1>6, <2>1, Arrived
<1>11. Sound(Lined(r, j, g, o, FALSE), Places(FALSE), j.arrived, r.refused + j.dropped)
  BY <1>1, <1>4, <1>9, <1>10 DEF M
<1>12. WalkOk(r, k, FALSE) <=> WalkOk(r, j, FALSE)
  BY DEF WalkOk
<1>. QED BY <1>11, <1>12 DEF LineOk

\* A frame is dropped and counted.
LEMMA StepLost ==
    ASSUME NEW r \in SourceState, NEW k \in SockState, NEW j \in SockState, NEW g, NEW o, NEW ring \in BOOLEAN,
           LineOk(r, k, g, o, ring), j.arrived = k.arrived + 1, j.dropped = k.dropped + 1,
           j.queue = k.queue, j.blocks = k.blocks, j.fill = k.fill
    PROVE  LineOk(r, j, g, o, ring)
<1>1. \A a : Place(r, j, g, o, ring, a) = Place(r, k, g, o, ring, a)
  BY DEF Place, Shared, BlockAt
<1>2. Lined(r, j, g, o, ring) = Lined(r, k, g, o, ring)
  BY <1>1 DEF Lined
<1>3. PICK n \in Nat : n = Places(ring)
  BY PlacesAre
<1>4. k.arrived \in Nat /\ r.refused \in Nat /\ k.dropped \in Nat
  BY DEF SourceState, SockState
<1>5. PICK top \in Nat, gone \in Nat : top = k.arrived /\ gone = r.refused + k.dropped
  BY <1>4
<1>6. Sound(Lined(r, k, g, o, ring), n, top, gone)
  BY <1>3, <1>5 DEF LineOk
<1>7. Sound(Lined(r, k, g, o, ring), n, top + 1, gone + 1)
  BY <1>6, OneLost
<1>8. j.arrived = top + 1 /\ r.refused + j.dropped = gone + 1
  BY <1>4, <1>5
<1>9. \A p : RingOk(k, r.cursor, p) => RingOk(j, r.cursor, p)
  BY DEF RingOk
<1>10. WalkOk(r, k, ring) <=> WalkOk(r, j, ring)
  BY DEF WalkOk
<1>. QED BY <1>2, <1>3, <1>7, <1>8, <1>9, <1>10 DEF LineOk

-----------------------------------------------------------------------------
(* The ring. *)

LEMMA BehindNext ==
    ASSUME NEW c \in 0..(Blocks - 1), NEW i \in 0..(Blocks - 1)
    PROVE  (Behind(c, i) + 1) % Blocks = Behind(c, i + 1)
<1>1. Blocks \in Nat \ {0} /\ c \in Nat /\ c < Blocks /\ i \in Nat /\ i < Blocks
  BY CaptureAssumption
<1>2. i \in 0..Blocks
  BY <1>1
<1>3. PICK d \in 0..(Blocks - 1) : d = Behind(c, i)
  BY <1>2, Around
<1>4. 1 \in 0..Blocks
  BY <1>1
<1>5. (d + 1) % Blocks = Behind(d, 1)
  BY <1>4, Around
<1>6. Behind(d, 1) = Behind(c, i + 1)
  BY <1>1, <1>3 DEF Behind
<1>. QED BY <1>3, <1>5, <1>6

LEMMA InBlockIs ==
    ASSUME NEW b, b.num \in Nat
    PROVE  InBlock(b, 1) = Stretch(b.frames, 1, b.num) /\ (b.num = 0 => InBlock(b, 1) = <<>>)
<1>1. b.num + 1 - 1 = b.num
  OBVIOUS
<1>2. InBlock(b, 1) = Stretch(b.frames, 1, b.num)
  BY <1>1 DEF InBlock, Stretch
<1>3. Stretch(b.frames, 1, 0) = <<>>
  BY EmptyStretch
<1>. QED BY <1>2, <1>3

\* Where the blocks of a sound ring are: while the source walks one, it is its own.
LEMMA RingFacts ==
    ASSUME NEW k \in SockState, NEW c \in 0..(Blocks - 1), NEW p \in 0..Blocks, RingOk(k, c, p)
    PROVE  /\ k.fill = Behind(c, p) /\ k.fill \in 0..(Blocks - 1)
           /\ \A i \in 0..(Blocks - 1) : Behind(c, i) \in 0..(Blocks - 1) /\ k.blocks[Behind(c, i)] \in BlockState
           /\ k.blocks[c].user <=> 0 < p
           /\ ~ k.blocks[k.fill].user => p < Blocks
<1>1. Blocks \in Nat \ {0} /\ 0 \in 0..(Blocks - 1) /\ \A i \in 0..(Blocks - 1) : i \in 0..Blocks
  BY CaptureAssumption
<1>2. \A i \in 0..(Blocks - 1) : Behind(c, i) \in 0..(Blocks - 1) /\ k.blocks[Behind(c, i)] \in BlockState
  <2>1. \A i \in 0..(Blocks - 1) : Behind(c, i) \in 0..(Blocks - 1)
    BY <1>1, Around
  <2>. QED BY <2>1 DEF SockState
<1>3. Behind(c, 0) = c /\ Behind(c, Blocks) = c
  BY Around
<1>4. k.blocks[c].user <=> 0 < p
  BY <1>1, <1>3 DEF RingOk
<1>5. k.fill = Behind(c, p) /\ k.fill \in 0..(Blocks - 1)
  BY DEF RingOk, SockState
<1>6. ASSUME p = Blocks PROVE k.blocks[k.fill].user
  BY <1>1, <1>3, <1>4, <1>5, <1>6
<1>7. p # Blocks => p < Blocks
  BY <1>1
<1>8. ~ k.blocks[k.fill].user => p < Blocks
  BY <1>6, <1>7
<1>. QED BY <1>2, <1>4, <1>5, <1>8

\* A walked block goes back to the kernel.
LEMMA StepRingWalked ==
    ASSUME NEW r \in SourceState, NEW q \in SourceState, NEW k \in SockState, NEW j \in SockState, NEW g, NEW o,
           LineOk(r, k, g, o, TRUE), r.pc = "walk", r.left = 0, q.pc = "read",
           q.hand = r.hand, q.refused = r.refused, q.cursor = (r.cursor + 1) % Blocks,
           ~ j.blocks[r.cursor].user, j.blocks[r.cursor].num = 0,
           \A b \in 0..(Blocks - 1) : b # r.cursor => j.blocks[b] = k.blocks[b],
           j.arrived = k.arrived, j.dropped = k.dropped, j.fill = k.fill
    PROVE  LineOk(q, j, g, o, TRUE)
<1>1. PICK c \in 0..(Blocks - 1), d \in 0..(Blocks - 1) : c = r.cursor /\ d = q.cursor
  BY DEF SourceState
<1>2. Blocks \in Nat \ {0} /\ BlockCap \in Nat \ {0} /\ c \in Nat
  BY CaptureAssumption
<1>3. Walking(r) /\ WalkOk(r, k, TRUE) /\ ~ Walking(q) /\ r.hand = NoFd /\ q.pc # "emit"
  BY DEF Walking, LineOk
<1>4. d = Behind(c, 1)
  <2>1. 1 \in 0..Blocks
    BY <1>2
  <2>2. (c + 1) % Blocks = Behind(c, 1)
    BY <2>1, Around
  <2>. QED BY <1>1, <2>2
<1>5. \A i \in 0..(Blocks - 1) : Behind(d, i) = Behind(c, i + 1)
  BY <1>4, Around
<1>6. \A i \in 0..(Blocks - 1) : i # Blocks - 1 => Behind(c, i + 1) # c /\ Behind(c, i + 1) \in 0..(Blocks - 1) /\ i + 1 \in 0..(Blocks - 1)
  <2> SUFFICES ASSUME NEW i \in 0..(Blocks - 1), i # Blocks - 1
               PROVE  Behind(c, i + 1) # c /\ Behind(c, i + 1) \in 0..(Blocks - 1) /\ i + 1 \in 0..(Blocks - 1)
    OBVIOUS
  <2>1. PICK m \in 0..(Blocks - 1) : m = i + 1 /\ m # 0
    BY <1>2
  <2>2. 0 \in 0..(Blocks - 1) /\ m \in 0..Blocks
    BY <1>2
  <2>3. Behind(c, m) # Behind(c, 0) /\ Behind(c, 0) = c /\ Behind(c, m) \in 0..(Blocks - 1)
    BY <2>1, <2>2, Around
  <2>. QED BY <2>1, <2>3
<1>7. Behind(c, (Blocks - 1) + 1) = c
  <2>1. (Blocks - 1) + 1 = Blocks
    BY <1>2
  <2>. QED BY <2>1, Around
<1>8. PICK p \in 0..Blocks : RingOk(k, c, p)
  BY <1>1 DEF LineOk
<1>9. 0 < p
  <2>1. k.blocks[c].user
    BY <1>1, <1>3 DEF WalkOk
  <2>. QED BY <1>8, <2>1, RingFacts
<1>10. RingOk(j, d, p - 1)
  <2>1. j.fill = Behind(d, p - 1)
    <3>1. PICK m \in 0..(Blocks - 1) : m = p - 1
      BY <1>2, <1>9
    <3>2. Behind(d, m) = Behind(c, m + 1) /\ m + 1 = p
      BY <1>5, <3>1
    <3>. QED BY <1>8, <3>1, <3>2 DEF RingOk
  <2>2. ASSUME NEW i \in 0..(Blocks - 1), i = Blocks - 1
        PROVE  ~ j.blocks[Behind(d, i)].user /\ j.blocks[Behind(d, i)].num = 0 /\ ~ (i < p - 1)
    <3>1. Behind(d, i) = c
      BY <1>5, <1>7, <2>2
    <3>2. ~ (i < p - 1)
      BY <1>2, <2>2
    <3>. QED BY <1>1, <3>1, <3>2
  <2>3. ASSUME NEW i \in 0..(Blocks - 1), i # Blocks - 1
        PROVE  /\ j.blocks[Behind(d, i)].user <=> i < p - 1
               /\ j.blocks[Behind(d, i)].num <= BlockCap
               /\ i = p - 1 => j.blocks[Behind(d, i)].num < BlockCap
               /\ i > p - 1 => j.blocks[Behind(d, i)].num = 0
    <3>1. PICK m \in 0..(Blocks - 1) : m = i + 1
      BY <1>6, <2>3
    <3>2. Behind(d, i) = Behind(c, m) /\ Behind(c, m) # c /\ Behind(c, m) \in 0..(Blocks - 1)
      BY <1>5, <1>6, <2>3, <3>1
    <3>3. j.blocks[Behind(d, i)] = k.blocks[Behind(c, m)]
      BY <1>1, <3>2
    <3>4. /\ k.blocks[Behind(c, m)].user <=> m < p
          /\ k.blocks[Behind(c, m)].num <= BlockCap
          /\ m = p => k.blocks[Behind(c, m)].num < BlockCap
          /\ m > p => k.blocks[Behind(c, m)].num = 0
      BY <1>8 DEF RingOk
    <3>5. (i < p - 1 <=> m < p) /\ (i = p - 1 <=> m = p) /\ (i > p - 1 <=> m > p)
      BY <3>1
    <3>. QED BY <3>3, <3>4, <3>5
  <2>4. ASSUME NEW i \in 0..(Blocks - 1)
        PROVE  /\ j.blocks[Behind(d, i)].user <=> i < p - 1
               /\ j.blocks[Behind(d, i)].num <= BlockCap
               /\ i = p - 1 => j.blocks[Behind(d, i)].num < BlockCap
               /\ i > p - 1 => j.blocks[Behind(d, i)].num = 0
    <3>1. CASE i = Blocks - 1
      BY <1>2, <2>2, <3>1
    <3>2. CASE i # Blocks - 1
      BY <2>3, <3>2
    <3>. QED BY <3>1, <3>2
  <2>. QED BY <2>1, <2>4 DEF RingOk
<1> DEFINE L == Lined(r, k, g, o, TRUE)
           M == Lined(q, j, g, o, TRUE)
<1>11. PICK n \in Nat : n = 3 + Blocks /\ n >= 4
  BY <1>2
<1>11a. Places(TRUE) = n
  BY <1>11 DEF Places
<1>12. /\ DOMAIN L = 1..n /\ DOMAIN M = 1..n
       /\ \A a \in 1..n : L[a] = Place(r, k, g, o, TRUE, a) /\ M[a] = Place(q, j, g, o, TRUE, a)
  BY <1>11a DEF Lined
<1> HIDE DEF L, M
<1>13. L[4] = <<>>
  <2>1. r.left = 0 <=> Place(r, k, g, o, TRUE, 4) = <<>>
    BY <1>3, FourthFacts
  <2>2. 4 \in 1..n
    BY <1>11
  <2>. QED BY <1>12, <2>1, <2>2
<1>14. \A a \in 1..3 : M[a] = L[a]
  <2>1. \A a \in 1..3 : a \in 1..n
    BY <1>11
  <2>. QED BY <1>12, <2>1 DEF Place, InHand
<1>15. \A a \in 4..(n - 1) : M[a] = L[a + 1]
  <2> SUFFICES ASSUME NEW a \in 4..(n - 1) PROVE M[a] = L[a + 1]
    OBVIOUS
  <2>1. PICK i \in 0..(Blocks - 1) : i = a - 4 /\ i # Blocks - 1
    BY <1>2, <1>11
  <2>2. a \in 1..n /\ a + 1 \in 1..n /\ (a + 1) - 4 = i + 1 /\ a \notin {1, 2, 3} /\ a + 1 \notin {1, 2, 3} /\ i + 1 # 0
    BY <1>11, <2>1
  <2>3. M[a] = Shared(q, j, i)
    BY <1>12, <2>1, <2>2 DEF Place
  <2>4. L[a + 1] = Shared(r, k, i + 1)
    BY <1>12, <2>2 DEF Place
  <2>5. BlockAt(q, j, i) = BlockAt(r, k, i + 1)
    <3>1. Behind(d, i) = Behind(c, i + 1) /\ Behind(c, i + 1) # c /\ Behind(c, i + 1) \in 0..(Blocks - 1)
      BY <1>5, <1>6, <2>1
    <3>. QED BY <1>1, <3>1 DEF BlockAt
  <2>. QED BY <1>3, <2>2, <2>3, <2>4, <2>5 DEF Shared
<1>16. M[n] = <<>>
  <2>1. n \in 1..n /\ n \notin {1, 2, 3} /\ n - 4 = Blocks - 1 /\ Blocks - 1 \in 0..(Blocks - 1)
    BY <1>2, <1>11
  <2>2. M[n] = Shared(q, j, Blocks - 1)
    BY <1>12, <2>1 DEF Place
  <2>3. BlockAt(q, j, Blocks - 1) = j.blocks[c]
    <3>1. Behind(d, Blocks - 1) = c
      BY <1>5, <1>7, <2>1
    <3>. QED BY <1>1, <3>1 DEF BlockAt
  <2>4. Shared(q, j, Blocks - 1) = InBlock(j.blocks[c], 1)
    BY <1>3, <2>3 DEF Shared
  <2>5. InBlock(j.blocks[c], 1) = <<>>
    BY <1>1, InBlockIs
  <2>. QED BY <2>2, <2>4, <2>5
<1>17. PICK top \in Nat, gone \in Nat : top = k.arrived /\ gone = r.refused + k.dropped
  <2>1. k.arrived \in Nat /\ r.refused \in Nat /\ k.dropped \in Nat
    BY DEF SourceState, SockState
  <2>. QED BY <2>1
<1>18. Sound(L, n, top, gone)
  BY <1>11a, <1>17 DEF LineOk, L
<1>19. Sound(M, n, top, gone)
  <2>1. n >= 4
    BY <1>11
  <2>. QED BY <1>12, <1>13, <1>14, <1>15, <1>16, <1>18, <2>1, Rotated
<1>20. Sound(Lined(q, j, g, o, TRUE), Places(TRUE), j.arrived, q.refused + j.dropped)
  BY <1>11a, <1>17, <1>19 DEF M
<1>21. p - 1 \in 0..Blocks
  BY <1>2, <1>9
<1>22. \E x \in 0..Blocks : RingOk(j, q.cursor, x)
  BY <1>1, <1>10, <1>21
<1>. QED BY <1>3, <1>20, <1>22 DEF LineOk

\* A block that is not full is handed up.
LEMMA StepRetire ==
    ASSUME NEW r \in SourceState, NEW k \in SockState, NEW j \in SockState, NEW g, NEW o, LineOk(r, k, g, o, TRUE),
           ~ k.blocks[k.fill].user, j.fill = (k.fill + 1) % Blocks, j.arrived = k.arrived, j.dropped = k.dropped,
           j.blocks[k.fill].user,
           \A b \in 0..(Blocks - 1) : /\ j.blocks[b].num = k.blocks[b].num /\ j.blocks[b].frames = k.blocks[b].frames
                                      /\ b # k.fill => j.blocks[b].user = k.blocks[b].user
    PROVE  LineOk(r, j, g, o, TRUE)
<1>1. PICK c \in 0..(Blocks - 1) : c = r.cursor
  BY DEF SourceState
<1>2. Blocks \in Nat \ {0} /\ BlockCap \in Nat \ {0}
  BY CaptureAssumption
<1>3. PICK p \in 0..Blocks : RingOk(k, c, p)
  BY <1>1 DEF LineOk
<1>4. /\ k.fill = Behind(c, p) /\ k.fill \in 0..(Blocks - 1) /\ p < Blocks
      /\ \A i \in 0..(Blocks - 1) : Behind(c, i) \in 0..(Blocks - 1)
  BY <1>3, RingFacts
<1>5. p \in 0..(Blocks - 1) /\ p + 1 \in 0..Blocks
  BY <1>2, <1>4
<1>6. RingOk(j, c, p + 1)
  <2>1. j.fill = Behind(c, p + 1)
    BY <1>4, <1>5, BehindNext
  <2>2. ASSUME NEW i \in 0..(Blocks - 1)
        PROVE  /\ j.blocks[Behind(c, i)].user <=> i < p + 1
               /\ j.blocks[Behind(c, i)].num <= BlockCap
               /\ i = p + 1 => j.blocks[Behind(c, i)].num < BlockCap
               /\ i > p + 1 => j.blocks[Behind(c, i)].num = 0
    <3>1. /\ k.blocks[Behind(c, i)].user <=> i < p
          /\ k.blocks[Behind(c, i)].num <= BlockCap
          /\ i > p => k.blocks[Behind(c, i)].num = 0
      BY <1>3 DEF RingOk
    <3>2. j.blocks[Behind(c, i)].num = k.blocks[Behind(c, i)].num /\ (Behind(c, i) # k.fill => j.blocks[Behind(c, i)].user = k.blocks[Behind(c, i)].user)
      BY <1>4
    <3>3. Behind(c, i) = k.fill <=> i = p
      <4>1. Behind(c, i) = Behind(c, p) => i = p
        BY <1>5, Around
      <4>. QED BY <1>4, <4>1
    <3>4. j.blocks[Behind(c, i)].user <=> i < p + 1
      <4>1. CASE i = p
        BY <3>3, <4>1
      <4>2. CASE i # p
        BY <3>1, <3>2, <3>3, <4>2
      <4>. QED BY <4>1, <4>2
    <3>. QED BY <1>2, <3>1, <3>2, <3>4
  <2>. QED BY <2>1, <2>2 DEF RingOk
<1>7. \A i \in 0..(Blocks - 1) : Shared(r, j, i) = Shared(r, k, i)
  BY <1>1, <1>4 DEF Shared, BlockAt, InBlock
<1>8. \A a \in 1..Places(TRUE) : Place(r, j, g, o, TRUE, a) = Place(r, k, g, o, TRUE, a)
  <2> SUFFICES ASSUME NEW a \in 1..Places(TRUE) PROVE Place(r, j, g, o, TRUE, a) = Place(r, k, g, o, TRUE, a)
    OBVIOUS
  <2>1. a \in {1, 2, 3} \/ a - 4 \in 0..(Blocks - 1)
    BY <1>2 DEF Places
  <2>. QED BY <1>7, <2>1 DEF Place
<1>9. Lined(r, j, g, o, TRUE) = Lined(r, k, g, o, TRUE)
  BY <1>8 DEF Lined
<1>10. ASSUME Walking(r) PROVE WalkOk(r, j, TRUE)
  <2>1. WalkOk(r, k, TRUE)
    BY <1>10 DEF LineOk
  <2>2. c # k.fill
    BY <1>1, <2>1 DEF WalkOk
  <2>. QED BY <1>1, <2>1, <2>2 DEF WalkOk
<1>11. \E x \in 0..Blocks : RingOk(j, r.cursor, x)
  BY <1>1, <1>5, <1>6
<1>. QED BY <1>9, <1>10, <1>11 DEF LineOk

\* Frame x comes into the block the kernel fills, which may be full then.
Filled(k, j, x, full) ==
    /\ ~ k.blocks[k.fill].user
    /\ full \in BOOLEAN /\ (full <=> k.blocks[k.fill].num + 1 = BlockCap)
    /\ j.fill = IF full THEN (k.fill + 1) % Blocks ELSE k.fill
    /\ j.blocks[k.fill].user = full /\ j.blocks[k.fill].num = k.blocks[k.fill].num + 1
    /\ j.blocks[k.fill].frames = [k.blocks[k.fill].frames EXCEPT ![k.blocks[k.fill].num + 1] = x]
    /\ \A b \in 0..(Blocks - 1) : b # k.fill => j.blocks[b] = k.blocks[b]

LEMMA StepFilled ==
    ASSUME NEW r \in SourceState, NEW k \in SockState, NEW j \in SockState, NEW g, NEW o, LineOk(r, k, g, o, TRUE),
           NEW full, Filled(k, j, k.arrived + 1, full), j.arrived = k.arrived + 1, j.dropped = k.dropped
    PROVE  LineOk(r, j, g, o, TRUE)
<1>1. PICK c \in 0..(Blocks - 1) : c = r.cursor
  BY DEF SourceState
<1>0. /\ ~ k.blocks[k.fill].user
      /\ full \in BOOLEAN /\ (full <=> k.blocks[k.fill].num + 1 = BlockCap)
      /\ j.fill = IF full THEN (k.fill + 1) % Blocks ELSE k.fill
      /\ j.blocks[k.fill].user = full /\ j.blocks[k.fill].num = k.blocks[k.fill].num + 1
      /\ j.blocks[k.fill].frames = [k.blocks[k.fill].frames EXCEPT ![k.blocks[k.fill].num + 1] = k.arrived + 1]
      /\ \A b \in 0..(Blocks - 1) : b # k.fill => j.blocks[b] = k.blocks[b]
  BY DEF Filled
<1>2. Blocks \in Nat \ {0} /\ BlockCap \in Nat \ {0}
  BY CaptureAssumption
<1>3. PICK p \in 0..Blocks : RingOk(k, c, p)
  BY <1>1 DEF LineOk
<1>4. /\ k.fill = Behind(c, p) /\ k.fill \in 0..(Blocks - 1) /\ p < Blocks
      /\ \A i \in 0..(Blocks - 1) : Behind(c, i) \in 0..(Blocks - 1) /\ k.blocks[Behind(c, i)] \in BlockState
  BY <1>0, <1>3, RingFacts
<1>5. p \in 0..(Blocks - 1) /\ p + 1 \in 0..Blocks
  BY <1>2, <1>4
<1>6. PICK b \in BlockState : b = k.blocks[k.fill]
  BY <1>4, <1>5
<1>7. b.num \in Nat /\ b.num < BlockCap /\ b.frames \in [1..BlockCap -> Nat]
  <2>1. b.num < BlockCap
    BY <1>3, <1>4, <1>5, <1>6 DEF RingOk
  <2>. QED BY <2>1 DEF BlockState
<1>8. \A i \in 0..(Blocks - 1) : Behind(c, i) = k.fill <=> i = p
  <2>1. \A i \in 0..(Blocks - 1) : Behind(c, i) = Behind(c, p) => i = p
    BY <1>5, Around
  <2>. QED BY <1>4, <2>1
<1>9. PICK z \in 0..Blocks : z = IF full THEN p + 1 ELSE p
  BY <1>0, <1>5
<1>10. RingOk(j, c, z)
  <2>1. j.fill = Behind(c, z)
    <3>1. CASE full
      BY <1>0, <1>4, <1>5, <1>9, <3>1, BehindNext
    <3>2. CASE ~ full
      BY <1>0, <1>4, <1>9, <3>2
    <3>. QED BY <3>1, <3>2
  <2>2. ASSUME NEW i \in 0..(Blocks - 1), i = p
        PROVE  /\ j.blocks[Behind(c, i)].user <=> i < z
               /\ j.blocks[Behind(c, i)].num <= BlockCap
               /\ i = z => j.blocks[Behind(c, i)].num < BlockCap
               /\ ~ (i > z)
    <3>1. /\ j.blocks[Behind(c, i)].user <=> full
          /\ j.blocks[Behind(c, i)].num = b.num + 1
      BY <1>0, <1>6, <1>8, <2>2
    <3>2. CASE full
      BY <1>2, <1>7, <1>9, <2>2, <3>1, <3>2
    <3>3. CASE ~ full
      <4>1. b.num + 1 # BlockCap
        BY <1>0, <1>6, <3>3
      <4>. QED BY <1>2, <1>7, <1>9, <2>2, <3>1, <3>3, <4>1
    <3>. QED BY <3>2, <3>3
  <2>3. ASSUME NEW i \in 0..(Blocks - 1), i # p
        PROVE  /\ j.blocks[Behind(c, i)].user <=> i < z
               /\ j.blocks[Behind(c, i)].num <= BlockCap
               /\ i = z => j.blocks[Behind(c, i)].num < BlockCap
               /\ i > z => j.blocks[Behind(c, i)].num = 0
    <3>1. j.blocks[Behind(c, i)] = k.blocks[Behind(c, i)]
      BY <1>0, <1>4, <1>8, <2>3
    <3>2. /\ k.blocks[Behind(c, i)].user <=> i < p
          /\ k.blocks[Behind(c, i)].num <= BlockCap
          /\ i > p => k.blocks[Behind(c, i)].num = 0
      BY <1>3 DEF RingOk
    <3>3. (i < z <=> i < p) /\ (i = z => i > p) /\ (i > z => i > p)
      BY <1>9, <2>3
    <3>. QED BY <1>2, <3>1, <3>2, <3>3
  <2>4. ASSUME NEW i \in 0..(Blocks - 1)
        PROVE  /\ j.blocks[Behind(c, i)].user <=> i < z
               /\ j.blocks[Behind(c, i)].num <= BlockCap
               /\ i = z => j.blocks[Behind(c, i)].num < BlockCap
               /\ i > z => j.blocks[Behind(c, i)].num = 0
    <3>1. CASE i = p
      BY <2>2, <3>1
    <3>2. CASE i # p
      BY <2>3, <3>2
    <3>. QED BY <3>1, <3>2
  <2>. QED BY <2>1, <2>4 DEF RingOk
<1>11. ASSUME Walking(r) PROVE 0 < p /\ WalkOk(r, j, TRUE)
  <2>1. WalkOk(r, k, TRUE) /\ k.blocks[c].user
    BY <1>1, <1>11 DEF LineOk, WalkOk
  <2>2. 0 < p
    BY <1>3, <2>1, RingFacts
  <2>3. c # k.fill
    BY <1>0, <2>1
  <2>. QED BY <1>0, <1>1, <2>1, <2>2, <2>3 DEF WalkOk
<1> DEFINE L == Lined(r, k, g, o, TRUE)
           M == Lined(r, j, g, o, TRUE)
<1>12. PICK n \in Nat : n = 3 + Blocks /\ n >= 4
  BY <1>2
<1>12a. Places(TRUE) = n
  BY <1>12 DEF Places
<1>13. /\ DOMAIN L = 1..n /\ DOMAIN M = 1..n
       /\ \A a \in 1..n : L[a] = Place(r, k, g, o, TRUE, a) /\ M[a] = Place(r, j, g, o, TRUE, a)
  BY <1>12a DEF Lined
<1> HIDE DEF L, M
<1>14. PICK top \in Nat, gone \in Nat : top = k.arrived /\ gone = r.refused + k.dropped
  <2>1. k.arrived \in Nat /\ r.refused \in Nat /\ k.dropped \in Nat
    BY DEF SourceState, SockState
  <2>. QED BY <2>1
<1>15. Sound(L, n, top, gone)
  BY <1>12a, <1>14 DEF LineOk, L
<1>16. PICK e \in 1..n : e = 4 + p
  BY <1>2, <1>5, <1>12
<1>18. M[e] = Append(L[e], top + 1)
  <2>1. e \notin {1, 2, 3} /\ e - 4 = p
    BY <1>16
  <2>2. M[e] = Shared(r, j, p) /\ L[e] = Shared(r, k, p)
    BY <1>13, <2>1 DEF Place
  <2>3. ~ (p = 0 /\ Walking(r))
    <3>1. Walking(r) => 0 < p
      BY <1>11
    <3>2. p = 0 => ~ (0 < p)
      OBVIOUS
    <3>. QED BY <3>1, <3>2
  <2>4. Shared(r, j, p) = InBlock(j.blocks[k.fill], 1) /\ Shared(r, k, p) = InBlock(b, 1)
    BY <1>1, <1>4, <1>6, <2>3 DEF Shared, BlockAt
  <2>5. InBlock(b, 1) = Stretch(b.frames, 1, b.num)
    BY <1>7, InBlockIs
  <2>6. InBlock(j.blocks[k.fill], 1) = Stretch([b.frames EXCEPT ![b.num + 1] = top + 1], 1, b.num + 1)
    <3>1. j.blocks[k.fill].num = b.num + 1 /\ j.blocks[k.fill].frames = [b.frames EXCEPT ![b.num + 1] = top + 1]
      BY <1>0, <1>6, <1>14
    <3>2. b.num + 1 \in Nat
      BY <1>7
    <3>. QED BY <3>1, <3>2, InBlockIs
  <2>7. Stretch([b.frames EXCEPT ![b.num + 1] = top + 1], 1, b.num + 1) = Append(Stretch(b.frames, 1, b.num), top + 1)
    <3>1. PICK m \in Nat : m = b.num /\ m < BlockCap
      BY <1>7
    <3>2. PICK x \in Nat : x = top + 1
      OBVIOUS
    <3>3. PICK f \in [1..BlockCap -> Nat] : f = b.frames
      BY <1>7
    <3>4. m < BlockCap /\ BlockCap \in Nat
      BY <1>2, <3>1
    <3>0. PICK h : h = [f EXCEPT ![m + 1] = x]
      OBVIOUS
    <3>5. h \in [1..BlockCap -> Nat] /\ h[m + 1] = x /\ \A i \in 1..m : h[i] = f[i]
      BY <3>0, <3>4
    <3>6. Stretch(h, 1, m + 1) = Append(Stretch(f, 1, m), h[m + 1])
      BY <3>4, <3>5, StretchMore
    <3>. QED BY <3>0, <3>1, <3>2, <3>3, <3>5, <3>6
  <2>. QED BY <2>2, <2>4, <2>5, <2>6, <2>7
<1>19. \A a \in 1..n : a # e => M[a] = L[a]
  <2> SUFFICES ASSUME NEW a \in 1..n, a # e PROVE M[a] = L[a]
    OBVIOUS
  <2>0. L[a] = Place(r, k, g, o, TRUE, a) /\ M[a] = Place(r, j, g, o, TRUE, a)
    BY <1>13
  <2>1. CASE a \in {1, 2, 3}
    BY <2>0, <2>1 DEF Place
  <2>2. CASE a \notin {1, 2, 3}
    <3>1. PICK i \in 0..(Blocks - 1) : i = a - 4 /\ i # p
      BY <1>2, <1>12, <1>16, <2>2
    <3>2. j.blocks[Behind(c, i)] = k.blocks[Behind(c, i)]
      BY <1>0, <1>4, <1>8, <3>1
    <3>3. Shared(r, j, i) = Shared(r, k, i)
      BY <1>1, <3>2 DEF Shared, BlockAt
    <3>. QED BY <2>0, <2>2, <3>1, <3>3 DEF Place
  <2>. QED BY <2>1, <2>2
<1>20. \A a \in 1..n : e < a => L[a] = <<>>
  <2> SUFFICES ASSUME NEW a \in 1..n, e < a PROVE L[a] = <<>>
    OBVIOUS
  <2>1. PICK i \in 0..(Blocks - 1) : i = a - 4 /\ i > p
    BY <1>2, <1>12, <1>16
  <2>2. a \notin {1, 2, 3} /\ i # 0
    BY <1>16, <2>1
  <2>3. L[a] = Shared(r, k, i)
    BY <1>13, <2>1, <2>2 DEF Place
  <2>4. Shared(r, k, i) = InBlock(k.blocks[Behind(c, i)], 1)
    BY <1>1, <2>2 DEF Shared, BlockAt
  <2>5. k.blocks[Behind(c, i)].num = 0
    BY <1>3, <2>1 DEF RingOk
  <2>. QED BY <2>3, <2>4, <2>5, InBlockIs
<1>21. Sound(M, n, top + 1, gone)
  <2>1. DOMAIN M = 1..n
    BY <1>13
  <2>2. /\ M[e] = Append(L[e], top + 1)
        /\ \A a \in 1..n : a # e => M[a] = L[a]
        /\ \A a \in 1..n : e < a => L[a] = <<>>
    BY <1>18, <1>19, <1>20
  <2>3. PICK d \in 1..n : d = e
    OBVIOUS
  <2>4. /\ M[d] = Append(L[d], top + 1)
        /\ \A a \in 1..n : a # d => M[a] = L[a]
        /\ \A a \in 1..n : d < a => L[a] = <<>>
    BY <2>2, <2>3
  <2>. QED BY <1>15, <2>1, <2>4, Arrived
<1>22. Sound(Lined(r, j, g, o, TRUE), Places(TRUE), j.arrived, r.refused + j.dropped)
  BY <1>12a, <1>14, <1>21 DEF M
<1>23. \E x \in 0..Blocks : RingOk(j, r.cursor, x)
  BY <1>1, <1>10
<1>. QED BY <1>11, <1>22, <1>23 DEF LineOk

-----------------------------------------------------------------------------
(* All captures. *)

Unread(S, K) ==
    [s \in Captures |-> IF KindOf[s] = "bpf" THEN 0 ELSE S[s].drops + K[s].lost - K[s].dropped]
TrackedDrops(S) == [s \in Captures |-> IF S[s].tracked THEN S[s].drops ELSE 0]
StreamedDrops(S) == [s \in Captures |-> IF s \in Kept THEN 0 ELSE S[s].drops]
Alone(S, s) == \A t \in Captures \ {s} : S[t].fd # S[s].fd

\* What each capture, its socket, its channel and its reader can hold.
CaptureTypes ==
    /\ src \in [Captures -> SourceState] /\ sock \in [Captures -> SockState]
    /\ fdOf \in [Fds -> Captures \cup {NoFd}]
    /\ out \in [Captures -> Seq(Nat)] /\ got \in [Captures -> Seq(Nat)]
    /\ poll \in Captures \cup {NoFd} /\ retired \in [packets : Nat, drops : Nat]

Reading(r) == r.pc \notin {"leave", "over"}
LinesOk == \A s \in Captures : Reading(src[s]) => LineOk(src[s], sock[s], got[s], out[s], Ring(s))

\* A number names one source at most, the one that opened it last and has not let it go.
DescriptorsOk(S, F, who) ==
    /\ \A s \in Captures : S[s].pc = "none" <=> S[s].fd = NoFd
    /\ \A s \in Captures : S[s].pc \notin {"none", "over"} => F[S[s].fd] = s
    /\ \A n \in Fds : F[n] # NoFd => S[F[n]].fd = n
    /\ \A s, t \in Captures : S[s].pc # "none" /\ S[t].pc # "none" => SamePlatform(s, t)
    /\ who # NoFd => S[who].pc # "none" /\ (who \in Kept \/ S[who].tracked)

\* A drop of a socket is in the sum of the sources once, and out of it while it waits to be read;
\* done is what the retired captures had.
CountsOk(S, K, done) ==
    /\ \A s \in Captures : S[s].pc = "none" => S[s].drops = 0
    /\ \A s \in Captures \ Kept : S[s].pc \in {"none", "open"} => S[s].drops = 0 /\ ~ S[s].tracked
    /\ \A s \in Kept : ~ S[s].tracked
    /\ SumFunction(Unread(S, K)) = 0
    /\ \A s \in Captures : KindOf[s] = "bpf" /\ Alone(S, s) => S[s].drops <= K[s].dropped
    /\ done + SumFunction(TrackedDrops(S)) = SumFunction(StreamedDrops(S))

\* The invariant: every running capture's line of places is sound and its ring is in order, a
\* number names its last opener, and what was dropped is in the kernel's counter, in a source's or
\* in the retired total.
CaptureInv ==
    CaptureTypes /\ LinesOk /\ DescriptorsOk(src, fdOf, poll) /\ CountsOk(src, sock, retired.drops)

LEMMA CountTypes ==
    ASSUME NEW S \in [Captures -> SourceState], NEW K \in [Captures -> SockState]
    PROVE  /\ Unread(S, K) \in [Captures -> Int] /\ TrackedDrops(S) \in [Captures -> Int]
           /\ StreamedDrops(S) \in [Captures -> Int]
<1>1. \A s \in Captures : S[s].drops \in Nat /\ K[s].lost \in Nat /\ K[s].dropped \in Nat
  BY DEF SourceState, SockState
<1>2. Unread(S, K) \in [Captures -> Int]
  <2>1. \A s \in Captures : (IF KindOf[s] = "bpf" THEN 0 ELSE S[s].drops + K[s].lost - K[s].dropped) \in Int
    BY <1>1
  <2>. QED BY <2>1 DEF Unread
<1>3. TrackedDrops(S) \in [Captures -> Int] /\ StreamedDrops(S) \in [Captures -> Int]
  BY <1>1 DEF TrackedDrops, StreamedDrops
<1>. QED BY <1>2, <1>3

\* A step that moves no count.
LEMMA CountsStay ==
    ASSUME NEW S \in [Captures -> SourceState], NEW K \in [Captures -> SockState],
           NEW T \in [Captures -> SourceState], NEW J \in [Captures -> SockState], NEW done, CountsOk(S, K, done),
           \A s \in Captures : /\ T[s].drops = S[s].drops
                               /\ \/ T[s].tracked = S[s].tracked
                                  \/ S[s].drops = 0 /\ s \notin Kept /\ T[s].pc \notin {"none", "open"}
                               /\ T[s].pc = "none" => S[s].pc = "none"
                               /\ T[s].pc \in {"none", "open"} => S[s].pc \in {"none", "open"}
                               /\ KindOf[s] = "bpf" /\ Alone(T, s) => Alone(S, s) \/ S[s].drops = 0
                               /\ J[s].lost - J[s].dropped = K[s].lost - K[s].dropped
                               /\ J[s].dropped >= K[s].dropped
    PROVE  CountsOk(T, J, done)
<1>1. \A s \in Captures : S[s].drops \in Nat /\ K[s].lost \in Nat /\ K[s].dropped \in Nat /\ J[s].lost \in Nat /\ J[s].dropped \in Nat
  BY DEF SourceState, SockState
<1>2. Unread(T, J) = Unread(S, K)
  <2>1. ASSUME NEW s \in Captures PROVE T[s].drops + J[s].lost - J[s].dropped = S[s].drops + K[s].lost - K[s].dropped
    <3>1. PICK d \in Nat, a \in Nat, b \in Nat, x \in Nat, y \in Nat :
             d = S[s].drops /\ a = K[s].lost /\ b = K[s].dropped /\ x = J[s].lost /\ y = J[s].dropped
      BY <1>1
    <3>2. x - y = a - b
      BY <3>1
    <3>3. d + x - y = d + a - b
      BY <3>2
    <3>. QED BY <3>1, <3>3
  <2>. QED BY <2>1 DEF Unread
<1>3. TrackedDrops(T) = TrackedDrops(S) /\ StreamedDrops(T) = StreamedDrops(S)
  BY DEF TrackedDrops, StreamedDrops
<1>4. ASSUME NEW s \in Captures, KindOf[s] = "bpf", Alone(T, s) PROVE T[s].drops <= J[s].dropped
  <2>1. CASE Alone(S, s)
    <3>1. S[s].drops <= K[s].dropped
      BY <1>4, <2>1 DEF CountsOk
    <3>. QED BY <1>1, <3>1
  <2>2. CASE S[s].drops = 0
    BY <1>1, <2>2
  <2>. QED BY <1>4, <2>1, <2>2
<1>5. \A s \in Captures \ Kept : T[s].pc \in {"none", "open"} => T[s].drops = 0 /\ ~ T[s].tracked
  BY DEF CountsOk
<1>6. \A s \in Captures : T[s].pc = "none" => T[s].drops = 0
  BY DEF CountsOk
<1>7. \A s \in Kept : ~ T[s].tracked
  BY CaptureAssumption DEF CountsOk
<1>8. SumFunction(Unread(T, J)) = 0 /\ done + SumFunction(TrackedDrops(T)) = SumFunction(StreamedDrops(T))
  BY <1>2, <1>3 DEF CountsOk
<1>. QED BY <1>4, <1>5, <1>6, <1>7, <1>8 DEF CountsOk

\* A step that lets no descriptor go and opens none.
LEMMA DescriptorsStay ==
    ASSUME NEW S, NEW T, NEW F, NEW who \in Captures \cup {NoFd}, DescriptorsOk(S, F, who), F \in [Fds -> Captures \cup {NoFd}],
           \A s \in Captures : /\ T[s].fd = S[s].fd /\ (S[s].tracked => T[s].tracked) /\ (T[s].pc = "none" <=> S[s].pc = "none")
                               /\ T[s].pc \notin {"none", "over"} => S[s].pc \notin {"none", "over"}
    PROVE  DescriptorsOk(T, F, who)
BY DEF DescriptorsOk

\* A step of one capture.
LEMMA LinesStay ==
    ASSUME CaptureTypes, LinesOk, NEW s \in Captures,
           \A t \in Captures : t # s => src'[t] = src[t] /\ sock'[t] = sock[t] /\ got'[t] = got[t] /\ out'[t] = out[t],
           Reading(src'[s]) => LineOk(src'[s], sock'[s], got'[s], out'[s], Ring(s))
    PROVE  LinesOk'
BY DEF LinesOk, Ring

LEMMA NothingYet ==
    ASSUME NEW r, NEW k, NEW ring \in BOOLEAN, r.pc = "none", r.hand = NoFd, r.left = 0, r.cursor = 0, r.refused = 0,
           k.queue = <<>>, k.arrived = 0, k.dropped = 0, k.fill = 0,
           \A b \in 0..(Blocks - 1) : ~ k.blocks[b].user /\ k.blocks[b].num = 0
    PROVE  LineOk(r, k, <<>>, <<>>, ring)
<1>1. Blocks \in Nat \ {0} /\ BlockCap \in Nat \ {0} /\ 0 \in 0..(Blocks - 1)
  BY CaptureAssumption
<1>2. ~ Walking(r)
  BY DEF Walking
<1>3. \A i \in 0..(Blocks - 1) : Behind(0, i) \in 0..(Blocks - 1)
  BY <1>1 DEF Behind
<1>4. RingOk(k, 0, 0)
  <2>1. Behind(0, 0) = 0
    BY <1>1, Around
  <2>2. \A i \in 0..(Blocks - 1) : ~ k.blocks[Behind(0, i)].user /\ k.blocks[Behind(0, i)].num = 0
    BY <1>3
  <2>3. 0 < BlockCap /\ \A i \in 0..(Blocks - 1) : ~ (i < 0)
    BY <1>1
  <2>. QED BY <1>1, <2>1, <2>2, <2>3 DEF RingOk
<1>5. PICK n \in Nat : n = Places(ring)
  BY PlacesAre
<1> DEFINE L == Lined(r, k, <<>>, <<>>, ring)
<1>6. DOMAIN L = 1..n /\ \A a \in 1..n : L[a] = <<>>
  <2>1. DOMAIN L = 1..n /\ \A a \in 1..n : L[a] = Place(r, k, <<>>, <<>>, ring, a)
    BY <1>5, PlacesAre
  <2>2. Rest(r) = <<>> /\ InHand(r) = <<>>
    BY EmptyStretch DEF Rest, InHand
  <2>3. \A i \in 0..(Blocks - 1) : Shared(r, k, i) = <<>>
    <3> SUFFICES ASSUME NEW i \in 0..(Blocks - 1) PROVE Shared(r, k, i) = <<>>
      OBVIOUS
    <3>1. PICK b : b = k.blocks[Behind(0, i)] /\ b.num = 0
      BY <1>3
    <3>2. b.num \in Nat
      BY <3>1
    <3>3. InBlock(b, 1) = <<>>
      BY <3>1, <3>2, InBlockIs
    <3>. QED BY <1>2, <3>1, <3>3 DEF Shared, BlockAt
  <2> HIDE DEF L
  <2>4. ASSUME NEW a \in 1..n PROVE Place(r, k, <<>>, <<>>, ring, a) = <<>>
    <3>1. CASE ring
      <4>1. n = 3 + Blocks
        BY <1>5, <3>1 DEF Places
      <4>2. a \in {1, 2, 3} \/ a - 4 \in 0..(Blocks - 1)
        BY <1>1, <4>1
      <4>. QED BY <2>2, <2>3, <3>1, <4>2 DEF Place
    <3>2. CASE ~ ring
      BY <2>2, <3>2 DEF Place
    <3>. QED BY <3>1, <3>2
  <2>. QED BY <2>1, <2>4
<1> HIDE DEF L
<1>7. <<>> \in Seq(Nat) /\ Rising(<<>>) /\ Range(<<>>) = {}
  BY NothingRises
<1>8. OnLine(L) = {}
  BY <1>6, <1>7, OnLineIs
<1>9. Cardinality(OnLine(L)) = 0
  BY <1>8, FS_EmptySet
<1>10. Sound(L, n, 0, 0)
  <2>1. \A a \in 1..n : L[a] \in Seq(Nat) /\ Rising(L[a]) /\ Range(L[a]) = {}
    BY <1>6, <1>7
  <2>2. 0 = Cardinality(OnLine(L)) + 0
    BY <1>9
  <2>. QED BY <1>6, <2>1, <2>2 DEF Sound
<1>11. \E p \in 0..Blocks : RingOk(k, r.cursor, p)
  <2>1. 0 \in 0..Blocks
    BY <1>1
  <2>. QED BY <1>4, <2>1
<1>12. r.refused + k.dropped = 0
  OBVIOUS
<1>. QED BY <1>2, <1>5, <1>10, <1>11, <1>12 DEF LineOk, L

LEMMA CapturesBegin == CaptureInit => CaptureInv
<1> SUFFICES ASSUME CaptureInit PROVE CaptureInv
  OBVIOUS
<1>1. IsFiniteSet(Captures) /\ Blocks \in Nat \ {0} /\ BlockCap \in Nat \ {0} /\ NoFd = 0 /\ NoFd \notin Captures
  BY CaptureAssumption DEF NoFd
<1>2. \A s \in Captures :
         src[s] = [pc |-> "none", fd |-> NoFd, closed |-> FALSE, cancelled |-> FALSE,
                   buf |-> <<>>, left |-> 0, at |-> 0, hand |-> NoFd, cursor |-> 0, tracked |-> FALSE,
                   packets |-> 0, refused |-> 0, drops |-> 0]
  BY DEF CaptureInit
<1>4. Block \in BlockState /\ ~ Block.user /\ Block.num = 0
  BY <1>1 DEF Block, BlockState
<1>0. PICK bs \in [0..(Blocks - 1) -> BlockState] : bs = [b \in 0 .. Blocks - 1 |-> Block]
  BY <1>4
<1>4a. \A b \in 0..(Blocks - 1) : ~ bs[b].user /\ bs[b].num = 0
  BY <1>0, <1>4
<1>3. \A s \in Captures :
         sock[s] = [queue |-> <<>>, arrived |-> 0, lost |-> 0, dropped |-> 0, blocks |-> bs, fill |-> 0]
  BY <1>0 DEF CaptureInit
<1>5. CaptureTypes
  <2>1. 0 \in 0..(Blocks - 1) /\ <<>> \in Seq(Nat)
    BY <1>1, EmptySeq
  <2>2. \A s \in Captures : src[s] \in SourceState
    <3>1. "none" \in Pcs /\ NoFd \in Nat /\ NoFd \in Fds \cup {NoFd} /\ 0 \in Nat /\ FALSE \in BOOLEAN
      BY <1>1 DEF Pcs
    <3>2. [pc |-> "none", fd |-> NoFd, closed |-> FALSE, cancelled |-> FALSE,
           buf |-> <<>>, left |-> 0, at |-> 0, hand |-> NoFd, cursor |-> 0, tracked |-> FALSE,
           packets |-> 0, refused |-> 0, drops |-> 0] \in SourceState
      BY <2>1, <3>1 DEF SourceState
    <3>. QED BY <1>2, <3>2
  <2>3. \A s \in Captures : sock[s] \in SockState
    <3>2. [queue |-> <<>>, arrived |-> 0, lost |-> 0, dropped |-> 0, blocks |-> bs, fill |-> 0] \in SockState
      BY <2>1 DEF SockState
    <3>. QED BY <1>3, <3>2
  <2>4. src \in [Captures -> SourceState] /\ sock \in [Captures -> SockState]
    BY <2>2, <2>3 DEF CaptureInit
  <2>5. out \in [Captures -> Seq(Nat)] /\ got \in [Captures -> Seq(Nat)]
    BY <2>1 DEF CaptureInit
  <2>6. fdOf \in [Fds -> Captures \cup {NoFd}] /\ poll \in Captures \cup {NoFd} /\ retired \in [packets : Nat, drops : Nat]
    BY DEF CaptureInit
  <2>. QED BY <2>4, <2>5, <2>6 DEF CaptureTypes
<1>6. LinesOk
  <2> SUFFICES ASSUME NEW s \in Captures PROVE LineOk(src[s], sock[s], got[s], out[s], Ring(s))
    BY DEF LinesOk
  <2>1. out[s] = <<>> /\ got[s] = <<>>
    BY DEF CaptureInit
  <2>2a. PICK r, k : r = src[s] /\ k = sock[s]
    OBVIOUS
  <2>2. PICK ring \in BOOLEAN : ring = Ring(s)
    BY DEF Ring
  <2>3. r.pc = "none" /\ r.hand = NoFd /\ r.left = 0 /\ r.cursor = 0 /\ r.refused = 0
    BY <1>2, <2>2a
  <2>4. k.queue = <<>> /\ k.arrived = 0 /\ k.dropped = 0 /\ k.fill = 0
    BY <1>3, <2>2a
  <2>5. \A b \in 0..(Blocks - 1) : ~ k.blocks[b].user /\ k.blocks[b].num = 0
    <3>1. sock[s].blocks = bs
      BY <1>3
    <3>. QED BY <1>4a, <2>2a, <3>1
  <2>6. LineOk(r, k, <<>>, <<>>, ring)
    BY <2>3, <2>4, <2>5, NothingYet
  <2>. QED BY <2>1, <2>2a, <2>2, <2>6
<1>7. DescriptorsOk(src, fdOf, poll)
  BY <1>1, <1>2 DEF CaptureInit, DescriptorsOk
<1>8. CountsOk(src, sock, retired.drops)
  <2>1. /\ Unread(src, sock) \in [Captures -> Int] /\ TrackedDrops(src) \in [Captures -> Int]
        /\ StreamedDrops(src) \in [Captures -> Int]
    BY <1>5, CountTypes DEF CaptureTypes
  <2>2. \A s \in Captures : src[s].drops = 0 /\ ~ src[s].tracked /\ sock[s].lost = 0 /\ sock[s].dropped = 0
    BY <1>2, <1>3
  <2>3. \A s \in Captures : Unread(src, sock)[s] = 0
    <3>1. \A s \in Captures : src[s].drops + sock[s].lost - sock[s].dropped = 0
      BY <2>2
    <3>. QED BY <3>1 DEF Unread
  <2>4. \A s \in Captures : TrackedDrops(src)[s] = 0 /\ StreamedDrops(src)[s] = 0
    BY <2>2 DEF TrackedDrops, StreamedDrops
  <2>5. SumFunction(Unread(src, sock)) = 0
    BY <1>1, <2>1, <2>3, SumOfNothing
  <2>6. SumFunction(TrackedDrops(src)) = 0
    BY <1>1, <2>1, <2>4, SumOfNothing
  <2>7. SumFunction(StreamedDrops(src)) = 0
    BY <1>1, <2>1, <2>4, SumOfNothing
  <2>8. retired.drops = 0
    BY DEF CaptureInit
  <2>9. \A s \in Kept : s \in Captures
    BY CaptureAssumption
  <2>. QED BY <2>2, <2>5, <2>6, <2>7, <2>8, <2>9 DEF CountsOk
<1>. QED BY <1>5, <1>6, <1>7, <1>8 DEF CaptureInv

SameAccount(r, q) == q.fd = r.fd /\ q.drops = r.drops /\ q.tracked = r.tracked
SamePlace(r, q) ==
    q.hand = r.hand /\ q.buf = r.buf /\ q.left = r.left /\ q.at = r.at /\ q.cursor = r.cursor /\ q.refused = r.refused
SamePhase(r, q) ==
    /\ q.pc = "none" <=> r.pc = "none"
    /\ q.pc = "open" => r.pc = "open"
    /\ r.pc = "over" => q.pc = "over"

LEMMA CaptureIs ==
    ASSUME CaptureInv, NEW s \in Captures
    PROVE  /\ src[s] \in SourceState /\ sock[s] \in SockState /\ out[s] \in Seq(Nat) /\ got[s] \in Seq(Nat)
           /\ Ring(s) \in BOOLEAN
           /\ Reading(src[s]) => LineOk(src[s], sock[s], got[s], out[s], Ring(s))
BY DEF CaptureInv, CaptureTypes, LinesOk, Ring

\* A step of one capture that leaves its descriptor and its counts alone.
LEMMA OneStep ==
    ASSUME CaptureInv, NEW s \in Captures, NEW q \in SourceState, NEW j \in SockState,
           src' = [src EXCEPT ![s] = q], sock' = [sock EXCEPT ![s] = j], fdOf' = fdOf, poll' = poll, retired' = retired,
           NEW o \in Seq(Nat), NEW g \in Seq(Nat), out' = [out EXCEPT ![s] = o], got' = [got EXCEPT ![s] = g],
           SameAccount(src[s], q), SamePhase(src[s], q),
           j.lost - j.dropped = sock[s].lost - sock[s].dropped, j.dropped >= sock[s].dropped,
           Reading(q) => LineOk(q, j, g, o, Ring(s))
    PROVE  CaptureInv'
<1>1. CaptureTypes /\ LinesOk /\ DescriptorsOk(src, fdOf, poll) /\ CountsOk(src, sock, retired.drops)
  BY DEF CaptureInv
<1>2. /\ src \in [Captures -> SourceState] /\ sock \in [Captures -> SockState] /\ fdOf \in [Fds -> Captures \cup {NoFd}]
      /\ out \in [Captures -> Seq(Nat)] /\ got \in [Captures -> Seq(Nat)] /\ poll \in Captures \cup {NoFd}
  BY <1>1 DEF CaptureTypes
<1>3. /\ src'[s] = q /\ sock'[s] = j /\ out'[s] = o /\ got'[s] = g
      /\ \A t \in Captures : t # s => src'[t] = src[t] /\ sock'[t] = sock[t] /\ got'[t] = got[t] /\ out'[t] = out[t]
  BY <1>2
<1>4. /\ src' \in [Captures -> SourceState] /\ sock' \in [Captures -> SockState]
      /\ out' \in [Captures -> Seq(Nat)] /\ got' \in [Captures -> Seq(Nat)]
  BY <1>2
<1>5. CaptureTypes'
  BY <1>1, <1>4 DEF CaptureTypes
<1>6. LinesOk'
  BY <1>1, <1>3, LinesStay
<1>7. \A t \in Captures : SameAccount(src[t], src'[t]) /\ SamePhase(src[t], src'[t])
  BY <1>3 DEF SameAccount, SamePhase
<1>8. DescriptorsOk(src', fdOf, poll)
  <2>1. \A t \in Captures : /\ src'[t].fd = src[t].fd /\ (src[t].tracked => src'[t].tracked)
                            /\ (src'[t].pc = "none" <=> src[t].pc = "none")
                            /\ src'[t].pc \notin {"none", "over"} => src[t].pc \notin {"none", "over"}
    BY <1>7 DEF SameAccount, SamePhase
  <2>. QED BY <1>1, <1>2, <2>1, DescriptorsStay
<1>9. CountsOk(src', sock', retired.drops)
  <2>1. \A t \in Captures : Alone(src', t) => Alone(src, t)
    BY <1>7 DEF Alone, SameAccount
  <2>2. \A t \in Captures : sock'[t].lost - sock'[t].dropped = sock[t].lost - sock[t].dropped /\ sock'[t].dropped >= sock[t].dropped
    <3>1. \A t \in Captures : sock[t].dropped \in Nat
      BY <1>2 DEF SockState
    <3>2. \A t \in Captures : sock[t].dropped >= sock[t].dropped
      BY <3>1
    <3>. QED BY <1>3, <3>2
  <2>3. \A t \in Captures : /\ src'[t].drops = src[t].drops /\ src'[t].tracked = src[t].tracked
                            /\ src'[t].pc = "none" => src[t].pc = "none"
                            /\ src'[t].pc \in {"none", "open"} => src[t].pc \in {"none", "open"}
    BY <1>7 DEF SameAccount, SamePhase
  <2>4a. PICK done : done = retired.drops
    OBVIOUS
  <2>4. PICK T \in [Captures -> SourceState], J \in [Captures -> SockState] : T = src' /\ J = sock'
    BY <1>4
  <2>5. \A t \in Captures : /\ T[t].drops = src[t].drops
                            /\ \/ T[t].tracked = src[t].tracked
                               \/ src[t].drops = 0 /\ t \notin Kept /\ T[t].pc \notin {"none", "open"}
                            /\ T[t].pc = "none" => src[t].pc = "none"
                            /\ T[t].pc \in {"none", "open"} => src[t].pc \in {"none", "open"}
                            /\ KindOf[t] = "bpf" /\ Alone(T, t) => Alone(src, t) \/ src[t].drops = 0
                            /\ J[t].lost - J[t].dropped = sock[t].lost - sock[t].dropped
                            /\ J[t].dropped >= sock[t].dropped
    BY <2>1, <2>2, <2>3, <2>4
  <2>6. CountsOk(src, sock, done)
    BY <1>1, <2>4a
  <2>7. src \in [Captures -> SourceState] /\ sock \in [Captures -> SockState]
    BY <1>2
  <2>8. CountsOk(T, J, done)
    BY <2>5, <2>6, <2>7, CountsStay
  <2>. QED BY <2>4, <2>4a, <2>8
<1>. QED BY <1>5, <1>6, <1>8, <1>9 DEF CaptureInv

\* A step that only moves the loop on.
LEMMA QuietStep ==
    ASSUME CaptureInv, NEW s \in Captures, NEW q \in SourceState, src' = [src EXCEPT ![s] = q],
           UNCHANGED <<sock, fdOf, out, got, poll, retired>>,
           SameAccount(src[s], q), SamePhase(src[s], q), SamePlace(src[s], q),
           Reading(q) => Reading(src[s]) /\ (Walking(q) <=> Walking(src[s])) /\ (q.pc = "emit" <=> src[s].pc = "emit")
    PROVE  CaptureInv'
<1>1. PICK r \in SourceState : r = src[s]
  BY CaptureIs
<1>2. PICK k \in SockState : k = sock[s]
  BY CaptureIs
<1>3. PICK o \in Seq(Nat), g \in Seq(Nat), ring \in BOOLEAN : o = out[s] /\ g = got[s] /\ ring = Ring(s)
  BY CaptureIs
<1>4. sock' = [sock EXCEPT ![s] = k] /\ out' = [out EXCEPT ![s] = o] /\ got' = [got EXCEPT ![s] = g]
  BY <1>2, <1>3 DEF CaptureInv, CaptureTypes
<1>5. Reading(q) => LineOk(q, k, g, o, ring)
  <2> SUFFICES ASSUME Reading(q) PROVE LineOk(q, k, g, o, ring)
    OBVIOUS
  <2>1. LineOk(r, k, g, o, ring)
    BY <1>1, <1>2, <1>3, CaptureIs
  <2>2. SamePlace(r, q) /\ (Walking(q) <=> Walking(r)) /\ (q.pc = "emit" <=> r.pc = "emit")
    BY <1>1
  <2>. QED BY <2>1, <2>2, StepSame DEF SamePlace
<1>6. k.lost - k.dropped = sock[s].lost - sock[s].dropped /\ k.dropped >= sock[s].dropped
  <2>1. k.dropped \in Nat
    BY DEF SockState
  <2>. QED BY <1>2, <2>1
<1>. QED BY <1>3, <1>4, <1>5, <1>6, OneStep

LEMMA PhaseIsQuiet ==
    ASSUME NEW r \in SourceState, NEW x \in Pcs, NEW q, q = [r EXCEPT !.pc = x]
    PROVE  q \in SourceState /\ q.pc = x /\ SameAccount(r, q) /\ SamePlace(r, q)
BY DEF SourceState, SameAccount, SamePlace

LEMMA CheckKeeps ==
    ASSUME CaptureInv, NEW s \in Captures, Check(s)
    PROVE  CaptureInv'
<1>1. PICK x : x = IF src[s].cancelled \/ src[s].closed THEN "leave" ELSE "read"
  OBVIOUS
<1>2. x \in Pcs /\ x \in {"leave", "read"} /\ src[s].pc = "check"
  BY <1>1 DEF Pcs, Check
<1>3. PICK q : q = [src[s] EXCEPT !.pc = x]
  OBVIOUS
<1>4. q \in SourceState /\ q.pc = x /\ SameAccount(src[s], q) /\ SamePlace(src[s], q)
  BY <1>2, <1>3, CaptureIs, PhaseIsQuiet
<1>5. src' = [src EXCEPT ![s] = q] /\ UNCHANGED <<sock, fdOf, out, got, poll, retired>>
  BY <1>1, <1>3 DEF Check
<1>6. SamePhase(src[s], q) /\ (Reading(q) => Reading(src[s]) /\ (Walking(q) <=> Walking(src[s])) /\ (q.pc = "emit" <=> src[s].pc = "emit"))
  BY <1>2, <1>4 DEF SamePhase, Reading, Walking
<1>. QED BY <1>4, <1>5, <1>6, QuietStep

LEMMA TimesOutKeeps ==
    ASSUME CaptureInv, NEW s \in Captures, TimesOut(s)
    PROVE  CaptureInv'
<1>2. "check" \in Pcs /\ src[s].pc = "read"
  BY DEF Pcs, TimesOut
<1>3. PICK q : q = [src[s] EXCEPT !.pc = "check"]
  OBVIOUS
<1>4. q \in SourceState /\ q.pc = "check" /\ SameAccount(src[s], q) /\ SamePlace(src[s], q)
  BY <1>2, <1>3, CaptureIs, PhaseIsQuiet
<1>5. src' = [src EXCEPT ![s] = q] /\ UNCHANGED <<sock, fdOf, out, got, poll, retired>>
  BY <1>3 DEF TimesOut
<1>6. SamePhase(src[s], q) /\ (Reading(q) => Reading(src[s]) /\ (Walking(q) <=> Walking(src[s])) /\ (q.pc = "emit" <=> src[s].pc = "emit"))
  BY <1>2, <1>4 DEF SamePhase, Reading, Walking
<1>. QED BY <1>4, <1>5, <1>6, QuietStep

LEMMA ReadFailsKeeps ==
    ASSUME CaptureInv, NEW s \in Captures, ReadFails(s)
    PROVE  CaptureInv'
<1>2. "leave" \in Pcs /\ src[s].pc = "read"
  BY DEF Pcs, ReadFails
<1>3. PICK q : q = [src[s] EXCEPT !.pc = "leave"]
  OBVIOUS
<1>4. q \in SourceState /\ q.pc = "leave" /\ SameAccount(src[s], q) /\ SamePlace(src[s], q)
  BY <1>2, <1>3, CaptureIs, PhaseIsQuiet
<1>5. src' = [src EXCEPT ![s] = q] /\ UNCHANGED <<sock, fdOf, out, got, poll, retired>>
  BY <1>3 DEF ReadFails
<1>6. SamePhase(src[s], q) /\ ~ Reading(q)
  BY <1>2, <1>4 DEF SamePhase, Reading
<1>. QED BY <1>4, <1>5, <1>6, QuietStep

LEMMA CancelKeeps ==
    ASSUME CaptureInv, NEW s \in Captures, CancelCapture(s)
    PROVE  CaptureInv'
<1>1. PICK q : q = [src[s] EXCEPT !.cancelled = TRUE]
  OBVIOUS
<1>2. q \in SourceState /\ q.pc = src[s].pc /\ SameAccount(src[s], q) /\ SamePlace(src[s], q)
  BY <1>1, CaptureIs DEF SourceState, SameAccount, SamePlace
<1>3. src' = [src EXCEPT ![s] = q] /\ UNCHANGED <<sock, fdOf, out, got, poll, retired>>
  BY <1>1 DEF CancelCapture
<1>4. SamePhase(src[s], q) /\ (Reading(q) => Reading(src[s]) /\ (Walking(q) <=> Walking(src[s])) /\ (q.pc = "emit" <=> src[s].pc = "emit"))
  BY <1>2 DEF SamePhase, Reading, Walking
<1>. QED BY <1>2, <1>3, <1>4, QuietStep

LEMMA WalkKeeps ==
    ASSUME CaptureInv, NEW s \in Captures, Walk(s)
    PROVE  CaptureInv'
<1>1. PICK r \in SourceState, k \in SockState : r = src[s] /\ k = sock[s]
  BY CaptureIs
<1>2. PICK o \in Seq(Nat), g \in Seq(Nat), ring \in BOOLEAN : o = out[s] /\ g = got[s] /\ ring = Ring(s)
  BY CaptureIs
<1>3. r.pc = "walk" /\ r.left > 0
  BY <1>1 DEF Walk
<1>4. LineOk(r, k, g, o, ring)
  BY <1>1, <1>2, <1>3, CaptureIs DEF Reading
<1>5. PICK f : f = Held(r, k, ring)[r.at]
  OBVIOUS
<1>6. f \in Nat
  <2>1. Walking(r) /\ WalkOk(r, k, ring)
    BY <1>3, <1>4 DEF Walking, LineOk
  <2>2. r.left > 0 => /\ Head(Place(r, k, g, o, ring, 4)) = Held(r, k, ring)[r.at] /\ Held(r, k, ring)[r.at] \in Nat
                      /\ Tail(Place(r, k, g, o, ring, 4)) = Stretch(Held(r, k, ring), r.at + 1, r.left - 1)
    BY <2>1, FourthFacts
  <2>. QED BY <1>3, <1>5, <2>2
<1>7. FrameAt(s, src[s].at) = f
  BY <1>1, <1>2, <1>5 DEF FrameAt, Held
<1>8. PICK q : q = [r EXCEPT !.at = @ + 1, !.left = @ - 1, !.packets = @ + 1,
                             !.hand = IF f \in Bad THEN NoFd ELSE f,
                             !.pc = IF f \in Bad THEN "walk" ELSE "emit",
                             !.refused = IF f \in Bad THEN @ + 1 ELSE @]
  OBVIOUS
<1>9. src' = [src EXCEPT ![s] = q] /\ UNCHANGED <<sock, fdOf, out, got, poll, retired>>
  BY <1>1, <1>7, <1>8 DEF Walk
<1>10. r.at \in Nat /\ r.left \in Nat /\ r.packets \in Nat /\ r.refused \in Nat /\ r.left - 1 \in Nat
  BY <1>3 DEF SourceState
<1>11. q \in SourceState
  <2>1. /\ r.at + 1 \in Nat /\ r.left - 1 \in Nat /\ r.packets + 1 \in Nat
        /\ (IF f \in Bad THEN NoFd ELSE f) \in Nat /\ (IF f \in Bad THEN "walk" ELSE "emit") \in Pcs
        /\ (IF f \in Bad THEN r.refused + 1 ELSE r.refused) \in Nat
    BY <1>6, <1>10 DEF NoFd, Pcs
  <2>. QED BY <1>8, <2>1 DEF SourceState
<1>12. /\ q.at = r.at + 1 /\ q.left = r.left - 1 /\ q.buf = r.buf /\ q.cursor = r.cursor /\ SameAccount(r, q)
       /\ \/ q.pc = "emit" /\ q.hand = f /\ q.refused = r.refused
          \/ q.pc = "walk" /\ q.hand = NoFd /\ q.refused = r.refused + 1
  BY <1>8 DEF SourceState, SameAccount
<1>13. LineOk(q, k, g, o, ring)
  BY <1>3, <1>4, <1>5, <1>11, <1>12, StepWalk
<1>14. SamePhase(r, q)
  BY <1>3, <1>12 DEF SamePhase
<1>15. sock' = [sock EXCEPT ![s] = k] /\ out' = [out EXCEPT ![s] = o] /\ got' = [got EXCEPT ![s] = g]
  BY <1>1, <1>2, <1>9 DEF CaptureInv, CaptureTypes
<1>16. k.lost - k.dropped = sock[s].lost - sock[s].dropped /\ k.dropped >= sock[s].dropped
  <2>1. k.dropped \in Nat
    BY DEF SockState
  <2>. QED BY <1>1, <2>1
<1>17. SameAccount(src[s], q) /\ SamePhase(src[s], q) /\ (Reading(q) => LineOk(q, k, g, o, Ring(s)))
  BY <1>1, <1>2, <1>12, <1>13, <1>14
<1>. QED BY <1>9, <1>11, <1>15, <1>16, <1>17, OneStep

LEMMA WalkedKeeps ==
    ASSUME CaptureInv, NEW s \in Captures, Walked(s)
    PROVE  CaptureInv'
<1>1. PICK r \in SourceState, k \in SockState : r = src[s] /\ k = sock[s]
  BY CaptureIs
<1>2. PICK o \in Seq(Nat), g \in Seq(Nat), ring \in BOOLEAN : o = out[s] /\ g = got[s] /\ ring = Ring(s)
  BY CaptureIs
<1>3. r.pc = "walk" /\ r.left = 0
  BY <1>1 DEF Walked
<1>4. LineOk(r, k, g, o, ring)
  BY <1>1, <1>2, <1>3, CaptureIs DEF Reading
<1>5. PICK x : x = IF ~ ring THEN "check" ELSE IF r.closed THEN "leave" ELSE "read"
  OBVIOUS
<1>6. PICK c : c = IF ring THEN (r.cursor + 1) % Blocks ELSE r.cursor
  OBVIOUS
<1>7. PICK q : q = [r EXCEPT !.buf = <<>>, !.at = 0, !.cursor = c, !.pc = x]
  OBVIOUS
<1>8. PICK j : j = IF ring THEN [k EXCEPT !.blocks[r.cursor].user = FALSE, !.blocks[r.cursor].num = 0] ELSE k
  OBVIOUS
<1>9. src' = [src EXCEPT ![s] = q] /\ UNCHANGED <<fdOf, out, got, poll, retired>>
  BY <1>1, <1>2, <1>5, <1>6, <1>7 DEF Walked
<1>10. sock' = [sock EXCEPT ![s] = j]
  <2>1. sock \in [Captures -> SockState]
    BY DEF CaptureInv, CaptureTypes
  <2>2. CASE ring
    <3>1. sock' = Returned(s) /\ src[s].cursor = r.cursor /\ sock[s] = k
      BY <1>1, <1>2, <2>2 DEF Walked
    <3>2. PICK at \in 0..(Blocks - 1) : at = r.cursor
      BY DEF SourceState
    <3>3. Returned(s) = [sock EXCEPT ![s].blocks[at].user = FALSE, ![s].blocks[at].num = 0]
      BY <3>1, <3>2 DEF Returned
    <3>4. PICK z : z = [sock EXCEPT ![s].blocks[at].user = FALSE]
      OBVIOUS
    <3>5. z[s] = [k EXCEPT !.blocks[at].user = FALSE] /\ DOMAIN z = Captures /\ \A t \in Captures : t # s => z[t] = sock[t]
      BY <2>1, <3>1, <3>4
    <3>6. Returned(s) = [z EXCEPT ![s] = [z[s] EXCEPT !.blocks[at].num = 0]]
      BY <3>3, <3>4
    <3>7. j = [z[s] EXCEPT !.blocks[at].num = 0]
      BY <1>8, <2>2, <3>2, <3>5
    <3>8. [z EXCEPT ![s] = j] = [sock EXCEPT ![s] = j]
      BY <2>1, <3>4
    <3>. QED BY <3>1, <3>6, <3>7, <3>8
  <2>3. CASE ~ ring
    BY <1>1, <1>2, <1>8, <2>1, <2>3 DEF Walked
  <2>. QED BY <2>2, <2>3
<1>11. r.cursor \in 0..(Blocks - 1) /\ c \in 0..(Blocks - 1)
  <2>1. r.cursor \in 0..(Blocks - 1) /\ Blocks \in Nat \ {0}
    BY CaptureAssumption DEF SourceState
  <2>2. (r.cursor + 1) % Blocks \in 0..(Blocks - 1)
    BY <2>1
  <2>. QED BY <1>6, <2>1, <2>2
<1>12. q \in SourceState
  <2>1. x \in Pcs /\ <<>> \in Seq(Nat)
    BY <1>5, EmptySeq DEF Pcs
  <2>. QED BY <1>7, <1>11, <2>1 DEF SourceState
<1>13. /\ q.left = r.left /\ q.hand = r.hand /\ q.refused = r.refused /\ q.cursor = c /\ q.pc = x /\ SameAccount(r, q)
  BY <1>7 DEF SourceState, SameAccount
<1>14. j \in SockState /\ j.arrived = k.arrived /\ j.dropped = k.dropped /\ j.lost = k.lost /\ j.fill = k.fill
  <2>1. CASE ring
    <3>1. PICK b \in BlockState : b = k.blocks[r.cursor]
      BY <1>11 DEF SockState
    <3>2. [b EXCEPT !.user = FALSE, !.num = 0] \in BlockState
      BY DEF BlockState
    <3>3. [k.blocks EXCEPT ![r.cursor] = [b EXCEPT !.user = FALSE, !.num = 0]] \in [0..(Blocks - 1) -> BlockState]
      BY <3>2 DEF SockState
    <3>4. j = [k EXCEPT !.blocks = [k.blocks EXCEPT ![r.cursor] = [b EXCEPT !.user = FALSE, !.num = 0]]]
      BY <1>8, <1>11, <2>1, <3>1 DEF SockState, BlockState
    <3>. QED BY <3>3, <3>4 DEF SockState
  <2>2. CASE ~ ring
    BY <1>8, <2>2
  <2>. QED BY <2>1, <2>2
<1>15. ASSUME Reading(q) PROVE LineOk(q, j, g, o, ring)
  <2>1. CASE ring
    <3>1. q.pc = "read" /\ q.cursor = (r.cursor + 1) % Blocks
      BY <1>5, <1>6, <1>13, <1>15, <2>1 DEF Reading
    <3>2. k.blocks \in [0..(Blocks - 1) -> BlockState]
      BY DEF SockState
    <3>3. /\ ~ j.blocks[r.cursor].user /\ j.blocks[r.cursor].num = 0
          /\ \A b \in 0..(Blocks - 1) : b # r.cursor => j.blocks[b] = k.blocks[b]
      BY <1>8, <1>11, <2>1, <3>2 DEF SockState, BlockState
    <3>4. LineOk(r, k, g, o, TRUE)
      BY <1>4, <2>1
    <3>5. LineOk(q, j, g, o, TRUE)
      BY <1>3, <1>12, <1>13, <1>14, <3>1, <3>3, <3>4, StepRingWalked
    <3>. QED BY <2>1, <3>5
  <2>2. CASE ~ ring
    <3>1. q.pc = "check" /\ j = k
      BY <1>5, <1>8, <1>13, <2>2
    <3>2. LineOk(r, k, g, o, FALSE)
      BY <1>4, <2>2
    <3>3. LineOk(q, k, g, o, FALSE)
      BY <1>3, <1>12, <1>13, <3>1, <3>2, StepBufferWalked
    <3>. QED BY <2>2, <3>1, <3>3
  <2>. QED BY <2>1, <2>2
<1>16. SamePhase(r, q)
  <2>1. x \in {"check", "leave", "read"}
    BY <1>5
  <2>. QED BY <1>3, <1>13, <2>1 DEF SamePhase
<1>17. out' = [out EXCEPT ![s] = o] /\ got' = [got EXCEPT ![s] = g]
  BY <1>2, <1>9 DEF CaptureInv, CaptureTypes
<1>18. j.lost - j.dropped = sock[s].lost - sock[s].dropped /\ j.dropped >= sock[s].dropped
  <2>1. k.dropped \in Nat
    BY DEF SockState
  <2>. QED BY <1>1, <1>14, <2>1
<1>19. SameAccount(src[s], q) /\ SamePhase(src[s], q) /\ (Reading(q) => LineOk(q, j, g, o, Ring(s)))
  BY <1>1, <1>2, <1>13, <1>15, <1>16
<1>. QED BY <1>9, <1>10, <1>12, <1>14, <1>17, <1>18, <1>19, OneStep

LEMMA ReadyKeeps ==
    ASSUME CaptureInv, NEW s \in Captures, Ready(s)
    PROVE  CaptureInv'
<1>1. PICK r \in SourceState, k \in SockState : r = src[s] /\ k = sock[s]
  BY CaptureIs
<1>2. PICK o \in Seq(Nat), g \in Seq(Nat) : o = out[s] /\ g = got[s]
  BY CaptureIs
<1>3. r.pc = "read" /\ Ring(s) /\ k.blocks[r.cursor].user
  BY <1>1 DEF Ready
<1>4. LineOk(r, k, g, o, TRUE)
  <2>1. LineOk(r, k, g, o, Ring(s))
    BY <1>1, <1>2, <1>3, CaptureIs DEF Reading
  <2>2. Ring(s) = TRUE
    BY <1>3 DEF Ring
  <2>. QED BY <2>1, <2>2
<1>5. PICK q : q = [r EXCEPT !.pc = "walk", !.at = 1, !.left = k.blocks[r.cursor].num]
  OBVIOUS
<1>6. src' = [src EXCEPT ![s] = q] /\ UNCHANGED <<sock, fdOf, out, got, poll, retired>>
  BY <1>1, <1>5 DEF Ready
<1>7. q \in SourceState
  <2>1. "walk" \in Pcs /\ r.cursor \in 0..(Blocks - 1)
    BY DEF Pcs, SourceState
  <2>2. k.blocks[r.cursor].num \in Nat
    BY <2>1 DEF SockState, BlockState
  <2>. QED BY <1>5, <2>1, <2>2 DEF SourceState
<1>8. /\ q.pc = "walk" /\ q.at = 1 /\ q.left = k.blocks[r.cursor].num /\ q.hand = r.hand /\ q.buf = r.buf
      /\ q.cursor = r.cursor /\ q.refused = r.refused /\ SameAccount(r, q)
  BY <1>5 DEF SourceState, SameAccount
<1>9. LineOk(q, k, g, o, TRUE)
  BY <1>3, <1>4, <1>7, <1>8, StepReady
<1>10. SamePhase(r, q)
  BY <1>3, <1>8 DEF SamePhase
<1>11. sock' = [sock EXCEPT ![s] = k] /\ out' = [out EXCEPT ![s] = o] /\ got' = [got EXCEPT ![s] = g]
  BY <1>1, <1>2, <1>6 DEF CaptureInv, CaptureTypes
<1>12. k.lost - k.dropped = sock[s].lost - sock[s].dropped /\ k.dropped >= sock[s].dropped
  <2>1. k.dropped \in Nat
    BY DEF SockState
  <2>. QED BY <1>1, <2>1
<1>13. SameAccount(src[s], q) /\ SamePhase(src[s], q) /\ (Reading(q) => LineOk(q, k, g, o, Ring(s)))
  <2>1. Ring(s) = TRUE
    BY <1>3 DEF Ring
  <2>. QED BY <1>1, <1>8, <1>9, <1>10, <2>1
<1>. QED BY <1>6, <1>7, <1>11, <1>12, <1>13, OneStep

LEMMA ReadKeeps ==
    ASSUME CaptureInv, NEW s \in Captures, Read(s)
    PROVE  CaptureInv'
<1>1. PICK r \in SourceState, k \in SockState : r = src[s] /\ k = sock[s]
  BY CaptureIs
<1>2. PICK o \in Seq(Nat), g \in Seq(Nat) : o = out[s] /\ g = got[s]
  BY CaptureIs
<1>3. r.pc = "read" /\ Ring(s) = FALSE /\ k.queue # <<>>
  BY <1>1 DEF Read, Ring
<1>4. LineOk(r, k, g, o, FALSE)
  BY <1>1, <1>2, <1>3, CaptureIs DEF Reading
<1>5. PICK m \in 1..Len(k.queue) : m = IF KindOf[s] = "recv" THEN 1 ELSE Len(k.queue)
  <2>1. k.queue \in Seq(Nat)
    BY DEF SockState
  <2>2. Len(k.queue) \in Nat /\ Len(k.queue) # 0
    BY <1>3, <2>1, EmptySeq
  <2>3. 1 \in 1..Len(k.queue) /\ Len(k.queue) \in 1..Len(k.queue)
    BY <2>2
  <2>. QED BY <2>3
<1>6. PICK u, v : u = SubSeq(k.queue, 1, m) /\ v = SubSeq(k.queue, m + 1, Len(k.queue))
  OBVIOUS
<1>7. u \in Seq(Nat) /\ v \in Seq(Nat)
  <2>1. k.queue \in Seq(Nat)
    BY DEF SockState
  <2>2. PICK t \in Seq(Nat), n \in Nat : t = k.queue /\ n = Len(t)
    BY <2>1, LenProperties
  <2>3a. m \in Int /\ m + 1 \in Int /\ 1 \in Int /\ n \in Int
    BY <2>2
  <2>3. PICK a \in Int, b \in Int, c \in Int, d \in Int : a = 1 /\ b = m /\ c = m + 1 /\ d = n
    BY <2>3a, Zenon
  <2>4. \A i \in a..b : i \in 1..Len(t)
    BY <1>5, <2>2, <2>3
  <2>5. \A i \in c..d : i \in 1..Len(t)
    BY <1>5, <2>2, <2>3
  <2>6. SubSeq(t, a, b) \in Seq(Nat)
    BY <2>4, SubSeqProperties
  <2>7. SubSeq(t, c, d) \in Seq(Nat)
    BY <2>5, SubSeqProperties
  <2>. QED BY <1>6, <2>2, <2>3, <2>6, <2>7
<1>8. PICK q : q = [r EXCEPT !.pc = "walk", !.left = m, !.at = 1, !.buf = u]
  OBVIOUS
<1>9. PICK j : j = [k EXCEPT !.queue = v]
  OBVIOUS
<1>10. src' = [src EXCEPT ![s] = q] /\ sock' = [sock EXCEPT ![s] = j] /\ UNCHANGED <<fdOf, out, got, poll, retired>>
  <2>1. sock \in [Captures -> SockState] /\ src \in [Captures -> SourceState]
    BY DEF CaptureInv, CaptureTypes
  <2>2. src' = [src EXCEPT ![s] = q]
    BY <1>1, <1>5, <1>6, <1>8, <2>1 DEF Read
  <2>3. sock' = [sock EXCEPT ![s] = j]
    BY <1>1, <1>5, <1>6, <1>9, <2>1 DEF Read
  <2>. QED BY <2>2, <2>3 DEF Read
<1>11. q \in SourceState
  <2>1. "walk" \in Pcs /\ m \in Nat /\ 1 \in Nat
    BY DEF Pcs
  <2>. QED BY <1>7, <1>8, <2>1 DEF SourceState
<1>12. /\ q.pc = "walk" /\ q.at = 1 /\ q.left = m /\ q.buf = u /\ q.hand = r.hand /\ q.refused = r.refused
       /\ SameAccount(r, q)
  BY <1>8 DEF SourceState, SameAccount
<1>13. j \in SockState /\ j.queue = v /\ j.arrived = k.arrived /\ j.dropped = k.dropped /\ j.lost = k.lost
  BY <1>7, <1>9 DEF SockState
<1>14. LineOk(q, j, g, o, FALSE)
  <2>1. q.buf = SubSeq(k.queue, 1, m) /\ j.queue = SubSeq(k.queue, m + 1, Len(k.queue))
    BY <1>6, <1>12, <1>13
  <2>. QED BY <1>3, <1>4, <1>11, <1>12, <1>13, <2>1, StepRead
<1>15. out' = [out EXCEPT ![s] = o] /\ got' = [got EXCEPT ![s] = g]
  BY <1>2, <1>10 DEF CaptureInv, CaptureTypes
<1>16. j.lost - j.dropped = sock[s].lost - sock[s].dropped /\ j.dropped >= sock[s].dropped
  <2>1. k.dropped \in Nat
    BY DEF SockState
  <2>. QED BY <1>1, <1>13, <2>1
<1>17. SameAccount(src[s], q) /\ SamePhase(src[s], q) /\ (Reading(q) => LineOk(q, j, g, o, Ring(s)))
  BY <1>1, <1>3, <1>12, <1>14 DEF SamePhase
<1>. QED BY <1>10, <1>11, <1>13, <1>15, <1>16, <1>17, OneStep

LEMMA EmitKeeps ==
    ASSUME CaptureInv, NEW s \in Captures, Emit(s)
    PROVE  CaptureInv'
<1>1. PICK r \in SourceState, k \in SockState : r = src[s] /\ k = sock[s]
  BY CaptureIs
<1>2. PICK o \in Seq(Nat), g \in Seq(Nat), ring \in BOOLEAN : o = out[s] /\ g = got[s] /\ ring = Ring(s)
  BY CaptureIs
<1>3. r.pc = "emit" /\ UNCHANGED <<sock, fdOf, got, poll, retired>>
  BY <1>1 DEF Emit
<1>4. LineOk(r, k, g, o, ring)
  BY <1>1, <1>2, <1>3, CaptureIs DEF Reading
<1>5. CASE src' = [src EXCEPT ![s].pc = "walk", ![s].hand = NoFd] /\ out' = [out EXCEPT ![s] = Append(@, src[s].hand)]
  <2>1. PICK q : q = [r EXCEPT !.pc = "walk", !.hand = NoFd]
    OBVIOUS
  <2>2. PICK w : w = Append(o, r.hand)
    OBVIOUS
  <2>3. w \in Seq(Nat)
    <3>1. r.hand \in Nat
      BY DEF SourceState
    <3>. QED BY <2>2, <3>1, AppendProperties
  <2>4. src' = [src EXCEPT ![s] = q] /\ out' = [out EXCEPT ![s] = w]
    BY <1>1, <1>2, <1>5, <2>1, <2>2 DEF CaptureInv, CaptureTypes
  <2>5. q \in SourceState
    <3>1. "walk" \in Pcs /\ NoFd \in Nat
      BY DEF Pcs, NoFd
    <3>. QED BY <2>1, <3>1 DEF SourceState
  <2>6. /\ q.pc = "walk" /\ q.hand = NoFd /\ q.at = r.at /\ q.left = r.left /\ q.buf = r.buf /\ q.cursor = r.cursor
        /\ q.refused = r.refused /\ SameAccount(r, q)
    BY <2>1 DEF SourceState, SameAccount
  <2>7. LineOk(q, k, g, w, ring)
    <3>1. LineOk(q, k, g, Append(o, r.hand), ring)
      BY <1>3, <1>4, <2>5, <2>6, StepEmit
    <3>. QED BY <2>2, <3>1
  <2>8. sock' = [sock EXCEPT ![s] = k] /\ got' = [got EXCEPT ![s] = g]
    BY <1>1, <1>2, <1>3 DEF CaptureInv, CaptureTypes
  <2>9. k.lost - k.dropped = sock[s].lost - sock[s].dropped /\ k.dropped >= sock[s].dropped
    <3>1. k.dropped \in Nat
      BY DEF SockState
    <3>. QED BY <1>1, <3>1
  <2>10. SameAccount(src[s], q) /\ SamePhase(src[s], q) /\ (Reading(q) => LineOk(q, k, g, w, Ring(s)))
    BY <1>1, <1>2, <1>3, <2>6, <2>7 DEF SamePhase
  <2>. QED BY <1>3, <2>3, <2>4, <2>5, <2>8, <2>9, <2>10, OneStep
<1>6. CASE src' = [src EXCEPT ![s].pc = "leave"] /\ out' = out
  <2>1. PICK q : q = [src[s] EXCEPT !.pc = "leave"]
    OBVIOUS
  <2>2. "leave" \in Pcs
    BY DEF Pcs
  <2>3. q \in SourceState /\ q.pc = "leave" /\ SameAccount(src[s], q) /\ SamePlace(src[s], q)
    BY <2>1, <2>2, CaptureIs, PhaseIsQuiet
  <2>4. src' = [src EXCEPT ![s] = q] /\ UNCHANGED <<sock, fdOf, out, got, poll, retired>>
    BY <1>3, <1>6, <2>1
  <2>5. SamePhase(src[s], q) /\ ~ Reading(q)
    BY <1>1, <1>3, <2>3 DEF SamePhase, Reading
  <2>. QED BY <2>3, <2>4, <2>5, QuietStep
<1>. QED BY <1>5, <1>6 DEF Emit

LEMMA ReceiveKeeps ==
    ASSUME CaptureInv, NEW s \in Captures, Receive(s)
    PROVE  CaptureInv'
<1>1. PICK r \in SourceState, k \in SockState : r = src[s] /\ k = sock[s]
  BY CaptureIs
<1>2. PICK o \in Seq(Nat), g \in Seq(Nat), ring \in BOOLEAN : o = out[s] /\ g = got[s] /\ ring = Ring(s)
  BY CaptureIs
<1>3. o # <<>> /\ UNCHANGED <<src, sock, fdOf, poll, retired>>
  BY <1>2 DEF Receive
<1>4. PICK v, w : v = Append(g, Head(o)) /\ w = Tail(o)
  OBVIOUS
<1>5. v \in Seq(Nat) /\ w \in Seq(Nat)
  <2>1. Head(o) \in Nat /\ Tail(o) \in Seq(Nat)
    BY <1>3, HeadTailProperties
  <2>. QED BY <1>4, <2>1, AppendProperties
<1>6. out' = [out EXCEPT ![s] = w] /\ got' = [got EXCEPT ![s] = v]
  BY <1>2, <1>4 DEF Receive
<1>7. src' = [src EXCEPT ![s] = r] /\ sock' = [sock EXCEPT ![s] = k]
  BY <1>1, <1>3 DEF CaptureInv, CaptureTypes
<1>8. Reading(r) => LineOk(r, k, v, w, ring)
  <2> SUFFICES ASSUME Reading(r) PROVE LineOk(r, k, Append(g, Head(o)), Tail(o), ring)
    BY <1>4
  <2>1. LineOk(r, k, g, o, ring)
    BY <1>1, <1>2, CaptureIs
  <2>. QED BY <1>3, <2>1, StepReceive
<1>9. k.lost - k.dropped = sock[s].lost - sock[s].dropped /\ k.dropped >= sock[s].dropped
  <2>1. k.dropped \in Nat
    BY DEF SockState
  <2>. QED BY <1>1, <2>1
<1>10. SameAccount(src[s], r) /\ SamePhase(src[s], r) /\ (Reading(r) => LineOk(r, k, v, w, Ring(s)))
  BY <1>1, <1>2, <1>8 DEF SameAccount, SamePhase
<1>. QED BY <1>3, <1>5, <1>6, <1>7, <1>9, <1>10, OneStep

LEMMA ArriveKeeps ==
    ASSUME CaptureInv, NEW s \in Captures, Arrive(s)
    PROVE  CaptureInv'
<1>1. PICK r \in SourceState, k \in SockState : r = src[s] /\ k = sock[s]
  BY CaptureIs
<1>2. PICK o \in Seq(Nat), g \in Seq(Nat) : o = out[s] /\ g = got[s]
  BY CaptureIs
<1>3. /\ k.arrived \in Nat /\ k.lost \in Nat /\ k.dropped \in Nat /\ k.queue \in Seq(Nat)
      /\ k.blocks \in [0..(Blocks - 1) -> BlockState] /\ k.fill \in 0..(Blocks - 1)
  BY DEF SockState
<1>4. Blocks \in Nat \ {0} /\ sock \in [Captures -> SockState] /\ UNCHANGED <<src, fdOf, out, got, poll, retired>>
  BY CaptureAssumption DEF CaptureInv, CaptureTypes, Arrive
<1>5. PICK b \in BlockState : b = k.blocks[k.fill]
  BY <1>3
<1>6. PICK full \in BOOLEAN : full <=> b.num + 1 = BlockCap
  OBVIOUS
<1>7. PICK x \in Nat : x = k.arrived + 1
  BY <1>3
<1>8. PICK c \in BlockState : c = [user |-> full, num |-> b.num + 1, frames |-> [b.frames EXCEPT ![b.num + 1] = x]]
  <2>1. b.frames \in [1..BlockCap -> Nat] /\ b.num \in Nat
    BY DEF BlockState
  <2>2. [b.frames EXCEPT ![b.num + 1] = x] \in [1..BlockCap -> Nat]
    <3>1. PICK h \in [1..BlockCap -> Nat] : h = b.frames
      BY <2>1
    <3>2. PICK m : m = b.num + 1
      OBVIOUS
    <3>3. [h EXCEPT ![m] = x] \in [1..BlockCap -> Nat]
      OBVIOUS
    <3>. QED BY <3>1, <3>2, <3>3
  <2>3. b.num + 1 \in Nat
    BY <2>1
  <2>. QED BY <2>2, <2>3 DEF BlockState
<1>9. PICK f \in 0..(Blocks - 1) : f = IF full THEN (k.fill + 1) % Blocks ELSE k.fill
  <2>1. (k.fill + 1) % Blocks \in 0..(Blocks - 1)
    BY <1>3, <1>4
  <2>. QED BY <1>3, <2>1
<1>10. PICK j : j = IF Ring(s) /\ ~ b.user THEN [k EXCEPT !.arrived = x, !.fill = f, !.blocks = [@ EXCEPT ![k.fill] = c]]
                    ELSE IF ~ Ring(s) /\ Len(k.queue) < QueueCap THEN [k EXCEPT !.arrived = x, !.queue = Append(@, x)]
                    ELSE [k EXCEPT !.arrived = x, !.lost = @ + 1, !.dropped = @ + 1]
  OBVIOUS
<1>11. sock' = [sock EXCEPT ![s] = j]
  <2>1. k.blocks[k.fill] = b /\ (b.num + 1 = BlockCap <=> full)
    BY <1>5, <1>6
  <2>2. CASE Ring(s) /\ ~ b.user
    <3>1. sock' = [sock EXCEPT ![s] = [k EXCEPT !.arrived = x, !.fill = IF full THEN (@ + 1) % Blocks ELSE @,
                           !.blocks[k.fill] = [user |-> full, num |-> @.num + 1,
                                               frames |-> [@.frames EXCEPT ![b.num + 1] = x]]]]
      BY <1>1, <1>6, <1>7, <2>1, <2>2 DEF Arrive
    <3>2. [k EXCEPT !.arrived = x, !.fill = IF full THEN (@ + 1) % Blocks ELSE @,
                           !.blocks[k.fill] = [user |-> full, num |-> @.num + 1,
                                               frames |-> [@.frames EXCEPT ![b.num + 1] = x]]] = j
      BY <1>3, <1>8, <1>9, <1>10, <2>1, <2>2
    <3>. QED BY <3>1, <3>2
  <2>3. CASE ~ Ring(s) /\ Len(k.queue) < QueueCap
    BY <1>1, <1>7, <1>10, <2>3 DEF Arrive
  <2>4. CASE ~ (Ring(s) /\ ~ b.user) /\ ~ (~ Ring(s) /\ Len(k.queue) < QueueCap)
    BY <1>1, <1>7, <1>10, <2>1, <2>4 DEF Arrive
  <2>. QED BY <2>2, <2>3, <2>4
<1>11a. src' = [src EXCEPT ![s] = r] /\ out' = [out EXCEPT ![s] = o] /\ got' = [got EXCEPT ![s] = g]
  BY <1>1, <1>2, <1>4 DEF CaptureInv, CaptureTypes
<1>11b. SameAccount(src[s], r) /\ SamePhase(src[s], r)
  BY <1>1 DEF SameAccount, SamePhase
<1>12. CASE Ring(s) /\ ~ b.user
  <2>1. j = [k EXCEPT !.arrived = x, !.fill = f, !.blocks = [k.blocks EXCEPT ![k.fill] = c]]
    BY <1>10, <1>12
  <2>2. [k.blocks EXCEPT ![k.fill] = c] \in [0..(Blocks - 1) -> BlockState]
    BY <1>3
  <2>3. j \in SockState
    BY <2>1, <2>2 DEF SockState
  <2>4. /\ j.arrived = x /\ j.dropped = k.dropped /\ j.lost = k.lost /\ j.fill = f
        /\ j.blocks = [k.blocks EXCEPT ![k.fill] = c]
    BY <2>1 DEF SockState
  <2>5. Filled(k, j, x, full)
    <3>1. j.blocks[k.fill] = c /\ \A i \in 0..(Blocks - 1) : i # k.fill => j.blocks[i] = k.blocks[i]
      BY <1>3, <2>4
    <3>2. c.user = full /\ c.num = b.num + 1 /\ c.frames = [b.frames EXCEPT ![b.num + 1] = x]
      BY <1>8
    <3>. QED BY <1>5, <1>6, <1>9, <1>12, <2>4, <3>1, <3>2 DEF Filled
  <2>6. Reading(r) => LineOk(r, j, g, o, TRUE)
    <3> SUFFICES ASSUME Reading(r) PROVE LineOk(r, j, g, o, TRUE)
      OBVIOUS
    <3>1. LineOk(r, k, g, o, Ring(s))
      BY <1>1, <1>2, CaptureIs
    <3>2. LineOk(r, k, g, o, TRUE)
      BY <1>12, <3>1 DEF Ring
    <3>3. Filled(k, j, k.arrived + 1, full) /\ j.arrived = k.arrived + 1
      BY <1>7, <2>4, <2>5
    <3>. QED BY <2>3, <2>4, <3>2, <3>3, StepFilled
  <2>7. (Reading(r) => LineOk(r, j, g, o, Ring(s))) /\ j.lost - j.dropped = sock[s].lost - sock[s].dropped /\ j.dropped >= sock[s].dropped
    <3>1. Ring(s) = TRUE
      BY <1>12 DEF Ring
    <3>2. j.lost = sock[s].lost /\ j.dropped = sock[s].dropped
      BY <1>1, <2>4
    <3>3. j.dropped >= sock[s].dropped
      BY <1>1, <1>3, <2>4
    <3>. QED BY <2>6, <3>1, <3>2, <3>3
  <2>. QED BY <2>3, <2>7, <1>4, <1>11, <1>11a, <1>11b, OneStep
<1>13. CASE ~ Ring(s) /\ Len(k.queue) < QueueCap
  <2>1. PICK t \in Seq(Nat) : t = Append(k.queue, x)
    BY <1>3, AppendProperties
  <2>2. j = [k EXCEPT !.arrived = x, !.queue = t]
    BY <1>10, <1>13, <2>1
  <2>3. j \in SockState /\ j.arrived = x /\ j.queue = t /\ j.dropped = k.dropped /\ j.lost = k.lost
    BY <2>2 DEF SockState
  <2>4. Reading(r) => LineOk(r, j, g, o, FALSE)
    <3> SUFFICES ASSUME Reading(r) PROVE LineOk(r, j, g, o, FALSE)
      OBVIOUS
    <3>1. LineOk(r, k, g, o, Ring(s))
      BY <1>1, <1>2, CaptureIs
    <3>2. LineOk(r, k, g, o, FALSE)
      BY <1>13, <3>1 DEF Ring
    <3>3. j.arrived = k.arrived + 1 /\ j.queue = Append(k.queue, k.arrived + 1)
      BY <1>7, <2>1, <2>3
    <3>. QED BY <2>3, <3>2, <3>3, StepQueued
  <2>5. (Reading(r) => LineOk(r, j, g, o, Ring(s))) /\ j.lost - j.dropped = sock[s].lost - sock[s].dropped /\ j.dropped >= sock[s].dropped
    <3>1. Ring(s) = FALSE
      BY <1>13 DEF Ring
    <3>2. j.lost = sock[s].lost /\ j.dropped = sock[s].dropped
      BY <1>1, <2>3
    <3>3. j.dropped >= sock[s].dropped
      BY <1>1, <1>3, <2>3
    <3>. QED BY <2>4, <3>1, <3>2, <3>3
  <2>. QED BY <2>3, <2>5, <1>4, <1>11, <1>11a, <1>11b, OneStep
<1>14. CASE ~ (Ring(s) /\ ~ b.user) /\ ~ (~ Ring(s) /\ Len(k.queue) < QueueCap)
  <2>1. j = [k EXCEPT !.arrived = x, !.lost = @ + 1, !.dropped = @ + 1]
    BY <1>10, <1>14
  <2>1a. PICK y \in Nat, z \in Nat : y = k.lost + 1 /\ z = k.dropped + 1
    <3>1. k.lost + 1 \in Nat /\ k.dropped + 1 \in Nat
      BY <1>3
    <3>. QED BY <3>1, Zenon
  <2>1b. j = [k EXCEPT !.arrived = x, !.lost = y, !.dropped = z]
    BY <2>1, <2>1a
  <2>1c. /\ j \in SockState /\ j.arrived = x /\ j.dropped = z /\ j.lost = y
         /\ j.queue = k.queue /\ j.blocks = k.blocks /\ j.fill = k.fill
    BY <2>1b DEF SockState
  <2>2. /\ j \in SockState /\ j.arrived = x /\ j.dropped = k.dropped + 1 /\ j.lost = k.lost + 1
        /\ j.queue = k.queue /\ j.blocks = k.blocks /\ j.fill = k.fill
    BY <2>1a, <2>1c
  <2>3. Reading(r) => LineOk(r, j, g, o, Ring(s))
    <3> SUFFICES ASSUME Reading(r) PROVE LineOk(r, j, g, o, Ring(s))
      OBVIOUS
    <3>1. PICK ring \in BOOLEAN : ring = Ring(s)
      BY DEF Ring
    <3>2. LineOk(r, k, g, o, ring)
      BY <1>1, <1>2, <3>1, CaptureIs
    <3>3. j.arrived = k.arrived + 1
      BY <1>7, <2>2
    <3>4. LineOk(r, j, g, o, ring)
      BY <2>2, <3>2, <3>3, StepLost
    <3>. QED BY <3>1, <3>4
  <2>4. j.lost - j.dropped = sock[s].lost - sock[s].dropped /\ j.dropped >= sock[s].dropped
    <3>1. PICK a \in Nat, d \in Nat : a = k.lost /\ d = k.dropped
      BY <1>3
    <3>2. j.lost = a + 1 /\ j.dropped = d + 1 /\ sock[s].lost = a /\ sock[s].dropped = d
      BY <1>1, <2>2, <3>1
    <3>3. (a + 1) - (d + 1) = a - d /\ d + 1 >= d
      OBVIOUS
    <3>. QED BY <3>2, <3>3
  <2>. QED BY <2>2, <2>3, <2>4, <1>4, <1>11, <1>11a, <1>11b, OneStep
<1>. QED BY <1>12, <1>13, <1>14

LEMMA RetireKeeps ==
    ASSUME CaptureInv, NEW s \in Captures, Retire(s)
    PROVE  CaptureInv'
<1>1. PICK r \in SourceState, k \in SockState : r = src[s] /\ k = sock[s]
  BY CaptureIs
<1>2. PICK o \in Seq(Nat), g \in Seq(Nat) : o = out[s] /\ g = got[s]
  BY CaptureIs
<1>3. /\ k.arrived \in Nat /\ k.lost \in Nat /\ k.dropped \in Nat
      /\ k.blocks \in [0..(Blocks - 1) -> BlockState] /\ k.fill \in 0..(Blocks - 1)
  BY DEF SockState
<1>4. /\ Blocks \in Nat \ {0} /\ sock \in [Captures -> SockState] /\ UNCHANGED <<src, fdOf, out, got, poll, retired>>
      /\ Ring(s) = TRUE /\ ~ k.blocks[k.fill].user
  BY <1>1, CaptureAssumption DEF CaptureInv, CaptureTypes, Retire, Ring
<1>5. PICK b \in BlockState : b = k.blocks[k.fill]
  BY <1>3
<1>6. PICK c \in BlockState : c = [b EXCEPT !.user = TRUE]
  BY DEF BlockState
<1>7. PICK f \in 0..(Blocks - 1) : f = (k.fill + 1) % Blocks
  BY <1>3, <1>4
<1>8. PICK j : j = [k EXCEPT !.fill = f, !.blocks = [k.blocks EXCEPT ![k.fill] = c]]
  OBVIOUS
<1>9. sock' = [sock EXCEPT ![s] = j]
  <2>1. sock' = [sock EXCEPT ![s] = [k EXCEPT !.blocks[k.fill].user = TRUE, !.fill = (@ + 1) % Blocks]]
    BY <1>1 DEF Retire
  <2>2. [k EXCEPT !.blocks[k.fill].user = TRUE, !.fill = (@ + 1) % Blocks] = j
    BY <1>3, <1>5, <1>6, <1>7, <1>8
  <2>. QED BY <2>1, <2>2
<1>10. [k.blocks EXCEPT ![k.fill] = c] \in [0..(Blocks - 1) -> BlockState]
  BY <1>3
<1>11. j \in SockState
  BY <1>8, <1>10 DEF SockState
<1>12. /\ j.arrived = k.arrived /\ j.dropped = k.dropped /\ j.lost = k.lost /\ j.fill = (k.fill + 1) % Blocks
       /\ j.blocks = [k.blocks EXCEPT ![k.fill] = c]
  BY <1>7, <1>8 DEF SockState
<1>13. /\ j.blocks[k.fill].user
       /\ \A i \in 0..(Blocks - 1) : /\ j.blocks[i].num = k.blocks[i].num /\ j.blocks[i].frames = k.blocks[i].frames
                                     /\ i # k.fill => j.blocks[i].user = k.blocks[i].user
  <2>1. j.blocks[k.fill] = c /\ \A i \in 0..(Blocks - 1) : i # k.fill => j.blocks[i] = k.blocks[i]
    BY <1>3, <1>12
  <2>2. c.user /\ c.num = b.num /\ c.frames = b.frames
    BY <1>6 DEF BlockState
  <2>. QED BY <1>5, <2>1, <2>2
<1>14. Reading(r) => LineOk(r, j, g, o, Ring(s))
  <2> SUFFICES ASSUME Reading(r) PROVE LineOk(r, j, g, o, TRUE)
    BY <1>4
  <2>1. LineOk(r, k, g, o, Ring(s))
    BY <1>1, <1>2, CaptureIs
  <2>2. LineOk(r, k, g, o, TRUE)
    BY <1>4, <2>1
  <2>. QED BY <1>4, <1>11, <1>12, <1>13, <2>2, StepRetire
<1>15. j.lost - j.dropped = sock[s].lost - sock[s].dropped /\ j.dropped >= sock[s].dropped
  BY <1>1, <1>3, <1>12
<1>16. src' = [src EXCEPT ![s] = r] /\ out' = [out EXCEPT ![s] = o] /\ got' = [got EXCEPT ![s] = g]
  BY <1>1, <1>2, <1>4 DEF CaptureInv, CaptureTypes
<1>17. SameAccount(src[s], r) /\ SamePhase(src[s], r)
  BY <1>1 DEF SameAccount, SamePhase
<1>. QED BY <1>4, <1>9, <1>11, <1>14, <1>15, <1>16, <1>17, OneStep

\* A step of one capture that moves no frame.
LEMMA NoFrameMoves ==
    ASSUME CaptureTypes, LinesOk, NEW s \in Captures, NEW q \in SourceState, src' = [src EXCEPT ![s] = q],
           UNCHANGED <<sock, out, got>>, fdOf' \in [Fds -> Captures \cup {NoFd}], poll' \in Captures \cup {NoFd},
           retired' \in [packets : Nat, drops : Nat],
           Reading(q) => /\ Reading(src[s]) /\ SamePlace(src[s], q)
                         /\ Walking(q) <=> Walking(src[s])
                         /\ q.pc = "emit" <=> src[s].pc = "emit"
    PROVE  CaptureTypes' /\ LinesOk'
<1>1. PICK r \in SourceState, k \in SockState : r = src[s] /\ k = sock[s]
  BY DEF CaptureTypes
<1>2. PICK o, g : o = out[s] /\ g = got[s]
  OBVIOUS
<1>3. PICK ring \in BOOLEAN : ring = Ring(s)
  BY DEF Ring
<1>4. src'[s] = q /\ \A t \in Captures : t # s => src'[t] = src[t]
  BY DEF CaptureTypes
<1>5. ASSUME Reading(q) PROVE LineOk(q, k, g, o, ring)
  <2>1. Reading(r) /\ SamePlace(r, q) /\ (Walking(q) <=> Walking(r)) /\ (q.pc = "emit" <=> r.pc = "emit")
    BY <1>1, <1>5
  <2>2. LineOk(r, k, g, o, ring)
    BY <1>1, <1>2, <1>3, <2>1 DEF LinesOk
  <2>. QED BY <2>1, <2>2, StepSame DEF SamePlace
<1>6. Reading(src'[s]) => LineOk(src'[s], sock'[s], got'[s], out'[s], Ring(s))
  BY <1>1, <1>2, <1>3, <1>4, <1>5
<1>7. LinesOk'
  BY <1>4, <1>6, LinesStay
<1>8. CaptureTypes'
  BY DEF CaptureTypes
<1>. QED BY <1>7, <1>8

LEMMA StartKeeps ==
    ASSUME CaptureInv, NEW s \in Captures, Start(s)
    PROVE  CaptureInv'
<1>1. CaptureTypes /\ LinesOk /\ DescriptorsOk(src, fdOf, poll) /\ CountsOk(src, sock, retired.drops)
  BY DEF CaptureInv
<1>2. src[s].pc = "open" /\ UNCHANGED <<sock, fdOf, out, got, poll, retired>>
  BY DEF Start
<1>3. PICK q : q = [src[s] EXCEPT !.pc = "check", !.tracked = s \notin Kept]
  OBVIOUS
<1>4. q \in SourceState
  <2>1. "check" \in Pcs /\ (s \notin Kept) \in BOOLEAN
    BY DEF Pcs
  <2>. QED BY <1>3, <2>1, CaptureIs DEF SourceState
<1>5. q.pc = "check" /\ q.tracked = (s \notin Kept) /\ q.drops = src[s].drops /\ q.fd = src[s].fd /\ SamePlace(src[s], q)
  BY <1>3, CaptureIs DEF SourceState, SamePlace
<1>6. src' = [src EXCEPT ![s] = q]
  BY <1>3 DEF Start
<1>7. src'[s] = q /\ src' \in [Captures -> SourceState] /\ \A t \in Captures : t # s => src'[t] = src[t]
  BY <1>1, <1>4, <1>6 DEF CaptureTypes
<1>8. CaptureTypes' /\ LinesOk'
  <2>1. Reading(src[s]) /\ (Walking(q) <=> Walking(src[s])) /\ (q.pc = "emit" <=> src[s].pc = "emit")
    BY <1>2, <1>5 DEF Reading, Walking
  <2>2. fdOf' \in [Fds -> Captures \cup {NoFd}] /\ poll' \in Captures \cup {NoFd} /\ retired' \in [packets : Nat, drops : Nat]
    BY <1>1, <1>2 DEF CaptureTypes
  <2>. QED BY <1>1, <1>2, <1>4, <1>5, <1>6, <2>1, <2>2, NoFrameMoves
<1>9. src[s].tracked => q.tracked
  BY <1>1, <1>5 DEF CountsOk
<1>10. DescriptorsOk(src', fdOf, poll)
  <2>1. \A t \in Captures : /\ src'[t].fd = src[t].fd /\ (src[t].tracked => src'[t].tracked)
                            /\ (src'[t].pc = "none" <=> src[t].pc = "none")
                            /\ src'[t].pc \notin {"none", "over"} => src[t].pc \notin {"none", "over"}
    BY <1>2, <1>5, <1>7, <1>9
  <2>2. fdOf \in [Fds -> Captures \cup {NoFd}] /\ poll \in Captures \cup {NoFd}
    BY <1>1 DEF CaptureTypes
  <2>. QED BY <1>1, <2>1, <2>2, DescriptorsStay
<1>11. CountsOk(src', sock, retired.drops)
  <2>1. PICK T \in [Captures -> SourceState] : T = src'
    BY <1>7
  <2>2. PICK done : done = retired.drops
    OBVIOUS
  <2>3. q.tracked = src[s].tracked \/ (src[s].drops = 0 /\ s \notin Kept)
    <3>1. CASE s \in Kept
      BY <1>1, <1>4, <1>5, <3>1, CaptureIs DEF CountsOk, SourceState
    <3>2. CASE s \notin Kept
      BY <1>1, <1>2, <3>2 DEF CountsOk
    <3>. QED BY <3>1, <3>2
  <2>4. \A t \in Captures : Alone(T, t) => Alone(src, t)
    <3>1. \A t \in Captures : T[t].fd = src[t].fd
      BY <1>5, <1>7, <2>1
    <3>. QED BY <3>1 DEF Alone
  <2>5. \A t \in Captures : /\ T[t].drops = src[t].drops
                            /\ \/ T[t].tracked = src[t].tracked
                               \/ src[t].drops = 0 /\ t \notin Kept /\ T[t].pc \notin {"none", "open"}
                            /\ T[t].pc = "none" => src[t].pc = "none"
                            /\ T[t].pc \in {"none", "open"} => src[t].pc \in {"none", "open"}
                            /\ KindOf[t] = "bpf" /\ Alone(T, t) => Alone(src, t) \/ src[t].drops = 0
    BY <1>5, <1>7, <2>1, <2>3, <2>4
  <2>6. src \in [Captures -> SourceState] /\ sock \in [Captures -> SockState]
    BY <1>1 DEF CaptureTypes
  <2>7. \A t \in Captures : sock[t].lost - sock[t].dropped = sock[t].lost - sock[t].dropped /\ sock[t].dropped >= sock[t].dropped
    <3>1. \A t \in Captures : sock[t].dropped \in Nat
      BY <2>6 DEF SockState
    <3>. QED BY <3>1
  <2>8. CountsOk(src, sock, done)
    BY <1>1, <2>2
  <2>9. CountsOk(T, sock, done)
    BY <2>5, <2>6, <2>7, <2>8, CountsStay
  <2>. QED BY <2>1, <2>2, <2>9
<1>. QED BY <1>2, <1>8, <1>10, <1>11 DEF CaptureInv

\* A descriptor is let go.
LEMMA LetGo ==
    ASSUME NEW S, NEW T, NEW F \in [Fds -> Captures \cup {NoFd}], NEW who \in Captures \cup {NoFd}, DescriptorsOk(S, F, who),
           NEW s \in Captures, S[s].pc \notin {"none", "over"}, T[s].pc = "over", S[s].fd \in Fds,
           T[s].fd = S[s].fd, T[s].tracked = S[s].tracked, \A t \in Captures : t # s => T[t] = S[t]
    PROVE  DescriptorsOk(T, [F EXCEPT ![S[s].fd] = NoFd], who)
<1>1. PICK n \in Fds : n = S[s].fd
  OBVIOUS
<1>2. PICK G : G = [F EXCEPT ![n] = NoFd]
  OBVIOUS
<1>3. NoFd \notin Captures /\ G[n] = NoFd /\ \A m \in Fds : m # n => G[m] = F[m]
  BY <1>2, CaptureAssumption
<1>4. F[n] = s
  BY <1>1 DEF DescriptorsOk
<1>5. ASSUME NEW t \in Captures PROVE T[t].fd = S[t].fd /\ T[t].tracked = S[t].tracked /\ (T[t].pc = "none" <=> S[t].pc = "none")
  <2>1. CASE t = s
    BY <2>1
  <2>2. CASE t # s
    BY <2>2
  <2>. QED BY <2>1, <2>2
<1>6. ASSUME NEW t \in Captures, T[t].pc \notin {"none", "over"} PROVE G[T[t].fd] = t
  <2>1. t # s /\ S[t].pc \notin {"none", "over"} /\ T[t].fd = S[t].fd
    BY <1>6
  <2>2. F[S[t].fd] = t
    BY <2>1 DEF DescriptorsOk
  <2>3. S[t].fd # n
    BY <1>4, <2>1, <2>2
  <2>4. G[S[t].fd] = F[S[t].fd]
    BY <1>2, <2>3
  <2>. QED BY <2>1, <2>2, <2>4
<1>7. ASSUME NEW m \in Fds, G[m] # NoFd PROVE T[G[m]].fd = m
  <2>1. m # n /\ G[m] = F[m] /\ F[m] \in Captures
    BY <1>3, <1>7
  <2>2. S[F[m]].fd = m
    BY <1>7, <2>1 DEF DescriptorsOk
  <2>. QED BY <1>5, <2>1, <2>2
<1>8. DescriptorsOk(T, G, who)
  BY <1>5, <1>6, <1>7 DEF DescriptorsOk
<1>. QED BY <1>1, <1>2, <1>8

\* A number is taken by a source.
LEMMA Taken ==
    ASSUME NEW S, NEW T, NEW F \in [Fds -> Captures \cup {NoFd}], NEW G, NEW who \in Captures \cup {NoFd}, DescriptorsOk(S, F, who),
           NEW s \in Captures, NEW n \in Fds, F[n] = NoFd, G[n] = s,
           \A m \in Fds : m # n => G[m] = F[m], S[s].pc = "none", T[s].pc = "open", T[s].fd = n,
           \A t \in Captures : S[t].fd \in Fds \cup {NoFd},
           \A t \in Captures : S[t].pc # "none" => SamePlatform(s, t), \A t \in Captures : t # s => T[t] = S[t]
    PROVE  DescriptorsOk(T, G, who)
<1>2. NoFd \notin Captures /\ NoFd \notin Fds /\ G[n] = s /\ \A m \in Fds : m # n => G[m] = F[m]
  BY CaptureAssumption
<1>3. ASSUME NEW t \in Captures PROVE T[t].pc = "none" <=> T[t].fd = NoFd
  BY <1>2 DEF DescriptorsOk
<1>4. ASSUME NEW t \in Captures, T[t].pc \notin {"none", "over"} PROVE G[T[t].fd] = t
  <2>1. CASE t = s
    BY <1>2, <2>1
  <2>2. CASE t # s
    <3>1. T[t] = S[t] /\ F[S[t].fd] = t
      BY <1>4, <2>2 DEF DescriptorsOk
    <3>2. S[t].fd # n
      BY <1>2, <3>1
    <3>3. T[t].fd \in Fds
      BY <1>3, <1>4, <3>1
    <3>. QED BY <1>2, <3>1, <3>2, <3>3
  <2>. QED BY <2>1, <2>2
<1>5. ASSUME NEW m \in Fds, G[m] # NoFd PROVE T[G[m]].fd = m
  <2>1. CASE m = n
    BY <1>2, <2>1
  <2>2. CASE m # n
    <3>1. G[m] = F[m] /\ F[m] \in Captures /\ S[F[m]].fd = m
      BY <1>2, <1>5, <2>2 DEF DescriptorsOk
    <3>2. S[s].fd = NoFd
      BY DEF DescriptorsOk
    <3>3. F[m] # s
      BY <1>2, <3>1, <3>2
    <3>. QED BY <3>1, <3>3
  <2>. QED BY <2>1, <2>2
<1>6. ASSUME NEW t \in Captures, NEW u \in Captures, T[t].pc # "none", T[u].pc # "none" PROVE SamePlatform(t, u)
  <2>1. \A v \in Captures : v = s \/ S[v].pc = T[v].pc
    OBVIOUS
  <2>2. CASE t = s
    BY <1>6, <2>1, <2>2 DEF SamePlatform
  <2>3. CASE t # s
    <3>1. CASE u = s
      BY <1>6, <2>1, <2>3, <3>1 DEF SamePlatform
    <3>2. CASE u # s
      BY <1>6, <2>1, <2>3, <3>2 DEF DescriptorsOk
    <3>. QED BY <3>1, <3>2
  <2>. QED BY <2>2, <2>3
<1>7. who # NoFd => T[who].pc # "none" /\ (who \in Kept \/ T[who].tracked)
  <2> SUFFICES ASSUME who # NoFd PROVE T[who].pc # "none" /\ (who \in Kept \/ T[who].tracked)
    OBVIOUS
  <2>1. S[who].pc # "none" /\ (who \in Kept \/ S[who].tracked) /\ who \in Captures
    BY DEF DescriptorsOk
  <2>2. T[who] = S[who]
    BY <2>1
  <2>. QED BY <2>1, <2>2
<1>8. DescriptorsOk(T, G, who)
  BY <1>3, <1>4, <1>5, <1>6, <1>7 DEF DescriptorsOk
<1>. QED BY <1>8

\* What a source is when its number and its phase are all that changes.
LEMMA CountsOfPhase ==
    ASSUME CaptureTypes, CountsOk(src, sock, retired.drops), NEW s \in Captures, NEW q \in SourceState, src' = [src EXCEPT ![s] = q],
           q.drops = src[s].drops, q.tracked = src[s].tracked, q.pc = "none" => src[s].pc = "none",
           q.pc \in {"none", "open"} => src[s].pc \in {"none", "open"},
           q.fd = src[s].fd \/ \A t \in Captures : src[t].fd = NoFd => src[t].drops = 0, src[s].fd = NoFd \/ q.fd = src[s].fd
    PROVE  CountsOk(src', sock, retired.drops)
<1>1. /\ src \in [Captures -> SourceState] /\ src' \in [Captures -> SourceState] /\ sock \in [Captures -> SockState]
      /\ src'[s] = q /\ \A t \in Captures : t # s => src'[t] = src[t]
  BY DEF CaptureTypes
<1>2. PICK T \in [Captures -> SourceState] : T = src'
  BY <1>1
<1>3. PICK done : done = retired.drops
  OBVIOUS
<1>4. CountsOk(src, sock, done)
  BY <1>3
<1>5. ASSUME NEW t \in Captures, Alone(T, t) PROVE Alone(src, t) \/ src[t].drops = 0
  <2>1. CASE q.fd = src[s].fd
    <3>1. \A u \in Captures : T[u].fd = src[u].fd
      BY <1>1, <1>2, <2>1
    <3>. QED BY <1>5, <3>1 DEF Alone
  <2>2. CASE q.fd # src[s].fd
    <3>1. src[s].fd = NoFd /\ \A u \in Captures : src[u].fd = NoFd => src[u].drops = 0
      BY <2>2
    <3>2. CASE src[t].fd = NoFd
      BY <3>1, <3>2
    <3>3. CASE src[t].fd # NoFd
      <4>1. t # s /\ T[t].fd = src[t].fd
        BY <1>1, <1>2, <3>1, <3>3
      <4>2. \A u \in Captures \ {t} : src[u].fd # src[t].fd
        <5> SUFFICES ASSUME NEW u \in Captures \ {t}, src[u].fd = src[t].fd PROVE FALSE
          OBVIOUS
        <5>1. u # s
          BY <3>1, <3>3
        <5>2. T[u].fd = src[u].fd
          BY <1>1, <1>2, <5>1
        <5>. QED BY <1>5, <4>1, <5>2 DEF Alone
      <4>. QED BY <4>2 DEF Alone
    <3>. QED BY <3>2, <3>3
  <2>. QED BY <2>1, <2>2
<1>6. \A t \in Captures : /\ T[t].drops = src[t].drops
                          /\ \/ T[t].tracked = src[t].tracked
                             \/ src[t].drops = 0 /\ t \notin Kept /\ T[t].pc \notin {"none", "open"}
                          /\ T[t].pc = "none" => src[t].pc = "none"
                          /\ T[t].pc \in {"none", "open"} => src[t].pc \in {"none", "open"}
                          /\ KindOf[t] = "bpf" /\ Alone(T, t) => Alone(src, t) \/ src[t].drops = 0
  <2> SUFFICES ASSUME NEW t \in Captures
               PROVE      /\ T[t].drops = src[t].drops
                          /\ \/ T[t].tracked = src[t].tracked
                             \/ src[t].drops = 0 /\ t \notin Kept /\ T[t].pc \notin {"none", "open"}
                          /\ T[t].pc = "none" => src[t].pc = "none"
                          /\ T[t].pc \in {"none", "open"} => src[t].pc \in {"none", "open"}
                          /\ KindOf[t] = "bpf" /\ Alone(T, t) => Alone(src, t) \/ src[t].drops = 0
    OBVIOUS
  <2>1. T[t] = src[t] \/ (t = s /\ T[t] = q)
    BY <1>1, <1>2
  <2>. QED BY <1>5, <2>1
<1>7. \A t \in Captures : sock[t].lost - sock[t].dropped = sock[t].lost - sock[t].dropped /\ sock[t].dropped >= sock[t].dropped
  <2>1. \A t \in Captures : sock[t].dropped \in Nat
    BY <1>1 DEF SockState
  <2>. QED BY <2>1
<1>8. src \in [Captures -> SourceState] /\ sock \in [Captures -> SockState]
  BY <1>1
<1>9. CountsOk(T, sock, done)
  BY <1>4, <1>6, <1>7, <1>8, CountsStay
<1>. QED BY <1>2, <1>3, <1>9

LEMMA OpenKeeps ==
    ASSUME CaptureInv, NEW s \in Captures, Open(s)
    PROVE  CaptureInv'
<1>1. CaptureTypes /\ LinesOk /\ DescriptorsOk(src, fdOf, poll) /\ CountsOk(src, sock, retired.drops)
  BY DEF CaptureInv
<1>2. src[s].pc = "none" /\ FreeFds(s) # {} /\ UNCHANGED <<sock, out, got, poll, retired>>
  BY DEF Open
<1>3. PICK n : n = Min(FreeFds(s))
  OBVIOUS
<1>4. n \in Fds /\ fdOf[n] = NoFd
  <2>1. FreeFds(s) \subseteq Nat
    BY CaptureAssumption DEF FreeFds
  <2>2. \E x \in FreeFds(s) : \A y \in FreeFds(s) : x <= y
    BY <1>2, <2>1, LeastOf
  <2>3. n \in FreeFds(s)
    BY <1>3, <2>2 DEF Min
  <2>. QED BY <2>3 DEF FreeFds
<1>5. PICK q : q = [src[s] EXCEPT !.pc = "open", !.fd = n]
  OBVIOUS
<1>6. q \in SourceState
  <2>1. "open" \in Pcs
    BY DEF Pcs
  <2>. QED BY <1>4, <1>5, <2>1, CaptureIs DEF SourceState
<1>7. q.pc = "open" /\ q.fd = n /\ q.drops = src[s].drops /\ q.tracked = src[s].tracked /\ SamePlace(src[s], q)
  BY <1>5, CaptureIs DEF SourceState, SamePlace
<1>8. src' = [src EXCEPT ![s] = q] /\ fdOf' = [fdOf EXCEPT ![n] = s]
  BY <1>3, <1>5 DEF Open
<1>9. /\ fdOf \in [Fds -> Captures \cup {NoFd}] /\ poll \in Captures \cup {NoFd}
      /\ src \in [Captures -> SourceState] /\ retired \in [packets : Nat, drops : Nat]
  BY <1>1 DEF CaptureTypes
<1>10. src'[s] = q /\ \A t \in Captures : t # s => src'[t] = src[t]
  BY <1>8, <1>9
<1>11. CaptureTypes' /\ LinesOk'
  <2>1. Reading(src[s]) /\ (Walking(q) <=> Walking(src[s])) /\ (q.pc = "emit" <=> src[s].pc = "emit")
    BY <1>2, <1>7 DEF Reading, Walking
  <2>2. fdOf' \in [Fds -> Captures \cup {NoFd}] /\ poll' \in Captures \cup {NoFd} /\ retired' \in [packets : Nat, drops : Nat]
    BY <1>2, <1>8, <1>9
  <2>. QED BY <1>1, <1>2, <1>6, <1>7, <1>8, <2>1, <2>2, NoFrameMoves
<1>12. DescriptorsOk(src', fdOf', poll)
  <2>1. \A t \in Captures : src[t].pc # "none" => SamePlatform(s, t)
    BY DEF Open
  <2>2. PICK T : T = src'
    OBVIOUS
  <2>3. T[s].pc = "open" /\ T[s].fd = n /\ \A t \in Captures : t # s => T[t] = src[t]
    BY <1>7, <1>10, <2>2
  <2>4. DescriptorsOk(src, fdOf, poll) /\ fdOf \in [Fds -> Captures \cup {NoFd}] /\ poll \in Captures \cup {NoFd}
    BY <1>1, <1>9
  <2>5. n \in Fds /\ fdOf[n] = NoFd /\ src[s].pc = "none"
    BY <1>2, <1>4
  <2>6. PICK G : G = fdOf'
    OBVIOUS
  <2>7. G[n] = s /\ \A m \in Fds : m # n => G[m] = fdOf[m]
    BY <1>4, <1>8, <1>9, <2>6
  <2>8. \A t \in Captures : src[t].fd \in Fds \cup {NoFd}
    BY <1>9 DEF SourceState
  <2>9. DescriptorsOk(T, G, poll)
    BY <2>1, <2>3, <2>4, <2>5, <2>7, <2>8, Taken
  <2>. QED BY <2>2, <2>6, <2>9
<1>13. CountsOk(src', sock, retired.drops)
  <2>1. \A t \in Captures : src[t].fd = NoFd => src[t].drops = 0
    BY <1>1 DEF DescriptorsOk, CountsOk
  <2>2. src[s].fd = NoFd
    BY <1>1, <1>2 DEF DescriptorsOk
  <2>3. (q.pc = "none" => src[s].pc = "none") /\ (q.pc \in {"none", "open"} => src[s].pc \in {"none", "open"})
    BY <1>2, <1>7
  <2>. QED BY <1>1, <1>6, <1>7, <1>8, <2>1, <2>2, <2>3, CountsOfPhase
<1>. QED BY <1>2, <1>11, <1>12, <1>13 DEF CaptureInv

LEMMA LeaveKeeps ==
    ASSUME CaptureInv, NEW s \in Captures, Leave(s)
    PROVE  CaptureInv'
<1>1. CaptureTypes /\ LinesOk /\ DescriptorsOk(src, fdOf, poll) /\ CountsOk(src, sock, retired.drops)
  BY DEF CaptureInv
<1>2. src[s].pc = "leave" /\ UNCHANGED <<sock, out, got, poll, retired>>
  BY DEF Leave
<1>3. PICK q : q = [src[s] EXCEPT !.pc = "over", !.hand = NoFd, !.buf = <<>>, !.left = 0]
  OBVIOUS
<1>4. q \in SourceState
  <2>1. "over" \in Pcs /\ NoFd \in Nat /\ <<>> \in Seq(Nat)
    BY EmptySeq DEF Pcs, NoFd
  <2>. QED BY <1>3, <2>1, CaptureIs DEF SourceState
<1>5. q.pc = "over" /\ q.fd = src[s].fd /\ q.drops = src[s].drops /\ q.tracked = src[s].tracked
  BY <1>3, CaptureIs DEF SourceState
<1>6. src' = [src EXCEPT ![s] = q] /\ fdOf' = [fdOf EXCEPT ![src[s].fd] = NoFd]
  BY <1>3 DEF Leave
<1>7. /\ fdOf \in [Fds -> Captures \cup {NoFd}] /\ poll \in Captures \cup {NoFd}
      /\ src \in [Captures -> SourceState] /\ retired \in [packets : Nat, drops : Nat]
  BY <1>1 DEF CaptureTypes
<1>8. src'[s] = q /\ \A t \in Captures : t # s => src'[t] = src[t]
  BY <1>6, <1>7
<1>9. src[s].fd \in Fds
  <2>1. src[s].fd # NoFd
    BY <1>1, <1>2 DEF DescriptorsOk
  <2>. QED BY <1>7, <2>1 DEF SourceState
<1>10. CaptureTypes' /\ LinesOk'
  <2>1. ~ Reading(q)
    BY <1>5 DEF Reading
  <2>2. fdOf' \in [Fds -> Captures \cup {NoFd}] /\ poll' \in Captures \cup {NoFd} /\ retired' \in [packets : Nat, drops : Nat]
    BY <1>2, <1>6, <1>7
  <2>. QED BY <1>1, <1>2, <1>4, <1>6, <2>1, <2>2, NoFrameMoves
<1>11. DescriptorsOk(src', fdOf', poll)
  <2>1. PICK T : T = src'
    OBVIOUS
  <2>2. /\ T[s].pc = "over" /\ T[s].fd = src[s].fd /\ T[s].tracked = src[s].tracked
        /\ \A t \in Captures : t # s => T[t] = src[t]
    BY <1>5, <1>8, <2>1
  <2>3. src[s].pc \notin {"none", "over"}
    BY <1>2
  <2>4. DescriptorsOk(T, [fdOf EXCEPT ![src[s].fd] = NoFd], poll)
    BY <1>1, <1>7, <1>9, <2>2, <2>3, LetGo
  <2>. QED BY <1>6, <2>1, <2>4
<1>12. CountsOk(src', sock, retired.drops)
  BY <1>1, <1>4, <1>5, <1>6, CountsOfPhase
<1>. QED BY <1>2, <1>10, <1>11, <1>12 DEF CaptureInv

LEMMA CloseKeeps ==
    ASSUME CaptureInv, NEW s \in Captures, Close(s)
    PROVE  CaptureInv'
<1>1. CaptureTypes /\ LinesOk /\ DescriptorsOk(src, fdOf, poll) /\ CountsOk(src, sock, retired.drops)
  BY DEF CaptureInv
<1>2. src[s].pc # "none" /\ UNCHANGED <<sock, out, got, poll, retired>>
  BY DEF Close
<1>3. PICK x \in Pcs : x = IF src[s].pc = "open" THEN "over" ELSE src[s].pc
  <2>1. src[s].pc \in Pcs /\ "over" \in Pcs
    BY CaptureIs DEF SourceState, Pcs
  <2>. QED BY <2>1
<1>4. PICK q : q = [src[s] EXCEPT !.closed = TRUE, !.pc = x]
  OBVIOUS
<1>5. q \in SourceState
  BY <1>4, CaptureIs DEF SourceState
<1>6. q.pc = x /\ SameAccount(src[s], q) /\ SamePlace(src[s], q)
  BY <1>4, CaptureIs DEF SourceState, SamePlace, SameAccount
<1>7. src' = [src EXCEPT ![s] = q]
  BY <1>3, <1>4 DEF Close
<1>8. CASE src[s].pc # "open"
  <2>1. x = src[s].pc /\ fdOf' = fdOf
    BY <1>2, <1>3, <1>8 DEF Close, Started
  <2>2. SamePhase(src[s], q) /\ (Reading(q) => Reading(src[s]) /\ (Walking(q) <=> Walking(src[s])) /\ (q.pc = "emit" <=> src[s].pc = "emit"))
    BY <1>6, <2>1 DEF SamePhase, Reading, Walking
  <2>. QED BY <1>2, <1>5, <1>6, <1>7, <2>1, <2>2, QuietStep
<1>9. CASE src[s].pc = "open"
  <2>1. q.pc = "over" /\ fdOf' = [fdOf EXCEPT ![src[s].fd] = NoFd]
    BY <1>3, <1>6, <1>9 DEF Close, Started
  <2>2. /\ fdOf \in [Fds -> Captures \cup {NoFd}] /\ poll \in Captures \cup {NoFd}
        /\ src \in [Captures -> SourceState] /\ retired \in [packets : Nat, drops : Nat]
    BY <1>1 DEF CaptureTypes
  <2>3. src'[s] = q /\ \A t \in Captures : t # s => src'[t] = src[t]
    BY <1>7, <2>2
  <2>4. src[s].fd \in Fds
    <3>1. src[s].fd # NoFd
      BY <1>1, <1>2 DEF DescriptorsOk
    <3>. QED BY <2>2, <3>1 DEF SourceState
  <2>5. CaptureTypes' /\ LinesOk'
    <3>1. ~ Reading(q)
      BY <2>1 DEF Reading
    <3>2. fdOf' \in [Fds -> Captures \cup {NoFd}] /\ poll' \in Captures \cup {NoFd} /\ retired' \in [packets : Nat, drops : Nat]
      BY <1>2, <2>1, <2>2
    <3>. QED BY <1>1, <1>2, <1>5, <1>7, <3>1, <3>2, NoFrameMoves
  <2>6. DescriptorsOk(src', fdOf', poll)
    <3>1. PICK T : T = src'
      OBVIOUS
    <3>2. /\ T[s].pc = "over" /\ T[s].fd = src[s].fd /\ T[s].tracked = src[s].tracked
          /\ \A t \in Captures : t # s => T[t] = src[t]
      BY <1>6, <2>1, <2>3, <3>1 DEF SameAccount
    <3>3. src[s].pc \notin {"none", "over"}
      BY <1>9
    <3>4. DescriptorsOk(T, [fdOf EXCEPT ![src[s].fd] = NoFd], poll)
      BY <1>1, <2>2, <2>4, <3>2, <3>3, LetGo
    <3>. QED BY <2>1, <3>1, <3>4
  <2>7. CountsOk(src', sock, retired.drops)
    <3>1. q.drops = src[s].drops /\ q.tracked = src[s].tracked /\ q.fd = src[s].fd
      BY <1>6 DEF SameAccount
    <3>2. (q.pc = "none" => src[s].pc = "none") /\ (q.pc \in {"none", "open"} => src[s].pc \in {"none", "open"})
      BY <2>1
    <3>. QED BY <1>1, <1>5, <1>7, <3>1, <3>2, CountsOfPhase
  <2>. QED BY <1>2, <2>5, <2>6, <2>7 DEF CaptureInv
<1>. QED BY <1>8, <1>9

LEMMA UntrackKeeps ==
    ASSUME CaptureInv, NEW s \in Captures, Untrack(s)
    PROVE  CaptureInv'
<1>1. CaptureTypes /\ LinesOk /\ DescriptorsOk(src, fdOf, poll) /\ CountsOk(src, sock, retired.drops)
  BY DEF CaptureInv
<1>2. /\ src[s].tracked /\ poll = NoFd /\ UNCHANGED <<sock, fdOf, out, got, poll>>
      /\ retired' = [packets |-> retired.packets + src[s].packets, drops |-> retired.drops + src[s].drops]
  BY DEF Untrack, Added
<1>3. PICK q : q = [src[s] EXCEPT !.tracked = FALSE]
  OBVIOUS
<1>4. q \in SourceState
  BY <1>3, CaptureIs DEF SourceState
<1>5. q.pc = src[s].pc /\ q.fd = src[s].fd /\ q.drops = src[s].drops /\ q.tracked = FALSE /\ SamePlace(src[s], q)
  BY <1>3, CaptureIs DEF SourceState, SamePlace
<1>6. src' = [src EXCEPT ![s] = q]
  BY <1>3 DEF Untrack
<1>7. /\ fdOf \in [Fds -> Captures \cup {NoFd}] /\ poll \in Captures \cup {NoFd}
      /\ src \in [Captures -> SourceState] /\ sock \in [Captures -> SockState] /\ retired \in [packets : Nat, drops : Nat]
  BY <1>1 DEF CaptureTypes
<1>8. src'[s] = q /\ src' \in [Captures -> SourceState] /\ \A t \in Captures : t # s => src'[t] = src[t]
  BY <1>4, <1>6, <1>7
<1>9. CaptureTypes' /\ LinesOk'
  <2>1. retired' \in [packets : Nat, drops : Nat]
    <3>1. retired.packets \in Nat /\ retired.drops \in Nat /\ src[s].packets \in Nat /\ src[s].drops \in Nat
      BY <1>7 DEF SourceState
    <3>2. retired.packets + src[s].packets \in Nat /\ retired.drops + src[s].drops \in Nat
      BY <3>1
    <3>. QED BY <1>2, <3>2
  <2>2. Reading(q) => Reading(src[s]) /\ (Walking(q) <=> Walking(src[s])) /\ (q.pc = "emit" <=> src[s].pc = "emit")
    BY <1>5 DEF Reading, Walking
  <2>3. fdOf' \in [Fds -> Captures \cup {NoFd}] /\ poll' \in Captures \cup {NoFd}
    BY <1>2, <1>7
  <2>4. UNCHANGED <<sock, out, got>>
    BY <1>2
  <2>. QED BY <1>1, <1>4, <1>5, <1>6, <2>1, <2>2, <2>3, <2>4, NoFrameMoves
<1>10. DescriptorsOk(src', fdOf, poll)
  <2>1. \A t \in Captures : src'[t].fd = src[t].fd /\ src'[t].pc = src[t].pc
    BY <1>5, <1>8
  <2>. QED BY <1>1, <1>2, <1>7, <2>1, CaptureAssumption DEF DescriptorsOk
<1>11. CountsOk(src', sock, retired'.drops)
  <2>1. PICK T \in [Captures -> SourceState] : T = src'
    BY <1>8
  <2>2. \A t \in Captures : T[t].fd = src[t].fd /\ T[t].pc = src[t].pc /\ T[t].drops = src[t].drops
    BY <1>5, <1>8, <2>1
  <2>3. T[s].tracked = FALSE /\ \A t \in Captures : t # s => T[t].tracked = src[t].tracked
    BY <1>5, <1>8, <2>1
  <2>4. Unread(T, sock) = Unread(src, sock) /\ StreamedDrops(T) = StreamedDrops(src)
    BY <2>2 DEF Unread, StreamedDrops
  <2>5. SumFunction(TrackedDrops(T)) = SumFunction(TrackedDrops(src)) + (0 - src[s].drops)
    <3>1. PICK f \in [Captures -> Int] : f = TrackedDrops(src)
      BY <1>7, CountTypes
    <3>2. PICK h \in [Captures -> Int] : h = TrackedDrops(T)
      BY <1>7, CountTypes
    <3>3. f[s] = src[s].drops /\ h[s] = 0 /\ \A t \in Captures : t # s => h[t] = f[t]
      BY <1>2, <2>2, <2>3, <3>1, <3>2 DEF TrackedDrops
    <3>4. IsFiniteSet(Captures) /\ \A t \in Captures : t # s => h[t] = f[t]
      BY <3>3, CaptureAssumption
    <3>5. SumFunction(h) = SumFunction(f) + (h[s] - f[s])
      BY <3>4, SumOfChanged
    <3>. QED BY <3>1, <3>2, <3>3, <3>5
  <2>6. PICK x \in Int : x = SumFunction(TrackedDrops(src))
    <3>1. PICK f \in [Captures -> Int] : f = TrackedDrops(src)
      BY <1>7, CountTypes
    <3>2. SumFunction(f) \in Int
      BY CaptureAssumption, SumIsNumber
    <3>. QED BY <3>1, <3>2
  <2>7. PICK d \in Nat, e \in Nat : d = src[s].drops /\ e = retired.drops
    BY <1>7 DEF SourceState
  <2>8. retired'.drops + SumFunction(TrackedDrops(T)) = SumFunction(StreamedDrops(T))
    <3>1. retired'.drops = e + d
      BY <1>2, <2>7
    <3>2. e + x = SumFunction(StreamedDrops(src))
      BY <1>1, <2>6, <2>7 DEF CountsOk
    <3>3. (e + d) + (x + (0 - d)) = e + x
      OBVIOUS
    <3>. QED BY <2>4, <2>5, <2>6, <2>7, <3>1, <3>2, <3>3
  <2>9. \A t \in Captures : Alone(T, t) => Alone(src, t)
    BY <2>2 DEF Alone
  <2>10. PICK done : done = retired'.drops
    OBVIOUS
  <2>11. /\ \A t \in Captures : T[t].pc = "none" => T[t].drops = 0
         /\ \A t \in Captures \ Kept : T[t].pc \in {"none", "open"} => T[t].drops = 0 /\ ~ T[t].tracked
         /\ \A t \in Captures : KindOf[t] = "bpf" /\ Alone(T, t) => T[t].drops <= sock[t].dropped
    BY <1>1, <2>2, <2>3, <2>9 DEF CountsOk
  <2>12. \A t \in Kept : ~ T[t].tracked
    BY <1>1, <2>3, CaptureAssumption DEF CountsOk
  <2>13. SumFunction(Unread(T, sock)) = 0
    BY <1>1, <2>4 DEF CountsOk
  <2>14. CountsOk(T, sock, done)
    BY <2>8, <2>10, <2>11, <2>12, <2>13 DEF CountsOk
  <2>. QED BY <2>1, <2>10, <2>14
<1>. QED BY <1>2, <1>9, <1>10, <1>11 DEF CaptureInv

LEMMA PollBeginsKeeps ==
    ASSUME CaptureInv, NEW s \in Captures, PollBegins(s)
    PROVE  CaptureInv'
<1>1. CaptureTypes /\ LinesOk /\ DescriptorsOk(src, fdOf, poll) /\ CountsOk(src, sock, retired.drops)
  BY DEF CaptureInv
<1>2. poll' = s /\ src[s].pc # "none" /\ (s \in Kept \/ src[s].tracked) /\ UNCHANGED <<src, sock, fdOf, out, got, retired>>
  BY DEF PollBegins
<1>3. CaptureTypes' /\ LinesOk'
  BY <1>1, <1>2 DEF CaptureTypes, LinesOk, Ring
<1>4. DescriptorsOk(src, fdOf, s)
  BY <1>1, <1>2 DEF DescriptorsOk
<1>. QED BY <1>1, <1>2, <1>3, <1>4 DEF CaptureInv

\* The drops a number stands for go to the source that asked.
DropsMoved(S, K, T, J, p, t) ==
    /\ \A u \in Captures : T[u].fd = S[u].fd /\ T[u].pc = S[u].pc /\ T[u].tracked = S[u].tracked
    /\ \A u \in Captures : J[u].dropped = K[u].dropped /\ (u # p => T[u].drops = S[u].drops) /\ (u # t => J[u].lost = K[u].lost)
    /\ J[t].lost = 0 /\ T[p].drops = IF KindOf[t] = "bpf" THEN K[t].dropped ELSE S[p].drops + K[t].lost

Asks(S, p, t) ==
    SamePlatform(p, t) /\ S[t].fd = S[p].fd /\ S[p].pc # "none" /\ (p \in Kept \/ S[p].tracked)

LEMMA DropsMove ==
    ASSUME NEW S \in [Captures -> SourceState], NEW K \in [Captures -> SockState], NEW done \in Nat, CountsOk(S, K, done),
           NEW p \in Captures, NEW t \in Captures, Asks(S, p, t),
           NEW T \in [Captures -> SourceState], NEW J \in [Captures -> SockState], DropsMoved(S, K, T, J, p, t)
    PROVE  CountsOk(T, J, done)
<1>a. \A u \in Captures : T[u].fd = S[u].fd /\ T[u].pc = S[u].pc /\ T[u].tracked = S[u].tracked
  BY DEF DropsMoved
<1>b. \A u \in Captures : J[u].dropped = K[u].dropped /\ (u # p => T[u].drops = S[u].drops) /\ (u # t => J[u].lost = K[u].lost)
  BY DEF DropsMoved
<1>c. J[t].lost = 0 /\ T[p].drops = IF KindOf[t] = "bpf" THEN K[t].dropped ELSE S[p].drops + K[t].lost
  BY DEF DropsMoved
<1>d. SamePlatform(p, t) /\ S[t].fd = S[p].fd /\ S[p].pc # "none" /\ (p \in Kept \/ S[p].tracked)
  BY DEF Asks
<1>e. \A u \in Captures : /\ T[u].fd = S[u].fd /\ T[u].pc = S[u].pc /\ T[u].tracked = S[u].tracked
                          /\ u # p => T[u].drops = S[u].drops
                          /\ J[u].dropped = K[u].dropped /\ (u # t => J[u].lost = K[u].lost)
  BY <1>a, <1>b
<1>1. \A u \in Captures : S[u].drops \in Nat /\ K[u].lost \in Nat /\ K[u].dropped \in Nat /\ T[u].drops \in Nat
  BY DEF SourceState, SockState
<1>2. /\ Unread(S, K) \in [Captures -> Int] /\ TrackedDrops(S) \in [Captures -> Int] /\ StreamedDrops(S) \in [Captures -> Int]
      /\ Unread(T, J) \in [Captures -> Int] /\ TrackedDrops(T) \in [Captures -> Int] /\ StreamedDrops(T) \in [Captures -> Int]
  BY CountTypes
<1>3. IsFiniteSet(Captures) /\ Kept \subseteq Captures
  BY CaptureAssumption
<1>4. SumFunction(Unread(T, J)) = 0
  <2>1. SumFunction(Unread(S, K)) = 0
    BY DEF CountsOk
  <2>2. CASE KindOf[t] = "bpf"
    <3>1. KindOf[p] = "bpf"
      BY <1>d, <2>2 DEF SamePlatform
    <3>2. Unread(T, J) = Unread(S, K)
      BY <1>e, <2>2, <3>1 DEF Unread
    <3>. QED BY <2>1, <3>2
  <2>3. CASE KindOf[t] # "bpf"
    <3>1. KindOf[p] # "bpf"
      BY <1>d, <2>3 DEF SamePlatform
    <3>2. PICK f \in [Captures -> Int] : f = Unread(S, K)
      BY <1>2
    <3>3. PICK h \in [Captures -> Int] : h = Unread(T, J)
      BY <1>2
    <3>4. PICK n \in Nat : n = K[t].lost
      BY <1>1
    <3>5. PICK e \in [Captures -> Int] : e = [f EXCEPT ![p] = f[p] + n]
      <4>1. f[p] + n \in Int
        OBVIOUS
      <4>. QED BY <4>1
    <3>6. e[p] = f[p] + n /\ \A u \in Captures : u # p => e[u] = f[u]
      BY <3>5
    <3>6a. \A u \in Captures : u # p => e[u] = f[u]
      BY <3>6
    <3>7. SumFunction(e) = SumFunction(f) + (e[p] - f[p])
      BY <1>3, <3>6a, SumOfChanged
    <3>8. \A u \in Captures : /\ f[u] = IF KindOf[u] = "bpf" THEN 0 ELSE S[u].drops + K[u].lost - K[u].dropped
                              /\ h[u] = IF KindOf[u] = "bpf" THEN 0 ELSE T[u].drops + J[u].lost - J[u].dropped
      BY <3>2, <3>3 DEF Unread
    <3>9. \A u \in Captures : u # t => h[u] = e[u]
      <4> SUFFICES ASSUME NEW u \in Captures, u # t PROVE h[u] = e[u]
        OBVIOUS
      <4>1. CASE u = p
        <5>1. PICK a \in Nat, b \in Nat, c \in Nat : a = S[p].drops /\ b = K[p].lost /\ c = K[p].dropped
          BY <1>1
        <5>2. f[p] = a + b - c
          BY <3>1, <3>8, <5>1
        <5>3. T[p].drops = a + n /\ J[p].lost = b /\ J[p].dropped = c
          BY <1>c, <1>e, <2>3, <3>4, <4>1, <5>1
        <5>4. h[p] = (a + n) + b - c
          BY <3>1, <3>8, <5>3
        <5>5. (a + n) + b - c = (a + b - c) + n
          OBVIOUS
        <5>. QED BY <3>6, <4>1, <5>2, <5>4, <5>5
      <4>2. CASE u # p
        <5>1. h[u] = f[u]
          BY <1>e, <3>8, <4>2
        <5>. QED BY <3>6, <4>2, <5>1
      <4>. QED BY <4>1, <4>2
    <3>10. SumFunction(h) = SumFunction(e) + (h[t] - e[t])
      BY <1>3, <3>9, SumOfChanged
    <3>11. h[t] - e[t] = 0 - n
      <4>1. PICK a \in Nat, c \in Nat : a = S[t].drops /\ c = K[t].dropped
        BY <1>1
      <4>2. f[t] = a + n - c
        BY <2>3, <3>4, <3>8, <4>1
      <4>3. CASE t = p
        <5>1. T[t].drops = a + n /\ J[t].lost = 0 /\ J[t].dropped = c
          BY <1>c, <1>e, <2>3, <3>4, <4>1, <4>3
        <5>2. h[t] = (a + n) + 0 - c
          BY <2>3, <3>8, <5>1
        <5>3. e[t] = (a + n - c) + n
          BY <3>6, <4>2, <4>3
        <5>4. ((a + n) + 0 - c) - ((a + n - c) + n) = 0 - n
          OBVIOUS
        <5>. QED BY <5>2, <5>3, <5>4
      <4>4. CASE t # p
        <5>1. T[t].drops = a /\ J[t].lost = 0 /\ J[t].dropped = c
          BY <1>c, <1>e, <4>1, <4>4
        <5>2. h[t] = a + 0 - c
          BY <2>3, <3>8, <5>1
        <5>3. e[t] = a + n - c
          BY <3>6, <4>2, <4>4
        <5>4. (a + 0 - c) - (a + n - c) = 0 - n
          OBVIOUS
        <5>. QED BY <5>2, <5>3, <5>4
      <4>. QED BY <4>3, <4>4
    <3>12. SumFunction(f) = 0
      BY <2>1, <3>2
    <3>13. e[p] - f[p] = n
      BY <3>6
    <3>14. SumFunction(h) = (0 + n) + (0 - n)
      BY <3>7, <3>10, <3>11, <3>12, <3>13
    <3>15. (0 + n) + (0 - n) = 0
      OBVIOUS
    <3>. QED BY <3>3, <3>14, <3>15
  <2>. QED BY <2>2, <2>3
<1>5. done + SumFunction(TrackedDrops(T)) = SumFunction(StreamedDrops(T))
  <2>1. done + SumFunction(TrackedDrops(S)) = SumFunction(StreamedDrops(S))
    BY DEF CountsOk
  <2>2. CASE p \in Kept
    <3>1. ~ S[p].tracked
      BY <2>2 DEF CountsOk
    <3>2. TrackedDrops(T) = TrackedDrops(S)
      <4>1. \A u \in Captures : (IF T[u].tracked THEN T[u].drops ELSE 0) = (IF S[u].tracked THEN S[u].drops ELSE 0)
        BY <1>e, <3>1
      <4>. QED BY <4>1 DEF TrackedDrops
    <3>3. StreamedDrops(T) = StreamedDrops(S)
      <4>1. \A u \in Captures : (IF u \in Kept THEN 0 ELSE T[u].drops) = (IF u \in Kept THEN 0 ELSE S[u].drops)
        BY <1>e, <2>2
      <4>. QED BY <4>1 DEF StreamedDrops
    <3>. QED BY <2>1, <3>2, <3>3
  <2>3. CASE p \notin Kept
    <3>1. S[p].tracked
      BY <1>d, <2>3
    <3>2. PICK f \in [Captures -> Int], h \in [Captures -> Int] : f = TrackedDrops(S) /\ h = TrackedDrops(T)
      BY <1>2
    <3>3. PICK a \in [Captures -> Int], b \in [Captures -> Int] : a = StreamedDrops(S) /\ b = StreamedDrops(T)
      BY <1>2
    <3>4. f[p] = S[p].drops /\ h[p] = T[p].drops /\ a[p] = S[p].drops /\ b[p] = T[p].drops
      BY <1>e, <2>3, <3>1, <3>2, <3>3 DEF TrackedDrops, StreamedDrops
    <3>5. \A u \in Captures : u # p => h[u] = f[u]
      BY <1>e, <3>2 DEF TrackedDrops
    <3>6. \A u \in Captures : u # p => b[u] = a[u]
      BY <1>e, <3>3 DEF StreamedDrops
    <3>7. SumFunction(h) = SumFunction(f) + (h[p] - f[p])
      BY <1>3, <3>5, SumOfChanged
    <3>8. SumFunction(b) = SumFunction(a) + (b[p] - a[p])
      BY <1>3, <3>6, SumOfChanged
    <3>9. SumFunction(f) \in Int
      BY <1>3, SumIsNumber
    <3>10. PICK x \in Int, d \in Int : x = SumFunction(f) /\ d = h[p] - f[p]
      BY <3>9
    <3>11. SumFunction(a) = done + x
      BY <2>1, <3>2, <3>3, <3>10
    <3>12. b[p] - a[p] = d
      BY <3>4, <3>10
    <3>13. SumFunction(h) = x + d /\ SumFunction(b) = (done + x) + d
      BY <3>7, <3>8, <3>10, <3>11, <3>12
    <3>14. done + (x + d) = (done + x) + d
      OBVIOUS
    <3>. QED BY <3>2, <3>3, <3>13, <3>14
  <2>. QED BY <2>2, <2>3
<1>6. \A u \in Captures : KindOf[u] = "bpf" /\ Alone(T, u) => T[u].drops <= J[u].dropped
  <2> SUFFICES ASSUME NEW u \in Captures, KindOf[u] = "bpf", Alone(T, u) PROVE T[u].drops <= J[u].dropped
    OBVIOUS
  <2>1. Alone(S, u)
    BY <1>e DEF Alone
  <2>2. CASE u # p
    <3>1. S[u].drops <= K[u].dropped
      BY <2>1 DEF CountsOk
    <3>. QED BY <1>e, <2>2, <3>1
  <2>3. CASE u = p
    <3>1. t = p
      BY <1>d, <2>1, <2>3 DEF Alone
    <3>2. T[u].drops = K[u].dropped /\ J[u].dropped = K[u].dropped
      BY <1>c, <1>e, <2>3, <3>1
    <3>. QED BY <1>1, <3>2
  <2>. QED BY <2>2, <2>3
<1>7. \A u \in Captures : T[u].pc = "none" => T[u].drops = 0
  BY <1>d, <1>e DEF CountsOk
<1>8. \A u \in Captures \ Kept : T[u].pc \in {"none", "open"} => T[u].drops = 0 /\ ~ T[u].tracked
  <2> SUFFICES ASSUME NEW u \in Captures \ Kept, T[u].pc \in {"none", "open"} PROVE T[u].drops = 0 /\ ~ T[u].tracked
    OBVIOUS
  <2>1. S[u].drops = 0 /\ ~ S[u].tracked
    BY <1>e DEF CountsOk
  <2>2. u # p
    BY <1>d, <2>1
  <2>. QED BY <1>e, <2>1, <2>2
<1>9. \A u \in Kept : ~ T[u].tracked
  BY <1>e, <1>3 DEF CountsOk
<1>. QED BY <1>4, <1>5, <1>6, <1>7, <1>8, <1>9 DEF CountsOk

LEMMA NobodyAsks ==
    ASSUME NEW S, NEW T, NEW F, NEW who, DescriptorsOk(S, F, who), F \in [Fds -> Captures \cup {NoFd}],
           \A u \in Captures : T[u].fd = S[u].fd /\ T[u].pc = S[u].pc
    PROVE  DescriptorsOk(T, F, NoFd)
<1>1. /\ \A u \in Captures : T[u].pc = "none" <=> T[u].fd = NoFd
      /\ \A u \in Captures : T[u].pc \notin {"none", "over"} => F[T[u].fd] = u
      /\ \A n \in Fds : F[n] # NoFd => T[F[n]].fd = n
      /\ \A u, t \in Captures : T[u].pc # "none" /\ T[t].pc # "none" => SamePlatform(u, t)
  BY DEF DescriptorsOk
<1>. QED BY <1>1 DEF DescriptorsOk

LEMMA PollAnsweredKeeps ==
    ASSUME CaptureInv, PollAnswered
    PROVE  CaptureInv'
<1>1. CaptureTypes /\ LinesOk /\ DescriptorsOk(src, fdOf, poll) /\ CountsOk(src, sock, retired.drops)
  BY DEF CaptureInv
<1>2. /\ src \in [Captures -> SourceState] /\ sock \in [Captures -> SockState] /\ fdOf \in [Fds -> Captures \cup {NoFd}]
      /\ out \in [Captures -> Seq(Nat)] /\ got \in [Captures -> Seq(Nat)] /\ retired \in [packets : Nat, drops : Nat]
      /\ poll \in Captures
  BY <1>1 DEF CaptureTypes, PollAnswered
<1>3. NoFd \notin Captures
  BY CaptureAssumption
<1>4. PICK p \in Captures : p = poll /\ src[p].pc # "none" /\ (p \in Kept \/ src[p].tracked)
  BY <1>1, <1>2, <1>3 DEF DescriptorsOk
<1>5. PICK n : n = src[p].fd
  OBVIOUS
<1>6. n \in Fds
  <2>1. n # NoFd
    BY <1>1, <1>4, <1>5 DEF DescriptorsOk
  <2>. QED BY <1>2, <1>5, <2>1 DEF SourceState
<1>7. poll' = NoFd /\ UNCHANGED <<fdOf, out, got, retired>>
  BY DEF PollAnswered
<1>8. DescriptorsOk(src, fdOf, NoFd)
  BY <1>1 DEF DescriptorsOk
<1>9. CASE fdOf[n] = NoFd
  <2>1. UNCHANGED <<src, sock>>
    BY <1>4, <1>5, <1>9 DEF PollAnswered
  <2>2. CaptureTypes' /\ LinesOk'
    BY <1>1, <1>7, <2>1 DEF CaptureTypes, LinesOk, Ring
  <2>3. DescriptorsOk(src', fdOf', poll') /\ CountsOk(src', sock', retired'.drops)
    BY <1>1, <1>7, <1>8, <2>1
  <2>. QED BY <2>2, <2>3 DEF CaptureInv
<1>10. CASE fdOf[n] # NoFd
  <2>1. PICK t \in Captures : t = fdOf[n]
    BY <1>2, <1>6, <1>10
  <2>2. src[t].fd = src[p].fd
    BY <1>1, <1>5, <1>6, <1>10, <2>1 DEF DescriptorsOk
  <2>3. SamePlatform(p, t)
    <3>1. src[t].pc # "none"
      BY <1>1, <1>4, <2>2 DEF DescriptorsOk
    <3>. QED BY <1>1, <1>4, <3>1 DEF DescriptorsOk
  <2>4. PICK d \in Nat : d = Drops(p, t)
    <3>1. sock[t].dropped \in Nat /\ sock[t].lost \in Nat /\ src[p].drops \in Nat
      BY <1>2 DEF SourceState, SockState
    <3>. QED BY <3>1 DEF Drops
  <2>5. src' = [src EXCEPT ![p].drops = d] /\ sock' = [sock EXCEPT ![t].lost = 0]
    BY <1>4, <1>5, <1>10, <2>1, <2>4 DEF PollAnswered
  <2>6. PICK q : q = [src[p] EXCEPT !.drops = d]
    OBVIOUS
  <2>7. PICK j : j = [sock[t] EXCEPT !.lost = 0]
    OBVIOUS
  <2>8. q \in SourceState /\ j \in SockState
    <3>1. src[p] \in SourceState /\ sock[t] \in SockState
      BY <1>2
    <3>. QED BY <2>6, <2>7, <3>1 DEF SourceState, SockState
  <2>9. src' = [src EXCEPT ![p] = q] /\ sock' = [sock EXCEPT ![t] = j]
    BY <2>5, <2>6, <2>7
  <2>10. src' \in [Captures -> SourceState] /\ sock' \in [Captures -> SockState]
    BY <1>2, <2>8, <2>9
  <2>11. PICK T \in [Captures -> SourceState] : T = src'
    BY <2>10
  <2>12. PICK J \in [Captures -> SockState] : J = sock'
    BY <2>10
  <2>13. T[p] = q /\ \A u \in Captures : u # p => T[u] = src[u]
    BY <1>2, <2>9, <2>11
  <2>14. J[t] = j /\ \A u \in Captures : u # t => J[u] = sock[u]
    BY <1>2, <2>9, <2>12
  <2>15. /\ q.fd = src[p].fd /\ q.pc = src[p].pc /\ q.tracked = src[p].tracked /\ q.drops = d
         /\ SamePlace(src[p], q)
    <3>1. src[p] \in SourceState
      BY <1>2
    <3>. QED BY <2>6, <3>1 DEF SourceState, SamePlace
  <2>16. /\ j.lost = 0 /\ j.dropped = sock[t].dropped /\ j.queue = sock[t].queue /\ j.arrived = sock[t].arrived
         /\ j.blocks = sock[t].blocks /\ j.fill = sock[t].fill
    <3>1. sock[t] \in SockState
      BY <1>2
    <3>. QED BY <2>7, <3>1 DEF SockState
  <2>17. CaptureTypes'
    BY <1>2, <1>7, <2>10 DEF CaptureTypes
  <2>18. LinesOk'
    <3>1. ASSUME NEW u \in Captures, Reading(T[u]) PROVE LineOk(T[u], J[u], got[u], out[u], Ring(u))
      <4>1. T[u].pc = src[u].pc /\ SamePlace(src[u], T[u])
        BY <2>13, <2>15 DEF SamePlace
      <4>2. /\ J[u].queue = sock[u].queue /\ J[u].arrived = sock[u].arrived /\ J[u].dropped = sock[u].dropped
            /\ J[u].blocks = sock[u].blocks /\ J[u].fill = sock[u].fill
        BY <2>14, <2>16
      <4>3. PICK r \in SourceState, k \in SockState : r = src[u] /\ k = sock[u]
        BY <1>2
      <4>4. PICK ring \in BOOLEAN : ring = Ring(u)
        BY DEF Ring
      <4>5. LineOk(r, k, got[u], out[u], ring)
        BY <1>1, <3>1, <4>1, <4>3, <4>4 DEF LinesOk, Reading
      <4>6. PICK x \in SourceState, y \in SockState : x = T[u] /\ y = J[u]
        OBVIOUS
      <4>7. (Walking(x) <=> Walking(r)) /\ (x.pc = "emit" <=> r.pc = "emit")
        BY <4>1, <4>3, <4>6 DEF Walking
      <4>8. SamePlace(r, x)
        BY <4>1, <4>3, <4>6
      <4>9. y.queue = k.queue /\ y.arrived = k.arrived /\ y.dropped = k.dropped /\ y.blocks = k.blocks /\ y.fill = k.fill
        BY <4>2, <4>3, <4>6
      <4>10. LineOk(x, y, got[u], out[u], ring)
        BY <4>5, <4>7, <4>8, <4>9, StepSame DEF SamePlace
      <4>. QED BY <4>4, <4>6, <4>10
    <3>. QED BY <1>7, <2>11, <2>12, <3>1 DEF LinesOk, Ring
  <2>19. DescriptorsOk(src', fdOf', poll')
    <3>1. \A u \in Captures : T[u].fd = src[u].fd /\ T[u].pc = src[u].pc /\ T[u].tracked = src[u].tracked
      BY <2>13, <2>15
    <3>2. PICK S : S = src
      OBVIOUS
    <3>3. PICK U : U = src'
      OBVIOUS
    <3>4. DescriptorsOk(S, fdOf, poll)
      BY <1>1, <3>2
    <3>5. \A u \in Captures : U[u].fd = S[u].fd /\ U[u].pc = S[u].pc
      BY <2>11, <3>1, <3>2, <3>3
    <3>6. DescriptorsOk(U, fdOf, NoFd)
      BY <1>2, <3>4, <3>5, NobodyAsks
    <3>. QED BY <1>7, <3>3, <3>6
  <2>20. CountsOk(src', sock', retired'.drops)
    <3>1. PICK done \in Nat : done = retired.drops
      BY <1>2
    <3>2. CountsOk(src, sock, done)
      BY <1>1, <3>1
    <3>3. \A u \in Captures : /\ T[u].fd = src[u].fd /\ T[u].pc = src[u].pc /\ T[u].tracked = src[u].tracked
                              /\ u # p => T[u].drops = src[u].drops
                              /\ J[u].dropped = sock[u].dropped /\ (u # t => J[u].lost = sock[u].lost)
      BY <2>13, <2>14, <2>15, <2>16
    <3>4. J[t].lost = 0
      BY <2>14, <2>16
    <3>5. T[p].drops = IF KindOf[t] = "bpf" THEN sock[t].dropped ELSE src[p].drops + sock[t].lost
      BY <2>4, <2>13, <2>15 DEF Drops
    <3>6. p \in Kept \/ src[p].tracked
      BY <1>4
    <3>7. src[p].pc # "none"
      BY <1>4
    <3>7a. DropsMoved(src, sock, T, J, p, t)
      BY <3>3, <3>4, <3>5 DEF DropsMoved
    <3>7b. Asks(src, p, t)
      BY <2>2, <2>3, <3>6, <3>7 DEF Asks
    <3>7c. src \in [Captures -> SourceState] /\ sock \in [Captures -> SockState]
      BY <1>2
    <3>8. CountsOk(T, J, done)
      BY <3>2, <3>7a, <3>7b, <3>7c, DropsMove
    <3>9. retired'.drops = done
      BY <1>7, <3>1
    <3>. QED BY <2>11, <2>12, <3>8, <3>9
  <2>. QED BY <2>17, <2>18, <2>19, <2>20 DEF CaptureInv
<1>. QED BY <1>9, <1>10

LEMMA NothingHappens ==
    ASSUME CaptureInv, UNCHANGED captureVars
    PROVE  CaptureInv'
<1>1. UNCHANGED <<src, sock, fdOf, out, got, poll, retired>>
  BY DEF captureVars
<1>2. CaptureTypes' /\ LinesOk'
  BY <1>1 DEF CaptureInv, CaptureTypes, LinesOk, Ring
<1>3. DescriptorsOk(src', fdOf', poll') /\ CountsOk(src', sock', retired'.drops)
  BY <1>1 DEF CaptureInv
<1>. QED BY <1>2, <1>3 DEF CaptureInv

LEMMA CapturesKeep == CaptureInv /\ [CaptureNext]_captureVars => CaptureInv'
<1> SUFFICES ASSUME CaptureInv, [CaptureNext]_captureVars PROVE CaptureInv'
  OBVIOUS
<1>1. CASE UNCHANGED captureVars
  BY <1>1, NothingHappens
<1>2. CASE PollAnswered
  BY <1>2, PollAnsweredKeeps
<1>3. ASSUME NEW s \in Captures, ReadLoop(s) PROVE CaptureInv'
  <2>1. CASE Check(s)
    BY <2>1, CheckKeeps
  <2>2. CASE TimesOut(s)
    BY <2>2, TimesOutKeeps
  <2>3. CASE Read(s)
    BY <2>3, ReadKeeps
  <2>4. CASE Ready(s)
    BY <2>4, ReadyKeeps
  <2>5. CASE Walk(s)
    BY <2>5, WalkKeeps
  <2>6. CASE Walked(s)
    BY <2>6, WalkedKeeps
  <2>7. CASE Emit(s)
    BY <2>7, EmitKeeps
  <2>8. CASE Leave(s)
    BY <2>8, LeaveKeeps
  <2>. QED BY <1>3, <2>1, <2>2, <2>3, <2>4, <2>5, <2>6, <2>7, <2>8 DEF ReadLoop
<1>4. ASSUME NEW s \in Captures, Open(s) PROVE CaptureInv'
  BY <1>4, OpenKeeps
<1>5. ASSUME NEW s \in Captures, Start(s) PROVE CaptureInv'
  BY <1>5, StartKeeps
<1>6. ASSUME NEW s \in Captures, ReadFails(s) PROVE CaptureInv'
  BY <1>6, ReadFailsKeeps
<1>7. ASSUME NEW s \in Captures, Arrive(s) PROVE CaptureInv'
  BY <1>7, ArriveKeeps
<1>8. ASSUME NEW s \in Captures, Retire(s) PROVE CaptureInv'
  BY <1>8, RetireKeeps
<1>9. ASSUME NEW s \in Captures, Close(s) PROVE CaptureInv'
  BY <1>9, CloseKeeps
<1>10. ASSUME NEW s \in Captures, CancelCapture(s) PROVE CaptureInv'
  BY <1>10, CancelKeeps
<1>11. ASSUME NEW s \in Captures, Receive(s) PROVE CaptureInv'
  BY <1>11, ReceiveKeeps
<1>12. ASSUME NEW s \in Captures, PollBegins(s) PROVE CaptureInv'
  BY <1>12, PollBeginsKeeps
<1>13. ASSUME NEW s \in Captures, Untrack(s) PROVE CaptureInv'
  BY <1>13, UntrackKeeps
<1>. QED BY <1>1, <1>2, <1>3, <1>4, <1>5, <1>6, <1>7, <1>8, <1>9, <1>10, <1>11, <1>12, <1>13 DEF CaptureNext

\* The three parts of what a run checks, from the invariant.
LEMMA OrderedOnce == CaptureInv => FramesInOrderOnce
<1> SUFFICES ASSUME CaptureInv, NEW s \in Captures, ~ Over(s), src[s].pc # "leave"
             PROVE  /\ \A a \in DOMAIN Line(s) : Rising(Line(s)[a])
                    /\ \A a, b \in DOMAIN Line(s) :
                         a < b => \A x \in Range(Line(s)[a]), y \in Range(Line(s)[b]) : x < y
                    /\ sock[s].arrived = Cardinality(OnLine(Line(s))) + src[s].refused + sock[s].dropped
  BY DEF FramesInOrderOnce
<1>1. PICK r \in SourceState, k \in SockState : r = src[s] /\ k = sock[s]
  BY CaptureIs
<1>2. PICK o, g : o = out[s] /\ g = got[s]
  OBVIOUS
<1>3. PICK ring \in BOOLEAN : ring = Ring(s)
  BY DEF Ring
<1>4. LineOk(r, k, g, o, ring)
  <2>1. Reading(src[s])
    BY DEF Reading, Over
  <2>. QED BY <1>1, <1>2, <1>3, <2>1, CaptureIs
<1>5. PICK L : L = Line(s)
  OBVIOUS
<1>6. L = Lined(r, k, g, o, ring)
  BY <1>1, <1>2, <1>3, <1>5, LineIs
<1>7. PICK n \in Nat : n = Places(ring)
  BY PlacesAre
<1>8. PICK gone \in Nat, top \in Nat, x \in Nat, y \in Nat : gone = x + y /\ top = k.arrived /\ x = r.refused /\ y = k.dropped
  <2>1. r.refused \in Nat /\ k.dropped \in Nat /\ k.arrived \in Nat
    BY DEF SourceState, SockState
  <2>2. r.refused + k.dropped \in Nat
    BY <2>1
  <2>. QED BY <2>1, <2>2
<1>9. Sound(L, n, top, gone)
  BY <1>4, <1>6, <1>7, <1>8 DEF LineOk
<1>10. \A a \in DOMAIN L : Rising(L[a])
  BY <1>9 DEF Sound
<1>11. \A a, b \in DOMAIN L : a < b => \A u \in Range(L[a]), v \in Range(L[b]) : u < v
  BY <1>9 DEF Sound
<1>12. top = Cardinality(OnLine(L)) + x + y
  <2>1. PICK c \in Nat : c = Cardinality(OnLine(L))
    BY <1>9, LineIsFinite
  <2>2. top = c + gone
    BY <1>9, <2>1 DEF Sound
  <2>3. c + (x + y) = c + x + y
    OBVIOUS
  <2>. QED BY <1>8, <2>1, <2>2, <2>3
<1>. QED BY <1>1, <1>5, <1>8, <1>10, <1>11, <1>12

LEMMA CountedOnce == CaptureInv => DropsCountedOnce
BY DEF CaptureInv, CountsOk, DropsCountedOnce, Unread, TrackedDrops, StreamedDrops, Alone

LEMMA OnlyItsOwn == CaptureInv => OwnDescriptor
BY DEF CaptureInv, DescriptorsOk, OwnDescriptor, Opened

\* A source reads and counts its own, for every number of captures, every descriptor number
\* handed out again, and every size of socket, ring and channel: its reader gets each frame once
\* and in order out of Recvfrom's buffer or the ring's shared blocks, a frame that is not on its
\* way was refused or dropped and counted, no drop is counted twice across reads of the kernel's
\* counter, reconnects and retired captures, and no descriptor is used after it was let go
\* (AFPacket, BPFDevice, LiveStreamer.Stats).
THEOREM CapturesReadTheirOwn == CaptureSpec => []FramesAreItsOwn
<1>1. CaptureInv => FramesAreItsOwn
  BY OrderedOnce, CountedOnce, OnlyItsOwn DEF FramesAreItsOwn
<1>. QED BY <1>1, CapturesBegin, CapturesKeep, PTL DEF CaptureSpec
=============================================================================
