---------------------------- MODULE SourcesProofs ----------------------------
(***************************************************************************)
(* Proofs about the sources that hand their packets on through a pipe or a *)
(* connection: a tcpdump child and a SYNPOIP session, for every script,    *)
(* capacity, configuration and disturbance.                                *)
(***************************************************************************)
EXTENDS SensorSession, Subprocess, SequenceTheorems, FiniteSetTheorems, TLAPS

-----------------------------------------------------------------------------
(* Walks.  The items of a queue that are data are those of a numbered list *)
(* (vals), from the number after from up to to; the others count nothing.  *)
(* at is the number reached after each item.                               *)

Walks(at, q, data, vals, from, to) ==
    /\ at \in [0 .. Len(q) -> Nat] /\ at[0] = from /\ at[Len(q)] = to
    /\ \A i, j \in 0 .. Len(q) : i <= j => at[i] <= at[j]
    /\ \A i \in 1 .. Len(q) :
        IF q[i] \in data THEN at[i] = at[i - 1] + 1 /\ q[i] = vals[at[i]] ELSE at[i] = at[i - 1]

Walk(q, data, vals, from, to) == \E at : Walks(at, q, data, vals, from, to)

LEMMA WalkBounds ==
    ASSUME NEW X, NEW q \in Seq(X), NEW data, NEW vals, NEW from, NEW to, Walk(q, data, vals, from, to)
    PROVE  from \in Nat /\ to \in Nat /\ from <= to /\ (q = <<>> => from = to)
<1>1. PICK at : Walks(at, q, data, vals, from, to)
  BY DEF Walk
<1>2. Len(q) \in Nat /\ 0 \in 0 .. Len(q) /\ Len(q) \in 0 .. Len(q) /\ (q = <<>> => Len(q) = 0)
  BY LenProperties, EmptySeq
<1>. QED BY <1>1, <1>2 DEF Walks

LEMMA WalkEmpty ==
    ASSUME NEW data, NEW vals, NEW n \in Nat
    PROVE  Walk(<<>>, data, vals, n, n)
<1> DEFINE at == [i \in {0} |-> n]
<1>1. Len(<<>>) = 0 /\ 0 .. 0 = {0} /\ 1 .. 0 = {}
  BY EmptySeq
<1>2. Walks(at, <<>>, data, vals, n, n)
  BY <1>1 DEF Walks
<1>. QED BY <1>2 DEF Walk

LEMMA WalkAppend ==
    ASSUME NEW X, NEW q \in Seq(X), NEW x \in X, NEW data, NEW vals, NEW from, NEW to,
           Walk(q, data, vals, from, to)
    PROVE  /\ x \notin data => Walk(Append(q, x), data, vals, from, to)
           /\ x \in data /\ x = vals[to + 1] => Walk(Append(q, x), data, vals, from, to + 1)
<1>1. PICK at : Walks(at, q, data, vals, from, to)
  BY DEF Walk
<1> DEFINE n == Len(q)
           r == Append(q, x)
           d == IF x \in data THEN to + 1 ELSE to
           new == [i \in 0 .. n + 1 |-> IF i = n + 1 THEN d ELSE at[i]]
<1>2. n \in Nat /\ Len(r) = n + 1 /\ r[n + 1] = x /\ \A i \in 1 .. n : r[i] = q[i]
  BY LenProperties, AppendProperties
<1>3. to \in Nat /\ d \in Nat /\ to <= d /\ from \in Nat
  BY WalkBounds
<1> HIDE DEF n, r, d
<1>4. at \in [0 .. n -> Nat] /\ at[0] = from /\ at[n] = to
      /\ (\A i, j \in 0 .. n : i <= j => at[i] <= at[j])
      /\ \A i \in 1 .. n :
            IF q[i] \in data THEN at[i] = at[i - 1] + 1 /\ q[i] = vals[at[i]] ELSE at[i] = at[i - 1]
  BY <1>1 DEF Walks, n
<1>5. new \in [0 .. n + 1 -> Nat] /\ new[0] = from /\ new[n + 1] = d
  BY <1>2, <1>3, <1>4
<1>6. \A i, j \in 0 .. n + 1 : i <= j => new[i] <= new[j]
  <2> SUFFICES ASSUME NEW i \in 0 .. n + 1, NEW j \in 0 .. n + 1, i <= j PROVE new[i] <= new[j]
    OBVIOUS
  <2>1. CASE j # n + 1
    <3>1. i \in 0 .. n /\ j \in 0 .. n /\ new[i] = at[i] /\ new[j] = at[j]
      BY <1>2, <2>1
    <3>. QED BY <1>4, <3>1
  <2>2. CASE j = n + 1 /\ i # n + 1
    <3>1. i \in 0 .. n /\ n \in 0 .. n /\ i <= n /\ new[i] = at[i] /\ new[j] = d
      BY <1>2, <2>2
    <3>2. at[i] <= at[n] /\ at[i] \in Nat
      BY <1>4, <3>1
    <3>. QED BY <1>3, <1>4, <3>1, <3>2
  <2>3. CASE j = n + 1 /\ i = n + 1
    BY <1>3, <2>3
  <2>. QED BY <2>1, <2>2, <2>3
<1>7. ASSUME x \in data => x = vals[to + 1], NEW i \in 1 .. n + 1
      PROVE  IF r[i] \in data THEN new[i] = new[i - 1] + 1 /\ r[i] = vals[new[i]] ELSE new[i] = new[i - 1]
  <2>1. CASE i = n + 1
    <3>1. r[i] = x /\ new[i] = d /\ new[i - 1] = at[n]
      BY <1>2, <2>1
    <3>. QED BY <1>4, <1>7, <3>1 DEF d
  <2>2. CASE i # n + 1
    <3>1. i \in 1 .. n /\ i \in 0 .. n + 1 /\ i - 1 \in 0 .. n + 1 /\ i - 1 # n + 1
      BY <1>2, <2>2
    <3>2. r[i] = q[i] /\ new[i] = at[i] /\ new[i - 1] = at[i - 1]
      BY <1>2, <2>2, <3>1
    <3>. QED BY <1>4, <3>1, <3>2
  <2>. QED BY <2>1, <2>2
<1>8. ASSUME x \in data => x = vals[to + 1] PROVE Walk(r, data, vals, from, d)
  <2>1. Walks(new, r, data, vals, from, d)
    BY <1>2, <1>5, <1>6, <1>7, <1>8 DEF Walks
  <2>. QED BY <2>1 DEF Walk
<1>. QED BY <1>8 DEF d, r

LEMMA WalkTail ==
    ASSUME NEW X, NEW q \in Seq(X), q # <<>>, NEW data, NEW vals, NEW from, NEW to,
           Walk(q, data, vals, from, to)
    PROVE  /\ Head(q) \notin data => Walk(Tail(q), data, vals, from, to)
           /\ Head(q) \in data => Walk(Tail(q), data, vals, from + 1, to) /\ Head(q) = vals[from + 1]
<1>1. PICK at : Walks(at, q, data, vals, from, to)
  BY DEF Walk
<1> DEFINE n == Len(q)
           r == Tail(q)
           f == IF Head(q) \in data THEN from + 1 ELSE from
           new == [i \in 0 .. n - 1 |-> at[i + 1]]
<1>2. /\ n \in Nat \ {0} /\ Len(r) = n - 1 /\ \A i \in 1 .. n - 1 : r[i] = q[i + 1]
      /\ Head(q) = q[1]
  BY LenProperties, HeadTailProperties, EmptySeq
<1> HIDE DEF n, r
<1>3. at \in [0 .. n -> Nat] /\ at[0] = from /\ at[n] = to
      /\ (\A i, j \in 0 .. n : i <= j => at[i] <= at[j])
      /\ \A i \in 1 .. n :
            IF q[i] \in data THEN at[i] = at[i - 1] + 1 /\ q[i] = vals[at[i]] ELSE at[i] = at[i - 1]
  BY <1>1 DEF Walks, n
<1>4. at[1] = f /\ (Head(q) \in data => Head(q) = vals[from + 1])
  <2>1. 1 \in 1 .. n /\ 1 - 1 = 0
    BY <1>2
  <2>. QED BY <1>2, <1>3, <2>1
<1> HIDE DEF f
<1>5. new \in [0 .. n - 1 -> Nat] /\ new[0] = f /\ new[n - 1] = to
  <2>1. \A i \in 0 .. n - 1 : i + 1 \in 0 .. n /\ at[i + 1] \in Nat
    BY <1>2, <1>3
  <2>2. 0 \in 0 .. n - 1 /\ n - 1 \in 0 .. n - 1 /\ 0 + 1 = 1 /\ n - 1 + 1 = n
    BY <1>2
  <2>. QED BY <1>3, <1>4, <2>1, <2>2
<1>6. \A i, j \in 0 .. n - 1 : i <= j => new[i] <= new[j]
  <2> SUFFICES ASSUME NEW i \in 0 .. n - 1, NEW j \in 0 .. n - 1, i <= j PROVE new[i] <= new[j]
    OBVIOUS
  <2>1. i + 1 \in 0 .. n /\ j + 1 \in 0 .. n /\ i + 1 <= j + 1
    BY <1>2
  <2>2. at[i + 1] <= at[j + 1]
    BY <1>3, <2>1
  <2>. QED BY <2>2
<1>7. ASSUME NEW i \in 1 .. n - 1
      PROVE  IF r[i] \in data THEN new[i] = new[i - 1] + 1 /\ r[i] = vals[new[i]] ELSE new[i] = new[i - 1]
  <2>1. i + 1 \in 1 .. n /\ i \in 0 .. n - 1 /\ i - 1 \in 0 .. n - 1 /\ i - 1 + 1 = i /\ i + 1 - 1 = i
    BY <1>2
  <2>2. r[i] = q[i + 1] /\ new[i] = at[i + 1] /\ new[i - 1] = at[i]
    BY <1>2, <2>1
  <2> HIDE DEF new
  <2>3. IF q[i + 1] \in data THEN at[i + 1] = at[i + 1 - 1] + 1 /\ q[i + 1] = vals[at[i + 1]]
        ELSE at[i + 1] = at[i + 1 - 1]
    BY <1>3, <2>1
  <2>. QED BY <2>1, <2>2, <2>3
<1>8. Walk(r, data, vals, f, to)
  <2>1. Walks(new, r, data, vals, f, to)
    BY <1>2, <1>5, <1>6, <1>7 DEF Walks
  <2>. QED BY <2>1 DEF Walk
<1>. QED BY <1>4, <1>8 DEF f, r

\* What is cut off the end of a queue leaves a walk that ends earlier.
LEMMA WalkPrefix ==
    ASSUME NEW X, NEW q \in Seq(X), NEW k \in 0 .. Len(q), NEW data, NEW vals, NEW from, NEW to,
           Walk(q, data, vals, from, to)
    PROVE  \E b \in from .. to : Walk(SubSeq(q, 1, k), data, vals, from, b)
<1>1. PICK at : Walks(at, q, data, vals, from, to)
  BY DEF Walk
<1> DEFINE n == Len(q)
           r == SubSeq(q, 1, k)
           new == [i \in 0 .. k |-> at[i]]
<1>2. n \in Nat /\ \A i \in 1 .. n : q[i] \in X
  BY LenProperties, ElementOfSeq
<1>3. Len(r) = k /\ \A i \in 1 .. k : r[i] = q[i]
  <2>1. \A i \in 1 .. k : q[i] \in X
    BY <1>2
  <2>2. /\ Len(r) = (IF 1 <= k THEN k - 1 + 1 ELSE 0)
        /\ \A i \in 1 .. k - 1 + 1 : r[i] = q[1 + i - 1]
    BY <2>1, SubSeqProperties
  <2>3. k \in 0 .. n /\ k - 1 + 1 = k /\ \A i \in 1 .. k : 1 + i - 1 = i
    BY <1>2
  <2> HIDE DEF r
  <2>. QED BY <1>2, <2>2, <2>3
<1> HIDE DEF n, r
<1>4. at \in [0 .. n -> Nat] /\ at[0] = from /\ at[n] = to
      /\ (\A i, j \in 0 .. n : i <= j => at[i] <= at[j])
      /\ \A i \in 1 .. n :
            IF q[i] \in data THEN at[i] = at[i - 1] + 1 /\ q[i] = vals[at[i]] ELSE at[i] = at[i - 1]
  BY <1>1 DEF Walks, n
<1>5. k \in Nat /\ k <= n /\ 0 .. k \subseteq 0 .. n /\ 1 .. k \subseteq 1 .. n
  BY <1>2 DEF n
<1>6. at[k] \in from .. to
  <2>1. 0 \in 0 .. n /\ k \in 0 .. n /\ n \in 0 .. n /\ 0 <= k /\ k <= n
    BY <1>2, <1>5
  <2>2. at[0] <= at[k] /\ at[k] <= at[n] /\ at[0] \in Nat /\ at[k] \in Nat /\ at[n] \in Nat
    BY <1>4, <2>1
  <2>. QED BY <1>4, <2>2
<1>7. new \in [0 .. k -> Nat] /\ new[0] = from /\ new[k] = at[k]
  BY <1>4, <1>5
<1>8. \A i \in 1 .. k : new[i] = at[i] /\ new[i - 1] = at[i - 1]
  BY <1>5
<1>9. Walks(new, r, data, vals, from, at[k])
  BY <1>3, <1>4, <1>5, <1>7, <1>8 DEF Walks
<1>. QED BY <1>6, <1>9 DEF Walk, r

\* A walk reads the list up to its end only.
LEMMA WalkVals ==
    ASSUME NEW X, NEW q \in Seq(X), NEW data, NEW vals, NEW other, NEW from, NEW to,
           Walk(q, data, vals, from, to), \A i \in 1 .. to : other[i] = vals[i]
    PROVE  Walk(q, data, other, from, to)
<1>1. PICK at : Walks(at, q, data, vals, from, to)
  BY DEF Walk
<1>2. Len(q) \in Nat
  BY LenProperties
<1>3. ASSUME NEW i \in 1 .. Len(q), q[i] \in data PROVE at[i] \in 1 .. to
  <2>1. i \in 0 .. Len(q) /\ i - 1 \in 0 .. Len(q) /\ Len(q) \in 0 .. Len(q) /\ i <= Len(q)
    BY <1>2
  <2>2. at[i] <= to /\ at[i] = at[i - 1] + 1 /\ at[i - 1] \in Nat /\ to \in Nat
    BY <1>1, <1>3, <2>1 DEF Walks
  <2>. QED BY <2>2
<1>4. Walks(at, q, data, other, from, to)
  BY <1>1, <1>3 DEF Walks
<1>. QED BY <1>4 DEF Walk

-----------------------------------------------------------------------------
(* The tcpdump child. *)

Rec == {"rec"}
AnyRec == [n \in Nat |-> "rec"]

RunPcs == {"idle", "cancel", "closed?", "start", "header", "record", "send", "waiting", "ended"}
DecErrs == {"none", "foreign", "cancelled", "length", "short"}

\* s is the numbers after from, in order.
Counting(s, from) == s \in Seq(Nat) /\ \A i \in 1 .. Len(s) : s[i] = from + i

InHand == IF run.pc = "send" THEN 1 ELSE 0
Received == Len(taken) + Len(chan) + InHand

SubType ==
    /\ run \in [pc : RunPcs, cancel : {"none", "set", "called"}, decErr : DecErrs,
                err : {"none", "start", "exit", "wait", "foreign", "length", "short"}]
    /\ child \in [state : {"none", "running", "exited", "killed", "reaped"}, code : {0, 1},
                  script : Seq(Items), holder : BOOLEAN, forks : BOOLEAN, delayed : BOOLEAN]
    /\ {closed, stopped, closing} \subseteq BOOLEAN
    /\ pipe \in Seq(Items)
    /\ Counting(written, 0) /\ Counting(taken, 0) /\ Counting(chan, Len(taken))

\* Before an error ends the decoding, the records in the pipe are those nobody has received.
NothingLost == run.decErr = "none" => Walk(pipe, Rec, AnyRec, Received, Len(written))

Drained == pipe = <<>> /\ ~Alive

SubInv ==
    /\ SubType /\ NothingLost
    /\ closing => closed
    /\ run.cancel = "called" => closed
    /\ run.decErr = "cancelled" => closed \/ stopped
    /\ run.pc \notin {"waiting", "ended"} => run.decErr = "none"
    /\ run.pc = "waiting" /\ run.decErr = "none" => Drained
    /\ run.pc = "ended" /\ run.err = "none" /\ ~closed /\ ~stopped => run.decErr = "none" /\ Drained
    /\ Alive => run.pc \notin {"idle", "cancel", "closed?", "start"}
    /\ run.pc = "ended" => ~Alive

LEMMA CountingAppend ==
    ASSUME NEW s, NEW n \in Nat, Counting(s, n)
    PROVE  Counting(Append(s, n + Len(s) + 1), n) /\ Len(Append(s, n + Len(s) + 1)) = Len(s) + 1
<1> DEFINE x == n + Len(s) + 1
           t == Append(s, x)
<1>1. Len(s) \in Nat /\ x \in Nat /\ s \in Seq(Nat)
  BY LenProperties DEF Counting
<1>2. /\ t \in Seq(Nat) /\ Len(t) = Len(s) + 1 /\ t[Len(s) + 1] = x
      /\ \A i \in 1 .. Len(s) : t[i] = s[i]
  BY <1>1, AppendProperties
<1> HIDE DEF t
<1>3. ASSUME NEW i \in 1 .. Len(s) + 1 PROVE t[i] = n + i
  <2>1. CASE i = Len(s) + 1
    BY <1>1, <1>2, <2>1
  <2>2. CASE i # Len(s) + 1
    <3>1. i \in 1 .. Len(s)
      BY <1>1, <2>2
    <3>. QED BY <1>2, <3>1 DEF Counting
  <2>. QED BY <2>1, <2>2
<1>4. Counting(t, n) /\ Len(t) = Len(s) + 1
  BY <1>2, <1>3 DEF Counting
<1>. QED BY <1>4 DEF t

LEMMA CountingTail ==
    ASSUME NEW s, NEW n \in Nat, Counting(s, n), s # <<>>
    PROVE  /\ Head(s) = n + 1 /\ Counting(Tail(s), n + 1) /\ Len(Tail(s)) = Len(s) - 1
           /\ Len(s) \in Nat \ {0}
<1>1. s \in Seq(Nat) /\ Len(s) \in Nat \ {0} /\ Head(s) = s[1]
  BY LenProperties, EmptySeq DEF Counting
<1>2. /\ Tail(s) \in Seq(Nat) /\ Len(Tail(s)) = Len(s) - 1
      /\ \A i \in 1 .. Len(Tail(s)) : Tail(s)[i] = s[i + 1]
  BY <1>1, HeadTailProperties
<1>3. ASSUME NEW i \in 1 .. Len(Tail(s)) PROVE Tail(s)[i] = n + 1 + i
  <2>1. i + 1 \in 1 .. Len(s)
    BY <1>1, <1>2
  <2>2. s[i + 1] = n + (i + 1)
    BY <2>1 DEF Counting
  <2>. QED BY <1>2, <2>2
<1>4. s[1] = n + 1
  BY <1>1 DEF Counting
<1>. QED BY <1>1, <1>2, <1>3, <1>4 DEF Counting

\* Everything received, in order, is the numbers up to their count.
LEMMA CountingAll ==
    ASSUME NEW s, NEW t, NEW u, Counting(s, 0), Counting(t, Len(s)), Counting(u, 0),
           Len(u) = Len(s) + Len(t)
    PROVE  s \o t = u
<1>1. s \in Seq(Nat) /\ t \in Seq(Nat) /\ u \in Seq(Nat) /\ Len(s) \in Nat /\ Len(t) \in Nat
  BY LenProperties DEF Counting
<1> DEFINE c == s \o t
<1>2. /\ c \in Seq(Nat) /\ Len(c) = Len(s) + Len(t)
      /\ \A i \in 1 .. Len(s) + Len(t) : c[i] = IF i <= Len(s) THEN s[i] ELSE t[i - Len(s)]
  BY <1>1, ConcatProperties
<1> HIDE DEF c
<1>3. ASSUME NEW i \in 1 .. Len(c) PROVE c[i] = u[i]
  <2>1. u[i] = i
    BY <1>1, <1>2 DEF Counting
  <2>2. CASE i <= Len(s)
    <3>1. i \in 1 .. Len(s)
      BY <1>1, <1>2, <2>2
    <3>. QED BY <1>1, <1>2, <2>1, <2>2, <3>1 DEF Counting
  <2>3. CASE ~ (i <= Len(s))
    <3>1. i - Len(s) \in 1 .. Len(t) /\ Len(s) + (i - Len(s)) = i
      BY <1>1, <1>2, <2>3
    <3>2. t[i - Len(s)] = Len(s) + (i - Len(s))
      BY <3>1 DEF Counting
    <3>. QED BY <1>2, <2>1, <2>3, <3>1, <3>2
  <2>. QED BY <2>2, <2>3
<1>4. c = u
  BY <1>1, <1>2, <1>3, SeqEqual
<1>. QED BY <1>4 DEF c

LEMMA SubInitInv == SubInit => SubInv
<1> SUFFICES ASSUME SubInit PROVE SubInv
  OBVIOUS
<1>1. /\ run = [pc |-> "idle", cancel |-> "none", decErr |-> "none", err |-> "none"]
      /\ closed = FALSE /\ stopped = FALSE /\ closing = FALSE
      /\ pipe = <<>> /\ written = <<>> /\ chan = <<>> /\ taken = <<>>
  BY DEF SubInit
<1>2. PICK script \in Scripts, holder \in BOOLEAN :
        child = [state |-> "none", code |-> 0, script |-> script, holder |-> FALSE,
                 forks |-> holder, delayed |-> FALSE]
  BY DEF SubInit
<1>3. script \in Seq(Items)
  BY SubprocessAssumption
<1>4. <<>> \in Seq(Items) /\ <<>> \in Seq(Nat) /\ Len(<<>>) = 0 /\ 1 .. 0 = {}
  BY EmptySeq
<1>5. SubType
  BY <1>1, <1>2, <1>3, <1>4 DEF SubType, RunPcs, DecErrs, Counting
<1>6. Walk(<<>>, Rec, AnyRec, 0, 0)
  BY WalkEmpty
<1>7. Received = 0 /\ Len(written) = 0
  BY <1>1, <1>4 DEF Received, InHand
<1>. QED BY <1>1, <1>2, <1>5, <1>6, <1>7 DEF SubInv, NothingLost, Alive

\* What SubInv says of the queues, in the terms its steps need.
LEMMA SubFacts ==
    ASSUME SubInv
    PROVE  /\ pipe \in Seq(Items) /\ Len(taken) \in Nat /\ Len(chan) \in Nat /\ Len(written) \in Nat
           /\ Received \in Nat /\ child.script \in Seq(Items)
<1>1. pipe \in Seq(Items) /\ child.script \in Seq(Items)
      /\ taken \in Seq(Nat) /\ chan \in Seq(Nat) /\ written \in Seq(Nat)
  BY DEF SubInv, SubType, Counting
<1>2. Len(taken) \in Nat /\ Len(chan) \in Nat /\ Len(written) \in Nat
  BY <1>1, LenProperties
<1>. QED BY <1>1, <1>2 DEF Received, InHand

LEMMA WriteInv == ASSUME SubInv, Write PROVE SubInv'
<1> DEFINE x == Head(child.script)
<1>1. /\ Alive /\ child.script # <<>> /\ run.pc # "ended"
      /\ pipe' = Append(pipe, x)
      /\ written' = IF x = "rec" THEN Append(written, Len(written) + 1) ELSE written
      /\ child' = [child EXCEPT !.script = Tail(child.script)]
      /\ UNCHANGED <<run, closed, stopped, closing, chan, taken>>
  BY DEF Write
<1>2. x \in Items /\ Tail(child.script) \in Seq(Items)
  BY <1>1, SubFacts, HeadTailProperties
<1> HIDE DEF x
<1>3. pipe' \in Seq(Items)
  BY <1>1, <1>2, SubFacts, AppendProperties
<1>4. Counting(written', 0) /\ Len(written') = Len(written) + (IF x = "rec" THEN 1 ELSE 0)
  <2>1. Counting(written, 0) /\ Len(written) \in Nat /\ 0 + Len(written) + 1 = Len(written) + 1
    BY SubFacts DEF SubInv, SubType
  <2>2. /\ Counting(Append(written, 0 + Len(written) + 1), 0)
        /\ Len(Append(written, 0 + Len(written) + 1)) = Len(written) + 1
    BY <2>1, CountingAppend
  <2>. QED BY <1>1, <2>1, <2>2
<1>5. SubType'
  BY <1>1, <1>2, <1>3, <1>4 DEF SubInv, SubType
<1>6. NothingLost'
  <2> SUFFICES ASSUME run.decErr = "none" PROVE Walk(pipe', Rec, AnyRec, Received, Len(written'))
    BY <1>1 DEF NothingLost, Received, InHand
  <2>1. Walk(pipe, Rec, AnyRec, Received, Len(written))
    BY DEF SubInv, NothingLost
  <2>2. pipe \in Seq(Items) /\ Len(written) \in Nat /\ AnyRec[Len(written) + 1] = "rec"
    BY SubFacts DEF AnyRec
  <2>3. /\ x \notin Rec => Walk(Append(pipe, x), Rec, AnyRec, Received, Len(written))
        /\ x \in Rec /\ x = AnyRec[Len(written) + 1]
             => Walk(Append(pipe, x), Rec, AnyRec, Received, Len(written) + 1)
    BY <1>2, <2>1, <2>2, WalkAppend
  <2>4. Len(written') = IF x = "rec" THEN Len(written) + 1 ELSE Len(written)
    BY <1>4, <2>2
  <2>. QED BY <1>1, <2>2, <2>3, <2>4 DEF Rec
<1>7. Alive' = Alive
  BY <1>1 DEF SubInv, SubType, Alive
<1>. QED BY <1>1, <1>5, <1>6, <1>7 DEF SubInv, Drained

\* A step of the child, or of the system on its behalf, that touches neither queue.
LEMMA ChildInv ==
    ASSUME SubInv, \/ \E code \in {0, 1} : Exit(code)
                   \/ Kill \/ HolderEnds \/ WaitDelay
    PROVE  SubInv'
<1>1. UNCHANGED <<run, closed, stopped, closing, pipe, written, chan, taken>>
  BY DEF Exit, Kill, HolderEnds, WaitDelay
<1>2. child' \in [state : {"none", "running", "exited", "killed", "reaped"}, code : {0, 1},
                  script : Seq(Items), holder : BOOLEAN, forks : BOOLEAN, delayed : BOOLEAN]
      /\ (Alive' => Alive)
  BY DEF SubInv, SubType, Exit, Kill, HolderEnds, WaitDelay, Alive
<1>. QED BY <1>1, <1>2
         DEF SubInv, SubType, NothingLost, Received, InHand, Drained

\* A step of the goroutine up to the header, or of those that close and stop it.
LEMMA ControlRun ==
    ASSUME SubInv, Packets \/ StoreCancel \/ CheckClosed \/ Spawn \/ CloseSwap \/ CloseCancel \/ Stop
    PROVE  /\ run' \in [pc : RunPcs, cancel : {"none", "set", "called"}, decErr : DecErrs,
                        err : {"none", "start", "exit", "wait", "foreign", "length", "short"}]
           /\ run'.decErr = run.decErr
           /\ run'.pc = run.pc \/ run.pc \in {"idle", "cancel", "closed?", "start"}
           /\ run'.pc = run.pc \/ run'.pc \in {"cancel", "closed?", "start", "header", "ended"}
           /\ run'.pc = "ended" => run.pc = "ended" \/ closed \/ run'.err = "start"
           /\ run'.pc = "ended" /\ run'.pc = run.pc => run'.err = run.err
           /\ (run'.pc = "header" /\ run.pc # "header") \/ child' = child
           /\ run'.cancel = "called" => run.cancel = "called" \/ closing
<1>0. /\ run \in [pc : RunPcs, cancel : {"none", "set", "called"}, decErr : DecErrs,
                  err : {"none", "start", "exit", "wait", "foreign", "length", "short"}]
      /\ {"cancel", "closed?", "start", "header", "ended"} \subseteq RunPcs
  BY DEF SubInv, SubType, RunPcs
<1>1. CASE Packets
  BY <1>0, <1>1 DEF Packets, To
<1>2. CASE StoreCancel
  BY <1>0, <1>2 DEF StoreCancel
<1>3. CASE CheckClosed
  <2>1. run.pc = "closed?" /\ child' = child
        /\ run' = [run EXCEPT !.pc = IF closed THEN "ended" ELSE "start"]
    BY <1>3 DEF CheckClosed, To
  <2>2. run'.pc = (IF closed THEN "ended" ELSE "start") /\ run'.cancel = run.cancel
    BY <1>0, <2>1
  <2>. QED BY <1>0, <2>1, <2>2
<1>4. CASE Spawn
  BY <1>0, <1>4 DEF Spawn, To
<1>5. CASE CloseSwap
  BY <1>0, <1>5 DEF CloseSwap
<1>6. CASE CloseCancel
  BY <1>0, <1>6 DEF CloseCancel
<1>7. CASE Stop
  BY <1>0, <1>7 DEF Stop
<1>. QED BY <1>1, <1>2, <1>3, <1>4, <1>5, <1>6, <1>7

LEMMA ControlInv ==
    ASSUME SubInv, Packets \/ StoreCancel \/ CheckClosed \/ Spawn \/ CloseSwap \/ CloseCancel \/ Stop
    PROVE  SubInv'
<1>1. /\ UNCHANGED <<pipe, written, chan, taken>>
      /\ {closed', stopped', closing'} \subseteq BOOLEAN
      /\ (closed => closed') /\ (stopped => stopped') /\ (closing' => closed')
  <2>1. UNCHANGED <<pipe, written, chan, taken>>
    BY DEF Packets, StoreCancel, CheckClosed, Spawn, CloseSwap, CloseCancel, Stop
  <2>2. CASE CloseSwap
    BY <2>1, <2>2 DEF CloseSwap, SubInv, SubType
  <2>3. CASE CloseCancel
    BY <2>1, <2>3 DEF CloseCancel, SubInv, SubType
  <2>4. CASE Stop
    BY <2>1, <2>4 DEF Stop, SubInv, SubType
  <2>5. CASE Packets \/ StoreCancel \/ CheckClosed \/ Spawn
    <3>1. UNCHANGED <<closed, stopped, closing>>
      BY <2>5 DEF Packets, StoreCancel, CheckClosed, Spawn
    <3>. QED BY <2>1, <3>1 DEF SubInv, SubType
  <2>. QED BY <2>2, <2>3, <2>4, <2>5
<1>2. child' \in [state : {"none", "running", "exited", "killed", "reaped"}, code : {0, 1},
                  script : Seq(Items), holder : BOOLEAN, forks : BOOLEAN, delayed : BOOLEAN]
  <2>1. child' = child \/ child' = [child EXCEPT !.state = "running"]
    BY DEF Packets, StoreCancel, CheckClosed, Spawn, CloseSwap, CloseCancel, Stop
  <2>. QED BY <2>1 DEF SubInv, SubType
<1>3. InHand' = InHand
  BY ControlRun DEF InHand
<1>4. SubType' /\ NothingLost'
  BY <1>1, <1>2, <1>3, ControlRun DEF SubInv, SubType, NothingLost, Received
<1>5. /\ run'.cancel = "called" => closed'
      /\ run'.decErr = "cancelled" => closed' \/ stopped'
      /\ run'.pc \notin {"waiting", "ended"} => run'.decErr = "none"
  BY <1>1, ControlRun DEF SubInv
<1>6. child' = child \/ run'.pc = "header"
  BY ControlRun
<1>7. /\ run'.pc = "waiting" => run.pc = "waiting" /\ child' = child
      /\ run'.pc = "ended" => child' = child
  BY ControlRun
<1>8. run'.pc = "ended" => ~Alive'
  <2> SUFFICES ASSUME run'.pc = "ended" PROVE ~Alive
    BY <1>7 DEF Alive
  <2>. QED BY ControlRun DEF SubInv
<1>9. Alive' => run'.pc \notin {"idle", "cancel", "closed?", "start"}
  <2> SUFFICES ASSUME Alive', run'.pc # "header" PROVE run'.pc \notin {"idle", "cancel", "closed?", "start"}
    OBVIOUS
  <2>1. Alive
    BY <1>6 DEF Alive
  <2>. QED BY <2>1, ControlRun DEF SubInv
<1>10. run'.pc = "waiting" /\ run'.decErr = "none" => Drained'
  BY <1>1, <1>7, ControlRun DEF SubInv, Drained, Alive
<1>11. run'.pc = "ended" /\ run'.err = "none" /\ ~closed' /\ ~stopped' => run'.decErr = "none" /\ Drained'
  BY <1>1, <1>7, ControlRun DEF SubInv, Drained, Alive
<1>. QED BY <1>1, <1>4, <1>5, <1>8, <1>9, <1>10, <1>11 DEF SubInv

\* What the goroutine does when it has read the first item.
LEMMA PipeTail ==
    ASSUME SubInv, pipe # <<>>
    PROVE  /\ Head(pipe) \in Items /\ Tail(pipe) \in Seq(Items)
           /\ run.decErr = "none" =>
                /\ Head(pipe) # "rec" => Walk(Tail(pipe), Rec, AnyRec, Received, Len(written))
                /\ Head(pipe) = "rec" => Walk(Tail(pipe), Rec, AnyRec, Received + 1, Len(written))
<1>1. pipe \in Seq(Items)
  BY SubFacts
<1>2. Head(pipe) \in Items /\ Tail(pipe) \in Seq(Items)
  BY <1>1, HeadTailProperties
<1>3. ASSUME run.decErr = "none"
      PROVE  /\ Head(pipe) # "rec" => Walk(Tail(pipe), Rec, AnyRec, Received, Len(written))
             /\ Head(pipe) = "rec" => Walk(Tail(pipe), Rec, AnyRec, Received + 1, Len(written))
  <2>1. Walk(pipe, Rec, AnyRec, Received, Len(written))
    BY <1>3 DEF SubInv, NothingLost
  <2>2. Head(pipe) \in Rec <=> Head(pipe) = "rec"
    BY DEF Rec
  <2>. QED BY <1>1, <2>1, <2>2, WalkTail
<1>. QED BY <1>2, <1>3

LEMMA HeaderInv == ASSUME SubInv, Header PROVE SubInv'
<1>1. /\ run.pc = "header" /\ run.decErr = "none"
      /\ UNCHANGED <<closed, stopped, closing, child, written, chan, taken>>
  BY DEF Header, SubInv
<1>2. CASE pipe # <<>> /\ pipe' = Tail(pipe) /\ Head(pipe) = "header" /\ To("record")
  <2>1. run' = [run EXCEPT !.pc = "record"] /\ run'.pc = "record" /\ run'.decErr = "none"
        /\ run'.cancel = run.cancel /\ run'.err = run.err
    BY <1>1, <1>2 DEF To, SubInv, SubType
  <2>2. SubType'
    BY <1>1, <1>2, <2>1, PipeTail DEF SubInv, SubType, RunPcs
  <2>3. Received' = Received
    BY <1>1, <2>1 DEF Received, InHand
  <2>4. NothingLost'
    BY <1>1, <1>2, <2>3, PipeTail DEF NothingLost
  <2>. QED BY <1>1, <2>1, <2>2, <2>4 DEF SubInv, Alive, Drained
<1>3. CASE Fails("foreign") /\ (pipe' = pipe \/ (pipe # <<>> /\ pipe' = Tail(pipe)))
  <2>1. /\ run'.pc = "waiting" /\ run'.decErr = "foreign"
        /\ run'.cancel = run.cancel /\ run'.err = run.err
        /\ run' = [run EXCEPT !.pc = "waiting", !.decErr = "foreign"]
    BY <1>1, <1>3 DEF Fails, SubInv, SubType
  <2>2. pipe' \in Seq(Items)
    BY <1>3, PipeTail, SubFacts
  <2>3. SubType'
    BY <1>1, <2>1, <2>2 DEF SubInv, SubType, RunPcs, DecErrs
  <2>. QED BY <1>1, <2>1, <2>3 DEF SubInv, NothingLost, Alive, Drained
<1>. QED BY <1>1, <1>2, <1>3 DEF Header

LEMMA RecordInv == ASSUME SubInv, Record PROVE SubInv'
<1>1. /\ run.pc = "record" /\ run.decErr = "none"
      /\ UNCHANGED <<closed, stopped, closing, child, written, chan, taken>>
  BY DEF Record, SubInv
<1>2. ASSUME NEW e \in {"cancelled", "length", "short"}, Fails(e), e = "cancelled" => Ctx,
             pipe' = pipe \/ (pipe # <<>> /\ pipe' = Tail(pipe))
      PROVE  SubInv'
  <2>1. /\ run'.pc = "waiting" /\ run'.decErr = e
        /\ run'.cancel = run.cancel /\ run'.err = run.err
        /\ run' = [run EXCEPT !.pc = "waiting", !.decErr = e]
    BY <1>1, <1>2 DEF Fails, SubInv, SubType
  <2>2. pipe' \in Seq(Items)
    BY <1>2, PipeTail, SubFacts
  <2>3. SubType'
    BY <1>1, <2>1, <2>2 DEF SubInv, SubType, RunPcs, DecErrs
  <2>4. e = "cancelled" => closed \/ stopped
    BY <1>2 DEF Ctx, SubInv
  <2>. QED BY <1>1, <2>1, <2>3, <2>4 DEF SubInv, NothingLost, Alive, Drained
<1>3. ASSUME NEW pc \in {"send", "record", "waiting"}, To(pc),
             \/ pipe # <<>> /\ pipe' = Tail(pipe) /\ pc = (IF Head(pipe) = "rec" THEN "send" ELSE "record")
             \/ pipe = <<>> /\ ~WritersLeft /\ pipe' = pipe /\ pc = "waiting"
      PROVE  SubInv'
  <2>1. /\ run'.pc = pc /\ run'.decErr = "none" /\ run'.cancel = run.cancel /\ run'.err = run.err
        /\ run' = [run EXCEPT !.pc = pc]
    BY <1>1, <1>3 DEF To, SubInv, SubType
  <2>2. pipe' \in Seq(Items)
    BY <1>3, PipeTail, SubFacts
  <2>3. SubType'
    BY <1>1, <2>1, <2>2 DEF SubInv, SubType, RunPcs
  <2>4. Received' = IF pc = "send" THEN Received + 1 ELSE Received
    BY <1>1, <2>1, SubFacts DEF Received, InHand
  <2>5. NothingLost'
    <3>1. CASE pipe # <<>>
      BY <1>1, <1>3, <2>4, <3>1, PipeTail DEF NothingLost
    <3>2. CASE pipe = <<>>
      BY <1>1, <1>3, <2>4, <3>2 DEF NothingLost, SubInv
    <3>. QED BY <3>1, <3>2
  <2>6. pc = "waiting" => Drained'
    BY <1>1, <1>3 DEF Drained, WritersLeft, Alive
  <2>. QED BY <1>1, <2>1, <2>3, <2>5, <2>6 DEF SubInv, Alive
<1>4. CASE Ctx /\ Fails("cancelled") /\ pipe' = pipe
  BY <1>2, <1>4
<1>5. CASE pipe = <<>> /\ ~WritersLeft /\ pipe' = pipe /\ To("waiting")
  BY <1>3, <1>5
<1>6. CASE /\ pipe # <<>> /\ pipe' = Tail(pipe)
           /\ CASE Head(pipe) = "rec" -> To("send")
                [] Head(pipe) = "odd" -> To("record")
                [] Head(pipe) = "absurd" -> Fails("length")
                [] OTHER -> Fails("short")
  BY <1>2, <1>3, <1>6
<1>. QED BY <1>4, <1>5, <1>6 DEF Record

LEMMA SendInv == ASSUME SubInv, Send PROVE SubInv'
<1>1. /\ run.pc = "send" /\ run.decErr = "none"
      /\ UNCHANGED <<closed, stopped, closing, child, pipe, written, taken>>
  BY DEF Send, SubInv
<1>2. CASE To("record") /\ chan' = Append(chan, Len(chan) + Len(taken) + 1)
  <2>1. /\ run'.pc = "record" /\ run'.decErr = "none" /\ run'.cancel = run.cancel /\ run'.err = run.err
        /\ run' = [run EXCEPT !.pc = "record"]
    BY <1>1, <1>2 DEF To, SubInv, SubType
  <2>2. Counting(chan, Len(taken)) /\ Len(taken) \in Nat /\ Len(chan) \in Nat
    BY SubFacts DEF SubInv, SubType
  <2>3. Len(chan) + Len(taken) + 1 = Len(taken) + Len(chan) + 1
    BY <2>2
  <2>4. Counting(chan', Len(taken)) /\ Len(chan') = Len(chan) + 1
    BY <1>2, <2>2, <2>3, CountingAppend
  <2>5. SubType'
    BY <1>1, <2>1, <2>4 DEF SubInv, SubType, RunPcs
  <2>6. Received' = Received
    BY <1>1, <2>1, <2>2, <2>4 DEF Received, InHand
  <2>. QED BY <1>1, <2>1, <2>5, <2>6 DEF SubInv, NothingLost, Alive, Drained
<1>3. CASE Ctx /\ Fails("cancelled") /\ chan' = chan
  <2>1. /\ run'.pc = "waiting" /\ run'.decErr = "cancelled"
        /\ run'.cancel = run.cancel /\ run'.err = run.err
        /\ run' = [run EXCEPT !.pc = "waiting", !.decErr = "cancelled"]
    BY <1>1, <1>3 DEF Fails, SubInv, SubType
  <2>2. SubType'
    BY <1>1, <1>3, <2>1 DEF SubInv, SubType, RunPcs, DecErrs
  <2>3. closed \/ stopped
    BY <1>3 DEF Ctx, SubInv
  <2>. QED BY <1>1, <2>1, <2>2, <2>3 DEF SubInv, NothingLost, Alive, Drained
<1>. QED BY <1>1, <1>2, <1>3 DEF Send

LEMMA ReapInv == ASSUME SubInv, Reap PROVE SubInv'
<1>1. /\ run.pc = "waiting" /\ ~Alive
      /\ run' = [run EXCEPT !.pc = "ended", !.err = Verdict]
      /\ child' = [child EXCEPT !.state = "reaped"]
      /\ UNCHANGED <<closed, stopped, closing, pipe, written, chan, taken>>
  BY DEF Reap
<1>2. /\ Verdict \in {"none", "exit", "wait", "foreign", "length", "short"}
      /\ Verdict = "none" /\ ~closed /\ ~stopped => run.decErr \in {"none", "cancelled"}
  BY DEF Verdict, SubInv, SubType, DecErrs
<1>3. /\ run'.pc = "ended" /\ run'.err = Verdict /\ run'.decErr = run.decErr /\ run'.cancel = run.cancel
      /\ ~Alive'
  BY <1>1 DEF SubInv, SubType, Alive
<1>4. SubType'
  BY <1>1, <1>2 DEF SubInv, SubType, RunPcs
<1>5. NothingLost'
  BY <1>1, <1>3 DEF SubInv, NothingLost, Received, InHand
<1>6. run'.err = "none" /\ ~closed /\ ~stopped => run.decErr = "none" /\ Drained'
  BY <1>1, <1>2, <1>3 DEF SubInv, Drained
<1>. QED BY <1>1, <1>3, <1>4, <1>5, <1>6 DEF SubInv

LEMMA TakeInv == ASSUME SubInv, Take PROVE SubInv'
<1>1. /\ chan # <<>> /\ taken' = Append(taken, Head(chan)) /\ chan' = Tail(chan)
      /\ UNCHANGED <<run, closed, stopped, closing, child, pipe, written>>
  BY DEF Take
<1>2. Counting(taken, 0) /\ Counting(chan, Len(taken)) /\ Len(taken) \in Nat
  BY SubFacts DEF SubInv, SubType
<1>3. /\ Head(chan) = Len(taken) + 1 /\ Counting(Tail(chan), Len(taken) + 1)
      /\ Len(Tail(chan)) = Len(chan) - 1 /\ Len(chan) \in Nat \ {0}
  BY <1>1, <1>2, CountingTail
<1>4. Counting(taken', 0) /\ Len(taken') = Len(taken) + 1
  <2>1. Head(chan) = 0 + Len(taken) + 1
    BY <1>2, <1>3
  <2>. QED BY <1>1, <1>2, <2>1, CountingAppend
<1>5. SubType'
  BY <1>1, <1>3, <1>4 DEF SubInv, SubType
<1>6. Received' = Received
  <2>1. InHand' = InHand /\ InHand \in Nat
    BY <1>1 DEF InHand
  <2>. QED BY <1>1, <1>2, <1>3, <1>4, <2>1 DEF Received
<1>. QED BY <1>1, <1>5, <1>6 DEF SubInv, NothingLost, Alive, Drained

LEMMA SubNextInv == SubInv /\ [SubNext]_subVars => SubInv'
<1> SUFFICES ASSUME SubInv, [SubNext]_subVars PROVE SubInv'
  OBVIOUS
<1>1. CASE UNCHANGED subVars
  BY <1>1 DEF subVars, SubInv, SubType, NothingLost, Received, InHand, Drained, Alive
<1>2. CASE SubNext
  BY <1>2, WriteInv, ChildInv, ControlInv, HeaderInv, RecordInv, SendInv, ReapInv, TakeInv
     DEF SubNext, Run
<1>. QED BY <1>1, <1>2

\* A source that ended without an error, and that nobody closed or stopped, has handed on every
\* packet the child wrote, once and in order, whatever the child wrote, however it ended and
\* however long its pipe and its packets waited (pcapSubprocess.run, decodePCAPStream).
THEOREM CleanEndsAreComplete == SubSpec => []CleanEndIsComplete
<1>1. SubInv => CleanEndIsComplete
  <2> SUFFICES ASSUME SubInv, run.pc = "ended", run.err = "none", ~closed, ~stopped
               PROVE  taken \o chan = written
    BY DEF CleanEndIsComplete
  <2>1. run.decErr = "none" /\ pipe = <<>>
    BY DEF SubInv, Drained
  <2>2. Walk(pipe, Rec, AnyRec, Received, Len(written)) /\ pipe \in Seq(Items)
    BY <2>1, SubFacts DEF SubInv, NothingLost
  <2>3. Received = Len(written)
    BY <2>1, <2>2, WalkBounds
  <2>4. Len(written) = Len(taken) + Len(chan)
    BY <2>3, SubFacts DEF Received, InHand
  <2>. QED BY <2>4, CountingAll DEF SubInv, SubType
<1>. QED BY <1>1, SubInitInv, SubNextInv, PTL DEF SubSpec

-----------------------------------------------------------------------------
(* A SYNPOIP session.  First its frames. *)

Data == {"packet", "record"} \X Nat
Complete == "end of capture"
Reasons == {"server closing", "source error", Complete}
Whys == Reasons \cup {"", "declined", "lost", "cancelled", "eof", "idle"}
Frame == Data \cup {<<"keepalive">>} \cup ({"bye"} \X Reasons)
Eoc == Bye(Complete)

LEMMA FrameKinds ==
    ASSUME NEW f \in Frame
    PROVE  /\ f[1] = "bye" => f \notin Data /\ f[2] \in Reasons /\ f = <<"bye", f[2]>>
           /\ f[1] = "keepalive" => f \notin Data /\ f # Eoc
           /\ f[1] \in {"packet", "record"} => f \in Data /\ f[2] \in Nat /\ f = <<f[1], f[2]>> /\ f # Eoc
           /\ f[1] \in {"bye", "keepalive", "packet", "record"}
<1>1. CASE f \in Data
  <2>1. PICK k \in {"packet", "record"}, n \in Nat : f = <<k, n>>
    BY <1>1 DEF Data
  <2>2. <<k, n>>[1] = k /\ <<k, n>>[2] = n
    OBVIOUS
  <2>3. Eoc[1] = "bye"
    BY DEF Eoc, Bye
  <2>. QED BY <1>1, <2>1, <2>2, <2>3
<1>2. CASE f = <<"keepalive">>
  <2>1. f[1] = "keepalive" /\ Eoc[1] = "bye"
    BY <1>2 DEF Eoc, Bye
  <2>2. \A d \in Data : d[1] \in {"packet", "record"}
    BY DEF Data
  <2>. QED BY <2>1, <2>2
<1>3. CASE f \in {"bye"} \X Reasons
  <2>1. f = <<f[1], f[2]>> /\ f[1] = "bye" /\ f[2] \in Reasons
    BY <1>3
  <2>2. \A d \in Data : d[1] \in {"packet", "record"}
    BY DEF Data
  <2>. QED BY <2>1, <2>2
<1>. QED BY <1>1, <1>2, <1>3 DEF Frame

LEMMA FramesMade ==
    /\ \A n \in Nat : <<"packet", n>> \in Data /\ <<"record", n>> \in Data
    /\ Data \subseteq Frame /\ <<"keepalive">> \in Frame /\ <<"keepalive">> \notin Data /\ <<"keepalive">> # Eoc
    /\ \A r \in Reasons : Bye(r) \in Frame /\ Bye(r) \notin Data /\ (Bye(r) = Eoc <=> r = Complete)
    /\ Eoc \notin Data
<1>1. /\ \A n \in Nat : <<"packet", n>> \in Data /\ <<"record", n>> \in Data
      /\ Data \subseteq Frame /\ <<"keepalive">> \in Frame
  BY DEF Data, Frame
<1>2. \A d \in Data : d[1] \in {"packet", "record"}
  BY DEF Data
<1>3. <<"keepalive">>[1] = "keepalive" /\ Eoc[1] = "bye"
  BY DEF Eoc, Bye
<1>4. ASSUME NEW r \in Reasons
      PROVE  Bye(r) \in Frame /\ Bye(r) \notin Data /\ (Bye(r) = Eoc <=> r = Complete)
  <2>1. Bye(r)[1] = "bye" /\ Bye(r)[2] = r /\ Eoc[2] = Complete
    BY DEF Bye, Eoc
  <2>2. Bye(r) \in Frame
    BY DEF Bye, Frame
  <2>. QED BY <1>2, <2>1, <2>2 DEF Eoc
<1>. QED BY <1>1, <1>2, <1>3, <1>4

\* The other ends of a session.
LEMMA CompleteApart == Complete \notin {"", "declined", "lost", "cancelled", "eof", "idle"}
BY DEF Complete

\* An end of capture is the last frame of a queue, if it is in it.
HasEoc(q) == \E i \in 1 .. Len(q) : q[i] = Eoc
LastOnly(q) == \A i \in 1 .. Len(q) : q[i] = Eoc => i = Len(q)

LEMMA EocEmpty == ~ HasEoc(<<>>) /\ LastOnly(<<>>)
<1>1. 1 .. Len(<<>>) = {}
  BY EmptySeq
<1>. QED BY <1>1 DEF HasEoc, LastOnly

LEMMA EocAppend ==
    ASSUME NEW q \in Seq(Frame), NEW x \in Frame, ~ HasEoc(q)
    PROVE  LastOnly(Append(q, x)) /\ (HasEoc(Append(q, x)) <=> x = Eoc)
<1> DEFINE n == Len(q)
           r == Append(q, x)
<1>1. n \in Nat /\ Len(r) = n + 1 /\ r[n + 1] = x /\ \A i \in 1 .. n : r[i] = q[i]
  BY LenProperties, AppendProperties
<1>2. \A i \in 1 .. n + 1 : i # n + 1 => i \in 1 .. n
  BY <1>1
<1> HIDE DEF r
<1>3. \A i \in 1 .. Len(r) : r[i] = Eoc => i = n + 1
  BY <1>1, <1>2 DEF HasEoc
<1>4. n + 1 \in 1 .. Len(r)
  BY <1>1
<1>5. LastOnly(r) /\ (HasEoc(r) <=> x = Eoc)
  BY <1>1, <1>3, <1>4 DEF HasEoc, LastOnly
<1>. QED BY <1>5 DEF r

LEMMA EocTail ==
    ASSUME NEW q \in Seq(Frame), q # <<>>, LastOnly(q)
    PROVE  /\ LastOnly(Tail(q)) /\ (HasEoc(Tail(q)) => HasEoc(q))
           /\ Head(q) = Eoc => Tail(q) = <<>> /\ HasEoc(q)
           /\ Head(q) # Eoc /\ HasEoc(q) => HasEoc(Tail(q))
<1> DEFINE n == Len(q)
           r == Tail(q)
<1>1. n \in Nat \ {0} /\ Len(r) = n - 1 /\ (\A i \in 1 .. n - 1 : r[i] = q[i + 1]) /\ Head(q) = q[1]
      /\ r \in Seq(Frame)
  BY LenProperties, HeadTailProperties, EmptySeq
<1> HIDE DEF r
<1>2. \A i \in 1 .. n - 1 : i + 1 \in 1 .. n
  BY <1>1
<1>3. LastOnly(r) /\ (HasEoc(r) => HasEoc(q))
  BY <1>1, <1>2 DEF LastOnly, HasEoc
<1>4. ASSUME Head(q) = Eoc PROVE r = <<>> /\ HasEoc(q)
  <2>1. 1 \in 1 .. n
    BY <1>1
  <2>2. n = 1
    BY <1>1, <1>4, <2>1 DEF LastOnly
  <2>. QED BY <1>1, <1>4, <2>1, <2>2, EmptySeq DEF HasEoc
<1>5. ASSUME Head(q) # Eoc, HasEoc(q) PROVE HasEoc(r)
  <2>1. PICK i \in 1 .. n : q[i] = Eoc
    BY <1>5 DEF HasEoc
  <2>2. i # 1 /\ i - 1 \in 1 .. n - 1 /\ i - 1 + 1 = i
    BY <1>1, <1>5, <2>1
  <2>3. r[i - 1] = Eoc /\ i - 1 \in 1 .. Len(r)
    BY <1>1, <2>1, <2>2
  <2>. QED BY <2>3 DEF HasEoc
<1>. QED BY <1>3, <1>4, <1>5 DEF r

LEMMA EocPrefix ==
    ASSUME NEW q \in Seq(Frame), LastOnly(q), NEW k \in 0 .. Len(q), k # Len(q)
    PROVE  /\ SubSeq(q, 1, k) \in Seq(Frame) /\ Len(SubSeq(q, 1, k)) = k
           /\ LastOnly(SubSeq(q, 1, k)) /\ ~ HasEoc(SubSeq(q, 1, k))
<1> DEFINE r == SubSeq(q, 1, k)
<1>1. Len(q) \in Nat /\ \A i \in 1 .. Len(q) : q[i] \in Frame
  BY LenProperties, ElementOfSeq
<1>2. \A i \in 1 .. k : q[i] \in Frame
  BY <1>1
<1>3. /\ r \in Seq(Frame) /\ Len(r) = (IF 1 <= k THEN k - 1 + 1 ELSE 0)
      /\ \A i \in 1 .. k - 1 + 1 : r[i] = q[1 + i - 1]
  BY <1>2, SubSeqProperties
<1>4. Len(r) = k /\ \A i \in 1 .. k : r[i] = q[i] /\ i \in 1 .. Len(q) /\ i # Len(q)
  <2>1. k - 1 + 1 = k /\ \A i \in 1 .. k : 1 + i - 1 = i /\ i \in 1 .. Len(q) /\ i # Len(q)
    BY <1>1
  <2> HIDE DEF r
  <2>. QED BY <1>1, <1>3, <2>1
<1> HIDE DEF r
<1>5. \A i \in 1 .. Len(r) : r[i] # Eoc
  BY <1>4 DEF LastOnly
<1>6. r \in Seq(Frame) /\ Len(r) = k /\ LastOnly(r) /\ ~ HasEoc(r)
  BY <1>3, <1>4, <1>5 DEF LastOnly, HasEoc
<1>. QED BY <1>6 DEF r

-----------------------------------------------------------------------------
(* The invariant of a session. *)

SourceType ==
    /\ src \in [n : 0 .. MaxPackets, on : BOOLEAN, err : {"none", "error", "cancel"}]
    /\ srcq \in Seq(Nat) /\ Len(srcq) <= SourceCap
    /\ agg \in [pc : {"off", "loop", "emit", "flush", "done"}, held : SUBSET (1 .. MaxPackets), hand : Nat,
                stopped : BOOLEAN, err : {"none", "error", "cancel"}]
    /\ frames \in Seq(Nat) /\ Len(frames) <= FramesCap /\ encoded \in Seq(Nat)

WriterType ==
    /\ sv \in [pc : {"off", "select", "drain", "flush", "closed"}, batch : 0 .. BatchMax,
               after : {"", "select", "close"}, ticked : BOOLEAN]
    /\ buf \in Seq(Frame) /\ wire \in Seq(Frame) /\ Len(wire) <= WireCap

DaemonType ==
    /\ dd \in [pc : {"off", "read", "give", "waiting", "done"}, hand : Nat, why : Whys, recs : Nat]
    /\ got \in Seq(Nat) /\ queued \in 0 .. OutCap

SessionType ==
    /\ setup \in Setups /\ phase \in {"dialled", "hello", "answered"}
    /\ SourceType /\ WriterType /\ DaemonType

\* How full the writer's buffer is.
WriterInv ==
    /\ sv.pc \in {"off", "select", "closed"} => buf = <<>>
    /\ sv.pc = "drain" => Len(buf) <= BufCap
    /\ Len(buf) <= BufCap + 1

\* What the source's channel holds, and what became of the packets Aggregate has taken.
Observed == src.n - Len(srcq)
Seen_ == 1 .. Observed \ Bad

SourceInv ==
    /\ Len(srcq) <= src.n /\ \A i \in 1 .. Len(srcq) : srcq[i] = Observed + i
    /\ Len(frames) <= Len(encoded)
    /\ \A i \in 1 .. Len(frames) : frames[i] = encoded[Len(encoded) - Len(frames) + i]

AggregateInv ==
    IF Raw THEN agg.pc \in {"off", "done"} /\ agg.held = {} /\ agg.hand = 0 /\ frames = <<>> /\ encoded = <<>>
    ELSE /\ agg.held \subseteq Seen_ /\ agg.hand \in Seen_ \cup {0} /\ agg.hand \notin agg.held
         /\ \A i \in 1 .. Len(encoded) :
              encoded[i] \in Seen_ /\ encoded[i] \notin agg.held /\ encoded[i] # agg.hand
         /\ \A i, j \in 1 .. Len(encoded) : encoded[i] = encoded[j] => i = j
         /\ ~ agg.stopped =>
              \A x \in Seen_ : x \in agg.held \/ x = agg.hand \/ \E i \in 1 .. Len(encoded) : encoded[i] = x
         /\ agg.pc \in {"flush", "done"} /\ ~ agg.stopped /\ agg.err = "none" => ~ src.on /\ srcq = <<>>
         /\ agg.pc = "done" => agg.held = {} /\ agg.hand = 0
         /\ agg.pc \in {"off", "loop"} => agg.hand = 0

\* Nothing of a session is there before its handshake.
Off ==
    /\ src = SourceOff /\ srcq = <<>> /\ agg = AggregateOff /\ frames = <<>> /\ encoded = <<>>
    /\ sv = ServeOff /\ buf = <<>> /\ reader = "off" /\ wire = <<>>
    /\ dd = SessionOff /\ got = <<>> /\ queued = 0

HandshakeInv ==
    /\ phase # "answered" => answer = Rejection("none") /\ Off
    /\ phase = "answered" => answer = AnswerTo(setup.hello, setup.cfg)
    /\ dd.pc \in {"read", "give"} => Accepted(answer)
    /\ dd.pc = "off" => got = <<>> /\ dd.recs = 0

\* The stream: the frames of what was sent, numbered; Total of them, Passed taken by the writer.
List == IF Raw THEN [n \in Nat |-> <<"packet", n>>] ELSE [n \in Nat |-> <<"record", encoded[n]>>]
Total == IF Raw THEN src.n ELSE Len(encoded)
Passed == Total - Len(In)
Exhausted == In = <<>> /\ InClosed
Intact == sv.pc # "closed" /\ dOpen /\ ~ broken

\* The pipeline was handed the first n of what was sent.
Given(n) ==
    IF Raw THEN n \in 0 .. src.n /\ Decoded(got, n)
    ELSE n \in 0 .. Len(encoded) /\ Len(got) = n /\ \A i \in 1 .. n : got[i] = encoded[i]

\* The daemon has read the first a.
Handed(a) ==
    /\ a \in Nat /\ (~ Raw => dd.recs = a)
    /\ dd.pc = "off" => a = 0
    /\ dd.pc \in {"off", "read"} => Given(a)
    /\ dd.pc = "give" => a # 0 /\ Given(a - 1) /\ List[a] = Framed(dd.hand) /\ (Raw => dd.hand \notin Bad)
    /\ dd.pc \in {"waiting", "done"} => Given(a) \/ (dctx /\ a # 0 /\ Given(a - 1))
    /\ dd.why = Complete => Given(Total) /\ Exhausted /\ dd.pc \in {"waiting", "done"}

\* What is on the wire goes on to b, and while nothing is lost the buffer goes on from there.
Links(a, b) ==
    /\ Walk(wire, Data, List, a, b) /\ b <= Passed
    /\ Intact => Walk(buf, Data, List, b, Passed)

EocInv(b) ==
    /\ LastOnly(wire) /\ LastOnly(buf)
    /\ HasEoc(buf) => Exhausted /\ sv.pc = "flush" /\ sv.after = "close"
    /\ HasEoc(wire) =>
        /\ Exhausted /\ b = Total /\ buf = <<>>
        /\ sv.pc = "closed" \/ (sv.pc = "flush" /\ sv.after = "close")

Stream(a, b) == Handed(a) /\ Links(a, b) /\ EocInv(b)
StreamInv == \E a, b : Stream(a, b)

SessionInv == SessionType /\ WriterInv /\ SourceInv /\ AggregateInv /\ HandshakeInv /\ StreamInv

LEMMA SessionConstants ==
    /\ MaxPackets \in Nat /\ Bad \subseteq 1 .. MaxPackets
    /\ SourceCap \in Nat \ {0} /\ FramesCap \in Nat \ {0} /\ BufCap \in Nat \ {0} /\ BatchMax \in Nat \ {0}
    /\ WireCap \in Nat \ {0} /\ OutCap \in Nat \ {0}
    /\ \A s \in Setups : s.cfg.mode \in Modes /\ s.packets \in 0 .. MaxPackets
BY SensorSessionAssumption

LEMMA TypeFacts ==
    ASSUME SessionType
    PROVE  /\ src.n \in Nat /\ src.n <= MaxPackets /\ src.err \in {"none", "error", "cancel"}
           /\ agg.pc \in {"off", "loop", "emit", "flush", "done"} /\ agg.held \subseteq 1 .. MaxPackets
           /\ agg.hand \in Nat /\ agg.err \in {"none", "error", "cancel"}
           /\ sv.pc \in {"off", "select", "drain", "flush", "closed"} /\ sv.batch \in 0 .. BatchMax
           /\ sv.after \in {"", "select", "close"}
           /\ dd.pc \in {"off", "read", "give", "waiting", "done"}
           /\ dd.hand \in Nat /\ dd.recs \in Nat /\ dd.why \in Whys
<1>1. src.n \in 0 .. MaxPackets /\ src.err \in {"none", "error", "cancel"}
  BY DEF SessionType, SourceType, WriterType, DaemonType
<1>2. /\ agg.pc \in {"off", "loop", "emit", "flush", "done"} /\ agg.held \subseteq 1 .. MaxPackets
      /\ agg.hand \in Nat /\ agg.err \in {"none", "error", "cancel"}
  BY DEF SessionType, SourceType, WriterType, DaemonType
<1>3. /\ sv.pc \in {"off", "select", "drain", "flush", "closed"} /\ sv.batch \in 0 .. BatchMax
      /\ sv.after \in {"", "select", "close"}
  BY DEF SessionType, SourceType, WriterType, DaemonType
<1>4. /\ dd.pc \in {"off", "read", "give", "waiting", "done"}
      /\ dd.hand \in Nat /\ dd.recs \in Nat /\ dd.why \in Whys
  BY DEF SessionType, SourceType, WriterType, DaemonType
<1>5. src.n \in Nat /\ src.n <= MaxPackets
  BY <1>1, SessionConstants
<1>. QED BY <1>1, <1>2, <1>3, <1>4, <1>5

-----------------------------------------------------------------------------
(* What a step leaves alone, and the parts of the invariant that stay.     *)

LEMMA SourceTypeKept ==
    ASSUME SourceType, UNCHANGED <<src, srcq, agg, frames, encoded>>
    PROVE  SourceType'
BY DEF SourceType

LEMMA WriterTypeKept ==
    ASSUME WriterType, UNCHANGED <<sv, buf, wire>>
    PROVE  WriterType'
BY DEF WriterType

LEMMA DaemonTypeKept ==
    ASSUME DaemonType, UNCHANGED <<dd, got, queued>>
    PROVE  DaemonType'
BY DEF DaemonType

LEMMA SameSource ==
    ASSUME UNCHANGED <<setup, src, srcq, agg, frames, encoded>>
    PROVE  /\ (Raw' <=> Raw) /\ In' = In /\ (InClosed' <=> InClosed) /\ (Exhausted' <=> Exhausted)
           /\ List' = List /\ Total' = Total /\ Passed' = Passed
           /\ SourceInv => SourceInv'
           /\ AggregateInv => AggregateInv'
<1>1. (Raw' <=> Raw) /\ In' = In /\ List' = List /\ Total' = Total /\ Passed' = Passed
  BY DEF Raw, In, List, Total, Passed
<1>2. InClosed' <=> InClosed
  BY DEF InClosed, Raw
<1>3. Exhausted' <=> Exhausted
  BY <1>1, <1>2 DEF Exhausted
<1>4. SourceInv => SourceInv'
  BY DEF SourceInv, Observed
<1>5. AggregateInv => AggregateInv'
  BY DEF AggregateInv, Seen_, Observed, Raw
<1>. QED BY <1>1, <1>2, <1>3, <1>4, <1>5

LEMMA GivenKept ==
    ASSUME UNCHANGED <<setup, src, encoded, got>>
    PROVE  \A n : Given(n) <=> Given(n)'
BY DEF Given, Raw, Decoded

LEMMA StreamKept ==
    ASSUME NEW a, NEW b, Stream(a, b),
           UNCHANGED <<setup, src, srcq, agg, frames, encoded, sv, buf, wire, dOpen, broken, dd, dctx, got>>
    PROVE  Stream(a, b)'
<1>1. Handed(a)'
  BY SameSource, GivenKept DEF Stream, Handed, Framed, Raw
<1>2. Links(a, b)'
  BY SameSource DEF Stream, Links, Intact
<1>3. EocInv(b)'
  BY SameSource DEF Stream, EocInv
<1>. QED BY <1>1, <1>2, <1>3 DEF Stream

LEMMA HandshakeKept ==
    ASSUME HandshakeInv, phase = "answered", UNCHANGED <<setup, phase, answer, dd, got>>
    PROVE  HandshakeInv'
BY DEF HandshakeInv

LEMMA WriterKept ==
    ASSUME WriterInv, UNCHANGED <<sv, buf>>
    PROVE  WriterInv'
BY DEF WriterInv

\* Before the handshake nothing runs.
LEMMA Running ==
    ASSUME HandshakeInv, phase # "answered"
    PROVE  /\ ~ src.on /\ agg.pc = "off" /\ agg.hand = 0 /\ sv.pc = "off" /\ reader = "off"
           /\ dd.pc = "off" /\ queued = 0
<1>1. src = SourceOff /\ agg = AggregateOff /\ sv = ServeOff /\ dd = SessionOff /\ reader = "off" /\ queued = 0
  BY DEF HandshakeInv, Off
<1>2. ~ src.on
  BY <1>1 DEF SourceOff
<1>3. agg.pc = "off" /\ agg.hand = 0 /\ sv.pc = "off" /\ dd.pc = "off"
  BY <1>1 DEF AggregateOff, ServeOff, SessionOff
<1>. QED BY <1>1, <1>2, <1>3

\* The writer's next frame is the next of the list.
LEMMA NextFrame ==
    ASSUME SessionType, SourceInv
    PROVE  /\ Total \in Nat /\ Passed \in Nat /\ Passed <= Total /\ In \in Seq(Nat)
           /\ In = <<>> <=> Passed = Total
           /\ In # <<>> => /\ List[Passed + 1] = Framed(Head(In)) /\ Framed(Head(In)) \in Data
                           /\ Head(In) \in Nat /\ Tail(In) \in Seq(Nat)
                           /\ Len(Tail(In)) = Len(In) - 1
<1>1. Total \in Nat /\ In \in Seq(Nat) /\ Len(In) \in Nat /\ Len(In) <= Total
  <2>1. /\ src.n \in Nat /\ srcq \in Seq(Nat) /\ frames \in Seq(Nat) /\ encoded \in Seq(Nat)
        /\ Len(srcq) <= src.n /\ Len(frames) <= Len(encoded)
    BY TypeFacts DEF SessionType, SourceType, WriterType, DaemonType, SourceInv
  <2>2. Len(srcq) \in Nat /\ Len(frames) \in Nat /\ Len(encoded) \in Nat
    BY <2>1, LenProperties
  <2>. QED BY <2>1, <2>2 DEF Total, In
<1>2. In = <<>> <=> Len(In) = 0
  BY <1>1, EmptySeq
<1>3. Passed \in Nat /\ Passed <= Total /\ (In = <<>> <=> Passed = Total)
  BY <1>1, <1>2 DEF Passed
<1>4. ASSUME In # <<>>
      PROVE  /\ List[Passed + 1] = Framed(Head(In)) /\ Framed(Head(In)) \in Data
             /\ Head(In) \in Nat /\ Tail(In) \in Seq(Nat) /\ Len(Tail(In)) = Len(In) - 1
  <2>1. Head(In) \in Nat /\ Tail(In) \in Seq(Nat) /\ Len(Tail(In)) = Len(In) - 1 /\ Head(In) = In[1]
        /\ 1 \in 1 .. Len(In)
    BY <1>1, <1>2, <1>4, HeadTailProperties
  <2>2. Framed(Head(In)) \in Data
    BY <2>1, FramesMade DEF Framed
  <2>3. CASE Raw
    <3>1. Passed = Observed /\ In = srcq /\ srcq[1] = Observed + 1
      BY <2>1, <2>3 DEF Passed, Observed, Total, In, SourceInv
    <3>2. List[Passed + 1] = <<"packet", Passed + 1>>
      BY <1>3, <2>3 DEF List
    <3>. QED BY <2>1, <2>2, <2>3, <3>1, <3>2 DEF Framed
  <2>4. CASE ~ Raw
    <3>1. Passed = Len(encoded) - Len(frames) /\ In = frames
      BY <2>4 DEF Passed, Total, In
    <3>2. frames[1] = encoded[Passed + 1]
      BY <2>1, <3>1 DEF SourceInv
    <3>3. List[Passed + 1] = <<"record", encoded[Passed + 1]>>
      BY <1>3, <2>4 DEF List
    <3>. QED BY <2>1, <2>2, <2>4, <3>1, <3>2, <3>3 DEF Framed
  <2>. QED BY <2>1, <2>2, <2>3, <2>4
<1>. QED BY <1>1, <1>3, <1>4

\* The source may add to the end of the list.
LEMMA StreamGrows ==
    ASSUME NEW a, NEW b, Stream(a, b), SessionType, SourceInv,
           UNCHANGED <<setup, sv, buf, wire, dOpen, broken, dd, dctx, got>>,
           Passed' = Passed, \A i \in 1 .. Total : List'[i] = List[i],
           Exhausted => Exhausted' /\ Total' = Total,
           \A n : Given(n) => Given(n)'
    PROVE  Stream(a, b)'
<1>1. /\ Total \in Nat /\ Passed \in Nat /\ Passed <= Total /\ wire \in Seq(Frame) /\ buf \in Seq(Frame)
  BY NextFrame DEF SessionType, SourceType, WriterType, DaemonType
<1>2. /\ Walk(wire, Data, List, a, b) /\ b <= Passed
      /\ Intact => Walk(buf, Data, List, b, Passed)
  BY DEF Stream, Links
<1>3. a \in Nat /\ b \in Nat /\ a <= b
  BY <1>1, <1>2, WalkBounds
<1>4. \A i \in 1 .. b : List'[i] = List[i]
  BY <1>1, <1>2, <1>3
<1>5. \A i \in 1 .. Passed : List'[i] = List[i]
  BY <1>1
<1>6. Walk(wire, Data, List', a, b)
  BY <1>1, <1>2, <1>4, WalkVals
<1>7. Intact => Walk(buf, Data, List', b, Passed)
  BY <1>1, <1>2, <1>5, WalkVals
<1>8. Links(a, b)'
  BY <1>2, <1>6, <1>7 DEF Links, Intact
<1>9. Handed(a)'
  <2>1. a # 0 => List'[a] = List[a]
    BY <1>3, <1>4
  <2>2. \A x : Framed(x)' = Framed(x)
    BY DEF Framed, Raw
  <2>3. Raw' <=> Raw
    BY DEF Raw
  <2>. QED BY <2>1, <2>2, <2>3 DEF Stream, Handed
<1>10. EocInv(b)'
  BY DEF Stream, EocInv
<1>. QED BY <1>8, <1>9, <1>10 DEF Stream

-----------------------------------------------------------------------------
(* The packet source.                                                      *)

LEMMA ProduceStep ==
    ASSUME SessionInv, Produce
    PROVE  SessionInv'
<1>1. SessionType /\ WriterInv /\ SourceInv /\ AggregateInv /\ HandshakeInv /\ phase = "answered"
  BY Running DEF SessionInv, Produce
<1>2. PICK a, b : Stream(a, b)
  BY DEF SessionInv, StreamInv
<1>3. /\ src.n \in Nat /\ src.n + 1 \in 0 .. MaxPackets /\ src.on /\ src'.n = src.n + 1
      /\ src' = [n |-> src.n + 1, on |-> src.on, err |-> src.err]
  <2>1. setup.packets \in 0 .. MaxPackets /\ src.n < setup.packets
    BY <1>1, SessionConstants DEF SessionType, SourceType, WriterType, DaemonType, Produce
  <2>2. src' = [n |-> src.n + 1, on |-> src.on, err |-> src.err]
    BY <1>1 DEF SessionType, SourceType, WriterType, DaemonType, Produce
  <2>3. src.n \in Nat /\ src'.n = src.n + 1
    BY <1>1, <2>2, TypeFacts
  <2>4. src.n + 1 \in 0 .. MaxPackets
    BY <2>1, <2>3, SessionConstants
  <2>. QED BY <2>2, <2>3, <2>4 DEF Produce
<1>4. /\ srcq \in Seq(Nat) /\ Len(srcq) \in Nat /\ srcq' = Append(srcq, src.n + 1) /\ srcq' \in Seq(Nat)
      /\ Len(srcq') = Len(srcq) + 1 /\ srcq'[Len(srcq) + 1] = src.n + 1
      /\ (\A i \in 1 .. Len(srcq) : srcq'[i] = srcq[i]) /\ Len(srcq') <= SourceCap
  <2>1. srcq \in Seq(Nat) /\ Len(srcq) \in Nat /\ Len(srcq) < SourceCap /\ srcq' = Append(srcq, src.n + 1)
    BY <1>1, LenProperties DEF SessionType, SourceType, WriterType, DaemonType, Produce
  <2>. QED BY <1>3, <2>1, AppendProperties, SessionConstants
<1>5. UNCHANGED <<setup, phase, answer, agg, frames, encoded, sv, buf, sctx, reader, stopping,
                  wire, back, sOpen, dOpen, broken, dd, dctx, closer, manager, got, queued>>
  BY DEF Produce, netVars, daemonVars
<1>6. SessionType'
  <2>1. src' \in [n : 0 .. MaxPackets, on : BOOLEAN, err : {"none", "error", "cancel"}]
    BY <1>1, <1>3 DEF SessionType, SourceType, WriterType, DaemonType
  <2>2. SourceType'
    BY <1>1, <1>4, <1>5, <2>1 DEF SessionType, SourceType
  <2>. QED BY <1>1, <1>5, <2>2, WriterTypeKept, DaemonTypeKept DEF SessionType
<1>7. SourceInv' /\ Observed' = Observed
  <2>1. Observed' = Observed /\ Observed \in Nat /\ Len(srcq) <= src.n
    BY <1>1, <1>3, <1>4 DEF Observed, SourceInv
  <2>2. \A i \in 1 .. Len(srcq') : srcq'[i] = Observed + i
    <3> TAKE i \in 1 .. Len(srcq')
    <3>1. CASE i = Len(srcq) + 1
      BY <1>3, <1>4, <3>1 DEF Observed
    <3>2. CASE i # Len(srcq) + 1
      <4>1. i \in 1 .. Len(srcq)
        BY <1>4, <3>2
      <4>. QED BY <1>1, <1>4, <4>1 DEF SourceInv
    <3>. QED BY <3>1, <3>2
  <2>. QED BY <1>1, <1>3, <1>4, <1>5, <2>1, <2>2 DEF SourceInv
<1>8. AggregateInv'
  <2>1. (Raw' <=> Raw) /\ Seen_' = Seen_
    BY <1>5, <1>7 DEF Raw, Seen_
  <2>2. ~ Raw => ~ (agg.pc \in {"flush", "done"} /\ ~ agg.stopped /\ agg.err = "none")
    BY <1>1, <1>3 DEF AggregateInv
  <2>. QED BY <1>1, <1>5, <2>1, <2>2 DEF AggregateInv
<1>9. Stream(a, b)'
  <2>1. Passed' = Passed
    BY <1>3, <1>4, <1>5 DEF Passed, Total, In, Raw
  <2>2. List' = List
    BY <1>5 DEF List, Raw
  <2>3. Exhausted => Exhausted' /\ Total' = Total
    BY <1>3, <1>5 DEF Exhausted, InClosed, In, Total, Raw
  <2>4. \A n : Given(n) => Given(n)'
    BY <1>3, <1>5 DEF Given, Decoded, Raw
  <2>. QED BY <1>1, <1>2, <1>5, <2>1, <2>2, <2>3, <2>4, StreamGrows
<1>. QED BY <1>1, <1>5, <1>6, <1>7, <1>8, <1>9, WriterKept, HandshakeKept DEF SessionInv, StreamInv

LEMMA SourceEndsStep ==
    ASSUME SessionInv, NEW err \in {"none", "error", "cancel"}, SourceEnds(err)
    PROVE  SessionInv'
<1>1. SessionType /\ WriterInv /\ SourceInv /\ AggregateInv /\ HandshakeInv /\ phase = "answered"
  BY Running DEF SessionInv, SourceEnds
<1>2. PICK a, b : Stream(a, b)
  BY DEF SessionInv, StreamInv
<1>3. src' = [n |-> src.n, on |-> FALSE, err |-> err] /\ src.on
  BY <1>1 DEF SessionType, SourceType, WriterType, DaemonType, SourceEnds
<1>4. src'.n = src.n /\ ~ src'.on
  BY <1>3
<1>5. UNCHANGED <<setup, phase, answer, srcq, agg, frames, encoded, sv, buf, sctx, reader, stopping,
                  wire, back, sOpen, dOpen, broken, dd, dctx, closer, manager, got, queued>>
  BY DEF SourceEnds, netVars, daemonVars
<1>6. SessionType'
  <2>1. src' \in [n : 0 .. MaxPackets, on : BOOLEAN, err : {"none", "error", "cancel"}]
    BY <1>1, <1>3 DEF SessionType, SourceType, WriterType, DaemonType
  <2>2. SourceType'
    BY <1>1, <1>5, <2>1 DEF SessionType, SourceType
  <2>. QED BY <1>1, <1>5, <2>2, WriterTypeKept, DaemonTypeKept DEF SessionType
<1>7. SourceInv' /\ Observed' = Observed
  BY <1>1, <1>4, <1>5 DEF SourceInv, Observed
<1>8. AggregateInv'
  <2>1. (Raw' <=> Raw) /\ Seen_' = Seen_
    BY <1>5, <1>7 DEF Raw, Seen_
  <2>2. ~ Raw => ~ (agg.pc \in {"flush", "done"} /\ ~ agg.stopped /\ agg.err = "none")
    BY <1>1, <1>3 DEF AggregateInv
  <2>. QED BY <1>1, <1>5, <2>1, <2>2 DEF AggregateInv
<1>9. Stream(a, b)'
  <2>1. Passed' = Passed /\ Total' = Total /\ List' = List /\ (Raw' <=> Raw)
    BY <1>4, <1>5 DEF Passed, Total, In, Raw, List
  <2>2. Exhausted => Exhausted'
    BY <1>3, <1>5 DEF Exhausted, InClosed, In, Raw
  <2>3. \A n : Given(n) => Given(n)'
    BY <1>4, <1>5 DEF Given, Decoded, Raw
  <2>. QED BY <1>1, <1>2, <1>5, <2>1, <2>2, <2>3, StreamGrows
<1>. QED BY <1>1, <1>5, <1>6, <1>7, <1>8, <1>9, WriterKept, HandshakeKept DEF SessionInv, StreamInv

-----------------------------------------------------------------------------
(* Aggregate.  All its steps leave the serving goroutine alone.            *)

AggStepOf ==
    /\ SourceType' /\ SourceInv' /\ AggregateInv' /\ src'.n = src.n /\ Passed' = Passed
    /\ Len(encoded) <= Len(encoded') /\ \A i \in 1 .. Len(encoded) : encoded'[i] = encoded[i]

LEMMA AggregateRuns ==
    ASSUME SessionInv, Aggregate
    PROVE  /\ SessionType /\ SourceInv /\ AggregateInv /\ phase = "answered" /\ ~ Raw /\ agg.pc \in {"loop", "emit", "flush"}
           /\ UNCHANGED <<setup, phase, answer, sv, buf, sctx, reader, stopping,
                          wire, back, sOpen, dOpen, broken, dd, dctx, closer, manager, got, queued>>
<1>1. SessionType /\ SourceInv /\ AggregateInv /\ HandshakeInv
  BY DEF SessionInv
<1>2. agg.pc \in {"loop", "flush"} \/ agg.hand # 0
  BY DEF Aggregate, AggStop, AggError, AggEnd, AggObserve, AggFlush, Emit, EmitGone
<1>3. ~ Raw /\ agg.pc \in {"loop", "emit", "flush"} /\ phase = "answered"
  BY <1>1, <1>2, TypeFacts, Running DEF AggregateInv
<1>4. UNCHANGED rest
  BY DEF Aggregate, AggStop, AggError, AggEnd, AggObserve, AggFlush, Emit, EmitGone
<1>. QED BY <1>1, <1>3, <1>4 DEF rest, netVars, daemonVars

LEMMA AggregateKeeps ==
    ASSUME SessionInv, Aggregate, AggStepOf
    PROVE  SessionInv'
<1>1. PICK a, b : Stream(a, b)
  BY DEF SessionInv, StreamInv
<1>2. SessionType'
  BY AggregateRuns, WriterTypeKept, DaemonTypeKept DEF SessionType, AggStepOf
<1>3. Raw' <=> Raw
  BY AggregateRuns DEF Raw
<1>4. Total \in Nat /\ Total = Len(encoded) /\ ~ Exhausted
  BY AggregateRuns, NextFrame DEF Total, Exhausted, InClosed
<1>5. \A i \in 1 .. Total : List'[i] = List[i]
  <2>1. ~ Raw /\ ~ Raw'
    BY <1>3, AggregateRuns
  <2>2. \A i \in Nat : List[i] = <<"record", encoded[i]>> /\ List'[i] = <<"record", encoded'[i]>>
    BY <2>1 DEF List
  <2>3. \A i \in 1 .. Total : i \in Nat /\ encoded'[i] = encoded[i]
    BY <1>4 DEF AggStepOf
  <2>. QED BY <2>2, <2>3
<1>6. \A n : Given(n) => Given(n)'
  <2> SUFFICES ASSUME NEW n, Given(n) PROVE Given(n)'
    OBVIOUS
  <2>1. n \in 0 .. Len(encoded) /\ Len(got) = n /\ \A i \in 1 .. n : got[i] = encoded[i]
    BY AggregateRuns DEF Given
  <2>2. encoded' \in Seq(Nat) /\ Len(encoded') \in Nat /\ Len(encoded) \in Nat /\ got' = got
    BY <1>4, AggregateRuns, LenProperties DEF AggStepOf, SourceType
  <2>3. n \in 0 .. Len(encoded') /\ \A i \in 1 .. n : i \in 1 .. Len(encoded)
    BY <2>1, <2>2 DEF AggStepOf
  <2>. QED BY <1>3, <2>1, <2>2, <2>3, AggregateRuns DEF Given, AggStepOf
<1>7. Stream(a, b)'
  BY <1>1, <1>4, <1>5, <1>6, AggregateRuns, StreamGrows DEF AggStepOf
<1>8. WriterInv' /\ HandshakeInv'
  BY AggregateRuns, WriterKept, HandshakeKept DEF SessionInv
<1>. QED BY <1>2, <1>7, <1>8 DEF SessionInv, StreamInv, AggStepOf

\* A step that leaves frames and records alone, too.
LEMMA AggregateSays ==
    ASSUME SessionInv, Aggregate, SourceType', SourceInv', AggregateInv', src'.n = src.n, UNCHANGED <<frames, encoded>>
    PROVE  SessionInv'
<1>1. Raw' <=> Raw
  BY AggregateRuns DEF Raw
<1>2. Passed' = Passed
  BY <1>1, AggregateRuns DEF Passed, Total, In
<1>3. Len(encoded) <= Len(encoded')
  BY AggregateRuns, LenProperties DEF SessionType, SourceType
<1>4. AggStepOf
  BY <1>2, <1>3 DEF AggStepOf
<1>. QED BY <1>4, AggregateKeeps

LEMMA AggStopStep ==
    ASSUME SessionInv, AggStop
    PROVE  SessionInv'
<1>1. Aggregate
  BY DEF Aggregate
<1>2. agg' = [pc |-> "flush", held |-> agg.held, hand |-> agg.hand, stopped |-> TRUE, err |-> agg.err]
  BY <1>1, AggregateRuns DEF AggStop, SessionType, SourceType
<1>3. agg.pc = "loop" /\ UNCHANGED <<src, srcq, frames, encoded>>
  BY DEF AggStop
<1>4. SourceType'
  <2>1. agg' \in [pc : {"off", "loop", "emit", "flush", "done"}, held : SUBSET (1 .. MaxPackets), hand : Nat,
                  stopped : BOOLEAN, err : {"none", "error", "cancel"}]
    BY <1>1, <1>2, AggregateRuns, TypeFacts
  <2>. QED BY <1>1, <1>3, <2>1, AggregateRuns DEF SessionType, SourceType
<1>5. SourceInv' /\ Seen_' = Seen_
  BY <1>1, <1>3, AggregateRuns DEF SourceInv, Seen_, Observed
<1>6. /\ agg'.pc = "flush" /\ agg'.held = agg.held /\ agg'.hand = agg.hand /\ agg'.stopped
      /\ agg'.err = agg.err
  BY <1>2
<1>7. AggregateInv'
  <2>1. Raw' <=> Raw
    BY <1>1, AggregateRuns DEF Raw
  <2>. QED BY <1>1, <1>3, <1>5, <1>6, <2>1, AggregateRuns DEF AggregateInv
<1>. QED BY <1>1, <1>3, <1>4, <1>5, <1>7, AggregateSays

LEMMA AggErrorStep ==
    ASSUME SessionInv, AggError
    PROVE  SessionInv'
<1>1. Aggregate
  BY DEF Aggregate
<1>2. /\ agg' = [pc |-> "flush", held |-> agg.held, hand |-> agg.hand, stopped |-> agg.stopped, err |-> src.err]
      /\ src' = [n |-> src.n, on |-> src.on, err |-> "none"]
  BY <1>1, AggregateRuns DEF AggError, SessionType, SourceType
<1>3. agg.pc = "loop" /\ src.err # "none" /\ UNCHANGED <<srcq, frames, encoded>>
  BY DEF AggError
<1>4. SourceType'
  <2>1. agg' \in [pc : {"off", "loop", "emit", "flush", "done"}, held : SUBSET (1 .. MaxPackets), hand : Nat,
                  stopped : BOOLEAN, err : {"none", "error", "cancel"}]
    BY <1>1, <1>2, AggregateRuns DEF SessionType, SourceType
  <2>2. src' \in [n : 0 .. MaxPackets, on : BOOLEAN, err : {"none", "error", "cancel"}]
    BY <1>1, <1>2, AggregateRuns DEF SessionType, SourceType
  <2>. QED BY <1>1, <1>3, <2>1, <2>2, AggregateRuns DEF SessionType, SourceType
<1>5. /\ agg'.pc = "flush" /\ agg'.held = agg.held /\ agg'.hand = agg.hand /\ agg'.err # "none"
      /\ (agg'.stopped <=> agg.stopped) /\ src'.n = src.n
  BY <1>2, <1>3
<1>6. SourceInv' /\ Seen_' = Seen_
  BY <1>1, <1>3, <1>5, AggregateRuns DEF SourceInv, Seen_, Observed
<1>7. AggregateInv'
  <2>1. Raw' <=> Raw
    BY <1>1, AggregateRuns DEF Raw
  <2>. QED BY <1>1, <1>3, <1>5, <1>6, <2>1, AggregateRuns DEF AggregateInv
<1>. QED BY <1>1, <1>3, <1>4, <1>5, <1>6, <1>7, AggregateSays

LEMMA AggEndStep ==
    ASSUME SessionInv, AggEnd
    PROVE  SessionInv'
<1>1. Aggregate
  BY DEF Aggregate
<1>2. agg' = [pc |-> "flush", held |-> agg.held, hand |-> agg.hand, stopped |-> agg.stopped, err |-> agg.err]
  BY <1>1, AggregateRuns DEF AggEnd, SessionType, SourceType
<1>3. agg.pc = "loop" /\ ~ src.on /\ srcq = <<>> /\ UNCHANGED <<src, srcq, frames, encoded>>
  BY DEF AggEnd
<1>4. SourceType'
  <2>1. agg' \in [pc : {"off", "loop", "emit", "flush", "done"}, held : SUBSET (1 .. MaxPackets), hand : Nat,
                  stopped : BOOLEAN, err : {"none", "error", "cancel"}]
    BY <1>1, <1>2, AggregateRuns DEF SessionType, SourceType
  <2>. QED BY <1>1, <1>3, <2>1, AggregateRuns DEF SessionType, SourceType
<1>5. SourceInv' /\ Seen_' = Seen_
  BY <1>1, <1>3, AggregateRuns DEF SourceInv, Seen_, Observed
<1>6. /\ agg'.pc = "flush" /\ agg'.held = agg.held /\ agg'.hand = agg.hand /\ agg'.err = agg.err
      /\ (agg'.stopped <=> agg.stopped)
  BY <1>2
<1>7. AggregateInv'
  <2>1. Raw' <=> Raw
    BY <1>1, AggregateRuns DEF Raw
  <2>2. ~ src'.on /\ srcq' = <<>>
    BY <1>3
  <2>. QED BY <1>1, <1>3, <1>5, <1>6, <2>1, <2>2, AggregateRuns DEF AggregateInv
<1>. QED BY <1>1, <1>3, <1>4, <1>5, <1>7, AggregateSays

LEMMA AggObserveStep ==
    ASSUME SessionInv, AggObserve
    PROVE  SessionInv'
<1> DEFINE packet == Head(srcq)
           held == agg.held \cup ({packet} \ Bad)
<1>1. Aggregate
  BY DEF Aggregate
<1>2. agg.pc = "loop" /\ agg.hand = 0 /\ UNCHANGED <<src, frames, encoded>>
  BY <1>1, AggregateRuns DEF AggObserve, AggregateInv
<1>3. /\ srcq' \in Seq(Nat) /\ Len(srcq) \in Nat \ {0} /\ Len(srcq') = Len(srcq) - 1
      /\ (\A i \in 1 .. Len(srcq') : srcq'[i] = srcq[i + 1]) /\ packet = srcq[1] /\ srcq # <<>>
      /\ Len(srcq') <= SourceCap
  <2>1. srcq \in Seq(Nat) /\ srcq # <<>> /\ srcq' = Tail(srcq) /\ Len(srcq) <= SourceCap
    BY <1>1, AggregateRuns DEF AggObserve, SessionType, SourceType
  <2>. QED BY <2>1, HeadTailProperties, EmptySeq, LenProperties, SessionConstants
<1>4. /\ Observed \in Nat /\ Observed + 1 <= src.n /\ Observed' = Observed + 1 /\ packet = Observed + 1
      /\ src.n \in Nat /\ src.n <= MaxPackets
  <2>1. src.n \in Nat /\ src.n <= MaxPackets
    BY <1>1, AggregateRuns, TypeFacts
  <2>2. 1 \in 1 .. Len(srcq)
    BY <1>3
  <2>3. Len(srcq) <= src.n /\ srcq[1] = Observed + 1
    BY <1>1, <2>2, AggregateRuns DEF SourceInv
  <2>. QED BY <1>2, <1>3, <2>1, <2>3 DEF Observed
<1>5. Seen_' = Seen_ \cup ({packet} \ Bad) /\ packet \notin Seen_ /\ packet # 0
  <2>1. 1 .. Observed + 1 = 1 .. Observed \cup {Observed + 1}
    BY <1>4
  <2>. QED BY <1>4, <2>1 DEF Seen_
<1>6. \/ agg' = [pc |-> "loop", held |-> held, hand |-> 0, stopped |-> agg.stopped, err |-> agg.err]
      \/ \E p \in held : agg' = [pc |-> "emit", held |-> held \ {p}, hand |-> p,
                                 stopped |-> agg.stopped, err |-> agg.err]
  BY <1>1, <1>2, AggregateRuns DEF AggObserve, SessionType, SourceType
<1>7. packet \in 1 .. MaxPackets /\ held \subseteq 1 .. MaxPackets /\ held \subseteq Seen_' /\ 0 \notin held
  <2>1. packet \in 1 .. MaxPackets
    BY <1>4, SessionConstants
  <2>2. agg.held \subseteq Seen_ /\ agg.held \subseteq 1 .. MaxPackets
    BY <1>1, AggregateRuns, TypeFacts DEF AggregateInv
  <2>. QED BY <1>5, <2>1, <2>2
<1> HIDE DEF held, packet
<1>8. SourceInv'
  <2>1. \A i \in 1 .. Len(srcq') : srcq'[i] = Observed' + i
    <3> TAKE i \in 1 .. Len(srcq')
    <3>1. i + 1 \in 1 .. Len(srcq)
      BY <1>3
    <3>2. srcq[i + 1] = Observed + (i + 1)
      BY <1>1, <3>1, AggregateRuns DEF SourceInv
    <3>. QED BY <1>3, <1>4, <3>2
  <2>. QED BY <1>1, <1>2, <1>3, <1>4, <2>1, AggregateRuns DEF SourceInv
<1>9. ~ Raw /\ (Raw' <=> Raw)
  BY <1>1, AggregateRuns DEF Raw
<1>10. /\ \A i \in 1 .. Len(encoded) : encoded[i] \in Seen_ /\ encoded[i] \notin held
       /\ \A i, j \in 1 .. Len(encoded) : encoded[i] = encoded[j] => i = j
       /\ ~ agg.stopped => \A x \in Seen_ : x \in agg.held \/ \E i \in 1 .. Len(encoded) : encoded[i] = x
  <2>1. /\ \A i \in 1 .. Len(encoded) : encoded[i] \in Seen_ /\ encoded[i] \notin agg.held
        /\ \A i, j \in 1 .. Len(encoded) : encoded[i] = encoded[j] => i = j
    BY <1>1, <1>9, AggregateRuns DEF AggregateInv
  <2>2. ~ agg.stopped => \A x \in Seen_ : x \in agg.held \/ \E i \in 1 .. Len(encoded) : encoded[i] = x
    BY <1>1, <1>2, <1>4, <1>9, AggregateRuns DEF AggregateInv, Seen_
  <2>3. \A i \in 1 .. Len(encoded) : encoded[i] # packet
    BY <1>5, <2>1
  <2>. QED BY <2>1, <2>2, <2>3 DEF held
<1>11. ~ agg.stopped => \A x \in Seen_' : x \in held \/ \E i \in 1 .. Len(encoded) : encoded[i] = x
  BY <1>5, <1>10 DEF held
<1>12. SourceType' /\ AggregateInv'
  <2>1. CASE agg' = [pc |-> "loop", held |-> held, hand |-> 0, stopped |-> agg.stopped, err |-> agg.err]
    <3>1. agg' \in [pc : {"off", "loop", "emit", "flush", "done"}, held : SUBSET (1 .. MaxPackets), hand : Nat,
                    stopped : BOOLEAN, err : {"none", "error", "cancel"}]
      BY <1>1, <1>7, <2>1, AggregateRuns DEF SessionType, SourceType
    <3>2. SourceType'
      <4>1. SourceType
        BY <1>1, AggregateRuns DEF SessionType
      <4>. QED BY <1>2, <1>3, <3>1, <4>1 DEF SourceType
    <3>3. agg'.pc = "loop" /\ agg'.held = held /\ agg'.hand = 0 /\ (agg'.stopped <=> agg.stopped)
      BY <2>1
    <3>4. \A i \in 1 .. Len(encoded) : encoded[i] # 0
      BY <1>4, <1>10 DEF Seen_
    <3>5. AggregateInv'
      BY <1>2, <1>5, <1>7, <1>9, <1>10, <1>11, <3>3, <3>4 DEF AggregateInv
    <3>. QED BY <3>2, <3>5
  <2>2. CASE \E p \in held : agg' = [pc |-> "emit", held |-> held \ {p}, hand |-> p,
                                     stopped |-> agg.stopped, err |-> agg.err]
    <3>1. PICK p \in held : agg' = [pc |-> "emit", held |-> held \ {p}, hand |-> p,
                                    stopped |-> agg.stopped, err |-> agg.err]
      BY <2>2
    <3>2. p \in Nat /\ p \in Seen_'
      BY <1>7, SessionConstants
    <3>3. agg' \in [pc : {"off", "loop", "emit", "flush", "done"}, held : SUBSET (1 .. MaxPackets), hand : Nat,
                    stopped : BOOLEAN, err : {"none", "error", "cancel"}]
      BY <1>1, <1>7, <3>1, <3>2, AggregateRuns DEF SessionType, SourceType
    <3>4. SourceType'
      <4>1. SourceType
        BY <1>1, AggregateRuns DEF SessionType
      <4>. QED BY <1>2, <1>3, <3>3, <4>1 DEF SourceType
    <3>5. agg'.pc = "emit" /\ agg'.held = held \ {p} /\ agg'.hand = p /\ (agg'.stopped <=> agg.stopped)
      BY <3>1
    <3>6. AggregateInv'
      BY <1>2, <1>5, <1>7, <1>9, <1>10, <1>11, <3>2, <3>5 DEF AggregateInv
    <3>. QED BY <3>4, <3>6
  <2>. QED BY <1>6, <2>1, <2>2
<1>. QED BY <1>1, <1>2, <1>8, <1>12, AggregateSays

LEMMA AggFlushStep ==
    ASSUME SessionInv, AggFlush
    PROVE  SessionInv'
<1>1. Aggregate
  BY DEF Aggregate
<1>2. agg.pc = "flush" /\ agg.hand = 0 /\ UNCHANGED <<src, srcq, frames, encoded>>
  BY DEF AggFlush
<1>3. PICK pc \in {"flush", "done"}, held \in SUBSET agg.held, hand \in agg.held \cup {0} :
        /\ agg' = [pc |-> pc, held |-> held, hand |-> hand, stopped |-> agg.stopped, err |-> agg.err]
        /\ hand \notin held
        /\ pc = "done" => held = {} /\ hand = 0
        /\ ~ agg.stopped => agg.held = held \cup ({hand} \ {0})
  <2>1. agg = [pc |-> "flush", held |-> agg.held, hand |-> 0, stopped |-> agg.stopped, err |-> agg.err]
        /\ 0 \notin agg.held
    <3>1. agg.held \subseteq 1 .. MaxPackets
      BY <1>1, AggregateRuns, TypeFacts
    <3>2. 0 \notin agg.held
      BY <3>1
    <3>. QED BY <1>1, <1>2, <3>2, AggregateRuns DEF SessionType, SourceType
  <2>2. CASE agg.held = {}
    <3>1. agg' = [pc |-> "done", held |-> {}, hand |-> 0, stopped |-> agg.stopped, err |-> agg.err]
      BY <2>1, <2>2 DEF AggFlush
    <3>. QED BY <2>2, <3>1
  <2>3. CASE agg.held # {} /\ agg.stopped
    <3>1. agg' = [pc |-> "flush", held |-> {}, hand |-> 0, stopped |-> agg.stopped, err |-> agg.err]
      BY <2>1, <2>3 DEF AggFlush
    <3>. QED BY <2>3, <3>1
  <2>4. CASE agg.held # {} /\ ~ agg.stopped
    <3>1. PICK p \in agg.held : agg' = [agg EXCEPT !.held = @ \ {p}, !.hand = p]
      BY <2>4 DEF AggFlush
    <3>2. agg' = [pc |-> "flush", held |-> agg.held \ {p}, hand |-> p, stopped |-> agg.stopped, err |-> agg.err]
      BY <1>1, <1>2, <3>1, AggregateRuns DEF SessionType, SourceType
    <3>3. agg.held = (agg.held \ {p}) \cup ({p} \ {0}) /\ p \notin agg.held \ {p}
      BY <2>1, <3>1
    <3>. QED BY <3>2, <3>3
  <2>. QED BY <2>2, <2>3, <2>4
<1>4. SourceType'
  <2>1. agg.held \subseteq 1 .. MaxPackets /\ hand \in Nat
    <3>1. agg.held \subseteq 1 .. MaxPackets
      BY <1>1, AggregateRuns, TypeFacts
    <3>2. \A x \in agg.held \cup {0} : x \in Nat
      BY <3>1, SessionConstants
    <3>. QED BY <1>3, <3>1, <3>2
  <2>2. agg' \in [pc : {"off", "loop", "emit", "flush", "done"}, held : SUBSET (1 .. MaxPackets), hand : Nat,
                  stopped : BOOLEAN, err : {"none", "error", "cancel"}]
    BY <1>1, <1>3, <2>1, AggregateRuns DEF SessionType, SourceType
  <2>3. SourceType
    BY <1>1, AggregateRuns DEF SessionType
  <2>. QED BY <1>2, <2>2, <2>3 DEF SourceType
<1>5. SourceInv' /\ Seen_' = Seen_
  BY <1>1, <1>2, AggregateRuns DEF SourceInv, Seen_, Observed
<1>6. /\ agg'.pc = pc /\ agg'.held = held /\ agg'.hand = hand /\ agg'.err = agg.err
      /\ (agg'.stopped <=> agg.stopped)
  BY <1>3
<1>7. ~ Raw /\ ~ Raw'
  BY <1>1, AggregateRuns DEF Raw
<1>8. /\ agg.held \subseteq Seen_ /\ 0 \notin Seen_
      /\ \A i \in 1 .. Len(encoded) : encoded[i] \in Seen_ /\ encoded[i] \notin agg.held
      /\ \A i, j \in 1 .. Len(encoded) : encoded[i] = encoded[j] => i = j
      /\ ~ agg.stopped /\ agg.err = "none" => ~ src.on /\ srcq = <<>>
  <2>1. 0 \notin Seen_
    BY DEF Seen_
  <2>. QED BY <1>1, <1>2, <1>7, <2>1, AggregateRuns DEF AggregateInv
<1>9. ~ agg.stopped => \A x \in Seen_ : x \in held \/ x = hand \/ \E i \in 1 .. Len(encoded) : encoded[i] = x
  <2>1. ~ agg.stopped => \A x \in Seen_ : x \in agg.held \/ \E i \in 1 .. Len(encoded) : encoded[i] = x
    BY <1>1, <1>2, <1>7, <1>8, AggregateRuns DEF AggregateInv
  <2>. QED BY <1>3, <2>1
<1>10. AggregateInv'
  <2>1. /\ held \subseteq Seen_ /\ hand \in Seen_ \cup {0} /\ hand \notin held
        /\ \A i \in 1 .. Len(encoded) : encoded[i] \notin held /\ encoded[i] # hand
    BY <1>3, <1>8
  <2>2. ~ src'.on <=> ~ src.on
    BY <1>2
  <2>. QED BY <1>2, <1>3, <1>5, <1>6, <1>7, <1>8, <1>9, <2>1, <2>2 DEF AggregateInv
<1>. QED BY <1>1, <1>2, <1>4, <1>5, <1>10, AggregateSays

LEMMA EmitGoneStep ==
    ASSUME SessionInv, EmitGone
    PROVE  SessionInv'
<1> DEFINE pc == IF agg.pc = "emit" THEN "loop" ELSE agg.pc
<1>1. Aggregate
  BY DEF Aggregate
<1>2. agg' = [pc |-> pc, held |-> agg.held, hand |-> 0, stopped |-> TRUE, err |-> agg.err]
  BY <1>1, AggregateRuns DEF EmitGone, SessionType, SourceType
<1>3. UNCHANGED <<src, srcq, frames, encoded>>
  BY DEF EmitGone
<1>4. pc \in {"loop", "flush"}
  BY <1>1, AggregateRuns
<1> HIDE DEF pc
<1>5. SourceType'
  <2>1. agg' \in [pc : {"off", "loop", "emit", "flush", "done"}, held : SUBSET (1 .. MaxPackets), hand : Nat,
                  stopped : BOOLEAN, err : {"none", "error", "cancel"}]
    BY <1>1, <1>2, <1>4, AggregateRuns DEF SessionType, SourceType
  <2>2. SourceType
    BY <1>1, AggregateRuns DEF SessionType
  <2>. QED BY <1>3, <2>1, <2>2 DEF SourceType
<1>6. SourceInv' /\ Seen_' = Seen_
  BY <1>1, <1>3, AggregateRuns DEF SourceInv, Seen_, Observed
<1>7. agg'.pc = pc /\ agg'.held = agg.held /\ agg'.hand = 0 /\ agg'.stopped /\ agg'.err = agg.err
  BY <1>2
<1>8. AggregateInv'
  <2>1. ~ Raw /\ ~ Raw' /\ 0 \notin Seen_
    BY <1>1, AggregateRuns DEF Raw, Seen_
  <2>2. /\ agg.held \subseteq Seen_
        /\ \A i \in 1 .. Len(encoded) : encoded[i] \in Seen_ /\ encoded[i] \notin agg.held
        /\ \A i, j \in 1 .. Len(encoded) : encoded[i] = encoded[j] => i = j
    BY <1>1, <2>1, AggregateRuns DEF AggregateInv
  <2>3. 0 \notin agg.held /\ \A i \in 1 .. Len(encoded) : encoded[i] # 0
    BY <2>1, <2>2
  <2>. QED BY <1>3, <1>4, <1>6, <1>7, <2>1, <2>2, <2>3 DEF AggregateInv
<1>. QED BY <1>1, <1>3, <1>5, <1>6, <1>8, AggregateSays

LEMMA EmitStep ==
    ASSUME SessionInv, Emit
    PROVE  SessionInv'
<1> DEFINE pc == IF agg.pc = "emit" THEN "loop" ELSE agg.pc
           n == Len(encoded)
           m == Len(frames)
<1>1. Aggregate
  BY DEF Aggregate
<1>2. agg' = [pc |-> pc, held |-> agg.held, hand |-> 0, stopped |-> agg.stopped, err |-> agg.err]
  BY <1>1, AggregateRuns DEF Emit, SessionType, SourceType
<1>3. agg.hand # 0 /\ UNCHANGED <<src, srcq>>
  BY DEF Emit
<1>4. pc \in {"loop", "flush"} /\ (pc = "flush" => agg.pc = "flush")
  BY <1>1, AggregateRuns
<1> HIDE DEF pc
<1>5. /\ n \in Nat /\ m \in Nat /\ m < FramesCap /\ m <= n /\ agg.hand \in Nat
      /\ encoded' \in Seq(Nat) /\ Len(encoded') = n + 1 /\ encoded'[n + 1] = agg.hand
      /\ (\A i \in 1 .. n : encoded'[i] = encoded[i])
      /\ frames' \in Seq(Nat) /\ Len(frames') = m + 1 /\ frames'[m + 1] = agg.hand
      /\ (\A i \in 1 .. m : frames'[i] = frames[i])
  <2>1. encoded \in Seq(Nat) /\ frames \in Seq(Nat) /\ agg.hand \in Nat
    BY <1>1, AggregateRuns, TypeFacts DEF SessionType, SourceType
  <2>2. encoded' = Append(encoded, agg.hand) /\ frames' = Append(frames, agg.hand) /\ m < FramesCap
    BY DEF Emit
  <2>3. m <= n
    BY <1>1, AggregateRuns DEF SourceInv
  <2>. QED BY <2>1, <2>2, <2>3, AppendProperties, LenProperties
<1>6. SourceType'
  <2>1. agg' \in [pc : {"off", "loop", "emit", "flush", "done"}, held : SUBSET (1 .. MaxPackets), hand : Nat,
                  stopped : BOOLEAN, err : {"none", "error", "cancel"}]
    BY <1>1, <1>2, <1>4, AggregateRuns DEF SessionType, SourceType
  <2>2. SourceType /\ Len(frames') <= FramesCap
    BY <1>1, <1>5, AggregateRuns, SessionConstants DEF SessionType
  <2>. QED BY <1>3, <1>5, <2>1, <2>2 DEF SourceType
<1>7. SourceInv' /\ Seen_' = Seen_
  <2>1. Seen_' = Seen_ /\ Observed' = Observed /\ SourceInv
    BY <1>1, <1>3, AggregateRuns DEF Seen_, Observed
  <2>2. \A i \in 1 .. m + 1 : frames'[i] = encoded'[n - m + i]
    <3> TAKE i \in 1 .. m + 1
    <3>1. CASE i = m + 1
      BY <1>5, <3>1
    <3>2. CASE i # m + 1
      <4>1. i \in 1 .. m /\ n - m + i \in 1 .. n
        BY <1>5, <3>2
      <4>2. frames[i] = encoded[n - m + i]
        BY <2>1, <4>1 DEF SourceInv
      <4>. QED BY <1>5, <4>1, <4>2
    <3>. QED BY <3>1, <3>2
  <2>3. Len(encoded') - Len(frames') = n - m /\ Len(frames') <= Len(encoded')
    BY <1>5
  <2>. QED BY <1>3, <1>5, <2>1, <2>2, <2>3 DEF SourceInv
<1>8. agg'.pc = pc /\ agg'.held = agg.held /\ agg'.hand = 0 /\ (agg'.stopped <=> agg.stopped) /\ agg'.err = agg.err
  BY <1>2
<1>9. ~ Raw /\ ~ Raw' /\ 0 \notin Seen_
  BY <1>1, AggregateRuns DEF Raw, Seen_
<1>10. /\ agg.held \subseteq Seen_ /\ agg.hand \in Seen_ /\ agg.hand \notin agg.held
       /\ \A i \in 1 .. n : encoded[i] \in Seen_ /\ encoded[i] \notin agg.held /\ encoded[i] # agg.hand
       /\ \A i, j \in 1 .. n : encoded[i] = encoded[j] => i = j
       /\ agg.pc = "flush" /\ ~ agg.stopped /\ agg.err = "none" => ~ src.on /\ srcq = <<>>
  BY <1>1, <1>3, <1>9, AggregateRuns DEF AggregateInv
<1>11. ~ agg.stopped => \A x \in Seen_ : x \in agg.held \/ x = agg.hand \/ \E i \in 1 .. n : encoded[i] = x
  BY <1>1, <1>9, AggregateRuns DEF AggregateInv
<1>12. \A i \in 1 .. n + 1 : i = n + 1 \/ i \in 1 .. n
  BY <1>5
<1>13. /\ \A i \in 1 .. n + 1 : encoded'[i] \in Seen_ /\ encoded'[i] \notin agg.held /\ encoded'[i] # 0
       /\ \A i, j \in 1 .. n + 1 : encoded'[i] = encoded'[j] => i = j
  <2>1. \A i \in 1 .. n + 1 : encoded'[i] \in Seen_ /\ encoded'[i] \notin agg.held
    BY <1>5, <1>10, <1>12
  <2>2. \A i \in 1 .. n + 1 : encoded'[i] # 0
    BY <1>9, <2>1
  <2>3. ASSUME NEW i \in 1 .. n + 1, NEW j \in 1 .. n + 1, encoded'[i] = encoded'[j] PROVE i = j
    <3>1. CASE i \in 1 .. n /\ j \in 1 .. n
      BY <1>5, <1>10, <2>3, <3>1
    <3>2. CASE i \in 1 .. n /\ j = n + 1
      BY <1>5, <1>10, <2>3, <3>2
    <3>3. CASE i = n + 1 /\ j \in 1 .. n
      BY <1>5, <1>10, <2>3, <3>3
    <3>. QED BY <1>12, <3>1, <3>2, <3>3
  <2>. QED BY <2>1, <2>2, <2>3
<1>14. ~ agg.stopped => \A x \in Seen_ : x \in agg.held \/ \E i \in 1 .. n + 1 : encoded'[i] = x
  <2>1. n + 1 \in 1 .. n + 1 /\ \A i \in 1 .. n : i \in 1 .. n + 1
    BY <1>5
  <2>. QED BY <1>5, <1>11, <2>1
<1>15. AggregateInv'
  <2>1. pc \in {"flush", "done"} => agg.pc = "flush"
    BY <1>4
  <2>2. 0 \notin agg.held /\ Len(encoded') = n + 1
    BY <1>5, <1>9, <1>10
  <2>. QED BY <1>3, <1>4, <1>7, <1>8, <1>9, <1>10, <1>13, <1>14, <2>1, <2>2 DEF AggregateInv
<1>16. Passed' = Passed
  <2>1. Passed = n - m
    BY <1>9 DEF Passed, Total, In
  <2>2. Passed' = Len(encoded') - Len(frames')
    BY <1>9 DEF Passed, Total, In
  <2>. QED BY <1>5, <2>1, <2>2
<1>17. src'.n = src.n /\ n <= Len(encoded')
  BY <1>3, <1>5
<1>18. AggStepOf
  BY <1>5, <1>6, <1>7, <1>15, <1>16, <1>17 DEF AggStepOf
<1>. QED BY <1>1, <1>18, AggregateKeeps

-----------------------------------------------------------------------------
(* serveConn and its writer.                                               *)

LEMMA HandedKept ==
    ASSUME NEW a, Handed(a), UNCHANGED <<setup, src, srcq, agg, frames, encoded, dd, dctx, got>>
    PROVE  Handed(a)'
BY SameSource, GivenKept DEF Handed, Framed, Raw

\* A step of the frames between the writer and the reader.
LEMMA FramesMove ==
    ASSUME SessionInv, UNCHANGED <<setup, phase, src, srcq, agg, frames, encoded, dd, dctx, got, queued>>,
           WriterType', WriterInv', HandshakeInv', NEW a, NEW b, Handed(a), Links(a, b)', EocInv(b)'
    PROVE  SessionInv'
<1>1. SessionType'
  BY SourceTypeKept, DaemonTypeKept DEF SessionInv, SessionType
<1>2. SourceInv' /\ AggregateInv'
  BY SameSource DEF SessionInv
<1>3. Stream(a, b)'
  BY HandedKept DEF Stream
<1>. QED BY <1>1, <1>2, <1>3 DEF SessionInv, StreamInv

\* A frame that is no packet and no record is queued behind what is buffered.
LEMMA ControlStep ==
    ASSUME SessionInv, sv.pc \in {"select", "drain"}, NEW f \in Frame, f \notin Data, f # Eoc \/ Exhausted,
           NEW after \in {"select", "close"}, f # Eoc \/ after = "close", NEW ticked \in BOOLEAN,
           sv' = [pc |-> "flush", batch |-> sv.batch, after |-> after, ticked |-> ticked],
           buf' = Append(buf, f), UNCHANGED <<same, srcq, frames, sctx>>
    PROVE  SessionInv'
<1>1. /\ SessionType /\ WriterInv /\ HandshakeInv /\ WriterType /\ phase = "answered"
      /\ buf \in Seq(Frame) /\ Len(buf) \in Nat /\ Len(buf) <= BufCap
  <2>1. SessionType /\ WriterInv /\ HandshakeInv /\ WriterType /\ phase = "answered" /\ buf \in Seq(Frame)
    BY Running DEF SessionInv, SessionType, WriterType
  <2>2. Len(buf) \in Nat /\ (buf = <<>> => Len(buf) = 0)
    BY <2>1, EmptySeq, LenProperties
  <2>. QED BY <2>1, <2>2, SessionConstants DEF WriterInv
<1>2. PICK a, b : Stream(a, b)
  BY DEF SessionInv, StreamInv
<1>3. sv'.pc = "flush" /\ sv'.after = after
  OBVIOUS
<1>4. buf' \in Seq(Frame) /\ Len(buf') <= BufCap + 1
  <2>1. buf' \in Seq(Frame) /\ Len(buf') = Len(buf) + 1
    BY <1>1, AppendProperties
  <2>. QED BY <1>1, <2>1, SessionConstants
<1>5. UNCHANGED <<setup, phase, answer, src, srcq, agg, frames, encoded, wire, dOpen, broken, dd, dctx, got, queued>>
  BY DEF same, netVars, daemonVars
<1>6. WriterType' /\ WriterInv'
  <2>1. sv' \in [pc : {"off", "select", "drain", "flush", "closed"}, batch : 0 .. BatchMax,
                 after : {"", "select", "close"}, ticked : BOOLEAN]
    BY <1>1 DEF WriterType
  <2>. QED BY <1>1, <1>3, <1>4, <1>5, <2>1 DEF WriterType, WriterInv
<1>7. ~ HasEoc(buf) /\ ~ HasEoc(wire)
  BY <1>2 DEF Stream, EocInv
<1>8. Links(a, b)'
  <2>1. List' = List /\ Passed' = Passed
    BY <1>5, SameSource
  <2>2. Intact' => Intact
    BY <1>3, <1>5 DEF Intact
  <2>3. Intact => Walk(buf', Data, List, b, Passed)
    BY <1>1, <1>2, WalkAppend DEF Stream, Links
  <2>. QED BY <1>2, <1>5, <2>1, <2>2, <2>3 DEF Stream, Links
<1>9. EocInv(b)'
  <2>1. Exhausted' <=> Exhausted
    BY <1>5, SameSource
  <2>2. LastOnly(buf') /\ (HasEoc(buf') <=> f = Eoc)
    BY <1>1, <1>7, EocAppend
  <2>3. LastOnly(wire') /\ ~ HasEoc(wire')
    BY <1>2, <1>5, <1>7 DEF Stream, EocInv
  <2>. QED BY <1>3, <2>1, <2>2, <2>3 DEF EocInv
<1>. QED BY <1>1, <1>2, <1>5, <1>6, <1>8, <1>9, FramesMove, HandshakeKept DEF Stream

LEMMA GoodbyesStep ==
    ASSUME SessionInv, SeesCancel \/ SeesError \/ SeesEnd
    PROVE  SessionInv'
<1>1. ASSUME NEW r \in Reasons, SayBye(r), sv.pc \in {"select", "drain"}, r # Complete \/ Exhausted
      PROVE  SessionInv'
  <2>1. Bye(r) \in Frame /\ Bye(r) \notin Data /\ (Bye(r) # Eoc \/ Exhausted)
    BY <1>1, FramesMade
  <2>2. sv' = [pc |-> "flush", batch |-> sv.batch, after |-> "close", ticked |-> sv.ticked]
        /\ sv.ticked \in BOOLEAN
    BY <1>1 DEF SayBye, SessionInv, SessionType, WriterType
  <2>3. buf' = Append(buf, Bye(r)) /\ UNCHANGED <<same, srcq, frames, sctx>>
    BY <1>1 DEF SayBye
  <2>. QED BY <1>1, <2>1, <2>2, <2>3, ControlStep
<1>2. /\ "server closing" \in Reasons /\ "source error" \in Reasons /\ Complete \in Reasons
      /\ "server closing" # Complete /\ "source error" # Complete
  BY DEF Reasons, Complete
<1>3. CASE SeesCancel
  BY <1>1, <1>2, <1>3 DEF SeesCancel
<1>4. CASE SeesError
  BY <1>1, <1>2, <1>4 DEF SeesError
<1>5. CASE SeesEnd
  <2>1. Exhausted /\ sv.pc \in {"select", "drain"} /\ SayBye(Complete)
    BY <1>5 DEF SeesEnd, Exhausted, Complete
  <2>. QED BY <1>1, <1>2, <2>1
<1>. QED BY <1>3, <1>4, <1>5

LEMMA KeepaliveStep ==
    ASSUME SessionInv, Keepalive
    PROVE  SessionInv'
<1>1. sv' = [pc |-> "flush", batch |-> sv.batch, after |-> "select", ticked |-> TRUE]
  BY DEF Keepalive, SessionInv, SessionType, WriterType
<1>2. sv.pc = "select" /\ buf' = Append(buf, <<"keepalive">>) /\ UNCHANGED <<same, srcq, frames, sctx>>
  BY DEF Keepalive
<1>. QED BY <1>1, <1>2, FramesMade, ControlStep

\* StartFlush and Flushed turn the writer's page only.
LEMMA TurnsStep ==
    ASSUME SessionInv, StartFlush \/ Flushed
    PROVE  SessionInv'
<1>1. /\ SessionType /\ WriterInv /\ HandshakeInv /\ WriterType /\ phase = "answered"
      /\ sv.pc = "drain" \/ (sv.pc = "flush" /\ sv.after = "select" /\ buf = <<>>)
  <2>1. sv.pc = "drain" \/ (sv.pc = "flush" /\ sv.after = "select" /\ buf = <<>>)
    BY DEF StartFlush, Flushed
  <2>. QED BY <2>1, Running DEF SessionInv, SessionType
<1>2. PICK a, b : Stream(a, b)
  BY DEF SessionInv, StreamInv
<1>3. PICK pc \in {"select", "flush"}, batch \in 0 .. BatchMax, after \in {"", "select", "close"} :
        /\ sv' = [pc |-> pc, batch |-> batch, after |-> after, ticked |-> sv.ticked]
        /\ pc = "select" => buf = <<>>
  <2>1. CASE StartFlush
    <3>1. sv' = [pc |-> "flush", batch |-> sv.batch, after |-> "select", ticked |-> sv.ticked]
      BY <1>1, <2>1 DEF StartFlush, WriterType
    <3>. QED BY <1>1, <3>1, TypeFacts
  <2>2. CASE Flushed
    <3>1. sv' = [pc |-> "select", batch |-> 0, after |-> sv.after, ticked |-> sv.ticked]
      BY <1>1, <2>2 DEF Flushed, WriterType
    <3>2. 0 \in 0 .. BatchMax /\ buf = <<>>
      BY <2>2, SessionConstants DEF Flushed
    <3>. QED BY <1>1, <3>1, <3>2, TypeFacts
  <2>. QED BY <2>1, <2>2
<1>4. UNCHANGED <<setup, phase, answer, src, srcq, agg, frames, encoded, buf, wire, dOpen, broken,
                  dd, dctx, got, queued>>
  BY DEF StartFlush, Flushed, same, netVars, daemonVars
<1>5. WriterType' /\ WriterInv'
  <2>1. sv' \in [pc : {"off", "select", "drain", "flush", "closed"}, batch : 0 .. BatchMax,
                 after : {"", "select", "close"}, ticked : BOOLEAN] /\ sv'.pc = pc
    BY <1>1, <1>3 DEF WriterType
  <2>. QED BY <1>1, <1>3, <1>4, <2>1 DEF WriterType, WriterInv
<1>6. ~ HasEoc(buf) /\ ~ HasEoc(wire)
  BY <1>1, <1>2, EocEmpty DEF Stream, EocInv
<1>7. Links(a, b)'
  <2>1. List' = List /\ Passed' = Passed
    BY <1>4, SameSource
  <2>2. Intact' => Intact
    BY <1>1, <1>4 DEF Intact
  <2>. QED BY <1>2, <1>4, <2>1, <2>2 DEF Stream, Links
<1>8. EocInv(b)'
  BY <1>2, <1>4, <1>6 DEF Stream, EocInv
<1>. QED BY <1>1, <1>2, <1>4, <1>5, <1>7, <1>8, FramesMove, HandshakeKept DEF Stream

LEMMA PassOnStep ==
    ASSUME SessionInv, PassOn
    PROVE  SessionInv'
<1>1. /\ SessionType /\ WriterInv /\ HandshakeInv /\ WriterType /\ phase = "answered"
      /\ sv.pc \in {"drain", "flush"} /\ Intact
  <2>1. sv.pc \in {"drain", "flush"} /\ dOpen /\ ~ broken
    BY DEF PassOn
  <2>. QED BY <2>1, Running DEF SessionInv, SessionType, Intact
<1>2. PICK a, b : Stream(a, b)
  BY DEF SessionInv, StreamInv
<1>3. UNCHANGED <<setup, phase, answer, src, srcq, agg, frames, encoded, sv, dOpen, broken,
                  dd, dctx, got, queued>>
  BY DEF PassOn, daemonVars
<1>4. /\ buf \in Seq(Frame) /\ buf # <<>> /\ Head(buf) \in Frame /\ buf' = Tail(buf) /\ buf' \in Seq(Frame)
      /\ Len(buf) \in Nat /\ Len(buf') = Len(buf) - 1
      /\ wire \in Seq(Frame) /\ wire' = Append(wire, Head(buf)) /\ wire' \in Seq(Frame) /\ Len(wire') <= WireCap
  <2>1. /\ buf \in Seq(Frame) /\ buf # <<>> /\ buf' = Tail(buf) /\ wire \in Seq(Frame)
        /\ wire' = Append(wire, Head(buf)) /\ Len(wire) < WireCap
    BY <1>1 DEF PassOn, WriterType
  <2>. QED BY <2>1, HeadTailProperties, AppendProperties, LenProperties, SessionConstants
<1>5. WriterType' /\ WriterInv'
  <2>1. sv.pc = "drain" => Len(buf') <= BufCap
    BY <1>1, <1>4, SessionConstants DEF WriterInv
  <2>2. Len(buf') <= BufCap + 1
    BY <1>1, <1>4, SessionConstants DEF WriterInv
  <2>. QED BY <1>1, <1>3, <1>4, <2>1, <2>2 DEF WriterType, WriterInv
<1>6. ~ HasEoc(wire)
  BY <1>2, <1>4 DEF Stream, EocInv
<1>7. List' = List /\ Passed' = Passed /\ (Exhausted' <=> Exhausted) /\ Total' = Total /\ (Intact' <=> Intact)
  BY <1>3, SameSource DEF Intact
<1>8. /\ Walk(wire, Data, List, a, b) /\ Walk(buf, Data, List, b, Passed) /\ LastOnly(wire) /\ LastOnly(buf)
      /\ Passed \in Nat
  BY <1>1, <1>2, NextFrame DEF Stream, Links, EocInv, SessionInv
<1>9. PICK c : Walk(wire', Data, List, a, c) /\ Walk(buf', Data, List, c, Passed)
  <2>1. CASE Head(buf) \in Data
    <3>1. Walk(buf', Data, List, b + 1, Passed) /\ Head(buf) = List[b + 1]
      BY <1>4, <1>8, <2>1, WalkTail
    <3>2. Walk(wire', Data, List, a, b + 1)
      BY <1>4, <1>8, <2>1, <3>1, WalkAppend
    <3>. QED BY <3>1, <3>2
  <2>2. CASE Head(buf) \notin Data
    <3>1. Walk(buf', Data, List, b, Passed)
      BY <1>4, <1>8, <2>2, WalkTail
    <3>2. Walk(wire', Data, List, a, b)
      BY <1>4, <1>8, <2>2, WalkAppend
    <3>. QED BY <3>1, <3>2
  <2>. QED BY <2>1, <2>2
<1>10. c <= Passed /\ (buf' = <<>> => c = Passed)
  BY <1>4, <1>9, WalkBounds
<1>11. Links(a, c)'
  BY <1>7, <1>9, <1>10 DEF Links
<1>12. EocInv(c)'
  <2>1. LastOnly(wire') /\ (HasEoc(wire') <=> Head(buf) = Eoc)
    BY <1>4, <1>6, EocAppend
  <2>2. LastOnly(buf') /\ (HasEoc(buf') => HasEoc(buf)) /\ (Head(buf) = Eoc => buf' = <<>> /\ HasEoc(buf))
    BY <1>4, <1>8, EocTail
  <2>3. HasEoc(buf) => Exhausted /\ sv.pc = "flush" /\ sv.after = "close"
    BY <1>2 DEF Stream, EocInv
  <2>4. Exhausted => Passed = Total
    BY <1>1, NextFrame DEF Exhausted, SessionInv
  <2>. QED BY <1>3, <1>7, <1>10, <2>1, <2>2, <2>3, <2>4 DEF EocInv
<1>. QED BY <1>1, <1>2, <1>3, <1>5, <1>11, <1>12, FramesMove, HandshakeKept DEF Stream

LEMMA TakeFrameStep ==
    ASSUME SessionInv, TakeFrame
    PROVE  SessionInv'
<1>1. /\ SessionType /\ WriterInv /\ SourceInv /\ AggregateInv /\ HandshakeInv /\ SourceType /\ WriterType
      /\ phase = "answered" /\ sv.pc \in {"select", "drain"} /\ In # <<>> /\ sv.batch < BatchMax
      /\ Len(buf) < BufCap
  <2>1. sv.pc \in {"select", "drain"}
    BY DEF TakeFrame
  <2>. QED BY <2>1, Running DEF SessionInv, SessionType, TakeFrame
<1>2. PICK a, b : Stream(a, b)
  BY DEF SessionInv, StreamInv
<1>3. UNCHANGED <<setup, phase, answer, src, agg, encoded, wire, dOpen, broken, dd, dctx, got, queued>>
  BY DEF TakeFrame, same, netVars, daemonVars
<1>4. /\ Passed \in Nat /\ Passed < Total /\ List[Passed + 1] = Framed(Head(In)) /\ Framed(Head(In)) \in Data
      /\ Framed(Head(In)) \in Frame /\ Framed(Head(In)) # Eoc
      /\ In \in Seq(Nat) /\ Len(In) \in Nat \ {0} /\ Tail(In) \in Seq(Nat) /\ Len(Tail(In)) = Len(In) - 1
      /\ \A i \in 1 .. Len(In) - 1 : Tail(In)[i] = In[i + 1]
  <2>1. /\ Passed \in Nat /\ Passed <= Total /\ Passed # Total /\ Total \in Nat
        /\ List[Passed + 1] = Framed(Head(In)) /\ Framed(Head(In)) \in Data /\ In \in Seq(Nat)
    BY <1>1, NextFrame
  <2>2. Framed(Head(In)) \in Frame /\ Framed(Head(In)) # Eoc
    BY <2>1, FramesMade
  <2>3. /\ Tail(In) \in Seq(Nat) /\ Len(In) \in Nat \ {0} /\ Len(Tail(In)) = Len(In) - 1
        /\ \A i \in 1 .. Len(In) - 1 : Tail(In)[i] = In[i + 1]
    BY <1>1, <2>1, HeadTailProperties, EmptySeq, LenProperties
  <2>. QED BY <2>1, <2>2, <2>3
<1>5. SourceType' /\ SourceInv' /\ AggregateInv' /\ Passed' = Passed + 1
  <2>1. CASE Raw
    <3>1. Raw' /\ srcq' = Tail(In) /\ In = srcq /\ frames' = frames
      BY <1>3, <2>1 DEF Raw, TakeFrame, TakeIn, In
    <3>2. Len(srcq') <= SourceCap
      BY <1>1, <1>4, <3>1, SessionConstants DEF SourceType
    <3>3. SourceType'
      BY <1>1, <1>3, <1>4, <3>1, <3>2 DEF SourceType
    <3>4. src.n \in Nat /\ Len(srcq) <= src.n /\ \A i \in 1 .. Len(srcq) : srcq[i] = Observed + i
      BY <1>1, TypeFacts DEF SourceInv
    <3>5. Observed \in Nat /\ Observed' = Observed + 1
      BY <1>3, <1>4, <3>1, <3>4 DEF Observed
    <3>6. \A i \in 1 .. Len(srcq') : srcq'[i] = Observed' + i
      <4> TAKE i \in 1 .. Len(srcq')
      <4>1. i \in 1 .. Len(In) - 1 /\ i + 1 \in 1 .. Len(srcq)
        BY <1>4, <3>1
      <4>. QED BY <1>4, <3>1, <3>4, <3>5, <4>1
    <3>7. SourceInv'
      BY <1>1, <1>3, <1>4, <3>1, <3>4, <3>6 DEF SourceInv
    <3>8. AggregateInv'
      BY <1>1, <1>3, <2>1, <3>1 DEF AggregateInv
    <3>9. Passed' = Passed + 1
      <4>1. Passed = src.n - Len(srcq) /\ Passed' = src.n - Len(srcq')
        BY <1>3, <2>1, <3>1 DEF Passed, Total, In
      <4>. QED BY <1>4, <3>1, <3>4, <4>1
    <3>. QED BY <3>3, <3>7, <3>8, <3>9
  <2>2. CASE ~ Raw
    <3>1. ~ Raw' /\ frames' = Tail(In) /\ In = frames /\ srcq' = srcq
      BY <1>3, <2>2 DEF Raw, TakeFrame, TakeIn, In
    <3>2. Len(frames') <= FramesCap
      BY <1>1, <1>4, <3>1, SessionConstants DEF SourceType
    <3>3. SourceType'
      BY <1>1, <1>3, <1>4, <3>1, <3>2 DEF SourceType
    <3>4. /\ Len(encoded) \in Nat /\ Len(frames) <= Len(encoded)
          /\ \A i \in 1 .. Len(frames) : frames[i] = encoded[Len(encoded) - Len(frames) + i]
      BY <1>1, LenProperties DEF SourceInv, SourceType
    <3>5. \A i \in 1 .. Len(frames') : frames'[i] = encoded[Len(encoded) - Len(frames') + i]
      <4> TAKE i \in 1 .. Len(frames')
      <4>1. i \in 1 .. Len(In) - 1 /\ i + 1 \in 1 .. Len(frames)
        BY <1>4, <3>1
      <4>2. Len(encoded) - Len(frames) + (i + 1) = Len(encoded) - Len(frames') + i
        BY <1>4, <3>1, <3>4
      <4>. QED BY <1>4, <3>1, <3>4, <4>1, <4>2
    <3>6. Len(frames') <= Len(encoded)
      BY <1>4, <3>1, <3>4
    <3>7. SourceInv' /\ Seen_' = Seen_
      BY <1>1, <1>3, <3>1, <3>5, <3>6 DEF SourceInv, Observed, Seen_
    <3>8. AggregateInv'
      BY <1>1, <1>3, <2>2, <3>1, <3>7 DEF AggregateInv
    <3>9. Passed' = Passed + 1
      <4>1. Passed = Len(encoded) - Len(frames) /\ Passed' = Len(encoded) - Len(frames')
        BY <1>3, <2>2, <3>1 DEF Passed, Total, In
      <4>. QED BY <1>4, <3>1, <3>4, <4>1
    <3>. QED BY <3>3, <3>7, <3>8, <3>9
  <2>. QED BY <2>1, <2>2
<1>6. sv' = [pc |-> "drain", batch |-> sv.batch + 1, after |-> sv.after, ticked |-> sv.ticked]
  BY <1>1 DEF TakeFrame, WriterType
<1>7. /\ buf \in Seq(Frame) /\ buf' = Append(buf, Framed(Head(In))) /\ buf' \in Seq(Frame)
      /\ Len(buf') <= BufCap /\ Len(buf') <= BufCap + 1
  <2>1. buf \in Seq(Frame) /\ buf' = Append(buf, Framed(Head(In)))
    BY <1>1 DEF WriterType, TakeFrame
  <2>2. buf' \in Seq(Frame) /\ Len(buf') = Len(buf) + 1 /\ Len(buf) \in Nat
    BY <1>4, <2>1, AppendProperties, LenProperties
  <2>. QED BY <1>1, <2>1, <2>2, SessionConstants
<1>8. WriterType' /\ WriterInv'
  <2>1. sv.batch + 1 \in 0 .. BatchMax
    <3>1. sv.batch \in 0 .. BatchMax
      BY <1>1, TypeFacts
    <3>2. sv.batch < BatchMax /\ BatchMax \in Nat
      BY <1>1, SessionConstants
    <3>. QED BY <3>1, <3>2
  <2>2. sv' \in [pc : {"off", "select", "drain", "flush", "closed"}, batch : 0 .. BatchMax,
                 after : {"", "select", "close"}, ticked : BOOLEAN] /\ sv'.pc = "drain"
    BY <1>1, <1>6, <2>1 DEF WriterType
  <2>. QED BY <1>1, <1>3, <1>7, <2>2 DEF WriterType, WriterInv
<1>9. SessionType'
  BY <1>1, <1>3, <1>5, <1>8, DaemonTypeKept DEF SessionType
<1>10. (Raw' <=> Raw) /\ List' = List /\ Total' = Total
  BY <1>3 DEF Raw, List, Total
<1>11. ~ HasEoc(buf) /\ ~ HasEoc(wire) /\ dd.why # Complete
  BY <1>1, <1>2 DEF Stream, EocInv, Handed, Exhausted
<1>12. Handed(a)'
  <2>1. \A n : Given(n) <=> Given(n)'
    BY <1>3, GivenKept
  <2>2. \A x : Framed(x)' = Framed(x)
    BY <1>10 DEF Framed
  <2>. QED BY <1>2, <1>3, <1>10, <1>11, <2>1, <2>2 DEF Stream, Handed
<1>13. Links(a, b)'
  <2>1. Intact' => Intact
    BY <1>1, <1>3 DEF Intact
  <2>2. Intact => Walk(buf', Data, List, b, Passed + 1)
    BY <1>2, <1>4, <1>7, WalkAppend DEF Stream, Links
  <2>3. b <= Passed + 1
    <3>1. b <= Passed /\ b \in Nat
      BY <1>1, <1>2, WalkBounds DEF Stream, Links, WriterType
    <3>. QED BY <1>4, <3>1
  <2>. QED BY <1>2, <1>3, <1>5, <1>10, <2>1, <2>2, <2>3 DEF Stream, Links
<1>14. EocInv(b)'
  <2>1. LastOnly(buf') /\ ~ HasEoc(buf')
    BY <1>4, <1>7, <1>11, EocAppend
  <2>2. LastOnly(wire') /\ ~ HasEoc(wire')
    BY <1>2, <1>3, <1>11 DEF Stream, EocInv
  <2>. QED BY <2>1, <2>2 DEF EocInv
<1>. QED BY <1>1, <1>3, <1>5, <1>8, <1>9, <1>12, <1>13, <1>14, HandshakeKept DEF SessionInv, StreamInv, Stream

\* SaidBye and WriteFails: what the writer still holds is gone.
LEMMA LeaveStep ==
    ASSUME SessionInv, Leave, sv.pc \in {"drain", "flush"}
    PROVE  SessionInv'
<1>1. SessionType /\ WriterInv /\ HandshakeInv /\ WriterType /\ phase = "answered"
  BY Running DEF SessionInv, SessionType
<1>2. PICK a, b : Stream(a, b)
  BY DEF SessionInv, StreamInv
<1>3. UNCHANGED <<setup, phase, answer, src, srcq, agg, frames, encoded, wire, dOpen, broken, dd, dctx, got, queued>>
  BY DEF Leave, daemonVars
<1>4. buf' = <<>> /\ sv'.pc = "closed"
      /\ sv' = [pc |-> "closed", batch |-> sv.batch, after |-> sv.after, ticked |-> sv.ticked]
  BY <1>1 DEF Leave, WriterType
<1>5. WriterType' /\ WriterInv'
  <2>1. sv' \in [pc : {"off", "select", "drain", "flush", "closed"}, batch : 0 .. BatchMax,
                 after : {"", "select", "close"}, ticked : BOOLEAN]
    BY <1>1, <1>4 DEF WriterType
  <2>2. Len(buf') = 0 /\ buf' \in Seq(Frame)
    BY <1>4, EmptySeq
  <2>3. Len(buf') <= BufCap + 1
    BY <2>2, SessionConstants
  <2>. QED BY <1>1, <1>3, <1>4, <2>1, <2>2, <2>3 DEF WriterType, WriterInv
<1>6. Links(a, b)'
  <2>1. List' = List /\ Passed' = Passed
    BY <1>3, SameSource
  <2>2. ~ Intact'
    BY <1>4 DEF Intact
  <2>. QED BY <1>2, <1>3, <2>1, <2>2 DEF Stream, Links
<1>7. EocInv(b)'
  <2>1. Total' = Total /\ (Exhausted' <=> Exhausted)
    BY <1>3, SameSource
  <2>2. LastOnly(buf') /\ ~ HasEoc(buf')
    BY <1>4, EocEmpty
  <2>. QED BY <1>2, <1>3, <1>4, <2>1, <2>2 DEF Stream, EocInv
<1>. QED BY <1>1, <1>2, <1>3, <1>5, <1>6, <1>7, FramesMove, HandshakeKept DEF Stream

LEMMA ServeStep ==
    ASSUME SessionInv, Serve
    PROVE  SessionInv'
<1>1. CASE SaidBye \/ WriteFails
  BY <1>1, LeaveStep DEF SaidBye, WriteFails
<1>. QED BY <1>1, GoodbyesStep, TakeFrameStep, KeepaliveStep, TurnsStep, PassOnStep DEF Serve

\* Steps that touch nothing of the stream: a cancelled context, a frame the other way, a
\* packet the pipeline takes.
LEMMA QuietStep ==
    ASSUME SessionInv, queued' \in 0 .. OutCap,
           UNCHANGED <<setup, phase, answer, src, srcq, agg, frames, encoded, sv, buf, wire, dOpen, broken, dd, dctx, got>>,
           phase = "answered" \/ UNCHANGED <<reader, queued>>
    PROVE  SessionInv'
<1>1. PICK a, b : Stream(a, b)
  BY DEF SessionInv, StreamInv
<1>2. Stream(a, b)'
  BY <1>1, StreamKept
<1>3. SessionType'
  BY SourceTypeKept, WriterTypeKept DEF SessionInv, SessionType, DaemonType
<1>4. SourceInv' /\ AggregateInv' /\ WriterInv'
  BY SameSource, WriterKept DEF SessionInv
<1>5. HandshakeInv'
  BY HandshakeKept DEF SessionInv, HandshakeInv, Off
<1>. QED BY <1>2, <1>3, <1>4, <1>5 DEF SessionInv, StreamInv

LEMMA AroundStep ==
    ASSUME SessionInv, ReadBack \/ SensorStops \/ SayGoodbye \/ PipelineTakes
    PROVE  SessionInv'
<1>1. queued \in 0 .. OutCap /\ HandshakeInv
  BY DEF SessionInv, SessionType, DaemonType
<1>2. CASE ReadBack \/ SensorStops
  <2>1. phase = "answered"
    BY <1>1, <1>2, Running DEF ReadBack, SensorStops
  <2>2. UNCHANGED <<setup, phase, answer, src, srcq, agg, frames, encoded, sv, buf, wire, dOpen, broken,
                    dd, dctx, got, queued>>
    BY <1>2 DEF ReadBack, SensorStops, netVars, daemonVars
  <2>. QED BY <1>1, <2>1, <2>2, QuietStep
<1>3. CASE SayGoodbye
  <2>1. UNCHANGED <<setup, phase, answer, src, srcq, agg, frames, encoded, sv, buf, wire, dOpen, broken,
                    dd, dctx, got, queued, reader>>
    BY <1>3 DEF SayGoodbye, sensorVars
  <2>. QED BY <1>1, <2>1, QuietStep
<1>4. CASE PipelineTakes
  <2>1. phase = "answered"
    BY <1>1, <1>4, Running DEF PipelineTakes
  <2>2. UNCHANGED <<setup, phase, answer, src, srcq, agg, frames, encoded, sv, buf, wire, dOpen, broken,
                    dd, dctx, got>>
    BY <1>4 DEF PipelineTakes, kept, sensorVars
  <2>3. queued' \in 0 .. OutCap
    BY <1>1, <1>4, SessionConstants DEF PipelineTakes
  <2>. QED BY <2>1, <2>2, <2>3, QuietStep
<1>. QED BY <1>2, <1>3, <1>4

\* A reset loses what has not been read from some frame on.
LEMMA BreakStep ==
    ASSUME SessionInv, Break
    PROVE  SessionInv'
<1>1. SessionType /\ WriterInv /\ HandshakeInv /\ WriterType /\ phase = "answered"
  BY DEF SessionInv, SessionType, Break
<1>2. PICK a, b : Stream(a, b)
  BY DEF SessionInv, StreamInv
<1>3. UNCHANGED <<setup, phase, answer, src, srcq, agg, frames, encoded, sv, buf, dOpen, dd, dctx, got, queued>>
      /\ broken'
  BY DEF Break, daemonVars, sensorVars
<1>4. PICK k \in 0 .. Len(wire) : wire' = SubSeq(wire, 1, k)
  BY DEF Break
<1>5. wire \in Seq(Frame) /\ Len(wire) \in Nat /\ Len(wire) <= WireCap /\ Walk(wire, Data, List, a, b)
      /\ LastOnly(wire) /\ b <= Passed
  BY <1>1, <1>2, LenProperties DEF WriterType, Stream, Links, EocInv
<1>6. PICK c \in a .. b : Walk(wire', Data, List, a, c)
  BY <1>4, <1>5, WalkPrefix
<1>7. CASE k = Len(wire)
  <2>1. wire' = wire
    <3>1. /\ Len(wire') = Len(wire) /\ wire' \in Seq(Frame)
          /\ \A i \in 1 .. Len(wire) : wire'[i] = wire[i]
      <4>1. \A i \in 1 .. Len(wire) : wire[i] \in Frame
        BY <1>5, ElementOfSeq
      <4>2. /\ wire' \in Seq(Frame) /\ Len(wire') = (IF 1 <= Len(wire) THEN Len(wire) - 1 + 1 ELSE 0)
            /\ \A i \in 1 .. Len(wire) - 1 + 1 : wire'[i] = wire[1 + i - 1]
        BY <1>4, <1>7, <4>1, SubSeqProperties
      <4>3. Len(wire) - 1 + 1 = Len(wire) /\ \A i \in 1 .. Len(wire) : 1 + i - 1 = i
        BY <1>5
      <4>. QED BY <1>5, <4>2, <4>3
    <3>. QED BY <1>5, <3>1, SeqEqual
  <2>2. WriterType'
    BY <1>1, <1>3, <2>1 DEF WriterType
  <2>3. Links(a, b)'
    BY <1>2, <1>3, <2>1, SameSource DEF Stream, Links, Intact
  <2>4. EocInv(b)'
    BY <1>2, <1>3, <2>1, SameSource DEF Stream, EocInv
  <2>. QED BY <1>1, <1>2, <1>3, <2>2, <2>3, <2>4, WriterKept, FramesMove, HandshakeKept DEF Stream, Break
<1>8. CASE k # Len(wire)
  <2>1. wire' \in Seq(Frame) /\ Len(wire') = k /\ LastOnly(wire') /\ ~ HasEoc(wire')
    BY <1>4, <1>5, <1>8, EocPrefix
  <2>2. WriterType'
    <3>1. Len(wire') <= WireCap
      BY <1>5, <2>1, SessionConstants
    <3>. QED BY <1>1, <1>3, <2>1, <3>1 DEF WriterType
  <2>3. c <= Passed
    <3>1. a \in Nat /\ b \in Nat /\ Passed \in Nat
      BY <1>1, <1>5, WalkBounds, NextFrame DEF SessionInv
    <3>. QED BY <1>5, <3>1
  <2>4. Links(a, c)'
    BY <1>3, <1>6, <2>3, SameSource DEF Links, Intact
  <2>5. EocInv(c)'
    BY <1>2, <1>3, <2>1, SameSource DEF Stream, EocInv
  <2>. QED BY <1>1, <1>2, <1>3, <2>2, <2>4, <2>5, WriterKept, FramesMove, HandshakeKept DEF Stream, Break
<1>. QED BY <1>7, <1>8

-----------------------------------------------------------------------------
(* The daemon's end.                                                       *)

\* What an accepted answer says of the two ends (negotiate, ValidateAccept).
LEMMA Negotiated ==
    ASSUME setup \in Setups, answer = AnswerTo(setup.hello, setup.cfg)
    PROVE  /\ answer.code = "ok" =>
                /\ answer.version <= VersionMax /\ answer.version <= Ceiling(setup.hello)
                /\ setup.cfg.token \in {NoToken, setup.hello.token}
                /\ answer.mode = setup.cfg.mode
                /\ answer.mode # "raw" => setup.sink
                /\ answer.link = setup.cfg.link /\ setup.hello.link \in {AnyLink, answer.link}
           /\ answer.code # "ok" => answer.mode = "raw"
<1> DEFINE h == setup.hello
           cfg == setup.cfg
           n == Negotiate(h, cfg)
           v == IF Ceiling(h) > VersionMax THEN VersionMax ELSE Ceiling(h)
<1>1. /\ h.version \in Nat /\ h.max \in Nat /\ cfg.mode \in Modes
      /\ setup.sink \/ (h.version = 1 /\ h.max = 1)
  <2>1. /\ h.version \in Nat /\ h.max \in Nat /\ cfg.mode \in Modes
        /\ setup.sink \/ h = HelloOf(FALSE, h.link, h.token)
    BY SensorSessionAssumption
  <2>2. ASSUME h = HelloOf(FALSE, h.link, h.token) PROVE h.version = 1 /\ h.max = 1
    <3> DEFINE g == HelloOf(FALSE, h.link, h.token)
    <3>1. g.version = 1 /\ g.max = 1
      BY DEF HelloOf, helloCeiling, Version1
    <3> HIDE DEF g
    <3>. QED BY <2>2, <3>1 DEF g
  <2>. QED BY <2>1, <2>2
<1> HIDE DEF h, cfg
<1>2. Ceiling(h) \in Nat /\ v \in Nat /\ v <= VersionMax /\ v <= Ceiling(h) /\ (~ setup.sink => v = 1)
  <2>1. Ceiling(h) \in Nat /\ (~ setup.sink => Ceiling(h) = 1)
    BY <1>1 DEF Ceiling
  <2>. QED BY <2>1 DEF VersionMax, Version2
<1> HIDE DEF v
<1>3. n = CASE h.version = 0 \/ h.version > VersionMax -> [code |-> "version", version |-> 0]
            [] cfg.token # NoToken /\ h.token # cfg.token -> [code |-> "unauthorized", version |-> 0]
            [] h.link # AnyLink /\ h.link # cfg.link -> [code |-> "link-type", version |-> 0]
            [] v < MinVersion(cfg.mode) -> [code |-> "mode", version |-> 0]
            [] OTHER -> [code |-> "ok", version |-> v]
  BY DEF n, Negotiate, v
<1>4. n.code = "ok" =>
        /\ n.version = v /\ v >= MinVersion(cfg.mode)
        /\ cfg.token = NoToken \/ h.token = cfg.token
        /\ h.link = AnyLink \/ h.link = cfg.link
  <2> HIDE DEF n
  <2>1. CASE h.version = 0 \/ h.version > VersionMax
    BY <1>3, <2>1
  <2>2. CASE ~ (h.version = 0 \/ h.version > VersionMax) /\ cfg.token # NoToken /\ h.token # cfg.token
    BY <1>3, <2>2
  <2>3. CASE /\ ~ (h.version = 0 \/ h.version > VersionMax) /\ ~ (cfg.token # NoToken /\ h.token # cfg.token)
             /\ h.link # AnyLink /\ h.link # cfg.link
    BY <1>3, <2>3
  <2>4. CASE /\ ~ (h.version = 0 \/ h.version > VersionMax) /\ ~ (cfg.token # NoToken /\ h.token # cfg.token)
             /\ ~ (h.link # AnyLink /\ h.link # cfg.link) /\ v < MinVersion(cfg.mode)
    BY <1>3, <2>4
  <2>5. CASE /\ ~ (h.version = 0 \/ h.version > VersionMax) /\ ~ (cfg.token # NoToken /\ h.token # cfg.token)
             /\ ~ (h.link # AnyLink /\ h.link # cfg.link) /\ ~ (v < MinVersion(cfg.mode))
    <3>1. n = [code |-> "ok", version |-> v]
      BY <1>3, <2>5
    <3>2. MinVersion(cfg.mode) \in Nat
      BY DEF MinVersion, Version1, Version2
    <3>. QED BY <1>2, <2>5, <3>1, <3>2
  <2>. QED BY <2>1, <2>2, <2>3, <2>4, <2>5
<1> HIDE DEF n
<1>5. /\ n.code # "ok" => answer = Rejection(n.code)
      /\ n.code = "ok" => answer = [code |-> "ok", version |-> n.version, link |-> cfg.link,
                                    mode |-> IF n.version >= Version2 THEN cfg.mode ELSE "raw",
                                    schema |-> IF n.version >= Version2 THEN PayloadSchema(cfg.mode) ELSE ""]
  BY DEF AnswerTo, n, h, cfg
<1>6. CASE n.code # "ok"
  <2>1. Rejection(n.code).code # "ok" /\ Rejection(n.code).mode = "raw"
    BY <1>6 DEF Rejection
  <2>. QED BY <1>5, <1>6, <2>1
<1>7. CASE n.code = "ok"
  <2>1. /\ answer.code = "ok" /\ answer.version = v /\ answer.link = cfg.link
        /\ answer.mode = IF v >= Version2 THEN cfg.mode ELSE "raw"
    <3> DEFINE mode == IF n.version >= Version2 THEN cfg.mode ELSE "raw"
               schema == IF n.version >= Version2 THEN PayloadSchema(cfg.mode) ELSE ""
    <3>1. answer = [code |-> "ok", version |-> n.version, link |-> cfg.link, mode |-> mode, schema |-> schema]
      BY <1>5, <1>7
    <3> HIDE DEF mode, schema
    <3>2. answer.code = "ok" /\ answer.version = n.version /\ answer.link = cfg.link /\ answer.mode = mode
      BY <3>1
    <3>3. n.version = v
      BY <1>4, <1>7
    <3>. QED BY <3>2, <3>3 DEF mode
  <2>2. cfg.mode # "raw" => v >= 2 /\ setup.sink
    BY <1>1, <1>2, <1>4, <1>7 DEF MinVersion, Version2
  <2>3. answer.mode = cfg.mode
    BY <2>1, <2>2 DEF Version2
  <2>. QED BY <1>2, <1>4, <1>7, <2>1, <2>2, <2>3 DEF h, cfg
<1>. QED BY <1>6, <1>7

LEMMA DecodedNext ==
    ASSUME NEW s \in Seq(Nat), NEW n \in Nat, Decoded(s, n)
    PROVE  /\ n + 1 \in Bad => Decoded(s, n + 1)
           /\ n + 1 \notin Bad => Decoded(Append(s, n + 1), n + 1)
<1>1. 1 .. n + 1 = 1 .. n \cup {n + 1}
  OBVIOUS
<1>2. ToSet(s) = 1 .. n \ Bad /\ \A i, j \in DOMAIN s : i < j => s[i] < s[j]
  BY DEF Decoded
<1>3. ASSUME n + 1 \in Bad PROVE Decoded(s, n + 1)
  BY <1>1, <1>2, <1>3 DEF Decoded
<1>4. ASSUME n + 1 \notin Bad PROVE Decoded(Append(s, n + 1), n + 1)
  <2> DEFINE t == Append(s, n + 1)
             m == Len(s)
  <2>1. /\ m \in Nat /\ DOMAIN s = 1 .. m /\ DOMAIN t = 1 .. m + 1 /\ t[m + 1] = n + 1
        /\ \A i \in 1 .. m : t[i] = s[i]
    BY LenProperties, AppendProperties
  <2> HIDE DEF t, m
  <2>2. \A i \in 1 .. m : s[i] \in 1 .. n \ Bad
    BY <1>2, <2>1 DEF ToSet
  <2>3. \A i \in 1 .. m + 1 : i = m + 1 \/ i \in 1 .. m
    BY <2>1
  <2>4. ToSet(t) = 1 .. n + 1 \ Bad
    <3>1. ToSet(t) \subseteq 1 .. n + 1 \ Bad
      BY <1>1, <1>4, <2>1, <2>2, <2>3 DEF ToSet
    <3>2. ASSUME NEW x \in 1 .. n + 1 \ Bad PROVE x \in ToSet(t)
      <4>1. CASE x = n + 1
        <5>1. m + 1 \in DOMAIN t
          BY <2>1
        <5>. QED BY <2>1, <4>1, <5>1 DEF ToSet
      <4>2. CASE x # n + 1
        <5>1. x \in ToSet(s)
          BY <1>1, <1>2, <3>2, <4>2
        <5>2. PICK i \in 1 .. m : s[i] = x
          BY <2>1, <5>1 DEF ToSet
        <5>3. i \in DOMAIN t /\ t[i] = x
          BY <2>1, <5>2
        <5>. QED BY <5>3 DEF ToSet
      <4>. QED BY <4>1, <4>2
    <3>. QED BY <3>1, <3>2
  <2>5. \A i, j \in DOMAIN t : i < j => t[i] < t[j]
    <3> SUFFICES ASSUME NEW i \in 1 .. m + 1, NEW j \in 1 .. m + 1, i < j PROVE t[i] < t[j]
      BY <2>1
    <3>1. i \in 1 .. m
      BY <2>1, <2>3
    <3>2. CASE j = m + 1
      BY <2>1, <2>2, <3>1, <3>2
    <3>3. CASE j \in 1 .. m
      BY <1>2, <2>1, <3>1, <3>3
    <3>. QED BY <2>3, <3>2, <3>3
  <2>. QED BY <2>4, <2>5 DEF Decoded, t
<1>. QED BY <1>3, <1>4

\* A step of the daemon, or of its half of the connection.
LEMMA DaemonMoves ==
    ASSUME SessionInv,
           UNCHANGED <<setup, phase, src, srcq, agg, frames, encoded, sv, buf>>,
           wire' \in Seq(Frame), Len(wire') <= WireCap, DaemonType', HandshakeInv',
           NEW a, NEW b, Stream(a, b)'
    PROVE  SessionInv'
<1>1. SessionType'
  BY SourceTypeKept DEF SessionInv, SessionType, WriterType
<1>2. SourceInv' /\ AggregateInv' /\ WriterInv'
  BY SameSource, WriterKept DEF SessionInv
<1>. QED BY <1>1, <1>2 DEF SessionInv, StreamInv

LEMMA DaemonFacts ==
    ASSUME SessionInv
    PROVE  /\ SessionType /\ HandshakeInv /\ WriterType /\ DaemonType
           /\ wire \in Seq(Frame) /\ Len(wire) \in Nat /\ Len(wire) <= WireCap
           /\ dd.pc \in {"off", "read", "give", "waiting", "done"}
           /\ dd.hand \in Nat /\ dd.recs \in Nat /\ dd.why \in Whys
           /\ got \in Seq(Nat)
           /\ dd.pc # "off" => phase = "answered"
           /\ dd.pc \in {"read", "give"} => answer.mode = setup.cfg.mode
<1>1. SessionType /\ HandshakeInv /\ WriterType /\ DaemonType
  BY DEF SessionInv, SessionType
<1>2. dd.pc # "off" => phase = "answered"
  BY <1>1, Running
<1>3. dd.pc \in {"read", "give"} => answer.mode = setup.cfg.mode
  <2>1. dd.pc \in {"read", "give"} => answer.code = "ok" /\ answer = AnswerTo(setup.hello, setup.cfg)
    BY <1>1, <1>2 DEF HandshakeInv, Accepted
  <2>. QED BY <1>1, <2>1, Negotiated DEF SessionType
<1>. QED BY <1>1, <1>2, <1>3, TypeFacts, LenProperties DEF WriterType, DaemonType

LEMMA TakeAnswerStep ==
    ASSUME SessionInv, TakeAnswer
    PROVE  SessionInv'
<1>1. UNCHANGED <<setup, phase, answer, src, srcq, agg, frames, encoded, sv, buf, broken, dctx, got, queued>>
      /\ phase = "answered" /\ dd.pc = "off"
  BY DEF TakeAnswer, sensorVars
<1>2. PICK a, b : Stream(a, b)
  BY DEF SessionInv, StreamInv
<1>3. a = 0 /\ Given(0) /\ dd.recs = 0 /\ dd.why # Complete /\ got = <<>>
  BY <1>1, <1>2, DaemonFacts DEF Stream, Handed, HandshakeInv
<1>4. \A n : Given(n) <=> Given(n)'
  BY <1>1, GivenKept
<1>5. CASE Accepted(answer)
  <2>1. dd' = [pc |-> "read", hand |-> dd.hand, why |-> dd.why, recs |-> dd.recs] /\ UNCHANGED <<wire, dOpen>>
    BY <1>5, DaemonFacts DEF TakeAnswer, DaemonType
  <2>2. dd'.pc = "read" /\ dd'.why = dd.why /\ dd'.recs = dd.recs
    BY <2>1
  <2>3. DaemonType'
    BY <1>1, <2>1, DaemonFacts DEF DaemonType
  <2>4. HandshakeInv'
    BY <1>1, <1>5, <2>2, DaemonFacts DEF HandshakeInv
  <2>5. Handed(a)'
    BY <1>1, <1>3, <1>4, <2>2, SameSource DEF Handed
  <2>6. Links(a, b)' /\ EocInv(b)'
    BY <1>1, <1>2, <2>1, SameSource DEF Stream, Links, Intact, EocInv
  <2>. QED BY <1>1, <2>1, <2>3, <2>4, <2>5, <2>6, DaemonFacts, DaemonMoves DEF Stream
<1>6. CASE ~ Accepted(answer)
  <2>1. /\ dd' = [pc |-> "done", hand |-> dd.hand, why |-> "declined", recs |-> dd.recs]
        /\ wire' = <<>> /\ dOpen' = FALSE
    BY <1>6, DaemonFacts DEF TakeAnswer, DaemonType
  <2>2. dd'.pc = "done" /\ dd'.why = "declined" /\ dd'.recs = dd.recs
    BY <2>1
  <2>3. DaemonType'
    <3>1. "declined" \in Whys
      BY DEF Whys
    <3>. QED BY <1>1, <2>1, <3>1, DaemonFacts DEF DaemonType
  <2>4. HandshakeInv'
    BY <1>1, <2>2, DaemonFacts DEF HandshakeInv
  <2>5. Handed(0)'
    BY <1>1, <1>3, <1>4, <2>2, SameSource, CompleteApart DEF Handed
  <2>6. Links(0, 0)' /\ EocInv(0)'
    <3>1. Walk(wire', Data, List', 0, 0) /\ 0 <= Passed'
      BY <1>1, <2>1, WalkEmpty, NextFrame, SameSource DEF SessionInv
    <3>2. ~ Intact'
      BY <2>1 DEF Intact
    <3>3. LastOnly(wire') /\ ~ HasEoc(wire')
      BY <2>1, EocEmpty
    <3>. QED BY <1>1, <1>2, <3>1, <3>2, <3>3, SameSource DEF Stream, Links, EocInv
  <2>7. wire' \in Seq(Frame) /\ Len(wire') <= WireCap
    BY <2>1, EmptySeq, SessionConstants
  <2>. QED BY <1>1, <2>3, <2>4, <2>5, <2>6, <2>7, DaemonMoves DEF Stream
<1>. QED BY <1>5, <1>6

LEMMA HandshakeFailsStep ==
    ASSUME SessionInv, HandshakeFails
    PROVE  SessionInv'
<1>1. UNCHANGED <<setup, phase, answer, src, srcq, agg, frames, encoded, sv, buf, wire, broken, dctx, got, queued>>
      /\ phase = "answered" /\ dd.pc = "off" /\ dOpen' = FALSE
  BY DEF HandshakeFails, sensorVars
<1>2. PICK a, b : Stream(a, b)
  BY DEF SessionInv, StreamInv
<1>3. a = 0 /\ Given(a) /\ dd.recs = 0 /\ dd.why # Complete /\ got = <<>>
  BY <1>1, <1>2, DaemonFacts DEF Stream, Handed, HandshakeInv
<1>4. \A n : Given(n) <=> Given(n)'
  BY <1>1, GivenKept
<1>5. dd' = [pc |-> "done", hand |-> dd.hand, why |-> "lost", recs |-> dd.recs]
  BY DaemonFacts DEF HandshakeFails, DaemonType
<1>6. dd'.pc = "done" /\ dd'.why = "lost" /\ dd'.recs = dd.recs
  BY <1>5
<1>7. DaemonType'
  <2>1. "lost" \in Whys
    BY DEF Whys
  <2>. QED BY <1>1, <1>5, <2>1, DaemonFacts DEF DaemonType
<1>8. HandshakeInv'
  BY <1>1, <1>6, DaemonFacts DEF HandshakeInv
<1>9. Handed(a)'
  <2>1. Given(a)' /\ a \in Nat
    BY <1>3, <1>4
  <2>. QED BY <1>3, <1>6, <2>1, CompleteApart DEF Handed
<1>10. Links(a, b)' /\ EocInv(b)'
  <2>1. ~ Intact'
    BY <1>1 DEF Intact
  <2>. QED BY <1>1, <1>2, <2>1, SameSource DEF Stream, Links, EocInv
<1>. QED BY <1>1, <1>7, <1>8, <1>9, <1>10, DaemonFacts, DaemonMoves DEF Stream

\* CloseConn: what was on its way is not read any more.
LEMMA ClosesStep ==
    ASSUME SessionInv, CloserCloses \/ ManagerCloses
    PROVE  SessionInv'
<1>1. /\ UNCHANGED <<setup, phase, answer, src, srcq, agg, frames, encoded, sv, buf, reader, broken, dd, dctx, got, queued>>
      /\ wire' = <<>> /\ dOpen' = FALSE
  BY DEF CloserCloses, ManagerCloses, CloseConn, sensorVars
<1>2. PICK a, b : Stream(a, b)
  BY DEF SessionInv, StreamInv
<1>3. Handed(a)'
  BY <1>1, <1>2, HandedKept DEF Stream
<1>4. Links(a, a)'
  <2>1. a \in Nat /\ b \in Nat /\ a <= b /\ b <= Passed /\ Passed \in Nat
    BY <1>2, DaemonFacts, WalkBounds, NextFrame DEF Stream, Links, SessionInv
  <2>2. Walk(wire', Data, List', a, a) /\ a <= Passed'
    BY <1>1, <2>1, WalkEmpty, SameSource
  <2>3. ~ Intact'
    BY <1>1 DEF Intact
  <2>. QED BY <2>2, <2>3 DEF Links
<1>5. EocInv(a)'
  <2>1. LastOnly(wire') /\ ~ HasEoc(wire')
    BY <1>1, EocEmpty
  <2>. QED BY <1>1, <1>2, <2>1, SameSource DEF Stream, EocInv
<1>6. DaemonType' /\ HandshakeInv'
  <2>1. DaemonType'
    BY <1>1, DaemonFacts, DaemonTypeKept
  <2>2. HandshakeInv'
    BY <1>1, DaemonFacts DEF HandshakeInv, Off
  <2>. QED BY <2>1, <2>2
<1>7. wire' \in Seq(Frame) /\ Len(wire') <= WireCap
  BY <1>1, EmptySeq, SessionConstants
<1>. QED BY <1>1, <1>3, <1>4, <1>5, <1>6, <1>7, DaemonMoves DEF Stream

\* readLoop returns without a frame.
LEMMA EndsStep ==
    ASSUME SessionInv, dd.pc \in {"read", "give"}, NEW why \in {"cancelled", "lost", "eof", "idle"},
           Ends(why), UNCHANGED wire
    PROVE  SessionInv'
<1>1. UNCHANGED <<setup, phase, answer, src, srcq, agg, frames, encoded, sv, buf, wire, dOpen, broken, got, queued>>
      /\ dctx'
  BY DEF Ends, kept, sensorVars
<1>2. PICK a, b : Stream(a, b)
  BY DEF SessionInv, StreamInv
<1>3. dd' = [pc |-> "waiting", hand |-> 0, why |-> why, recs |-> dd.recs]
  BY DaemonFacts DEF Ends, DaemonType
<1>4. dd'.pc = "waiting" /\ dd'.why # Complete /\ dd'.recs = dd.recs
  BY <1>3, CompleteApart
<1>5. DaemonType'
  <2>1. why \in Whys
    BY DEF Whys
  <2>. QED BY <1>1, <1>3, <2>1, DaemonFacts DEF DaemonType
<1>6. HandshakeInv'
  BY <1>1, <1>4, DaemonFacts DEF HandshakeInv
<1>7. Handed(a)'
  <2>1. a \in Nat /\ (~ Raw => dd.recs = a) /\ (Given(a) \/ (a # 0 /\ Given(a - 1)))
    BY <1>2 DEF Stream, Handed
  <2>2. Given(a)' \/ (a # 0 /\ Given(a - 1)')
    BY <1>1, <2>1, GivenKept
  <2>3. Raw' <=> Raw
    BY <1>1, SameSource
  <2>. QED BY <1>1, <1>4, <2>1, <2>2, <2>3 DEF Handed
<1>8. Links(a, b)' /\ EocInv(b)'
  BY <1>1, <1>2, SameSource DEF Stream, Links, Intact, EocInv
<1>. QED BY <1>1, <1>5, <1>6, <1>7, <1>8, DaemonFacts, DaemonMoves DEF Stream

LEMMA StopsReadingStep ==
    ASSUME SessionInv, ReadFails \/ GiveUp
    PROVE  SessionInv'
<1>1. CASE ReadFails
  <2> DEFINE why == IF dctx THEN "cancelled" ELSE IF broken THEN "lost" ELSE IF ~sOpen THEN "eof" ELSE "idle"
  <2>1. why \in {"cancelled", "lost", "eof", "idle"}
    OBVIOUS
  <2>2. dd.pc = "read" /\ Ends(why) /\ UNCHANGED wire
    BY <1>1 DEF ReadFails
  <2> HIDE DEF why
  <2>3. PICK w \in {"cancelled", "lost", "eof", "idle"} : Ends(w)
    BY <2>1, <2>2
  <2>. QED BY <2>2, <2>3, EndsStep
<1>2. CASE GiveUp
  <2>1. dd.pc = "give" /\ Ends("cancelled") /\ UNCHANGED wire
    BY <1>2 DEF GiveUp
  <2>. QED BY <2>1, EndsStep
<1>. QED BY <1>1, <1>2

\* What readLoop takes off the connection.
LEMMA FrameRead ==
    ASSUME SessionInv, NEW type, ReadFrame(type), UNCHANGED kept,
           NEW a, NEW b, Stream(a, b)
    PROVE  /\ UNCHANGED <<setup, phase, answer, src, srcq, agg, frames, encoded, sv, buf, broken>>
           /\ phase = "answered" /\ dd.pc = "read" /\ dd.why # Complete /\ Given(a)
           /\ a \in Nat /\ b \in Nat /\ b <= Total /\ Total \in Nat
           /\ Head(wire) \in Frame /\ Head(wire)[1] = type
           /\ wire' \in Seq(Frame) /\ Len(wire') <= WireCap
           /\ Head(wire) \in Data => /\ Walk(wire', Data, List, a + 1, b) /\ Head(wire) = List[a + 1]
                                     /\ a + 1 <= b
           /\ Head(wire) \notin Data => Walk(wire', Data, List, a, b)
           /\ Head(wire) = Eoc => Exhausted /\ a = Total /\ b = Total
           /\ LastOnly(wire') /\ (HasEoc(wire') => HasEoc(wire))
<1>1. UNCHANGED <<setup, phase, answer, src, srcq, agg, frames, encoded, sv, buf, broken>>
  BY DEF kept, sensorVars
<1>2. /\ wire \in Seq(Frame) /\ wire # <<>> /\ wire' = Tail(wire) /\ dd.pc = "read" /\ Head(wire)[1] = type
      /\ phase = "answered" /\ LastOnly(wire) /\ Walk(wire, Data, List, a, b) /\ b <= Passed
  BY DaemonFacts DEF ReadFrame, Stream, EocInv, Links
<1>3. Head(wire) \in Frame /\ wire' \in Seq(Frame) /\ Len(wire') <= WireCap
  <2>1. Head(wire) \in Frame /\ wire' \in Seq(Frame) /\ Len(wire') = Len(wire) - 1
    BY <1>2, HeadTailProperties
  <2>. QED BY <2>1, DaemonFacts, SessionConstants
<1>4. dd.why # Complete /\ Given(a) /\ a \in Nat
  BY <1>2 DEF Stream, Handed
<1>5. b \in Nat /\ b <= Total /\ Total \in Nat
  <2>1. b \in Nat /\ Passed \in Nat /\ Passed <= Total /\ Total \in Nat
    BY <1>2, WalkBounds, NextFrame DEF SessionInv
  <2>. QED BY <1>2, <2>1
<1>6. /\ Head(wire) \in Data => Walk(wire', Data, List, a + 1, b) /\ Head(wire) = List[a + 1]
      /\ Head(wire) \notin Data => Walk(wire', Data, List, a, b)
  BY <1>2, WalkTail
<1>7. Head(wire) \in Data => a + 1 <= b
  BY <1>3, <1>6, WalkBounds
<1>8. /\ LastOnly(wire') /\ (HasEoc(wire') => HasEoc(wire))
      /\ Head(wire) = Eoc => wire' = <<>> /\ HasEoc(wire)
  BY <1>2, EocTail
<1>9. ASSUME Head(wire) = Eoc PROVE Exhausted /\ a = Total /\ b = Total
  <2>1. Exhausted /\ b = Total /\ wire' = <<>>
    BY <1>8, <1>9 DEF Stream, EocInv
  <2>2. Head(wire) \notin Data
    BY <1>9, FramesMade
  <2>3. a = b
    BY <1>3, <1>6, <2>1, <2>2, WalkBounds
  <2>. QED BY <2>1, <2>3
<1>. QED BY <1>1, <1>2, <1>3, <1>4, <1>5, <1>6, <1>7, <1>8, <1>9

\* A frame read leaves what is behind it in its order.
LEMMA RestOfWire ==
    ASSUME SessionInv, NEW type, ReadFrame(type), UNCHANGED <<kept, dOpen>>,
           NEW a, NEW b, Stream(a, b), NEW c, c = IF Head(wire) \in Data THEN a + 1 ELSE a
    PROVE  Links(c, b)' /\ EocInv(b)'
<1>1. UNCHANGED <<setup, phase, answer, src, srcq, agg, frames, encoded, sv, buf, broken, dOpen>>
  BY FrameRead
<1>2. Walk(wire', Data, List, c, b) /\ LastOnly(wire') /\ (HasEoc(wire') => HasEoc(wire))
  BY FrameRead
<1>3. Links(c, b)'
  BY <1>1, <1>2, SameSource DEF Stream, Links, Intact
<1>4. EocInv(b)'
  BY <1>1, <1>2, SameSource DEF Stream, EocInv
<1>. QED BY <1>3, <1>4

LEMMA ListNumbers ==
    ASSUME NEW n \in Nat
    PROVE  /\ Raw => List[n] = <<"packet", n>>
           /\ ~ Raw => List[n] = <<"record", encoded[n]>>
BY DEF List

LEMMA ReadPacketStep ==
    ASSUME SessionInv, ReadPacket
    PROVE  SessionInv'
<1>1. PICK a, b : Stream(a, b)
  BY DEF SessionInv, StreamInv
<1>2. ReadFrame("packet") /\ UNCHANGED <<kept, dOpen, dctx, got, queued>>
  BY DEF ReadPacket
<1>3. UNCHANGED <<setup, phase, answer, src, srcq, agg, frames, encoded, sv, buf, broken>>
      /\ wire' \in Seq(Frame) /\ Len(wire') <= WireCap /\ dd.pc = "read" /\ phase = "answered"
  BY <1>1, <1>2, FrameRead
<1>4. PICK x \in Nat : Head(wire) = <<"packet", x>> /\ Head(wire) \in Data
  <2>1. Head(wire) \in Frame /\ Head(wire)[1] = "packet"
    BY <1>1, <1>2, FrameRead
  <2>. QED BY <2>1, FrameKinds
<1>5. /\ Given(a) /\ a \in Nat /\ a + 1 <= Total /\ Total \in Nat /\ dd.why # Complete
      /\ Raw /\ x = a + 1
  <2>1. Given(a) /\ a \in Nat /\ b \in Nat /\ b <= Total /\ Total \in Nat /\ dd.why # Complete
    BY <1>1, <1>2, FrameRead
  <2>2. Head(wire) = List[a + 1] /\ a + 1 <= b
    BY <1>1, <1>2, <1>4, FrameRead
  <2>3. Raw /\ List[a + 1] = <<"packet", a + 1>>
    <3>1. <<"packet", x>>[1] = "packet"
      OBVIOUS
    <3>2. <<"record", encoded[a + 1]>>[1] = "record"
      OBVIOUS
    <3>. QED BY <1>4, <2>1, <2>2, <3>1, <3>2, ListNumbers
  <2>4. x = a + 1
    BY <1>4, <2>2, <2>3
  <2>. QED BY <2>1, <2>2, <2>3, <2>4
<1>6. Links(a + 1, b)' /\ EocInv(b)'
  BY <1>1, <1>2, <1>4, <1>5, RestOfWire
<1>7. Decoded(got, a) /\ got \in Seq(Nat) /\ a + 1 \in 0 .. src.n
  <2>1. Total = src.n
    BY <1>5 DEF Total
  <2>. QED BY <1>5, <2>1, DaemonFacts DEF Given
<1>8. Raw' /\ List' = List
  BY <1>3, <1>5, SameSource
<1>9. DaemonType' /\ HandshakeInv' /\ Handed(a + 1)'
  <2>0. Head(wire)[2] = a + 1
    BY <1>4, <1>5
  <2>1. CASE a + 1 \in Bad
    <3>1. dd' = dd
      BY <2>1, <2>0 DEF ReadPacket
    <3>2. Decoded(got, a + 1)
      BY <1>5, <1>7, <2>1, DecodedNext
    <3>3. Given(a + 1)'
      BY <1>2, <1>3, <1>7, <1>8, <3>2 DEF Given, Decoded
    <3>4. Handed(a + 1)'
      BY <1>3, <1>5, <1>8, <3>1, <3>3 DEF Handed
    <3>5. DaemonType'
      BY <1>2, <3>1, DaemonFacts, DaemonTypeKept
    <3>6. HandshakeInv'
      BY <1>2, <1>3, <3>1, DaemonFacts, HandshakeKept
    <3>. QED BY <3>4, <3>5, <3>6
  <2>2. CASE a + 1 \notin Bad
    <3>1. dd' = [pc |-> "give", hand |-> a + 1, why |-> dd.why, recs |-> dd.recs]
      BY <2>0, <2>2, DaemonFacts DEF ReadPacket, DaemonType
    <3>2. dd'.pc = "give" /\ dd'.hand = a + 1 /\ dd'.why = dd.why
      BY <3>1
    <3>3. Given(a + 1 - 1)'
      <4>1. Given(a)' /\ a + 1 - 1 = a
        BY <1>2, <1>3, <1>5, GivenKept
      <4>. QED BY <4>1
    <3>4. List'[a + 1] = Framed(dd.hand)'
      BY <1>5, <1>8, <3>2, ListNumbers DEF Framed
    <3>5. Handed(a + 1)'
      BY <1>5, <1>8, <2>2, <3>2, <3>3, <3>4 DEF Handed, Framed
    <3>6. DaemonType'
      BY <1>2, <1>5, <3>1, DaemonFacts DEF DaemonType
    <3>7. HandshakeInv'
      BY <1>2, <1>3, <3>2, DaemonFacts DEF HandshakeInv
    <3>. QED BY <3>5, <3>6, <3>7
  <2>. QED BY <2>1, <2>2
<1>. QED BY <1>3, <1>6, <1>9, DaemonMoves DEF Stream

LEMMA ReadRecordStep ==
    ASSUME SessionInv, ReadRecord
    PROVE  SessionInv'
<1>1. PICK a, b : Stream(a, b)
  BY DEF SessionInv, StreamInv
<1>2. ReadFrame("record") /\ UNCHANGED <<kept, dOpen, dctx, got, queued>>
  BY DEF ReadRecord
<1>3. UNCHANGED <<setup, phase, answer, src, srcq, agg, frames, encoded, sv, buf, broken>>
      /\ wire' \in Seq(Frame) /\ Len(wire') <= WireCap /\ dd.pc = "read" /\ phase = "answered"
  BY <1>1, <1>2, FrameRead
<1>4. PICK x \in Nat : Head(wire) = <<"record", x>> /\ Head(wire) \in Data
  <2>1. Head(wire) \in Frame /\ Head(wire)[1] = "record"
    BY <1>1, <1>2, FrameRead
  <2>. QED BY <2>1, FrameKinds
<1>5. /\ Given(a) /\ a \in Nat /\ dd.why # Complete /\ ~ Raw /\ answer.mode # "raw"
      /\ List[a + 1] = <<"record", x>>
  <2>1. Given(a) /\ a \in Nat /\ dd.why # Complete
    BY <1>1, <1>2, FrameRead
  <2>2. Head(wire) = List[a + 1]
    BY <1>1, <1>2, <1>4, FrameRead
  <2>3. ~ Raw
    <3>1. <<"packet", a + 1>>[1] = "packet"
      OBVIOUS
    <3>2. <<"record", x>>[1] = "record"
      OBVIOUS
    <3>. QED BY <1>4, <2>1, <2>2, <3>1, <3>2, ListNumbers
  <2>. QED BY <1>3, <1>4, <2>1, <2>2, <2>3, DaemonFacts DEF Raw
<1>6. Links(a + 1, b)' /\ EocInv(b)'
  BY <1>1, <1>2, <1>4, <1>5, RestOfWire
<1>7. ~ Raw' /\ List' = List
  BY <1>3, <1>5, SameSource
<1>8. dd' = [pc |-> "give", hand |-> x, why |-> dd.why, recs |-> dd.recs + 1] /\ dd.recs = a
  <2>1. dd.recs = a
    BY <1>1, <1>5 DEF Stream, Handed
  <2>2. Head(wire)[2] = x
    BY <1>4
  <2>. QED BY <1>5, <2>1, <2>2, DaemonFacts DEF ReadRecord, DaemonType
<1>9. dd'.pc = "give" /\ dd'.hand = x /\ dd'.why = dd.why /\ dd'.recs = a + 1
  BY <1>8
<1>10. Given(a + 1 - 1)'
  <2>1. Given(a)' /\ a + 1 - 1 = a
    BY <1>2, <1>3, <1>5, GivenKept
  <2>. QED BY <2>1
<1>11. List'[a + 1] = Framed(dd.hand)'
  BY <1>5, <1>7, <1>9 DEF Framed
<1>12. Handed(a + 1)'
  BY <1>5, <1>7, <1>9, <1>10, <1>11 DEF Handed, Framed
<1>13. DaemonType'
  BY <1>2, <1>5, <1>8, DaemonFacts DEF DaemonType
<1>14. HandshakeInv'
  BY <1>2, <1>3, <1>9, DaemonFacts DEF HandshakeInv
<1>. QED BY <1>3, <1>6, <1>12, <1>13, <1>14, DaemonMoves DEF Stream

LEMMA ReadKeepaliveStep ==
    ASSUME SessionInv, ReadKeepalive
    PROVE  SessionInv'
<1>1. PICK a, b : Stream(a, b)
  BY DEF SessionInv, StreamInv
<1>2. ReadFrame("keepalive") /\ UNCHANGED <<kept, dOpen, dd, dctx, got, queued>>
  BY DEF ReadKeepalive, daemonVars
<1>3. UNCHANGED <<setup, phase, answer, src, srcq, agg, frames, encoded, sv, buf, broken>>
      /\ wire' \in Seq(Frame) /\ Len(wire') <= WireCap /\ phase = "answered" /\ Head(wire) \notin Data
  <2>1. Head(wire) \in Frame /\ Head(wire)[1] = "keepalive"
    BY <1>1, <1>2, FrameRead
  <2>. QED BY <1>1, <1>2, <2>1, FrameRead, FrameKinds
<1>4. Links(a, b)' /\ EocInv(b)'
  BY <1>1, <1>2, <1>3, RestOfWire
<1>5. Handed(a)'
  BY <1>1, <1>2, <1>3, HandedKept DEF Stream
<1>6. DaemonType' /\ HandshakeInv'
  BY <1>2, <1>3, DaemonFacts, DaemonTypeKept, HandshakeKept
<1>. QED BY <1>3, <1>4, <1>5, <1>6, DaemonMoves DEF Stream

LEMMA ReadGoodbyeStep ==
    ASSUME SessionInv, ReadGoodbye
    PROVE  SessionInv'
<1> DEFINE why == Head(wire)[2]
<1>1. PICK a, b : Stream(a, b)
  BY DEF SessionInv, StreamInv
<1>2. ReadFrame("bye") /\ UNCHANGED <<kept, dOpen, got, queued>> /\ dctx'
  BY DEF ReadGoodbye, Ends
<1>3. UNCHANGED <<setup, phase, answer, src, srcq, agg, frames, encoded, sv, buf, broken>>
      /\ wire' \in Seq(Frame) /\ Len(wire') <= WireCap /\ phase = "answered" /\ Given(a) /\ a \in Nat
  BY <1>1, <1>2, FrameRead
<1>4. Head(wire) \notin Data /\ why \in Reasons /\ (why = Complete => Exhausted /\ a = Total)
  <2>1. Head(wire) \in Frame /\ Head(wire)[1] = "bye"
    BY <1>1, <1>2, FrameRead
  <2>2. Head(wire) = Eoc => Exhausted /\ a = Total
    BY <1>1, <1>2, FrameRead
  <2>3. Head(wire) \notin Data /\ why \in Reasons /\ Head(wire) = <<"bye", why>>
    BY <2>1, FrameKinds
  <2>. QED BY <2>2, <2>3 DEF Eoc, Bye
<1>5. Links(a, b)' /\ EocInv(b)'
  BY <1>1, <1>2, <1>4, RestOfWire
<1>6. dd' = [pc |-> "waiting", hand |-> 0, why |-> why, recs |-> dd.recs]
  BY DaemonFacts DEF ReadGoodbye, Ends, DaemonType
<1> HIDE DEF why
<1>7. dd'.pc = "waiting" /\ dd'.why = why /\ dd'.recs = dd.recs
  BY <1>6
<1>8. Handed(a)'
  <2>1. Given(a)' /\ (Raw' <=> Raw) /\ (Exhausted' <=> Exhausted) /\ Total' = Total
    BY <1>2, <1>3, GivenKept, SameSource
  <2>2. ~ Raw => dd.recs = a
    BY <1>1 DEF Stream, Handed
  <2>. QED BY <1>3, <1>4, <1>7, <2>1, <2>2 DEF Handed
<1>9. DaemonType'
  <2>1. why \in Whys
    BY <1>4 DEF Whys
  <2>. QED BY <1>2, <1>6, <2>1, DaemonFacts DEF DaemonType
<1>10. HandshakeInv'
  BY <1>2, <1>3, <1>7, DaemonFacts DEF HandshakeInv
<1>. QED BY <1>3, <1>5, <1>8, <1>9, <1>10, DaemonMoves DEF Stream

LEMMA GiveStep ==
    ASSUME SessionInv, Give
    PROVE  SessionInv'
<1>1. PICK a, b : Stream(a, b)
  BY DEF SessionInv, StreamInv
<1>2. UNCHANGED <<setup, phase, answer, src, srcq, agg, frames, encoded, sv, buf, wire, dOpen, broken, dctx>>
      /\ dd.pc = "give" /\ queued < OutCap
  BY DEF Give, kept, sensorVars
<1>3. dd' = [pc |-> "read", hand |-> 0, why |-> dd.why, recs |-> dd.recs]
  BY DaemonFacts DEF Give, DaemonType
<1>4. dd'.pc = "read" /\ dd'.why = dd.why /\ dd'.recs = dd.recs
  BY <1>3
<1>5. /\ a \in Nat /\ a # 0 /\ Given(a - 1) /\ List[a] = Framed(dd.hand) /\ (Raw => dd.hand \notin Bad)
      /\ dd.why # Complete /\ (~ Raw => dd.recs = a)
  BY <1>1, <1>2 DEF Stream, Handed
<1>6. /\ got \in Seq(Nat) /\ dd.hand \in Nat /\ got' = Append(got, dd.hand) /\ got' \in Seq(Nat)
      /\ Len(got) \in Nat /\ Len(got') = Len(got) + 1 /\ got'[Len(got) + 1] = dd.hand
      /\ \A i \in 1 .. Len(got) : got'[i] = got[i]
  <2>1. got \in Seq(Nat) /\ dd.hand \in Nat /\ got' = Append(got, dd.hand)
    BY DaemonFacts DEF Give
  <2>. QED BY <2>1, AppendProperties, LenProperties
<1>7. a <= Total /\ Total \in Nat
  <2>1. a <= b /\ b <= Passed /\ a \in Nat /\ b \in Nat
    BY <1>1, DaemonFacts, WalkBounds DEF Stream, Links
  <2>2. Passed \in Nat /\ Passed <= Total /\ Total \in Nat
    BY NextFrame DEF SessionInv
  <2>. QED BY <2>1, <2>2
<1>8. Given(a)'
  <2>1. CASE Raw
    <3>1. Raw' /\ src' = src /\ Total = src.n
      BY <1>2, <2>1 DEF Raw, Total
    <3>2. dd.hand = a
      BY <1>5, <2>1, ListNumbers DEF Framed
    <3>3. a - 1 \in Nat /\ a - 1 + 1 = a /\ Decoded(got, a - 1) /\ a \in 0 .. src.n
      BY <1>5, <1>7, <2>1, <3>1 DEF Given
    <3>4. Decoded(got', a)
      BY <1>5, <1>6, <2>1, <3>2, <3>3, DecodedNext
    <3>. QED BY <3>1, <3>3, <3>4 DEF Given, Decoded
  <2>2. CASE ~ Raw
    <3>1. ~ Raw' /\ encoded' = encoded /\ Total = Len(encoded)
      BY <1>2, <2>2 DEF Raw, Total
    <3>2. dd.hand = encoded[a]
      BY <1>5, <2>2, ListNumbers DEF Framed
    <3>3. Len(got) = a - 1 /\ (\A i \in 1 .. a - 1 : got[i] = encoded[i]) /\ a \in 0 .. Len(encoded)
      BY <1>5, <1>7, <2>2, <3>1 DEF Given
    <3>4. Len(got') = a /\ got'[a] = encoded[a] /\ \A i \in 1 .. a : i = a \/ i \in 1 .. a - 1
      BY <1>5, <1>6, <3>2, <3>3
    <3>5. \A i \in 1 .. a : got'[i] = encoded[i]
      BY <1>6, <3>3, <3>4
    <3>. QED BY <3>1, <3>3, <3>4, <3>5 DEF Given
  <2>. QED BY <2>1, <2>2
<1>9. Handed(a)'
  BY <1>2, <1>4, <1>5, <1>8, SameSource DEF Handed
<1>10. Links(a, b)' /\ EocInv(b)'
  BY <1>1, <1>2, SameSource DEF Stream, Links, Intact, EocInv
<1>11. DaemonType'
  <2>1. queued' \in 0 .. OutCap
    BY <1>2, DaemonFacts, SessionConstants DEF DaemonType, Give
  <2>. QED BY <1>3, <1>6, <2>1, DaemonFacts DEF DaemonType
<1>12. HandshakeInv'
  BY <1>2, <1>4, DaemonFacts DEF HandshakeInv
<1>. QED BY <1>2, <1>9, <1>10, <1>11, <1>12, DaemonFacts, DaemonMoves DEF Stream

\* run has waited for the closer; and a Close from outside.
LEMMA SettlesStep ==
    ASSUME SessionInv, SessionDone \/ \E caller \in {"manager", "pipeline"} : Close(caller)
    PROVE  SessionInv'
<1>1. PICK a, b : Stream(a, b)
  BY DEF SessionInv, StreamInv
<1>2. UNCHANGED <<setup, phase, answer, src, srcq, agg, frames, encoded, sv, buf, wire, dOpen, broken, got, queued>>
      /\ dd.pc # "off"
  BY DEF SessionDone, Close, kept, sensorVars
<1>3. Links(a, b)' /\ EocInv(b)'
  BY <1>1, <1>2, SameSource DEF Stream, Links, Intact, EocInv
<1>4. /\ \A n : Given(n) <=> Given(n)'
      /\ Total' = Total /\ List' = List /\ (Exhausted' <=> Exhausted) /\ (Raw' <=> Raw)
  BY <1>2, GivenKept, SameSource
<1>5. CASE SessionDone
  <2>1. dd' = [pc |-> "done", hand |-> dd.hand, why |-> dd.why, recs |-> dd.recs] /\ dctx' = dctx
        /\ dd.pc = "waiting"
    BY <1>5, DaemonFacts DEF SessionDone, DaemonType
  <2>2. dd'.pc = "done" /\ dd'.why = dd.why /\ dd'.recs = dd.recs
    BY <2>1
  <2>3. Handed(a)'
    BY <1>1, <1>4, <2>1, <2>2 DEF Stream, Handed
  <2>4. DaemonType'
    BY <1>2, <2>1, DaemonFacts DEF DaemonType
  <2>5. HandshakeInv'
    BY <1>2, <2>2, DaemonFacts DEF HandshakeInv
  <2>. QED BY <1>2, <1>3, <2>3, <2>4, <2>5, DaemonFacts, DaemonMoves DEF Stream
<1>6. CASE \E caller \in {"manager", "pipeline"} : Close(caller)
  <2>1. dd' = dd /\ dctx'
    BY <1>6 DEF Close
  <2>2. Handed(a)'
    BY <1>1, <1>4, <2>1 DEF Stream, Handed, Framed
  <2>3. DaemonType' /\ HandshakeInv'
    BY <1>2, <2>1, DaemonFacts, DaemonTypeKept, HandshakeKept
  <2>. QED BY <1>2, <1>3, <2>2, <2>3, DaemonFacts, DaemonMoves DEF Stream
<1>. QED BY <1>5, <1>6

-----------------------------------------------------------------------------
(* The beginning of a session, and the loop of a sensor that dials.        *)

Fresh ==
    /\ setup \in Setups /\ phase \in {"dialled", "hello", "answered"}
    /\ src.n = 0 /\ src.err = "none" /\ src \in [n : 0 .. MaxPackets, on : BOOLEAN, err : {"none", "error", "cancel"}]
    /\ agg \in {AggregateOff, [AggregateOff EXCEPT !.pc = IF Raw THEN "done" ELSE "loop"]}
    /\ sv \in {ServeOff, [ServeOff EXCEPT !.pc = "select"]}
    /\ srcq = <<>> /\ frames = <<>> /\ encoded = <<>> /\ buf = <<>> /\ wire = <<>>
    /\ dd = SessionOff /\ got = <<>> /\ queued = 0
    /\ HandshakeInv

LEMMA FreshInv == Fresh => SessionInv
<1> SUFFICES ASSUME Fresh PROVE SessionInv
  OBVIOUS
<1>1. Len(<<>>) = 0 /\ 1 .. 0 = {} /\ <<>> \in Seq(Nat) /\ <<>> \in Seq(Frame)
  BY EmptySeq
<1>2. /\ agg \in [pc : {"off", "loop", "emit", "flush", "done"}, held : SUBSET (1 .. MaxPackets), hand : Nat,
                  stopped : BOOLEAN, err : {"none", "error", "cancel"}]
      /\ agg.pc \in {"off", "done", "loop"} /\ (Raw => agg.pc \in {"off", "done"}) /\ (~ Raw => agg.pc \in {"off", "loop"})
      /\ agg.held = {} /\ agg.hand = 0
  <2>1. CASE agg = AggregateOff
    BY <2>1 DEF AggregateOff
  <2>2. CASE agg = [AggregateOff EXCEPT !.pc = IF Raw THEN "done" ELSE "loop"] /\ Raw
    <3>1. agg = [pc |-> "done", held |-> {}, hand |-> 0, stopped |-> FALSE, err |-> "none"]
      BY <2>2 DEF AggregateOff
    <3>2. Raw
      BY <2>2
    <3>. QED BY <3>1, <3>2
  <2>3. CASE agg = [AggregateOff EXCEPT !.pc = IF Raw THEN "done" ELSE "loop"] /\ ~ Raw
    <3>1. agg = [pc |-> "loop", held |-> {}, hand |-> 0, stopped |-> FALSE, err |-> "none"]
      BY <2>3 DEF AggregateOff
    <3>2. ~ Raw
      BY <2>3
    <3>. QED BY <3>1, <3>2
  <2>. QED BY <2>1, <2>2, <2>3 DEF Fresh
<1>3. /\ sv \in [pc : {"off", "select", "drain", "flush", "closed"}, batch : 0 .. BatchMax,
                 after : {"", "select", "close"}, ticked : BOOLEAN]
      /\ sv.pc \in {"off", "select"}
  <2>1. 0 \in 0 .. BatchMax
    BY SessionConstants
  <2>2. CASE sv = ServeOff
    BY <2>1, <2>2 DEF ServeOff
  <2>3. CASE sv = [ServeOff EXCEPT !.pc = "select"]
    <3>1. sv = [pc |-> "select", batch |-> 0, after |-> "", ticked |-> FALSE]
      BY <2>3 DEF ServeOff
    <3>. QED BY <2>1, <3>1
  <2>. QED BY <2>2, <2>3 DEF Fresh
<1>4. dd.pc = "off" /\ dd.recs = 0 /\ dd.why # Complete /\ DaemonType
  <2>1. "" \in Whys
    BY DEF Whys
  <2>2. dd.pc = "off" /\ dd.recs = 0 /\ dd.why = "" /\ dd.hand = 0
    BY DEF Fresh, SessionOff
  <2>3. dd \in [pc : {"off", "read", "give", "waiting", "done"}, hand : Nat, why : Whys, recs : Nat]
    BY <2>1 DEF Fresh, SessionOff
  <2>4. 0 \in 0 .. OutCap
    BY SessionConstants
  <2>. QED BY <1>1, <2>2, <2>3, <2>4, CompleteApart DEF Fresh, DaemonType
<1>5. SourceType /\ WriterType
  <2>1. 0 <= SourceCap /\ 0 <= FramesCap /\ 0 <= WireCap
    BY SessionConstants
  <2>2. SourceType
    BY <1>1, <1>2, <2>1 DEF Fresh, SourceType
  <2>. QED BY <1>1, <1>3, <2>1, <2>2 DEF Fresh, WriterType
<1>6. SessionType
  BY <1>4, <1>5 DEF Fresh, SessionType
<1>7. WriterInv
  <2>1. 0 <= BufCap /\ 0 <= BufCap + 1
    BY SessionConstants
  <2>. QED BY <1>1, <1>3, <2>1 DEF Fresh, WriterInv
<1>8. SourceInv
  BY <1>1 DEF Fresh, SourceInv
<1>9. AggregateInv
  <2>1. Observed = 0 /\ Seen_ = {}
    <3>1. src.n = 0 /\ Len(srcq) = 0
      BY <1>1 DEF Fresh
    <3>2. Observed = 0
      BY <3>1 DEF Observed
    <3>. QED BY <1>1, <3>2 DEF Seen_
  <2>. QED BY <1>1, <1>2, <2>1 DEF Fresh, AggregateInv
<1>10. Passed = 0 /\ Total = 0 /\ LastOnly(wire) /\ LastOnly(buf) /\ ~ HasEoc(wire) /\ ~ HasEoc(buf)
  BY <1>1, EocEmpty DEF Fresh, Passed, Total, In
<1>11. Given(0)
  <2>1. CASE Raw
    <3>1. ToSet(<<>>) = {} /\ DOMAIN <<>> = {}
      BY <1>1 DEF ToSet
    <3>2. Decoded(<<>>, 0)
      BY <1>1, <3>1 DEF Decoded
    <3>. QED BY <2>1, <3>2 DEF Given, Fresh
  <2>2. CASE ~ Raw
    BY <1>1, <2>2 DEF Given, Fresh
  <2>. QED BY <2>1, <2>2
<1>12. Handed(0)
  BY <1>4, <1>11 DEF Handed
<1>13. Links(0, 0)
  BY <1>10, WalkEmpty DEF Fresh, Links
<1>14. EocInv(0)
  BY <1>10 DEF EocInv
<1>. QED BY <1>6, <1>7, <1>8, <1>9, <1>12, <1>13, <1>14 DEF Fresh, SessionInv, StreamInv, Stream

Before == setup \in Setups /\ phase \in {"dialled", "hello"} /\ answer = Rejection("none") /\ Off

LEMMA OffFresh == Before => Fresh
<1> SUFFICES ASSUME setup \in Setups, phase \in {"dialled", "hello"}, answer = Rejection("none"), Off PROVE Fresh
  BY DEF Before
<1>1. src.n = 0 /\ src.err = "none"
      /\ src \in [n : 0 .. MaxPackets, on : BOOLEAN, err : {"none", "error", "cancel"}]
  <2>1. 0 \in 0 .. MaxPackets
    BY SessionConstants
  <2>. QED BY <2>1 DEF Off, SourceOff
<1>2. HandshakeInv
  <2>1. dd.pc = "off" /\ dd.recs = 0 /\ got = <<>>
    BY DEF Off, SessionOff
  <2>. QED BY <2>1 DEF HandshakeInv
<1>. QED BY <1>1, <1>2 DEF Fresh, Off

LEMMA SayHelloStep ==
    ASSUME SessionInv, SayHello
    PROVE  SessionInv'
<1>1. Before'
  BY DaemonFacts DEF Before, SessionType, SayHello, HandshakeInv, Off, sensorVars, netVars, daemonVars
<1>2. Fresh'
  BY <1>1, OffFresh, PTL
<1>. QED BY <1>2, FreshInv, PTL

LEMMA AnswerStep ==
    ASSUME SessionInv, Answer
    PROVE  SessionInv'
<1>1. Off /\ setup \in Setups /\ phase' = "answered" /\ answer' = AnswerTo(setup.hello, setup.cfg)
      /\ UNCHANGED <<setup, srcq, frames, encoded, buf, wire, dd, got, queued>>
  BY DaemonFacts DEF SessionType, Answer, HandshakeInv, daemonVars
<1>2. setup' \in Setups /\ phase' \in {"dialled", "hello", "answered"}
  BY <1>1
<1>3. src'.n = 0 /\ src'.err = "none"
      /\ src' \in [n : 0 .. MaxPackets, on : BOOLEAN, err : {"none", "error", "cancel"}]
  <2>1. src' \in {SourceOff, [n |-> 0, on |-> TRUE, err |-> "none"]}
    <3>1. CASE answer'.code = "ok"
      BY <1>1, <3>1 DEF Answer, Off, SourceOff
    <3>2. CASE answer'.code # "ok"
      BY <1>1, <3>2 DEF Answer, Off
    <3>. QED BY <3>1, <3>2
  <2>2. 0 \in 0 .. MaxPackets
    BY SessionConstants
  <2>3. CASE src' = SourceOff
    BY <2>2, <2>3 DEF SourceOff
  <2>4. CASE src' = [n |-> 0, on |-> TRUE, err |-> "none"]
    BY <2>2, <2>4
  <2>. QED BY <2>1, <2>3, <2>4
<1>4. agg' \in {AggregateOff, [AggregateOff EXCEPT !.pc = IF Raw' THEN "done" ELSE "loop"]}
  <2>1. CASE answer'.code = "ok"
    BY <1>1, <2>1 DEF Answer, Off, Raw
  <2>2. CASE answer'.code # "ok"
    BY <1>1, <2>2 DEF Answer, Off
  <2>. QED BY <2>1, <2>2
<1>5. sv' \in {ServeOff, [ServeOff EXCEPT !.pc = "select"]}
  <2>1. CASE answer'.code = "ok"
    BY <1>1, <2>1 DEF Answer, Off
  <2>2. CASE answer'.code # "ok"
    BY <1>1, <2>2 DEF Answer, Off
  <2>. QED BY <2>1, <2>2
<1>6. /\ srcq' = <<>> /\ frames' = <<>> /\ encoded' = <<>> /\ buf' = <<>> /\ wire' = <<>>
      /\ dd' = SessionOff /\ got' = <<>> /\ queued' = 0
  BY <1>1 DEF Off
<1>7. HandshakeInv'
  <2>1. dd'.pc = "off" /\ dd'.recs = 0
    BY <1>6 DEF SessionOff
  <2>. QED BY <1>1, <1>6, <2>1 DEF HandshakeInv
<1>8. Fresh'
  BY <1>2, <1>3, <1>4, <1>5, <1>6, <1>7 DEF Fresh
<1>. QED BY <1>8, FreshInv, PTL

LEMMA SessionInitInv == ConnectInit => SessionInv
<1>1. ConnectInit => Before
  BY DEF ConnectInit, Before, Init, Off
<1>. QED BY <1>1, OffFresh, FreshInv

LEMMA DialStep ==
    ASSUME SessionInv, Dial
    PROVE  SessionInv'
<1>1. Before'
  BY DaemonFacts DEF Before, SessionType, Dial, Off
<1>2. Fresh'
  BY <1>1, OffFresh, PTL
<1>. QED BY <1>2, FreshInv, PTL

\* The loop around the sessions.
LEMMA LoopStep ==
    ASSUME SessionInv, UNCHANGED vars \/ StopBetween
    PROVE  SessionInv'
<1>1. UNCHANGED <<setup, phase, answer, src, srcq, agg, frames, encoded, sv, buf, wire, dOpen, broken,
                  dd, dctx, got, queued, reader>>
  BY DEF vars, StopBetween, sensorVars, netVars, daemonVars
<1>2. queued' \in 0 .. OutCap
  BY <1>1, DaemonFacts DEF DaemonType
<1>. QED BY <1>1, <1>2, QuietStep

LEMMA SessionNextInv == SessionInv /\ [ConnectNext]_allVars => SessionInv'
<1> SUFFICES ASSUME SessionInv, [ConnectNext]_allVars PROVE SessionInv'
  OBVIOUS
<1>1. CASE Next
  <2>1. CASE SayHello \/ Answer \/ TakeAnswer \/ HandshakeFails
    BY <2>1, SayHelloStep, AnswerStep, TakeAnswerStep, HandshakeFailsStep
  <2>2. CASE Source
    <3>1. CASE Produce
      BY <3>1, ProduceStep
    <3>2. CASE \E err \in {"none", "error", "cancel"} : SourceEnds(err)
      BY <3>2, SourceEndsStep
    <3>. QED BY <2>2, <3>1, <3>2 DEF Source
  <2>3. CASE Aggregate
    BY <2>3, AggStopStep, AggErrorStep, AggEndStep, AggObserveStep, AggFlushStep, EmitStep, EmitGoneStep
       DEF Aggregate
  <2>4. CASE Serve
    BY <2>4, ServeStep
  <2>5. CASE ReadBack \/ SensorStops \/ PipelineTakes
    BY <2>5, AroundStep
  <2>6. CASE Break
    BY <2>6, BreakStep
  <2>7. CASE DaemonSession
    BY <2>7, ReadPacketStep, ReadRecordStep, ReadKeepaliveStep, ReadGoodbyeStep, GiveStep, StopsReadingStep,
       AroundStep, ClosesStep, SettlesStep DEF DaemonSession
  <2>8. CASE ReadFails
    BY <2>8, StopsReadingStep
  <2>9. CASE ManagerCloses
    BY <2>9, ClosesStep
  <2>10. CASE \E caller \in {"manager", "pipeline"} : Close(caller)
    BY <2>10, SettlesStep
  <2>. QED BY <1>1, <2>1, <2>2, <2>3, <2>4, <2>5, <2>6, <2>7, <2>8, <2>9, <2>10 DEF Next
<1>2. CASE Dial
  BY <1>2, DialStep
<1>3. CASE UNCHANGED vars \/ StopBetween
  BY <1>3, LoopStep
<1>. QED BY <1>1, <1>2, <1>3 DEF ConnectNext, Session, DialFails, SessionOver, Wake, allVars

-----------------------------------------------------------------------------
(* What the invariant says of both ends. *)

LEMMA IncreasingDistinct ==
    ASSUME NEW s \in Seq(Nat), \A i, j \in DOMAIN s : i < j => s[i] < s[j]
    PROVE  \A i, j \in DOMAIN s : s[i] = s[j] => i = j
<1>1. DOMAIN s = 1 .. Len(s) /\ Len(s) \in Nat /\ \A i \in 1 .. Len(s) : s[i] \in Nat
  BY LenProperties, ElementOfSeq
<1> SUFFICES ASSUME NEW i \in DOMAIN s, NEW j \in DOMAIN s, s[i] = s[j], i # j PROVE FALSE
  OBVIOUS
<1>2. i < j \/ j < i
  BY <1>1
<1>. QED BY <1>1, <1>2

\* How far the daemon has read, and how much of that the pipeline has.
LEMMA HowFar ==
    ASSUME SessionInv
    PROVE  \E a \in Nat :
             /\ ~ Raw => dd.recs = a
             /\ \/ Given(a) /\ dd.pc # "give"
                \/ Given(a - 1) /\ a # 0 /\ (dd.pc = "give" \/ dctx)
<1>1. PICK a, b : Stream(a, b)
  BY DEF SessionInv, StreamInv
<1>2. Handed(a)
  BY <1>1 DEF Stream
<1>3. a \in Nat /\ (~ Raw => dd.recs = a)
  BY <1>2 DEF Handed
<1>4. CASE dd.pc \in {"off", "read"}
  BY <1>2, <1>3, <1>4 DEF Handed
<1>5. CASE dd.pc = "give"
  BY <1>2, <1>3, <1>5 DEF Handed
<1>6. CASE dd.pc \in {"waiting", "done"}
  BY <1>2, <1>3, <1>6 DEF Handed
<1>. QED BY <1>4, <1>5, <1>6, DaemonFacts

LEMMA SessionTypeOK ==
    ASSUME SessionInv
    PROVE  TypeOK
<1>1. /\ setup \in Setups /\ phase \in {"dialled", "hello", "answered"} /\ src.n \in 0 .. MaxPackets
      /\ Len(srcq) <= SourceCap /\ Len(frames) <= FramesCap
  BY DEF SessionInv, SessionType, SourceType
<1>2. Len(buf) <= BufCap + 1 /\ Len(wire) <= WireCap /\ queued \in 0 .. OutCap
  BY DEF SessionInv, SessionType, WriterType, DaemonType, WriterInv
<1>3. /\ agg.pc \in {"off", "loop", "emit", "flush", "done"} /\ agg.held \subseteq 1 .. MaxPackets
      /\ sv.pc \in {"off", "select", "drain", "flush", "closed"} /\ sv.batch \in 0 .. BatchMax
      /\ dd.pc \in {"off", "read", "give", "waiting", "done"} /\ dd.recs \in Nat
  BY TypeFacts DEF SessionInv
<1>. QED BY <1>1, <1>2, <1>3 DEF TypeOK

LEMMA SessionInOrderOnce ==
    ASSUME SessionInv
    PROVE  InOrderOnce
<1>1. PICK n : Given(n)
  BY HowFar
<1>2. /\ got \in Seq(Nat) /\ Len(got) \in Nat /\ DOMAIN got = 1 .. Len(got)
      /\ encoded \in Seq(Nat) /\ Len(encoded) \in Nat
      /\ \A i \in 1 .. Len(got) : got[i] \in Nat
  BY LenProperties, ElementOfSeq DEF SessionInv, SessionType, SourceType, DaemonType
<1>3. CASE Raw
  <2>1. n \in 0 .. src.n /\ Decoded(got, n)
    BY <1>1, <1>3 DEF Given
  <2>2. \A i, j \in DOMAIN got : got[i] = got[j] => i = j
    BY <1>2, <2>1, IncreasingDistinct DEF Decoded
  <2>. QED BY <1>3, <2>1, <2>2 DEF InOrderOnce
<1>4. CASE ~ Raw
  <2>1. n \in 0 .. Len(encoded) /\ Len(got) = n /\ \A i \in 1 .. n : got[i] = encoded[i]
    BY <1>1, <1>4 DEF Given
  <2>2. \A i \in 1 .. n : i \in 1 .. Len(encoded) /\ encoded[i] \in Nat
    BY <1>2, <2>1, ElementOfSeq
  <2>3. \A i, j \in DOMAIN got : got[i] = got[j] => i = j
    BY <1>2, <1>4, <2>1, <2>2 DEF SessionInv, AggregateInv
  <2>4. SubSeq(got, 1, n) = SubSeq(encoded, 1, n)
    <3>1. /\ SubSeq(got, 1, n) \in Seq(Nat) /\ SubSeq(encoded, 1, n) \in Seq(Nat)
          /\ Len(SubSeq(got, 1, n)) = n /\ Len(SubSeq(encoded, 1, n)) = n
          /\ \A i \in 1 .. n : SubSeq(got, 1, n)[i] = got[i] /\ SubSeq(encoded, 1, n)[i] = encoded[i]
      <4>1. \A i \in 1 .. n : got[i] \in Nat
        BY <1>2, <2>1
      <4>2. ASSUME NEW s, \A i \in 1 .. n : s[i] \in Nat
            PROVE  SubSeq(s, 1, n) \in Seq(Nat) /\ Len(SubSeq(s, 1, n)) = n
                   /\ \A i \in 1 .. n : SubSeq(s, 1, n)[i] = s[i]
        <5>1. /\ SubSeq(s, 1, n) \in Seq(Nat) /\ Len(SubSeq(s, 1, n)) = (IF 1 <= n THEN n - 1 + 1 ELSE 0)
              /\ \A i \in 1 .. n - 1 + 1 : SubSeq(s, 1, n)[i] = s[1 + i - 1]
          BY <2>1, <4>2, SubSeqProperties
        <5>2. n \in Nat /\ n - 1 + 1 = n /\ \A i \in 1 .. n : 1 + i - 1 = i
          BY <1>2, <2>1
        <5> DEFINE r == SubSeq(s, 1, n)
        <5> HIDE DEF r
        <5>3. r \in Seq(Nat) /\ Len(r) = n /\ \A i \in 1 .. n : r[i] = s[i]
          BY <5>1, <5>2 DEF r
        <5>. QED BY <5>3 DEF r
      <4>. QED BY <2>2, <4>1, <4>2
    <3>2. \A i \in 1 .. n : SubSeq(got, 1, n)[i] = SubSeq(encoded, 1, n)[i]
      BY <2>1, <3>1
    <3>. QED BY <3>1, <3>2, SeqEqual
  <2>5. IsPrefix(got, encoded)
    BY <1>2, <2>1, <2>4 DEF IsPrefix
  <2>. QED BY <1>4, <2>3, <2>5 DEF InOrderOnce
<1>. QED BY <1>3, <1>4

LEMMA SessionRecordsCounted ==
    ASSUME SessionInv
    PROVE  RecordsCounted
<1> SUFFICES ASSUME answer.mode # "raw"
             PROVE  \/ dd.recs = Len(got) + (IF dd.pc = "give" THEN 1 ELSE 0)
                    \/ dd.recs = Len(got) + 1 /\ dctx
  BY DEF RecordsCounted
<1>1. Rejection("none").mode = "raw"
  BY DEF Rejection
<1>2. answer = AnswerTo(setup.hello, setup.cfg) /\ setup \in Setups
  BY <1>1 DEF SessionInv, SessionType, HandshakeInv
<1>3. answer.mode = setup.cfg.mode
  BY <1>2, Negotiated
<1>4. ~ Raw
  BY <1>3 DEF Raw
<1>5. PICK a \in Nat : /\ dd.recs = a
                       /\ \/ Given(a) /\ dd.pc # "give"
                          \/ Given(a - 1) /\ a # 0 /\ (dd.pc = "give" \/ dctx)
  BY <1>4, HowFar
<1>6. \A n : Given(n) => Len(got) = n
  BY <1>4 DEF Given
<1>7. CASE Given(a) /\ dd.pc # "give"
  BY <1>5, <1>6, <1>7
<1>8. CASE Given(a - 1) /\ dd.pc = "give"
  <2>1. Len(got) = a - 1
    BY <1>6, <1>8
  <2>2. a = Len(got) + 1
    BY <2>1
  <2>. QED BY <1>5, <1>8, <2>2
<1>9. CASE Given(a - 1) /\ dctx
  <2>1. Len(got) = a - 1
    BY <1>6, <1>9
  <2>2. a = Len(got) + 1
    BY <2>1
  <2>. QED BY <1>5, <1>9, <2>2
<1>. QED BY <1>5, <1>7, <1>8, <1>9

\* Whatever the source, the network, the operator and the configuration do, the pipeline gets
\* what the sensor sent once and in order, with nothing left out in between, and the daemon's
\* count of records is what the pipeline got but for the one in hand (serveConn and its
\* frameWriter, Aggregate, the daemon's read loop and recordRoute.deliver).
THEOREM RecordsAlwaysArriveOnce == ConnectSpec => []RecordsArriveOnce
<1>1. SessionInv => RecordsArriveOnce
  BY SessionTypeOK, SessionInOrderOnce, SessionRecordsCounted DEF RecordsArriveOnce
<1>. QED BY <1>1, SessionInitInv, SessionNextInv, PTL DEF ConnectSpec

-----------------------------------------------------------------------------
(* What a goodbye says, and what lies behind it. *)

Failure == "source error"
Blame == Bye(Failure)
Blames(s) == \E i \in 1 .. Len(s) : s[i] = Blame
Failed == "error" \in {src.err, agg.err}

\* An error is kept where it was found, and only an error ends a source early.
ErrorInv ==
    /\ src.on => src.err = "none"
    /\ agg.pc \in {"off", "loop", "emit"} => agg.err = "none"
    /\ phase = "answered" /\ answer.code = "ok" =>
          src.on \/ src.err # "none" \/ agg.err # "none" \/ src.n = setup.packets

\* A goodbye that blames the source, on its way or read, has an error behind it.
BlameInv ==
    /\ Blames(buf) \/ Blames(wire) \/ dd.why = Failure => Failed
    /\ dd.why = Complete => phase = "answered" /\ answer.code = "ok"

ReasonInv == ErrorInv /\ BlameInv

LEMMA BlamesEmpty == ~ Blames(<<>>)
<1>1. 1 .. Len(<<>>) = {}
  BY EmptySeq
<1>. QED BY <1>1 DEF Blames

LEMMA BlamesAppend ==
    ASSUME NEW q \in Seq(Frame), NEW x \in Frame, Blames(Append(q, x))
    PROVE  Blames(q) \/ x = Blame
<1> DEFINE n == Len(q)
           r == Append(q, x)
<1>1. n \in Nat /\ Len(r) = n + 1 /\ r[n + 1] = x /\ \A i \in 1 .. n : r[i] = q[i]
  BY LenProperties, AppendProperties
<1>2. \A i \in 1 .. n + 1 : i # n + 1 => i \in 1 .. n
  BY <1>1
<1>3. PICK i \in 1 .. Len(r) : r[i] = Blame
  BY DEF Blames
<1> HIDE DEF r
<1>. QED BY <1>1, <1>2, <1>3 DEF Blames

LEMMA BlamesTail ==
    ASSUME NEW q \in Seq(Frame), q # <<>>
    PROVE  /\ Blames(Tail(q)) => Blames(q)
           /\ Head(q) = Blame => Blames(q)
<1> DEFINE n == Len(q)
           r == Tail(q)
<1>1. n \in Nat \ {0} /\ Len(r) = n - 1 /\ (\A i \in 1 .. n - 1 : r[i] = q[i + 1]) /\ Head(q) = q[1]
  BY LenProperties, HeadTailProperties, EmptySeq
<1>2. 1 \in 1 .. n /\ \A i \in 1 .. n - 1 : i + 1 \in 1 .. n
  BY <1>1
<1> HIDE DEF r
<1>3. Blames(r) => Blames(q)
  BY <1>1, <1>2 DEF Blames
<1>4. Head(q) = Blame => Blames(q)
  BY <1>1, <1>2 DEF Blames
<1>. QED BY <1>3, <1>4 DEF r

LEMMA BlamesPrefix ==
    ASSUME NEW q \in Seq(Frame), NEW k \in 0 .. Len(q), Blames(SubSeq(q, 1, k))
    PROVE  Blames(q)
<1> DEFINE r == SubSeq(q, 1, k)
<1>1. Len(q) \in Nat /\ \A i \in 1 .. Len(q) : q[i] \in Frame
  BY LenProperties, ElementOfSeq
<1>2. \A i \in 1 .. k : q[i] \in Frame
  BY <1>1
<1>3. /\ r \in Seq(Frame) /\ Len(r) = (IF 1 <= k THEN k - 1 + 1 ELSE 0)
      /\ \A i \in 1 .. k - 1 + 1 : r[i] = q[1 + i - 1]
  BY <1>1, <1>2, SubSeqProperties
<1>4. PICK i \in 1 .. Len(r) : r[i] = Blame
  BY DEF Blames
<1> HIDE DEF r
<1>5. i \in 1 .. Len(q) /\ r[i] = q[i]
  <2>1. Len(r) \in Nat /\ i \in 1 .. Len(r) /\ k \in Nat
    BY <1>1, <1>3
  <2>2. 1 <= k /\ Len(r) = k
    BY <1>3, <2>1
  <2>3. i \in 1 .. k - 1 + 1 /\ 1 + i - 1 = i
    BY <2>1, <2>2
  <2>. QED BY <1>1, <1>3, <2>1, <2>2, <2>3
<1>. QED BY <1>4, <1>5 DEF Blames

LEMMA FailureApart ==
    /\ Failure \notin {"", "declined", "lost", "cancelled", "eof", "idle"}
    /\ Failure # Complete /\ Failure # "server closing" /\ Failure \in Reasons
    /\ Complete # "server closing"
BY Zenon DEF Failure, Complete, Reasons

LEMMA BlameFrame ==
    /\ \A f \in Data : f # Blame
    /\ <<"keepalive">> # Blame
    /\ Bye("server closing") # Blame /\ Eoc # Blame /\ Blame \in Frame
    /\ \A f : f = Blame => f[2] = Failure
<1>1. Blame = <<"bye", Failure>>
  BY DEF Blame, Bye
<1>2. Blame \in Frame
  BY <1>1, FailureApart DEF Frame
<1>3. Blame[1] = "bye" /\ Blame[2] = Failure
  BY <1>1
<1>4. \A f \in Data : f[1] \in {"packet", "record"}
  BY DEF Data
<1>5. <<"keepalive">>[1] = "keepalive"
  OBVIOUS
<1>6. Bye("server closing")[2] = "server closing" /\ Eoc[2] = Complete
  BY DEF Bye, Eoc
<1>. QED BY <1>2, <1>3, <1>4, <1>5, <1>6, FailureApart

\* A queue of frames is only added to, taken from and cut.
Told ==
    /\ Blames(buf)' => Blames(buf) \/ Failed
    /\ Blames(wire)' => Blames(wire) \/ Blames(buf)
    /\ dd'.why = Failure => dd.why = Failure \/ Blames(wire)
    /\ dd'.why = Complete => dd.why = Complete \/ dd.pc = "read"

LEMMA ServeTells ==
    ASSUME SessionInv, Serve
    PROVE  Told /\ UNCHANGED <<phase, answer, setup, src, agg>>
<1>0. /\ buf \in Seq(Frame) /\ wire \in Seq(Frame)
      /\ srcq \in Seq(Nat) /\ frames \in Seq(Nat)
  BY DEF SessionInv, SessionType, WriterType, SourceType
<1>1. UNCHANGED <<phase, answer, setup, src, agg, dd>>
  BY DEF Serve, SeesCancel, SeesError, SeesEnd, SayBye, TakeFrame, Keepalive, StartFlush, PassOn, Flushed,
         SaidBye, WriteFails, Leave, same, daemonVars
<1>2. CASE SeesCancel \/ SeesError \/ SeesEnd
  <2>1. wire' = wire /\ \E r \in Reasons : buf' = Append(buf, Bye(r)) /\ (r = Failure => InErr = "error")
    <3>1. CASE SeesCancel
      <4>1. wire' = wire /\ buf' = Append(buf, Bye("server closing"))
        BY <3>1 DEF SeesCancel, SayBye, same, netVars
      <4>2. "server closing" \in Reasons
        BY DEF Reasons
      <4>. QED BY <4>1, <4>2, FailureApart
    <3>2. CASE SeesError
      <4>1. wire' = wire /\ buf' = Append(buf, Bye(Failure)) /\ InErr = "error"
        BY <3>2, Zenon DEF SeesError, SayBye, same, netVars, Failure
      <4>. QED BY <4>1, FailureApart
    <3>3. CASE SeesEnd
      <4>1. wire' = wire /\ buf' = Append(buf, Bye(Complete))
        BY <3>3, Zenon DEF SeesEnd, SayBye, same, netVars, Complete
      <4>2. Complete \in Reasons
        BY DEF Reasons
      <4>. QED BY <4>1, <4>2, FailureApart
    <3>. QED BY <1>2, <3>1, <3>2, <3>3
  <2>2. PICK r \in Reasons : buf' = Append(buf, Bye(r)) /\ (r = Failure => InErr = "error")
    BY <2>1
  <2>3. Bye(r) \in Frame /\ (Bye(r) = Blame => r = Failure)
    <3>1. Bye(r) \in Frame /\ Bye(r)[2] = r
      BY DEF Bye, Frame
    <3>. QED BY <3>1, BlameFrame
  <2>4. InErr = "error" => Failed
    BY DEF InErr, Failed
  <2>5. Blames(buf)' => Blames(buf) \/ Failed
    <3>1. Blames(buf)' => Blames(Append(buf, Bye(r)))
      BY <2>2 DEF Blames
    <3>. QED BY <1>0, <2>2, <2>3, <2>4, <3>1, BlamesAppend
  <2>. QED BY <1>1, <2>1, <2>5 DEF Told, Blames
<1>3. CASE Keepalive
  <2>1. wire' = wire /\ buf' = Append(buf, <<"keepalive">>)
    BY <1>3 DEF Keepalive, same, netVars
  <2>2. <<"keepalive">> \in Frame
    BY DEF Frame
  <2>3. Blames(buf)' => Blames(Append(buf, <<"keepalive">>))
    BY <2>1 DEF Blames
  <2>. QED BY <1>0, <1>1, <2>1, <2>2, <2>3, BlamesAppend, BlameFrame DEF Told, Blames
<1>4. CASE TakeFrame
  <2>1. wire' = wire /\ buf' = Append(buf, Framed(Head(In))) /\ In # <<>>
    BY <1>4 DEF TakeFrame, same, netVars
  <2>2. Head(In) \in Nat
    BY <1>0, <2>1, HeadTailProperties DEF In
  <2>3. Framed(Head(In)) \in Data
    BY <2>2 DEF Framed, Data
  <2> DEFINE x == Framed(Head(In))
  <2> HIDE DEF x
  <2>4. x \in Frame /\ x # Blame /\ buf' = Append(buf, x)
    BY <2>1, <2>3, BlameFrame DEF Frame, x
  <2>5. Blames(buf)' => Blames(Append(buf, x))
    BY <2>4 DEF Blames
  <2>. QED BY <1>0, <1>1, <2>1, <2>4, <2>5, BlamesAppend DEF Told, Blames
<1>5. CASE PassOn
  <2>1. wire' = Append(wire, Head(buf)) /\ buf' = Tail(buf) /\ buf # <<>>
    BY <1>5 DEF PassOn
  <2>2. Head(buf) \in Frame /\ (Blames(Tail(buf)) => Blames(buf)) /\ (Head(buf) = Blame => Blames(buf))
    BY <1>0, <2>1, HeadTailProperties, BlamesTail
  <2>3. (Blames(buf)' => Blames(Tail(buf))) /\ (Blames(wire)' => Blames(Append(wire, Head(buf))))
    BY <2>1 DEF Blames
  <2>4. Blames(Append(wire, Head(buf))) => Blames(wire) \/ Head(buf) = Blame
    BY <1>0, <2>2, BlamesAppend
  <2>. QED BY <1>1, <2>2, <2>3, <2>4 DEF Told
<1>6. CASE SaidBye \/ WriteFails
  <2>1. wire' = wire /\ buf' = <<>>
    BY <1>6 DEF SaidBye, WriteFails, Leave
  <2>2. ~ Blames(buf)'
    BY <2>1, BlamesEmpty DEF Blames
  <2>. QED BY <1>1, <2>1, <2>2 DEF Told, Blames
<1>7. CASE StartFlush \/ Flushed
  <2>1. wire' = wire /\ buf' = buf
    BY <1>7 DEF StartFlush, Flushed, same, netVars
  <2>. QED BY <1>1, <2>1 DEF Told, Blames
<1>. QED BY <1>2, <1>3, <1>4, <1>5, <1>6, <1>7 DEF Serve

LEMMA DaemonTells ==
    ASSUME SessionInv,
           DaemonSession \/ ReadFails \/ ManagerCloses \/ TakeAnswer \/ HandshakeFails
    PROVE  Told /\ UNCHANGED <<phase, answer, setup, src, agg>>
<1>0. wire \in Seq(Frame)
  BY DEF SessionInv, SessionType, WriterType
<1>1. UNCHANGED <<phase, answer, setup, src, agg, buf>>
  BY DEF DaemonSession, ReadPacket, ReadRecord, ReadKeepalive, ReadGoodbye, Give, GiveUp, SayGoodbye, CloserCloses,
         SessionDone, ReadFails, ManagerCloses, TakeAnswer, HandshakeFails, Ends, CloseConn, kept, sensorVars
<1>2. Blames(buf)' => Blames(buf)
  BY <1>1 DEF Blames
<1>3. dd \in [pc : {"off", "read", "give", "waiting", "done"}, hand : Nat, why : Whys, recs : Nat]
  BY DaemonFacts DEF DaemonType
<1>4. CASE ReadPacket \/ ReadRecord \/ ReadKeepalive \/ ReadGoodbye
  <2>1. wire' = Tail(wire) /\ wire # <<>> /\ dd.pc = "read"
    BY <1>4 DEF ReadPacket, ReadRecord, ReadKeepalive, ReadGoodbye, ReadFrame
  <2>2. (Blames(wire)' => Blames(wire)) /\ (Head(wire) = Blame => Blames(wire)) /\ Head(wire) \in Frame
    <3>1. Blames(wire)' => Blames(Tail(wire))
      BY <2>1 DEF Blames
    <3>. QED BY <1>0, <2>1, <3>1, BlamesTail, HeadTailProperties
  <2>3. dd'.why = dd.why \/ (Head(wire)[1] = "bye" /\ dd'.why = Head(wire)[2])
    <3>1. CASE ReadPacket
      BY <1>3, <3>1 DEF ReadPacket
    <3>2. CASE ReadRecord
      BY <1>3, <3>2 DEF ReadRecord
    <3>3. CASE ReadKeepalive
      BY <3>3 DEF ReadKeepalive, daemonVars
    <3>4. CASE ReadGoodbye
      BY <1>3, <3>4 DEF ReadGoodbye, ReadFrame, Ends
    <3>. QED BY <1>4, <3>1, <3>2, <3>3, <3>4
  <2>4. Head(wire)[1] = "bye" /\ Head(wire)[2] = Failure => Head(wire) = Blame
    BY <2>2, FrameKinds DEF Blame, Bye
  <2>. QED BY <1>1, <1>2, <2>1, <2>2, <2>3, <2>4 DEF Told
<1>5. CASE Give \/ SayGoodbye \/ SessionDone
  <2>1. wire' = wire /\ dd'.why = dd.why
    <3>1. CASE Give
      BY <1>3, <3>1 DEF Give
    <3>2. CASE SayGoodbye
      BY <3>2 DEF SayGoodbye
    <3>3. CASE SessionDone
      BY <1>3, <3>3 DEF SessionDone
    <3>. QED BY <1>5, <3>1, <3>2, <3>3
  <2>. QED BY <1>1, <1>2, <2>1 DEF Told, Blames
<1>6. CASE GiveUp \/ ReadFails
  <2>1. wire' = wire
    BY <1>6 DEF GiveUp, ReadFails
  <2>2. \E why \in {"cancelled", "lost", "eof", "idle"} : dd'.why = why
    <3>1. CASE GiveUp
      BY <1>3, <3>1 DEF GiveUp, Ends
    <3>2. CASE ReadFails
      <4> DEFINE why == IF dctx THEN "cancelled" ELSE IF broken THEN "lost" ELSE IF ~sOpen THEN "eof" ELSE "idle"
      <4>1. why \in {"cancelled", "lost", "eof", "idle"}
        OBVIOUS
      <4>2. Ends(why)
        BY <3>2 DEF ReadFails
      <4> HIDE DEF why
      <4>. QED BY <1>3, <4>1, <4>2 DEF Ends
    <3>. QED BY <1>6, <3>1, <3>2
  <2>3. dd'.why # Failure /\ dd'.why # Complete
    BY <2>2, FailureApart, CompleteApart
  <2>. QED BY <1>1, <1>2, <2>1, <2>3 DEF Told, Blames
<1>7. CASE CloserCloses \/ ManagerCloses
  <2>1. wire' = <<>> /\ dd' = dd
    BY <1>7 DEF CloserCloses, ManagerCloses, CloseConn
  <2>2. ~ Blames(wire)'
    BY <2>1, BlamesEmpty DEF Blames
  <2>. QED BY <1>1, <1>2, <2>1, <2>2 DEF Told
<1>8. CASE TakeAnswer \/ HandshakeFails
  <2>1. wire' \in {wire, <<>>} /\ dd'.why \in {dd.why, "declined", "lost"}
    BY <1>3, <1>8 DEF TakeAnswer, HandshakeFails
  <2>2. Blames(wire)' => Blames(wire)
    <3>1. CASE wire' = wire
      BY <3>1 DEF Blames
    <3>2. CASE wire' = <<>>
      BY <3>2, BlamesEmpty DEF Blames
    <3>. QED BY <2>1, <3>1, <3>2
  <2>. QED BY <1>1, <1>2, <2>1, <2>2, FailureApart, CompleteApart DEF Told
<1>. QED BY <1>4, <1>5, <1>6, <1>7, <1>8 DEF DaemonSession

LEMMA SourceKeepsErrors ==
    ASSUME SessionInv, ReasonInv, Source \/ Aggregate
    PROVE  ReasonInv'
<1>1. /\ UNCHANGED <<phase, answer, setup, buf, wire, dd>>
      /\ src \in [n : 0 .. MaxPackets, on : BOOLEAN, err : {"none", "error", "cancel"}]
      /\ agg \in [pc : {"off", "loop", "emit", "flush", "done"}, held : SUBSET (1 .. MaxPackets), hand : Nat,
                  stopped : BOOLEAN, err : {"none", "error", "cancel"}]
  BY DEF Source, Produce, SourceEnds, Aggregate, AggStop, AggError, AggEnd, AggObserve, AggFlush, Emit, EmitGone,
         rest, netVars, daemonVars, SessionInv, SessionType, SourceType
<1>2. ErrorInv' /\ (Failed => Failed')
  <2>1. CASE Produce
    <3>1. src.on /\ src' = [n |-> src.n + 1, on |-> src.on, err |-> src.err] /\ agg' = agg
      BY <1>1, <2>1 DEF Produce
    <3>. QED BY <1>1, <3>1 DEF ReasonInv, ErrorInv, Failed
  <2>2. CASE \E err \in {"none", "error", "cancel"} : SourceEnds(err)
    <3>1. PICK err \in {"none", "error", "cancel"} : SourceEnds(err)
      BY <2>2
    <3>2. /\ src.on /\ src' = [n |-> src.n, on |-> FALSE, err |-> err] /\ agg' = agg
          /\ err = "none" => src.n = setup.packets
      BY <1>1, <3>1 DEF SourceEnds
    <3>3. src'.n = src.n /\ ~ src'.on /\ src'.err = err
      BY <3>2
    <3>. QED BY <1>1, <3>2, <3>3 DEF ReasonInv, ErrorInv, Failed
  <2>3. CASE AggError
    <3>1. /\ agg.pc = "loop" /\ src.err # "none"
          /\ agg' = [pc |-> "flush", held |-> agg.held, hand |-> agg.hand, stopped |-> agg.stopped, err |-> src.err]
          /\ src' = [n |-> src.n, on |-> src.on, err |-> "none"]
      BY <1>1, <2>3 DEF AggError
    <3>2. agg'.pc = "flush" /\ agg'.err = src.err /\ src'.n = src.n /\ src'.on = src.on /\ src'.err = "none"
      BY <3>1
    <3>. QED BY <1>1, <3>1, <3>2 DEF ReasonInv, ErrorInv, Failed
  <2>4. CASE AggStop \/ AggEnd \/ AggObserve \/ AggFlush \/ Emit \/ EmitGone
    <3>1. src' = src
      BY <2>4 DEF AggStop, AggEnd, AggObserve, AggFlush, Emit, EmitGone
    <3>2. agg'.err = agg.err /\ (agg'.pc \in {"off", "loop", "emit"} => agg.pc \in {"off", "loop", "emit"})
      <4>1. CASE AggStop \/ AggEnd
        BY <1>1, <4>1 DEF AggStop, AggEnd
      <4>2. CASE AggObserve
        BY <1>1, <4>2 DEF AggObserve
      <4>3. CASE AggFlush
        BY <1>1, <4>3 DEF AggFlush
      <4>4. CASE Emit \/ EmitGone
        <5>1. agg' \in {[agg EXCEPT !.hand = 0, !.pc = IF @ = "emit" THEN "loop" ELSE @],
                        [agg EXCEPT !.hand = 0, !.stopped = TRUE, !.pc = IF @ = "emit" THEN "loop" ELSE @]}
          BY <4>4 DEF Emit, EmitGone
        <5>. QED BY <1>1, <5>1
      <4>. QED BY <2>4, <4>1, <4>2, <4>3, <4>4
    <3>. QED BY <1>1, <3>1, <3>2 DEF ReasonInv, ErrorInv, Failed
  <2>. QED BY <2>1, <2>2, <2>3, <2>4 DEF Source, Aggregate
<1>3. (Blames(buf)' => Blames(buf)) /\ (Blames(wire)' => Blames(wire))
  BY <1>1 DEF Blames
<1>. QED BY <1>1, <1>2, <1>3 DEF ReasonInv, BlameInv

\* Before a session there is nothing to tell.
LEMMA OffReason ==
    ASSUME src.err = "none", agg.err = "none", buf = <<>>, wire = <<>>, dd = SessionOff,
           src.on \/ ~ (phase = "answered" /\ answer.code = "ok")
    PROVE  ReasonInv
<1>1. ~ Blames(buf) /\ ~ Blames(wire)
  BY BlamesEmpty
<1>2. dd.why # Failure /\ dd.why # Complete
  <2>1. dd.why = ""
    BY DEF SessionOff
  <2>. QED BY <2>1, FailureApart, CompleteApart
<1>. QED BY <1>1, <1>2 DEF ReasonInv, ErrorInv, BlameInv

LEMMA ReasonInitInv == ConnectInit => ReasonInv
<1> SUFFICES ASSUME ConnectInit PROVE ReasonInv
  OBVIOUS
<1>1. src = SourceOff /\ agg = AggregateOff /\ buf = <<>> /\ wire = <<>> /\ dd = SessionOff /\ phase = "dialled"
  BY DEF ConnectInit, Init
<1>2. src.err = "none" /\ agg.err = "none"
  BY <1>1 DEF SourceOff, AggregateOff
<1>. QED BY <1>1, <1>2, OffReason

LEMMA ReasonNextInv ==
    ASSUME SessionInv, ReasonInv, [ConnectNext]_allVars
    PROVE  ReasonInv'
<1>1. CASE Source \/ Aggregate
  BY <1>1, SourceKeepsErrors
<1>2. CASE Told /\ UNCHANGED <<phase, answer, setup, src, agg>>
  <2>1. ErrorInv' /\ (Failed => Failed')
    BY <1>2 DEF ReasonInv, ErrorInv, Failed
  <2>2. dd.pc = "read" => phase = "answered" /\ answer.code = "ok"
    BY DaemonFacts DEF HandshakeInv, Accepted
  <2>3. BlameInv'
    BY <1>2, <2>1, <2>2 DEF ReasonInv, BlameInv, Told
  <2>. QED BY <2>1, <2>3 DEF ReasonInv
<1>3. CASE Serve \/ DaemonSession \/ ReadFails \/ ManagerCloses \/ TakeAnswer \/ HandshakeFails
  BY <1>2, <1>3, ServeTells, DaemonTells
<1>4. CASE Break
  <2>1. UNCHANGED <<phase, answer, setup, src, agg, buf, dd>>
    BY <1>4 DEF Break, sensorVars, daemonVars
  <2>2. PICK k \in 0 .. Len(wire) : wire' = SubSeq(wire, 1, k)
    BY <1>4 DEF Break
  <2>3. Blames(wire)' => Blames(wire)
    <3>1. Blames(wire)' => Blames(SubSeq(wire, 1, k))
      BY <2>2 DEF Blames
    <3>. QED BY <3>1, BlamesPrefix, DaemonFacts
  <2>4. Told
    BY <2>1, <2>3 DEF Told, Blames
  <2>. QED BY <1>2, <2>1, <2>4
<1>5. CASE \/ ReadBack \/ SensorStops \/ PipelineTakes \/ StopBetween \/ UNCHANGED vars
           \/ \E caller \in {"manager", "pipeline"} : Close(caller)
  <2>1. UNCHANGED <<phase, answer, setup, src, agg, buf, wire, dd>>
    BY <1>5 DEF ReadBack, SensorStops, PipelineTakes, StopBetween, Close, vars, kept, sensorVars, netVars, daemonVars
  <2>2. Told
    BY <2>1 DEF Told, Blames
  <2>. QED BY <1>2, <2>1, <2>2
<1>6. CASE SayHello
  <2>1. Off /\ UNCHANGED <<src, agg, buf, wire, dd>> /\ phase' = "hello"
    BY <1>6, DaemonFacts DEF SayHello, HandshakeInv, sensorVars, netVars, daemonVars
  <2>2. src' = SourceOff /\ agg' = AggregateOff /\ buf' = <<>> /\ wire' = <<>> /\ dd' = SessionOff
    BY <2>1 DEF Off
  <2>3. src'.err = "none" /\ agg'.err = "none" /\ dd'.why = ""
    BY <2>2 DEF SourceOff, AggregateOff, SessionOff
  <2>. QED BY <2>1, <2>2, <2>3, BlamesEmpty, FailureApart, CompleteApart
           DEF ReasonInv, ErrorInv, BlameInv, Blames, SourceOff
<1>7. CASE Answer
  <2>1. Off /\ UNCHANGED <<buf, wire, dd>> /\ phase' = "answered"
    BY <1>7, DaemonFacts DEF Answer, HandshakeInv, daemonVars
  <2>2. /\ answer'.code = "ok" => src'.on
        /\ src'.err = "none" /\ agg'.err = "none"
    <3>1. CASE answer'.code = "ok"
      BY <1>7, <2>1, <3>1 DEF Answer, Off, SourceOff, AggregateOff
    <3>2. CASE answer'.code # "ok"
      BY <1>7, <2>1, <3>2 DEF Answer, Off, SourceOff, AggregateOff
    <3>. QED BY <3>1, <3>2
  <2>3. buf' = <<>> /\ wire' = <<>> /\ dd'.why = ""
    BY <2>1 DEF Off, SessionOff
  <2>. QED BY <2>2, <2>3, BlamesEmpty, FailureApart, CompleteApart
           DEF ReasonInv, ErrorInv, BlameInv, Blames
<1>8. CASE Dial
  <2>1. /\ src' = SourceOff /\ agg' = AggregateOff /\ buf' = <<>> /\ wire' = <<>> /\ dd' = SessionOff
        /\ phase' = "dialled"
    BY <1>8 DEF Dial
  <2>2. src'.err = "none" /\ agg'.err = "none" /\ dd'.why = ""
    BY <2>1 DEF SourceOff, AggregateOff, SessionOff
  <2>. QED BY <2>1, <2>2, BlamesEmpty, FailureApart, CompleteApart
           DEF ReasonInv, ErrorInv, BlameInv, Blames, SourceOff
<1>. QED BY <1>1, <1>3, <1>4, <1>5, <1>6, <1>7, <1>8
         DEF ConnectNext, Session, Next, DialFails, SessionOver, Wake, allVars

LEMMA SessionEndComplete ==
    ASSUME SessionInv, ReasonInv
    PROVE  EndOfCaptureIsComplete
<1> SUFFICES /\ dd.why = Complete => /\ IF Raw THEN Decoded(got, src.n) ELSE got = encoded
                                     /\ ToSet(got) = 1 .. setup.packets \ Bad \/ FailurePassedBy
             /\ dd.why = Failure => Failed
  BY Zenon DEF EndOfCaptureIsComplete, Complete, Failure, Failed
<1>1. dd.why = Failure => Failed
  BY DEF ReasonInv, BlameInv
<1> SUFFICES ASSUME dd.why = Complete
             PROVE  /\ IF Raw THEN Decoded(got, src.n) ELSE got = encoded
                    /\ ToSet(got) = 1 .. setup.packets \ Bad \/ FailurePassedBy
  BY <1>1
<1>2. PICK a, b : Stream(a, b)
  BY DEF SessionInv, StreamInv
<1>3. Given(Total) /\ Exhausted
  BY <1>2 DEF Stream, Handed
<1>4. /\ got \in Seq(Nat) /\ encoded \in Seq(Nat) /\ srcq \in Seq(Nat) /\ src.n \in Nat
      /\ DOMAIN got = 1 .. Len(got) /\ Len(encoded) \in Nat
  BY LenProperties, TypeFacts DEF SessionInv, SessionType, SourceType, DaemonType
<1>5. ~ FailurePassedBy => src.on \/ src.n = setup.packets
  BY DEF ReasonInv, ErrorInv, BlameInv, FailurePassedBy
<1>6. CASE Raw
  <2>1. Decoded(got, src.n) /\ ~ src.on
    BY <1>3, <1>6 DEF Given, Total, Exhausted, InClosed
  <2>. QED BY <1>5, <1>6, <2>1 DEF Decoded
<1>7. CASE ~ Raw
  <2>1. Len(got) = Len(encoded) /\ \A i \in 1 .. Len(encoded) : got[i] = encoded[i]
    BY <1>3, <1>7 DEF Given, Total
  <2>2. got = encoded
    BY <1>4, <2>1, SeqEqual
  <2>3. ASSUME ~ FailurePassedBy PROVE ToSet(got) = 1 .. src.n \ Bad /\ ~ src.on
    <3>1. agg.pc = "done" /\ ~ agg.stopped /\ agg.err = "none"
      BY <1>3, <1>7, <2>3 DEF Exhausted, InClosed, FailurePassedBy
    <3>2. AggregateInv
      BY DEF SessionInv
    <3>3. srcq = <<>> /\ agg.held = {} /\ agg.hand = 0 /\ ~ src.on
      BY <1>7, <3>1, <3>2 DEF AggregateInv
    <3>4. Seen_ = 1 .. src.n \ Bad
      <4>1. Len(srcq) = 0
        BY <3>3, EmptySeq
      <4>2. Observed = src.n
        BY <1>4, <4>1 DEF Observed
      <4>. QED BY <4>2 DEF Seen_
    <3>5. \A i \in 1 .. Len(encoded) : encoded[i] \in Seen_
      BY <1>7, <3>2 DEF AggregateInv
    <3>6. \A x \in Seen_ : x # 0
      BY <1>4, <3>4
    <3>7. \A x \in Seen_ : \E i \in 1 .. Len(encoded) : encoded[i] = x
      BY <1>7, <3>1, <3>2, <3>3, <3>6 DEF AggregateInv
    <3>8. ToSet(got) = {got[i] : i \in 1 .. Len(encoded)}
      BY <1>4, <2>1 DEF ToSet
    <3>. QED BY <2>2, <3>3, <3>4, <3>5, <3>7, <3>8
  <2>. QED BY <1>5, <1>7, <2>2, <2>3
<1>. QED BY <1>6, <1>7

LEMMA SessionEndsAgree ==
    ASSUME SessionInv
    PROVE  EndsAgree
<1>1. setup \in Setups /\ HandshakeInv
  BY DEF SessionInv, SessionType
<1>2. answer.code = "ok" => answer = AnswerTo(setup.hello, setup.cfg)
  <2>1. Rejection("none").code = "none"
    BY DEF Rejection
  <2>. QED BY <1>1, <2>1 DEF HandshakeInv
<1>3. dd.pc \in {"read", "give"} => answer.code = "ok" /\ LinkUsable(answer)
  BY <1>1 DEF HandshakeInv, Accepted
<1>4. answer.code = "ok" =>
        /\ answer.version <= VersionMax /\ answer.version <= Ceiling(setup.hello)
        /\ setup.cfg.token \in {NoToken, setup.hello.token}
        /\ answer.mode = setup.cfg.mode
        /\ answer.mode # "raw" => setup.sink
        /\ setup.hello.link \in {AnyLink, answer.link}
  BY <1>1, <1>2, Negotiated
<1>5. LinkUsable(answer) => (answer.mode = "raw" => answer.link \in Decodable)
  BY DEF LinkUsable
<1>. QED BY <1>3, <1>4, <1>5 DEF EndsAgree

\* A session that ends as the end of the capture has delivered everything sent, a record of
\* every flow included; that is the whole capture unless a failure of the source, or the
\* session's own cancel, was passed by; an end blamed on the source has an error behind it;
\* and while a session runs both ends hold it to be the same one: its version, its mode, its
\* link type, and where its records go (aggregate.go:146-148, framewriter.go:162-172,
\* serveConn's select, negotiate and ClientHandshake).
THEOREM EndsAlwaysTellTheTruth == ConnectSpec => []EndsTellTheTruth
<1> DEFINE I == SessionInv /\ ReasonInv
<1>1. ConnectInit => I
  BY SessionInitInv, ReasonInitInv
<1>2. I /\ [ConnectNext]_allVars => I'
  BY SessionNextInv, ReasonNextInv
<1>3. I => EndsTellTheTruth
  BY SessionEndComplete, SessionEndsAgree DEF EndsTellTheTruth
<1>. QED BY <1>1, <1>2, <1>3, PTL DEF ConnectSpec
=============================================================================
