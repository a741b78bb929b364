----------------------------- MODULE StoreProofs -----------------------------
(* Proofs about the flow store behind the pipeline, for every value of their constants. *)
EXTENDS Pipeline, FiniteSetTheorems, SequenceTheorems, WellFoundedInduction, TLAPS

(* Taking elements out of a sequence. *)

UpTo(at, i) == {j \in at : j <= i}

\* Counting the positions up to one of them numbers them in their order.
LEMMA RanksNumber ==
    ASSUME NEW n \in Nat, NEW at \in SUBSET (1..n)
    PROVE  /\ IsFiniteSet(at) /\ Cardinality(at) \in 0..n /\ (Cardinality(at) = n => at = 1..n)
           /\ \A i \in at : Cardinality(UpTo(at, i)) \in 1..Cardinality(at)
           /\ \A i, j \in at : i < j => Cardinality(UpTo(at, i)) < Cardinality(UpTo(at, j))
           /\ \A k \in 1..Cardinality(at) : \E i \in at : Cardinality(UpTo(at, i)) = k
<1>0. \A i \in at : i \in 1..n /\ i \in Int
  OBVIOUS
<1>1. IsFiniteSet(1..n) /\ Cardinality(1..n) = n
  BY FS_Interval
<1>2. /\ IsFiniteSet(at) /\ Cardinality(at) \in Nat /\ Cardinality(at) <= n
      /\ Cardinality(at) = n => at = 1..n
  BY <1>1, FS_Subset, FS_CardinalityType
<1>3. \A i \in at : IsFiniteSet(UpTo(at, i)) /\ Cardinality(UpTo(at, i)) \in 1..Cardinality(at)
  <2> SUFFICES ASSUME NEW i \in at
               PROVE  IsFiniteSet(UpTo(at, i)) /\ Cardinality(UpTo(at, i)) \in 1..Cardinality(at)
    OBVIOUS
  <2>1. UpTo(at, i) \in SUBSET at /\ i \in UpTo(at, i)
    BY <1>0 DEF UpTo
  <2>2. IsFiniteSet(UpTo(at, i)) /\ Cardinality(UpTo(at, i)) <= Cardinality(at)
    BY <1>2, <2>1, FS_Subset
  <2>3. Cardinality(UpTo(at, i)) \in Nat /\ Cardinality(UpTo(at, i)) # 0
    BY <2>1, <2>2, FS_CardinalityType, FS_EmptySet
  <2>. QED BY <1>2, <2>2, <2>3
<1>4. ASSUME NEW i \in at, NEW j \in at, i < j
      PROVE  Cardinality(UpTo(at, i)) < Cardinality(UpTo(at, j))
  <2>1. UpTo(at, i) \in SUBSET UpTo(at, j) /\ j \in UpTo(at, j) /\ j \notin UpTo(at, i)
    <3>1. i \in Int /\ j \in Int /\ j <= j /\ ~ (j <= i)
      BY <1>0, <1>4
    <3>2. ASSUME NEW x \in at, x <= i PROVE x <= j
      <4>1. x \in Int
        BY <1>0
      <4>. QED BY <1>4, <3>1, <3>2, <4>1
    <3>. QED BY <3>1, <3>2 DEF UpTo
  <2>2. IsFiniteSet(UpTo(at, j)) /\ UpTo(at, i) # UpTo(at, j)
    BY <1>3, <2>1
  <2>3. /\ Cardinality(UpTo(at, i)) <= Cardinality(UpTo(at, j))
        /\ Cardinality(UpTo(at, j)) # Cardinality(UpTo(at, i))
    BY <2>1, <2>2, FS_Subset
  <2>. QED BY <1>2, <1>3, <2>3
<1>5. ASSUME NEW k \in 1..Cardinality(at) PROVE \E i \in at : Cardinality(UpTo(at, i)) = k
  <2> DEFINE m == Cardinality(at)
             rank == [i \in at |-> Cardinality(UpTo(at, i))]
  <2>1. IsFiniteSet(1..m) /\ Cardinality(1..m) = m
    BY <1>2, FS_Interval
  <2>2. rank \in [at -> 1..m]
    BY <1>3
  <2>3. \A i, j \in at : rank[i] = rank[j] => i = j
    BY <1>2, <1>3, <1>4
  <2>4. rank \in Injection(at, 1..m)
    BY <2>2, <2>3 DEF Injection, IsInjective
  <2>5. rank \in Surjection(at, 1..m)
    BY <2>1, <2>4, FS_Injection
  <2>6. \A x \in 1..m : \E i \in at : rank[i] = x
    BY <2>5 DEF Surjection
  <2>. QED BY <2>6
<1>. QED BY <1>2, <1>3, <1>4, <1>5

\* Where the elements that stay are taken from.
Taken(at) == [k \in 1..Cardinality(at) |-> CHOOSE i \in at : Cardinality({j \in at : j <= i}) = k]

LEMMA TakenFacts ==
    ASSUME NEW n \in Nat, NEW at \in SUBSET (1..n)
    PROVE  /\ IsFiniteSet(at) /\ Cardinality(at) \in 0..n /\ (Cardinality(at) = n => at = 1..n)
           /\ Taken(at) \in [1..Cardinality(at) -> at]
           /\ \A i, j \in 1..Cardinality(at) : i < j => Taken(at)[i] < Taken(at)[j]
           /\ \A p \in at : \E i \in 1..Cardinality(at) : Taken(at)[i] = p
<1> DEFINE m == Cardinality(at)
<1>0. \A i \in at : i \in Int
  OBVIOUS
<1>1. /\ IsFiniteSet(at) /\ m \in 0..n /\ (m = n => at = 1..n)
      /\ \A i \in at : Cardinality(UpTo(at, i)) \in 1..m
      /\ \A i, j \in at : i < j => Cardinality(UpTo(at, i)) < Cardinality(UpTo(at, j))
      /\ \A k \in 1..m : \E i \in at : Cardinality(UpTo(at, i)) = k
  BY RanksNumber
<1>2. \A k \in 1..m : Taken(at)[k] \in at /\ Cardinality(UpTo(at, Taken(at)[k])) = k
  <2> SUFFICES ASSUME NEW k \in 1..m
               PROVE  Taken(at)[k] \in at /\ Cardinality(UpTo(at, Taken(at)[k])) = k
    OBVIOUS
  <2>1. Taken(at)[k] = CHOOSE i \in at : Cardinality(UpTo(at, i)) = k
    BY DEF Taken, UpTo
  <2>2. \E i \in at : Cardinality(UpTo(at, i)) = k
    BY <1>1
  <2>. QED BY <2>1, <2>2
<1>3. Taken(at) \in [1..m -> at]
  BY <1>2 DEF Taken
<1>4. ASSUME NEW i \in 1..m, NEW j \in 1..m, i < j PROVE Taken(at)[i] < Taken(at)[j]
  <2>1. /\ Taken(at)[i] \in at /\ Taken(at)[j] \in at
        /\ Cardinality(UpTo(at, Taken(at)[i])) = i /\ Cardinality(UpTo(at, Taken(at)[j])) = j
    BY <1>2
  <2>2. i \in Int /\ j \in Int
    OBVIOUS
  <2>3. Taken(at)[i] \in Int /\ Taken(at)[j] \in Int
    BY <1>0, <2>1
  <2>4. Taken(at)[i] # Taken(at)[j]
    BY <1>4, <2>1, <2>2
  <2>5. ~ (Taken(at)[j] < Taken(at)[i])
    <3>1. Taken(at)[j] < Taken(at)[i] => j < i
      BY <1>1, <2>1
    <3>. QED BY <1>4, <2>2, <3>1
  <2>. QED BY <2>3, <2>4, <2>5
<1>5. ASSUME NEW p \in at PROVE \E i \in 1..m : Taken(at)[i] = p
  <2> DEFINE k == Cardinality(UpTo(at, p))
  <2>1. k \in 1..m
    BY <1>1
  <2>2. Taken(at)[k] \in at /\ Cardinality(UpTo(at, Taken(at)[k])) = k
    BY <1>2, <2>1
  <2>3. p \in Int /\ Taken(at)[k] \in Int
    BY <1>0, <2>2
  <2>4. k \in Int
    BY <2>1
  <2>5. ~ (p < Taken(at)[k]) /\ ~ (Taken(at)[k] < p)
    <3>1. p < Taken(at)[k] => k < k
      BY <1>1, <2>2
    <3>2. Taken(at)[k] < p => k < k
      BY <1>1, <2>2
    <3>. QED BY <2>4, <3>1, <3>2
  <2>. QED BY <2>1, <2>3, <2>5
<1>. QED BY <1>1, <1>3, <1>4, <1>5

\* Kept takes a sequence's elements at the given positions and leaves their order.
LEMMA KeptFacts ==
    ASSUME NEW X, NEW s \in Seq(X), NEW at \in SUBSET (DOMAIN s)
    PROVE  /\ Kept(s, at) \in Seq(X) /\ Len(Kept(s, at)) = Cardinality(at)
           /\ Cardinality(at) \in 0..Len(s) /\ (Cardinality(at) = Len(s) => at = DOMAIN s)
           /\ Taken(at) \in [1..Len(Kept(s, at)) -> at]
           /\ \A i \in 1..Len(Kept(s, at)) : Kept(s, at)[i] = s[Taken(at)[i]]
           /\ \A i, j \in 1..Len(Kept(s, at)) : i < j => Taken(at)[i] < Taken(at)[j]
           /\ \A p \in at : \E i \in 1..Len(Kept(s, at)) : Taken(at)[i] = p
<1>1. Len(s) \in Nat /\ DOMAIN s = 1..Len(s) /\ \A i \in 1..Len(s) : s[i] \in X
  BY LenProperties, ElementOfSeq
<1> DEFINE m == Cardinality(at)
           k == Kept(s, at)
<1>2. /\ m \in 0..Len(s) /\ (m = Len(s) => at = 1..Len(s))
      /\ Taken(at) \in [1..m -> at]
      /\ \A i, j \in 1..m : i < j => Taken(at)[i] < Taken(at)[j]
      /\ \A p \in at : \E i \in 1..m : Taken(at)[i] = p
  BY <1>1, TakenFacts
<1>3. k = [i \in 1..m |-> s[Taken(at)[i]]]
  BY DEF Kept, Taken
<1>4. \A i \in 1..m : s[Taken(at)[i]] \in X
  BY <1>1, <1>2
<1>5. k \in [1..m -> X] /\ \A i \in 1..m : k[i] = s[Taken(at)[i]]
  BY <1>3, <1>4
<1> HIDE DEF k
<1>6. k \in Seq(X) /\ Len(k) = m
  BY <1>2, <1>5, IsASeq, LenProperties
<1>. QED BY <1>1, <1>2, <1>5, <1>6 DEF k

-----------------------------------------------------------------------------
(* Rings. *)

IsRing(r, cap, X) ==
    /\ DOMAIN r.slots = 0..(cap - 1)
    /\ r.head \in 0..(cap - 1) /\ r.full \in BOOLEAN
    /\ \A i \in 0..(cap - 1) : (r.full \/ i < r.head) => r.slots[i] \in X

\* A ring's elements, oldest first, and the slot that holds the i-th.
InOrder(r) == Reverse(Collect(r))
SlotOf(r, cap, i) ==
    IF ~ r.full THEN i - 1
    ELSE IF r.head + i - 1 < cap THEN r.head + i - 1 ELSE r.head + i - 1 - cap

LEMMA Wrap ==
    ASSUME NEW cap \in Nat \ {0}, NEW x \in Int
    PROVE  /\ 0 <= x /\ x < cap => x % cap = x
           /\ cap <= x /\ x < cap + cap => x % cap = x - cap
<1>1. ASSUME 0 <= x, x < cap PROVE x % cap = x
  BY <1>1
<1>2. ASSUME cap <= x, x < cap + cap PROVE x % cap = x - cap
  BY <1>2
<1>. QED BY <1>1, <1>2

LEMMA RingSize ==
    ASSUME NEW cap \in Nat \ {0}, NEW r, DOMAIN r.slots = 0..(cap - 1)
    PROVE  Size(r) = cap
<1>1. Cardinality(0..(cap - 1)) = cap
  BY FS_Interval
<1>. QED BY <1>1 DEF Size

LEMMA InOrderFacts ==
    ASSUME NEW X, NEW cap \in Nat \ {0}, NEW r, IsRing(r, cap, X)
    PROVE  /\ InOrder(r) \in Seq(X) /\ Len(InOrder(r)) = RingLen(r) /\ RingLen(r) \in 0..cap
           /\ RingLen(r) = IF r.full THEN cap ELSE r.head
           /\ Len(Collect(r)) = RingLen(r) /\ Collect(r) \in Seq(X)
           /\ \A i \in 1..RingLen(r) : /\ SlotOf(r, cap, i) \in 0..(cap - 1)
                                       /\ InOrder(r)[i] = r.slots[SlotOf(r, cap, i)]
                                       /\ InOrder(r)[i] = Collect(r)[RingLen(r) - i + 1]
           /\ Range(InOrder(r)) = Range(Collect(r))
<1> DEFINE n == RingLen(r)
           c == Collect(r)
<1>1. /\ r.head \in Nat /\ r.head < cap /\ r.full \in BOOLEAN /\ Size(r) = cap
      /\ n = (IF r.full THEN cap ELSE r.head) /\ n \in Nat /\ n <= cap
  BY RingSize DEF IsRing, RingLen
<1>2. \A i \in 1..n : SlotOf(r, cap, i) \in 0..(cap - 1) /\ r.slots[SlotOf(r, cap, i)] \in X
  <2> SUFFICES ASSUME NEW i \in 1..n
               PROVE  SlotOf(r, cap, i) \in 0..(cap - 1) /\ r.slots[SlotOf(r, cap, i)] \in X
    OBVIOUS
  <2>1. SlotOf(r, cap, i) \in 0..(cap - 1) /\ (r.full \/ SlotOf(r, cap, i) < r.head)
    BY <1>1 DEF SlotOf
  <2>. QED BY <2>1 DEF IsRing
<1>3. ASSUME NEW i \in 1..n PROVE c[n - i + 1] = r.slots[SlotOf(r, cap, i)]
  <2> DEFINE x == r.head - (n - i + 1) + cap
  <2>1. x \in Int /\ n - i + 1 \in 1..n
    BY <1>1
  <2>2. c[n - i + 1] = r.slots[x % cap]
    BY <1>1, <2>1 DEF Collect
  <2>3. x % cap = SlotOf(r, cap, i)
    <3>1. CASE ~ r.full
      <4>1. x = i - 1 + cap /\ cap <= x /\ x < cap + cap
        BY <1>1, <3>1
      <4>. QED BY <2>1, <3>1, <4>1, Wrap DEF SlotOf
    <3>2. CASE r.full
      <4>1. x = r.head + i - 1 /\ 0 <= x /\ x < cap + cap
        BY <1>1, <3>2
      <4> HIDE DEF x
      <4>2. IF x < cap THEN x % cap = x ELSE x % cap = x - cap
        BY <2>1, <4>1, Wrap
      <4>. QED BY <1>1, <3>2, <4>1, <4>2 DEF SlotOf
    <3>. QED BY <1>1, <3>1, <3>2
  <2>. QED BY <2>2, <2>3
<1>4. \A i \in 1..n : c[i] \in X
  <2> SUFFICES ASSUME NEW i \in 1..n PROVE c[i] \in X
    OBVIOUS
  <2>1. n - i + 1 \in 1..n /\ n - (n - i + 1) + 1 = i
    BY <1>1
  <2>. QED BY <1>2, <1>3, <2>1
<1>5. DOMAIN c = 1..n /\ c = [i \in 1..n |-> c[i]]
  BY DEF Collect
<1> HIDE DEF c, n
<1>6. c \in Seq(X) /\ Len(c) = n
  BY <1>1, <1>4, <1>5, IsASeq, LenProperties
<1>7. InOrder(r) = [i \in 1..n |-> c[n - i + 1]]
  BY <1>6 DEF InOrder, Reverse, c
<1>8. \A i \in 1..n : n - i + 1 \in 1..n /\ c[n - i + 1] \in X
  BY <1>1, <1>4
<1>9. InOrder(r) \in [1..n -> X]
  BY <1>7, <1>8
<1>10. InOrder(r) \in Seq(X) /\ Len(InOrder(r)) = n
  BY <1>1, <1>9, IsASeq, LenProperties
<1>11. Range(InOrder(r)) = Range(c)
  <2>1. ASSUME NEW i \in 1..n PROVE InOrder(r)[n - i + 1] = c[i] /\ n - i + 1 \in 1..n
    <3>1. n - i + 1 \in 1..n /\ n - (n - i + 1) + 1 = i
      BY <1>1
    <3>. QED BY <1>7, <3>1
  <2>2. Range(InOrder(r)) = {InOrder(r)[i] : i \in 1..n} /\ Range(c) = {c[i] : i \in 1..n}
    BY <1>6, <1>10, RangeEquality
  <2>3. \A i \in 1..n : InOrder(r)[i] = c[n - i + 1] /\ n - i + 1 \in 1..n
    BY <1>7, <1>8
  <2>. QED BY <2>1, <2>2, <2>3
<1>12. \A i \in 1..n : InOrder(r)[i] = c[n - i + 1] /\ InOrder(r)[i] = r.slots[SlotOf(r, cap, i)]
  BY <1>3, <1>7
<1>. QED BY <1>1, <1>2, <1>6, <1>10, <1>11, <1>12 DEF c, n

LEMMA EmptyFacts ==
    ASSUME NEW X, NEW cap \in Nat \ {0}
    PROVE  IsRing(Empty(cap), cap, X) /\ InOrder(Empty(cap)) = <<>> /\ RingLen(Empty(cap)) = 0
<1>1. IsRing(Empty(cap), cap, X)
  BY DEF IsRing, Empty
<1>2. RingLen(Empty(cap)) = 0
  BY DEF RingLen, Empty
<1>. QED BY <1>1, <1>2, InOrderFacts, EmptySeq

\* Writing appends, and the oldest makes room in a full ring.
LEMMA WriteFacts ==
    ASSUME NEW X, NEW cap \in Nat \ {0}, NEW r, IsRing(r, cap, X), NEW x \in X
    PROVE  /\ IsRing(Write(r, x), cap, X)
           /\ InOrder(Write(r, x)) = Append(IF r.full THEN Tail(InOrder(r)) ELSE InOrder(r), x)
           /\ r.full => r.slots[r.head] = InOrder(r)[1] /\ InOrder(r) # <<>>
<1> DEFINE w == Write(r, x)
           s == InOrder(r)
           n == RingLen(r)
<1>1. r.head \in Nat /\ r.head < cap /\ r.full \in BOOLEAN /\ Size(r) = cap
  <2>1. DOMAIN r.slots = 0..(cap - 1) /\ r.head \in 0..(cap - 1) /\ r.full \in BOOLEAN
    BY DEF IsRing
  <2>. QED BY <2>1, RingSize
<1>2. (r.head + 1) % cap = IF r.head + 1 = cap THEN 0 ELSE r.head + 1
  <2>1. CASE r.head + 1 = cap
    <3>1. (r.head + 1) % cap = (r.head + 1) - cap
      BY <1>1, <2>1, Wrap
    <3>. QED BY <1>1, <2>1, <3>1
  <2>2. CASE r.head + 1 # cap
    BY <1>1, <2>2, Wrap
  <2>. QED BY <2>1, <2>2
<1>3. /\ w.slots = [r.slots EXCEPT ![r.head] = x]
      /\ w.head = (IF r.head + 1 = cap THEN 0 ELSE r.head + 1)
      /\ w.full = (r.full \/ r.head + 1 = cap)
  BY <1>1, <1>2 DEF Write
<1>4. /\ DOMAIN r.slots = 0..(cap - 1) /\ DOMAIN w.slots = 0..(cap - 1) /\ w.slots[r.head] = x
      /\ \A i \in 0..(cap - 1) : i # r.head => w.slots[i] = r.slots[i]
  BY <1>1, <1>3 DEF IsRing
<1> HIDE DEF w
<1>5. IsRing(w, cap, X)
  <2>1. w.head \in 0..(cap - 1) /\ w.full \in BOOLEAN
    BY <1>1, <1>3
  <2>2. ASSUME NEW i \in 0..(cap - 1), w.full \/ i < w.head PROVE w.slots[i] \in X
    <3>1. CASE i = r.head
      BY <1>4, <3>1
    <3>2. CASE i # r.head
      <4>1. r.full \/ i < r.head
        BY <1>1, <1>3, <2>2, <3>2
      <4>. QED BY <1>4, <3>2, <4>1 DEF IsRing
    <3>. QED BY <3>1, <3>2
  <2>. QED BY <1>4, <2>1, <2>2 DEF IsRing
<1>6. /\ s \in Seq(X) /\ Len(s) = n /\ n \in Nat /\ n <= cap
      /\ n = IF r.full THEN cap ELSE r.head
      /\ \A i \in 1..n : s[i] = r.slots[SlotOf(r, cap, i)]
  BY InOrderFacts
<1>7. /\ InOrder(w) \in Seq(X) /\ Len(InOrder(w)) = RingLen(w) /\ RingLen(w) \in Nat
      /\ RingLen(w) = IF w.full THEN cap ELSE w.head
      /\ \A i \in 1..RingLen(w) : InOrder(w)[i] = w.slots[SlotOf(w, cap, i)]
  BY <1>5, InOrderFacts
<1> DEFINE rest == IF r.full THEN Tail(s) ELSE s
           shift == IF r.full THEN 1 ELSE 0
<1>8. r.full => s # <<>>
  BY <1>6, EmptySeq
<1>9. /\ rest \in Seq(X) /\ Len(rest) = n - shift
      /\ \A i \in 1..(n - shift) : rest[i] = s[i + shift]
  <2>1. CASE r.full
    <3>1. s # <<>>
      BY <1>8, <2>1
    <3>2. /\ Tail(s) \in Seq(X) /\ Len(Tail(s)) = Len(s) - 1
          /\ \A i \in 1..Len(Tail(s)) : Tail(s)[i] = s[i + 1]
      BY <1>6, <3>1, HeadTailProperties
    <3>. QED BY <1>6, <2>1, <3>2
  <2>2. CASE ~ r.full
    BY <1>6, <2>2
  <2>. QED BY <1>1, <2>1, <2>2
<1>10. r.full => r.slots[r.head] = s[1]
  <2>1. r.full => SlotOf(r, cap, 1) = r.head /\ 1 \in 1..n
    BY <1>1, <1>6 DEF SlotOf
  <2>. QED BY <1>6, <2>1
<1>11. RingLen(w) = n - shift + 1 /\ n - shift \in Nat
  <2>1. CASE r.full
    <3>1. w.full /\ n = cap /\ shift = 1
      BY <1>3, <1>6, <2>1
    <3>. QED BY <1>1, <1>7, <3>1
  <2>2. CASE ~ r.full /\ r.head + 1 = cap
    <3>1. w.full /\ n = r.head /\ shift = 0
      BY <1>3, <1>6, <2>2
    <3>. QED BY <1>1, <1>7, <2>2, <3>1
  <2>3. CASE ~ r.full /\ r.head + 1 # cap
    <3>1. ~ w.full /\ w.head = r.head + 1 /\ n = r.head /\ shift = 0
      BY <1>3, <1>6, <2>3
    <3>. QED BY <1>1, <1>7, <2>3, <3>1
  <2>. QED BY <2>1, <2>2, <2>3
<1>12. ASSUME NEW i \in 1..(n - shift) PROVE InOrder(w)[i] = s[i + shift]
  <2>1. i \in 1..RingLen(w) /\ i + shift \in 1..n
    BY <1>11, <1>6
  <2>2. /\ SlotOf(w, cap, i) = SlotOf(r, cap, i + shift)
        /\ SlotOf(w, cap, i) # r.head /\ SlotOf(w, cap, i) \in 0..(cap - 1)
    <3>1. CASE r.full /\ r.head + 1 = cap
      <4>1. w.full /\ w.head = 0 /\ n = cap /\ shift = 1
        BY <1>3, <1>6, <3>1
      <4>. QED BY <1>1, <1>6, <2>1, <3>1, <4>1 DEF SlotOf
    <3>2. CASE r.full /\ r.head + 1 # cap
      <4>1. w.full /\ w.head = r.head + 1 /\ n = cap /\ shift = 1
        BY <1>3, <1>6, <3>2
      <4>2. i \in Int /\ 1 <= i /\ i < cap
        BY <4>1
      <4>3. SlotOf(w, cap, i) = IF r.head + i < cap THEN r.head + i ELSE r.head + i - cap
        BY <1>1, <4>1, <4>2 DEF SlotOf
      <4>4. SlotOf(r, cap, i + 1) = IF r.head + i < cap THEN r.head + i ELSE r.head + i - cap
        BY <1>1, <3>2, <4>2 DEF SlotOf
      <4>. QED BY <1>1, <4>1, <4>2, <4>3, <4>4
    <3>3. CASE ~ r.full /\ r.head + 1 = cap
      <4>1. w.full /\ w.head = 0 /\ n = r.head /\ shift = 0
        BY <1>3, <1>6, <3>3
      <4>. QED BY <1>1, <1>6, <2>1, <3>3, <4>1 DEF SlotOf
    <3>4. CASE ~ r.full /\ r.head + 1 # cap
      <4>1. ~ w.full /\ w.head = r.head + 1 /\ n = r.head /\ shift = 0
        BY <1>3, <1>6, <3>4
      <4>. QED BY <1>1, <1>6, <2>1, <3>4, <4>1 DEF SlotOf
    <3>. QED BY <3>1, <3>2, <3>3, <3>4
  <2>. QED BY <1>4, <1>6, <1>7, <2>1, <2>2
<1>13. InOrder(w)[n - shift + 1] = x
  <2>1. n - shift + 1 \in 1..RingLen(w)
    BY <1>11
  <2>2. SlotOf(w, cap, n - shift + 1) = r.head
    BY <1>1, <1>3, <1>6 DEF SlotOf
  <2>. QED BY <1>4, <1>7, <2>1, <2>2
<1> HIDE DEF rest, shift, s, n
<1>14. /\ Append(rest, x) \in Seq(X) /\ Len(Append(rest, x)) = Len(rest) + 1
       /\ \A i \in 1..Len(rest) : Append(rest, x)[i] = rest[i]
       /\ Append(rest, x)[Len(rest) + 1] = x
  BY <1>9, AppendProperties
<1>15. Len(InOrder(w)) = Len(Append(rest, x))
  BY <1>7, <1>9, <1>11, <1>14
<1>16. ASSUME NEW i \in 1..Len(InOrder(w)) PROVE InOrder(w)[i] = Append(rest, x)[i]
  <2>1. i \in 1..(n - shift) \/ i = n - shift + 1
    BY <1>7, <1>11
  <2>. QED BY <1>9, <1>12, <1>13, <1>14, <2>1
<1>17. InOrder(w) = Append(rest, x)
  BY <1>7, <1>14, <1>15, <1>16, SeqEqual
<1>. QED BY <1>5, <1>8, <1>10, <1>17 DEF w, s, rest

\* Laying a ring anew puts the given elements into it, in the opposite order.
LEMMA RelayFacts ==
    ASSUME NEW X, NEW cap \in Nat \ {0}, NEW r, DOMAIN r.slots = 0..(cap - 1),
           NEW live \in Seq(X), Len(live) <= cap
    PROVE  /\ IsRing(Relay(r, live), cap, X) /\ RingLen(Relay(r, live)) = Len(live)
           /\ \A i \in 1..Len(live) : InOrder(Relay(r, live))[i] = live[Len(live) - i + 1]
<1> DEFINE w == Relay(r, live)
           n == Len(live)
<1>1. Size(r) = cap /\ n \in Nat /\ n <= cap /\ \A i \in 1..n : live[i] \in X
  BY RingSize, LenProperties, ElementOfSeq
<1>2. n % cap = IF n = cap THEN 0 ELSE n
  <2>1. CASE n = cap
    <3>1. n % cap = n - cap
      BY <1>1, <2>1, Wrap
    <3>. QED BY <1>1, <2>1, <3>1
  <2>2. CASE n # cap
    BY <1>1, <2>2, Wrap
  <2>. QED BY <2>1, <2>2
<1>3. /\ w.slots = [i \in 0..(cap - 1) |-> IF i < n THEN live[n - i] ELSE None]
      /\ w.head = (IF n = cap THEN 0 ELSE n) /\ w.full = (n = cap)
  BY <1>1, <1>2 DEF Relay
<1> HIDE DEF w, n
<1>4. \A i \in 0..(cap - 1) : i < n => w.slots[i] = live[n - i] /\ live[n - i] \in X
  <2> SUFFICES ASSUME NEW i \in 0..(cap - 1), i < n
               PROVE  w.slots[i] = live[n - i] /\ live[n - i] \in X
    OBVIOUS
  <2>1. n - i \in 1..n
    BY <1>1
  <2>. QED BY <1>1, <1>3, <2>1
<1>5. IsRing(w, cap, X)
  <2>1. DOMAIN w.slots = 0..(cap - 1)
    BY <1>3
  <2>2. w.head \in 0..(cap - 1) /\ w.full \in BOOLEAN
    BY <1>1, <1>3
  <2>3. \A i \in 0..(cap - 1) : (w.full \/ i < w.head) => i < n
    <3>1. CASE n = cap
      BY <1>1, <1>3, <3>1
    <3>2. CASE n # cap
      BY <1>1, <1>3, <3>2
    <3>. QED BY <3>1, <3>2
  <2>. QED BY <1>4, <2>1, <2>2, <2>3 DEF IsRing
<1>6. RingLen(w) = n
  <2>1. RingLen(w) = IF w.full THEN cap ELSE w.head
    BY <1>5, InOrderFacts
  <2>. QED BY <1>3, <2>1
<1>7. ASSUME NEW i \in 1..n PROVE InOrder(w)[i] = live[n - i + 1]
  <2>1. SlotOf(w, cap, i) = i - 1 /\ i - 1 \in 0..(cap - 1) /\ i - 1 < n
    <3>1. CASE n = cap
      BY <1>1, <1>3, <3>1 DEF SlotOf
    <3>2. CASE n # cap
      BY <1>1, <1>3, <3>2, SMTT(30) DEF SlotOf
    <3>. QED BY <3>1, <3>2
  <2>2. InOrder(w)[i] = w.slots[i - 1]
    BY <1>5, <1>6, <2>1, InOrderFacts
  <2>3. n - (i - 1) = n - i + 1
    BY <1>1
  <2>. QED BY <1>4, <2>1, <2>2, <2>3
<1>. QED BY <1>5, <1>6, <1>7 DEF w, n

-----------------------------------------------------------------------------
(* Versions in the order of their numbers. *)

Ascending(s) == \A i, j \in 1..Len(s) : i < j => s[i].seq < s[j].seq
Numbered(X) == \A v \in X : v.seq \in Nat

LEMMA InRange ==
    ASSUME NEW X, NEW s \in Seq(X)
    PROVE  /\ Range(s) = {s[i] : i \in 1..Len(s)} /\ Range(s) \subseteq X
           /\ s = <<>> <=> Range(s) = {}
           /\ Len(s) \in Nat /\ DOMAIN s = 1..Len(s)
<1>1. Len(s) \in Nat /\ DOMAIN s = 1..Len(s) /\ \A i \in 1..Len(s) : s[i] \in X
  BY LenProperties, ElementOfSeq
<1>2. Range(s) = {s[i] : i \in 1..Len(s)}
  BY RangeEquality
<1>3. ASSUME s # <<>> PROVE s[1] \in Range(s)
  <2>1. Len(s) # 0
    BY <1>3, EmptySeq
  <2>. QED BY <1>1, <1>2, <2>1
<1>4. ASSUME s = <<>> PROVE Range(s) = {}
  <2>1. Len(s) = 0
    BY <1>4, EmptySeq
  <2>. QED BY <1>2, <2>1
<1>. QED BY <1>1, <1>2, <1>3, <1>4

LEMMA SameNumber ==
    ASSUME NEW X, Numbered(X), NEW s \in Seq(X), Ascending(s),
           NEW v \in Range(s), NEW w \in Range(s), v.seq = w.seq
    PROVE  v = w
<1>1. PICK i \in 1..Len(s), j \in 1..Len(s) : v = s[i] /\ w = s[j]
  BY InRange
<1>2. v.seq \in Nat /\ w.seq \in Nat /\ ~ (v.seq < w.seq) /\ ~ (w.seq < v.seq)
  BY InRange DEF Numbered
<1>3. i \in Int /\ j \in Int /\ ~ (i < j) /\ ~ (j < i)
  BY <1>1, <1>2 DEF Ascending
<1>4. i = j
  BY <1>3
<1>. QED BY <1>1, <1>4

LEMMA AscendingTail ==
    ASSUME NEW X, Numbered(X), NEW s \in Seq(X), Ascending(s), s # <<>>
    PROVE  /\ Tail(s) \in Seq(X) /\ Len(Tail(s)) = Len(s) - 1 /\ Ascending(Tail(s))
           /\ Range(Tail(s)) = Range(s) \ {s[1]} /\ s[1] \in Range(s) /\ Head(s) = s[1]
           /\ \A v \in Range(s) : s[1].seq <= v.seq
<1>1. /\ Tail(s) \in Seq(X) /\ Len(Tail(s)) = Len(s) - 1 /\ Head(s) = s[1]
      /\ \A i \in 1..Len(Tail(s)) : Tail(s)[i] = s[i + 1]
  BY HeadTailProperties
<1>2. /\ Range(s) = {s[i] : i \in 1..Len(s)} /\ Range(Tail(s)) = {Tail(s)[i] : i \in 1..Len(Tail(s))}
      /\ Len(s) \in Nat /\ Len(s) # 0 /\ \A i \in 1..Len(s) : s[i] \in X /\ s[i].seq \in Nat
  <2>1. \A i \in 1..Len(s) : s[i] \in X /\ s[i].seq \in Nat
    BY ElementOfSeq DEF Numbered
  <2>. QED BY <1>1, <2>1, InRange, EmptySeq
<1>3. \A i \in 1..(Len(s) - 1) : i + 1 \in 1..Len(s) /\ i + 1 \in 2..Len(s)
  BY <1>2
<1>4. Ascending(Tail(s))
  <2> SUFFICES ASSUME NEW i \in 1..(Len(s) - 1), NEW j \in 1..(Len(s) - 1), i < j
               PROVE  Tail(s)[i].seq < Tail(s)[j].seq
    BY <1>1 DEF Ascending
  <2>1. i + 1 < j + 1 /\ i + 1 \in 1..Len(s) /\ j + 1 \in 1..Len(s)
    BY <1>2
  <2>. QED BY <1>1, <2>1 DEF Ascending
<1>5. \A i \in 2..Len(s) : s[1].seq < s[i].seq
  <2>1. \A i \in 2..Len(s) : i \in 1..Len(s) /\ 1 \in 1..Len(s) /\ 1 < i
    BY <1>2
  <2>. QED BY <2>1 DEF Ascending
<1>6. Range(Tail(s)) = {s[i] : i \in 2..Len(s)}
  <2>1. \A i \in 2..Len(s) : i - 1 \in 1..(Len(s) - 1) /\ Tail(s)[i - 1] = s[i]
    <3> SUFFICES ASSUME NEW i \in 2..Len(s) PROVE i - 1 \in 1..(Len(s) - 1) /\ Tail(s)[i - 1] = s[i]
      OBVIOUS
    <3>1. i - 1 \in 1..(Len(s) - 1) /\ (i - 1) + 1 = i
      BY <1>2
    <3>. QED BY <1>1, <3>1
  <2>2. \A i \in 1..(Len(s) - 1) : Tail(s)[i] = s[i + 1] /\ i + 1 \in 2..Len(s)
    BY <1>1, <1>3
  <2>3. Range(Tail(s)) = {Tail(s)[i] : i \in 1..(Len(s) - 1)}
    BY <1>1, <1>2
  <2>4. ASSUME NEW x \in Range(Tail(s)) PROVE x \in {s[i] : i \in 2..Len(s)}
    <3>1. PICK i \in 1..(Len(s) - 1) : x = Tail(s)[i]
      BY <2>3
    <3>. QED BY <2>2, <3>1
  <2>5. ASSUME NEW i \in 2..Len(s) PROVE s[i] \in Range(Tail(s))
    <3>1. i - 1 \in 1..(Len(s) - 1) /\ s[i] = Tail(s)[i - 1]
      BY <2>1
    <3>. QED BY <2>3, <3>1
  <2>. QED BY <2>4, <2>5
<1>7. \A i \in 1..Len(s) : i = 1 \/ i \in 2..Len(s)
  BY <1>2
<1>8. 1 \in 1..Len(s) /\ \A i \in 2..Len(s) : i \in 1..Len(s)
  BY <1>2
<1>9. \A i \in 2..Len(s) : s[1] # s[i]
  <2> SUFFICES ASSUME NEW i \in 2..Len(s) PROVE s[1] # s[i]
    OBVIOUS
  <2>1. s[1].seq < s[i].seq /\ s[1].seq \in Nat
    BY <1>2, <1>5, <1>8
  <2>2. s[1].seq # s[i].seq
    BY <2>1
  <2>. QED BY <2>2
<1>10. Range(Tail(s)) = Range(s) \ {s[1]} /\ s[1] \in Range(s)
  BY <1>2, <1>6, <1>7, <1>8, <1>9
<1>11. ASSUME NEW v \in Range(s) PROVE s[1].seq <= v.seq
  <2>1. PICK i \in 1..Len(s) : v = s[i]
    BY <1>2
  <2>2. s[1].seq \in Nat /\ (i = 1 \/ s[1].seq < s[i].seq)
    BY <1>2, <1>5, <1>7, <1>8
  <2>3. s[i].seq \in Nat
    BY <1>2
  <2>. QED BY <2>1, <2>2, <2>3
<1>. QED BY <1>1, <1>4, <1>10, <1>11

LEMMA AscendingAppend ==
    ASSUME NEW X, Numbered(X), NEW s \in Seq(X), Ascending(s),
           NEW x \in X, \A v \in Range(s) : v.seq < x.seq
    PROVE  /\ Append(s, x) \in Seq(X) /\ Len(Append(s, x)) = Len(s) + 1 /\ Ascending(Append(s, x))
           /\ Range(Append(s, x)) = Range(s) \cup {x}
<1> DEFINE t == Append(s, x)
<1>1. /\ t \in Seq(X) /\ Len(t) = Len(s) + 1 /\ t[Len(s) + 1] = x
      /\ \A i \in 1..Len(s) : t[i] = s[i]
  BY AppendProperties
<1> HIDE DEF t
<1>2. /\ Range(s) = {s[i] : i \in 1..Len(s)} /\ Range(t) = {t[i] : i \in 1..Len(t)} /\ Len(s) \in Nat
  BY <1>1, InRange
<1>3. \A i \in 1..Len(t) : i \in 1..Len(s) \/ i = Len(s) + 1
  BY <1>1, <1>2
<1>4. Len(s) + 1 \in 1..Len(t) /\ \A i \in 1..Len(s) : i \in 1..Len(t)
  BY <1>1, <1>2
<1>5. Range(t) = Range(s) \cup {x}
  BY <1>1, <1>2, <1>3, <1>4
<1>6. Ascending(t)
  <2> SUFFICES ASSUME NEW i \in 1..Len(t), NEW j \in 1..Len(t), i < j PROVE t[i].seq < t[j].seq
    BY DEF Ascending
  <2>1. i \in 1..Len(s)
    BY <1>1, <1>2
  <2>2. CASE j \in 1..Len(s)
    BY <1>1, <2>1, <2>2 DEF Ascending
  <2>3. CASE j = Len(s) + 1
    BY <1>1, <1>2, <2>1, <2>3
  <2>. QED BY <1>3, <2>2, <2>3
<1>. QED BY <1>1, <1>5, <1>6 DEF t

LEMMA AscendingKept ==
    ASSUME NEW X, NEW s \in Seq(X), Ascending(s), NEW at \in SUBSET (DOMAIN s)
    PROVE  /\ Kept(s, at) \in Seq(X) /\ Ascending(Kept(s, at)) /\ Len(Kept(s, at)) <= Len(s)
           /\ Range(Kept(s, at)) = {s[i] : i \in at}
<1> DEFINE k == Kept(s, at)
           m == Len(k)
<1>1. /\ k \in Seq(X) /\ m = Cardinality(at) /\ m \in 0..Len(s)
      /\ Taken(at) \in [1..m -> at]
      /\ \A i \in 1..m : k[i] = s[Taken(at)[i]]
      /\ \A i, j \in 1..m : i < j => Taken(at)[i] < Taken(at)[j]
      /\ \A p \in at : \E i \in 1..m : Taken(at)[i] = p
  BY KeptFacts
<1> HIDE DEF k
<1>2. Range(k) = {k[i] : i \in 1..m} /\ DOMAIN s = 1..Len(s) /\ Len(s) \in Nat
  BY <1>1, InRange
<1> HIDE DEF m
<1>3. \A i \in 1..m : Taken(at)[i] \in at /\ Taken(at)[i] \in 1..Len(s)
  BY <1>1, <1>2
<1>4. Range(k) = {s[i] : i \in at}
  BY <1>1, <1>2, <1>3, SMTT(30)
<1>5. Ascending(k)
  <2> SUFFICES ASSUME NEW i \in 1..m, NEW j \in 1..m, i < j PROVE k[i].seq < k[j].seq
    BY DEF Ascending, m
  <2>1. Taken(at)[i] < Taken(at)[j] /\ Taken(at)[i] \in 1..Len(s) /\ Taken(at)[j] \in 1..Len(s)
    BY <1>1, <1>3
  <2>2. s[Taken(at)[i]].seq < s[Taken(at)[j]].seq
    BY <2>1 DEF Ascending
  <2>. QED BY <1>1, <2>2
<1>6. m <= Len(s)
  BY <1>1, <1>2
<1>. QED BY <1>1, <1>4, <1>5, <1>6 DEF k, m

LEMMA AscendingSize ==
    ASSUME NEW X, Numbered(X), NEW s \in Seq(X), Ascending(s)
    PROVE  IsFiniteSet(Range(s)) /\ Cardinality(Range(s)) = Len(s)
<1>1. /\ Len(s) \in Nat /\ s \in [1..Len(s) -> X] /\ Range(s) = {s[i] : i \in 1..Len(s)}
      /\ \A i \in 1..Len(s) : s[i] \in Range(s)
  BY InRange, LenProperties, ElementOfSeq
<1>2. \A i, j \in 1..Len(s) : s[i] = s[j] => i = j
  <2> SUFFICES ASSUME NEW i \in 1..Len(s), NEW j \in 1..Len(s), s[i] = s[j] PROVE i = j
    OBVIOUS
  <2>1. s[i].seq \in Nat /\ s[i].seq = s[j].seq
    BY <1>1, InRange DEF Numbered
  <2>2. ~ (s[i].seq < s[j].seq) /\ ~ (s[j].seq < s[i].seq)
    BY <2>1
  <2>3. ~ (i < j) /\ ~ (j < i)
    BY <2>2 DEF Ascending
  <2>. QED BY <1>1, <2>3
<1>3. s \in Bijection(1..Len(s), Range(s))
  BY <1>1, <1>2 DEF Bijection, Injection, Surjection, IsInjective
<1>4. ExistsBijection(1..Len(s), Range(s))
  BY <1>3 DEF ExistsBijection
<1>5. IsFiniteSet(1..Len(s)) /\ Cardinality(1..Len(s)) = Len(s)
  <2> DEFINE n == Len(s)
  <2>1. n \in Nat
    BY <1>1
  <2> HIDE DEF n
  <2>2. IsFiniteSet(1..n) /\ Cardinality(1..n) = n
    BY <2>1, FS_Interval
  <2>. QED BY <2>2 DEF n
<1>. QED BY <1>4, <1>5, FS_Bijection

-----------------------------------------------------------------------------
(* A ring laid anew with what a purge leaves. *)

\* t is what s holds of K, in the order of s.
Thinned(s, t, K) ==
    \E back \in [1..Len(t) -> 1..Len(s)] :
        /\ \A i, j \in 1..Len(t) : i < j => back[i] < back[j]
        /\ \A i \in 1..Len(t) : t[i] = s[back[i]] /\ t[i] \in K
        /\ \A p \in 1..Len(s) : s[p] \in K => \E i \in 1..Len(t) : back[i] = p

LEMMA ThinnedFacts ==
    ASSUME NEW X, NEW K, NEW s \in Seq(X), NEW t \in Seq(X), Thinned(s, t, K)
    PROVE  /\ Range(t) = Range(s) \cap K
           /\ Ascending(s) => Ascending(t)
<1>1. PICK back \in [1..Len(t) -> 1..Len(s)] :
        /\ \A i, j \in 1..Len(t) : i < j => back[i] < back[j]
        /\ \A i \in 1..Len(t) : t[i] = s[back[i]] /\ t[i] \in K
        /\ \A p \in 1..Len(s) : s[p] \in K => \E i \in 1..Len(t) : back[i] = p
  BY DEF Thinned
<1>2. Range(s) = {s[i] : i \in 1..Len(s)} /\ Range(t) = {t[i] : i \in 1..Len(t)}
  BY InRange
<1>3. ASSUME NEW v \in Range(t) PROVE v \in Range(s) /\ v \in K
  BY <1>1, <1>2
<1>4. ASSUME NEW v \in Range(s), v \in K PROVE v \in Range(t)
  <2>1. PICK p \in 1..Len(s) : v = s[p]
    BY <1>2
  <2>2. PICK i \in 1..Len(t) : back[i] = p
    BY <1>1, <1>4, <2>1
  <2>. QED BY <1>1, <1>2, <2>1, <2>2
<1>5. ASSUME Ascending(s) PROVE Ascending(t)
  <2> SUFFICES ASSUME NEW i \in 1..Len(t), NEW j \in 1..Len(t), i < j PROVE t[i].seq < t[j].seq
    BY DEF Ascending
  <2>1. back[i] \in 1..Len(s) /\ back[j] \in 1..Len(s) /\ back[i] < back[j]
    BY <1>1
  <2>2. s[back[i]].seq < s[back[j]].seq
    BY <1>5, <2>1 DEF Ascending
  <2>. QED BY <1>1, <2>2
<1>. QED BY <1>3, <1>4, <1>5

\* The ring after a purge that leaves the elements of K.
Purged(r, live) == IF Len(live) < RingLen(r) THEN Relay(r, live) ELSE r

\* Where the elements of K are, newest first.
Places(r, K) == {i \in DOMAIN Collect(r) : Collect(r)[i] \in K}

LEMMA PurgedFacts ==
    ASSUME NEW X, NEW cap \in Nat \ {0}, NEW r, IsRing(r, cap, X), NEW K,
           NEW live, live = Kept(Collect(r), Places(r, K))
    PROVE  /\ live \in Seq(X) /\ Len(live) <= RingLen(r) /\ Len(live) \in Nat
           /\ IsRing(Purged(r, live), cap, X) /\ RingLen(Purged(r, live)) = Len(live)
           /\ Thinned(InOrder(r), InOrder(Purged(r, live)), K)
           /\ Range(live) = Range(InOrder(r)) \cap K
<1> DEFINE n == RingLen(r)
           m == Len(live)
           c == Collect(r)
           s == InOrder(r)
           w == Purged(r, live)
           t == InOrder(w)
           at == Places(r, K)
           T == Taken(at)
<1>1. /\ s \in Seq(X) /\ Len(s) = n /\ n \in 0..cap /\ Len(c) = n /\ c \in Seq(X)
      /\ \A i \in 1..n : s[i] = c[n - i + 1]
      /\ Range(s) = Range(c)
  BY InOrderFacts
<1>2. n \in Nat /\ n <= cap /\ DOMAIN c = 1..n /\ DOMAIN r.slots = 0..(cap - 1)
  BY <1>1, InRange DEF IsRing
<1>3. \A q \in 1..n : q \in at <=> c[q] \in K
  BY <1>2 DEF Places
<1>4. at \in SUBSET (DOMAIN c)
  BY DEF Places
<1>5. /\ live \in Seq(X) /\ m = Cardinality(at) /\ m \in 0..n /\ (m = n => at = 1..n)
      /\ T \in [1..m -> at]
      /\ \A i \in 1..m : live[i] = c[T[i]]
      /\ \A i, j \in 1..m : i < j => T[i] < T[j]
      /\ \A p \in at : \E i \in 1..m : T[i] = p
  <2> HIDE DEF c, m, n, T, at
  <2>1. live = Kept(c, at) /\ m = Len(live)
    BY DEF c, m, at
  <2>2. /\ Kept(c, at) \in Seq(X) /\ Len(Kept(c, at)) = Cardinality(at)
        /\ Cardinality(at) \in 0..Len(c) /\ (Cardinality(at) = Len(c) => at = DOMAIN c)
        /\ Taken(at) \in [1..Len(Kept(c, at)) -> at]
        /\ \A i \in 1..Len(Kept(c, at)) : Kept(c, at)[i] = c[Taken(at)[i]]
        /\ \A i, j \in 1..Len(Kept(c, at)) : i < j => Taken(at)[i] < Taken(at)[j]
        /\ \A p \in at : \E i \in 1..Len(Kept(c, at)) : Taken(at)[i] = p
    BY ONLY <1>1, <1>4, KeptFacts
  <2>3. T = Taken(at)
    BY DEF T
  <2>. QED BY ONLY <1>1, <1>2, <2>1, <2>2, <2>3
<1>6. at \subseteq 1..n
  BY <1>2, <1>4
<1> HIDE DEF n, m, c, s, w, t, T, at
<1>7. \A i \in 1..m : T[i] \in 1..n /\ T[i] \in Int /\ c[T[i]] \in K /\ T[i] \in at
  <2>1. \A i \in 1..m : T[i] \in at
    BY ONLY <1>5
  <2>2. \A i \in 1..m : T[i] \in 1..n
    BY ONLY <1>6, <2>1
  <2>3. \A i \in 1..m : T[i] \in Int
    BY ONLY <1>2, <2>2
  <2>. QED BY ONLY <1>3, <2>1, <2>2, <2>3
<1>8. Range(live) = Range(s) \cap K
  <2>1. Range(live) = {live[i] : i \in 1..m} /\ Range(c) = {c[i] : i \in 1..n}
    <3>1. Range(live) = {live[i] : i \in 1..Len(live)} /\ Range(c) = {c[i] : i \in 1..Len(c)}
      BY ONLY <1>1, <1>5, InRange
    <3>2. Len(live) = m /\ Len(c) = n
      BY <1>1 DEF m
    <3>. QED BY ONLY <3>1, <3>2
  <2>2. ASSUME NEW v \in Range(live) PROVE v \in Range(c) /\ v \in K
    BY <1>5, <1>7, <2>1
  <2>3. ASSUME NEW v \in Range(c), v \in K PROVE v \in Range(live)
    <3>1. PICK q \in 1..n : v = c[q]
      BY <2>1
    <3>2. PICK i \in 1..m : T[i] = q
      BY <1>3, <1>5, <2>3, <3>1
    <3>. QED BY <1>5, <2>1, <3>1, <3>2
  <2>. QED BY <1>1, <2>2, <2>3
<1>9. CASE m < n
  <2>1. w = Relay(r, live)
    BY <1>9 DEF w, Purged, m, n
  <2>2. /\ IsRing(Relay(r, live), cap, X) /\ RingLen(Relay(r, live)) = Len(live)
        /\ \A i \in 1..Len(live) : InOrder(Relay(r, live))[i] = live[Len(live) - i + 1]
    <3>1. Len(live) <= cap
      BY <1>2, <1>5 DEF m
    <3>. QED BY ONLY <1>2, <1>5, <3>1, RelayFacts
  <2>3. IsRing(w, cap, X) /\ RingLen(w) = m /\ \A i \in 1..m : t[i] = live[m - i + 1]
    BY <2>1, <2>2 DEF m, t
  <2>4. Len(t) = m
    BY <2>3, InOrderFacts DEF t
  <2> DEFINE back == [i \in 1..m |-> n - T[m - i + 1] + 1]
  <2>5. \A i \in 1..m : m - i + 1 \in 1..m
    BY <1>5
  <2>6. \A i \in 1..m : back[i] = n - T[m - i + 1] + 1 /\ back[i] \in 1..n
    BY <1>2, <1>7, <2>5, SMTT(30)
  <2>7. back \in [1..m -> 1..n]
    BY <2>6
  <2>8. ASSUME NEW i \in 1..m, NEW j \in 1..m, i < j PROVE back[i] < back[j]
    <3>1. m - j + 1 < m - i + 1 /\ m - j + 1 \in 1..m /\ m - i + 1 \in 1..m
      BY <1>5, <2>5, <2>8
    <3>2. T[m - j + 1] < T[m - i + 1] /\ T[m - j + 1] \in Int /\ T[m - i + 1] \in Int
      BY <1>5, <1>7, <3>1
    <3>3. back[i] = n - T[m - i + 1] + 1 /\ back[j] = n - T[m - j + 1] + 1
      BY <2>6
    <3>. QED BY ONLY <1>2, <3>2, <3>3
  <2> HIDE DEF back
  <2>9. ASSUME NEW i \in 1..m PROVE t[i] = s[back[i]] /\ t[i] \in K
    <3>1. t[i] = c[T[m - i + 1]] /\ t[i] \in K
      <4>1. m - i + 1 \in 1..m
        BY <2>5
      <4>. QED BY <1>5, <1>7, <2>3, <4>1
    <3>2. T[m - i + 1] \in 1..n /\ back[i] \in 1..n /\ n - back[i] + 1 = T[m - i + 1]
      <4> DEFINE q == T[m - i + 1]
      <4>1. q \in 1..n /\ back[i] = n - q + 1 /\ back[i] \in 1..n /\ n \in Nat
        BY <1>2, <1>7, <2>5, <2>6
      <4> HIDE DEF q
      <4>2. n - back[i] + 1 = q
        BY ONLY <4>1
      <4>. QED BY <4>1, <4>2 DEF q
    <3>. QED BY <1>1, <3>1, <3>2
  <2>10. ASSUME NEW p \in 1..n, s[p] \in K PROVE \E i \in 1..m : back[i] = p
    <3>1. n - p + 1 \in 1..n
      BY <1>2
    <3>2. n - p + 1 \in at
      BY <1>1, <1>3, <2>10, <3>1
    <3>3. PICK k \in 1..m : T[k] = n - p + 1
      BY <1>5, <3>2
    <3>4. m - k + 1 \in 1..m /\ m - (m - k + 1) + 1 = k
      BY <1>5
    <3>5. back[m - k + 1] = n - (n - p + 1) + 1
      BY <2>6, <3>3, <3>4
    <3>6. back[m - k + 1] = p
      BY <1>2, <3>5
    <3>. QED BY <3>4, <3>6
  <2>11. Thinned(s, t, K)
    <3>1. Len(s) = n /\ Len(t) = m
      BY <1>1, <2>4
    <3>. QED BY ONLY <2>7, <2>8, <2>9, <2>10, <3>1 DEF Thinned
  <2>. QED BY <1>2, <1>5, <1>8, <2>3, <2>11 DEF m, n, s, t, w
<1>10. CASE ~ (m < n)
  <2>1. m = n /\ at = 1..n /\ w = r /\ t = s
    BY <1>2, <1>5, <1>10 DEF w, Purged, m, n, s, t
  <2>2. \A p \in 1..n : s[p] \in K
    <3>1. \A p \in 1..n : n - p + 1 \in 1..n
      BY <1>2
    <3>. QED BY <1>1, <1>3, <2>1, <3>1
  <2> DEFINE back == [i \in 1..n |-> i]
  <2>3. back \in [1..n -> 1..n] /\ \A i \in 1..n : back[i] = i
    OBVIOUS
  <2> HIDE DEF back
  <2>4. Thinned(s, t, K)
    <3>1. /\ \A i, j \in 1..n : i < j => back[i] < back[j]
          /\ \A i \in 1..n : t[i] = s[back[i]] /\ t[i] \in K
          /\ \A p \in 1..n : s[p] \in K => \E i \in 1..n : back[i] = p
      BY <2>1, <2>2, <2>3
    <3>2. Len(s) = n /\ Len(t) = n
      BY <1>1, <2>1
    <3>. QED BY ONLY <2>3, <3>1, <3>2 DEF Thinned
  <2>. QED BY <1>2, <1>5, <1>8, <2>1, <2>4 DEF m, n, s, t, w
<1>. QED BY <1>9, <1>10

-----------------------------------------------------------------------------
(* What is true of the store between any two steps of the pipeline. *)

Convs == DOMAIN Initiator
Row == [id : Ids, conv : Convs, terminal : BOOLEAN, ts : Nat, bytes : Nat, from : Nat]
Versions == [seq : Nat, rec : Row]
Verdicts == [id : Ids, ts : Nat, conv : Convs, class : Nat]

StoreTypes ==
    /\ IsRing(flows, Cap, Versions) /\ IsRing(cls, ClsCap, Verdicts)
    /\ hist \in [Ids -> Seq(Versions)]
    /\ flowSeq \in Nat /\ evicted \in Nat /\ expired \in Nat /\ dropped \in Nat
    /\ clsEvicted \in Nat /\ clsExpired \in Nat

\* The ring holds versions in the order of their numbers, a flow's history the newest of
\* them, at least one if there is one.
InNumberOrder == Ascending(TheLog) /\ \A v \in Range(TheLog) : v.seq \in 1..flowSeq

Follows(h, log, id) ==
    /\ Len(h) <= HistCap /\ Ascending(h)
    /\ \A v \in Range(h) : v \in Range(log) /\ v.rec.id = id
    /\ \A v \in Range(h), w \in Range(log) : w.rec.id = id /\ v.seq <= w.seq => w \in Range(h)
    /\ \A w \in Range(log) : w.rec.id = id => h # <<>>

Counted ==
    /\ flowSeq = RingLen(flows) + evicted + expired
    /\ Cardinality(Unlisted) <= dropped

RingAndHistories ==
    /\ StoreTypes /\ InNumberOrder /\ Counted
    /\ \A id \in Ids : Follows(hist[id], TheLog, id)

\* The rows on their way to the store, and how many records were taken off the channel.
Pending == IF stage = "store" THEN todo ELSE Tail(todo)
Handled == sent - Len(records)

OpenFlows == [id : Nat, bytes : Nat, ts : Nat]
OpenTypes(tbl, next, now) ==
    /\ DOMAIN tbl \subseteq Convs /\ tbl \in [DOMAIN tbl -> OpenFlows]
    /\ \A c \in DOMAIN tbl : tbl[c].id \in 1..(next - 1) /\ tbl[c].ts <= now

PipeTypes ==
    /\ setup \in Setups /\ clock \in Nat /\ packets \in Nat /\ packets <= setup.packets
    /\ sent \in Nat /\ sent <= Len(setup.feed) /\ records \in Seq(Range(setup.feed)) /\ Len(records) <= sent
    /\ \A i \in 1..Len(records) : records[i] = setup.feed[Handled + i]
    /\ nextId \in Nat \ {0} /\ nextId <= 1 + packets + Handled
    /\ stage \in {"store", "score", "notify"} /\ (stage # "store" => todo # <<>>)
    /\ todo \in Seq(Row)
    /\ OpenTypes(table, nextId, clock)

\* All rows there are, stored or to be stored, in their order.
Joined(log, rows) ==
    [i \in 1..(Len(log) + Len(rows)) |-> IF i <= Len(log) THEN log[i].rec ELSE rows[i - Len(log)]]
Stream == Joined(TheLog, Pending)

\* Two rows of one flow, the one before the other.
Earlier(a, b) == a.conv = b.conv /\ a.from = b.from /\ ~ a.terminal /\ a.ts <= b.ts

InTurn(s) == \A i, j \in 1..Len(s) : i < j /\ s[i].id = s[j].id => Earlier(s[i], s[j])
Behind(s, tbl) ==
    \A c \in DOMAIN tbl, i \in 1..Len(s) : s[i].id = tbl[c].id => Earlier(s[i], TableRow(c, tbl[c], FALSE))
OwnIds(tbl) == \A c, d \in DOMAIN tbl : tbl[c].id = tbl[d].id => c = d
FromsRise(s) == \A i, j \in 1..Len(s) : i < j /\ s[j].from > 0 => s[i].from < s[j].from

\* All that is said of the stream and that every part of it inherits.
Orderly(s, tbl, next, handled) ==
    /\ \A i \in 1..Len(s) : s[i].id \in 1..(next - 1) /\ s[i].from <= handled
    /\ InTurn(s) /\ Behind(s, tbl) /\ FromsRise(s)

FlowsApart == OwnIds(table) /\ Orderly(Stream, table, nextId, Handled)

VerdictsFollow ==
    /\ RingLen(cls) + clsGone = IF stage = "score" THEN flowSeq - 1 ELSE flowSeq
    /\ evicted + expired + clsGone = 0 =>
          /\ \A i \in 1..RingLen(cls) : InOrder(cls)[i].id = TheLog[i].rec.id
          /\ stage = "score" => TheLog # <<>> /\ TheLog[Len(TheLog)].rec = Head(todo)

Neither(k) == setup.feed[k].mode = "neither"
RecordsOnce ==
    /\ \A i \in 1..Len(todo) : todo[i].from <= Handled
    /\ evicted + expired = 0 =>
          \A k \in 1..Handled : ~ Neither(k) => \E i \in 1..Len(Stream) : Stream[i].from = k
    /\ rejected = Cardinality({k \in 1..Handled : Neither(k)})

RecordInv == RingAndHistories /\ PipeTypes /\ FlowsApart /\ VerdictsFollow /\ RecordsOnce

LEMMA VersionsNumbered == Numbered(Versions) /\ \A v \in Versions : v.rec \in Row /\ v.rec.id \in Ids
BY DEF Numbered, Versions, Row

LEMMA CapsPositive == Cap \in Nat \ {0} /\ ClsCap \in Nat \ {0} /\ HistCap \in Nat \ {0}
BY StoreAssumption

-----------------------------------------------------------------------------
(* A history beside the log, when a version leaves the one or enters both. *)

LEMMA EvictedFromLog ==
    ASSUME NEW log \in Seq(Versions), Ascending(log), log # <<>>, NEW id,
           NEW h \in Seq(Versions), Follows(h, log, id), log[1].rec.id = id
    PROVE  LET d == DropVersion(h, log[1])
           IN  /\ d \in Seq(Versions) /\ Len(d) <= Len(h) /\ Range(d) = Range(h) \ {log[1]}
               /\ Follows(d, Tail(log), id)
<1> DEFINE old == log[1]
           d == DropVersion(h, old)
<1>1. /\ Tail(log) \in Seq(Versions) /\ Range(Tail(log)) = Range(log) \ {old} /\ old \in Range(log)
      /\ \A v \in Range(log) : old.seq <= v.seq
  BY VersionsNumbered, AscendingTail
<1>2. /\ Ascending(h) /\ Len(h) <= HistCap /\ Len(h) \in Nat
      /\ \A v \in Range(h) : v \in Range(log) /\ v.rec.id = id
      /\ \A v \in Range(h), w \in Range(log) : w.rec.id = id /\ v.seq <= w.seq => w \in Range(h)
      /\ \A w \in Range(log) : w.rec.id = id => h # <<>>
  BY LenProperties DEF Follows
<1>3. /\ \A v \in Range(log) : v \in Versions /\ v.seq \in Nat
      /\ h = <<>> <=> Range(h) = {}
  BY InRange, VersionsNumbered DEF Numbered
<1>4. h # <<>>
  BY <1>1, <1>2
<1>5. /\ Tail(h) \in Seq(Versions) /\ Len(Tail(h)) = Len(h) - 1 /\ Ascending(Tail(h))
      /\ Range(Tail(h)) = Range(h) \ {h[1]} /\ h[1] \in Range(h) /\ Head(h) = h[1]
      /\ \A v \in Range(h) : h[1].seq <= v.seq
  BY <1>2, <1>4, VersionsNumbered, AscendingTail
<1>6. h[1].seq = old.seq => h[1] = old
  BY <1>1, <1>2, <1>5, SameNumber, VersionsNumbered
<1>7. h[1].seq # old.seq => old \notin Range(h)
  <2>1. SUFFICES ASSUME h[1].seq # old.seq, old \in Range(h) PROVE FALSE
    OBVIOUS
  <2>2. h[1].seq <= old.seq /\ old.seq <= h[1].seq /\ h[1].seq \in Nat /\ old.seq \in Nat
    BY <1>1, <1>2, <1>3, <1>5, <2>1
  <2>. QED BY <2>1, <2>2
<1> HIDE DEF d, old
<1>8. d \in Seq(Versions) /\ Len(d) <= Len(h) /\ Len(d) \in Nat /\ Ascending(d) /\ Range(d) = Range(h) \ {old}
  <2>1. CASE h[1].seq = old.seq
    <3>1. d = Tail(h)
      BY <1>4, <1>5, <2>1 DEF DropVersion, d
    <3>2. Len(d) <= Len(h) /\ Len(d) \in Nat
      BY <1>2, <1>5, <3>1, LenProperties
    <3>. QED BY <1>5, <1>6, <2>1, <3>1, <3>2
  <2>2. CASE h[1].seq # old.seq
    <3>1. d = h
      BY <1>5, <2>2 DEF DropVersion, d
    <3>. QED BY <1>2, <1>7, <2>2, <3>1
  <2>. QED BY <2>1, <2>2
<1>9. ASSUME NEW w \in Range(Tail(log)), w.rec.id = id PROVE d # <<>>
  <2>1. w \in Range(log) /\ w # old
    BY <1>1, <1>9
  <2>2. CASE \E v \in Range(h) : v # old
    <3>1. Range(d) # {}
      BY <1>8, <2>2
    <3>. QED BY <1>8, <3>1, InRange
  <2>3. CASE \A v \in Range(h) : v = old
    <3>1. old \in Range(h) /\ old.seq <= w.seq
      BY <1>1, <1>5, <2>1, <2>3
    <3>2. w \in Range(h)
      BY <1>2, <1>9, <2>1, <3>1
    <3>. QED BY <2>1, <2>3, <3>2
  <2>. QED BY <2>2, <2>3
<1>10. Len(d) <= HistCap
  BY <1>2, <1>8, CapsPositive
<1>11. /\ \A v \in Range(d) : v \in Range(Tail(log)) /\ v.rec.id = id
       /\ \A v \in Range(d), w \in Range(Tail(log)) : w.rec.id = id /\ v.seq <= w.seq => w \in Range(d)
  BY <1>1, <1>2, <1>8
<1>12. Follows(d, Tail(log), id)
  BY <1>8, <1>9, <1>10, <1>11 DEF Follows
<1>. QED BY <1>8, <1>12 DEF d, old

LEMMA EvictedElsewhere ==
    ASSUME NEW log \in Seq(Versions), Ascending(log), log # <<>>, NEW id,
           NEW h \in Seq(Versions), Follows(h, log, id), log[1].rec.id # id
    PROVE  Follows(h, Tail(log), id) /\ Range(h) = Range(h) \ {log[1]}
<1>1. Range(Tail(log)) = Range(log) \ {log[1]}
  BY VersionsNumbered, AscendingTail
<1>. QED BY <1>1 DEF Follows

\* What the history's own bound takes out.
Outgrown(h) == IF Len(h) >= HistCap THEN {h[1]} ELSE {}

LEMMA EnteredLog ==
    ASSUME NEW log \in Seq(Versions), Ascending(log), NEW id, NEW h \in Seq(Versions), Follows(h, log, id),
           NEW x \in Versions, x.rec.id = id, \A v \in Range(log) : v.seq < x.seq
    PROVE  /\ AppendCapped(h, x) \in Seq(Versions)
           /\ Range(AppendCapped(h, x)) = (Range(h) \ Outgrown(h)) \cup {x}
           /\ Outgrown(h) \subseteq Range(h)
           /\ \A u \in Outgrown(h), v \in Range(h) : u.seq <= v.seq
           /\ Follows(AppendCapped(h, x), Append(log, x), id)
<1> DEFINE room == IF Len(h) >= HistCap THEN Tail(h) ELSE h
           a == AppendCapped(h, x)
<1>1. /\ Ascending(h) /\ Len(h) <= HistCap /\ Len(h) \in Nat
      /\ \A v \in Range(h) : v \in Range(log) /\ v.rec.id = id
      /\ \A v \in Range(h), w \in Range(log) : w.rec.id = id /\ v.seq <= w.seq => w \in Range(h)
      /\ \A w \in Range(log) : w.rec.id = id => h # <<>>
  BY LenProperties DEF Follows
<1>2. /\ room \in Seq(Versions) /\ Len(room) < HistCap /\ Len(room) \in Nat /\ Ascending(room)
      /\ Range(room) = Range(h) \ Outgrown(h) /\ Outgrown(h) \subseteq Range(h)
      /\ \A u \in Outgrown(h), v \in Range(h) : u.seq <= v.seq
  <2>1. CASE Len(h) >= HistCap
    <3>1. h # <<>>
      BY <2>1, <1>1, CapsPositive, EmptySeq
    <3>2. /\ Tail(h) \in Seq(Versions) /\ Len(Tail(h)) = Len(h) - 1 /\ Ascending(Tail(h))
          /\ Range(Tail(h)) = Range(h) \ {h[1]} /\ h[1] \in Range(h)
          /\ \A v \in Range(h) : h[1].seq <= v.seq
      BY <1>1, <3>1, VersionsNumbered, AscendingTail
    <3>3. room = Tail(h) /\ Outgrown(h) = {h[1]}
      BY <2>1 DEF Outgrown
    <3>4. Len(room) < HistCap /\ Len(room) \in Nat
      BY <1>1, <2>1, <3>2, <3>3, CapsPositive
    <3>. QED BY <3>2, <3>3, <3>4
  <2>2. CASE ~ (Len(h) >= HistCap)
    <3>1. room = h /\ Outgrown(h) = {}
      BY <2>2 DEF Outgrown
    <3>2. Len(h) < HistCap
      BY <1>1, <2>2, CapsPositive
    <3>. QED BY <1>1, <3>1, <3>2
  <2>. QED BY <2>1, <2>2
<1>3. a = Append(room, x)
  BY DEF AppendCapped
<1> HIDE DEF a, room
<1>4. \A v \in Range(room) : v.seq < x.seq
  BY <1>1, <1>2
<1>5. a \in Seq(Versions) /\ Len(a) = Len(room) + 1 /\ Ascending(a) /\ Range(a) = Range(room) \cup {x}
  BY <1>2, <1>3, <1>4, VersionsNumbered, AscendingAppend
<1>6. Range(Append(log, x)) = Range(log) \cup {x} /\ Append(log, x) \in Seq(Versions)
  BY VersionsNumbered, AscendingAppend
<1>7. Len(a) <= HistCap
  BY <1>2, <1>5, CapsPositive
<1>8. \A v \in Range(a) : v \in Range(Append(log, x)) /\ v.rec.id = id
  BY <1>1, <1>2, <1>5, <1>6
<1>9. ASSUME NEW v \in Range(a), NEW w \in Range(Append(log, x)), w.rec.id = id, v.seq <= w.seq
      PROVE  w \in Range(a)
  <2>1. CASE w = x
    BY <1>5, <2>1
  <2>2. CASE w # x
    <3>1. w \in Range(log) /\ w.seq < x.seq
      BY <1>6, <2>2
    <3>2. v \in Versions /\ w \in Versions /\ v.seq \in Nat /\ w.seq \in Nat /\ x.seq \in Nat
      BY <1>5, <3>1, InRange, VersionsNumbered DEF Numbered
    <3>3. v # x
      BY <1>9, <3>1, <3>2
    <3>4. v \in Range(h) /\ v \notin Outgrown(h) /\ w \in Range(h)
      BY <1>1, <1>2, <1>5, <1>9, <3>1, <3>3
    <3>5. w \notin Outgrown(h)
      <4>1. SUFFICES ASSUME w \in Outgrown(h) PROVE FALSE
        OBVIOUS
      <4>2. w.seq <= v.seq /\ v.seq = w.seq
        BY <1>2, <1>9, <3>2, <3>4, <4>1
      <4>3. v = w
        BY <1>1, <3>4, <4>2, SameNumber, VersionsNumbered
      <4>. QED BY <3>4, <4>1, <4>3
    <3>. QED BY <1>2, <1>5, <3>4, <3>5
  <2>. QED BY <2>1, <2>2
<1>10. a # <<>>
  <2>1. Range(a) # {}
    BY <1>5
  <2>. QED BY <1>5, <2>1, InRange
<1>11. Follows(a, Append(log, x), id)
  BY <1>5, <1>7, <1>8, <1>9, <1>10 DEF Follows
<1>. QED BY <1>2, <1>5, <1>11 DEF a

LEMMA EnteredElsewhere ==
    ASSUME NEW log \in Seq(Versions), Ascending(log), NEW id, NEW h \in Seq(Versions), Follows(h, log, id),
           NEW x \in Versions, x.rec.id # id, \A v \in Range(log) : v.seq < x.seq
    PROVE  Follows(h, Append(log, x), id)
<1>1. Range(Append(log, x)) = Range(log) \cup {x}
  BY VersionsNumbered, AscendingAppend
<1>. QED BY <1>1 DEF Follows

-----------------------------------------------------------------------------
(* PutFlow keeps ring and histories in step. *)

LEMMA TheLogFacts ==
    ASSUME StoreTypes
    PROVE  /\ TheLog = InOrder(flows) /\ TheLog \in Seq(Versions) /\ Len(TheLog) = RingLen(flows)
           /\ RingLen(flows) \in 0..Cap /\ RingLen(flows) = IF flows.full THEN Cap ELSE flows.head
BY CapsPositive, InOrderFacts DEF StoreTypes, TheLog, RecentFlows, InOrder

\* What the full ring loses to the next version.
Leaving == IF flows.full THEN {TheLog[1]} ELSE {}

\* Without what leaves the ring, a history takes v and sheds its oldest if it was at its cap.
EntersHistory(id, v) ==
    \E h \in Seq(Versions) :
        /\ Range(h) = Range(hist[id]) \ Leaving /\ Ascending(h)
        /\ Range(hist'[id]) = (Range(h) \ Outgrown(h)) \cup {v}
        /\ Outgrown(h) \subseteq Range(h) /\ \A u \in Outgrown(h), w \in Range(h) : u.seq <= w.seq

LEMMA PutFacts ==
    ASSUME RingAndHistories, NEW row \in Row, PutFlow(row),
           NEW v, v = [seq |-> flowSeq + 1, rec |-> row]
    PROVE  /\ RingAndHistories' /\ v \in Versions
           /\ flows.full => TheLog # <<>>
           /\ TheLog' = Append(IF flows.full THEN Tail(TheLog) ELSE TheLog, v)
           /\ Range(TheLog') = (Range(TheLog) \ Leaving) \cup {v}
           /\ \A w \in Range(TheLog) : w.seq < v.seq
           /\ EntersHistory(row.id, v)
           /\ \A id \in Ids : id # row.id => Range(hist'[id]) = Range(hist[id]) \ Leaving
<1> DEFINE log == TheLog
           old == flows.slots[flows.head]
           rest == IF flows.full THEN Tail(log) ELSE log
           trimmed == IF flows.full THEN [hist EXCEPT ![old.rec.id] = DropVersion(@, old)] ELSE hist
<1>0. /\ StoreTypes /\ Ascending(log) /\ \A w \in Range(log) : w.seq \in 1..flowSeq
      /\ Counted /\ \A id \in Ids : Follows(hist[id], log, id)
      /\ row.id \in Ids
  BY DEF RingAndHistories, InNumberOrder, Row
<1>1. /\ log \in Seq(Versions) /\ log = InOrder(flows) /\ Len(log) = RingLen(flows)
      /\ RingLen(flows) = IF flows.full THEN Cap ELSE flows.head
      /\ IsRing(flows, Cap, Versions) /\ flowSeq \in Nat /\ hist \in [Ids -> Seq(Versions)]
  BY <1>0, TheLogFacts DEF StoreTypes
<1>2. v \in Versions /\ v.seq = flowSeq + 1 /\ v.rec = row /\ v.seq \in Nat
  BY <1>1 DEF Versions
<1>3. /\ hist' = [trimmed EXCEPT ![row.id] = AppendCapped(@, v)]
      /\ dropped' = (IF Len(trimmed[row.id]) >= HistCap THEN dropped + 1 ELSE dropped)
      /\ flows' = Write(flows, v)
      /\ evicted' = (IF flows.full THEN evicted + 1 ELSE evicted) /\ flowSeq' = flowSeq + 1
      /\ cls' = cls /\ expired' = expired /\ clsEvicted' = clsEvicted /\ clsExpired' = clsExpired
  BY DEF PutFlow
<1>4. /\ IsRing(flows', Cap, Versions) /\ InOrder(flows') = Append(rest, v)
      /\ flows.full => old = log[1] /\ log # <<>>
  <2>1. /\ IsRing(Write(flows, v), Cap, Versions)
        /\ InOrder(Write(flows, v)) = Append(IF flows.full THEN Tail(InOrder(flows)) ELSE InOrder(flows), v)
        /\ flows.full => flows.slots[flows.head] = InOrder(flows)[1] /\ InOrder(flows) # <<>>
    <3>1. Cap \in Nat \ {0} /\ IsRing(flows, Cap, Versions) /\ v \in Versions
      BY <1>1, <1>2, CapsPositive
    <3>. QED BY ONLY <3>1, WriteFacts
  <2>2. flows' = Write(flows, v) /\ log = InOrder(flows) /\ rest = IF flows.full THEN Tail(log) ELSE log
    BY <1>1, <1>3
  <2>. QED BY ONLY <2>1, <2>2
<1>5. TheLog' = Append(rest, v)
  BY <1>4 DEF TheLog, RecentFlows, InOrder
<1>6. rest \in Seq(Versions) /\ Ascending(rest) /\ Range(rest) = Range(log) \ Leaving
  <2>1. CASE flows.full
    <3>1. /\ Tail(log) \in Seq(Versions) /\ Ascending(Tail(log))
          /\ Range(Tail(log)) = Range(log) \ {log[1]}
      BY <1>0, <1>1, <1>4, <2>1, VersionsNumbered, AscendingTail
    <3>. QED BY <2>1, <3>1 DEF Leaving
  <2>2. CASE ~ flows.full
    BY <1>0, <1>1, <2>2 DEF Leaving
  <2>. QED BY <2>1, <2>2
<1>61. (flows.full => rest = Tail(log)) /\ (~ flows.full => rest = log)
  OBVIOUS
<1> HIDE DEF rest
<1>7. \A w \in Range(log) : w.seq < v.seq
  BY <1>0, <1>1, <1>2
<1>8. /\ TheLog' \in Seq(Versions) /\ Len(TheLog') = Len(rest) + 1 /\ Ascending(TheLog')
      /\ Range(TheLog') = Range(rest) \cup {v}
  <2>1. \A w \in Range(rest) : w.seq < v.seq
    BY <1>6, <1>7
  <2>. QED BY <1>2, <1>5, <1>6, <2>1, VersionsNumbered, AscendingAppend
<1>9. \A id \in Ids : /\ trimmed[id] \in Seq(Versions) /\ Range(trimmed[id]) = Range(hist[id]) \ Leaving
                      /\ Follows(trimmed[id], rest, id)
  <2> SUFFICES ASSUME NEW id \in Ids
               PROVE  /\ trimmed[id] \in Seq(Versions) /\ Range(trimmed[id]) = Range(hist[id]) \ Leaving
                      /\ Follows(trimmed[id], rest, id)
    OBVIOUS
  <2>1. hist[id] \in Seq(Versions) /\ Follows(hist[id], log, id)
    BY <1>0, <1>1
  <2>2. CASE ~ flows.full
    BY <1>61, <2>1, <2>2 DEF Leaving
  <2>3. CASE flows.full /\ log[1].rec.id = id
    <3>1. trimmed[id] = DropVersion(hist[id], log[1])
      BY <1>1, <1>4, <2>3
    <3>2. /\ DropVersion(hist[id], log[1]) \in Seq(Versions)
          /\ Range(DropVersion(hist[id], log[1])) = Range(hist[id]) \ {log[1]}
          /\ Follows(DropVersion(hist[id], log[1]), Tail(log), id)
      BY <1>0, <1>1, <1>4, <2>1, <2>3, EvictedFromLog
    <3>. QED BY <1>61, <2>3, <3>1, <3>2 DEF Leaving
  <2>4. CASE flows.full /\ log[1].rec.id # id
    <3>1. trimmed[id] = hist[id]
      BY <1>1, <1>4, <2>4
    <3>2. Follows(hist[id], Tail(log), id) /\ Range(hist[id]) = Range(hist[id]) \ {log[1]}
      BY <1>0, <1>1, <1>4, <2>1, <2>4, EvictedElsewhere
    <3>. QED BY <1>61, <2>1, <2>4, <3>1, <3>2 DEF Leaving
  <2>. QED BY <2>2, <2>3, <2>4
<1>10. \A id \in Ids : hist'[id] = IF id = row.id THEN AppendCapped(trimmed[id], v) ELSE trimmed[id]
  <2>1. DOMAIN trimmed = Ids
    BY <1>1
  <2>. QED BY <1>0, <1>3, <2>1
<1>11. DOMAIN hist' = Ids /\ hist' = [id \in Ids |-> hist'[id]]
  <2>1. DOMAIN trimmed = Ids
    BY <1>1
  <2>. QED BY <1>3, <2>1
<1>. DEFINE h == trimmed[row.id]
<1>12. h \in Seq(Versions) /\ Follows(h, rest, row.id) /\ Range(h) = Range(hist[row.id]) \ Leaving
  BY <1>0, <1>9
<1>13. \A w \in Range(rest) : w.seq < v.seq
  BY <1>6, <1>7
<1> HIDE DEF trimmed, h, old
<1>14. /\ AppendCapped(h, v) \in Seq(Versions)
       /\ Range(AppendCapped(h, v)) = (Range(h) \ Outgrown(h)) \cup {v}
       /\ Outgrown(h) \subseteq Range(h)
       /\ \A u \in Outgrown(h), w \in Range(h) : u.seq <= w.seq
       /\ Follows(AppendCapped(h, v), Append(rest, v), row.id)
  BY <1>2, <1>6, <1>12, <1>13, EnteredLog
<1>15. hist'[row.id] = AppendCapped(h, v)
  BY <1>0, <1>10 DEF h
<1>16. \A id \in Ids : /\ hist'[id] \in Seq(Versions) /\ Follows(hist'[id], TheLog', id)
                       /\ id # row.id => Range(hist'[id]) = Range(hist[id]) \ Leaving
  <2> SUFFICES ASSUME NEW id \in Ids
               PROVE  /\ hist'[id] \in Seq(Versions) /\ Follows(hist'[id], TheLog', id)
                      /\ id # row.id => Range(hist'[id]) = Range(hist[id]) \ Leaving
    OBVIOUS
  <2>1. CASE id = row.id
    BY <1>5, <1>14, <1>15, <2>1
  <2>2. CASE id # row.id
    <3>1. hist'[id] = trimmed[id]
      BY <1>10, <2>2
    <3>2. /\ trimmed[id] \in Seq(Versions) /\ Range(trimmed[id]) = Range(hist[id]) \ Leaving
          /\ Follows(trimmed[id], rest, id)
      BY <1>9
    <3>3. Follows(trimmed[id], Append(rest, v), id)
      BY <1>2, <1>6, <1>13, <2>2, <3>2, EnteredElsewhere
    <3>. QED BY <1>5, <2>2, <3>1, <3>2, <3>3
  <2>. QED BY <2>1, <2>2
<1>17. StoreTypes'
  <2>1. hist' \in [Ids -> Seq(Versions)]
    BY <1>11, <1>16
  <2>2. /\ flowSeq' \in Nat /\ evicted' \in Nat /\ expired' \in Nat /\ dropped' \in Nat
        /\ clsEvicted' \in Nat /\ clsExpired' \in Nat
    BY <1>0, <1>3 DEF StoreTypes
  <2>3. IsRing(cls', ClsCap, Verdicts)
    BY <1>0, <1>3 DEF StoreTypes
  <2>. QED BY <1>4, <2>1, <2>2, <2>3 DEF StoreTypes
<1>18. InNumberOrder'
  <2>1. \A w \in Range(TheLog') : w.seq \in 1..(flowSeq + 1)
    <3>1. \A w \in Range(rest) : w.seq \in 1..flowSeq
      BY <1>0, <1>6
    <3>. QED BY <1>1, <1>2, <1>8, <3>1
  <2>. QED BY <1>3, <1>8, <2>1 DEF InNumberOrder
<1>19. Counted'
  <2>1. flowSeq' = RingLen(flows)' + evicted' + expired'
    <3>1. RingLen(flows)' = Len(TheLog')
      BY <1>4, <1>5, CapsPositive, InOrderFacts
    <3>2. Len(TheLog') = Len(rest) + 1
      BY <1>8
    <3>3. CASE flows.full
      <4>1. rest = Tail(log) /\ log # <<>>
        BY <1>4, <1>61, <3>3
      <4>2. Len(rest) = Len(log) - 1 /\ Len(log) \in Nat
        BY <1>1, <4>1, HeadTailProperties, LenProperties
      <4>3. flowSeq = Len(log) + evicted + expired /\ flowSeq \in Nat /\ evicted \in Nat /\ expired \in Nat
        BY <1>0, <1>1 DEF Counted, StoreTypes
      <4>4. evicted' = evicted + 1 /\ expired' = expired /\ flowSeq' = flowSeq + 1
        BY <1>3, <3>3
      <4>. QED BY <3>1, <3>2, <4>2, <4>3, <4>4
    <3>4. CASE ~ flows.full
      <4>1. rest = log /\ Len(log) \in Nat
        BY <1>1, <1>61, <3>4, LenProperties
      <4>2. flowSeq = Len(log) + evicted + expired /\ flowSeq \in Nat /\ evicted \in Nat /\ expired \in Nat
        BY <1>0, <1>1 DEF Counted, StoreTypes
      <4>3. evicted' = evicted /\ expired' = expired /\ flowSeq' = flowSeq + 1
        BY <1>3, <3>4
      <4>. QED BY <3>1, <3>2, <4>1, <4>2, <4>3
    <3>. QED BY <3>3, <3>4
  <2>2. Unlisted' \subseteq Unlisted \cup Outgrown(h)
    <3> SUFFICES ASSUME NEW w \in Unlisted' PROVE w \in Unlisted \cup Outgrown(h)
      OBVIOUS
    <3>1. w \in Range(TheLog') /\ w \notin Range(hist'[w.rec.id])
      BY DEF Unlisted
    <3>2. w # v
      BY <1>2, <1>14, <1>15, <3>1
    <3>3. w \in Range(log) /\ w \notin Leaving /\ w \in Versions /\ w.rec.id \in Ids
      BY <1>1, <1>6, <1>8, <3>1, <3>2, InRange, VersionsNumbered
    <3>4. CASE w.rec.id = row.id
      <4>1. w \notin Range(hist[row.id]) \/ w \in Outgrown(h)
        BY <1>12, <1>14, <1>15, <3>1, <3>3, <3>4
      <4>. QED BY <3>3, <3>4, <4>1 DEF Unlisted
    <3>5. CASE w.rec.id # row.id
      <4>1. w \notin Range(hist[w.rec.id])
        BY <1>16, <3>1, <3>3, <3>5
      <4>. QED BY <3>3, <4>1 DEF Unlisted
    <3>. QED BY <3>4, <3>5
  <2>3. IsFiniteSet(Unlisted)
    <3>1. IsFiniteSet(Range(log))
      BY <1>0, <1>1, VersionsNumbered, AscendingSize
    <3>. QED BY <3>1, FS_Subset DEF Unlisted
  <2>4. /\ IsFiniteSet(Unlisted \cup Outgrown(h)) /\ Cardinality(Unlisted) \in Nat
        /\ Len(h) >= HistCap => Cardinality(Unlisted \cup Outgrown(h)) <= Cardinality(Unlisted) + 1
        /\ ~ (Len(h) >= HistCap) => Cardinality(Unlisted \cup Outgrown(h)) = Cardinality(Unlisted)
    <3>1. Cardinality(Unlisted) \in Nat
      BY <2>3, FS_CardinalityType
    <3>2. CASE Len(h) >= HistCap
      <4>1. Outgrown(h) = {h[1]}
        BY <3>2 DEF Outgrown
      <4>2. /\ IsFiniteSet(Unlisted \cup {h[1]})
            /\ Cardinality(Unlisted \cup {h[1]})
                  = IF h[1] \in Unlisted THEN Cardinality(Unlisted) ELSE Cardinality(Unlisted) + 1
        BY <2>3, FS_AddElement
      <4>3. Cardinality(Unlisted \cup {h[1]}) <= Cardinality(Unlisted) + 1
        BY <3>1, <4>2
      <4>. QED BY <3>1, <3>2, <4>1, <4>2, <4>3
    <3>3. CASE ~ (Len(h) >= HistCap)
      <4>1. Unlisted \cup Outgrown(h) = Unlisted
        BY <3>3 DEF Outgrown
      <4>. QED BY <2>3, <3>1, <3>3, <4>1
    <3>. QED BY <3>2, <3>3
  <2>5. Cardinality(Unlisted') <= Cardinality(Unlisted \cup Outgrown(h)) /\ Cardinality(Unlisted') \in Nat
    BY <2>2, <2>4, FS_Subset, FS_CardinalityType
  <2>6. dropped' = IF Len(h) >= HistCap THEN dropped + 1 ELSE dropped
    BY <1>3 DEF h
  <2>7. Cardinality(Unlisted) <= dropped /\ dropped \in Nat /\ Cardinality(Unlisted) \in Nat
    BY <1>0, <2>3, FS_CardinalityType DEF Counted, StoreTypes
  <2>8. Cardinality(Unlisted \cup Outgrown(h)) \in Nat
    BY <2>4, FS_CardinalityType
  <2>9. Cardinality(Unlisted') <= dropped'
    BY <2>4, <2>5, <2>6, <2>7, <2>8
  <2>. QED BY <2>1, <2>9 DEF Counted
<1>20. RingAndHistories'
  BY <1>16, <1>17, <1>18, <1>19 DEF RingAndHistories
<1>21. Range(TheLog') = (Range(log) \ Leaving) \cup {v}
  BY <1>6, <1>8
<1>22. Ascending(h)
  BY <1>12 DEF Follows
<1>23. EntersHistory(row.id, v)
  BY <1>2, <1>4, <1>5, <1>7, <1>12, <1>14, <1>15, <1>16, <1>22 DEF EntersHistory
<1>. QED BY <1>2, <1>4, <1>5, <1>7, <1>12, <1>14, <1>15, <1>16, <1>20, <1>21, <1>23 DEF rest

-----------------------------------------------------------------------------
(* The sweep keeps ring and histories in step. *)

\* A flow's versions have rising times, so that a purge takes the oldest of them.
Rises(log) == \A v, w \in Range(log) : v.rec.id = w.rec.id /\ v.seq <= w.seq => v.rec.ts <= w.rec.ts

Since(t) == {v \in Versions : v.rec.ts >= t}

LEMMA FollowsPurged ==
    ASSUME NEW t \in Nat, NEW id,
           NEW log \in Seq(Versions), Rises(log), NEW log2 \in Seq(Versions), Range(log2) = Range(log) \cap Since(t),
           NEW h \in Seq(Versions), Follows(h, log, id),
           NEW h2 \in Seq(Versions), Ascending(h2), Len(h2) <= Len(h), Range(h2) = Range(h) \cap Range(log2)
    PROVE  Follows(h2, log2, id)
<1>1. /\ Len(h) <= HistCap /\ Len(h) \in Nat /\ Len(h2) \in Nat
      /\ \A v \in Range(h) : v \in Range(log) /\ v.rec.id = id
      /\ \A v \in Range(h), w \in Range(log) : w.rec.id = id /\ v.seq <= w.seq => w \in Range(h)
      /\ \A w \in Range(log) : w.rec.id = id => h # <<>>
  BY LenProperties DEF Follows
<1>2. Len(h2) <= HistCap
  BY <1>1, CapsPositive
<1>3. \A v \in Range(h2) : v \in Range(log2) /\ v.rec.id = id
  BY <1>1
<1>4. \A v \in Range(h2), w \in Range(log2) : w.rec.id = id /\ v.seq <= w.seq => w \in Range(h2)
  BY <1>1
<1>5. ASSUME NEW w \in Range(log2), w.rec.id = id PROVE h2 # <<>>
  <2>1. w \in Range(log) /\ w \in Versions /\ w.rec.ts >= t /\ h # <<>>
    BY <1>1, <1>5 DEF Since
  <2>2. PICK v \in Range(h) : TRUE
    BY <2>1, InRange
  <2>3. CASE v.seq <= w.seq
    <3>1. w \in Range(h2)
      BY <1>1, <1>5, <2>1, <2>3
    <3>. QED BY <3>1, InRange
  <2>4. CASE ~ (v.seq <= w.seq)
    <3>1. v \in Range(log) /\ v.rec.id = id /\ v \in Versions
      BY <1>1, InRange
    <3>2. v.seq \in Nat /\ w.seq \in Nat /\ v.rec.ts \in Nat /\ w.rec.ts \in Nat
      BY <2>1, <3>1 DEF Versions, Row
    <3>3. w.seq <= v.seq
      BY <2>4, <3>2
    <3>4. w.rec.ts <= v.rec.ts
      BY <1>5, <2>1, <3>1, <3>3 DEF Rises
    <3>5. v.rec.ts >= t
      BY <2>1, <3>2, <3>4
    <3>6. v \in Range(h2)
      BY <3>1, <3>5 DEF Since
    <3>. QED BY <3>6, InRange
  <2>. QED BY <2>3, <2>4
<1>6. Follows(h2, log2, id)
  BY <1>2, <1>3, <1>4, <1>5 DEF Follows
<1>. QED BY <1>6

VerdictsSince(t) == {v \in Verdicts : v.ts >= t}

LEMMA PurgeFacts ==
    ASSUME RingAndHistories, Rises(TheLog), NEW t \in Nat, NEW u \in Nat, PurgeBefore(t, u)
    PROVE  /\ RingAndHistories'
           /\ Thinned(TheLog, TheLog', Since(t)) /\ TheLog' \in Seq(Versions)
           /\ \A id \in Ids : Range(hist'[id]) = Range(hist[id]) \cap Range(TheLog')
           /\ flowSeq' = flowSeq /\ evicted' = evicted /\ clsEvicted' = clsEvicted
           /\ expired' >= expired /\ clsExpired' >= clsExpired /\ expired' + clsExpired' > 0
           /\ expired' = expired => TheLog' = TheLog
           /\ RingLen(cls') + clsExpired' = RingLen(cls) + clsExpired
<1> DEFINE newest == Collect(flows)
           newestCls == Collect(cls)
           at == {i \in DOMAIN newest : newest[i].rec.ts >= t}
           atCls == {i \in DOMAIN newestCls : newestCls[i].ts >= u}
           live == Kept(newest, at)
           liveCls == Kept(newestCls, atCls)
<1>1. /\ StoreTypes /\ Ascending(TheLog) /\ \A w \in Range(TheLog) : w.seq \in 1..flowSeq
      /\ Counted /\ \A id \in Ids : Follows(hist[id], TheLog, id)
  BY DEF RingAndHistories, InNumberOrder
<1>2. /\ IsRing(flows, Cap, Versions) /\ IsRing(cls, ClsCap, Verdicts)
      /\ hist \in [Ids -> Seq(Versions)]
      /\ flowSeq \in Nat /\ evicted \in Nat /\ expired \in Nat /\ dropped \in Nat
      /\ clsEvicted \in Nat /\ clsExpired \in Nat
      /\ Cap \in Nat \ {0} /\ ClsCap \in Nat \ {0}
  BY <1>1, CapsPositive DEF StoreTypes
<1>3. /\ TheLog = InOrder(flows) /\ TheLog \in Seq(Versions) /\ Len(TheLog) = RingLen(flows)
  BY <1>1, TheLogFacts
<1>4. /\ newest \in Seq(Versions) /\ newestCls \in Seq(Verdicts)
      /\ RingLen(flows) \in Nat /\ RingLen(cls) \in Nat
  BY <1>2, InOrderFacts
<1>5. /\ Len(live) < RingLen(flows) \/ Len(liveCls) < RingLen(cls)
      /\ flows' = (IF Len(live) < RingLen(flows) THEN Relay(flows, live) ELSE flows)
      /\ hist' = (IF Len(live) < RingLen(flows) THEN [id \in Ids |-> Filter(hist[id], live)] ELSE hist)
      /\ expired' = expired + RingLen(flows) - Len(live)
      /\ cls' = (IF Len(liveCls) < RingLen(cls) THEN Relay(cls, liveCls) ELSE cls)
      /\ clsExpired' = clsExpired + RingLen(cls) - Len(liveCls)
      /\ flowSeq' = flowSeq /\ evicted' = evicted /\ dropped' = dropped /\ clsEvicted' = clsEvicted
  BY DEF PurgeBefore
<1>6. at = Places(flows, Since(t))
  <2>1. \A i \in DOMAIN newest : newest[i] \in Versions
    BY <1>4, InRange, ElementOfSeq
  <2>. QED BY <2>1 DEF Since, Places
<1>7. atCls = Places(cls, VerdictsSince(u))
  <2>1. \A i \in DOMAIN newestCls : newestCls[i] \in Verdicts
    BY <1>4, InRange, ElementOfSeq
  <2>. QED BY <2>1 DEF VerdictsSince, Places
<1>8. live = Kept(Collect(flows), Places(flows, Since(t))) /\ liveCls = Kept(Collect(cls), Places(cls, VerdictsSince(u)))
  BY <1>6, <1>7
<1> HIDE DEF at, atCls, live, liveCls, newest, newestCls
<1>9. /\ live \in Seq(Versions) /\ Len(live) <= RingLen(flows) /\ Len(live) \in Nat
      /\ IsRing(Purged(flows, live), Cap, Versions) /\ RingLen(Purged(flows, live)) = Len(live)
      /\ Thinned(InOrder(flows), InOrder(Purged(flows, live)), Since(t))
      /\ Range(live) = Range(InOrder(flows)) \cap Since(t)
  BY ONLY <1>2, <1>8, PurgedFacts
<1>10. /\ liveCls \in Seq(Verdicts) /\ Len(liveCls) <= RingLen(cls) /\ Len(liveCls) \in Nat
       /\ IsRing(Purged(cls, liveCls), ClsCap, Verdicts) /\ RingLen(Purged(cls, liveCls)) = Len(liveCls)
  BY ONLY <1>2, <1>8, PurgedFacts
<1>11. flows' = Purged(flows, live) /\ cls' = Purged(cls, liveCls)
  BY ONLY <1>5 DEF Purged
<1>12. /\ IsRing(flows', Cap, Versions) /\ RingLen(flows') = Len(live)
       /\ IsRing(cls', ClsCap, Verdicts) /\ RingLen(cls') = Len(liveCls)
  BY ONLY <1>9, <1>10, <1>11
<1>13. /\ expired' \in Nat /\ clsExpired' \in Nat /\ expired' >= expired /\ clsExpired' >= clsExpired
       /\ expired' + clsExpired' > 0
       /\ RingLen(cls') + clsExpired' = RingLen(cls) + clsExpired
       /\ RingLen(flows') + expired' = RingLen(flows) + expired
  <2> DEFINE n == RingLen(flows)
             m == Len(live)
             nc == RingLen(cls)
             mc == Len(liveCls)
  <2>1. /\ n \in Nat /\ m \in Nat /\ m <= n /\ nc \in Nat /\ mc \in Nat /\ mc <= nc /\ (m < n \/ mc < nc)
        /\ expired' = expired + n - m /\ clsExpired' = clsExpired + nc - mc
        /\ expired \in Nat /\ clsExpired \in Nat
    BY <1>2, <1>4, <1>5, <1>9, <1>10
  <2>2. RingLen(flows') = m /\ RingLen(cls') = mc
    BY <1>12
  <2> HIDE DEF n, m, nc, mc
  <2>3. /\ expired' \in Nat /\ clsExpired' \in Nat /\ expired' >= expired /\ clsExpired' >= clsExpired
        /\ expired' + clsExpired' > 0
        /\ mc + clsExpired' = nc + clsExpired
        /\ m + expired' = n + expired
    BY ONLY <2>1
  <2>. QED BY <2>2, <2>3 DEF n, nc
<1>14. TheLog' = InOrder(flows')
  BY DEF TheLog, RecentFlows, InOrder
<1>15. Thinned(TheLog, TheLog', Since(t)) /\ TheLog' \in Seq(Versions)
  <2>1. InOrder(flows') \in Seq(Versions)
    BY ONLY <1>2, <1>12, InOrderFacts
  <2>. QED BY ONLY <1>3, <1>9, <1>11, <1>14, <2>1
<1>16. Range(TheLog') = Range(TheLog) \cap Since(t) /\ Ascending(TheLog')
  BY <1>1, <1>3, <1>15, ThinnedFacts
<1>17. Range(live) = Range(TheLog')
  BY <1>3, <1>9, <1>16
<1>18. \A id \in Ids : /\ hist'[id] \in Seq(Versions) /\ Follows(hist'[id], TheLog', id)
                       /\ Range(hist'[id]) = Range(hist[id]) \cap Range(TheLog')
  <2> SUFFICES ASSUME NEW id \in Ids
               PROVE  /\ hist'[id] \in Seq(Versions) /\ Follows(hist'[id], TheLog', id)
                      /\ Range(hist'[id]) = Range(hist[id]) \cap Range(TheLog')
    OBVIOUS
  <2>1. hist[id] \in Seq(Versions) /\ Follows(hist[id], TheLog, id)
    BY <1>1, <1>2
  <2>2. CASE Len(live) < RingLen(flows)
    <3> DEFINE h == hist[id]
               left == {i \in DOMAIN h : h[i] \in Range(live)}
    <3>1. hist'[id] = Kept(h, left)
      BY <1>5, <2>2 DEF Filter
    <3>2. h \in Seq(Versions) /\ Ascending(h) /\ left \in SUBSET (DOMAIN h)
      BY <2>1 DEF Follows
    <3>3. Range(h) = {h[i] : i \in 1..Len(h)} /\ DOMAIN h = 1..Len(h)
      BY <3>2, InRange
    <3>4. {h[i] : i \in left} = Range(h) \cap Range(live)
      BY ONLY <3>3
    <3> HIDE DEF h, left
    <3>5. /\ Kept(h, left) \in Seq(Versions) /\ Ascending(Kept(h, left)) /\ Len(Kept(h, left)) <= Len(h)
          /\ Range(Kept(h, left)) = {h[i] : i \in left}
      BY ONLY <3>2, AscendingKept
    <3>6. Range(Kept(h, left)) = Range(h) \cap Range(TheLog')
      BY ONLY <1>17, <3>4, <3>5
    <3>7. h = hist[id]
      BY DEF h
    <3>8. Follows(Kept(h, left), TheLog', id)
      BY ONLY <1>3, <1>15, <1>16, <2>1, <3>2, <3>5, <3>6, <3>7, Rises(TheLog), t \in Nat, FollowsPurged
    <3>. QED BY ONLY <3>1, <3>5, <3>6, <3>7, <3>8
  <2>3. CASE ~ (Len(live) < RingLen(flows))
    <3>1. hist' = hist /\ TheLog' = TheLog
      BY <1>3, <1>5, <1>14, <2>3
    <3>2. \A v \in Range(hist[id]) : v \in Range(TheLog)
      BY <2>1 DEF Follows
    <3>. QED BY <2>1, <3>1, <3>2
  <2>. QED BY <2>2, <2>3
<1>19. DOMAIN hist' = Ids /\ hist' = [id \in Ids |-> hist'[id]]
  BY <1>2, <1>5
<1>20. StoreTypes'
  <2>1. hist' \in [Ids -> Seq(Versions)]
    BY <1>18, <1>19
  <2>. QED BY <1>2, <1>5, <1>12, <1>13, <2>1 DEF StoreTypes
<1>21. InNumberOrder'
  <2>1. \A w \in Range(TheLog') : w.seq \in 1..flowSeq
    BY <1>1, <1>16
  <2>. QED BY <1>5, <1>16, <2>1 DEF InNumberOrder
<1>22. Counted'
  <2>1. flowSeq = RingLen(flows) + evicted + expired /\ Cardinality(Unlisted) <= dropped
    BY <1>1 DEF Counted
  <2>2. RingLen(flows') \in Nat
    BY <1>9, <1>12
  <2>3. flowSeq' = RingLen(flows') + evicted' + expired'
    <3>1. PICK n \in Nat, m \in Nat : n = RingLen(flows) /\ m = RingLen(flows')
      BY <1>4, <2>2
    <3>2. m + expired' = n + expired /\ flowSeq = n + evicted + expired
      BY ONLY <1>13, <2>1, <3>1
    <3>3. flowSeq = m + evicted + expired'
      <4>1. \A a, b, c, d, e \in Nat : a + d = b + c => b + e + c = a + e + d
        OBVIOUS
      <4>2. expired \in Nat /\ expired' \in Nat /\ evicted \in Nat
        BY <1>2, <1>13
      <4>. QED BY ONLY <3>1, <3>2, <4>1, <4>2
    <3>. QED BY ONLY <1>5, <3>1, <3>3
  <2>4. Unlisted' \subseteq Unlisted
    <3> SUFFICES ASSUME NEW w \in Unlisted' PROVE w \in Unlisted
      OBVIOUS
    <3>1. w \in Range(TheLog') /\ w \notin Range(hist'[w.rec.id])
      BY DEF Unlisted
    <3>2. w \in Range(TheLog) /\ w.rec.id \in Ids
      BY <1>3, <1>16, <3>1, InRange, VersionsNumbered
    <3>3. w \notin Range(hist[w.rec.id])
      BY <1>18, <3>1, <3>2
    <3>. QED BY <3>2, <3>3 DEF Unlisted
  <2>5. IsFiniteSet(Unlisted)
    <3>1. IsFiniteSet(Range(TheLog))
      BY <1>1, <1>3, VersionsNumbered, AscendingSize
    <3>. QED BY <3>1, FS_Subset DEF Unlisted
  <2>6. Cardinality(Unlisted') <= Cardinality(Unlisted) /\ Cardinality(Unlisted') \in Nat /\ Cardinality(Unlisted) \in Nat
    BY <2>4, <2>5, FS_Subset, FS_CardinalityType
  <2>7. Cardinality(Unlisted') <= dropped'
    BY <1>2, <1>5, <2>1, <2>6
  <2>. QED BY <2>3, <2>7 DEF Counted
<1>23. RingAndHistories'
  BY <1>18, <1>20, <1>21, <1>22 DEF RingAndHistories
<1>24. expired' = expired => TheLog' = TheLog
  <2> SUFFICES ASSUME expired' = expired PROVE TheLog' = TheLog
    OBVIOUS
  <2>1. ~ (Len(live) < RingLen(flows))
    <3> DEFINE n == RingLen(flows)
               m == Len(live)
    <3>1. n \in Nat /\ m \in Nat /\ expired = expired + n - m /\ expired \in Nat
      BY <1>2, <1>4, <1>5, <1>9
    <3> HIDE DEF n, m
    <3>2. ~ (m < n)
      BY ONLY <3>1
    <3>. QED BY <3>2 DEF n, m
  <2>2. flows' = flows
    BY <1>5, <2>1
  <2>. QED BY <1>3, <1>14, <2>2
<1>. QED BY <1>5, <1>13, <1>15, <1>18, <1>23, <1>24

-----------------------------------------------------------------------------
(* The stream of rows when rows are stored, purged or added. *)

LEMMA JoinedFacts ==
    ASSUME NEW log \in Seq(Versions), NEW rows \in Seq(Row)
    PROVE  /\ Joined(log, rows) \in Seq(Row) /\ Len(Joined(log, rows)) = Len(log) + Len(rows)
           /\ Len(log) \in Nat /\ Len(rows) \in Nat
           /\ \A i \in 1..(Len(log) + Len(rows)) :
                 Joined(log, rows)[i] = IF i <= Len(log) THEN log[i].rec ELSE rows[i - Len(log)]
           /\ \A i \in 1..Len(log) : Joined(log, rows)[i] = log[i].rec
           /\ \A k \in 1..Len(rows) : Joined(log, rows)[Len(log) + k] = rows[k]
<1> DEFINE n == Len(log)
           m == Len(rows)
           s == Joined(log, rows)
<1>1. /\ n \in Nat /\ m \in Nat /\ \A i \in 1..n : log[i] \in Versions
      /\ \A k \in 1..m : rows[k] \in Row
  BY LenProperties, ElementOfSeq
<1>2. s = [i \in 1..(n + m) |-> IF i <= n THEN log[i].rec ELSE rows[i - n]]
  BY DEF Joined
<1> HIDE DEF n, m, s
<1>3. \A i \in 1..(n + m) : i <= n => i \in 1..n
  BY <1>1
<1>4. \A i \in 1..(n + m) : ~ (i <= n) => i - n \in 1..m
  BY <1>1
<1>5. \A i \in 1..(n + m) : (IF i <= n THEN log[i].rec ELSE rows[i - n]) \in Row
  BY <1>1, <1>3, <1>4, VersionsNumbered
<1>6. s \in [1..(n + m) -> Row] /\ \A i \in 1..(n + m) : s[i] = IF i <= n THEN log[i].rec ELSE rows[i - n]
  BY <1>2, <1>5
<1>7. n + m \in Nat
  BY <1>1
<1>8. s \in Seq(Row) /\ Len(s) = n + m
  BY <1>6, <1>7, IsASeq, LenProperties
<1>9. \A i \in 1..n : s[i] = log[i].rec
  BY <1>1, <1>6
<1>10. \A k \in 1..m : s[n + k] = rows[k]
  <2> SUFFICES ASSUME NEW k \in 1..m PROVE s[n + k] = rows[k]
    OBVIOUS
  <2>1. n + k \in 1..(n + m) /\ ~ (n + k <= n) /\ (n + k) - n = k
    BY <1>1
  <2>2. s[n + k] = rows[(n + k) - n]
    BY ONLY <1>6, <2>1
  <2>. QED BY ONLY <2>1, <2>2
<1>. QED BY <1>1, <1>6, <1>8, <1>9, <1>10 DEF n, m, s

\* t is s without some of its rows.
Within(t, s) ==
    \E back \in [1..Len(t) -> 1..Len(s)] :
        /\ \A i, j \in 1..Len(t) : i < j => back[i] < back[j]
        /\ \A i \in 1..Len(t) : t[i] = s[back[i]]

LEMMA WithinOrderly ==
    ASSUME NEW s, NEW t, Within(t, s), NEW tbl, NEW next, NEW handled, Orderly(s, tbl, next, handled)
    PROVE  Orderly(t, tbl, next, handled)
<1>1. PICK back \in [1..Len(t) -> 1..Len(s)] :
        /\ \A i, j \in 1..Len(t) : i < j => back[i] < back[j]
        /\ \A i \in 1..Len(t) : t[i] = s[back[i]]
  BY DEF Within
<1>2. \A i \in 1..Len(t) : back[i] \in 1..Len(s)
  BY <1>1
<1>3. \A i \in 1..Len(t) : t[i].id \in 1..(next - 1) /\ t[i].from <= handled
  BY <1>1, <1>2 DEF Orderly
<1>4. InTurn(t)
  <2> SUFFICES ASSUME NEW i \in 1..Len(t), NEW j \in 1..Len(t), i < j, t[i].id = t[j].id
               PROVE  Earlier(t[i], t[j])
    BY DEF InTurn
  <2>. QED BY <1>1, <1>2 DEF Orderly, InTurn
<1>5. Behind(t, tbl)
  <2> SUFFICES ASSUME NEW c \in DOMAIN tbl, NEW i \in 1..Len(t), t[i].id = tbl[c].id
               PROVE  Earlier(t[i], TableRow(c, tbl[c], FALSE))
    BY DEF Behind
  <2>. QED BY <1>1, <1>2 DEF Orderly, Behind
<1>6. FromsRise(t)
  <2> SUFFICES ASSUME NEW i \in 1..Len(t), NEW j \in 1..Len(t), i < j, t[j].from > 0
               PROVE  t[i].from < t[j].from
    BY DEF FromsRise
  <2>. QED BY <1>1, <1>2 DEF Orderly, FromsRise
<1>. QED BY <1>3, <1>4, <1>5, <1>6 DEF Orderly

LEMMA PurgedStream ==
    ASSUME NEW log \in Seq(Versions), NEW log2 \in Seq(Versions), NEW K, Thinned(log, log2, K), NEW rows \in Seq(Row)
    PROVE  Within(Joined(log2, rows), Joined(log, rows))
<1> DEFINE n == Len(log)
           n2 == Len(log2)
           m == Len(rows)
           s == Joined(log, rows)
           t == Joined(log2, rows)
<1>1. PICK f \in [1..n2 -> 1..n] :
        /\ \A i, j \in 1..n2 : i < j => f[i] < f[j]
        /\ \A i \in 1..n2 : log2[i] = log[f[i]]
  BY DEF Thinned
<1>2. /\ n \in Nat /\ m \in Nat /\ Len(s) = n + m
      /\ \A i \in 1..n : s[i] = log[i].rec
      /\ \A k \in 1..m : s[n + k] = rows[k]
  BY JoinedFacts
<1>3. /\ n2 \in Nat /\ Len(t) = n2 + m
      /\ \A i \in 1..n2 : t[i] = log2[i].rec
      /\ \A k \in 1..m : t[n2 + k] = rows[k]
  BY JoinedFacts
<1> HIDE DEF n, n2, m, s, t
<1> DEFINE back == [i \in 1..(n2 + m) |-> IF i <= n2 THEN f[i] ELSE i - n2 + n]
<1>4. \A i \in 1..n2 : f[i] \in 1..n /\ f[i] \in Int
  BY <1>1, <1>2
<1>5. \A i \in 1..(n2 + m) : (i <= n2 => i \in 1..n2) /\ (~ (i <= n2) => i - n2 \in 1..m /\ i - n2 + n \in 1..(n + m))
  BY <1>2, <1>3
<1>6. \A i \in 1..(n2 + m) : /\ i <= n2 => back[i] = f[i]
                             /\ ~ (i <= n2) => back[i] = i - n2 + n
  OBVIOUS
<1>7. \A i \in 1..n : i \in 1..(n + m)
  BY <1>2
<1>8. back \in [1..(n2 + m) -> 1..(n + m)]
  BY <1>4, <1>5, <1>7
<1> HIDE DEF back
<1>9. ASSUME NEW i \in 1..(n2 + m), NEW j \in 1..(n2 + m), i < j PROVE back[i] < back[j]
  <2>1. CASE j <= n2
    <3>1. i <= n2 /\ i \in 1..n2 /\ j \in 1..n2
      BY <1>3, <1>5, <1>9, <2>1
    <3>. QED BY <1>1, <1>6, <1>9, <2>1, <3>1
  <2>2. CASE ~ (j <= n2) /\ i <= n2
    <3>1. back[i] = f[i] /\ f[i] \in 1..n /\ back[j] = j - n2 + n
      BY <1>4, <1>5, <1>6, <2>2
    <3>. QED BY <1>2, <1>3, <2>2, <3>1
  <2>3. CASE ~ (j <= n2) /\ ~ (i <= n2)
    <3>1. back[i] = i - n2 + n /\ back[j] = j - n2 + n
      BY <1>6, <2>3
    <3>. QED BY <1>2, <1>3, <1>9, <3>1
  <2>. QED BY <2>1, <2>2, <2>3
<1>10. ASSUME NEW i \in 1..(n2 + m) PROVE t[i] = s[back[i]]
  <2>1. CASE i <= n2
    <3>1. back[i] = f[i] /\ f[i] \in 1..n /\ i \in 1..n2
      BY <1>4, <1>5, <1>6, <2>1
    <3>2. t[i] = log2[i].rec
      BY ONLY <1>3, <3>1
    <3>3. s[f[i]] = log[f[i]].rec
      BY ONLY <1>2, <3>1
    <3>4. log2[i] = log[f[i]]
      BY ONLY <1>1, <3>1
    <3>. QED BY ONLY <3>1, <3>2, <3>3, <3>4
  <2>2. CASE ~ (i <= n2)
    <3>1. PICK k \in 1..m : k = i - n2
      BY <1>5, <2>2
    <3>2. i = n2 + k /\ back[i] = n + k
      BY <1>2, <1>3, <1>6, <2>2, <3>1
    <3>. QED BY <1>2, <1>3, <3>2
  <2>. QED BY <2>1, <2>2
<1>11. Within(t, s)
  BY <1>2, <1>3, <1>8, <1>9, <1>10 DEF Within
<1>. QED BY <1>11 DEF s, t

\* The first row on its way becomes the last of the log, which may lose its own first.
LEMMA StoredStream ==
    ASSUME NEW log \in Seq(Versions), NEW rows \in Seq(Row), rows # <<>>,
           NEW v \in Versions, v.rec = Head(rows),
           NEW rest, rest = log \/ (log # <<>> /\ rest = Tail(log))
    PROVE  /\ Within(Joined(Append(rest, v), Tail(rows)), Joined(log, rows))
           /\ rest = log => Joined(Append(rest, v), Tail(rows)) = Joined(log, rows)
<1> DEFINE log2 == Append(rest, v)
           n == Len(log)
           n2 == Len(log2)
           m == Len(rows)
           d == IF rest = log THEN 0 ELSE 1
           s == Joined(log, rows)
           t == Joined(log2, Tail(rows))
<1>1. /\ Tail(rows) \in Seq(Row) /\ Len(Tail(rows)) = m - 1 /\ Head(rows) = rows[1]
      /\ \A k \in 1..Len(Tail(rows)) : Tail(rows)[k] = rows[k + 1]
  BY HeadTailProperties
<1>2. m \in Nat \ {0} /\ n \in Nat
  BY LenProperties, EmptySeq
<1>3. d \in {0, 1} /\ rest \in Seq(Versions) /\ Len(rest) = n - d /\ \A i \in 1..Len(rest) : rest[i] = log[i + d]
  <2>1. CASE rest = log
    BY <1>2, <2>1
  <2>2. CASE rest # log
    <3>1. log # <<>> /\ rest = Tail(log)
      BY <2>2
    <3>2. /\ Tail(log) \in Seq(Versions) /\ Len(Tail(log)) = Len(log) - 1
          /\ \A i \in 1..Len(Tail(log)) : Tail(log)[i] = log[i + 1]
      BY <3>1, HeadTailProperties
    <3>. QED BY <2>2, <3>1, <3>2
  <2>. QED BY <2>1, <2>2
<1>4. d = 0 <=> rest = log
  OBVIOUS
<1> HIDE DEF d
<1>5. Len(rest) \in Nat
  BY <1>3, LenProperties
<1>6. /\ log2 \in Seq(Versions) /\ n2 = n - d + 1 /\ log2[n2] = v
      /\ \A i \in 1..(n - d) : log2[i] = log[i + d]
  <2>1. /\ log2 \in Seq(Versions) /\ Len(log2) = Len(rest) + 1 /\ log2[Len(rest) + 1] = v
        /\ \A i \in 1..Len(rest) : log2[i] = rest[i]
    BY <1>3, AppendProperties
  <2> HIDE DEF log2
  <2>. QED BY <1>3, <2>1
<1> HIDE DEF log2
<1>7. /\ Len(s) = n + m
      /\ \A i \in 1..n : s[i] = log[i].rec
      /\ \A k \in 1..m : s[n + k] = rows[k]
  BY JoinedFacts
<1>8. /\ t \in Seq(Row) /\ Len(t) = n2 + (m - 1)
      /\ \A i \in 1..n2 : t[i] = log2[i].rec
      /\ \A k \in 1..(m - 1) : t[n2 + k] = rows[k + 1]
  <2> DEFINE tl == Tail(rows)
  <2>1. tl \in Seq(Row) /\ Len(tl) = m - 1 /\ \A k \in 1..(m - 1) : tl[k] = rows[k + 1]
    BY <1>1
  <2> HIDE DEF tl
  <2>2. /\ Joined(log2, tl) \in Seq(Row) /\ Len(Joined(log2, tl)) = n2 + Len(tl)
        /\ \A i \in 1..n2 : Joined(log2, tl)[i] = log2[i].rec
        /\ \A k \in 1..Len(tl) : Joined(log2, tl)[n2 + k] = tl[k]
    BY <1>6, <2>1, JoinedFacts
  <2>3. t = Joined(log2, tl)
    BY DEF tl
  <2> HIDE DEF t
  <2>. QED BY <2>1, <2>2, <2>3
<1> HIDE DEF n, n2, m, s, t
<1>9. Len(t) = n + m - d /\ n - d \in Nat /\ n + m \in Nat
  BY <1>2, <1>3, <1>5, <1>6, <1>8
<1>10. \A i \in 1..(n + m - d) : i + d \in 1..(n + m)
  BY <1>2, <1>3
<1>11. ASSUME NEW i \in 1..(n + m - d) PROVE t[i] = s[i + d]
  <2>1. CASE i <= n - d
    <3>1. i \in 1..(n - d) /\ i \in 1..n2 /\ i + d \in 1..n
      BY <1>2, <1>3, <1>6, <1>9, <2>1
    <3>. QED BY <1>6, <1>7, <1>8, <3>1
  <2>2. CASE i = n - d + 1
    <3>1. i = n2 /\ i + d = n + 1 /\ 1 \in 1..m /\ n2 \in 1..n2
      BY <1>2, <1>3, <1>6, <1>9, <2>2
    <3>2. s[n + 1] = rows[1]
      BY <1>7, <3>1
    <3>. QED BY <1>1, <1>6, <1>8, <3>1, <3>2
  <2>3. CASE i > n - d + 1
    <3>1. PICK k \in 1..(m - 1) : i = n2 + k /\ i + d = n + (k + 1) /\ k + 1 \in 1..m
      <4>1. i - n2 \in 1..(m - 1) /\ i = n2 + (i - n2) /\ i + d = n + (i - n2 + 1) /\ i - n2 + 1 \in 1..m
        BY <1>2, <1>3, <1>6, <1>9, <2>3
      <4>. QED BY <4>1
    <3>2. t[i] = rows[k + 1] /\ s[i + d] = rows[k + 1]
      BY <1>7, <1>8, <3>1
    <3>. QED BY <3>2
  <2>. QED BY <1>3, <1>9, <2>1, <2>2, <2>3
<1> DEFINE back == [i \in 1..(n + m - d) |-> i + d]
<1>12. back \in [1..(n + m - d) -> 1..(n + m)] /\ \A i \in 1..(n + m - d) : back[i] = i + d
  BY <1>10
<1> HIDE DEF back
<1>13. \A i, j \in 1..(n + m - d) : i < j => back[i] < back[j]
  BY <1>3, <1>12
<1>14. \A i \in 1..(n + m - d) : t[i] = s[back[i]]
  BY <1>11, <1>12
<1>15. Within(t, s)
  BY <1>7, <1>9, <1>12, <1>13, <1>14 DEF Within
<1>16. rest = log => t = s
  <2> SUFFICES ASSUME rest = log PROVE t = s
    OBVIOUS
  <2>1. d = 0
    BY <1>4
  <2>2. s \in Seq(Row)
    BY JoinedFacts DEF s
  <2>3. Len(t) = Len(s) /\ Len(s) \in Nat /\ \A i \in 1..Len(s) : t[i] = s[i]
    BY <1>2, <1>7, <1>9, <1>11, <2>1
  <2>. QED BY <1>8, <2>2, <2>3, SeqEqual
<1>. QED BY <1>15, <1>16 DEF s, t, log2

-----------------------------------------------------------------------------
(* What the invariant says, taken apart. *)

Records == [number : Nat, mode : {"flow", "neither"}, conv : Convs, ts : Nat, terminal : BOOLEAN, bytes : Nat]

LEMMA SetupFacts ==
    ASSUME PipeTypes
    PROVE  /\ setup.feed \in Seq(Records) /\ Len(setup.feed) \in Nat
           /\ \A k \in 1..Len(setup.feed) : setup.feed[k] \in Records /\ setup.feed[k].number = k
           /\ setup.packets \in Nat /\ setup.convs \subseteq Convs
           /\ 1..(setup.packets + Len(setup.feed)) \subseteq Ids
           /\ Len(records) \in Nat /\ Handled \in Nat /\ Handled + Len(records) = sent
<1>1. /\ setup.feed \in Seq(Records)
      /\ \A k \in DOMAIN setup.feed : setup.feed[k].number = k
      /\ setup.packets \in Nat /\ setup.convs \subseteq Convs
      /\ 1..(setup.packets + Len(setup.feed)) \subseteq Ids
  BY SetupsAssumption DEF PipeTypes, Records, Convs
<1>2. /\ Len(setup.feed) \in Nat /\ DOMAIN setup.feed = 1..Len(setup.feed)
      /\ \A k \in 1..Len(setup.feed) : setup.feed[k] \in Records
  BY <1>1, LenProperties, ElementOfSeq
<1>3. sent \in Nat /\ Len(records) \in Nat /\ Len(records) <= sent
  BY LenProperties DEF PipeTypes
<1>4. Handled \in Nat /\ Handled + Len(records) = sent
  BY <1>3 DEF Handled
<1>. QED BY <1>1, <1>2, <1>3, <1>4

LEMMA StreamFacts ==
    ASSUME RecordInv
    PROVE  /\ TheLog \in Seq(Versions) /\ Pending \in Seq(Row) /\ todo \in Seq(Row)
           /\ Stream \in Seq(Row) /\ Len(Stream) = Len(TheLog) + Len(Pending)
           /\ Len(TheLog) \in Nat /\ Len(Pending) \in Nat
           /\ \A i \in 1..Len(TheLog) : Stream[i] = TheLog[i].rec
           /\ \A k \in 1..Len(Pending) : Stream[Len(TheLog) + k] = Pending[k]
           /\ Rises(TheLog)
<1>1. TheLog \in Seq(Versions) /\ Ascending(TheLog)
  BY TheLogFacts DEF RecordInv, RingAndHistories, InNumberOrder
<1>2. todo \in Seq(Row) /\ (stage # "store" => todo # <<>>)
  BY DEF RecordInv, PipeTypes
<1>3. Pending \in Seq(Row)
  BY <1>2, HeadTailProperties DEF Pending
<1>4. /\ Stream \in Seq(Row) /\ Len(Stream) = Len(TheLog) + Len(Pending)
      /\ Len(TheLog) \in Nat /\ Len(Pending) \in Nat
      /\ \A i \in 1..Len(TheLog) : Stream[i] = TheLog[i].rec
      /\ \A k \in 1..Len(Pending) : Stream[Len(TheLog) + k] = Pending[k]
  BY ONLY <1>1, <1>3, JoinedFacts DEF Stream
<1>5. InTurn(Stream)
  BY DEF RecordInv, FlowsApart, Orderly
<1>6. ASSUME NEW v \in Range(TheLog), NEW w \in Range(TheLog), v.rec.id = w.rec.id, v.seq <= w.seq
      PROVE  v.rec.ts <= w.rec.ts
  <2>1. PICK i \in 1..Len(TheLog), j \in 1..Len(TheLog) : v = TheLog[i] /\ w = TheLog[j]
    BY <1>1, InRange
  <2>2. v \in Versions /\ w \in Versions /\ v.seq \in Nat /\ w.seq \in Nat /\ v.rec.ts \in Nat
    <3>1. v \in Versions /\ w \in Versions
      BY <1>1, InRange
    <3>2. v.rec \in Row /\ v.seq \in Nat /\ w.seq \in Nat
      BY ONLY <3>1 DEF Versions
    <3>. QED BY ONLY <3>1, <3>2 DEF Row
  <2>3. ~ (j < i)
    BY <1>1, <1>6, <2>1, <2>2 DEF Ascending
  <2>4. CASE i = j
    BY <2>1, <2>2, <2>4
  <2>5. CASE i < j
    <3>1. i \in 1..Len(Stream) /\ j \in 1..Len(Stream) /\ Stream[i] = v.rec /\ Stream[j] = w.rec
      BY <1>4, <2>1
    <3>2. Earlier(Stream[i], Stream[j])
      BY <1>5, <1>6, <2>5, <3>1 DEF InTurn
    <3>. QED BY <3>1, <3>2 DEF Earlier
  <2>. QED BY <1>4, <2>3, <2>4, <2>5
<1>7. Rises(TheLog)
  BY <1>6 DEF Rises
<1>. QED BY <1>1, <1>2, <1>3, <1>4, <1>7

\* Steps that leave the store alone.
LEMMA StoreStill ==
    ASSUME RingAndHistories, UNCHANGED storeVars
    PROVE  /\ RingAndHistories' /\ TheLog' = TheLog /\ clsGone' = clsGone
           /\ RingLen(cls)' = RingLen(cls) /\ InOrder(cls)' = InOrder(cls)
<1>1. /\ flows' = flows /\ hist' = hist /\ flowSeq' = flowSeq /\ cls' = cls
      /\ evicted' = evicted /\ expired' = expired /\ dropped' = dropped
      /\ clsEvicted' = clsEvicted /\ clsExpired' = clsExpired
  BY DEF storeVars
<1>2. TheLog' = TheLog
  BY <1>1 DEF TheLog, RecentFlows
<1>3. StoreTypes'
  BY <1>1 DEF RingAndHistories, StoreTypes
<1>4. InNumberOrder'
  BY <1>1, <1>2 DEF RingAndHistories, InNumberOrder
<1>5. Unlisted' = Unlisted
  BY <1>1, <1>2 DEF Unlisted
<1>6. Counted'
  BY <1>1, <1>5 DEF RingAndHistories, Counted
<1>7. \A id \in Ids : Follows(hist[id], TheLog, id)'
  BY <1>1, <1>2 DEF RingAndHistories, Follows
<1>8. clsGone' = clsGone /\ RingLen(cls)' = RingLen(cls) /\ InOrder(cls)' = InOrder(cls)
  BY <1>1 DEF clsGone
<1>. QED BY <1>2, <1>3, <1>4, <1>6, <1>7, <1>8 DEF RingAndHistories

pipelineState == <<setup, records, sent, todo, stage, table, clock, packets, nextId, rejected>>

LEMMA AllStill ==
    ASSUME RecordInv, UNCHANGED storeVars, UNCHANGED pipelineState
    PROVE  RecordInv'
<1>1. /\ RingAndHistories' /\ TheLog' = TheLog /\ clsGone' = clsGone
      /\ RingLen(cls)' = RingLen(cls) /\ InOrder(cls)' = InOrder(cls)
      /\ flowSeq' = flowSeq /\ evicted' = evicted /\ expired' = expired
  BY StoreStill DEF RecordInv, storeVars
<1>2. /\ setup' = setup /\ records' = records /\ sent' = sent /\ todo' = todo /\ stage' = stage
      /\ table' = table /\ clock' = clock /\ packets' = packets /\ nextId' = nextId /\ rejected' = rejected
  BY DEF pipelineState
<1>3. Handled' = Handled /\ Pending' = Pending
  BY <1>2 DEF Handled, Pending
<1>4. Stream' = Stream
  BY <1>1, <1>3 DEF Stream
<1>5. PipeTypes'
  BY <1>2, <1>3 DEF RecordInv, PipeTypes
<1>6. FlowsApart'
  BY <1>2, <1>3, <1>4 DEF RecordInv, FlowsApart
<1>7. VerdictsFollow'
  BY <1>1, <1>2 DEF RecordInv, VerdictsFollow
<1>8. RecordsOnce'
  BY <1>1, <1>2, <1>3, <1>4 DEF RecordInv, RecordsOnce, Neither
<1>. QED BY <1>1, <1>5, <1>6, <1>7, <1>8 DEF RecordInv

-----------------------------------------------------------------------------
(* One step of each kind keeps the invariant. *)

LEMMA InitRecord ==
    ASSUME Init
    PROVE  RecordInv
<1>1. /\ flows = Empty(Cap) /\ hist = [id \in Ids |-> <<>>] /\ flowSeq = 0 /\ cls = Empty(ClsCap)
      /\ evicted = 0 /\ expired = 0 /\ dropped = 0 /\ clsEvicted = 0 /\ clsExpired = 0
      /\ setup \in Setups /\ records = <<>> /\ sent = 0 /\ todo = <<>> /\ stage = "store"
      /\ table = <<>> /\ clock = FirstTime /\ packets = 0 /\ nextId = 1 /\ rejected = 0
  BY DEF Init, StoreInit
<1>2. /\ IsRing(flows, Cap, Versions) /\ InOrder(flows) = <<>> /\ RingLen(flows) = 0
      /\ IsRing(cls, ClsCap, Verdicts) /\ InOrder(cls) = <<>> /\ RingLen(cls) = 0
  BY <1>1, EmptyFacts, CapsPositive
<1>3. TheLog = <<>>
  BY <1>2 DEF TheLog, RecentFlows, InOrder
<1>4. <<>> \in Seq(Versions) /\ <<>> \in Seq(Row) /\ <<>> \in Seq(Range(setup.feed)) /\ Len(<<>>) = 0
  BY EmptySeq
<1>5. Range(TheLog) = {}
  BY <1>3, <1>4, InRange
<1>6. StoreTypes
  BY <1>1, <1>2, <1>4 DEF StoreTypes
<1>7. InNumberOrder
  BY <1>3, <1>4, <1>5 DEF InNumberOrder, Ascending
<1>8. Counted
  <2>1. Unlisted = {}
    BY <1>5 DEF Unlisted
  <2>2. Cardinality(Unlisted) = 0
    BY <2>1, FS_EmptySet
  <2>. QED BY <1>1, <1>2, <2>2 DEF Counted
<1>9. \A id \in Ids : Follows(hist[id], TheLog, id)
  <2> SUFFICES ASSUME NEW id \in Ids PROVE Follows(hist[id], TheLog, id)
    OBVIOUS
  <2>1. hist[id] = <<>> /\ Range(hist[id]) = {}
    BY <1>1, <1>3, <1>5
  <2>2. Len(hist[id]) = 0
    BY <1>4, <2>1
  <2>. QED BY <1>5, <2>1, <2>2, CapsPositive DEF Follows, Ascending
<1>10. Handled = 0 /\ Pending = <<>>
  <2>1. Len(records) = 0 /\ sent = 0
    BY <1>1, <1>4
  <2>2. Handled = 0
    BY ONLY <2>1 DEF Handled
  <2>. QED BY <1>1, <2>2 DEF Pending
<1>11. PipeTypes
  <2>1. Len(setup.feed) \in Nat /\ setup.packets \in Nat /\ FirstTime \in Nat
    BY <1>1, SetupsAssumption, LenProperties
  <2>2. OpenTypes(table, nextId, clock)
    <3>1. <<>> \in Seq(OpenFlows) /\ DOMAIN <<>> = {}
      BY EmptySeq
    <3>2. <<>> \in [DOMAIN <<>> -> OpenFlows]
      <4>1. <<>> \in [1..Len(<<>>) -> OpenFlows] /\ 1..Len(<<>>) = DOMAIN <<>>
        BY ONLY <3>1, LenProperties
      <4>. QED BY ONLY <4>1
    <3>. QED BY ONLY <1>1, <3>1, <3>2 DEF OpenTypes
  <2>. QED BY <1>1, <1>4, <1>10, <2>1, <2>2 DEF PipeTypes
<1>12. Len(Stream) = 0 /\ Len(Stream) = RingLen(cls)
  <2>1. Len(Joined(<<>>, <<>>)) = 0 + 0
    BY <1>4, JoinedFacts
  <2>. QED BY <1>2, <1>3, <1>10, <2>1 DEF Stream
<1>13. FlowsApart
  BY <1>1, <1>12 DEF FlowsApart, OwnIds, Orderly, InTurn, Behind, FromsRise
<1>14. VerdictsFollow
  BY <1>1, <1>2 DEF VerdictsFollow, clsGone
<1>15. RecordsOnce
  <2>1. {k \in 1..Handled : Neither(k)} = {}
    BY <1>10
  <2>2. Cardinality({k \in 1..Handled : Neither(k)}) = 0
    BY <2>1, FS_EmptySet
  <2>3. Len(todo) = 0
    BY <1>1, <1>4
  <2>. QED BY <1>1, <1>10, <2>2, <2>3 DEF RecordsOnce
<1>. QED BY <1>6, <1>7, <1>8, <1>9, <1>11, <1>13, <1>14, <1>15 DEF RecordInv, RingAndHistories

LEMMA SensorsRecord ==
    ASSUME RecordInv, Sensors
    PROVE  RecordInv'
<1>1. /\ sent < Len(setup.feed) /\ records' = Append(records, setup.feed[sent + 1]) /\ sent' = sent + 1
      /\ setup' = setup /\ todo' = todo /\ stage' = stage
      /\ table' = table /\ clock' = clock /\ packets' = packets /\ nextId' = nextId /\ rejected' = rejected
  BY DEF Sensors, work, flowTable, beside
<1>2. /\ RingAndHistories' /\ TheLog' = TheLog /\ clsGone' = clsGone
      /\ RingLen(cls)' = RingLen(cls) /\ InOrder(cls)' = InOrder(cls)
      /\ flowSeq' = flowSeq /\ evicted' = evicted /\ expired' = expired
  BY StoreStill DEF RecordInv, storeVars, Sensors
<1>3. /\ Len(setup.feed) \in Nat /\ Len(records) \in Nat /\ Handled \in Nat /\ Handled + Len(records) = sent
      /\ setup.feed \in Seq(Records)
  BY SetupFacts DEF RecordInv
<1>4. PipeTypes
  BY DEF RecordInv
<1>5. /\ sent \in Nat /\ records \in Seq(Range(setup.feed))
      /\ \A i \in 1..Len(records) : records[i] = setup.feed[Handled + i]
  BY <1>4 DEF PipeTypes
<1>6. setup.feed[sent + 1] \in Range(setup.feed)
  <2>1. sent + 1 \in 1..Len(setup.feed)
    BY <1>1, <1>3, <1>5
  <2>. QED BY <1>3, <2>1, InRange
<1>7. /\ records' \in Seq(Range(setup.feed)) /\ Len(records') = Len(records) + 1
      /\ records'[Len(records) + 1] = setup.feed[sent + 1]
      /\ \A i \in 1..Len(records) : records'[i] = records[i]
  BY <1>1, <1>5, <1>6, AppendProperties
<1>8. Handled' = Handled
  BY <1>1, <1>3, <1>5, <1>7 DEF Handled
<1>9. \A i \in 1..Len(records') : records'[i] = setup.feed[Handled + i]
  <2> SUFFICES ASSUME NEW i \in 1..Len(records') PROVE records'[i] = setup.feed[Handled + i]
    OBVIOUS
  <2>1. CASE i \in 1..Len(records)
    BY <1>5, <1>7, <2>1
  <2>2. CASE i = Len(records) + 1
    <3>1. Handled + i = sent + 1
      BY <1>3, <2>2
    <3>. QED BY <1>7, <2>2, <3>1
  <2>. QED BY <1>3, <1>7, <2>1, <2>2
<1>10. PipeTypes'
  <2>1. sent' \in Nat /\ sent' <= Len(setup.feed) /\ Len(records') <= sent'
    BY <1>1, <1>3, <1>5, <1>7, <1>8
  <2>. QED BY <1>1, <1>4, <1>7, <1>8, <1>9, <2>1 DEF PipeTypes
<1>11. Stream' = Stream
  BY <1>1, <1>2 DEF Stream, Pending
<1>12. FlowsApart'
  BY <1>1, <1>8, <1>11 DEF RecordInv, FlowsApart
<1>13. VerdictsFollow'
  BY <1>1, <1>2 DEF RecordInv, VerdictsFollow
<1>14. RecordsOnce'
  BY <1>1, <1>2, <1>8, <1>11 DEF RecordInv, RecordsOnce, Neither
<1>. QED BY <1>2, <1>10, <1>12, <1>13, <1>14 DEF RecordInv

LEMMA StoreRowRecord ==
    ASSUME RecordInv, StoreRow
    PROVE  RecordInv'
<1>1. /\ todo # <<>> /\ stage = "store" /\ stage' = "score" /\ PutFlow(Head(todo))
      /\ setup' = setup /\ records' = records /\ sent' = sent /\ todo' = todo
      /\ table' = table /\ clock' = clock /\ packets' = packets /\ nextId' = nextId /\ rejected' = rejected
  BY DEF StoreRow, inputs, flowTable, beside
<1>2. /\ TheLog \in Seq(Versions) /\ todo \in Seq(Row) /\ Len(TheLog) \in Nat
  BY StreamFacts
<1>3. PICK row \in Row : row = Head(todo)
  BY <1>1, <1>2, HeadTailProperties
<1>4. PICK v : v = [seq |-> flowSeq + 1, rec |-> row]
  OBVIOUS
<1>5. RingAndHistories /\ PutFlow(row)
  BY <1>1, <1>3 DEF RecordInv
<1>6. /\ RingAndHistories' /\ v \in Versions
      /\ flows.full => TheLog # <<>>
      /\ TheLog' = Append(IF flows.full THEN Tail(TheLog) ELSE TheLog, v)
  BY ONLY <1>3, <1>4, <1>5, PutFacts
<1>7. /\ evicted' = (IF flows.full THEN evicted + 1 ELSE evicted) /\ flowSeq' = flowSeq + 1
      /\ cls' = cls /\ expired' = expired /\ clsEvicted' = clsEvicted /\ clsExpired' = clsExpired
  BY <1>5 DEF PutFlow
<1>8. /\ flowSeq \in Nat /\ evicted \in Nat /\ expired \in Nat /\ clsEvicted \in Nat /\ clsExpired \in Nat
      /\ flowSeq = RingLen(flows) + evicted + expired /\ Len(TheLog) = RingLen(flows)
  BY <1>5, TheLogFacts DEF RingAndHistories, StoreTypes, Counted
<1>9. Handled' = Handled /\ Pending = todo /\ Pending' = Tail(todo)
  BY <1>1 DEF Handled, Pending
<1>10. v.rec = Head(todo)
  BY <1>3, <1>4
<1> DEFINE rest == IF flows.full THEN Tail(TheLog) ELSE TheLog
<1>11. (rest = TheLog \/ (TheLog # <<>> /\ rest = Tail(TheLog))) /\ (~ flows.full => rest = TheLog)
  BY <1>6
<1>12. Stream = Joined(TheLog, todo) /\ Stream' = Joined(Append(rest, v), Tail(todo))
  BY <1>6, <1>9 DEF Stream
<1> HIDE DEF rest
<1>13. Within(Stream', Stream) /\ (rest = TheLog => Stream' = Stream)
  BY ONLY <1>1, <1>2, <1>6, <1>10, <1>11, <1>12, StoredStream
<1>14. FlowsApart'
  <2>1. Orderly(Stream, table, nextId, Handled) /\ OwnIds(table)
    BY DEF RecordInv, FlowsApart
  <2>2. Orderly(Stream', table, nextId, Handled)
    BY <1>13, <2>1, WithinOrderly
  <2>. QED BY <1>1, <1>9, <2>1, <2>2 DEF FlowsApart
<1>15. evicted' + expired' = 0 => ~ flows.full /\ evicted + expired = 0 /\ Stream' = Stream
  BY <1>7, <1>8, <1>11, <1>13
<1>16. VerdictsFollow'
  <2>1. RingLen(cls) + clsGone = flowSeq
    BY <1>1 DEF RecordInv, VerdictsFollow
  <2>2. RingLen(cls)' = RingLen(cls) /\ clsGone' = clsGone /\ InOrder(cls)' = InOrder(cls) /\ clsGone \in Nat
    BY <1>7, <1>8 DEF clsGone
  <2>3. RingLen(cls)' + clsGone' = flowSeq' - 1
    BY <1>7, <1>8, <2>1, <2>2
  <2>4. ASSUME evicted' + expired' + clsGone' = 0
        PROVE  /\ \A i \in 1..RingLen(cls)' : InOrder(cls)'[i].id = TheLog'[i].rec.id
               /\ TheLog' # <<>> /\ TheLog'[Len(TheLog')].rec = Head(todo)'
    <3>1. /\ ~ flows.full /\ evicted + expired + clsGone = 0 /\ clsGone = 0
          /\ Len(TheLog) = flowSeq /\ RingLen(cls) = flowSeq
      <4>1. evicted' \in Nat /\ expired' \in Nat
        BY <1>7, <1>8
      <4>2. evicted' = 0 /\ expired' = 0 /\ clsGone = 0
        <5>1. \A a, b, c \in Nat : a + b + c = 0 => a = 0 /\ b = 0 /\ c = 0
          OBVIOUS
        <5>2. clsGone' \in Nat
          BY <2>2
        <5>. QED BY ONLY <2>2, <2>4, <4>1, <5>1, <5>2
      <4>3. ~ flows.full /\ evicted = 0 /\ expired = 0
        BY <1>7, <1>8, <4>2
      <4>4. RingLen(cls) = flowSeq
        <5>1. RingLen(cls) \in Nat
          BY <1>5, CapsPositive, InOrderFacts DEF RingAndHistories, StoreTypes
        <5>. QED BY <2>1, <4>2, <5>1
      <4>5. Len(TheLog) = flowSeq
        BY <1>2, <1>8, <4>3
      <4>. QED BY <4>2, <4>3, <4>4, <4>5
    <3>2. TheLog' = Append(TheLog, v)
      BY <1>6, <3>1
    <3>3. /\ Len(TheLog') = Len(TheLog) + 1 /\ TheLog'[Len(TheLog) + 1] = v
          /\ \A i \in 1..Len(TheLog) : TheLog'[i] = TheLog[i]
      BY <1>2, <1>6, <3>2, AppendProperties
    <3>4. TheLog' # <<>>
      BY <1>2, <3>3, EmptySeq
    <3>5. \A i \in 1..RingLen(cls) : InOrder(cls)[i].id = TheLog[i].rec.id
      BY <3>1 DEF RecordInv, VerdictsFollow
    <3>6. \A i \in 1..RingLen(cls) : InOrder(cls)[i].id = TheLog'[i].rec.id
      BY <3>1, <3>3, <3>5
    <3>. QED BY <1>1, <1>10, <2>2, <3>3, <3>4, <3>6
  <2>. QED BY <1>1, <2>3, <2>4 DEF VerdictsFollow
<1>17. RecordsOnce'
  <2>1. /\ \A i \in 1..Len(todo) : todo[i].from <= Handled
        /\ evicted + expired = 0 =>
             \A k \in 1..Handled : ~ Neither(k) => \E i \in 1..Len(Stream) : Stream[i].from = k
        /\ rejected = Cardinality({k \in 1..Handled : Neither(k)})
    BY DEF RecordInv, RecordsOnce
  <2>. QED BY <1>1, <1>9, <1>15, <2>1 DEF RecordsOnce, Neither
<1>18. PipeTypes'
  BY <1>1, <1>9 DEF RecordInv, PipeTypes
<1>. QED BY <1>6, <1>14, <1>16, <1>17, <1>18 DEF RecordInv

LEMMA ScoreRowRecord ==
    ASSUME RecordInv, ScoreRow
    PROVE  RecordInv'
<1>1. /\ todo # <<>> /\ stage = "score" /\ stage' = "notify"
      /\ setup' = setup /\ records' = records /\ sent' = sent /\ todo' = todo
      /\ table' = table /\ clock' = clock /\ packets' = packets /\ nextId' = nextId /\ rejected' = rejected
  BY DEF ScoreRow, inputs, flowTable, beside
<1>2. /\ TheLog \in Seq(Versions) /\ todo \in Seq(Row) /\ Len(TheLog) \in Nat
  BY StreamFacts
<1>3. PICK row \in Row : row = Head(todo)
  BY <1>1, <1>2, HeadTailProperties
<1>4. PICK x : x = [id |-> row.id, ts |-> row.ts, conv |-> row.conv, class |-> Verdict(row)]
  OBVIOUS
<1>5. x \in Verdicts /\ x.id = row.id
  <2>1. Verdict(row) \in Nat
    <3>1. row.bytes \in Nat
      BY DEF Row
    <3>. QED BY <3>1 DEF Verdict
  <2>. QED BY <1>4, <2>1 DEF Row, Verdicts
<1>6. /\ cls' = Write(cls, x)
      /\ clsEvicted' = (IF cls.full THEN clsEvicted + 1 ELSE clsEvicted)
      /\ flows' = flows /\ hist' = hist /\ flowSeq' = flowSeq /\ evicted' = evicted /\ expired' = expired
      /\ dropped' = dropped /\ clsExpired' = clsExpired
  BY <1>3, <1>4 DEF ScoreRow, PutClassification
<1>7. /\ RingAndHistories /\ StoreTypes /\ IsRing(cls, ClsCap, Verdicts)
      /\ clsEvicted \in Nat /\ clsExpired \in Nat /\ evicted \in Nat /\ expired \in Nat /\ flowSeq \in Nat
      /\ flowSeq = RingLen(flows) + evicted + expired /\ Len(TheLog) = RingLen(flows)
  BY TheLogFacts DEF RecordInv, RingAndHistories, StoreTypes, Counted
<1> DEFINE s == InOrder(cls)
           rest == IF cls.full THEN Tail(s) ELSE s
<1>8. s \in Seq(Verdicts) /\ Len(s) = RingLen(cls) /\ RingLen(cls) \in Nat
  BY <1>7, CapsPositive, InOrderFacts, SMTT(30)
<1>9. /\ IsRing(cls', ClsCap, Verdicts) /\ InOrder(cls)' = Append(rest, x)
      /\ cls.full => s # <<>>
  <2>1. /\ IsRing(Write(cls, x), ClsCap, Verdicts)
        /\ InOrder(Write(cls, x)) = Append(IF cls.full THEN Tail(InOrder(cls)) ELSE InOrder(cls), x)
        /\ cls.full => cls.slots[cls.head] = InOrder(cls)[1] /\ InOrder(cls) # <<>>
    BY ONLY <1>5, <1>7, CapsPositive, WriteFacts
  <2>2. cls' = Write(cls, x)
    BY <1>6
  <2>. QED BY ONLY <2>1, <2>2
<1>10. RingLen(cls)' = Len(InOrder(cls)')
  BY <1>9, CapsPositive, InOrderFacts
<1>11. /\ rest \in Seq(Verdicts) /\ Len(rest) = (IF cls.full THEN Len(s) - 1 ELSE Len(s)) /\ Len(rest) \in Nat
       /\ ~ cls.full => rest = s
  <2>1. CASE cls.full
    <3>1. Tail(s) \in Seq(Verdicts) /\ Len(Tail(s)) = Len(s) - 1
      BY <1>8, <1>9, <2>1, HeadTailProperties
    <3>2. Len(Tail(s)) \in Nat
      BY <3>1, LenProperties
    <3>. QED BY <2>1, <3>1, <3>2
  <2>2. CASE ~ cls.full
    BY <1>8, <2>2
  <2>. QED BY <2>1, <2>2
<1> HIDE DEF s, rest
<1>12. /\ Len(InOrder(cls)') = Len(rest) + 1 /\ InOrder(cls)'[Len(rest) + 1] = x
       /\ \A i \in 1..Len(rest) : InOrder(cls)'[i] = rest[i]
  BY ONLY <1>5, <1>9, <1>11, AppendProperties
<1>13. TheLog' = TheLog
  BY <1>6 DEF TheLog, RecentFlows
<1>14. clsEvicted' \in Nat
  BY <1>6, <1>7
<1>15. StoreTypes'
  BY <1>6, <1>7, <1>9, <1>14 DEF StoreTypes
<1>16. RingAndHistories'
  <2>1. InNumberOrder' /\ Counted'
    <3>1. Unlisted' = Unlisted
      BY <1>6, <1>13 DEF Unlisted
    <3>. QED BY <1>6, <1>7, <1>13, <3>1 DEF RingAndHistories, InNumberOrder, Counted
  <2>2. \A id \in Ids : Follows(hist[id], TheLog, id)'
    BY <1>6, <1>7, <1>13 DEF RingAndHistories, Follows
  <2>. QED BY <1>15, <2>1, <2>2 DEF RingAndHistories
<1>17. Handled' = Handled /\ Pending' = Pending
  BY <1>1 DEF Handled, Pending
<1>18. Stream' = Stream
  BY <1>13, <1>17 DEF Stream
<1>19. PipeTypes'
  BY <1>1, <1>17 DEF RecordInv, PipeTypes
<1>20. FlowsApart'
  BY <1>1, <1>17, <1>18 DEF RecordInv, FlowsApart
<1>21. RecordsOnce'
  BY <1>1, <1>6, <1>17, <1>18 DEF RecordInv, RecordsOnce, Neither
<1>22. VerdictsFollow'
  <2>1. RingLen(cls) + clsGone = flowSeq - 1 /\ clsGone = clsEvicted + clsExpired
    BY <1>1 DEF RecordInv, VerdictsFollow, clsGone
  <2>2. PICK n \in Nat, m \in Nat : n = RingLen(cls) /\ m = RingLen(cls)' /\ m = (IF cls.full THEN n ELSE n + 1)
    BY <1>8, <1>10, <1>11, <1>12
  <2>3. clsGone' = IF cls.full THEN clsGone + 1 ELSE clsGone
    BY <1>6, <1>7 DEF clsGone
  <2>4. clsGone \in Nat /\ clsGone' \in Nat
    BY <1>7, <2>1, <2>3
  <2>5. RingLen(cls)' + clsGone' = flowSeq
    <3> DEFINE g == clsGone
    <3>1. \A a, b, c \in Nat : a + b = c - 1 => a + (b + 1) = c /\ (a + 1) + b = c
      OBVIOUS
    <3>2. n + g = flowSeq - 1 /\ g \in Nat /\ flowSeq \in Nat
      BY <1>7, <2>1, <2>2, <2>4
    <3> HIDE DEF g
    <3>3. n + (g + 1) = flowSeq /\ (n + 1) + g = flowSeq
      BY ONLY <2>2, <3>1, <3>2
    <3>4. RingLen(cls)' = m /\ m = (IF cls.full THEN n ELSE n + 1) /\ clsGone' = (IF cls.full THEN g + 1 ELSE g)
      BY <2>2, <2>3 DEF g
    <3>. QED BY ONLY <3>3, <3>4
  <2>6. ASSUME evicted' + expired' + clsGone' = 0
        PROVE  \A i \in 1..RingLen(cls)' : InOrder(cls)'[i].id = TheLog'[i].rec.id
    <3>1. evicted = 0 /\ expired = 0 /\ clsGone' = 0
      <4>1. \A a, b, c \in Nat : a + b + c = 0 => a = 0 /\ b = 0 /\ c = 0
        OBVIOUS
      <4>. QED BY ONLY <1>6, <1>7, <2>4, <2>6, <4>1
    <3>2. ~ cls.full /\ clsGone = 0 /\ evicted + expired + clsGone = 0
      BY <2>3, <2>4, <3>1
    <3>3. RingLen(cls) + 1 = flowSeq /\ Len(TheLog) = flowSeq
      BY <1>2, <1>7, <1>8, <2>1, <3>1, <3>2
    <3>4. /\ \A i \in 1..RingLen(cls) : s[i].id = TheLog[i].rec.id
          /\ TheLog[Len(TheLog)].rec = row
      BY <1>1, <1>3, <3>2 DEF RecordInv, VerdictsFollow, s
    <3>5. Len(rest) = RingLen(cls) /\ rest = s /\ RingLen(cls)' = RingLen(cls) + 1
      BY <1>8, <1>10, <1>11, <1>12, <3>2
    <3>6. ASSUME NEW i \in 1..RingLen(cls)' PROVE InOrder(cls)'[i].id = TheLog[i].rec.id
      <4>1. CASE i \in 1..RingLen(cls)
        BY <1>12, <3>4, <3>5, <4>1
      <4>2. CASE i = RingLen(cls) + 1
        BY <1>5, <1>12, <3>3, <3>4, <3>5, <4>2
      <4>. QED BY <1>8, <3>5, <4>1, <4>2
    <3>. QED BY <1>13, <3>6
  <2>. QED BY <1>1, <1>6, <2>5, <2>6 DEF VerdictsFollow
<1>. QED BY <1>16, <1>19, <1>20, <1>21, <1>22 DEF RecordInv

LEMMA NotifyRecord ==
    ASSUME RecordInv, Notify
    PROVE  RecordInv'
<1>1. /\ todo # <<>> /\ stage = "notify" /\ stage' = "store" /\ todo' = Tail(todo)
      /\ setup' = setup /\ records' = records /\ sent' = sent
      /\ table' = table /\ clock' = clock /\ packets' = packets /\ nextId' = nextId /\ rejected' = rejected
  BY DEF Notify, inputs, flowTable, beside
<1>2. /\ RingAndHistories' /\ TheLog' = TheLog /\ clsGone' = clsGone
      /\ RingLen(cls)' = RingLen(cls) /\ InOrder(cls)' = InOrder(cls)
      /\ flowSeq' = flowSeq /\ evicted' = evicted /\ expired' = expired
  BY StoreStill DEF RecordInv, storeVars, Notify
<1>3. todo \in Seq(Row)
  BY StreamFacts
<1>4. /\ Tail(todo) \in Seq(Row) /\ Len(Tail(todo)) = Len(todo) - 1 /\ Len(todo) \in Nat
      /\ \A i \in 1..Len(Tail(todo)) : Tail(todo)[i] = todo[i + 1]
  BY <1>1, <1>3, HeadTailProperties, LenProperties
<1>5. Handled' = Handled /\ Pending' = Pending
  BY <1>1 DEF Handled, Pending
<1>6. Stream' = Stream
  BY <1>2, <1>5 DEF Stream
<1>7. PipeTypes'
  BY <1>1, <1>4, <1>5 DEF RecordInv, PipeTypes
<1>8. FlowsApart'
  BY <1>1, <1>5, <1>6 DEF RecordInv, FlowsApart
<1>9. VerdictsFollow'
  BY <1>1, <1>2 DEF RecordInv, VerdictsFollow
<1>10. RecordsOnce'
  <2>1. \A i \in 1..Len(todo) : todo[i].from <= Handled
    BY DEF RecordInv, RecordsOnce
  <2>2. \A i \in 1..Len(todo') : todo'[i].from <= Handled
    BY <1>1, <1>4, <2>1
  <2>. QED BY <1>1, <1>2, <1>5, <1>6, <2>2 DEF RecordInv, RecordsOnce, Neither
<1>. QED BY <1>2, <1>7, <1>8, <1>9, <1>10 DEF RecordInv

LEMMA SweepRecord ==
    ASSUME RecordInv, Sweep
    PROVE  RecordInv'
<1>1. /\ setup' = setup /\ records' = records /\ sent' = sent /\ todo' = todo /\ stage' = stage
      /\ table' = table /\ clock' = clock /\ packets' = packets /\ nextId' = nextId /\ rejected' = rejected
  BY DEF Sweep, pipeVars, inputs, work, flowTable, beside
<1>2. PICK t \in Nat, u \in Nat : PurgeBefore(t, u)
  BY SetupsAssumption DEF Sweep
<1>3. RingAndHistories /\ Rises(TheLog)
  BY StreamFacts DEF RecordInv
<1>4. /\ RingAndHistories'
      /\ Thinned(TheLog, TheLog', Since(t)) /\ TheLog' \in Seq(Versions)
      /\ flowSeq' = flowSeq /\ evicted' = evicted /\ clsEvicted' = clsEvicted
      /\ expired' >= expired /\ clsExpired' >= clsExpired /\ expired' + clsExpired' > 0
      /\ expired' = expired => TheLog' = TheLog
      /\ RingLen(cls') + clsExpired' = RingLen(cls) + clsExpired
  BY ONLY <1>2, <1>3, PurgeFacts
<1>5. /\ evicted \in Nat /\ expired \in Nat /\ clsEvicted \in Nat /\ clsExpired \in Nat
      /\ expired' \in Nat /\ clsExpired' \in Nat
  BY <1>3, <1>4 DEF RingAndHistories, StoreTypes
<1>6. Handled' = Handled /\ Pending' = Pending
  BY <1>1 DEF Handled, Pending
<1>7. TheLog \in Seq(Versions) /\ Pending \in Seq(Row)
  BY StreamFacts
<1>8. Stream' = Joined(TheLog', Pending) /\ Stream = Joined(TheLog, Pending)
  BY <1>6 DEF Stream
<1>9. Within(Stream', Stream)
  BY ONLY <1>4, <1>7, <1>8, PurgedStream
<1>10. FlowsApart'
  <2>1. Orderly(Stream, table, nextId, Handled) /\ OwnIds(table)
    BY DEF RecordInv, FlowsApart
  <2>2. Orderly(Stream', table, nextId, Handled)
    BY <1>9, <2>1, WithinOrderly
  <2>. QED BY <1>1, <1>6, <2>1, <2>2 DEF FlowsApart
<1>11. PipeTypes'
  BY <1>1, <1>6 DEF RecordInv, PipeTypes
<1>12. evicted' + expired' = 0 => evicted + expired = 0 /\ Stream' = Stream
  <2> SUFFICES ASSUME evicted' + expired' = 0 PROVE evicted + expired = 0 /\ Stream' = Stream
    OBVIOUS
  <2>1. \A a, b, c \in Nat : a + b = 0 /\ b >= c => a + c = 0 /\ b = c
    OBVIOUS
  <2>2. evicted + expired = 0 /\ expired' = expired
    BY ONLY <1>4, <1>5, <2>1, evicted' + expired' = 0
  <2>. QED BY <1>4, <1>8, <2>2
<1>13. RecordsOnce'
  <2>1. /\ \A i \in 1..Len(todo) : todo[i].from <= Handled
        /\ evicted + expired = 0 =>
             \A k \in 1..Handled : ~ Neither(k) => \E i \in 1..Len(Stream) : Stream[i].from = k
        /\ rejected = Cardinality({k \in 1..Handled : Neither(k)})
    BY DEF RecordInv, RecordsOnce
  <2>. QED BY <1>1, <1>6, <1>12, <2>1 DEF RecordsOnce, Neither
<1>14. VerdictsFollow'
  <2>1. RingLen(cls)' \in Nat /\ RingLen(cls) \in Nat
    <3>1. IsRing(cls, ClsCap, Verdicts) /\ IsRing(cls', ClsCap, Verdicts)
      BY <1>3, <1>4 DEF RingAndHistories, StoreTypes
    <3>2. RingLen(cls) \in 0..ClsCap /\ RingLen(cls') \in 0..ClsCap
      BY ONLY <3>1, CapsPositive, InOrderFacts
    <3>. QED BY <3>2, CapsPositive
  <2>2. RingLen(cls)' + clsGone' = RingLen(cls) + clsGone
    <3>1. \A a, b, c, d, e \in Nat : a + b = c + d => a + (e + b) = c + (e + d)
      OBVIOUS
    <3>2. RingLen(cls)' + (clsEvicted + clsExpired') = RingLen(cls) + (clsEvicted + clsExpired)
      <4>1. PICK n \in Nat, m \in Nat : n = RingLen(cls) /\ m = RingLen(cls)'
        BY ONLY <2>1
      <4>2. m + clsExpired' = n + clsExpired
        BY <1>4, <4>1
      <4>3. m + (clsEvicted + clsExpired') = n + (clsEvicted + clsExpired)
        BY ONLY <1>5, <3>1, <4>1, <4>2
      <4>. QED BY <4>1, <4>3
    <3>. QED BY <1>4, <3>2 DEF clsGone
  <2>3. evicted' + expired' + clsGone' # 0
    <3>1. \A a, b, c, d \in Nat : b + d > 0 => a + b + (c + d) # 0
      OBVIOUS
    <3>2. evicted + expired' + (clsEvicted + clsExpired') # 0
      BY ONLY <1>4, <1>5, <3>1
    <3>. QED BY <1>4, <3>2 DEF clsGone
  <2>. QED BY <1>1, <1>4, <2>2, <2>3 DEF RecordInv, VerdictsFollow
<1>. QED BY <1>4, <1>10, <1>11, <1>13, <1>14 DEF RecordInv

\* The stream when rows come and none is on its way.
Grown(s, rows, t) ==
    /\ Len(s) \in Nat /\ Len(rows) \in Nat /\ Len(t) = Len(s) + Len(rows)
    /\ \A i \in 1..Len(s) : t[i] = s[i]
    /\ \A k \in 1..Len(rows) : t[Len(s) + k] = rows[k] /\ Len(s) + k \in 1..Len(t)
    /\ \A i \in 1..Len(t) : i \in 1..Len(s) \/ \E k \in 1..Len(rows) : i = Len(s) + k

LEMMA GrownStream ==
    ASSUME NEW log \in Seq(Versions), NEW rows \in Seq(Row)
    PROVE  Grown(Joined(log, <<>>), rows, Joined(log, rows))
<1> DEFINE n == Len(log)
           m == Len(rows)
           s == Joined(log, <<>>)
           t == Joined(log, rows)
<1>1. <<>> \in Seq(Row) /\ Len(<<>>) = 0
  BY EmptySeq
<1>2. /\ Len(s) = n + 0 /\ n \in Nat /\ \A i \in 1..n : s[i] = log[i].rec
  BY <1>1, JoinedFacts
<1>3. /\ Len(t) = n + m /\ m \in Nat /\ \A i \in 1..n : t[i] = log[i].rec
      /\ \A k \in 1..m : t[n + k] = rows[k]
  BY JoinedFacts
<1> HIDE DEF n, m, s, t
<1>4. Len(s) = n
  BY ONLY <1>2
<1>5. \A i \in 1..(n + m) : i \in 1..n \/ (i - n \in 1..m /\ i = n + (i - n))
  BY ONLY <1>2, <1>3
<1>6. \A k \in 1..m : n + k \in 1..(n + m)
  BY ONLY <1>2, <1>3
<1>7. \A i \in 1..Len(t) : i \in 1..Len(s) \/ \E k \in 1..m : i = Len(s) + k
  <2> SUFFICES ASSUME NEW i \in 1..Len(t), i \notin 1..Len(s) PROVE \E k \in 1..m : i = Len(s) + k
    OBVIOUS
  <2>1. i - n \in 1..m /\ i = Len(s) + (i - n)
    BY <1>3, <1>4, <1>5
  <2>. QED BY <2>1
<1>. QED BY <1>2, <1>3, <1>4, <1>6, <1>7 DEF m, s, t, Grown

\* The rows that come, after the ones there are.
Coming(s, rows, tbl, next, handled) ==
    /\ \A k \in 1..Len(rows) : rows[k].id \in 1..(next - 1) /\ rows[k].from <= handled
    /\ \A k, l \in 1..Len(rows) : k < l => rows[k].id # rows[l].id /\ rows[l].from = 0
    /\ \A i \in 1..Len(s), k \in 1..Len(rows) : /\ s[i].id = rows[k].id => Earlier(s[i], rows[k])
                                                /\ rows[k].from > 0 => s[i].from < rows[k].from
    /\ \A c \in DOMAIN tbl, k \in 1..Len(rows) :
          rows[k].id = tbl[c].id => Earlier(rows[k], TableRow(c, tbl[c], FALSE))

LEMMA GrownOrderly ==
    ASSUME NEW s, NEW rows, NEW t, Grown(s, rows, t),
           NEW next \in Nat, NEW next2 \in Nat, next <= next2,
           NEW handled \in Nat, NEW handled2 \in Nat, handled <= handled2, \A i \in 1..Len(s) : s[i].from \in Nat,
           NEW tbl, NEW tbl2, Orderly(s, tbl, next, handled), Behind(s, tbl2), Coming(s, rows, tbl2, next2, handled2)
    PROVE  Orderly(t, tbl2, next2, handled2)
<1>1. /\ Len(s) \in Nat /\ Len(rows) \in Nat /\ Len(t) = Len(s) + Len(rows)
      /\ \A i \in 1..Len(s) : t[i] = s[i]
      /\ \A k \in 1..Len(rows) : t[Len(s) + k] = rows[k] /\ Len(s) + k \in 1..Len(t)
      /\ \A i \in 1..Len(t) : i \in 1..Len(s) \/ \E k \in 1..Len(rows) : i = Len(s) + k
  BY DEF Grown
<1>2. /\ \A i \in 1..Len(s) : s[i].id \in 1..(next - 1) /\ s[i].from <= handled
      /\ \A i, j \in 1..Len(s) : i < j /\ s[i].id = s[j].id => Earlier(s[i], s[j])
      /\ \A i, j \in 1..Len(s) : i < j /\ s[j].from > 0 => s[i].from < s[j].from
      /\ \A c \in DOMAIN tbl2, i \in 1..Len(s) : s[i].id = tbl2[c].id => Earlier(s[i], TableRow(c, tbl2[c], FALSE))
  BY DEF Orderly, InTurn, FromsRise, Behind
<1>3. /\ \A k \in 1..Len(rows) : rows[k].id \in 1..(next2 - 1) /\ rows[k].from <= handled2
      /\ \A k, l \in 1..Len(rows) : k < l => rows[k].id # rows[l].id /\ rows[l].from = 0
      /\ \A i \in 1..Len(s), k \in 1..Len(rows) : /\ s[i].id = rows[k].id => Earlier(s[i], rows[k])
                                                  /\ rows[k].from > 0 => s[i].from < rows[k].from
      /\ \A c \in DOMAIN tbl2, k \in 1..Len(rows) :
            rows[k].id = tbl2[c].id => Earlier(rows[k], TableRow(c, tbl2[c], FALSE))
  BY DEF Coming
<1>4. \A i \in 1..Len(t) : t[i].id \in 1..(next2 - 1) /\ t[i].from <= handled2
  <2> SUFFICES ASSUME NEW i \in 1..Len(t) PROVE t[i].id \in 1..(next2 - 1) /\ t[i].from <= handled2
    OBVIOUS
  <2>1. CASE i \in 1..Len(s)
    BY <1>1, <1>2, <2>1
  <2>2. CASE \E k \in 1..Len(rows) : i = Len(s) + k
    BY <1>1, <1>3, <2>2
  <2>. QED BY <1>1, <2>1, <2>2
<1>5. ASSUME NEW i \in 1..Len(t), NEW j \in 1..Len(t), i < j
      PROVE  /\ t[i].id = t[j].id => Earlier(t[i], t[j])
             /\ t[j].from > 0 => t[i].from < t[j].from
  <2>1. CASE j \in 1..Len(s)
    <3>1. i \in 1..Len(s)
      BY <1>1, <1>5, <2>1
    <3>. QED BY <1>1, <1>2, <1>5, <2>1, <3>1
  <2>2. CASE i \in 1..Len(s) /\ j \notin 1..Len(s)
    <3>1. PICK k \in 1..Len(rows) : j = Len(s) + k
      BY <1>1, <2>2
    <3>2. t[i] = s[i] /\ t[j] = rows[k]
      BY ONLY <1>1, <2>2, <3>1
    <3>. QED BY ONLY <1>3, <2>2, <3>1, <3>2
  <2>3. CASE i \notin 1..Len(s) /\ j \notin 1..Len(s)
    <3>1. PICK k \in 1..Len(rows), l \in 1..Len(rows) : i = Len(s) + k /\ j = Len(s) + l
      BY <1>1, <2>3
    <3>2. k < l
      BY <1>1, <1>5, <3>1
    <3>3. t[i] = rows[k] /\ t[j] = rows[l]
      BY <1>1, <3>1
    <3>. QED BY <1>3, <3>2, <3>3
  <2>. QED BY <2>1, <2>2, <2>3
<1>6. ASSUME NEW c \in DOMAIN tbl2, NEW i \in 1..Len(t), t[i].id = tbl2[c].id
      PROVE  Earlier(t[i], TableRow(c, tbl2[c], FALSE))
  <2>1. CASE i \in 1..Len(s)
    BY <1>1, <1>2, <1>6, <2>1
  <2>2. CASE \E k \in 1..Len(rows) : i = Len(s) + k
    <3>1. PICK k \in 1..Len(rows) : i = Len(s) + k
      BY <2>2
    <3>2. t[i] = rows[k]
      BY ONLY <1>1, <3>1
    <3>3. rows[k].id = tbl2[c].id => Earlier(rows[k], TableRow(c, tbl2[c], FALSE))
      BY ONLY <1>3, <3>1, c \in DOMAIN tbl2
    <3>. QED BY ONLY <1>6, <3>2, <3>3
  <2>. QED BY <1>1, <2>1, <2>2
<1>. QED BY <1>4, <1>5, <1>6 DEF Orderly, InTurn, FromsRise, Behind

\* What holds between two rows, when no row is on its way.
LEMMA AtRest ==
    ASSUME RecordInv, todo = <<>>
    PROVE  /\ stage = "store" /\ Pending = <<>> /\ Stream = Joined(TheLog, <<>>)
           /\ TheLog \in Seq(Versions) /\ Stream \in Seq(Row) /\ Len(Stream) \in Nat
           /\ \A i \in 1..Len(Stream) : Stream[i] \in Row /\ Stream[i].from \in Nat
           /\ Orderly(Stream, table, nextId, Handled) /\ OwnIds(table) /\ OpenTypes(table, nextId, clock)
           /\ nextId \in Nat \ {0} /\ nextId <= 1 + packets + Handled /\ Handled \in Nat
           /\ packets \in Nat /\ packets <= setup.packets /\ clock \in Nat
<1>1. stage = "store" /\ Pending = <<>>
  BY DEF RecordInv, PipeTypes, Pending
<1>2. TheLog \in Seq(Versions) /\ Stream \in Seq(Row)
  BY StreamFacts
<1>3. Len(Stream) \in Nat /\ \A i \in 1..Len(Stream) : Stream[i] \in Row
  BY <1>2, LenProperties, ElementOfSeq
<1>4. \A i \in 1..Len(Stream) : Stream[i].from \in Nat
  BY ONLY <1>3 DEF Row
<1>5. Orderly(Stream, table, nextId, Handled) /\ OwnIds(table)
  BY DEF RecordInv, FlowsApart
<1>6. Handled \in Nat
  BY SetupFacts DEF RecordInv
<1>7. /\ OpenTypes(table, nextId, clock) /\ nextId \in Nat \ {0} /\ nextId <= 1 + packets + Handled
      /\ packets \in Nat /\ packets <= setup.packets /\ clock \in Nat
  BY DEF RecordInv, PipeTypes
<1>. QED BY <1>1, <1>2, <1>3, <1>4, <1>5, <1>6, <1>7 DEF Stream

\* Rows come and none is stored.
LEMMA RowsCome ==
    ASSUME RecordInv, todo = <<>>, UNCHANGED storeVars, stage' = stage, todo' \in Seq(Row)
    PROVE  /\ Pending' = todo' /\ TheLog' = TheLog /\ Grown(Stream, todo', Stream')
           /\ RingAndHistories' /\ VerdictsFollow'
           /\ evicted' = evicted /\ expired' = expired
<1>1. stage = "store" /\ Pending = <<>> /\ Stream = Joined(TheLog, <<>>) /\ TheLog \in Seq(Versions)
  BY AtRest
<1>2. /\ RingAndHistories' /\ TheLog' = TheLog /\ clsGone' = clsGone
      /\ RingLen(cls)' = RingLen(cls) /\ InOrder(cls)' = InOrder(cls)
      /\ flowSeq' = flowSeq /\ evicted' = evicted /\ expired' = expired
  BY StoreStill DEF RecordInv, storeVars
<1>3. Pending' = todo'
  BY <1>1 DEF Pending
<1>4. Stream' = Joined(TheLog, todo')
  BY <1>2, <1>3 DEF Stream
<1>5. PICK rows \in Seq(Row) : rows = todo'
  OBVIOUS
<1>6. Grown(Joined(TheLog, <<>>), rows, Joined(TheLog, rows))
  BY ONLY <1>1, <1>5, GrownStream
<1>7. Grown(Stream, todo', Stream')
  BY ONLY <1>1, <1>4, <1>5, <1>6
<1>8. VerdictsFollow'
  BY <1>1, <1>2 DEF RecordInv, VerdictsFollow
<1>. QED BY <1>2, <1>3, <1>7, <1>8

LEMMA OneRow ==
    ASSUME NEW X, NEW x \in X
    PROVE  <<x>> \in Seq(X) /\ Len(<<x>>) = 1 /\ <<x>>[1] = x
OBVIOUS

\* A record comes off the channel.
LEMMA RecordHandled ==
    ASSUME RecordInv, todo = <<>>, records # <<>>, OnRecord(Head(records)), records' = Tail(records),
           UNCHANGED storeVars, UNCHANGED <<setup, sent, stage, table, clock, packets>>
    PROVE  RecordInv'
<1>1. /\ stage = "store" /\ Pending = <<>> /\ Stream = Joined(TheLog, <<>>)
      /\ Stream \in Seq(Row) /\ Len(Stream) \in Nat
      /\ \A i \in 1..Len(Stream) : Stream[i] \in Row /\ Stream[i].from \in Nat
      /\ Orderly(Stream, table, nextId, Handled) /\ OwnIds(table) /\ OpenTypes(table, nextId, clock)
      /\ nextId \in Nat \ {0} /\ nextId <= 1 + packets + Handled /\ Handled \in Nat
      /\ packets \in Nat /\ packets <= setup.packets /\ clock \in Nat
  BY AtRest
<1>2. /\ setup.feed \in Seq(Records) /\ Len(setup.feed) \in Nat
      /\ \A k \in 1..Len(setup.feed) : setup.feed[k] \in Records /\ setup.feed[k].number = k
      /\ setup.packets \in Nat /\ 1..(setup.packets + Len(setup.feed)) \subseteq Ids
      /\ Len(records) \in Nat /\ Handled + Len(records) = sent
  BY SetupFacts DEF RecordInv
<1>3. PipeTypes
  BY DEF RecordInv
<1>4. /\ sent \in Nat /\ sent <= Len(setup.feed) /\ records \in Seq(Range(setup.feed))
      /\ \A i \in 1..Len(records) : records[i] = setup.feed[Handled + i]
  BY <1>3 DEF PipeTypes
<1>5. /\ Len(records) # 0 /\ Head(records) = records[1] /\ records' \in Seq(Range(setup.feed))
      /\ Len(records') = Len(records) - 1 /\ \A i \in 1..(Len(records) - 1) : records'[i] = records[i + 1]
  <2>1. /\ Tail(records) \in Seq(Range(setup.feed)) /\ Len(Tail(records)) = Len(records) - 1
        /\ Head(records) = records[1] /\ \A i \in 1..Len(Tail(records)) : Tail(records)[i] = records[i + 1]
    BY <1>4, HeadTailProperties
  <2>2. Len(records) # 0
    BY <1>4, EmptySeq
  <2>. QED BY <2>1, <2>2
<1>6. Handled + 1 \in 1..Len(setup.feed)
  BY <1>1, <1>2, <1>4, <1>5
<1>7. PICK r \in Records : r = Head(records) /\ r.number = Handled + 1 /\ r = setup.feed[Handled + 1]
  <2>1. records[1] = setup.feed[Handled + 1]
    BY <1>2, <1>4, <1>5
  <2>. QED BY <1>2, <1>5, <1>6, <2>1
<1>8. Handled' = Handled + 1
  <2>1. Handled' = sent - (Len(records) - 1)
    BY <1>5 DEF Handled
  <2>2. \A a, b, c \in Nat : a + b = c => c - (b - 1) = a + 1
    OBVIOUS
  <2>. QED BY ONLY <1>1, <1>2, <1>4, <2>1, <2>2
<1>9. /\ setup' = setup /\ sent' = sent /\ stage' = stage /\ table' = table /\ clock' = clock /\ packets' = packets
      /\ OnRecord(r)
  BY <1>7
<1>10. \A i \in 1..Len(records') : records'[i] = setup.feed[(Handled + 1) + i]
  <2> SUFFICES ASSUME NEW i \in 1..Len(records') PROVE records'[i] = setup.feed[(Handled + 1) + i]
    OBVIOUS
  <2>1. i \in 1..(Len(records) - 1) /\ i + 1 \in 1..Len(records) /\ Handled + (i + 1) = (Handled + 1) + i
    BY <1>1, <1>2, <1>5
  <2>. QED BY <1>4, <1>5, <2>1
<1> DEFINE none(n) == {k \in 1..n : Neither(k)}
<1>11. /\ \A i \in 1..Len(todo) : todo[i].from <= Handled
       /\ evicted + expired = 0 =>
             \A k \in 1..Handled : ~ Neither(k) => \E i \in 1..Len(Stream) : Stream[i].from = k
       /\ rejected = Cardinality(none(Handled))
  BY DEF RecordInv, RecordsOnce
<1>12. Neither(Handled + 1) <=> r.mode = "neither"
  BY <1>7 DEF Neither
<1>13. RecordsOnce' <=> /\ \A i \in 1..Len(todo') : todo'[i].from <= Handled + 1
                        /\ evicted' + expired' = 0 =>
                              \A k \in 1..(Handled + 1) : ~ Neither(k) => \E i \in 1..Len(Stream') : Stream'[i].from = k
                        /\ rejected' = Cardinality(none(Handled + 1))
  BY <1>8, <1>9 DEF RecordsOnce, Neither
<1>14. \A n \in 1..(Handled + 1) : n \in 1..Handled \/ n = Handled + 1
  BY <1>1
<1>15. IsFiniteSet(none(Handled)) /\ Handled + 1 \notin none(Handled)
  <2>1. IsFiniteSet(1..Handled)
    BY <1>1, FS_Interval
  <2>. QED BY <1>1, <2>1, FS_Subset
<1>16. /\ r.mode = "neither" => none(Handled + 1) = none(Handled) \cup {Handled + 1}
       /\ r.mode # "neither" => none(Handled + 1) = none(Handled)
  <2>1. \A k \in 1..Handled : k \in 1..(Handled + 1)
    BY <1>1
  <2>2. Handled + 1 \in 1..(Handled + 1)
    BY <1>1
  <2>. QED BY <1>12, <1>14, <2>1, <2>2
<1> HIDE DEF none
<1>17. ASSUME todo' \in Seq(Row), nextId' \in Nat \ {0}, nextId' <= 1 + packets + (Handled + 1),
              OpenTypes(table, nextId', clock)
       PROVE  PipeTypes'
  <2>1. stage' \in {"store", "score", "notify"} /\ (stage' # "store" => todo' # <<>>)
    BY <1>1, <1>9
  <2>2. Len(records') <= sent'
    BY <1>1, <1>2, <1>4, <1>5, <1>9
  <2>. QED BY <1>3, <1>5, <1>8, <1>9, <1>10, <1>17, <2>1, <2>2 DEF PipeTypes
<1>18. CASE r.mode = "neither"
  <2>1. rejected' = rejected + 1 /\ todo' = <<>> /\ nextId' = nextId
    BY <1>9, <1>18 DEF OnRecord
  <2>2. /\ Pending' = todo' /\ TheLog' = TheLog /\ RingAndHistories' /\ VerdictsFollow'
        /\ evicted' = evicted /\ expired' = expired
    <3>1. todo' \in Seq(Row)
      BY <2>1, EmptySeq
    <3>. QED BY <1>9, <3>1, RowsCome
  <2>3. Stream' = Stream
    BY <1>1, <2>1, <2>2 DEF Stream
  <2>4. PipeTypes'
    <3>1. todo' \in Seq(Row) /\ nextId' <= 1 + packets + (Handled + 1)
      BY <1>1, <2>1, EmptySeq
    <3>. QED BY <1>1, <1>17, <2>1, <3>1
  <2>5. FlowsApart'
    <3>1. Orderly(Stream, table, nextId, Handled + 1)
      <4>1. \A i \in 1..Len(Stream) : Stream[i].from <= Handled + 1
        <5>1. \A i \in 1..Len(Stream) : Stream[i].from <= Handled /\ Stream[i].from \in Nat
          BY <1>1 DEF Orderly
        <5>. QED BY ONLY <1>1, <5>1
      <4>. QED BY <1>1, <4>1 DEF Orderly
    <3>. QED BY <1>1, <1>8, <1>9, <2>1, <2>3, <3>1 DEF FlowsApart
  <2>6. RecordsOnce'
    <3>1. rejected' = Cardinality(none(Handled + 1))
      <4>1. Cardinality(none(Handled) \cup {Handled + 1}) = Cardinality(none(Handled)) + 1
        BY <1>15, FS_AddElement
      <4>. QED BY <1>11, <1>16, <1>18, <2>1, <4>1
    <3>2. Len(todo') = 0
      BY <2>1, EmptySeq
    <3>3. evicted' + expired' = 0 =>
             \A k \in 1..(Handled + 1) : ~ Neither(k) => \E i \in 1..Len(Stream') : Stream'[i].from = k
      BY <1>11, <1>12, <1>14, <1>18, <2>2, <2>3
    <3>. QED BY <1>13, <3>1, <3>2, <3>3
  <2>. QED BY <2>2, <2>4, <2>5, <2>6 DEF RecordInv
<1>19. CASE r.mode # "neither"
  <2>1. PICK row : row = RecordRow(r)
    OBVIOUS
  <2>2. rejected' = rejected /\ todo' = <<row>> /\ nextId' = nextId + 1
    BY <1>9, <1>19, <2>1 DEF OnRecord
  <2>3. /\ row.id = nextId /\ row.from = Handled + 1
        /\ row \in Row
    <3>1. nextId \in 1..(setup.packets + Len(setup.feed))
      BY <1>1, <1>2, <1>6, SMTT(30)
    <3>2. nextId \in Ids
      BY <1>2, <3>1
    <3>3. r.conv \in Convs /\ r.terminal \in BOOLEAN /\ r.ts \in Nat /\ r.bytes \in Nat /\ r.number \in Nat
      BY DEF Records
    <3>4. row = [id |-> nextId, conv |-> r.conv, terminal |-> r.terminal, ts |-> r.ts, bytes |-> r.bytes, from |-> r.number]
      BY <2>1 DEF RecordRow
    <3>. QED BY ONLY <1>7, <3>2, <3>3, <3>4 DEF Row
  <2>4. <<row>> \in Seq(Row) /\ Len(<<row>>) = 1 /\ <<row>>[1] = row
    BY ONLY <2>3, OneRow
  <2>5. PICK rows \in Seq(Row) : rows = todo' /\ Len(rows) = 1 /\ rows[1] = row
    BY <2>2, <2>4
  <2>6. /\ Pending' = rows /\ TheLog' = TheLog /\ Grown(Stream, rows, Stream') /\ RingAndHistories' /\ VerdictsFollow'
        /\ evicted' = evicted /\ expired' = expired
    BY <1>9, <2>5, RowsCome
  <2>7. \A k \in 1..Len(rows) : k = 1
    BY <2>5
  <2>8. \A i \in 1..Len(Stream) : Stream[i].id \in 1..(nextId - 1) /\ Stream[i].from <= Handled
    BY <1>1 DEF Orderly
  <2>9. \A c \in DOMAIN table : table[c].id \in 1..(nextId - 1)
    BY <1>1 DEF OpenTypes
  <2>10. Coming(Stream, rows, table, nextId + 1, Handled + 1)
    <3>1. row.id \in 1..((nextId + 1) - 1) /\ row.from <= Handled + 1
      BY <1>1, <2>3
    <3>2. \A i \in 1..Len(Stream) : Stream[i].id # row.id /\ Stream[i].from < row.from
      BY <1>1, <2>3, <2>8
    <3>3. \A c \in DOMAIN table : table[c].id # row.id
      BY <1>1, <2>3, <2>9
    <3>4. \A k, l \in 1..Len(rows) : ~ (k < l)
      BY ONLY <2>7
    <3>5. \A k \in 1..Len(rows) : rows[k] = row
      BY ONLY <2>5, <2>7
    <3>. QED BY ONLY <3>1, <3>2, <3>3, <3>4, <3>5 DEF Coming
  <2>11. Orderly(Stream', table, nextId + 1, Handled + 1)
    <3>1. Behind(Stream, table)
      BY <1>1 DEF Orderly
    <3>2. nextId \in Nat /\ nextId + 1 \in Nat /\ nextId <= nextId + 1 /\ Handled + 1 \in Nat /\ Handled <= Handled + 1
      BY <1>1
    <3>3. PICK s, t : s = Stream /\ t = Stream'
      OBVIOUS
    <3>4. /\ Grown(s, rows, t) /\ Orderly(s, table, nextId, Handled) /\ Behind(s, table)
          /\ Coming(s, rows, table, nextId + 1, Handled + 1) /\ \A i \in 1..Len(s) : s[i].from \in Nat
      BY <1>1, <2>6, <2>10, <3>1, <3>3
    <3>5. Orderly(t, table, nextId + 1, Handled + 1)
      BY ONLY <1>1, <3>2, <3>4, GrownOrderly
    <3>. QED BY <3>3, <3>5
  <2>12. FlowsApart'
    BY <1>1, <1>8, <1>9, <2>2, <2>11 DEF FlowsApart
  <2>13. PipeTypes'
    <3>1. nextId' \in Nat \ {0} /\ nextId' <= 1 + packets + (Handled + 1)
      BY <1>1, <2>2
    <3>2. \A c \in DOMAIN table : table[c].id \in 1..(nextId' - 1)
      BY <1>1, <2>2, <2>9
    <3>3. OpenTypes(table, nextId', clock)
      BY <1>1, <3>2 DEF OpenTypes
    <3>. QED BY <1>17, <2>5, <3>1, <3>3
  <2>14. RecordsOnce'
    <3>1. \A i \in 1..Len(todo') : todo'[i].from <= Handled + 1
      BY <1>1, <2>3, <2>5, <2>7
    <3>2. evicted' + expired' = 0 =>
             \A k \in 1..(Handled + 1) : ~ Neither(k) => \E i \in 1..Len(Stream') : Stream'[i].from = k
      <4> SUFFICES ASSUME evicted + expired = 0, NEW k \in 1..(Handled + 1), ~ Neither(k)
                   PROVE  \E i \in 1..Len(Stream') : Stream'[i].from = k
        BY <2>6
      <4>1. CASE k \in 1..Handled
        <5>1. PICK i \in 1..Len(Stream) : Stream[i].from = k
          BY <1>11, <4>1
        <5>2. Stream'[i] = Stream[i] /\ i \in 1..Len(Stream')
          BY <1>1, <2>6 DEF Grown
        <5>. QED BY <5>1, <5>2
      <4>2. CASE k = Handled + 1
        <5>1. Stream'[Len(Stream) + 1] = rows[1] /\ Len(Stream) + 1 \in 1..Len(Stream')
          BY <2>5, <2>6 DEF Grown
        <5>. QED BY <2>3, <2>5, <4>2, <5>1
      <4>. QED BY <1>14, <4>1, <4>2
    <3>. QED BY <1>11, <1>13, <1>16, <1>19, <2>2, <3>1, <3>2
  <2>. QED BY <2>6, <2>12, <2>13, <2>14 DEF RecordInv
<1>. QED BY <1>18, <1>19

\* The table with one more packet in it.
LEMMA FoldedFacts ==
    ASSUME OpenTypes(table, nextId, clock), OwnIds(table), nextId \in Nat \ {0}, clock \in Nat,
           NEW s, Behind(s, table), \A i \in 1..Len(s) : s[i] \in Row /\ s[i].id \in 1..(nextId - 1),
           NEW c \in Convs, NEW t \in {clock, clock + 1},
           NEW next, next = IF c \in DOMAIN table THEN nextId ELSE nextId + 1
    PROVE  /\ OpenTypes(Folded(c, t), next, t) /\ OwnIds(Folded(c, t)) /\ Behind(s, Folded(c, t))
           /\ next \in Nat \ {0} /\ nextId <= next /\ next <= nextId + 1
<1> DEFINE tbl == Folded(c, t)
<1>1. /\ DOMAIN table \subseteq Convs
      /\ \A x \in DOMAIN table : table[x] \in OpenFlows /\ table[x].id \in 1..(nextId - 1) /\ table[x].ts <= clock
  BY DEF OpenTypes
<1>2. t \in Nat /\ clock <= t
  OBVIOUS
<1>3. next \in Nat \ {0} /\ nextId <= next /\ next <= nextId + 1
  OBVIOUS
<1>4. \A x \in DOMAIN table, i \in 1..Len(s) : s[i].id = table[x].id => Earlier(s[i], TableRow(x, table[x], FALSE))
  BY DEF Behind
<1>5. CASE c \in DOMAIN table
  <2>1. /\ tbl = [table EXCEPT ![c] = [id |-> table[c].id, bytes |-> table[c].bytes + 1, ts |-> t]]
        /\ next = nextId
    BY <1>5 DEF Folded
  <2>2. PICK f : f = [id |-> table[c].id, bytes |-> table[c].bytes + 1, ts |-> t]
    OBVIOUS
  <2>3. table[c] \in OpenFlows
    BY <1>1, <1>5
  <2>4. /\ DOMAIN tbl = DOMAIN table /\ tbl[c] = f
        /\ \A x \in DOMAIN table : x # c => tbl[x] = table[x]
    <3>1. tbl = [table EXCEPT ![c] = f]
      BY ONLY <2>1, <2>2
    <3> HIDE DEF tbl
    <3>. QED BY ONLY <1>5, <3>1
  <2> HIDE DEF tbl
  <2>5. tbl[c] \in OpenFlows /\ tbl[c].id = table[c].id /\ tbl[c].ts = t
    <3>1. table[c].id \in Nat /\ table[c].bytes \in Nat
      BY ONLY <2>3 DEF OpenFlows
    <3>. QED BY ONLY <1>2, <2>2, <2>4, <3>1 DEF OpenFlows
  <2>6. tbl \in [DOMAIN tbl -> OpenFlows]
    <3>1. tbl = [x \in DOMAIN tbl |-> tbl[x]]
      BY <2>1 DEF tbl
    <3>. QED BY <1>1, <2>4, <2>5, <3>1
  <2>7. \A x \in DOMAIN tbl : tbl[x].id = table[x].id /\ table[x].ts <= tbl[x].ts /\ tbl[x].ts <= t
    <3>1. \A x \in DOMAIN table : table[x].ts \in Nat
      BY <1>1 DEF OpenFlows
    <3>. QED BY <1>1, <1>2, <2>4, <2>5, <3>1
  <2>8. OpenTypes(tbl, next, t)
    BY <1>1, <2>1, <2>4, <2>6, <2>7 DEF OpenTypes
  <2>9. OwnIds(tbl)
    BY <2>4, <2>7 DEF OwnIds
  <2>10. Behind(s, tbl)
    <3> SUFFICES ASSUME NEW x \in DOMAIN tbl, NEW i \in 1..Len(s), s[i].id = tbl[x].id
                 PROVE  Earlier(s[i], TableRow(x, tbl[x], FALSE))
      BY DEF Behind
    <3>1. Earlier(s[i], TableRow(x, table[x], FALSE))
      BY <1>4, <2>4, <2>7
    <3>2. s[i].ts \in Nat /\ table[x].ts \in Nat /\ tbl[x].ts \in Nat /\ table[x].ts <= tbl[x].ts
      <4>1. s[i] \in Row /\ table[x] \in OpenFlows /\ tbl[x] \in OpenFlows
        BY <1>1, <2>4, <2>6
      <4>. QED BY <2>7, <4>1 DEF Row, OpenFlows
    <3>. QED BY <3>1, <3>2 DEF Earlier, TableRow
  <2>. QED BY <1>3, <2>8, <2>9, <2>10 DEF tbl
<1>6. CASE c \notin DOMAIN table
  <2>1. /\ tbl = [x \in DOMAIN table \cup {c} |-> IF x = c THEN [id |-> nextId, bytes |-> 1, ts |-> t] ELSE table[x]]
        /\ next = nextId + 1
    BY <1>6 DEF Folded
  <2>2. /\ DOMAIN tbl = DOMAIN table \cup {c} /\ \A x \in DOMAIN table : tbl[x] = table[x]
        /\ tbl[c] = [id |-> nextId, bytes |-> 1, ts |-> t]
    BY <1>6, <2>1
  <2>3. [id |-> nextId, bytes |-> 1, ts |-> t] \in OpenFlows
    BY <1>2 DEF OpenFlows
  <2>4. tbl = [x \in DOMAIN tbl |-> tbl[x]]
    BY <2>1
  <2> HIDE DEF tbl
  <2>5. tbl[c] \in OpenFlows /\ tbl[c].id = nextId /\ tbl[c].ts = t
    BY <2>2, <2>3
  <2>6. tbl \in [DOMAIN tbl -> OpenFlows]
    BY <1>1, <2>2, <2>4, <2>5
  <2>7. \A x \in DOMAIN tbl : tbl[x].id \in 1..(next - 1) /\ tbl[x].ts <= t
    <3> SUFFICES ASSUME NEW x \in DOMAIN tbl PROVE tbl[x].id \in 1..(next - 1) /\ tbl[x].ts <= t
      OBVIOUS
    <3>1. CASE x = c
      BY <1>2, <2>1, <2>5, <3>1
    <3>2. CASE x \in DOMAIN table
      <4>1. tbl[x] = table[x] /\ table[x].id \in 1..(nextId - 1) /\ table[x].ts <= clock /\ table[x].ts \in Nat
        BY <1>1, <2>2, <3>2 DEF OpenFlows
      <4>. QED BY ONLY <1>2, <2>1, <4>1, nextId \in Nat \ {0}, clock \in Nat
    <3>. QED BY <2>2, <3>1, <3>2
  <2>8. OpenTypes(tbl, next, t)
    BY <1>1, <2>2, <2>6, <2>7 DEF OpenTypes
  <2>9. OwnIds(tbl)
    <3>1. \A x \in DOMAIN table : tbl[x].id # nextId
      BY <1>1, <2>2
    <3>. QED BY <2>2, <2>5, <3>1 DEF OwnIds
  <2>10. Behind(s, tbl)
    <3> SUFFICES ASSUME NEW x \in DOMAIN tbl, NEW i \in 1..Len(s), s[i].id = tbl[x].id
                 PROVE  Earlier(s[i], TableRow(x, tbl[x], FALSE))
      BY DEF Behind
    <3>1. s[i].id # nextId
      OBVIOUS
    <3>2. x \in DOMAIN table
      BY <2>2, <2>5, <3>1
    <3>. QED BY <1>4, <2>2, <3>2
  <2>. QED BY <1>3, <2>8, <2>9, <2>10 DEF tbl
<1>. QED BY <1>5, <1>6 DEF tbl

LEMMA TakePacketRecord ==
    ASSUME RecordInv, TakePacket
    PROVE  RecordInv'
<1>1. /\ todo = <<>> /\ packets < setup.packets /\ packets' = packets + 1
      /\ setup' = setup /\ records' = records /\ sent' = sent /\ stage' = stage /\ rejected' = rejected
      /\ UNCHANGED storeVars
  BY DEF TakePacket, At, inputs, beside, Quiet
<1>2. PICK c \in setup.convs, t \in {clock, clock + 1} :
        /\ clock' = t /\ nextId' = (IF c \in DOMAIN table THEN nextId ELSE nextId + 1)
        /\ \/ table' = Folded(c, t) /\ UNCHANGED todo
           \/ \E d \in DOMAIN Folded(c, t) :
                \/ /\ todo' = <<TableRow(d, Folded(c, t)[d], TRUE)>>
                   /\ table' = Restrict(Folded(c, t), DOMAIN Folded(c, t) \ {d})
                \/ todo' = <<TableRow(d, Folded(c, t)[d], FALSE)>> /\ table' = Folded(c, t)
  BY DEF TakePacket
<1>3. /\ stage = "store" /\ Pending = <<>> /\ Stream = Joined(TheLog, <<>>)
      /\ Stream \in Seq(Row) /\ Len(Stream) \in Nat
      /\ \A i \in 1..Len(Stream) : Stream[i] \in Row /\ Stream[i].from \in Nat
      /\ Orderly(Stream, table, nextId, Handled) /\ OwnIds(table) /\ OpenTypes(table, nextId, clock)
      /\ nextId \in Nat \ {0} /\ nextId <= 1 + packets + Handled /\ Handled \in Nat
      /\ packets \in Nat /\ packets <= setup.packets /\ clock \in Nat
  BY <1>1, AtRest
<1>4. /\ Len(setup.feed) \in Nat /\ setup.packets \in Nat /\ setup.convs \subseteq Convs
      /\ 1..(setup.packets + Len(setup.feed)) \subseteq Ids
      /\ Len(records) \in Nat /\ Handled + Len(records) = sent
  BY SetupFacts DEF RecordInv
<1>5. PipeTypes /\ sent <= Len(setup.feed) /\ sent \in Nat
  BY DEF RecordInv, PipeTypes
<1>6. PICK tbl, next, s : tbl = Folded(c, t) /\ next = nextId' /\ s = Stream
  OBVIOUS
<1>7. /\ OpenTypes(tbl, next, t) /\ OwnIds(tbl) /\ Behind(s, tbl)
      /\ next \in Nat \ {0} /\ nextId <= next /\ next <= nextId + 1
  <2>1. Behind(s, table) /\ \A i \in 1..Len(s) : s[i] \in Row /\ s[i].id \in 1..(nextId - 1)
    BY <1>3, <1>6 DEF Orderly
  <2>2. c \in Convs /\ next = (IF c \in DOMAIN table THEN nextId ELSE nextId + 1)
    BY <1>2, <1>4, <1>6
  <2>3. /\ OpenTypes(Folded(c, t), next, t) /\ OwnIds(Folded(c, t)) /\ Behind(s, Folded(c, t))
        /\ next \in Nat \ {0} /\ nextId <= next /\ next <= nextId + 1
    BY ONLY <1>3, <2>1, <2>2, t \in {clock, clock + 1}, FoldedFacts
  <2>. QED BY <1>6, <2>3
<1>8. Handled' = Handled
  BY <1>1 DEF Handled
<1>9. next <= 1 + packets' + Handled /\ packets' \in Nat /\ packets' <= setup.packets
  BY <1>1, <1>3, <1>4, <1>7
<1>10. \A i \in 1..Len(s) : s[i].from <= Handled /\ s[i].from \in Nat
  BY <1>3, <1>6 DEF Orderly
<1>11. ASSUME NEW rows \in Seq(Row), rows = todo', NEW tbl2, tbl2 = table',
              DOMAIN tbl2 \subseteq DOMAIN tbl, tbl2 \in [DOMAIN tbl2 -> OpenFlows], \A x \in DOMAIN tbl2 : tbl2[x] = tbl[x],
              Coming(s, rows, tbl2, next, Handled), \A k \in 1..Len(rows) : rows[k].from = 0
       PROVE  RecordInv'
  <2>1. /\ Pending' = todo' /\ TheLog' = TheLog /\ Grown(s, rows, Stream')
        /\ RingAndHistories' /\ VerdictsFollow' /\ evicted' = evicted /\ expired' = expired
    BY <1>1, <1>6, <1>11, RowsCome
  <2>2. OwnIds(tbl2) /\ Behind(s, tbl2) /\ OpenTypes(tbl2, next, t)
    <3>1. OwnIds(tbl2)
      BY ONLY <1>7, <1>11 DEF OwnIds
    <3>2. Behind(s, tbl2)
      BY ONLY <1>7, <1>11 DEF Behind
    <3>3. OpenTypes(tbl2, next, t)
      BY ONLY <1>7, <1>11 DEF OpenTypes
    <3>. QED BY <3>1, <3>2, <3>3
  <2>3. Orderly(Stream', tbl2, next, Handled)
    <3>1. PICK z : z = Stream'
      OBVIOUS
    <3>2. /\ Grown(s, rows, z) /\ Orderly(s, table, nextId, Handled) /\ nextId \in Nat /\ next \in Nat /\ Handled <= Handled
          /\ \A i \in 1..Len(s) : s[i].from \in Nat
      BY <1>3, <1>6, <1>7, <2>1, <3>1
    <3>3. Orderly(z, tbl2, next, Handled)
      BY ONLY <1>3, <1>7, <1>11, <2>2, <3>2, GrownOrderly
    <3>. QED BY <3>1, <3>3
  <2>4. FlowsApart'
    BY <1>6, <1>8, <1>11, <2>2, <2>3 DEF FlowsApart
  <2>5. PipeTypes'
    <3>1. t \in Nat
      BY <1>3
    <3>2. stage' \in {"store", "score", "notify"} /\ (stage' # "store" => todo' # <<>>)
      BY <1>1, <1>3
    <3>3. OpenTypes(table', nextId', clock')
      BY <1>2, <1>6, <1>11, <2>2
    <3>. QED BY <1>1, <1>2, <1>5, <1>6, <1>7, <1>8, <1>9, <1>11, <3>1, <3>2, <3>3 DEF PipeTypes
  <2>6. RecordsOnce'
    <3>1. /\ evicted + expired = 0 =>
                \A k \in 1..Handled : ~ Neither(k) => \E i \in 1..Len(s) : s[i].from = k
          /\ rejected = Cardinality({k \in 1..Handled : Neither(k)})
      BY <1>6 DEF RecordInv, RecordsOnce
    <3>2. \A i \in 1..Len(s) : Stream'[i] = s[i] /\ i \in 1..Len(Stream')
      BY <2>1 DEF Grown
    <3>3. \A k \in 1..Len(todo') : todo'[k].from <= Handled
      BY <1>3, <1>11
    <3>. QED BY <1>1, <1>8, <2>1, <3>1, <3>2, <3>3 DEF RecordsOnce, Neither
  <2>. QED BY <2>1, <2>4, <2>5, <2>6 DEF RecordInv
<1>12. tbl \in [DOMAIN tbl -> OpenFlows] /\ \A x \in DOMAIN tbl : tbl[x] \in OpenFlows /\ tbl[x].id \in 1..(next - 1)
  BY <1>7 DEF OpenTypes
<1>13. CASE table' = tbl /\ todo' = todo
  <2>1. PICK rows : rows = <<>> /\ rows \in Seq(Row) /\ Len(rows) = 0
    BY EmptySeq
  <2>2. Coming(s, rows, tbl, next, Handled)
    BY ONLY <2>1 DEF Coming
  <2>3. rows = todo'
    BY <1>1, <1>13, <2>1
  <2>4. PICK tbl2 : tbl2 = table' /\ tbl2 = tbl
    BY <1>13
  <2>5. /\ DOMAIN tbl2 \subseteq DOMAIN tbl /\ tbl2 \in [DOMAIN tbl2 -> OpenFlows]
        /\ \A x \in DOMAIN tbl2 : tbl2[x] = tbl[x]
        /\ Coming(s, rows, tbl2, next, Handled) /\ \A k \in 1..Len(rows) : rows[k].from = 0
    BY ONLY <1>12, <2>1, <2>2, <2>4
  <2>. QED BY ONLY <1>11, <2>1, <2>3, <2>4, <2>5
<1>14. ASSUME NEW d \in DOMAIN tbl, NEW b \in BOOLEAN, todo' = <<TableRow(d, tbl[d], b)>>,
              table' = IF b THEN Restrict(tbl, DOMAIN tbl \ {d}) ELSE tbl
       PROVE  RecordInv'
  <2>1. PICK row : row = TableRow(d, tbl[d], b)
    OBVIOUS
  <2>2. row = [id |-> tbl[d].id, conv |-> d, terminal |-> b, ts |-> tbl[d].ts, bytes |-> tbl[d].bytes, from |-> 0]
    BY <2>1 DEF TableRow
  <2>3. tbl[d] \in OpenFlows /\ tbl[d].id \in 1..(next - 1) /\ d \in Convs
    BY <1>7, <1>12 DEF OpenTypes
  <2>4. row \in Row /\ row.id = tbl[d].id /\ row.from = 0
    <3>1. tbl[d].id \in 1..(setup.packets + Len(setup.feed))
      <4>1. \A n, p, h, r, f, q, u \in Nat : n <= 1 + p + h /\ p <= q /\ h + r = u /\ u <= f => n - 1 <= q + f
        OBVIOUS
      <4>2. next - 1 <= setup.packets + Len(setup.feed)
        BY ONLY <1>3, <1>4, <1>5, <1>7, <1>9, <4>1
      <4>3. setup.packets + Len(setup.feed) \in Nat /\ next \in Nat
        BY ONLY <1>4, <1>7
      <4>. QED BY ONLY <2>3, <4>2, <4>3
    <3>2. tbl[d].id \in Ids
      BY <1>4, <3>1
    <3>3. tbl[d].ts \in Nat /\ tbl[d].bytes \in Nat
      BY <2>3 DEF OpenFlows
    <3>. QED BY ONLY <2>2, <2>3, <3>2, <3>3, b \in BOOLEAN DEF Row
  <2>5. PICK rows \in Seq(Row) : rows = todo' /\ Len(rows) = 1 /\ rows[1] = row
    <3>1. <<row>> \in Seq(Row) /\ Len(<<row>>) = 1 /\ <<row>>[1] = row
      BY ONLY <2>4, OneRow
    <3>. QED BY <1>14, <2>1, <3>1
  <2>6. PICK tbl2 : /\ tbl2 = table' /\ DOMAIN tbl2 \subseteq DOMAIN tbl
                    /\ tbl2 \in [DOMAIN tbl2 -> OpenFlows] /\ \A x \in DOMAIN tbl2 : tbl2[x] = tbl[x]
                    /\ b => d \notin DOMAIN tbl2
    <3>1. CASE b
      <4>1. table' = [x \in DOMAIN tbl \ {d} |-> tbl[x]]
        BY <1>14, <3>1 DEF Restrict
      <4>2. /\ DOMAIN table' = DOMAIN tbl \ {d} /\ \A x \in DOMAIN tbl \ {d} : table'[x] = tbl[x]
            /\ table' \in [DOMAIN tbl \ {d} -> OpenFlows]
        BY ONLY <1>12, <4>1
      <4>. QED BY ONLY <4>2
    <3>2. CASE ~ b
      BY <1>12, <1>14, <3>2
    <3>. QED BY <3>1, <3>2
  <2>7. \A k \in 1..Len(rows) : rows[k] = row /\ k = 1
    BY <2>5
  <2>8. ASSUME NEW i \in 1..Len(s), s[i].id = row.id PROVE Earlier(s[i], row)
    <3>1. Earlier(s[i], TableRow(d, tbl[d], FALSE))
      BY <1>7, <2>4, <2>8 DEF Behind
    <3>. QED BY <2>2, <3>1 DEF Earlier, TableRow
  <2>9. ASSUME NEW x \in DOMAIN tbl2, row.id = tbl2[x].id PROVE Earlier(row, TableRow(x, tbl2[x], FALSE))
    <3>1. x = d /\ ~ b /\ tbl2[x] = tbl[d]
      BY <1>7, <2>4, <2>6, <2>9 DEF OwnIds
    <3>2. row = TableRow(x, tbl2[x], FALSE)
      <4>1. b = FALSE
        BY <3>1
      <4>. QED BY ONLY <2>1, <3>1, <4>1
    <3>3. ~ row.terminal /\ row.ts \in Nat
      BY ONLY <2>2, <2>4, <3>1 DEF Row
    <3>4. Earlier(row, row)
      BY ONLY <3>3 DEF Earlier
    <3>. QED BY ONLY <3>2, <3>4
  <2>10. Coming(s, rows, tbl2, next, Handled)
    <3>1. /\ row.id \in 1..(next - 1) /\ row.from <= Handled /\ ~ (row.from > 0)
          /\ \A k, l \in 1..Len(rows) : ~ (k < l)
      BY <1>3, <2>3, <2>4, <2>7
    <3>. QED BY ONLY <2>7, <2>8, <2>9, <3>1 DEF Coming
  <2>11. \A k \in 1..Len(rows) : rows[k].from = 0
    BY <2>4, <2>7
  <2>. QED BY ONLY <1>11, <2>5, <2>6, <2>10, <2>11
<1>15. CASE \E d \in DOMAIN tbl : todo' = <<TableRow(d, tbl[d], TRUE)>> /\ table' = Restrict(tbl, DOMAIN tbl \ {d})
  BY <1>14, <1>15
<1>16. CASE \E d \in DOMAIN tbl : todo' = <<TableRow(d, tbl[d], FALSE)>> /\ table' = tbl
  BY <1>14, <1>16
<1>. QED BY <1>2, <1>6, <1>13, <1>15, <1>16

LEMMA FlushRecord ==
    ASSUME RecordInv, Flush
    PROVE  RecordInv'
<1> DEFINE ids == [i \in 1..(nextId - 1) |-> i]
           at == {table[c].id : c \in DOMAIN table}
           open == Kept(ids, at)
           flow(id) == CHOOSE c \in DOMAIN table : table[c].id = id
<1>1. /\ todo = <<>> /\ packets' = packets /\ clock' = clock /\ nextId' = nextId /\ table' = <<>>
      /\ setup' = setup /\ records' = records /\ sent' = sent /\ stage' = stage /\ rejected' = rejected
      /\ UNCHANGED storeVars
      /\ todo' = [i \in DOMAIN open |-> TableRow(flow(open[i]), table[flow(open[i])], TRUE)]
  BY DEF Flush, At, inputs, beside, Quiet
<1>2. /\ stage = "store" /\ Pending = <<>> /\ Stream = Joined(TheLog, <<>>)
      /\ Stream \in Seq(Row) /\ Len(Stream) \in Nat
      /\ \A i \in 1..Len(Stream) : Stream[i] \in Row /\ Stream[i].from \in Nat
      /\ Orderly(Stream, table, nextId, Handled) /\ OwnIds(table) /\ OpenTypes(table, nextId, clock)
      /\ nextId \in Nat \ {0} /\ nextId <= 1 + packets + Handled /\ Handled \in Nat
      /\ packets \in Nat /\ packets <= setup.packets /\ clock \in Nat
  BY <1>1, AtRest
<1>3. /\ Len(setup.feed) \in Nat /\ setup.packets \in Nat
      /\ 1..(setup.packets + Len(setup.feed)) \subseteq Ids
      /\ Len(records) \in Nat /\ Handled + Len(records) = sent
  BY SetupFacts DEF RecordInv
<1>4. PipeTypes /\ sent <= Len(setup.feed) /\ sent \in Nat
  BY DEF RecordInv, PipeTypes
<1>5. \A c \in DOMAIN table : c \in Convs /\ table[c] \in OpenFlows /\ table[c].id \in 1..(nextId - 1)
  BY <1>2 DEF OpenTypes
<1>6. /\ ids \in Seq(Nat) /\ Len(ids) = nextId - 1 /\ \A i \in 1..(nextId - 1) : ids[i] = i
  <2>1. ids \in [1..(nextId - 1) -> Nat] /\ \A i \in 1..(nextId - 1) : ids[i] = i
    BY <1>2
  <2>2. nextId - 1 \in Nat
    BY <1>2
  <2> HIDE DEF ids
  <2>. QED BY ONLY <2>1, <2>2, IsASeq, LenProperties
<1>7. at \in SUBSET (DOMAIN ids) /\ at \subseteq 1..(nextId - 1)
  BY <1>5
<1>8. \A p \in at : flow(p) \in DOMAIN table /\ table[flow(p)].id = p
  <2> SUFFICES ASSUME NEW p \in at PROVE flow(p) \in DOMAIN table /\ table[flow(p)].id = p
    OBVIOUS
  <2>1. \E c \in DOMAIN table : table[c].id = p
    OBVIOUS
  <2>. QED BY <2>1
<1> HIDE DEF ids, at, flow
<1>9. /\ open \in Seq(Nat) /\ Len(open) \in Nat
      /\ \A i \in 1..Len(open) : open[i] \in at
      /\ \A i, j \in 1..Len(open) : i < j => open[i] < open[j]
  <2>1. /\ Kept(ids, at) \in Seq(Nat)
        /\ Taken(at) \in [1..Len(Kept(ids, at)) -> at]
        /\ \A i \in 1..Len(Kept(ids, at)) : Kept(ids, at)[i] = ids[Taken(at)[i]]
        /\ \A i, j \in 1..Len(Kept(ids, at)) : i < j => Taken(at)[i] < Taken(at)[j]
    BY ONLY <1>6, <1>7, KeptFacts
  <2> HIDE DEF open
  <2>2. /\ open \in Seq(Nat) /\ Taken(at) \in [1..Len(open) -> at]
        /\ \A i \in 1..Len(open) : open[i] = ids[Taken(at)[i]]
        /\ \A i, j \in 1..Len(open) : i < j => Taken(at)[i] < Taken(at)[j]
    BY <2>1 DEF open
  <2>3. \A i \in 1..Len(open) : Taken(at)[i] \in at /\ Taken(at)[i] \in 1..(nextId - 1)
    BY ONLY <1>7, <2>2
  <2>4. \A i \in 1..Len(open) : open[i] = Taken(at)[i]
    BY ONLY <1>6, <2>2, <2>3
  <2>5. Len(open) \in Nat
    BY ONLY <2>2, LenProperties
  <2>. QED BY ONLY <2>2, <2>3, <2>4, <2>5
<1>10. DOMAIN open = 1..Len(open)
  BY <1>9, LenProperties
<1> HIDE DEF open
<1>11. ASSUME NEW i \in 1..Len(open)
       PROVE  /\ TableRow(flow(open[i]), table[flow(open[i])], TRUE) \in Row
              /\ TableRow(flow(open[i]), table[flow(open[i])], TRUE).id = open[i]
              /\ TableRow(flow(open[i]), table[flow(open[i])], TRUE).from = 0
  <2>1. PICK c \in DOMAIN table : c = flow(open[i]) /\ table[c].id = open[i]
    BY <1>8, <1>9
  <2>2. table[c] \in OpenFlows /\ c \in Convs /\ table[c].id \in 1..(nextId - 1)
    BY <1>5
  <2>3. table[c].id \in Ids
    <3>1. \A n, p, h, r, f, q, u \in Nat : n <= 1 + p + h /\ p <= q /\ h + r = u /\ u <= f => n - 1 <= q + f
      OBVIOUS
    <3>2. nextId - 1 <= setup.packets + Len(setup.feed)
      BY ONLY <1>2, <1>3, <1>4, <3>1
    <3>3. setup.packets + Len(setup.feed) \in Nat /\ nextId \in Nat
      BY ONLY <1>2, <1>3, SMTT(30)
    <3>4. table[c].id \in 1..(setup.packets + Len(setup.feed))
      BY ONLY <2>2, <3>2, <3>3
    <3>. QED BY <1>3, <3>4
  <2>4. table[c].ts \in Nat /\ table[c].bytes \in Nat
    BY <2>2 DEF OpenFlows
  <2>5. TableRow(c, table[c], TRUE) \in Row
    BY ONLY <2>2, <2>3, <2>4 DEF TableRow, Row
  <2>6. TableRow(c, table[c], TRUE).id = open[i] /\ TableRow(c, table[c], TRUE).from = 0
    BY ONLY <2>1 DEF TableRow
  <2>. QED BY ONLY <2>1, <2>5, <2>6
<1>12. PICK rows \in Seq(Row) :
          /\ rows = todo' /\ Len(rows) = Len(open)
          /\ \A k \in 1..Len(open) : rows[k] = TableRow(flow(open[k]), table[flow(open[k])], TRUE)
  <2>1. PICK f : f = [i \in 1..Len(open) |-> TableRow(flow(open[i]), table[flow(open[i])], TRUE)]
    OBVIOUS
  <2>2. /\ f \in [1..Len(open) -> Row]
        /\ \A k \in 1..Len(open) : f[k] = TableRow(flow(open[k]), table[flow(open[k])], TRUE)
    BY ONLY <1>11, <2>1
  <2>3. f \in Seq(Row) /\ Len(f) = Len(open)
    BY ONLY <1>9, <2>2, IsASeq, LenProperties
  <2>4. f = todo'
    BY <1>1, <1>10, <2>1
  <2>. QED BY <2>2, <2>3, <2>4
<1>13. \A k \in 1..Len(rows) : rows[k].id = open[k] /\ rows[k].from = 0 /\ rows[k].id \in at
  BY <1>9, <1>11, <1>12
<1>14. ASSUME NEW i \in 1..Len(Stream), NEW k \in 1..Len(rows), Stream[i].id = rows[k].id
       PROVE  Earlier(Stream[i], rows[k])
  <2>1. PICK c \in DOMAIN table : c = flow(open[k]) /\ table[c].id = open[k]
    BY <1>8, <1>9, <1>12
  <2>2. Behind(Stream, table)
    BY <1>2 DEF Orderly
  <2>3. Earlier(Stream[i], TableRow(c, table[c], FALSE))
    BY <1>13, <1>14, <2>1, <2>2 DEF Behind
  <2>4. rows[k] = TableRow(c, table[c], TRUE)
    BY <1>12, <2>1
  <2>. QED BY ONLY <2>3, <2>4 DEF Earlier, TableRow
<1>15. PICK tbl2, s : tbl2 = table' /\ tbl2 = <<>> /\ s = Stream
  BY <1>1
<1>16. DOMAIN tbl2 = {}
  BY <1>15
<1>17. Coming(s, rows, tbl2, nextId, Handled)
  <2>1. \A k \in 1..Len(rows) : rows[k].id \in 1..(nextId - 1) /\ rows[k].from <= Handled /\ rows[k].from = 0
    BY <1>2, <1>7, <1>13
  <2>2. \A k, l \in 1..Len(rows) : k < l => rows[k].id # rows[l].id
    <3> SUFFICES ASSUME NEW k \in 1..Len(rows), NEW l \in 1..Len(rows), k < l PROVE rows[k].id # rows[l].id
      OBVIOUS
    <3>1. open[k] < open[l] /\ open[k] \in Nat /\ open[l] \in Nat
      <4>1. k \in 1..Len(open) /\ l \in 1..Len(open)
        BY <1>12
      <4>2. open[k] \in 1..(nextId - 1) /\ open[l] \in 1..(nextId - 1)
        BY ONLY <1>7, <1>9, <4>1
      <4>3. \A i, j \in 1..Len(open) : i < j => open[i] < open[j]
        BY ONLY <1>9
      <4>4. open[k] < open[l]
        BY ONLY <4>1, <4>3, k < l
      <4>5. open[k] \in Nat /\ open[l] \in Nat
        BY ONLY <4>2
      <4>. QED BY ONLY <4>4, <4>5
    <3>. QED BY <1>13, <3>1
  <2>3. \A k \in 1..Len(rows) : ~ (rows[k].from > 0)
    BY <2>1
  <2>. QED BY ONLY <1>14, <1>15, <1>16, <2>1, <2>2, <2>3 DEF Coming
<1>18. /\ Pending' = todo' /\ TheLog' = TheLog /\ Grown(s, rows, Stream')
       /\ RingAndHistories' /\ VerdictsFollow' /\ evicted' = evicted /\ expired' = expired
  BY <1>1, <1>12, <1>15, RowsCome
<1>19. Orderly(Stream', tbl2, nextId, Handled)
  <2>1. PICK z : z = Stream'
    OBVIOUS
  <2>2. Behind(s, tbl2)
    BY <1>16 DEF Behind
  <2>3. /\ Grown(s, rows, z) /\ Orderly(s, table, nextId, Handled) /\ nextId \in Nat /\ nextId <= nextId
        /\ Handled <= Handled /\ \A i \in 1..Len(s) : s[i].from \in Nat
    BY <1>2, <1>15, <1>18, <2>1
  <2>4. Orderly(z, tbl2, nextId, Handled)
    BY ONLY <1>2, <1>17, <2>2, <2>3, GrownOrderly
  <2>. QED BY <2>1, <2>4
<1>20. Handled' = Handled
  BY <1>1 DEF Handled
<1>21. FlowsApart'
  <2>1. OwnIds(tbl2)
    BY <1>16 DEF OwnIds
  <2>. QED BY <1>1, <1>15, <1>19, <1>20, <2>1 DEF FlowsApart
<1>22. PipeTypes'
  <2>1. OpenTypes(table', nextId', clock')
    <3>1. <<>> \in Seq(OpenFlows) /\ DOMAIN <<>> = {}
      BY EmptySeq
    <3>2. <<>> \in [DOMAIN <<>> -> OpenFlows]
      <4>1. <<>> \in [1..Len(<<>>) -> OpenFlows] /\ 1..Len(<<>>) = DOMAIN <<>>
        BY ONLY <3>1, LenProperties
      <4>. QED BY ONLY <4>1
    <3>. QED BY ONLY <1>1, <3>1, <3>2 DEF OpenTypes
  <2>2. stage' \in {"store", "score", "notify"} /\ (stage' # "store" => todo' # <<>>)
    BY <1>1, <1>2
  <2>. QED BY <1>1, <1>4, <1>12, <1>20, <2>1, <2>2 DEF PipeTypes
<1>23. RecordsOnce'
  <2>1. /\ evicted + expired = 0 =>
              \A k \in 1..Handled : ~ Neither(k) => \E i \in 1..Len(s) : s[i].from = k
        /\ rejected = Cardinality({k \in 1..Handled : Neither(k)})
    BY <1>15 DEF RecordInv, RecordsOnce
  <2>2. \A i \in 1..Len(s) : Stream'[i] = s[i] /\ i \in 1..Len(Stream')
    BY <1>18 DEF Grown
  <2>3. \A k \in 1..Len(todo') : todo'[k].from <= Handled
    BY <1>2, <1>12, <1>13
  <2>. QED BY <1>1, <1>18, <1>20, <2>1, <2>2, <2>3 DEF RecordsOnce, Neither
<1>. QED BY <1>18, <1>21, <1>22, <1>23 DEF RecordInv

\* Ring, histories and counters stay in order and in step with one another, and the rows
\* stored and the rows on their way stay one stream in which a flow's times rise and a
\* terminal row is its flow's last (storage/memstore.go, pipeline/pipeline.go publish).
THEOREM RecordIsKept == Spec => []RecordInv
<1>1. Init => RecordInv
  BY InitRecord
<1>2. RecordInv /\ [Next]_vars => RecordInv'
  <2> SUFFICES ASSUME RecordInv, [Next]_vars PROVE RecordInv'
    OBVIOUS
  <2>1. CASE Sensors
    BY <2>1, SensorsRecord
  <2>2. CASE Publish
    BY <2>2, StoreRowRecord, ScoreRowRecord, NotifyRecord DEF Publish
  <2>3. CASE TakeRecord \/ DrainRecord
    <3>1. /\ todo = <<>> /\ records # <<>> /\ OnRecord(Head(records)) /\ records' = Tail(records)
          /\ UNCHANGED storeVars /\ UNCHANGED <<setup, sent, stage, table, clock, packets>>
      BY <2>3 DEF TakeRecord, DrainRecord, At, flowTable, beside, Quiet
    <3>. QED BY <3>1, RecordHandled
  <2>4. CASE RecordsEnd \/ LeaveLoop \/ DrainEnds \/ ToggleModels \/ Cancel
    <3>1. UNCHANGED storeVars /\ UNCHANGED pipelineState
      BY <2>4 DEF RecordsEnd, LeaveLoop, DrainEnds, ToggleModels, Cancel, Quiet, inputs, work, flowTable, beside, pipelineState
    <3>. QED BY <3>1, AllStill
  <2>5. CASE TakePacket
    BY <2>5, TakePacketRecord
  <2>6. CASE Flush
    BY <2>6, FlushRecord
  <2>7. CASE Sweep
    BY <2>7, SweepRecord
  <2>8. CASE CloseInsight \/ Aggregate \/ UNCHANGED vars
    <3>1. UNCHANGED storeVars /\ UNCHANGED pipeVars
      BY <2>8 DEF CloseInsight, Aggregate, vars
    <3>2. UNCHANGED pipelineState
      BY <3>1 DEF pipeVars, inputs, work, flowTable, beside, pipelineState
    <3>. QED BY <3>1, <3>2, AllStill
  <2>. QED BY <2>1, <2>2, <2>3, <2>4, <2>5, <2>6, <2>7, <2>8 DEF Next, PipelineStep
<1>. QED BY <1>1, <1>2, PTL DEF Spec

-----------------------------------------------------------------------------
(* What the invariant says of the views readers have of the store. *)

\* How many elements of an ascending sequence are at least as new as the i-th.
AsNew(s, v) == {w \in Range(s) : v.seq <= w.seq}

LEMMA AscendingRank ==
    ASSUME NEW X, Numbered(X), NEW s \in Seq(X), Ascending(s), NEW i \in 1..Len(s)
    PROVE  Cardinality(AsNew(s, s[i])) = Len(s) - i + 1
<1>1. /\ Len(s) \in Nat /\ Range(s) = {s[j] : j \in 1..Len(s)}
      /\ \A j \in 1..Len(s) : s[j].seq \in Nat
  BY InRange, ElementOfSeq DEF Numbered
<1> DEFINE n == Len(s)
           f == [j \in i..n |-> s[j]]
<1>2. n \in Nat /\ i \in 1..n /\ i..n \subseteq 1..n
  BY <1>1
<1>3. \A j, k \in 1..n : j < k => s[j].seq < s[k].seq
  BY DEF Ascending
<1> HIDE DEF n
<1>4. \A j \in i..n : s[i].seq <= s[j].seq
  <2> SUFFICES ASSUME NEW j \in i..n PROVE s[i].seq <= s[j].seq
    OBVIOUS
  <2>1. j \in 1..n /\ (i = j \/ i < j)
    BY <1>2
  <2>2. s[i].seq \in Nat /\ s[j].seq \in Nat
    BY <1>1, <1>2, <2>1 DEF n
  <2>3. CASE i = j
    BY <2>2, <2>3
  <2>4. CASE i < j
    BY <1>2, <1>3, <2>1, <2>2, <2>4
  <2>. QED BY <2>1, <2>3, <2>4
<1>5. \A j \in 1..n : s[i].seq <= s[j].seq => j \in i..n
  <2> SUFFICES ASSUME NEW j \in 1..n, s[i].seq <= s[j].seq PROVE j \in i..n
    OBVIOUS
  <2>1. s[i].seq \in Nat /\ s[j].seq \in Nat
    BY <1>1, <1>2 DEF n
  <2>2. ~ (j < i)
    BY <1>2, <1>3, <2>1
  <2>. QED BY <1>2, <2>2
<1>6. \A j, k \in i..n : s[j] = s[k] => j = k
  <2> SUFFICES ASSUME NEW j \in i..n, NEW k \in i..n, s[j] = s[k] PROVE j = k
    OBVIOUS
  <2>1. j \in 1..n /\ k \in 1..n /\ s[j].seq \in Nat
    BY <1>1, <1>2 DEF n
  <2>2. ~ (j < k) /\ ~ (k < j)
    BY <1>3, <2>1
  <2>. QED BY <2>1, <2>2
<1>7. AsNew(s, s[i]) = {s[j] : j \in i..n}
  BY <1>1, <1>2, <1>4, <1>5 DEF AsNew, n
<1>8. f \in Bijection(i..n, {s[j] : j \in i..n})
  BY <1>6 DEF Bijection, Injection, Surjection, IsInjective
<1>9. ExistsBijection(i..n, {s[j] : j \in i..n})
  BY <1>8 DEF ExistsBijection
<1>10. IsFiniteSet(i..n) /\ Cardinality(i..n) = n - i + 1
  BY <1>2, FS_Interval
<1>. QED BY ONLY <1>7, <1>9, <1>10, FS_Bijection DEF n

LEMMA ReverseReads ==
    ASSUME NEW X, NEW s \in Seq(X)
    PROVE  /\ Reverse(s) \in Seq(X) /\ Len(Reverse(s)) = Len(s) /\ Len(s) \in Nat
           /\ \A i \in 1..Len(s) : Reverse(s)[i] = s[Len(s) - i + 1]
<1> DEFINE n == Len(s)
           r == Reverse(s)
<1>1. n \in Nat /\ \A i \in 1..n : s[i] \in X
  BY LenProperties, ElementOfSeq
<1>2. r = [i \in 1..n |-> s[(n - i) + 1]]
  BY DEF Reverse
<1> HIDE DEF n, r
<1>3. \A i \in 1..n : (n - i) + 1 \in 1..n
  BY <1>1
<1>4. r \in [1..n -> X] /\ \A i \in 1..n : r[i] = s[n - i + 1]
  BY <1>1, <1>2, <1>3
<1>. QED BY <1>1, <1>4, IsASeq, LenProperties DEF n, r

LEMMA SuffixReads ==
    ASSUME NEW X, NEW s \in Seq(X), NEW t \in Seq(X), Len(s) <= Len(t),
           \A i \in 1..Len(s) : s[i] = t[Len(t) - Len(s) + i]
    PROVE  IsSuffix(s, t)
<1>1. /\ Reverse(s) \in Seq(X) /\ Len(Reverse(s)) = Len(s) /\ Len(s) \in Nat
      /\ Reverse(t) \in Seq(X) /\ Len(Reverse(t)) = Len(t) /\ Len(t) \in Nat
      /\ \A i \in 1..Len(s) : Reverse(s)[i] = s[Len(s) - i + 1]
      /\ \A i \in 1..Len(t) : Reverse(t)[i] = t[Len(t) - i + 1]
  BY ReverseReads
<1>2. \A i \in 1..Len(s) : Reverse(s)[i] = Reverse(t)[i]
  <2> SUFFICES ASSUME NEW i \in 1..Len(s) PROVE Reverse(s)[i] = Reverse(t)[i]
    OBVIOUS
  <2>1. Len(s) - i + 1 \in 1..Len(s) /\ i \in 1..Len(t)
    BY <1>1
  <2>2. Len(t) - Len(s) + (Len(s) - i + 1) = Len(t) - i + 1
    BY <1>1
  <2>3. s[Len(s) - i + 1] = t[Len(t) - Len(s) + (Len(s) - i + 1)]
    BY <2>1
  <2>. QED BY <1>1, <2>1, <2>2, <2>3
<1>3. SubSeq(Reverse(s), 1, Len(s)) = SubSeq(Reverse(t), 1, Len(s))
  <2>1. /\ SubSeq(Reverse(s), 1, Len(s)) = [i \in 1..Len(s) |-> Reverse(s)[i]]
        /\ SubSeq(Reverse(t), 1, Len(s)) = [i \in 1..Len(s) |-> Reverse(t)[i]]
    BY <1>1
  <2>. QED BY <1>2, <2>1
<1>. QED BY <1>1, <1>3 DEF IsSuffix, IsPrefix

\* The newest of an ascending sequence, in their order, are the end of it.
LEMMA NewestAreSuffix ==
    ASSUME NEW X, Numbered(X), NEW s \in Seq(X), Ascending(s), NEW h \in Seq(X), Ascending(h),
           Range(h) \subseteq Range(s),
           \A v \in Range(h), w \in Range(s) : v.seq <= w.seq => w \in Range(h)
    PROVE  IsSuffix(h, s)
<1>1. /\ Len(s) \in Nat /\ Range(s) = {s[j] : j \in 1..Len(s)}
      /\ Len(h) \in Nat /\ Range(h) = {h[j] : j \in 1..Len(h)}
  BY InRange
<1>2. ASSUME NEW i \in 1..Len(h)
      PROVE  Len(s) - Len(h) + i \in 1..Len(s) /\ h[i] = s[Len(s) - Len(h) + i]
  <2>1. h[i] \in Range(h)
    BY <1>1
  <2>2. PICK j \in 1..Len(s) : h[i] = s[j]
    BY <1>1, <2>1
  <2>3. AsNew(h, h[i]) = AsNew(s, s[j])
    BY <2>1, <2>2 DEF AsNew
  <2>4. Cardinality(AsNew(h, h[i])) = Len(h) - i + 1
    BY AscendingRank
  <2>5. Cardinality(AsNew(s, s[j])) = Len(s) - j + 1
    BY AscendingRank
  <2>6. j = Len(s) - Len(h) + i
    BY <1>1, <2>3, <2>4, <2>5
  <2>. QED BY <2>2, <2>6
<1>3. Len(h) <= Len(s)
  <2>1. CASE Len(h) = 0
    BY <1>1, <2>1
  <2>2. CASE Len(h) # 0
    <3>1. 1 \in 1..Len(h)
      BY <1>1, <2>2
    <3>2. Len(s) - Len(h) + 1 \in 1..Len(s)
      BY <1>2, <3>1
    <3>. QED BY <1>1, <3>2
  <2>. QED BY <2>1, <2>2
<1>. QED BY <1>2, <1>3, SuffixReads

LEMMA VersionsOfFacts ==
    ASSUME TheLog \in Seq(Versions), Ascending(TheLog), NEW id
    PROVE  /\ VersionsOf(id) \in Seq(Versions) /\ Ascending(VersionsOf(id))
           /\ Range(VersionsOf(id)) = {v \in Range(TheLog) : v.rec.id = id}
<1> DEFINE at == {i \in DOMAIN TheLog : TheLog[i].rec.id = id}
<1>1. at \in SUBSET (DOMAIN TheLog) /\ DOMAIN TheLog = 1..Len(TheLog) /\ Range(TheLog) = {TheLog[i] : i \in 1..Len(TheLog)}
  BY InRange
<1>2. {TheLog[i] : i \in at} = {v \in Range(TheLog) : v.rec.id = id}
  BY <1>1
<1>3. VersionsOf(id) = Kept(TheLog, at)
  BY DEF VersionsOf
<1> HIDE DEF at
<1>4. /\ Kept(TheLog, at) \in Seq(Versions) /\ Ascending(Kept(TheLog, at))
      /\ Range(Kept(TheLog, at)) = {TheLog[i] : i \in at}
  BY ONLY <1>1, TheLog \in Seq(Versions), Ascending(TheLog), AscendingKept
<1>. QED BY <1>2, <1>3, <1>4

LEMMA HistoriesAreSuffixes ==
    ASSUME RingAndHistories
    PROVE  HistoryIsRingSuffix
<1>1. /\ StoreTypes /\ Ascending(TheLog) /\ TheLog \in Seq(Versions) /\ Counted
      /\ hist \in [Ids -> Seq(Versions)]
  BY TheLogFacts DEF RingAndHistories, InNumberOrder, StoreTypes
<1>2. ASSUME NEW id \in Ids
      PROVE  /\ IsSuffix(hist[id], VersionsOf(id))
             /\ hist[id] = <<>> => VersionsOf(id) = <<>>
             /\ Len(hist[id]) <= HistCap
  <2>1. /\ VersionsOf(id) \in Seq(Versions) /\ Ascending(VersionsOf(id))
        /\ Range(VersionsOf(id)) = {v \in Range(TheLog) : v.rec.id = id}
    BY <1>1, VersionsOfFacts
  <2>2. Follows(hist[id], TheLog, id) /\ hist[id] \in Seq(Versions)
    BY <1>1 DEF RingAndHistories
  <2>3. IsSuffix(hist[id], VersionsOf(id))
    <3>1. Range(hist[id]) \subseteq Range(VersionsOf(id)) /\ Ascending(hist[id])
      BY <2>1, <2>2 DEF Follows
    <3>2. \A v \in Range(hist[id]), w \in Range(VersionsOf(id)) : v.seq <= w.seq => w \in Range(hist[id])
      BY <2>1, <2>2 DEF Follows
    <3>. QED BY ONLY <2>1, <2>2, <3>1, <3>2, VersionsNumbered, NewestAreSuffix
  <2>4. hist[id] = <<>> => VersionsOf(id) = <<>>
    BY <2>1, <2>2, InRange DEF Follows
  <2>. QED BY <2>2, <2>3, <2>4 DEF Follows
<1>. QED BY <1>1, <1>2 DEF HistoryIsRingSuffix, Counted

LEMMA OneFlowUnderAnId ==
    ASSUME RecordInv
    PROVE  OneFlowPerId
<1>1. /\ TheLog \in Seq(Versions) /\ Len(TheLog) \in Nat /\ DOMAIN TheLog = 1..Len(TheLog)
      /\ Len(Stream) = Len(TheLog) + Len(Pending) /\ Len(Pending) \in Nat
      /\ \A i \in 1..Len(TheLog) : Stream[i] = TheLog[i].rec
  BY StreamFacts, InRange
<1>2. ASSUME NEW i \in DOMAIN TheLog, NEW j \in DOMAIN TheLog, i < j, TheLog[i].rec.id = TheLog[j].rec.id
      PROVE  Earlier(TheLog[i].rec, TheLog[j].rec)
  <2>1. i \in 1..Len(Stream) /\ j \in 1..Len(Stream) /\ Stream[i] = TheLog[i].rec /\ Stream[j] = TheLog[j].rec
    BY <1>1
  <2>2. InTurn(Stream)
    BY DEF RecordInv, FlowsApart, Orderly
  <2>. QED BY <1>2, <2>1, <2>2 DEF InTurn
<1>3. RingLen(cls) + clsGone = IF todo # <<>> /\ stage = "score" THEN flowSeq - 1 ELSE flowSeq
  BY DEF RecordInv, VerdictsFollow, PipeTypes
<1>4. evicted + expired + clsGone = 0 =>
        \A i \in 1..RingLen(cls) : Reverse(RecentClassifications)[i].id = TheLog[i].rec.id
  BY DEF RecordInv, VerdictsFollow, InOrder, RecentClassifications
<1>. QED BY <1>2, <1>3, <1>4 DEF OneFlowPerId, Earlier

LEMMA RecordsAreSettled ==
    ASSUME RecordInv
    PROVE  RecordsSettle
<1> SUFFICES ASSUME evicted + expired = 0
             PROVE  /\ \A k \in 1..sent :
                          setup.feed[k].mode # "neither" => (k \in Numbers(records)) # (k \in FromRows)
                    /\ \A i, j \in DOMAIN TheLog :
                          i < j /\ TheLog[j].rec.from > 0 => TheLog[i].rec.from < TheLog[j].rec.from
                    /\ rejected = Cardinality({k \in 1..sent : setup.feed[k].mode = "neither" /\ k \notin Numbers(records)})
  BY DEF RecordsSettle
<1>1. /\ TheLog \in Seq(Versions) /\ Pending \in Seq(Row) /\ todo \in Seq(Row)
      /\ Len(TheLog) \in Nat /\ DOMAIN TheLog = 1..Len(TheLog) /\ DOMAIN todo = 1..Len(todo)
      /\ Len(Stream) = Len(TheLog) + Len(Pending) /\ Len(Pending) \in Nat
      /\ \A i \in 1..Len(TheLog) : Stream[i] = TheLog[i].rec
      /\ \A k \in 1..Len(Pending) : Stream[Len(TheLog) + k] = Pending[k]
  BY StreamFacts, InRange
<1>2. /\ Len(records) \in Nat /\ Handled \in Nat /\ Handled + Len(records) = sent /\ sent \in Nat
      /\ \A k \in 1..Len(setup.feed) : setup.feed[k].number = k
      /\ sent <= Len(setup.feed) /\ Len(setup.feed) \in Nat
      /\ DOMAIN records = 1..Len(records)
      /\ \A i \in 1..Len(records) : records[i] = setup.feed[Handled + i]
  BY SetupFacts, InRange DEF RecordInv, PipeTypes
<1>3. /\ \A i \in 1..Len(Stream) : Stream[i].from <= Handled
      /\ \A i \in 1..Len(todo) : todo[i].from <= Handled
      /\ FromsRise(Stream)
  BY DEF RecordInv, FlowsApart, Orderly, RecordsOnce
<1>4. /\ \A k \in 1..Handled : ~ Neither(k) => \E i \in 1..Len(Stream) : Stream[i].from = k
      /\ rejected = Cardinality({k \in 1..Handled : Neither(k)})
  BY DEF RecordInv, RecordsOnce
\* The channel holds the records sent and not handled yet.
<1>5. ASSUME NEW k \in 1..sent PROVE k \in Numbers(records) <=> Handled < k
  <2>1. ASSUME NEW i \in 1..Len(records) PROVE records[i].number = Handled + i /\ Handled < Handled + i
    <3>1. Handled + i \in 1..Len(setup.feed)
      BY <1>2
    <3>. QED BY <1>2, <3>1
  <2>2. ASSUME Handled < k PROVE k \in Numbers(records)
    <3>1. k - Handled \in 1..Len(records) /\ Handled + (k - Handled) = k
      BY <1>2, <2>2
    <3>2. records[k - Handled].number = k
      BY <2>1, <3>1
    <3>. QED BY <1>2, <3>1, <3>2 DEF Numbers
  <2>3. ASSUME k \in Numbers(records) PROVE Handled < k
    BY <1>2, <2>1, <2>3 DEF Numbers
  <2>. QED BY <2>2, <2>3
<1>6. ASSUME NEW k \in 1..sent, k \in FromRows PROVE k <= Handled
  <2>1. CASE \E i \in 1..Len(todo) : todo[i].from = k
    BY <1>3, <2>1
  <2>2. CASE \E i \in 1..Len(TheLog) : TheLog[i].rec.from = k
    <3>1. PICK i \in 1..Len(TheLog) : TheLog[i].rec.from = k
      BY <2>2
    <3>2. i \in 1..Len(Stream) /\ Stream[i].from = k
      BY <1>1, <3>1
    <3>. QED BY <1>3, <3>2
  <2>. QED BY <1>1, <1>6, <2>1, <2>2 DEF FromRows
<1>7. ASSUME NEW k \in 1..Handled, ~ Neither(k) PROVE k \in FromRows
  <2>1. PICK i \in 1..Len(Stream) : Stream[i].from = k
    BY <1>4, <1>7
  <2>2. CASE i <= Len(TheLog)
    <3>1. i \in 1..Len(TheLog) /\ TheLog[i].rec.from = k
      BY <1>1, <2>1, <2>2
    <3>. QED BY <1>1, <3>1 DEF FromRows
  <2>3. CASE ~ (i <= Len(TheLog))
    <3>1. i - Len(TheLog) \in 1..Len(Pending) /\ Len(TheLog) + (i - Len(TheLog)) = i
      BY <1>1, <2>3
    <3>2. Pending[i - Len(TheLog)].from = k
      BY <1>1, <2>1, <3>1
    <3>3. \A m \in 1..Len(Pending) : \E n \in 1..Len(todo) : Pending[m] = todo[n]
      <4>1. CASE Pending = todo
        BY <4>1
      <4>2. CASE Pending = Tail(todo) /\ todo # <<>>
        <5>1. /\ Len(Tail(todo)) = Len(todo) - 1 /\ Len(todo) \in Nat
              /\ \A m \in 1..Len(Tail(todo)) : Tail(todo)[m] = todo[m + 1]
          BY <1>1, <4>2, HeadTailProperties, LenProperties
        <5>2. \A m \in 1..Len(Tail(todo)) : m + 1 \in 1..Len(todo)
          BY <5>1
        <5>. QED BY <4>2, <5>1, <5>2
      <4>. QED BY <4>1, <4>2 DEF Pending, RecordInv, PipeTypes
    <3>. QED BY <1>1, <3>1, <3>2, <3>3 DEF FromRows
  <2>. QED BY <2>2, <2>3
<1>8. ASSUME NEW k \in 1..sent, setup.feed[k].mode # "neither"
      PROVE  (k \in Numbers(records)) # (k \in FromRows)
  <2>1. CASE Handled < k
    <3>1. ~ (k <= Handled)
      BY <1>2, <2>1
    <3>2. k \in Numbers(records) /\ k \notin FromRows
      BY <1>5, <1>6, <2>1, <3>1
    <3>. QED BY <3>2
  <2>2. CASE ~ (Handled < k)
    <3>1. k \in 1..Handled
      BY <1>2, <2>2
    <3>2. k \notin Numbers(records) /\ k \in FromRows
      BY <1>5, <1>7, <1>8, <2>2, <3>1 DEF Neither
    <3>. QED BY <3>2
  <2>. QED BY <2>1, <2>2
<1>9. ASSUME NEW i \in DOMAIN TheLog, NEW j \in DOMAIN TheLog, i < j, TheLog[j].rec.from > 0
      PROVE  TheLog[i].rec.from < TheLog[j].rec.from
  <2>1. i \in 1..Len(Stream) /\ j \in 1..Len(Stream) /\ Stream[i] = TheLog[i].rec /\ Stream[j] = TheLog[j].rec
    BY <1>1
  <2>. QED BY <1>3, <1>9, <2>1 DEF FromsRise
<1>10. {k \in 1..sent : setup.feed[k].mode = "neither" /\ k \notin Numbers(records)} = {k \in 1..Handled : Neither(k)}
  <2>1. ASSUME NEW k \in 1..sent PROVE k \notin Numbers(records) <=> k \in 1..Handled
    BY <1>2, <1>5
  <2>2. 1..Handled \subseteq 1..sent
    BY <1>2
  <2>. QED BY <2>1, <2>2 DEF Neither
<1>. QED BY <1>4, <1>8, <1>9, <1>10

\* The store is the record of what was published (MemStore and publish): whatever the
\* order of sensors, packets, evictions, sweeps and shutdown.
THEOREM StoreIsAlwaysTheRecord == Spec => []StoreIsTheRecord
<1>1. RecordInv => StoreIsTheRecord
  BY HistoriesAreSuffixes, OneFlowUnderAnId, RecordsAreSettled DEF RecordInv, StoreIsTheRecord
<1>. QED BY RecordIsKept, <1>1, PTL

-----------------------------------------------------------------------------
(* The store implements the log of FlowLog. *)

\* The versions vs as the log has them, those in on being listed.
Tag(v, on) == [seq |-> v.seq, rec |-> v.rec, listed |-> v \in on]
Tagged(vs, on) == {Tag(v, on) : v \in vs}
Distinct(vs) == \A v, w \in vs : v.seq = w.seq => v = w

LEMMA TagsTell ==
    ASSUME NEW vs \in SUBSET Versions, Distinct(vs), NEW on
    PROVE  /\ \A v, w \in vs : Tag(v, on) = Tag(w, on) => v = w
           /\ \A v \in vs : Tag(v, on).seq = v.seq /\ Tag(v, on).rec = v.rec /\ (Tag(v, on).listed <=> v \in on)
BY DEF Tag, Distinct

LEMMA TaggedSize ==
    ASSUME NEW vs \in SUBSET Versions, Distinct(vs), IsFiniteSet(vs), NEW on
    PROVE  Cardinality(Tagged(vs, on)) = Cardinality(vs)
<1> DEFINE f == [v \in vs |-> Tag(v, on)]
<1>1. \A v, w \in vs : Tag(v, on) = Tag(w, on) => v = w
  BY TagsTell
<1>2. f \in Bijection(vs, Tagged(vs, on))
  BY <1>1 DEF Tagged, Bijection, Injection, Surjection, IsInjective
<1>3. ExistsBijection(vs, Tagged(vs, on))
  BY <1>2 DEF ExistsBijection
<1>. QED BY ONLY <1>3, IsFiniteSet(vs), FS_Bijection

LEMMA TaggedOldest ==
    ASSUME NEW vs \in SUBSET Versions, Distinct(vs), NEW on,
           NEW v \in vs, \A w \in vs : v.seq <= w.seq
    PROVE  Log!Oldest(Tagged(vs, on)) = Tag(v, on)
<1> DEFINE A == Tagged(vs, on)
           first == Tag(v, on)
<1>1. /\ \A w \in vs : w.seq \in Nat
      /\ \A w \in vs : Tag(w, on).seq = w.seq
      /\ \A a \in A : \E w \in vs : a = Tag(w, on)
      /\ \A w \in vs : Tag(w, on) \in A
  BY TagsTell DEF Versions, Tagged
<1> HIDE DEF A
<1>2. first \in A /\ \A b \in A : first.seq <= b.seq
  BY <1>1
<1>3. ASSUME NEW a \in A, \A b \in A : a.seq <= b.seq PROVE a = first
  <2>1. PICK w \in vs : a = Tag(w, on)
    BY <1>1
  <2>2. w.seq <= v.seq /\ v.seq <= w.seq
    BY <1>1, <1>2, <1>3, <2>1
  <2>3. w.seq = v.seq
    BY <1>1, <2>2
  <2>. QED BY <2>1, <2>3 DEF Distinct
<1> HIDE DEF first
<1>4. (CHOOSE a \in A : \A b \in A : a.seq <= b.seq) = first
  BY ONLY <1>2, <1>3
<1>. QED BY <1>4 DEF Log!Oldest, A, first

LEMMA TaggedWithout ==
    ASSUME NEW vs \in SUBSET Versions, Distinct(vs), NEW on, NEW v \in vs
    PROVE  Tagged(vs, on) \ {Tag(v, on)} = Tagged(vs \ {v}, on)
BY TagsTell DEF Tagged

LEMMA TaggedListed ==
    ASSUME NEW vs \in SUBSET Versions, Distinct(vs), NEW on, NEW id
    PROVE  Log!Listed(Tagged(vs, on), id) = Tagged({v \in vs \cap on : v.rec.id = id}, on)
BY TagsTell DEF Tagged, Log!Listed

LEMMA TaggedUnlist ==
    ASSUME NEW vs \in SUBSET Versions, Distinct(vs), NEW on, NEW v \in vs, v \in on
    PROVE  Log!Unlist(Tagged(vs, on), Tag(v, on)) = Tagged(vs, on \ {v})
<1>1. /\ Tag(v, on \ {v}) = [seq |-> v.seq, rec |-> v.rec, listed |-> FALSE]
      /\ Tag(v, on).seq = v.seq /\ Tag(v, on).rec = v.rec
  <2>1. (v \in on \ {v}) = FALSE
    OBVIOUS
  <2>. QED BY <2>1 DEF Tag
<1>2. Tagged(vs, on) \ {Tag(v, on)} = Tagged(vs \ {v}, on)
  BY TaggedWithout
<1>3. Tagged(vs \ {v}, on) = Tagged(vs \ {v}, on \ {v})
  BY DEF Tagged, Tag
<1>4. Tagged(vs \ {v}, on \ {v}) \cup {Tag(v, on \ {v})} = Tagged(vs, on \ {v})
  BY DEF Tagged
<1>. QED BY <1>1, <1>2, <1>3, <1>4 DEF Log!Unlist

LEMMA TaggedAlike ==
    ASSUME NEW vs, NEW on, NEW on2, \A v \in vs : v \in on <=> v \in on2
    PROVE  Tagged(vs, on) = Tagged(vs, on2)
BY DEF Tagged, Tag

LEMMA TaggedMore ==
    ASSUME NEW vs, NEW on, NEW v, v \notin vs
    PROVE  Tagged(vs, on) \cup {[seq |-> v.seq, rec |-> v.rec, listed |-> TRUE]} = Tagged(vs \cup {v}, on \cup {v})
<1>1. Tagged(vs, on) = Tagged(vs, on \cup {v})
  BY TaggedAlike
<1>2. Tag(v, on \cup {v}) = [seq |-> v.seq, rec |-> v.rec, listed |-> TRUE]
  BY DEF Tag
<1>. QED BY <1>1, <1>2 DEF Tagged

LEMMA TaggedSince ==
    ASSUME NEW vs \in SUBSET Versions, Distinct(vs), NEW on, NEW t
    PROVE  {a \in Tagged(vs, on) : a.rec.ts >= t} = Tagged(vs \cap Since(t), on)
BY TagsTell DEF Tagged, Since

InHistories == {v \in Versions : v \in Range(hist[v.rec.id])}

LEMMA AbstractIsTagged ==
    ASSUME RingAndHistories
    PROVE  /\ AbstractLog = Tagged(Range(TheLog), InHistories)
           /\ Range(TheLog) \in SUBSET Versions /\ Distinct(Range(TheLog))
           /\ IsFiniteSet(Range(TheLog)) /\ Cardinality(Range(TheLog)) = Len(TheLog)
           /\ TheLog \in Seq(Versions) /\ Len(TheLog) = RingLen(flows)
<1>1. /\ TheLog \in Seq(Versions) /\ Ascending(TheLog) /\ Len(TheLog) = RingLen(flows)
  BY TheLogFacts DEF RingAndHistories, InNumberOrder
<1>2. Range(TheLog) \in SUBSET Versions
  BY <1>1, InRange
<1>3. Distinct(Range(TheLog))
  BY <1>1, VersionsNumbered, SameNumber DEF Distinct
<1>4. IsFiniteSet(Range(TheLog)) /\ Cardinality(Range(TheLog)) = Len(TheLog)
  BY <1>1, VersionsNumbered, AscendingSize
<1>5. AbstractLog = Tagged(Range(TheLog), InHistories)
  BY <1>2 DEF AbstractLog, Tagged, Tag, InHistories
<1>. QED BY <1>1, <1>2, <1>3, <1>4, <1>5

LEMMA SameCardinality == \A S : Log!Cardinality(S) = Cardinality(S)
BY DEF Log!Cardinality, Cardinality

LEMMA PutImplements ==
    ASSUME RingAndHistories, NEW row \in Row, PutFlow(row)
    PROVE  Log!Put(row)
<1>0. PICK v : v = [seq |-> flowSeq + 1, rec |-> row]
  OBVIOUS
<1>1. /\ RingAndHistories' /\ v \in Versions
      /\ flows.full => TheLog # <<>>
      /\ TheLog' = Append(IF flows.full THEN Tail(TheLog) ELSE TheLog, v)
      /\ Range(TheLog') = (Range(TheLog) \ Leaving) \cup {v}
      /\ \A w \in Range(TheLog) : w.seq < v.seq
      /\ EntersHistory(row.id, v)
      /\ \A x \in Ids : x # row.id => Range(hist'[x]) = Range(hist[x]) \ Leaving
  BY ONLY <1>0, RingAndHistories, PutFlow(row), row \in Row, PutFacts
<1> DEFINE L == Range(TheLog)
           H == InHistories
           id == row.id
<1>2. /\ AbstractLog = Tagged(L, H)
      /\ L \in SUBSET Versions /\ Distinct(L) /\ IsFiniteSet(L) /\ Cardinality(L) = Len(TheLog)
      /\ TheLog \in Seq(Versions) /\ Len(TheLog) = RingLen(flows)
  BY AbstractIsTagged
<1>3. AbstractLog' = Tagged(Range(TheLog)', InHistories')
  <2>1. Range(TheLog') \subseteq Versions
    BY <1>1, <1>2
  <2>. QED BY <2>1 DEF AbstractLog, Tagged, Tag, InHistories
<1>4. PICK h \in Seq(Versions) :
            /\ Range(h) = Range(hist[id]) \ Leaving /\ Ascending(h)
            /\ Range(hist'[id]) = (Range(h) \ Outgrown(h)) \cup {v}
            /\ Outgrown(h) \subseteq Range(h) /\ \A u \in Outgrown(h), w \in Range(h) : u.seq <= w.seq
  BY <1>1 DEF EntersHistory
<1>5. /\ hist \in [Ids -> Seq(Versions)] /\ flowSeq \in Nat /\ id \in Ids
      /\ Ascending(TheLog) /\ \A x \in Ids : Follows(hist[x], TheLog, x)
      /\ RingLen(flows) = IF flows.full THEN Cap ELSE flows.head
      /\ IsRing(flows, Cap, Versions)
  BY TheLogFacts DEF RingAndHistories, StoreTypes, InNumberOrder, Row
<1>6. flowSeq' = flowSeq + 1
  BY DEF PutFlow
<1>7. v.seq = flowSeq + 1 /\ v.rec = row
  BY <1>0
<1> HIDE DEF L, H
\* What a full ring gives up is the log's oldest.
<1> DEFINE kept == IF Cardinality(AbstractLog) = Cap THEN AbstractLog \ {Log!Oldest(AbstractLog)} ELSE AbstractLog
<1>8. kept = Tagged(L \ Leaving, H)
  <2>1. Cardinality(AbstractLog) = RingLen(flows)
    BY <1>2, TaggedSize
  <2>2. CASE flows.full
    <3>1. TheLog[1] \in L /\ \A w \in L : TheLog[1].seq <= w.seq
      BY <1>1, <1>2, <1>5, <2>2, VersionsNumbered, AscendingTail DEF L
    <3>2. Log!Oldest(AbstractLog) = Tag(TheLog[1], H)
      BY <1>2, <3>1, TaggedOldest
    <3>3. Tagged(L, H) \ {Tag(TheLog[1], H)} = Tagged(L \ {TheLog[1]}, H)
      BY <1>2, <3>1, TaggedWithout
    <3>. QED BY <1>2, <1>5, <2>1, <2>2, <3>2, <3>3 DEF Leaving
  <2>3. CASE ~ flows.full
    <3>1. RingLen(flows) # Cap
      BY <1>5, <2>3, CapsPositive DEF IsRing
    <3>2. L \ Leaving = L
      BY <2>3 DEF Leaving
    <3>. QED BY <1>2, <2>1, <3>1, <3>2
  <2>. QED BY <2>2, <2>3
<1> HIDE DEF kept
\* The listed versions of the flow are its history.
<1> DEFINE rest == L \ Leaving
           own == Log!Listed(kept, id)
<1>9. rest \in SUBSET Versions /\ Distinct(rest) /\ kept = Tagged(rest, H)
  BY <1>2, <1>8 DEF Distinct
<1>10. Range(h) \subseteq Versions /\ Range(h) \subseteq L
  BY <1>2, <1>4, <1>5 DEF Follows, L
<1>11. {w \in rest \cap H : w.rec.id = id} = Range(h)
  <2>1. ASSUME NEW w \in Range(h) PROVE w \in rest /\ w \in H /\ w.rec.id = id
    BY <1>4, <1>5, <1>10, <2>1 DEF Follows, H, InHistories
  <2>2. ASSUME NEW w \in rest, w \in H, w.rec.id = id PROVE w \in Range(h)
    BY <1>4, <2>2 DEF H, InHistories
  <2>. QED BY <2>1, <2>2
<1>12. Range(h) \in SUBSET Versions /\ Distinct(Range(h)) /\ IsFiniteSet(Range(h)) /\ Cardinality(Range(h)) = Len(h)
  <2>1. IsFiniteSet(Range(h)) /\ Cardinality(Range(h)) = Len(h)
    BY <1>4, VersionsNumbered, AscendingSize
  <2>. QED BY <1>2, <1>10, <2>1 DEF Distinct
<1>13. rest \cap Range(h) = Range(h) /\ Range(h) \subseteq H
  BY <1>11
<1> HIDE DEF rest
<1>14. own = Tagged(Range(h), H)
  BY <1>9, <1>11, TaggedListed
<1>15. Cardinality(own) = Len(h)
  BY <1>12, <1>14, TaggedSize
<1> HIDE DEF own
<1> DEFINE room == IF Cardinality(own) >= HistCap THEN Log!Unlist(kept, Log!Oldest(own)) ELSE kept
<1>16. room = Tagged(rest, H \ Outgrown(h))
  <2>1. CASE Len(h) >= HistCap
    <3>1. Outgrown(h) = {h[1]}
      BY <2>1 DEF Outgrown
    <3>2. h[1] \in Range(h) /\ (\A w \in Range(h) : h[1].seq <= w.seq) /\ h[1] \in rest /\ h[1] \in H
      BY <1>4, <1>13, <3>1
    <3>3. Log!Oldest(own) = Tag(h[1], H)
      BY <1>12, <1>14, <3>2, TaggedOldest
    <3>4. Log!Unlist(kept, Log!Oldest(own)) = Tagged(rest, H \ {h[1]})
      BY <1>9, <3>2, <3>3, TaggedUnlist
    <3>. QED BY <1>15, <2>1, <3>1, <3>4
  <2>2. CASE ~ (Len(h) >= HistCap)
    <3>1. H \ Outgrown(h) = H
      BY <2>2 DEF Outgrown
    <3>. QED BY <1>9, <1>15, <2>2, <3>1
  <2>. QED BY <2>1, <2>2
<1> HIDE DEF room
\* The new version enters both.
<1>17. v \notin rest
  <2>1. \A w \in rest : w.seq # v.seq
    <3>1. \A w \in rest : w \in L /\ w.seq \in Nat /\ v.seq \in Nat /\ w.seq < v.seq
      BY <1>1, <1>9, VersionsNumbered DEF rest, L, Numbered
    <3>. QED BY <3>1
  <2>. QED BY <2>1
<1>18. room \cup {[seq |-> flowSeq + 1, rec |-> row, listed |-> TRUE]}
       = Tagged(rest \cup {v}, (H \ Outgrown(h)) \cup {v})
  BY <1>7, <1>16, <1>17, TaggedMore
<1>19. \A w \in rest \cup {v} : w \in InHistories' <=> w \in (H \ Outgrown(h)) \cup {v}
  <2>1. v \in InHistories'
    BY <1>1, <1>4, <1>7 DEF InHistories
  <2>2. ASSUME NEW w \in rest PROVE w \in InHistories' <=> w \in H \ Outgrown(h)
    <3>1. w \in Versions /\ w # v /\ w \notin Leaving /\ w.rec.id \in Ids
      BY <1>9, <1>17, VersionsNumbered DEF rest
    <3>2. w \in InHistories' <=> w \in Range(hist'[w.rec.id])
      BY <3>1 DEF InHistories
    <3>3. w \in H <=> w \in Range(hist[w.rec.id])
      BY <3>1 DEF H, InHistories
    <3>4. CASE w.rec.id = id
      BY <1>4, <3>1, <3>2, <3>3, <3>4
    <3>5. CASE w.rec.id # id
      <4>1. w \notin Outgrown(h)
        BY <1>4, <1>11, <3>5
      <4>. QED BY <1>1, <3>1, <3>2, <3>3, <3>5, <4>1
    <3>. QED BY <3>4, <3>5
  <2>. QED BY <2>1, <2>2
<1>20. AbstractLog' = Tagged(rest \cup {v}, (H \ Outgrown(h)) \cup {v})
  <2>1. Range(TheLog)' = rest \cup {v}
    BY <1>1 DEF rest, L
  <2>2. Tagged(rest \cup {v}, InHistories') = Tagged(rest \cup {v}, (H \ Outgrown(h)) \cup {v})
    BY <1>19, TaggedAlike
  <2>. QED BY <1>3, <2>1, <2>2
<1>21. AbstractLog' = room \cup {[seq |-> flowSeq + 1, rec |-> row, listed |-> TRUE]}
  BY <1>18, <1>20
<1>. QED BY <1>6, <1>21, SameCardinality DEF Log!Put, room, own, kept

LEMMA PurgeImplements ==
    ASSUME RingAndHistories, Rises(TheLog), NEW t \in Nat, NEW u \in Nat, PurgeBefore(t, u)
    PROVE  /\ AbstractLog' = {a \in AbstractLog : a.rec.ts >= t} /\ flowSeq' = flowSeq
           /\ t = 0 => AbstractLog' = AbstractLog
<1> DEFINE L == Range(TheLog)
           H == InHistories
           L2 == Range(TheLog')
<1>1. /\ RingAndHistories'
      /\ Thinned(TheLog, TheLog', Since(t)) /\ TheLog' \in Seq(Versions)
      /\ \A id \in Ids : Range(hist'[id]) = Range(hist[id]) \cap L2
      /\ flowSeq' = flowSeq
  BY PurgeFacts
<1>2. /\ AbstractLog = Tagged(L, H) /\ L \in SUBSET Versions /\ Distinct(L) /\ TheLog \in Seq(Versions)
  BY AbstractIsTagged
<1>3. AbstractLog' = Tagged(Range(TheLog)', InHistories')
  <2>1. Range(TheLog') \subseteq Versions
    BY <1>1, InRange
  <2>. QED BY <2>1 DEF AbstractLog, Tagged, Tag, InHistories
<1>4. L2 = L \cap Since(t)
  BY ONLY <1>1, <1>2, ThinnedFacts
<1>5. \A w \in L2 : w \in InHistories' <=> w \in H
  <2> SUFFICES ASSUME NEW w \in L2 PROVE w \in InHistories' <=> w \in H
    OBVIOUS
  <2>1. w \in Versions /\ w.rec.id \in Ids
    BY <1>2, <1>4, VersionsNumbered
  <2>2. w \in InHistories' <=> w \in Range(hist'[w.rec.id])
    BY <2>1 DEF InHistories
  <2>. QED BY <1>1, <2>1, <2>2 DEF InHistories
<1>6. AbstractLog' = Tagged(L2, H)
  BY <1>3, <1>5, TaggedAlike
<1>7. {a \in Tagged(L, H) : a.rec.ts >= t} = Tagged(L \cap Since(t), H)
  BY <1>2, TaggedSince
<1>8. t = 0 => L \cap Since(t) = L
  <2>1. \A w \in Versions : w.rec.ts \in Nat
    BY DEF Versions, Row
  <2>. QED BY <1>2, <2>1 DEF Since
<1>. QED BY <1>1, <1>2, <1>4, <1>6, <1>7, <1>8

LEMMA StoreStillImplements ==
    ASSUME UNCHANGED <<flows, hist, flowSeq>>
    PROVE  AbstractLog' = AbstractLog /\ flowSeq' = flowSeq
<1>1. TheLog' = TheLog
  BY DEF TheLog, RecentFlows
<1>. QED BY <1>1 DEF AbstractLog

LEMMA StepImplementsLog ==
    ASSUME RecordInv, [Next]_vars
    PROVE  [Log!Next]_<<AbstractLog, flowSeq>>
<1>1. RingAndHistories /\ Rises(TheLog) /\ todo \in Seq(Row)
  BY StreamFacts DEF RecordInv
<1>2. CASE StoreRow
  <2>1. todo # <<>> /\ stage = "store" /\ PutFlow(Head(todo))
    BY <1>2 DEF StoreRow
  <2>2. Head(todo) \in Row
    BY <1>1, <2>1, HeadTailProperties
  <2>3. Log!Put(Head(todo))
    BY <1>1, <2>1, <2>2, PutImplements
  <2>. QED BY <2>1, <2>3 DEF Log!Next
<1>3. CASE Sweep
  <2>1. PICK t \in FirstTime..(MaxTime + 1) : PurgeBefore(t, 0) \/ PurgeBefore(0, t) \/ PurgeBefore(t, t)
    BY <1>3 DEF Sweep
  <2>2. t \in Nat /\ t \in 1..(MaxTime + 1)
    BY SetupsAssumption
  <2>3. CASE PurgeBefore(t, 0) \/ PurgeBefore(t, t)
    <3>1. AbstractLog' = {a \in AbstractLog : a.rec.ts >= t} /\ flowSeq' = flowSeq
      BY <1>1, <2>2, <2>3, PurgeImplements
    <3>. QED BY <2>2, <3>1 DEF Log!Next, Log!Purge
  <2>4. CASE PurgeBefore(0, t)
    <3>1. AbstractLog' = AbstractLog /\ flowSeq' = flowSeq
      BY <1>1, <2>2, <2>4, PurgeImplements
    <3>. QED BY <3>1
  <2>. QED BY <2>1, <2>3, <2>4
<1>4. CASE Sensors \/ ScoreRow \/ Notify \/ TakeRecord \/ RecordsEnd \/ TakePacket \/ LeaveLoop \/ DrainRecord
           \/ DrainEnds \/ Flush \/ ToggleModels \/ Cancel \/ CloseInsight \/ Aggregate \/ UNCHANGED vars
  <2>1. UNCHANGED <<flows, hist, flowSeq>>
    BY <1>4 DEF Sensors, ScoreRow, PutClassification, Notify, TakeRecord, RecordsEnd, TakePacket, LeaveLoop, DrainRecord,
                DrainEnds, Flush, ToggleModels, Cancel, CloseInsight, Aggregate, Quiet, storeVars, vars
  <2>2. AbstractLog' = AbstractLog /\ flowSeq' = flowSeq
    BY <2>1, StoreStillImplements
  <2>. QED BY <2>2
<1>. QED BY <1>2, <1>3, <1>4 DEF Next, PipelineStep, Publish

\* The ring and the histories of MemStore, as the pipeline and the retention sweep drive
\* them, are the log of FlowLog: its Put and its Purge and nothing else happens to them.
THEOREM StoreImplementsLog == Spec => ImplementsLog
<1>1. Init => Log!Init
  <2> SUFFICES ASSUME Init PROVE Log!Init
    OBVIOUS
  <2>1. RingAndHistories /\ flowSeq = 0 /\ RingLen(flows) = 0
    <3>1. RecordInv /\ flowSeq = 0 /\ flows.full = FALSE /\ flows.head = 0
      BY InitRecord DEF Init, StoreInit, Empty
    <3>. QED BY <3>1 DEF RecordInv, RingLen
  <2>2. TheLog = <<>>
    BY <2>1, AbstractIsTagged, EmptySeq
  <2>3. AbstractLog = {}
    BY <2>2 DEF AbstractLog, Range
  <2>. QED BY <2>1, <2>3 DEF Log!Init
<1>. QED BY <1>1, RecordIsKept, StepImplementsLog, PTL DEF Spec, ImplementsLog, Log!Spec

-----------------------------------------------------------------------------
(* The sequence windows. *)

\* A set of naturals has a least one: first-order, from the well-foundedness of <.
LEMMA LeastNumber ==
    ASSUME NEW T, T \subseteq Nat, T # {}
    PROVE  \E x \in T : \A y \in T : x <= y
<1> DEFINE R == {p \in Nat \X Nat : p[1] < p[2]}
<1>1. IsWellFoundedOn(R, Nat)
  <2>1. OpToRel(<, Nat) = R
    BY DEF OpToRel
  <2>. QED BY <2>1, NatLessThanWellFounded
<1>2. PICK x \in T : \A y \in T : ~ (<<y, x>> \in R)
  BY <1>1, WFMin
<1>3. \A y \in T : ~ (y < x)
  BY <1>2
<1>. QED BY <1>3

\* Of finitely many conversations one was heard of last: no other has as many before it.
LEMMA LatestOf ==
    ASSUME NEW D, IsFiniteSet(D), D # {}, NEW f, \A k \in D : f[k] \in Nat
    PROVE  \E k \in D : \A j \in D : f[j] <= f[k]
<1> DEFINE Le(k) == {j \in D : f[j] <= f[k]}
           rest == [k \in D |-> Cardinality(D) - Cardinality(Le(k))]
           T == {rest[k] : k \in D}
<1>1. \A k \in D : IsFiniteSet(Le(k)) /\ Cardinality(Le(k)) \in Nat /\ Cardinality(Le(k)) <= Cardinality(D)
  BY FS_Subset, FS_CardinalityType
<1>2. Cardinality(D) \in Nat
  BY FS_CardinalityType
<1> HIDE DEF Le
<1>3. T \subseteq Nat /\ T # {}
  BY <1>1, <1>2
<1>4. PICK k \in D : \A j \in D : rest[k] <= rest[j]
  <2>1. PICK x \in T : \A y \in T : x <= y
    BY <1>3, LeastNumber
  <2>. QED BY <2>1
<1>5. \A j \in D : Cardinality(Le(j)) <= Cardinality(Le(k))
  BY <1>1, <1>2, <1>4
<1>6. ASSUME NEW j \in D, ~ (f[j] <= f[k]) PROVE FALSE
  <2>1. Le(k) \in SUBSET Le(j) /\ j \in Le(j) /\ j \notin Le(k)
    BY <1>6 DEF Le
  <2>2. Cardinality(Le(k)) <= Cardinality(Le(j)) /\ Cardinality(Le(j)) # Cardinality(Le(k))
    BY <1>1, <2>1, FS_Subset
  <2>. QED BY <1>1, <1>5, <2>2
<1>. QED BY <1>6

Before(D, f, t) == {k \in D : f[k] < t}
Until(D, f, t) == {k \in D : f[k] <= t}

\* The time at a given place of the ascending list of them all.
LEMMA PlaceInList ==
    ASSUME NEW D, IsFiniteSet(D), NEW f \in [D -> Nat], NEW q \in Nat, q < Cardinality(D)
    PROVE  \E k \in D : Cardinality(Before(D, f, f[k])) <= q /\ Cardinality(Until(D, f, f[k])) > q
<1> DEFINE Le(t) == {k \in D : f[k] <= t}
           Lt(t) == {k \in D : f[k] < t}
           T == {f[k] : k \in {i \in D : Cardinality(Le(f[i])) > q}}
<1>1. \A t : /\ Le(t) \in SUBSET D /\ IsFiniteSet(Le(t)) /\ Cardinality(Le(t)) \in Nat
             /\ Lt(t) \in SUBSET D /\ IsFiniteSet(Lt(t)) /\ Cardinality(Lt(t)) \in Nat
  BY FS_Subset, FS_CardinalityType
<1>2. Cardinality(D) \in Nat /\ D # {}
  BY FS_CardinalityType, FS_EmptySet
<1>3. PICK last \in D : \A j \in D : f[j] <= f[last]
  BY <1>2, LatestOf
<1>4. Le(f[last]) = D
  BY <1>3
<1>5. T \subseteq Nat /\ T # {}
  BY <1>4
<1>6. PICK t \in T : \A y \in T : t <= y
  BY <1>5, LeastNumber
<1>7. t \in Nat /\ Cardinality(Le(t)) > q
  BY <1>5, <1>6
<1>8. Cardinality(Lt(t)) <= q
  <2> SUFFICES ASSUME Cardinality(Lt(t)) > q PROVE FALSE
    <3>1. Cardinality(Lt(t)) \in Nat
      BY <1>1
    <3> HIDE DEF Lt
    <3>. QED BY <3>1
  <2>1. Lt(t) # {}
    BY FS_EmptySet
  <2>2. PICK j \in Lt(t) : \A i \in Lt(t) : f[i] <= f[j]
    BY <1>1, <2>1, LatestOf
  <2>3. Lt(t) \in SUBSET Le(f[j]) /\ j \in D /\ f[j] < t
    BY <2>2
  <2>4. Cardinality(Lt(t)) <= Cardinality(Le(f[j]))
    BY <1>1, <2>3, FS_Subset
  <2>5. f[j] \in T
    <3>1. \A a, b : a \in Nat /\ b \in Nat /\ a > q /\ a <= b => b > q
      OBVIOUS
    <3>2. Cardinality(Le(f[j])) > q
      <4> HIDE DEF Le, Lt
      <4>. QED BY <1>1, <2>4, <3>1
    <3>. QED BY <2>3, <3>2
  <2>6. t <= f[j]
    BY <1>6, <2>5
  <2>. QED BY <1>7, <2>3, <2>6
<1>9. PICK k \in D : t = f[k]
  BY <1>6
<1>10. Before(D, f, t) = Lt(t) /\ Until(D, f, t) = Le(t)
  BY DEF Before, Until
<1> HIDE DEF Le, Lt, T
<1>. QED BY <1>7, <1>8, <1>9, <1>10

\* The greater of two, the lesser of two.
LEMMA OfTwo ==
    ASSUME NEW a \in Int, NEW b \in Int
    PROVE  /\ Max({a, b}) = IF a >= b THEN a ELSE b
           /\ Min({a, b}) = IF a <= b THEN a ELSE b
<1>1. CASE a = b
  BY <1>1 DEF Max, Min
<1>2. CASE a < b
  <2>1. \A x \in {a, b} : (\A y \in {a, b} : x >= y) <=> x = b
    BY <1>2
  <2>2. \A x \in {a, b} : (\A y \in {a, b} : x <= y) <=> x = a
    BY <1>2
  <2>3. Max({a, b}) = b /\ Min({a, b}) = a
    BY <2>1, <2>2, Zenon DEF Max, Min
  <2>. QED BY <1>2, <2>3
<1>3. CASE a > b
  <2>1. \A x \in {a, b} : (\A y \in {a, b} : x >= y) <=> x = a
    BY <1>3
  <2>2. \A x \in {a, b} : (\A y \in {a, b} : x <= y) <=> x = b
    BY <1>3
  <2>3. Max({a, b}) = a /\ Min({a, b}) = b
    BY <2>1, <2>2, Zenon DEF Max, Min
  <2>. QED BY <1>3, <2>3
<1>. QED BY <1>1, <1>2, <1>3

\* Pruning aims at three quarters of the cap.
LEMMA TargetFacts == Target \in 1..WindowCap /\ WindowCap - Target = WindowCap \div 4
<1>1. WindowCap \in Nat \ {0}
  BY WindowAssumption
<1>2. WindowCap \div 4 \in Nat /\ WindowCap - WindowCap \div 4 >= 1
  BY <1>1
<1>3. Target = WindowCap - WindowCap \div 4
  BY <1>1, <1>2, OfTwo DEF Target
<1>. QED BY <1>1, <1>2, <1>3

\* A ring of the windows: WindowLen cells, the place of the next one, how many are written.
Window == [buf : [0..(WindowLen - 1) -> Nat], next : 0..(WindowLen - 1), fill : 0..WindowLen, lastSeen : Nat]
WindowTable(w) == IsFiniteSet(DOMAIN w) /\ w \in [DOMAIN w -> Window]

LEMMA CutoffFacts ==
    ASSUME NEW w, WindowTable(w), Cardinality(DOMAIN w) >= WindowCap
    PROVE  /\ Cutoff(w) \in Nat
           /\ Cardinality({k \in DOMAIN w : w[k].lastSeen < Cutoff(w)}) <= Cardinality(DOMAIN w) - Target
           /\ Cardinality({k \in DOMAIN w : w[k].lastSeen <= Cutoff(w)}) > Cardinality(DOMAIN w) - Target
<1> DEFINE D == DOMAIN w
           f == [k \in D |-> w[k].lastSeen]
           q == Cardinality(D) - Target
<1>1. IsFiniteSet(D) /\ Cardinality(D) \in Nat /\ f \in [D -> Nat]
  BY FS_CardinalityType DEF WindowTable, Window
<1>2. q \in Nat /\ q < Cardinality(D)
  <2>1. Cardinality(D) \in Nat /\ Cardinality(D) >= WindowCap
    BY <1>1
  <2>2. Target \in Nat /\ Target >= 1 /\ Target <= WindowCap /\ WindowCap \in Nat
    BY TargetFacts, WindowAssumption
  <2> HIDE DEF D
  <2>. QED BY <2>1, <2>2
<1>3. PICK k \in D : Cardinality(Before(D, f, f[k])) <= q /\ Cardinality(Until(D, f, f[k])) > q
  <2> HIDE DEF f, q, D
  <2>. QED BY <1>1, <1>2, PlaceInList
<1>4. \A t : /\ Before(D, f, t) = {i \in D : w[i].lastSeen < t}
             /\ Until(D, f, t) = {i \in D : w[i].lastSeen <= t}
  BY DEF Before, Until
<1>5. f[k] \in {w[i].lastSeen : i \in D}
  OBVIOUS
<1>6. \E t \in {w[i].lastSeen : i \in D} :
          /\ Cardinality({i \in D : w[i].lastSeen < t}) <= Cardinality(D) - Target
          /\ Cardinality({i \in D : w[i].lastSeen <= t}) > Cardinality(D) - Target
  <2> HIDE DEF f
  <2>. QED BY <1>3, <1>4, <1>5, Zenon
<1>7. /\ Cutoff(w) \in {w[i].lastSeen : i \in D}
      /\ Cardinality({i \in D : w[i].lastSeen < Cutoff(w)}) <= Cardinality(D) - Target
      /\ Cardinality({i \in D : w[i].lastSeen <= Cutoff(w)}) > Cardinality(D) - Target
  <2> HIDE DEF f, q
  <2>. QED BY <1>6, Zenon DEF Cutoff
<1>8. Cutoff(w) \in Nat
  BY <1>7 DEF WindowTable, Window
<1>. QED BY <1>7, <1>8

\* One more vector in a ring: it stays a ring, and holds the last of what it held and the new one.
LEMMA WrittenRing ==
    ASSUME NEW r \in Window, NEW v \in Nat, NEW at \in Nat
    PROVE  /\ WriteRing(r, v, at) \in Window
           /\ Contents(WriteRing(r, v, at)) = LastUpTo(WindowLen, Append(Contents(r), v))
<1> DEFINE W == WindowLen
           p == r.next
           f == r.fill
           s == WriteRing(r, v, at)
           old == Contents(r)
           all == Append(old, v)
<1>1. W \in Nat /\ W >= 1
  BY WindowAssumption
<1>2. /\ p \in Nat /\ p < W /\ f \in Nat /\ f <= W
      /\ r.buf \in [0..(W - 1) -> Nat] /\ r = [buf |-> r.buf, next |-> p, fill |-> f, lastSeen |-> r.lastSeen]
  BY <1>1 DEF Window
<1>3. /\ s.buf = [r.buf EXCEPT ![p] = v] /\ s.lastSeen = at
      /\ s.next = (IF p + 1 = W THEN 0 ELSE p + 1) /\ s.fill = (IF f + 1 <= W THEN f + 1 ELSE W)
  <2>1. (p + 1) % W = IF p + 1 = W THEN 0 ELSE p + 1
    <3> HIDE DEF W, p
    <3>1. PICK x \in Int : x = p + 1 /\ 0 <= x /\ x <= W
      BY <1>1, <1>2
    <3>2. x % W = IF x = W THEN 0 ELSE x
      BY <1>1, <3>1, Wrap
    <3>. QED BY <3>1, <3>2
  <2>2. Min({f + 1, W}) = IF f + 1 <= W THEN f + 1 ELSE W
    <3> HIDE DEF W, f
    <3>1. PICK x \in Int : x = f + 1
      BY <1>2
    <3>2. Min({x, W}) = IF x <= W THEN x ELSE W
      BY <1>1, OfTwo
    <3>. QED BY <3>1, <3>2
  <2>. QED BY <2>1, <2>2 DEF WriteRing
<1>4. s.buf \in [0..(W - 1) -> Nat] /\ s.buf[p] = v /\ \A i \in 0..(W - 1) : i # p => s.buf[i] = r.buf[i]
  <2> HIDE DEF s, W
  <2>. QED BY <1>1, <1>2, <1>3
<1>5. s.next \in 0..(W - 1) /\ s.fill \in 0..W
  <2> HIDE DEF s, W, p, f
  <2>. QED BY <1>1, <1>2, <1>3
<1>6. s \in Window
  <2>1. s = [buf |-> s.buf, next |-> s.next, fill |-> s.fill, lastSeen |-> s.lastSeen]
    BY DEF WriteRing
  <2>. QED BY <1>3, <1>4, <1>5, <2>1 DEF Window
<1>7. \A i \in 1..f : /\ (p - f + W + i - 1) % W = (IF p - f + i - 1 < 0 THEN p - f + W + i - 1 ELSE p - f + i - 1)
                      /\ (p - f + W + i - 1) % W \in 0..(W - 1)
  <2> HIDE DEF W, p, f
  <2> SUFFICES ASSUME NEW i \in 1..f
               PROVE  /\ (p - f + W + i - 1) % W = (IF p - f + i - 1 < 0 THEN p - f + W + i - 1 ELSE p - f + i - 1)
                      /\ (p - f + W + i - 1) % W \in 0..(W - 1)
    OBVIOUS
  <2>1. PICK x \in Int : x = p - f + W + i - 1 /\ 0 <= x /\ x < W + W
    BY <1>1, <1>2
  <2>2. x % W = IF x < W THEN x ELSE x - W
    BY <1>1, <2>1, Wrap
  <2>3. (p - f + W + i - 1) % W = IF x < W THEN x ELSE x - W
    BY <2>1, <2>2
  <2>. QED BY <1>1, <1>2, <2>1, <2>3
<1>8. /\ old \in Seq(Nat) /\ Len(old) = f
      /\ \A i \in 1..f : old[i] = r.buf[IF p - f + i - 1 < 0 THEN p - f + W + i - 1 ELSE p - f + i - 1]
  <2>1. old = [i \in 1..f |-> r.buf[(p - f + W + i - 1) % W]]
    BY DEF Contents
  <2>2. \A i \in 1..f : r.buf[(p - f + W + i - 1) % W] \in Nat
    BY <1>2, <1>7
  <2>3. old \in [1..f -> Nat]
    <3> HIDE DEF old, f, p, W
    <3>. QED BY <2>1, <2>2
  <2>4. \A i \in 1..f : old[i] = r.buf[(p - f + W + i - 1) % W]
    <3> HIDE DEF old, f, p, W
    <3>. QED BY <2>1
  <2> HIDE DEF old, f, p, W
  <2>5. old \in Seq(Nat) /\ DOMAIN old = 1..f
    BY <1>2, <2>3, SeqDef
  <2>6. Len(old) = f
    BY <1>2, <2>5, LenProperties
  <2>. QED BY <1>7, <2>4, <2>5, <2>6
<1>9. /\ all \in Seq(Nat) /\ Len(all) = f + 1 /\ all[f + 1] = v
      /\ \A i \in 1..f : all[i] = old[i]
  <2> HIDE DEF old, f
  <2>. QED BY <1>2, <1>8, AppendProperties
<1> DEFINE g == s.fill
           n == s.next
           new == Contents(s)
<1>10. \A i \in 1..g : (n - g + W + i - 1) % W = (IF n - g + i - 1 < 0 THEN n - g + W + i - 1 ELSE n - g + i - 1)
  <2> HIDE DEF W, n, g, s
  <2>0. n \in Nat /\ n < W /\ g \in Nat /\ g <= W
    <3>1. n \in 0..(W - 1) /\ g \in 0..W
      BY <1>5 DEF n, g
    <3>. QED BY <1>1, <3>1
  <2> SUFFICES ASSUME NEW i \in 1..g
               PROVE  (n - g + W + i - 1) % W = (IF n - g + i - 1 < 0 THEN n - g + W + i - 1 ELSE n - g + i - 1)
    OBVIOUS
  <2>1. PICK x \in Int : x = n - g + W + i - 1 /\ 0 <= x /\ x < W + W
    BY <1>1, <2>0
  <2>2. x % W = IF x < W THEN x ELSE x - W
    BY <1>1, <2>1, Wrap
  <2>3. (n - g + W + i - 1) % W = IF x < W THEN x ELSE x - W
    BY <2>1, <2>2
  <2>. QED BY <1>1, <2>0, <2>1, <2>3
<1>11. /\ new = [i \in 1..g |-> s.buf[(n - g + W + i - 1) % W]]
       /\ \A i \in 1..g : new[i] = s.buf[IF n - g + i - 1 < 0 THEN n - g + W + i - 1 ELSE n - g + i - 1]
  <2>1. new = [i \in 1..g |-> s.buf[(n - g + W + i - 1) % W]]
    BY DEF Contents
  <2> HIDE DEF new, g, n, s, W
  <2>. QED BY <1>10, <2>1
<1>12. CASE f + 1 <= W
  <2>1. g = f + 1 /\ n = IF p + 1 = W THEN 0 ELSE p + 1
    BY <1>3, <1>12
  <2>2. LastUpTo(W, all) = all
    <3> HIDE DEF all, f
    <3>. QED BY <1>9, <1>12 DEF LastUpTo
  <2>3. \A i \in 1..(f + 1) : new[i] = all[i]
    <3> HIDE DEF new, g, n, s, W, p, f, all, old
    <3> SUFFICES ASSUME NEW i \in 1..(f + 1) PROVE new[i] = all[i]
      OBVIOUS
    <3>1. new[i] = s.buf[IF n - g + i - 1 < 0 THEN n - g + W + i - 1 ELSE n - g + i - 1]
      BY <1>11, <2>1
    <3>2. CASE i = f + 1
      <4>1. (IF n - g + i - 1 < 0 THEN n - g + W + i - 1 ELSE n - g + i - 1) = p
        BY <1>1, <1>2, <1>12, <2>1, <3>2
      <4>. QED BY <1>4, <1>9, <3>1, <3>2, <4>1
    <3>3. CASE i # f + 1
      <4>1. i \in 1..f
        BY <1>2, <3>3
      <4>2. PICK at2 \in Int : at2 = IF p - f + i - 1 < 0 THEN p - f + W + i - 1 ELSE p - f + i - 1
        BY <1>1, <1>2, <4>1
      <4>3. (IF n - g + i - 1 < 0 THEN n - g + W + i - 1 ELSE n - g + i - 1) = at2
        <5>0. i \in Int /\ 1 <= i /\ i <= f /\ p \in Int /\ f \in Int /\ W \in Int
          BY <1>1, <1>2, <4>1
        <5>1. CASE p + 1 = W
          <6>1. n - g + i - 1 = i - f - 2 /\ n - g + W + i - 1 = p - f + i - 1
            BY <5>0, <5>1, <2>1
          <6>2. ~ (p - f + i - 1 < 0) /\ i - f - 2 < 0
            BY <5>0, <5>1, <1>12
          <6>. QED BY <4>2, <6>1, <6>2
        <5>2. CASE p + 1 # W
          <6>1. n - g + i - 1 = p - f + i - 1 /\ n - g + W + i - 1 = p - f + W + i - 1
            BY <5>0, <5>2, <2>1
          <6>. QED BY <4>2, <6>1
        <5>. QED BY <5>1, <5>2
      <4>4. at2 \in 0..(W - 1) /\ at2 # p
        BY <1>1, <1>2, <1>12, <4>1, <4>2
      <4>5. new[i] = r.buf[at2]
        BY <1>4, <3>1, <4>3, <4>4
      <4>6. all[i] = r.buf[at2]
        BY <1>8, <1>9, <4>1, <4>2
      <4>. QED BY <4>5, <4>6
    <3>. QED BY <3>2, <3>3
  <2>4. new = all
    <3>1. DOMAIN all = 1..(f + 1) /\ all = [i \in 1..(f + 1) |-> all[i]]
      <4> HIDE DEF all, f
      <4>. QED BY <1>2, <1>9, LenProperties, SeqDef
    <3>2. new = [i \in 1..(f + 1) |-> new[i]]
      <4> HIDE DEF new, g, n, s, W, f
      <4>. QED BY <1>11, <2>1
    <3> HIDE DEF new, all, f
    <3>. QED BY <2>3, <3>1, <3>2
  <2> HIDE DEF new, all, W
  <2>. QED BY <2>2, <2>4, <1>6 DEF new, all, W
<1>13. CASE f = W
  <2>1. g = W /\ n = IF p + 1 = W THEN 0 ELSE p + 1
    <3> HIDE DEF W, p, f
    <3>. QED BY <1>1, <1>2, <1>3, <1>13
  <2>2. /\ LastUpTo(W, all) = [i \in 1..W |-> all[i + 1]]
    <3>1. LastUpTo(W, all) = SubSeq(all, 2, W + 1)
      <4>1. ~ (Len(all) <= W) /\ Len(all) - W + 1 = 2 /\ Len(all) = W + 1
        <5> HIDE DEF all, f, W
        <5>. QED BY <1>1, <1>9, <1>13
      <4> HIDE DEF all, W
      <4>. QED BY <4>1 DEF LastUpTo
    <3>2. \A t \in Seq(Nat), k \in Nat : Len(t) = k + 1 =>
             SubSeq(t, 2, k + 1) = [i \in 1..k |-> t[i + 1]]
      <4> SUFFICES ASSUME NEW t \in Seq(Nat), NEW k \in Nat, Len(t) = k + 1
                   PROVE  SubSeq(t, 2, k + 1) = [i \in 1..k |-> t[i + 1]]
        OBVIOUS
      <4>1. SubSeq(t, 2, k + 1) = [i \in 1..k |-> t[2 + i - 1]]
        OBVIOUS
      <4>2. \A i \in 1..k : 2 + i - 1 = i + 1
        OBVIOUS
      <4>. QED BY <4>1, <4>2
    <3> HIDE DEF all, W
    <3>. QED BY <1>1, <1>9, <1>13, <3>1, <3>2
  <2>3. \A i \in 1..W : new[i] = all[i + 1]
    <3> HIDE DEF new, g, n, s, W, p, f, all, old
    <3> SUFFICES ASSUME NEW i \in 1..W PROVE new[i] = all[i + 1]
      OBVIOUS
    <3>1. new[i] = s.buf[IF n - g + i - 1 < 0 THEN n - g + W + i - 1 ELSE n - g + i - 1]
      BY <1>11, <2>1
    <3>2. CASE i = W
      <4>1. (IF n - g + i - 1 < 0 THEN n - g + W + i - 1 ELSE n - g + i - 1) = p
        BY <1>1, <1>2, <2>1, <3>2
      <4>. QED BY <1>4, <1>9, <1>13, <3>1, <3>2, <4>1
    <3>3. CASE i # W
      <4>1. i + 1 \in 1..f /\ i \in Int
        BY <1>1, <1>2, <1>13, <3>3
      <4>2. PICK j \in 1..f : j = i + 1
        BY <4>1
      <4>3. PICK at2 \in Int : at2 = IF p - f + j - 1 < 0 THEN p - f + W + j - 1 ELSE p - f + j - 1
        BY <1>1, <1>2, <4>1
      <4>4. (IF n - g + i - 1 < 0 THEN n - g + W + i - 1 ELSE n - g + i - 1) = at2
        <5>0. i \in Int /\ 1 <= i /\ i + 1 <= f /\ j = i + 1 /\ p \in Int /\ p < W /\ f \in Int /\ W \in Int
          BY <1>1, <1>2, <4>1, <4>2
        <5>1. CASE p + 1 = W
          <6>1. n - g + i - 1 = i - f - 1 /\ n - g + W + i - 1 = p - f + j - 1
            BY <5>0, <5>1, <2>1, <1>13
          <6>2. ~ (p - f + j - 1 < 0) /\ i - f - 1 < 0
            BY <5>0, <5>1, <1>13
          <6>. QED BY <4>3, <6>1, <6>2
        <5>2. CASE p + 1 # W
          <6>1. n - g + i - 1 = p - f + j - 1 /\ n - g + W + i - 1 = p - f + W + j - 1
            BY <5>0, <5>2, <2>1, <1>13
          <6>. QED BY <4>3, <6>1
        <5>. QED BY <5>1, <5>2
      <4>5. at2 \in 0..(W - 1) /\ at2 # p
        BY <1>1, <1>2, <1>13, <4>1, <4>2, <4>3
      <4>6. new[i] = r.buf[at2]
        BY <1>4, <3>1, <4>4, <4>5
      <4>7. all[j] = r.buf[at2]
        BY <1>8, <1>9, <4>3
      <4>. QED BY <4>2, <4>6, <4>7
    <3>. QED BY <3>2, <3>3
  <2>4. new = [i \in 1..W |-> new[i]]
    <3> HIDE DEF new, g, n, s, W
    <3>. QED BY <1>11, <2>1
  <2>5. new = LastUpTo(W, all)
    <3> HIDE DEF new, all, W
    <3>. QED BY <2>2, <2>3, <2>4
  <2> HIDE DEF new, all, W
  <2>. QED BY <2>5, <1>6 DEF new, all, W
<1>. QED BY <1>1, <1>2, <1>12, <1>13

LEMMA NewRingFacts == NewRing \in Window /\ Contents(NewRing) = <<>>
<1>1. WindowLen \in Nat /\ 0 \in 0..(WindowLen - 1) /\ 0 \in 0..WindowLen
  BY WindowAssumption
<1>2. NewRing \in Window
  BY <1>1 DEF NewRing, Window
<1>3. Contents(NewRing) = [i \in 1..0 |-> NewRing.buf[(NewRing.next - 0 + WindowLen + i - 1) % WindowLen]]
  BY DEF Contents, NewRing
<1>4. Contents(NewRing) \in Seq(Nat) /\ Len(Contents(NewRing)) = 0
  BY <1>3
<1>. QED BY <1>2, <1>4, EmptySeq

Idle(w, c) == {k \in DOMAIN w : w[k].lastSeen = w[c].lastSeen}

\* Pruning a full table: what goes is older than all that stays, no more than comes down to the
\* target, and if hardly anything goes then more than a quarter of the cap is equally idle.
LEMMA PrunedFacts ==
    ASSUME NEW w, WindowTable(w), Cardinality(DOMAIN w) >= WindowCap
    PROVE  /\ IsFiniteSet(Pruned(w)) /\ Pruned(w) \subseteq DOMAIN w
           /\ Cardinality(Pruned(w)) <= Cardinality(DOMAIN w) - Target
           /\ \A o \in Pruned(w), k \in DOMAIN w \ Pruned(w) : w[o].lastSeen < w[k].lastSeen
           /\ Cardinality(DOMAIN w) - Cardinality(Pruned(w)) >= WindowCap =>
                \E c \in DOMAIN w : Cardinality(Idle(w, c)) > WindowCap \div 4
<1> DEFINE D == DOMAIN w
           t == Cutoff(w)
           lt == Pruned(w)
           le == {k \in D : w[k].lastSeen <= t}
           eq == {k \in D : w[k].lastSeen = t}
<1>1. IsFiniteSet(D) /\ Cardinality(D) \in Nat /\ \A k \in D : w[k].lastSeen \in Nat
  BY FS_CardinalityType DEF WindowTable, Window
<1>2. /\ t \in Nat /\ Cardinality(lt) <= Cardinality(D) - Target /\ Cardinality(le) > Cardinality(D) - Target
      /\ lt = {k \in D : w[k].lastSeen < t}
  BY CutoffFacts DEF Pruned
<1> HIDE DEF t, lt
<1>3. /\ lt \in SUBSET le /\ lt \in SUBSET D /\ le \in SUBSET D /\ eq = le \ lt /\ le \cap lt = lt
  BY <1>1, <1>2
<1>4. /\ IsFiniteSet(lt) /\ IsFiniteSet(le) /\ IsFiniteSet(eq)
      /\ Cardinality(lt) \in Nat /\ Cardinality(le) \in Nat /\ Cardinality(eq) \in Nat
  BY <1>1, <1>3, FS_Subset, FS_Difference, FS_CardinalityType
<1>5. Cardinality(eq) = Cardinality(le) - Cardinality(lt)
  BY <1>3, <1>4, FS_Difference
<1>6. \A o \in lt, k \in D \ lt : w[o].lastSeen < w[k].lastSeen
  BY <1>1, <1>2
<1>7. ASSUME Cardinality(D) - Cardinality(lt) >= WindowCap
      PROVE  \E c \in D : Cardinality(Idle(w, c)) > WindowCap \div 4
  <2>1. /\ Target \in Int /\ WindowCap \in Int /\ WindowCap \div 4 \in Nat /\ WindowCap - Target = WindowCap \div 4
    BY TargetFacts, WindowAssumption
  <2>2. Cardinality(eq) > WindowCap \div 4
    <3>1. PICK q \in Nat, a \in Nat, b \in Nat, c \in Nat, d \in Nat :
             q = WindowCap \div 4 /\ a = Cardinality(D) /\ b = Cardinality(lt) /\ c = Cardinality(le) /\ d = Cardinality(eq)
      BY <1>1, <1>4, <2>1
    <3>2. a - b >= WindowCap /\ c > a - Target /\ d = c - b /\ WindowCap - Target = q
      BY <1>2, <1>5, <1>7, <2>1, <3>1
    <3>3. d > q
      BY <2>1, <3>2
    <3>. QED BY <3>1, <3>3
  <2>3. eq # {}
    <3> HIDE DEF eq
    <3>1. eq = {} => Cardinality(eq) = 0
      BY FS_EmptySet
    <3>. QED BY <1>4, <2>1, <2>2, <3>1
  <2>4. PICK c \in eq : TRUE
    BY <2>3
  <2>5. c \in D /\ Idle(w, c) = eq
    BY <2>4 DEF Idle
  <2> HIDE DEF eq, D
  <2>. QED BY <2>2, <2>5
<1> HIDE DEF eq, le
<1>. QED BY <1>2, <1>3, <1>4, <1>6, <1>7 DEF lt

Recall(w, c) == IF c \in DOMAIN w THEN Contents(w[c]) ELSE <<>>

\* What one push makes of a table w of windows and of the count of those dropped.
Pushes(w, w2, v, was, now) ==
    /\ \A c \in DOMAIN w2 :
        \/ c \in DOMAIN w /\ w2[c] = w[c]
        \/ Contents(w2[c]) = LastUpTo(WindowLen, Append(Recall(w, c), v))
    /\ now = was + Cardinality(DOMAIN w \ DOMAIN w2)
    /\ DOMAIN w \ DOMAIN w2 # {} => Cardinality(DOMAIN w \ DOMAIN w2) <= Cardinality(DOMAIN w) - Target
    /\ \A o \in DOMAIN w \ DOMAIN w2, k \in DOMAIN w \cap DOMAIN w2 : w[o].lastSeen < w[k].lastSeen
    /\ Cardinality(DOMAIN w2) > WindowCap =>
        \/ DOMAIN w2 = DOMAIN w
        \/ \E c \in DOMAIN w : Cardinality(Idle(w, c)) > WindowCap \div 4

LEMMA PushFacts ==
    ASSUME NEW key, NEW v \in Nat, NEW at \in Nat, NEW w, NEW w2, w = windows, w2 = windows',
           WindowTable(w), seqEvicted \in Nat, Push(key, v, at)
    PROVE  WindowTable(w2) /\ seqEvicted' \in Nat /\ Pushes(w, w2, v, seqEvicted, seqEvicted')
<1> DEFINE D == DOMAIN w
           known == key \in D
           full == Cardinality(D) >= WindowCap
<1>1. IsFiniteSet(D) /\ Cardinality(D) \in Nat /\ WindowCap \in Nat \ {0} /\ \A k \in D : w[k] \in Window
  BY FS_CardinalityType, WindowAssumption DEF WindowTable
<1>2. PICK out : out = IF known \/ Cardinality(D) < WindowCap THEN {} ELSE Pruned(w)
  OBVIOUS
<1>3. PICK ring : ring = IF known THEN w[key] ELSE NewRing
  OBVIOUS
<1>4. /\ w2 = [k \in (D \ out) \cup {key} |-> IF k = key THEN WriteRing(ring, v, at) ELSE w[k]]
      /\ seqEvicted' = seqEvicted + Cardinality(out)
  <2>1. \A k \in D \ out : Restrict(w, D \ out)[k] = w[k]
    BY DEF Restrict
  <2>2. DOMAIN Restrict(w, D \ out) = D \ out
    BY DEF Restrict
  <2>3. /\ w2 = [k \in DOMAIN Restrict(w, D \ out) \cup {key} |->
                    IF k = key THEN WriteRing(ring, v, at) ELSE Restrict(w, D \ out)[k]]
        /\ seqEvicted' = seqEvicted + Cardinality(out)
    BY <1>2, <1>3, Zenon DEF Push
  <2>. QED BY <2>1, <2>2, <2>3
<1>5. ring \in Window /\ Contents(ring) = Recall(w, key)
  BY <1>1, <1>3, NewRingFacts DEF Recall
<1>6. WriteRing(ring, v, at) \in Window /\ Contents(WriteRing(ring, v, at)) = LastUpTo(WindowLen, Append(Recall(w, key), v))
  BY <1>5, WrittenRing
<1>7. /\ IsFiniteSet(out) /\ out \subseteq D /\ Cardinality(out) \in Nat
      /\ out # {} => ~ known /\ full /\ out = Pruned(w)
      /\ known \/ ~ full => out = {}
      /\ ~ known /\ full => out = Pruned(w)
  <2>1. known \/ ~ full => out = {}
    BY <1>1, <1>2
  <2>2. ~ known /\ full => out = Pruned(w)
    BY <1>1, <1>2
  <2>3. full => IsFiniteSet(Pruned(w)) /\ Pruned(w) \subseteq D
    BY PrunedFacts
  <2>4. IsFiniteSet(out) /\ out \subseteq D
    BY <2>1, <2>2, <2>3, FS_EmptySet
  <2>. QED BY <2>1, <2>2, <2>4, FS_CardinalityType
<1>8. /\ DOMAIN w2 = (D \ out) \cup {key} /\ D \ DOMAIN w2 = out /\ D \cap DOMAIN w2 \subseteq D \ out
      /\ w2[key] = WriteRing(ring, v, at) /\ \A c \in DOMAIN w2 : c # key => c \in D /\ w2[c] = w[c]
  <2>1. DOMAIN w2 = (D \ out) \cup {key}
    BY <1>4
  <2>2. out # {} => key \notin D
    BY <1>7
  <2>. QED BY <1>4, <1>7, <2>1, <2>2
<1>9. WindowTable(w2)
  <2>1. IsFiniteSet(D \ out) /\ IsFiniteSet((D \ out) \cup {key})
    BY <1>1, FS_Difference, FS_AddElement
  <2>2. \A k \in DOMAIN w2 : w2[k] \in Window
    BY <1>1, <1>6, <1>8
  <2>. QED BY <1>4, <1>8, <2>1, <2>2 DEF WindowTable
<1>10. seqEvicted' \in Nat /\ seqEvicted' = seqEvicted + Cardinality(D \ DOMAIN w2)
  BY <1>4, <1>7, <1>8
<1>11. \A c \in DOMAIN w2 :
          \/ c \in D /\ w2[c] = w[c]
          \/ Contents(w2[c]) = LastUpTo(WindowLen, Append(Recall(w, c), v))
  BY <1>6, <1>8
<1>12. out # {} => /\ Cardinality(out) <= Cardinality(D) - Target
                   /\ \A o \in out, k \in D \ out : w[o].lastSeen < w[k].lastSeen
  BY <1>7, PrunedFacts
<1>13. ASSUME Cardinality(DOMAIN w2) > WindowCap, DOMAIN w2 # D
       PROVE  \E c \in D : Cardinality(Idle(w, c)) > WindowCap \div 4
  <2>1. ~ known
    BY <1>7, <1>8, <1>13
  <2>2. Cardinality(D \ out) = Cardinality(D) - Cardinality(out) /\ IsFiniteSet(D \ out)
    <3>1. D \cap out = out
      BY <1>7
    <3>. QED BY <1>1, <3>1, FS_Difference
  <2>3. Cardinality(DOMAIN w2) = Cardinality(D) - Cardinality(out) + 1
    <3>1. key \notin D \ out
      BY <2>1
    <3>. QED BY <1>8, <2>2, <3>1, FS_AddElement
  <2>4. Cardinality(D) - Cardinality(out) >= WindowCap /\ full
    <3> HIDE DEF D
    <3>. QED BY <1>1, <1>7, <1>13, <2>3
  <2>5. out = Pruned(w)
    BY <1>7, <2>1, <2>4
  <2>. QED BY <2>4, <2>5, PrunedFacts
<1>14. /\ D \ DOMAIN w2 # {} => Cardinality(D \ DOMAIN w2) <= Cardinality(D) - Target
       /\ \A o \in D \ DOMAIN w2, k \in D \cap DOMAIN w2 : w[o].lastSeen < w[k].lastSeen
  BY <1>8, <1>12
<1>. QED BY <1>9, <1>10, <1>11, <1>13, <1>14 DEF Pushes

\* The pipeline pushes only what the store counts, at times that are numbers.
WindowsInv == WindowTable(windows) /\ seqEvicted \in Nat

LEMMA StepRemembers ==
    ASSUME RecordInv, WindowsInv, [Next]_vars
    PROVE  WindowsInv' /\ (WindowsRemembered \/ UNCHANGED vars)
<1>1. flowSeq \in Nat /\ todo \in Seq(Row)
  BY DEF RecordInv, RingAndHistories, StoreTypes, PipeTypes
<1>2. CASE UNCHANGED windowVars
  <2>1. windows' = windows /\ seqEvicted' = seqEvicted
    BY <1>2 DEF windowVars
  <2>2. WindowsInv'
    BY <2>1 DEF WindowsInv
  <2>3. DOMAIN windows \ DOMAIN windows' = {} /\ Cardinality({}) = 0
    BY <2>1, FS_EmptySet
  <2>4. WindowsRemembered
    BY <2>1, <2>3 DEF WindowsRemembered, WindowsInv
  <2>. QED BY <2>2, <2>4
<1>3. CASE ScoreRow /\ ~ UNCHANGED windowVars
  <2>1. todo # <<>> /\ Push(Head(todo).conv, flowSeq, Head(todo).ts)
    BY <1>3 DEF ScoreRow
  <2>2. Head(todo).ts \in Nat
    <3>1. Head(todo) \in Row
      BY <1>1, <2>1, HeadTailProperties
    <3>. QED BY <3>1 DEF Row
  <2>3. PICK w, w2 : w = windows /\ w2 = windows'
    OBVIOUS
  <2>4. WindowTable(w2) /\ seqEvicted' \in Nat /\ Pushes(w, w2, flowSeq, seqEvicted, seqEvicted')
    <3>1. WindowTable(w) /\ seqEvicted \in Nat
      BY <2>3 DEF WindowsInv
    <3>. QED BY <1>1, <2>1, <2>2, <2>3, <3>1, PushFacts
  <2>5. WindowsInv'
    BY <2>3, <2>4 DEF WindowsInv
  <2>6. \A c : Recall(w, c) = Remembered(c) /\ Idle(w, c) = EquallyIdle(c)
    BY <2>3 DEF Recall, Remembered, Idle, EquallyIdle
  <2>7. WindowsRemembered
    BY <2>3, <2>4, <2>6, Zenon DEF WindowsRemembered, Pushes
  <2>. QED BY <2>5, <2>7
<1>4. ScoreRow \/ UNCHANGED windowVars
  BY DEF Next, Sensors, PipelineStep, Publish, StoreRow, Notify, TakeRecord, RecordsEnd, TakePacket, LeaveLoop, DrainRecord,
         DrainEnds, Flush, Sweep, ToggleModels, Cancel, CloseInsight, Aggregate, Quiet, vars
<1>. QED BY <1>2, <1>3, <1>4

\* Whatever the conversations and however many: a window is its conversation's last vectors, only
\* the longest idle are dropped, about a quarter and counted, and the table outgrows its cap
\* only among more than a quarter of the cap equally idle (seqwindow.go push, prune).
THEOREM WindowsAlwaysRemember == Spec => WindowsRemember
<1>1. Init => WindowsInv
  <2> SUFFICES ASSUME Init PROVE WindowsInv
    OBVIOUS
  <2>1. windows = <<>> /\ seqEvicted = 0
    BY DEF Init, WindowsInit
  <2>2. DOMAIN windows = {} /\ IsFiniteSet({})
    <3>1. <<>> \in Seq(Nat) /\ Len(<<>>) = 0
      BY EmptySeq
    <3>2. DOMAIN <<>> = 1..0
      BY <3>1, LenProperties
    <3>. QED BY <2>1, <3>2, FS_EmptySet
  <2>3. windows \in [DOMAIN windows -> Window]
    <3>1. windows = [k \in 1..0 |-> windows[k]]
      BY <2>1, EmptySeq
    <3>. QED BY <2>2, <3>1
  <2>. QED BY <2>1, <2>2, <2>3 DEF WindowsInv, WindowTable
<1>2. RecordInv /\ WindowsInv /\ [Next]_vars => WindowsInv' /\ [WindowsRemembered]_vars
  BY StepRemembers
<1>. QED BY <1>1, <1>2, RecordIsKept, PTL DEF Spec, WindowsRemember
=============================================================================
