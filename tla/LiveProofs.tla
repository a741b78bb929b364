----------------------------- MODULE LiveProofs -----------------------------
(* Proofs about the live channel and the replays that publish on it, for every value of their
   constants: any publishers and clients, any queue and batch sizes, any number of replays. *)
EXTENDS ReplayControl, SequenceTheorems, TLAPS

(* The stream as frames of numbers: sent ones, the batch, the queue. *)

FramesOf(s, b, q) == s \o <<b, q>>
SpotsOf(F) == UNION {{f} \X DOMAIN F[f] : f \in DOMAIN F}

\* G holds the numbers of F, in the same order, cut into frames in another way.
SameStream(F, G) ==
    \E back \in [SpotsOf(G) -> SpotsOf(F)] :
        /\ \A t \in SpotsOf(F) : \E s \in SpotsOf(G) : back[s] = t
        /\ \A s \in SpotsOf(G) : G[s[1]][s[2]] = F[back[s][1]][back[s][2]]
        /\ \A s, t \in SpotsOf(G) : Earlier(back[s], back[t]) <=> Earlier(s, t)

LEMMA FramesFacts ==
    ASSUME NEW s \in Seq(Seq(Nat)), NEW b \in Seq(Nat), NEW q \in Seq(Nat)
    PROVE  /\ Len(s) \in Nat /\ DOMAIN FramesOf(s, b, q) = 1..(Len(s) + 2)
           /\ \A f \in 1..Len(s) : FramesOf(s, b, q)[f] = s[f] /\ s[f] \in Seq(Nat)
           /\ FramesOf(s, b, q)[Len(s) + 1] = b /\ FramesOf(s, b, q)[Len(s) + 2] = q
<1> DEFINE last == <<b, q>>
<1>1. last \in Seq(Seq(Nat)) /\ Len(last) = 2 /\ last[1] = b /\ last[2] = q
  OBVIOUS
<1>2. Len(s) \in Nat /\ \A f \in 1..Len(s) : s[f] \in Seq(Nat)
  BY ElementOfSeq, LenProperties
<1> HIDE DEF last
<1>3. /\ s \o last \in Seq(Seq(Nat)) /\ Len(s \o last) = Len(s) + 2
      /\ \A f \in 1..(Len(s) + 2) : (s \o last)[f] = IF f <= Len(s) THEN s[f] ELSE last[f - Len(s)]
  <2>1. s \o last \in Seq(Seq(Nat)) /\ Len(s \o last) = Len(s) + Len(last)
    BY <1>1, ConcatProperties
  <2>2. \A f \in 1..(Len(s) + Len(last)) :
           (s \o last)[f] = IF f <= Len(s) THEN s[f] ELSE last[f - Len(s)]
    BY <1>1, ConcatProperties
  <2>. QED BY <1>1, <2>1, <2>2
<1>4. /\ DOMAIN (s \o last) = 1..(Len(s) + 2)
      /\ \A f \in 1..Len(s) : (s \o last)[f] = s[f]
      /\ (s \o last)[Len(s) + 1] = last[1] /\ (s \o last)[Len(s) + 2] = last[2]
  BY <1>2, <1>3, LenProperties
<1>5. FramesOf(s, b, q) = s \o last
  BY DEF FramesOf, last
<1>. QED BY <1>1, <1>2, <1>4, <1>5

LEMMA SpotsFacts ==
    ASSUME NEW F, NEW s
    PROVE  s \in SpotsOf(F) <=> /\ s = <<s[1], s[2]>>
                                /\ s[1] \in DOMAIN F /\ s[2] \in DOMAIN F[s[1]]
BY DEF SpotsOf

\* Where a number can be: in a frame that was sent, in the batch, in the queue.
LEMMA SpotKinds ==
    ASSUME NEW s \in Seq(Seq(Nat)), NEW b \in Seq(Nat), NEW q \in Seq(Nat), NEW x
    PROVE  x \in SpotsOf(FramesOf(s, b, q))
              <=> /\ x = <<x[1], x[2]>>
                  /\ \/ x[1] \in 1..Len(s) /\ x[2] \in 1..Len(s[x[1]])
                     \/ x[1] = Len(s) + 1 /\ x[2] \in 1..Len(b)
                     \/ x[1] = Len(s) + 2 /\ x[2] \in 1..Len(q)
<1> DEFINE F == FramesOf(s, b, q)
<1>1. /\ Len(s) \in Nat /\ DOMAIN F = 1..(Len(s) + 2)
      /\ \A f \in 1..Len(s) : F[f] = s[f] /\ s[f] \in Seq(Nat)
      /\ F[Len(s) + 1] = b /\ F[Len(s) + 2] = q
  BY FramesFacts
<1>2. \A f \in 1..Len(s) : DOMAIN F[f] = 1..Len(s[f])
  BY <1>1, LenProperties
<1>3. DOMAIN F[Len(s) + 1] = 1..Len(b) /\ DOMAIN F[Len(s) + 2] = 1..Len(q)
  BY <1>1, LenProperties
<1>4. x \in SpotsOf(F) <=> x = <<x[1], x[2]>> /\ x[1] \in DOMAIN F /\ x[2] \in DOMAIN F[x[1]]
  BY SpotsFacts
<1> HIDE DEF F
<1>5. x[1] \in DOMAIN F <=> x[1] \in 1..Len(s) \/ x[1] = Len(s) + 1 \/ x[1] = Len(s) + 2
  BY <1>1
<1>6. x \in SpotsOf(F) <=> /\ x = <<x[1], x[2]>>
                           /\ \/ x[1] \in 1..Len(s) /\ x[2] \in 1..Len(s[x[1]])
                              \/ x[1] = Len(s) + 1 /\ x[2] \in 1..Len(b)
                              \/ x[1] = Len(s) + 2 /\ x[2] \in 1..Len(q)
  BY <1>2, <1>3, <1>4, <1>5
<1>. QED BY <1>6 DEF F

LEMMA SameStreamTransitive ==
    ASSUME NEW F, NEW G, NEW H, SameStream(F, G), SameStream(G, H)
    PROVE  SameStream(F, H)
<1>1. PICK one \in [SpotsOf(G) -> SpotsOf(F)] :
        /\ \A t \in SpotsOf(F) : \E s \in SpotsOf(G) : one[s] = t
        /\ \A s \in SpotsOf(G) : G[s[1]][s[2]] = F[one[s][1]][one[s][2]]
        /\ \A s, t \in SpotsOf(G) : Earlier(one[s], one[t]) <=> Earlier(s, t)
  BY DEF SameStream
<1>2. PICK two \in [SpotsOf(H) -> SpotsOf(G)] :
        /\ \A t \in SpotsOf(G) : \E s \in SpotsOf(H) : two[s] = t
        /\ \A s \in SpotsOf(H) : H[s[1]][s[2]] = G[two[s][1]][two[s][2]]
        /\ \A s, t \in SpotsOf(H) : Earlier(two[s], two[t]) <=> Earlier(s, t)
  BY DEF SameStream
<1> DEFINE back == [s \in SpotsOf(H) |-> one[two[s]]]
<1>3. back \in [SpotsOf(H) -> SpotsOf(F)] /\ \A s \in SpotsOf(H) : back[s] = one[two[s]] /\ two[s] \in SpotsOf(G)
  BY <1>1, <1>2
<1> HIDE DEF back
<1>4. \A t \in SpotsOf(F) : \E s \in SpotsOf(H) : back[s] = t
  BY <1>1, <1>2, <1>3
<1>5. \A s \in SpotsOf(H) : H[s[1]][s[2]] = F[back[s][1]][back[s][2]]
  BY <1>1, <1>2, <1>3
<1>6. \A s, t \in SpotsOf(H) : Earlier(back[s], back[t]) <=> Earlier(s, t)
  BY <1>1, <1>2, <1>3
<1>. QED BY <1>3, <1>4, <1>5, <1>6 DEF SameStream

\* The pump takes the head of the queue into its batch.
LEMMA TakeSame ==
    ASSUME NEW s \in Seq(Seq(Nat)), NEW b \in Seq(Nat), NEW q \in Seq(Nat), q # <<>>
    PROVE  SameStream(FramesOf(s, b, q), FramesOf(s, Append(b, Head(q)), Tail(q)))
<1> DEFINE L == Len(s)
           B == Len(b)
           c == Append(b, Head(q))
           r == Tail(q)
           F == FramesOf(s, b, q)
           G == FramesOf(s, c, r)
           back == [x \in SpotsOf(G) |-> IF x[1] = L + 2 THEN <<L + 2, x[2] + 1>>
                                         ELSE IF x[1] = L + 1 /\ x[2] = B + 1 THEN <<L + 2, 1>> ELSE x]
<1>1. L \in Nat /\ B \in Nat /\ Len(q) \in Nat /\ Len(q) >= 1 /\ \A f \in 1..L : Len(s[f]) \in Nat
  BY FramesFacts, LenProperties, EmptySeq
<1>2. r \in Seq(Nat) /\ Len(r) = Len(q) - 1 /\ \A i \in 1..(Len(q) - 1) : r[i] = q[i + 1]
  BY HeadTailProperties
<1>3. Head(q) = q[1] /\ q[1] \in Nat
  BY <1>1, ElementOfSeq
<1>4. c \in Seq(Nat) /\ Len(c) = B + 1 /\ c[B + 1] = q[1] /\ \A i \in 1..B : c[i] = b[i]
  BY <1>1, <1>3, AppendProperties
<1>5. /\ \A f \in 1..L : F[f] = s[f] /\ G[f] = s[f]
      /\ F[L + 1] = b /\ F[L + 2] = q /\ G[L + 1] = c /\ G[L + 2] = r
  <2>1. (\A f \in 1..L : F[f] = s[f]) /\ F[L + 1] = b /\ F[L + 2] = q
    BY FramesFacts
  <2> HIDE DEF c, r
  <2>2. (\A f \in 1..L : G[f] = s[f]) /\ G[L + 1] = c /\ G[L + 2] = r
    BY <1>2, <1>4, FramesFacts
  <2>. QED BY <2>1, <2>2
<1>6. \A x : x \in SpotsOf(F)
              <=> /\ x = <<x[1], x[2]>>
                  /\ \/ x[1] \in 1..L /\ x[2] \in 1..Len(s[x[1]])
                     \/ x[1] = L + 1 /\ x[2] \in 1..B
                     \/ x[1] = L + 2 /\ x[2] \in 1..Len(q)
  BY SpotKinds
<1>7. \A x : x \in SpotsOf(G)
              <=> /\ x = <<x[1], x[2]>>
                  /\ \/ x[1] \in 1..L /\ x[2] \in 1..Len(s[x[1]])
                     \/ x[1] = L + 1 /\ x[2] \in 1..(B + 1)
                     \/ x[1] = L + 2 /\ x[2] \in 1..(Len(q) - 1)
  <2> HIDE DEF c, r
  <2>1. \A x : x \in SpotsOf(G)
              <=> /\ x = <<x[1], x[2]>>
                  /\ \/ x[1] \in 1..L /\ x[2] \in 1..Len(s[x[1]])
                     \/ x[1] = L + 1 /\ x[2] \in 1..Len(c)
                     \/ x[1] = L + 2 /\ x[2] \in 1..Len(r)
    BY <1>2, <1>4, SpotKinds
  <2>. QED BY <1>2, <1>4, <2>1
<1>8. \A x \in SpotsOf(G) : back[x] = IF x[1] = L + 2 THEN <<L + 2, x[2] + 1>>
                                      ELSE IF x[1] = L + 1 /\ x[2] = B + 1 THEN <<L + 2, 1>> ELSE x
  OBVIOUS
<1> HIDE DEF back, L, B, c, r, F, G
\* the arithmetic of the spots, for a prover that has none
<1>9. /\ \A f \in 1..L : f # L + 1 /\ f # L + 2 /\ f \in Int
      /\ L + 1 # L + 2 /\ L + 1 \in Int /\ L + 2 \in Int /\ B + 1 \in Int
      /\ \A i \in 1..B : i # B + 1 /\ i \in 1..(B + 1)
      /\ \A i \in 1..(B + 1) : (i \in 1..B \/ i = B + 1) /\ i \in Int
      /\ B + 1 \in 1..(B + 1) /\ 1 \in 1..Len(q)
      /\ \A i \in 1..(Len(q) - 1) : i + 1 \in 1..Len(q) /\ i >= 1 /\ i \in Int
      /\ \A i \in 1..Len(q) : i = 1 \/ (i - 1 \in 1..(Len(q) - 1) /\ (i - 1) + 1 = i)
      /\ \A f \in 1..L : \A i \in 1..Len(s[f]) : i \in Int
  BY <1>1
<1>10. ASSUME NEW x \in SpotsOf(G)
       PROVE  /\ back[x] \in SpotsOf(F) /\ x[1] \in Int /\ x[2] \in Int
              /\ G[x[1]][x[2]] = F[back[x][1]][back[x][2]]
              /\ \/ x[1] \in 1..L /\ back[x] = x
                 \/ x[1] = L + 1 /\ x[2] \in 1..B /\ back[x] = x
                 \/ x[1] = L + 1 /\ x[2] = B + 1 /\ back[x][1] = L + 2 /\ back[x][2] = 1
                 \/ x[1] = L + 2 /\ x[2] >= 1 /\ back[x][1] = L + 2 /\ back[x][2] = x[2] + 1
  <2>1. /\ x = <<x[1], x[2]>>
        /\ \/ x[1] \in 1..L /\ x[2] \in 1..Len(s[x[1]])
           \/ x[1] = L + 1 /\ x[2] \in 1..(B + 1)
           \/ x[1] = L + 2 /\ x[2] \in 1..(Len(q) - 1)
    BY <1>7, Zenon
  <2> DEFINE y == back[x]
  <2>2. y = IF x[1] = L + 2 THEN <<L + 2, x[2] + 1>>
            ELSE IF x[1] = L + 1 /\ x[2] = B + 1 THEN <<L + 2, 1>> ELSE x
    BY <1>8, Zenon
  <2> HIDE DEF y
  <2>3. CASE x[1] \in 1..L /\ x[2] \in 1..Len(s[x[1]])
    <3>1. y = x
      BY <1>9, <2>2, <2>3, Zenon
    <3>2. y \in SpotsOf(F)
      BY <1>6, <2>1, <2>3, <3>1, Zenon
    <3>3. G[x[1]] = F[x[1]]
      BY <1>5, <2>3, Zenon
    <3>. QED BY <1>9, <2>3, <3>1, <3>2, <3>3, Zenon DEF y
  <2>4. CASE x[1] = L + 1 /\ x[2] \in 1..B
    <3>1. y = x
      BY <1>9, <2>2, <2>4, Zenon
    <3>2. y \in SpotsOf(F)
      BY <1>6, <2>1, <2>4, <3>1, Zenon
    <3>3. G[x[1]][x[2]] = F[x[1]][x[2]]
      BY <1>4, <1>5, <2>4, Zenon
    <3>. QED BY <1>9, <2>4, <3>1, <3>2, <3>3, Zenon DEF y
  <2>5. CASE x[1] = L + 1 /\ x[2] = B + 1
    <3>1. y = <<L + 2, 1>>
      BY <1>9, <2>2, <2>5, Zenon
    <3>2. y[1] = L + 2 /\ y[2] = 1
      BY <3>1
    <3>3. y \in SpotsOf(F)
      BY <1>6, <1>9, <3>1, <3>2, Zenon
    <3>4. G[x[1]][x[2]] = F[y[1]][y[2]]
      BY <1>4, <1>5, <2>5, <3>2, Zenon
    <3>. QED BY <1>9, <2>5, <3>2, <3>3, <3>4, Zenon DEF y
  <2>6. CASE x[1] = L + 2 /\ x[2] \in 1..(Len(q) - 1)
    <3>1. y = <<L + 2, x[2] + 1>>
      BY <2>2, <2>6, Zenon
    <3>2. y[1] = L + 2 /\ y[2] = x[2] + 1
      BY <3>1
    <3>3. y \in SpotsOf(F)
      BY <1>6, <1>9, <2>6, <3>1, <3>2, Zenon
    <3>4. G[x[1]][x[2]] = F[y[1]][y[2]]
      BY <1>2, <1>5, <2>6, <3>2, Zenon
    <3>. QED BY <1>9, <2>6, <3>2, <3>3, <3>4, Zenon DEF y
  <2>. QED BY <1>9, <2>1, <2>3, <2>4, <2>5, <2>6, Zenon
<1>11. ASSUME NEW t \in SpotsOf(F) PROVE \E x \in SpotsOf(G) : back[x] = t
  <2>1. /\ t = <<t[1], t[2]>>
        /\ \/ t[1] \in 1..L /\ t[2] \in 1..Len(s[t[1]])
           \/ t[1] = L + 1 /\ t[2] \in 1..B
           \/ t[1] = L + 2 /\ t[2] \in 1..Len(q)
    BY <1>6, Zenon
  <2>2. CASE \/ t[1] \in 1..L /\ t[2] \in 1..Len(s[t[1]])
             \/ t[1] = L + 1 /\ t[2] \in 1..B
    <3>1. t \in SpotsOf(G)
      BY <1>7, <1>9, <2>1, <2>2, Zenon
    <3>2. back[t] = t
      BY <1>8, <1>9, <2>2, <3>1, Zenon
    <3>. QED BY <3>1, <3>2
  <2>3. CASE t[1] = L + 2 /\ t[2] = 1
    <3> DEFINE x == <<L + 1, B + 1>>
    <3>1. x[1] = L + 1 /\ x[2] = B + 1 /\ x = <<x[1], x[2]>>
      OBVIOUS
    <3> HIDE DEF x
    <3>2. x \in SpotsOf(G)
      BY <1>7, <1>9, <3>1, Zenon
    <3>3. back[x] = <<L + 2, 1>>
      BY <1>8, <1>9, <3>1, <3>2, Zenon
    <3>. QED BY <2>1, <2>3, <3>2, <3>3, Zenon
  <2>4. CASE t[1] = L + 2 /\ t[2] - 1 \in 1..(Len(q) - 1) /\ (t[2] - 1) + 1 = t[2]
    <3> DEFINE x == <<L + 2, t[2] - 1>>
    <3>1. x[1] = L + 2 /\ x[2] = t[2] - 1 /\ x = <<x[1], x[2]>>
      OBVIOUS
    <3> HIDE DEF x
    <3>2. x \in SpotsOf(G)
      BY <1>7, <2>4, <3>1, Zenon
    <3>3. back[x] = <<L + 2, (t[2] - 1) + 1>>
      BY <1>8, <3>1, <3>2, Zenon
    <3>. QED BY <2>1, <2>4, <3>2, <3>3, Zenon
  <2>. QED BY <1>9, <2>1, <2>2, <2>3, <2>4, Zenon
<1>12. ASSUME NEW x \in SpotsOf(G), NEW y \in SpotsOf(G)
       PROVE  Earlier(back[x], back[y]) <=> Earlier(x, y)
  <2> DEFINE x1 == x[1]  x2 == x[2]  y1 == y[1]  y2 == y[2]
             bx1 == back[x][1]  bx2 == back[x][2]  by1 == back[y][1]  by2 == back[y][2]
  <2>1. /\ \/ x1 \in 1..L /\ bx1 = x1 /\ bx2 = x2
           \/ x1 = L + 1 /\ x2 \in 1..B /\ bx1 = x1 /\ bx2 = x2
           \/ x1 = L + 1 /\ x2 = B + 1 /\ bx1 = L + 2 /\ bx2 = 1
           \/ x1 = L + 2 /\ x2 >= 1 /\ bx1 = L + 2 /\ bx2 = x2 + 1
        /\ x1 \in Int /\ x2 \in Int
    BY <1>10, Zenon
  <2>2. /\ \/ y1 \in 1..L /\ by1 = y1 /\ by2 = y2
           \/ y1 = L + 1 /\ y2 \in 1..B /\ by1 = y1 /\ by2 = y2
           \/ y1 = L + 1 /\ y2 = B + 1 /\ by1 = L + 2 /\ by2 = 1
           \/ y1 = L + 2 /\ y2 >= 1 /\ by1 = L + 2 /\ by2 = y2 + 1
        /\ y1 \in Int /\ y2 \in Int
    BY <1>10, Zenon
  <2>3. L \in Nat /\ B \in Nat
    BY <1>1
  <2>4. /\ Earlier(x, y) <=> x1 < y1 \/ (x1 = y1 /\ x2 < y2)
        /\ Earlier(back[x], back[y]) <=> bx1 < by1 \/ (bx1 = by1 /\ bx2 < by2)
    BY DEF Earlier
  <2> HIDE DEF x1, x2, y1, y2, bx1, bx2, by1, by2
  <2>5. (bx1 < by1 \/ (bx1 = by1 /\ bx2 < by2)) <=> (x1 < y1 \/ (x1 = y1 /\ x2 < y2))
    BY <2>1, <2>2, <2>3
  <2>. QED BY <2>4, <2>5
<1>13. back \in [SpotsOf(G) -> SpotsOf(F)]
  <2>1. back = [x \in SpotsOf(G) |-> back[x]]
    BY DEF back
  <2>. QED BY <1>10, <2>1
<1>14. SameStream(F, G)
  BY <1>10, <1>11, <1>12, <1>13 DEF SameStream
<1>. QED BY <1>14 DEF F, G, c, r

\* A broadcast sends the batch and starts an empty one.
LEMMA FlushSame ==
    ASSUME NEW s \in Seq(Seq(Nat)), NEW b \in Seq(Nat), NEW q \in Seq(Nat)
    PROVE  SameStream(FramesOf(s, b, q), FramesOf(Append(s, b), <<>>, q))
<1> DEFINE L == Len(s)
           B == Len(b)
           z == Append(s, b)
           F == FramesOf(s, b, q)
           G == FramesOf(z, <<>>, q)
           back == [x \in SpotsOf(G) |-> IF x[1] = L + 3 THEN <<L + 2, x[2]>> ELSE x]
<1>1. L \in Nat /\ B \in Nat /\ Len(q) \in Nat /\ \A f \in 1..L : Len(s[f]) \in Nat
  BY FramesFacts, LenProperties
<1>2. z \in Seq(Seq(Nat)) /\ Len(z) = L + 1 /\ z[L + 1] = b /\ \A f \in 1..L : z[f] = s[f]
  BY AppendProperties
<1>3. <<>> \in Seq(Nat) /\ Len(<<>>) = 0
  BY EmptySeq
<1>4. (\A f \in 1..L : F[f] = s[f]) /\ F[L + 1] = b /\ F[L + 2] = q
  BY FramesFacts
<1> HIDE DEF z, F, back
<1>5. (\A f \in 1..L : G[f] = s[f]) /\ G[L + 1] = b /\ G[L + 3] = q
  <2>1. (\A f \in 1..Len(z) : G[f] = z[f]) /\ G[Len(z) + 2] = q
    <3> DEFINE e == <<>>
    <3>1. e \in Seq(Nat)
      OBVIOUS
    <3> HIDE DEF e
    <3>2. (\A f \in 1..Len(z) : FramesOf(z, e, q)[f] = z[f]) /\ FramesOf(z, e, q)[Len(z) + 2] = q
      BY <1>2, <3>1, FramesFacts
    <3>. QED BY <3>2 DEF e
  <2> HIDE DEF G
  <2>2. Len(z) + 2 = L + 3 /\ L + 1 \in 1..Len(z) /\ \A f \in 1..L : f \in 1..Len(z)
    BY <1>1, <1>2
  <2>. QED BY <1>2, <2>1, <2>2, Zenon
<1>6. \A x : x \in SpotsOf(F)
              <=> /\ x = <<x[1], x[2]>>
                  /\ \/ x[1] \in 1..L /\ x[2] \in 1..Len(s[x[1]])
                     \/ x[1] = L + 1 /\ x[2] \in 1..B
                     \/ x[1] = L + 2 /\ x[2] \in 1..Len(q)
  BY SpotKinds DEF F
<1>7. \A x : x \in SpotsOf(G)
              <=> /\ x = <<x[1], x[2]>>
                  /\ \/ x[1] \in 1..L /\ x[2] \in 1..Len(s[x[1]])
                     \/ x[1] = L + 1 /\ x[2] \in 1..B
                     \/ x[1] = L + 3 /\ x[2] \in 1..Len(q)
  <2>1. \A x : x \in SpotsOf(G)
              <=> /\ x = <<x[1], x[2]>>
                  /\ \/ x[1] \in 1..Len(z) /\ x[2] \in 1..Len(z[x[1]])
                     \/ x[1] = Len(z) + 1 /\ x[2] \in 1..Len(<<>>)
                     \/ x[1] = Len(z) + 2 /\ x[2] \in 1..Len(q)
    BY <1>2, <1>3, SpotKinds
  <2> HIDE DEF G
  <2>2. /\ \A f : f \in 1..Len(z) <=> f \in 1..L \/ f = L + 1
        /\ Len(z) + 2 = L + 3 /\ 1..Len(<<>>) = {} /\ Len(z[L + 1]) = B
        /\ \A f \in 1..L : z[f] = s[f]
    BY <1>1, <1>2, <1>3
  <2>. QED BY <2>1, <2>2, Zenon
<1>8. \A x \in SpotsOf(G) : back[x] = IF x[1] = L + 3 THEN <<L + 2, x[2]>> ELSE x
  BY DEF back
<1> HIDE DEF L, B, G
<1>9. /\ \A f \in 1..L : f # L + 3 /\ f \in Int
      /\ L + 1 # L + 3 /\ L + 1 \in Int /\ L + 2 \in Int /\ L + 3 \in Int
      /\ \A i \in 1..B : i \in Int
      /\ \A i \in 1..Len(q) : i \in Int
      /\ \A f \in 1..L : \A i \in 1..Len(s[f]) : i \in Int
  BY <1>1
<1>10. ASSUME NEW x \in SpotsOf(G)
       PROVE  /\ back[x] \in SpotsOf(F) /\ x[1] \in Int /\ x[2] \in Int
              /\ G[x[1]][x[2]] = F[back[x][1]][back[x][2]]
              /\ \/ (x[1] \in 1..L \/ x[1] = L + 1) /\ back[x] = x
                 \/ x[1] = L + 3 /\ back[x][1] = L + 2 /\ back[x][2] = x[2]
  <2>1. /\ x = <<x[1], x[2]>>
        /\ \/ x[1] \in 1..L /\ x[2] \in 1..Len(s[x[1]])
           \/ x[1] = L + 1 /\ x[2] \in 1..B
           \/ x[1] = L + 3 /\ x[2] \in 1..Len(q)
    BY <1>7, Zenon
  <2> DEFINE y == back[x]
  <2>2. y = IF x[1] = L + 3 THEN <<L + 2, x[2]>> ELSE x
    BY <1>8, Zenon
  <2> HIDE DEF y
  <2>3. CASE x[1] \in 1..L /\ x[2] \in 1..Len(s[x[1]])
    <3>1. y = x
      BY <1>9, <2>2, <2>3, Zenon
    <3>2. y \in SpotsOf(F)
      BY <1>6, <2>1, <2>3, <3>1, Zenon
    <3>3. \A f \in 1..L : G[f] = F[f]
      BY <1>4, <1>5
    <3>4. G[x[1]] = F[x[1]]
      BY <2>3, <3>3, Zenon
    <3>. QED BY <1>9, <2>3, <3>1, <3>2, <3>4, Zenon DEF y
  <2>4. CASE x[1] = L + 1 /\ x[2] \in 1..B
    <3>1. y = x
      BY <1>9, <2>2, <2>4, Zenon
    <3>2. y \in SpotsOf(F)
      BY <1>6, <2>1, <2>4, <3>1, Zenon
    <3>3. G[L + 1] = F[L + 1]
      BY <1>4, <1>5
    <3>4. G[x[1]] = F[x[1]]
      BY <2>4, <3>3, Zenon
    <3>. QED BY <1>9, <2>4, <3>1, <3>2, <3>4, Zenon DEF y
  <2>5. CASE x[1] = L + 3 /\ x[2] \in 1..Len(q)
    <3>1. y = <<L + 2, x[2]>>
      BY <2>2, <2>5, Zenon
    <3>2. y[1] = L + 2 /\ y[2] = x[2]
      BY <3>1
    <3>3. y \in SpotsOf(F)
      BY <1>6, <2>5, <3>1, <3>2, Zenon
    <3>4. G[x[1]][x[2]] = F[y[1]][y[2]]
      BY <1>4, <1>5, <2>5, <3>2, Zenon
    <3>. QED BY <1>9, <2>5, <3>2, <3>3, <3>4, Zenon DEF y
  <2>. QED BY <2>1, <2>3, <2>4, <2>5, Zenon
<1>11. ASSUME NEW t \in SpotsOf(F) PROVE \E x \in SpotsOf(G) : back[x] = t
  <2>1. /\ t = <<t[1], t[2]>>
        /\ \/ t[1] \in 1..L /\ t[2] \in 1..Len(s[t[1]])
           \/ t[1] = L + 1 /\ t[2] \in 1..B
           \/ t[1] = L + 2 /\ t[2] \in 1..Len(q)
    BY <1>6, Zenon
  <2>2. CASE \/ t[1] \in 1..L /\ t[2] \in 1..Len(s[t[1]])
             \/ t[1] = L + 1 /\ t[2] \in 1..B
    <3>1. t \in SpotsOf(G)
      BY <1>7, <2>1, <2>2, Zenon
    <3>2. back[t] = t
      BY <1>8, <1>9, <2>2, <3>1, Zenon
    <3>. QED BY <3>1, <3>2
  <2>3. CASE t[1] = L + 2 /\ t[2] \in 1..Len(q)
    <3> DEFINE x == <<L + 3, t[2]>>
    <3>1. x[1] = L + 3 /\ x[2] = t[2] /\ x = <<x[1], x[2]>>
      OBVIOUS
    <3> HIDE DEF x
    <3>2. x \in SpotsOf(G)
      BY <1>7, <2>3, <3>1, Zenon
    <3>3. back[x] = <<L + 2, t[2]>>
      BY <1>8, <3>1, <3>2, Zenon
    <3>. QED BY <2>1, <2>3, <3>2, <3>3, Zenon
  <2>. QED BY <2>1, <2>2, <2>3, Zenon
<1>12. ASSUME NEW x \in SpotsOf(G), NEW y \in SpotsOf(G)
       PROVE  Earlier(back[x], back[y]) <=> Earlier(x, y)
  <2> DEFINE x1 == x[1]  x2 == x[2]  y1 == y[1]  y2 == y[2]
             bx1 == back[x][1]  bx2 == back[x][2]  by1 == back[y][1]  by2 == back[y][2]
  <2>1. /\ \/ (x1 \in 1..L \/ x1 = L + 1) /\ bx1 = x1 /\ bx2 = x2
           \/ x1 = L + 3 /\ bx1 = L + 2 /\ bx2 = x2
        /\ x1 \in Int /\ x2 \in Int
    BY <1>10, Zenon
  <2>2. /\ \/ (y1 \in 1..L \/ y1 = L + 1) /\ by1 = y1 /\ by2 = y2
           \/ y1 = L + 3 /\ by1 = L + 2 /\ by2 = y2
        /\ y1 \in Int /\ y2 \in Int
    BY <1>10, Zenon
  <2>3. L \in Nat
    BY <1>1
  <2>4. /\ Earlier(x, y) <=> x1 < y1 \/ (x1 = y1 /\ x2 < y2)
        /\ Earlier(back[x], back[y]) <=> bx1 < by1 \/ (bx1 = by1 /\ bx2 < by2)
    BY DEF Earlier
  <2> HIDE DEF x1, x2, y1, y2, bx1, bx2, by1, by2
  <2>5. (bx1 < by1 \/ (bx1 = by1 /\ bx2 < by2)) <=> (x1 < y1 \/ (x1 = y1 /\ x2 < y2))
    BY <2>1, <2>2, <2>3
  <2>. QED BY <2>4, <2>5
<1>13. back \in [SpotsOf(G) -> SpotsOf(F)]
  <2>1. back = [x \in SpotsOf(G) |-> back[x]]
    BY DEF back
  <2>. QED BY <1>10, <2>1
<1>14. SameStream(F, G)
  BY <1>10, <1>11, <1>12, <1>13 DEF SameStream
<1>. QED BY <1>14 DEF F, G, z

NumberAt(F, s) == F[s[1]][s[2]]
NumbersIn(F) == {NumberAt(F, s) : s \in SpotsOf(F)}

LEMMA SpotsOrdered ==
    ASSUME NEW s \in Seq(Seq(Nat)), NEW b \in Seq(Nat), NEW q \in Seq(Nat),
           NEW x \in SpotsOf(FramesOf(s, b, q)), NEW y \in SpotsOf(FramesOf(s, b, q))
    PROVE  /\ Earlier(x, y) \/ Earlier(y, x) \/ x = y
           /\ ~ Earlier(x, x)
<1>1. /\ x = <<x[1], x[2]>> /\ x[1] \in Int /\ x[2] \in Int
      /\ y = <<y[1], y[2]>> /\ y[1] \in Int /\ y[2] \in Int
  <2>1. /\ Len(s) \in Nat /\ Len(b) \in Nat /\ Len(q) \in Nat
        /\ \A f \in 1..Len(s) : f \in Int /\ \A i \in 1..Len(s[f]) : i \in Int
        /\ \A i \in 1..Len(b) : i \in Int
        /\ \A i \in 1..Len(q) : i \in Int
        /\ Len(s) + 1 \in Int /\ Len(s) + 2 \in Int
    BY FramesFacts, LenProperties
  <2>2. /\ x = <<x[1], x[2]>>
        /\ \/ x[1] \in 1..Len(s) /\ x[2] \in 1..Len(s[x[1]])
           \/ x[1] = Len(s) + 1 /\ x[2] \in 1..Len(b)
           \/ x[1] = Len(s) + 2 /\ x[2] \in 1..Len(q)
    BY SpotKinds
  <2>3. /\ y = <<y[1], y[2]>>
        /\ \/ y[1] \in 1..Len(s) /\ y[2] \in 1..Len(s[y[1]])
           \/ y[1] = Len(s) + 1 /\ y[2] \in 1..Len(b)
           \/ y[1] = Len(s) + 2 /\ y[2] \in 1..Len(q)
    BY SpotKinds
  <2>. QED BY <2>1, <2>2, <2>3, Zenon
<1> DEFINE x1 == x[1]  x2 == x[2]  y1 == y[1]  y2 == y[2]
<1>2. /\ Earlier(x, y) <=> x1 < y1 \/ (x1 = y1 /\ x2 < y2)
      /\ Earlier(y, x) <=> y1 < x1 \/ (y1 = x1 /\ y2 < x2)
      /\ Earlier(x, x) <=> x1 < x1 \/ (x1 = x1 /\ x2 < x2)
  BY DEF Earlier
<1>3. x = <<x1, x2>> /\ y = <<y1, y2>> /\ x1 \in Int /\ x2 \in Int /\ y1 \in Int /\ y2 \in Int
  BY <1>1
<1> HIDE DEF x1, x2, y1, y2
<1>4. /\ x1 < y1 \/ (x1 = y1 /\ x2 < y2) \/ y1 < x1 \/ (y1 = x1 /\ y2 < x2) \/ (x1 = y1 /\ x2 = y2)
      /\ ~ (x1 < x1) /\ ~ (x2 < x2)
  BY <1>3
<1>5. x1 = y1 /\ x2 = y2 => x = y
  BY <1>3
<1>. QED BY <1>2, <1>4, <1>5

\* The same stream holds the same numbers, each as often.
LEMMA SameNumbers ==
    ASSUME NEW F, NEW s \in Seq(Seq(Nat)), NEW b \in Seq(Nat), NEW q \in Seq(Nat),
           SameStream(F, FramesOf(s, b, q)),
           \A x \in SpotsOf(F) : ~ Earlier(x, x)
    PROVE  /\ NumbersIn(FramesOf(s, b, q)) = NumbersIn(F)
           /\ (\A x, y \in SpotsOf(F) : NumberAt(F, x) = NumberAt(F, y) => x = y)
                 => \A x, y \in SpotsOf(FramesOf(s, b, q)) :
                       NumberAt(FramesOf(s, b, q), x) = NumberAt(FramesOf(s, b, q), y) => x = y
<1> DEFINE G == FramesOf(s, b, q)
<1>1. \A x, y \in SpotsOf(G) : Earlier(x, y) \/ Earlier(y, x) \/ x = y
  BY SpotsOrdered
<1> HIDE DEF G
<1>2. PICK back \in [SpotsOf(G) -> SpotsOf(F)] :
        /\ \A t \in SpotsOf(F) : \E x \in SpotsOf(G) : back[x] = t
        /\ \A x \in SpotsOf(G) : G[x[1]][x[2]] = F[back[x][1]][back[x][2]]
        /\ \A x, y \in SpotsOf(G) : Earlier(back[x], back[y]) <=> Earlier(x, y)
  BY DEF SameStream, G
<1>3. \A x \in SpotsOf(G) : back[x] \in SpotsOf(F) /\ NumberAt(G, x) = NumberAt(F, back[x])
  BY <1>2 DEF NumberAt
<1>4. NumbersIn(G) = NumbersIn(F)
  <2>1. NumbersIn(G) \subseteq NumbersIn(F)
    BY <1>3 DEF NumbersIn
  <2>2. NumbersIn(F) \subseteq NumbersIn(G)
    BY <1>2, <1>3 DEF NumbersIn
  <2>. QED BY <2>1, <2>2
<1>5. ASSUME \A x, y \in SpotsOf(F) : NumberAt(F, x) = NumberAt(F, y) => x = y,
             NEW x \in SpotsOf(G), NEW y \in SpotsOf(G), NumberAt(G, x) = NumberAt(G, y)
      PROVE  x = y
  <2>1. back[x] = back[y]
    BY <1>3, <1>5
  <2>2. ~ Earlier(x, y) /\ ~ Earlier(y, x)
    BY <1>2, <1>3, <2>1
  <2>. QED BY <1>1, <2>2
<1>. QED BY <1>4, <1>5 DEF G

\* A number put into the queue stands behind every other.
LEMMA QueueGrows ==
    ASSUME NEW s \in Seq(Seq(Nat)), NEW b \in Seq(Nat), NEW q \in Seq(Nat), NEW n \in Nat
    PROVE  LET F == FramesOf(s, b, q)
               G == FramesOf(s, b, Append(q, n))
               end == <<Len(s) + 2, Len(q) + 1>>
           IN  /\ SpotsOf(G) = SpotsOf(F) \cup {end}
               /\ NumberAt(G, end) = n
               /\ \A x \in SpotsOf(F) : NumberAt(G, x) = NumberAt(F, x) /\ Earlier(x, end)
<1> DEFINE L == Len(s)
           r == Append(q, n)
           F == FramesOf(s, b, q)
           G == FramesOf(s, b, r)
           end == <<L + 2, Len(q) + 1>>
<1>1. L \in Nat /\ Len(b) \in Nat /\ Len(q) \in Nat /\ \A f \in 1..L : Len(s[f]) \in Nat
  BY FramesFacts, LenProperties
<1>2. r \in Seq(Nat) /\ Len(r) = Len(q) + 1 /\ r[Len(q) + 1] = n /\ \A i \in 1..Len(q) : r[i] = q[i]
  BY AppendProperties
<1>3. (\A f \in 1..L : F[f] = s[f]) /\ F[L + 1] = b /\ F[L + 2] = q
  BY FramesFacts
<1>4. \A x : x \in SpotsOf(F)
              <=> /\ x = <<x[1], x[2]>>
                  /\ \/ x[1] \in 1..L /\ x[2] \in 1..Len(s[x[1]])
                     \/ x[1] = L + 1 /\ x[2] \in 1..Len(b)
                     \/ x[1] = L + 2 /\ x[2] \in 1..Len(q)
  BY SpotKinds
<1> HIDE DEF r
<1>5. (\A f \in 1..L : G[f] = s[f]) /\ G[L + 1] = b /\ G[L + 2] = r
  BY <1>2, FramesFacts
<1>6. \A x : x \in SpotsOf(G)
              <=> /\ x = <<x[1], x[2]>>
                  /\ \/ x[1] \in 1..L /\ x[2] \in 1..Len(s[x[1]])
                     \/ x[1] = L + 1 /\ x[2] \in 1..Len(b)
                     \/ x[1] = L + 2 /\ x[2] \in 1..Len(r)
  BY <1>2, SpotKinds
<1>7. end = <<end[1], end[2]>> /\ end[1] = L + 2 /\ end[2] = Len(q) + 1
  OBVIOUS
<1>8. \A x : x = <<x[1], x[2]>> /\ x[1] = L + 2 /\ x[2] = Len(q) + 1 => x = end
  OBVIOUS
<1> HIDE DEF F, G, end, L
<1>9. /\ \A i : i \in 1..Len(r) <=> i \in 1..Len(q) \/ i = Len(q) + 1
      /\ Len(q) + 1 # 0
  BY <1>1, <1>2
<1>10. SpotsOf(G) = SpotsOf(F) \cup {end}
  <2>1. \A x \in SpotsOf(G) : x \in SpotsOf(F) \/ x = end
    BY <1>4, <1>6, <1>8, <1>9, Zenon
  <2>2. \A x \in SpotsOf(F) : x \in SpotsOf(G)
    BY <1>4, <1>6, <1>9, Zenon
  <2>3. end \in SpotsOf(G)
    BY <1>6, <1>7, <1>9, Zenon
  <2>. QED BY <2>1, <2>2, <2>3
<1>11. NumberAt(G, end) = n
  BY <1>2, <1>5, <1>7 DEF NumberAt
<1>12. ASSUME NEW x \in SpotsOf(F)
       PROVE  NumberAt(G, x) = NumberAt(F, x) /\ Earlier(x, end)
  <2>1. \/ x[1] \in 1..L /\ x[2] \in 1..Len(s[x[1]])
        \/ x[1] = L + 1 /\ x[2] \in 1..Len(b)
        \/ x[1] = L + 2 /\ x[2] \in 1..Len(q)
    BY <1>4
  <2>2. Earlier(x, end) <=> x[1] < L + 2 \/ (x[1] = L + 2 /\ x[2] < Len(q) + 1)
    BY <1>7 DEF Earlier
  <2>3. CASE x[1] \in 1..L /\ x[2] \in 1..Len(s[x[1]])
    <3>1. G[x[1]] = F[x[1]]
      BY <1>3, <1>5, <2>3
    <3>. QED BY <1>1, <2>2, <2>3, <3>1 DEF NumberAt
  <2>4. CASE x[1] = L + 1 /\ x[2] \in 1..Len(b)
    <3>1. G[x[1]] = F[x[1]]
      BY <1>3, <1>5, <2>4
    <3>. QED BY <1>1, <2>2, <2>4, <3>1 DEF NumberAt
  <2>5. CASE x[1] = L + 2 /\ x[2] \in 1..Len(q)
    <3>1. G[x[1]] = r /\ F[x[1]] = q /\ r[x[2]] = q[x[2]]
      BY <1>2, <1>3, <1>5, <2>5
    <3>. QED BY <1>1, <2>2, <2>5, <3>1 DEF NumberAt
  <2>. QED BY <2>1, <2>3, <2>4, <2>5
<1>. QED BY <1>10, <1>11, <1>12 DEF F, G, end, L, r

\* What the pump's end leaves of the stream is its beginning.
LEMMA StreamCut ==
    ASSUME NEW s \in Seq(Seq(Nat)), NEW b \in Seq(Nat), NEW q \in Seq(Nat)
    PROVE  LET F == FramesOf(s, b, q)
               G == FramesOf(s, <<>>, <<>>)
           IN  /\ \A x \in SpotsOf(G) : x \in SpotsOf(F) /\ NumberAt(G, x) = NumberAt(F, x)
               /\ \A x \in SpotsOf(G) : \A y \in SpotsOf(F) : Earlier(y, x) => y \in SpotsOf(G)
<1> DEFINE L == Len(s)
           e == <<>>
           F == FramesOf(s, b, q)
           G == FramesOf(s, e, e)
<1>1. L \in Nat /\ e \in Seq(Nat) /\ Len(e) = 0
  BY FramesFacts, EmptySeq
<1>2. \A f \in 1..L : F[f] = s[f]
  BY FramesFacts
<1>3. \A x : x \in SpotsOf(F)
              <=> /\ x = <<x[1], x[2]>>
                  /\ \/ x[1] \in 1..L /\ x[2] \in 1..Len(s[x[1]])
                     \/ x[1] = L + 1 /\ x[2] \in 1..Len(b)
                     \/ x[1] = L + 2 /\ x[2] \in 1..Len(q)
  BY SpotKinds
<1> HIDE DEF e
<1>4. \A f \in 1..L : G[f] = s[f]
  <2>1. \A f \in 1..Len(s) : FramesOf(s, e, e)[f] = s[f]
    <3>1. e \in Seq(Nat)
      BY <1>1
    <3>. QED BY <3>1, FramesFacts
  <2>. QED BY <2>1
<1>5. \A x : x \in SpotsOf(G) <=> x = <<x[1], x[2]>> /\ x[1] \in 1..L /\ x[2] \in 1..Len(s[x[1]])
  <2>1. \A x : x \in SpotsOf(G)
              <=> /\ x = <<x[1], x[2]>>
                  /\ \/ x[1] \in 1..L /\ x[2] \in 1..Len(s[x[1]])
                     \/ x[1] = L + 1 /\ x[2] \in 1..Len(e)
                     \/ x[1] = L + 2 /\ x[2] \in 1..Len(e)
    BY <1>1, SpotKinds
  <2>2. 1..Len(e) = {}
    BY <1>1
  <2> HIDE DEF G, L
  <2>. QED BY <2>1, <2>2, Zenon
<1> HIDE DEF F, G, L
<1>6. ASSUME NEW x \in SpotsOf(G) PROVE x \in SpotsOf(F) /\ NumberAt(G, x) = NumberAt(F, x)
  <2>1. x \in SpotsOf(F)
    BY <1>3, <1>5, Zenon
  <2>2. x[1] \in 1..L
    BY <1>5
  <2>. QED BY <1>2, <1>4, <2>1, <2>2 DEF NumberAt
<1>7. ASSUME NEW x \in SpotsOf(G), NEW y \in SpotsOf(F), Earlier(y, x) PROVE y \in SpotsOf(G)
  <2>1. x[1] \in 1..L
    BY <1>5
  <2>2. y[1] = x[1] \/ y[1] < x[1]
    BY <1>7 DEF Earlier
  <2>3. y = <<y[1], y[2]>>
    BY <1>3
  <2>4. y[1] # L + 1 /\ y[1] # L + 2
    BY <1>1, <2>1, <2>2
  <2>5. y[1] \in 1..L /\ y[2] \in 1..Len(s[y[1]])
    BY <1>3, <2>4
  <2>. QED BY <1>5, <2>3, <2>5, Zenon
<1>. QED BY <1>6, <1>7 DEF F, G, e

-----------------------------------------------------------------------------
(* The bus and the pump. *)

Events == [type : {"ReplayStarted", "ReplayFinished", "ReplayProgress", "FlowClosed"}, id : Nat]
OnTheWay == {Number(s) : s \in Spots}

BusTypes ==
    /\ drawn \in Seq(Events)
    /\ held \in [Publishers -> Nat]
    /\ subQ \in Seq(Nat) /\ batch \in Seq(Nat) /\ sent \in Seq(Seq(Nat))
    /\ pump \in {"select", "closing", "stopped"}

\* No number is on its way, held or dropped that was not drawn.
Known == OnTheWay \cup Held \cup dropped \subseteq 1 .. Len(drawn)

BusInv == BusTypes /\ Known /\ EventsAccounted

LEMMA StreamIs ==
    /\ Frames = FramesOf(sent, batch, subQ) /\ Spots = SpotsOf(Frames) /\ OnTheWay = NumbersIn(Frames)
    /\ \A x : Number(x) = NumberAt(Frames, x)
    /\ Frames' = FramesOf(sent', batch', subQ') /\ Spots' = SpotsOf(Frames')
    /\ OnTheWay' = NumbersIn(Frames')
    /\ \A x : Number(x)' = NumberAt(Frames', x)
<1>1. Frames = FramesOf(sent, batch, subQ) /\ Frames' = FramesOf(sent', batch', subQ')
  BY DEF Frames, FramesOf
<1>2. Spots = SpotsOf(Frames) /\ Spots' = SpotsOf(Frames')
  BY DEF Spots, SpotsOf
<1>3. /\ \A x : Number(x) = NumberAt(Frames, x)
      /\ \A x : Number(x)' = NumberAt(Frames', x)
  BY DEF Number, NumberAt
<1>4. OnTheWay = NumbersIn(Frames) /\ OnTheWay' = NumbersIn(Frames')
  BY <1>2, <1>3 DEF OnTheWay, NumbersIn
<1>. QED BY <1>1, <1>2, <1>3, <1>4

\* The pump moves numbers and neither loses, doubles nor reorders one.
PumpMoves ==
    /\ SameStream(Frames, Frames')
    /\ UNCHANGED <<drawn, held, dropped>>
    /\ pump # "stopped" /\ pump' # "stopped"

LEMMA PumpTakeMoves ==
    ASSUME BusTypes, PumpTake
    PROVE  PumpMoves /\ BusTypes'
<1> DEFINE b == Append(batch, Head(subQ))
<1>1. /\ sent \in Seq(Seq(Nat)) /\ batch \in Seq(Nat) /\ subQ \in Seq(Nat) /\ subQ # <<>>
      /\ pump = "select" /\ subQ' = Tail(subQ) /\ UNCHANGED <<drawn, held, dropped>>
      /\ \/ Broadcast(b) /\ batch' = <<>>
         \/ batch' = b /\ UNCHANGED <<sent, sendQ, victims, pump>>
  BY DEF PumpTake, BusTypes
<1>2. Tail(subQ) \in Seq(Nat) /\ b \in Seq(Nat)
  BY <1>1, HeadTailProperties, AppendProperties
<1>3. Frames = FramesOf(sent, batch, subQ) /\ Frames' = FramesOf(sent', batch', subQ')
  BY StreamIs
<1>4. SameStream(FramesOf(sent, batch, subQ), FramesOf(sent, b, Tail(subQ)))
  BY <1>1, TakeSame
<1> HIDE DEF b
<1>5. CASE Broadcast(b) /\ batch' = <<>>
  <2>1. sent' = Append(sent, b) /\ pump' \in {"select", "closing"} /\ sent' \in Seq(Seq(Nat))
    BY <1>1, <1>2, <1>5, AppendProperties DEF Broadcast
  <2>2. SameStream(FramesOf(sent, b, Tail(subQ)), FramesOf(Append(sent, b), <<>>, Tail(subQ)))
    BY <1>1, <1>2, FlushSame
  <2>3. SameStream(Frames, Frames')
    BY <1>1, <1>3, <1>4, <1>5, <2>1, <2>2, SameStreamTransitive
  <2>4. BusTypes'
    BY <1>1, <1>2, <1>5, <2>1 DEF BusTypes
  <2>. QED BY <1>1, <2>1, <2>3, <2>4 DEF PumpMoves
<1>6. CASE batch' = b /\ UNCHANGED <<sent, sendQ, victims, pump>>
  <2>1. SameStream(Frames, Frames')
    BY <1>1, <1>3, <1>4, <1>6
  <2>2. BusTypes'
    BY <1>1, <1>2, <1>6 DEF BusTypes
  <2>. QED BY <1>1, <1>6, <2>1, <2>2 DEF PumpMoves
<1>. QED BY <1>1, <1>5, <1>6

LEMMA PumpTickMoves ==
    ASSUME BusTypes, PumpTick
    PROVE  PumpMoves /\ BusTypes'
<1>1. /\ sent \in Seq(Seq(Nat)) /\ batch \in Seq(Nat) /\ subQ \in Seq(Nat)
      /\ pump = "select" /\ UNCHANGED <<drawn, held, dropped, subQ>>
      /\ Broadcast(batch) /\ batch' = <<>>
  BY DEF PumpTick, BusTypes, busVars
<1>2. sent' = Append(sent, batch) /\ pump' \in {"select", "closing"} /\ sent' \in Seq(Seq(Nat))
  BY <1>1, AppendProperties DEF Broadcast
<1>3. SameStream(FramesOf(sent, batch, subQ), FramesOf(Append(sent, batch), <<>>, subQ))
  BY <1>1, FlushSame
<1>4. SameStream(Frames, Frames')
  BY <1>1, <1>2, <1>3, StreamIs
<1>5. BusTypes'
  BY <1>1, <1>2 DEF BusTypes
<1>. QED BY <1>1, <1>2, <1>4, <1>5 DEF PumpMoves

LEMMA PumpKeepsBus ==
    ASSUME BusInv, PumpMoves, BusTypes'
    PROVE  BusInv'
<1>1. /\ SameStream(Frames, Frames') /\ UNCHANGED <<drawn, held, dropped>>
      /\ pump # "stopped" /\ pump' # "stopped"
  BY DEF PumpMoves
<1>2. /\ Frames = FramesOf(sent, batch, subQ) /\ sent \in Seq(Seq(Nat)) /\ batch \in Seq(Nat) /\ subQ \in Seq(Nat)
      /\ Frames' = FramesOf(sent', batch', subQ') /\ sent' \in Seq(Seq(Nat)) /\ batch' \in Seq(Nat) /\ subQ' \in Seq(Nat)
  BY StreamIs DEF BusInv, BusTypes
<1>3. \A x \in SpotsOf(Frames) : ~ Earlier(x, x)
  BY <1>2, SpotsOrdered
<1>4. /\ NumbersIn(Frames') = NumbersIn(Frames)
      /\ (\A x, y \in SpotsOf(Frames) : NumberAt(Frames, x) = NumberAt(Frames, y) => x = y)
            => \A x, y \in SpotsOf(Frames') : NumberAt(Frames', x) = NumberAt(Frames', y) => x = y
  <2> DEFINE s == sent'  b == batch'  q == subQ'  F == Frames
  <2>1. /\ s \in Seq(Seq(Nat)) /\ b \in Seq(Nat) /\ q \in Seq(Nat) /\ Frames' = FramesOf(s, b, q)
        /\ SameStream(F, FramesOf(s, b, q)) /\ \A x \in SpotsOf(F) : ~ Earlier(x, x)
    BY <1>1, <1>2, <1>3
  <2> HIDE DEF s, b, q, F
  <2>2. /\ NumbersIn(FramesOf(s, b, q)) = NumbersIn(F)
        /\ (\A x, y \in SpotsOf(F) : NumberAt(F, x) = NumberAt(F, y) => x = y)
              => \A x, y \in SpotsOf(FramesOf(s, b, q)) :
                    NumberAt(FramesOf(s, b, q), x) = NumberAt(FramesOf(s, b, q), y) => x = y
    BY <2>1, SameNumbers
  <2>. QED BY <2>1, <2>2 DEF F
<1>5. OnTheWay' = OnTheWay
  BY <1>4, StreamIs
<1>6. Held' = Held
  BY <1>1 DEF Held
<1>7. Known'
  BY <1>1, <1>5, <1>6 DEF BusInv, Known
<1>8. EventsAccounted'
  <2>1. EventsAccounted /\ pump # "stopped"
    BY <1>1 DEF BusInv
  <2>2. \A x, y \in SpotsOf(Frames) : NumberAt(Frames, x) = NumberAt(Frames, y) => x = y
    BY <2>1, StreamIs DEF EventsAccounted
  <2>3. \A x, y \in Spots' : Number(x)' = Number(y)' => x = y
    BY <1>4, <2>2, StreamIs
  <2>4. /\ OnTheWay \cup Held \cup dropped = 1 .. Len(drawn)
        /\ OnTheWay \cap Held = {} /\ OnTheWay \cap dropped = {} /\ Held \cap dropped = {}
        /\ \A p, r \in Publishers : held[p] = held[r] /\ held[p] # 0 => p = r
    BY <2>1 DEF EventsAccounted, OnTheWay
  <2>. QED BY <1>1, <1>5, <1>6, <2>3, <2>4 DEF EventsAccounted, OnTheWay
<1>. QED BY <1>7, <1>8 DEF BusInv

LEMMA DrawKeepsBus ==
    ASSUME BusInv, NEW p \in Publishers, NEW what \in Events, Draw(p, what)
    PROVE  /\ BusInv'
           /\ Frames' = Frames /\ Len(drawn') = Len(drawn) + 1 /\ drawn'[Len(drawn) + 1] = what
           /\ \A n \in 1..Len(drawn) : drawn'[n] = drawn[n]
<1> DEFINE n == Len(drawn) + 1
<1>1. /\ held[p] = 0 /\ drawn' = Append(drawn, what) /\ held' = [held EXCEPT ![p] = n]
      /\ UNCHANGED <<subQ, dropped, pump, batch, sent>>
  BY DEF Draw, pumpVars
<1>2. drawn \in Seq(Events) /\ held \in [Publishers -> Nat] /\ Len(drawn) \in Nat
  BY LenProperties DEF BusInv, BusTypes
<1>3. /\ drawn' \in Seq(Events) /\ Len(drawn') = n /\ drawn'[n] = what
      /\ \A i \in 1..Len(drawn) : drawn'[i] = drawn[i]
  BY <1>1, <1>2, AppendProperties
<1>4. n \in Nat /\ n # 0 /\ n \notin 1..Len(drawn) /\ 1..n = 1..Len(drawn) \cup {n}
  BY <1>2
<1> HIDE DEF n
<1>5. /\ held' \in [Publishers -> Nat] /\ held'[p] = n
      /\ \A r \in Publishers : r # p => held'[r] = held[r]
  BY <1>1, <1>2, <1>4
<1>6. Held' = Held \cup {n}
  BY <1>1, <1>2, <1>4, <1>5 DEF Held
<1>7. Frames' = Frames
  BY <1>1 DEF Frames
<1>8. OnTheWay' = OnTheWay /\ Spots' = Spots /\ \A x : Number(x)' = Number(x)
  BY <1>7, StreamIs
<1>9. BusTypes'
  BY <1>1, <1>3, <1>5 DEF BusInv, BusTypes
<1>10. Known'
  BY <1>1, <1>3, <1>4, <1>6, <1>8 DEF BusInv, Known
<1>11. EventsAccounted'
  <2> SUFFICES ASSUME pump' # "stopped" PROVE EventsAccounted'
    BY DEF EventsAccounted
  <2>1. /\ OnTheWay \cup Held \cup dropped = 1 .. Len(drawn)
        /\ OnTheWay \cap Held = {} /\ OnTheWay \cap dropped = {} /\ Held \cap dropped = {}
        /\ \A x, y \in Spots : Number(x) = Number(y) => x = y
        /\ \A q, r \in Publishers : held[q] = held[r] /\ held[q] # 0 => q = r
    BY <1>1 DEF BusInv, EventsAccounted, OnTheWay
  <2>2. \A r \in Publishers : held[r] # n
    <3> SUFFICES ASSUME NEW r \in Publishers, held[r] = n PROVE FALSE
      OBVIOUS
    <3>1. n \in Held
      BY <1>4 DEF Held
    <3>. QED BY <1>4, <2>1, <3>1
  <2>3. \A q, r \in Publishers : held'[q] = held'[r] /\ held'[q] # 0 => q = r
    BY <1>5, <2>1, <2>2
  <2>4. /\ OnTheWay' \cup Held' \cup dropped' = 1 .. Len(drawn')
        /\ OnTheWay' \cap Held' = {} /\ OnTheWay' \cap dropped' = {} /\ Held' \cap dropped' = {}
    BY <1>1, <1>3, <1>4, <1>6, <1>8, <2>1
  <2>5. \A x, y \in Spots' : Number(x)' = Number(y)' => x = y
    BY <1>8, <2>1
  <2>. QED BY <2>3, <2>4, <2>5 DEF EventsAccounted, OnTheWay
<1>. QED BY <1>3, <1>7, <1>9, <1>10, <1>11 DEF BusInv, n

\* Number n has gone to the end of the stream.
Queued(n, e) ==
    /\ Spots' = Spots \cup {e} /\ Number(e)' = n
    /\ \A x \in Spots : Number(x)' = Number(x) /\ Earlier(x, e)

LEMMA SendEffect ==
    ASSUME BusInv, NEW p \in Publishers, Send(p)
    PROVE  /\ BusTypes' /\ UNCHANGED <<drawn, pump>>
           /\ held[p] \in Nat \ {0} /\ held'[p] = 0
           /\ \A r \in Publishers : r # p => held'[r] = held[r]
           /\ \/ pump = "stopped" /\ Frames' = Frames /\ dropped' = dropped
              \/ pump # "stopped" /\ dropped' = dropped /\ \E e : Queued(held[p], e)
              \/ pump # "stopped" /\ Frames' = Frames /\ dropped' = dropped \cup {held[p]}
<1>1. /\ held[p] # 0 /\ held' = [held EXCEPT ![p] = 0] /\ UNCHANGED <<drawn, pump, batch, sent>>
      /\ \/ pump = "stopped" /\ UNCHANGED <<subQ, dropped>>
         \/ pump # "stopped" /\ subQ' = Append(subQ, held[p]) /\ UNCHANGED dropped
         \/ pump # "stopped" /\ dropped' = dropped \cup {held[p]} /\ UNCHANGED subQ
  BY DEF Send, Subscribed, pumpVars
<1>2. /\ held \in [Publishers -> Nat] /\ drawn \in Seq(Events)
      /\ sent \in Seq(Seq(Nat)) /\ batch \in Seq(Nat) /\ subQ \in Seq(Nat)
      /\ pump \in {"select", "closing", "stopped"}
  BY DEF BusInv, BusTypes
<1>3. /\ held' \in [Publishers -> Nat] /\ held'[p] = 0 /\ held[p] \in Nat \ {0}
      /\ \A r \in Publishers : r # p => held'[r] = held[r]
  BY <1>1, <1>2
<1>4. subQ' \in Seq(Nat)
  <2>1. Append(subQ, held[p]) \in Seq(Nat)
    BY <1>2, <1>3, AppendProperties
  <2>. QED BY <1>1, <1>2, <2>1
<1>5. BusTypes'
  BY <1>1, <1>2, <1>3, <1>4 DEF BusTypes
<1>6. CASE pump # "stopped" /\ subQ' = Append(subQ, held[p]) /\ UNCHANGED dropped
  <2> DEFINE n == held[p]
             end == <<Len(sent) + 2, Len(subQ) + 1>>
             G == FramesOf(sent, batch, Append(subQ, n))
  <2>1. /\ SpotsOf(G) = SpotsOf(FramesOf(sent, batch, subQ)) \cup {end}
        /\ NumberAt(G, end) = n
        /\ \A x \in SpotsOf(FramesOf(sent, batch, subQ)) :
              NumberAt(G, x) = NumberAt(FramesOf(sent, batch, subQ), x) /\ Earlier(x, end)
    BY <1>2, <1>3, QueueGrows
  <2>2. Frames = FramesOf(sent, batch, subQ) /\ Frames' = G
    BY <1>1, <1>6, StreamIs
  <2> HIDE DEF end, G, n
  <2>3. Spots = SpotsOf(FramesOf(sent, batch, subQ)) /\ Spots' = SpotsOf(G)
    BY <2>2, StreamIs
  <2>4. /\ \A x : Number(x)' = NumberAt(G, x)
        /\ \A x : Number(x) = NumberAt(FramesOf(sent, batch, subQ), x)
    BY <2>2, StreamIs
  <2>5. PICK e : e = end
    OBVIOUS
  <2>6. Queued(n, e)
    BY <2>1, <2>3, <2>4, <2>5 DEF Queued
  <2>. QED BY <1>1, <1>3, <1>5, <1>6, <2>6 DEF n
<1>7. CASE subQ' = subQ
  <2>1. Frames' = Frames
    BY <1>1, <1>7 DEF Frames
  <2>. QED BY <1>1, <1>3, <1>5, <1>6, <2>1
<1>. QED BY <1>1, <1>6, <1>7

LEMMA SendKeepsBus ==
    ASSUME BusInv, NEW p \in Publishers, Send(p)
    PROVE  BusInv'
<1> DEFINE n == held[p]
<1>1. /\ BusTypes' /\ drawn' = drawn /\ pump' = pump
      /\ n \in Nat \ {0} /\ held'[p] = 0
      /\ \A r \in Publishers : r # p => held'[r] = held[r]
  BY SendEffect
<1>2. \/ pump = "stopped" /\ Frames' = Frames /\ dropped' = dropped
      \/ pump # "stopped" /\ dropped' = dropped /\ \E e : Queued(n, e)
      \/ pump # "stopped" /\ Frames' = Frames /\ dropped' = dropped \cup {n}
  BY SendEffect
<1>3. n \in Held /\ Held' \subseteq Held /\ Held \subseteq Held' \cup {n}
  BY <1>1 DEF Held
<1>4. OnTheWay \cup Held \cup dropped \subseteq 1 .. Len(drawn)
  BY DEF BusInv, Known
<1>5. pump # "stopped" =>
        /\ OnTheWay \cup Held \cup dropped = 1 .. Len(drawn)
        /\ OnTheWay \cap Held = {} /\ OnTheWay \cap dropped = {} /\ Held \cap dropped = {}
        /\ \A x, y \in Spots : Number(x) = Number(y) => x = y
        /\ \A q, r \in Publishers : held[q] = held[r] /\ held[q] # 0 => q = r
  BY DEF BusInv, EventsAccounted, OnTheWay
<1>6. pump # "stopped" => n \notin Held'
  BY <1>1, <1>5 DEF Held
<1>7. pump # "stopped" => \A q, r \in Publishers : held'[q] = held'[r] /\ held'[q] # 0 => q = r
  BY <1>1, <1>5
<1> HIDE DEF n
<1>8. CASE /\ Frames' = Frames
           /\ \/ pump = "stopped" /\ dropped' = dropped
              \/ pump # "stopped" /\ dropped' = dropped \cup {n}
  <2>1. OnTheWay' = OnTheWay /\ Spots' = Spots /\ \A x : Number(x)' = Number(x)
    BY <1>8, StreamIs
  <2>2. Known'
    BY <1>1, <1>3, <1>4, <1>8, <2>1 DEF Known
  <2>3. EventsAccounted'
    <3> SUFFICES ASSUME pump' # "stopped" PROVE EventsAccounted'
      BY DEF EventsAccounted
    <3>1. dropped' = dropped \cup {n}
      BY <1>1, <1>8
    <3>2. \A x, y \in Spots' : Number(x)' = Number(y)' => x = y
      BY <1>1, <1>5, <2>1
    <3>3. /\ OnTheWay' \cup Held' \cup dropped' = 1 .. Len(drawn')
          /\ OnTheWay' \cap Held' = {} /\ OnTheWay' \cap dropped' = {} /\ Held' \cap dropped' = {}
      <4>1. /\ OnTheWay \cup Held \cup dropped = 1 .. Len(drawn) /\ n \notin Held'
            /\ OnTheWay \cap Held = {} /\ OnTheWay \cap dropped = {} /\ Held \cap dropped = {}
        BY <1>1, <1>5, <1>6
      <4>2. OnTheWay' = OnTheWay /\ Len(drawn') = Len(drawn)
        BY <1>1, <2>1
      <4>. QED BY <1>3, <3>1, <4>1, <4>2
    <3>. QED BY <1>1, <1>7, <3>2, <3>3 DEF EventsAccounted, OnTheWay
  <2>. QED BY <1>1, <2>2, <2>3 DEF BusInv
<1>9. CASE pump # "stopped" /\ dropped' = dropped /\ \E e : Queued(n, e)
  <2>1. PICK e : Queued(n, e)
    BY <1>9
  <2>2. /\ Spots' = Spots \cup {e} /\ Number(e)' = n
        /\ \A x \in Spots : Number(x)' = Number(x) /\ Earlier(x, e)
    BY <2>1 DEF Queued
  <2>3. OnTheWay' = OnTheWay \cup {n}
    <3>1. OnTheWay = {Number(x) : x \in Spots}
      BY DEF OnTheWay
    <3>2. OnTheWay' = NumbersIn(Frames') /\ NumbersIn(Frames') = {NumberAt(Frames', x) : x \in Spots'}
      BY StreamIs DEF NumbersIn
    <3>3. \A x : Number(x)' = NumberAt(Frames', x)
      BY StreamIs
    <3>4. \A m \in OnTheWay' : m \in OnTheWay \cup {n}
      BY <2>2, <3>1, <3>2, <3>3
    <3>5. \A m \in OnTheWay \cup {n} : m \in OnTheWay'
      BY <2>2, <3>1, <3>2, <3>3
    <3>. QED BY <3>4, <3>5
  <2>4. n \notin OnTheWay /\ n \notin dropped
    BY <1>3, <1>5, <1>9
  <2>5. \A x, y \in Spots' : Number(x)' = Number(y)' => x = y
    <3>1. \A x \in Spots : Number(x) \in OnTheWay
      BY DEF OnTheWay
    <3>. QED BY <1>5, <1>9, <2>2, <2>4, <3>1
  <2>6. /\ OnTheWay' \cup Held' \cup dropped' = 1 .. Len(drawn')
        /\ OnTheWay' \cap Held' = {} /\ OnTheWay' \cap dropped' = {} /\ Held' \cap dropped' = {}
    <3>1. /\ OnTheWay \cup Held \cup dropped = 1 .. Len(drawn) /\ n \notin Held'
          /\ OnTheWay \cap Held = {} /\ OnTheWay \cap dropped = {} /\ Held \cap dropped = {}
      BY <1>5, <1>6, <1>9
    <3>2. dropped' = dropped /\ Len(drawn') = Len(drawn)
      BY <1>1, <1>9
    <3>. QED BY <1>3, <2>3, <2>4, <3>1, <3>2
  <2>7. EventsAccounted'
    BY <1>7, <1>9, <2>5, <2>6 DEF EventsAccounted, OnTheWay
  <2>8. Known'
    BY <2>6 DEF Known
  <2>. QED BY <1>1, <2>7, <2>8 DEF BusInv
<1>. QED BY <1>2, <1>8, <1>9, Zenon

\* The pump's end cuts the stream after what was sent.
Cut ==
    /\ Spots' \subseteq Spots /\ \A x \in Spots' : Number(x)' = Number(x)
    /\ \A x \in Spots', y \in Spots : Earlier(y, x) => y \in Spots'

LEMMA StopCuts ==
    ASSUME BusInv, PumpStop
    PROVE  BusInv' /\ Cut /\ UNCHANGED <<drawn, held, dropped>> /\ pump' = "stopped"
<1>1. /\ pump' = "stopped" /\ subQ' = <<>> /\ batch' = <<>> /\ UNCHANGED <<drawn, held, dropped, sent>>
  BY DEF PumpStop
<1>2. /\ sent \in Seq(Seq(Nat)) /\ batch \in Seq(Nat) /\ subQ \in Seq(Nat)
      /\ drawn \in Seq(Events) /\ held \in [Publishers -> Nat]
  BY DEF BusInv, BusTypes
<1>3. BusTypes'
  BY <1>1, <1>2 DEF BusTypes
<1> DEFINE G == FramesOf(sent, <<>>, <<>>)
<1>4. /\ \A x \in SpotsOf(G) : x \in SpotsOf(FramesOf(sent, batch, subQ))
                               /\ NumberAt(G, x) = NumberAt(FramesOf(sent, batch, subQ), x)
      /\ \A x \in SpotsOf(G) : \A y \in SpotsOf(FramesOf(sent, batch, subQ)) :
            Earlier(y, x) => y \in SpotsOf(G)
  BY <1>2, StreamCut
<1>5. Frames = FramesOf(sent, batch, subQ) /\ Frames' = G
  BY <1>1, StreamIs
<1> HIDE DEF G
<1>6. Cut
  BY <1>4, <1>5, StreamIs DEF Cut
<1>7. OnTheWay' \subseteq OnTheWay
  BY <1>4, <1>5, StreamIs DEF NumbersIn
<1>8. Held' = Held
  BY <1>1 DEF Held
<1>9. Known'
  BY <1>1, <1>7, <1>8 DEF BusInv, Known
<1>10. EventsAccounted'
  BY <1>1 DEF EventsAccounted
<1>. QED BY <1>1, <1>3, <1>6, <1>9, <1>10 DEF BusInv

LEMMA OthersKeepBus ==
    ASSUME BusInv, UNCHANGED <<drawn, held, subQ, dropped, batch, sent>>,
           pump' \in {"select", "closing", "stopped"}, pump' = "stopped" <=> pump = "stopped"
    PROVE  BusInv' /\ Frames' = Frames
<1>1. Frames' = Frames
  BY DEF Frames
<1>2. OnTheWay' = OnTheWay /\ Spots' = Spots /\ \A x : Number(x)' = Number(x)
  BY <1>1, StreamIs
<1>3. Held' = Held
  BY DEF Held
<1>4. BusTypes' /\ Known'
  BY <1>2, <1>3 DEF BusInv, BusTypes, Known
<1>5. EventsAccounted'
  <2> SUFFICES ASSUME pump' # "stopped" PROVE EventsAccounted'
    BY DEF EventsAccounted
  <2>1. /\ OnTheWay \cup Held \cup dropped = 1 .. Len(drawn)
        /\ OnTheWay \cap Held = {} /\ OnTheWay \cap dropped = {} /\ Held \cap dropped = {}
        /\ \A x, y \in Spots : Number(x) = Number(y) => x = y
        /\ \A q, r \in Publishers : held[q] = held[r] /\ held[q] # 0 => q = r
    BY DEF BusInv, EventsAccounted, OnTheWay
  <2>2. \A x, y \in Spots' : Number(x)' = Number(y)' => x = y
    BY <1>2, <2>1
  <2>3. /\ OnTheWay' \cup Held' \cup dropped' = 1 .. Len(drawn')
        /\ OnTheWay' \cap Held' = {} /\ OnTheWay' \cap dropped' = {} /\ Held' \cap dropped' = {}
        /\ \A q, r \in Publishers : held'[q] = held'[r] /\ held'[q] # 0 => q = r
    BY <1>2, <1>3, <2>1
  <2>. QED BY <2>2, <2>3 DEF EventsAccounted, OnTheWay
<1>. QED BY <1>1, <1>4, <1>5 DEF BusInv

-----------------------------------------------------------------------------
(* The replays' status. *)

Phases == {"new", "starting", "running", "returned", "settled", "finishing", "finished"}

CtlTypes ==
    /\ mu \in {"free", "start", "progress"}
    /\ status \in [running : BOOLEAN, id : Nat, packets : Nat, err : BOOLEAN]
    /\ phase \in [Ids -> Phases]
    /\ decoded \in [Ids -> Nat] /\ seen \in [Ids -> Nat] /\ failed \in [Ids -> BOOLEAN]

\* A replay that has not settled is the one the status shows as running.
OneRuns == \A r \in Ids : phase[r] \in {"starting", "running", "returned"} => status.running /\ status.id = r

CtlInv == CtlTypes /\ OneRuns /\ FinalCountStands

LEMMA StartStatus ==
    ASSUME CtlInv, NEW r \in Ids, Start(r)
    PROVE  CtlInv'
<1>1. /\ ~ status.running /\ phase[r] = "new" /\ status' = [Idle EXCEPT !.running = TRUE, !.id = r]
      /\ phase' = [phase EXCEPT ![r] = "starting"] /\ mu' = "start" /\ UNCHANGED <<decoded, seen, failed>>
  BY DEF Start
<1>2. status' = [running |-> TRUE, id |-> r, packets |-> 0, err |-> FALSE] /\ r \in Nat
  <2>1. status' = [running |-> TRUE, id |-> r, packets |-> 0, err |-> FALSE]
    BY <1>1 DEF Idle
  <2>2. r \in Nat
    BY ReplayAssumption DEF Ids
  <2>. QED BY <2>1, <2>2
<1>3. CtlTypes'
  <2>1. status' \in [running : BOOLEAN, id : Nat, packets : Nat, err : BOOLEAN]
    BY <1>2
  <2>2. phase' \in [Ids -> Phases]
    BY <1>1 DEF CtlInv, CtlTypes, Phases
  <2>3. mu' \in {"free", "start", "progress"}
    BY <1>1
  <2>. QED BY <1>1, <2>1, <2>2, <2>3 DEF CtlInv, CtlTypes
<1>4. OneRuns'
  BY <1>1, <1>2 DEF CtlInv, CtlTypes, OneRuns
<1>5. FinalCountStands'
  BY <1>2 DEF FinalCountStands
<1>. QED BY <1>3, <1>4, <1>5 DEF CtlInv

LEMMA SettleStatus ==
    ASSUME CtlInv, NEW r \in Ids, Settle(r)
    PROVE  CtlInv'
<1>1. /\ phase[r] = "returned" /\ phase' = [phase EXCEPT ![r] = "settled"]
      /\ status' = [status EXCEPT !.running = FALSE, !.packets = seen[r], !.err = @ \/ failed[r]]
      /\ UNCHANGED <<mu, decoded, seen, failed>>
  BY DEF Settle
<1>2. /\ status \in [running : BOOLEAN, id : Nat, packets : Nat, err : BOOLEAN]
      /\ phase \in [Ids -> Phases] /\ seen \in [Ids -> Nat] /\ failed \in [Ids -> BOOLEAN]
  BY DEF CtlInv, CtlTypes
<1>3. status.id = r
  BY <1>1 DEF CtlInv, OneRuns
<1>4. /\ status' = [running |-> FALSE, id |-> status.id, packets |-> seen[r], err |-> status.err \/ failed[r]]
      /\ status.id \in Nat /\ seen[r] \in Nat /\ (status.err \/ failed[r]) \in BOOLEAN
  BY <1>1, <1>2
<1>5. status' \in [running : BOOLEAN, id : Nat, packets : Nat, err : BOOLEAN]
  BY <1>4
<1>6. CtlTypes'
  BY <1>1, <1>2, <1>5 DEF CtlInv, CtlTypes, Phases
<1>7. OneRuns'
  BY <1>1, <1>2, <1>3 DEF CtlInv, OneRuns
<1>8. FinalCountStands'
  BY <1>1, <1>3, <1>4 DEF FinalCountStands
<1>. QED BY <1>6, <1>7, <1>8 DEF CtlInv

LEMMA PhaseStatus ==
    ASSUME CtlInv, UNCHANGED status, mu' \in {"free", "start", "progress"},
           phase' \in [Ids -> Phases],
           \A r \in Ids : phase'[r] \in {"starting", "running", "returned"}
                            => phase[r] \in {"starting", "running", "returned"},
           decoded' \in [Ids -> Nat], seen' \in [Ids -> Nat], failed' \in [Ids -> BOOLEAN],
           seen' = seen \/ status.running
    PROVE  CtlInv'
BY DEF CtlInv, CtlTypes, OneRuns, FinalCountStands

LEMMA CtlStep ==
    ASSUME CtlInv, [Next]_vars
    PROVE  CtlInv'
<1>1. ASSUME NEW r \in Ids, Start(r) PROVE CtlInv'
  BY <1>1, StartStatus
<1>2. ASSUME NEW r \in Ids, Settle(r) PROVE CtlInv'
  BY <1>2, SettleStatus
<1>3. ASSUME NEW r \in Ids, Decode(r) PROVE CtlInv'
  <2>1. decoded' \in [Ids -> Nat]
    BY <1>3 DEF Decode, CtlInv, CtlTypes
  <2>. QED BY <1>3, <2>1, PhaseStatus DEF Decode, CtlInv, CtlTypes
<1>4. ASSUME NEW r \in Ids, Take(r) PROVE CtlInv'
  <2>1. seen' \in [Ids -> Nat]
    BY <1>4 DEF Take, CtlInv, CtlTypes
  <2>2. status.running
    BY <1>4 DEF Take, CtlInv, OneRuns
  <2>. QED BY <1>4, <2>1, <2>2, PhaseStatus DEF Take, CtlInv, CtlTypes
<1>5. ASSUME NEW r \in Ids, RunReturns(r) PROVE CtlInv'
  <2>1. failed' \in [Ids -> BOOLEAN] /\ phase' \in [Ids -> Phases]
    BY <1>5 DEF RunReturns, CtlInv, CtlTypes, Phases
  <2>2. \A q \in Ids : phase'[q] \in {"starting", "running", "returned"}
                          => phase[q] \in {"starting", "running", "returned"}
    BY <1>5 DEF RunReturns, CtlInv, CtlTypes
  <2>. QED BY <1>5, <2>1, <2>2, PhaseStatus DEF RunReturns, CtlInv, CtlTypes
<1>6. ASSUME NEW r \in Ids, Finish(r) PROVE CtlInv'
  <2>1. phase' \in [Ids -> Phases]
    BY <1>6 DEF Finish, CtlInv, CtlTypes, Phases
  <2>2. \A q \in Ids : phase'[q] \in {"starting", "running", "returned"}
                          => phase[q] \in {"starting", "running", "returned"}
    BY <1>6 DEF Finish, CtlInv, CtlTypes
  <2>. QED BY <1>6, <2>1, <2>2, PhaseStatus DEF Finish, CtlInv, CtlTypes
<1>7. ASSUME NEW r \in Ids, Finished(r) PROVE CtlInv'
  <2>1. phase' \in [Ids -> Phases]
    BY <1>7 DEF Finished, CtlInv, CtlTypes, Phases
  <2>2. \A q \in Ids : phase'[q] \in {"starting", "running", "returned"}
                          => phase[q] \in {"starting", "running", "returned"}
    BY <1>7 DEF Finished, CtlInv, CtlTypes
  <2>. QED BY <1>7, <2>1, <2>2, PhaseStatus DEF Finished, CtlInv, CtlTypes
<1>8. ASSUME NEW r \in Ids, Progress(r) PROVE CtlInv'
  <2>1. /\ status.running /\ status' = [status EXCEPT !.packets = decoded[r]] /\ mu' = "progress"
        /\ UNCHANGED <<phase, decoded, seen, failed>>
    BY <1>8 DEF Progress
  <2>2. status \in [running : BOOLEAN, id : Nat, packets : Nat, err : BOOLEAN] /\ decoded[r] \in Nat
    BY DEF CtlInv, CtlTypes
  <2>3. /\ status' \in [running : BOOLEAN, id : Nat, packets : Nat, err : BOOLEAN]
        /\ status'.running = status.running /\ status'.id = status.id
    BY <2>1, <2>2
  <2>4. status'.running
    BY <2>1, <2>3
  <2>5. CtlTypes'
    BY <2>1, <2>3 DEF CtlInv, CtlTypes
  <2>6. OneRuns'
    BY <2>1, <2>3, <2>4 DEF CtlInv, OneRuns
  <2>. QED BY <2>4, <2>5, <2>6 DEF CtlInv, FinalCountStands
<1>9. ASSUME NEW r \in Ids, ProgressEnds(r) PROVE CtlInv'
  BY <1>9, PhaseStatus DEF ProgressEnds, CtlInv, CtlTypes
<1>10. CASE StartFails
  <2>1. status' = [status EXCEPT !.err = TRUE] /\ UNCHANGED <<mu, phase, decoded, seen, failed>>
    BY <1>10 DEF StartFails
  <2>2. status \in [running : BOOLEAN, id : Nat, packets : Nat, err : BOOLEAN]
    BY DEF CtlInv, CtlTypes
  <2>3. /\ status' \in [running : BOOLEAN, id : Nat, packets : Nat, err : BOOLEAN]
        /\ status'.running = status.running /\ status'.id = status.id /\ status'.packets = status.packets
    BY <2>1, <2>2
  <2>4. CtlTypes'
    BY <2>1, <2>3 DEF CtlInv, CtlTypes
  <2>5. OneRuns'
    BY <2>1, <2>3 DEF CtlInv, OneRuns
  <2>6. FinalCountStands'
    BY <2>1, <2>3 DEF CtlInv, FinalCountStands
  <2>. QED BY <2>4, <2>5, <2>6 DEF CtlInv
<1>11. CASE Release
  <2>1. phase' \in [Ids -> Phases]
    BY <1>11 DEF Release, CtlInv, CtlTypes, Phases
  <2>2. \A q \in Ids : phase'[q] \in {"starting", "running", "returned"}
                          => phase[q] \in {"starting", "running", "returned"}
    BY <1>11 DEF Release, Spawned, CtlInv, CtlTypes
  <2>. QED BY <1>11, <2>1, <2>2, PhaseStatus DEF Release, CtlInv, CtlTypes
<1>12. CASE StopTakes \/ StopCancels \/ UNCHANGED ctlVars
  BY <1>12, PhaseStatus DEF StopTakes, StopCancels, ctlVars, CtlInv, CtlTypes
<1>13. CASE UNCHANGED vars
  BY <1>12, <1>13 DEF vars
<1>. QED BY <1>1, <1>2, <1>3, <1>4, <1>5, <1>6, <1>7, <1>8, <1>9, <1>10, <1>11, <1>12, <1>13
         DEF Next, ReplayStep

-----------------------------------------------------------------------------
(* The announcements of a replay on the stream. *)

StartOf(r) == [type |-> "ReplayStarted", id |-> r]
EndOf(r) == [type |-> "ReplayFinished", id |-> r]

\* The start of replay r has been sent on its way, or counted as dropped.
Told(r) ==
    \/ \E t \in Spots : drawn[Number(t)] = StartOf(r)
    \/ \E n \in dropped : drawn[n] = StartOf(r)

ToldStays == \A r \in Ids : Told(r) => Told(r)'

LEMMA NumbersDrawn ==
    ASSUME BusInv
    PROVE  /\ \A x \in Spots : Number(x) \in 1..Len(drawn)
           /\ \A n \in dropped : n \in 1..Len(drawn)
           /\ \A p \in Publishers : held[p] # 0 => held[p] \in 1..Len(drawn)
<1>1. OnTheWay \cup Held \cup dropped \subseteq 1 .. Len(drawn)
  BY DEF BusInv, Known
<1>2. \A x \in Spots : Number(x) \in OnTheWay
  BY DEF OnTheWay
<1>3. \A p \in Publishers : held[p] # 0 => held[p] \in Held
  BY DEF Held
<1>. QED BY <1>1, <1>2, <1>3

LEMMA DrawTells ==
    ASSUME BusInv, FinishFollowsStart, NEW p \in Publishers, NEW what \in Events, Draw(p, what)
    PROVE  FinishFollowsStart' /\ ToldStays
<1>1. Frames' = Frames /\ \A n \in 1..Len(drawn) : drawn'[n] = drawn[n]
  BY DrawKeepsBus
<1>2. Spots' = Spots /\ \A x : Number(x)' = Number(x)
  BY <1>1, StreamIs
<1>3. dropped' = dropped
  BY DEF Draw
<1>4. /\ \A x \in Spots : drawn'[Number(x)] = drawn[Number(x)]
      /\ \A n \in dropped : drawn'[n] = drawn[n]
  BY <1>1, NumbersDrawn
<1>5. ASSUME NEW r \in Ids, NEW s \in Spots', drawn'[Number(s)'] = EndOf(r)
      PROVE  \/ \E t \in Spots' : Earlier(t, s) /\ drawn'[Number(t)'] = StartOf(r)
             \/ \E m \in dropped' : drawn'[m] = StartOf(r)
  <2>1. s \in Spots /\ drawn[Number(s)] = EndOf(r)
    BY <1>2, <1>4, <1>5
  <2>2. \/ \E t \in Spots : Earlier(t, s) /\ drawn[Number(t)] = StartOf(r)
        \/ \E m \in dropped : drawn[m] = StartOf(r)
    BY <2>1 DEF FinishFollowsStart, StartOf, EndOf
  <2>. QED BY <1>2, <1>3, <1>4, <2>2
<1>6. FinishFollowsStart'
  BY <1>5 DEF FinishFollowsStart, StartOf, EndOf
<1>7. ToldStays
  BY <1>2, <1>3, <1>4 DEF ToldStays, Told
<1>. QED BY <1>6, <1>7

LEMMA SendTells ==
    ASSUME BusInv, FinishFollowsStart, NEW p \in Publishers, Send(p),
           pump # "stopped" => \A r \in Ids : drawn[held[p]] = EndOf(r) => Told(r)
    PROVE  /\ FinishFollowsStart' /\ ToldStays
           /\ pump # "stopped" => \A r \in Ids : drawn[held[p]] = StartOf(r) => Told(r)'
<1> DEFINE n == held[p]
<1>1. drawn' = drawn
  BY SendEffect
<1>2. \/ pump = "stopped" /\ Frames' = Frames /\ dropped' = dropped
      \/ pump # "stopped" /\ dropped' = dropped /\ \E e : Queued(n, e)
      \/ pump # "stopped" /\ Frames' = Frames /\ dropped' = dropped \cup {n}
  BY SendEffect
<1>3. pump # "stopped" => \A r \in Ids : drawn[n] = EndOf(r) => Told(r)
  OBVIOUS
<1> HIDE DEF n
<1>4. ASSUME Frames' = Frames, dropped' = dropped \/ dropped' = dropped \cup {n}
      PROVE  FinishFollowsStart' /\ ToldStays
  <2>1. Spots' = Spots /\ \A x : Number(x)' = Number(x)
    BY <1>4, StreamIs
  <2>2. FinishFollowsStart'
    BY <1>1, <1>4, <2>1 DEF FinishFollowsStart
  <2>3. ToldStays
    BY <1>1, <1>4, <2>1 DEF ToldStays, Told
  <2>. QED BY <2>2, <2>3
<1>5. CASE pump # "stopped" /\ Frames' = Frames /\ dropped' = dropped \cup {n}
  <2>1. \A r \in Ids : drawn[n] = StartOf(r) => Told(r)'
    BY <1>1, <1>5 DEF Told
  <2>. QED BY <1>4, <1>5, <2>1 DEF n
<1>6. CASE pump # "stopped" /\ dropped' = dropped /\ \E e : Queued(n, e)
  <2>1. PICK e : Queued(n, e)
    BY <1>6
  <2>2. /\ Spots' = Spots \cup {e} /\ Number(e)' = n
        /\ \A x \in Spots : Number(x)' = Number(x) /\ Earlier(x, e)
    BY <2>1 DEF Queued
  <2>3. ToldStays
    BY <1>1, <1>6, <2>2 DEF ToldStays, Told
  <2>4. \A r \in Ids : drawn[n] = StartOf(r) => Told(r)'
    BY <1>1, <2>2 DEF Told
  <2>5. ASSUME NEW r \in Ids, NEW s \in Spots', drawn'[Number(s)'] = EndOf(r)
        PROVE  \/ \E t \in Spots' : Earlier(t, s) /\ drawn'[Number(t)'] = StartOf(r)
               \/ \E m \in dropped' : drawn'[m] = StartOf(r)
    <3>1. CASE s \in Spots
      <4>1. drawn[Number(s)] = EndOf(r)
        BY <1>1, <2>2, <2>5, <3>1
      <4>2. \/ \E t \in Spots : Earlier(t, s) /\ drawn[Number(t)] = StartOf(r)
            \/ \E m \in dropped : drawn[m] = StartOf(r)
        BY <3>1, <4>1 DEF FinishFollowsStart, StartOf, EndOf
      <4>. QED BY <1>1, <1>6, <2>2, <4>2
    <3>2. CASE s = e
      <4>1. Told(r)
        BY <1>1, <1>3, <1>6, <2>2, <2>5, <3>2
      <4>2. \/ \E t \in Spots : drawn[Number(t)] = StartOf(r)
            \/ \E m \in dropped : drawn[m] = StartOf(r)
        BY <4>1 DEF Told
      <4>. QED BY <1>1, <1>6, <2>2, <3>2, <4>2
    <3>. QED BY <2>2, <3>1, <3>2
  <2>6. FinishFollowsStart'
    BY <2>5 DEF FinishFollowsStart, StartOf, EndOf
  <2>. QED BY <2>3, <2>4, <2>6 DEF n
<1>7. CASE pump = "stopped" /\ Frames' = Frames /\ dropped' = dropped
  BY <1>4, <1>7
<1>. QED BY <1>2, <1>5, <1>6, <1>7, Zenon

LEMMA PumpTells ==
    ASSUME BusInv, FinishFollowsStart, PumpMoves
    PROVE  FinishFollowsStart' /\ ToldStays
<1>1. SameStream(Frames, Frames') /\ UNCHANGED <<drawn, held, dropped>>
  BY DEF PumpMoves
<1>2. PICK back \in [SpotsOf(Frames') -> SpotsOf(Frames)] :
        /\ \A t \in SpotsOf(Frames) : \E x \in SpotsOf(Frames') : back[x] = t
        /\ \A x \in SpotsOf(Frames') : Frames'[x[1]][x[2]] = Frames[back[x][1]][back[x][2]]
        /\ \A x, y \in SpotsOf(Frames') : Earlier(back[x], back[y]) <=> Earlier(x, y)
  BY <1>1 DEF SameStream
<1>3. /\ \A x \in Spots' : back[x] \in Spots /\ Number(x)' = Number(back[x])
      /\ \A t \in Spots : \E x \in Spots' : back[x] = t
      /\ \A x, y \in Spots' : Earlier(back[x], back[y]) <=> Earlier(x, y)
  BY <1>2, StreamIs DEF NumberAt
<1>4. ToldStays
  BY <1>1, <1>3 DEF ToldStays, Told
<1>5. ASSUME NEW r \in Ids, NEW s \in Spots', drawn'[Number(s)'] = EndOf(r)
      PROVE  \/ \E t \in Spots' : Earlier(t, s) /\ drawn'[Number(t)'] = StartOf(r)
             \/ \E m \in dropped' : drawn'[m] = StartOf(r)
  <2>1. back[s] \in Spots /\ drawn[Number(back[s])] = EndOf(r)
    BY <1>1, <1>3, <1>5
  <2>2. CASE \E t \in Spots : Earlier(t, back[s]) /\ drawn[Number(t)] = StartOf(r)
    <3>1. PICK t \in Spots : Earlier(t, back[s]) /\ drawn[Number(t)] = StartOf(r)
      BY <2>2
    <3>2. PICK x \in Spots' : back[x] = t
      BY <1>3
    <3>3. Earlier(x, s) /\ drawn'[Number(x)'] = StartOf(r)
      BY <1>1, <1>3, <3>1, <3>2
    <3>. QED BY <3>3
  <2>3. CASE \E m \in dropped : drawn[m] = StartOf(r)
    BY <1>1, <2>3
  <2>. QED BY <2>1, <2>2, <2>3 DEF FinishFollowsStart, StartOf, EndOf
<1>6. FinishFollowsStart'
  BY <1>5 DEF FinishFollowsStart, StartOf, EndOf
<1>. QED BY <1>4, <1>6

LEMMA StopTells ==
    ASSUME BusInv, FinishFollowsStart, PumpStop
    PROVE  FinishFollowsStart'
<1>1. /\ Spots' \subseteq Spots /\ \A x \in Spots' : Number(x)' = Number(x)
      /\ \A x \in Spots', y \in Spots : Earlier(y, x) => y \in Spots'
      /\ UNCHANGED <<drawn, dropped>>
  BY StopCuts DEF Cut
<1>2. ASSUME NEW r \in Ids, NEW s \in Spots', drawn'[Number(s)'] = EndOf(r)
      PROVE  \/ \E t \in Spots' : Earlier(t, s) /\ drawn'[Number(t)'] = StartOf(r)
             \/ \E m \in dropped' : drawn'[m] = StartOf(r)
  <2>1. \/ \E t \in Spots : Earlier(t, s) /\ drawn[Number(t)] = StartOf(r)
        \/ \E m \in dropped : drawn[m] = StartOf(r)
    BY <1>1, <1>2 DEF FinishFollowsStart, StartOf, EndOf
  <2>. QED BY <1>1, <2>1
<1>. QED BY <1>2 DEF FinishFollowsStart, StartOf, EndOf

LEMMA OthersTell ==
    ASSUME FinishFollowsStart, Frames' = Frames, UNCHANGED <<drawn, dropped>>
    PROVE  FinishFollowsStart' /\ ToldStays
<1>1. Spots' = Spots /\ \A x : Number(x)' = Number(x)
  BY StreamIs
<1>. QED BY <1>1 DEF FinishFollowsStart, ToldStays, Told

-----------------------------------------------------------------------------
(* A replay's end is published after its start has been: the order of the controller's steps. *)

\* Start holds the number of its announcement until it spawns the replay.
Waiting == \A r \in Ids : phase[r] = "starting" => held[Ctl] # 0 /\ drawn[held[Ctl]] = StartOf(r)

ToldRuns ==
    pump # "stopped" => \A r \in Ids : phase[r] \notin {"new", "starting"} => Told(r)

\* A replay publishes nothing as itself but its end, and that once.
OwnEnd == \A r \in Ids : held[r] # 0 => phase[r] = "finishing"

EndsLate ==
    \A n \in 1..Len(drawn), r \in Ids : drawn[n] = EndOf(r) => phase[r] \in {"finishing", "finished"}

Announced == Waiting /\ ToldRuns /\ OwnEnd /\ EndsLate
StoryInv == BusInv /\ CtlInv /\ FinishFollowsStart /\ Announced

LEMMA ActorsDiffer ==
    /\ Ctl \in Publishers /\ Ids \subseteq Publishers /\ DataPlane \subseteq Publishers
    /\ \A r \in Ids : r # Ctl /\ r \in Nat
    /\ \A p \in DataPlane : p # Ctl /\ p \notin Ids
<1>1. \A r \in Ids : r # Ctl /\ r \in Nat
  BY ReplayAssumption DEF Ids, Ctl
<1>2. Ctl \in Publishers /\ Ids \subseteq Publishers /\ DataPlane \subseteq Publishers
  BY ReplayAssumption
<1>3. \A p \in DataPlane : p # Ctl /\ p \notin Ids
  BY ReplayAssumption
<1>. QED BY <1>1, <1>2, <1>3

LEMMA EventsDiffer ==
    /\ \A r \in Nat, q \in Nat : StartOf(r) # EndOf(q)
    /\ \A r \in Nat, q \in Nat : EndOf(r) = EndOf(q) => r = q
    /\ \A r \in Nat, i \in Nat : [type |-> "ReplayProgress", id |-> i] # EndOf(r)
    /\ \A r \in Nat, i \in Nat : [type |-> "FlowClosed", id |-> i] # EndOf(r)
    /\ \A r \in Nat : StartOf(r) \in Events /\ EndOf(r) \in Events
    /\ \A i \in Nat : [type |-> "ReplayProgress", id |-> i] \in Events /\ [type |-> "FlowClosed", id |-> i] \in Events
<1>1. \A r \in Nat, q \in Nat : StartOf(r) # EndOf(q)
  <2> SUFFICES ASSUME NEW r \in Nat, NEW q \in Nat, StartOf(r) = EndOf(q) PROVE FALSE
    OBVIOUS
  <2>1. StartOf(r).type = EndOf(q).type
    OBVIOUS
  <2>. QED BY <2>1 DEF StartOf, EndOf
<1>2. \A r \in Nat, q \in Nat : EndOf(r) = EndOf(q) => r = q
  <2> SUFFICES ASSUME NEW r \in Nat, NEW q \in Nat, EndOf(r) = EndOf(q) PROVE r = q
    OBVIOUS
  <2>1. EndOf(r).id = EndOf(q).id
    OBVIOUS
  <2>. QED BY <2>1 DEF EndOf
<1>3. ASSUME NEW r \in Nat, NEW i \in Nat, [type |-> "ReplayProgress", id |-> i] = EndOf(r) PROVE FALSE
  <2>1. [type |-> "ReplayProgress", id |-> i].type = EndOf(r).type
    BY <1>3
  <2>. QED BY <2>1 DEF EndOf
<1>4. ASSUME NEW r \in Nat, NEW i \in Nat, [type |-> "FlowClosed", id |-> i] = EndOf(r) PROVE FALSE
  <2>1. [type |-> "FlowClosed", id |-> i].type = EndOf(r).type
    BY <1>4
  <2>. QED BY <2>1 DEF EndOf
<1>5. \A r \in Nat : StartOf(r) \in Events /\ EndOf(r) \in Events
  BY DEF StartOf, EndOf, Events
<1>6. \A i \in Nat : [type |-> "ReplayProgress", id |-> i] \in Events /\ [type |-> "FlowClosed", id |-> i] \in Events
  BY DEF Events
<1>. QED BY <1>1, <1>2, <1>3, <1>4, <1>5, <1>6

\* Steps that announce no replay.
LEMMA AnnouncedStays ==
    ASSUME BusInv, CtlTypes, Announced, phase' \in [Ids -> Phases],
           Len(drawn') \in Nat,
           \A n \in 1..Len(drawn) : drawn'[n] = drawn[n],
           \A n \in 1..Len(drawn') : n \in 1..Len(drawn) \/ \A r \in Ids : drawn'[n] # EndOf(r),
           held'[Ctl] = held[Ctl], \A r \in Ids : held'[r] = held[r],
           pump' # "stopped" => pump # "stopped" /\ ToldStays,
           \A r \in Ids : /\ phase'[r] = "starting" => phase[r] = "starting"
                          /\ phase'[r] \notin {"new", "starting"} => phase[r] \notin {"new", "starting"}
                          /\ phase[r] \in {"finishing", "finished"} => phase'[r] = phase[r]
    PROVE  Announced'
<1>1. held[Ctl] # 0 => held[Ctl] \in 1..Len(drawn)
  BY NumbersDrawn, ActorsDiffer
<1>2. Waiting'
  BY <1>1 DEF Announced, Waiting, StartOf
<1>3. ToldRuns'
  BY DEF Announced, ToldRuns, ToldStays
<1>4. OwnEnd'
  BY DEF Announced, OwnEnd
<1>5. EndsLate'
  <2> SUFFICES ASSUME NEW n \in 1..Len(drawn'), NEW r \in Ids, drawn'[n] = EndOf(r)
               PROVE  phase'[r] \in {"finishing", "finished"}
    BY DEF EndsLate, EndOf
  <2>1. n \in 1..Len(drawn) /\ drawn[n] = EndOf(r)
    OBVIOUS
  <2>2. phase[r] \in {"finishing", "finished"}
    BY <2>1 DEF Announced, EndsLate
  <2>. QED BY <2>2
<1>. QED BY <1>2, <1>3, <1>4, <1>5 DEF Announced

LEMMA StartStory ==
    ASSUME StoryInv, NEW r \in Ids, Start(r)
    PROVE  BusInv' /\ FinishFollowsStart' /\ Announced'
<1> DEFINE n == Len(drawn) + 1
<1>1. /\ Draw(Ctl, StartOf(r)) /\ phase[r] = "new" /\ phase' = [phase EXCEPT ![r] = "starting"]
  BY DEF Start, StartOf
<1>2. BusInv /\ FinishFollowsStart /\ Announced /\ phase \in [Ids -> Phases]
  BY DEF StoryInv, CtlInv, CtlTypes
<1>3. Ctl \in Publishers /\ StartOf(r) \in Events /\ r \in Nat
  BY ActorsDiffer, EventsDiffer
<1>4. /\ BusInv' /\ Len(drawn') = n /\ drawn'[n] = StartOf(r)
      /\ \A i \in 1..Len(drawn) : drawn'[i] = drawn[i]
  BY <1>1, <1>2, <1>3, DrawKeepsBus
<1>5. FinishFollowsStart' /\ ToldStays
  BY <1>1, <1>2, <1>3, DrawTells
<1>6. held[Ctl] = 0 /\ held' = [held EXCEPT ![Ctl] = n] /\ pump' = pump
  BY <1>1 DEF Draw, pumpVars
<1>7. held \in [Publishers -> Nat] /\ Len(drawn) \in Nat
  BY <1>2, LenProperties DEF BusInv, BusTypes
<1>8. held'[Ctl] = n /\ n # 0 /\ \A q \in Ids : held'[q] = held[q]
  BY <1>3, <1>6, <1>7, ActorsDiffer
<1>9. \A i \in 1..n : i \in 1..Len(drawn) \/ i = n
  BY <1>7
<1> HIDE DEF n
<1>10. phase'[r] = "starting" /\ \A q \in Ids : q # r => phase'[q] = phase[q]
  BY <1>1, <1>2
<1>11. Waiting'
  <2>1. \A q \in Ids : phase[q] # "starting"
    BY <1>2, <1>6 DEF Announced, Waiting
  <2>. QED BY <1>4, <1>8, <1>10, <2>1 DEF Waiting, StartOf
<1>12. ToldRuns'
  BY <1>2, <1>5, <1>6, <1>10 DEF Announced, ToldRuns, ToldStays
<1>13. OwnEnd'
  BY <1>1, <1>2, <1>8, <1>10 DEF Announced, OwnEnd
<1>14. EndsLate'
  <2> SUFFICES ASSUME NEW i \in 1..Len(drawn'), NEW q \in Ids, drawn'[i] = EndOf(q)
               PROVE  phase'[q] \in {"finishing", "finished"}
    BY DEF EndsLate, EndOf
  <2>1. q \in Nat
    BY ActorsDiffer
  <2>2. i # n
    BY <1>3, <1>4, <2>1, EventsDiffer
  <2>3. drawn[i] = EndOf(q) /\ i \in 1..Len(drawn)
    BY <1>4, <1>9, <2>2
  <2>4. phase[q] \in {"finishing", "finished"}
    BY <1>2, <2>3 DEF Announced, EndsLate
  <2>. QED BY <1>1, <1>10, <2>4
<1>. QED BY <1>4, <1>5, <1>11, <1>12, <1>13, <1>14 DEF Announced

LEMMA FinishStory ==
    ASSUME StoryInv, NEW r \in Ids, Finish(r)
    PROVE  BusInv' /\ FinishFollowsStart' /\ Announced'
<1> DEFINE n == Len(drawn) + 1
<1>1. /\ Draw(r, EndOf(r)) /\ phase[r] = "settled" /\ phase' = [phase EXCEPT ![r] = "finishing"]
  BY DEF Finish, EndOf
<1>2. BusInv /\ FinishFollowsStart /\ Announced /\ phase \in [Ids -> Phases]
  BY DEF StoryInv, CtlInv, CtlTypes
<1>3. r \in Publishers /\ EndOf(r) \in Events /\ r \in Nat
  BY ActorsDiffer, EventsDiffer
<1>4. /\ BusInv' /\ Len(drawn') = n /\ drawn'[n] = EndOf(r)
      /\ \A i \in 1..Len(drawn) : drawn'[i] = drawn[i]
  BY <1>1, <1>2, <1>3, DrawKeepsBus
<1>5. FinishFollowsStart' /\ ToldStays
  BY <1>1, <1>2, <1>3, DrawTells
<1>6. held' = [held EXCEPT ![r] = n] /\ pump' = pump
  BY <1>1 DEF Draw, pumpVars
<1>7. held \in [Publishers -> Nat] /\ Len(drawn) \in Nat
  BY <1>2, LenProperties DEF BusInv, BusTypes
<1>8. held'[Ctl] = held[Ctl] /\ \A q \in Ids : q # r => held'[q] = held[q]
  BY <1>3, <1>6, <1>7, ActorsDiffer
<1>9. \A i \in 1..n : i \in 1..Len(drawn) \/ i = n
  BY <1>7
<1> HIDE DEF n
<1>10. phase'[r] = "finishing" /\ \A q \in Ids : q # r => phase'[q] = phase[q]
  BY <1>1, <1>2
<1>11. Waiting'
  <2>1. held[Ctl] # 0 => held[Ctl] \in 1..Len(drawn)
    BY <1>2, NumbersDrawn, ActorsDiffer
  <2>. QED BY <1>2, <1>4, <1>8, <1>10, <2>1 DEF Announced, Waiting, StartOf
<1>12. ToldRuns'
  BY <1>1, <1>2, <1>5, <1>6, <1>10 DEF Announced, ToldRuns, ToldStays
<1>13. OwnEnd'
  BY <1>2, <1>8, <1>10 DEF Announced, OwnEnd
<1>14. EndsLate'
  <2> SUFFICES ASSUME NEW i \in 1..Len(drawn'), NEW q \in Ids, drawn'[i] = EndOf(q), q # r
               PROVE  phase'[q] \in {"finishing", "finished"}
    BY <1>10 DEF EndsLate, EndOf
  <2>1. q \in Nat
    BY ActorsDiffer
  <2>2. i # n
    BY <1>3, <1>4, <2>1, EventsDiffer
  <2>3. drawn[i] = EndOf(q) /\ i \in 1..Len(drawn)
    BY <1>4, <1>9, <2>2
  <2>4. phase[q] \in {"finishing", "finished"}
    BY <1>2, <2>3 DEF Announced, EndsLate
  <2>. QED BY <1>10, <2>4
<1>. QED BY <1>4, <1>5, <1>11, <1>12, <1>13, <1>14 DEF Announced

LEMMA ProgressStory ==
    ASSUME StoryInv, NEW r \in Ids, Progress(r)
    PROVE  BusInv' /\ FinishFollowsStart' /\ Announced'
<1> DEFINE n == Len(drawn) + 1
           what == [type |-> "ReplayProgress", id |-> status.id]
<1>1. Draw(Ctl, what) /\ phase' = phase
  BY DEF Progress
<1>2. BusInv /\ FinishFollowsStart /\ Announced /\ phase \in [Ids -> Phases]
  BY DEF StoryInv, CtlInv, CtlTypes
<1>3. status.id \in Nat
  BY DEF StoryInv, CtlInv, CtlTypes
<1>4. Ctl \in Publishers /\ what \in Events /\ \A q \in Ids : what # EndOf(q)
  BY <1>3, ActorsDiffer, EventsDiffer
<1> HIDE DEF what
<1>5. PICK event : event = what
  OBVIOUS
<1>6. Draw(Ctl, event) /\ event \in Events
  BY <1>1, <1>4, <1>5 DEF Draw
<1>7. /\ BusInv' /\ Len(drawn') = n /\ drawn'[n] = what
      /\ \A i \in 1..Len(drawn) : drawn'[i] = drawn[i]
  BY <1>2, <1>4, <1>5, <1>6, DrawKeepsBus
<1>8. FinishFollowsStart' /\ ToldStays
  BY <1>2, <1>4, <1>6, DrawTells
<1>9. held[Ctl] = 0 /\ held' = [held EXCEPT ![Ctl] = n] /\ pump' = pump
  BY <1>1 DEF Draw, pumpVars
<1>10. held \in [Publishers -> Nat] /\ Len(drawn) \in Nat
  BY <1>2, LenProperties DEF BusInv, BusTypes
<1>11. \A q \in Ids : held'[q] = held[q]
  BY <1>9, <1>10, ActorsDiffer
<1>12. \A i \in 1..n : i \in 1..Len(drawn) \/ i = n
  BY <1>10
<1> HIDE DEF n
<1>13. Waiting'
  <2>1. \A q \in Ids : phase[q] # "starting"
    BY <1>2, <1>9 DEF Announced, Waiting
  <2>. QED BY <1>1, <2>1 DEF Waiting
<1>14. ToldRuns'
  BY <1>1, <1>2, <1>8, <1>9 DEF Announced, ToldRuns, ToldStays
<1>15. OwnEnd'
  BY <1>1, <1>2, <1>11 DEF Announced, OwnEnd
<1>16. EndsLate'
  <2> SUFFICES ASSUME NEW i \in 1..Len(drawn'), NEW q \in Ids, drawn'[i] = EndOf(q)
               PROVE  phase'[q] \in {"finishing", "finished"}
    BY DEF EndsLate, EndOf
  <2>1. drawn[i] = EndOf(q) /\ i \in 1..Len(drawn)
    BY <1>4, <1>7, <1>12
  <2>. QED BY <1>1, <1>2, <2>1 DEF Announced, EndsLate
<1>. QED BY <1>7, <1>8, <1>13, <1>14, <1>15, <1>16 DEF Announced

\* Who sends the end of a replay has seen its start told.
LEMMA SendStory ==
    ASSUME BusInv, FinishFollowsStart, Announced, NEW p \in Publishers, Send(p)
    PROVE  /\ BusInv' /\ FinishFollowsStart' /\ ToldStays /\ UNCHANGED <<drawn, pump>>
           /\ pump # "stopped" => \A r \in Ids : drawn[held[p]] = StartOf(r) => Told(r)'
           /\ held'[p] = 0 /\ \A q \in Publishers : q # p => held'[q] = held[q]
<1>1. /\ UNCHANGED <<drawn, pump>> /\ held[p] \in Nat \ {0} /\ held'[p] = 0
      /\ \A q \in Publishers : q # p => held'[q] = held[q]
  BY SendEffect
<1>2. held[p] \in 1..Len(drawn)
  BY <1>1, NumbersDrawn
<1>3. ASSUME pump # "stopped", NEW r \in Ids, drawn[held[p]] = EndOf(r) PROVE Told(r)
  <2>1. phase[r] \in {"finishing", "finished"}
    BY <1>2, <1>3 DEF Announced, EndsLate
  <2>. QED BY <1>3, <2>1 DEF Announced, ToldRuns
<1>4. /\ FinishFollowsStart' /\ ToldStays
      /\ pump # "stopped" => \A r \in Ids : drawn[held[p]] = StartOf(r) => Told(r)'
  BY <1>3, SendTells
<1>. QED BY <1>1, <1>4, SendKeepsBus

LEMMA ReleaseStory ==
    ASSUME StoryInv, Release
    PROVE  BusInv' /\ FinishFollowsStart' /\ Announced'
<1>1. Send(Ctl) /\ phase' = [r \in Ids |-> IF r \in Spawned THEN "running" ELSE phase[r]]
  BY DEF Release
<1>2. BusInv /\ FinishFollowsStart /\ Announced /\ phase \in [Ids -> Phases] /\ Ctl \in Publishers
  BY ActorsDiffer DEF StoryInv, CtlInv, CtlTypes
<1>3. /\ BusInv' /\ FinishFollowsStart' /\ ToldStays /\ UNCHANGED <<drawn, pump>>
      /\ pump # "stopped" => \A r \in Ids : drawn[held[Ctl]] = StartOf(r) => Told(r)'
      /\ held'[Ctl] = 0 /\ \A q \in Publishers : q # Ctl => held'[q] = held[q]
  BY <1>1, <1>2, SendStory
<1>4. /\ \A r \in Ids : phase[r] = "starting" => phase'[r] = "running"
      /\ \A r \in Ids : phase[r] # "starting" => phase'[r] = phase[r]
  BY <1>1 DEF Spawned
<1>5. \A r \in Ids : held'[r] = held[r]
  BY <1>3, ActorsDiffer
<1>6. Waiting'
  <2>1. \A r \in Ids : phase'[r] # "starting"
    BY <1>4
  <2>. QED BY <2>1 DEF Waiting
<1>7. ToldRuns'
  <2> SUFFICES ASSUME pump' # "stopped", NEW r \in Ids, phase'[r] \notin {"new", "starting"} PROVE Told(r)'
    BY DEF ToldRuns
  <2>1. CASE phase[r] = "starting"
    <3>1. drawn[held[Ctl]] = StartOf(r)
      BY <1>2, <2>1 DEF Announced, Waiting
    <3>. QED BY <1>3, <3>1
  <2>2. CASE phase[r] # "starting"
    <3>1. Told(r)
      BY <1>2, <1>3, <1>4, <2>2 DEF Announced, ToldRuns
    <3>. QED BY <1>3, <3>1 DEF ToldStays
  <2>. QED BY <2>1, <2>2
<1>8. OwnEnd'
  BY <1>2, <1>4, <1>5 DEF Announced, OwnEnd
<1>9. EndsLate'
  <2> SUFFICES ASSUME NEW n \in 1..Len(drawn'), NEW r \in Ids, drawn'[n] = EndOf(r)
               PROVE  phase'[r] \in {"finishing", "finished"}
    BY DEF EndsLate, EndOf
  <2>1. phase[r] \in {"finishing", "finished"}
    BY <1>2, <1>3 DEF Announced, EndsLate
  <2>. QED BY <1>4, <2>1
<1>. QED BY <1>3, <1>6, <1>7, <1>8, <1>9 DEF Announced

LEMMA FinishedStory ==
    ASSUME StoryInv, NEW r \in Ids, Finished(r)
    PROVE  BusInv' /\ FinishFollowsStart' /\ Announced'
<1>1. Send(r) /\ phase' = [phase EXCEPT ![r] = "finished"]
  BY DEF Finished
<1>2. BusInv /\ FinishFollowsStart /\ Announced /\ phase \in [Ids -> Phases] /\ r \in Publishers
  BY ActorsDiffer DEF StoryInv, CtlInv, CtlTypes
<1>3. /\ BusInv' /\ FinishFollowsStart' /\ ToldStays /\ UNCHANGED <<drawn, pump>>
      /\ held'[r] = 0 /\ \A q \in Publishers : q # r => held'[q] = held[q]
  BY <1>1, <1>2, SendStory
<1>4. phase[r] = "finishing"
  BY <1>1, <1>2 DEF Send, Announced, OwnEnd
<1>5. phase'[r] = "finished" /\ \A q \in Ids : q # r => phase'[q] = phase[q]
  BY <1>1, <1>2
<1>6. held'[Ctl] = held[Ctl] /\ \A q \in Ids : q # r => held'[q] = held[q]
  BY <1>3, ActorsDiffer
<1>7. Waiting'
  BY <1>2, <1>3, <1>5, <1>6 DEF Announced, Waiting, StartOf
<1>8. ToldRuns'
  BY <1>2, <1>3, <1>4, <1>5 DEF Announced, ToldRuns, ToldStays
<1>9. OwnEnd'
  BY <1>2, <1>3, <1>5, <1>6 DEF Announced, OwnEnd
<1>10. EndsLate'
  <2> SUFFICES ASSUME NEW n \in 1..Len(drawn'), NEW q \in Ids, drawn'[n] = EndOf(q)
               PROVE  phase'[q] \in {"finishing", "finished"}
    BY DEF EndsLate, EndOf
  <2>1. phase[q] \in {"finishing", "finished"}
    BY <1>2, <1>3 DEF Announced, EndsLate
  <2>. QED BY <1>5, <2>1
<1>. QED BY <1>3, <1>7, <1>8, <1>9, <1>10 DEF Announced

\* A step of the pump, of a client, of the data plane or of a replay that publishes nothing.
LEMMA DataStory ==
    ASSUME StoryInv, NEW p \in DataPlane, DataStep(p), phase' = phase
    PROVE  BusInv' /\ FinishFollowsStart' /\ Announced'
<1>1. /\ BusInv /\ FinishFollowsStart /\ Announced /\ CtlTypes /\ phase' \in [Ids -> Phases]
      /\ p \in Publishers /\ p # Ctl /\ p \notin Ids /\ Ctl \in Publishers /\ Ids \subseteq Publishers
  BY ActorsDiffer DEF StoryInv, CtlInv, CtlTypes
<1> DEFINE what == [type |-> "FlowClosed", id |-> 0]
<1>2. what \in Events /\ \A q \in Ids : what # EndOf(q)
  BY ActorsDiffer, EventsDiffer
<1> HIDE DEF what
<1>3. CASE Draw(p, what)
  <2>1. /\ BusInv' /\ Len(drawn') = Len(drawn) + 1 /\ drawn'[Len(drawn) + 1] = what
        /\ \A n \in 1..Len(drawn) : drawn'[n] = drawn[n]
    BY <1>1, <1>2, <1>3, DrawKeepsBus
  <2>2. FinishFollowsStart' /\ ToldStays
    BY <1>1, <1>2, <1>3, DrawTells
  <2>3. Len(drawn) \in Nat
    BY <1>1, LenProperties DEF BusInv, BusTypes
  <2>4. \A n \in 1..Len(drawn') : n \in 1..Len(drawn) \/ \A q \in Ids : drawn'[n] # EndOf(q)
    <3>1. \A n \in 1..(Len(drawn) + 1) : n \in 1..Len(drawn) \/ n = Len(drawn) + 1
      BY <2>3
    <3>. QED BY <1>2, <2>1, <3>1
  <2>5. held' = [held EXCEPT ![p] = Len(drawn) + 1] /\ pump' = pump /\ held \in [Publishers -> Nat]
    BY <1>1, <1>3 DEF Draw, pumpVars, BusInv, BusTypes
  <2>6. held'[Ctl] = held[Ctl] /\ \A q \in Ids : held'[q] = held[q]
    BY <1>1, <2>5
  <2>7. Announced'
    BY <1>1, <2>1, <2>2, <2>3, <2>4, <2>5, <2>6, AnnouncedStays
  <2>. QED BY <2>1, <2>2, <2>7
<1>4. CASE Send(p)
  <2>1. /\ BusInv' /\ FinishFollowsStart' /\ ToldStays /\ UNCHANGED <<drawn, pump>>
        /\ \A q \in Publishers : q # p => held'[q] = held[q]
    BY <1>1, <1>4, SendStory
  <2>2. Len(drawn') \in Nat
    BY <1>1, <2>1, LenProperties DEF BusInv, BusTypes
  <2>3. held'[Ctl] = held[Ctl] /\ \A q \in Ids : held'[q] = held[q]
    BY <1>1, <2>1
  <2>4. Announced'
    BY <1>1, <2>1, <2>2, <2>3, AnnouncedStays
  <2>. QED BY <2>1, <2>4
<1>. QED BY <1>3, <1>4 DEF DataStep, what

LEMMA QuietStory ==
    ASSUME StoryInv, phase' \in [Ids -> Phases], UNCHANGED <<drawn, held>>,
           BusInv', FinishFollowsStart',
           pump' # "stopped" => pump # "stopped" /\ ToldStays,
           \A r \in Ids : /\ phase'[r] = "starting" => phase[r] = "starting"
                          /\ phase'[r] \notin {"new", "starting"} => phase[r] \notin {"new", "starting"}
                          /\ phase[r] \in {"finishing", "finished"} => phase'[r] = phase[r]
    PROVE  Announced'
<1>1. BusInv /\ CtlTypes /\ Announced /\ Len(drawn') \in Nat
  BY LenProperties DEF StoryInv, CtlInv, BusInv, BusTypes
<1>. QED BY <1>1, AnnouncedStays

LEMMA StoryStep ==
    ASSUME StoryInv, [Next]_vars
    PROVE  StoryInv'
<1>1. /\ BusInv /\ CtlInv /\ FinishFollowsStart /\ Announced /\ CtlTypes /\ BusTypes
      /\ phase \in [Ids -> Phases] /\ pump \in {"select", "closing", "stopped"}
  BY DEF StoryInv, CtlInv, CtlTypes, BusInv, BusTypes
<1>2. CtlInv' /\ phase' \in [Ids -> Phases]
  <2>1. CtlInv'
    BY <1>1, CtlStep
  <2>. QED BY <2>1 DEF CtlInv, CtlTypes
<1> SUFFICES BusInv' /\ FinishFollowsStart' /\ Announced'
  BY <1>2 DEF StoryInv
<1>3. ASSUME UNCHANGED <<drawn, held, subQ, dropped, batch, sent>>,
             pump' \in {"select", "closing", "stopped"}, pump' = "stopped" <=> pump = "stopped",
             \A r \in Ids : /\ phase'[r] = "starting" => phase[r] = "starting"
                            /\ phase'[r] \notin {"new", "starting"} => phase[r] \notin {"new", "starting"}
                            /\ phase[r] \in {"finishing", "finished"} => phase'[r] = phase[r]
      PROVE  BusInv' /\ FinishFollowsStart' /\ Announced'
  <2>1. BusInv' /\ Frames' = Frames
    BY <1>1, <1>3, OthersKeepBus
  <2>2. FinishFollowsStart' /\ ToldStays
    BY <1>1, <1>3, <2>1, OthersTell
  <2>. QED BY <1>2, <1>3, <2>1, <2>2, QuietStory
<1>4. CASE \E p \in DataPlane : DataStep(p) /\ UNCHANGED ctlVars
  BY <1>4, DataStory DEF ctlVars
<1>5. ASSUME NEW r \in Ids, ReplayStep(r) PROVE BusInv' /\ FinishFollowsStart' /\ Announced'
  <2>1. CASE Start(r) \/ Finish(r) \/ Finished(r) \/ Progress(r)
    BY <2>1, StartStory, FinishStory, FinishedStory, ProgressStory
  <2>2. CASE Decode(r) \/ Take(r) \/ ProgressEnds(r)
    BY <1>1, <1>3, <2>2 DEF Decode, Take, ProgressEnds, streamVars, busVars, pumpVars
  <2>3. CASE RunReturns(r)
    BY <1>1, <1>3, <2>3 DEF RunReturns, streamVars, busVars, pumpVars
  <2>4. CASE Settle(r)
    BY <1>1, <1>3, <2>4 DEF Settle, streamVars, busVars, pumpVars
  <2>. QED BY <1>5, <2>1, <2>2, <2>3, <2>4 DEF ReplayStep
<1>6. CASE StartFails \/ StopTakes \/ StopCancels
  BY <1>1, <1>3, <1>6 DEF StartFails, StopTakes, StopCancels, streamVars, busVars, pumpVars
<1>7. CASE Release
  BY <1>7, ReleaseStory
<1>8. CASE (PumpTake \/ PumpTick) /\ UNCHANGED ctlVars
  <2>1. PumpMoves /\ BusTypes'
    BY <1>1, <1>8, PumpTakeMoves, PumpTickMoves
  <2>2. BusInv'
    BY <1>1, <2>1, PumpKeepsBus
  <2>3. FinishFollowsStart' /\ ToldStays
    BY <1>1, <2>1, PumpTells
  <2>4. UNCHANGED <<drawn, held, phase>> /\ pump # "stopped"
    BY <1>8, <2>1 DEF PumpMoves, ctlVars
  <2>. QED BY <1>2, <2>2, <2>3, <2>4, QuietStory
<1>9. CASE PumpStop /\ UNCHANGED ctlVars
  <2>1. BusInv' /\ UNCHANGED <<drawn, held>> /\ pump' = "stopped" /\ FinishFollowsStart'
    BY <1>1, <1>9, StopCuts, StopTells
  <2>2. phase' = phase
    BY <1>9 DEF ctlVars
  <2>. QED BY <1>2, <2>1, <2>2, QuietStory
<1>10. CASE (\E c \in Clients : CloseVictim(c)) /\ UNCHANGED ctlVars
  <2>1. /\ UNCHANGED <<drawn, held, subQ, dropped, batch, sent, phase>>
        /\ pump = "closing" /\ pump' \in {"select", "closing"}
    BY <1>10 DEF CloseVictim, busVars, ctlVars
  <2>. QED BY <1>3, <2>1
<1>11. CASE (\E c \in Clients : ClientStep(c)) /\ UNCHANGED ctlVars
  <2>1. UNCHANGED <<drawn, held, subQ, dropped, batch, sent, phase, pump>>
    BY <1>11 DEF ClientStep, Connect, Dequeue, WriteStart, WriteEnd, WriteFail, Unregister, ReaderEnds,
                 busVars, pumpVars, ctlVars
  <2>. QED BY <1>1, <1>3, <2>1
<1>12. CASE UNCHANGED vars
  <2>1. UNCHANGED <<drawn, held, subQ, dropped, batch, sent, phase, pump>>
    BY <1>12 DEF vars, streamVars, busVars, pumpVars, ctlVars
  <2>. QED BY <1>1, <1>3, <2>1
<1>. QED BY <1>4, <1>5, <1>6, <1>7, <1>8, <1>9, <1>10, <1>11, <1>12 DEF Next, PumpStep

-----------------------------------------------------------------------------
(* The clients: what is sent to one is the run of broadcasts since it joined. *)

ClientTypes ==
    /\ hub \subseteq Clients
    /\ conn \in [Clients -> {"away", "open", "done"}]
    /\ writer \in [Clients -> {"idle", "waiting", "writing", "leaving"}]
    /\ sendQ \in [Clients -> Seq(Seq(Nat))]
    /\ frame \in [Clients -> Seq(Nat)]
    /\ got \in [Clients -> Seq(Seq(Nat))]
    /\ joined \in [Clients -> Nat]

\* A payload taken off a client's queue and not yet written.
Taken(c) == IF writer[c] \in {"waiting", "writing"} THEN 1 ELSE 0
Written(c) == joined[c] + Len(got[c])

Unjoined(c) ==
    c \notin hub /\ writer[c] = "idle" /\ sendQ[c] = <<>> /\ got[c] = <<>> /\ joined[c] = 0

Delivered(c) ==
    /\ Written(c) <= Len(sent)
    /\ \A i \in 1..Len(got[c]) : got[c][i] = sent[joined[c] + i]

\* A client that can still be written to waits for what comes next; only a victim misses
\* what was broadcast last.
InLane(c) ==
    /\ c \in hub
    /\ Taken(c) = 1 => Written(c) + 1 <= Len(sent) /\ frame[c] = sent[Written(c) + 1]
    /\ Written(c) + Taken(c) + Len(sendQ[c]) <= Len(sent)
    /\ c \notin victims => Written(c) + Taken(c) + Len(sendQ[c]) = Len(sent)
    /\ \A i \in 1..Len(sendQ[c]) : sendQ[c][i] = sent[Written(c) + Taken(c) + i]

ClientOK(c) ==
    /\ conn[c] = "away" => Unjoined(c)
    /\ conn[c] # "away" => Delivered(c)
    /\ conn[c] = "open" /\ writer[c] # "leaving" => InLane(c)

GapInv ==
    /\ sent \in Seq(Seq(Nat)) /\ pump \in {"select", "closing", "stopped"}
    /\ ClientTypes
    /\ pump # "closing" => victims = {}
    /\ \A c \in Clients : ClientOK(c)

LEMMA ClientSame ==
    ASSUME NEW c \in Clients, ClientOK(c), sent' = sent,
           conn'[c] = conn[c], writer'[c] = writer[c], sendQ'[c] = sendQ[c], frame'[c] = frame[c],
           got'[c] = got[c], joined'[c] = joined[c], c \in hub' <=> c \in hub,
           c \in victims' <=> c \in victims
    PROVE  ClientOK(c)'
BY DEF ClientOK, Unjoined, Delivered, InLane, Written, Taken

\* What a client's own step does not touch.
OnlyClient(c) ==
    /\ sent' = sent /\ victims' = victims /\ pump' = pump
    /\ \A d \in Clients : d # c =>
          /\ conn'[d] = conn[d] /\ writer'[d] = writer[d] /\ sendQ'[d] = sendQ[d] /\ frame'[d] = frame[d]
          /\ got'[d] = got[d] /\ joined'[d] = joined[d] /\ (d \in hub' <=> d \in hub)

LEMMA OneClient ==
    ASSUME GapInv, NEW c \in Clients, OnlyClient(c), ClientTypes', ClientOK(c)'
    PROVE  GapInv'
<1>1. ASSUME NEW d \in Clients, d # c PROVE ClientOK(d)'
  BY <1>1, ClientSame DEF OnlyClient, GapInv
<1>. QED BY <1>1 DEF GapInv, OnlyClient

LEMMA ClientFacts ==
    ASSUME GapInv, NEW c \in Clients
    PROVE  /\ sent \in Seq(Seq(Nat)) /\ Len(sent) \in Nat
           /\ joined[c] \in Nat /\ got[c] \in Seq(Seq(Nat)) /\ Len(got[c]) \in Nat
           /\ sendQ[c] \in Seq(Seq(Nat)) /\ Len(sendQ[c]) \in Nat /\ frame[c] \in Seq(Nat)
           /\ Written(c) \in Nat /\ Taken(c) \in {0, 1}
           /\ Taken(c) = 1 <=> writer[c] \in {"waiting", "writing"}
           /\ conn[c] \in {"away", "open", "done"}
           /\ writer[c] \in {"idle", "waiting", "writing", "leaving"}
<1>1. /\ sent \in Seq(Seq(Nat)) /\ joined[c] \in Nat /\ got[c] \in Seq(Seq(Nat))
      /\ sendQ[c] \in Seq(Seq(Nat)) /\ frame[c] \in Seq(Nat)
      /\ conn[c] \in {"away", "open", "done"}
      /\ writer[c] \in {"idle", "waiting", "writing", "leaving"}
  BY DEF GapInv, ClientTypes
<1>2. Len(sent) \in Nat /\ Len(got[c]) \in Nat /\ Len(sendQ[c]) \in Nat
  BY <1>1, LenProperties
<1>3. Written(c) \in Nat /\ Taken(c) \in {0, 1} /\ (Taken(c) = 1 <=> writer[c] \in {"waiting", "writing"})
  BY <1>1, <1>2 DEF Written, Taken
<1>. QED BY <1>1, <1>2, <1>3

LEMMA ConnectLane ==
    ASSUME GapInv, NEW c \in Clients, Connect(c)
    PROVE  GapInv'
<1>1. /\ conn[c] = "away" /\ pump # "stopped" /\ conn' = [conn EXCEPT ![c] = "open"]
      /\ hub' = hub \cup {c} /\ joined' = [joined EXCEPT ![c] = Len(sent)]
      /\ UNCHANGED <<pump, victims, sent, sendQ, frame, writer, got>>
  BY DEF Connect, pumpVars
<1>2. ClientTypes /\ Len(sent) \in Nat
  BY ClientFacts DEF GapInv
<1>3. ClientTypes'
  BY <1>1, <1>2 DEF ClientTypes
<1>4. OnlyClient(c)
  BY <1>1, <1>2 DEF OnlyClient, ClientTypes
<1>5. conn'[c] = "open" /\ joined'[c] = Len(sent) /\ c \in hub'
  BY <1>1, <1>2 DEF ClientTypes
<1>6. writer[c] = "idle" /\ sendQ[c] = <<>> /\ got[c] = <<>>
  BY <1>1 DEF GapInv, ClientOK, Unjoined
<1>7. Len(got[c]) = 0 /\ Len(sendQ[c]) = 0
  BY <1>6, EmptySeq
<1>8. Written(c)' = Len(sent) /\ Taken(c)' = 0
  BY <1>1, <1>2, <1>5, <1>6, <1>7 DEF Written, Taken
<1>9. Delivered(c)'
  BY <1>1, <1>2, <1>7, <1>8 DEF Delivered
<1>10. InLane(c)'
  BY <1>1, <1>2, <1>5, <1>7, <1>8 DEF InLane
<1>11. ClientOK(c)'
  BY <1>5, <1>9, <1>10 DEF ClientOK
<1>. QED BY <1>3, <1>4, <1>11, OneClient

LEMMA DequeueLane ==
    ASSUME GapInv, NEW c \in Clients, Dequeue(c)
    PROVE  GapInv'
<1>1. /\ c \in hub /\ writer[c] = "idle" /\ sendQ[c] # <<>>
      /\ frame' = [frame EXCEPT ![c] = Head(sendQ[c])]
      /\ sendQ' = [sendQ EXCEPT ![c] = Tail(sendQ[c])]
      /\ writer' = [writer EXCEPT ![c] = "waiting"]
      /\ UNCHANGED <<pump, victims, sent, hub, conn, got, joined>>
  BY DEF Dequeue, pumpVars
<1>2. /\ ClientTypes /\ Len(sent) \in Nat /\ Len(got[c]) \in Nat /\ Len(sendQ[c]) \in Nat /\ Written(c) \in Nat
      /\ sendQ[c] \in Seq(Seq(Nat)) /\ Taken(c) = 0
  BY <1>1, ClientFacts DEF GapInv
<1>3. /\ Head(sendQ[c]) = sendQ[c][1] /\ sendQ[c][1] \in Seq(Nat) /\ 1 \in 1..Len(sendQ[c])
      /\ Tail(sendQ[c]) \in Seq(Seq(Nat)) /\ Len(Tail(sendQ[c])) = Len(sendQ[c]) - 1
      /\ \A i \in 1..(Len(sendQ[c]) - 1) : Tail(sendQ[c])[i] = sendQ[c][i + 1]
  <2>1. Len(sendQ[c]) >= 1
    BY <1>1, <1>2, EmptySeq
  <2>2. sendQ[c][1] \in Seq(Nat)
    BY <1>2, <2>1, ElementOfSeq
  <2>3. /\ Tail(sendQ[c]) \in Seq(Seq(Nat)) /\ Len(Tail(sendQ[c])) = Len(sendQ[c]) - 1
        /\ \A i \in 1..(Len(sendQ[c]) - 1) : Tail(sendQ[c])[i] = sendQ[c][i + 1]
    BY <1>1, <1>2, HeadTailProperties
  <2>. QED BY <1>1, <1>2, <2>1, <2>2, <2>3
<1>4. ClientTypes'
  BY <1>1, <1>2, <1>3 DEF ClientTypes
<1>5. OnlyClient(c)
  BY <1>1, <1>2 DEF OnlyClient, ClientTypes
<1>6. frame'[c] = sendQ[c][1] /\ sendQ'[c] = Tail(sendQ[c]) /\ writer'[c] = "waiting"
  BY <1>1, <1>2, <1>3 DEF ClientTypes
<1>7. Written(c)' = Written(c) /\ Taken(c)' = 1
  BY <1>1, <1>6 DEF Written, Taken
<1>8. ASSUME conn[c] = "open" PROVE InLane(c)'
  <2> DEFINE W == Written(c)  S == Len(sent)  q == sendQ[c]  Q == Len(q)
  <2>1. W \in Nat /\ S \in Nat /\ Q \in Nat /\ 1 \in 1..Q /\ Taken(c) = 0 /\ W + 0 = W
    BY <1>2, <1>3
  <2>2. InLane(c)
    BY <1>1, <1>8 DEF GapInv, ClientOK
  <2>3. W + Q <= S /\ (c \notin victims => W + Q = S) /\ \A i \in 1..Q : q[i] = sent[W + i]
    BY <2>1, <2>2 DEF InLane
  <2>4. frame'[c] = q[1] /\ Len(sendQ'[c]) = Q - 1 /\ \A i \in 1..(Q - 1) : sendQ'[c][i] = q[i + 1]
    BY <1>3, <1>6
  <2>5. Written(c)' = W /\ Taken(c)' = 1 /\ c \in hub' /\ sent' = sent /\ victims' = victims
    BY <1>1, <1>7
  <2> HIDE DEF W, S, q, Q
  <2>6. W + 1 <= S /\ frame'[c] = sent[W + 1]
    BY <2>1, <2>3, <2>4
  <2>7. W + 1 + (Q - 1) <= S /\ (c \notin victims => W + 1 + (Q - 1) = S)
    BY <2>1, <2>3
  <2>8. ASSUME NEW i \in 1..(Q - 1) PROVE sendQ'[c][i] = sent[W + 1 + i]
    <3>1. i + 1 \in 1..Q /\ W + (i + 1) = W + 1 + i
      BY <2>1
    <3>2. q[i + 1] = sent[W + (i + 1)]
      BY <2>3, <3>1
    <3>. QED BY <2>4, <3>1, <3>2
  <2>. QED BY <2>4, <2>5, <2>6, <2>7, <2>8 DEF InLane, S
<1>9. conn[c] # "away" /\ Delivered(c)
  BY <1>1 DEF GapInv, ClientOK, Unjoined
<1>10. Delivered(c)'
  BY <1>1, <1>7, <1>9 DEF Delivered
<1>11. ClientOK(c)'
  BY <1>1, <1>8, <1>9, <1>10 DEF ClientOK
<1>. QED BY <1>4, <1>5, <1>11, OneClient

LEMMA WriteEndLane ==
    ASSUME GapInv, NEW c \in Clients, WriteEnd(c)
    PROVE  GapInv'
<1>1. /\ writer[c] = "writing" /\ conn[c] = "open"
      /\ got' = [got EXCEPT ![c] = Append(got[c], frame[c])]
      /\ writer' = [writer EXCEPT ![c] = "idle"]
      /\ UNCHANGED <<pump, victims, sent, hub, conn, sendQ, frame, joined>>
  BY DEF WriteEnd, pumpVars
<1>2. /\ ClientTypes /\ Len(sent) \in Nat /\ Len(got[c]) \in Nat /\ Len(sendQ[c]) \in Nat /\ Written(c) \in Nat
      /\ got[c] \in Seq(Seq(Nat)) /\ frame[c] \in Seq(Nat) /\ Taken(c) = 1 /\ joined[c] \in Nat
  BY <1>1, ClientFacts DEF GapInv
<1> DEFINE more == Append(got[c], frame[c])
<1>3. /\ more \in Seq(Seq(Nat)) /\ Len(more) = Len(got[c]) + 1 /\ more[Len(got[c]) + 1] = frame[c]
      /\ \A i \in 1..Len(got[c]) : more[i] = got[c][i]
  BY <1>2, AppendProperties
<1> HIDE DEF more
<1>4. ClientTypes'
  BY <1>1, <1>2, <1>3 DEF ClientTypes, more
<1>5. OnlyClient(c)
  BY <1>1, <1>2 DEF OnlyClient, ClientTypes
<1>6. got'[c] = more /\ writer'[c] = "idle"
  BY <1>1, <1>2 DEF ClientTypes, more
<1>7. Written(c)' = Written(c) + 1 /\ Taken(c)' = 0 /\ Written(c) = joined[c] + Len(got[c])
  <2>1. Taken(c)' = 0
    BY <1>6 DEF Taken
  <2>2. Written(c)' = joined[c] + (Len(got[c]) + 1)
    BY <1>1, <1>3, <1>6 DEF Written
  <2>3. Written(c) = joined[c] + Len(got[c])
    BY DEF Written
  <2>4. joined[c] \in Nat /\ Len(got[c]) \in Nat
    BY <1>2
  <2>. QED BY <2>1, <2>2, <2>3, <2>4
<1>8. /\ c \in hub /\ Written(c) + 1 <= Len(sent) /\ frame[c] = sent[Written(c) + 1]
      /\ Written(c) + 1 + Len(sendQ[c]) <= Len(sent)
      /\ c \notin victims => Written(c) + 1 + Len(sendQ[c]) = Len(sent)
      /\ \A i \in 1..Len(sendQ[c]) : sendQ[c][i] = sent[Written(c) + 1 + i]
  BY <1>1, <1>2 DEF GapInv, ClientOK, InLane
<1>9. InLane(c)'
  <2>1. Written(c)' + Taken(c)' = Written(c) + 1
    BY <1>2, <1>7
  <2>. QED BY <1>1, <1>2, <1>7, <1>8, <2>1 DEF InLane
<1>10. Delivered(c)'
  <2>1. Delivered(c)
    BY <1>1 DEF GapInv, ClientOK
  <2>2. ASSUME NEW i \in 1..Len(more) PROVE more[i] = sent[joined[c] + i]
    <3>1. CASE i \in 1..Len(got[c])
      BY <1>3, <2>1, <3>1 DEF Delivered
    <3>2. CASE i = Len(got[c]) + 1
      <4>1. joined[c] + i = Written(c) + 1
        BY <1>2, <1>7, <3>2
      <4>. QED BY <1>3, <1>8, <3>2, <4>1
    <3>. QED BY <1>2, <1>3, <3>1, <3>2
  <2>. QED BY <1>1, <1>6, <1>7, <1>8, <2>2 DEF Delivered
<1>11. ClientOK(c)'
  BY <1>1, <1>9, <1>10 DEF ClientOK
<1>. QED BY <1>4, <1>5, <1>11, OneClient

LEMMA WriteStartLane ==
    ASSUME GapInv, NEW c \in Clients, WriteStart(c)
    PROVE  GapInv'
<1>1. /\ writer[c] = "waiting" /\ writer' = [writer EXCEPT ![c] = "writing"]
      /\ UNCHANGED <<pump, victims, sent, hub, conn, sendQ, frame, got, joined>>
  BY DEF WriteStart, pumpVars
<1>2. ClientTypes /\ ClientOK(c)
  BY DEF GapInv
<1>3. ClientTypes' /\ writer'[c] = "writing" /\ OnlyClient(c)
  BY <1>1, <1>2 DEF ClientTypes, OnlyClient
<1>4. Written(c)' = Written(c) /\ Taken(c)' = Taken(c)
  BY <1>1, <1>3 DEF Written, Taken
<1>5. ClientOK(c)'
  BY <1>1, <1>2, <1>3, <1>4 DEF ClientOK, Unjoined, Delivered, InLane
<1>. QED BY <1>3, <1>5, OneClient

\* Once a client is closed or its writer leaves, nothing is written to it any more.
LEMMA LeavingLane ==
    ASSUME GapInv, NEW c \in Clients, WriteFail(c) \/ Unregister(c) \/ ReaderEnds(c)
    PROVE  GapInv'
<1>1. /\ UNCHANGED <<pump, victims, sent, sendQ, frame, got, joined>>
      /\ conn' = conn \/ conn' = [conn EXCEPT ![c] = "done"]
      /\ writer' = writer \/ writer' = [writer EXCEPT ![c] = "leaving"]
      /\ hub' = hub \/ hub' = hub \ {c}
  <2>1. CASE WriteFail(c)
    BY <2>1 DEF WriteFail, pumpVars
  <2>2. CASE Unregister(c)
    BY <2>2 DEF Unregister, pumpVars
  <2>3. CASE ReaderEnds(c)
    BY <2>3 DEF ReaderEnds, pumpVars
  <2>. QED BY <2>1, <2>2, <2>3
<1>2. /\ conn'[c] = "done" \/ writer'[c] = "leaving"
      /\ conn[c] # "away"
  BY DEF WriteFail, Unregister, ReaderEnds, GapInv, ClientTypes, ClientOK, Unjoined
<1>3. ClientTypes /\ ClientOK(c)
  BY DEF GapInv
<1>4. ClientTypes' /\ conn'[c] # "away"
  BY <1>1, <1>2, <1>3 DEF ClientTypes
<1>5. OnlyClient(c)
  BY <1>1, <1>3 DEF ClientTypes, OnlyClient
<1>6. Delivered(c)'
  BY <1>1, <1>2, <1>3 DEF ClientOK, Delivered, Written
<1>7. ClientOK(c)'
  BY <1>2, <1>4, <1>6 DEF ClientOK
<1>. QED BY <1>4, <1>5, <1>7, OneClient

LEMMA CloseVictimLane ==
    ASSUME GapInv, NEW c \in Clients, CloseVictim(c)
    PROVE  GapInv'
<1>1. /\ pump = "closing" /\ c \in victims /\ conn' = [conn EXCEPT ![c] = "done"]
      /\ victims' = victims \ {c} /\ pump' = IF victims = {c} THEN "select" ELSE "closing"
      /\ UNCHANGED <<sent, hub, sendQ, frame, writer, got, joined>>
  BY DEF CloseVictim
<1>2. ClientTypes /\ \A d \in Clients : ClientOK(d)
  BY DEF GapInv
<1>3. conn'[c] = "done" /\ ClientTypes' /\ \A d \in Clients : d # c => conn'[d] = conn[d]
  BY <1>1, <1>2 DEF ClientTypes
<1>4. ASSUME NEW d \in Clients, d # c PROVE ClientOK(d)'
  BY <1>1, <1>2, <1>3, <1>4, ClientSame
<1>5. ClientOK(c)'
  <2>1. Delivered(c)
    <3>1. conn[c] # "away" => Delivered(c)
      BY <1>2 DEF ClientOK
    <3>2. conn[c] = "away" => joined[c] = 0 /\ Len(got[c]) = 0
      BY <1>2, EmptySeq DEF ClientOK, Unjoined
    <3>3. Len(sent) \in Nat
      BY ClientFacts
    <3>. QED BY <3>1, <3>2, <3>3 DEF Delivered, Written
  <2>2. Delivered(c)'
    BY <1>1, <2>1 DEF Delivered, Written
  <2>. QED BY <1>3, <2>2 DEF ClientOK
<1>6. pump' # "closing" => victims' = {}
  BY <1>1
<1>. QED BY <1>1, <1>3, <1>4, <1>5, <1>6 DEF GapInv

LEMMA BroadcastLane ==
    ASSUME GapInv, NEW payload \in Seq(Nat), Broadcast(payload), pump = "select",
           UNCHANGED <<hub, conn, frame, writer, got, joined>>
    PROVE  GapInv'
<1> DEFINE full == {c \in hub : Len(sendQ[c]) >= QueueSize}
           S == Len(sent)
<1>1. /\ sent' = Append(sent, payload) /\ victims' = full
      /\ sendQ' = [c \in Clients |-> IF c \in hub \ full THEN Append(sendQ[c], payload) ELSE sendQ[c]]
      /\ pump' = IF full = {} THEN "select" ELSE "closing"
  BY DEF Broadcast
<1>2. /\ ClientTypes /\ sent \in Seq(Seq(Nat)) /\ S \in Nat /\ victims = {}
      /\ \A c \in Clients : ClientOK(c)
  BY LenProperties DEF GapInv
<1>3. /\ sent' \in Seq(Seq(Nat)) /\ Len(sent') = S + 1 /\ sent'[S + 1] = payload
      /\ \A i \in 1..S : sent'[i] = sent[i]
  BY <1>1, <1>2, AppendProperties
<1>4. \A c \in Clients : sendQ'[c] = IF c \in hub \ full THEN Append(sendQ[c], payload) ELSE sendQ[c]
  BY <1>1
<1> HIDE DEF full, S
<1>5. ASSUME NEW c \in Clients
      PROVE  LET q == sendQ[c]
                 Q == Len(q)
             IN  /\ Append(q, payload) \in Seq(Seq(Nat)) /\ q \in Seq(Seq(Nat)) /\ Q \in Nat
                 /\ Len(Append(q, payload)) = Q + 1 /\ Append(q, payload)[Q + 1] = payload
                 /\ \A i \in 1..Q : Append(q, payload)[i] = q[i]
  BY ClientFacts, AppendProperties
<1>6. sendQ' \in [Clients -> Seq(Seq(Nat))]
  <2>1. \A c \in Clients : (IF c \in hub \ full THEN Append(sendQ[c], payload) ELSE sendQ[c]) \in Seq(Seq(Nat))
    BY <1>5
  <2>. QED BY <1>1, <2>1 DEF full
<1>7. ClientTypes'
  BY <1>2, <1>6 DEF ClientTypes
<1>8. ASSUME NEW c \in Clients PROVE ClientOK(c)'
  <2> DEFINE W == Written(c)  T == Taken(c)  q == sendQ[c]  Q == Len(q)
  <2>1. /\ W \in Nat /\ T \in {0, 1} /\ Q \in Nat /\ joined[c] \in Nat /\ Len(got[c]) \in Nat
        /\ W = joined[c] + Len(got[c])
    BY ClientFacts DEF Written
  <2>2. W' = W /\ T' = T
    BY DEF Written, Taken
  <2>3. ASSUME conn[c] = "away" PROVE Unjoined(c)'
    <3>1. Unjoined(c)
      BY <1>2, <2>3 DEF ClientOK
    <3>. QED BY <1>4, <3>1 DEF Unjoined
  <2>4. ASSUME conn[c] # "away" PROVE Delivered(c)'
    <3>1. W <= S /\ \A i \in 1..Len(got[c]) : got[c][i] = sent[joined[c] + i]
      BY <1>2, <2>4 DEF ClientOK, Delivered, S
    <3>2. W <= S + 1
      BY <1>2, <2>1, <3>1
    <3>3. \A i \in 1..Len(got[c]) : joined[c] + i \in 1..S
      BY <1>2, <2>1, <3>1
    <3>. QED BY <1>3, <2>2, <3>1, <3>2, <3>3 DEF Delivered
  <2>5. ASSUME conn[c] = "open", writer[c] # "leaving" PROVE InLane(c)'
    <3>1. /\ c \in hub
          /\ T = 1 => W + 1 <= S /\ frame[c] = sent[W + 1]
          /\ W + T + Q = S
          /\ \A i \in 1..Q : q[i] = sent[W + T + i]
      BY <1>2, <2>5 DEF ClientOK, InLane, S
    <3> HIDE DEF W, T, q, Q
    <3>2. T = 1 => W + 1 <= S + 1 /\ frame[c] = sent'[W + 1]
      <4> SUFFICES ASSUME T = 1 PROVE W + 1 <= S + 1 /\ frame[c] = sent'[W + 1]
        OBVIOUS
      <4>1. W + 1 <= S /\ frame[c] = sent[W + 1]
        BY <3>1
      <4>2. W \in Nat /\ S \in Nat
        BY <1>2, <2>1
      <4>3. W + 1 \in 1..S /\ W + 1 <= S + 1
        BY <4>1, <4>2
      <4>. QED BY <1>3, <4>1, <4>3
    <3>3. \A i \in 1..Q : q[i] = sent'[W + T + i]
      <4>1. \A i \in 1..Q : W + T + i \in 1..S
        BY <1>2, <2>1, <3>1, SMTT(30)
      <4>. QED BY <1>3, <3>1, <4>1
    <3>4. CASE c \in full
      <4>1. sendQ'[c] = q /\ c \in victims' /\ c \in hub'
        BY <1>1, <1>4, <3>1, <3>4 DEF q
      <4>2. W + T + Q <= S + 1
        BY <1>2, <2>1, <3>1
      <4>. QED BY <1>3, <2>2, <3>2, <3>3, <4>1, <4>2 DEF InLane, W, T, Q
    <3>5. CASE c \notin full
      <4> DEFINE z == Append(q, payload)
      <4>1. /\ Len(z) = Q + 1 /\ z[Q + 1] = payload /\ \A i \in 1..Q : z[i] = q[i]
            /\ sendQ'[c] = z /\ c \in hub'
        BY <1>4, <1>5, <3>1, <3>5 DEF q, Q
      <4> HIDE DEF z
      <4>2. W + T + (Q + 1) = S + 1
        BY <1>2, <2>1, <3>1
      <4>3. ASSUME NEW i \in 1..(Q + 1) PROVE z[i] = sent'[W + T + i]
        <5>1. CASE i \in 1..Q
          BY <3>3, <4>1, <5>1
        <5>2. CASE i = Q + 1
          BY <1>3, <4>1, <4>2, <5>2
        <5>. QED BY <2>1, <5>1, <5>2
      <4>4. W + T + (Q + 1) <= S + 1
        BY <1>2, <4>2
      <4>. QED BY <1>3, <2>2, <3>2, <4>1, <4>2, <4>3, <4>4 DEF InLane, W, T
    <3>. QED BY <3>4, <3>5
  <2>. QED BY <2>3, <2>4, <2>5 DEF ClientOK
<1>9. pump' \in {"select", "closing", "stopped"} /\ (pump' # "closing" => victims' = {})
  BY <1>1
<1>. QED BY <1>3, <1>7, <1>8, <1>9 DEF GapInv

\* Steps outside the hub: what no client sees.
LEMMA HubUntouched ==
    ASSUME GapInv, UNCHANGED <<victims, sent, clientVars>>,
           pump' \in {"select", "closing", "stopped"}, pump' # "closing" => victims = {}
    PROVE  GapInv'
<1>1. UNCHANGED <<hub, conn, wmu, sendQ, frame, writer, got, joined>>
  BY DEF clientVars
<1>2. ClientTypes'
  BY <1>1 DEF GapInv, ClientTypes
<1>3. \A c \in Clients : ClientOK(c)'
  BY <1>1, ClientSame DEF GapInv
<1>. QED BY <1>2, <1>3 DEF GapInv

LEMMA GapStep ==
    ASSUME GapInv, BusTypes, [Next]_vars
    PROVE  GapInv'
<1>1. pump \in {"select", "closing", "stopped"} /\ (pump # "closing" => victims = {})
  BY DEF GapInv
<1>2. ASSUME UNCHANGED <<pump, victims, sent, clientVars>> PROVE GapInv'
  BY <1>1, <1>2, HubUntouched
<1>3. \A p \in Publishers : \A what : Draw(p, what) \/ Send(p) => UNCHANGED <<pump, victims, sent, clientVars>>
  BY DEF Draw, Send, pumpVars
<1>4. CASE \E p \in DataPlane : DataStep(p) /\ UNCHANGED ctlVars
  BY <1>2, <1>3, <1>4, ActorsDiffer DEF DataStep
<1>5. ASSUME NEW r \in Ids, ReplayStep(r) PROVE GapInv'
  <2>1. CASE Start(r) \/ Progress(r)
    BY <1>2, <1>3, <2>1, ActorsDiffer DEF Start, Progress
  <2>2. CASE Finish(r) \/ Finished(r)
    BY <1>2, <1>3, <2>2, ActorsDiffer DEF Finish, Finished
  <2>3. CASE Decode(r) \/ Take(r) \/ RunReturns(r) \/ Settle(r) \/ ProgressEnds(r)
    <3>1. UNCHANGED streamVars
      BY <2>3 DEF Decode, Take, RunReturns, Settle, ProgressEnds
    <3>. QED BY <1>2, <3>1 DEF streamVars, pumpVars
  <2>. QED BY <1>5, <2>1, <2>2, <2>3 DEF ReplayStep
<1>6. CASE StartFails \/ StopTakes \/ StopCancels
  <2>1. UNCHANGED streamVars
    BY <1>6 DEF StartFails, StopTakes, StopCancels
  <2>. QED BY <1>2, <2>1 DEF streamVars, pumpVars
<1>7. CASE Release
  BY <1>2, <1>3, <1>7, ActorsDiffer DEF Release
<1>8. CASE PumpTake
  <2> DEFINE b == Append(batch, Head(subQ))
  <2>1. /\ pump = "select" /\ subQ # <<>> /\ UNCHANGED <<hub, conn, wmu, frame, writer, got, joined>>
        /\ \/ Broadcast(b)
           \/ UNCHANGED <<sent, sendQ, victims, pump>>
    BY <1>8 DEF PumpTake
  <2>2. b \in Seq(Nat)
    BY <2>1, HeadTailProperties, AppendProperties DEF BusTypes
  <2> HIDE DEF b
  <2>3. CASE Broadcast(b)
    <3>1. PICK payload \in Seq(Nat) : payload = b
      BY <2>2
    <3>2. Broadcast(payload)
      BY <2>3, <3>1 DEF Broadcast
    <3>. QED BY <2>1, <3>2, BroadcastLane
  <2>4. CASE UNCHANGED <<sent, sendQ, victims, pump>>
    BY <1>2, <2>1, <2>4 DEF clientVars
  <2>. QED BY <2>1, <2>3, <2>4
<1>9. CASE PumpTick
  <2>1. /\ pump = "select" /\ UNCHANGED <<hub, conn, wmu, frame, writer, got, joined>> /\ Broadcast(batch)
    BY <1>9 DEF PumpTick
  <2>2. PICK payload \in Seq(Nat) : payload = batch
    BY DEF BusTypes
  <2>3. Broadcast(payload)
    BY <2>1, <2>2 DEF Broadcast
  <2>. QED BY <2>1, <2>3, BroadcastLane
<1>10. CASE PumpStop
  <2>1. pump = "select" /\ pump' = "stopped" /\ UNCHANGED <<victims, sent, clientVars>>
    BY <1>10 DEF PumpStop
  <2>. QED BY <1>1, <2>1, HubUntouched
<1>11. CASE \E c \in Clients : CloseVictim(c)
  BY <1>11, CloseVictimLane
<1>12. CASE \E c \in Clients : ClientStep(c)
  BY <1>12, ConnectLane, DequeueLane, WriteStartLane, WriteEndLane, LeavingLane DEF ClientStep
<1>13. CASE UNCHANGED vars
  BY <1>2, <1>13 DEF vars, streamVars, pumpVars
<1>. QED BY <1>4, <1>5, <1>6, <1>7, <1>8, <1>9, <1>10, <1>11, <1>12, <1>13 DEF Next, PumpStep

LEMMA GapInvSuffices ==
    ASSUME GapInv
    PROVE  NoSilentGap
<1> SUFFICES ASSUME NEW c \in Clients, conn[c] # "away"
             PROVE  IsPrefix(got[c], SubSeq(sent, joined[c] + 1, Len(sent)))
  BY DEF NoSilentGap
<1> DEFINE g == got[c]
           G == Len(g)
           j == joined[c]
           S == Len(sent)
           t == SubSeq(sent, j + 1, S)
<1>1. /\ sent \in Seq(Seq(Nat)) /\ S \in Nat /\ j \in Nat /\ g \in Seq(Seq(Nat)) /\ G \in Nat
      /\ j + G <= S /\ \A i \in 1..G : g[i] = sent[j + i]
  BY ClientFacts DEF GapInv, ClientOK, Delivered, Written
<1>2. t \in Seq(Seq(Nat)) /\ Len(t) = S - j /\ \A i \in 1..(S - j) : t[i] = sent[j + i]
  <2>1. \A i \in (j + 1)..S : sent[i] \in Seq(Nat)
    BY <1>1, ElementOfSeq
  <2>2. j + 1 \in Int /\ S \in Int
    BY <1>1
  <2> HIDE DEF j, S
  <2>3. /\ t \in Seq(Seq(Nat)) /\ Len(t) = IF j + 1 <= S THEN S - (j + 1) + 1 ELSE 0
        /\ \A i \in 1 .. S - (j + 1) + 1 : t[i] = sent[(j + 1) + i - 1]
    BY <2>1, <2>2, SubSeqProperties
  <2> HIDE DEF t
  <2>4. S - (j + 1) + 1 = S - j /\ \A i \in 1..(S - j) : (j + 1) + i - 1 = j + i
    BY <1>1
  <2>. QED BY <1>1, <2>3, <2>4
<1> HIDE DEF g, G, j, S, t
<1>3. G <= Len(t)
  BY <1>1, <1>2
<1>4. \A i \in 1..G : t[i] = g[i]
  BY <1>1, <1>2
<1>5. SubSeq(g, 1, G) = g
  BY <1>1, SubSeqFull DEF G
<1>6. SubSeq(t, 1, G) = g
  <2> DEFINE u == SubSeq(t, 1, G)
  <2>1. \A i \in 1..G : t[i] \in Seq(Nat)
    BY <1>1, <1>4, ElementOfSeq DEF G
  <2>2. /\ u \in Seq(Seq(Nat)) /\ Len(u) = IF 1 <= G THEN G - 1 + 1 ELSE 0
        /\ \A i \in 1 .. G - 1 + 1 : u[i] = t[1 + i - 1]
    BY <1>1, <2>1, SubSeqProperties
  <2> HIDE DEF u
  <2>3. Len(u) = G /\ \A i \in 1..G : u[i] = g[i]
    BY <1>1, <1>4, <2>2
  <2>4. u = g
    BY <1>1, <2>2, <2>3, SeqEqual DEF G
  <2>. QED BY <2>4 DEF u
<1>7. IsPrefix(g, t)
  BY <1>3, <1>5, <1>6 DEF IsPrefix, G
<1>. QED BY <1>7 DEF g, t, j, S

-----------------------------------------------------------------------------
(* The invariants of the specification. *)

LiveInv == StoryInv /\ GapInv

LEMMA LiveInitially ==
    ASSUME Init
    PROVE  LiveInv
<1>1. /\ drawn = <<>> /\ held = [p \in Publishers |-> 0] /\ subQ = <<>> /\ dropped = {} /\ pump = "select"
      /\ batch = <<>> /\ victims = {} /\ sent = <<>> /\ hub = {}
      /\ conn = [c \in Clients |-> "away"] /\ sendQ = [c \in Clients |-> <<>>]
      /\ frame = [c \in Clients |-> <<>>] /\ writer = [c \in Clients |-> "idle"]
      /\ got = [c \in Clients |-> <<>>] /\ joined = [c \in Clients |-> 0]
      /\ mu = "free" /\ status = Idle /\ phase = [r \in Ids |-> "new"]
      /\ decoded = [r \in Ids |-> 0] /\ seen = [r \in Ids |-> 0] /\ failed = [r \in Ids |-> FALSE]
  BY DEF Init, StreamInit
<1>2. BusTypes
  BY <1>1 DEF BusTypes
<1>3. Spots = {}
  <2>1. Len(sent) = 0 /\ Len(batch) = 0 /\ Len(subQ) = 0
    BY <1>1
  <2>2. sent \in Seq(Seq(Nat)) /\ batch \in Seq(Nat) /\ subQ \in Seq(Nat)
    BY <1>2 DEF BusTypes
  <2>3. \A x : x \in Spots <=> /\ x = <<x[1], x[2]>>
                               /\ \/ x[1] \in 1..Len(sent) /\ x[2] \in 1..Len(sent[x[1]])
                                  \/ x[1] = Len(sent) + 1 /\ x[2] \in 1..Len(batch)
                                  \/ x[1] = Len(sent) + 2 /\ x[2] \in 1..Len(subQ)
    BY <2>2, SpotKinds, StreamIs
  <2>4. 1..0 = {}
    OBVIOUS
  <2>. QED BY <2>1, <2>3, <2>4, Zenon
<1>4. OnTheWay = {} /\ Held = {} /\ 1..Len(drawn) = {}
  BY <1>1, <1>3 DEF OnTheWay, Held
<1>5. BusInv
  <2>1. Known
    BY <1>1, <1>4 DEF Known
  <2>2. EventsAccounted
    BY <1>1, <1>3, <1>4 DEF EventsAccounted
  <2>. QED BY <1>2, <2>1, <2>2 DEF BusInv
<1>6. CtlInv
  <2>1. status \in [running : BOOLEAN, id : Nat, packets : Nat, err : BOOLEAN] /\ status.id = 0
    BY <1>1 DEF Idle
  <2>2. CtlTypes
    BY <1>1, <2>1 DEF CtlTypes, Phases
  <2>3. OneRuns /\ FinalCountStands
    BY <1>1, <2>1 DEF OneRuns, FinalCountStands
  <2>. QED BY <2>2, <2>3 DEF CtlInv
<1>7. FinishFollowsStart
  BY <1>3 DEF FinishFollowsStart
<1>8. Announced
  <2>1. \A r \in Ids : phase[r] = "new" /\ held[r] = 0
    BY <1>1, ActorsDiffer
  <2>2. Waiting /\ ToldRuns /\ OwnEnd
    BY <2>1 DEF Waiting, ToldRuns, OwnEnd
  <2>3. EndsLate
    BY <1>4 DEF EndsLate
  <2>. QED BY <2>2, <2>3 DEF Announced
<1>9. GapInv
  <2>1. ClientTypes
    BY <1>1 DEF ClientTypes
  <2>2. \A c \in Clients : ClientOK(c)
    BY <1>1 DEF ClientOK, Unjoined
  <2>. QED BY <1>1, <1>2, <2>1, <2>2 DEF GapInv, BusTypes
<1>. QED BY <1>5, <1>6, <1>7, <1>8, <1>9 DEF LiveInv, StoryInv

LEMMA LiveStep ==
    ASSUME LiveInv, [Next]_vars
    PROVE  LiveInv'
<1>1. StoryInv /\ GapInv /\ BusTypes
  BY DEF LiveInv, StoryInv, BusInv
<1>2. StoryInv'
  BY <1>1, StoryStep
<1>3. GapInv'
  BY <1>1, GapStep
<1>. QED BY <1>2, <1>3 DEF LiveInv

LEMMA LiveAlways == Spec => []LiveInv
<1>1. Init => LiveInv
  BY LiveInitially
<1>2. LiveInv /\ [Next]_vars => LiveInv'
  BY LiveStep
<1>. QED BY <1>1, <1>2, PTL DEF Spec

\* However publishers, pump, hub, writers and replays interleave, every number drawn is with one
\* publisher, at one spot on its way, or counted as dropped, and a client has been written the run
\* of broadcasts since it joined (events.go: Publish, api.go: the pump, hub.go: Broadcast, Add).
THEOREM NothingEverMissingUnsaid == Spec => []NothingMissingUnsaid
<1>1. LiveInv => NothingMissingUnsaid
  BY GapInvSuffices DEF LiveInv, StoryInv, BusInv, NothingMissingUnsaid
<1>. QED BY <1>1, LiveAlways, PTL

\* However Start, Stop, the pipelines' goroutines and left-over tickers interleave, the last count
\* stands and no end is announced before its start (replay.go: Start, Stop, progress).
THEOREM EveryReplayTellsItsStory == Spec => []ReplayStory
<1>1. LiveInv => ReplayStory
  BY DEF LiveInv, StoryInv, CtlInv, ReplayStory
<1>. QED BY <1>1, LiveAlways, PTL

=============================================================================
