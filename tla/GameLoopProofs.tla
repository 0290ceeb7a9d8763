--------------------------- MODULE GameLoopProofs ---------------------------
(***************************************************************************)
(* Proofs about the walk of module GameLoop, for any number of             *)
(* connections, names, lines and pulses of wait.                           *)
(*                                                                         *)
(* What the walk has still to come to is said of any list and any place in *)
(* it (AheadIn).  Moving on takes the one the walk is at from it, and      *)
(* closing a connection takes that one from it, wherever the connection is *)
(* (UnlinkOne): so does closing any set of them, one by one (UnlinkAll).   *)
(*                                                                         *)
(* And about the events of module Arena, which the same loop drives, for   *)
(* any set of players and any lengths of the countdowns: the bets, and     *)
(* that the count of an event is the number of those that have the bit.    *)
(***************************************************************************)
EXTENDS GameLoop, Arena, SumTheorems, SequenceTheorems, TLAPS

AheadIn(l, n) ==
  IF n = None THEN {}
  ELSE {d \in ToSet(l) : \E i, j \in DOMAIN l : i <= j /\ l[i] = n /\ l[j] = d}

\* A list, and a place in it or at its end.
Sound(l, n) ==
  /\ l \in Seq(Desc)
  /\ IsInjective(l)
  /\ n \in ToSet(l) \cup {None}

-----------------------------------------------------------------------------
(***************************************************************************)
(* Lists.                                                                  *)
(***************************************************************************)
LEMMA MembersAre ==
  ASSUME NEW S, NEW l \in Seq(S)
  PROVE  /\ ToSet(l) \subseteq S
         /\ \A d : d \in ToSet(l) <=> \E i \in 1..Len(l) : l[i] = d
<1>1. Len(l) \in Nat /\ DOMAIN l = 1..Len(l) /\ \A i \in 1..Len(l) : l[i] \in S
  BY LenProperties, ElementOfSeq
<1>2. QED  BY <1>1 DEF ToSet

LEMMA PlaceIs ==
  ASSUME NEW S, NEW l \in Seq(S), IsInjective(l), NEW i \in 1..Len(l)
  PROVE  At(l, l[i]) = i
<1>1. DOMAIN l = 1..Len(l)
  BY LenProperties
<1>2. \A j \in DOMAIN l : l[j] = l[i] => j = i
  BY <1>1 DEF IsInjective
<1>3. QED  BY <1>1, <1>2 DEF At

LEMMA RemoveAtIs ==
  ASSUME NEW S, NEW l \in Seq(S), NEW i \in 1..Len(l)
  PROVE  /\ RemoveAt(l, i) \in Seq(S)
         /\ Len(RemoveAt(l, i)) = Len(l) - 1
         /\ \A j \in 1..(Len(l) - 1) :
              RemoveAt(l, i)[j] = IF j < i THEN l[j] ELSE l[j + 1]
<1>1. Len(l) \in Nat
  BY LenProperties
<1> DEFINE a == SubSeq(l, 1, i - 1)
           b == SubSeq(l, i + 1, Len(l))
<1>2. /\ a \in Seq(S) /\ Len(a) = i - 1
      /\ \A j \in 1..(i - 1) : a[j] = l[j]
  BY <1>1, SubSeqProperties
<1>3. /\ b \in Seq(S) /\ Len(b) = Len(l) - i
      /\ \A j \in 1..(Len(l) - i) : b[j] = l[i + j]
  BY <1>1, SubSeqProperties
<1> HIDE DEF a, b
<1>4. /\ a \o b \in Seq(S) /\ Len(a \o b) = Len(l) - 1
      /\ \A j \in 1..(Len(l) - 1) : (a \o b)[j] = IF j < i THEN a[j] ELSE b[j - (i - 1)]
  BY <1>1, <1>2, <1>3, ConcatProperties
<1>5. \A j \in 1..(Len(l) - 1) : (a \o b)[j] = IF j < i THEN l[j] ELSE l[j + 1]
  <2> TAKE j \in 1..(Len(l) - 1)
  <2>1. CASE j < i
    <3>1. j \in 1..(i - 1)
      BY <2>1, <1>1
    <3>2. QED  BY <3>1, <2>1, <1>2, <1>4
  <2>2. CASE ~(j < i)
    <3>1. j - (i - 1) \in 1..(Len(l) - i) /\ i + (j - (i - 1)) = j + 1
      BY <2>2, <1>1
    <3>2. b[j - (i - 1)] = l[j + 1]
      BY <3>1, <1>3
    <3>3. QED  BY <3>2, <2>2, <1>4
  <2>3. QED  BY <2>1, <2>2
<1>6. RemoveAt(l, i) = a \o b
  BY DEF RemoveAt, a, b
<1>7. QED  BY <1>4, <1>5, <1>6

\* A list without its i-th keeps the others and their order.
LEMMA RemoveKeeps ==
  ASSUME NEW l \in Seq(Desc), IsInjective(l), NEW i \in 1..Len(l)
  PROVE  /\ RemoveAt(l, i) \in Seq(Desc)
         /\ IsInjective(RemoveAt(l, i))
         /\ ToSet(RemoveAt(l, i)) = ToSet(l) \ {l[i]}
         /\ \A n \in ToSet(l) \ {l[i]} :
              AheadIn(RemoveAt(l, i), n) = AheadIn(l, n) \ {l[i]}
<1> DEFINE r == RemoveAt(l, i)
           m == Len(l)
<1>1. /\ m \in Nat /\ DOMAIN l = 1..m
      /\ \A j, k \in 1..m : l[j] = l[k] => j = k
  BY LenProperties DEF IsInjective
<1>2. /\ r \in Seq(Desc) /\ Len(r) = m - 1
      /\ \A j \in 1..(m - 1) : r[j] = IF j < i THEN l[j] ELSE l[j + 1]
  BY RemoveAtIs
<1>3. DOMAIN r = 1..(m - 1)
  BY <1>2, LenProperties
<1>4. i \in 1..m
  OBVIOUS
<1> HIDE DEF r, m
<1> DEFINE From(j) == IF j < i THEN j ELSE j + 1
<1>5. \A j \in 1..(m - 1) : /\ From(j) \in 1..m /\ From(j) # i
                            /\ r[j] = l[From(j)]
                            /\ \A k \in 1..(m - 1) : j <= k <=> From(j) <= From(k)
  BY <1>1, <1>2, <1>4
<1>6. \A k \in 1..m : k # i => \E j \in 1..(m - 1) : From(j) = k
  <2> SUFFICES ASSUME NEW k \in 1..m, k # i
               PROVE  \E j \in 1..(m - 1) : From(j) = k
    OBVIOUS
  <2>1. CASE k < i
    <3>1. k \in 1..(m - 1) /\ From(k) = k
      BY <2>1, <1>1, <1>4
    <3>2. QED  BY <3>1
  <2>2. CASE ~(k < i)
    <3>1. k - 1 \in 1..(m - 1) /\ From(k - 1) = k
      BY <2>2, <1>1, <1>4
    <3>2. QED  BY <3>1
  <2>3. QED  BY <2>1, <2>2
<1>7. \A j, k \in 1..(m - 1) : From(j) = From(k) => j = k
  BY <1>1, <1>4
<1> HIDE DEF From
<1>8. IsInjective(r)
  BY <1>1, <1>3, <1>5, <1>7 DEF IsInjective
<1>9. ToSet(r) = ToSet(l) \ {l[i]}
  <2>1. ASSUME NEW e \in ToSet(r)
        PROVE  e \in ToSet(l) \ {l[i]}
    <3>1. PICK j \in 1..(m - 1) : r[j] = e
      BY <1>3 DEF ToSet
    <3>2. From(j) \in 1..m /\ From(j) # i /\ l[From(j)] = e
      BY <3>1, <1>5
    <3>3. l[From(j)] # l[i]
      BY <3>2, <1>1, <1>4 DEF IsInjective
    <3>4. QED  BY <3>2, <3>3, <1>1 DEF ToSet
  <2>2. ASSUME NEW e \in ToSet(l) \ {l[i]}
        PROVE  e \in ToSet(r)
    <3>1. PICK k \in 1..m : l[k] = e /\ k # i
      BY <1>1 DEF ToSet
    <3>2. PICK j \in 1..(m - 1) : From(j) = k
      BY <3>1, <1>6
    <3>3. r[j] = e
      BY <3>1, <3>2, <1>5
    <3>4. QED  BY <3>3, <1>3 DEF ToSet
  <2>3. QED  BY <2>1, <2>2
<1>10. ASSUME NEW n \in ToSet(l) \ {l[i]}
       PROVE  AheadIn(r, n) = AheadIn(l, n) \ {l[i]}
  <2>1. CASE n = None
    BY <2>1 DEF AheadIn
  <2>2. CASE n # None
    <3>1. ASSUME NEW d \in AheadIn(r, n)
          PROVE  d \in AheadIn(l, n) \ {l[i]}
      <4>1. PICK j, k \in 1..(m - 1) : j <= k /\ r[j] = n /\ r[k] = d
        BY <2>2, <1>3 DEF AheadIn
      <4>2. From(j) <= From(k) /\ l[From(j)] = n /\ l[From(k)] = d
        BY <4>1, <1>5
      <4>3. d \in ToSet(l) \ {l[i]}
        BY <1>9, <2>2 DEF AheadIn
      <4>4. QED  BY <4>2, <4>3, <1>1, <1>5, <2>2 DEF AheadIn
    <3>2. ASSUME NEW d \in AheadIn(l, n) \ {l[i]}
          PROVE  d \in AheadIn(r, n)
      <4>1. PICK j, k \in 1..m : j <= k /\ l[j] = n /\ l[k] = d
        BY <2>2, <1>1 DEF AheadIn
      <4>2. j # i /\ k # i
        BY <4>1
      <4>3. PICK a \in 1..(m - 1) : From(a) = j
        BY <4>2, <1>6
      <4>4. PICK b \in 1..(m - 1) : From(b) = k
        BY <4>2, <1>6
      <4>5. a <= b /\ r[a] = n /\ r[b] = d
        BY <4>1, <4>3, <4>4, <1>5
      <4>6. d \in ToSet(r)
        BY <1>9, <2>2 DEF AheadIn
      <4>7. QED  BY <4>5, <4>6, <1>3, <2>2 DEF AheadIn
    <3>3. QED  BY <3>1, <3>2
  <2>3. QED  BY <2>1, <2>2
<1>11. QED  BY <1>2, <1>8, <1>9, <1>10 DEF r

\* Who is ahead of the i-th place: the i-th and those after it.
LEMMA AheadFrom ==
  ASSUME NEW l \in Seq(Desc), IsInjective(l), NEW i \in 1..Len(l)
  PROVE  \A d : d \in AheadIn(l, l[i]) <=> \E j \in i..Len(l) : l[j] = d
<1>1. /\ Len(l) \in Nat /\ DOMAIN l = 1..Len(l)
      /\ \A j, k \in 1..Len(l) : l[j] = l[k] => j = k
  BY LenProperties DEF IsInjective
<1>2. l[i] # None
  BY ElementOfSeq, LoopAssumption
<1>3. \A d : d \in ToSet(l) <=> \E j \in 1..Len(l) : l[j] = d
  BY MembersAre
<1>4. QED  BY <1>1, <1>2, <1>3 DEF AheadIn

\* Moving on from d leaves d behind, and nobody else.
LEMMA AheadAfter ==
  ASSUME NEW l \in Seq(Desc), IsInjective(l), NEW d \in ToSet(l)
  PROVE  /\ After(l, d) \in (ToSet(l) \ {d}) \cup {None}
         /\ AheadIn(l, After(l, d)) = AheadIn(l, d) \ {d}
<1>1. /\ Len(l) \in Nat
      /\ \A j, k \in 1..Len(l) : l[j] = l[k] => j = k
  BY LenProperties DEF IsInjective
<1>2. PICK i \in 1..Len(l) : l[i] = d
  BY MembersAre
<1>3. At(l, d) = i
  BY <1>2, PlaceIs
<1>4. CASE i = Len(l)
  <2>1. After(l, d) = None
    BY <1>3, <1>4 DEF After
  <2>2. ASSUME NEW e \in AheadIn(l, d)
        PROVE  e = d
    <3>1. PICK j \in i..Len(l) : l[j] = e
      BY <1>2, AheadFrom
    <3>2. QED  BY <3>1, <1>1, <1>2, <1>4
  <2>3. QED  BY <2>1, <2>2 DEF AheadIn
<1>5. CASE i # Len(l)
  <2>1. After(l, d) = l[i + 1] /\ i + 1 \in 1..Len(l)
    BY <1>3, <1>5, <1>1 DEF After
  <2>2. l[i + 1] \in ToSet(l) /\ l[i + 1] # d
    BY <2>1, <1>1, <1>2, MembersAre
  <2>3. \A e : e \in AheadIn(l, l[i + 1]) <=> \E j \in (i + 1)..Len(l) : l[j] = e
    BY <2>1, AheadFrom
  <2>4. \A e : e \in AheadIn(l, d) <=> \E j \in i..Len(l) : l[j] = e
    BY <1>2, AheadFrom
  <2>5. \A e : (\E j \in (i + 1)..Len(l) : l[j] = e)
               <=> (\E j \in i..Len(l) : l[j] = e) /\ e # d
    BY <1>1, <1>2
  <2>6. QED  BY <2>1, <2>2, <2>3, <2>4, <2>5
<1>6. QED  BY <1>4, <1>5

\* At the head of the list all are ahead.
LEMMA AheadHead ==
  ASSUME NEW l \in Seq(Desc), IsInjective(l), l # << >>
  PROVE  /\ Head(l) \in ToSet(l)
         /\ AheadIn(l, Head(l)) = ToSet(l)
<1>1. Len(l) \in Nat \ {0} /\ Head(l) = l[1]
  BY LenProperties, EmptySeq
<1>2. 1 \in 1..Len(l)
  BY <1>1
<1>3. \A d : d \in AheadIn(l, l[1]) <=> \E j \in 1..Len(l) : l[j] = d
  BY <1>2, AheadFrom
<1>4. \A d : d \in ToSet(l) <=> \E j \in 1..Len(l) : l[j] = d
  BY MembersAre
<1>5. QED  BY <1>1, <1>2, <1>3, <1>4

-----------------------------------------------------------------------------
(***************************************************************************)
(* Closing one connection, and any set of them.                            *)
(***************************************************************************)
\* t is what s is without those in C.
Minus(s, t, C) ==
  /\ Sound(t.list, t.next)
  /\ ToSet(t.list) = ToSet(s.list) \ C
  /\ AheadIn(t.list, t.next) = AheadIn(s.list, s.next) \ C

LEMMA UnlinkOne ==
  ASSUME NEW s, Sound(s.list, s.next), NEW d \in ToSet(s.list)
  PROVE  Minus(s, Unlink(s, d), {d})
<1> DEFINE l == s.list
           n == s.next
           t == Unlink(s, d)
<1>1. l \in Seq(Desc) /\ IsInjective(l) /\ n \in ToSet(l) \cup {None} /\ d \in ToSet(l)
  BY DEF Sound
<1>2. t.list = RemoveAt(l, At(l, d)) /\ t.next = IF n = d THEN After(l, d) ELSE n
  BY DEF Unlink
<1> HIDE DEF t, l, n
<1>3. PICK i \in 1..Len(l) : l[i] = d
  BY <1>1, MembersAre
<1>4. At(l, d) = i
  BY <1>1, <1>3, PlaceIs
<1> DEFINE r == RemoveAt(l, i)
<1>5. /\ r \in Seq(Desc)
      /\ IsInjective(r)
      /\ ToSet(r) = ToSet(l) \ {d}
      /\ \A m \in ToSet(l) \ {d} : AheadIn(r, m) = AheadIn(l, m) \ {d}
  BY <1>1, <1>3, RemoveKeeps
<1>6. /\ After(l, d) \in (ToSet(l) \ {d}) \cup {None}
      /\ AheadIn(l, After(l, d)) = AheadIn(l, d) \ {d}
  BY <1>1, AheadAfter
<1>7. t.list = r
  BY <1>2, <1>4
<1> HIDE DEF r
<1>8. t.next \in (ToSet(l) \ {d}) \cup {None}
  BY <1>1, <1>2, <1>6
<1>9. AheadIn(l, t.next) \ {d} = AheadIn(l, n) \ {d}
  BY <1>2, <1>6
<1>10. AheadIn(r, t.next) = AheadIn(l, t.next) \ {d}
  <2>1. CASE t.next = None
    BY <2>1 DEF AheadIn
  <2>2. CASE t.next # None
    BY <2>2, <1>8, <1>5
  <2>3. QED  BY <2>1, <2>2
<1>11. Sound(r, t.next) /\ ToSet(r) = ToSet(l) \ {d} /\ AheadIn(r, t.next) = AheadIn(l, n) \ {d}
  BY <1>5, <1>8, <1>9, <1>10 DEF Sound
<1>12. QED  BY <1>7, <1>11 DEF Minus, l, n, t

\* The walk of Unlinked over the first n of the list.
IsWalk(g, s, C, n) ==
  g = [i \in 0..n |-> IF i = 0 THEN s
                      ELSE IF s.list[i] \in C THEN Unlink(g[i - 1], s.list[i])
                      ELSE g[i - 1]]

LEMMA UnlinkedIs ==
  ASSUME NEW s, NEW C
  PROVE  Unlinked(s, C) = (CHOOSE g : IsWalk(g, s, C, Len(s.list)))[Len(s.list)]
BY DEF Unlinked, IsWalk

LEMMA WalkExists ==
  ASSUME NEW s, NEW C, NEW n \in Nat
  PROVE  \E g : IsWalk(g, s, C, n)
<1> DEFINE B == {k \in 0..n : ~ \E g : IsWalk(g, s, C, k)}
<1>1. SUFFICES ASSUME B # {} PROVE FALSE
  OBVIOUS
<1>2. PICK k \in B : \A j \in B : k <= j
  <2>1. B \in SUBSET (0..n)
    OBVIOUS
  <2> HIDE DEF B
  <2>2. QED  BY <2>1, <1>1, Least
<1>3. k \in 0..n /\ ~ \E g : IsWalk(g, s, C, k)
  BY <1>2
<1>4. k # 0
  <2> DEFINE g == [i \in 0..0 |-> s]
  <2>1. IsWalk(g, s, C, 0)
    BY DEF IsWalk
  <2>2. QED  BY <2>1, <1>3
<1>5. PICK h : IsWalk(h, s, C, k - 1)
  <2>1. k - 1 \in 0..n /\ k - 1 \notin B
    BY <1>2, <1>3, <1>4
  <2>2. QED  BY <2>1
<1> HIDE DEF B
<1> DEFINE Step(j, i) == IF i = 0 THEN s
                         ELSE IF s.list[i] \in C THEN Unlink(h[j], s.list[i])
                         ELSE h[j]
           g == [i \in 0..k |-> Step(i - 1, i)]
<1>6. \A i \in 0..(k - 1) : h[i] = Step(i - 1, i)
  BY <1>5 DEF IsWalk
<1>7. \A i \in 0..(k - 1) : g[i] = h[i]
  <2> TAKE i \in 0..(k - 1)
  <2>1. i \in 0..k
    BY <1>3
  <2>2. g[i] = Step(i - 1, i)
    BY <2>1
  <2>3. QED  BY <2>2, <1>6
<1>8. \A i \in 0..k : g[i] = IF i = 0 THEN s
                             ELSE IF s.list[i] \in C THEN Unlink(g[i - 1], s.list[i])
                             ELSE g[i - 1]
  <2> TAKE i \in 0..k
  <2>1. g[i] = Step(i - 1, i)
    OBVIOUS
  <2>2. CASE i = 0
    BY <2>1, <2>2
  <2>3. CASE i # 0
    <3>1. i - 1 \in 0..(k - 1)
      BY <2>3, <1>3
    <3>2. g[i - 1] = h[i - 1]
      BY <3>1, <1>7
    <3> HIDE DEF g
    <3>3. QED  BY <3>2, <2>1
  <2>4. QED  BY <2>2, <2>3
<1>9. g = [i \in 0..k |-> g[i]]
  OBVIOUS
<1> HIDE DEF g
<1>10. IsWalk(g, s, C, k)
  BY <1>8, <1>9 DEF IsWalk
<1>11. QED  BY <1>10, <1>3

\* However many are closed, one after the other.
LEMMA UnlinkAll ==
  ASSUME NEW s, Sound(s.list, s.next), NEW C \in SUBSET ToSet(s.list)
  PROVE  Minus(s, Unlinked(s, C), C)
<1> DEFINE l == s.list
           n == Len(l)
           Walked(k) == {l[i] : i \in 1..k}
           D(k) == C \cap Walked(k)
<1>1. l \in Seq(Desc) /\ IsInjective(l) /\ n \in Nat
  BY LenProperties DEF Sound
<1>2. PICK g : IsWalk(g, s, C, n)
  BY <1>1, WalkExists
<1>3. PICK u : u = (CHOOSE h : IsWalk(h, s, C, n))
  OBVIOUS
<1>4. IsWalk(u, s, C, n)
  BY <1>2, <1>3
<1>5. Unlinked(s, C) = u[n]
  BY <1>3, UnlinkedIs
<1>6. \A i \in 0..n : u[i] = IF i = 0 THEN s
                             ELSE IF l[i] \in C THEN Unlink(u[i - 1], l[i])
                             ELSE u[i - 1]
  BY <1>4 DEF IsWalk
<1> HIDE DEF l, n
<1> DEFINE B == {k \in 0..n : ~ Minus(s, u[k], D(k))}
<1>7. B = {}
  <2> SUFFICES ASSUME B # {} PROVE FALSE
    OBVIOUS
  <2>1. PICK k \in B : \A j \in B : k <= j
    <3>1. B \in SUBSET (0..n)
      OBVIOUS
    <3> HIDE DEF B
    <3>2. QED  BY <3>1, <1>1, Least
  <2>2. k \in 0..n /\ ~ Minus(s, u[k], D(k))
    BY <2>1
  <2>3. CASE k = 0
    <3>1. u[k] = s
      BY <2>3, <1>6, <2>2
    <3>2. D(k) = {}
      BY <2>3
    <3> HIDE DEF D, B
    <3>3. QED  BY <3>1, <3>2, <2>2 DEF Minus
  <2>4. CASE k # 0
    <3>1. k \in 1..n /\ k - 1 \in 0..n
      BY <2>4, <2>2, <1>1
    <3>2. Minus(s, u[k - 1], D(k - 1))
      <4>1. k - 1 \notin B
        <5>1. ~(k <= k - 1)
          BY <3>1, <1>1
        <5> HIDE DEF B
        <5>2. QED  BY <5>1, <2>1
      <4>2. QED  BY <4>1, <3>1
    <3>3. D(k) = D(k - 1) \cup (C \cap {l[k]})
      <4>1. 1..k = (1..(k - 1)) \cup {k}
        BY <3>1
      <4>2. QED  BY <4>1
    <3>4. l[k] \in ToSet(l) /\ l[k] \notin D(k - 1)
      <4>1. l[k] \in ToSet(l)
        BY <3>1, <1>1, MembersAre DEF n
      <4>2. DOMAIN l = 1..n /\ \A i, j \in 1..n : l[i] = l[j] => i = j
        BY <1>1, LenProperties DEF IsInjective, n
      <4>3. \A i \in 1..(k - 1) : l[i] # l[k]
        BY <4>2, <3>1, <1>1
      <4>4. l[k] \notin Walked(k - 1)
        BY <4>3
      <4>5. QED  BY <4>1, <4>4
    <3> HIDE DEF D, B
    <3>5. CASE l[k] \in C
      <4>1. u[k] = Unlink(u[k - 1], l[k])
        BY <3>5, <2>2, <2>4, <1>6
      <4>2. l[k] \in ToSet(u[k - 1].list)
        BY <3>2, <3>4 DEF Minus, l
      <4>3. Sound(u[k - 1].list, u[k - 1].next)
        BY <3>2 DEF Minus
      <4>4. Minus(u[k - 1], u[k], {l[k]})
        BY <4>1, <4>2, <4>3, UnlinkOne
      <4>5. D(k) = D(k - 1) \cup {l[k]}
        BY <3>3, <3>5
      <4>6. Minus(s, u[k], D(k))
        BY <3>2, <4>4, <4>5 DEF Minus
      <4>7. QED  BY <4>6, <2>2
    <3>6. CASE l[k] \notin C
      <4>1. u[k] = u[k - 1]
        BY <3>6, <2>2, <2>4, <1>6
      <4>2. D(k) = D(k - 1)
        BY <3>3, <3>6
      <4>3. QED  BY <4>1, <4>2, <3>2, <2>2
    <3>7. QED  BY <3>5, <3>6
  <2>5. QED  BY <2>3, <2>4
<1>8. D(n) = C
  BY <1>1, MembersAre DEF l, n
<1>9. n \in 0..n
  BY <1>1
<1> HIDE DEF D
<1>10. Minus(s, u[n], D(n))
  BY <1>7, <1>9
<1>11. QED  BY <1>10, <1>8, <1>5

-----------------------------------------------------------------------------
(***************************************************************************)
(* What is kept of each connection.                                        *)
(***************************************************************************)
Stages == {"name", "password", "play"}

\* The tables a, b, c and e have their types, and are blank off the list l.
Tabled(l, a, b, c, e) ==
  /\ a \in [Desc -> Stages]
  /\ b \in [Desc -> Names \cup {None}]
  /\ c \in [Desc -> 0..MaxLines]
  /\ e \in [Desc -> 0..MaxWait]
  /\ \A d \in Desc \ ToSet(l) : a[d] = "name" /\ b[d] = None /\ c[d] = 0 /\ e[d] = 0

\* Closing those in C leaves them blank.
LEMMA TabledBlank ==
  ASSUME NEW l, NEW a, NEW b, NEW c, NEW e, Tabled(l, a, b, c, e),
         NEW C, NEW k, ToSet(l) \ C \subseteq ToSet(k)
  PROVE  Tabled(k, Blank(a, C, "name"), Blank(b, C, None), Blank(c, C, 0), Blank(e, C, 0))
<1> DEFINE x == Blank(a, C, "name")
           y == Blank(b, C, None)
           z == Blank(c, C, 0)
           w == Blank(e, C, 0)
<1>1. 0 \in 0..MaxLines /\ 0 \in 0..MaxWait /\ "name" \in Stages /\ None \in Names \cup {None}
  BY LoopAssumption DEF Stages
<1>2. x \in [Desc -> Stages] /\ \A d \in Desc : x[d] = IF d \in C THEN "name" ELSE a[d]
  BY <1>1 DEF Tabled, Blank
<1>3. /\ y \in [Desc -> Names \cup {None}]
      /\ \A d \in Desc : y[d] = IF d \in C THEN None ELSE b[d]
  BY <1>1 DEF Tabled, Blank
<1>4. z \in [Desc -> 0..MaxLines] /\ \A d \in Desc : z[d] = IF d \in C THEN 0 ELSE c[d]
  BY <1>1 DEF Tabled, Blank
<1>5. w \in [Desc -> 0..MaxWait] /\ \A d \in Desc : w[d] = IF d \in C THEN 0 ELSE e[d]
  BY <1>1 DEF Tabled, Blank
<1> HIDE DEF x, y, z, w
<1>6. \A d \in Desc \ ToSet(k) : d \in C \/ d \in Desc \ ToSet(l)
  OBVIOUS
<1>7. \A d \in Desc \ ToSet(k) : x[d] = "name" /\ y[d] = None /\ z[d] = 0 /\ w[d] = 0
  BY <1>2, <1>3, <1>4, <1>5, <1>6 DEF Tabled
<1>8. Tabled(k, x, y, z, w)
  BY <1>2, <1>3, <1>4, <1>5, <1>7 DEF Tabled
<1>9. QED  BY <1>8 DEF x, y, z, w

\* Who is in the list may be given anything.
LEMMA TabledPut ==
  ASSUME NEW l, NEW a, NEW b, NEW c, NEW e, Tabled(l, a, b, c, e), NEW d \in ToSet(l),
         NEW st \in Stages, NEW p \in Names \cup {None},
         NEW n \in 0..MaxLines, NEW w \in 0..MaxWait
  PROVE  Tabled(l, [a EXCEPT ![d] = st], [b EXCEPT ![d] = p],
                   [c EXCEPT ![d] = n], [e EXCEPT ![d] = w])
BY DEF Tabled

LEMMA ReceivedIs ==
  ASSUME NEW d \in Desc, lines \in [Desc -> 0..MaxLines], NEW n \in Received(d)
  PROVE  n \in 0..MaxLines /\ (n > 0 => n - 1 \in 0..MaxLines)
<1>1. lines[d] \in 0..MaxLines /\ MaxLines \in Nat
  BY LoopAssumption
<1>2. QED  BY <1>1 DEF Received

-----------------------------------------------------------------------------
(***************************************************************************)
(* The walk.                                                               *)
(***************************************************************************)
\* At the poll nobody has been served.
Fresh == phase = "poll" => \A d \in Desc : seen[d] = "no"

\* WalkRight alone is not inductive: the walk of the next pulse starts with
\* everybody ahead, and is right from its start only if nobody was served.
IInv ==
  /\ TypeOK
  /\ WalkRight
  /\ Fresh

LEMMA TypeParts ==
  TypeOK <=> /\ list \in Seq(Desc) /\ IsInjective(list)
             /\ next \in Desc \cup {None}
             /\ phase \in {"poll", "input"}
             /\ seen \in [Desc -> {"no", "seen", "took"}]
             /\ over \in BOOLEAN
             /\ Tabled(list, stage, who, lines, wait)
BY DEF TypeOK, Tabled, Stages, Listed

LEMMA AheadIs == Ahead = AheadIn(list, next)
BY DEF Ahead, AheadIn, Listed

\* The list and the place in it when those in C have been closed.
LEMMA CloseKeeps ==
  ASSUME NEW n, Sound(list, n), NEW C \in SUBSET Listed, Close(C, n)
  PROVE  /\ Sound(list', next')
         /\ Listed' = Listed \ C
         /\ AheadIn(list', next') = AheadIn(list, n) \ C
<1> DEFINE s == [list |-> list, next |-> n]
           t == Unlinked(s, C)
<1>1. s.list = list /\ s.next = n
  OBVIOUS
<1>2. list' = t.list /\ next' = t.next
  BY DEF Close
<1> HIDE DEF s
<1>3. Minus(s, t, C)
  BY <1>1, UnlinkAll DEF Listed
<1> HIDE DEF t
<1>4. QED  BY <1>1, <1>2, <1>3 DEF Minus, Listed

\* The turn of d: those in G are closed, and the walk, moved on to m, goes on
\* from there.
LEMMA TurnKeeps ==
  ASSUME IInv, NEW d \in Desc, Turn(d), NEW G \in SUBSET Listed, NEW m,
         \/ m = Onward(d) /\ over' = over
         \/ m = None /\ over' = TRUE,
         Sound(list', next'),
         Listed' = Listed \ G,
         AheadIn(list', next') = AheadIn(list, m) \ G,
         Tabled(list', stage', who', lines', wait'),
         NEW x \in {"seen", "took"}, seen' = [seen EXCEPT ![d] = x],
         phase' = phase
  PROVE  IInv'
<1>1. /\ list \in Seq(Desc) /\ IsInjective(list)
      /\ phase = "input" /\ next = d
      /\ seen \in [Desc -> {"no", "seen", "took"}]
      /\ over \in BOOLEAN
  BY TypeParts DEF IInv, Turn
<1>2. d \in Listed
  BY <1>1, LoopAssumption DEF IInv, WalkRight
<1>3. AheadIn(list, Onward(d)) = Ahead \ {d}
  BY <1>1, <1>2, AheadAfter, AheadIs DEF Onward, Listed
<1>4. list' \in Seq(Desc) /\ IsInjective(list') /\ next' \in Listed' \cup {None}
  BY DEF Sound, Listed
<1>5. Listed' \subseteq Desc
  BY <1>1, MembersAre DEF Listed
<1>6. seen' \in [Desc -> {"no", "seen", "took"}] /\ over' \in BOOLEAN
  BY <1>1
<1>7. TypeOK'
  BY <1>1, <1>4, <1>5, <1>6 DEF TypeOK, Tabled, Stages, Listed
<1>8. Ahead' = AheadIn(list, m) \ G
  BY DEF Ahead, AheadIn, Listed
<1>9. AheadIn(list, m) \subseteq Ahead \ {d}
  BY <1>3 DEF AheadIn
<1>10. \A e \in Ahead : e \in Desc /\ seen[e] = "no"
  BY <1>1, <1>5, MembersAre DEF IInv, WalkRight, Ahead, Listed
<1>11. \A e \in Ahead' : seen'[e] = "no"
  BY <1>1, <1>8, <1>9, <1>10
<1>12. ASSUME ~over', NEW e \in Listed', seen'[e] = "no"
       PROVE  e \in Ahead'
  <2>1. m = Onward(d) /\ ~over
    BY <1>12
  <2>2. e \in Listed /\ e \in Desc /\ e # d /\ seen[e] = "no" /\ e \notin G
    BY <1>1, <1>5, <1>12
  <2>3. e \in Ahead
    BY <2>1, <2>2, <1>1 DEF IInv, WalkRight
  <2>4. QED  BY <2>1, <2>2, <2>3, <1>3, <1>8
<1>13. WalkRight'
  BY <1>4, <1>11, <1>12 DEF WalkRight
<1>14. Fresh'
  BY <1>1 DEF Fresh
<1>15. QED  BY <1>7, <1>13, <1>14 DEF IInv

LEMMA TurnIs ==
  ASSUME IInv, NEW d \in Desc, Turn(d)
  PROVE  /\ d \in Listed
         /\ Sound(list, Onward(d))
         /\ Sound(list, None)
         /\ Tabled(list, stage, who, lines, wait)
<1>1. list \in Seq(Desc) /\ IsInjective(list) /\ phase = "input" /\ next = d
  BY TypeParts DEF IInv, Turn
<1>2. d \in Listed
  BY <1>1, LoopAssumption DEF IInv, WalkRight
<1>3. Onward(d) \in Listed \cup {None}
  BY <1>1, <1>2, AheadAfter DEF Onward, Listed
<1>4. QED  BY <1>1, <1>2, <1>3, TypeParts DEF IInv, Sound, Listed

\* A turn that closes nobody.
LEMMA StillKeeps ==
  ASSUME IInv, NEW d \in Desc, Turn(d),
         list' = list, next' = Onward(d), phase' = phase, over' = over,
         NEW x \in {"seen", "took"}, seen' = [seen EXCEPT ![d] = x],
         Tabled(list, stage', who', lines', wait')
  PROVE  IInv'
<1>1. Sound(list', next') /\ Listed' = Listed \ {}
  BY TurnIs DEF Listed
<1>2. AheadIn(list', next') = AheadIn(list, Onward(d)) \ {}
  OBVIOUS
<1>3. Tabled(list', stage', who', lines', wait')
  OBVIOUS
<1>4. {} \in SUBSET Listed
  OBVIOUS
<1>5. QED  BY <1>1, <1>2, <1>3, <1>4, TurnKeeps

\* A turn that closes those in G, after giving d what it is given.
LEMMA ClosingKeeps ==
  ASSUME IInv, NEW d \in Desc, Turn(d), NEW G \in SUBSET Listed, NEW m,
         \/ m = Onward(d) /\ over' = over
         \/ m = None /\ over' = TRUE,
         Close(G, m),
         NEW st \in Stages, NEW p \in Names \cup {None},
         NEW n \in 0..MaxLines, NEW w \in 0..MaxWait,
         stage' = Blank([stage EXCEPT ![d] = st], G, "name"),
         who' = Blank([who EXCEPT ![d] = p], G, None),
         lines' = Blank([lines EXCEPT ![d] = n], G, 0),
         wait' = Blank([wait EXCEPT ![d] = w], G, 0),
         NEW x \in {"seen", "took"}, seen' = [seen EXCEPT ![d] = x],
         phase' = phase
  PROVE  IInv'
<1>1. d \in Listed /\ Sound(list, m) /\ Tabled(list, stage, who, lines, wait)
  BY TurnIs
<1>2. /\ Sound(list', next')
      /\ Listed' = Listed \ G
      /\ AheadIn(list', next') = AheadIn(list, m) \ G
  BY <1>1, CloseKeeps
<1>3. Tabled(list, [stage EXCEPT ![d] = st], [who EXCEPT ![d] = p],
                   [lines EXCEPT ![d] = n], [wait EXCEPT ![d] = w])
  BY <1>1, TabledPut DEF Listed
<1>4. ToSet(list) \ G \subseteq ToSet(list')
  BY <1>2 DEF Listed
<1>5. Tabled(list', stage', who', lines', wait')
  BY <1>3, <1>4, TabledBlank
<1>6. QED  BY <1>2, <1>5, TurnKeeps

LEMMA HandleKeeps ==
  ASSUME IInv, NEW d \in Desc, NEW C \in SUBSET Listed,
         NEW st \in Stages, NEW p \in Names \cup {None}, NEW w \in 0..MaxWait,
         Handle(d, C, st, p, w), over' = over
  PROVE  IInv'
<1>1. Turn(d) /\ seen' = [seen EXCEPT ![d] = "took"] /\ phase' = phase
  BY DEF Handle
<1>2. PICK n \in Received(d), O \in Overflows :
        LET G == C \cup O
        IN  /\ n > 0
            /\ Close(G, Onward(d))
            /\ stage' = Blank([stage EXCEPT ![d] = st], G, "name")
            /\ who' = Blank([who EXCEPT ![d] = p], G, None)
            /\ lines' = Blank([lines EXCEPT ![d] = n - 1], G, 0)
            /\ wait' = Blank([wait EXCEPT ![d] = w], G, 0)
  BY DEF Handle
<1>3. C \cup O \in SUBSET Listed
  BY DEF Overflows
<1>4. n - 1 \in 0..MaxLines
  BY <1>2, ReceivedIs DEF IInv, TypeOK
<1>5. QED  BY <1>1, <1>2, <1>3, <1>4, ClosingKeeps

-----------------------------------------------------------------------------
(***************************************************************************)
(* The steps.                                                              *)
(***************************************************************************)
LEMMA InitIInv == Init => IInv
<1> SUFFICES ASSUME Init PROVE IInv
  OBVIOUS
<1>1. list \in Seq(Desc) /\ IsInjective(list) /\ Listed = {}
  BY EmptySeq DEF Init, IsInjective, Listed, ToSet
<1>2. 0 \in 0..MaxLines /\ 0 \in 0..MaxWait
  BY LoopAssumption
<1>3. TypeOK
  BY <1>1, <1>2 DEF Init, TypeOK
<1>4. QED  BY <1>3 DEF Init, IInv, WalkRight, Fresh

LEMMA LostStep ==
  ASSUME IInv, NEW d \in Desc, Lost(d)
  PROVE  IInv'
<1>1. d \in Listed /\ Sound(list, Onward(d)) /\ Tabled(list, stage, who, lines, wait)
  BY TurnIs DEF Lost
<1>2. {d} \in SUBSET Listed
  BY <1>1
<1>3. /\ Sound(list', next')
      /\ Listed' = Listed \ {d}
      /\ AheadIn(list', next') = AheadIn(list, Onward(d)) \ {d}
  BY <1>1, <1>2, CloseKeeps DEF Lost
<1>4. ToSet(list) \ {d} \subseteq ToSet(list')
  BY <1>3 DEF Listed
<1>5. Tabled(list', stage', who', lines', wait')
  BY <1>1, <1>4, TabledBlank DEF Lost
<1>6. QED  BY <1>2, <1>3, <1>5, TurnKeeps DEF Lost

LEMMA WaitStep ==
  ASSUME IInv, NEW d \in Desc, Wait(d)
  PROVE  IInv'
<1>1. Turn(d) /\ wait[d] > 0 /\ d \in Listed /\ Tabled(list, stage, who, lines, wait)
  BY TurnIs DEF Wait
<1>2. PICK n \in Received(d) : lines' = [lines EXCEPT ![d] = n]
  BY DEF Wait
<1>3. n \in 0..MaxLines
  BY ReceivedIs DEF IInv, TypeOK
<1>4. wait[d] - 1 \in 0..MaxWait /\ stage[d] \in Stages /\ who[d] \in Names \cup {None}
  BY <1>1, LoopAssumption DEF Tabled
<1>5. Tabled(list, [stage EXCEPT ![d] = stage[d]], [who EXCEPT ![d] = who[d]],
                   [lines EXCEPT ![d] = n], [wait EXCEPT ![d] = wait[d] - 1])
  BY <1>1, <1>3, <1>4, TabledPut DEF Listed
<1>6. [stage EXCEPT ![d] = stage[d]] = stage /\ [who EXCEPT ![d] = who[d]] = who
  BY <1>1 DEF Tabled
<1>7. Tabled(list, stage', who', lines', wait')
  BY <1>2, <1>5, <1>6 DEF Wait
<1>8. QED  BY <1>7, <1>1, StillKeeps DEF Wait

LEMMA IdleStep ==
  ASSUME IInv, NEW d \in Desc, Idle(d)
  PROVE  IInv'
<1>1. Turn(d) /\ d \in Listed /\ Tabled(list, stage, who, lines, wait)
  BY TurnIs DEF Idle
<1>2. 0 \in 0..MaxLines
  BY LoopAssumption
<1>3. Tabled(list, stage, who, [lines EXCEPT ![d] = 0], wait)
  BY <1>1, <1>2 DEF Tabled, Listed
<1>4. Tabled(list, stage', who', lines', wait')
  BY <1>3 DEF Idle
<1>5. QED  BY <1>4, <1>1, StillKeeps DEF Idle

LEMMA TakeOverStep ==
  ASSUME IInv, NEW d \in Desc, TakeOver(d)
  PROVE  IInv'
<1> DEFINE G == Namesakes(who[d]) \ {d}
<1>1. Turn(d) /\ Tabled(list, stage, who, lines, wait)
  BY TurnIs DEF TakeOver
<1>2. PICK n \in Received(d), w \in 0..MaxWait :
        /\ n > 0
        /\ Close(G, None)
        /\ stage' = Blank([stage EXCEPT ![d] = "play"], G, "name")
        /\ who' = Blank(who, G, None)
        /\ lines' = Blank([lines EXCEPT ![d] = n - 1], G, 0)
        /\ wait' = Blank([wait EXCEPT ![d] = w], G, 0)
  BY DEF TakeOver
<1>3. G \in SUBSET Listed
  BY DEF Namesakes
<1> HIDE DEF G
<1>4. n - 1 \in 0..MaxLines
  BY <1>2, ReceivedIs DEF IInv, TypeOK
<1>5. who[d] \in Names \cup {None} /\ [who EXCEPT ![d] = who[d]] = who
  BY <1>1 DEF Tabled
<1>6. who' = Blank([who EXCEPT ![d] = who[d]], G, None)
  BY <1>2, <1>5
<1>7. over' = TRUE /\ seen' = [seen EXCEPT ![d] = "took"] /\ phase' = phase
  BY DEF TakeOver
<1>8. QED  BY <1>1, <1>2, <1>3, <1>4, <1>5, <1>6, <1>7, ClosingKeeps DEF Stages

LEMMA TypeNameStep ==
  ASSUME IInv, NEW d \in Desc, NEW n \in Names, TypeName(d, n)
  PROVE  IInv'
<1> DEFINE twins == {e \in Namesakes(n) : stage[e] # "play"}
<1>1. over' = over
  BY DEF TypeName
<1>2. Turn(d)
  BY DEF TypeName, Handle
<1>3. d \in Listed /\ who[d] \in Names \cup {None}
  BY <1>2, TurnIs DEF Tabled
<1>4. 0 \in 0..MaxWait /\ n \in Names \cup {None}
  BY LoopAssumption
<1>5. twins \in SUBSET Listed /\ {} \in SUBSET Listed /\ {d} \in SUBSET Listed
  BY <1>3 DEF Namesakes
<1>6. \/ Handle(d, twins, "name", who[d], 0)
      \/ Handle(d, {}, "name", n, 0)
      \/ Handle(d, {}, "password", n, 0)
      \/ Handle(d, {d}, "name", n, 0)
  BY DEF TypeName
<1> HIDE DEF twins
<1>7. QED  BY <1>1, <1>3, <1>4, <1>5, <1>6, HandleKeeps DEF Stages

LEMMA LogInStep ==
  ASSUME IInv, NEW d \in Desc, LogIn(d)
  PROVE  IInv'
<1>1. over' = over
  BY DEF LogIn
<1>2. Turn(d)
  BY DEF LogIn, Handle
<1>3. d \in Listed /\ who[d] \in Names \cup {None}
  BY <1>2, TurnIs DEF Tabled
<1>4. 0 \in 0..MaxWait /\ {} \in SUBSET Listed /\ {d} \in SUBSET Listed
  BY <1>3, LoopAssumption
<1>5. \/ Handle(d, {d}, "name", who[d], 0)
      \/ \E w \in 0..MaxWait : Handle(d, {}, "play", who[d], w)
  BY DEF LogIn
<1>6. QED  BY <1>1, <1>3, <1>4, <1>5, HandleKeeps DEF Stages

\* Command, Quit and Disconnect.
LEMMA PlayStep ==
  ASSUME IInv, NEW d \in Desc,
         Command(d) \/ Quit(d) \/ \E e \in Desc : Disconnect(d, e)
  PROVE  IInv'
<1>1. over' = over
  BY DEF Command, Quit, Disconnect
<1>2. PICK C \in SUBSET Listed, w \in 0..MaxWait : Handle(d, C, "play", who[d], w)
  <2>1. 0 \in 0..MaxWait /\ {} \in SUBSET Listed /\ Namesakes(who[d]) \in SUBSET Listed
    BY LoopAssumption DEF Namesakes
  <2>2. CASE Command(d)
    BY <2>1, <2>2 DEF Command
  <2>3. CASE Quit(d)
    BY <2>1, <2>3 DEF Quit
  <2>4. CASE \E e \in Desc : Disconnect(d, e)
    <3>1. PICK e \in Listed : Handle(d, {e}, "play", who[d], 0)
      BY <2>4 DEF Disconnect
    <3>2. {e} \in SUBSET Listed
      OBVIOUS
    <3>3. QED  BY <2>1, <3>1, <3>2
  <2>5. QED  BY <2>2, <2>3, <2>4
<1>3. who[d] \in Names \cup {None}
  BY DEF IInv, TypeOK
<1>4. QED  BY <1>1, <1>2, <1>3, HandleKeeps DEF Stages

LEMMA RestStep ==
  ASSUME IInv, Rest
  PROVE  IInv'
<1>1. Sound(list, None) /\ Tabled(list, stage, who, lines, wait)
  BY TypeParts DEF IInv, Sound
<1>2. PICK C \in SUBSET Listed :
        /\ Close(C, None)
        /\ stage' = Blank(stage, C, "name")
        /\ who' = Blank(who, C, None)
        /\ lines' = Blank(lines, C, 0)
        /\ wait' = Blank(wait, C, 0)
  BY DEF Rest
<1>3. Sound(list', next') /\ Listed' = Listed \ C
  BY <1>1, <1>2, CloseKeeps
<1>4. ToSet(list) \ C \subseteq ToSet(list')
  BY <1>3 DEF Listed
<1>5. Tabled(list', stage', who', lines', wait')
  BY <1>1, <1>2, <1>4, TabledBlank
<1>6. /\ phase' = "poll" /\ over' = FALSE
      /\ seen' \in [Desc -> {"no", "seen", "took"}]
      /\ \A d \in Desc : seen'[d] = "no"
  BY DEF Rest
<1>7. next' \in Desc \cup {None}
  BY <1>3, MembersAre DEF Sound
<1>8. TypeOK'
  BY <1>3, <1>5, <1>6, <1>7 DEF TypeOK, Tabled, Stages, Listed, Sound
<1>9. QED  BY <1>6, <1>8 DEF IInv, WalkRight, Fresh

LEMMA PutFirst ==
  ASSUME NEW l \in Seq(Desc), IsInjective(l), NEW d \in Desc, d \notin ToSet(l)
  PROVE  /\ <<d>> \o l \in Seq(Desc)
         /\ IsInjective(<<d>> \o l)
         /\ ToSet(<<d>> \o l) = {d} \cup ToSet(l)
<1> DEFINE k == <<d>> \o l
<1>1. <<d>> \in Seq(Desc) /\ Len(<<d>>) = 1 /\ <<d>>[1] = d
  OBVIOUS
<1>2. /\ k \in Seq(Desc) /\ Len(k) = 1 + Len(l)
      /\ \A i \in 1..Len(k) : k[i] = IF i <= 1 THEN <<d>>[i] ELSE l[i - 1]
  BY <1>1, ConcatProperties
<1>3. Len(l) \in Nat /\ DOMAIN l = 1..Len(l) /\ DOMAIN k = 1..Len(k)
  BY <1>2, LenProperties
<1> HIDE DEF k
<1>4. k[1] = d /\ \A i \in 2..Len(k) : i - 1 \in 1..Len(l) /\ k[i] = l[i - 1]
  BY <1>1, <1>2, <1>3
<1>5. \A i \in 1..Len(l) : l[i] # d /\ i + 1 \in 2..Len(k) /\ k[i + 1] = l[i]
  BY <1>2, <1>3, <1>4, MembersAre
<1>6. \A i \in 1..Len(k) : i = 1 \/ i \in 2..Len(k)
  BY <1>2, <1>3
<1>7. ASSUME NEW i \in DOMAIN k, NEW j \in DOMAIN k, k[i] = k[j]
      PROVE  i = j
  <2>1. CASE i = 1 \/ j = 1
    <3>1. \A h \in 2..Len(k) : k[h] # d
      BY <1>2, <1>3, <1>4, <1>5
    <3>2. k[i] = d /\ k[j] = d
      BY <2>1, <1>4, <1>7
    <3>3. i = 1 /\ j = 1
      BY <3>1, <3>2, <1>3, <1>6
    <3>4. QED  BY <3>3
  <2>2. CASE i \in 2..Len(k) /\ j \in 2..Len(k)
    <3>1. i - 1 = j - 1
      BY <2>2, <1>3, <1>4, <1>7 DEF IsInjective
    <3>2. QED  BY <3>1, <2>2
  <2>3. QED  BY <2>1, <2>2, <1>3, <1>6
<1>8. ToSet(k) = {d} \cup ToSet(l)
  <2>1. \A e \in ToSet(k) : e = d \/ e \in ToSet(l)
    BY <1>3, <1>4, <1>6 DEF ToSet
  <2>2. 1 \in DOMAIN k
    BY <1>2, <1>3
  <2>3. \A e \in ToSet(l) : e \in ToSet(k)
    <3>1. \A i \in 1..Len(l) : i + 1 \in DOMAIN k /\ k[i + 1] = l[i]
      BY <1>3, <1>5
    <3>2. QED  BY <3>1, <1>3 DEF ToSet
  <2>4. d \in ToSet(k)
    BY <2>2, <1>4 DEF ToSet
  <2>5. QED  BY <2>1, <2>3, <2>4
<1>9. IsInjective(k)
  BY <1>7 DEF IsInjective
<1>10. QED  BY <1>2, <1>8, <1>9 DEF k

LEMMA PollStep ==
  ASSUME IInv, Poll
  PROVE  IInv'
<1>1. Sound(list, None) /\ Tabled(list, stage, who, lines, wait)
  BY TypeParts DEF IInv, Sound
<1> DEFINE s == [list |-> list, next |-> None]
<1>2. PICK C \in SUBSET Listed, new \in {<< >>} \cup {<<d>> : d \in Desc \ Listed} :
        /\ list' = new \o Unlinked(s, C).list
        /\ next' = IF list' = << >> THEN None ELSE Head(list')
        /\ stage' = Blank(stage, C, "name")
        /\ who' = Blank(who, C, None)
        /\ lines' = Blank(lines, C, 0)
        /\ wait' = Blank(wait, C, 0)
  BY DEF Poll
<1>3. s.list = list /\ s.next = None
  OBVIOUS
<1> HIDE DEF s
<1> DEFINE l == Unlinked(s, C).list
<1>4. Minus(s, Unlinked(s, C), C)
  BY <1>1, <1>3, UnlinkAll DEF Listed
<1>5. l \in Seq(Desc) /\ IsInjective(l) /\ ToSet(l) = Listed \ C
  BY <1>3, <1>4 DEF Minus, Sound, Listed
<1> HIDE DEF l
<1>6. list' \in Seq(Desc) /\ IsInjective(list') /\ ToSet(l) \subseteq ToSet(list')
  <2>1. CASE new = << >>
    <3>1. list' = l
      BY <2>1, <1>2, <1>5, ConcatEmptySeq DEF l
    <3>2. QED  BY <3>1, <1>5
  <2>2. CASE new # << >>
    <3>1. PICK d \in Desc \ Listed : new = <<d>>
      BY <2>2, <1>2
    <3>2. d \notin ToSet(l) /\ list' = <<d>> \o l
      BY <3>1, <1>2, <1>5 DEF l
    <3>3. QED  BY <3>2, <1>5, PutFirst
  <2>3. QED  BY <2>1, <2>2
<1>7. Listed' = ToSet(list') /\ Listed' \subseteq Desc
  BY <1>6, MembersAre DEF Listed
<1>8. ToSet(list) \ C \subseteq ToSet(list')
  BY <1>5, <1>6 DEF Listed
<1>9. Tabled(list', stage', who', lines', wait')
  BY <1>1, <1>2, <1>8, TabledBlank
<1>10. /\ phase' = "input" /\ phase = "poll" /\ seen' = seen /\ over' = over
       /\ seen \in [Desc -> {"no", "seen", "took"}] /\ over \in BOOLEAN
       /\ \A d \in Desc : seen[d] = "no"
  BY DEF Poll, IInv, TypeOK, Fresh
<1>11. next' \in Listed' \cup {None} /\ AheadIn(list', next') = Listed'
  <2>1. CASE list' = << >>
    <3>1. next' = None /\ ToSet(list') = {}
      BY <2>1, <1>2 DEF ToSet
    <3>2. QED  BY <3>1, <1>7 DEF AheadIn
  <2>2. CASE list' # << >>
    BY <2>2, <1>2, <1>6, <1>7, AheadHead
  <2>3. QED  BY <2>1, <2>2
<1>12. TypeOK'
  BY <1>6, <1>7, <1>9, <1>10, <1>11 DEF TypeOK, Tabled, Stages
<1>13. Ahead' = Listed'
  BY <1>11 DEF Ahead, AheadIn, Listed
<1>14. WalkRight'
  BY <1>7, <1>10, <1>11, <1>13 DEF WalkRight
<1>15. QED  BY <1>10, <1>12, <1>14 DEF IInv, Fresh

LEMMA StutterStep ==
  ASSUME IInv, UNCHANGED vars
  PROVE  IInv'
BY DEF IInv, TypeOK, WalkRight, Fresh, Listed, Ahead, vars, conns

LEMMA NextIInv ==
  ASSUME IInv, [Next]_vars
  PROVE  IInv'
<1>1. CASE UNCHANGED vars
  BY <1>1, StutterStep
<1>2. CASE \E d \in Desc :
             \/ Lost(d) \/ Wait(d) \/ Idle(d)
             \/ \E n \in Names : TypeName(d, n)
             \/ TakeOver(d) \/ LogIn(d) \/ Command(d) \/ Quit(d)
             \/ \E e \in Desc : Disconnect(d, e)
  <2> SUFFICES ASSUME NEW d \in Desc,
                      \/ Lost(d) \/ Wait(d) \/ Idle(d)
                      \/ \E n \in Names : TypeName(d, n)
                      \/ TakeOver(d) \/ LogIn(d) \/ Command(d) \/ Quit(d)
                      \/ \E e \in Desc : Disconnect(d, e)
               PROVE  IInv'
    BY <1>2
  <2>1. CASE Lost(d)
    BY <2>1, LostStep
  <2>2. CASE Wait(d)
    BY <2>2, WaitStep
  <2>3. CASE Idle(d)
    BY <2>3, IdleStep
  <2>4. CASE \E n \in Names : TypeName(d, n)
    BY <2>4, TypeNameStep
  <2>5. CASE TakeOver(d)
    BY <2>5, TakeOverStep
  <2>6. CASE LogIn(d)
    BY <2>6, LogInStep
  <2>7. CASE Command(d) \/ Quit(d) \/ \E e \in Desc : Disconnect(d, e)
    BY <2>7, PlayStep
  <2>8. QED  BY <2>1, <2>2, <2>3, <2>4, <2>5, <2>6, <2>7
<1>3. CASE Rest
  BY <1>3, RestStep
<1>4. CASE Poll
  BY <1>4, PollStep
<1>5. QED  BY <1>1, <1>2, <1>3, <1>4 DEF Next

LEMMA IInvAlways == Spec => []IInv
BY InitIInv, NextIInv, PTL DEF Spec

\* The list holds a connection once, and a slot that was given back, however
\* that came about, is blank when it is taken again (comm.c, close_socket;
\* recycle.c, new_descriptor and free_descriptor).
THEOREM TypeCorrect == Spec => []TypeOK
<1>1. IInv => TypeOK
  BY DEF IInv
<1>2. QED  BY <1>1, IInvAlways, PTL

\* Whoever closes whom in the middle of the walk of game_loop_unix, d_next is
\* at a connection that is open, nobody is served twice in a pulse, and,
\* takeovers apart, nobody is passed over.
THEOREM WalkStaysRight == Spec => []WalkRight
<1>1. IInv => WalkRight
  BY DEF IInv
<1>2. QED  BY <1>1, IInvAlways, PTL

-----------------------------------------------------------------------------
(***************************************************************************)
(* The events of the arena.                                                *)
(***************************************************************************)
ArenaIInv == ArenaTypeOK /\ OwnBet

-----------------------------------------------------------------------------
LEMMA Bounds ==
  /\ 0 \in 0 .. JoinTicks /\ 0 \in 0 .. BetTicks /\ 0 \in 0 .. IdleTicks
  /\ JoinTicks \in 0 .. JoinTicks /\ BetTicks \in 0 .. BetTicks
  /\ 0 \in Int /\ 0 \in Amounts \cup {0}
  BY ArenaAssumption

LEMMA ArenaInitIInv == ArenaInit => ArenaIInv
<1> SUFFICES ASSUME ArenaInit PROVE ArenaIInv
  OBVIOUS
<1>1. ArenaTypeOK
  BY Bounds DEF ArenaInit, ArenaTypeOK
<1>2. OwnBet
  BY DEF ArenaInit, OwnBet, Gladiators
<1>3. QED
  BY <1>1, <1>2 DEF ArenaIInv

LEMMA WithoutType ==
  ASSUME ArenaTypeOK, NEW R
  PROVE  Without(R) \in [Persons -> {"no", "staging", "arena"}]
  BY DEF ArenaTypeOK, Without

\* Whoever leaves, the types are kept and nobody gets the bit by it.
LEMMA OutTypes ==
  ASSUME ArenaTypeOK, NEW R, NEW last, Out(R, last)
  PROVE  /\ glad' \in [Persons -> {"no", "staging", "arena"}]
         /\ Gladiators' \subseteq Gladiators
         /\ started' \in BOOLEAN
         /\ timeLeft' \in 0 .. JoinTicks
         /\ betCounter' \in 0 .. BetTicks
         /\ rivals' \subseteq Persons /\ astray' = astray
<1> DEFINE G == (Gladiators \cap Here) \ R
<1>1. CASE /\ last
           /\ \E w \in G : rivals' = rivals \cup (G \ {w})
           /\ glad' = Without(R \cup Here)
           /\ Over
           /\ astray' = astray
  <2>1. Gladiators' \subseteq Gladiators
    BY <1>1 DEF Without, Gladiators
  <2>2. rivals' \subseteq Persons
    BY <1>1 DEF ArenaTypeOK, Gladiators, Here
  <2>3. /\ glad' \in [Persons -> {"no", "staging", "arena"}]
    BY <1>1 DEF ArenaTypeOK, Without
  <2>4. QED
    BY <1>1, <2>1, <2>2, <2>3, Bounds DEF Over
<1>2. CASE /\ ~last \/ G = {}
           /\ glad' = Without(R)
           /\ UNCHANGED <<event, rivals>>
           /\ astray' = astray
  BY <1>2 DEF ArenaTypeOK, Without, Gladiators, event
<1>3. QED
  BY <1>1, <1>2 DEF Out

\* The same for one that leaves.
LEMMA OneOutTypes ==
  ASSUME ArenaTypeOK, NEW p \in Persons, OneOut(p)
  PROVE  /\ glad' \in [Persons -> {"no", "staging", "arena"}]
         /\ Gladiators' \subseteq Gladiators
         /\ started' \in BOOLEAN
         /\ timeLeft' \in 0 .. JoinTicks
         /\ betCounter' \in 0 .. BetTicks
         /\ playing' \in Int
         /\ rivals' \subseteq Persons /\ astray' = astray
<1>1. Out({p}, started /\ playing = 2 /\ timeLeft = 0)
  BY DEF OneOut
<1>2. playing' \in Int
  BY DEF OneOut, ArenaTypeOK
<1>3. QED
  BY <1>1, <1>2, OutTypes

\* With the bets as they were, fewer gladiators keep to their own bets.
LEMMA FewerKeep ==
  ASSUME OwnBet, Gladiators' \subseteq Gladiators, UNCHANGED bets
  PROVE  OwnBet'
  BY DEF OwnBet, bets

LEMMA BeginKeeps ==
  ASSUME ArenaTypeOK, Begin
  PROVE  /\ glad' \in [Persons -> {"no", "staging", "arena"}]
         /\ timer' \in [Persons -> 0 .. IdleTicks]
         /\ Gladiators' = Gladiators
<1>1. IdleTicks \in 0 .. IdleTicks
  BY ArenaAssumption
<1>2. QED
  BY <1>1 DEF Begin, ArenaTypeOK, Gladiators

-----------------------------------------------------------------------------
(***************************************************************************)
(* One lemma per group of actions.                                         *)
(***************************************************************************)
LEMMA ImmortalIInv == ArenaIInv /\ Immortal => ArenaIInv'
<1> SUFFICES ASSUME ArenaIInv, Immortal PROVE ArenaIInv'
  OBVIOUS
<1> USE DEF ArenaIInv, history
<1>1. CASE Start
  <2>1. ArenaTypeOK'
    BY <1>1, Bounds, WithoutType DEF Start, ArenaTypeOK
  <2>2. ASSUME NEW p \in Gladiators' PROVE p \notin Here /\ p \in Gladiators
    BY <1>1, <2>2 DEF Start, Gladiators, Without
  <2>3. OwnBet'
    BY <1>1, <2>2 DEF Start, OwnBet, Gladiators, ArenaTypeOK
  <2>4. QED
    BY <2>1, <2>3
<1>2. CASE EndVictor
  <2>1. Gladiators' \subseteq Gladiators
    BY <1>2 DEF EndVictor, Gladiators, Without
  <2>2. OwnBet'
    BY <1>2, <2>1, FewerKeep DEF EndVictor
  <2>3. ArenaTypeOK'
    BY <1>2, Bounds, WithoutType DEF EndVictor, ArenaTypeOK, Over, bets
  <2>4. QED
    BY <2>2, <2>3
<1>3. CASE EndNone
  <2>1. Gladiators' \subseteq Gladiators
    BY <1>3 DEF EndNone, Gladiators, Without
  <2>2. OwnBet'
    BY <1>3, <2>1 DEF EndNone, OwnBet, Gladiators, ArenaTypeOK
  <2>3. ArenaTypeOK'
    <3>1. on' \in [Persons -> Persons \cup {Nobody}]
      BY <1>3 DEF EndNone, ArenaTypeOK
    <3>2. /\ glad' \in [Persons -> {"no", "staging", "arena"}]
      BY <1>3, WithoutType DEF EndNone
    <3>3. QED
      BY <1>3, <3>1, <3>2, Bounds DEF EndNone, ArenaTypeOK, Over
  <2>4. QED
    BY <2>2, <2>3
<1>4. CASE SkipBet
  <2>1. /\ glad' \in [Persons -> {"no", "staging", "arena"}]
        /\ timer' \in [Persons -> 0 .. IdleTicks]
        /\ Gladiators' = Gladiators
    BY <1>4, BeginKeeps DEF SkipBet
  <2>2. OwnBet'
    BY <1>4, <2>1, FewerKeep DEF SkipBet
  <2>3. ArenaTypeOK'
    BY <1>4, <2>1, ArenaAssumption DEF SkipBet, ArenaTypeOK, bets
  <2>4. QED
    BY <2>2, <2>3
<1>5. ASSUME NEW p \in Persons, RemoveGladiator(p) PROVE ArenaIInv'
  <2>1. OneOut(p) /\ UNCHANGED <<link, timer, bets>>
    BY <1>5 DEF RemoveGladiator
  <2>2. OwnBet'
    BY <2>1, OneOutTypes, FewerKeep
  <2>3. ArenaTypeOK'
    BY <2>1, OneOutTypes DEF ArenaTypeOK, bets
  <2>4. QED
    BY <2>2, <2>3
<1>6. QED
  BY <1>1, <1>2, <1>3, <1>4, <1>5 DEF Immortal

\* do_quit and do_purge take the bets of and on the one who goes along.
LEMMA GoneIInv ==
  ASSUME ArenaIInv, NEW p \in Persons, NEW R, Gone(p, R),
         Gladiators' \subseteq Gladiators \ {p}
  PROVE  /\ link' \in [Persons -> {"out", "here", "linkdead"}]
         /\ timer' \in [Persons -> 0 .. IdleTicks]
         /\ stake' \in [Persons -> Amounts \cup {0}]
         /\ on' \in [Persons -> Persons \cup {Nobody}]
         /\ OwnBet'
<1>1. 0 \in 0 .. IdleTicks
  BY ArenaAssumption
<1>2. OwnBet'
  BY DEF ArenaIInv, ArenaTypeOK, OwnBet, Gladiators, Gone
<1>3. QED
  BY <1>1, <1>2 DEF ArenaIInv, ArenaTypeOK, Gone

LEMMA PlayerIInv == \A p \in Persons : ArenaIInv /\ Player(p) => ArenaIInv'
<1> SUFFICES ASSUME NEW p \in Persons, ArenaIInv, Player(p) PROVE ArenaIInv'
  OBVIOUS
<1> USE DEF ArenaIInv, history
<1>1. CASE Join(p)
  <2>1. ArenaTypeOK'
    BY <1>1 DEF Join, ArenaTypeOK, bets, event
  <2>2. OwnBet'
    BY <1>1 DEF Join, OwnBet, Gladiators, ArenaTypeOK, bets
  <2>3. QED
    BY <2>1, <2>2
<1>2. CASE ClearBet(p)
  BY <1>2, ArenaAssumption DEF ClearBet, ArenaTypeOK, OwnBet, Gladiators, event
<1>3. CASE Attack(p)
  BY <1>3, ArenaAssumption DEF Attack, ArenaTypeOK, OwnBet, Gladiators, event, bets
<1>4. ASSUME NEW v \in Persons, NEW n \in Amounts, Bet(p, v, n) PROVE ArenaIInv'
  BY <1>4 DEF Bet, ArenaTypeOK, OwnBet, Gladiators, event
<1>5. ASSUME NEW v \in Persons, Kill(v, p) PROVE ArenaIInv'
  <2>1. Out({v}, playing = 2) /\ UNCHANGED <<link, timer, bets>>
    BY <1>5 DEF Kill
  <2>2. playing' \in Int
    BY <1>5 DEF Kill, ArenaTypeOK
  <2>3. OwnBet'
    BY <2>1, OutTypes, FewerKeep
  <2>4. ArenaTypeOK'
    BY <2>1, <2>2, OutTypes DEF ArenaTypeOK, bets
  <2>5. QED
    BY <2>3, <2>4
<1>6. CASE Login(p) \/ HangUp(p) \/ Reconnect(p)
  BY <1>6 DEF Login, HangUp, Reconnect, ArenaTypeOK, OwnBet, Gladiators, event, bets
<1>7. CASE Void(p)
  <2>1. OneOut(p) /\ UNCHANGED <<link, timer, bets>>
    BY <1>7 DEF Void
  <2>2. OwnBet'
    BY <2>1, OneOutTypes, FewerKeep
  <2>3. ArenaTypeOK'
    BY <2>1, OneOutTypes DEF ArenaTypeOK, bets
  <2>4. QED
    BY <2>2, <2>3
<1>8. CASE Leave(p)
  <2>1. Gone(p, Refunded(p))
    BY <1>8 DEF Leave
  <2>2. /\ Gladiators' \subseteq Gladiators \ {p}
        /\ glad' \in [Persons -> {"no", "staging", "arena"}]
        /\ started' \in BOOLEAN
        /\ timeLeft' \in 0 .. JoinTicks
        /\ betCounter' \in 0 .. BetTicks
        /\ playing' \in Int
        /\ rivals' \subseteq Persons /\ astray' = astray
    <3>1. CASE p \in Gladiators
      <4>1. OneOut(p)
        BY <1>8, <3>1 DEF Leave
      <4>2. glad'[p] = "no"
        BY <4>1 DEF OneOut, Out, Without
      <4>3. QED
        BY <4>1, <4>2, OneOutTypes DEF Gladiators
    <3>2. CASE p \notin Gladiators
      BY <1>8, <3>2 DEF Leave, ArenaTypeOK, Gladiators, event
    <3>3. QED
      BY <3>1, <3>2
  <2>3. QED
    BY <2>1, <2>2, GoneIInv DEF ArenaTypeOK
<1>9. CASE Purge(p)
  <2>1. Gone(p, {}) /\ glad' = Without({p}) /\ UNCHANGED <<event, playing, rivals>>
        /\ astray' \in BOOLEAN
    BY <1>9 DEF Purge
  <2>2. Gladiators' \subseteq Gladiators \ {p}
    BY <2>1 DEF Gladiators, Without
  <2>3. glad' \in [Persons -> {"no", "staging", "arena"}]
    BY <2>1 DEF Without, ArenaTypeOK
  <2>4. QED
    BY <2>1, <2>2, <2>3, GoneIInv DEF ArenaTypeOK, event
<1>10. QED
  BY <1>1, <1>2, <1>3, <1>4, <1>5, <1>6, <1>7, <1>8, <1>9 DEF Player

LEMMA CountdownIInv == ArenaIInv /\ Countdown => ArenaIInv'
<1> SUFFICES ASSUME ArenaIInv, Countdown PROVE ArenaIInv'
  OBVIOUS
<1> USE DEF ArenaIInv, history
<1>1. /\ timeLeft' \in 0 .. JoinTicks
      /\ UNCHANGED <<link, bets, history>>
  BY ArenaAssumption DEF Countdown, TimeLeft, ArenaTypeOK
<1>2. /\ Gladiators' \subseteq Gladiators
      /\ glad' \in [Persons -> {"no", "staging", "arena"}]
      /\ timer' \in [Persons -> 0 .. IdleTicks]
      /\ started' \in BOOLEAN
      /\ betCounter' \in 0 .. BetTicks
      /\ playing' \in Int
  <2>1. CASE timeLeft > 1 /\ UNCHANGED <<started, betCounter, playing, glad, timer>>
    BY <2>1 DEF ArenaTypeOK, Gladiators
  <2>2. CASE /\ started' = FALSE /\ betCounter' = 0 /\ playing' = 0
             /\ glad' = Without(Here)
             /\ UNCHANGED timer
    BY <2>2, Bounds DEF ArenaTypeOK, Gladiators, Without
  <2>3. CASE /\ betCounter' = BetLeft
             /\ IF betCounter' = 0 THEN Begin ELSE UNCHANGED <<glad, timer>>
             /\ UNCHANGED <<started, playing>>
    <3>1. betCounter' \in 0 .. BetTicks
      BY <2>3, ArenaAssumption DEF Countdown, BetLeft, ArenaTypeOK
    <3>2. CASE betCounter' = 0
      BY <2>3, <3>1, <3>2, BeginKeeps DEF ArenaTypeOK
    <3>3. CASE betCounter' # 0
      BY <2>3, <3>1, <3>3 DEF ArenaTypeOK, Gladiators
    <3>4. QED
      BY <3>2, <3>3
  <2>4. QED
    BY <2>1, <2>2, <2>3 DEF Countdown
<1>3. OwnBet'
  BY <1>1, <1>2, FewerKeep
<1>4. QED
  BY <1>1, <1>2, <1>3 DEF ArenaTypeOK, bets

LEMMA UpdateIInv == ArenaIInv /\ SingleUpdate => ArenaIInv'
<1> SUFFICES ASSUME ArenaIInv, SingleUpdate PROVE ArenaIInv'
  OBVIOUS
<1> USE DEF ArenaIInv, history
<1>1. PICK E \in SUBSET Expiring :
        /\ \E F \in SUBSET E :
             /\ Out(F, timeLeft = 0 /\ playing >= 2 /\ Cardinality(E) >= playing - 1)
             /\ playing' = IF started' THEN playing - Cardinality(F) ELSE -1
        /\ timer' = [p \in Persons |->
                       IF p \in Expiring \ E THEN IdleTicks
                       ELSE IF p \in Gladiators \cap Here /\ timer[p] > 0
                       THEN timer[p] - 1 ELSE timer[p]]
  BY DEF SingleUpdate
<1>2. PICK F \in SUBSET E :
        /\ Out(F, timeLeft = 0 /\ playing >= 2 /\ Cardinality(E) >= playing - 1)
        /\ playing' = IF started' THEN playing - Cardinality(F) ELSE -1
  BY <1>1
<1>3. Cardinality(F) \in Nat
  <2>1. F \subseteq Persons
    BY DEF Expiring, Gladiators
  <2>2. QED
    BY <2>1, ArenaAssumption, FS_Subset, FS_CardinalityType
<1>4. playing' \in Int
  BY <1>2, <1>3 DEF ArenaTypeOK
<1>5. timer' \in [Persons -> 0 .. IdleTicks]
  BY <1>1, ArenaAssumption DEF ArenaTypeOK
<1>6. UNCHANGED <<link, bets>>
  BY DEF SingleUpdate
<1>7. OwnBet'
  BY <1>2, <1>6, OutTypes, FewerKeep
<1>8. ArenaTypeOK'
  BY <1>2, <1>4, <1>5, <1>6, OutTypes DEF ArenaTypeOK, bets
<1>9. QED
  BY <1>7, <1>8

LEMMA ArenaNextIInv == ArenaIInv /\ [ArenaNext]_arenaVars => ArenaIInv'
<1> SUFFICES ASSUME ArenaIInv, [ArenaNext]_arenaVars PROVE ArenaIInv'
  OBVIOUS
<1>1. CASE ArenaNext
  BY <1>1, ImmortalIInv, PlayerIInv, CountdownIInv, UpdateIInv DEF ArenaNext
<1>2. CASE UNCHANGED arenaVars
  BY <1>2 DEF arenaVars, history, bets, event, ArenaIInv, ArenaTypeOK, OwnBet, Gladiators
<1>3. QED
  BY <1>1, <1>2

-----------------------------------------------------------------------------
\* Types and own bets together are kept by every command and tick.
THEOREM ArenaIInvAlways == ArenaSpec => []ArenaIInv
  BY ArenaInitIInv, ArenaNextIInv, PTL DEF ArenaSpec

\* Every variable of the arena keeps its type (timers and countdowns within
\* their bounds, whatever joins, kills, lost links and purges do).
THEOREM ArenaTypeCorrect == ArenaSpec => []ArenaTypeOK
<1>1. ArenaIInv => ArenaTypeOK
  BY DEF ArenaIInv
<1>2. QED
  BY <1>1, ArenaIInvAlways, PTL

\* Nobody who can fight in an event holds a stake on somebody else (the checks
\* of do_gladiator and do_gbet), however many players and events there are.
THEOREM OwnBets == ArenaSpec => []OwnBet
<1>1. ArenaIInv => OwnBet
  BY DEF ArenaIInv
<1>2. QED
  BY <1>1, ArenaIInvAlways, PTL
-----------------------------------------------------------------------------
(***************************************************************************)
(* The count of an event and the bits.                                     *)
(***************************************************************************)
LEMMA GladiatorsFinite ==
  /\ IsFiniteSet(Gladiators)
  /\ \A R \in SUBSET Gladiators :
       /\ IsFiniteSet(R) /\ Cardinality(R) \in Nat
       /\ Cardinality(Gladiators \ R) = Cardinality(Gladiators) - Cardinality(R)
<1>1. IsFiniteSet(Gladiators)
  BY ArenaAssumption, FS_Subset DEF Gladiators
<1>2. ASSUME NEW R \in SUBSET Gladiators
      PROVE  /\ IsFiniteSet(R) /\ Cardinality(R) \in Nat
             /\ Cardinality(Gladiators \ R) = Cardinality(Gladiators) - Cardinality(R)
  <2>1. IsFiniteSet(R) /\ Cardinality(R) \in Nat
    BY <1>1, FS_Subset, FS_CardinalityType
  <2>2. Gladiators \cap R = R
    OBVIOUS
  <2>3. QED  BY <1>1, <2>1, <2>2, FS_Difference
<1>3. QED  BY <1>1, <1>2

\* What a step must do: keep the count, and declare only the last one a winner.
CountStep == CountRight' /\ (started /\ ~astray => rivals' = rivals)

\* Whoever leaves, the bits go down by as many, or the event is over.
LEMMA OutCounts ==
  ASSUME CountRight, ArenaTypeOK, NEW R \in SUBSET Gladiators, NEW last, Out(R, last)
  PROVE  /\ astray' = astray
         /\ started' => /\ started
                        /\ Cardinality(Gladiators') = Cardinality(Gladiators) - Cardinality(R)
<1> DEFINE G == (Gladiators \cap Here) \ R
<1>1. CASE Over
  BY <1>1 DEF Over, Out
<1>2. CASE glad' = Without(R) /\ UNCHANGED <<event, rivals>> /\ astray' = astray
  <2>1. Gladiators' = Gladiators \ R
    BY <1>2 DEF Without, Gladiators
  <2>2. QED  BY <1>2, <2>1, GladiatorsFinite DEF event
<1>3. QED  BY <1>1, <1>2 DEF Out

\* The first of one gladiator that is left has no rivals.
LEMMA OutWinner ==
  ASSUME ArenaTypeOK, NEW R \in SUBSET Gladiators, NEW last, Out(R, last),
         last => Cardinality(Gladiators \ R) = 1
  PROVE  rivals' = rivals
<1> DEFINE G == (Gladiators \cap Here) \ R
<1>1. CASE last /\ \E w \in G : rivals' = rivals \cup (G \ {w})
  <2>1. PICK w \in G : rivals' = rivals \cup (G \ {w})
    BY <1>1
  <2>2. IsFiniteSet(Gladiators \ R) /\ Cardinality(Gladiators \ R) = 1
    BY <1>1, GladiatorsFinite, FS_Subset
  <2>3. PICK x : Gladiators \ R = {x}
    BY <2>2, FS_Singleton
  <2>4. G \ {w} = {}
    BY <2>3
  <2>5. QED  BY <2>1, <2>4
<1>2. CASE UNCHANGED <<event, rivals>>
  BY <1>2
<1>3. QED  BY <1>1, <1>2 DEF Out

LEMMA OneOutCounts ==
  ASSUME CountRight, ArenaTypeOK, NEW p \in Gladiators, OneOut(p)
  PROVE  CountStep
<1>1. {p} \in SUBSET Gladiators /\ Cardinality({p}) = 1
  BY FS_Singleton
<1>2. Out({p}, started /\ playing = 2 /\ timeLeft = 0)
  BY DEF OneOut
<1>3. /\ astray' = astray
      /\ started' => /\ started
                     /\ Cardinality(Gladiators') = Cardinality(Gladiators) - 1
  BY <1>1, <1>2, OutCounts
<1>4. started' => playing' = playing - 1
  BY DEF OneOut
<1>5. CountRight'
  BY <1>3, <1>4 DEF CountRight
<1>6. ASSUME started, ~astray PROVE rivals' = rivals
  <2>1. playing = 2 => Cardinality(Gladiators \ {p}) = 1
    BY <1>1, <1>6, GladiatorsFinite DEF CountRight
  <2>2. QED  BY <1>1, <1>2, <2>1, OutWinner
<1>7. QED  BY <1>5, <1>6 DEF CountStep

LEMMA KillCounts ==
  ASSUME CountRight, ArenaTypeOK, NEW v \in Persons, NEW k, Kill(v, k)
  PROVE  CountStep
<1>1. v \in Gladiators /\ Out({v}, playing = 2)
  BY DEF Kill, Gladiators
<1>2. {v} \in SUBSET Gladiators /\ Cardinality({v}) = 1
  BY <1>1, FS_Singleton
<1>3. /\ astray' = astray
      /\ started' => /\ started
                     /\ Cardinality(Gladiators') = Cardinality(Gladiators) - 1
  BY <1>1, <1>2, OutCounts
<1>4. started' => playing' = playing - 1
  BY DEF Kill
<1>5. CountRight'
  BY <1>3, <1>4 DEF CountRight
<1>6. ASSUME started, ~astray PROVE rivals' = rivals
  <2>1. playing = 2 => Cardinality(Gladiators \ {v}) = 1
    BY <1>2, <1>6, GladiatorsFinite DEF CountRight
  <2>2. QED  BY <1>1, <1>2, <2>1, OutWinner
<1>7. QED  BY <1>5, <1>6 DEF CountStep

LEMMA UpdateCounts ==
  ASSUME CountRight, ArenaTypeOK, SingleUpdate
  PROVE  CountStep
<1> DEFINE Ending(E) == timeLeft = 0 /\ playing >= 2 /\ Cardinality(E) >= playing - 1
           Step(E, F) == /\ IF Ending(E) THEN Cardinality(F) = playing - 1 ELSE F = E
                         /\ Out(F, Ending(E))
                         /\ playing' = IF started' THEN playing - Cardinality(F) ELSE -1
<1>0. PICK E \in SUBSET Expiring : \E F \in SUBSET E : Step(E, F)
  BY DEF SingleUpdate
<1>1. PICK F \in SUBSET E : Step(E, F)
  BY <1>0
<1>2. PICK last : /\ last => Cardinality(F) = playing - 1
                  /\ Out(F, last)
  BY <1>1
<1>3. F \in SUBSET Gladiators
  BY DEF Expiring
<1>4. /\ astray' = astray
      /\ started' => /\ started
                     /\ Cardinality(Gladiators') = Cardinality(Gladiators) - Cardinality(F)
  BY <1>2, <1>3, OutCounts
<1>5. CountRight'
  BY <1>1, <1>4 DEF CountRight
<1>6. ASSUME started, ~astray PROVE rivals' = rivals
  <2>1. ASSUME last PROVE Cardinality(Gladiators \ F) = 1
    <3>1. Cardinality(F) = playing - 1 /\ playing = Cardinality(Gladiators)
      BY <1>2, <1>6, <2>1 DEF CountRight
    <3>2. /\ Cardinality(Gladiators \ F) = Cardinality(Gladiators) - Cardinality(F)
          /\ playing \in Int
      BY <1>3, GladiatorsFinite DEF ArenaTypeOK
    <3>3. QED  BY <3>1, <3>2
  <2>2. QED  BY <1>2, <1>3, <2>1, OutWinner
<1>7. QED  BY <1>5, <1>6 DEF CountStep

\* The other steps change the bits and the count together, or end the event.
LEMMA QuietCounts ==
  ASSUME CountRight, Gladiators' = Gladiators, UNCHANGED <<started, playing, history>>
  PROVE  CountStep
BY DEF CountRight, CountStep, history

LEMMA StartCounts ==
  ASSUME Start
  PROVE  CountStep
<1>1. Gladiators' = Gladiators \ Here
  BY DEF Start, Without, Gladiators
<1>2. ~astray' => Gladiators' = {}
  BY <1>1 DEF Start
<1>3. CountRight'
  BY <1>2, FS_EmptySet DEF Start, CountRight
<1>4. QED  BY <1>3 DEF Start, CountStep

LEMMA JoinCounts ==
  ASSUME CountRight, ArenaTypeOK, NEW p \in Persons, Join(p)
  PROVE  CountStep
<1>1. Gladiators' = Gladiators \cup {p} /\ p \notin Gladiators
  BY DEF Join, Gladiators, ArenaTypeOK
<1>2. Cardinality(Gladiators') = Cardinality(Gladiators) + 1
  BY <1>1, GladiatorsFinite, FS_AddElement
<1>3. QED  BY <1>2 DEF Join, CountRight, CountStep, event, history

LEMMA PurgeCounts ==
  ASSUME CountRight, NEW p \in Persons, Purge(p)
  PROVE  CountStep
<1>1. CASE p \in Gladiators
  BY <1>1 DEF Purge, CountRight, CountStep
<1>2. CASE p \notin Gladiators
  <2>1. Gladiators' = Gladiators
    BY <1>2 DEF Purge, Without, Gladiators
  <2>2. QED  BY <1>2, <2>1 DEF Purge, CountRight, CountStep, event
<1>3. QED  BY <1>1, <1>2

LEMMA CountdownCounts ==
  ASSUME CountRight, Countdown
  PROVE  CountStep
<1>1. rivals' = rivals /\ astray' = astray
  BY DEF Countdown, history
<1>2. CASE ~started'
  BY <1>1, <1>2 DEF CountRight, CountStep
<1>3. CASE UNCHANGED <<started, playing, glad>>
  BY <1>1, <1>3 DEF CountRight, CountStep, Gladiators
<1>4. CASE Begin /\ UNCHANGED <<started, playing>>
  <2>1. Gladiators' = Gladiators
    BY <1>4 DEF Begin, Gladiators
  <2>2. QED  BY <1>1, <1>4, <2>1 DEF CountRight, CountStep
<1>5. QED  BY <1>2, <1>3, <1>4 DEF Countdown

LEMMA LeaveCounts ==
  ASSUME CountRight, ArenaTypeOK, NEW p \in Persons, Leave(p)
  PROVE  CountStep
<1>1. CASE p \in Gladiators
  BY <1>1, OneOutCounts DEF Leave
<1>2. CASE p \notin Gladiators
  BY <1>2, QuietCounts DEF Leave, Gladiators, event, history
<1>3. QED  BY <1>1, <1>2

LEMMA PlayerCounts ==
  ASSUME CountRight, ArenaTypeOK, NEW p \in Persons, Player(p)
  PROVE  CountStep
<1>1. CASE Join(p)
  BY <1>1, JoinCounts
<1>2. CASE \/ ClearBet(p) \/ Attack(p) \/ Login(p) \/ HangUp(p) \/ Reconnect(p)
           \/ \E v \in Persons, n \in Amounts : Bet(p, v, n)
  <2>1. Gladiators' = Gladiators /\ UNCHANGED <<started, playing, history>>
    BY <1>2 DEF ClearBet, Attack, Login, HangUp, Reconnect, Bet, Gladiators, event
  <2>2. QED  BY <2>1, QuietCounts
<1>3. CASE \E v \in Persons : Kill(v, p)
  BY <1>3, KillCounts
<1>4. CASE Void(p)
  BY <1>4, OneOutCounts DEF Void
<1>5. CASE Leave(p)
  BY <1>5, LeaveCounts
<1>6. CASE Purge(p)
  BY <1>6, PurgeCounts
<1>7. QED  BY <1>1, <1>2, <1>3, <1>4, <1>5, <1>6 DEF Player

LEMMA ImmortalCounts ==
  ASSUME CountRight, ArenaTypeOK, Immortal
  PROVE  CountStep
<1>1. CASE Start
  BY <1>1, StartCounts
<1>2. CASE EndVictor \/ EndNone
  BY <1>2 DEF EndVictor, EndNone, Over, CountRight, CountStep, history
<1>3. CASE SkipBet
  <2>1. Gladiators' = Gladiators
    BY <1>3 DEF SkipBet, Begin, Gladiators
  <2>2. QED  BY <1>3, <2>1, QuietCounts DEF SkipBet
<1>4. CASE \E p \in Persons : RemoveGladiator(p)
  BY <1>4, OneOutCounts DEF RemoveGladiator
<1>5. QED  BY <1>1, <1>2, <1>3, <1>4 DEF Immortal

LEMMA CountNext ==
  ASSUME CountRight, ArenaTypeOK, [ArenaNext]_arenaVars
  PROVE  CountStep
<1>1. CASE UNCHANGED arenaVars
  BY <1>1, QuietCounts DEF arenaVars, event, Gladiators
<1>2. CASE ArenaNext
  BY <1>2, ImmortalCounts, PlayerCounts, CountdownCounts, UpdateCounts DEF ArenaNext
<1>3. QED  BY <1>1, <1>2

\* In an event that began with no gladiator left over and of which none has been
\* purged, the count is the number of those with the bit (do_gladiator,
\* remove_gladiator, gladiator_left_arena, gladiator_kill), for any number of
\* players and any lengths of the countdowns.
THEOREM CountsAgree == ArenaSpec => []CountRight
<1>1. ArenaInit => CountRight
  BY DEF ArenaInit, CountRight
<1>2. CountRight /\ ArenaTypeOK /\ [ArenaNext]_arenaVars => CountRight'
  BY CountNext DEF CountStep
<1>3. QED  BY <1>1, <1>2, ArenaTypeCorrect, PTL DEF ArenaSpec

\* In such an event nobody is declared the winner while another gladiator who
\* is connected could still fight (gladiator_kill, remove_gladiator,
\* gladiator_left_arena and single_update, which go by the count).
THEOREM WinnersAreLast == ArenaSpec => WinnerIsLast
<1>1. /\ CountRight /\ ArenaTypeOK /\ [ArenaNext]_arenaVars
      => [started /\ ~astray => rivals' = rivals]_arenaVars
  BY CountNext DEF CountStep
<1>2. QED  BY <1>1, CountsAgree, ArenaTypeCorrect, PTL DEF ArenaSpec, WinnerIsLast
=============================================================================
