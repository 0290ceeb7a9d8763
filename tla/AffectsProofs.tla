--------------------------- MODULE AffectsProofs ---------------------------
(***************************************************************************)
(* Proofs about the affects of module Affects, for any spells, items and   *)
(* vectors, lists of affects of any length and any needs of strength.      *)
(*                                                                         *)
(* Off says by how much a total differs from the sum over what is worn and *)
(* cast.  In the middle of an action it is not 0: an item is in its place, *)
(* or out of it, before the loop has added or taken off its affects.  So   *)
(* each step is shown to Turn a state into one that is off by so much more *)
(* and in which such bits are missing; a whole loop makes up for what      *)
(* putting the item there did (TakeOffRight, EquipRight), and what falls   *)
(* down in the middle of it is Steady: it leaves the difference as it was, *)
(* whatever that was.  Loops are first shown to be right while a weapon    *)
(* falls, when nothing falls any more, and from that always.               *)
(***************************************************************************)
EXTENDS Affects, SumTheorems, SequenceTheorems

Places == {"lost", "none", "wield", "second", "body"}

\* The part of the state that the loops change.
States == [mods : [Totals -> Int], bits : SUBSET Vectors,
           spells : [Spells -> Seq(AffectData)], worn : [Items -> Places]]

\* Each place holds one item, of its kind.
Placed(s) ==
  \A i \in Items : s.worn[i] \in {"wield", "second", "body"} =>
    /\ Fits[i] = IF s.worn[i] = "body" THEN "body" ELSE "wield"
    /\ \A j \in Items \ {i} : s.worn[j] # s.worn[i]

LaidOK == laid \in [Items -> Seq(AffectData)]

LEMMA StatesAre ==
  ASSUME NEW s \in States
  PROVE  /\ s.mods \in [Totals -> Int] /\ s.bits \subseteq Vectors
         /\ s.spells \in [Spells -> Seq(AffectData)] /\ s.worn \in [Items -> Places]
         /\ s = [mods |-> s.mods, bits |-> s.bits, spells |-> s.spells, worn |-> s.worn]
BY DEF States

LEMMA PlaceIs ==
  ASSUME NEW s \in States, NEW i \in Items, NEW loc \in Places
  PROVE  /\ Place(s, i, loc) \in States
         /\ Place(s, i, loc).mods = s.mods /\ Place(s, i, loc).bits = s.bits
         /\ Place(s, i, loc).spells = s.spells
         /\ Place(s, i, loc).worn = [s.worn EXCEPT ![i] = loc]
BY DEF Place, States

LEMMA ListIs ==
  ASSUME NEW s \in States, NEW t \in Spells, NEW affs \in Seq(AffectData)
  PROVE  /\ List(s, t, affs) \in States
         /\ List(s, t, affs).mods = s.mods /\ List(s, t, affs).bits = s.bits
         /\ List(s, t, affs).worn = s.worn
         /\ List(s, t, affs).spells = [s.spells EXCEPT ![t] = affs]
BY DEF List, States

LEMMA PartInt ==
  ASSUME NEW a \in AffectData, NEW app, NEW f
  PROVE  Part(a, app, f) \in Int
BY DEF Part, AffectData

\* What affect_modify makes of the bits.
BitsAfter(s, a, sign) ==
  IF sign = 1 THEN s.bits \cup ({a.bit} \ {None}) ELSE s.bits \ {a.bit}

LEMMA ModifyIs ==
  ASSUME NEW s \in States, NEW a \in AffectData, NEW sign \in {-1, 1}, NEW app
  PROVE  /\ Modify(s, a, sign, app) \in States
         /\ Modify(s, a, sign, app).spells = s.spells
         /\ Modify(s, a, sign, app).worn = s.worn
         /\ \A f \in Totals :
              Modify(s, a, sign, app).mods[f] = s.mods[f] + sign * Part(a, app, f)
         /\ Modify(s, a, sign, app).bits = BitsAfter(s, a, sign)
<1>1. PICK m : m = [f \in Totals |-> s.mods[f] + sign * Part(a, app, f)]
  OBVIOUS
<1>2. m \in [Totals -> Int]
  <2>1. \A f \in Totals : s.mods[f] \in Int /\ Part(a, app, f) \in Int
    BY PartInt DEF States
  <2>2. \A n \in Int : sign * n \in Int
    OBVIOUS
  <2>3. \A f \in Totals : s.mods[f] + sign * Part(a, app, f) \in Int
    BY <2>1, <2>2
  <2>4. QED  BY <1>1, <2>3
<1>3. PICK b : b = IF sign = 1 THEN s.bits \cup ({a.bit} \ {None}) ELSE s.bits \ {a.bit}
  OBVIOUS
<1>4. b \in SUBSET Vectors
  BY <1>3 DEF States, AffectData
<1>5. Modify(s, a, sign, app) = [mods |-> m, bits |-> b, spells |-> s.spells, worn |-> s.worn]
  BY <1>1, <1>3 DEF Modify
<1>6. QED  BY <1>1, <1>2, <1>3, <1>4, <1>5 DEF States, BitsAfter

\* Setting bits changes nothing else.
LEMMA SetBits ==
  ASSUME NEW s \in States, NEW B \in SUBSET Vectors,
         NEW u, u = [s EXCEPT !.bits = @ \cup B]
  PROVE  /\ u \in States /\ u.mods = s.mods /\ u.spells = s.spells /\ u.worn = s.worn
         /\ u.bits = s.bits \cup B
BY DEF States

-----------------------------------------------------------------------------
(***************************************************************************)
(* What lists of affects amount to.                                        *)
(***************************************************************************)
PartsOf(affs, app, f) == [k \in DOMAIN affs |-> Part(affs[k], app, f)]

\* The first k of a list.
UpTo(affs, k, app, f) == SumFunctionOnSet(PartsOf(affs, app, f), 1..k)

LEMMA PartsOfIs ==
  ASSUME NEW affs \in Seq(AffectData), NEW app, NEW f, NEW k \in 1..Len(affs)
  PROVE  affs[k] \in AffectData /\ PartsOf(affs, app, f)[k] = Part(affs[k], app, f)
         /\ PartsOf(affs, app, f)[k] \in Int
<1>1. affs[k] \in AffectData /\ k \in DOMAIN affs
  BY LenProperties, ElementOfSeq
<1>2. Part(affs[k], app, f) \in Int
  BY <1>1, PartInt
<1>3. QED  BY <1>1, <1>2 DEF PartsOf

LEMMA UpToInt ==
  ASSUME NEW affs \in Seq(AffectData), NEW app, NEW f, NEW k \in 0..Len(affs)
  PROVE  UpTo(affs, k, app, f) \in Int
<1>1. PICK F : F = PartsOf(affs, app, f)
  OBVIOUS
<1>2. PICK S : S = 1..k
  OBVIOUS
<1>3. IsFiniteSet(S) /\ S \subseteq 1..Len(affs)
  BY <1>2, FS_Interval, LenProperties
<1>4. \A x \in S : F[x] \in Int
  BY <1>1, <1>3, PartsOfIs
<1>5. QED  BY <1>1, <1>2, <1>3, <1>4, SumInt DEF UpTo

LEMMA UpToZero ==
  ASSUME NEW affs, NEW app, NEW f
  PROVE  UpTo(affs, 0, app, f) = 0
<1>1. 1..0 = {}
  OBVIOUS
<1>2. QED  BY <1>1, SumEmpty DEF UpTo

LEMMA UpToNext ==
  ASSUME NEW affs \in Seq(AffectData), NEW app, NEW f, NEW k \in 1..Len(affs)
  PROVE  UpTo(affs, k, app, f) = UpTo(affs, k - 1, app, f) + Part(affs[k], app, f)
<1>1. PICK F : F = PartsOf(affs, app, f)
  OBVIOUS
<1>2. k \in Nat \ {0} /\ \A j \in 1..k : F[j] \in Int
  <2>1. Len(affs) \in Nat
    BY LenProperties
  <2>2. 1..k \subseteq 1..Len(affs)
    BY <2>1
  <2>3. QED  BY <1>1, <2>1, <2>2, PartsOfIs
<1>3. SumFunctionOnSet(F, 1..k) = SumFunctionOnSet(F, 1..(k - 1)) + F[k]
  BY <1>2, SumNext
<1>4. F[k] = Part(affs[k], app, f)
  BY <1>1, PartsOfIs
<1>5. QED  BY <1>1, <1>3, <1>4 DEF UpTo

\* The sum of the model is that over the places of the list.
LEMMA AmountIs ==
  ASSUME NEW affs \in Seq(AffectData), NEW app, NEW f
  PROVE  /\ Amount(affs, app, f) = UpTo(affs, Len(affs), app, f)
         /\ Amount(affs, app, f) \in Int
<1>1. Len(affs) \in Nat /\ DOMAIN affs = 1..Len(affs) /\ DOMAIN PartsOf(affs, app, f) = DOMAIN affs
  BY LenProperties DEF PartsOf
<1>2. Amount(affs, app, f) = SumFunction(PartsOf(affs, app, f))
  BY DEF Amount, PartsOf
<1>3. Amount(affs, app, f) = UpTo(affs, Len(affs), app, f)
  BY <1>1, <1>2 DEF SumFunction, UpTo
<1>4. Len(affs) \in 0..Len(affs)
  BY <1>1
<1>5. QED  BY <1>3, <1>4, UpToInt

\* The first list is the second with one affect put in at place m.
PutIn(affs, bs, m) ==
  /\ affs \in Seq(AffectData) /\ bs \in Seq(AffectData)
  /\ Len(affs) = Len(bs) + 1 /\ m \in 1..Len(affs)
  /\ \A k \in 1..Len(bs) : bs[k] = affs[Behind(m, k)]

\* A list amounts to so much more as the affect put in.
LEMMA AmountInsert ==
  ASSUME NEW affs, NEW bs, NEW m, PutIn(affs, bs, m), NEW app, NEW f
  PROVE  Amount(affs, app, f) = Amount(bs, app, f) + Part(affs[m], app, f)
<1>1. PICK F : F = PartsOf(bs, app, f)
  OBVIOUS
<1>2. PICK G : G = PartsOf(affs, app, f)
  OBVIOUS
<1>3. PICK n : n = Len(bs)
  OBVIOUS
<1>4. n \in Nat /\ m \in 1..(n + 1) /\ Len(affs) = n + 1
  BY <1>3, LenProperties DEF PutIn
<1>5. \A k \in 1..(n + 1) : G[k] \in Int /\ G[k] = Part(affs[k], app, f)
  BY <1>2, <1>4, PartsOfIs DEF PutIn
<1>6. \A k \in 1..n : F[k] = Part(bs[k], app, f)
  BY <1>1, <1>3, PartsOfIs DEF PutIn
<1>7. \A k \in 1..n : Behind(m, k) \in 1..(n + 1) /\ bs[k] = affs[Behind(m, k)]
  BY <1>3, <1>4 DEF PutIn, Behind
<1>8. \A k \in 1..n : F[k] = G[Behind(m, k)]
  BY <1>5, <1>6, <1>7
<1>9. SumFunctionOnSet(G, 1..(n + 1)) = SumFunctionOnSet(F, 1..n) + G[m]
  <2>1. n \in Nat /\ m \in 1..(n + 1)
    BY <1>4
  <2>2. \A k \in 1..(n + 1) : G[k] \in Int
    BY <1>5
  <2>3. QED  BY <2>1, <2>2, <1>8, SumInsert
<1>10. /\ Amount(affs, app, f) = SumFunctionOnSet(G, 1..(n + 1))
       /\ Amount(bs, app, f) = SumFunctionOnSet(F, 1..n)
  BY <1>1, <1>2, <1>3, <1>4, AmountIs DEF PutIn, UpTo
<1>11. QED  BY <1>4, <1>5, <1>9, <1>10

\* An affect before the others, or behind some that stay.
LEMMA PutInFront ==
  ASSUME NEW ns \in Seq(AffectData), NEW affs \in Seq(AffectData), NEW a \in AffectData
  PROVE  /\ <<a>> \o affs \in Seq(AffectData)
         /\ PutIn(<<a>> \o affs, affs, 1) /\ (<<a>> \o affs)[1] = a
         /\ PutIn(ns \o (<<a>> \o affs), ns \o affs, Len(ns) + 1)
         /\ (ns \o (<<a>> \o affs))[Len(ns) + 1] = a
<1>1. PICK S : S = AffectData
  OBVIOUS
<1>2. ns \in Seq(S) /\ affs \in Seq(S) /\ a \in S
  BY <1>1
<1>3. PICK cs : cs = <<a>> \o affs
  OBVIOUS
<1>4. /\ cs \in Seq(S) /\ Len(cs) = Len(affs) + 1 /\ cs[1] = a
      /\ \A k \in 1..Len(affs) : cs[k + 1] = affs[k]
  BY <1>2, <1>3
<1>5. PutIn(cs, affs, 1)
  BY <1>1, <1>2, <1>4 DEF PutIn, Behind
<1>6. PICK bs : bs = ns \o affs
  OBVIOUS
<1>7. PICK ds : ds = ns \o cs
  OBVIOUS
<1>8. /\ bs \in Seq(S) /\ ds \in Seq(S)
      /\ Len(bs) = Len(ns) + Len(affs) /\ Len(ds) = Len(bs) + 1
      /\ \A k \in 1..Len(bs) : bs[k] = IF k <= Len(ns) THEN ns[k] ELSE affs[k - Len(ns)]
      /\ \A k \in 1..Len(ds) : ds[k] = IF k <= Len(ns) THEN ns[k] ELSE cs[k - Len(ns)]
  BY <1>2, <1>4, <1>6, <1>7
<1>9. Len(ns) + 1 \in 1..Len(ds) /\ ds[Len(ns) + 1] = a
  BY <1>2, <1>4, <1>8
<1>10. ASSUME NEW k \in 1..Len(bs)
       PROVE  bs[k] = ds[Behind(Len(ns) + 1, k)]
  <2>1. CASE k <= Len(ns)
    BY <2>1, <1>2, <1>8, <1>10 DEF Behind
  <2>2. CASE ~(k <= Len(ns))
    <3>1. Behind(Len(ns) + 1, k) = k + 1 /\ k + 1 \in 1..Len(ds) /\ k - Len(ns) \in 1..Len(affs)
      BY <2>2, <1>2, <1>8, <1>10 DEF Behind
    <3>2. ds[k + 1] = cs[(k - Len(ns)) + 1]
      BY <3>1, <2>2, <1>2, <1>8, <1>10
    <3>3. QED  BY <3>1, <3>2, <2>2, <1>4, <1>8, <1>10
  <2>3. QED  BY <2>1, <2>2
<1>11. PutIn(ds, bs, Len(ns) + 1)
  BY <1>1, <1>8, <1>9, <1>10 DEF PutIn
<1>12. QED  BY <1>1, <1>3, <1>4, <1>5, <1>6, <1>7, <1>9, <1>11
-----------------------------------------------------------------------------
(***************************************************************************)
(* What the totals should be, and how far they are off.                    *)
(***************************************************************************)
\* What an item adds, in a place.
Due(affs, loc, f) == IF loc \in {"none", "lost"} THEN 0 ELSE Amount(affs, App(loc), f)

\* What is worn adds up to, and what is cast.
WornSum(on, w, f) == SumFunctionOnSet([i \in Items |-> Due(on[i], w[i], f)], Items)
SpellSum(sp, f) == SumFunctionOnSet([t \in Spells |-> Amount(sp[t], "both", f)], Spells)

\* What each item does, and how far a total is off.
Ons == [i \in Items |-> On(i)]

Off(s, f) == s.mods[f] - (WornSum(Ons, s.worn, f) + SpellSum(s.spells, f))

Lists == [Items -> Seq(AffectData)]

LEMMA OnsOK ==
  ASSUME LaidOK
  PROVE  Ons \in Lists /\ \A i \in Items : On(i) \in Seq(AffectData) /\ Ons[i] = On(i)
<1>1. ASSUME NEW i \in Items
      PROVE  On(i) \in Seq(AffectData)
  <2>a. << >> \in Seq(AffectData)
    OBVIOUS
  <2>1. Own(i) \in Seq(AffectData) /\ laid[i] \in Seq(AffectData)
    BY <2>a, AffectsAssumption DEF LaidOK, Own
  <2>2. QED  BY <2>1, ConcatProperties DEF On
<1>2. QED  BY <1>1 DEF Ons, Lists

LEMMA DueInt ==
  ASSUME NEW affs \in Seq(AffectData), NEW loc, NEW f
  PROVE  Due(affs, loc, f) \in Int
BY AmountIs DEF Due

LEMMA WornSumInt ==
  ASSUME NEW on \in Lists, NEW w, NEW f
  PROVE  WornSum(on, w, f) \in Int
<1>1. PICK F : F = [i \in Items |-> Due(on[i], w[i], f)]
  OBVIOUS
<1>2. \A i \in Items : F[i] \in Int
  BY <1>1, DueInt DEF Lists
<1>3. QED  BY <1>1, <1>2, SumInt, AffectsAssumption DEF WornSum

LEMMA SpellSumInt ==
  ASSUME NEW sp \in [Spells -> Seq(AffectData)], NEW f
  PROVE  SpellSum(sp, f) \in Int
<1>1. PICK F : F = [t \in Spells |-> Amount(sp[t], "both", f)]
  OBVIOUS
<1>2. \A t \in Spells : F[t] \in Int
  BY <1>1, AmountIs
<1>3. QED  BY <1>1, <1>2, SumInt, AffectsAssumption DEF SpellSum

LEMMA OffInt ==
  ASSUME LaidOK, NEW s \in States, NEW f \in Totals
  PROVE  /\ Off(s, f) \in Int /\ s.mods[f] \in Int
         /\ WornSum(Ons, s.worn, f) \in Int /\ SpellSum(s.spells, f) \in Int
<1>1. s.mods[f] \in Int /\ s.spells \in [Spells -> Seq(AffectData)]
  BY DEF States
<1>2. WornSum(Ons, s.worn, f) \in Int /\ SpellSum(s.spells, f) \in Int
  BY <1>1, OnsOK, WornSumInt, SpellSumInt
<1>3. QED  BY <1>1, <1>2 DEF Off

\* One item changes its place or what it does.
LEMMA WornSumChange ==
  ASSUME NEW on \in Lists, NEW om \in Lists, NEW w, NEW v, NEW i \in Items, NEW f,
         \A j \in Items \ {i} : on[j] = om[j] /\ w[j] = v[j]
  PROVE  WornSum(om, v, f) =
           WornSum(on, w, f) + (Due(om[i], v[i], f) - Due(on[i], w[i], f))
<1>1. PICK F : F = [j \in Items |-> Due(on[j], w[j], f)]
  OBVIOUS
<1>2. PICK G : G = [j \in Items |-> Due(om[j], v[j], f)]
  OBVIOUS
<1>3. \A j \in Items : F[j] \in Int /\ G[j] \in Int
  BY <1>1, <1>2, DueInt DEF Lists
<1>4. \A j \in Items \ {i} : G[j] = F[j]
  BY <1>1, <1>2
<1>5. SumFunctionOnSet(G, Items) = SumFunctionOnSet(F, Items) + G[i] - F[i]
  <2>1. IsFiniteSet(Items) /\ (\A j \in Items : F[j] \in Int) /\ G[i] \in Int
    BY <1>3, AffectsAssumption
  <2>2. QED  BY <2>1, <1>4, SumChange
<1>6. SumFunctionOnSet(F, Items) \in Int
  BY <1>3, SumInt, AffectsAssumption
<1>7. SumFunctionOnSet(G, Items) = SumFunctionOnSet(F, Items) + (G[i] - F[i])
  BY <1>3, <1>5, <1>6
<1>8. QED  BY <1>1, <1>2, <1>7 DEF WornSum

\* The list of one spell changes.
LEMMA SpellSumChange ==
  ASSUME NEW sp \in [Spells -> Seq(AffectData)], NEW t \in Spells,
         NEW affs \in Seq(AffectData), NEW f
  PROVE  SpellSum([sp EXCEPT ![t] = affs], f) =
           SpellSum(sp, f) + (Amount(affs, "both", f) - Amount(sp[t], "both", f))
<1>1. PICK F : F = [x \in Spells |-> Amount(sp[x], "both", f)]
  OBVIOUS
<1>2. PICK sq : sq = [sp EXCEPT ![t] = affs]
  OBVIOUS
<1>3. PICK G : G = [x \in Spells |-> Amount(sq[x], "both", f)]
  OBVIOUS
<1>4. sq[t] = affs /\ \A x \in Spells \ {t} : sq[x] = sp[x]
  BY <1>2
<1>5. \A x \in Spells : F[x] \in Int /\ G[x] \in Int
  BY <1>1, <1>3, <1>4, AmountIs
<1>6. \A x \in Spells \ {t} : G[x] = F[x]
  BY <1>1, <1>3, <1>4
<1>7. SumFunctionOnSet(G, Spells) = SumFunctionOnSet(F, Spells) + G[t] - F[t]
  <2>1. IsFiniteSet(Spells) /\ (\A x \in Spells : F[x] \in Int) /\ G[t] \in Int
    BY <1>5, AffectsAssumption
  <2>2. QED  BY <2>1, <1>6, SumChange
<1>8. SumFunctionOnSet(F, Spells) \in Int
  BY <1>5, SumInt, AffectsAssumption
<1>9. SumFunctionOnSet(G, Spells) = SumFunctionOnSet(F, Spells) + (G[t] - F[t])
  BY <1>5, <1>7, <1>8
<1>10. G[t] = Amount(affs, "both", f) /\ F[t] = Amount(sp[t], "both", f)
  BY <1>1, <1>3, <1>4
<1>11. QED  BY <1>1, <1>2, <1>3, <1>9, <1>10 DEF SpellSum

\* How far off the totals come to be by that, before they are changed.
LEMMA OffPlace ==
  ASSUME LaidOK, NEW s \in States, NEW i \in Items, NEW loc \in Places, NEW f \in Totals
  PROVE  Off(Place(s, i, loc), f) =
           Off(s, f) + (Due(On(i), s.worn[i], f) - Due(On(i), loc, f))
<1>1. PICK u : u = Place(s, i, loc)
  OBVIOUS
<1>2. u.mods = s.mods /\ u.spells = s.spells /\ u.worn = [s.worn EXCEPT ![i] = loc]
  BY <1>1, PlaceIs
<1>3. u.worn[i] = loc /\ \A j \in Items \ {i} : u.worn[j] = s.worn[j]
  BY <1>2 DEF States
<1>4. WornSum(Ons, u.worn, f) =
        WornSum(Ons, s.worn, f) + (Due(Ons[i], u.worn[i], f) - Due(Ons[i], s.worn[i], f))
  <2>1. PICK on : on = Ons
    OBVIOUS
  <2>2. PICK om : om = Ons
    OBVIOUS
  <2>3. PICK w : w = s.worn
    OBVIOUS
  <2>4. PICK v : v = u.worn
    OBVIOUS
  <2>5. on \in Lists /\ om \in Lists
    BY <2>1, <2>2, OnsOK
  <2>6. \A j \in Items \ {i} : on[j] = om[j] /\ w[j] = v[j]
    BY <1>3, <2>1, <2>2, <2>3, <2>4
  <2>7. WornSum(om, v, f) =
          WornSum(on, w, f) + (Due(om[i], v[i], f) - Due(on[i], w[i], f))
    BY <2>5, <2>6, WornSumChange
  <2>8. QED  BY <2>1, <2>2, <2>3, <2>4, <2>7
<1>5. Due(On(i), loc, f) \in Int /\ Due(On(i), s.worn[i], f) \in Int /\ Ons[i] = On(i)
  BY OnsOK, DueInt
<1>6. Off(u, f) = s.mods[f] - (WornSum(Ons, u.worn, f) + SpellSum(s.spells, f))
  BY <1>2 DEF Off
<1>7. QED  BY <1>1, <1>3, <1>4, <1>5, <1>6, OffInt DEF Off

LEMMA OffList ==
  ASSUME LaidOK, NEW s \in States, NEW t \in Spells, NEW affs \in Seq(AffectData),
         NEW f \in Totals
  PROVE  Off(List(s, t, affs), f) =
           Off(s, f) + (Amount(s.spells[t], "both", f) - Amount(affs, "both", f))
<1>1. PICK u : u = List(s, t, affs)
  OBVIOUS
<1>2. u.mods = s.mods /\ u.worn = s.worn /\ u.spells = [s.spells EXCEPT ![t] = affs]
  BY <1>1, ListIs
<1>3. s.spells \in [Spells -> Seq(AffectData)]
  BY DEF States
<1>4. SpellSum(u.spells, f) =
        SpellSum(s.spells, f) + (Amount(affs, "both", f) - Amount(s.spells[t], "both", f))
  <2>1. SpellSum([s.spells EXCEPT ![t] = affs], f) =
          SpellSum(s.spells, f) + (Amount(affs, "both", f) - Amount(s.spells[t], "both", f))
    BY <1>3, SpellSumChange
  <2>2. QED  BY <2>1, <1>2
<1>5. Amount(affs, "both", f) \in Int /\ Amount(s.spells[t], "both", f) \in Int
  BY <1>3, AmountIs
<1>6. Off(u, f) = s.mods[f] - (WornSum(Ons, s.worn, f) + SpellSum(u.spells, f))
  BY <1>2 DEF Off
<1>7. QED  BY <1>1, <1>4, <1>5, <1>6, OffInt DEF Off

Signed(sign, n) == IF sign = 1 THEN n ELSE -n

LEMMA OffModify ==
  ASSUME LaidOK, NEW s \in States, NEW a \in AffectData, NEW sign \in {-1, 1}, NEW app,
         NEW f \in Totals
  PROVE  Off(Modify(s, a, sign, app), f) = Off(s, f) + Signed(sign, Part(a, app, f))
<1>1. PICK u : u = Modify(s, a, sign, app)
  OBVIOUS
<1>2. PICK p : p = Part(a, app, f)
  OBVIOUS
<1>3. p \in Int
  BY <1>2, PartInt
<1>4. u.spells = s.spells /\ u.worn = s.worn /\ u.mods[f] = s.mods[f] + sign * p
  BY <1>1, <1>2, ModifyIs
<1>5. sign * p = Signed(sign, p)
  BY <1>3 DEF Signed
<1>6. Off(u, f) = (s.mods[f] + Signed(sign, p))
                    - (WornSum(Ons, s.worn, f) + SpellSum(s.spells, f))
  BY <1>4, <1>5 DEF Off
<1>7. Signed(sign, p) \in Int
  BY <1>3 DEF Signed
<1>8. QED  BY <1>1, <1>2, <1>6, <1>7, OffInt DEF Off
-----------------------------------------------------------------------------
(***************************************************************************)
(* From a state to another: how far the totals come to be off, and which   *)
(* bits that are given need no longer, or not yet, be set.                 *)
(***************************************************************************)
\* Every state the loops come through.
Good(s) == s \in States /\ Placed(s)

\* The bits that are given are set, but for those in E.
Held(s, E) == \A b : Gives(s, b) => b \in s.bits \cup {None} \cup E

BitsOf(affs) == {affs[k].bit : k \in DOMAIN affs}

Vecs == [Totals -> Int]
None0 == [f \in Totals |-> 0]
Plus(d, e) == [f \in Totals |-> d[f] + e[f]]

\* In u the totals are off by d more; in s all but B were held, now all but C.
OffBy(s, u, d) == \A f \in Totals : Off(u, f) = Off(s, f) + d[f]
HeldBy(s, u, B, C) == \A E : Held(s, E \cup B) => Held(u, E \cup C)

\* The spells are the same, and no item has been put in a place that it does
\* not fit or that is taken.
Turn(s, u, d, B, C) ==
  Good(u) /\ u.spells = s.spells /\ OffBy(s, u, d) /\ HeldBy(s, u, B, C)

\* Nothing has been put on.
Fewer(s, u) == \A i \in Items : IsWorn(u, i) => IsWorn(s, i)

LEMMA FewerTwice ==
  ASSUME NEW s, NEW t, NEW u, Fewer(s, t), Fewer(t, u)
  PROVE  Fewer(s, u)
BY DEF Fewer

LEMMA FewerSame ==
  ASSUME NEW s, NEW u, u.worn = s.worn
  PROVE  Fewer(s, u)
BY DEF Fewer, IsWorn

LEMMA GivesSame ==
  ASSUME NEW s, NEW u, u.worn = s.worn, u.spells = s.spells, NEW b
  PROVE  Gives(u, b) <=> Gives(s, b)
BY DEF Gives, IsWorn

\* One turn after another.
LEMMA TurnTwice ==
  ASSUME LaidOK, NEW s, NEW t, NEW u, NEW d \in Vecs, NEW e \in Vecs, NEW B, NEW C, NEW D,
         Good(s), Turn(s, t, d, B, C), Turn(t, u, e, C, D)
  PROVE  Turn(s, u, Plus(d, e), B, D)
<1>1. Good(u) /\ u.spells = s.spells
  BY DEF Turn
<1>2. HeldBy(s, u, B, D)
  BY DEF Turn, HeldBy
<1>3. ASSUME NEW f \in Totals
      PROVE  Off(u, f) = Off(s, f) + Plus(d, e)[f]
  <2>1. Off(t, f) = Off(s, f) + d[f] /\ Off(u, f) = Off(t, f) + e[f]
    BY DEF Turn, OffBy
  <2>2. Off(s, f) \in Int /\ d[f] \in Int /\ e[f] \in Int
    BY OffInt DEF Vecs, Good
  <2>3. Plus(d, e)[f] = d[f] + e[f]
    BY DEF Plus
  <2>4. QED  BY <2>1, <2>2, <2>3
<1>4. QED  BY <1>1, <1>2, <1>3 DEF Turn, OffBy

\* What holds whatever bits are missing, holds if some more are.
LEMMA TurnMore ==
  ASSUME NEW s, NEW u, NEW d, NEW B, NEW C, NEW M, Turn(s, u, d, B, C)
  PROVE  Turn(s, u, d, B \cup M, C \cup M)
<1>1. ASSUME NEW E, Held(s, E \cup (B \cup M))
      PROVE  Held(u, E \cup (C \cup M))
  <2>1. PICK F : F = E \cup M
    OBVIOUS
  <2>2. E \cup (B \cup M) = F \cup B /\ E \cup (C \cup M) = F \cup C
    BY <2>1
  <2>3. Held(s, F \cup B)
    BY <1>1, <2>2
  <2>4. Held(u, F \cup C)
    BY <2>3 DEF Turn, HeldBy
  <2>5. QED  BY <2>2, <2>4
<1>2. QED  BY <1>1 DEF Turn, HeldBy

LEMMA TurnSame ==
  ASSUME LaidOK, NEW s, Good(s), NEW B
  PROVE  Turn(s, s, None0, B, B)
<1>1. \A f \in Totals : Off(s, f) = Off(s, f) + None0[f]
  BY OffInt DEF None0, Good
<1>2. QED  BY <1>1 DEF Turn, OffBy, HeldBy

\* Only the bits change, and only more are set.
SetAgain(s, u, B, C) == \A b \in B \ C : Gives(s, b) => b \in u.bits \cup {None}

LEMMA TurnBits ==
  ASSUME LaidOK, NEW s, Good(s), NEW u, u \in States, u.mods = s.mods, u.spells = s.spells,
         u.worn = s.worn, s.bits \subseteq u.bits, NEW B, NEW C,
         SetAgain(s, u, B, C)
  PROVE  Turn(s, u, None0, B, C) /\ Fewer(s, u)
<1>1. Good(u)
  BY DEF Good, Placed
<1>2. \A f \in Totals : Off(u, f) = Off(s, f) + None0[f]
  <2>1. \A f \in Totals : Off(u, f) = Off(s, f)
    BY DEF Off
  <2>2. QED  BY <2>1, OffInt DEF None0, Good
<1>3. ASSUME NEW E, Held(s, E \cup B)
      PROVE  Held(u, E \cup C)
  <2>1. ASSUME NEW b, Gives(u, b)
        PROVE  b \in u.bits \cup {None} \cup (E \cup C)
    <3>1. Gives(s, b)
      BY <2>1, GivesSame
    <3>2. b \in s.bits \cup {None} \cup (E \cup B)
      BY <3>1, <1>3 DEF Held
    <3>3. QED  BY <3>1, <3>2 DEF SetAgain
  <2>2. QED  BY <2>1 DEF Held
<1>4. QED  BY <1>1, <1>2, <1>3, FewerSame DEF Turn, OffBy, HeldBy

\* Bits of the race are set again, and what affect_check finds.
LEMMA TurnRacial ==
  ASSUME LaidOK, NEW s, Good(s)
  PROVE  Turn(s, Racial(s), None0, {}, {}) /\ Fewer(s, Racial(s)) /\ Racial(s).worn = s.worn
<1>1. PICK u : u = Racial(s)
  OBVIOUS
<1>2. /\ u \in States /\ u.mods = s.mods /\ u.spells = s.spells /\ u.worn = s.worn
      /\ u.bits = s.bits \cup (Race \cap AffBits)
  <2>1. PICK D : D = Race \cap AffBits
    OBVIOUS
  <2>2. s \in States /\ D \in SUBSET Vectors
    BY <2>1, AffectsAssumption DEF Good
  <2>3. u = [s EXCEPT !.bits = @ \cup D]
    BY <1>1, <2>1 DEF Racial
  <2>4. /\ u \in States /\ u.mods = s.mods /\ u.spells = s.spells /\ u.worn = s.worn
        /\ u.bits = s.bits \cup D
    BY <2>2, <2>3, SetBits
  <2>5. QED  BY <2>1, <2>4
<1>3. PICK B : B = {}
  OBVIOUS
<1>4. Turn(s, u, None0, B, B) /\ Fewer(s, u)
  <2>1. s.bits \subseteq u.bits /\ SetAgain(s, u, B, B)
    BY <1>2 DEF SetAgain
  <2>2. QED  BY <2>1, <1>2, TurnBits
<1>5. QED  BY <1>1, <1>2, <1>3, <1>4

LEMMA TurnCheck ==
  ASSUME LaidOK, NEW s, Good(s), NEW b \in Vectors \cup {None}
  PROVE  Turn(s, Check(s, b), None0, {b}, {}) /\ Fewer(s, Check(s, b))
<1>1. PICK u : u = Check(s, b)
  OBVIOUS
<1>2. /\ u \in States /\ u.mods = s.mods /\ u.spells = s.spells /\ u.worn = s.worn
      /\ s.bits \subseteq u.bits /\ (Gives(s, b) => b \in u.bits \cup {None})
  <2>1. CASE Gives(s, b)
    <3>1. u = [s EXCEPT !.bits = @ \cup ({b} \ {None})] /\ {b} \ {None} \in SUBSET Vectors
      BY <2>1, <1>1 DEF Check
    <3>2. s \in States
      BY DEF Good
    <3>3. PICK D : D = {b} \ {None}
      OBVIOUS
    <3>4. D \in SUBSET Vectors /\ u = [s EXCEPT !.bits = @ \cup D]
      BY <3>1, <3>3
    <3>5. /\ u \in States /\ u.mods = s.mods /\ u.spells = s.spells /\ u.worn = s.worn
          /\ u.bits = s.bits \cup D
      BY <3>2, <3>4, SetBits
    <3>6. QED  BY <3>3, <3>5
  <2>2. CASE ~Gives(s, b)
    BY <2>2, <1>1 DEF Check, Good
  <2>3. QED  BY <2>1, <2>2
<1>3. SetAgain(s, u, {b}, {})
  BY <1>2 DEF SetAgain
<1>4. QED  BY <1>1, <1>2, <1>3, TurnBits

PartVec(sign, a, app) == [f \in Totals |-> Signed(sign, Part(a, app, f))]

\* affect_modify is off by what it adds, and may take a bit that is given.
LEMMA TurnModify ==
  ASSUME LaidOK, NEW s, Good(s), NEW a \in AffectData, NEW sign \in {-1, 1}, NEW app
  PROVE  /\ Turn(s, Modify(s, a, sign, app), PartVec(sign, a, app),
                 IF sign = 1 THEN {a.bit} ELSE {}, IF sign = 1 THEN {} ELSE {a.bit})
         /\ Fewer(s, Modify(s, a, sign, app))
<1>1. PICK u : u = Modify(s, a, sign, app)
  OBVIOUS
<1>2. /\ u \in States /\ u.spells = s.spells /\ u.worn = s.worn
      /\ u.bits = IF sign = 1 THEN s.bits \cup ({a.bit} \ {None}) ELSE s.bits \ {a.bit}
  <2>1. s \in States
    BY DEF Good
  <2>2. /\ Modify(s, a, sign, app) \in States
        /\ Modify(s, a, sign, app).spells = s.spells
        /\ Modify(s, a, sign, app).worn = s.worn
        /\ Modify(s, a, sign, app).bits = BitsAfter(s, a, sign)
    BY <2>1, ModifyIs
  <2>3. QED  BY <2>2, <1>1 DEF BitsAfter
<1>3. Good(u)
  <2>1. Placed(s)
    BY DEF Good
  <2>2. Placed(u)
    BY <2>1, <1>2 DEF Placed
  <2>3. QED  BY <2>2, <1>2 DEF Good
<1>4. \A f \in Totals : Off(u, f) = Off(s, f) + PartVec(sign, a, app)[f]
  BY <1>1, OffModify DEF PartVec, Good
<1>5. ASSUME NEW E, Held(s, E \cup (IF sign = 1 THEN {a.bit} ELSE {}))
      PROVE  Held(u, E \cup (IF sign = 1 THEN {} ELSE {a.bit}))
  <2>1. ASSUME NEW b, Gives(u, b)
        PROVE  b \in u.bits \cup {None} \cup (E \cup (IF sign = 1 THEN {} ELSE {a.bit}))
    <3>1. Gives(s, b)
      BY <2>1, <1>2, GivesSame
    <3>2. b \in s.bits \cup {None} \cup (E \cup (IF sign = 1 THEN {a.bit} ELSE {}))
      BY <3>1, <1>5 DEF Held
    <3>3. QED  BY <3>2, <1>2
  <2>2. QED  BY <2>1 DEF Held
<1>6. QED  BY <1>1, <1>2, <1>3, <1>4, <1>5, FewerSame DEF Turn, OffBy, HeldBy

LEMMA PartVecIs ==
  ASSUME NEW a \in AffectData, NEW sign \in {-1, 1}, NEW app
  PROVE  PartVec(sign, a, app) \in Vecs /\ None0 \in Vecs
<1>1. \A f \in Totals : Signed(sign, Part(a, app, f)) \in Int
  BY PartInt DEF Signed
<1>2. QED  BY <1>1 DEF PartVec, Vecs, None0

LEMMA PlusNone ==
  ASSUME NEW d \in Vecs
  PROVE  Plus(d, None0) = d /\ Plus(None0, d) = d
<1>1. \A f \in Totals : d[f] + 0 = d[f] /\ 0 + d[f] = d[f]
  BY DEF Vecs
<1>2. Plus(d, None0) = [f \in Totals |-> d[f]] /\ Plus(None0, d) = [f \in Totals |-> d[f]]
  BY <1>1 DEF Plus, None0
<1>3. QED  BY <1>2 DEF Vecs
-----------------------------------------------------------------------------
(***************************************************************************)
(* The loops over lists of affects.                                        *)
(***************************************************************************)
\* What a loop does with one affect.
Step(kind, x, y, s, a) ==
  IF kind = "modified" THEN IF x = 1 THEN Modify(s, a, 1, y)
                            ELSE Check(Modify(s, a, -1, y), a.bit)
  ELSE IF kind = "applied" THEN IF x = 1 THEN Apply(s, a, 1, y)
                                ELSE Check(Apply(s, a, -1, y), a.bit)
  ELSE IF kind = "given" THEN Give(s, x, a)
  ELSE IF kind = "copied" THEN IF a.type = "acid" THEN s ELSE <<a>> \o s
  ELSE Take(s, x)

\* The states it comes through.
IsWalk(g, kind, x, y, s, affs, n) ==
  g = [k \in 0..n |-> IF k = 0 THEN s ELSE Step(kind, x, y, g[k - 1], affs[k])]

\* A recursive function on 0..n exists, and so does the walk.
LEMMA WalkExists ==
  ASSUME NEW kind, NEW x, NEW y, NEW s, NEW affs, NEW n \in Nat
  PROVE  \E g : IsWalk(g, kind, x, y, s, affs, n)
<1> DEFINE B == {k \in 0..n : ~ \E g : IsWalk(g, kind, x, y, s, affs, k)}
<1>1. SUFFICES ASSUME B # {} PROVE FALSE
  OBVIOUS
<1>2. PICK k \in B : \A j \in B : k <= j
  <2>1. B \in SUBSET (0..n)
    OBVIOUS
  <2> HIDE DEF B
  <2>2. QED  BY <2>1, <1>1, Least
<1>3. k \in 0..n /\ ~ \E g : IsWalk(g, kind, x, y, s, affs, k)
  BY <1>2
<1>4. k # 0
  <2> DEFINE g == [i \in 0..0 |-> s]
  <2>1. IsWalk(g, kind, x, y, s, affs, 0)
    BY DEF IsWalk
  <2>2. QED  BY <2>1, <1>3
<1>5. PICK h : IsWalk(h, kind, x, y, s, affs, k - 1)
  <2>1. k - 1 \in 0..n /\ k - 1 \notin B
    BY <1>2, <1>3, <1>4
  <2>2. QED  BY <2>1
<1> HIDE DEF B
<1> DEFINE Next1(j, i) == IF i = 0 THEN s ELSE Step(kind, x, y, h[j], affs[i])
           g == [i \in 0..k |-> Next1(i - 1, i)]
<1>6. \A i \in 0..(k - 1) : h[i] = Next1(i - 1, i)
  BY <1>5 DEF IsWalk
<1>7. \A i \in 0..(k - 1) : g[i] = h[i]
  <2> TAKE i \in 0..(k - 1)
  <2>1. i \in 0..k
    BY <1>3
  <2>2. g[i] = Next1(i - 1, i)
    BY <2>1
  <2>3. QED  BY <2>2, <1>6
<1>8. \A i \in 0..k : g[i] = IF i = 0 THEN s ELSE Step(kind, x, y, g[i - 1], affs[i])
  <2> TAKE i \in 0..k
  <2>1. g[i] = Next1(i - 1, i)
    OBVIOUS
  <2>2. CASE i = 0
    BY <2>1, <2>2
  <2>3. CASE i # 0
    <3>1. i - 1 \in 0..(k - 1)
      BY <2>3, <1>3
    <3>2. g[i - 1] = h[i - 1]
      BY <3>1, <1>7
    <3> HIDE DEF g
    <3>3. QED  BY <3>2, <2>1
  <2>4. QED  BY <2>2, <2>3
<1>9. g = [i \in 0..k |-> g[i]]
  OBVIOUS
<1> HIDE DEF g
<1>10. IsWalk(g, kind, x, y, s, affs, k)
  BY <1>8, <1>9 DEF IsWalk
<1>11. QED  BY <1>3, <1>10

Walks(g, kind, x, y, s, affs) ==
  g[0] = s /\ \A k \in 1..Len(affs) : g[k] = Step(kind, x, y, g[k - 1], affs[k])

LEMMA WalkWalks ==
  ASSUME NEW kind, NEW x, NEW y, NEW s, NEW affs \in Seq(AffectData), NEW g,
         IsWalk(g, kind, x, y, s, affs, Len(affs))
  PROVE  Walks(g, kind, x, y, s, affs)
<1>1. Len(affs) \in Nat
  BY LenProperties
<1>2. QED  BY <1>1 DEF IsWalk, Walks

\* Each of the loops of the model is such a walk.
ModifiedWalk(g, s, affs, sign, app) ==
  g = [k \in 0..Len(affs) |->
         IF k = 0 THEN s
         ELSE IF sign = 1 THEN Modify(g[k - 1], affs[k], 1, app)
         ELSE Check(Modify(g[k - 1], affs[k], -1, app), affs[k].bit)]

LEMMA ModifiedWalks ==
  ASSUME NEW s, NEW affs \in Seq(AffectData), NEW sign, NEW app
  PROVE  \E g : /\ Walks(g, "modified", sign, app, s, affs)
                /\ Modified(s, affs, sign, app) = g[Len(affs)]
<1>1. Modified(s, affs, sign, app)
        = (CHOOSE g : ModifiedWalk(g, s, affs, sign, app))[Len(affs)]
  BY DEF Modified, Along, ModifiedWalk
<1>2. Len(affs) \in Nat
  BY LenProperties
<1>3. \A g : IsWalk(g, "modified", sign, app, s, affs, Len(affs))
               <=> ModifiedWalk(g, s, affs, sign, app)
  BY DEF IsWalk, ModifiedWalk, Step
<1>4. PICK h : ModifiedWalk(h, s, affs, sign, app)
  BY <1>2, <1>3, WalkExists
<1>5. PICK u : u = (CHOOSE g : ModifiedWalk(g, s, affs, sign, app))
  OBVIOUS
<1>6. ModifiedWalk(u, s, affs, sign, app)
  BY <1>4, <1>5
<1>7. Walks(u, "modified", sign, app, s, affs)
  BY <1>3, <1>6, WalkWalks
<1>8. QED  BY <1>1, <1>5, <1>7

AppliedWalk(g, s, affs, sign, app) ==
  g = [k \in 0..Len(affs) |->
         IF k = 0 THEN s
         ELSE IF sign = 1 THEN Apply(g[k - 1], affs[k], 1, app)
         ELSE Check(Apply(g[k - 1], affs[k], -1, app), affs[k].bit)]

LEMMA AppliedWalks ==
  ASSUME NEW s, NEW affs \in Seq(AffectData), NEW sign, NEW app
  PROVE  \E g : /\ Walks(g, "applied", sign, app, s, affs)
                /\ Applied(s, affs, sign, app) = g[Len(affs)]
<1>1. Applied(s, affs, sign, app)
        = (CHOOSE g : AppliedWalk(g, s, affs, sign, app))[Len(affs)]
  BY DEF Applied, Along, AppliedWalk
<1>2. Len(affs) \in Nat
  BY LenProperties
<1>3. \A g : IsWalk(g, "applied", sign, app, s, affs, Len(affs))
               <=> AppliedWalk(g, s, affs, sign, app)
  BY DEF IsWalk, AppliedWalk, Step
<1>4. PICK h : AppliedWalk(h, s, affs, sign, app)
  BY <1>2, <1>3, WalkExists
<1>5. PICK u : u = (CHOOSE g : AppliedWalk(g, s, affs, sign, app))
  OBVIOUS
<1>6. AppliedWalk(u, s, affs, sign, app)
  BY <1>4, <1>5
<1>7. Walks(u, "applied", sign, app, s, affs)
  BY <1>3, <1>6, WalkWalks
<1>8. QED  BY <1>1, <1>5, <1>7

GiveWalk(g, s, t, affs) ==
  g = [k \in 0..Len(affs) |-> IF k = 0 THEN s ELSE Give(g[k - 1], t, affs[k])]

LEMMA GiveWalks ==
  ASSUME NEW s, NEW affs \in Seq(AffectData), NEW t
  PROVE  \E g : /\ Walks(g, "given", t, 0, s, affs)
                /\ GiveAll(s, t, affs) = g[Len(affs)]
<1>1. GiveAll(s, t, affs) = (CHOOSE g : GiveWalk(g, s, t, affs))[Len(affs)]
  BY DEF GiveAll, Along, GiveWalk
<1>2. Len(affs) \in Nat
  BY LenProperties
<1>3. \A g : IsWalk(g, "given", t, 0, s, affs, Len(affs)) <=> GiveWalk(g, s, t, affs)
  BY DEF IsWalk, GiveWalk, Step
<1>4. PICK h : GiveWalk(h, s, t, affs)
  BY <1>2, <1>3, WalkExists
<1>5. PICK u : u = (CHOOSE g : GiveWalk(g, s, t, affs))
  OBVIOUS
<1>6. GiveWalk(u, s, t, affs)
  BY <1>4, <1>5
<1>7. Walks(u, "given", t, 0, s, affs)
  BY <1>3, <1>6, WalkWalks
<1>8. QED  BY <1>1, <1>5, <1>7

TakeWalk(g, s, t, affs) ==
  g = [k \in 0..Len(affs) |-> IF k = 0 THEN s ELSE Take(g[k - 1], t)]

LEMMA TakeWalks ==
  ASSUME NEW s, NEW affs \in Seq(AffectData), NEW t
  PROVE  \E g : /\ Walks(g, "taken", t, 0, s, affs)
                /\ TakeAll(s, t, affs) = g[Len(affs)]
<1>1. TakeAll(s, t, affs) = (CHOOSE g : TakeWalk(g, s, t, affs))[Len(affs)]
  BY DEF TakeAll, Along, TakeWalk
<1>2. Len(affs) \in Nat
  BY LenProperties
<1>3. \A g : IsWalk(g, "taken", t, 0, s, affs, Len(affs)) <=> TakeWalk(g, s, t, affs)
  BY DEF IsWalk, TakeWalk, Step
<1>4. PICK h : TakeWalk(h, s, t, affs)
  BY <1>2, <1>3, WalkExists
<1>5. PICK u : u = (CHOOSE g : TakeWalk(g, s, t, affs))
  OBVIOUS
<1>6. TakeWalk(u, s, t, affs)
  BY <1>4, <1>5
<1>7. Walks(u, "taken", t, 0, s, affs)
  BY <1>3, <1>6, WalkWalks
<1>8. QED  BY <1>1, <1>5, <1>7
-----------------------------------------------------------------------------
(***************************************************************************)
(* A loop that is right at each step is right.                             *)
(***************************************************************************)
Signs == {-1, 1}
Bit(sign, a) == IF sign = 1 THEN {a.bit} ELSE {}

\* A step adds its affect, and nothing is missing after it but the bits that
\* were; of an affect that comes, its bit was not yet set before.
StepRight(kind) ==
  \A s, a, sign, app : Good(s) /\ a \in AffectData /\ sign \in Signs =>
    /\ Turn(s, Step(kind, sign, app, s, a), PartVec(sign, a, app), Bit(sign, a), {})
    /\ Fewer(s, Step(kind, sign, app, s, a))

\* What the first k steps add, and the bits they set; and what all do.
UpVec(sign, affs, k, app) == [f \in Totals |-> Signed(sign, UpTo(affs, k, app, f))]
BitsTo(sign, affs, k) == IF sign = 1 THEN {affs[j].bit : j \in 1..k} ELSE {}

AmountVec(sign, affs, app) == [f \in Totals |-> Signed(sign, Amount(affs, app, f))]
LoopBits(sign, affs) == IF sign = 1 THEN BitsOf(affs) ELSE {}

LEMMA UpVecIs ==
  ASSUME NEW sign \in Signs, NEW affs \in Seq(AffectData), NEW app
  PROVE  /\ \A k \in 0..Len(affs) : UpVec(sign, affs, k, app) \in Vecs
         /\ UpVec(sign, affs, 0, app) = None0
         /\ \A k \in 1..Len(affs) :
              UpVec(sign, affs, k, app) =
                Plus(UpVec(sign, affs, k - 1, app), PartVec(sign, affs[k], app))
         /\ UpVec(sign, affs, Len(affs), app) = AmountVec(sign, affs, app)
<1>0. Len(affs) \in Nat
  BY LenProperties
<1>1. ASSUME NEW k \in 0..Len(affs)
      PROVE  UpVec(sign, affs, k, app) \in Vecs
  <2>1. \A f \in Totals : Signed(sign, UpTo(affs, k, app, f)) \in Int
    BY UpToInt DEF Signed
  <2>2. QED  BY <2>1 DEF UpVec, Vecs
<1>2. UpVec(sign, affs, 0, app) = None0
  <2>1. \A f \in Totals : Signed(sign, UpTo(affs, 0, app, f)) = 0
    BY UpToZero DEF Signed
  <2>2. QED  BY <2>1 DEF UpVec, None0
<1>3. ASSUME NEW k \in 1..Len(affs)
      PROVE  UpVec(sign, affs, k, app) =
               Plus(UpVec(sign, affs, k - 1, app), PartVec(sign, affs[k], app))
  <2>1. k - 1 \in 0..Len(affs) /\ affs[k] \in AffectData
    BY <1>0, PartsOfIs
  <2>2. ASSUME NEW f \in Totals
        PROVE  Signed(sign, UpTo(affs, k, app, f)) =
                 Signed(sign, UpTo(affs, k - 1, app, f)) + Signed(sign, Part(affs[k], app, f))
    <3>1. UpTo(affs, k - 1, app, f) \in Int /\ Part(affs[k], app, f) \in Int
      BY <2>1, UpToInt, PartInt
    <3>2. UpTo(affs, k, app, f) = UpTo(affs, k - 1, app, f) + Part(affs[k], app, f)
      BY UpToNext
    <3>3. QED  BY <3>1, <3>2 DEF Signed
  <2>3. QED  BY <2>2 DEF UpVec, PartVec, Plus
<1>4. UpVec(sign, affs, Len(affs), app) = AmountVec(sign, affs, app)
  <2>1. \A f : UpTo(affs, Len(affs), app, f) = Amount(affs, app, f)
    BY AmountIs
  <2>2. QED  BY <2>1 DEF UpVec, AmountVec
<1>5. QED  BY <1>1, <1>2, <1>3, <1>4

LEMMA BitsToIs ==
  ASSUME NEW sign \in Signs, NEW affs \in Seq(AffectData)
  PROVE  /\ BitsTo(sign, affs, 0) = {}
         /\ \A k \in 1..Len(affs) :
              BitsTo(sign, affs, k) = BitsTo(sign, affs, k - 1) \cup Bit(sign, affs[k])
         /\ BitsTo(sign, affs, Len(affs)) = LoopBits(sign, affs)
<1>1. DOMAIN affs = 1..Len(affs) /\ Len(affs) \in Nat
  BY LenProperties
<1>2. BitsTo(sign, affs, 0) = {}
  BY DEF BitsTo
<1>3. ASSUME NEW k \in 1..Len(affs)
      PROVE  BitsTo(sign, affs, k) = BitsTo(sign, affs, k - 1) \cup Bit(sign, affs[k])
  <2>1. \A j : j \in 1..k <=> j \in 1..(k - 1) \/ j = k
    BY <1>1
  <2>2. QED  BY <2>1 DEF BitsTo, Bit
<1>4. QED  BY <1>1, <1>2, <1>3 DEF BitsTo, LoopBits, BitsOf

\* By the first step in the walk that is not.
LEMMA WalkRight ==
  ASSUME LaidOK, NEW kind, StepRight(kind), NEW s, Good(s), NEW affs \in Seq(AffectData),
         NEW sign \in Signs, NEW app, NEW g, Walks(g, kind, sign, app, s, affs)
  PROVE  /\ Turn(s, g[Len(affs)], AmountVec(sign, affs, app), LoopBits(sign, affs), {})
         /\ Fewer(s, g[Len(affs)])
<1> DEFINE R(k) == /\ Turn(s, g[k], UpVec(sign, affs, k, app), BitsTo(sign, affs, k), {})
                   /\ Fewer(s, g[k])
           B == {k \in 0..Len(affs) : ~R(k)}
<1>0. Len(affs) \in Nat
  BY LenProperties
<1>1. R(0)
  <2>1. g[0] = s /\ UpVec(sign, affs, 0, app) = None0 /\ BitsTo(sign, affs, 0) = {}
    BY UpVecIs, BitsToIs DEF Walks
  <2>2. Turn(s, s, None0, {}, {}) /\ Fewer(s, s)
    BY TurnSame DEF Fewer
  <2>3. QED  BY <2>1, <2>2
<1>2. ASSUME NEW k \in 1..Len(affs), R(k - 1)
      PROVE  R(k)
  <2>1. g[k] = Step(kind, sign, app, g[k - 1], affs[k])
    BY DEF Walks
  <2>2. affs[k] \in AffectData /\ k - 1 \in 0..Len(affs)
    BY <1>0, PartsOfIs
  <2>3. Good(g[k - 1])
    BY <1>2 DEF Turn
  <2>4. /\ Turn(g[k - 1], g[k], PartVec(sign, affs[k], app), Bit(sign, affs[k]), {})
        /\ Fewer(g[k - 1], g[k])
    BY <2>1, <2>2, <2>3 DEF StepRight
  <2>5. Fewer(s, g[k])
    BY <2>4, <1>2, FewerTwice
  <2>6. PICK C : C = Bit(sign, affs[k])
    OBVIOUS
  <2>7. PICK D : D = BitsTo(sign, affs, k - 1)
    OBVIOUS
  <2>8. PICK d : d = UpVec(sign, affs, k - 1, app)
    OBVIOUS
  <2>9. PICK e : e = PartVec(sign, affs[k], app)
    OBVIOUS
  <2>10. PICK Z : Z = {}
    OBVIOUS
  <2>11. Turn(s, g[k - 1], d, D, Z) /\ Turn(g[k - 1], g[k], e, C, Z)
    BY <1>2, <2>4, <2>6, <2>7, <2>8, <2>9, <2>10
  <2>12. d \in Vecs /\ e \in Vecs
    <3>1. d \in Vecs
      BY <2>2, <2>8, UpVecIs
    <3>2. e \in Vecs
      BY <2>2, <2>9, PartVecIs DEF Signs
    <3>3. QED  BY <3>1, <3>2
  <2>13. Turn(s, g[k - 1], d, D \cup C, Z \cup C)
    BY <2>11, TurnMore
  <2>14. Z \cup C = C /\ D \cup C = BitsTo(sign, affs, k)
    BY <2>6, <2>7, <2>10, BitsToIs
  <2>15. Turn(s, g[k - 1], d, D \cup C, C)
    BY <2>13, <2>14
  <2>16. Turn(s, g[k], Plus(d, e), D \cup C, Z)
    BY <2>11, <2>12, <2>15, TurnTwice
  <2>17. Plus(d, e) = UpVec(sign, affs, k, app)
    BY <2>8, <2>9, UpVecIs
  <2>18. QED  BY <2>5, <2>10, <2>14, <2>16, <2>17
<1>3. B = {}
  <2>1. SUFFICES ASSUME B # {} PROVE FALSE
    OBVIOUS
  <2>2. PICK k \in B : \A j \in B : k <= j
    <3>1. B \in SUBSET (0..Len(affs))
      OBVIOUS
    <3> HIDE DEF B
    <3>2. QED  BY <3>1, <2>1, <1>0, Least
  <2>3. k \in 0..Len(affs) /\ ~R(k)
    OBVIOUS
  <2>4. k # 0
    BY <2>3, <1>1
  <2>5. k \in 1..Len(affs) /\ k - 1 \in 0..Len(affs) /\ ~(k <= k - 1)
    BY <2>3, <2>4, <1>0
  <2>6. k - 1 \notin B
    BY <2>2, <2>5
  <2>7. R(k - 1)
    BY <2>5, <2>6
  <2>8. QED  BY <2>3, <2>5, <2>7, <1>2
<1>4. R(Len(affs))
  <2>1. Len(affs) \in 0..Len(affs)
    BY <1>0
  <2>2. QED  BY <2>1, <1>3
<1>5. QED  BY <1>4, UpVecIs, BitsToIs

\* The loop of each kind.
Loop(kind, s, affs, sign, app) ==
  IF kind = "modified" THEN Modified(s, affs, sign, app) ELSE Applied(s, affs, sign, app)

Kinds == {"modified", "applied"}

LEMMA LoopRight ==
  ASSUME LaidOK, NEW kind \in Kinds, StepRight(kind), NEW s, Good(s),
         NEW affs \in Seq(AffectData), NEW sign \in Signs, NEW app
  PROVE  /\ Turn(s, Loop(kind, s, affs, sign, app), AmountVec(sign, affs, app),
                 LoopBits(sign, affs), {})
         /\ Fewer(s, Loop(kind, s, affs, sign, app))
<1>1. PICK g : /\ Walks(g, kind, sign, app, s, affs)
               /\ Loop(kind, s, affs, sign, app) = g[Len(affs)]
  <2>1. CASE kind = "modified"
    BY <2>1, ModifiedWalks DEF Loop
  <2>2. CASE kind = "applied"
    BY <2>2, AppliedWalks DEF Loop
  <2>3. QED  BY <2>1, <2>2 DEF Kinds
<1>2. QED  BY <1>1, WalkRight
-----------------------------------------------------------------------------
(***************************************************************************)
(* Putting on and taking off leaves the totals as far off as they were.    *)
(***************************************************************************)
Slots == {"wield", "second", "body"}
Fitting(i, loc) == Fits[i] = IF loc = "body" THEN "body" ELSE "wield"

EquipOf(kind, s, i, loc) ==
  IF At(s, loc) # {} THEN s ELSE Loop(kind, Place(s, i, loc), On(i), 1, App(loc))

TakeOffOf(kind, s, i) == Loop(kind, Place(s, i, "none"), On(i), -1, App(s.worn[i]))

UnequipOf(kind, s, i) ==
  LET t == TakeOffOf(kind, s, i)
  IN  Racial(IF s.worn[i] = "wield" /\ At(t, "second") # {}
             THEN EquipOf(kind, Racial(TakeOffOf(kind, t, Second(t))), Second(t), "wield")
             ELSE t)

FallOf(kind, s, i) ==
  Place(IF s.worn[i] = "none" THEN s ELSE UnequipOf(kind, s, i), i, "lost")

LEMMA BlocksAre ==
  ASSUME NEW s, NEW i
  PROVE  /\ \A loc : Equip(s, i, loc) = EquipOf("applied", s, i, loc)
         /\ Unequip(s, i) = UnequipOf("applied", s, i)
         /\ Fall(s, i) = FallOf("applied", s, i)
         /\ Fallen(s, i) = FallOf("modified", s, i)
<1>1. \A t, affs, sign, app :
        /\ Loop("applied", t, affs, sign, app) = Applied(t, affs, sign, app)
        /\ Loop("modified", t, affs, sign, app) = Modified(t, affs, sign, app)
  BY DEF Loop
<1>2. \A t, j, loc : /\ EquipBy(Applied, t, j, loc) = EquipOf("applied", t, j, loc)
                     /\ EquipBy(Modified, t, j, loc) = EquipOf("modified", t, j, loc)
  BY <1>1 DEF EquipBy, EquipOf
<1>3. \A t, j : /\ TakeOffBy(Applied, t, j) = TakeOffOf("applied", t, j)
                /\ TakeOffBy(Modified, t, j) = TakeOffOf("modified", t, j)
  BY <1>1 DEF TakeOffBy, TakeOffOf
<1>4. \A t, j : /\ UnequipBy(Applied, t, j) = UnequipOf("applied", t, j)
                /\ UnequipBy(Modified, t, j) = UnequipOf("modified", t, j)
  BY <1>1 DEF UnequipBy, UnequipOf, EquipBy, EquipOf, TakeOffBy, TakeOffOf
<1>5. QED  BY <1>2, <1>4 DEF FallBy, FallOf, Equip, Unequip, Fall, Fallen
DueVec(affs, loc) == [f \in Totals |-> Due(affs, loc, f)]
Minus(d) == [f \in Totals |-> -d[f]]

LEMMA DueVecIs ==
  ASSUME NEW affs \in Seq(AffectData), NEW loc
  PROVE  /\ DueVec(affs, loc) \in Vecs /\ Minus(DueVec(affs, loc)) \in Vecs
         /\ loc \in {"none", "lost"} => DueVec(affs, loc) = None0
         /\ loc \notin {"none", "lost"} =>
              /\ AmountVec(1, affs, App(loc)) = DueVec(affs, loc)
              /\ AmountVec(-1, affs, App(loc)) = Minus(DueVec(affs, loc))
         /\ Plus(DueVec(affs, loc), Minus(DueVec(affs, loc))) = None0
         /\ Plus(Minus(DueVec(affs, loc)), DueVec(affs, loc)) = None0
<1>1. \A f \in Totals : Due(affs, loc, f) \in Int
  BY DueInt
<1>2. loc \in {"none", "lost"} => \A f \in Totals : Due(affs, loc, f) = 0
  BY DEF Due
<1>3. loc \notin {"none", "lost"} => \A f \in Totals : Due(affs, loc, f) = Amount(affs, App(loc), f)
  BY DEF Due
<1>4. PICK d : d = DueVec(affs, loc)
  OBVIOUS
<1>5. d \in Vecs /\ Minus(d) \in Vecs
  BY <1>1, <1>4 DEF DueVec, Vecs, Minus
<1>6. Plus(d, Minus(d)) = None0 /\ Plus(Minus(d), d) = None0
  <2>1. \A f \in Totals : d[f] + Minus(d)[f] = 0 /\ Minus(d)[f] + d[f] = 0
    BY <1>5 DEF Vecs, Minus
  <2>2. QED  BY <2>1 DEF Plus, None0
<1>7. loc \in {"none", "lost"} => d = None0
  BY <1>2, <1>4 DEF DueVec, None0
<1>8. loc \notin {"none", "lost"} => /\ AmountVec(1, affs, App(loc)) = d
                                     /\ AmountVec(-1, affs, App(loc)) = Minus(d)
  BY <1>3, <1>4 DEF DueVec, Minus, AmountVec, Signed
<1>9. QED  BY <1>4, <1>5, <1>6, <1>7, <1>8

\* Only the place of an item changes.
LEMMA PlaceLess ==
  ASSUME LaidOK, NEW s, Good(s), NEW i \in Items, NEW loc \in {"none", "lost"}
  PROVE  /\ Turn(s, Place(s, i, loc), DueVec(On(i), s.worn[i]), {}, {})
         /\ Fewer(s, Place(s, i, loc)) /\ ~IsWorn(Place(s, i, loc), i)
<1>1. PICK u : u = Place(s, i, loc)
  OBVIOUS
<1>2. s \in States /\ loc \in Places
  BY DEF Good, Places
<1>3. /\ u \in States /\ u.mods = s.mods /\ u.bits = s.bits
      /\ u.spells = s.spells /\ u.worn = [s.worn EXCEPT ![i] = loc]
  BY <1>1, <1>2, PlaceIs
<1>4. u.worn[i] = loc /\ \A j \in Items \ {i} : u.worn[j] = s.worn[j]
  BY <1>2, <1>3 DEF States
<1>5. Good(u)
  <2>1. Placed(s)
    BY DEF Good
  <2>2. Placed(u)
    BY <2>1, <1>4 DEF Placed
  <2>3. QED  BY <2>2, <1>3 DEF Good
<1>6. Fewer(s, u) /\ ~IsWorn(u, i)
  BY <1>4 DEF Fewer, IsWorn
<1>7. \A f \in Totals : Off(u, f) = Off(s, f) + DueVec(On(i), s.worn[i])[f]
  <2> TAKE f \in Totals
  <2>1. Due(On(i), s.worn[i], f) \in Int /\ Due(On(i), loc, f) = 0
    BY OnsOK, DueInt DEF Due
  <2>2. Off(u, f) = Off(s, f) + (Due(On(i), s.worn[i], f) - Due(On(i), loc, f))
    BY <1>1, <1>2, OffPlace
  <2>3. QED  BY <2>1, <2>2 DEF DueVec
<1>8. ASSUME NEW E, Held(s, E \cup {})
      PROVE  Held(u, E \cup {})
  <2>1. \A b : Gives(u, b) => Gives(s, b)
    BY <1>3, <1>6 DEF Gives, Fewer
  <2>2. QED  BY <2>1, <1>3, <1>8 DEF Held
<1>9. QED  BY <1>1, <1>3, <1>5, <1>6, <1>7, <1>8 DEF Turn, OffBy, HeldBy

LEMMA PlaceMore ==
  ASSUME LaidOK, NEW s, Good(s), NEW i \in Items, ~IsWorn(s, i), NEW loc \in Slots,
         Fitting(i, loc), At(s, loc) = {}
  PROVE  /\ Turn(s, Place(s, i, loc), Minus(DueVec(On(i), loc)), {}, BitsOf(On(i)))
         /\ \A j \in Items : IsWorn(Place(s, i, loc), j) => IsWorn(s, j) \/ j = i
<1>1. PICK u : u = Place(s, i, loc)
  OBVIOUS
<1>2. s \in States /\ loc \in Places
  BY DEF Good, Places, Slots
<1>3. /\ u \in States /\ u.mods = s.mods /\ u.bits = s.bits
      /\ u.spells = s.spells /\ u.worn = [s.worn EXCEPT ![i] = loc]
  BY <1>1, <1>2, PlaceIs
<1>4. u.worn[i] = loc /\ \A j \in Items \ {i} : u.worn[j] = s.worn[j]
  BY <1>2, <1>3 DEF States
<1>5. Good(u)
  <2>1. Placed(s) /\ \A j \in Items : s.worn[j] # loc
    BY DEF Good, At
  <2>2. Placed(u)
    BY <2>1, <1>4 DEF Placed, Fitting
  <2>3. QED  BY <2>2, <1>3 DEF Good
<1>6. \A j \in Items : IsWorn(u, j) => IsWorn(s, j) \/ j = i
  BY <1>4 DEF IsWorn
<1>7. \A f \in Totals : Off(u, f) = Off(s, f) + Minus(DueVec(On(i), loc))[f]
  <2> TAKE f \in Totals
  <2>1. Due(On(i), loc, f) \in Int /\ Due(On(i), s.worn[i], f) = 0
    BY OnsOK, DueInt DEF Due, IsWorn
  <2>2. Off(u, f) = Off(s, f) + (Due(On(i), s.worn[i], f) - Due(On(i), loc, f))
    BY <1>1, <1>2, OffPlace
  <2>3. QED  BY <2>1, <2>2 DEF DueVec, Minus
<1>8. ASSUME NEW E, Held(s, E \cup {})
      PROVE  Held(u, E \cup BitsOf(On(i)))
  <2>1. \A b : Gives(u, b) => Gives(s, b) \/ b \in BitsOf(On(i))
    BY <1>3, <1>6 DEF Gives, BitsOf
  <2>2. QED  BY <2>1, <1>3, <1>8 DEF Held
<1>9. QED  BY <1>1, <1>3, <1>5, <1>6, <1>7, <1>8 DEF Turn, OffBy, HeldBy

\* Two turns that make up for each other.
LEMMA TurnBack ==
  ASSUME LaidOK, NEW s, NEW t, NEW u, NEW d, NEW e, NEW B, NEW C, NEW D,
         Good(s), Turn(s, t, d, B, C), Turn(t, u, e, C, D),
         d \in Vecs, e \in Vecs, Plus(d, e) = None0
  PROVE  Turn(s, u, None0, B, D)
<1>1. Turn(s, u, Plus(d, e), B, D)
  BY TurnTwice
<1>2. QED  BY <1>1

\* An item that comes off is out of its place at once and its affects are
\* taken off one by one: the two make up for each other.
LEMMA TakeOffRight ==
  ASSUME LaidOK, NEW kind \in Kinds, StepRight(kind), NEW s, Good(s), NEW i \in Items,
         IsWorn(s, i)
  PROVE  /\ Turn(s, TakeOffOf(kind, s, i), None0, {}, {})
         /\ Fewer(s, TakeOffOf(kind, s, i)) /\ ~IsWorn(TakeOffOf(kind, s, i), i)
<1>1. PICK p : p = Place(s, i, "none")
  OBVIOUS
<1>2. PICK u : u = TakeOffOf(kind, s, i)
  OBVIOUS
<1>3. PICK d : d = DueVec(On(i), s.worn[i])
  OBVIOUS
<1>4. PICK Z : Z = {}
  OBVIOUS
<1>5. Turn(s, p, d, Z, Z) /\ Fewer(s, p) /\ ~IsWorn(p, i)
  BY <1>1, <1>3, <1>4, PlaceLess
<1>6. On(i) \in Seq(AffectData) /\ s.worn[i] \notin {"none", "lost"}
  BY OnsOK DEF IsWorn
<1>7. PICK app : app = App(s.worn[i])
  OBVIOUS
<1>8. u = Loop(kind, p, On(i), -1, app)
  BY <1>1, <1>2, <1>7 DEF TakeOffOf
<1>9. Turn(p, u, AmountVec(-1, On(i), app), LoopBits(-1, On(i)), {}) /\ Fewer(p, u)
  <2>1. Good(p) /\ -1 \in Signs
    BY <1>5 DEF Turn, Signs
  <2>2. PICK sign : sign = -1
    OBVIOUS
  <2>3. sign \in Signs
    BY <2>1, <2>2
  <2>4. PICK affs : affs = On(i)
    OBVIOUS
  <2>5. affs \in Seq(AffectData) /\ u = Loop(kind, p, affs, sign, app)
    BY <1>6, <1>8, <2>2, <2>4
  <2>6. Turn(p, u, AmountVec(sign, affs, app), LoopBits(sign, affs), {}) /\ Fewer(p, u)
    BY <2>1, <2>3, <2>5, LoopRight
  <2>7. QED  BY <2>2, <2>4, <2>6
<1>10. PICK e : e = Minus(d)
  OBVIOUS
<1>11. Turn(p, u, e, Z, Z)
  <2>1. LoopBits(-1, On(i)) = Z
    BY <1>4 DEF LoopBits
  <2>2. AmountVec(-1, On(i), app) = e
    BY <1>3, <1>6, <1>7, <1>10, DueVecIs
  <2>3. QED  BY <2>1, <2>2, <1>4, <1>9
<1>12. d \in Vecs /\ e \in Vecs /\ Plus(d, e) = None0
  BY <1>3, <1>6, <1>10, DueVecIs
<1>13. Turn(s, u, None0, Z, Z)
  BY <1>5, <1>11, <1>12, TurnBack
<1>14. Fewer(s, u) /\ ~IsWorn(u, i)
  BY <1>5, <1>9 DEF Fewer
<1>15. QED  BY <1>2, <1>4, <1>13, <1>14

\* So they do for an item that is put on.
LEMMA EquipRight ==
  ASSUME LaidOK, NEW kind \in Kinds, StepRight(kind), NEW s, Good(s), NEW i \in Items,
         ~IsWorn(s, i), NEW loc \in Slots, Fitting(i, loc)
  PROVE  /\ Turn(s, EquipOf(kind, s, i, loc), None0, {}, {})
         /\ \A j \in Items : IsWorn(EquipOf(kind, s, i, loc), j) => IsWorn(s, j) \/ j = i
<1>1. CASE At(s, loc) # {}
  <2>1. EquipOf(kind, s, i, loc) = s
    BY <1>1 DEF EquipOf
  <2>2. Turn(s, s, None0, {}, {})
    BY TurnSame
  <2>3. QED  BY <2>1, <2>2
<1>2. CASE At(s, loc) = {}
  <2>1. PICK p : p = Place(s, i, loc)
    OBVIOUS
  <2>2. PICK u : u = EquipOf(kind, s, i, loc)
    OBVIOUS
  <2>3. PICK d : d = DueVec(On(i), loc)
    OBVIOUS
  <2>4. PICK e : e = Minus(d)
    OBVIOUS
  <2>5. PICK Z : Z = {}
    OBVIOUS
  <2>6. PICK C : C = BitsOf(On(i))
    OBVIOUS
  <2>7. Turn(s, p, e, Z, C) /\ \A j \in Items : IsWorn(p, j) => IsWorn(s, j) \/ j = i
    BY <1>2, <2>1, <2>3, <2>4, <2>5, <2>6, PlaceMore
  <2>8. PICK app : app = App(loc)
    OBVIOUS
  <2>9. PICK affs : affs = On(i)
    OBVIOUS
  <2>10. affs \in Seq(AffectData) /\ loc \notin {"none", "lost"}
    BY <2>9, OnsOK DEF Slots
  <2>11. u = Loop(kind, p, affs, 1, app)
    BY <1>2, <2>1, <2>2, <2>8, <2>9 DEF EquipOf
  <2>12. PICK sign : sign = 1
    OBVIOUS
  <2>13. sign \in Signs /\ Good(p) /\ u = Loop(kind, p, affs, sign, app)
    BY <2>7, <2>11, <2>12 DEF Signs, Turn
  <2>14. Turn(p, u, AmountVec(sign, affs, app), LoopBits(sign, affs), {}) /\ Fewer(p, u)
    BY <2>10, <2>13, LoopRight
  <2>15. AmountVec(sign, affs, app) = d /\ LoopBits(sign, affs) = C
    BY <2>3, <2>6, <2>8, <2>9, <2>10, <2>12, DueVecIs DEF LoopBits
  <2>16. Turn(p, u, d, C, Z)
    BY <2>5, <2>14, <2>15
  <2>17. d \in Vecs /\ e \in Vecs /\ Plus(e, d) = None0
    BY <2>3, <2>4, <2>9, <2>10, DueVecIs
  <2>18. Turn(s, u, None0, Z, Z)
    BY <2>7, <2>16, <2>17, TurnBack
  <2>19. \A j \in Items : IsWorn(u, j) => IsWorn(s, j) \/ j = i
    BY <2>7, <2>14 DEF Fewer
  <2>20. QED  BY <2>2, <2>5, <2>18, <2>19
<1>3. QED  BY <1>1, <1>2

\* As far off as before, and nothing put on.
Steady(s, u) == Turn(s, u, None0, {}, {}) /\ Fewer(s, u)

LEMMA SteadyTwice ==
  ASSUME LaidOK, NEW s, NEW t, NEW u, Good(s), Steady(s, t), Steady(t, u)
  PROVE  Steady(s, u)
<1>1. PICK Z : Z = {}
  OBVIOUS
<1>2. Turn(s, t, None0, Z, Z) /\ Turn(t, u, None0, Z, Z)
  BY <1>1 DEF Steady
<1>3. None0 \in Vecs /\ Plus(None0, None0) = None0
  <2>1. None0 \in Vecs
    BY DEF None0, Vecs
  <2>2. QED  BY <2>1, PlusNone
<1>4. Turn(s, u, None0, Z, Z)
  BY <1>2, <1>3, TurnBack
<1>5. Fewer(s, u)
  BY FewerTwice DEF Steady
<1>6. QED  BY <1>1, <1>4, <1>5 DEF Steady

LEMMA SteadyIs ==
  ASSUME NEW s, NEW u, Steady(s, u)
  PROVE  Good(u) /\ Fewer(s, u) /\ u.spells = s.spells
BY DEF Steady, Turn

LEMMA RacialSteady ==
  ASSUME LaidOK, NEW s, Good(s)
  PROVE  Steady(s, Racial(s)) /\ Good(Racial(s))
BY TurnRacial DEF Steady, Turn

LEMMA TakeOffSteady ==
  ASSUME LaidOK, NEW kind \in Kinds, StepRight(kind), NEW s, Good(s), NEW i \in Items,
         IsWorn(s, i)
  PROVE  Steady(s, TakeOffOf(kind, s, i)) /\ ~IsWorn(TakeOffOf(kind, s, i), i)
BY TakeOffRight DEF Steady

\* After the primary weapon the secondary one comes off and is put on again.
LEMMA UnequipRight ==
  ASSUME LaidOK, NEW kind \in Kinds, StepRight(kind), NEW s, Good(s), NEW i \in Items,
         IsWorn(s, i)
  PROVE  Steady(s, UnequipOf(kind, s, i)) /\ ~IsWorn(UnequipOf(kind, s, i), i)
<1>1. PICK t : t = TakeOffOf(kind, s, i)
  OBVIOUS
<1>2. Steady(s, t) /\ ~IsWorn(t, i) /\ Good(t)
  BY <1>1, TakeOffSteady, SteadyIs
<1>3. CASE s.worn[i] = "wield" /\ At(t, "second") # {}
  <2>1. PICK q : q = Second(t)
    OBVIOUS
  <2>2. q \in Items /\ t.worn[q] = "second" /\ IsWorn(t, q)
    BY <1>3, <2>1 DEF Second, At, IsWorn
  <2>3. PICK v : v = TakeOffOf(kind, t, q)
    OBVIOUS
  <2>4. Steady(t, v) /\ ~IsWorn(v, q) /\ Good(v)
    BY <1>2, <2>2, <2>3, TakeOffSteady, SteadyIs
  <2>5. PICK w : w = Racial(v)
    OBVIOUS
  <2>6. Steady(v, w) /\ Good(w)
    BY <2>4, <2>5, RacialSteady
  <2>7. PICK x : x = EquipOf(kind, w, q, "wield")
    OBVIOUS
  <2>8. Fitting(q, "wield") /\ "wield" \in Slots
    BY <1>2, <2>2 DEF Good, Placed, Fitting, Slots
  <2>9. ~IsWorn(w, q)
    BY <2>2, <2>4, <2>6 DEF Steady, Fewer
  <2>10. /\ Turn(w, x, None0, {}, {})
         /\ \A j \in Items : IsWorn(x, j) => IsWorn(w, j) \/ j = q
    BY <2>2, <2>6, <2>7, <2>8, <2>9, EquipRight
  <2>11. Steady(t, w)
    BY <1>2, <2>4, <2>6, SteadyTwice
  <2>12. Steady(t, x)
    <3>1. Fewer(t, x)
      BY <2>2, <2>10, <2>11 DEF Steady, Fewer
    <3>2. PICK Z : Z = {}
      OBVIOUS
    <3>3. Turn(t, w, None0, Z, Z) /\ Turn(w, x, None0, Z, Z)
      BY <2>10, <2>11, <3>2 DEF Steady
    <3>4. None0 \in Vecs /\ Plus(None0, None0) = None0
      <4>1. None0 \in Vecs
        BY DEF None0, Vecs
      <4>2. QED  BY <4>1, PlusNone
    <3>5. Turn(t, x, None0, Z, Z)
      BY <1>2, <3>3, <3>4, TurnBack
    <3>6. QED  BY <3>1, <3>2, <3>5 DEF Steady
  <2>13. Steady(s, x) /\ Good(x)
    BY <1>2, <2>12, SteadyTwice, SteadyIs
  <2>14. UnequipOf(kind, s, i) = Racial(x)
    BY <1>1, <1>3, <2>1, <2>3, <2>5, <2>7 DEF UnequipOf
  <2>15. Steady(x, Racial(x))
    BY <2>13, RacialSteady
  <2>16. Steady(s, Racial(x))
    BY <2>13, <2>15, SteadyTwice
  <2>17. ~IsWorn(Racial(x), i)
    BY <1>2, <2>12, <2>15 DEF Steady, Fewer
  <2>18. QED  BY <2>14, <2>16, <2>17
<1>4. CASE ~(s.worn[i] = "wield" /\ At(t, "second") # {})
  <2>1. UnequipOf(kind, s, i) = Racial(t)
    BY <1>1, <1>4 DEF UnequipOf
  <2>2. Steady(t, Racial(t))
    BY <1>2, RacialSteady
  <2>3. Steady(s, Racial(t))
    BY <1>2, <2>2, SteadyTwice
  <2>4. ~IsWorn(Racial(t), i)
    BY <1>2, <2>2 DEF Steady, Fewer
  <2>5. QED  BY <2>1, <2>3, <2>4
<1>5. QED  BY <1>3, <1>4

\* An item that is not worn goes.
LEMMA PlaceSteady ==
  ASSUME LaidOK, NEW s, Good(s), NEW i \in Items, ~IsWorn(s, i), NEW loc \in {"none", "lost"}
  PROVE  Steady(s, Place(s, i, loc)) /\ ~IsWorn(Place(s, i, loc), i)
<1>1. s.worn[i] \in {"none", "lost"} /\ On(i) \in Seq(AffectData)
  BY OnsOK DEF IsWorn
<1>2. DueVec(On(i), s.worn[i]) = None0
  BY <1>1, DueVecIs
<1>3. QED  BY <1>2, PlaceLess DEF Steady

\* A weapon falls, in the middle of whatever it may be.
LEMMA FallRight ==
  ASSUME LaidOK, NEW kind \in Kinds, StepRight(kind), NEW s, Good(s), NEW i \in Items,
         s.worn[i] # "lost"
  PROVE  Steady(s, FallOf(kind, s, i)) /\ ~IsWorn(FallOf(kind, s, i), i)
<1>1. CASE s.worn[i] = "none"
  <2>1. FallOf(kind, s, i) = Place(s, i, "lost") /\ ~IsWorn(s, i)
    BY <1>1 DEF FallOf, IsWorn
  <2>2. QED  BY <2>1, PlaceSteady
<1>2. CASE s.worn[i] # "none"
  <2>1. PICK t : t = UnequipOf(kind, s, i)
    OBVIOUS
  <2>2. IsWorn(s, i)
    BY <1>2 DEF IsWorn
  <2>3. Steady(s, t) /\ ~IsWorn(t, i) /\ Good(t)
    BY <2>1, <2>2, UnequipRight, SteadyIs
  <2>4. FallOf(kind, s, i) = Place(t, i, "lost")
    BY <1>2, <2>1 DEF FallOf
  <2>5. Steady(t, Place(t, i, "lost")) /\ ~IsWorn(Place(t, i, "lost"), i)
    BY <2>3, PlaceSteady
  <2>6. QED  BY <2>3, <2>4, <2>5, SteadyTwice
<1>3. QED  BY <1>1, <1>2

-----------------------------------------------------------------------------
(***************************************************************************)
(* Each step of the loops is right: first while a weapon falls, and from   *)
(* that, always.                                                           *)
(***************************************************************************)
\* affect_modify of either kind, before affect_check.
ModifyRight(s, t, sign, a, app) ==
  /\ Turn(s, t, PartVec(sign, a, app), IF sign = 1 THEN {a.bit} ELSE {},
          IF sign = 1 THEN {} ELSE {a.bit})
  /\ Fewer(s, t)

\* With affect_check after it.
LEMMA ChangeRight ==
  ASSUME LaidOK, NEW s, Good(s), NEW a \in AffectData, NEW sign \in Signs, NEW app,
         NEW t, ModifyRight(s, t, sign, a, app),
         NEW u, u = IF sign = 1 THEN t ELSE Check(t, a.bit)
  PROVE  Turn(s, u, PartVec(sign, a, app), Bit(sign, a), {}) /\ Fewer(s, u)
<1>1. CASE sign = 1
  BY <1>1 DEF ModifyRight, Bit
<1>2. CASE sign # 1
  <2>1. PICK Z : Z = {}
    OBVIOUS
  <2>2. PICK B : B = {a.bit}
    OBVIOUS
  <2>3. PICK d : d = PartVec(sign, a, app)
    OBVIOUS
  <2>4. Turn(s, t, d, Z, B) /\ Fewer(s, t) /\ Good(t)
    BY <1>2, <2>1, <2>2, <2>3 DEF ModifyRight, Turn
  <2>5. Turn(t, u, None0, B, Z) /\ Fewer(t, u)
    <3>1. a.bit \in Vectors \cup {None}
      BY DEF AffectData
    <3>2. u = Check(t, a.bit)
      BY <1>2
    <3>3. QED  BY <2>1, <2>2, <2>4, <3>1, <3>2, TurnCheck
  <2>6. d \in Vecs /\ None0 \in Vecs
    BY <2>3, PartVecIs DEF Signs
  <2>7. Turn(s, u, Plus(d, None0), Z, Z)
    BY <2>4, <2>5, <2>6, TurnTwice
  <2>8. Plus(d, None0) = d
    BY <2>6, PlusNone
  <2>9. Bit(sign, a) = Z
    BY <1>2, <2>1 DEF Bit
  <2>10. Fewer(s, u)
    BY <2>4, <2>5, FewerTwice
  <2>11. QED  BY <2>1, <2>3, <2>7, <2>8, <2>9, <2>10
<1>3. QED  BY <1>1, <1>2

\* While a weapon falls.
LEMMA ModifiedStep ==
  ASSUME LaidOK
  PROVE  StepRight("modified")
<1>1. ASSUME NEW s, NEW a, NEW sign, NEW app, Good(s), a \in AffectData, sign \in Signs
      PROVE  /\ Turn(s, Step("modified", sign, app, s, a), PartVec(sign, a, app), Bit(sign, a), {})
             /\ Fewer(s, Step("modified", sign, app, s, a))
  <2>1. PICK t : t = Modify(s, a, sign, app)
    OBVIOUS
  <2>2. sign \in {-1, 1}
    BY <1>1 DEF Signs
  <2>3. ModifyRight(s, t, sign, a, app)
    BY <1>1, <2>1, <2>2, TurnModify DEF ModifyRight
  <2>4. PICK u : u = Step("modified", sign, app, s, a)
    OBVIOUS
  <2>5. u = IF sign = 1 THEN t ELSE Check(t, a.bit)
    BY <2>1, <2>2, <2>4 DEF Step
  <2>6. Turn(s, u, PartVec(sign, a, app), Bit(sign, a), {}) /\ Fewer(s, u)
    BY <1>1, <2>3, <2>5, ChangeRight
  <2>7. QED  BY <2>4, <2>6
<1>2. QED  BY <1>1 DEF StepRight

\* affect_modify, with what falls.
LEMMA ApplyRight ==
  ASSUME LaidOK, NEW s, Good(s), NEW a \in AffectData, NEW sign \in Signs, NEW app
  PROVE  ModifyRight(s, Apply(s, a, sign, app), sign, a, app)
<1>1. PICK t : t = Modify(s, a, sign, app)
  OBVIOUS
<1>2. ModifyRight(s, t, sign, a, app) /\ Good(t)
  <2>1. sign \in {-1, 1}
    BY DEF Signs
  <2>2. QED  BY <1>1, <2>1, TurnModify DEF ModifyRight, Turn
<1>3. PICK W : W = {i \in At(t, "wield") : t.mods["str"] < Need[i]}
  OBVIOUS
<1>4. Apply(s, a, sign, app) = IF W = {} THEN t ELSE Fallen(t, CHOOSE i \in W : TRUE)
  BY <1>1, <1>3 DEF Apply
<1>5. CASE W = {}
  BY <1>2, <1>4, <1>5
<1>6. CASE W # {}
  <2>1. PICK i : i = CHOOSE j \in W : TRUE
    OBVIOUS
  <2>2. i \in Items /\ t.worn[i] = "wield"
    BY <1>3, <1>6, <2>1 DEF At
  <2>3. PICK u : u = FallOf("modified", t, i)
    OBVIOUS
  <2>4. Apply(s, a, sign, app) = Fallen(t, i)
    BY <1>4, <1>6, <2>1
  <2>5. Apply(s, a, sign, app) = u
    BY <2>3, <2>4, BlocksAre
  <2>6. Steady(t, u)
    <3>1. "modified" \in Kinds /\ StepRight("modified") /\ t.worn[i] # "lost"
      BY <2>2, ModifiedStep DEF Kinds
    <3>2. QED  BY <1>2, <2>2, <2>3, <3>1, FallRight
  <2>7. PICK B : B = IF sign = 1 THEN {a.bit} ELSE {}
    OBVIOUS
  <2>8. PICK C : C = IF sign = 1 THEN {} ELSE {a.bit}
    OBVIOUS
  <2>9. PICK d : d = PartVec(sign, a, app)
    OBVIOUS
  <2>10. Turn(s, t, d, B, C) /\ Fewer(s, t)
    BY <1>2, <2>7, <2>8, <2>9 DEF ModifyRight
  <2>11. PICK Z : Z = {}
    OBVIOUS
  <2>12. Turn(t, u, None0, Z, Z) /\ Fewer(t, u)
    BY <2>6, <2>11 DEF Steady
  <2>13. Turn(t, u, None0, C, C)
    <3>1. Turn(t, u, None0, Z \cup C, Z \cup C)
      BY <2>12, TurnMore
    <3>2. Z \cup C = C
      BY <2>11
    <3>3. QED  BY <3>1, <3>2
  <2>14. d \in Vecs /\ None0 \in Vecs
    BY <2>9, PartVecIs DEF Signs
  <2>15. Turn(s, u, Plus(d, None0), B, C)
    BY <2>10, <2>13, <2>14, TurnTwice
  <2>16. Plus(d, None0) = d
    BY <2>14, PlusNone
  <2>17. Fewer(s, u)
    BY <2>10, <2>12, FewerTwice
  <2>18. QED  BY <2>5, <2>7, <2>8, <2>9, <2>15, <2>16, <2>17 DEF ModifyRight
<1>7. QED  BY <1>5, <1>6

\* Always, as the loops of what falls are right by now.
LEMMA AppliedStep ==
  ASSUME LaidOK
  PROVE  StepRight("applied")
<1>1. ASSUME NEW s, NEW a, NEW sign, NEW app, Good(s), a \in AffectData, sign \in Signs
      PROVE  /\ Turn(s, Step("applied", sign, app, s, a), PartVec(sign, a, app), Bit(sign, a), {})
             /\ Fewer(s, Step("applied", sign, app, s, a))
  <2>1. PICK t : t = Apply(s, a, sign, app)
    OBVIOUS
  <2>2. sign \in {-1, 1}
    BY <1>1 DEF Signs
  <2>3. ModifyRight(s, t, sign, a, app)
    BY <1>1, <2>1, ApplyRight
  <2>4. PICK u : u = Step("applied", sign, app, s, a)
    OBVIOUS
  <2>5. u = IF sign = 1 THEN t ELSE Check(t, a.bit)
    BY <2>1, <2>2, <2>4 DEF Step
  <2>6. Turn(s, u, PartVec(sign, a, app), Bit(sign, a), {}) /\ Fewer(s, u)
    BY <1>1, <2>3, <2>5, ChangeRight
  <2>7. QED  BY <2>4, <2>6
<1>2. QED  BY <1>1 DEF StepRight

-----------------------------------------------------------------------------
(***************************************************************************)
(* Affects come to the character and go.                                   *)
(***************************************************************************)
\* The totals are as far off as before, and the bits that were held still are.
Kept(s, u) ==
  /\ Good(u)
  /\ \A f \in Totals : Off(u, f) = Off(s, f)
  /\ \A E : Held(s, E) => Held(u, E)

\* A spell has so many affects more than before, and the others are as they were.
Counted(s, u, t, n) ==
  /\ \A x \in Spells \ {t} : u.spells[x] = s.spells[x]
  /\ Len(u.spells[t]) = Len(s.spells[t]) + n

LEMMA KeptTwice ==
  ASSUME NEW s, NEW t, NEW u, Kept(s, t), Kept(t, u)
  PROVE  Kept(s, u)
BY DEF Kept

LEMMA KeptSame ==
  ASSUME NEW s, Good(s)
  PROVE  Kept(s, s)
BY DEF Kept

LEMMA HeldOn ==
  ASSUME NEW s, NEW u, NEW B, NEW C, HeldBy(s, u, B, C), NEW E, Held(s, E \cup B)
  PROVE  Held(u, E \cup C)
BY DEF HeldBy

LEMMA KeptTurn ==
  ASSUME LaidOK, NEW s, Good(s), NEW u, Turn(s, u, None0, {}, {})
  PROVE  Kept(s, u) /\ u.spells = s.spells
<1>1. Good(u) /\ u.spells = s.spells
  BY DEF Turn
<1>2. ASSUME NEW f \in Totals
      PROVE  Off(u, f) = Off(s, f)
  <2>1. Off(u, f) = Off(s, f) + None0[f] /\ None0[f] = 0
    BY DEF Turn, OffBy, None0
  <2>2. QED  BY <2>1, OffInt DEF Good
<1>3. ASSUME NEW E, Held(s, E)
      PROVE  Held(u, E)
  <2>1. PICK Z : Z = {}
    OBVIOUS
  <2>2. HeldBy(s, u, Z, Z) /\ E \cup Z = E
    BY <2>1 DEF Turn
  <2>3. Held(u, E \cup Z)
    BY <2>2, <1>3, HeldOn
  <2>4. QED  BY <2>2, <2>3
<1>4. QED  BY <1>1, <1>2, <1>3 DEF Kept

LEMMA KeptSteady ==
  ASSUME LaidOK, NEW s, Good(s), NEW u, Steady(s, u)
  PROVE  Kept(s, u) /\ u.spells = s.spells
BY KeptTurn DEF Steady

\* The list of a spell changes: all else stays, and it may be given less.
LEMMA ListGood ==
  ASSUME NEW s, Good(s), NEW t \in Spells, NEW affs \in Seq(AffectData)
  PROVE  /\ Good(List(s, t, affs)) /\ List(s, t, affs).bits = s.bits
         /\ List(s, t, affs).worn = s.worn
         /\ List(s, t, affs).spells = [s.spells EXCEPT ![t] = affs]
         /\ \A b : Gives(List(s, t, affs), b) => Gives(s, b) \/ b \in BitsOf(affs)
<1>1. PICK u : u = List(s, t, affs)
  OBVIOUS
<1>2. s \in States /\ Placed(s)
  BY DEF Good
<1>3. /\ u \in States /\ u.bits = s.bits /\ u.worn = s.worn
      /\ u.spells = [s.spells EXCEPT ![t] = affs]
  BY <1>1, <1>2, ListIs
<1>4. Good(u)
  BY <1>2, <1>3 DEF Good, Placed
<1>5. u.spells[t] = affs /\ \A x \in Spells \ {t} : u.spells[x] = s.spells[x]
  BY <1>2, <1>3 DEF States
<1>6. ASSUME NEW b, Gives(u, b)
      PROVE  Gives(s, b) \/ b \in BitsOf(affs)
  BY <1>3, <1>5, <1>6 DEF Gives, BitsOf, IsWorn
<1>7. QED  BY <1>1, <1>3, <1>4, <1>6

\* The bit of the first affect of a spell, and those of the rest.
LEMMA FrontBits ==
  ASSUME NEW a \in AffectData, NEW affs \in Seq(AffectData)
  PROVE  BitsOf(<<a>> \o affs) = BitsOf(affs) \cup {a.bit}
<1>1. PICK S : S = AffectData
  OBVIOUS
<1>2. PICK bs : bs = <<a>> \o affs
  OBVIOUS
<1>3. /\ bs \in Seq(S) /\ Len(bs) = Len(affs) + 1 /\ bs[1] = a
      /\ \A k \in 1..Len(affs) : bs[k + 1] = affs[k]
  BY <1>1, <1>2
<1>4. DOMAIN bs = 1..(Len(affs) + 1) /\ DOMAIN affs = 1..Len(affs) /\ Len(affs) \in Nat
  BY <1>1, <1>3, LenProperties
<1>5. \A k \in 1..(Len(affs) + 1) : k = 1 \/ (k - 1 \in 1..Len(affs) /\ bs[k] = affs[k - 1])
  BY <1>3, <1>4
<1>6. \A b \in BitsOf(bs) : b \in BitsOf(affs) \cup {a.bit}
  <2> TAKE b \in BitsOf(bs)
  <2>1. PICK k \in 1..(Len(affs) + 1) : b = bs[k].bit
    BY <1>4 DEF BitsOf
  <2>2. CASE k = 1
    BY <2>1, <2>2, <1>3
  <2>3. CASE k # 1
    <3>1. k - 1 \in DOMAIN affs /\ bs[k] = affs[k - 1]
      BY <2>3, <1>4, <1>5
    <3>2. b = affs[k - 1].bit
      BY <3>1, <2>1
    <3>3. QED  BY <3>1, <3>2 DEF BitsOf
  <2>4. QED  BY <2>2, <2>3
<1>7. \A b \in BitsOf(affs) \cup {a.bit} : b \in BitsOf(bs)
  <2>1. \A k \in 1..Len(affs) : k + 1 \in 1..(Len(affs) + 1)
    BY <1>4
  <2>2. 1 \in 1..(Len(affs) + 1)
    BY <1>4
  <2>3. QED  BY <1>3, <1>4, <2>1, <2>2 DEF BitsOf
<1>8. QED  BY <1>2, <1>6, <1>7

\* affect_to_char
LEMMA GiveRight ==
  ASSUME LaidOK, NEW s, Good(s), NEW t \in Spells, NEW a \in AffectData
  PROVE  Kept(s, Give(s, t, a)) /\ Counted(s, Give(s, t, a), t, 1)
<1>1. PICK affs : affs = s.spells[t]
  OBVIOUS
<1>2. PICK bs : bs = <<a>> \o affs
  OBVIOUS
<1>3. s \in States /\ affs \in Seq(AffectData) /\ s.spells \in [Spells -> Seq(AffectData)]
  BY <1>1 DEF Good, States
<1>4. bs \in Seq(AffectData) /\ PutIn(bs, affs, 1) /\ bs[1] = a
  BY <1>2, <1>3, PutInFront
<1>5. PICK p : p = List(s, t, bs)
  OBVIOUS
<1>6. /\ Good(p) /\ p.bits = s.bits /\ p.worn = s.worn
      /\ p.spells = [s.spells EXCEPT ![t] = bs]
      /\ \A b : Gives(p, b) => Gives(s, b) \/ b \in BitsOf(bs)
  <2>1. bs \in Seq(AffectData)
    BY <1>4
  <2>2. QED  BY <2>1, <1>5, ListGood
<1>7. PICK u : u = Apply(p, a, 1, "both")
  OBVIOUS
<1>8. u = Give(s, t, a)
  BY <1>1, <1>2, <1>5, <1>7 DEF Give
<1>9. Turn(p, u, PartVec(1, a, "both"), {a.bit}, {}) /\ Fewer(p, u)
  <2>1. PICK sign : sign = 1
    OBVIOUS
  <2>2. sign \in Signs /\ u = Apply(p, a, sign, "both")
    BY <1>7, <2>1 DEF Signs
  <2>3. ModifyRight(p, u, sign, a, "both")
    BY <1>6, <2>2, ApplyRight
  <2>4. QED  BY <2>1, <2>3 DEF ModifyRight
<1>10. ASSUME NEW f \in Totals
       PROVE  Off(u, f) = Off(s, f)
  <2>1. Off(p, f) = Off(s, f) + (Amount(affs, "both", f) - Amount(bs, "both", f))
    BY <1>1, <1>3, <1>4, <1>5, OffList
  <2>2. PICK m : m = 1
    OBVIOUS
  <2>3. PutIn(bs, affs, m) /\ bs[m] = a
    BY <1>4, <2>2
  <2>4. Amount(bs, "both", f) = Amount(affs, "both", f) + Part(a, "both", f)
    BY <2>3, AmountInsert
  <2>5. Off(u, f) = Off(p, f) + Part(a, "both", f)
    BY <1>9 DEF Turn, OffBy, PartVec, Signed
  <2>6. Off(s, f) \in Int /\ Amount(affs, "both", f) \in Int /\ Part(a, "both", f) \in Int
    BY <1>3, OffInt, AmountIs, PartInt
  <2>7. QED  BY <2>1, <2>4, <2>5, <2>6
<1>11. ASSUME NEW E, Held(s, E)
       PROVE  Held(u, E)
  <2>1. ASSUME NEW b, Gives(p, b)
        PROVE  b \in p.bits \cup {None} \cup (E \cup {a.bit})
    <3>1. Gives(s, b) \/ b \in BitsOf(affs) \/ b = a.bit
      BY <2>1, <1>2, <1>3, <1>6, FrontBits
    <3>2. b \in BitsOf(affs) => Gives(s, b)
      BY <1>1 DEF BitsOf, Gives
    <3>3. QED  BY <3>1, <3>2, <1>6, <1>11 DEF Held
  <2>2. Held(p, E \cup {a.bit})
    BY <2>1 DEF Held
  <2>3. HeldBy(p, u, {a.bit}, {})
    BY <1>9 DEF Turn
  <2>4. PICK B : B = {a.bit}
    OBVIOUS
  <2>5. PICK C : C = {}
    OBVIOUS
  <2>6. Held(p, E \cup B) /\ HeldBy(p, u, B, C) /\ E \cup C = E
    BY <2>2, <2>3, <2>4, <2>5
  <2>7. Held(u, E \cup C)
    BY <2>6, HeldOn
  <2>8. QED  BY <2>6, <2>7
<1>12. Good(u) /\ Fewer(s, u) /\ u.spells = p.spells
  BY <1>6, <1>9 DEF Turn, Fewer, IsWorn
<1>13. Counted(s, u, t, 1)
  <2>1. Len(bs) = Len(affs) + 1
    BY <1>4 DEF PutIn
  <2>2. u.spells[t] = bs /\ \A x \in Spells \ {t} : u.spells[x] = s.spells[x]
    BY <1>3, <1>6, <1>12
  <2>3. QED  BY <2>1, <2>2, <1>1 DEF Counted
<1>14. QED  BY <1>8, <1>10, <1>11, <1>12, <1>13 DEF Kept

\* affect_remove
LEMMA TakeRight ==
  ASSUME LaidOK, NEW s, Good(s), NEW t \in Spells, s.spells[t] # << >>
  PROVE  Kept(s, Take(s, t)) /\ Counted(s, Take(s, t), t, -1)
<1>1. PICK affs : affs = s.spells[t]
  OBVIOUS
<1>2. PICK S : S = AffectData
  OBVIOUS
<1>3. s \in States /\ affs \in Seq(S) /\ s.spells \in [Spells -> Seq(S)] /\ affs # << >>
  <2>1. s \in States
    BY DEF Good
  <2>2. s.spells \in [Spells -> Seq(AffectData)]
    BY <2>1, StatesAre
  <2>3. s.spells[t] \in Seq(AffectData)
    BY <2>2
  <2>4. QED  BY <2>1, <2>2, <2>3, <1>1, <1>2
<1>4. PICK a : a = Head(affs)
  OBVIOUS
<1>5. PICK bs : bs = Tail(affs)
  OBVIOUS
<1>6. /\ a \in S /\ bs \in Seq(S) /\ affs[1] = a /\ Len(affs) = Len(bs) + 1
      /\ \A k \in 1..Len(bs) : bs[k] = affs[k + 1]
      /\ DOMAIN affs = 1..Len(affs) /\ DOMAIN bs = 1..Len(bs) /\ Len(bs) \in Nat
  BY <1>3, <1>4, <1>5
<1>7. PutIn(affs, bs, 1)
  BY <1>2, <1>3, <1>6 DEF PutIn, Behind
<1>8. PICK u : u = Apply(s, a, -1, "both")
  OBVIOUS
<1>9. Turn(s, u, PartVec(-1, a, "both"), {}, {a.bit}) /\ Fewer(s, u) /\ Good(u)
  <2>1. PICK sign : sign = -1
    OBVIOUS
  <2>2. sign \in Signs /\ u = Apply(s, a, sign, "both") /\ a \in AffectData
    BY <1>2, <1>6, <1>8, <2>1 DEF Signs
  <2>3. ModifyRight(s, u, sign, a, "both")
    BY <2>2, ApplyRight
  <2>4. QED  BY <2>1, <2>3 DEF ModifyRight, Turn
<1>10. u.spells = s.spells
  BY <1>9 DEF Turn
<1>11. PICK v : v = List(u, t, bs)
  OBVIOUS
<1>12. /\ Good(v) /\ v.bits = u.bits /\ v.worn = u.worn
       /\ v.spells = [u.spells EXCEPT ![t] = bs]
       /\ \A b : Gives(v, b) => Gives(u, b) \/ b \in BitsOf(bs)
  BY <1>2, <1>6, <1>9, <1>11, ListGood
<1>13. PICK w : w = Check(v, a.bit)
  OBVIOUS
<1>14. Turn(v, w, None0, {a.bit}, {}) /\ Fewer(v, w)
  <2>1. a.bit \in Vectors \cup {None}
    BY <1>2, <1>6 DEF AffectData
  <2>2. QED  BY <2>1, <1>12, <1>13, TurnCheck
<1>15. Take(s, t) = w
  BY <1>1, <1>4, <1>5, <1>8, <1>10, <1>11, <1>13 DEF Take
<1>16. ASSUME NEW f \in Totals
       PROVE  Off(w, f) = Off(s, f)
  <2>1. Off(u, f) = Off(s, f) - Part(a, "both", f)
    <3>1. Off(u, f) = Off(s, f) + Signed(-1, Part(a, "both", f))
      BY <1>9 DEF Turn, OffBy, PartVec
    <3>2. Off(s, f) \in Int /\ Part(a, "both", f) \in Int
      BY <1>2, <1>3, <1>6, OffInt, PartInt
    <3>3. QED  BY <3>1, <3>2 DEF Signed
  <2>2. Off(v, f) = Off(u, f) + (Amount(affs, "both", f) - Amount(bs, "both", f))
    <3>1. u \in States /\ u.spells[t] = affs
      BY <1>1, <1>9, <1>10 DEF Good
    <3>2. QED  BY <3>1, <1>2, <1>6, <1>11, OffList
  <2>3. PICK m : m = 1
    OBVIOUS
  <2>4. PutIn(affs, bs, m) /\ affs[m] = a
    BY <1>6, <1>7, <2>3
  <2>5. Amount(affs, "both", f) = Amount(bs, "both", f) + Part(a, "both", f)
    BY <2>4, AmountInsert
  <2>6. Off(w, f) = Off(v, f) + 0
    BY <1>14 DEF Turn, OffBy, None0
  <2>7. Off(s, f) \in Int /\ Amount(bs, "both", f) \in Int /\ Part(a, "both", f) \in Int
    BY <1>2, <1>3, <1>6, OffInt, AmountIs, PartInt
  <2>8. QED  BY <2>1, <2>2, <2>5, <2>6, <2>7
<1>17. ASSUME NEW E, Held(s, E)
       PROVE  Held(w, E)
  <2>1. PICK B : B = {a.bit}
    OBVIOUS
  <2>2. PICK C : C = {}
    OBVIOUS
  <2>3. HeldBy(s, u, C, B) /\ HeldBy(v, w, B, C) /\ E \cup C = E /\ Held(s, E \cup C)
    BY <1>9, <1>14, <1>17, <2>1, <2>2 DEF Turn
  <2>4. Held(u, E \cup B)
    BY <2>3, HeldOn
  <2>5. \A b : Gives(v, b) => Gives(u, b)
    <3>1. BitsOf(bs) \subseteq BitsOf(affs)
      <4>1. \A k \in 1..Len(bs) : k + 1 \in 1..Len(affs)
        BY <1>6
      <4>2. QED  BY <4>1, <1>6 DEF BitsOf
    <3>2. \A b \in BitsOf(affs) : Gives(u, b)
      BY <1>1, <1>10 DEF BitsOf, Gives
    <3>3. QED  BY <3>1, <3>2, <1>12
  <2>6. Held(v, E \cup B)
    BY <2>4, <2>5, <1>12 DEF Held
  <2>7. Held(w, E \cup C)
    BY <2>3, <2>6, HeldOn
  <2>8. QED  BY <2>3, <2>7
<1>18. Good(w) /\ Fewer(s, w) /\ w.spells = v.spells
  BY <1>9, <1>12, <1>14 DEF Turn, Fewer, IsWorn
<1>19. Counted(s, w, t, -1)
  <2>1. w.spells[t] = bs /\ \A x \in Spells \ {t} : w.spells[x] = s.spells[x]
    BY <1>3, <1>10, <1>12, <1>18
  <2>2. Len(bs) = Len(affs) + (-1)
    BY <1>6
  <2>3. QED  BY <2>1, <2>2, <1>1 DEF Counted
<1>20. QED  BY <1>15, <1>16, <1>17, <1>18, <1>19 DEF Kept

\* So with the affects of a spell, one after another.
SpellStepRight(kind, t, sign) ==
  \A s, a : Good(s) /\ a \in AffectData /\ (sign = -1 => s.spells[t] # << >>) =>
    Kept(s, Step(kind, t, 0, s, a)) /\ Counted(s, Step(kind, t, 0, s, a), t, sign)

LEMMA GivenStep ==
  ASSUME LaidOK, NEW t \in Spells
  PROVE  SpellStepRight("given", t, 1)
BY GiveRight DEF SpellStepRight, Step

LEMMA TakenStep ==
  ASSUME LaidOK, NEW t \in Spells
  PROVE  SpellStepRight("taken", t, -1)
BY TakeRight DEF SpellStepRight, Step

LEMMA SpellWalkRight ==
  ASSUME LaidOK, NEW t \in Spells, NEW kind, NEW sign \in Signs, SpellStepRight(kind, t, sign),
         NEW s, Good(s), NEW affs \in Seq(AffectData), NEW g, Walks(g, kind, t, 0, s, affs),
         sign = -1 => Len(s.spells[t]) >= Len(affs)
  PROVE  /\ Kept(s, g[Len(affs)])
         /\ Counted(s, g[Len(affs)], t, Signed(sign, Len(affs)))
<1> DEFINE R(k) == Kept(s, g[k]) /\ Counted(s, g[k], t, Signed(sign, k))
           B == {k \in 0..Len(affs) : ~R(k)}
<1>0. Len(affs) \in Nat /\ Len(s.spells[t]) \in Nat
  <2>1. s.spells[t] \in Seq(AffectData)
    BY DEF Good, States
  <2>2. QED  BY <2>1, LenProperties
<1>1. R(0)
  <2>1. g[0] = s
    BY DEF Walks
  <2>a. Signed(sign, 0) = 0
    <3>1. \A n \in Int : n <= 0 /\ n >= 0 => Signed(sign, n) = 0
      BY DEF Signed
    <3>2. QED  BY <3>1
  <2>2. Kept(s, s)
    BY KeptSame
  <2>3. Counted(s, s, t, 0)
    BY <1>0 DEF Counted
  <2>4. QED  BY <2>1, <2>a, <2>2, <2>3
<1>2. ASSUME NEW k \in 1..Len(affs), R(k - 1)
      PROVE  R(k)
  <2>1. PICK u : u = g[k - 1]
    OBVIOUS
  <2>2. PICK v : v = g[k]
    OBVIOUS
  <2>3. v = Step(kind, t, 0, u, affs[k])
    BY <2>1, <2>2 DEF Walks
  <2>4. affs[k] \in AffectData
    BY PartsOfIs
  <2>5. Kept(s, u) /\ Counted(s, u, t, Signed(sign, k - 1)) /\ Good(u)
    BY <1>2, <2>1 DEF Kept
  <2>6. Len(u.spells[t]) = Len(s.spells[t]) + Signed(sign, k - 1)
    BY <2>5 DEF Counted
  <2>7. sign = -1 => u.spells[t] # << >>
    <3>1. SUFFICES ASSUME sign = -1 PROVE u.spells[t] # << >>
      OBVIOUS
    <3>a. Signed(sign, k - 1) = -(k - 1)
      BY <3>1 DEF Signed
    <3>b. Len(s.spells[t]) >= Len(affs)
      BY <3>1
    <3>2. Len(u.spells[t]) > 0
      <4>1. k \in Nat /\ k <= Len(affs)
        BY <1>0
      <4>2. QED  BY <4>1, <1>0, <2>6, <3>a, <3>b
    <3>3. u.spells[t] \in Seq(AffectData)
      BY <2>5 DEF Good, States
    <3>4. QED  BY <3>2, <3>3
  <2>8. Kept(u, v) /\ Counted(u, v, t, sign)
    BY <2>3, <2>4, <2>5, <2>7 DEF SpellStepRight
  <2>9. Kept(s, v)
    BY <2>5, <2>8, KeptTwice
  <2>10. Counted(s, v, t, Signed(sign, k))
    <3>1. Signed(sign, k - 1) + sign = Signed(sign, k) /\ Signed(sign, k - 1) \in Int
      BY <1>0 DEF Signed, Signs
    <3>2. Len(v.spells[t]) = Len(u.spells[t]) + sign
      BY <2>8 DEF Counted
    <3>3. Len(v.spells[t]) = Len(s.spells[t]) + Signed(sign, k)
      BY <1>0, <2>6, <3>1, <3>2 DEF Signs
    <3>4. \A x \in Spells \ {t} : v.spells[x] = s.spells[x]
      BY <2>5, <2>8 DEF Counted
    <3>5. QED  BY <3>3, <3>4 DEF Counted
  <2>11. QED  BY <2>2, <2>9, <2>10
<1>3. B = {}
  <2>1. SUFFICES ASSUME B # {} PROVE FALSE
    OBVIOUS
  <2>2. PICK k \in B : \A j \in B : k <= j
    <3>1. B \in SUBSET (0..Len(affs))
      OBVIOUS
    <3> HIDE DEF B
    <3>2. QED  BY <3>1, <2>1, <1>0, Least
  <2>3. k \in 0..Len(affs) /\ ~R(k)
    OBVIOUS
  <2>4. k # 0
    BY <2>3, <1>1
  <2>5. k \in 1..Len(affs) /\ k - 1 \in 0..Len(affs) /\ ~(k <= k - 1)
    BY <2>3, <2>4, <1>0
  <2>6. k - 1 \notin B
    BY <2>2, <2>5
  <2>7. R(k - 1)
    BY <2>5, <2>6
  <2>8. QED  BY <2>3, <2>5, <2>7, <1>2
<1>4. R(Len(affs))
  <2>1. Len(affs) \in 0..Len(affs)
    BY <1>0
  <2>2. QED  BY <2>1, <1>3
<1>5. QED  BY <1>4

-----------------------------------------------------------------------------
(***************************************************************************)
(* The invariant.                                                          *)
(***************************************************************************)
\* Blessings and curses of items give no bits, and no attribute but the saves.
Lays(a) == a.type \in {"bless", "curse"} => a.bit = None /\ a.loc = "saves"
LaidAre(affs) == \A k \in DOMAIN affs : Lays(affs[k])

LaidFits == \A i \in Items : LaidAre(laid[i])

\* The totals are those of what is worn and cast, but for the saves.
Settled(on, m, w, sp) ==
  \A f \in Totals \ {"saves"} : m[f] = WornSum(on, w, f) + SpellSum(sp, f)

\* A bit is given by a spell or a worn item, and those that are given are set.
GivenBy(on, w, sp, b) ==
  \/ \E t \in Spells : b \in BitsOf(sp[t])
  \/ \E i \in Items : w[i] \notin {"none", "lost"} /\ b \in BitsOf(on[i])

AllHeld(on, w, sp, bs) == \A b : GivenBy(on, w, sp, b) => b \in bs \cup {None}

IInv ==
  /\ TypeOK /\ LaidFits
  /\ Settled(Ons, mods, worn, spells)
  /\ AllHeld(Ons, worn, spells, bits \cup lapsed)
  /\ lapsed \cap AffBits = {}

LEMMA TypeGood ==
  ASSUME TypeOK
  PROVE  LaidOK /\ Good(now) /\ now \in States
<1>1. now \in States
  BY DEF TypeOK, now, States, Places
<1>2. Placed(now)
  BY DEF TypeOK, now, Placed
<1>3. QED  BY <1>1, <1>2 DEF Good, TypeOK, LaidOK

LEMMA SettledIs ==
  ASSUME LaidOK, NEW s, Good(s)
  PROVE  /\ Settled(Ons, s.mods, s.worn, s.spells) <=> \A f \in Totals \ {"saves"} : Off(s, f) = 0
         /\ \A E : AllHeld(Ons, s.worn, s.spells, s.bits \cup E) <=> Held(s, E)
<1>1. ASSUME NEW f \in Totals
      PROVE  s.mods[f] = WornSum(Ons, s.worn, f) + SpellSum(s.spells, f) <=> Off(s, f) = 0
  <2>1. s \in States
    BY DEF Good
  <2>2. QED  BY <2>1, OffInt DEF Off
<1>2. \A b : GivenBy(Ons, s.worn, s.spells, b) <=> Gives(s, b)
  <2>1. \A i \in Items : Ons[i] = On(i)
    BY DEF Ons
  <2>2. QED  BY <2>1 DEF GivenBy, Gives, IsWorn, BitsOf
<1>3. ASSUME NEW E
      PROVE  AllHeld(Ons, s.worn, s.spells, s.bits \cup E) <=> Held(s, E)
  BY <1>2 DEF AllHeld, Held
<1>4. QED  BY <1>1, <1>3 DEF Settled

\* What the bodies of the actions come to.
LEMMA KeptSettled ==
  ASSUME LaidOK, NEW s, Good(s), NEW u, Kept(s, u), NEW E
  PROVE  /\ Settled(Ons, s.mods, s.worn, s.spells) => Settled(Ons, u.mods, u.worn, u.spells)
         /\ AllHeld(Ons, s.worn, s.spells, s.bits \cup E)
              => AllHeld(Ons, u.worn, u.spells, u.bits \cup E)
BY SettledIs DEF Kept

\* The spells are whole or gone.
Whole(sp) == \A t \in Spells : Len(sp[t]) \in {0, Len(Effects[t])}

\* An action that comes to such a state keeps the types, and the invariant.
LEMMA BecomesIs ==
  ASSUME TypeOK, NEW u, Good(u), Whole(u.spells), Becomes(u), laid' \in [Items -> Seq(AffectData)],
         UNCHANGED enchanted
  PROVE  TypeOK'
<1>1. u \in States /\ Placed(u)
  BY DEF Good
<1>2. mods' = u.mods /\ bits' = u.bits /\ spells' = u.spells /\ worn' = u.worn
  BY DEF Becomes
<1>3. /\ mods' \in [Totals -> Int] /\ bits' \subseteq Vectors
      /\ spells' \in [Spells -> Seq(AffectData)] /\ worn' \in [Items -> Places]
  BY <1>1, <1>2, StatesAre
<1>4. \A i \in Items : worn'[i] \in {"wield", "second", "body"} =>
        /\ Fits[i] = IF worn'[i] = "body" THEN "body" ELSE "wield"
        /\ \A j \in Items \ {i} : worn'[j] # worn'[i]
  BY <1>1, <1>2 DEF Placed
<1>5. \A t \in Spells : Len(spells'[t]) \in {0, Len(Effects[t])}
  BY <1>2 DEF Whole
<1>6. lapsed' \subseteq Vectors /\ enchanted' \subseteq Items
  BY DEF TypeOK, Becomes
<1>7. QED  BY <1>3, <1>4, <1>5, <1>6 DEF TypeOK, Places

\* Bits that are set again are not lapsed any more.
LEMMA LapsedIs ==
  ASSUME NEW u, Becomes(u)
  PROVE  bits' \cup lapsed' = u.bits \cup lapsed /\ lapsed' \subseteq lapsed
BY DEF Becomes

LEMMA KeptStep ==
  ASSUME IInv, NEW u, Kept(now, u), Whole(u.spells), Becomes(u), UNCHANGED <<enchanted, laid>>
  PROVE  IInv'
<1>1. LaidOK /\ Good(now)
  BY TypeGood DEF IInv
<1>2. now.mods = mods /\ now.bits = bits /\ now.spells = spells /\ now.worn = worn
  BY DEF now
<1>3. Settled(Ons, u.mods, u.worn, u.spells) /\ AllHeld(Ons, u.worn, u.spells, u.bits \cup lapsed)
  <2>1. /\ Settled(Ons, now.mods, now.worn, now.spells)
        /\ AllHeld(Ons, now.worn, now.spells, now.bits \cup lapsed)
    BY <1>2 DEF IInv
  <2>2. QED  BY <2>1, <1>1, KeptSettled
<1>4. Ons' = Ons /\ LaidFits'
  BY DEF IInv, LaidFits, Ons, On, Own
<1>5. Settled(Ons, mods, worn, spells)' /\ AllHeld(Ons, worn, spells, bits \cup lapsed)'
  BY <1>3, <1>4, LapsedIs DEF Becomes, Settled, AllHeld
<1>6. TypeOK'
  <2>1. laid' \in [Items -> Seq(AffectData)] /\ TypeOK /\ Good(u) /\ UNCHANGED enchanted
    BY DEF IInv, TypeOK, Kept
  <2>2. QED  BY <2>1, BecomesIs
<1>7. (lapsed \cap AffBits = {})'
  BY LapsedIs DEF IInv
<1>8. QED  BY <1>4, <1>5, <1>6, <1>7 DEF IInv

LEMMA SameWhole ==
  ASSUME IInv, NEW u, u.spells = spells
  PROVE  Whole(u.spells)
BY DEF IInv, TypeOK, Whole

-----------------------------------------------------------------------------
(***************************************************************************)
(* The actions.                                                            *)
(***************************************************************************)
LEMMA NowIs ==
  /\ now.mods = mods /\ now.bits = bits /\ now.spells = spells /\ now.worn = worn
BY DEF now

LEMMA CountedWhole ==
  ASSUME IInv, NEW u, NEW t \in Spells, NEW n, Counted(now, u, t, n),
         Len(spells[t]) + n \in {0, Len(Effects[t])}
  PROVE  Whole(u.spells)
BY NowIs DEF IInv, TypeOK, Whole, Counted

LEMMA CastInv ==
  ASSUME IInv, NEW t \in Spells, Cast(t)
  PROVE  IInv'
<1>1. LaidOK /\ Good(now)
  BY TypeGood DEF IInv
<1>2. PICK affs : affs = Effects[t]
  OBVIOUS
<1>3. affs \in Seq(AffectData) /\ Len(affs) \in Nat
  BY <1>2, LenProperties, AffectsAssumption
<1>4. PICK g : Walks(g, "given", t, 0, now, affs) /\ GiveAll(now, t, affs) = g[Len(affs)]
  BY <1>3, GiveWalks
<1>5. PICK u : u = g[Len(affs)]
  OBVIOUS
<1>6. Becomes(u) /\ UNCHANGED <<enchanted, laid>> /\ spells[t] = << >>
  BY <1>2, <1>4, <1>5 DEF Cast
<1>7. Kept(now, u) /\ Counted(now, u, t, Len(affs))
  <2>1. PICK sign : sign = 1
    OBVIOUS
  <2>2. sign \in Signs /\ SpellStepRight("given", t, sign) /\ sign # -1
    BY <1>1, <2>1, GivenStep DEF Signs
  <2>3. Kept(now, u) /\ Counted(now, u, t, Signed(sign, Len(affs)))
    BY <1>1, <1>3, <1>4, <1>5, <2>2, SpellWalkRight
  <2>4. Signed(sign, Len(affs)) = Len(affs)
    BY <2>1 DEF Signed
  <2>5. QED  BY <2>3, <2>4
<1>8. Len(spells[t]) + Len(affs) = Len(Effects[t])
  BY <1>2, <1>3, <1>6
<1>9. Whole(u.spells)
  BY <1>7, <1>8, CountedWhole
<1>10. QED  BY <1>6, <1>7, <1>9, KeptStep

LEMMA StripInv ==
  ASSUME IInv, NEW t \in Spells, Strip(t)
  PROVE  IInv'
<1>1. LaidOK /\ Good(now)
  BY TypeGood DEF IInv
<1>2. PICK affs : affs = spells[t]
  OBVIOUS
<1>3. affs \in Seq(AffectData) /\ Len(affs) \in Nat
  BY <1>2, LenProperties DEF IInv, TypeOK
<1>4. PICK g : Walks(g, "taken", t, 0, now, affs) /\ TakeAll(now, t, affs) = g[Len(affs)]
  BY <1>3, TakeWalks
<1>5. PICK u : u = g[Len(affs)]
  OBVIOUS
<1>6. Becomes(u) /\ UNCHANGED <<enchanted, laid>>
  BY <1>2, <1>4, <1>5 DEF Strip
<1>7. Kept(now, u) /\ Counted(now, u, t, -Len(affs))
  <2>1. PICK sign : sign = -1
    OBVIOUS
  <2>2. sign \in Signs /\ SpellStepRight("taken", t, sign)
    BY <1>1, <2>1, TakenStep DEF Signs
  <2>a. sign = -1 => Len(now.spells[t]) >= Len(affs)
    BY <1>2, <1>3, NowIs
  <2>3. Kept(now, u) /\ Counted(now, u, t, Signed(sign, Len(affs)))
    BY <1>1, <1>3, <1>4, <1>5, <2>2, <2>a, SpellWalkRight
  <2>4. Signed(sign, Len(affs)) = -Len(affs)
    BY <2>1 DEF Signed
  <2>5. QED  BY <2>3, <2>4
<1>8. Len(spells[t]) + (-Len(affs)) = 0
  BY <1>2, <1>3
<1>9. Whole(u.spells)
  BY <1>7, <1>8, CountedWhole
<1>10. QED  BY <1>6, <1>7, <1>9, KeptStep

LEMMA JoinInv ==
  ASSUME IInv, NEW t \in Spells, Join(t)
  PROVE  IInv'
<1>1. LaidOK /\ Good(now)
  BY TypeGood DEF IInv
<1>2. PICK a : a = Effects[t][1]
  OBVIOUS
<1>3. a \in AffectData /\ Len(Effects[t]) = 1
  BY <1>2, ElementOfSeq, AffectsAssumption DEF Join
<1>4. UNCHANGED <<enchanted, laid>>
  BY DEF Join
<1>5. CASE spells[t] = << >>
  <2>1. PICK u : u = Give(now, t, a)
    OBVIOUS
  <2>2. Becomes(u)
    BY <1>2, <1>5, <2>1 DEF Join
  <2>3. Kept(now, u) /\ Counted(now, u, t, 1)
    BY <1>1, <1>3, <2>1, GiveRight
  <2>4. Len(spells[t]) + 1 = Len(Effects[t])
    BY <1>3, <1>5
  <2>5. Whole(u.spells)
    BY <2>3, <2>4, CountedWhole
  <2>6. QED  BY <1>4, <2>2, <2>3, <2>5, KeptStep
<1>6. CASE spells[t] # << >>
  <2>1. PICK n : n = a.mod + spells[t][1].mod
    OBVIOUS
  <2>2. PICK b : b = [a EXCEPT !.mod = n]
    OBVIOUS
  <2>3. PICK v : v = Take(now, t)
    OBVIOUS
  <2>4. PICK u : u = Give(v, t, b)
    OBVIOUS
  <2>5. Becomes(u) /\ n \in -MaxStack..MaxStack
    BY <1>2, <1>6, <2>1, <2>2, <2>3, <2>4 DEF Join
  <2>6. b \in AffectData
    <3>1. n \in Int
      BY <2>5, AffectsAssumption
    <3>2. QED  BY <3>1, <1>3, <2>2 DEF AffectData
  <2>7. Kept(now, v) /\ Counted(now, v, t, -1) /\ Good(v)
    BY <1>1, <1>6, <2>3, NowIs, TakeRight DEF Kept
  <2>8. Kept(v, u) /\ Counted(v, u, t, 1)
    BY <1>1, <2>4, <2>6, <2>7, GiveRight
  <2>9. Kept(now, u)
    BY <2>7, <2>8, KeptTwice
  <2>10. Len(spells[t]) = 1
    <3>1. spells[t] \in Seq(AffectData) /\ Len(spells[t]) \in {0, Len(Effects[t])}
      BY DEF IInv, TypeOK
    <3>2. QED  BY <3>1, <1>3, <1>6
  <2>11. Counted(now, u, t, 0)
    <3>1. Len(u.spells[t]) = Len(now.spells[t]) + 0
      BY <2>7, <2>8, <2>10, NowIs DEF Counted
    <3>2. QED  BY <3>1, <2>7, <2>8 DEF Counted
  <2>12. Whole(u.spells)
    BY <1>3, <2>10, <2>11, CountedWhole
  <2>13. QED  BY <1>4, <2>5, <2>9, <2>12, KeptStep
<1>7. QED  BY <1>5, <1>6

LEMMA RemovedRight ==
  ASSUME LaidOK, NEW s, Good(s), NEW loc \in Slots
  PROVE  Steady(s, Removed(s, loc)) /\ Good(Removed(s, loc))
<1>1. CASE At(s, loc) = {}
  <2>1. Turn(s, s, None0, {}, {}) /\ Fewer(s, s)
    BY TurnSame DEF Fewer
  <2>2. QED  BY <1>1, <2>1 DEF Removed, Steady
<1>2. CASE At(s, loc) # {}
  <2>1. PICK i : i = CHOOSE j \in At(s, loc) : TRUE
    OBVIOUS
  <2>2. i \in Items /\ IsWorn(s, i)
    BY <1>2, <2>1 DEF At, IsWorn, Slots
  <2>3. Removed(s, loc) = Unequip(s, i)
    BY <1>2, <2>1 DEF Removed
  <2>4. Removed(s, loc) = UnequipOf("applied", s, i)
    BY <2>3, BlocksAre
  <2>5. Steady(s, UnequipOf("applied", s, i))
    BY <2>2, AppliedStep, UnequipRight DEF Kinds
  <2>6. QED  BY <2>4, <2>5, SteadyIs
<1>3. QED  BY <1>1, <1>2

\* An item that is not worn is put on.
LEMMA EquipInv ==
  ASSUME IInv, NEW r, Steady(now, r), NEW i \in Items, ~IsWorn(now, i), NEW loc \in Slots,
         Fitting(i, loc), NEW u, u = EquipOf("applied", r, i, loc), Becomes(u), UNCHANGED <<enchanted, laid>>
  PROVE  IInv'
<1>1. LaidOK /\ Good(now)
  BY TypeGood DEF IInv
<1>2. Kept(now, r) /\ Good(r) /\ r.spells = spells
  BY <1>1, KeptSteady, SteadyIs, NowIs
<1>3. ~IsWorn(r, i)
  BY DEF Steady, Fewer
<1>4. Turn(r, u, None0, {}, {})
  <2>1. "applied" \in Kinds /\ StepRight("applied")
    BY <1>1, AppliedStep DEF Kinds
  <2>2. QED  BY <1>1, <1>2, <1>3, <2>1, EquipRight
<1>5. Kept(r, u) /\ u.spells = r.spells
  BY <1>1, <1>2, <1>4, KeptTurn
<1>6. Kept(now, u) /\ u.spells = spells
  BY <1>2, <1>5, KeptTwice
<1>7. Whole(u.spells)
  BY <1>6, SameWhole
<1>8. QED  BY <1>6, <1>7, KeptStep

LEMMA WearInv ==
  ASSUME IInv, NEW i \in Items, Wear(i)
  PROVE  IInv'
<1>1. LaidOK /\ Good(now)
  BY TypeGood DEF IInv
<1>2. UNCHANGED <<enchanted, laid>> /\ ~IsWorn(now, i)
  BY NowIs DEF Wear, IsWorn
<1>3. PICK r, loc :
        /\ r \in {now, Removed(now, "body"), Removed(now, "second")}
        /\ loc \in Slots /\ Fitting(i, loc) /\ Becomes(Equip(r, i, loc))
  BY DEF Wear, Slots, Fitting
<1>4. Steady(now, r)
  <2>1. Steady(now, now)
    <3>1. Turn(now, now, None0, {}, {}) /\ Fewer(now, now)
      BY <1>1, TurnSame DEF Fewer
    <3>2. QED  BY <3>1 DEF Steady
  <2>2. Steady(now, Removed(now, "body")) /\ Steady(now, Removed(now, "second"))
    BY <1>1, RemovedRight DEF Slots
  <2>3. QED  BY <1>3, <2>1, <2>2
<1>5. PICK u : u = EquipOf("applied", r, i, loc)
  OBVIOUS
<1>6. Becomes(u)
  <2>1. Equip(r, i, loc) = u
    BY <1>5, BlocksAre
  <2>2. QED  BY <2>1, <1>3
<1>7. QED  BY <1>2, <1>3, <1>4, <1>5, <1>6, EquipInv

\* Whatever is as far off as before keeps the invariant.
LEMMA SteadyInv ==
  ASSUME IInv, NEW u, Steady(now, u), Becomes(u), UNCHANGED <<enchanted, laid>>
  PROVE  IInv'
<1>1. LaidOK /\ Good(now)
  BY TypeGood DEF IInv
<1>2. Kept(now, u) /\ u.spells = spells
  BY <1>1, KeptSteady, NowIs
<1>3. Whole(u.spells)
  BY <1>2, SameWhole
<1>4. QED  BY <1>2, <1>3, KeptStep

LEMMA DoffInv ==
  ASSUME IInv, NEW i \in Items, Doff(i)
  PROVE  IInv'
<1>1. LaidOK /\ Good(now) /\ IsWorn(now, i) /\ UNCHANGED <<enchanted, laid>>
  BY TypeGood DEF IInv, Doff
<1>2. PICK u : u = UnequipOf("applied", now, i)
  OBVIOUS
<1>3. Unequip(now, i) = u
  BY <1>2, BlocksAre
<1>4. Becomes(u)
  BY <1>3 DEF Doff
<1>5. Steady(now, u)
  BY <1>1, <1>2, AppliedStep, UnequipRight DEF Kinds
<1>6. QED  BY <1>1, <1>4, <1>5, SteadyInv

LEMMA LoseInv ==
  ASSUME IInv, NEW i \in Items, Lose(i)
  PROVE  IInv'
<1>1. LaidOK /\ Good(now) /\ now.worn[i] # "lost" /\ UNCHANGED <<enchanted, laid>>
  BY TypeGood, NowIs DEF IInv, Lose
<1>2. PICK u : u = FallOf("applied", now, i)
  OBVIOUS
<1>3. Fall(now, i) = u
  BY <1>2, BlocksAre
<1>4. Becomes(u)
  BY <1>3 DEF Lose
<1>5. Steady(now, u)
  BY <1>1, <1>2, AppliedStep, FallRight DEF Kinds
<1>6. QED  BY <1>1, <1>4, <1>5, SteadyInv

LEMMA GetInv ==
  ASSUME IInv, NEW i \in Items, Get(i)
  PROVE  IInv'
<1>1. LaidOK /\ Good(now) /\ ~IsWorn(now, i) /\ UNCHANGED <<enchanted, laid>>
  BY TypeGood, NowIs DEF IInv, Get, IsWorn
<1>2. PICK u : u = Place(now, i, "none")
  OBVIOUS
<1>3. Becomes(u)
  BY <1>2 DEF Get
<1>4. Steady(now, u)
  BY <1>1, <1>2, PlaceSteady
<1>5. QED  BY <1>1, <1>3, <1>4, SteadyInv

-----------------------------------------------------------------------------
(***************************************************************************)
(* The actions that change what is laid on an item.                        *)
(***************************************************************************)
\* The affects of the two lists are the same but for the one put in.
LEMMA PutInMembers ==
  ASSUME NEW affs, NEW bs, NEW m, PutIn(affs, bs, m)
  PROVE  /\ m \in DOMAIN affs /\ affs[m] \in AffectData
         /\ \A k \in DOMAIN affs : k = m \/ \E j \in DOMAIN bs : bs[j] = affs[k]
         /\ \A j \in DOMAIN bs : \E k \in DOMAIN affs : affs[k] = bs[j]
<1>1. /\ DOMAIN affs = 1..Len(affs) /\ DOMAIN bs = 1..Len(bs) /\ Len(bs) \in Nat
      /\ Len(affs) = Len(bs) + 1 /\ m \in 1..Len(affs)
      /\ \A k \in 1..Len(bs) : bs[k] = affs[Behind(m, k)]
  BY LenProperties DEF PutIn
<1>2. affs[m] \in AffectData
  BY PartsOfIs DEF PutIn
<1>3. ASSUME NEW k \in DOMAIN affs, k # m
      PROVE  \E j \in DOMAIN bs : bs[j] = affs[k]
  <2>1. CASE k < m
    <3>1. k \in 1..Len(bs) /\ Behind(m, k) = k
      BY <1>1, <2>1 DEF Behind
    <3>2. bs[k] = affs[k]
      BY <3>1, <1>1
    <3>3. QED  BY <3>1, <3>2, <1>1
  <2>2. CASE ~(k < m)
    <3>1. k - 1 \in 1..Len(bs) /\ Behind(m, k - 1) = k
      BY <1>1, <1>3, <2>2 DEF Behind
    <3>2. bs[k - 1] = affs[k]
      BY <3>1, <1>1
    <3>3. QED  BY <3>1, <3>2, <1>1
  <2>3. QED  BY <2>1, <2>2
<1>4. ASSUME NEW j \in DOMAIN bs
      PROVE  \E k \in DOMAIN affs : affs[k] = bs[j]
  <2>1. Behind(m, j) \in DOMAIN affs /\ bs[j] = affs[Behind(m, j)]
    BY <1>1 DEF Behind
  <2>2. QED  BY <2>1
<1>5. QED  BY <1>1, <1>2, <1>3, <1>4

\* An affect put in is put in too where others stay in front.
PutInto(ns, affs, bs, m) ==
  \E k : PutIn(ns \o affs, ns \o bs, k) /\ (ns \o affs)[k] = affs[m]

LEMMA PutInBehind ==
  ASSUME NEW ns \in Seq(AffectData), NEW affs, NEW bs, NEW m, PutIn(affs, bs, m)
  PROVE  PutInto(ns, affs, bs, m)
<1>1. PICK S : S = AffectData
  OBVIOUS
<1>2. /\ ns \in Seq(S) /\ affs \in Seq(S) /\ bs \in Seq(S)
      /\ Len(affs) = Len(bs) + 1 /\ m \in 1..Len(affs) /\ Len(ns) \in Nat /\ Len(bs) \in Nat
      /\ \A k \in 1..Len(bs) : bs[k] = affs[Behind(m, k)]
  BY <1>1, LenProperties DEF PutIn
<1>3. PICK cs : cs = ns \o bs
  OBVIOUS
<1>4. PICK ds : ds = ns \o affs
  OBVIOUS
<1>5. /\ cs \in Seq(S) /\ ds \in Seq(S)
      /\ Len(cs) = Len(ns) + Len(bs) /\ Len(ds) = Len(cs) + 1
      /\ \A k \in 1..Len(cs) : cs[k] = IF k <= Len(ns) THEN ns[k] ELSE bs[k - Len(ns)]
      /\ \A k \in 1..Len(ds) : ds[k] = IF k <= Len(ns) THEN ns[k] ELSE affs[k - Len(ns)]
  <2>1. ns \in Seq(S) /\ affs \in Seq(S) /\ bs \in Seq(S)
    BY <1>2
  <2>2. /\ ds \in Seq(S) /\ Len(ds) = Len(ns) + Len(affs)
        /\ \A k \in 1..Len(ds) : ds[k] = IF k <= Len(ns) THEN ns[k] ELSE affs[k - Len(ns)]
    BY <2>1, <1>4, ConcatProperties
  <2>3. /\ cs \in Seq(S) /\ Len(cs) = Len(ns) + Len(bs)
        /\ \A k \in 1..Len(cs) : cs[k] = IF k <= Len(ns) THEN ns[k] ELSE bs[k - Len(ns)]
    BY <2>1, <1>3, ConcatProperties
  <2>4. Len(ns) + (Len(bs) + 1) = (Len(ns) + Len(bs)) + 1
    BY <1>2
  <2>5. QED  BY <2>2, <2>3, <2>4, <1>2
<1>6. PICK p : p = Len(ns) + m
  OBVIOUS
<1>7. p \in 1..Len(ds) /\ ds[p] = affs[m]
  <2>1. p \in 1..Len(ds) /\ ~(p <= Len(ns)) /\ p - Len(ns) = m
    BY <1>2, <1>5, <1>6
  <2>2. QED  BY <2>1, <1>5
<1>8. ASSUME NEW k \in 1..Len(cs)
      PROVE  cs[k] = ds[Behind(p, k)]
  <2>1. CASE k <= Len(ns)
    <3>1. Behind(p, k) = k /\ k \in 1..Len(ds)
      BY <2>1, <1>2, <1>5, <1>6 DEF Behind
    <3>2. QED  BY <3>1, <2>1, <1>5
  <2>2. CASE ~(k <= Len(ns))
    <3>1. PICK j : j = k - Len(ns)
      OBVIOUS
    <3>2. j \in 1..Len(bs)
      BY <3>1, <2>2, <1>2, <1>5
    <3>3. cs[k] = bs[j]
      BY <3>1, <2>2, <1>5
    <3>4. bs[j] = affs[Behind(m, j)]
      BY <3>2, <1>2
    <3>5. Behind(p, k) = Len(ns) + Behind(m, j) /\ Behind(m, j) \in 1..Len(affs)
      BY <3>1, <3>2, <1>2, <1>5, <1>6 DEF Behind
    <3>6. PICK q : q = Len(ns) + Behind(m, j)
      OBVIOUS
    <3>7. q \in 1..Len(ds) /\ ~(q <= Len(ns)) /\ q - Len(ns) = Behind(m, j)
      BY <3>5, <3>6, <1>2, <1>5
    <3>8. ds[q] = affs[Behind(m, j)]
      BY <3>7, <1>5
    <3>9. QED  BY <3>3, <3>4, <3>5, <3>6, <3>8
  <2>3. QED  BY <2>1, <2>2
<1>9. PutIn(ds, cs, p)
  BY <1>1, <1>5, <1>7, <1>8 DEF PutIn
<1>10. QED  BY <1>3, <1>4, <1>7, <1>9 DEF PutInto

LEMMA PutInRemove ==
  ASSUME NEW affs \in Seq(AffectData), NEW m \in 1..Len(affs)
  PROVE  PutIn(affs, RemoveAt(affs, m), m)
<1>1. PICK S : S = AffectData
  OBVIOUS
<1>2. affs \in Seq(S) /\ Len(affs) \in Nat /\ m \in 1..Len(affs)
  BY <1>1, LenProperties
<1>3. PICK bs : bs = SubSeq(affs, 1, m - 1)
  OBVIOUS
<1>4. PICK cs : cs = SubSeq(affs, m + 1, Len(affs))
  OBVIOUS
<1>5. /\ bs \in Seq(S) /\ Len(bs) = m - 1 /\ \A k \in 1..(m - 1) : bs[k] = affs[k]
  BY <1>2, <1>3
<1>6. /\ cs \in Seq(S) /\ Len(cs) = Len(affs) - m
      /\ \A k \in 1..(Len(affs) - m) : cs[k] = affs[m + k]
  BY <1>2, <1>4
<1>7. PICK ds : ds = bs \o cs
  OBVIOUS
<1>8. /\ ds \in Seq(S) /\ Len(ds) = Len(bs) + Len(cs)
      /\ \A k \in 1..Len(ds) : ds[k] = IF k <= Len(bs) THEN bs[k] ELSE cs[k - Len(bs)]
  <2>1. bs \in Seq(S) /\ cs \in Seq(S)
    BY <1>5, <1>6
  <2>2. QED  BY <2>1, <1>7, ConcatProperties
<1>9. ds = RemoveAt(affs, m)
  BY <1>3, <1>4, <1>7 DEF RemoveAt
<1>10. Len(affs) = Len(ds) + 1
  BY <1>2, <1>5, <1>6, <1>8
<1>11. ASSUME NEW k \in 1..Len(ds)
       PROVE  ds[k] = affs[Behind(m, k)]
  <2>1. CASE k < m
    <3>1. k \in 1..(m - 1) /\ k <= Len(bs) /\ Behind(m, k) = k
      BY <2>1, <1>2, <1>5, <1>10 DEF Behind
    <3>2. QED  BY <3>1, <1>5, <1>8
  <2>2. CASE ~(k < m)
    <3>1. PICK j : j = k - Len(bs)
      OBVIOUS
    <3>2. j \in 1..(Len(affs) - m) /\ ~(k <= Len(bs)) /\ Behind(m, k) = m + j
      BY <2>2, <3>1, <1>2, <1>5, <1>10 DEF Behind
    <3>3. QED  BY <3>1, <3>2, <1>6, <1>8
  <2>3. QED  BY <2>1, <2>2
<1>12. PutIn(affs, ds, m)
  BY <1>1, <1>2, <1>8, <1>10, <1>11 DEF PutIn
<1>13. QED  BY <1>9, <1>12

\* What the items do when worn, for what is laid on them.
OnsOf(n, l) == [i \in Items |-> n[i] \o l[i]]

\* The lists of om are those of on, but one affect more of one item.
Inserted(on, om, i, a) ==
  /\ on \in Lists /\ om \in Lists /\ a \in AffectData
  /\ \A j \in Items \ {i} : om[j] = on[j]
  /\ \E k : PutIn(om[i], on[i], k) /\ om[i][k] = a

LEMMA LaidInserted ==
  ASSUME NEW n \in Lists, NEW l \in Lists, NEW m \in Lists, NEW i \in Items,
         \A j \in Items \ {i} : m[j] = l[j],
         NEW k, PutIn(m[i], l[i], k)
  PROVE  Inserted(OnsOf(n, l), OnsOf(n, m), i, m[i][k])
<1>1. \A j \in Items : n[j] \in Seq(AffectData)
  BY DEF Lists
<1>2. \A j \in Items : l[j] \in Seq(AffectData) /\ m[j] \in Seq(AffectData)
  BY DEF Lists
<1>3. \A j \in Items : n[j] \o l[j] \in Seq(AffectData) /\ n[j] \o m[j] \in Seq(AffectData)
  BY <1>1, <1>2, ConcatProperties
<1>4. OnsOf(n, l) \in Lists /\ OnsOf(n, m) \in Lists
  BY <1>3 DEF OnsOf, Lists
<1>5. \A j \in Items \ {i} : OnsOf(n, m)[j] = OnsOf(n, l)[j]
  BY DEF OnsOf
<1>6. PICK ns : ns = n[i]
  OBVIOUS
<1>7. ns \in Seq(AffectData)
  BY <1>1, <1>6
<1>8. PutInto(ns, m[i], l[i], k)
  BY <1>7, PutInBehind
<1>9. OnsOf(n, m)[i] = ns \o m[i] /\ OnsOf(n, l)[i] = ns \o l[i]
  BY <1>6 DEF OnsOf
<1>10. m[i][k] \in AffectData
  BY PutInMembers
<1>11. QED  BY <1>4, <1>5, <1>8, <1>9, <1>10 DEF Inserted, PutInto

LEMMA InsertedSum ==
  ASSUME NEW on, NEW om, NEW i \in Items, NEW a, Inserted(on, om, i, a), NEW w, NEW f
  PROVE  /\ WornSum(on, w, f) \in Int /\ Part(a, App(w[i]), f) \in Int
         /\ WornSum(om, w, f) =
              WornSum(on, w, f) + IF w[i] \in {"none", "lost"} THEN 0 ELSE Part(a, App(w[i]), f)
<1>1. /\ on \in Lists /\ om \in Lists /\ a \in AffectData
      /\ \A j \in Items \ {i} : om[j] = on[j]
  BY DEF Inserted
<1>2. PICK k : PutIn(om[i], on[i], k) /\ om[i][k] = a
  BY DEF Inserted
<1>3. Amount(om[i], App(w[i]), f) = Amount(on[i], App(w[i]), f) + Part(a, App(w[i]), f)
  BY <1>2, AmountInsert
<1>4. /\ WornSum(on, w, f) \in Int /\ Part(a, App(w[i]), f) \in Int
      /\ Due(om[i], w[i], f) \in Int /\ Due(on[i], w[i], f) \in Int
      /\ Amount(on[i], App(w[i]), f) \in Int
  BY <1>1, WornSumInt, PartInt, DueInt, AmountIs DEF Lists
<1>5. WornSum(om, w, f) = WornSum(on, w, f) + (Due(om[i], w[i], f) - Due(on[i], w[i], f))
  <2>1. PICK v : v = w
    OBVIOUS
  <2>2. \A j \in Items \ {i} : on[j] = om[j] /\ w[j] = v[j]
    BY <1>1, <2>1
  <2>3. WornSum(om, v, f) = WornSum(on, w, f) + (Due(om[i], v[i], f) - Due(on[i], w[i], f))
    BY <1>1, <2>2, WornSumChange
  <2>4. QED  BY <2>1, <2>3
<1>6. Due(om[i], w[i], f) - Due(on[i], w[i], f)
        = IF w[i] \in {"none", "lost"} THEN 0 ELSE Part(a, App(w[i]), f)
  BY <1>3, <1>4 DEF Due
<1>7. QED  BY <1>4, <1>5, <1>6

LEMMA InsertedGiven ==
  ASSUME NEW on, NEW om, NEW i \in Items, NEW a, Inserted(on, om, i, a), NEW w, NEW sp, NEW b
  PROVE  /\ GivenBy(om, w, sp, b) => GivenBy(on, w, sp, b) \/ b = a.bit
         /\ GivenBy(on, w, sp, b) => GivenBy(om, w, sp, b)
<1>1. PICK k : PutIn(om[i], on[i], k) /\ om[i][k] = a
  BY DEF Inserted
<1>2. /\ \A j \in DOMAIN om[i] : j = k \/ \E h \in DOMAIN on[i] : on[i][h] = om[i][j]
      /\ \A h \in DOMAIN on[i] : \E j \in DOMAIN om[i] : om[i][j] = on[i][h]
  BY <1>1, PutInMembers
<1>3. BitsOf(om[i]) \subseteq BitsOf(on[i]) \cup {a.bit} /\ BitsOf(on[i]) \subseteq BitsOf(om[i])
  BY <1>1, <1>2 DEF BitsOf
<1>4. \A j \in Items \ {i} : om[j] = on[j]
  BY DEF Inserted
<1>5. QED  BY <1>3, <1>4 DEF GivenBy

\* An affect that gives no bit and is not for an attribute that counts.
LEMMA InsertedSame ==
  ASSUME NEW on, NEW om, NEW i \in Items, NEW a, Inserted(on, om, i, a),
         a.loc = "saves", a.bit = None, NEW m, NEW w, NEW sp, NEW bs
  PROVE  /\ Settled(on, m, w, sp) <=> Settled(om, m, w, sp)
         /\ AllHeld(on, w, sp, bs) <=> AllHeld(om, w, sp, bs)
<1>1. \A f \in Totals \ {"saves"} : \A app : Part(a, app, f) = 0
  BY DEF Part, Totals
<1>2. ASSUME NEW f \in Totals \ {"saves"}
      PROVE  WornSum(om, w, f) = WornSum(on, w, f)
  BY <1>1, InsertedSum
<1>3. \A b : b # None => (GivenBy(om, w, sp, b) <=> GivenBy(on, w, sp, b))
  BY InsertedGiven
<1>4. QED  BY <1>2, <1>3 DEF Settled, AllHeld

LEMMA LaidInsert ==
  ASSUME NEW affs, NEW bs, NEW m, PutIn(affs, bs, m)
  PROVE  /\ LaidAre(affs) => LaidAre(bs)
         /\ LaidAre(bs) /\ Lays(affs[m]) => LaidAre(affs)
<1>1. /\ \A k \in DOMAIN affs : k = m \/ \E j \in DOMAIN bs : bs[j] = affs[k]
      /\ \A j \in DOMAIN bs : \E k \in DOMAIN affs : affs[k] = bs[j]
  BY PutInMembers
<1>2. LaidAre(affs) => LaidAre(bs)
  BY <1>1 DEF LaidAre
<1>3. QED  BY <1>1, <1>2 DEF LaidAre

\* What is not copied yet.
Owns == [i \in Items |-> Own(i)]

LEMMA OwnsOK ==
  Owns \in Lists
<1>1. << >> \in Seq(AffectData)
  OBVIOUS
<1>2. QED  BY <1>1, AffectsAssumption DEF Owns, Own, Lists

LEMMA OnsIs ==
  Ons = OnsOf(Owns, laid) /\ Ons' = OnsOf(Owns', laid')
BY DEF Ons, On, OnsOf, Owns

\* An affect is laid on an item, and one goes from it.
PutOn(l, m, i, a) == m = [l EXCEPT ![i] = <<a>> \o l[i]]
GoneFrom(l, m, i, k) == m = [l EXCEPT ![i] = RemoveAt(l[i], k)]

\* The lists of m are those of l, but one affect more of one item.
OneMore(n, l, m, i, k, a) ==
  /\ l \in Lists /\ m \in Lists /\ PutIn(m[i], l[i], k) /\ m[i][k] = a
  /\ \A j \in Items \ {i} : m[j] = l[j]
  /\ Inserted(OnsOf(n, l), OnsOf(n, m), i, a)

LEMMA LaidFront ==
  ASSUME NEW n \in Lists, NEW l \in Lists, NEW i \in Items, NEW a \in AffectData, NEW m, PutOn(l, m, i, a)
  PROVE  OneMore(n, l, m, i, 1, a)
<1>1. PICK affs : affs = l[i]
  OBVIOUS
<1>2. affs \in Seq(AffectData)
  BY <1>1 DEF Lists
<1>3. PICK bs : bs = <<a>> \o affs
  OBVIOUS
<1>4. bs \in Seq(AffectData) /\ PutIn(bs, affs, 1) /\ bs[1] = a
  BY <1>2, <1>3, PutInFront
<1>5. m = [l EXCEPT ![i] = bs]
  BY <1>1, <1>3 DEF PutOn
<1>6. m \in Lists /\ m[i] = bs /\ \A j \in Items \ {i} : m[j] = l[j]
  BY <1>4, <1>5 DEF Lists
<1>7. Inserted(OnsOf(n, l), OnsOf(n, m), i, a)
  <2>1. PICK k : k = 1
    OBVIOUS
  <2>2. PutIn(m[i], l[i], k) /\ m[i][k] = a
    BY <1>1, <1>4, <1>6, <2>1
  <2>3. Inserted(OnsOf(n, l), OnsOf(n, m), i, m[i][k])
    BY <1>6, <2>2, LaidInserted
  <2>4. QED  BY <2>2, <2>3
<1>8. QED  BY <1>1, <1>4, <1>6, <1>7 DEF OneMore

LEMMA LaidGone ==
  ASSUME NEW n \in Lists, NEW l \in Lists, NEW i \in Items, NEW k \in DOMAIN l[i], NEW m, GoneFrom(l, m, i, k)
  PROVE  OneMore(n, m, l, i, k, l[i][k])
<1>1. PICK affs : affs = l[i]
  OBVIOUS
<1>2. affs \in Seq(AffectData) /\ k \in 1..Len(affs)
  BY <1>1, LenProperties DEF Lists
<1>3. PICK bs : bs = RemoveAt(affs, k)
  OBVIOUS
<1>4. PutIn(affs, bs, k) /\ bs \in Seq(AffectData)
  BY <1>2, <1>3, PutInRemove DEF PutIn
<1>5. m = [l EXCEPT ![i] = bs]
  BY <1>1, <1>3 DEF GoneFrom
<1>6. m \in Lists /\ m[i] = bs /\ \A j \in Items \ {i} : m[j] = l[j]
  BY <1>4, <1>5 DEF Lists
<1>7. PutIn(l[i], m[i], k) /\ \A j \in Items \ {i} : l[j] = m[j]
  BY <1>1, <1>4, <1>6
<1>8. Inserted(OnsOf(n, m), OnsOf(n, l), i, l[i][k])
  BY <1>6, <1>7, LaidInserted
<1>9. QED  BY <1>6, <1>7, <1>8 DEF OneMore

LEMMA LaidLists ==
  ASSUME IInv
  PROVE  laid \in Lists /\ Owns \in Lists /\ Settled(OnsOf(Owns, laid), mods, worn, spells)
         /\ AllHeld(OnsOf(Owns, laid), worn, spells, bits \cup lapsed)
BY OnsIs, OwnsOK DEF IInv, TypeOK, Lists

LEMMA BlessInv ==
  ASSUME IInv, NEW i \in Items, NEW t \in {"bless", "curse"}, NEW n \in Int, Bless(i, t, n)
  PROVE  IInv'
<1>1. PICK a : a = Blessing(t, n)
  OBVIOUS
<1>2. a \in AffectData /\ a.loc = "saves" /\ a.bit = None
  BY <1>1 DEF Blessing, AffectData
<1>3. PICK l, ow : l = laid /\ ow = Owns
  OBVIOUS
<1>4. PICK m : m = laid'
  OBVIOUS
<1>5. PutOn(l, m, i, a) /\ UNCHANGED <<mods, bits, spells, enchanted, worn, lapsed>> /\ Owns' = ow
  BY <1>1, <1>3, <1>4 DEF Bless, PutOn, Owns, Own
<1>6. /\ l \in Lists /\ ow \in Lists /\ Settled(OnsOf(ow, l), mods, worn, spells)
      /\ AllHeld(OnsOf(ow, l), worn, spells, bits \cup lapsed)
  BY <1>3, LaidLists
<1>7. /\ m \in Lists /\ PutIn(m[i], l[i], 1) /\ m[i][1] = a
      /\ \A j \in Items \ {i} : m[j] = l[j]
      /\ Inserted(OnsOf(ow, l), OnsOf(ow, m), i, a)
  <2>1. OneMore(ow, l, m, i, 1, a)
    BY <1>2, <1>5, <1>6, LaidFront
  <2>2. QED  BY <2>1 DEF OneMore
<1>8. Settled(OnsOf(ow, m), mods, worn, spells) /\ AllHeld(OnsOf(ow, m), worn, spells, bits \cup lapsed)
  BY <1>2, <1>6, <1>7, InsertedSame
<1>9. LaidFits'
  <2>1. \A j \in Items : LaidAre(l[j])
    BY <1>3 DEF IInv, LaidFits
  <2>2. PICK k : k = 1
    OBVIOUS
  <2>3. PutIn(m[i], l[i], k) /\ m[i][k] = a
    BY <1>7, <2>2
  <2>4. LaidAre(m[i])
    BY <1>2, <2>1, <2>3, LaidInsert DEF Lays
  <2>5. \A j \in Items : LaidAre(m[j])
    BY <1>7, <2>1, <2>4
  <2>6. QED  BY <2>5, <1>4 DEF LaidFits
<1>10. TypeOK'
  BY <1>4, <1>5, <1>7 DEF IInv, TypeOK, Lists
<1>11. Settled(Ons, mods, worn, spells)' /\ AllHeld(Ons, worn, spells, bits \cup lapsed)'
  BY <1>4, <1>5, <1>8, OnsIs DEF Settled, AllHeld
<1>12. QED  BY <1>5, <1>9, <1>10, <1>11 DEF IInv

LEMMA FadeInv ==
  ASSUME IInv, NEW i \in Items, NEW t \in {"bless", "curse"}, Fade(i, t)
  PROVE  IInv'
<1>1. LaidOK /\ Good(now)
  BY TypeGood DEF IInv
<1>2. PICK k : k = CHOOSE j \in Laid(i, t) : TRUE
  OBVIOUS
<1>3. k \in DOMAIN laid[i] /\ laid[i][k].type = t
  BY <1>2 DEF Fade, Laid
<1>4. PICK a : a = laid[i][k]
  OBVIOUS
<1>5. a \in AffectData /\ a.loc = "saves" /\ a.bit = None
  <2>1. LaidAre(laid[i]) /\ laid[i] \in Seq(AffectData)
    BY DEF IInv, TypeOK, LaidFits
  <2>2. a.loc = "saves" /\ a.bit = None
    BY <2>1, <1>3, <1>4 DEF LaidAre, Lays
  <2>3. k \in 1..Len(laid[i])
    BY <2>1, <1>3, LenProperties
  <2>4. a \in AffectData
    BY <2>1, <2>3, <1>4, PartsOfIs
  <2>5. QED  BY <2>2, <2>4
<1>6. PICK u : u = IF IsWorn(now, i) THEN Apply(now, a, -1, "both") ELSE now
  OBVIOUS
<1>7. PICK l, ow : l = laid /\ ow = Owns
  OBVIOUS
<1>8. PICK m : m = laid'
  OBVIOUS
<1>9. Becomes(u) /\ GoneFrom(l, m, i, k) /\ UNCHANGED enchanted /\ Owns' = ow
  BY <1>2, <1>4, <1>6, <1>7, <1>8 DEF Fade, GoneFrom, Owns, Own
<1>10. l \in Lists /\ ow \in Lists
  BY <1>7, LaidLists
<1>11. /\ m \in Lists /\ PutIn(l[i], m[i], k) /\ \A j \in Items \ {i} : m[j] = l[j]
       /\ Inserted(OnsOf(ow, m), OnsOf(ow, l), i, a)
  <2>1. OneMore(ow, m, l, i, k, l[i][k])
    BY <1>3, <1>7, <1>9, <1>10, LaidGone
  <2>2. QED  BY <2>1, <1>4, <1>7 DEF OneMore
<1>12. /\ Good(u) /\ u.spells = spells
       /\ Settled(OnsOf(ow, l), u.mods, u.worn, u.spells)
       /\ AllHeld(OnsOf(ow, l), u.worn, u.spells, u.bits \cup lapsed)
  <2>1. CASE ~IsWorn(now, i)
    BY <2>1, <1>1, <1>6, <1>7, NowIs, LaidLists
  <2>2. CASE IsWorn(now, i)
    <3>1. PICK sign : sign = -1
      OBVIOUS
    <3>2. sign \in Signs /\ u = Apply(now, a, sign, "both")
      BY <2>2, <3>1, <1>6 DEF Signs
    <3>3. ModifyRight(now, u, sign, a, "both")
      BY <1>1, <1>5, <3>2, ApplyRight
    <3>4. Turn(now, u, PartVec(sign, a, "both"), {}, {a.bit})
      BY <3>1, <3>3 DEF ModifyRight
    <3>5. Good(u) /\ u.spells = spells
      BY <3>4, NowIs DEF Turn
    <3>6. \A f \in Totals \ {"saves"} : Off(u, f) = 0
      <4> TAKE f \in Totals \ {"saves"}
      <4>1. Off(now, f) = 0
        <5>1. Settled(Ons, now.mods, now.worn, now.spells)
          BY NowIs DEF IInv
        <5>2. QED  BY <5>1, <1>1, SettledIs
      <4>2. Part(a, "both", f) = 0
        BY <1>5 DEF Part, Totals
      <4>3. Off(u, f) = Off(now, f) + Signed(sign, Part(a, "both", f))
        BY <3>4 DEF Turn, OffBy, PartVec
      <4>4. \A n \in Int : n <= 0 /\ n >= 0 => Signed(sign, n) = 0
        BY DEF Signed
      <4>5. Signed(sign, Part(a, "both", f)) = 0
        BY <4>2, <4>4
      <4>6. QED  BY <4>1, <4>3, <4>5
    <3>7. Held(u, lapsed)
      <4>1. Held(now, lapsed)
        <5>1. AllHeld(Ons, now.worn, now.spells, now.bits \cup lapsed)
          BY NowIs DEF IInv
        <5>2. QED  BY <5>1, <1>1, SettledIs
      <4>2. PICK B : B = {}
        OBVIOUS
      <4>3. PICK C : C = {None}
        OBVIOUS
      <4>4. HeldBy(now, u, B, C) /\ Held(now, lapsed \cup B)
        BY <3>4, <4>1, <4>2, <4>3, <1>5 DEF Turn
      <4>5. Held(u, lapsed \cup C)
        BY <4>4, HeldOn
      <4>6. QED  BY <4>3, <4>5 DEF Held
    <3>8. Settled(Ons, u.mods, u.worn, u.spells) /\ AllHeld(Ons, u.worn, u.spells, u.bits \cup lapsed)
      BY <3>5, <3>6, <3>7, <1>1, SettledIs
    <3>9. QED  BY <3>5, <3>8, <1>7, OnsIs
  <2>3. QED  BY <2>1, <2>2
<1>13. Settled(OnsOf(ow, m), u.mods, u.worn, u.spells) /\ AllHeld(OnsOf(ow, m), u.worn, u.spells, u.bits \cup lapsed)
  BY <1>5, <1>11, <1>12, InsertedSame
<1>14. LaidFits'
  <2>1. \A j \in Items : LaidAre(l[j])
    BY <1>7 DEF IInv, LaidFits
  <2>2. LaidAre(m[i])
    BY <1>11, <2>1, LaidInsert
  <2>3. \A j \in Items : LaidAre(m[j])
    BY <1>11, <2>1, <2>2
  <2>4. QED  BY <2>3, <1>8 DEF LaidFits
<1>15. TypeOK'
  <2>1. Whole(u.spells)
    BY <1>12, SameWhole
  <2>2. laid' \in [Items -> Seq(AffectData)] /\ TypeOK
    BY <1>8, <1>11 DEF IInv, Lists
  <2>3. QED  BY <2>1, <2>2, <1>9, <1>12, BecomesIs
<1>16. Settled(Ons, mods, worn, spells)' /\ AllHeld(Ons, worn, spells, bits \cup lapsed)'
  BY <1>8, <1>9, <1>13, OnsIs, LapsedIs DEF Settled, AllHeld, Becomes
<1>17. (lapsed \cap AffBits = {})'
  BY <1>9, LapsedIs DEF IInv
<1>18. QED  BY <1>14, <1>15, <1>16, <1>17 DEF IInv

\* The affects that are copied are a walk too.
CopyWalk(g, affs, rest) ==
  g = [k \in 0..Len(affs) |->
         IF k = 0 THEN rest
         ELSE IF affs[k].type = "acid" THEN g[k - 1] ELSE <<affs[k]>> \o g[k - 1]]

LEMMA CopyWalks ==
  ASSUME NEW affs \in Seq(AffectData), NEW rest
  PROVE  \E g : Walks(g, "copied", 0, 0, rest, affs) /\ Copied(affs, rest) = g[Len(affs)]
<1>1. Copied(affs, rest) = (CHOOSE g : CopyWalk(g, affs, rest))[Len(affs)]
  BY DEF Copied, Along, CopyWalk
<1>2. Len(affs) \in Nat
  BY LenProperties
<1>3. \A g : IsWalk(g, "copied", 0, 0, rest, affs, Len(affs)) <=> CopyWalk(g, affs, rest)
  BY DEF IsWalk, CopyWalk, Step
<1>4. PICK h : CopyWalk(h, affs, rest)
  BY <1>2, <1>3, WalkExists
<1>5. PICK u : u = (CHOOSE g : CopyWalk(g, affs, rest))
  OBVIOUS
<1>6. CopyWalk(u, affs, rest)
  BY <1>4, <1>5
<1>7. Walks(u, "copied", 0, 0, rest, affs)
  BY <1>3, <1>6, WalkWalks
<1>8. QED  BY <1>1, <1>5, <1>7

Members(affs) == {affs[k] : k \in DOMAIN affs}
NoAcid(affs) == \A k \in DOMAIN affs : affs[k].type # "acid"

LEMMA FrontMembers ==
  ASSUME NEW a \in AffectData, NEW affs \in Seq(AffectData)
  PROVE  Members(<<a>> \o affs) \subseteq Members(affs) \cup {a}
<1>1. PICK m, bs : m = 1 /\ bs = <<a>> \o affs
  OBVIOUS
<1>2. PutIn(bs, affs, m) /\ bs[m] = a
  BY <1>1, PutInFront
<1>3. \A k \in DOMAIN bs : k = m \/ \E j \in DOMAIN affs : affs[j] = bs[k]
  BY <1>2, PutInMembers
<1>4. QED  BY <1>1, <1>2, <1>3 DEF Members

LEMMA FrontAmount ==
  ASSUME NEW a \in AffectData, NEW affs \in Seq(AffectData), NEW app, NEW f
  PROVE  /\ <<a>> \o affs \in Seq(AffectData)
         /\ Amount(<<a>> \o affs, app, f) = Amount(affs, app, f) + Part(a, app, f)
<1>1. PICK m, bs : m = 1 /\ bs = <<a>> \o affs
  OBVIOUS
<1>2. PutIn(bs, affs, m) /\ bs[m] = a /\ bs \in Seq(AffectData)
  BY <1>1, PutInFront
<1>3. Amount(bs, app, f) = Amount(affs, app, f) + Part(bs[m], app, f)
  BY <1>2, AmountInsert
<1>4. Amount(bs, app, f) = Amount(affs, app, f) + Part(a, app, f)
  BY <1>2, <1>3
<1>5. QED  BY <1>1, <1>2, <1>4

\* How far a list has been copied.
CopiedTo(g, affs, rest, k) ==
  /\ g[k] \in Seq(AffectData)
  /\ Members(g[k]) \subseteq Members(affs) \cup Members(rest)
  /\ NoAcid(affs) => \A app, f : Amount(g[k], app, f) = Amount(rest, app, f) + UpTo(affs, k, app, f)

LEMMA CopiedNext ==
  ASSUME NEW affs \in Seq(AffectData), NEW rest \in Seq(AffectData), NEW g,
         Walks(g, "copied", 0, 0, rest, affs), NEW k \in 1..Len(affs),
         CopiedTo(g, affs, rest, k - 1)
  PROVE  CopiedTo(g, affs, rest, k)
<1>1. PICK a, u, v : a = affs[k] /\ u = g[k - 1] /\ v = g[k]
  OBVIOUS
<1>2. a \in AffectData /\ u \in Seq(AffectData) /\ k \in DOMAIN affs
  <2>1. DOMAIN affs = 1..Len(affs)
    BY LenProperties
  <2>2. QED  BY <2>1, <1>1, PartsOfIs DEF CopiedTo
<1>3. v = IF a.type = "acid" THEN u ELSE <<a>> \o u
  BY <1>1 DEF Walks, Step
<1>4. CASE a.type = "acid"
  <2>1. ~NoAcid(affs)
    BY <1>1, <1>2, <1>4 DEF NoAcid
  <2>2. QED  BY <2>1, <1>1, <1>3, <1>4 DEF CopiedTo
<1>5. CASE a.type # "acid"
  <2>1. v = <<a>> \o u /\ v \in Seq(AffectData)
    BY <1>2, <1>3, <1>5, FrontAmount
  <2>2. Members(v) \subseteq Members(affs) \cup Members(rest)
    <3>1. Members(v) \subseteq Members(u) \cup {a}
      BY <1>2, <2>1, FrontMembers
    <3>2. a \in Members(affs)
      BY <1>1, <1>2 DEF Members
    <3>3. QED  BY <3>1, <3>2, <1>1 DEF CopiedTo
  <2>3. ASSUME NoAcid(affs), NEW app, NEW f
        PROVE  Amount(v, app, f) = Amount(rest, app, f) + UpTo(affs, k, app, f)
    <3>1. Amount(v, app, f) = Amount(u, app, f) + Part(a, app, f)
      BY <1>2, <2>1, FrontAmount
    <3>2. Amount(u, app, f) = Amount(rest, app, f) + UpTo(affs, k - 1, app, f)
      BY <1>1, <2>3 DEF CopiedTo
    <3>3. UpTo(affs, k, app, f) = UpTo(affs, k - 1, app, f) + Part(a, app, f)
      BY <1>1, UpToNext
    <3>4. /\ Amount(rest, app, f) \in Int /\ Part(a, app, f) \in Int
          /\ UpTo(affs, k - 1, app, f) \in Int
      <4>1. Len(affs) \in Nat
        BY LenProperties
      <4>2. k - 1 \in 0..Len(affs)
        BY <4>1
      <4>3. QED  BY <4>2, <1>2, AmountIs, PartInt, UpToInt
    <3>5. QED  BY <3>1, <3>2, <3>3, <3>4
  <2>4. QED  BY <1>1, <2>1, <2>2, <2>3 DEF CopiedTo
<1>6. QED  BY <1>4, <1>5

\* What is copied is a list of the same affects, which come to the same.
LEMMA CopiedIs ==
  ASSUME NEW affs \in Seq(AffectData), NEW rest \in Seq(AffectData)
  PROVE  /\ Copied(affs, rest) \in Seq(AffectData)
         /\ Members(Copied(affs, rest)) \subseteq Members(affs) \cup Members(rest)
         /\ NoAcid(affs) => \A app, f : Amount(Copied(affs, rest), app, f)
                              = Amount(affs, app, f) + Amount(rest, app, f)
<1>1. PICK g : Walks(g, "copied", 0, 0, rest, affs) /\ Copied(affs, rest) = g[Len(affs)]
  BY CopyWalks
<1>2. PICK n : n = Len(affs)
  OBVIOUS
<1>3. n \in Nat
  BY <1>2, LenProperties
<1> DEFINE R(k) == CopiedTo(g, affs, rest, k)
           B == {k \in 0..n : ~R(k)}
<1>4. R(0)
  <2>1. g[0] = rest
    BY <1>1 DEF Walks
  <2>2. ASSUME NEW app, NEW f
        PROVE  Amount(rest, app, f) = Amount(rest, app, f) + UpTo(affs, 0, app, f)
    <3>1. Amount(rest, app, f) \in Int
      BY AmountIs
    <3>2. QED  BY <3>1, UpToZero
  <2>3. QED  BY <2>1, <2>2 DEF CopiedTo
<1>5. ASSUME NEW k \in 1..n, R(k - 1)
      PROVE  R(k)
  BY <1>1, <1>2, <1>5, CopiedNext
<1> HIDE DEF R
<1>6. B = {}
  <2>1. SUFFICES ASSUME B # {} PROVE FALSE
    OBVIOUS
  <2>2. PICK k \in B : \A j \in B : k <= j
    <3>1. B \in SUBSET (0..n)
      OBVIOUS
    <3> HIDE DEF B
    <3>2. QED  BY <3>1, <2>1, <1>3, Least
  <2>3. k \in 0..n /\ ~R(k)
    OBVIOUS
  <2>4. k # 0
    BY <2>3, <1>4
  <2>5. k \in 1..n /\ k - 1 \in 0..n /\ ~(k <= k - 1)
    BY <2>3, <2>4, <1>3
  <2>6. k - 1 \notin B
    BY <2>2, <2>5
  <2>7. R(k - 1)
    BY <2>5, <2>6
  <2>8. QED  BY <2>3, <2>5, <2>7, <1>5
<1>7. R(n)
  <2>1. n \in 0..n
    BY <1>3
  <2>2. QED  BY <2>1, <1>6
<1>8. \A app, f : /\ UpTo(affs, n, app, f) = Amount(affs, app, f)
                  /\ Amount(affs, app, f) \in Int /\ Amount(rest, app, f) \in Int
  BY <1>2, AmountIs
<1>9. QED  BY <1>1, <1>2, <1>7, <1>8 DEF R, CopiedTo

\* Two lists, one behind the other.
LEMMA ConcatPlaces ==
  ASSUME NEW es \in Seq(AffectData), NEW bs \in Seq(AffectData), NEW cs, cs = es \o bs,
         NEW l, l = Len(es), NEW n, n = Len(bs)
  PROVE  /\ cs \in Seq(AffectData) /\ Len(cs) = l + n /\ l \in Nat /\ n \in Nat
         /\ DOMAIN es = 1..l /\ DOMAIN bs = 1..n /\ DOMAIN cs = 1..(l + n)
         /\ \A k \in 1..l : cs[k] = es[k]
         /\ \A k \in 1..n : cs[l + k] = bs[k]
<1>1. PICK S : S = AffectData
  OBVIOUS
<1>2. es \in Seq(S) /\ bs \in Seq(S)
  BY <1>1
<1>3. /\ cs \in Seq(S) /\ Len(cs) = l + n
      /\ \A k \in 1..(l + n) : cs[k] = IF k <= l THEN es[k] ELSE bs[k - l]
  <2>1. /\ es \o bs \in Seq(S) /\ Len(es \o bs) = Len(es) + Len(bs)
        /\ \A k \in 1..(Len(es) + Len(bs)) :
             (es \o bs)[k] = IF k <= Len(es) THEN es[k] ELSE bs[k - Len(es)]
    BY <1>2, ConcatProperties
  <2>2. QED  BY <2>1
<1>4. l \in Nat /\ n \in Nat /\ DOMAIN es = 1..l /\ DOMAIN bs = 1..n
  BY <1>2, LenProperties
<1>5. DOMAIN cs = 1..(l + n)
  BY <1>3, LenProperties
<1>6. ASSUME NEW k \in 1..l PROVE cs[k] = es[k]
  <2>1. k \in 1..(l + n) /\ k <= l
    BY <1>4
  <2>2. QED  BY <2>1, <1>3
<1>7. ASSUME NEW k \in 1..n PROVE cs[l + k] = bs[k]
  <2>1. PICK j : j = l + k
    OBVIOUS
  <2>2. j \in 1..(l + n) /\ ~(j <= l) /\ j - l = k
    BY <2>1, <1>4
  <2>3. cs[j] = bs[j - l]
    BY <2>2, <1>3
  <2>4. QED  BY <2>1, <2>2, <2>3
<1>8. QED  BY <1>1, <1>3, <1>4, <1>5, <1>6, <1>7

LEMMA ConcatIs ==
  ASSUME NEW es \in Seq(AffectData), NEW bs \in Seq(AffectData), NEW cs, cs = es \o bs
  PROVE  cs \in Seq(AffectData) /\ Members(cs) = Members(es) \cup Members(bs)
<1>1. PICK l : l = Len(es)
  OBVIOUS
<1>2. PICK n : n = Len(bs)
  OBVIOUS
<1>3. /\ cs \in Seq(AffectData) /\ l \in Nat /\ n \in Nat
      /\ DOMAIN es = 1..l /\ DOMAIN bs = 1..n /\ DOMAIN cs = 1..(l + n)
  BY <1>1, <1>2, ConcatPlaces
<1>4. /\ \A k \in 1..l : cs[k] = es[k]
      /\ \A k \in 1..n : cs[l + k] = bs[k]
  BY <1>1, <1>2, ConcatPlaces
<1>5. ASSUME NEW k \in 1..(l + n) PROVE cs[k] \in Members(es) \cup Members(bs)
  <2>1. CASE k <= l
    <3>1. k \in 1..l
      BY <2>1, <1>3
    <3>2. k \in DOMAIN es /\ cs[k] = es[k]
      BY <3>1, <1>3, <1>4
    <3>3. QED  BY <3>2 DEF Members
  <2>2. CASE ~(k <= l)
    <3>1. PICK j : j = k - l
      OBVIOUS
    <3>2. j \in 1..n /\ l + j = k
      BY <3>1, <2>2, <1>3
    <3>3. j \in DOMAIN bs /\ cs[l + j] = bs[j]
      BY <3>2, <1>3, <1>4
    <3>4. cs[k] = bs[j]
      BY <3>2, <3>3
    <3>5. QED  BY <3>3, <3>4 DEF Members
  <2>3. QED  BY <2>1, <2>2
<1>6. ASSUME NEW k \in 1..l PROVE es[k] \in Members(cs)
  <2>1. k \in 1..(l + n) /\ cs[k] = es[k]
    BY <1>3, <1>4
  <2>2. QED  BY <2>1, <1>3 DEF Members
<1>7. ASSUME NEW k \in 1..n PROVE bs[k] \in Members(cs)
  <2>1. PICK j : j = l + k
    OBVIOUS
  <2>2. j \in 1..(l + n)
    BY <2>1, <1>3
  <2>3. j \in DOMAIN cs /\ cs[j] = bs[k]
    BY <2>1, <2>2, <1>3, <1>4
  <2>4. QED  BY <2>3 DEF Members
<1>8. Members(cs) \subseteq Members(es) \cup Members(bs)
  BY <1>3, <1>5 DEF Members
<1>9. Members(es) \subseteq Members(cs) /\ Members(bs) \subseteq Members(cs)
  BY <1>3, <1>6, <1>7 DEF Members
<1>10. QED  BY <1>3, <1>8, <1>9

LEMMA AmountConcat ==
  ASSUME NEW es \in Seq(AffectData), NEW bs \in Seq(AffectData), NEW app, NEW f
  PROVE  Amount(es \o bs, app, f) = Amount(es, app, f) + Amount(bs, app, f)
<1>0. PICK cs : cs = es \o bs
  OBVIOUS
<1>1. PICK l : l = Len(es)
  OBVIOUS
<1>2. PICK n : n = Len(bs)
  OBVIOUS
<1>3. /\ cs \in Seq(AffectData) /\ l \in Nat /\ n \in Nat /\ Len(cs) = l + n
  BY <1>0, <1>1, <1>2, ConcatPlaces
<1>4. /\ \A k \in 1..l : cs[k] = es[k]
      /\ \A k \in 1..n : cs[l + k] = bs[k]
  BY <1>0, <1>1, <1>2, ConcatPlaces
<1> DEFINE R(k) == UpTo(cs, l + k, app, f) = UpTo(es, l, app, f) + UpTo(bs, k, app, f)
           B == {k \in 0..n : ~R(k)}
<1>5. UpTo(es, l, app, f) \in Int /\ \A k \in 0..n : UpTo(bs, k, app, f) \in Int
  <2>1. l \in 0..Len(es)
    BY <1>1, <1>3
  <2>2. QED  BY <2>1, <1>2, UpToInt
<1>6. R(0)
  <2>1. PICK F : F = PartsOf(es, app, f)
    OBVIOUS
  <2>2. PICK G : G = PartsOf(cs, app, f)
    OBVIOUS
  <2>3. PICK T : T = 1..l
    OBVIOUS
  <2>4. ASSUME NEW k \in T PROVE F[k] = G[k]
    <3>1. k \in 1..Len(cs) /\ k \in 1..Len(es) /\ cs[k] = es[k]
      BY <2>3, <1>1, <1>3, <1>4
    <3>2. F[k] = Part(es[k], app, f)
      BY <3>1, <2>1, PartsOfIs
    <3>3. G[k] = Part(cs[k], app, f)
      <4>1. cs \in Seq(AffectData) /\ k \in 1..Len(cs)
        BY <3>1, <1>3
      <4>2. PartsOf(cs, app, f)[k] = Part(cs[k], app, f)
        BY <4>1, PartsOfIs
      <4>3. QED  BY <4>2, <2>2
    <3>4. QED  BY <3>1, <3>2, <3>3
  <2>5. IsFiniteSet(T)
    BY <2>3, <1>3, FS_Interval
  <2>6. SumFunctionOnSet(F, T) = SumFunctionOnSet(G, T)
    BY <2>4, <2>5, SumSame
  <2>7. UpTo(es, l, app, f) = UpTo(cs, l, app, f)
    BY <2>1, <2>2, <2>3, <2>6 DEF UpTo
  <2>8. UpTo(bs, 0, app, f) = 0
    BY UpToZero
  <2>9. l + 0 = l
    BY <1>3
  <2>10. QED  BY <2>7, <2>8, <2>9, <1>5
<1>7. ASSUME NEW k \in 1..n, R(k - 1)
      PROVE  R(k)
  <2>1. PICK j : j = l + k
    OBVIOUS
  <2>2. PICK m : m = k - 1
    OBVIOUS
  <2>3. j \in 1..Len(cs) /\ j - 1 = l + m /\ m \in 0..n
    BY <2>1, <2>2, <1>3
  <2>4. UpTo(cs, j, app, f) = UpTo(cs, j - 1, app, f) + Part(cs[j], app, f)
    <3>1. cs \in Seq(AffectData) /\ j \in 1..Len(cs)
      BY <2>3, <1>3
    <3>2. QED  BY <3>1, UpToNext
  <2>5. UpTo(bs, k, app, f) = UpTo(bs, m, app, f) + Part(bs[k], app, f)
    <3>1. k \in 1..Len(bs)
      BY <1>2
    <3>2. UpTo(bs, k, app, f) = UpTo(bs, k - 1, app, f) + Part(bs[k], app, f)
      BY <3>1, UpToNext
    <3>3. QED  BY <3>2, <2>2
  <2>6. cs[j] = bs[k]
    BY <2>1, <1>4
  <2>7. bs[k] \in AffectData
    BY <1>2, PartsOfIs
  <2>8. PICK x : x = Part(bs[k], app, f)
    OBVIOUS
  <2>9. x \in Int
    BY <2>7, <2>8, PartInt
  <2>10. UpTo(cs, l + m, app, f) = UpTo(es, l, app, f) + UpTo(bs, m, app, f)
    BY <2>2, <1>7
  <2>11. UpTo(cs, j, app, f) = UpTo(cs, l + m, app, f) + x
    BY <2>3, <2>4, <2>6, <2>8
  <2>12. UpTo(bs, k, app, f) = UpTo(bs, m, app, f) + x
    BY <2>5, <2>8
  <2>13. UpTo(es, l, app, f) \in Int /\ UpTo(bs, m, app, f) \in Int
    BY <2>3, <1>5
  <2>14. UpTo(cs, j, app, f) = UpTo(es, l, app, f) + UpTo(bs, k, app, f)
    BY <2>9, <2>10, <2>11, <2>12, <2>13
  <2>15. QED  BY <2>1, <2>14
<1> HIDE DEF R
<1>8. B = {}
  <2>1. SUFFICES ASSUME B # {} PROVE FALSE
    OBVIOUS
  <2>2. PICK k \in B : \A j \in B : k <= j
    <3>1. B \in SUBSET (0..n)
      OBVIOUS
    <3> HIDE DEF B
    <3>2. QED  BY <3>1, <2>1, <1>3, Least
  <2>3. k \in 0..n /\ ~R(k)
    OBVIOUS
  <2>4. k # 0
    BY <2>3, <1>6
  <2>5. k \in 1..n /\ k - 1 \in 0..n /\ ~(k <= k - 1)
    BY <2>3, <2>4, <1>3
  <2>6. k - 1 \notin B
    BY <2>2, <2>5
  <2>7. R(k - 1)
    BY <2>5, <2>6
  <2>8. QED  BY <2>3, <2>5, <2>7, <1>7
<1>9. R(n)
  <2>1. n \in 0..n
    BY <1>3
  <2>2. QED  BY <2>1, <1>8
<1>10. UpTo(cs, l + n, app, f) = UpTo(es, l, app, f) + UpTo(bs, n, app, f)
  BY <1>9 DEF R
<1>11. /\ Amount(cs, app, f) = UpTo(cs, Len(cs), app, f)
       /\ Amount(es, app, f) = UpTo(es, l, app, f) /\ Amount(bs, app, f) = UpTo(bs, n, app, f)
  BY <1>1, <1>2, <1>3, AmountIs
<1>12. QED  BY <1>0, <1>3, <1>10, <1>11

\* The affects of a list that do not come from it anew are as fit as before.
LEMMA MembersLay ==
  ASSUME NEW affs, NEW bs, LaidAre(affs), Members(bs) \subseteq Members(affs)
  PROVE  LaidAre(bs) /\ BitsOf(bs) \subseteq BitsOf(affs)
<1>1. \A k \in DOMAIN bs : \E j \in DOMAIN affs : affs[j] = bs[k]
  BY DEF Members
<1>2. QED  BY <1>1 DEF LaidAre, BitsOf

\* The armor is one worse, and nothing else has changed.
Worsened(affs, bs) ==
  /\ bs \in Seq(AffectData)
  /\ \A app : \A f \in Totals : Amount(bs, app, f) = Amount(affs, app, f) + IF f = "ac" THEN 1 ELSE 0
  /\ BitsOf(bs) \subseteq BitsOf(affs) \cup {None}
  /\ LaidAre(affs) => LaidAre(bs)

LEMMA EtchedNew ==
  ASSUME NEW affs \in Seq(AffectData)
  PROVE  Worsened(affs, <<Acid>> \o affs)
<1>1. PICK a, bs, m : a = Acid /\ bs = <<Acid>> \o affs /\ m = 1
  OBVIOUS
<1>2. a \in AffectData /\ a.loc = "ac" /\ a.mod = 1 /\ a.bit = None /\ a.type = "acid"
  BY <1>1 DEF Acid, AffectData
<1>3. bs = <<a>> \o affs
  BY <1>1
<1>4. bs \in Seq(AffectData) /\ PutIn(bs, affs, m) /\ bs[m] = a
  BY <1>1, <1>2, <1>3, PutInFront
<1>5. \A app : \A f \in Totals : Amount(bs, app, f) = Amount(affs, app, f) + IF f = "ac" THEN 1 ELSE 0
  <2> TAKE app
  <2> TAKE f \in Totals
  <2>1. Amount(bs, app, f) = Amount(affs, app, f) + Part(a, app, f)
    BY <1>4, AmountInsert
  <2>2. Part(a, app, f) = IF f = "ac" THEN 1 ELSE 0
    BY <1>2 DEF Part, Totals
  <2>3. QED  BY <2>1, <2>2
<1>6. BitsOf(bs) \subseteq BitsOf(affs) \cup {None}
  BY <1>2, <1>3, FrontBits
<1>7. LaidAre(affs) => LaidAre(bs)
  <2>1. Lays(bs[m])
    BY <1>2, <1>4 DEF Lays
  <2>2. QED  BY <2>1, <1>4, LaidInsert
<1>8. QED  BY <1>1, <1>4, <1>5, <1>6, <1>7 DEF Worsened

LEMMA EtchedMore ==
  ASSUME NEW affs \in Seq(AffectData), NEW k \in OfArmor(affs)
  PROVE  Worsened(affs, [affs EXCEPT ![k] = Worse(affs[k])])
<1>0. PICK bs : bs = [affs EXCEPT ![k] = Worse(affs[k])]
  OBVIOUS
<1>1. k \in DOMAIN affs /\ k \in 1..Len(affs) /\ DOMAIN affs = 1..Len(affs) /\ affs[k].loc = "ac"
  BY LenProperties DEF OfArmor
<1>2. PICK c : c = affs[k]
  OBVIOUS
<1>3. c \in AffectData /\ c.loc = "ac"
  BY <1>1, <1>2, PartsOfIs
<1>4. PICK d : d = Worse(c)
  OBVIOUS
<1>5. /\ d \in AffectData /\ d.type = "acid" /\ d.loc = "ac" /\ d.bit = c.bit
      /\ d.mod = c.mod + 1 /\ c.mod \in Int
  BY <1>3, <1>4 DEF AffectData, Worse
<1>6. bs = [affs EXCEPT ![k] = d]
  BY <1>0, <1>2, <1>4
<1>7. /\ bs \in Seq(AffectData) /\ Len(bs) = Len(affs) /\ bs[k] = d /\ DOMAIN bs = DOMAIN affs
      /\ \A j \in 1..Len(affs) : j # k => bs[j] = affs[j]
  BY <1>1, <1>5, <1>6, ExceptSeq
<1>8. PICK h : h = RemoveAt(affs, k)
  OBVIOUS
<1>9. PutIn(affs, h, k)
  BY <1>1, <1>8, PutInRemove
<1>10. PutIn(bs, h, k)
  <2>1. /\ h \in Seq(AffectData) /\ Len(affs) = Len(h) + 1
        /\ \A j \in 1..Len(h) : h[j] = affs[Behind(k, j)]
    BY <1>9 DEF PutIn
  <2>2. Len(h) \in Nat
    BY <2>1, LenProperties
  <2>3. \A j \in 1..Len(h) : Behind(k, j) \in 1..Len(affs) /\ Behind(k, j) # k
    BY <1>1, <2>1, <2>2 DEF Behind
  <2>4. \A j \in 1..Len(h) : h[j] = bs[Behind(k, j)]
    BY <2>1, <2>3, <1>7
  <2>5. QED  BY <2>1, <2>4, <1>1, <1>7 DEF PutIn
<1>11. \A app : \A f \in Totals : Amount(bs, app, f) = Amount(affs, app, f) + IF f = "ac" THEN 1 ELSE 0
  <2> TAKE app
  <2> TAKE f \in Totals
  <2>1. affs[k] = c /\ bs[k] = d
    BY <1>2, <1>7
  <2>2. /\ Amount(affs, app, f) = Amount(h, app, f) + Part(c, app, f)
        /\ Amount(bs, app, f) = Amount(h, app, f) + Part(d, app, f)
    BY <2>1, <1>9, <1>10, AmountInsert
  <2>3. Part(d, app, f) = Part(c, app, f) + IF f = "ac" THEN 1 ELSE 0
    BY <1>3, <1>5 DEF Part, Totals
  <2>4. Amount(h, app, f) \in Int /\ Part(c, app, f) \in Int
    <3>1. h \in Seq(AffectData)
      BY <1>9 DEF PutIn
    <3>2. QED  BY <3>1, <1>3, AmountIs, PartInt
  <2>5. QED  BY <2>2, <2>3, <2>4
<1>12. BitsOf(bs) \subseteq BitsOf(affs) \cup {None}
  <2>1. \A j \in DOMAIN bs : bs[j].bit = affs[j].bit
    BY <1>1, <1>2, <1>5, <1>7
  <2>2. QED  BY <2>1, <1>7 DEF BitsOf
<1>13. LaidAre(affs) => LaidAre(bs)
  <2>1. SUFFICES ASSUME LaidAre(affs) PROVE LaidAre(bs)
    OBVIOUS
  <2>2. \A j \in DOMAIN bs : Lays(bs[j])
    <3> TAKE j \in DOMAIN bs
    <3>1. CASE j = k
      BY <3>1, <1>5, <1>7 DEF Lays
    <3>2. CASE j # k
      BY <3>2, <2>1, <1>1, <1>7 DEF LaidAre
    <3>3. QED  BY <3>1, <3>2
  <2>3. QED  BY <2>2 DEF LaidAre
<1>14. QED  BY <1>0, <1>7, <1>11, <1>12, <1>13 DEF Worsened

\* A set of places has a first one.
LEMMA FirstPlace ==
  ASSUME NEW affs \in Seq(AffectData), OfArmor(affs) # {}
  PROVE  Min(OfArmor(affs)) \in OfArmor(affs)
<1>1. PICK S : S = OfArmor(affs)
  OBVIOUS
<1>2. Len(affs) \in Nat /\ S \in SUBSET (0..Len(affs)) /\ S # {}
  BY <1>1, LenProperties DEF OfArmor
<1>3. PICK k \in S : \A j \in S : k <= j
  BY <1>2, Least
<1>4. Min(S) \in S
  BY <1>3 DEF Min
<1>5. QED  BY <1>1, <1>4

LEMMA EtchedIs ==
  ASSUME NEW affs \in Seq(AffectData)
  PROVE  Worsened(affs, Etched(affs))
<1>1. CASE OfArmor(affs) = {}
  BY <1>1, EtchedNew DEF Etched
<1>2. CASE OfArmor(affs) # {}
  <2>1. PICK k : k = Min(OfArmor(affs))
    OBVIOUS
  <2>2. k \in OfArmor(affs)
    BY <1>2, <2>1, FirstPlace
  <2>3. Etched(affs) = [affs EXCEPT ![k] = Worse(affs[k])]
    BY <1>2, <2>1 DEF Etched
  <2>4. QED  BY <2>2, <2>3, EtchedMore
<1>3. QED  BY <1>1, <1>2

\* From what an item does to what it does when it has been etched.
LEMMA EtchOn ==
  ASSUME IInv, NEW i \in Items, NEW bs, bs = Etched(Enchanted(i))
  PROVE  Worsened(On(i), << >> \o bs) /\ bs \in Seq(AffectData) /\ LaidAre(bs)
<1>1. PICK es, rest : es = Own(i) /\ rest = laid[i]
  OBVIOUS
<1>2. es \in Seq(AffectData) /\ rest \in Seq(AffectData) /\ NoAcid(es) /\ LaidAre(es) /\ LaidAre(rest)
  <2>1. es \in Seq(AffectData) /\ rest \in Seq(AffectData) /\ LaidAre(rest)
    BY <1>1, OwnsOK DEF Owns, Lists, IInv, TypeOK, LaidFits
  <2>2. \A k \in DOMAIN es : es[k].type = "none"
    BY <1>1, AffectsAssumption DEF Own
  <2>3. QED  BY <2>1, <2>2 DEF NoAcid, LaidAre, Lays
<1>3. PICK cs : cs = Copied(es, rest)
  OBVIOUS
<1>4. cs \in Seq(AffectData) /\ Members(cs) \subseteq Members(es) \cup Members(rest)
  BY <1>2, <1>3, CopiedIs
<1>5. PICK on : on = es \o rest
  OBVIOUS
<1>6. on \in Seq(AffectData) /\ Members(on) = Members(es) \cup Members(rest)
  BY <1>2, <1>5, ConcatIs
<1>7. on = On(i) /\ bs = Etched(cs)
  BY <1>1, <1>3, <1>5 DEF On, Enchanted
<1>8. Worsened(cs, bs)
  BY <1>4, <1>7, EtchedIs
<1>9. LaidAre(on)
  BY <1>2, <1>6 DEF LaidAre, Members
<1>10. LaidAre(cs) /\ BitsOf(cs) \subseteq BitsOf(on)
  BY <1>4, <1>6, <1>9, MembersLay
<1>11. Worsened(on, bs) /\ bs \in Seq(AffectData) /\ LaidAre(bs)
  <2>1. ASSUME NEW app, NEW f \in Totals
        PROVE  Amount(bs, app, f) = Amount(on, app, f) + IF f = "ac" THEN 1 ELSE 0
    <3>1. Amount(bs, app, f) = Amount(cs, app, f) + IF f = "ac" THEN 1 ELSE 0
      BY <1>8 DEF Worsened
    <3>2. Amount(cs, app, f) = Amount(es, app, f) + Amount(rest, app, f)
      <4>1. Amount(Copied(es, rest), app, f) = Amount(es, app, f) + Amount(rest, app, f)
        BY <1>2, CopiedIs
      <4>2. QED  BY <4>1, <1>3
    <3>3. Amount(on, app, f) = Amount(es, app, f) + Amount(rest, app, f)
      <4>1. Amount(es \o rest, app, f) = Amount(es, app, f) + Amount(rest, app, f)
        BY <1>2, AmountConcat
      <4>2. QED  BY <4>1, <1>5
    <3>4. QED  BY <3>1, <3>2, <3>3
  <2>2. bs \in Seq(AffectData) /\ LaidAre(bs) /\ BitsOf(bs) \subseteq BitsOf(on) \cup {None}
    BY <1>8, <1>10 DEF Worsened
  <2>3. QED  BY <2>1, <2>2 DEF Worsened
<1>12. << >> \o bs = bs
  BY <1>11, ConcatEmptySeq
<1>13. QED  BY <1>7, <1>11, <1>12

LEMMA EtchInv ==
  ASSUME IInv, NEW i \in Items, Etch(i)
  PROVE  IInv'
<1>1. PICK bs : bs = Etched(Enchanted(i))
  OBVIOUS
<1>2. /\ laid' = [laid EXCEPT ![i] = bs] /\ enchanted' = enchanted \cup {i}
      /\ mods' = (IF worn[i] = "none" THEN mods ELSE [mods EXCEPT !["ac"] = @ + 1])
      /\ UNCHANGED <<bits, spells, worn, lapsed>> /\ worn[i] # "lost"
  BY <1>1 DEF Etch, CanEtch
<1>3. Worsened(On(i), << >> \o bs) /\ bs \in Seq(AffectData) /\ LaidAre(bs)
  BY <1>1, EtchOn
<1>4. laid \in Lists /\ laid' \in Lists /\ laid'[i] = bs /\ \A j \in Items \ {i} : laid'[j] = laid[j]
  BY <1>2, <1>3, LaidLists DEF Lists
<1>5. mods \in [Totals -> Int] /\ mods' \in [Totals -> Int]
  BY <1>2 DEF IInv, TypeOK, Totals
<1>6. TypeOK'
  BY <1>2, <1>4, <1>5 DEF IInv, TypeOK, Lists
<1>7. LaidFits'
  BY <1>3, <1>4 DEF IInv, LaidFits
<1>8. PICK on, om : on = Ons /\ om = Ons'
  OBVIOUS
<1>9. on \in Lists /\ on[i] = On(i) /\ om[i] = << >> \o bs /\ \A j \in Items \ {i} : om[j] = on[j]
  <2>1. on \in Lists /\ on[i] = On(i)
    BY <1>8, OnsOK, TypeGood DEF IInv
  <2>2. om[i] = << >> \o bs
    BY <1>2, <1>4, <1>8 DEF Ons, On, Own
  <2>3. ASSUME NEW j \in Items \ {i} PROVE om[j] = on[j]
    <3>1. on[j] = Own(j) \o laid[j] /\ om[j] = Own(j)' \o laid'[j]
      BY <1>8 DEF Ons, On
    <3>2. Own(j)' = Own(j)
      BY <1>2 DEF Own
    <3>3. QED  BY <3>1, <3>2, <1>4
  <2>4. QED  BY <2>1, <2>2, <2>3
<1>10. Worsened(on[i], om[i]) /\ om \in Lists
  <2>1. Worsened(on[i], om[i])
    BY <1>3, <1>9
  <2>2. om \in [Items -> Seq(AffectData)]
    <3>1. \A j \in Items : om[j] \in Seq(AffectData)
      BY <1>9, <2>1 DEF Worsened, Lists
    <3>2. om = [j \in Items |-> om[j]]
      BY <1>8 DEF Ons
    <3>3. QED  BY <3>1, <3>2
  <2>3. QED  BY <2>1, <2>2 DEF Lists
<1>11. ASSUME NEW f \in Totals \ {"saves"}
       PROVE  mods'[f] = WornSum(om, worn, f) + SpellSum(spells, f)
  <2>1. mods[f] = WornSum(on, worn, f) + SpellSum(spells, f)
    BY <1>8 DEF IInv, Settled
  <2>2. PICK v : v = worn
    OBVIOUS
  <2>3. WornSum(om, v, f) = WornSum(on, worn, f) + (Due(om[i], v[i], f) - Due(on[i], worn[i], f))
    <3>1. \A j \in Items \ {i} : on[j] = om[j] /\ worn[j] = v[j]
      BY <1>9, <2>2
    <3>2. on \in Lists /\ om \in Lists
      BY <1>9, <1>10
    <3> HIDE <1>9, <1>10
    <3>3. QED  BY <3>1, <3>2, WornSumChange
  <2>4. /\ SpellSum(spells, f) \in Int /\ WornSum(on, worn, f) \in Int
        /\ Due(on[i], worn[i], f) \in Int /\ Due(om[i], worn[i], f) \in Int
        /\ Amount(on[i], App(worn[i]), f) \in Int
    BY <1>9, <1>10, SpellSumInt, WornSumInt, DueInt, AmountIs DEF IInv, TypeOK, Lists
  <2>5. Due(om[i], worn[i], f) - Due(on[i], worn[i], f)
          = IF f = "ac" /\ worn[i] # "none" THEN 1 ELSE 0
    <3>1. Amount(om[i], App(worn[i]), f) = Amount(on[i], App(worn[i]), f) + IF f = "ac" THEN 1 ELSE 0
      BY <1>10 DEF Worsened
    <3>2. QED  BY <3>1, <2>4, <1>2 DEF Due
  <2>6. mods'[f] = mods[f] + IF f = "ac" /\ worn[i] # "none" THEN 1 ELSE 0
    BY <1>2, <1>5 DEF Totals
  <2>7. QED  BY <2>1, <2>2, <2>3, <2>4, <2>5, <2>6
<1>12. Settled(Ons, mods, worn, spells)'
  BY <1>2, <1>8, <1>11 DEF Settled
<1>13. AllHeld(Ons, worn, spells, bits \cup lapsed)'
  <2>1. AllHeld(on, worn, spells, bits \cup lapsed)
    BY <1>8 DEF IInv
  <2>2. \A b : GivenBy(om, worn, spells, b) => GivenBy(on, worn, spells, b) \/ b = None
    BY <1>9, <1>10 DEF GivenBy, Worsened
  <2>3. AllHeld(om, worn, spells, bits \cup lapsed)
    BY <2>1, <2>2 DEF AllHeld
  <2>4. QED  BY <2>3, <1>2, <1>8 DEF AllHeld
<1>14. (lapsed \cap AffBits = {})'
  BY <1>2 DEF IInv
<1>15. QED  BY <1>6, <1>7, <1>12, <1>13, <1>14 DEF IInv

\* What reset_char adds up is what the invariant says, of any lists.
Listed == LaidOK /\ spells \in [Spells -> Seq(AffectData)]
Conditioned == Condition \in [Totals -> Int] /\ Settled(Ons, Condition, worn, spells)

LEMMA ConditionIs ==
  Listed => Conditioned
<1>1. SUFFICES ASSUME Listed PROVE Conditioned
  OBVIOUS
<1>2. ASSUME NEW f \in Totals
      PROVE  /\ Condition[f] = WornSum(Ons, worn, f) + SpellSum(spells, f)
             /\ Condition[f] \in Int
  <2>1. PICK F : F = [i \in Items |-> IF worn[i] \in {"none", "lost"} THEN 0
                                      ELSE Amount(On(i), App(worn[i]), f)]
    OBVIOUS
  <2>2. PICK G : G = [t \in Spells |-> Amount(spells[t], "both", f)]
    OBVIOUS
  <2>3. Condition[f] = SumFunction(F) + SumFunction(G)
    BY <2>1, <2>2 DEF Condition
  <2>4. \A i \in Items : (IF worn[i] \in {"none", "lost"} THEN 0 ELSE Amount(On(i), App(worn[i]), f))
                           = Due(Ons[i], worn[i], f)
    BY <1>1, OnsOK DEF Due, Listed
  <2>5. F = [i \in Items |-> Due(Ons[i], worn[i], f)]
    BY <2>1, <2>4
  <2>6. SumFunction(F) = WornSum(Ons, worn, f)
    BY <2>5 DEF SumFunction, WornSum
  <2>7. SumFunction(G) = SpellSum(spells, f)
    BY <2>2 DEF SumFunction, SpellSum
  <2>8. WornSum(Ons, worn, f) \in Int /\ SpellSum(spells, f) \in Int
    BY <1>1, OnsOK, WornSumInt, SpellSumInt DEF Listed
  <2>9. QED  BY <2>3, <2>6, <2>7, <2>8
<1>3. Condition = [f \in Totals |-> Condition[f]]
  BY DEF Condition
<1>4. QED  BY <1>2, <1>3 DEF Settled, Conditioned

LEMMA ConditionNext == Listed' => Conditioned'
BY ConditionIs, PTL

LEMMA ReverseIs ==
  ASSUME NEW affs \in Seq(AffectData)
  PROVE  /\ Reverse(affs) \in Seq(AffectData) /\ Len(Reverse(affs)) = Len(affs)
         /\ BitsOf(Reverse(affs)) \subseteq BitsOf(affs)
<1>1. Len(affs) \in Nat /\ DOMAIN affs = 1..Len(affs)
  BY LenProperties
<1>2. PICK n : n = Len(affs)
  OBVIOUS
<1>3. PICK bs : bs = [k \in 1..n |-> affs[(n - k) + 1]]
  OBVIOUS
<1>4. \A k \in 1..n : (n - k) + 1 \in 1..n /\ affs[(n - k) + 1] \in AffectData
  <2>1. \A k \in 1..n : (n - k) + 1 \in 1..n
    BY <1>1, <1>2
  <2>2. QED  BY <2>1, <1>2, PartsOfIs
<1>5. bs \in [1..n -> AffectData]
  BY <1>3, <1>4
<1>6. bs \in Seq(AffectData) /\ Len(bs) = n /\ DOMAIN bs = 1..n
  BY <1>1, <1>2, <1>5
<1>7. BitsOf(bs) \subseteq BitsOf(affs)
  BY <1>1, <1>2, <1>3, <1>4, <1>6 DEF BitsOf
<1>8. bs = Reverse(affs)
  BY <1>2, <1>3 DEF Reverse
<1>9. QED  BY <1>2, <1>6, <1>7, <1>8

\* What is read of an item that is still carried.
LEMMA ReadIs ==
  ASSUME IInv, NEW i \in Items
  PROVE  /\ Copied(laid[i], << >>) \in Seq(AffectData) /\ LaidAre(Copied(laid[i], << >>))
         /\ BitsOf(Own(i) \o Copied(laid[i], << >>)) \subseteq BitsOf(On(i))
<1>1. PICK es, rest, no : es = Own(i) /\ rest = laid[i] /\ no = << >>
  OBVIOUS
<1>2. es \in Seq(AffectData) /\ rest \in Seq(AffectData) /\ LaidAre(rest) /\ no \in Seq(AffectData)
  <2>1. no \in Seq(AffectData)
    BY <1>1
  <2>2. QED  BY <2>1, <1>1, OwnsOK DEF Owns, Lists, IInv, TypeOK, LaidFits
<1>3. PICK cs : cs = Copied(rest, no)
  OBVIOUS
<1>4. cs \in Seq(AffectData) /\ Members(cs) \subseteq Members(rest) \cup Members(no)
  BY <1>2, <1>3, CopiedIs
<1>5. Members(no) = {}
  BY <1>1 DEF Members
<1>6. LaidAre(cs)
  BY <1>2, <1>4, <1>5, MembersLay
<1>7. PICK on, om : on = es \o rest /\ om = es \o cs
  OBVIOUS
<1>8. Members(on) = Members(es) \cup Members(rest) /\ Members(om) = Members(es) \cup Members(cs)
  BY <1>2, <1>4, <1>7, ConcatIs
<1>9. Members(om) \subseteq Members(on)
  BY <1>4, <1>5, <1>8
<1>10. BitsOf(om) \subseteq BitsOf(on)
  BY <1>9 DEF Members, BitsOf
<1>11. QED  BY <1>1, <1>3, <1>4, <1>6, <1>7, <1>10 DEF On

LEMMA RelogInv ==
  ASSUME IInv, NEW Gone \in SUBSET Items, Relog(Gone)
  PROVE  IInv'
<1>1. /\ \A i \in Gone : worn[i] # "lost"
      /\ worn' = [i \in Items |-> IF i \in Gone THEN "lost" ELSE worn[i]]
      /\ enchanted' = enchanted \ Gone
      /\ spells' = [t \in Spells |-> Reverse(spells[t])]
      /\ bits' = (bits \cap AffBits) \cup Race
      /\ lapsed' = (lapsed \cup bits) \ bits'
      /\ mods' = Condition'
  BY DEF Relog
<1>2. laid' = [i \in Items |-> IF i \in Gone THEN << >>
                               ELSE IF worn[i] # "lost" THEN Copied(laid[i], << >>)
                               ELSE laid[i]]
  BY DEF Relog
<1>3. /\ spells \in [Spells -> Seq(AffectData)] /\ laid \in [Items -> Seq(AffectData)]
      /\ bits \subseteq Vectors /\ lapsed \subseteq Vectors /\ enchanted \subseteq Items
  BY DEF IInv, TypeOK
<1>4. laid' \in [Items -> Seq(AffectData)] /\ LaidFits'
  <2>1. << >> \in Seq(AffectData) /\ LaidAre(<< >>)
    BY DEF LaidAre
  <2>2. \A i \in Items : laid'[i] \in Seq(AffectData) /\ LaidAre(laid'[i])
    BY <2>1, <1>2, <1>3, ReadIs DEF IInv, LaidFits
  <2>3. laid' = [i \in Items |-> laid'[i]]
    BY <1>2
  <2>4. QED  BY <2>2, <2>3 DEF LaidFits
<1>5. spells' \in [Spells -> Seq(AffectData)] /\ \A t \in Spells : Len(spells'[t]) = Len(spells[t])
  <2>1. \A t \in Spells : Reverse(spells[t]) \in Seq(AffectData) /\ Len(Reverse(spells[t])) = Len(spells[t])
    BY <1>3, ReverseIs
  <2>2. QED  BY <2>1, <1>1
<1>6. Conditioned'
  <2>1. Listed'
    BY <1>4, <1>5 DEF Listed, LaidOK
  <2>2. QED  BY <2>1, ConditionNext
<1>7. mods' \in [Totals -> Int] /\ Settled(Ons, mods, worn, spells)'
  BY <1>1, <1>6 DEF Conditioned, Settled
<1>8. TypeOK'
  <2>1. bits' \subseteq Vectors /\ lapsed' \subseteq Vectors /\ enchanted' \subseteq Items
    BY <1>1, <1>3, AffectsAssumption
  <2>2. \A t \in Spells : Len(spells'[t]) \in {0, Len(Effects[t])}
    BY <1>5 DEF IInv, TypeOK
  <2>3. /\ worn' \in [Items -> {"lost", "none", "wield", "second", "body"}]
        /\ \A i \in Items : worn'[i] \in {"wield", "second", "body"} =>
             /\ Fits[i] = IF worn'[i] = "body" THEN "body" ELSE "wield"
             /\ \A j \in Items \ {i} : worn'[j] # worn'[i]
    BY <1>1 DEF IInv, TypeOK
  <2>4. QED  BY <2>1, <2>2, <2>3, <1>4, <1>5, <1>7 DEF TypeOK
<1>9. ASSUME NEW b, GivenBy(Ons', worn', spells', b)
      PROVE  GivenBy(Ons, worn, spells, b)
  <2>1. ASSUME NEW t \in Spells, b \in BitsOf(spells'[t])
        PROVE  b \in BitsOf(spells[t])
    BY <2>1, <1>1, <1>3, ReverseIs
  <2>2. ASSUME NEW i \in Items, worn'[i] \notin {"none", "lost"}, b \in BitsOf(Ons'[i])
        PROVE  worn[i] \notin {"none", "lost"} /\ b \in BitsOf(Ons[i])
    <3>1. i \notin Gone /\ worn[i] = worn'[i]
      BY <2>2, <1>1
    <3>2. Ons'[i] = Own(i) \o Copied(laid[i], << >>) /\ Ons[i] = On(i)
      BY <2>2, <3>1, <1>1, <1>2 DEF Ons, On, Own
    <3>3. QED  BY <2>2, <3>1, <3>2, ReadIs
  <2>3. QED  BY <1>9, <2>1, <2>2 DEF GivenBy
<1>10. AllHeld(Ons, worn, spells, bits \cup lapsed)'
  <2>1. \A b : GivenBy(Ons, worn, spells, b) => b \in bits \cup lapsed \cup {None}
    BY DEF IInv, AllHeld
  <2>2. bits \cup lapsed \subseteq bits' \cup lapsed'
    BY <1>1
  <2>3. \A b : GivenBy(Ons', worn', spells', b) => b \in bits' \cup lapsed' \cup {None}
    BY <1>9, <2>1, <2>2
  <2>4. QED  BY <2>3 DEF AllHeld
<1>11. (lapsed \cap AffBits = {})'
  BY <1>1 DEF IInv
<1>12. QED  BY <1>4, <1>7, <1>8, <1>10, <1>11 DEF IInv

-----------------------------------------------------------------------------
(***************************************************************************)
(* The theorems.                                                           *)
(***************************************************************************)
LEMMA InitIInv ==
  ASSUME Init
  PROVE  IInv
<1>1. TypeOK
  <2>1. << >> \in Seq(AffectData) /\ Len(<< >>) = 0
    OBVIOUS
  <2>2. QED  BY <2>1, AffectsAssumption DEF Init, TypeOK
<1>2. LaidFits
  BY DEF Init, LaidFits, LaidAre
<1>3. \A i \in Items : worn[i] \in {"none", "lost"}
  BY DEF Init
<1>4. ASSUME NEW f \in Totals
      PROVE  mods[f] = WornSum(Ons, worn, f) + SpellSum(spells, f)
  <2>1. PICK F : F = [i \in Items |-> Due(Ons[i], worn[i], f)]
    OBVIOUS
  <2>2. \A i \in Items : F[i] = 0
    BY <1>3, <2>1 DEF Due
  <2>3. WornSum(Ons, worn, f) = 0
    BY <2>1, <2>2, SumZero, AffectsAssumption DEF WornSum
  <2>4. PICK G : G = [t \in Spells |-> Amount(spells[t], "both", f)]
    OBVIOUS
  <2>5. \A t \in Spells : G[t] = 0
    <3>1. PICK affs : affs = << >>
      OBVIOUS
    <3>2. affs \in Seq(AffectData) /\ Len(affs) = 0
      BY <3>1
    <3>3. Amount(affs, "both", f) = 0
      BY <3>2, AmountIs, UpToZero
    <3>4. \A t \in Spells : spells[t] = affs
      BY <3>1 DEF Init
    <3>5. QED  BY <3>3, <3>4, <2>4
  <2>6. SpellSum(spells, f) = 0
    BY <2>4, <2>5, SumZero, AffectsAssumption DEF SpellSum
  <2>7. mods[f] = 0
    BY DEF Init
  <2>8. QED  BY <2>3, <2>6, <2>7
<1>5. Settled(Ons, mods, worn, spells)
  BY <1>4 DEF Settled
<1>6. AllHeld(Ons, worn, spells, bits \cup lapsed) /\ lapsed \cap AffBits = {}
  <2>1. \A t \in Spells : DOMAIN spells[t] = {}
    BY DEF Init
  <2>2. QED  BY <2>1, <1>3 DEF AllHeld, GivenBy, BitsOf, Init
<1>7. QED  BY <1>1, <1>2, <1>5, <1>6 DEF IInv

LEMMA NextIInv ==
  ASSUME IInv, [Next]_vars
  PROVE  IInv'
<1>1. ASSUME NEW t \in Spells, Cast(t) PROVE IInv'
  BY <1>1, CastInv
<1>2. ASSUME NEW t \in Spells, Join(t) PROVE IInv'
  BY <1>2, JoinInv
<1>3. ASSUME NEW t \in Spells, Strip(t) PROVE IInv'
  BY <1>3, StripInv
<1>4. ASSUME NEW i \in Items, Wear(i) PROVE IInv'
  BY <1>4, WearInv
<1>5. ASSUME NEW i \in Items, Doff(i) PROVE IInv'
  BY <1>5, DoffInv
<1>6. ASSUME NEW i \in Items, Lose(i) PROVE IInv'
  BY <1>6, LoseInv
<1>7. ASSUME NEW i \in Items, Get(i) PROVE IInv'
  BY <1>7, GetInv
<1>8. ASSUME NEW i \in Items, Etch(i) PROVE IInv'
  BY <1>8, EtchInv
<1>9. ASSUME NEW i \in Items, NEW t \in {"bless", "curse"}, NEW n \in Int, Bless(i, t, n) PROVE IInv'
  BY <1>9, BlessInv
<1>10. ASSUME NEW i \in Items, NEW t \in {"bless", "curse"}, Fade(i, t) PROVE IInv'
  BY <1>10, FadeInv
<1>11. ASSUME NEW Gone \in SUBSET Items, Relog(Gone) PROVE IInv'
  BY <1>11, RelogInv
<1>12. CASE UNCHANGED vars
  BY <1>12 DEF vars, IInv, TypeOK, LaidFits, Ons, On, Own, Settled, AllHeld
<1>13. QED
  BY <1>1, <1>2, <1>3, <1>4, <1>5, <1>6, <1>7, <1>8, <1>9, <1>10, <1>11, <1>12 DEF Next

\* The types, what is laid on items, the totals and the bits together are kept
\* by every command, spell and tick.
THEOREM Invariance == Spec => []IInv
BY InitIInv, NextIInv, PTL DEF Spec

\* Each place holds one item, of its kind, and a spell has all of its affects
\* or none, whatever falls down in the middle of an action (wear_obj,
\* equip_char and unequip_char; affect_to_char and affect_strip).
THEOREM TypeCorrect == Spec => []TypeOK
<1>1. IInv => TypeOK
  BY DEF IInv
<1>2. QED  BY <1>1, Invariance, PTL

\* However spells and items come and go, and weapons fall while affects are
\* still being added or taken off, the totals are those that reset_char would
\* add up (affect_modify, equip_char, unequip_char, acid_effect).
THEOREM TotalsExact == Spec => []Exact
<1>1. ASSUME IInv PROVE Exact
  <2>1. Conditioned
    BY <1>1, ConditionIs DEF IInv, TypeOK, Listed, LaidOK
  <2>2. QED  BY <1>1, <2>1 DEF IInv, Exact, Settled, Conditioned
<1>2. QED  BY <1>1, Invariance, PTL

\* A bit that a spell or a worn item gives is set, whichever other spell or
\* item gave it has gone, and whatever fell down by that (affect_check); but
\* for those not of affected_by, which the file does not hold, between coming
\* back and being given anew (fwrite_char, load_char_obj).
THEOREM BitsStayHeld == Spec => []BitsHeld
<1>1. ASSUME IInv PROVE BitsHeld
  <2>1. Held(now, lapsed) /\ lapsed \cap AffBits = {}
    <3>1. LaidOK /\ Good(now) /\ AllHeld(Ons, now.worn, now.spells, now.bits \cup lapsed)
      BY <1>1, TypeGood, NowIs DEF IInv
    <3>2. QED  BY <1>1, <3>1, SettledIs DEF IInv
  <2>2. QED  BY <2>1, NowIs DEF BitsHeld, Held
<1>2. QED  BY <1>1, Invariance, PTL
=============================================================================
