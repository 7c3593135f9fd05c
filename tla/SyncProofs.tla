----------------------------- MODULE SyncProofs -----------------------------
(***************************************************************************)
(* Theorems about Sync, for every set of uuids, feeds and images, every    *)
(* size of a batch and of writeBuffer, any number of requests, sessions    *)
(* and deaths: the replica converges to the store, forgets no feed, is     *)
(* sorted while uuids come in order, and has the images it says it has.    *)
(*                                                                         *)
(* The inductive invariant says of each uuid what is on its way: the entry *)
(* of the replica, after the messages in the buffers and the one the       *)
(* journal would make, is the entry of the store.                          *)
(***************************************************************************)
EXTENDS Sync, FiniteSetTheorems, TLAPS

-----------------------------------------------------------------------------
(* Numbers and sequences                                                   *)

(* A set of natural numbers that is not empty has a least one.             *)
LEMMA Least ==
  ASSUME NEW T \in SUBSET Nat, T # {}
  PROVE  \E x \in T : \A y \in T : x <= y
<1>1. PICK x \in T : \A y \in T : <<y, x>> \notin OpToRel(<, Nat)
  BY NatLessThanWellFounded, WFMin
<1>2. \A y \in T : ~(y < x)
  BY <1>1 DEF OpToRel
<1>3. QED
  BY <1>2

(* What holds of 0 and passes on from each number to the next.             *)
LEMMA Induct ==
  ASSUME NEW n \in Nat, NEW T, 0 \in T, \A k \in 0 .. n - 1 : k \in T => k + 1 \in T
  PROVE  \A k \in 0 .. n : k \in T
<1> DEFINE B == {k \in 0 .. n : k \notin T}
<1>1. B \in SUBSET Nat
  OBVIOUS
<1>2. CASE B # {}
  <2>1. PICK x \in B : \A y \in B : x <= y
    <3> HIDE DEF B
    <3>1. QED
      BY <1>1, <1>2, Least
  <2>2. x - 1 \in 0 .. n - 1 /\ (x - 1) + 1 = x
    BY <2>1
  <2>3. x - 1 \notin B
    BY <2>1, <2>2
  <2>4. QED
    BY <2>1, <2>2, <2>3
<1>3. QED
  BY <1>2

(* The elements of a sequence after another.                               *)
LEMMA RangeOfJoin ==
  ASSUME NEW S, NEW a \in Seq(S), NEW b \in Seq(S)
  PROVE  a \o b \in Seq(S) /\ Range(a \o b) = Range(a) \cup Range(b)
<1>1. a \o b \in Seq(S) /\ DOMAIN (a \o b) = 1 .. Len(a) + Len(b)
  OBVIOUS
<1>2. \A i \in 1 .. Len(a) : (a \o b)[i] = a[i]
  OBVIOUS
<1>3. \A i \in 1 .. Len(b) : (a \o b)[i + Len(a)] = b[i] /\ i + Len(a) \in 1 .. Len(a) + Len(b)
  OBVIOUS
<1>4. \A i \in 1 .. Len(a) + Len(b) : i \in 1 .. Len(a) \/ i - Len(a) \in 1 .. Len(b)
  OBVIOUS
<1>5. Range(a \o b) \subseteq Range(a) \cup Range(b)
  <2> SUFFICES ASSUME NEW i \in 1 .. Len(a) + Len(b)
               PROVE  (a \o b)[i] \in Range(a) \cup Range(b)
    BY <1>1 DEF Range
  <2>1. CASE i \in 1 .. Len(a)
    BY <1>2, <2>1 DEF Range
  <2>2. CASE i - Len(a) \in 1 .. Len(b)
    <3>1. (a \o b)[i] = b[i - Len(a)]
      BY <2>2
    <3>2. QED
      BY <2>2, <3>1 DEF Range
  <2>3. QED
    BY <1>4, <2>1, <2>2
<1>6. Range(a) \subseteq Range(a \o b)
  <2>1. \A i \in 1 .. Len(a) : a[i] = (a \o b)[i] /\ i \in DOMAIN (a \o b)
    BY <1>1, <1>2
  <2>2. QED
    BY <2>1 DEF Range
<1>7. Range(b) \subseteq Range(a \o b)
  <2> SUFFICES ASSUME NEW i \in 1 .. Len(b) PROVE b[i] \in Range(a \o b)
    BY DEF Range
  <2>1. b[i] = (a \o b)[i + Len(a)] /\ i + Len(a) \in DOMAIN (a \o b)
    BY <1>1, <1>3
  <2>2. QED
    BY <2>1 DEF Range
<1>8. QED
  BY <1>1, <1>5, <1>6, <1>7

(* A part of a sequence, as SubSeq cuts it.                                *)
LEMMA RangeOfPart ==
  ASSUME NEW S, NEW a \in Seq(S), NEW i \in 1 .. Len(a) + 1, NEW j \in i - 1 .. Len(a)
  PROVE  /\ SubSeq(a, i, j) \in Seq(S) /\ Len(SubSeq(a, i, j)) = j - i + 1
         /\ \A k \in 1 .. j - i + 1 : SubSeq(a, i, j)[k] = a[i + k - 1]
         /\ Range(SubSeq(a, i, j)) = {a[k] : k \in i .. j}
<1> DEFINE part == SubSeq(a, i, j)
<1>1. part \in Seq(S) /\ Len(part) = j - i + 1 /\ DOMAIN part = 1 .. j - i + 1
  OBVIOUS
<1>2. \A k \in 1 .. j - i + 1 : part[k] = a[i + k - 1] /\ i + k - 1 \in i .. j
  OBVIOUS
<1> HIDE DEF part
<1>3. \A k \in i .. j : k - i + 1 \in DOMAIN part /\ a[k] = part[k - i + 1]
  BY <1>1, <1>2
<1>4. Range(part) = {a[k] : k \in i .. j}
  <2>1. \A k \in DOMAIN part : part[k] \in {a[l] : l \in i .. j}
    BY <1>1, <1>2
  <2>2. \A k \in i .. j : a[k] \in Range(part)
    BY <1>3 DEF Range
  <2>3. QED
    BY <2>1, <2>2 DEF Range
<1>5. QED
  BY <1>1, <1>2, <1>4 DEF part

(* The elements of a sequence after one was appended.                      *)
LEMMA RangeOfAppend ==
  ASSUME NEW S, NEW a \in Seq(S), NEW e \in S
  PROVE  Append(a, e) \in Seq(S) /\ Range(Append(a, e)) = Range(a) \cup {e}
<1>1. DOMAIN Append(a, e) = 1 .. Len(a) + 1 /\ Append(a, e)[Len(a) + 1] = e
  OBVIOUS
<1>2. \A k \in 1 .. Len(a) : Append(a, e)[k] = a[k]
  OBVIOUS
<1>3. QED
  BY <1>1, <1>2 DEF Range

-----------------------------------------------------------------------------
(* Uuids in order                                                          *)

Ascending(us) == \A i, j \in DOMAIN us : i < j => us[i] < us[j]

(* The least number before the others, which are in order.                 *)
LEMMA OrderExists ==
  ASSUME NEW F \in SUBSET Nat, IsFiniteSet(F)
  PROVE  \E us \in [1 .. Cardinality(F) -> F] : Ascending(us)
<1> DEFINE Without == {G \in FiniteSubsetsOf(Nat) :
                         ~ \E us \in [1 .. Cardinality(G) -> G] : Ascending(us)}
<1>1. ASSUME Without # {} PROVE FALSE
  <2>1. PICK G \in Without : \A H \in Without : <<H, G>> \notin StrictSubsetOrdering(Nat)
    <3> HIDE DEF Without
    <3>1. Without \subseteq FiniteSubsetsOf(Nat)
      BY DEF Without
    <3>2. QED
      BY <1>1, <3>1, FS_StrictSubsetOrderingWellFounded, WFMin
  <2>2. IsFiniteSet(G) /\ G \in SUBSET Nat
    BY DEF FiniteSubsetsOf
  <2>3. CASE G = {}
    <3>1. Cardinality(G) = 0
      BY <2>3, FS_EmptySet
    <3>2. [i \in 1 .. 0 |-> 0] \in [1 .. Cardinality(G) -> G] /\ Ascending([i \in 1 .. 0 |-> 0])
      BY <3>1 DEF Ascending
    <3>3. QED
      BY <3>2
  <2>4. CASE G # {}
    <3>1. PICK x \in G : \A y \in G : x <= y
      BY <2>2, <2>4, Least
    <3> DEFINE H == G \ {x}  n == Cardinality(H)
    <3>2. IsFiniteSet(H) /\ n \in Nat /\ Cardinality(G) = n + 1 /\ H \subseteq G /\ H # G
      <4>1. IsFiniteSet(H) /\ n = Cardinality(G) - 1
        BY <2>2, <3>1, FS_RemoveElement
      <4>2. Cardinality(G) \in Nat /\ n \in Nat
        BY <2>2, <4>1, FS_CardinalityType
      <4> HIDE DEF n
      <4>3. QED
        BY <3>1, <4>1, <4>2
    <3>3. H \notin Without
      BY <2>1, <2>2, <3>2 DEF StrictSubsetOrdering, FiniteSubsetsOf
    <3>4. PICK vs \in [1 .. n -> H] : Ascending(vs)
      BY <2>2, <3>2, <3>3 DEF FiniteSubsetsOf
    <3> DEFINE us == [i \in 1 .. n + 1 |-> IF i = 1 THEN x ELSE vs[i - 1]]
    <3>5. \A i \in 2 .. n + 1 : i - 1 \in 1 .. n /\ us[i] = vs[i - 1] /\ vs[i - 1] \in H
      <4> HIDE DEF n, H
      <4> SUFFICES ASSUME NEW i \in 2 .. n + 1
                   PROVE  i - 1 \in 1 .. n /\ us[i] = vs[i - 1] /\ vs[i - 1] \in H
        OBVIOUS
      <4>1. i \in 1 .. n + 1 /\ i # 1 /\ i - 1 \in 1 .. n
        BY <3>2
      <4>2. QED
        BY <3>4, <4>1
    <3>6. us \in [1 .. n + 1 -> G]
      <4>1. \A i \in 1 .. n + 1 : us[i] \in G
        <5> SUFFICES ASSUME NEW i \in 1 .. n + 1 PROVE us[i] \in G
          OBVIOUS
        <5>1. CASE i = 1
          BY <5>1
        <5>2. CASE i # 1
          <6>1. i \in 2 .. n + 1
            BY <5>2, <3>2
          <6>2. QED
            BY <6>1, <3>5
        <5>3. QED
          BY <5>1, <5>2
      <4>2. QED
        BY <4>1
    <3>7. ASSUME NEW i \in 1 .. n + 1, NEW j \in 1 .. n + 1, i < j PROVE us[i] < us[j]
      <4>0. j \in 2 .. n + 1
        BY <3>2, <3>7
      <4>1. CASE i = 1
        <5>1. us[i] = x /\ us[j] \in H
          BY <3>5, <4>0, <4>1
        <5>2. x \in Nat /\ us[j] \in Nat /\ x <= us[j] /\ us[j] # x
          BY <2>2, <3>1, <5>1
        <5>3. QED
          BY <5>1, <5>2
      <4>2. CASE i # 1
        <5>1. i \in 2 .. n + 1 /\ i - 1 < j - 1 /\ i - 1 \in 1 .. n /\ j - 1 \in 1 .. n
          BY <3>2, <3>7, <4>2
        <5>2. vs[i - 1] < vs[j - 1]
          BY <3>4, <5>1 DEF Ascending
        <5>3. QED
          BY <3>5, <4>0, <5>1, <5>2
      <4>3. QED
        BY <4>1, <4>2
    <3>8. DOMAIN us = 1 .. n + 1
      OBVIOUS
    <3> HIDE DEF us, H, n
    <3>9. Ascending(us)
      BY <3>7, <3>8 DEF Ascending
    <3>10. QED
      BY <3>2, <3>6, <3>9
  <2>5. QED
    BY <2>3, <2>4
<1>2. QED
  BY <1>1 DEF FiniteSubsetsOf

(* Numbers in order are all of a set that has as many.                     *)
LEMMA OrderCovers ==
  ASSUME NEW F \in SUBSET Nat, IsFiniteSet(F),
         NEW us \in [1 .. Cardinality(F) -> F], Ascending(us)
  PROVE  \A u \in F : \E i \in 1 .. Cardinality(F) : us[i] = u
<1> DEFINE n == Cardinality(F)
<1>1. n \in Nat
  BY FS_CardinalityType
<1>2. us \in Injection(1 .. n, F)
  <2>1. ASSUME NEW i \in 1 .. n, NEW j \in 1 .. n, us[i] = us[j], i # j PROVE FALSE
    <3>1. us[i] < us[j] \/ us[j] < us[i]
      BY <1>1, <2>1 DEF Ascending
    <3>2. us[i] \in Nat
      BY <1>1
    <3>3. QED
      BY <2>1, <3>1, <3>2
  <2>2. QED
    BY <2>1 DEF Injection, IsInjective
<1>3. Cardinality(1 .. n) = n
  BY <1>1, FS_Interval
<1>4. us \in Surjection(1 .. n, F)
  BY <1>2, <1>3, FS_Injection
<1>5. QED
  BY <1>4 DEF Surjection

(* Each uuid of a set comes once when they come in order.                  *)
LEMMA UuidOrder ==
  ASSUME NEW F \in SUBSET UUID
  PROVE  /\ IsFiniteSet(F) /\ Cardinality(F) \in Nat
         /\ InUuidOrder(F) \in [1 .. Cardinality(F) -> F]
         /\ Ascending(InUuidOrder(F))
         /\ \A u \in F : \E i \in 1 .. Cardinality(F) : InUuidOrder(F)[i] = u
<1> DEFINE n == Cardinality(F)  us == InUuidOrder(F)
<1>1. IsFiniteSet(F) /\ n \in Nat /\ F \in SUBSET Nat
  BY UUIDAssumption, FS_Subset, FS_CardinalityType
<1>2. us \in [1 .. n -> F] /\ Ascending(us)
  <2>1. \E vs \in [1 .. n -> F] : Ascending(vs)
    BY <1>1, OrderExists
  <2>2. QED
    BY <2>1 DEF InUuidOrder, Ascending
<1> HIDE DEF us
<1>3. \A u \in F : \E i \in 1 .. n : us[i] = u
  BY <1>1, <1>2, OrderCovers
<1>4. QED
  BY <1>1, <1>2, <1>3 DEF us

(* Max and Min of a finite set are in it and bound it.                     *)
LEMMA Extremes ==
  ASSUME NEW F \in SUBSET Nat, IsFiniteSet(F), F # {}
  PROVE  /\ Max(F) \in F /\ \A u \in F : u <= Max(F)
         /\ Min(F) \in F /\ \A u \in F : Min(F) <= u
<1> DEFINE n == Cardinality(F)
<1>1. n \in Nat /\ n # 0
  BY FS_CardinalityType, FS_EmptySet
<1>2. PICK us \in [1 .. n -> F] : Ascending(us)
  BY OrderExists
<1>3. \A u \in F : u <= us[n]
  <2> SUFFICES ASSUME NEW u \in F PROVE u <= us[n]
    OBVIOUS
  <2>1. PICK i \in 1 .. n : us[i] = u
    BY <1>2, OrderCovers
  <2>2. us[i] \in Nat /\ us[n] \in Nat
    <3>1. n \in 1 .. n
      BY <1>1
    <3> HIDE DEF n
    <3>2. us[i] \in F /\ us[n] \in F
      BY <3>1
    <3>3. QED
      BY <3>2
  <2>3. i = n \/ us[i] < us[n]
    BY <1>1, <1>2 DEF Ascending
  <2>4. QED
    BY <2>1, <2>2, <2>3
<1>4. us[n] \in F
  BY <1>1, <1>2
<1>5. \E x \in F : \A y \in F : x <= y
  BY Least
<1>6. \E x \in F : \A y \in F : x >= y
  BY <1>3, <1>4
<1>7. Max(F) \in F /\ \A y \in F : Max(F) >= y
  BY <1>6 DEF Max
<1>8. Min(F) \in F /\ \A y \in F : Min(F) <= y
  BY <1>5 DEF Min
<1>9. QED
  BY <1>7, <1>8

-----------------------------------------------------------------------------
(* The messages of a batch are merged one after another                    *)

(* g is what Merge is folded from, on the parts of a set of messages.      *)
MergedParts(s, ms, T, g) ==
  g = [t \in SUBSET T |-> IF t = {} THEN s ELSE MergeMessage(g[t \ {Max(t)}], ms[Max(t)])]

(* A set without its greatest number is a smaller set.                     *)
LEMMA SmallerPart ==
  ASSUME NEW T \in SUBSET Nat, IsFiniteSet(T), NEW t \in SUBSET T, t # {}
  PROVE  /\ IsFiniteSet(t) /\ Max(t) \in t
         /\ t \ {Max(t)} \in SUBSET T /\ t \ {Max(t)} # t
         /\ <<t \ {Max(t)}, t>> \in StrictSubsetOrdering(Nat)
         /\ t \in FiniteSubsetsOf(Nat) /\ t \ {Max(t)} \in FiniteSubsetsOf(Nat)
<1>1. IsFiniteSet(t) /\ IsFiniteSet(t \ {Max(t)})
  BY FS_Subset, FS_RemoveElement
<1>2. Max(t) \in t
  BY <1>1, Extremes
<1>3. QED
  BY <1>1, <1>2 DEF StrictSubsetOrdering, FiniteSubsetsOf

(* There is one such g: the least part where two of them differed would    *)
(* have a smaller one where they do.                                       *)
LEMMA MergedPartsUnique ==
  ASSUME NEW s, NEW ms, NEW T \in SUBSET Nat, IsFiniteSet(T),
         NEW g, MergedParts(s, ms, T, g), NEW h, MergedParts(s, ms, T, h)
  PROVE  \A t \in SUBSET T : g[t] = h[t]
<1> DEFINE Differ == {t \in SUBSET T : g[t] # h[t]}
<1>1. ASSUME Differ # {} PROVE FALSE
  <2>1. Differ \subseteq FiniteSubsetsOf(Nat)
    BY FS_Subset DEF FiniteSubsetsOf
  <2>2. PICK t \in Differ : \A r \in Differ : <<r, t>> \notin StrictSubsetOrdering(Nat)
    <3> HIDE DEF Differ
    <3>1. QED
      BY <1>1, <2>1, FS_StrictSubsetOrderingWellFounded, WFMin
  <2>3. t # {}
    BY DEF MergedParts
  <2>4. t \ {Max(t)} \in SUBSET T /\ t \ {Max(t)} \notin Differ
    BY <2>2, <2>3, SmallerPart
  <2>5. g[t \ {Max(t)}] = h[t \ {Max(t)}]
    BY <2>4
  <2>6. g[t] = h[t]
    BY <2>3, <2>5 DEF MergedParts
  <2>7. QED
    BY <2>6
<1>2. QED
  BY <1>1

(* On the parts of a part it is that part's.                               *)
LEMMA MergedPartsOfPart ==
  ASSUME NEW s, NEW ms, NEW T \in SUBSET Nat, IsFiniteSet(T),
         NEW g, MergedParts(s, ms, T, g), NEW R \in SUBSET T
  PROVE  MergedParts(s, ms, R, [t \in SUBSET R |-> g[t]])
<1> DEFINE h == [t \in SUBSET R |-> g[t]]
<1>1. ASSUME NEW t \in SUBSET R
      PROVE  h[t] = IF t = {} THEN s ELSE MergeMessage(h[t \ {Max(t)}], ms[Max(t)])
  <2>1. t \in SUBSET T /\ t \ {Max(t)} \in SUBSET R /\ h[t] = g[t] /\ h[t \ {Max(t)}] = g[t \ {Max(t)}]
    OBVIOUS
  <2>2. g[t] = IF t = {} THEN s ELSE MergeMessage(g[t \ {Max(t)}], ms[Max(t)])
    BY <2>1 DEF MergedParts
  <2> HIDE DEF h
  <2>3. QED
    BY <2>1, <2>2
<1>2. h = [t \in SUBSET R |-> h[t]]
  OBVIOUS
<1> HIDE DEF h
<1>3. MergedParts(s, ms, R, h)
  BY <1>1, <1>2 DEF MergedParts
<1>4. QED
  BY <1>3 DEF h

(* And there is one: the least set without has smaller parts, which have   *)
(* one each, and one is made of theirs.                                    *)
LEMMA MergedPartsExist ==
  ASSUME NEW s, NEW ms, NEW T \in SUBSET Nat, IsFiniteSet(T)
  PROVE  \E g : MergedParts(s, ms, T, g)
<1> DEFINE Without == {R \in FiniteSubsetsOf(Nat) : ~ \E g : MergedParts(s, ms, R, g)}
           Parts(R) == CHOOSE g : MergedParts(s, ms, R, g)
<1>1. ASSUME Without # {} PROVE FALSE
  <2>1. PICK R \in Without : \A r \in Without : <<r, R>> \notin StrictSubsetOrdering(Nat)
    <3>1. Without \subseteq FiniteSubsetsOf(Nat)
      OBVIOUS
    <3> HIDE DEF Without
    <3>2. QED
      BY <1>1, <3>1, FS_StrictSubsetOrderingWellFounded, WFMin
  <2>2. IsFiniteSet(R) /\ R \in SUBSET Nat
    BY DEF FiniteSubsetsOf
  <2>3. ASSUME NEW r \in SUBSET R, r # R PROVE MergedParts(s, ms, r, Parts(r)) /\ IsFiniteSet(r)
    <3>1. IsFiniteSet(r) /\ <<r, R>> \in StrictSubsetOrdering(Nat) /\ r \in FiniteSubsetsOf(Nat)
      BY <2>2, <2>3, FS_Subset DEF StrictSubsetOrdering, FiniteSubsetsOf
    <3>2. \E g : MergedParts(s, ms, r, g)
      BY <2>1, <3>1
    <3>3. QED
      BY <3>1, <3>2
  <2> DEFINE g == [t \in SUBSET R |->
                     IF t = {} THEN s
                     ELSE MergeMessage(Parts(t \ {Max(t)})[t \ {Max(t)}], ms[Max(t)])]
  <2> HIDE DEF Parts
  <2>4. ASSUME NEW r \in SUBSET R, r # R PROVE g[r] = Parts(r)[r]
    <3>1. r \in SUBSET r /\ Parts(r)[r] = IF r = {} THEN s
                     ELSE MergeMessage(Parts(r)[r \ {Max(r)}], ms[Max(r)])
      BY <2>3, <2>4 DEF MergedParts
    <3>2. CASE r = {}
      BY <3>1, <3>2
    <3>3. CASE r # {}
      <4> DEFINE q == r \ {Max(r)}
      <4>1. q \in SUBSET r /\ q # R /\ q \in SUBSET R /\ q \in SUBSET Nat
        BY <2>2, <2>4
      <4>2. MergedParts(s, ms, q, Parts(q)) /\ IsFiniteSet(q) /\ MergedParts(s, ms, r, Parts(r)) /\ IsFiniteSet(r)
        BY <2>3, <2>4, <4>1
      <4> HIDE DEF q
      <4>3. MergedParts(s, ms, q, [t \in SUBSET q |-> Parts(r)[t]])
        BY <2>2, <4>1, <4>2, MergedPartsOfPart
      <4>4. Parts(q)[q] = [t \in SUBSET q |-> Parts(r)[t]][q]
        BY <4>1, <4>2, <4>3, MergedPartsUnique
      <4>5. Parts(q)[q] = Parts(r)[q]
        BY <4>4
      <4>6. g[r] = MergeMessage(Parts(q)[q], ms[Max(r)])
        BY <3>3 DEF q
      <4>7. Parts(r)[r] = MergeMessage(Parts(r)[q], ms[Max(r)])
        BY <3>1, <3>3 DEF q
      <4>8. QED
        BY <4>5, <4>6, <4>7
    <3>4. QED
      BY <3>2, <3>3
  <2>5. ASSUME NEW t \in SUBSET R
        PROVE  g[t] = IF t = {} THEN s ELSE MergeMessage(g[t \ {Max(t)}], ms[Max(t)])
    <3>1. CASE t = {}
      BY <3>1
    <3>2. CASE t # {}
      <4>1. t \ {Max(t)} \in SUBSET R /\ t \ {Max(t)} # R
        BY <2>2, <3>2, SmallerPart
      <4>2. g[t \ {Max(t)}] = Parts(t \ {Max(t)})[t \ {Max(t)}]
        BY <2>4, <4>1
      <4>3. g[t] = MergeMessage(Parts(t \ {Max(t)})[t \ {Max(t)}], ms[Max(t)])
        BY <3>2
      <4> HIDE DEF g
      <4>4. QED
        BY <3>2, <4>2, <4>3
    <3>3. QED
      BY <3>1, <3>2
  <2>6. g = [t \in SUBSET R |-> g[t]]
    OBVIOUS
  <2> HIDE DEF g
  <2>7. MergedParts(s, ms, R, g)
    BY <2>5, <2>6 DEF MergedParts
  <2>8. QED
    BY <2>7
<1>2. QED
  BY <1>1 DEF FiniteSubsetsOf

(* The sessions after each message, up to what Merge returns.              *)
LEMMA MergeSteps ==
  ASSUME NEW s, NEW n \in Nat, NEW ms, DOMAIN ms = 1 .. n
  PROVE  \E g : /\ g[0] = s
                /\ \A k \in 0 .. n - 1 : g[k + 1] = MergeMessage(g[k], ms[k + 1])
                /\ g[n] = Merge(s, ms)
<1> DEFINE parts == CHOOSE g : MergedParts(s, ms, 1 .. n, g)
<1>1. MergedParts(s, ms, 1 .. n, parts)
  <2>1. IsFiniteSet(1 .. n) /\ 1 .. n \in SUBSET Nat
    BY FS_Interval
  <2>2. QED
    BY <2>1, MergedPartsExist
<1>2. Merge(s, ms) = parts[1 .. n]
  BY DEF Merge, FoldLeft, MapThenFoldSet, MergedParts
<1> HIDE DEF parts
<1> DEFINE g == [k \in 0 .. n |-> parts[1 .. k]]
<1>3. g[0] = s
  <2>1. 1 .. 0 = {} /\ 0 \in 0 .. n
    OBVIOUS
  <2>2. QED
    BY <1>1, <2>1 DEF MergedParts
<1>4. ASSUME NEW k \in 0 .. n - 1 PROVE g[k + 1] = MergeMessage(g[k], ms[k + 1])
  <2>1. 1 .. k + 1 \in SUBSET (1 .. n) /\ 1 .. k + 1 # {} /\ (1 .. k + 1) \ {k + 1} = 1 .. k
        /\ k \in 0 .. n /\ k + 1 \in 0 .. n
    OBVIOUS
  <2>2. Max(1 .. k + 1) = k + 1
    <3>1. IsFiniteSet(1 .. k + 1) /\ 1 .. k + 1 \in SUBSET Nat /\ k + 1 \in 1 .. k + 1
      BY <2>1, FS_Interval
    <3>2. Max(1 .. k + 1) \in 1 .. k + 1 /\ k + 1 <= Max(1 .. k + 1)
      BY <2>1, <3>1, Extremes
    <3>3. QED
      BY <3>2
  <2>3. parts[1 .. k + 1] = MergeMessage(parts[(1 .. k + 1) \ {k + 1}], ms[k + 1])
    BY <1>1, <2>1, <2>2 DEF MergedParts
  <2>4. QED
    BY <2>1, <2>3
<1>5. g[n] = Merge(s, ms)
  BY <1>2
<1> HIDE DEF g
<1>6. QED
  BY <1>3, <1>4, <1>5

-----------------------------------------------------------------------------
(* What one message makes of a session                                     *)

SessionType == [jor : Seq(ReplicaRow), iter : Nat \ {0}, out : Seq(ReplicaRow),
                images : [UUID -> Images \cup {NoData}]]
MessageType == [uuid : UUID, isDelete : BOOLEAN, isImageDelete : BOOLEAN,
                feed : Feeds \cup {NoData}, image : Images \cup {NoData}]

(* A session whose walk is within its rows, or past the last.              *)
Walking(s) == s \in SessionType /\ s.iter \in 1 .. Len(s.jor) + 1

(* Does the walk stop at a row of the uuid of m?                           *)
Hits(s, m) == StopAt(s, m.uuid) <= Len(s.jor) /\ s.jor[StopAt(s, m.uuid)].uuid = m.uuid

Kept(s, m) == s.out \o SubSeq(s.jor, s.iter, StopAt(s, m.uuid) - 1)

RowFor(s, m) ==
  IF Hits(s, m)
  THEN Row(m.uuid, IF m.feed # NoData THEN m.feed ELSE s.jor[StopAt(s, m.uuid)].feed,
           ~m.isImageDelete /\ (s.jor[StopAt(s, m.uuid)].image \/ m.image # NoData))
  ELSE Row(m.uuid, m.feed, ~m.isImageDelete /\ m.image # NoData)

(* The walk of a message stops at the first row not before its uuid, or    *)
(* past the last row.                                                      *)
LEMMA StopAtBounds ==
  ASSUME NEW s, Walking(s), NEW u \in UUID
  PROVE  /\ StopAt(s, u) \in s.iter .. Len(s.jor) + 1
         /\ \A i \in s.iter .. StopAt(s, u) - 1 : s.jor[i].uuid < u
         /\ StopAt(s, u) <= Len(s.jor) => s.jor[StopAt(s, u)].uuid >= u
<1> DEFINE S == {i \in s.iter .. Len(s.jor) : s.jor[i].uuid >= u} \cup {Len(s.jor) + 1}
<1>1. s.iter \in Nat /\ Len(s.jor) \in Nat /\ s.iter <= Len(s.jor) + 1 /\ s.iter >= 1
  BY DEF Walking, SessionType
<1>2. S \in SUBSET Nat /\ S # {} /\ Len(s.jor) + 1 \in S
  BY <1>1
<1>3. StopAt(s, u) \in S /\ \A i \in S : StopAt(s, u) <= i
  <2>1. StopAt(s, u) = Min(S)
    BY DEF StopAt
  <2> HIDE DEF S
  <2>2. \E x \in S : \A y \in S : x <= y
    BY <1>2, Least
  <2>3. QED
    BY <2>1, <2>2 DEF Min
<1>4. StopAt(s, u) \in s.iter .. Len(s.jor) + 1
  BY <1>1, <1>3
<1>5. \A i \in 1 .. Len(s.jor) : s.jor[i].uuid \in Nat
  <2>1. \A i \in 1 .. Len(s.jor) : s.jor[i] \in ReplicaRow
    BY DEF Walking, SessionType
  <2>2. QED
    BY <2>1, UUIDAssumption DEF ReplicaRow
<1>6. ASSUME NEW i \in s.iter .. StopAt(s, u) - 1 PROVE s.jor[i].uuid < u
  <2>1. i \in s.iter .. Len(s.jor) /\ i \in 1 .. Len(s.jor) /\ i < StopAt(s, u)
    BY <1>1, <1>4
  <2>2. i \notin S
    BY <1>1, <1>3, <1>4, <2>1
  <2>3. u \in Nat /\ s.jor[i].uuid \in Nat
    BY <1>5, <2>1, UUIDAssumption
  <2>4. QED
    BY <2>1, <2>2, <2>3
<1>7. StopAt(s, u) <= Len(s.jor) => s.jor[StopAt(s, u)].uuid >= u
  BY <1>1, <1>3
<1>8. QED
  BY <1>4, <1>6, <1>7

(* What is put out of a message is a row.                                  *)
LEMMA RowForType ==
  ASSUME NEW s, Walking(s), NEW m \in MessageType
  PROVE  RowFor(s, m) \in ReplicaRow /\ RowFor(s, m).uuid = m.uuid
<1>1. CASE Hits(s, m)
  <2>1. s.jor[StopAt(s, m.uuid)] \in ReplicaRow
    BY <1>1, StopAtBounds DEF Hits, Walking, SessionType, MessageType
  <2>2. QED
    BY <1>1, <2>1 DEF RowFor, Row, ReplicaRow, MessageType
<1>2. CASE ~Hits(s, m)
  BY <1>2 DEF RowFor, Row, ReplicaRow, MessageType
<1>3. QED
  BY <1>1, <1>2

(* The rows before the uuid of m are copied, and that of m after them.     *)
LEMMA MergeMessageFields ==
  ASSUME NEW s, Walking(s), NEW m \in MessageType
  PROVE  /\ MergeMessage(s, m).jor  = s.jor
         /\ MergeMessage(s, m).iter = StopAt(s, m.uuid) + (IF Hits(s, m) THEN 1 ELSE 0)
         /\ MergeMessage(s, m).out  = IF m.isDelete THEN Kept(s, m) ELSE Append(Kept(s, m), RowFor(s, m))
         /\ MergeMessage(s, m).images =
              IF m.isDelete \/ (~Hits(s, m) /\ m.isImageDelete) THEN s.images ELSE Stored(s.images, m)
         /\ Walking(MergeMessage(s, m))
<1> DEFINE stop == StopAt(s, m.uuid)
           copied == [s EXCEPT !.iter = stop, !.out = Kept(s, m)]
           merged == MergeMessage(s, m)
<1>1. stop \in 1 .. Len(s.jor) + 1 /\ s.iter \in Nat /\ stop - 1 \in s.iter - 1 .. Len(s.jor)
      /\ s.iter \in 1 .. Len(s.jor) + 1 /\ Len(s.jor) \in Nat
  BY StopAtBounds DEF Walking, SessionType, MessageType
<1>2. Kept(s, m) \in Seq(ReplicaRow)
  <2>1. s.out \in Seq(ReplicaRow) /\ s.jor \in Seq(ReplicaRow)
    BY DEF Walking, SessionType
  <2>2. SubSeq(s.jor, s.iter, stop - 1) \in Seq(ReplicaRow)
    BY <1>1, <2>1, RangeOfPart
  <2>3. QED
    BY <2>1, <2>2, RangeOfJoin DEF Kept
<1>3. copied \in SessionType /\ copied.iter = stop /\ copied.jor = s.jor /\ copied.out = Kept(s, m)
      /\ copied.images = s.images
  <2> HIDE DEF stop
  <2>1. stop \in Nat \ {0} /\ s \in SessionType
    BY <1>1 DEF Walking
  <2>2. QED
    BY <1>2, <2>1 DEF SessionType
<1>4. merged = IF Hits(s, m) THEN AddToRow(copied, m) ELSE AddNew(copied, m)
  BY DEF MergeMessage, Hits, Kept
<1>5. RowFor(s, m) \in ReplicaRow
  BY RowForType
<1>6. Append(Kept(s, m), RowFor(s, m)) \in Seq(ReplicaRow)
  BY <1>2, <1>5, RangeOfAppend
<1>7. Stored(s.images, m) \in [UUID -> Images \cup {NoData}]
  BY DEF Stored, Walking, SessionType, MessageType
<1> HIDE DEF copied, stop, merged
<1>8. CASE Hits(s, m)
  <2>1. s.jor[stop] = copied.jor[copied.iter] /\ stop <= Len(s.jor)
    BY <1>3, <1>8 DEF Hits, stop
  <2>2. CASE m.isDelete
    <3>1. merged = [copied EXCEPT !.iter = @ + 1]
      BY <1>4, <1>8, <2>2 DEF AddToRow
    <3>2. merged.jor = s.jor /\ merged.iter = stop + 1 /\ merged.out = Kept(s, m) /\ merged.images = s.images
          /\ merged \in SessionType
      BY <1>1, <1>3, <3>1 DEF SessionType
    <3>3. QED
      BY <1>1, <1>8, <2>1, <2>2, <3>2 DEF Walking, merged, stop
  <2>3. CASE ~m.isDelete
    <3>1. merged = [copied EXCEPT !.iter = @ + 1, !.out = Append(@, RowFor(s, m)), !.images = Stored(@, m)]
      BY <1>4, <1>8, <2>1, <2>3 DEF AddToRow, RowFor, stop
    <3>2. merged.jor = s.jor /\ merged.iter = stop + 1 /\ merged.out = Append(Kept(s, m), RowFor(s, m))
          /\ merged.images = Stored(s.images, m) /\ merged \in SessionType
      <4>1. stop + 1 \in Nat \ {0}
        BY <1>1
      <4>2. QED
        BY <1>3, <1>6, <1>7, <3>1, <4>1 DEF SessionType
    <3>3. QED
      BY <1>1, <1>8, <2>1, <2>3, <3>2 DEF Walking, merged, stop
  <2>4. QED
    BY <2>2, <2>3
<1>9. CASE ~Hits(s, m)
  <2>1. CASE m.isDelete
    <3>1. merged = copied
      BY <1>4, <1>9, <2>1 DEF AddNew
    <3>2. QED
      BY <1>1, <1>3, <1>9, <2>1, <3>1 DEF Walking, merged, stop
  <2>2. CASE ~m.isDelete
    <3>1. merged = [copied EXCEPT !.out = Append(@, RowFor(s, m)),
                                  !.images = IF m.isImageDelete THEN @ ELSE Stored(@, m)]
      BY <1>4, <1>9, <2>2 DEF AddNew, RowFor
    <3>2. merged.jor = s.jor /\ merged.iter = stop /\ merged.out = Append(Kept(s, m), RowFor(s, m))
          /\ merged.images = (IF m.isImageDelete THEN s.images ELSE Stored(s.images, m))
          /\ merged \in SessionType
      BY <1>1, <1>3, <1>6, <1>7, <3>1 DEF SessionType, Walking
    <3>3. QED
      BY <1>1, <1>9, <2>2, <3>2 DEF Walking, merged, stop
  <2>3. QED
    BY <2>1, <2>2
<1>10. QED
  BY <1>8, <1>9

-----------------------------------------------------------------------------
(* The rows of a session: those put out and those it has not come to       *)

Rest(s) == {s.jor[i] : i \in s.iter .. Len(s.jor)}
Rows(s) == Range(s.out) \cup Rest(s)

(* The file of a session that ends has the rows it put out and those it    *)
(* had yet to walk over.                                                   *)
LEMMA FinishedRows ==
  ASSUME NEW s, Walking(s)
  PROVE  Finished(s) \in Seq(ReplicaRow) /\ Range(Finished(s)) = Rows(s)
<1> DEFINE part == SubSeq(s.jor, s.iter, Len(s.jor))
<1>1. s.jor \in Seq(ReplicaRow) /\ s.out \in Seq(ReplicaRow)
      /\ s.iter \in 1 .. Len(s.jor) + 1 /\ Len(s.jor) \in s.iter - 1 .. Len(s.jor)
  BY DEF Walking, SessionType
<1>2. part \in Seq(ReplicaRow) /\ Range(part) = Rest(s)
  BY <1>1, RangeOfPart DEF Rest
<1>3. Finished(s) = s.out \o part
  BY DEF Finished
<1> HIDE DEF part
<1>4. s.out \o part \in Seq(ReplicaRow) /\ Range(s.out \o part) = Range(s.out) \cup Range(part)
  BY <1>1, <1>2, RangeOfJoin
<1>5. QED
  BY <1>2, <1>3, <1>4 DEF Rows

(* The rows of a session are among those it read and those it put out.     *)
LEMMA RowsType ==
  ASSUME NEW s, Walking(s)
  PROVE  Rows(s) \subseteq ReplicaRow /\ Range(s.jor) \subseteq ReplicaRow /\ Rest(s) \subseteq Range(s.jor)
<1>1. s.jor \in Seq(ReplicaRow) /\ s.out \in Seq(ReplicaRow) /\ s.iter \in 1 .. Len(s.jor) + 1
  BY DEF Walking, SessionType
<1>2. Range(s.jor) \subseteq ReplicaRow /\ Range(s.out) \subseteq ReplicaRow
  BY <1>1 DEF Range
<1>3. ASSUME NEW i \in s.iter .. Len(s.jor) PROVE s.jor[i] \in Range(s.jor)
  <2>1. i \in DOMAIN s.jor
    BY <1>1
  <2>2. QED
    BY <2>1 DEF Range
<1>4. Rest(s) \subseteq Range(s.jor)
  BY <1>3 DEF Rest
<1>5. QED
  BY <1>2, <1>4 DEF Rows

(* What a message m copies, what it leaves, and the row it puts out.        *)
Copied(s, m)  == {s.jor[i] : i \in s.iter .. StopAt(s, m.uuid) - 1}
Left(s, m)    ==
  {s.jor[i] : i \in (IF Hits(s, m) THEN StopAt(s, m.uuid) + 1 ELSE StopAt(s, m.uuid)) .. Len(s.jor)}
NewRows(s, m) == IF m.isDelete THEN {} ELSE {RowFor(s, m)}

(* Whatever the order messages come in, one forgets no row of another uuid.*)
LEMMA MergeMessageRows ==
  ASSUME NEW s, Walking(s), NEW m \in MessageType, NEW t, t = MergeMessage(s, m)
  PROVE  /\ Range(t.out) = Range(s.out) \cup Copied(s, m) \cup NewRows(s, m)
         /\ Rest(t) = Left(s, m)
         /\ {row \in Rows(s) : row.uuid # m.uuid} \subseteq Rows(t)
         /\ Rows(t) \subseteq Rows(s) \cup NewRows(s, m)
         /\ NewRows(s, m) \subseteq Rows(t)
<1> DEFINE stop   == StopAt(s, m.uuid)
           new    == NewRows(s, m)
           copied == {s.jor[i] : i \in s.iter .. stop - 1}
           after  == IF Hits(s, m) THEN stop + 1 ELSE stop
<1>1. stop \in s.iter .. Len(s.jor) + 1 /\ s.iter \in 1 .. Len(s.jor) + 1 /\ Len(s.jor) \in Nat
      /\ stop - 1 \in s.iter - 1 .. Len(s.jor) /\ s.jor \in Seq(ReplicaRow) /\ s.out \in Seq(ReplicaRow)
  BY StopAtBounds DEF Walking, SessionType, MessageType
<1>2. Kept(s, m) \in Seq(ReplicaRow) /\ Range(Kept(s, m)) = Range(s.out) \cup copied
  <2> DEFINE part == SubSeq(s.jor, s.iter, stop - 1)
  <2>1. part \in Seq(ReplicaRow) /\ Range(part) = copied
    <3> DEFINE before == stop - 1
    <3>1. before \in s.iter - 1 .. Len(s.jor)
      BY <1>1
    <3> HIDE DEF before
    <3>2. SubSeq(s.jor, s.iter, before) \in Seq(ReplicaRow)
          /\ Range(SubSeq(s.jor, s.iter, before)) = {s.jor[i] : i \in s.iter .. before}
      BY <1>1, <3>1, RangeOfPart
    <3>3. QED
      BY <3>2 DEF before
  <2>2. Kept(s, m) = s.out \o part
    BY DEF Kept
  <2> HIDE DEF part, copied
  <2>3. s.out \o part \in Seq(ReplicaRow) /\ Range(s.out \o part) = Range(s.out) \cup Range(part)
    BY <1>1, <2>1, RangeOfJoin
  <2>4. QED
    BY <2>1, <2>2, <2>3
<1>3. Range(t.out) = Range(s.out) \cup copied \cup new
  <2>1. RowFor(s, m) \in ReplicaRow
    BY RowForType
  <2>2. Range(Append(Kept(s, m), RowFor(s, m))) = Range(Kept(s, m)) \cup {RowFor(s, m)}
    BY <1>2, <2>1, RangeOfAppend
  <2> HIDE DEF copied
  <2>3. QED
    BY <1>2, <2>2, MergeMessageFields DEF NewRows
<1>4. Rest(t) = {s.jor[i] : i \in after .. Len(s.jor)}
  <2>1. t.jor = s.jor /\ t.iter = after
    <3>1. stop \in Nat
      BY <1>1
    <3>2. QED
      BY <3>1, MergeMessageFields
  <2> HIDE DEF after
  <2>2. QED
    BY <2>1 DEF Rest
<1>5. ASSUME NEW i \in s.iter .. Len(s.jor)
      PROVE  \/ i \in s.iter .. stop - 1 \/ i \in after .. Len(s.jor)
             \/ i = stop /\ Hits(s, m)
  BY <1>1
<1>6. ASSUME NEW i, i \in s.iter .. stop - 1 \/ i \in after .. Len(s.jor)
      PROVE  i \in s.iter .. Len(s.jor)
  BY <1>1, <1>6
<1> HIDE DEF after
<1>7. {row \in Rows(s) : row.uuid # m.uuid} \subseteq Rows(t)
  <2> SUFFICES ASSUME NEW i \in s.iter .. Len(s.jor), s.jor[i].uuid # m.uuid
               PROVE  s.jor[i] \in Rows(t)
    BY <1>3 DEF Rows, Rest
  <2>1. i \in s.iter .. stop - 1 \/ i \in after .. Len(s.jor)
    BY <1>5 DEF Hits
  <2>2. QED
    BY <1>3, <1>4, <2>1 DEF Rows
<1>8. Rows(t) \subseteq Rows(s) \cup new
  <2>1. copied \subseteq Rest(s)
    BY <1>6 DEF Rest
  <2>2. Rest(t) \subseteq Rest(s)
    BY <1>4, <1>6 DEF Rest
  <2>3. QED
    BY <1>3, <2>1, <2>2 DEF Rows
<1>9. QED
  BY <1>3, <1>4, <1>7, <1>8 DEF after, Copied, Left, Rows

-----------------------------------------------------------------------------
(* Sorted rows                                                             *)

Sorted(rows) == \A i, j \in DOMAIN rows : i < j => rows[i].uuid < rows[j].uuid

(* The rows put out go no further than l, the others begin after it.       *)
Passed(s, l) ==
  /\ \A row \in Range(s.out) : row.uuid <= l
  /\ \A row \in Rest(s) : row.uuid > l

(* A session in order: sorted rows on both sides, parted by l.             *)
InStep(s, l) == Walking(s) /\ Sorted(s.jor) /\ Sorted(s.out) /\ l \in Int /\ Passed(s, l)

(* The uuid of a row is a number.                                          *)
LEMMA RowUuid == \A row \in ReplicaRow : row.uuid \in Nat
BY UUIDAssumption DEF ReplicaRow

(* Sorted rows after sorted rows with smaller uuids are sorted.            *)
LEMMA SortedJoin ==
  ASSUME NEW a \in Seq(ReplicaRow), NEW b \in Seq(ReplicaRow), Sorted(a), Sorted(b),
         \A x \in Range(a), y \in Range(b) : x.uuid < y.uuid
  PROVE  Sorted(a \o b)
<1> DEFINE c == a \o b
<1>1. DOMAIN c = 1 .. Len(a) + Len(b) /\ DOMAIN a = 1 .. Len(a) /\ DOMAIN b = 1 .. Len(b)
      /\ Len(a) \in Nat /\ Len(b) \in Nat
  OBVIOUS
<1>2. \A i \in 1 .. Len(a) : c[i] = a[i]
  OBVIOUS
<1>3. \A i \in 1 .. Len(a) + Len(b) : i \notin 1 .. Len(a) => c[i] = b[i - Len(a)] /\ i - Len(a) \in 1 .. Len(b)
  OBVIOUS
<1> HIDE DEF c
<1>4. ASSUME NEW i \in 1 .. Len(a) + Len(b), NEW j \in 1 .. Len(a) + Len(b), i < j
      PROVE  c[i].uuid < c[j].uuid
  <2>1. CASE j \in 1 .. Len(a)
    <3>1. i \in 1 .. Len(a)
      BY <1>1, <1>4, <2>1
    <3>2. QED
      BY <1>1, <1>2, <1>4, <2>1, <3>1 DEF Sorted
  <2>2. CASE i \in 1 .. Len(a) /\ j \notin 1 .. Len(a)
    <3>1. a[i] \in Range(a) /\ b[j - Len(a)] \in Range(b)
      BY <1>1, <1>3, <2>2 DEF Range
    <3>2. QED
      BY <1>2, <1>3, <2>2, <3>1
  <2>3. CASE i \notin 1 .. Len(a)
    <3>1. j \notin 1 .. Len(a) /\ i - Len(a) < j - Len(a)
      BY <1>1, <1>4, <2>3
    <3>2. b[i - Len(a)].uuid < b[j - Len(a)].uuid
      BY <1>1, <1>3, <2>3, <3>1 DEF Sorted
    <3>3. QED
      BY <1>3, <2>3, <3>1, <3>2
  <2>4. QED
    BY <2>1, <2>2, <2>3
<1>5. QED
  BY <1>1, <1>4 DEF Sorted, c

(* A part of sorted rows is sorted.                                        *)
LEMMA SortedPart ==
  ASSUME NEW a \in Seq(ReplicaRow), Sorted(a), NEW i \in 1 .. Len(a) + 1, NEW j \in i - 1 .. Len(a)
  PROVE  Sorted(SubSeq(a, i, j))
<1> DEFINE part == SubSeq(a, i, j)
<1>1. DOMAIN part = 1 .. j - i + 1 /\ \A k \in 1 .. j - i + 1 : part[k] = a[i + k - 1]
  BY RangeOfPart
<1>2. DOMAIN a = 1 .. Len(a) /\ Len(a) \in Nat
  OBVIOUS
<1> HIDE DEF part
<1>3. ASSUME NEW k \in 1 .. j - i + 1, NEW l \in 1 .. j - i + 1, k < l
      PROVE  part[k].uuid < part[l].uuid
  <2>1. i + k - 1 \in 1 .. Len(a) /\ i + l - 1 \in 1 .. Len(a) /\ i + k - 1 < i + l - 1
    BY <1>2, <1>3
  <2>2. a[i + k - 1].uuid < a[i + l - 1].uuid
    BY <1>2, <2>1 DEF Sorted
  <2>3. QED
    BY <1>1, <2>2
<1>4. QED
  BY <1>1, <1>3 DEF Sorted, part

(* So are sorted rows and one of a greater uuid.                           *)
LEMMA SortedAppend ==
  ASSUME NEW a \in Seq(ReplicaRow), Sorted(a), NEW row \in ReplicaRow,
         \A x \in Range(a) : x.uuid < row.uuid
  PROVE  Sorted(Append(a, row))
<1>1. Append(a, row) = a \o <<row>> /\ <<row>> \in Seq(ReplicaRow) /\ Range(<<row>>) = {row}
  BY DEF Range
<1>2. Sorted(<<row>>)
  BY DEF Sorted
<1>3. QED
  BY <1>1, <1>2, SortedJoin

(* Sorted rows have each uuid once.                                        *)
LEMMA SortedUnique ==
  ASSUME NEW a \in Seq(ReplicaRow), Sorted(a), NEW x \in Range(a), NEW y \in Range(a), x.uuid = y.uuid
  PROVE  x = y
<1>1. PICK i \in DOMAIN a, j \in DOMAIN a : x = a[i] /\ y = a[j]
  BY DEF Range
<1>2. DOMAIN a = 1 .. Len(a) /\ a[i] \in ReplicaRow
  OBVIOUS
<1>3. ~(i < j) /\ ~(j < i)
  <2>1. x.uuid \in Nat
    BY <1>1, <1>2, RowUuid
  <2>2. (i < j => x.uuid < y.uuid) /\ (j < i => y.uuid < x.uuid)
    BY <1>1 DEF Sorted
  <2>3. QED
    BY <2>1, <2>2
<1>4. i = j
  BY <1>2, <1>3
<1>5. QED
  BY <1>1, <1>4

(* A session in order has each uuid once, put out or to come.              *)
LEMMA InStepUnique ==
  ASSUME NEW s, NEW l, InStep(s, l)
  PROVE  \A x, y \in Rows(s) : x.uuid = y.uuid => x = y
<1> SUFFICES ASSUME NEW x \in Rows(s), NEW y \in Rows(s), x.uuid = y.uuid PROVE x = y
  OBVIOUS
<1>1. Walking(s) /\ s.out \in Seq(ReplicaRow) /\ s.jor \in Seq(ReplicaRow)
  BY DEF InStep, Walking, SessionType
<1>2. x.uuid \in Int /\ l \in Int
  <2>1. x \in ReplicaRow
    BY <1>1, RowsType
  <2>2. QED
    BY <2>1, RowUuid DEF InStep
<1>3. CASE x \in Range(s.out)
  <2>1. y \in Range(s.out)
    BY <1>2, <1>3 DEF InStep, Passed, Rows
  <2>2. QED
    BY <1>1, <1>3, <2>1, SortedUnique DEF InStep
<1>4. CASE x \in Rest(s)
  <2>1. y \in Rest(s)
    BY <1>2, <1>4 DEF InStep, Passed, Rows
  <2>2. QED
    BY <1>1, <1>4, <2>1, SortedUnique, RowsType DEF InStep
<1>5. QED
  BY <1>3, <1>4 DEF Rows

(* The file it leaves is sorted.                                           *)
LEMMA InStepFinished ==
  ASSUME NEW s, NEW l, InStep(s, l)
  PROVE  Sorted(Finished(s))
<1> DEFINE part == SubSeq(s.jor, s.iter, Len(s.jor))
<1>1. s.jor \in Seq(ReplicaRow) /\ s.out \in Seq(ReplicaRow)
      /\ s.iter \in 1 .. Len(s.jor) + 1 /\ Len(s.jor) \in s.iter - 1 .. Len(s.jor)
  BY DEF InStep, Walking, SessionType
<1>2. part \in Seq(ReplicaRow) /\ Range(part) = Rest(s)
  BY <1>1, RangeOfPart DEF Rest
<1>3. Sorted(part)
  BY <1>1, SortedPart DEF InStep
<1>4. \A x \in Range(s.out), y \in Rest(s) : x.uuid < y.uuid
  <2> SUFFICES ASSUME NEW x \in Range(s.out), NEW y \in Rest(s) PROVE x.uuid < y.uuid
    OBVIOUS
  <2>1. x \in ReplicaRow /\ y \in ReplicaRow
    BY RowsType DEF InStep, Rows
  <2>2. x.uuid <= l /\ y.uuid > l /\ l \in Int
    BY DEF InStep, Passed
  <2>3. x.uuid \in Nat /\ y.uuid \in Nat
    BY <2>1, RowUuid
  <2>4. QED
    BY <2>2, <2>3
<1>5. Finished(s) = s.out \o part
  BY DEF Finished
<1> HIDE DEF part
<1>6. QED
  BY <1>1, <1>2, <1>3, <1>4, <1>5, SortedJoin DEF InStep

(* In order, the walk finds the row of a uuid if there is one.             *)
LEMMA WalkFinds ==
  ASSUME NEW s, NEW l, InStep(s, l), NEW m \in MessageType, l < m.uuid
  PROVE  /\ Hits(s, m) => /\ s.jor[StopAt(s, m.uuid)] \in Rows(s)
                          /\ s.jor[StopAt(s, m.uuid)].uuid = m.uuid
         /\ \A row \in Rows(s) : row.uuid = m.uuid => Hits(s, m)
<1> DEFINE stop == StopAt(s, m.uuid)
<1>1. /\ stop \in s.iter .. Len(s.jor) + 1
      /\ \A i \in s.iter .. stop - 1 : s.jor[i].uuid < m.uuid
      /\ stop <= Len(s.jor) => s.jor[stop].uuid >= m.uuid
      /\ s.iter \in 1 .. Len(s.jor) + 1 /\ Len(s.jor) \in Nat /\ l \in Int
      /\ DOMAIN s.jor = 1 .. Len(s.jor) /\ s.jor \in Seq(ReplicaRow)
  BY StopAtBounds DEF InStep, Walking, SessionType, MessageType
<1> HIDE DEF stop
<1>2. ASSUME Hits(s, m) PROVE s.jor[stop] \in Rows(s)
  BY <1>1, <1>2 DEF Hits, Rows, Rest, stop
<1>3. ASSUME NEW row \in Rows(s), row.uuid = m.uuid PROVE Hits(s, m)
  <2>1. row \notin Range(s.out)
    BY <1>1, <1>3, RowUuid, RowsType DEF InStep, Passed
  <2>2. PICK i \in s.iter .. Len(s.jor) : row = s.jor[i]
    BY <2>1 DEF Rows, Rest
  <2>3. row \in ReplicaRow /\ row.uuid \in Nat
    BY RowsType, RowUuid DEF InStep
  <2>4. ~(i < stop)
    BY <1>1, <1>3, <2>2, <2>3
  <2>5. stop <= Len(s.jor) /\ stop \in 1 .. Len(s.jor) /\ i \in 1 .. Len(s.jor)
    BY <1>1, <2>4
  <2>6. s.jor[stop].uuid \in Nat
    BY <1>1, <2>5, RowUuid
  <2>7. ~(stop < i)
    <3>1. stop < i => s.jor[stop].uuid < s.jor[i].uuid
      BY <1>1, <2>5 DEF InStep, Sorted
    <3>2. QED
      BY <1>1, <1>3, <2>2, <2>3, <2>5, <2>6, <3>1
  <2>8. i = stop
    BY <2>4, <2>5, <2>7
  <2>9. QED
    BY <1>3, <2>2, <2>5, <2>8 DEF Hits, stop
<1>4. QED
  BY <1>2, <1>3 DEF stop, Hits

(* A message of a greater uuid than those before leaves the session sorted,*)
(* and no row of its uuid but its own.                                     *)
LEMMA MergeMessageInStep ==
  ASSUME NEW s, NEW l, InStep(s, l), NEW m \in MessageType, l < m.uuid,
         NEW t, t = MergeMessage(s, m)
  PROVE  /\ InStep(t, m.uuid)
         /\ \A row \in Rows(t) : row.uuid = m.uuid => ~m.isDelete /\ row = RowFor(s, m)
<1> DEFINE stop   == StopAt(s, m.uuid)
           before == stop - 1
           after  == IF Hits(s, m) THEN stop + 1 ELSE stop
           part   == SubSeq(s.jor, s.iter, before)
           new    == IF m.isDelete THEN {} ELSE {RowFor(s, m)}
<1>1. /\ stop \in s.iter .. Len(s.jor) + 1
      /\ \A i \in s.iter .. stop - 1 : s.jor[i].uuid < m.uuid
      /\ stop <= Len(s.jor) => s.jor[stop].uuid >= m.uuid
      /\ s.iter \in 1 .. Len(s.jor) + 1 /\ Len(s.jor) \in Nat /\ l \in Int /\ m.uuid \in Nat
      /\ DOMAIN s.jor = 1 .. Len(s.jor) /\ s.jor \in Seq(ReplicaRow) /\ s.out \in Seq(ReplicaRow)
  <2>1. Walking(s) /\ m.uuid \in UUID /\ m.uuid \in Nat /\ l \in Int
    BY UUIDAssumption DEF InStep, MessageType
  <2>2. /\ s.jor \in Seq(ReplicaRow) /\ s.out \in Seq(ReplicaRow)
        /\ s.iter \in 1 .. Len(s.jor) + 1
    BY <2>1 DEF Walking, SessionType
  <2>3. DOMAIN s.jor = 1 .. Len(s.jor) /\ Len(s.jor) \in Nat
    BY <2>2
  <2>4. QED
    BY <2>1, <2>2, <2>3, StopAtBounds
<1>2. before \in s.iter - 1 .. Len(s.jor)
  BY <1>1
<1>3. /\ t.jor = s.jor /\ Walking(t)
      /\ t.out = IF m.isDelete THEN Kept(s, m) ELSE Append(Kept(s, m), RowFor(s, m))
      /\ RowFor(s, m) \in ReplicaRow /\ RowFor(s, m).uuid = m.uuid
  BY MergeMessageFields, RowForType DEF InStep
<1>4. /\ Range(t.out) = Range(s.out) \cup {s.jor[i] : i \in s.iter .. before} \cup new
      /\ Rest(t) = {s.jor[i] : i \in after .. Len(s.jor)}
  BY MergeMessageRows DEF InStep, Copied, Left, NewRows
<1>5. Kept(s, m) = s.out \o part
  BY DEF Kept
<1>6. \A row \in Range(s.out) : row \in ReplicaRow /\ row.uuid \in Nat /\ row.uuid <= l
  BY RowsType, RowUuid DEF InStep, Passed, Rows
<1>7. \A i \in s.iter .. Len(s.jor) : s.jor[i].uuid \in Nat /\ s.jor[i].uuid > l
  <2> SUFFICES ASSUME NEW i \in s.iter .. Len(s.jor) PROVE s.jor[i].uuid \in Nat /\ s.jor[i].uuid > l
    OBVIOUS
  <2>1. s.jor[i] \in Rest(s) /\ s.jor[i] \in ReplicaRow
    BY <1>1 DEF Rest
  <2>2. QED
    BY <2>1, RowUuid DEF InStep, Passed
<1>8. part \in Seq(ReplicaRow) /\ Range(part) = {s.jor[i] : i \in s.iter .. before} /\ Sorted(part)
  <2> HIDE DEF before
  <2>1. QED
    BY <1>1, <1>2, RangeOfPart, SortedPart DEF InStep
<1>9. \A row \in Range(part) : row.uuid \in Nat /\ row.uuid > l /\ row.uuid < m.uuid
  <2> SUFFICES ASSUME NEW i \in s.iter .. before
               PROVE  s.jor[i].uuid \in Nat /\ s.jor[i].uuid > l /\ s.jor[i].uuid < m.uuid
    BY <1>8
  <2>1. i \in s.iter .. Len(s.jor)
    BY <1>1
  <2>2. QED
    BY <1>1, <1>7, <2>1
<1> HIDE DEF part, stop
<1>10. Kept(s, m) \in Seq(ReplicaRow) /\ Sorted(Kept(s, m)) /\ Range(Kept(s, m)) = Range(s.out) \cup Range(part)
  <2>1. \A x \in Range(s.out), y \in Range(part) : x.uuid < y.uuid
    BY <1>1, <1>6, <1>9
  <2>2. QED
    BY <1>1, <1>5, <1>8, <2>1, RangeOfJoin, SortedJoin DEF InStep
<1>11. \A row \in Range(Kept(s, m)) : row.uuid < m.uuid /\ row.uuid \in Nat
  BY <1>1, <1>6, <1>9, <1>10
<1>12. Sorted(t.out)
  BY <1>3, <1>10, <1>11, SortedAppend
<1>13. \A row \in Range(t.out) : row.uuid <= m.uuid /\ (row.uuid = m.uuid => row \in new)
  <2>1. Range(t.out) = Range(Kept(s, m)) \cup new
    BY <1>4, <1>8, <1>10
  <2>2. QED
    BY <1>1, <1>3, <1>11, <2>1
<1>14. \A row \in Rest(t) : row.uuid > m.uuid
  <2> SUFFICES ASSUME NEW i \in after .. Len(s.jor) PROVE s.jor[i].uuid > m.uuid
    BY <1>4
  <2>1. i \in 1 .. Len(s.jor) /\ stop \in 1 .. Len(s.jor) /\ (i = stop => ~Hits(s, m)) /\ stop <= i
    BY <1>1
  <2>2. s.jor[i].uuid \in Nat /\ s.jor[stop].uuid \in Nat
    BY <1>1, <2>1, RowUuid
  <2>3. stop < i => s.jor[stop].uuid < s.jor[i].uuid
    BY <1>1, <2>1 DEF InStep, Sorted
  <2>4. CASE i = stop
    BY <1>1, <2>1, <2>2, <2>4 DEF Hits, stop
  <2>5. CASE stop < i
    BY <1>1, <2>1, <2>2, <2>3, <2>5
  <2>6. QED
    BY <1>1, <2>1, <2>4, <2>5
<1>15. Passed(t, m.uuid)
  BY <1>13, <1>14 DEF Passed
<1>16. \A row \in Rows(t) : row.uuid = m.uuid => row \in new
  BY <1>1, <1>13, <1>14 DEF Rows
<1>17. QED
  BY <1>1, <1>3, <1>12, <1>15, <1>16 DEF InStep

-----------------------------------------------------------------------------
(* What the replica has of a uuid                                          *)

Absent == [has |-> FALSE, feed |-> NoData, image |-> NoData]

Entry(rows, images, u) ==
  IF \E row \in rows : row.uuid = u
  THEN LET row == CHOOSE row \in rows : row.uuid = u
       IN  [has |-> TRUE, feed |-> row.feed, image |-> IF row.image THEN images[u] ELSE NoData]
  ELSE Absent

(* The entry of a uuid after a message, and after none if that is NoRow.   *)
Change(r, m) ==
  IF m.isDelete
  THEN Absent
  ELSE [has   |-> TRUE,
        feed  |-> IF m.feed # NoData THEN m.feed ELSE r.feed,
        image |-> IF m.isImageDelete THEN NoData ELSE IF m.image # NoData THEN m.image ELSE r.image]

Apply(r, m) == IF m = NoRow THEN r ELSE Change(r, m)

(* The images of the rows are in their files.                              *)
Pictured(rows, images) == \A row \in rows : row.image => images[row.uuid] # NoData

(* The entry of a uuid is that of its only row.                            *)
LEMMA EntryOfRow ==
  ASSUME NEW rows, NEW images, NEW row \in rows,
         \A other \in rows : other.uuid = row.uuid => other = row
  PROVE  Entry(rows, images, row.uuid) =
           [has |-> TRUE, feed |-> row.feed, image |-> IF row.image THEN images[row.uuid] ELSE NoData]
<1>1. (CHOOSE other \in rows : other.uuid = row.uuid) = row
  OBVIOUS
<1>2. QED
  BY <1>1 DEF Entry

(* A uuid without a row has no entry.                                      *)
LEMMA NoEntry ==
  ASSUME NEW rows, NEW images, NEW u, \A row \in rows : row.uuid # u
  PROVE  Entry(rows, images, u) = Absent
BY DEF Entry

(* A message changes no image but that of its uuid, and removes none.      *)
LEMMA ImagesStored ==
  ASSUME NEW s, Walking(s), NEW m \in MessageType, NEW t, t = MergeMessage(s, m)
  PROVE  /\ \A u \in UUID : u # m.uuid => t.images[u] = s.images[u]
         /\ \A u \in UUID : s.images[u] # NoData => t.images[u] # NoData
         /\ ~m.isDelete /\ ~m.isImageDelete /\ m.image # NoData => t.images[m.uuid] = m.image
         /\ m.image = NoData => t.images = s.images
<1>1. t.images = s.images \/ t.images = Stored(s.images, m)
  BY MergeMessageFields
<1>2. ~m.isDelete /\ ~m.isImageDelete => t.images = Stored(s.images, m)
  BY MergeMessageFields
<1>3. m.uuid \in UUID /\ s.images \in [UUID -> Images \cup {NoData}]
  BY DEF Walking, SessionType, MessageType
<1>4. QED
  BY <1>1, <1>2, <1>3 DEF Stored

(* Whatever the order, a row with an image has its file.                   *)
LEMMA MergeMessagePictured ==
  ASSUME NEW s, Walking(s), NEW m \in MessageType, NEW t, t = MergeMessage(s, m),
         Pictured(Range(s.jor) \cup Range(s.out), s.images)
  PROVE  Pictured(Range(t.jor) \cup Range(t.out), t.images)
<1>1. t.jor = s.jor
  BY MergeMessageFields
<1>2. Range(t.out) \subseteq Range(s.out) \cup Range(s.jor) \cup NewRows(s, m)
  <2>1. Copied(s, m) \subseteq Range(s.jor)
    <3> SUFFICES ASSUME NEW i \in s.iter .. StopAt(s, m.uuid) - 1 PROVE s.jor[i] \in Range(s.jor)
      BY DEF Copied
    <3>1. m.uuid \in UUID /\ s.jor \in Seq(ReplicaRow) /\ s.iter \in 1 .. Len(s.jor) + 1
      BY DEF Walking, SessionType, MessageType
    <3>2. StopAt(s, m.uuid) \in s.iter .. Len(s.jor) + 1
      BY <3>1, StopAtBounds
    <3>3. i \in DOMAIN s.jor
      BY <3>1, <3>2
    <3>4. QED
      BY <3>3 DEF Range
  <2>2. QED
    BY <2>1, MergeMessageRows
<1>3. ASSUME NEW row \in Range(s.jor) \cup Range(s.out), row.image PROVE t.images[row.uuid] # NoData
  <2>1. row.uuid \in UUID
    BY RowsType DEF ReplicaRow, Rows
  <2>2. s.images[row.uuid] # NoData
    BY <1>3 DEF Pictured
  <2>3. QED
    BY <2>1, <2>2, ImagesStored
<1>4. ASSUME ~m.isDelete, RowFor(s, m).image PROVE t.images[m.uuid] # NoData
  <2>1. m.uuid \in UUID /\ ~m.isImageDelete
    BY <1>4 DEF RowFor, Row, MessageType
  <2>2. CASE m.image # NoData
    BY <1>4, <2>1, <2>2, ImagesStored
  <2>3. CASE m.image = NoData
    <3>1. Hits(s, m) /\ s.jor[StopAt(s, m.uuid)].image
      BY <1>4, <2>3 DEF RowFor, Row
    <3>2. s.jor[StopAt(s, m.uuid)] \in Range(s.jor) /\ s.jor[StopAt(s, m.uuid)].uuid = m.uuid
      <4>1. s.jor \in Seq(ReplicaRow) /\ s.iter \in 1 .. Len(s.jor) + 1
        BY DEF Walking, SessionType
      <4>2. StopAt(s, m.uuid) \in DOMAIN s.jor
        BY <2>1, <3>1, <4>1, StopAtBounds DEF Hits
      <4>3. QED
        BY <3>1, <4>2 DEF Hits, Range
    <3>3. QED
      BY <1>3, <3>1, <3>2
  <2>4. QED
    BY <2>2, <2>3
<1>5. RowFor(s, m).uuid = m.uuid
  BY RowForType
<1>6. QED
  BY <1>1, <1>2, <1>3, <1>4, <1>5 DEF Pictured, NewRows

(* In order, a message makes of the entry of its uuid what it should, and  *)
(* leaves the others.                                                      *)
LEMMA MergeMessageEntry ==
  ASSUME NEW s, NEW l, InStep(s, l), NEW m \in MessageType, l < m.uuid,
         NEW t, t = MergeMessage(s, m)
  PROVE  /\ Entry(Rows(t), t.images, m.uuid) = Change(Entry(Rows(s), s.images, m.uuid), m)
         /\ \A u \in UUID : u # m.uuid => Entry(Rows(t), t.images, u) = Entry(Rows(s), s.images, u)
<1>1. Walking(s) /\ m.uuid \in UUID
  BY DEF InStep, MessageType
<1>2. InStep(t, m.uuid) /\ \A row \in Rows(t) : row.uuid = m.uuid => ~m.isDelete /\ row = RowFor(s, m)
  BY MergeMessageInStep
<1>3. /\ {row \in Rows(s) : row.uuid # m.uuid} \subseteq Rows(t)
      /\ Rows(t) \subseteq Rows(s) \cup NewRows(s, m) /\ NewRows(s, m) \subseteq Rows(t)
  BY <1>1, MergeMessageRows
<1>4. RowFor(s, m).uuid = m.uuid
  BY <1>1, RowForType
<1>5. Entry(Rows(t), t.images, m.uuid) = Change(Entry(Rows(s), s.images, m.uuid), m)
  <2>1. CASE m.isDelete
    <3>1. Entry(Rows(t), t.images, m.uuid) = Absent
      BY <1>2, <2>1, NoEntry
    <3>2. QED
      BY <2>1, <3>1 DEF Change
  <2>2. CASE ~m.isDelete
    <3> DEFINE new == RowFor(s, m)
               old == s.jor[StopAt(s, m.uuid)]
               e   == Entry(Rows(s), s.images, m.uuid)
    <3>1. Entry(Rows(t), t.images, m.uuid) =
            [has |-> TRUE, feed |-> new.feed, image |-> IF new.image THEN t.images[m.uuid] ELSE NoData]
      <4>1. new \in Rows(t)
        BY <1>3, <2>2 DEF NewRows
      <4> HIDE DEF new
      <4>2. new.uuid = m.uuid /\ \A row \in Rows(t) : row.uuid = m.uuid => row = new
        BY <1>2, <1>4 DEF new
      <4>3. QED
        BY <4>1, <4>2, EntryOfRow
    <3>2. /\ Hits(s, m) => e = [has |-> TRUE, feed |-> old.feed, image |-> IF old.image THEN s.images[m.uuid] ELSE NoData]
          /\ ~Hits(s, m) => e = Absent
      <4>1. CASE Hits(s, m)
        <5>1. old \in Rows(s) /\ old.uuid = m.uuid
          BY <4>1, WalkFinds
        <5> HIDE DEF old
        <5>2. QED
          BY <4>1, <5>1, InStepUnique, EntryOfRow
      <4>2. CASE ~Hits(s, m)
        BY <4>2, WalkFinds, NoEntry
      <4>3. QED
        BY <4>1, <4>2
    <3>3. /\ new.feed = IF m.feed # NoData THEN m.feed ELSE e.feed
          /\ (IF new.image THEN t.images[m.uuid] ELSE NoData) =
               IF m.isImageDelete THEN NoData ELSE IF m.image # NoData THEN m.image ELSE e.image
      <4>1. m.image # NoData /\ ~m.isImageDelete => t.images[m.uuid] = m.image
        BY <1>1, <2>2, ImagesStored
      <4>2. m.image = NoData => t.images[m.uuid] = s.images[m.uuid]
        BY <1>1, ImagesStored
      <4> HIDE DEF old, e
      <4>3. CASE Hits(s, m)
        <5>1. /\ e.feed = old.feed
              /\ e.image = IF old.image THEN s.images[m.uuid] ELSE NoData
          BY <3>2, <4>3
        <5>2. new.feed = (IF m.feed # NoData THEN m.feed ELSE old.feed)
              /\ new.image = (~m.isImageDelete /\ (old.image \/ m.image # NoData))
          BY <4>3 DEF RowFor, Row, old
        <5> HIDE DEF new
        <5>3. QED
          BY <4>1, <4>2, <5>1, <5>2
      <4>4. CASE ~Hits(s, m)
        <5>1. e.feed = NoData /\ e.image = NoData
          BY <3>2, <4>4 DEF Absent
        <5>2. new.feed = m.feed /\ new.image = (~m.isImageDelete /\ m.image # NoData)
          BY <4>4 DEF RowFor, Row
        <5> HIDE DEF new
        <5>3. QED
          BY <4>1, <4>2, <5>1, <5>2
      <4>5. QED
        BY <4>3, <4>4
    <3> HIDE DEF new, old, e
    <3>4. Change(e, m) = [has |-> TRUE, feed |-> IF m.feed # NoData THEN m.feed ELSE e.feed,
                         image |-> IF m.isImageDelete THEN NoData ELSE IF m.image # NoData THEN m.image ELSE e.image]
      BY <2>2 DEF Change
    <3>5. QED
      BY <2>2, <3>1, <3>3, <3>4 DEF e
  <2>3. QED
    BY <2>1, <2>2
<1>7. ASSUME NEW u \in UUID, u # m.uuid
      PROVE  Entry(Rows(t), t.images, u) = Entry(Rows(s), s.images, u)
  <2>1. t.images[u] = s.images[u]
    BY <1>1, <1>7, ImagesStored
  <2>2. \A row \in Rows(t) \cup Rows(s) : row.uuid = u => row \in Rows(t) /\ row \in Rows(s)
    BY <1>3, <1>4, <1>7 DEF NewRows
  <2>3. CASE \E row \in Rows(s) : row.uuid = u
    <3>1. PICK row \in Rows(s) : row.uuid = u
      BY <2>3
    <3>2. row \in Rows(t)
      BY <2>2, <3>1
    <3>3. \A other \in Rows(s) : other.uuid = row.uuid => other = row
      BY InStepUnique
    <3>4. \A other \in Rows(t) : other.uuid = row.uuid => other = row
      BY <1>2, <3>2, InStepUnique
    <3>5. Entry(Rows(s), s.images, row.uuid) =
            [has |-> TRUE, feed |-> row.feed, image |-> IF row.image THEN s.images[row.uuid] ELSE NoData]
      BY <3>3, EntryOfRow
    <3>6. Entry(Rows(t), t.images, row.uuid) =
            [has |-> TRUE, feed |-> row.feed, image |-> IF row.image THEN t.images[row.uuid] ELSE NoData]
      BY <3>2, <3>4, EntryOfRow
    <3>7. QED
      BY <2>1, <3>1, <3>5, <3>6
  <2>4. CASE ~ \E row \in Rows(s) : row.uuid = u
    BY <2>2, <2>4, NoEntry
  <2>5. QED
    BY <2>3, <2>4
<1>8. QED
  BY <1>5, <1>7

-----------------------------------------------------------------------------
(* What a batch makes of a session                                         *)

(* ms are the messages of batch, in the order us of its uuids.             *)
Listed(batch, us, n, ms) ==
  /\ n \in Nat /\ us \in [1 .. n -> Keys(batch)] /\ Ascending(us)
  /\ \A u \in Keys(batch) : \E i \in 1 .. n : us[i] = u
  /\ DOMAIN ms = 1 .. n
  /\ \A i \in 1 .. n : /\ ms[i] \in MessageType /\ ms[i].uuid = us[i]
                       /\ ms[i].isDelete = batch[us[i]].isDelete
                       /\ \A r : Change(r, ms[i]) = Change(r, batch[us[i]])

(* The messages of a batch as the session gets them.                       *)
LEMMA InOrderMessages ==
  ASSUME NEW batch \in Batch
  PROVE  Listed(batch, InUuidOrder(Keys(batch)), Cardinality(Keys(batch)), InOrder(batch))
<1> DEFINE us == InUuidOrder(Keys(batch))
           n  == Cardinality(Keys(batch))
           ms == InOrder(batch)
<1>1. n \in Nat /\ us \in [1 .. n -> Keys(batch)] /\ Ascending(us)
      /\ \A u \in Keys(batch) : \E i \in 1 .. n : us[i] = u
  <2>1. Keys(batch) \in SUBSET UUID
    BY DEF Keys
  <2>2. QED
    BY <2>1, UuidOrder
<1>2. DOMAIN ms = 1 .. n
  BY <1>1 DEF InOrder
<1>3. ASSUME NEW i \in 1 .. n
      PROVE  /\ ms[i] \in MessageType /\ ms[i].uuid = us[i]
             /\ ms[i].isDelete = batch[us[i]].isDelete
             /\ \A r : Change(r, ms[i]) = Change(r, batch[us[i]])
  <2>1. us[i] \in UUID /\ batch[us[i]] \in MessageData
    BY <1>1 DEF Keys, Batch
  <2>2. ms[i] = [uuid |-> us[i],
                 isDelete |-> batch[us[i]].isDelete, isImageDelete |-> batch[us[i]].isImageDelete,
                 feed     |-> batch[us[i]].feed,     image         |-> batch[us[i]].image]
    BY <1>1 DEF InOrder
  <2>3. ms[i] \in MessageType
    BY <2>1, <2>2 DEF MessageData, MessageType
  <2>4. /\ ms[i].uuid = us[i]
        /\ ms[i].isDelete = batch[us[i]].isDelete /\ ms[i].isImageDelete = batch[us[i]].isImageDelete
        /\ ms[i].feed = batch[us[i]].feed /\ ms[i].image = batch[us[i]].image
    BY <2>2
  <2>5. \A r : Change(r, ms[i]) = Change(r, batch[us[i]])
    BY <2>4 DEF Change
  <2>6. QED
    BY <2>3, <2>4, <2>5
<1> HIDE DEF us, n, ms
<1>4. Listed(batch, us, n, ms)
  BY <1>1, <1>2, <1>3 DEF Listed
<1>5. QED
  BY <1>4 DEF us, n, ms

(* Whatever the order, a batch forgets no row of the other uuids, puts out *)
(* a row for each feed it tells of, and brings the images its rows have.   *)
Merged(s, batch, t) ==
  /\ Walking(t) /\ t.jor = s.jor
  /\ Pictured(Range(t.jor) \cup Range(t.out), t.images)
  /\ Range(s.out) \subseteq Range(t.out)
  /\ \A row \in Rows(s) : batch[row.uuid] = NoRow => row \in Rows(t)
  /\ \A u \in Keys(batch) : ~batch[u].isDelete => \E row \in Range(t.out) : row.uuid = u

(* Whatever the order batches come in, merging one forgets no row it has   *)
(* no message of, and leaves a row of each feed it has one of.             *)
LEMMA MergeBatch ==
  ASSUME NEW s, Walking(s), NEW batch \in Batch, NEW t, t = Merge(s, InOrder(batch)),
         Pictured(Range(s.jor) \cup Range(s.out), s.images)
  PROVE  Merged(s, batch, t)
<1> DEFINE us == InUuidOrder(Keys(batch))
           n  == Cardinality(Keys(batch))
           ms == InOrder(batch)
<1>1. /\ n \in Nat /\ us \in [1 .. n -> Keys(batch)]
      /\ \A u \in Keys(batch) : \E i \in 1 .. n : us[i] = u
      /\ DOMAIN ms = 1 .. n
      /\ \A i \in 1 .. n : /\ ms[i] \in MessageType /\ ms[i].uuid = us[i]
                           /\ ms[i].isDelete = batch[us[i]].isDelete
  <2>1. Listed(batch, us, n, ms)
    BY InOrderMessages
  <2> HIDE DEF us, n, ms
  <2>2. QED
    BY <2>1 DEF Listed
<1> HIDE DEF us, n, ms
<1>2. PICK g : /\ g[0] = s
               /\ \A k \in 0 .. n - 1 : g[k + 1] = MergeMessage(g[k], ms[k + 1])
               /\ g[n] = Merge(s, ms)
  <2>1. n \in Nat /\ DOMAIN ms = 1 .. n
    BY <1>1
  <2>2. QED
    BY <2>1, MergeSteps, Zenon
<1> DEFINE Good(k) ==
      /\ Walking(g[k]) /\ g[k].jor = s.jor
      /\ Pictured(Range(g[k].jor) \cup Range(g[k].out), g[k].images)
      /\ Range(s.out) \subseteq Range(g[k].out)
      /\ \A row \in Rows(s) : batch[row.uuid] = NoRow => row \in Rows(g[k])
      /\ \A i \in 1 .. k : ~batch[us[i]].isDelete => \E row \in Range(g[k].out) : row.uuid = us[i]
<1>3. Good(0)
  BY <1>2
<1>4. ASSUME NEW k \in 0 .. n - 1, Good(k) PROVE Good(k + 1)
  <2> DEFINE a == g[k]  b == g[k + 1]  m == ms[k + 1]
  <2>1. m \in MessageType /\ m.uuid = us[k + 1] /\ m.isDelete = batch[us[k + 1]].isDelete
        /\ k + 1 \in 1 .. n /\ us[k + 1] \in Keys(batch)
    BY <1>1
  <2>2. b = MergeMessage(a, m)
    BY <1>2
  <2>3. /\ Walking(a) /\ a.jor = s.jor /\ Pictured(Range(a.jor) \cup Range(a.out), a.images)
        /\ Range(s.out) \subseteq Range(a.out)
        /\ \A row \in Rows(s) : batch[row.uuid] = NoRow => row \in Rows(a)
        /\ \A i \in 1 .. k : ~batch[us[i]].isDelete => \E row \in Range(a.out) : row.uuid = us[i]
    BY <1>4
  <2> HIDE DEF a, b, m
  <2>4. Walking(b) /\ b.jor = s.jor
    BY <2>1, <2>2, <2>3, MergeMessageFields
  <2>5. Pictured(Range(b.jor) \cup Range(b.out), b.images)
    BY <2>1, <2>2, <2>3, MergeMessagePictured
  <2>6. /\ Range(b.out) = Range(a.out) \cup Copied(a, m) \cup NewRows(a, m)
        /\ {row \in Rows(a) : row.uuid # m.uuid} \subseteq Rows(b)
    BY <2>1, <2>2, <2>3, MergeMessageRows
  <2>7. \A row \in Rows(s) : batch[row.uuid] = NoRow => row \in Rows(b)
    BY <2>1, <2>3, <2>6 DEF Keys
  <2>8. ~m.isDelete => \E row \in Range(b.out) : row.uuid = m.uuid
    BY <2>1, <2>3, <2>6, RowForType DEF NewRows
  <2>9. \A i \in 1 .. k + 1 : ~batch[us[i]].isDelete => \E row \in Range(b.out) : row.uuid = us[i]
    <3> SUFFICES ASSUME NEW i \in 1 .. k + 1, ~batch[us[i]].isDelete
                 PROVE  \E row \in Range(b.out) : row.uuid = us[i]
      OBVIOUS
    <3>1. CASE i \in 1 .. k
      BY <2>3, <2>6, <3>1
    <3>2. CASE i = k + 1
      BY <2>1, <2>8, <3>2
    <3>3. QED
      BY <3>1, <3>2
  <2>10. QED
    BY <2>3, <2>4, <2>5, <2>6, <2>7, <2>9 DEF b
<1> DEFINE T == {k \in 0 .. n : Good(k)}
<1>5. 0 \in T /\ \A k \in 0 .. n - 1 : k \in T => k + 1 \in T
  <2> HIDE DEF Good
  <2>1. 0 \in 0 .. n /\ \A k \in 0 .. n - 1 : k + 1 \in 0 .. n
    BY <1>1
  <2>2. QED
    BY <1>3, <1>4, <2>1
<1>6. Good(n)
  <2> HIDE DEF Good
  <2>1. n \in T
    <3> HIDE DEF T
    <3>1. \A k \in 0 .. n : k \in T
      BY <1>1, <1>5, Induct, Zenon
    <3>2. QED
      BY <1>1, <3>1
  <2>2. QED
    BY <2>1
<1>7. t = g[n]
  BY <1>2 DEF ms
<1>8. \A u \in Keys(batch) : ~batch[u].isDelete => \E row \in Range(t.out) : row.uuid = u
  BY <1>1, <1>6, <1>7
<1>9. QED
  BY <1>6, <1>7, <1>8 DEF Merged

(* In order, the entry of each uuid is what its message makes of it, and   *)
(* the walk has come to the last uuid of the batch.                        *)
LEMMA MergeBatchInOrder ==
  ASSUME NEW s, NEW l, InStep(s, l), NEW batch \in Batch, Keys(batch) # {}, l < Min(Keys(batch)),
         NEW t, t = Merge(s, InOrder(batch))
  PROVE  /\ InStep(t, Max(Keys(batch)))
         /\ \A u \in UUID : Entry(Rows(t), t.images, u) = Apply(Entry(Rows(s), s.images, u), batch[u])
<1> DEFINE us == InUuidOrder(Keys(batch))
           n  == Cardinality(Keys(batch))
           ms == InOrder(batch)
<1>1. /\ n \in Nat /\ us \in [1 .. n -> Keys(batch)] /\ Ascending(us)
      /\ \A u \in Keys(batch) : \E i \in 1 .. n : us[i] = u
      /\ DOMAIN ms = 1 .. n
      /\ \A i \in 1 .. n : /\ ms[i] \in MessageType /\ ms[i].uuid = us[i]
                           /\ ms[i].isDelete = batch[us[i]].isDelete
                           /\ \A r : Change(r, ms[i]) = Change(r, batch[us[i]])
  <2>1. Listed(batch, us, n, ms)
    BY InOrderMessages
  <2> HIDE DEF us, n, ms
  <2>2. QED
    BY <2>1 DEF Listed
<1>2. /\ Max(Keys(batch)) \in Keys(batch) /\ \A u \in Keys(batch) : u <= Max(Keys(batch))
      /\ Min(Keys(batch)) \in Keys(batch) /\ \A u \in Keys(batch) : Min(Keys(batch)) <= u
      /\ Keys(batch) \in SUBSET UUID /\ Keys(batch) \in SUBSET Nat
  <2>1. Keys(batch) \in SUBSET UUID /\ Keys(batch) \in SUBSET Nat /\ IsFiniteSet(Keys(batch))
    BY UUIDAssumption, FS_Subset DEF Keys
  <2>2. QED
    BY <2>1, Extremes
<1>3. \A u \in Keys(batch) : l < u /\ u \in Nat
  BY <1>2 DEF InStep
<1> HIDE DEF us, n, ms
<1>4. PICK g : /\ g[0] = s
               /\ \A k \in 0 .. n - 1 : g[k + 1] = MergeMessage(g[k], ms[k + 1])
               /\ g[n] = Merge(s, ms)
  <2>1. n \in Nat /\ DOMAIN ms = 1 .. n
    BY <1>1
  <2>2. QED
    BY <2>1, MergeSteps, Zenon
<1> DEFINE At(k)    == IF k = 0 THEN l ELSE us[k]
           Had(u)   == Entry(Rows(s), s.images, u)
           Has(k,u) == Entry(Rows(g[k]), g[k].images, u)
           Good(k)  ==
             /\ InStep(g[k], At(k))
             /\ \A i \in 1 .. k : Has(k, us[i]) = Change(Had(us[i]), batch[us[i]])
             /\ \A u \in UUID : (\A i \in 1 .. k : us[i] # u) => Has(k, u) = Had(u)
<1>5. Good(0)
  BY <1>4
<1>6. ASSUME NEW k \in 0 .. n - 1, Good(k) PROVE Good(k + 1)
  <2> DEFINE a == g[k]  b == g[k + 1]  m == ms[k + 1]
  <2>1. /\ m \in MessageType /\ m.uuid = us[k + 1] /\ k + 1 \in 1 .. n /\ k + 1 # 0
        /\ us[k + 1] \in Keys(batch) /\ us[k + 1] \in UUID
        /\ \A r : Change(r, m) = Change(r, batch[us[k + 1]])
    <3>1. k + 1 \in 1 .. n /\ k + 1 # 0
      <4>1. n \in Nat
        BY <1>1
      <4>2. QED
        BY <4>1
    <3>2. us[k + 1] \in Keys(batch)
      <4>1. us \in [1 .. n -> Keys(batch)]
        BY <1>1
      <4>2. QED
        BY <3>1, <4>1, Zenon
    <3>3. us[k + 1] \in UUID
      BY <1>2, <3>2, Zenon
    <3>4. /\ m \in MessageType /\ m.uuid = us[k + 1]
          /\ \A r : Change(r, m) = Change(r, batch[us[k + 1]])
      BY <1>1, <3>1, Zenon
    <3>5. QED
      BY <3>1, <3>2, <3>3, <3>4, Zenon
  <2>2. b = MergeMessage(a, m)
    BY <1>4
  <2>3. /\ InStep(a, At(k))
        /\ \A i \in 1 .. k : Entry(Rows(a), a.images, us[i]) = Change(Had(us[i]), batch[us[i]])
        /\ \A u \in UUID : (\A i \in 1 .. k : us[i] # u) => Entry(Rows(a), a.images, u) = Had(u)
    BY <1>6
  <2>4. At(k) < us[k + 1]
    <3>1. CASE k = 0
      BY <1>3, <2>1, <3>1
    <3>2. CASE k # 0
      <4>1. k \in 1 .. n /\ k < k + 1 /\ DOMAIN us = 1 .. n
        BY <1>1, <3>2
      <4>2. QED
        BY <1>1, <2>1, <3>2, <4>1 DEF Ascending
    <3>3. QED
      BY <3>1, <3>2
  <2>5. \A i \in 1 .. k : us[i] # us[k + 1] /\ us[i] \in UUID
    <3> SUFFICES ASSUME NEW i \in 1 .. k PROVE us[i] # us[k + 1] /\ us[i] \in UUID
      OBVIOUS
    <3>1. i \in 1 .. n /\ i < k + 1 /\ DOMAIN us = 1 .. n
      BY <1>1
    <3>2. us[i] < us[k + 1] /\ us[i] \in Keys(batch)
      BY <1>1, <2>1, <3>1 DEF Ascending
    <3>3. QED
      BY <1>2, <1>3, <2>1, <3>2
  <2> HIDE DEF a, b, m, Had
  <2>6. InStep(b, m.uuid)
    BY <2>1, <2>2, <2>3, <2>4, MergeMessageInStep
  <2>7. /\ Entry(Rows(b), b.images, m.uuid) = Change(Entry(Rows(a), a.images, m.uuid), m)
        /\ \A u \in UUID : u # m.uuid => Entry(Rows(b), b.images, u) = Entry(Rows(a), a.images, u)
    BY <2>1, <2>2, <2>3, <2>4, MergeMessageEntry
  <2>8. Entry(Rows(b), b.images, us[k + 1]) = Change(Had(us[k + 1]), batch[us[k + 1]])
    <3>1. Entry(Rows(a), a.images, us[k + 1]) = Had(us[k + 1])
      BY <2>1, <2>3, <2>5
    <3>2. QED
      BY <2>1, <2>7, <3>1
  <2>9. ASSUME NEW i \in 1 .. k + 1
        PROVE  Entry(Rows(b), b.images, us[i]) = Change(Had(us[i]), batch[us[i]])
    <3>1. CASE i \in 1 .. k
      BY <2>1, <2>3, <2>5, <2>7, <3>1
    <3>2. CASE i = k + 1
      BY <2>8, <3>2
    <3>3. QED
      BY <3>1, <3>2
  <2>10. ASSUME NEW u \in UUID, \A i \in 1 .. k + 1 : us[i] # u
         PROVE  Entry(Rows(b), b.images, u) = Had(u)
    <3>1. us[k + 1] # u /\ \A i \in 1 .. k : us[i] # u
      BY <2>10
    <3>2. QED
      BY <2>1, <2>3, <2>7, <3>1
  <2>11. At(k + 1) = m.uuid
    BY <2>1
  <2> HIDE DEF At
  <2>12. QED
    BY <2>6, <2>9, <2>10, <2>11 DEF b
<1> DEFINE T == {k \in 0 .. n : Good(k)}
<1>7. 0 \in T /\ \A k \in 0 .. n - 1 : k \in T => k + 1 \in T
  <2> HIDE DEF Good
  <2>1. 0 \in 0 .. n /\ \A k \in 0 .. n - 1 : k + 1 \in 0 .. n
    BY <1>1
  <2>2. QED
    BY <1>5, <1>6, <2>1
<1>8. Good(n)
  <2> HIDE DEF Good
  <2>1. n \in T
    <3> HIDE DEF T
    <3>1. \A k \in 0 .. n : k \in T
      BY <1>1, <1>7, Induct, Zenon
    <3>2. QED
      BY <1>1, <3>1
  <2>2. QED
    BY <2>1
<1>9. t = g[n]
  BY <1>4 DEF ms
<1>10. At(n) = Max(Keys(batch))
  <2>1. PICK i \in 1 .. n : us[i] = Max(Keys(batch))
    BY <1>1, <1>2
  <2>2. n \in 1 .. n /\ DOMAIN us = 1 .. n
    BY <1>1
  <2>3. us[n] \in Keys(batch) /\ us[n] <= Max(Keys(batch))
    BY <1>1, <1>2, <2>2
  <2>4. i = n \/ us[i] < us[n]
    <3>1. i = n \/ i < n
      BY <1>1
    <3>2. QED
      BY <1>1, <2>2, <3>1 DEF Ascending
  <2>5. QED
    BY <1>1, <1>2, <1>3, <2>1, <2>2, <2>3, <2>4
<1>11. ASSUME NEW u \in UUID
       PROVE  Entry(Rows(t), t.images, u) = Apply(Entry(Rows(s), s.images, u), batch[u])
  <2>1. /\ \A i \in 1 .. n : Has(n, us[i]) = Change(Had(us[i]), batch[us[i]])
        /\ (\A i \in 1 .. n : us[i] # u) => Has(n, u) = Had(u)
    BY <1>8
  <2> HIDE DEF Has, Had
  <2>2. Has(n, u) = Apply(Had(u), batch[u])
    <3>1. CASE u \in Keys(batch)
      BY <1>1, <2>1, <3>1 DEF Apply, Keys
    <3>2. CASE u \notin Keys(batch)
      BY <1>1, <2>1, <3>2 DEF Apply, Keys
    <3>3. QED
      BY <3>1, <3>2
  <2>3. QED
    BY <1>9, <2>2 DEF Has, Had
<1>12. InStep(t, Max(Keys(batch)))
  <2>1. InStep(g[n], At(n))
    BY <1>8
  <2> HIDE DEF At
  <2>2. QED
    BY <1>9, <1>10, <2>1
<1>13. QED
  BY <1>11, <1>12

-----------------------------------------------------------------------------
(* The inductive invariant                                                 *)

(* The message of u in buffer b, and the one the journal would make of it. *)
Sent(bs, b, u)     == IF bs[b] = NotReady THEN NoRow ELSE bs[b][u]
MessageOf(row, at) ==
  [isDelete      |-> row.shouldDeleted,
   isImageDelete |-> row.shouldDeleteImage,
   feed          |-> IF row.needFeed  THEN at.feed  ELSE NoData,
   image         |-> IF row.needImage THEN at.image ELSE NoData]
Unsent(js, ss, u)  == IF js[u] = NoRow THEN NoRow ELSE MessageOf(js[u], ss[u])

(* The rows that are in the file, or will be when the session ends.        *)
RowsNow     == IF active THEN Rows(session) ELSE Range(file)
EntryNow(u) == Entry(RowsNow, session.images, u)

(* An entry is that of the store, but for an image that was dropped.       *)
Agrees(r, at) ==
  IF at = NoRow THEN ~r.has
  ELSE r.has /\ r.feed = at.feed /\ (at.image # NoData => r.image = at.image)

(* What a buffer still has of u comes after a later message of u was sent, *)
(* or will come after later uuids: this session is sent uuids out of order.*)
Overtaken(u) == active /\ u <= last /\ Sent(buf, nextToStream, u) # NoRow

(* What the buffers and the journal have of u brings entry r up to date,   *)
(* the buffer that comes first being first or second.                      *)
UpToDate(r, first, second, then, at) ==
  \/ Agrees(Apply(Apply(Apply(r, first), second), then), at)
  \/ Agrees(Apply(Apply(Apply(r, second), first), then), at)

TypeInv ==
  /\ store \in [UUID -> StoreRow \cup {NoRow}]
  /\ journal \in RowMap
  /\ buf \in [Label -> Batch \cup {NotReady}]
  /\ nextToStream \in Label /\ ahead \in Label \cup {"none"}
  /\ file \in Seq(ReplicaRow) /\ Walking(session)
  /\ active  => file = <<>>
  /\ ~active => session.jor = <<>> /\ session.out = <<>> /\ last = -1
  /\ active \in BOOLEAN /\ inOrder \in BOOLEAN
  /\ last \in Int

JournalInv == \A u \in Keys(journal) : store[u] = NoRow <=> journal[u].shouldDeleted

ImageInv ==
  /\ Pictured(Range(file), session.images)
  /\ Pictured(Range(session.jor) \cup Range(session.out), session.images)

OrderInv == inOrder => Sorted(file) /\ (active => InStep(session, last))

AgreeInv ==
  inOrder =>
    \A u \in UUID \ lost :
      \/ Overtaken(u)
      \/ UpToDate(EntryNow(u), Sent(buf, nextToStream, u), Sent(buf, Other(nextToStream), u),
                  Unsent(journal, store, u), store[u])

Adds(m)      == m # NoRow /\ ~m.isDelete
Has(rows, u) == \E row \in rows : row.uuid = u

(* Why the replica has, or will have, a row of u.                          *)
RowComes(u) ==
  \/ journal[u] # NoRow
  \/ \E b \in Label : Adds(Sent(buf, b, u))
  \/ Has(RowsNow, u) /\ \A b \in Label : Sent(buf, b, u) = NoRow
  \/ Overtaken(u) /\ Has(Range(session.out), u) /\ Sent(buf, Other(nextToStream), u) = NoRow

RowInv == \A u \in Keys(store) \ lost : RowComes(u)

IInv == TypeInv /\ JournalInv /\ ImageInv /\ OrderInv /\ AgreeInv /\ RowInv

-----------------------------------------------------------------------------
(* Messages and updates                                                    *)

(* What is told apart: no row, no data and no batch are none of those.     *)
LEMMA NoneOfThem ==
  /\ \A at \in StoreRow : at # NoRow /\ at.feed # NoData /\ at.feed \in Feeds
                         /\ at.image \in Images \cup {NoData}
  /\ \A m \in MessageData : m # NoRow
  /\ \A batch \in Batch : batch # NotReady
  /\ \A row \in ReqData : row # NoRow
BY NoneAssumption, ReqAssumption DEF StoreRow, ReqData

(* A row of the journal that agrees with the store makes a message.        *)
LEMMA MessageOfType ==
  ASSUME NEW row \in ReqData, NEW at \in StoreRow \cup {NoRow}, at = NoRow <=> row.shouldDeleted
  PROVE  /\ MessageOf(row, at) \in MessageData
         /\ MessageOf(row, at).isDelete = (at = NoRow)
<1>1. row \in ReqRecord /\ (row.shouldDeleted => ~row.needFeed /\ ~row.needImage)
  BY DEF ReqData
<1>2. row.shouldDeleted \in BOOLEAN /\ row.shouldDeleteImage \in BOOLEAN
  BY <1>1 DEF ReqRecord
<1>3. (IF row.needFeed THEN at.feed ELSE NoData) \in Feeds \cup {NoData}
  BY <1>1, NoneOfThem
<1>4. (IF row.needImage THEN at.image ELSE NoData) \in Images \cup {NoData}
  BY <1>1, NoneOfThem
<1>5. QED
  BY <1>2, <1>3, <1>4 DEF MessageOf, MessageData

(* The row of the journal after one more update of a uuid.                 *)
Updated(row, needFeed, needImage, needDelete, needDeleteImage) ==
  Summed(IF row = NoRow THEN Blank ELSE row,
         [needFeed   |-> needFeed,   needImage       |-> needImage,
          needDelete |-> needDelete, needDeleteImage |-> needDeleteImage])
Asked(row, needFeed, needImage, needDeleteImage) ==
  Updated(row, needFeed, needImage, FALSE, needDeleteImage)
Dropped(row) == Updated(row, FALSE, FALSE, TRUE, FALSE)

(* The row of the journal after a POST or a PUT: what was asked for,       *)
(* whether sent or not, and what is now.                                   *)
LEMMA AskedRow ==
  ASSUME NEW row \in ReqData \cup {NoRow},
         NEW needFeed \in BOOLEAN, NEW needImage \in BOOLEAN, NEW needDeleteImage \in BOOLEAN,
         ~(needImage /\ needDeleteImage),
         NEW row2, row2 = Asked(row, needFeed, needImage, needDeleteImage)
  PROVE  /\ row2 \in ReqData /\ ~row2.shouldDeleted /\ (row2.shouldDeleteImage <=> needDeleteImage)
         /\ row2.needFeed  <=> ((row # NoRow /\ row.needFeed) \/ needFeed)
         /\ row2.needImage <=> (~needDeleteImage /\ ((row # NoRow /\ row.needImage) \/ needImage))
<1> DEFINE old == IF row = NoRow THEN Blank ELSE row
<1>1. old \in ReqRecord
  BY DEF Blank, ReqRecord, ReqData
<1>2. (old.needFeed <=> row # NoRow /\ row.needFeed) /\ (old.needImage <=> row # NoRow /\ row.needImage)
  BY <1>1 DEF Blank, ReqRecord
<1>3. old.needFeed \in BOOLEAN /\ old.needImage \in BOOLEAN
  BY <1>1 DEF ReqRecord
<1> HIDE DEF old
<1> DEFINE feed  == old.needFeed \/ needFeed
           image == ~needDeleteImage /\ (old.needImage \/ needImage)
<1>4. row2 = [needFeed |-> feed, needImage |-> image,
              shouldDeleted |-> FALSE, shouldDeleteImage |-> needDeleteImage]
  BY DEF Asked, Updated, Summed, old
<1>5. /\ feed \in BOOLEAN /\ image \in BOOLEAN /\ ~(image /\ needDeleteImage)
      /\ feed <=> (row # NoRow /\ row.needFeed) \/ needFeed
      /\ image <=> ~needDeleteImage /\ ((row # NoRow /\ row.needImage) \/ needImage)
  BY <1>2, <1>3
<1> HIDE DEF feed, image
<1>6. row2 \in ReqData
  BY <1>4, <1>5 DEF ReqData, ReqRecord
<1>7. row2.needFeed = feed /\ row2.needImage = image /\ ~row2.shouldDeleted
      /\ row2.shouldDeleteImage = needDeleteImage
  BY <1>4
<1>8. QED
  BY <1>5, <1>6, <1>7

(* The row of the journal after a DELETE.                                  *)
LEMMA DroppedRow ==
  ASSUME NEW row
  PROVE  Dropped(row) \in ReqData /\ Dropped(row).shouldDeleted
<1>1. Dropped(row) = [Blank EXCEPT !.shouldDeleted = TRUE]
  BY DEF Dropped, Updated, Summed
<1>2. QED
  BY <1>1 DEF ReqData, ReqRecord, Blank

(* An entry that the journal's message brings up to date is brought up to  *)
(* date by the message it has after an update.                             *)
KeepsUp(row, at, row2, at2) ==
  \A r : Agrees(Apply(r, IF row = NoRow THEN NoRow ELSE MessageOf(row, at)), at) =>
           Agrees(Apply(r, MessageOf(row2, at2)), at2)

(* A POST keeps what is still to come up to date.                          *)
LEMMA PostKeepsUp ==
  ASSUME NEW row \in ReqData \cup {NoRow}, NEW feed \in Feeds, NEW image \in Images \cup {NoData}
  PROVE  /\ Asked(row, TRUE, image # NoData, FALSE) \in ReqData
         /\ ~Asked(row, TRUE, image # NoData, FALSE).shouldDeleted
         /\ KeepsUp(row, NoRow, Asked(row, TRUE, image # NoData, FALSE),
                    [feed |-> feed, image |-> image])
<1> DEFINE needImage == image # NoData
           row2 == Asked(row, TRUE, needImage, FALSE)
           at2  == [feed |-> feed, image |-> image]
<1>0. needImage \in BOOLEAN /\ (needImage <=> image # NoData)
  OBVIOUS
<1> HIDE DEF needImage
<1>1. row2 \in ReqData /\ row2.needFeed /\ ~row2.shouldDeleted /\ ~row2.shouldDeleteImage
      /\ (image # NoData => row2.needImage)
  BY <1>0, AskedRow
<1>2. at2 \in StoreRow /\ at2 # NoRow /\ at2.feed # NoData
  BY NoneOfThem DEF StoreRow
<1>3. MessageOf(row2, at2) \in MessageData
  BY <1>1, <1>2, MessageOfType
<1> HIDE DEF row2
<1>4. ASSUME NEW r PROVE Agrees(Apply(r, MessageOf(row2, at2)), at2)
  <2>1. /\ MessageOf(row2, at2).feed = feed /\ ~MessageOf(row2, at2).isDelete
        /\ ~MessageOf(row2, at2).isImageDelete
        /\ image # NoData => MessageOf(row2, at2).image = image
    BY <1>1 DEF MessageOf
  <2> DEFINE e == Apply(r, MessageOf(row2, at2))
  <2>2. e.has /\ e.feed = feed /\ (image # NoData => e.image = image)
    <3>1. MessageOf(row2, at2) # NoRow
      BY <1>3, NoneOfThem
    <3>2. QED
      BY <1>2, <2>1, <3>1 DEF Apply, Change
  <2> HIDE DEF e
  <2>3. QED
    BY <1>2, <2>2 DEF Agrees, e
<1>5. QED
  BY <1>1, <1>4 DEF KeepsUp, row2, needImage

(* So does a PUT, which changes the feed and tells of it, or does not; and *)
(* keeps, changes or drops the image.                                      *)
LEMMA PutKeepsUp ==
  ASSUME NEW row \in ReqData \cup {NoRow}, NEW at \in StoreRow, row # NoRow => ~row.shouldDeleted,
         NEW feed \in Feeds, NEW imageUpdate \in BOOLEAN, NEW image \in Images \cup {NoData},
         NEW needFeed \in {TRUE, feed # at.feed}
  PROVE  KeepsUp(row, at,
                 Asked(row, needFeed, imageUpdate /\ image # NoData, imageUpdate /\ image = NoData),
                 [feed |-> feed, image |-> IF imageUpdate THEN image ELSE at.image])
<1> DEFINE needImage       == imageUpdate /\ image # NoData
           needDeleteImage == imageUpdate /\ image = NoData
           row2 == Asked(row, needFeed, needImage, needDeleteImage)
           at2  == [feed |-> feed, image |-> IF imageUpdate THEN image ELSE at.image]
<1>0. /\ needImage \in BOOLEAN /\ needDeleteImage \in BOOLEAN /\ ~(needImage /\ needDeleteImage)
      /\ needFeed \in BOOLEAN
      /\ needFeed \/ feed = at.feed
      /\ needImage <=> imageUpdate /\ image # NoData
      /\ needDeleteImage <=> imageUpdate /\ image = NoData
  OBVIOUS
<1> HIDE DEF needImage, needDeleteImage
<1>1. /\ row2 \in ReqData /\ ~row2.shouldDeleted /\ (row2.shouldDeleteImage <=> needDeleteImage)
      /\ row2.needFeed  <=> ((row # NoRow /\ row.needFeed) \/ needFeed)
      /\ row2.needImage <=> (~needDeleteImage /\ ((row # NoRow /\ row.needImage) \/ needImage))
  BY <1>0, AskedRow
<1>2. at2 \in StoreRow /\ at # NoRow /\ at.feed # NoData /\ at.image \in Images \cup {NoData}
      /\ at2.feed = feed /\ at2.image = (IF imageUpdate THEN image ELSE at.image)
  BY NoneOfThem DEF StoreRow
<1> HIDE DEF row2, at2
<1>3. at2 # NoRow /\ at2.feed # NoData
  BY <1>2, NoneOfThem
<1>4. MessageOf(row2, at2) # NoRow /\ (row # NoRow => MessageOf(row, at) # NoRow)
  <2>1. MessageOf(row2, at2) \in MessageData
    BY <1>1, <1>2, <1>3, MessageOfType
  <2>2. row # NoRow => MessageOf(row, at) \in MessageData
    BY <1>2, MessageOfType
  <2>3. QED
    BY <2>1, <2>2, NoneOfThem
<1>5. ASSUME NEW r, Agrees(Apply(r, IF row = NoRow THEN NoRow ELSE MessageOf(row, at)), at)
      PROVE  Agrees(Apply(r, MessageOf(row2, at2)), at2)
  <2> DEFINE e == Apply(r, MessageOf(row2, at2))
  <2>1. /\ e.has /\ e.feed = IF row2.needFeed THEN feed ELSE r.feed
        /\ e.image = IF row2.shouldDeleteImage THEN NoData
                     ELSE IF row2.needImage /\ at2.image # NoData THEN at2.image ELSE r.image
    <3> DEFINE m == MessageOf(row2, at2)
    <3>1. /\ ~m.isDelete /\ m.isImageDelete = row2.shouldDeleteImage
          /\ m.feed = (IF row2.needFeed THEN feed ELSE NoData)
          /\ m.image = (IF row2.needImage THEN at2.image ELSE NoData)
      BY <1>1, <1>2 DEF MessageOf
    <3>2. m # NoRow
      BY <1>4
    <3> HIDE DEF m
    <3>3. Apply(r, m) = [has   |-> TRUE,
                         feed  |-> IF m.feed # NoData THEN m.feed ELSE r.feed,
                         image |-> IF m.isImageDelete THEN NoData ELSE IF m.image # NoData THEN m.image ELSE r.image]
      BY <3>1, <3>2 DEF Apply, Change
    <3>4. QED
      BY <1>2, <1>3, <3>1, <3>3 DEF m
  <2> HIDE DEF e
  <2>2. CASE row = NoRow
    <3>1. r.feed = at.feed /\ (at.image # NoData => r.image = at.image)
      BY <1>2, <1>5, <2>2 DEF Agrees, Apply
    <3>2. e.feed = at2.feed
      BY <1>0, <1>1, <1>2, <2>1, <2>2, <3>1
    <3>3. at2.image # NoData => e.image = at2.image
      BY <1>0, <1>1, <1>2, <2>1, <2>2, <3>1
    <3>4. QED
      BY <1>3, <2>1, <3>2, <3>3 DEF Agrees, e
  <2>3. CASE row # NoRow
    <3>1. /\ (IF row.needFeed THEN at.feed ELSE r.feed) = at.feed
          /\ at.image # NoData =>
               (IF row.shouldDeleteImage THEN NoData
                ELSE IF row.needImage /\ at.image # NoData THEN at.image ELSE r.image) = at.image
      BY <1>2, <1>4, <1>5, <2>3 DEF Agrees, Apply, Change, MessageOf
    <3>2. e.feed = at2.feed
      BY <1>0, <1>1, <1>2, <2>1, <2>3, <3>1
    <3>3. at2.image # NoData => e.image = at2.image
      BY <1>0, <1>1, <1>2, <2>1, <2>3, <3>1
    <3>4. QED
      BY <1>3, <2>1, <3>2, <3>3 DEF Agrees, e
  <2>4. QED
    BY <2>2, <2>3
<1>6. QED
  BY <1>5 DEF KeepsUp, row2, at2, needImage, needDeleteImage

(* So does a DELETE.                                                       *)
LEMMA DeleteKeepsUp ==
  ASSUME NEW row \in ReqData \cup {NoRow}, NEW at
  PROVE  KeepsUp(row, at, Dropped(row), NoRow)
<1> DEFINE row2 == Dropped(row)
<1>1. row2 \in ReqData /\ row2.shouldDeleted
  BY DroppedRow
<1>2. MessageOf(row2, NoRow) # NoRow /\ MessageOf(row2, NoRow).isDelete
  BY <1>1, MessageOfType, NoneOfThem
<1> HIDE DEF row2
<1>3. \A r : Agrees(Apply(r, MessageOf(row2, NoRow)), NoRow)
  BY <1>2 DEF Agrees, Apply, Change, Absent
<1>4. QED
  BY <1>3 DEF KeepsUp, row2

-----------------------------------------------------------------------------
(* Senders                                                                 *)

(* There are two buffers.                                                  *)
LEMMA OtherBuffer ==
  ASSUME NEW b \in Label
  PROVE  Other(b) \in Label /\ Other(b) # b /\ Other(Other(b)) = b /\ \A c \in Label : c = b \/ c = Other(b)
BY DEF Label, Other

(* The type of what the store, the journal and the buffers have of a uuid. *)
LEMMA TypesNow ==
  ASSUME TypeInv, JournalInv, NEW u \in UUID
  PROVE  /\ store[u] \in StoreRow \cup {NoRow} /\ journal[u] \in ReqData \cup {NoRow}
         /\ journal[u] # NoRow => journal[u] \in ReqData /\ (store[u] = NoRow <=> journal[u].shouldDeleted)
         /\ store[u] # NoRow => store[u] \in StoreRow
BY DEF TypeInv, JournalInv, RowMap, Keys

(* What the update of u leaves of the store and the journal.               *)
Step(u, at2, row2) ==
  /\ store'   = [store EXCEPT ![u] = at2]
  /\ journal' = [journal EXCEPT ![u] = row2]
  /\ at2 = NoRow <=> row2.shouldDeleted
  /\ KeepsUp(journal[u], store[u], row2, at2)

(* A POST as a step of one uuid.                                           *)
LEMMA PostStep ==
  ASSUME TypeInv, JournalInv, NEW u \in UUID, NEW feed \in Feeds, NEW image \in Images \cup {NoData},
         Post(u, feed, image)
  PROVE  \E at2 \in StoreRow \cup {NoRow}, row2 \in ReqData : Step(u, at2, row2)
<1> DEFINE needImage == image # NoData
           at2  == [feed |-> feed, image |-> image]
           row2 == Asked(journal[u], TRUE, needImage, FALSE)
<1>1. journal[u] \in ReqData \cup {NoRow} /\ store[u] = NoRow
  BY TypesNow DEF Post
<1>2. store' = [store EXCEPT ![u] = at2] /\ journal' = [journal EXCEPT ![u] = row2]
  BY DEF Post, Service!Told, Asked, Updated, TypeInv, RowMap, Service!Summed, Summed, Service!Blank, Blank
<1>3. at2 \in StoreRow
  BY DEF StoreRow
<1>4. at2 # NoRow
  BY <1>3, NoneOfThem
<1>5. KeepsUp(journal[u], store[u], row2, at2)
  BY <1>1, PostKeepsUp
<1>6. row2 \in ReqData /\ ~row2.shouldDeleted
  BY <1>1, PostKeepsUp
<1> HIDE DEF at2, row2
<1>7. QED
  BY <1>2, <1>3, <1>4, <1>5, <1>6 DEF Step

(* A PUT as a step of one uuid.                                            *)
LEMMA PutStep ==
  ASSUME TypeInv, JournalInv, NEW u \in UUID, NEW feed \in Feeds, NEW image \in Images \cup {NoData},
         NEW imageUpdate \in BOOLEAN, Put(u, feed, imageUpdate, image)
  PROVE  \E at2 \in StoreRow \cup {NoRow}, row2 \in ReqData : Step(u, at2, row2)
<1>1. PICK needFeed \in {TRUE, feed # store[u].feed} :
        Service!Told(u, needFeed, imageUpdate /\ image # NoData, FALSE, imageUpdate /\ image = NoData)
  BY DEF Put
<1> DEFINE needImage       == imageUpdate /\ image # NoData
           needDeleteImage == imageUpdate /\ image = NoData
           at2  == [feed |-> feed, image |-> IF imageUpdate THEN image ELSE store[u].image]
           row2 == Asked(journal[u], needFeed, needImage, needDeleteImage)
<1>2. journal[u] \in ReqData \cup {NoRow} /\ store[u] \in StoreRow
      /\ (journal[u] # NoRow => ~journal[u].shouldDeleted)
  BY TypesNow DEF Put
<1>3. journal' = [journal EXCEPT ![u] = row2]
  BY <1>1 DEF Service!Told, Asked, Updated, TypeInv, RowMap, Service!Summed, Summed, Service!Blank, Blank
<1>4. at2 \in StoreRow
  BY <1>2, NoneOfThem DEF StoreRow
<1>5. store' = [store EXCEPT ![u] = at2]
  <2>1. store' = [store EXCEPT ![u] = [[store[u] EXCEPT !.feed = feed] EXCEPT !.image = IF imageUpdate THEN image ELSE @]]
    BY DEF Put
  <2>2. [[store[u] EXCEPT !.feed = feed] EXCEPT !.image = IF imageUpdate THEN image ELSE @] = at2
    <3> DEFINE image2 == IF imageUpdate THEN image ELSE store[u].image
    <3>1. [[store[u] EXCEPT !.feed = feed] EXCEPT !.image = image2] = [feed |-> feed, image |-> image2]
      <4> DEFINE old == store[u]
      <4>1. old \in [feed : Feeds, image : Images \cup {NoData}]
        BY <1>2 DEF StoreRow
      <4> HIDE DEF image2, old
      <4>2. [old EXCEPT !.feed = feed] = [feed |-> feed, image |-> old.image]
        BY <4>1
      <4>3. [[feed |-> feed, image |-> old.image] EXCEPT !.image = image2] = [feed |-> feed, image |-> image2]
        OBVIOUS
      <4>4. QED
        BY <4>2, <4>3 DEF old
    <3>2. [store[u] EXCEPT !.feed = feed].image = store[u].image
      BY <1>2 DEF StoreRow
    <3>3. QED
      BY <3>1, <3>2
  <2>3. QED
    BY <2>1, <2>2
<1>6. at2 # NoRow
  BY <1>4, NoneOfThem
<1>7. KeepsUp(journal[u], store[u], row2, at2)
  BY <1>2, PutKeepsUp
<1>8. row2 \in ReqData /\ ~row2.shouldDeleted
  <2>1. needImage \in BOOLEAN /\ needDeleteImage \in BOOLEAN /\ ~(needImage /\ needDeleteImage)
        /\ needFeed \in BOOLEAN
    OBVIOUS
  <2>2. row2 = Asked(journal[u], needFeed, needImage, needDeleteImage)
    OBVIOUS
  <2> HIDE DEF needImage, needDeleteImage, row2
  <2>3. QED
    BY <1>2, <2>1, <2>2, AskedRow
<1> HIDE DEF at2, row2
<1>9. QED
  BY <1>3, <1>4, <1>5, <1>6, <1>7, <1>8 DEF Step

(* A DELETE as a step of one uuid.                                         *)
LEMMA DeleteStep ==
  ASSUME TypeInv, JournalInv, NEW u \in UUID, Delete(u)
  PROVE  \E at2 \in StoreRow \cup {NoRow}, row2 \in ReqData : Step(u, at2, row2)
<1> DEFINE row2 == Dropped(journal[u])
<1>1. journal[u] \in ReqData \cup {NoRow}
  BY TypesNow
<1>2. store' = [store EXCEPT ![u] = NoRow] /\ journal' = [journal EXCEPT ![u] = row2]
  BY DEF Delete, Service!Told, Dropped, Updated, TypeInv, RowMap, Service!Summed, Summed, Service!Blank, Blank
<1>3. KeepsUp(journal[u], store[u], row2, NoRow)
  BY <1>1, DeleteKeepsUp
<1>4. row2 \in ReqData /\ row2.shouldDeleted
  BY DroppedRow
<1> HIDE DEF row2
<1>5. QED
  BY <1>2, <1>3, <1>4 DEF Step

(* Every request of a sender is such a step.                               *)
LEMMA SendStep ==
  ASSUME TypeInv, JournalInv, Send
  PROVE  \E u \in UUID : \E at2 \in StoreRow \cup {NoRow}, row2 \in ReqData : Step(u, at2, row2)
<1>1. PICK u \in UUID :
        \/ \E feed \in Feeds, image \in Images \cup {NoData} :
             Post(u, feed, image) \/ \E imageUpdate \in BOOLEAN : Put(u, feed, imageUpdate, image)
        \/ Delete(u)
  BY DEF Send
<1>2. QED
  BY <1>1, PostStep, PutStep, DeleteStep

(* A sender's request preserves the invariant: the journal has what the    *)
(* replica now lacks.                                                      *)
LEMMA SendSound ==
  ASSUME IInv, Send
  PROVE  IInv'
<1>1. PICK u \in UUID : \E at2 \in StoreRow \cup {NoRow}, row2 \in ReqData : Step(u, at2, row2)
  BY SendStep DEF IInv
<1>2. PICK at2 \in StoreRow \cup {NoRow}, row2 \in ReqData : Step(u, at2, row2)
  BY <1>1
<1>3. UNCHANGED <<buf, nextToStream, ahead, file, session, active, lost, inOrder, last>>
  BY DEF Send, client
<1>4. store \in [UUID -> StoreRow \cup {NoRow}] /\ journal \in [UUID -> ReqData \cup {NoRow}]
  BY DEF IInv, TypeInv, RowMap
<1>5. /\ store'[u] = at2 /\ journal'[u] = row2 /\ row2 # NoRow
      /\ \A v \in UUID : v # u => store'[v] = store[v] /\ journal'[v] = journal[v]
      /\ store' \in [UUID -> StoreRow \cup {NoRow}] /\ journal' \in [UUID -> ReqData \cup {NoRow}]
  BY <1>2, <1>4, NoneOfThem DEF Step
<1>6. TypeInv'
  BY <1>3, <1>5 DEF IInv, TypeInv, RowMap, Walking
<1>7. JournalInv'
  <2> SUFFICES ASSUME NEW v \in UUID, journal'[v] # NoRow PROVE store'[v] = NoRow <=> journal'[v].shouldDeleted
    BY DEF JournalInv, Keys
  <2>1. CASE v = u
    BY <1>2, <1>5, <2>1 DEF Step
  <2>2. CASE v # u
    BY <1>5, <2>2 DEF IInv, JournalInv, Keys
  <2>3. QED
    BY <2>1, <2>2
<1>8. ImageInv' /\ OrderInv'
  BY <1>3 DEF IInv, ImageInv, OrderInv
<1>9. ASSUME inOrder', NEW v \in UUID \ lost'
      PROVE  \/ Overtaken(v)'
             \/ UpToDate(EntryNow(v), Sent(buf, nextToStream, v), Sent(buf, Other(nextToStream), v),
                         Unsent(journal, store, v), store[v])'
  <2> DEFINE r == EntryNow(v)  first == Sent(buf, nextToStream, v)  second == Sent(buf, Other(nextToStream), v)
  <2>1. r' = r /\ first' = first /\ second' = second /\ (Overtaken(v) <=> Overtaken(v)')
    BY <1>3 DEF EntryNow, RowsNow, Sent, Overtaken
  <2>2. Overtaken(v) \/ UpToDate(r, first, second, Unsent(journal, store, v), store[v])
    BY <1>3, <1>9 DEF IInv, AgreeInv
  <2> HIDE DEF r, first, second
  <2>3. CASE v # u
    <3>1. Unsent(journal, store, v)' = Unsent(journal, store, v) /\ store'[v] = store[v]
      BY <1>5, <2>3 DEF Unsent
    <3>2. QED
      BY <2>1, <2>2, <3>1 DEF r, first, second
  <2>4. CASE v = u
    <3>1. \A e : Agrees(Apply(e, Unsent(journal, store, u)), store[u]) => Agrees(Apply(e, MessageOf(row2, at2)), at2)
      BY <1>2 DEF Step, KeepsUp, Unsent
    <3>2. Unsent(journal, store, u)' = MessageOf(row2, at2)
      BY <1>5 DEF Unsent
    <3>3. UpToDate(r, first, second, Unsent(journal, store, u), store[u]) =>
            UpToDate(r, first, second, MessageOf(row2, at2), at2)
      BY <3>1 DEF UpToDate
    <3>4. QED
      BY <1>5, <2>1, <2>2, <2>4, <3>2, <3>3 DEF r, first, second
  <2>5. QED
    BY <2>3, <2>4
<1>10. AgreeInv'
  BY <1>9 DEF AgreeInv
<1>11. RowInv'
  <2> SUFFICES ASSUME NEW v \in UUID \ lost', store'[v] # NoRow PROVE RowComes(v)'
    BY DEF RowInv, Keys
  <2>1. CASE v = u
    BY <1>5, <2>1 DEF RowComes
  <2>2. CASE v # u
    <3>1. RowComes(v)
      BY <1>3, <1>5, <2>2 DEF IInv, RowInv, Keys
    <3>2. QED
      BY <1>3, <1>5, <2>2, <3>1 DEF RowComes, RowsNow, Sent, Overtaken
  <2>3. QED
    BY <2>1, <2>2
<1>12. QED
  BY <1>6, <1>7, <1>8, <1>10, <1>11 DEF IInv

-----------------------------------------------------------------------------
(* The run-ahead and its batches                                           *)

(* A batch has the journal's message of each of its uuids.                 *)
LEMMA BatchMessages ==
  ASSUME TypeInv, JournalInv, NEW S \in Batches
  PROVE  /\ Messages(S) \in Batch /\ S \subseteq UUID /\ Keys(Messages(S)) = S
         /\ \A u \in UUID : Messages(S)[u] = IF u \in S THEN Unsent(journal, store, u) ELSE NoRow
         /\ \A u \in S : Messages(S)[u] # NoRow /\ Messages(S)[u].isDelete = (store[u] = NoRow)
<1>1. S \subseteq UUID /\ \A u \in S : journal[u] # NoRow
  BY DEF Batches, Keys
<1>2. ASSUME NEW u \in S
      PROVE  /\ Messages(S)[u] = Unsent(journal, store, u)
             /\ Messages(S)[u] \in MessageData /\ Messages(S)[u].isDelete = (store[u] = NoRow)
  <2>1. u \in UUID /\ journal[u] # NoRow
    BY <1>1
  <2>2. journal[u] \in ReqData /\ store[u] \in StoreRow \cup {NoRow}
        /\ (store[u] = NoRow <=> journal[u].shouldDeleted)
    BY <2>1, TypesNow
  <2>3. Messages(S)[u] = MessageOf(journal[u], store[u])
    BY <2>1 DEF Messages, Service!Message, MessageOf
  <2>4. Unsent(journal, store, u) = MessageOf(journal[u], store[u])
    BY <2>1 DEF Unsent
  <2>5. QED
    BY <2>2, <2>3, <2>4, MessageOfType
<1>3. \A u \in UUID : u \notin S => Messages(S)[u] = NoRow
  BY DEF Messages
<1>4. Messages(S) \in Batch
  <2>1. \A u \in UUID : Messages(S)[u] \in MessageData \cup {NoRow}
    BY <1>2, <1>3
  <2>2. Messages(S) = [u \in UUID |-> Messages(S)[u]]
    BY DEF Messages
  <2>3. QED
    BY <2>1, <2>2 DEF Batch
<1>5. \A u \in S : Messages(S)[u] # NoRow
  BY <1>2, NoneOfThem
<1>6. Keys(Messages(S)) = S
  BY <1>1, <1>3, <1>5 DEF Keys
<1>7. QED
  BY <1>1, <1>2, <1>3, <1>4, <1>5, <1>6

(* What is taken out of the journal.                                       *)
LEMMA Taken ==
  ASSUME TypeInv, NEW S, journal' = Only(journal, UUID \ S), store' = store
  PROVE  /\ journal' \in RowMap
         /\ \A u \in UUID : u \in S => journal'[u] = NoRow /\ Unsent(journal, store, u)' = NoRow
         /\ \A u \in UUID : u \notin S => /\ journal'[u] = journal[u]
                                          /\ Unsent(journal, store, u)' = Unsent(journal, store, u)
         /\ JournalInv => JournalInv'
<1>1. \A u \in UUID : journal'[u] = IF u \in S THEN NoRow ELSE journal[u]
  BY DEF Only
<1>2. journal' \in RowMap
  BY DEF Only, TypeInv, RowMap
<1>3. JournalInv => JournalInv'
  BY <1>1 DEF JournalInv, Keys
<1>4. QED
  BY <1>1, <1>2, <1>3 DEF Unsent

(* The order of the two buffers does not matter to it.                     *)
LEMMA UpToDateOrder ==
  \A r, a, b, c, at : UpToDate(r, a, b, c, at) <=> UpToDate(r, b, a, c, at)
BY DEF UpToDate

(* With one message in the buffers there is one order.                     *)
LEMMA UpToDateAlone ==
  \A r, b, c, at : UpToDate(r, NoRow, b, c, at) <=> Agrees(Apply(Apply(r, b), c), at)
<1>1. \A r : Apply(r, NoRow) = r
  BY DEF Apply
<1>2. QED
  BY <1>1 DEF UpToDate

(* What the journal puts into a free buffer is still the last to apply.    *)
LEMMA UpToDateAhead ==
  \A r, b, c, at : UpToDate(r, NoRow, b, c, at) => UpToDate(r, c, b, NoRow, at)
<1>1. \A r : Apply(r, NoRow) = r
  BY DEF Apply
<1>2. QED
  BY <1>1 DEF UpToDate

(* So does runAhead when it copies nextToStream,                           *)
LEMMA WakeSound ==
  ASSUME IInv, Wake
  PROVE  IInv'
<1>1. UNCHANGED <<store, journal, buf, nextToStream, file, session, active, lost, inOrder, last>>
      /\ ahead' = nextToStream
  BY DEF Wake, client
<1>2. TypeInv'
  BY <1>1 DEF IInv, TypeInv, Walking
<1>3. JournalInv' /\ ImageInv' /\ OrderInv'
  BY <1>1 DEF IInv, JournalInv, ImageInv, OrderInv
<1>4. AgreeInv'
  BY <1>1 DEF IInv, AgreeInv, EntryNow, RowsNow, Overtaken
<1>5. RowInv'
  BY <1>1 DEF IInv, RowInv, RowComes, RowsNow, Overtaken
<1>6. QED
  BY <1>2, <1>3, <1>4, <1>5 DEF IInv

(* and when it fills the buffer it has copied, which comes next or, after  *)
(* a GET in between, last.                                                 *)
LEMMA FillSound ==
  ASSUME IInv, Fill
  PROVE  IInv'
<1>1. UNCHANGED <<store, nextToStream, file, session, active, lost, inOrder, last>>
      /\ ahead' = "none" /\ ahead \in Label /\ nextToStream \in Label
  BY DEF Fill, client, IInv, TypeInv
<1>2. CASE buf[ahead] # NotReady
  <2>1. UNCHANGED <<buf, journal>>
    BY <1>2 DEF Fill
  <2>2. TypeInv'
    BY <1>1, <2>1 DEF IInv, TypeInv, Walking
  <2>3. JournalInv' /\ ImageInv' /\ OrderInv'
    BY <1>1, <2>1 DEF IInv, JournalInv, ImageInv, OrderInv
  <2>4. AgreeInv'
    BY <1>1, <2>1 DEF IInv, AgreeInv, EntryNow, RowsNow, Overtaken
  <2>5. RowInv'
    BY <1>1, <2>1 DEF IInv, RowInv, RowComes, RowsNow, Overtaken
  <2>6. QED
    BY <2>2, <2>3, <2>4, <2>5 DEF IInv
<1>3. CASE buf[ahead] = NotReady
  <2>1. PICK S \in Batches : /\ buf' = [buf EXCEPT ![ahead] = Messages(S)]
                             /\ journal' = Only(journal, UUID \ S)
    BY <1>3 DEF Fill
  <2> DEFINE first(u)  == Sent(buf, nextToStream, u)
             second(u) == Sent(buf, Other(nextToStream), u)
             then(u)   == Unsent(journal, store, u)
  <2>2. /\ Messages(S) \in Batch /\ S \subseteq UUID
        /\ \A u \in UUID : Messages(S)[u] = IF u \in S THEN then(u) ELSE NoRow
        /\ \A u \in S : Messages(S)[u] # NoRow /\ Messages(S)[u].isDelete = (store[u] = NoRow)
    BY BatchMessages DEF IInv
  <2>3. /\ journal' \in RowMap /\ JournalInv'
        /\ \A u \in UUID : u \in S => journal'[u] = NoRow /\ then(u)' = NoRow
        /\ \A u \in UUID : u \notin S => journal'[u] = journal[u] /\ then(u)' = then(u)
    BY <1>1, <2>1, Taken DEF IInv
  <2>4. buf \in [Label -> Batch \cup {NotReady}] /\ buf' \in [Label -> Batch \cup {NotReady}]
        /\ buf'[ahead] = Messages(S) /\ buf'[Other(ahead)] = buf[Other(ahead)] /\ buf'[ahead] # NotReady
    BY <1>1, <2>1, <2>2, OtherBuffer, NoneOfThem DEF IInv, TypeInv
  <2>5. \A u \in UUID : /\ Sent(buf, ahead, u) = NoRow
                        /\ Sent(buf', ahead, u) = IF u \in S THEN then(u) ELSE NoRow
                        /\ Sent(buf', Other(ahead), u) = Sent(buf, Other(ahead), u)
    BY <1>1, <1>3, <2>2, <2>4, OtherBuffer DEF Sent
  <2>6. TypeInv'
    BY <1>1, <2>3, <2>4 DEF IInv, TypeInv, Walking
  <2>7. ImageInv' /\ OrderInv'
    BY <1>1 DEF IInv, ImageInv, OrderInv
  <2>8. ASSUME inOrder', NEW u \in UUID \ lost'
        PROVE  \/ Overtaken(u)'
               \/ UpToDate(EntryNow(u)', first(u)', second(u)', then(u)', store'[u])
    <3> DEFINE r == EntryNow(u)  m == Sent(buf, Other(ahead), u)
    <3>1. r' = r /\ store' = store /\ nextToStream' = nextToStream
      BY <1>1 DEF EntryNow, RowsNow
    <3>2. Overtaken(u) \/ UpToDate(r, first(u), second(u), then(u), store[u])
      BY <1>1, <2>8 DEF IInv, AgreeInv
    <3>3. CASE Overtaken(u)
      <4>1. nextToStream # ahead
        BY <2>5, <3>3 DEF Overtaken
      <4>2. nextToStream = Other(ahead)
        BY <1>1, <4>1, OtherBuffer
      <4>3. Sent(buf', nextToStream, u) # NoRow
        BY <2>5, <3>3, <4>2 DEF Overtaken
      <4>4. QED
        BY <1>1, <3>3, <4>3 DEF Overtaken
    <3>4. CASE UpToDate(r, first(u), second(u), then(u), store[u])
      <4> HIDE DEF then, r, m
      <4>1. UpToDate(r, NoRow, m, then(u), store[u])
        <5>1. \/ first(u) = NoRow /\ second(u) = m
              \/ second(u) = NoRow /\ first(u) = m
          BY <1>1, <2>5, OtherBuffer DEF m
        <5> HIDE DEF first, second
        <5>2. QED
          BY <3>4, <5>1, UpToDateOrder
      <4>2. UpToDate(r, Sent(buf', ahead, u), m, then(u)', store[u])
        <5>1. CASE u \in S
          BY <2>3, <2>5, <4>1, <5>1, UpToDateAhead
        <5>2. CASE u \notin S
          BY <2>3, <2>5, <4>1, <5>2
        <5>3. QED
          BY <5>1, <5>2
      <4>3. \/ first(u)' = Sent(buf', ahead, u) /\ second(u)' = m
            \/ second(u)' = Sent(buf', ahead, u) /\ first(u)' = m
        BY <1>1, <2>5, OtherBuffer DEF m
      <4> HIDE DEF first, second
      <4>4. QED
        BY <3>1, <4>2, <4>3, UpToDateOrder DEF r
    <3>5. QED
      BY <3>2, <3>3, <3>4
  <2>9. AgreeInv'
    BY <2>8 DEF AgreeInv
  <2>10. RowInv'
    <3> SUFFICES ASSUME NEW u \in UUID \ lost', store'[u] # NoRow PROVE RowComes(u)'
      BY DEF RowInv, Keys
    <3>1. RowComes(u)
      BY <1>1 DEF IInv, RowInv, Keys
    <3>2. CASE u \in S
      <4>1. Adds(Sent(buf', ahead, u))
        BY <1>1, <2>2, <2>5, <3>2 DEF Adds
      <4>2. QED
        BY <1>1, <4>1 DEF RowComes
    <3>3. CASE u \notin S
      <4>1. journal'[u] = journal[u] /\ \A b \in Label : Sent(buf', b, u) = Sent(buf, b, u)
        BY <1>1, <2>3, <2>5, <3>3, OtherBuffer
      <4>2. RowsNow' = RowsNow
        BY <1>1 DEF RowsNow
      <4>3. QED
        BY <1>1, <3>1, <4>1, <4>2, OtherBuffer DEF RowComes, Overtaken
    <3>4. QED
      BY <3>2, <3>3
  <2>11. QED
    BY <2>3, <2>6, <2>7, <2>9, <2>10 DEF IInv
<1>4. QED
  BY <1>2, <1>3

-----------------------------------------------------------------------------
(* Sessions that start and die                                             *)

(* No rows.                                                                *)
LEMMA EmptyRows ==
  /\ <<>> \in Seq(ReplicaRow) /\ Range(<<>>) = {} /\ Sorted(<<>>) /\ Len(<<>>) = 0
BY DEF Range, Sorted

(* A session that has read rows and no message yet.                        *)
Fresh(s, rows) == [s EXCEPT !.jor = rows, !.iter = 1, !.out = <<>>]

(* It has the rows it read, and has passed none of them.                   *)
LEMMA FreshSession ==
  ASSUME NEW s \in SessionType, NEW rows \in Seq(ReplicaRow), NEW t, t = Fresh(s, rows)
  PROVE  /\ Walking(t) /\ t.jor = rows /\ t.out = <<>> /\ t.images = s.images
         /\ Rows(t) = Range(rows)
         /\ Sorted(rows) => InStep(t, -1)
<1> DEFINE one == 1
           a == [s EXCEPT !.jor = rows]
           b == [a EXCEPT !.iter = one]
           c == [b EXCEPT !.out = <<>>]
<1>1. t \in SessionType /\ t.jor = rows /\ t.iter = 1 /\ t.out = <<>> /\ t.images = s.images
  <2>1. a \in SessionType /\ a.jor = rows /\ a.images = s.images
    BY DEF SessionType
  <2>2. t = c
    BY DEF Fresh
  <2>3. one \in Nat \ {0}
    OBVIOUS
  <2> HIDE DEF a, one
  <2>4. b \in SessionType /\ b.jor = rows /\ b.iter = one /\ b.images = s.images
    BY <2>1, <2>3 DEF SessionType
  <2> HIDE DEF b
  <2>5. c \in SessionType /\ c.jor = rows /\ c.iter = one /\ c.out = <<>> /\ c.images = s.images
    BY <2>4, EmptyRows DEF SessionType
  <2>6. QED
    BY <2>2, <2>5 DEF one
<1>2. Walking(t)
  BY <1>1 DEF Walking
<1>3. Rest(t) = Range(rows)
  BY <1>1 DEF Rest, Range
<1>4. Rows(t) = Range(rows)
  BY <1>1, <1>3, EmptyRows DEF Rows
<1>5. Sorted(rows) => InStep(t, -1)
  <2>1. \A row \in Rest(t) : row.uuid > -1
    <3>1. \A row \in Rest(t) : row.uuid \in Nat
      BY <1>2, RowsType, RowUuid DEF Rows
    <3>2. QED
      BY <3>1
  <2>2. QED
    BY <1>1, <1>2, <2>1, EmptyRows DEF InStep, Passed
<1>6. QED
  BY <1>1, <1>2, <1>4, <1>5

(* A session that starts preserves the invariant: the rows go from the     *)
(* file into its hands.                                                    *)
LEMMA StartSound ==
  ASSUME IInv, Start
  PROVE  IInv'
<1> DEFINE rows == Loaded(file)
<1>1. /\ UNCHANGED <<store, journal, buf, nextToStream, ahead, inOrder>>
      /\ ~active /\ active' = TRUE /\ file' = <<>> /\ last' = -1
      /\ lost' = lost \cup MissingIn(rows, file)
      /\ session' = Fresh(session, rows)
  BY DEF Start, server, Fresh, IInv, TypeInv
<1>2. /\ file \in Seq(ReplicaRow) /\ session \in SessionType
      /\ rows \in Seq(ReplicaRow) /\ (rows = file \/ rows = <<>>)
  BY EmptyRows DEF IInv, TypeInv, Walking, Loaded
<1> HIDE DEF rows
<1>3. /\ Walking(session') /\ session'.jor = rows /\ session'.out = <<>> /\ session'.images = session.images
      /\ Rows(session') = Range(rows) /\ (Sorted(rows) => InStep(session', -1))
  BY <1>1, <1>2, FreshSession
<1>4. TypeInv'
  BY <1>1, <1>3, EmptyRows DEF IInv, TypeInv, Walking
<1>5. JournalInv'
  BY <1>1 DEF IInv, JournalInv
<1>6. ImageInv'
  BY <1>1, <1>2, <1>3, EmptyRows DEF IInv, ImageInv, Pictured
<1>7. OrderInv'
  BY <1>1, <1>2, <1>3, EmptyRows DEF IInv, OrderInv
<1>8. RowsNow = Range(file) /\ RowsNow' = Range(rows)
  BY <1>1, <1>3 DEF RowsNow
<1>9. ASSUME NEW u \in UUID \ lost'
      PROVE  /\ u \notin lost /\ (Has(RowsNow, u) <=> Has(RowsNow', u))
             /\ EntryNow(u)' = EntryNow(u)
  <2>1. u \notin lost /\ ~(Has(Range(file), u) /\ ~Has(Range(rows), u))
    BY <1>1, <1>9 DEF MissingIn, Has
  <2>2. CASE rows = file
    BY <1>3, <1>8, <2>1, <2>2 DEF EntryNow
  <2>3. CASE rows = <<>>
    <3>1. ~Has(RowsNow, u) /\ ~Has(RowsNow', u)
      BY <1>8, <2>1, <2>3, EmptyRows DEF Has
    <3>2. EntryNow(u) = Absent /\ EntryNow(u)' = Absent
      BY <3>1, NoEntry DEF EntryNow, Has
    <3>3. QED
      BY <2>1, <3>1, <3>2
  <2>4. QED
    BY <1>2, <2>2, <2>3
<1>10. AgreeInv'
  <2> SUFFICES ASSUME inOrder', NEW u \in UUID \ lost'
               PROVE  UpToDate(EntryNow(u), Sent(buf, nextToStream, u), Sent(buf, Other(nextToStream), u),
                               Unsent(journal, store, u), store[u])'
    BY DEF AgreeInv
  <2>1. u \notin lost /\ EntryNow(u)' = EntryNow(u)
    BY <1>9
  <2>2. UpToDate(EntryNow(u), Sent(buf, nextToStream, u), Sent(buf, Other(nextToStream), u),
                 Unsent(journal, store, u), store[u])
    BY <1>1, <2>1 DEF IInv, AgreeInv, Overtaken
  <2>3. QED
    BY <1>1, <2>1, <2>2
<1>11. RowInv'
  <2> SUFFICES ASSUME NEW u \in UUID \ lost', store'[u] # NoRow PROVE RowComes(u)'
    BY DEF RowInv, Keys
  <2>1. RowComes(u) /\ ~Overtaken(u) /\ (Has(RowsNow, u) <=> Has(RowsNow', u))
    BY <1>1, <1>9 DEF IInv, RowInv, Keys, Overtaken
  <2>2. QED
    BY <1>1, <2>1 DEF RowComes
<1>12. QED
  BY <1>4, <1>5, <1>6, <1>7, <1>10, <1>11 DEF IInv

(* A session that is killed: a part of the rows put out is in the file,    *)
(* and what is not lost has the entry in it that it had.                   *)
LEMMA KilledSession ==
  ASSUME IInv, Killed, lost \cup MissingIn(file', Finished(session)) \subseteq lost'
  PROVE  /\ active /\ active' = FALSE /\ last' = -1 /\ UNCHANGED inOrder
         /\ file' \in Seq(ReplicaRow) /\ Walking(session')
         /\ session'.jor = <<>> /\ session'.out = <<>>
         /\ ImageInv' /\ OrderInv'
         /\ \A u \in UUID \ lost' : /\ u \notin lost /\ (Has(RowsNow, u) <=> Has(RowsNow', u))
                                    /\ inOrder => EntryNow(u)' = EntryNow(u)
<1>1. /\ active /\ active' = FALSE /\ last' = -1 /\ UNCHANGED inOrder
      /\ session' = Fresh(session, <<>>)
  BY DEF Killed, Fresh
<1>2. session \in SessionType /\ session.out \in Seq(ReplicaRow)
  BY DEF IInv, TypeInv, Walking, SessionType
<1>3. PICK n \in 0 .. Len(session.out) : file' = SubSeq(session.out, 1, n)
  <2>1. PICK n \in 0 .. Written(session) : file' = SubSeq(session.out, 1, n)
    BY DEF Killed
  <2>2. Len(session.out) \in Nat /\ Len(session.out) % MAX_WRITE_BUFFER \in Nat
    <3>1. \A k \in Nat, m \in Nat \ {0} : k % m \in Nat
      OBVIOUS
    <3>2. Len(session.out) \in Nat
      BY <1>2
    <3>3. QED
      BY <3>1, <3>2, BufferAssumption
  <2>3. Written(session) \in Int /\ Written(session) <= Len(session.out)
    BY <2>2 DEF Written
  <2>4. n \in 0 .. Len(session.out)
    BY <2>2, <2>3
  <2>5. QED
    BY <2>1, <2>4
<1>4. file' \in Seq(ReplicaRow) /\ Range(file') \subseteq Range(session.out)
      /\ (Sorted(session.out) => Sorted(file'))
  <2> DEFINE out == session.out
  <2>1. out \in Seq(ReplicaRow) /\ 1 \in 1 .. Len(out) + 1 /\ n \in 1 - 1 .. Len(out)
    BY <1>2
  <2> HIDE DEF out
  <2>2. SubSeq(out, 1, n) \in Seq(ReplicaRow) /\ Range(SubSeq(out, 1, n)) = {out[k] : k \in 1 .. n}
    BY <2>1, RangeOfPart
  <2>3. Sorted(out) => Sorted(SubSeq(out, 1, n))
    BY <2>1, SortedPart
  <2>4. {out[k] : k \in 1 .. n} \subseteq Range(out)
    BY <2>1 DEF Range
  <2>5. QED
    BY <1>3, <2>2, <2>3, <2>4 DEF out
<1>5. Walking(session') /\ session'.jor = <<>> /\ session'.out = <<>> /\ session'.images = session.images
  <2> DEFINE none == <<>>
  <2>1. none \in Seq(ReplicaRow) /\ session' = Fresh(session, none)
    BY <1>1, EmptyRows
  <2> HIDE DEF none
  <2>2. Walking(session') /\ session'.jor = none /\ session'.out = <<>> /\ session'.images = session.images
    BY <1>2, <2>1, FreshSession
  <2>3. QED
    BY <2>2 DEF none
<1>6. ImageInv'
  BY <1>4, <1>5, EmptyRows DEF IInv, ImageInv, Pictured
<1>7. OrderInv'
  BY <1>1, <1>4 DEF IInv, OrderInv, InStep
<1>8. RowsNow = Rows(session) /\ RowsNow' = Range(file') /\ RowsNow' \subseteq RowsNow
      /\ Range(Finished(session)) = Rows(session)
  <2>1. Walking(session)
    BY DEF IInv, TypeInv
  <2>2. QED
    BY <1>1, <1>4, <2>1, FinishedRows DEF RowsNow, Rows
<1>9. ASSUME NEW u \in UUID \ lost'
      PROVE  u \notin lost /\ (Has(RowsNow, u) <=> Has(RowsNow', u))
  <2>1. u \notin lost /\ ~(Has(RowsNow, u) /\ ~Has(RowsNow', u))
    BY <1>8, <1>9 DEF MissingIn, Has
  <2>2. Has(RowsNow', u) => Has(RowsNow, u)
    BY <1>8 DEF Has
  <2>3. QED
    BY <2>1, <2>2
<1>10. ASSUME inOrder, NEW u \in UUID \ lost'
       PROVE  EntryNow(u)' = EntryNow(u)
  <2>1. CASE Has(RowsNow, u)
    <3>1. PICK row \in RowsNow' : row.uuid = u
      BY <1>9, <2>1 DEF Has
    <3>2. \A other \in RowsNow : other.uuid = row.uuid => other = row
      <4>1. InStep(session, last)
        BY <1>1, <1>10 DEF IInv, OrderInv
      <4>2. QED
        BY <1>8, <3>1, <4>1, InStepUnique
    <3>3. row \in RowsNow /\ \A other \in RowsNow' : other.uuid = row.uuid => other = row
      BY <1>8, <3>1, <3>2
    <3>4. Entry(RowsNow', session'.images, u) = Entry(RowsNow, session.images, u)
      BY <1>5, <3>1, <3>2, <3>3, EntryOfRow
    <3>5. QED
      BY <3>4 DEF EntryNow
  <2>2. CASE ~Has(RowsNow, u)
    <3>1. (\A row \in RowsNow : row.uuid # u) /\ (\A row \in RowsNow' : row.uuid # u)
      BY <1>9, <2>2 DEF Has
    <3>2. EntryNow(u) = Absent /\ EntryNow(u)' = Absent
      BY <3>1, NoEntry DEF EntryNow
    <3>3. QED
      BY <3>2
  <2>3. QED
    BY <2>1, <2>2
<1>11. QED
  BY <1>1, <1>4, <1>5, <1>6, <1>7, <1>9, <1>10

(* A death preserves the invariant: nothing that was overtaken is left to  *)
(* be sent out of turn.                                                    *)
LEMMA DieSound ==
  ASSUME IInv, Die
  PROVE  IInv'
<1>1. /\ UNCHANGED <<store, journal, buf, nextToStream, ahead>> /\ Killed
      /\ lost' = lost \cup MissingIn(file', Finished(session)) \cup {u \in UUID : Late(u)}
  BY DEF Die, server
<1>2. /\ active /\ active' = FALSE /\ last' = -1 /\ UNCHANGED inOrder
      /\ file' \in Seq(ReplicaRow) /\ Walking(session')
      /\ session'.jor = <<>> /\ session'.out = <<>>
      /\ ImageInv' /\ OrderInv'
      /\ \A u \in UUID \ lost' : /\ u \notin lost /\ (Has(RowsNow, u) <=> Has(RowsNow', u))
                                 /\ inOrder => EntryNow(u)' = EntryNow(u)
  BY <1>1, KilledSession
<1>3. TypeInv' /\ JournalInv'
  <2>1. last' \in Int
    BY <1>2
  <2>2. JournalInv'
    BY <1>1 DEF IInv, JournalInv
  <2>3. QED
    BY <1>1, <1>2, <2>1, <2>2 DEF IInv, TypeInv
<1>4. ASSUME NEW u \in UUID \ lost' PROVE ~Overtaken(u) /\ ~Overtaken(u)'
  BY <1>1, <1>2, <1>4 DEF Late, Overtaken, Sent
<1>5. AgreeInv'
  <2> SUFFICES ASSUME inOrder', NEW u \in UUID \ lost'
               PROVE  UpToDate(EntryNow(u), Sent(buf, nextToStream, u), Sent(buf, Other(nextToStream), u),
                               Unsent(journal, store, u), store[u])'
    BY DEF AgreeInv
  <2>1. u \notin lost /\ EntryNow(u)' = EntryNow(u)
    BY <1>2
  <2>2. UpToDate(EntryNow(u), Sent(buf, nextToStream, u), Sent(buf, Other(nextToStream), u),
                 Unsent(journal, store, u), store[u])
    BY <1>2, <1>4, <2>1 DEF IInv, AgreeInv
  <2>3. QED
    BY <1>1, <2>1, <2>2
<1>6. RowInv'
  <2> SUFFICES ASSUME NEW u \in UUID \ lost', store'[u] # NoRow PROVE RowComes(u)'
    BY DEF RowInv, Keys
  <2>1. RowComes(u) /\ ~Overtaken(u) /\ (Has(RowsNow, u) <=> Has(RowsNow', u))
    BY <1>1, <1>2, <1>4 DEF IInv, RowInv, Keys
  <2>2. QED
    BY <1>1, <2>1 DEF RowComes
<1>7. QED
  BY <1>2, <1>3, <1>5, <1>6 DEF IInv

-----------------------------------------------------------------------------
(* A turn of getReq                                                        *)

(* The message of u was in the buffer, or was taken from the journal now.  *)
FromBuffer(u, batch) ==
  /\ batch[u] = Sent(buf, nextToStream, u)
  /\ journal'[u] = journal[u] /\ Unsent(journal, store, u)' = Unsent(journal, store, u)
FromJournal(u, batch) ==
  /\ Sent(buf, nextToStream, u) = NoRow
  /\ batch[u] # NoRow /\ batch[u] = Unsent(journal, store, u) /\ batch[u].isDelete = (store[u] = NoRow)
  /\ Unsent(journal, store, u)' = NoRow

(* The answer to a GET, of a uuid: what its buffer had, or what the        *)
(* journal had of it if the buffer was empty.                              *)
LEMMA DispatchStep ==
  ASSUME TypeInv, JournalInv, NEW batch \in Replies, Dispatch(batch), store' = store
  PROVE  /\ batch \in Batch /\ journal' \in RowMap /\ JournalInv'
         /\ buf' \in [Label -> Batch \cup {NotReady}] /\ nextToStream' = Other(nextToStream)
         /\ \A u \in UUID : /\ Sent(buf', nextToStream, u) = NoRow
                            /\ Sent(buf', Other(nextToStream), u) = Sent(buf, Other(nextToStream), u)
                            /\ (FromBuffer(u, batch) \/ FromJournal(u, batch))
<1>1. /\ nextToStream \in Label /\ buf \in [Label -> Batch \cup {NotReady}] /\ journal \in RowMap
      /\ buf' = [buf EXCEPT ![nextToStream] = NotReady] /\ nextToStream' = Other(nextToStream)
  BY DEF Dispatch, TypeInv
<1>2. /\ buf' \in [Label -> Batch \cup {NotReady}]
      /\ \A u \in UUID : /\ Sent(buf', nextToStream, u) = NoRow
                         /\ Sent(buf', Other(nextToStream), u) = Sent(buf, Other(nextToStream), u)
  BY <1>1, OtherBuffer DEF Sent
<1>3. CASE buf[nextToStream] # NotReady
  <2>1. batch = buf[nextToStream] /\ batch \in Batch
    BY <1>1, <1>3 DEF Replies
  <2>2. journal' = journal
    BY <1>3 DEF Dispatch
  <2>3. JournalInv'
    BY <2>2 DEF JournalInv
  <2>4. \A u \in UUID : FromBuffer(u, batch)
    BY <1>3, <2>1, <2>2 DEF FromBuffer, Sent, Unsent
  <2>5. QED
    BY <1>1, <1>2, <2>1, <2>2, <2>3, <2>4
<1>4. CASE buf[nextToStream] = NotReady
  <2>1. PICK S \in Batches : batch = Messages(S)
    BY <1>4 DEF Replies
  <2>2. /\ batch \in Batch /\ Keys(batch) = S
        /\ \A u \in UUID : batch[u] = IF u \in S THEN Unsent(journal, store, u) ELSE NoRow
        /\ \A u \in S : batch[u] # NoRow /\ batch[u].isDelete = (store[u] = NoRow)
    BY <2>1, BatchMessages
  <2>3. journal' = Only(journal, UUID \ S)
    BY <1>4, <2>2 DEF Dispatch
  <2>4. /\ journal' \in RowMap /\ JournalInv'
        /\ \A u \in UUID : u \in S => journal'[u] = NoRow /\ Unsent(journal, store, u)' = NoRow
        /\ \A u \in UUID : u \notin S => /\ journal'[u] = journal[u]
                                         /\ Unsent(journal, store, u)' = Unsent(journal, store, u)
    BY <2>3, Taken
  <2>5. \A u \in UUID : Sent(buf, nextToStream, u) = NoRow
    BY <1>4 DEF Sent
  <2>6. \A u \in S : FromJournal(u, batch)
    BY <2>2, <2>4, <2>5 DEF FromJournal, Keys
  <2>7. \A u \in UUID : u \notin S => FromBuffer(u, batch)
    BY <2>2, <2>4, <2>5 DEF FromBuffer
  <2>8. QED
    BY <1>1, <1>2, <2>2, <2>4, <2>6, <2>7
<1>5. QED
  BY <1>3, <1>4

(* What a batch, merged or empty, makes of the replica, in whatever order. *)
LEMMA GetRows ==
  ASSUME IInv, NEW batch \in Batch, active,
         IF batch = EmptyMap
         THEN active' = FALSE /\ file' = Finished(session) /\ session' = Fresh(session, <<>>)
         ELSE session' = Merge(session, InOrder(batch)) /\ file' = file /\ active' = active
  PROVE  /\ Walking(session') /\ file' \in Seq(ReplicaRow)
         /\ active' => file' = <<>>
         /\ ~active' => session'.jor = <<>> /\ session'.out = <<>>
         /\ ImageInv'
         /\ \A row \in RowsNow : batch[row.uuid] = NoRow => row \in RowsNow'
         /\ Range(session.out) \subseteq RowsNow'
         /\ \A u \in UUID : Adds(batch[u]) => active' /\ Has(Range(session'.out), u) /\ Has(RowsNow', u)
<1>1. /\ Walking(session) /\ session \in SessionType /\ file = <<>> /\ RowsNow = Rows(session)
      /\ Pictured(Range(session.jor) \cup Range(session.out), session.images)
  BY DEF IInv, TypeInv, ImageInv, Walking, RowsNow
<1>2. CASE batch = EmptyMap
  <2>1. active' = FALSE /\ file' = Finished(session) /\ session' = Fresh(session, <<>>)
    BY <1>2
  <2>2. Finished(session) \in Seq(ReplicaRow) /\ Range(Finished(session)) = Rows(session)
    BY <1>1, FinishedRows
  <2>3. /\ Walking(session') /\ session'.jor = <<>> /\ session'.out = <<>> /\ session'.images = session.images
    <3> DEFINE none == <<>>
    <3>1. none \in Seq(ReplicaRow) /\ session' = Fresh(session, none)
      BY <2>1, EmptyRows
    <3> HIDE DEF none
    <3>2. Walking(session') /\ session'.jor = none /\ session'.out = <<>> /\ session'.images = session.images
      BY <1>1, <3>1, FreshSession
    <3>3. QED
      BY <3>2 DEF none
  <2>4. RowsNow' = RowsNow
    BY <1>1, <2>1, <2>2 DEF RowsNow
  <2>5. ImageInv'
    <3>1. Rows(session) \subseteq Range(session.jor) \cup Range(session.out)
      BY <1>1, RowsType DEF Rows
    <3>2. QED
      BY <1>1, <2>1, <2>2, <2>3, <3>1, EmptyRows DEF ImageInv, Pictured
  <2>6. \A u \in UUID : ~Adds(batch[u])
    BY <1>2 DEF Adds, EmptyMap
  <2>7. QED
    BY <1>1, <2>1, <2>2, <2>3, <2>4, <2>5, <2>6 DEF Rows
<1>3. CASE batch # EmptyMap
  <2>1. session' = Merge(session, InOrder(batch)) /\ file' = file /\ active' = active
    BY <1>3
  <2>2. /\ Walking(session')
        /\ Pictured(Range(session'.jor) \cup Range(session'.out), session'.images)
        /\ Range(session.out) \subseteq Range(session'.out)
        /\ \A row \in Rows(session) : batch[row.uuid] = NoRow => row \in Rows(session')
        /\ \A u \in Keys(batch) : ~batch[u].isDelete => \E row \in Range(session'.out) : row.uuid = u
    <3>1. Merged(session, batch, session')
      BY <1>1, <2>1, MergeBatch
    <3>2. QED
      BY <3>1 DEF Merged
  <2>3. RowsNow' = Rows(session') /\ Range(session'.out) \subseteq Rows(session')
    BY <2>1 DEF RowsNow, Rows
  <2>4. ImageInv'
    BY <1>1, <2>1, <2>2, EmptyRows DEF ImageInv, Pictured
  <2>5. \A u \in UUID : Adds(batch[u]) => Has(Range(session'.out), u)
    BY <2>2 DEF Adds, Has, Keys
  <2>6. \A u \in UUID : Has(Range(session'.out), u) => Has(RowsNow', u)
    BY <2>3 DEF Has
  <2>7. QED
    BY <1>1, <2>1, <2>2, <2>3, <2>4, <2>5, <2>6, EmptyRows
<1>4. QED
  BY <1>2, <1>3

(* What is up to date without a batch is up to date with it.               *)
LEMMA UpToDateSent ==
  ASSUME NEW r, NEW m, NEW first, NEW second, NEW then, NEW then2, NEW at,
         UpToDate(r, first, second, then, at), m = NoRow \/ second = NoRow,
         \/ m = first /\ then2 = then
         \/ first = NoRow /\ m = then /\ then2 = NoRow
  PROVE  UpToDate(Apply(r, m), second, NoRow, then2, at)
<1>1. \A e : Apply(e, NoRow) = e
  BY DEF Apply
<1>2. CASE m = first /\ then2 = then
  BY <1>1, <1>2 DEF UpToDate
<1>3. CASE first = NoRow /\ m = then /\ then2 = NoRow
  BY <1>1, <1>3 DEF UpToDate
<1>4. QED
  BY <1>2, <1>3

(* So does a death whose batch nobody merges: of what is not lost, the     *)
(* batch had nothing.                                                      *)
LEMMA DieUnansweredSound ==
  ASSUME IInv, DieUnanswered
  PROVE  IInv'
<1>1. PICK batch \in Replies :
        Dispatch(batch) /\ lost' = lost \cup MissingIn(file', Finished(session)) \cup Keys(batch)
  BY DEF DieUnanswered
<1>2. /\ UNCHANGED <<store, ahead>> /\ Killed
      /\ TypeInv /\ JournalInv /\ nextToStream \in Label /\ Other(nextToStream) \in Label
  BY OtherBuffer DEF DieUnanswered, IInv, TypeInv
<1>3. /\ active /\ active' = FALSE /\ last' = -1 /\ UNCHANGED inOrder
      /\ file' \in Seq(ReplicaRow) /\ Walking(session')
      /\ session'.jor = <<>> /\ session'.out = <<>>
      /\ ImageInv' /\ OrderInv'
      /\ \A u \in UUID \ lost' : /\ u \notin lost /\ (Has(RowsNow, u) <=> Has(RowsNow', u))
                                 /\ inOrder => EntryNow(u)' = EntryNow(u)
  BY <1>1, <1>2, KilledSession
<1> DEFINE first(u)  == Sent(buf, nextToStream, u)
           second(u) == Sent(buf, Other(nextToStream), u)
           then(u)   == Unsent(journal, store, u)
<1>4. /\ batch \in Batch /\ journal' \in RowMap /\ JournalInv'
      /\ buf' \in [Label -> Batch \cup {NotReady}] /\ nextToStream' = Other(nextToStream)
      /\ \A u \in UUID : /\ Sent(buf', nextToStream, u) = NoRow
                         /\ Sent(buf', Other(nextToStream), u) = second(u)
                         /\ (FromBuffer(u, batch) \/ FromJournal(u, batch))
  BY <1>1, <1>2, DispatchStep
<1>5. TypeInv'
  <2>1. last' \in Int
    BY <1>3
  <2>2. QED
    BY <1>2, <1>3, <1>4, <2>1 DEF TypeInv
<1>6. Other(nextToStream') = nextToStream /\ \A b \in Label : b = nextToStream \/ b = Other(nextToStream)
  BY <1>2, <1>4, OtherBuffer
<1>7. ASSUME NEW u \in UUID \ lost'
      PROVE  /\ first(u) = NoRow /\ then(u)' = then(u) /\ journal'[u] = journal[u]
             /\ Sent(buf', nextToStream', u) = second(u) /\ Sent(buf', Other(nextToStream'), u) = NoRow
             /\ ~Overtaken(u)
  <2>1. batch[u] = NoRow
    BY <1>1, <1>7 DEF Keys
  <2>2. FromBuffer(u, batch) \/ FromJournal(u, batch)
    BY <1>4
  <2>3. first(u) = NoRow /\ then(u)' = then(u) /\ journal'[u] = journal[u]
    BY <2>1, <2>2 DEF FromBuffer, FromJournal
  <2>4. QED
    BY <1>4, <1>6, <2>3 DEF Overtaken
<1>8. AgreeInv'
  <2> SUFFICES ASSUME inOrder', NEW u \in UUID \ lost'
               PROVE  UpToDate(EntryNow(u)', Sent(buf', nextToStream', u), Sent(buf', Other(nextToStream'), u),
                               then(u)', store'[u])
    BY DEF AgreeInv
  <2> DEFINE r == EntryNow(u)
  <2>1. u \notin lost /\ EntryNow(u)' = r
    BY <1>3
  <2>2. UpToDate(r, NoRow, second(u), then(u), store[u])
    BY <1>3, <1>7, <2>1 DEF IInv, AgreeInv
  <2> HIDE DEF first, second, then, r
  <2>3. UpToDate(r, second(u), NoRow, then(u), store[u])
    BY <2>2, UpToDateOrder
  <2>4. QED
    BY <1>2, <1>7, <2>1, <2>3
<1>9. RowInv'
  <2> SUFFICES ASSUME NEW u \in UUID \ lost', store'[u] # NoRow PROVE RowComes(u)'
    BY DEF RowInv, Keys
  <2>1. RowComes(u) /\ ~Overtaken(u) /\ (Has(RowsNow, u) <=> Has(RowsNow', u))
    BY <1>2, <1>3, <1>7 DEF IInv, RowInv, Keys
  <2>2. CASE journal[u] # NoRow
    BY <1>7, <2>2 DEF RowComes
  <2>3. CASE \E b \in Label : Adds(Sent(buf, b, u))
    <3>1. Adds(second(u))
      BY <1>6, <1>7, <2>3 DEF Adds
    <3>2. nextToStream' \in Label /\ Adds(Sent(buf', nextToStream', u))
      BY <1>2, <1>4, <1>7, <3>1
    <3>3. QED
      BY <3>2 DEF RowComes
  <2>4. CASE Has(RowsNow, u) /\ \A b \in Label : Sent(buf, b, u) = NoRow
    <3>1. \A b \in Label : Sent(buf', b, u) = NoRow
      BY <1>2, <1>4, <1>6, <1>7, <2>4
    <3>2. QED
      BY <2>1, <2>4, <3>1 DEF RowComes
  <2>5. QED
    BY <2>1, <2>2, <2>3, <2>4 DEF RowComes
<1>10. QED
  BY <1>3, <1>4, <1>5, <1>8, <1>9 DEF IInv

(* A turn of getReq preserves the invariant. While the uuids come in       *)
(* order, what the batch has of a uuid is what comes first of it; if not,  *)
(* it is overtaken.                                                        *)
LEMMA GetSound ==
  ASSUME IInv, Get
  PROVE  IInv'
<1>1. /\ active /\ UNCHANGED <<store, ahead, lost>>
      /\ TypeInv /\ JournalInv /\ nextToStream \in Label /\ Other(nextToStream) \in Label
  BY OtherBuffer DEF Get, IInv, TypeInv
<1>2. PICK batch \in Replies :
        /\ Dispatch(batch)
        /\ IF batch = EmptyMap
           THEN /\ active' = FALSE /\ file' = Finished(session) /\ session' = Fresh(session, <<>>)
                /\ last' = -1 /\ UNCHANGED inOrder
           ELSE /\ session' = Merge(session, InOrder(batch))
                /\ last' = Max(Keys(batch)) /\ inOrder' = (inOrder /\ last < Min(Keys(batch)))
                /\ UNCHANGED <<file, active>>
  BY DEF Get, Fresh
<1> DEFINE first(u)  == Sent(buf, nextToStream, u)
           second(u) == Sent(buf, Other(nextToStream), u)
           then(u)   == Unsent(journal, store, u)
<1>3. /\ batch \in Batch /\ journal' \in RowMap /\ JournalInv'
      /\ buf' \in [Label -> Batch \cup {NotReady}] /\ nextToStream' = Other(nextToStream)
      /\ \A u \in UUID : /\ Sent(buf', nextToStream, u) = NoRow
                         /\ Sent(buf', Other(nextToStream), u) = second(u)
                         /\ (FromBuffer(u, batch) \/ FromJournal(u, batch))
  BY <1>1, <1>2, DispatchStep
<1>4. /\ Walking(session') /\ file' \in Seq(ReplicaRow)
      /\ active' => file' = <<>>
      /\ ~active' => session'.jor = <<>> /\ session'.out = <<>>
      /\ ImageInv'
      /\ \A row \in RowsNow : batch[row.uuid] = NoRow => row \in RowsNow'
      /\ Range(session.out) \subseteq RowsNow'
      /\ \A u \in UUID : Adds(batch[u]) => active' /\ Has(Range(session'.out), u) /\ Has(RowsNow', u)
  BY <1>1, <1>2, <1>3, GetRows
<1>5. /\ batch # EmptyMap => Keys(batch) # {}
      /\ Keys(batch) \in SUBSET UUID /\ Keys(batch) \in SUBSET Nat /\ IsFiniteSet(Keys(batch))
  BY <1>3, UUIDAssumption, FS_Subset DEF Keys, EmptyMap, Batch
<1>6. batch # EmptyMap =>
        /\ Max(Keys(batch)) \in UUID /\ \A u \in Keys(batch) : u <= Max(Keys(batch)) /\ Min(Keys(batch)) <= u
        /\ Min(Keys(batch)) \in Nat /\ Max(Keys(batch)) \in Nat
  BY <1>5, Extremes
<1>7. TypeInv'
  <2>1. last' \in Int
    <3>1. last \in Int /\ \A m \in Nat : m \in Int
      BY <1>1 DEF TypeInv
    <3>2. CASE batch = EmptyMap
      BY <1>2, <3>1, <3>2
    <3>3. CASE batch # EmptyMap
      BY <1>2, <1>6, <3>1, <3>3
    <3>4. QED
      BY <3>2, <3>3
  <2>2. active' \in BOOLEAN
    BY <1>1, <1>2 DEF TypeInv
  <2>3. inOrder' \in BOOLEAN
    BY <1>1, <1>2, Zenon DEF TypeInv
  <2>4. /\ store' \in [UUID -> StoreRow \cup {NoRow}] /\ nextToStream' \in Label
        /\ ahead' \in Label \cup {"none"}
    BY <1>1, <1>3 DEF TypeInv
  <2>5. ~active' => last' = -1
    BY <1>1, <1>2
  <2>6. QED
    BY <1>3, <1>4, <2>1, <2>2, <2>3, <2>4, <2>5 DEF TypeInv
<1>8. OrderInv'
  <2>1. CASE batch = EmptyMap
    <3>1. ASSUME inOrder PROVE Sorted(Finished(session))
      BY <1>1, <3>1, InStepFinished DEF IInv, OrderInv
    <3>2. QED
      BY <1>2, <2>1, <3>1 DEF OrderInv
  <2>2. CASE batch # EmptyMap
    <3>1. ASSUME inOrder, last < Min(Keys(batch)) PROVE InStep(session', last') /\ Sorted(file')
      <4>1. InStep(session, last) /\ Sorted(file)
        BY <1>1, <3>1 DEF IInv, OrderInv
      <4>2. InStep(session', Max(Keys(batch)))
        BY <1>2, <1>3, <1>5, <2>2, <3>1, <4>1, MergeBatchInOrder
      <4>3. QED
        BY <1>2, <2>2, <4>1, <4>2
    <3>2. QED
      BY <1>2, <2>2, <3>1 DEF OrderInv
  <2>3. QED
    BY <2>1, <2>2
<1>9. ASSUME inOrder', NEW u \in UUID \ lost'
      PROVE  EntryNow(u)' = Apply(EntryNow(u), batch[u]) /\ ~Overtaken(u)
  <2>1. first(u) # NoRow => u \in Keys(batch)
    BY <1>3 DEF FromBuffer, FromJournal, Keys
  <2>2. CASE batch = EmptyMap
    <3>1. batch[u] = NoRow
      BY <2>2 DEF EmptyMap
    <3>2. RowsNow' = RowsNow /\ session'.images = session.images
      <4>1. Walking(session) /\ session \in SessionType
        BY <1>1 DEF TypeInv, Walking
      <4>2. session'.images = session.images
        BY <1>2, <2>2, <4>1 DEF Fresh, SessionType
      <4>3. Range(Finished(session)) = Rows(session)
        BY <4>1, FinishedRows
      <4>4. QED
        BY <1>1, <1>2, <2>2, <4>2, <4>3 DEF RowsNow
    <3>3. EntryNow(u)' = Apply(EntryNow(u), batch[u])
      BY <3>1, <3>2 DEF EntryNow, Apply
    <3>4. ~Overtaken(u)
      BY <2>1, <3>1 DEF Overtaken, Keys
    <3>5. QED
      BY <3>3, <3>4
  <2>3. CASE batch # EmptyMap
    <3>1. inOrder /\ last < Min(Keys(batch)) /\ session' = Merge(session, InOrder(batch)) /\ active'
      BY <1>1, <1>2, <1>9, <2>3
    <3>2. InStep(session, last)
      BY <1>1, <3>1 DEF IInv, OrderInv
    <3>3. Entry(Rows(session'), session'.images, u) = Apply(Entry(Rows(session), session.images, u), batch[u])
      BY <1>3, <1>5, <2>3, <3>1, <3>2, MergeBatchInOrder
    <3>4. EntryNow(u)' = Apply(EntryNow(u), batch[u])
      BY <1>1, <3>1, <3>3 DEF EntryNow, RowsNow
    <3>5. ~(u <= last /\ u \in Keys(batch))
      <4>1. last \in Int /\ u \in Nat
        BY <1>1, UUIDAssumption DEF TypeInv
      <4>2. QED
        BY <1>6, <2>3, <3>1, <4>1
    <3>6. QED
      BY <2>1, <3>4, <3>5 DEF Overtaken
  <2>4. QED
    BY <2>2, <2>3
<1>10. ASSUME inOrder', NEW u \in UUID \ lost'
       PROVE  \/ Overtaken(u)'
              \/ UpToDate(EntryNow(u)', Sent(buf', nextToStream', u), Sent(buf', Other(nextToStream'), u),
                          then(u)', store'[u])
  <2>1. /\ Sent(buf', nextToStream', u) = second(u) /\ Sent(buf', Other(nextToStream'), u) = NoRow
        /\ store' = store /\ Other(nextToStream') = nextToStream
    <3>1. Other(nextToStream') = nextToStream
      BY <1>1, <1>3, OtherBuffer
    <3>2. /\ Sent(buf', nextToStream, u) = NoRow
          /\ Sent(buf', Other(nextToStream), u) = second(u)
      BY <1>3
    <3>3. QED
      BY <1>1, <1>3, <3>1, <3>2
  <2>2. EntryNow(u)' = Apply(EntryNow(u), batch[u]) /\ ~Overtaken(u)
    BY <1>9, <1>10
  <2>3. u \notin lost /\ inOrder
    BY <1>1, <1>2, <1>10
  <2>4. UpToDate(EntryNow(u), first(u), second(u), then(u), store[u])
    BY <2>2, <2>3 DEF IInv, AgreeInv
  <2>5. \/ batch[u] = first(u) /\ then(u)' = then(u)
        \/ first(u) = NoRow /\ batch[u] = then(u) /\ then(u)' = NoRow
    BY <1>3 DEF FromBuffer, FromJournal
  <2>6. CASE batch[u] = NoRow \/ second(u) = NoRow
    <3> DEFINE r == EntryNow(u)  then2 == then(u)'
    <3> HIDE DEF r, then2, first, second, then
    <3>1. UpToDate(Apply(r, batch[u]), second(u), NoRow, then2, store[u])
      BY <2>4, <2>5, <2>6, UpToDateSent DEF r, then2
    <3>2. QED
      BY <2>1, <2>2, <3>1 DEF r, then2
  <2>7. CASE batch[u] # NoRow /\ second(u) # NoRow
    <3>1. u \in Keys(batch) /\ batch # EmptyMap
      BY <2>7 DEF Keys, EmptyMap
    <3>2. active' /\ u <= last'
      BY <1>1, <1>2, <1>6, <3>1
    <3>3. QED
      BY <2>1, <2>7, <3>2 DEF Overtaken
  <2>8. QED
    BY <2>6, <2>7
<1>11. AgreeInv'
  BY <1>10 DEF AgreeInv
<1>12. RowInv'
  <2> SUFFICES ASSUME NEW u \in UUID \ lost', store'[u] # NoRow PROVE RowComes(u)'
    BY DEF RowInv, Keys
  <2>1. RowComes(u) /\ store[u] # NoRow
    BY <1>1 DEF IInv, RowInv, Keys
  <2>2. /\ Sent(buf', nextToStream', u) = second(u) /\ Sent(buf', Other(nextToStream'), u) = NoRow
        /\ \A b \in Label : b = nextToStream' \/ b = Other(nextToStream')
    <3>1. /\ Other(nextToStream') = nextToStream
          /\ \A b \in Label : b = nextToStream' \/ b = Other(nextToStream')
      BY <1>1, <1>3, OtherBuffer
    <3>2. /\ Sent(buf', nextToStream, u) = NoRow
          /\ Sent(buf', Other(nextToStream), u) = second(u)
      BY <1>3
    <3>3. QED
      BY <1>3, <3>1, <3>2
  <2>3. \A b \in Label : Sent(buf, b, u) = first(u) \/ Sent(buf, b, u) = second(u)
    BY <1>1, OtherBuffer
  <2>4. ASSUME Adds(batch[u]) PROVE RowComes(u)'
    <3>1. active' /\ Has(Range(session'.out), u) /\ Has(RowsNow', u)
      BY <1>4, <2>4
    <3>2. CASE second(u) = NoRow
      <4>1. \A b \in Label : Sent(buf', b, u) = NoRow
        BY <2>2, <3>2
      <4>2. QED
        BY <3>1, <4>1 DEF RowComes
    <3>3. CASE second(u) # NoRow
      <4>1. u \in Keys(batch) /\ batch # EmptyMap
        BY <2>4 DEF Adds, Keys, EmptyMap
      <4>2. u <= last'
        BY <1>2, <1>6, <4>1
      <4>3. QED
        BY <2>2, <3>1, <3>3, <4>2 DEF RowComes, Overtaken
    <3>4. QED
      BY <3>2, <3>3
  <2>5. CASE FromJournal(u, batch)
    BY <2>1, <2>4, <2>5 DEF FromJournal, Adds
  <2>6. CASE FromBuffer(u, batch)
    <3>1. CASE journal[u] # NoRow
      BY <2>6, <3>1 DEF FromBuffer, RowComes
    <3>2. CASE \E b \in Label : Adds(Sent(buf, b, u))
      <4>1. CASE Adds(first(u))
        BY <2>4, <2>6, <4>1 DEF FromBuffer
      <4>2. CASE Adds(second(u))
        <5>1. nextToStream' \in Label /\ Adds(Sent(buf', nextToStream', u))
          BY <1>1, <1>3, <2>2, <4>2
        <5>2. QED
          BY <5>1 DEF RowComes
      <4>3. QED
        BY <2>3, <3>2, <4>1, <4>2
    <3>3. CASE Has(RowsNow, u) /\ \A b \in Label : Sent(buf, b, u) = NoRow
      <4>1. batch[u] = NoRow /\ second(u) = NoRow
        BY <1>1, <2>6, <3>3 DEF FromBuffer
      <4>2. Has(RowsNow', u)
        BY <1>4, <3>3, <4>1 DEF Has
      <4>3. \A b \in Label : Sent(buf', b, u) = NoRow
        BY <2>2, <4>1
      <4>4. QED
        BY <4>2, <4>3 DEF RowComes
    <3>4. CASE active /\ Has(Range(session.out), u) /\ first(u) # NoRow /\ second(u) = NoRow
      <4>1. Has(RowsNow', u)
        BY <1>4, <3>4 DEF Has
      <4>2. \A b \in Label : Sent(buf', b, u) = NoRow
        BY <2>2, <3>4
      <4>3. QED
        BY <4>1, <4>2 DEF RowComes
    <3>5. QED
      BY <2>1, <3>1, <3>2, <3>3, <3>4 DEF RowComes, Overtaken
  <2>7. QED
    BY <1>3, <2>5, <2>6
<1>13. QED
  BY <1>3, <1>4, <1>7, <1>8, <1>11, <1>12 DEF IInv

-----------------------------------------------------------------------------
(* The initial states                                                      *)

(* The replica of a store has one row of each of its feeds, in order.      *)
LEMMA RowsOfStore ==
  ASSUME NEW s \in [UUID -> StoreRow \cup {NoRow}], NEW rows, rows = RowsOf(s)
  PROVE  /\ rows \in Seq(ReplicaRow) /\ Sorted(rows)
         /\ \A row \in Range(rows) : /\ row.uuid \in Keys(s) /\ row.feed = s[row.uuid].feed
                                     /\ row.image <=> s[row.uuid].image # NoData
         /\ \A u \in Keys(s) : \E row \in Range(rows) : row.uuid = u
<1> DEFINE F == Keys(s)  n == Cardinality(F)  us == InUuidOrder(F)
<1>1. /\ F \in SUBSET UUID /\ n \in Nat /\ us \in [1 .. n -> F] /\ Ascending(us)
      /\ \A u \in F : \E i \in 1 .. n : us[i] = u
  <2>1. F \in SUBSET UUID
    BY DEF Keys
  <2> HIDE DEF F
  <2>2. QED
    BY <2>1, UuidOrder
<1>2. rows = [i \in 1 .. n |-> Row(us[i], s[us[i]].feed, s[us[i]].image # NoData)]
  BY <1>1 DEF RowsOf
<1>3. \A u \in F : u \in UUID /\ s[u] \in StoreRow /\ s[u].feed \in Feeds
  BY NoneOfThem DEF Keys
<1> HIDE DEF F, n, us
<1>4. \A i \in 1 .. n : /\ us[i] \in F /\ rows[i] \in ReplicaRow /\ rows[i].uuid = us[i]
                        /\ rows[i].feed = s[us[i]].feed
                        /\ rows[i].image <=> s[us[i]].image # NoData
  <2> SUFFICES ASSUME NEW i \in 1 .. n
               PROVE  /\ us[i] \in F /\ rows[i] \in ReplicaRow /\ rows[i].uuid = us[i]
                      /\ rows[i].feed = s[us[i]].feed
                      /\ rows[i].image <=> s[us[i]].image # NoData
    OBVIOUS
  <2> DEFINE image == s[us[i]].image # NoData  feed == s[us[i]].feed
  <2>1. us[i] \in F /\ us[i] \in UUID /\ feed \in Feeds /\ image \in BOOLEAN
    BY <1>1, <1>3
  <2>2. rows[i] = Row(us[i], feed, image)
    BY <1>2
  <2>3. (image <=> s[us[i]].image # NoData) /\ feed = s[us[i]].feed
    OBVIOUS
  <2> HIDE DEF image, feed
  <2>4. rows[i] \in ReplicaRow /\ rows[i].uuid = us[i] /\ rows[i].feed = feed /\ rows[i].image = image
    BY <2>1, <2>2 DEF Row, ReplicaRow
  <2>5. QED
    BY <2>1, <2>3, <2>4
<1>5. rows \in Seq(ReplicaRow) /\ DOMAIN rows = 1 .. n
  BY <1>1, <1>2, <1>4
<1>6. Sorted(rows)
  BY <1>1, <1>4, <1>5 DEF Sorted, Ascending
<1>7. Range(rows) = {rows[i] : i \in 1 .. n}
  BY <1>5 DEF Range
<1>8. ASSUME NEW row \in Range(rows)
      PROVE  /\ row.uuid \in F /\ row.feed = s[row.uuid].feed
             /\ row.image <=> s[row.uuid].image # NoData
  <2>1. PICK i \in 1 .. n : row = rows[i]
    BY <1>7
  <2>2. QED
    BY <1>4, <2>1
<1>9. ASSUME NEW u \in F
      PROVE  \E row \in Range(rows) : row.uuid = u
  <2>1. PICK i \in 1 .. n : us[i] = u
    BY <1>1
  <2>2. rows[i] \in Range(rows) /\ rows[i].uuid = u
    BY <1>4, <1>7, <2>1
  <2>3. QED
    BY <2>2
<1>10. QED
  BY <1>5, <1>6, <1>8, <1>9 DEF F

(* A replica that was brought up to date satisfies the invariant.          *)
LEMMA InitSound ==
  ASSUME Init
  PROVE  IInv
<1> DEFINE images == [u \in UUID |-> IF store[u] = NoRow THEN NoData ELSE store[u].image]
<1>1. /\ store \in [UUID -> StoreRow \cup {NoRow}] /\ journal = EmptyMap
      /\ buf = [b \in Label |-> NotReady] /\ nextToStream = "A" /\ ahead \in {"none", "B"}
      /\ active = FALSE /\ lost = {} /\ inOrder = TRUE /\ last = -1
  BY FirstAssumption DEF Init, StoreRow
<1>2. /\ session.jor = <<>> /\ session.iter = 1 /\ session.out = <<>> /\ session.images = images
      /\ images \in [UUID -> Images \cup {NoData}] /\ Walking(session)
  <2>1. session = [jor |-> <<>>, iter |-> 1, out |-> <<>>, images |-> images]
    BY DEF Init
  <2>2. images \in [UUID -> Images \cup {NoData}]
    <3>1. \A u \in UUID : store[u] # NoRow => store[u].image \in Images \cup {NoData}
      BY <1>1, NoneOfThem
    <3>2. QED
      BY <3>1
  <2> HIDE DEF images
  <2>3. session \in SessionType /\ session.iter \in 1 .. Len(session.jor) + 1
    BY <2>1, <2>2, EmptyRows DEF SessionType
  <2>4. QED
    BY <2>1, <2>2, <2>3 DEF Walking
<1>3. /\ file \in Seq(ReplicaRow) /\ Sorted(file)
      /\ \A row \in Range(file) : /\ row.uuid \in Keys(store) /\ row.feed = store[row.uuid].feed
                                  /\ row.image <=> store[row.uuid].image # NoData
      /\ \A u \in Keys(store) : \E row \in Range(file) : row.uuid = u
  <2>1. file = RowsOf(store)
    BY DEF Init
  <2>2. QED
    BY <1>1, <2>1, RowsOfStore
<1>4. \A u \in UUID : Unsent(journal, store, u) = NoRow /\ \A b \in Label : Sent(buf, b, u) = NoRow
  BY <1>1 DEF EmptyMap, Unsent, Sent
<1>5. TypeInv
  <2>1. journal \in RowMap
    BY <1>1 DEF EmptyMap, RowMap
  <2>2. buf \in [Label -> Batch \cup {NotReady}]
    BY <1>1
  <2>3. nextToStream \in Label /\ ahead \in Label \cup {"none"} /\ last \in Int
    BY <1>1 DEF Label
  <2>4. QED
    BY <1>1, <1>2, <1>3, <2>1, <2>2, <2>3 DEF TypeInv
<1>6. JournalInv
  BY <1>1 DEF JournalInv, Keys, EmptyMap
<1>7. ImageInv
  <2>1. \A row \in Range(file) : row.image => session.images[row.uuid] # NoData
    BY <1>2, <1>3 DEF Keys
  <2>2. QED
    BY <1>2, <2>1, EmptyRows DEF ImageInv, Pictured
<1>8. OrderInv
  BY <1>1, <1>3 DEF OrderInv
<1>9. RowsNow = Range(file)
  BY <1>1 DEF RowsNow
<1>10. AgreeInv
  <2> SUFFICES ASSUME NEW u \in UUID
               PROVE  UpToDate(EntryNow(u), Sent(buf, nextToStream, u), Sent(buf, Other(nextToStream), u),
                               Unsent(journal, store, u), store[u])
    BY DEF AgreeInv
  <2>1. nextToStream \in Label /\ Other(nextToStream) \in Label
    BY <1>1 DEF Label, Other
  <2>2. Agrees(EntryNow(u), store[u])
    <3>1. CASE u \in Keys(store)
      <4>1. PICK row \in Range(file) : row.uuid = u
        BY <1>3, <3>1
      <4>2. \A other \in Range(file) : other.uuid = row.uuid => other = row
        BY <1>3, SortedUnique
      <4>3. EntryNow(u) = [has |-> TRUE, feed |-> row.feed,
                           image |-> IF row.image THEN session.images[u] ELSE NoData]
        BY <1>9, <4>1, <4>2, EntryOfRow DEF EntryNow
      <4>4. store[u] # NoRow /\ session.images[u] = store[u].image /\ row.feed = store[u].feed
            /\ (row.image <=> store[u].image # NoData)
        BY <1>2, <1>3, <3>1, <4>1 DEF Keys
      <4>5. QED
        BY <4>3, <4>4 DEF Agrees
    <3>2. CASE u \notin Keys(store)
      <4>1. \A row \in RowsNow : row.uuid # u
        BY <1>3, <1>9, <3>2
      <4>2. EntryNow(u) = Absent
        BY <4>1, NoEntry DEF EntryNow
      <4>3. QED
        BY <3>2, <4>2 DEF Agrees, Absent, Keys
    <3>3. QED
      BY <3>1, <3>2
  <2>3. QED
    BY <1>4, <2>1, <2>2 DEF UpToDate, Apply
<1>11. RowInv
  BY <1>3, <1>4, <1>9 DEF RowInv, RowComes, Has, Keys, Overtaken
<1>12. QED
  BY <1>5, <1>6, <1>7, <1>8, <1>10, <1>11 DEF IInv

-----------------------------------------------------------------------------
(* The theorems                                                            *)

(* Every step preserves the invariant.                                     *)
LEMMA NextSound ==
  ASSUME IInv, [Next]_vars
  PROVE  IInv'
<1>1. CASE Send
  BY <1>1, SendSound
<1>2. CASE Wake
  BY <1>2, WakeSound
<1>3. CASE Fill
  BY <1>3, FillSound
<1>4. CASE Start
  BY <1>4, StartSound
<1>5. CASE Get
  BY <1>5, GetSound
<1>6. CASE Die
  BY <1>6, DieSound
<1>7. CASE DieUnanswered
  BY <1>7, DieUnansweredSound
<1>8. CASE UNCHANGED vars
  <2>1. /\ UNCHANGED <<store, journal, buf, nextToStream, ahead>>
        /\ UNCHANGED <<file, session, active, lost, inOrder, last>>
    BY <1>8 DEF vars, server, client
  <2>2. TypeInv' /\ JournalInv' /\ ImageInv' /\ OrderInv'
    BY <2>1 DEF IInv, TypeInv, JournalInv, ImageInv, OrderInv
  <2>3. AgreeInv'
    BY <2>1 DEF IInv, AgreeInv, Overtaken, EntryNow, RowsNow
  <2>4. RowInv'
    BY <2>1 DEF IInv, RowInv, RowComes, RowsNow, Overtaken
  <2>5. QED
    BY <2>2, <2>3, <2>4 DEF IInv
<1>9. QED
  BY <1>1, <1>2, <1>3, <1>4, <1>5, <1>6, <1>7, <1>8 DEF Next

(* The invariant all the others follow from holds in every state: of what  *)
(* is in the file, in the hands of a session, in the buffers and in the    *)
(* journal.                                                                *)
THEOREM Invariance == Spec => []IInv
<1>1. Init => IInv
  BY InitSound
<1>2. IInv /\ [Next]_vars => IInv'
  BY NextSound
<1>3. QED
  BY <1>1, <1>2, PTL DEF Spec

(* The state keeps its types, and the walk of a session over its rows      *)
(* stays within them.                                                      *)
THEOREM TypeCorrect == Spec => []TypeOK
<1>1. IInv => TypeOK
  <2> SUFFICES ASSUME IInv PROVE TypeOK
    OBVIOUS
  <2>1. /\ file \in Seq(ReplicaRow) /\ session \in SessionType
        /\ session.iter \in 1 .. Len(session.jor) + 1
    BY DEF IInv, TypeInv, Walking
  <2>2. \A rows \in Seq(ReplicaRow) : Range(rows) \subseteq ReplicaRow
    BY DEF Range
  <2>3. Range(file) \subseteq ReplicaRow /\ Range(session.jor) \cup Range(session.out) \subseteq ReplicaRow
    BY <2>1, <2>2 DEF SessionType
  <2>4. session.images \in [UUID -> Images \cup {NoData}]
    BY <2>1 DEF SessionType
  <2>5. QED
    BY <2>1, <2>3, <2>4 DEF TypeOK, IInv, TypeInv
<1>2. QED
  BY <1>1, Invariance, PTL

(* tryFlush and the image files: a row that says it has an image has its   *)
(* file, even after sessions that died and messages merged out of order.   *)
THEOREM ImageFileIsThereCorrect == Spec => []ImageFileIsThere
<1>1. IInv => ImageFileIsThere
  BY DEF IInv, ImageInv, Pictured, ImageFileIsThere
<1>2. QED
  BY <1>1, Invariance, PTL

(* merge writes sorted rows, and no uuid twice, as long as every session   *)
(* is sent uuids in order.                                                 *)
THEOREM ReplicaInOrderCorrect == Spec => []ReplicaInOrder
<1>1. IInv => ReplicaInOrder
  <2> SUFFICES ASSUME IInv, inOrder PROVE \A rows \in {file, session.jor, session.out} : Sorted(rows)
    BY DEF ReplicaInOrder, Sorted
  <2>1. Sorted(file)
    BY DEF IInv, OrderInv
  <2>2. Sorted(session.jor) /\ Sorted(session.out)
    <3>1. CASE active
      BY <3>1 DEF IInv, OrderInv, InStep
    <3>2. CASE ~active
      BY <3>2, EmptyRows DEF IInv, TypeInv
    <3>3. QED
      BY <3>1, <3>2
  <2>3. QED
    BY <2>1, <2>2
<1>2. QED
  BY <1>1, Invariance, PTL

(* What the server does not have to hand over any more.                    *)
LEMMA NothingPending ==
  ASSUME NEW u, ~Pending(u)
  PROVE  journal[u] = NoRow /\ Unsent(journal, store, u) = NoRow /\ \A b \in Label : Sent(buf, b, u) = NoRow
BY DEF Pending, Unsent, Sent

(* The replica converges: between two sessions it has the feed and the     *)
(* image the store has now of each uuid the server has nothing to hand     *)
(* over of, and no row of a feed that was deleted; however updates were    *)
(* summed in the journal, whichever buffer they came by, and whatever      *)
(* sessions died in between, but for what those lost.                      *)
THEOREM ReplicaAgreesCorrect == Spec => []ReplicaAgrees
<1>1. IInv => ReplicaAgrees
  <2> DEFINE rows(u) == {row \in Range(file) : row.uuid = u}
  <2> SUFFICES ASSUME IInv, inOrder, ~active, NEW u \in UUID \ lost, ~Pending(u)
               PROVE  IF store[u] = NoRow
                      THEN rows(u) = {}
                      ELSE \E row \in rows(u) :
                             /\ row.feed = store[u].feed
                             /\ store[u].image # NoData => row.image /\ session.images[u] = store[u].image
    BY DEF ReplicaAgrees
  <2>1. Agrees(Entry(Range(file), session.images, u), store[u])
    <3>1. /\ Unsent(journal, store, u) = NoRow
          /\ Sent(buf, nextToStream, u) = NoRow /\ Sent(buf, Other(nextToStream), u) = NoRow
      BY NothingPending, OtherBuffer DEF IInv, TypeInv
    <3>2. UpToDate(EntryNow(u), NoRow, NoRow, NoRow, store[u])
      BY <3>1 DEF IInv, AgreeInv, Overtaken
    <3>3. QED
      BY <3>2 DEF UpToDate, Apply, EntryNow, RowsNow
  <2>2. CASE rows(u) = {}
    <3>1. Entry(Range(file), session.images, u) = Absent
      BY <2>2, NoEntry
    <3>2. QED
      BY <2>1, <2>2, <3>1 DEF Agrees, Absent
  <2>3. CASE rows(u) # {}
    <3> DEFINE row == CHOOSE row \in Range(file) : row.uuid = u
               r   == Entry(Range(file), session.images, u)
    <3>1. row \in rows(u)
      BY <2>3
    <3>2. r = [has |-> TRUE, feed |-> row.feed, image |-> IF row.image THEN session.images[u] ELSE NoData]
      BY <2>3 DEF Entry
    <3> HIDE DEF row, r
    <3>3. store[u] # NoRow /\ r.feed = store[u].feed /\ (store[u].image # NoData => r.image = store[u].image)
      BY <2>1, <3>2 DEF Agrees, r
    <3>4. QED
      BY <3>1, <3>2, <3>3
  <2>4. QED
    BY <2>2, <2>3
<1>2. QED
  BY <1>1, Invariance, PTL

(* No feed is forgotten: between two sessions the replica has a row of     *)
(* each live feed the server has nothing to hand over of and no session    *)
(* lost, in whatever order messages came.                                  *)
THEOREM EveryFeedHasARowCorrect == Spec => []EveryFeedHasARow
<1>1. IInv => EveryFeedHasARow
  <2> SUFFICES ASSUME IInv, ~active, NEW u \in Keys(store) \ lost, ~Pending(u)
               PROVE  \E row \in Range(file) : row.uuid = u
    BY DEF EveryFeedHasARow
  <2>1. RowComes(u)
    BY DEF IInv, RowInv
  <2>2. journal[u] = NoRow /\ \A b \in Label : Sent(buf, b, u) = NoRow
    BY NothingPending
  <2>3. Has(RowsNow, u)
    BY <2>1, <2>2 DEF RowComes, Adds, Overtaken
  <2>4. QED
    BY <2>3 DEF Has, RowsNow
<1>2. QED
  BY <1>1, Invariance, PTL
=============================================================================
