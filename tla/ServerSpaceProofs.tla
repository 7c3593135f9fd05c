-------------------------- MODULE ServerSpaceProofs --------------------------
(***************************************************************************)
(* Theorems about the space of Server's data pool, for every set of uuids, *)
(* feeds and images, every size and limit, restarts and failing statements *)
(* included: amountSize is the size of what is cached, whatever is added,  *)
(* sent, evicted and deleted, and the pool stays within its limits.        *)
(***************************************************************************)
EXTENDS ServerProofs

-----------------------------------------------------------------------------
(* Sums over finite sets                                                   *)

Some(S) == CHOOSE x \in S : TRUE

(* g sums the weights of each part of S, as MapThenSumSet does.            *)
SumParts(w, S, g) ==
  g = [s \in SUBSET S |-> IF s = {} THEN 0 ELSE w[Some(s)] + g[s \ {Some(s)}]]

Sum(w, S) == (CHOOSE g : SumParts(w, S, g))[S]

(* Of any sets of uuids there is one that contains no other of them.       *)
LEMMA LeastSet ==
  ASSUME NEW T \in SUBSET (SUBSET UUID), T # {}
  PROVE  \E R \in T : \A r \in T : r \in SUBSET R => r = R
<1>1. T \subseteq FiniteSubsetsOf(UUID)
  BY UUIDAssumption, FS_Subset DEF FiniteSubsetsOf
<1>2. PICK R \in T : \A r \in T : <<r, R>> \notin StrictSubsetOrdering(UUID)
  BY <1>1, FS_StrictSubsetOrderingWellFounded, WFMin
<1>3. QED
  BY <1>2 DEF StrictSubsetOrdering

(* A set that is not empty has the element chosen from it.                 *)
LEMMA SomeIn ==
  ASSUME NEW S, S # {}
  PROVE  Some(S) \in S
BY DEF Some

(* There is one such g at most,                                            *)
LEMMA SumPartsUnique ==
  ASSUME NEW w, NEW S \in SUBSET UUID, NEW g, SumParts(w, S, g), NEW h, SumParts(w, S, h)
  PROVE  \A s \in SUBSET S : g[s] = h[s]
<1> DEFINE Differ == {s \in SUBSET S : g[s] # h[s]}
<1>1. ASSUME Differ # {} PROVE FALSE
  <2>1. PICK s \in Differ : \A r \in Differ : r \in SUBSET s => r = s
    <3>1. Differ \in SUBSET (SUBSET UUID)
      OBVIOUS
    <3> HIDE DEF Differ
    <3>2. QED
      BY <1>1, <3>1, LeastSet
  <2>2. s # {} /\ s \in SUBSET S
    BY DEF SumParts
  <2>3. s \ {Some(s)} \in SUBSET S /\ s \ {Some(s)} \notin Differ
    BY <2>1, <2>2, SomeIn
  <2>4. g[s \ {Some(s)}] = h[s \ {Some(s)}]
    BY <2>3
  <2>5. g[s] = h[s]
    BY <2>2, <2>4 DEF SumParts
  <2>6. QED
    BY <2>5
<1>2. QED
  BY <1>1

(* which depends on the weights in S alone,                                *)
LEMMA SumPartsSame ==
  ASSUME NEW w, NEW v, NEW S, \A x \in S : w[x] = v[x], NEW g, SumParts(w, S, g)
  PROVE  SumParts(v, S, g)
<1>1. ASSUME NEW s \in SUBSET S
      PROVE  g[s] = IF s = {} THEN 0 ELSE v[Some(s)] + g[s \ {Some(s)}]
  <2>1. s # {} => w[Some(s)] = v[Some(s)]
    BY SomeIn
  <2>2. QED
    BY <2>1 DEF SumParts
<1>2. g = [s \in SUBSET S |-> g[s]]
  BY DEF SumParts
<1>3. QED
  BY <1>1, <1>2 DEF SumParts

(* and on a part is that part's,                                           *)
LEMMA SumPartsOfPart ==
  ASSUME NEW w, NEW S, NEW g, SumParts(w, S, g), NEW R \in SUBSET S
  PROVE  SumParts(w, R, [s \in SUBSET R |-> g[s]])
<1> DEFINE h == [s \in SUBSET R |-> g[s]]
<1>1. ASSUME NEW s \in SUBSET R
      PROVE  h[s] = IF s = {} THEN 0 ELSE w[Some(s)] + h[s \ {Some(s)}]
  <2>1. s \in SUBSET S /\ s \ {Some(s)} \in SUBSET R /\ h[s] = g[s] /\ h[s \ {Some(s)}] = g[s \ {Some(s)}]
    OBVIOUS
  <2>2. g[s] = IF s = {} THEN 0 ELSE w[Some(s)] + g[s \ {Some(s)}]
    BY <2>1 DEF SumParts
  <2> HIDE DEF h
  <2>3. QED
    BY <2>1, <2>2
<1>2. h = [s \in SUBSET R |-> h[s]]
  OBVIOUS
<1> HIDE DEF h
<1>3. SumParts(w, R, h)
  BY <1>1, <1>2 DEF SumParts
<1>4. QED
  BY <1>3 DEF h

(* and there is one: the least set without has smaller parts, which have   *)
(* one each, and one is made of theirs.                                    *)
LEMMA SumPartsExist ==
  ASSUME NEW w, NEW S \in SUBSET UUID
  PROVE  \E g : SumParts(w, S, g)
<1> DEFINE Without == {R \in SUBSET UUID : ~ \E g : SumParts(w, R, g)}
           Parts(R) == CHOOSE g : SumParts(w, R, g)
<1>1. ASSUME Without # {} PROVE FALSE
  <2>1. PICK R \in Without : \A r \in Without : r \in SUBSET R => r = R
    <3>1. Without \in SUBSET (SUBSET UUID)
      OBVIOUS
    <3> HIDE DEF Without
    <3>2. QED
      BY <1>1, <3>1, LeastSet
  <2>2. R \in SUBSET UUID
    OBVIOUS
  <2>3. ASSUME NEW r \in SUBSET R, r # R PROVE SumParts(w, r, Parts(r))
    <3>1. \E g : SumParts(w, r, g)
      BY <2>1, <2>2, <2>3
    <3>2. QED
      BY <3>1
  <2> DEFINE g == [s \in SUBSET R |->
                     IF s = {} THEN 0 ELSE w[Some(s)] + Parts(s \ {Some(s)})[s \ {Some(s)}]]
  <2> HIDE DEF Parts
  <2>4. ASSUME NEW r \in SUBSET R, r # R PROVE g[r] = Parts(r)[r]
    <3>1. r \in SUBSET r
          /\ Parts(r)[r] = IF r = {} THEN 0 ELSE w[Some(r)] + Parts(r)[r \ {Some(r)}]
      BY <2>3, <2>4 DEF SumParts
    <3>2. CASE r = {}
      BY <3>1, <3>2
    <3>3. CASE r # {}
      <4> DEFINE q == r \ {Some(r)}
      <4>1. q \in SUBSET r /\ q # R /\ q \in SUBSET R /\ q \in SUBSET UUID
        BY <2>2, <2>4
      <4>2. SumParts(w, q, Parts(q)) /\ SumParts(w, r, Parts(r))
        BY <2>3, <2>4, <4>1
      <4> HIDE DEF q
      <4>3. SumParts(w, q, [s \in SUBSET q |-> Parts(r)[s]])
        BY <4>1, <4>2, SumPartsOfPart
      <4>4. Parts(q)[q] = [s \in SUBSET q |-> Parts(r)[s]][q]
        BY <4>1, <4>2, <4>3, SumPartsUnique
      <4>5. Parts(q)[q] = Parts(r)[q]
        BY <4>4
      <4>6. g[r] = w[Some(r)] + Parts(q)[q]
        BY <3>3 DEF q
      <4>7. Parts(r)[r] = w[Some(r)] + Parts(r)[q]
        BY <3>1, <3>3 DEF q
      <4>8. QED
        BY <4>5, <4>6, <4>7
    <3>4. QED
      BY <3>2, <3>3
  <2>5. ASSUME NEW s \in SUBSET R
        PROVE  g[s] = IF s = {} THEN 0 ELSE w[Some(s)] + g[s \ {Some(s)}]
    <3>1. CASE s = {}
      BY <3>1
    <3>2. CASE s # {}
      <4>1. s \ {Some(s)} \in SUBSET R /\ s \ {Some(s)} # R
        BY <3>2, SomeIn
      <4>2. g[s \ {Some(s)}] = Parts(s \ {Some(s)})[s \ {Some(s)}]
        BY <2>4, <4>1
      <4>3. g[s] = w[Some(s)] + Parts(s \ {Some(s)})[s \ {Some(s)}]
        BY <3>2
      <4> HIDE DEF g
      <4>4. QED
        BY <3>2, <4>2, <4>3
    <3>3. QED
      BY <3>1, <3>2
  <2>6. g = [s \in SUBSET R |-> g[s]]
    OBVIOUS
  <2> HIDE DEF g
  <2>7. SumParts(w, R, g)
    BY <2>5, <2>6 DEF SumParts
  <2>8. QED
    BY <2>7
<1>2. QED
  BY <1>1

(* Any such g has the sum.                                                 *)
LEMMA SumOf ==
  ASSUME NEW w, NEW S \in SUBSET UUID
  PROVE  /\ \E g : SumParts(w, S, g)
         /\ \A g : SumParts(w, S, g) => g[S] = Sum(w, S)
<1>1. \E g : SumParts(w, S, g)
  BY SumPartsExist
<1> DEFINE h == CHOOSE g : SumParts(w, S, g)
<1>2. SumParts(w, S, h) /\ Sum(w, S) = h[S]
  BY <1>1 DEF Sum
<1> HIDE DEF h
<1>3. ASSUME NEW g, SumParts(w, S, g) PROVE g[S] = h[S]
  BY <1>2, <1>3, SumPartsUnique
<1>4. QED
  BY <1>1, <1>2, <1>3

(* A sum only depends on the weights of the elements summed.               *)
LEMMA SumSame ==
  ASSUME NEW w, NEW v, NEW S \in SUBSET UUID, \A x \in S : w[x] = v[x]
  PROVE  Sum(w, S) = Sum(v, S)
<1>1. PICK g : SumParts(w, S, g)
  BY SumOf
<1>2. SumParts(v, S, g)
  BY <1>1, SumPartsSame
<1>3. QED
  BY <1>1, <1>2, SumOf

(* Nothing weighs nothing.                                                 *)
LEMMA SumEmpty == ASSUME NEW w PROVE Sum(w, {}) = 0
<1> DEFINE S == {}
<1>1. S \in SUBSET UUID
  OBVIOUS
<1> HIDE DEF S
<1>2. PICK g : SumParts(w, S, g)
  BY <1>1, SumOf
<1>3. g[S] = 0
  BY <1>2 DEF SumParts, S
<1>4. QED
  BY <1>1, <1>2, <1>3, SumOf DEF S

(* As it is computed: one element, any, and the others.                    *)
LEMMA SumSome ==
  ASSUME NEW w, NEW S \in SUBSET UUID, S # {}
  PROVE  Sum(w, S) = w[Some(S)] + Sum(w, S \ {Some(S)})
<1> DEFINE R == S \ {Some(S)}
<1>1. PICK g : SumParts(w, S, g)
  BY SumOf
<1>2. R \in SUBSET S /\ R \in SUBSET UUID /\ R \in SUBSET R
  OBVIOUS
<1>3. g[S] = w[Some(S)] + g[R]
  BY <1>1 DEF SumParts
<1> HIDE DEF R
<1> DEFINE h == [s \in SUBSET R |-> g[s]]
<1>4. SumParts(w, R, h) /\ h[R] = g[R]
  BY <1>1, <1>2, SumPartsOfPart
<1> HIDE DEF h
<1>5. g[R] = Sum(w, R)
  BY <1>2, <1>4, SumOf
<1>6. QED
  BY <1>1, <1>3, <1>5, SumOf DEF R

(* Weights that are natural numbers have such a sum.                       *)
LEMMA SumType ==
  ASSUME NEW w, NEW S \in SUBSET UUID, \A x \in S : w[x] \in Nat
  PROVE  Sum(w, S) \in Nat
<1> DEFINE Bad == {s \in SUBSET S : Sum(w, s) \notin Nat}
<1>1. ASSUME Bad # {} PROVE FALSE
  <2>1. PICK s \in Bad : \A r \in Bad : r \in SUBSET s => r = s
    <3>1. Bad \in SUBSET (SUBSET UUID)
      OBVIOUS
    <3> HIDE DEF Bad
    <3>2. QED
      BY <1>1, <3>1, LeastSet
  <2>2. s \in SUBSET S /\ s \in SUBSET UUID /\ Sum(w, s) \notin Nat
    OBVIOUS
  <2>3. s # {}
    BY <2>2, SumEmpty
  <2>4. s \ {Some(s)} \notin Bad /\ Some(s) \in S
    BY <2>1, <2>2, <2>3, SomeIn
  <2>5. Sum(w, s \ {Some(s)}) \in Nat /\ w[Some(s)] \in Nat
    BY <2>2, <2>4
  <2>6. Sum(w, s) = w[Some(s)] + Sum(w, s \ {Some(s)})
    BY <2>2, <2>3, SumSome
  <2>7. QED
    BY <2>2, <2>5, <2>6
<1>2. QED
  BY <1>1

(* The sum is that of any one element and the others.                      *)
LEMMA SumOne ==
  ASSUME NEW w, NEW S \in SUBSET UUID, \A x \in S : w[x] \in Nat, NEW x \in S
  PROVE  Sum(w, S) = w[x] + Sum(w, S \ {x})
<1> DEFINE Bad == {s \in SUBSET S : \E y \in s : Sum(w, s) # w[y] + Sum(w, s \ {y})}
<1>1. ASSUME Bad # {} PROVE FALSE
  <2>1. PICK s \in Bad : \A r \in Bad : r \in SUBSET s => r = s
    <3>1. Bad \in SUBSET (SUBSET UUID)
      OBVIOUS
    <3> HIDE DEF Bad
    <3>2. QED
      BY <1>1, <3>1, LeastSet
  <2>2. PICK y \in s : Sum(w, s) # w[y] + Sum(w, s \ {y})
    OBVIOUS
  <2> DEFINE c == Some(s)  t == s \ {c}  r == s \ {y}  q == t \ {y}
  <2>3. s \in SUBSET S /\ c \in s
    BY SomeIn
  <2>4. /\ s \in SUBSET UUID /\ t \in SUBSET UUID /\ r \in SUBSET UUID /\ q \in SUBSET UUID
        /\ w[y] \in Nat /\ w[c] \in Nat /\ t \notin Bad /\ r \notin Bad
    BY <2>1, <2>2, <2>3
  <2>5. Sum(w, s) = w[c] + Sum(w, t)
    BY <2>3, <2>4, SumSome
  <2>6. y # c /\ y \in t /\ c \in r /\ r \ {c} = q /\ t \in SUBSET S /\ r \in SUBSET S
    BY <2>2, <2>3, <2>5
  <2>7. Sum(w, t) = w[y] + Sum(w, q) /\ Sum(w, r) = w[c] + Sum(w, q)
    BY <2>4, <2>6
  <2>8. Sum(w, q) \in Nat
    BY <2>3, <2>4, SumType
  <2> HIDE DEF t, r, q, c
  <2>9. Sum(w, s) = w[y] + Sum(w, r)
    BY <2>4, <2>5, <2>7, <2>8
  <2>10. QED
    BY <2>2, <2>9 DEF r
<1>2. QED
  BY <1>1

(* A part and the rest sum up to the whole.                                *)
LEMMA SumSplit ==
  ASSUME NEW w, NEW T \in SUBSET UUID, \A x \in T : w[x] \in Nat, NEW S \in SUBSET T
  PROVE  Sum(w, T) = Sum(w, S) + Sum(w, T \ S)
<1> DEFINE Bad == {s \in SUBSET T : Sum(w, T) # Sum(w, s) + Sum(w, T \ s)}
<1>1. ASSUME Bad # {} PROVE FALSE
  <2>1. PICK s \in Bad : \A r \in Bad : r \in SUBSET s => r = s
    <3>1. Bad \in SUBSET (SUBSET UUID)
      OBVIOUS
    <3> HIDE DEF Bad
    <3>2. QED
      BY <1>1, <3>1, LeastSet
  <2>2. s \in SUBSET T /\ Sum(w, T) # Sum(w, s) + Sum(w, T \ s)
    OBVIOUS
  <2>3. Sum(w, T) \in Nat
    BY SumType
  <2>4. s # {}
    <3>1. Sum(w, {}) = 0 /\ T \ {} = T
      BY SumEmpty
    <3>2. QED
      BY <2>2, <2>3, <3>1
  <2>5. PICK x \in s : TRUE
    BY <2>4
  <2> DEFINE r == s \ {x}  rest == T \ r
  <2>6. r \notin Bad /\ r \in SUBSET T /\ x \in rest /\ rest \ {x} = T \ s /\ w[x] \in Nat
    BY <2>1, <2>2
  <2>7. Sum(w, T) = Sum(w, r) + Sum(w, rest)
    BY <2>6
  <2> HIDE DEF rest
  <2>8. rest \in SUBSET T
    BY DEF rest
  <2>9. Sum(w, rest) = w[x] + Sum(w, T \ s)
    BY <2>6, <2>8, SumOne
  <2>10. Sum(w, s) = w[x] + Sum(w, r)
    BY <2>2, SumOne
  <2> HIDE DEF r
  <2>11. Sum(w, r) \in Nat /\ Sum(w, T \ s) \in Nat
    BY <2>6, SumType
  <2>12. QED
    BY <2>2, <2>6, <2>7, <2>9, <2>10, <2>11
<1>2. QED
  BY <1>1

(* What the sum changes by when one element changes, comes or goes.        *)
LEMMA SumChanged ==
  ASSUME NEW w, NEW v, NEW S \in SUBSET UUID, NEW T \in SUBSET UUID, NEW u \in UUID,
         \A x \in S : w[x] \in Nat, \A x \in T : v[x] \in Nat,
         S \ {u} = T \ {u}, \A x \in S \ {u} : w[x] = v[x]
  PROVE  Sum(v, T) + (IF u \in S THEN w[u] ELSE 0) = Sum(w, S) + (IF u \in T THEN v[u] ELSE 0)
<1> DEFINE R == S \ {u}
<1>1. R \in SUBSET UUID /\ Sum(w, R) = Sum(v, R) /\ Sum(w, R) \in Nat
  BY SumSame, SumType
<1>2. /\ u \in S    => Sum(w, S) = w[u] + Sum(w, R) /\ w[u] \in Nat
      /\ u \notin S => Sum(w, S) = Sum(w, R)
  <2>1. u \notin S => S = R
    OBVIOUS
  <2>2. u \in S => Sum(w, S) = w[u] + Sum(w, R) /\ w[u] \in Nat
    BY SumOne
  <2>3. QED
    BY <2>1, <2>2
<1>3. /\ u \in T    => Sum(v, T) = v[u] + Sum(v, R) /\ v[u] \in Nat
      /\ u \notin T => Sum(v, T) = Sum(v, R)
  <2>1. T \ {u} = R /\ (u \notin T => T = R)
    OBVIOUS
  <2> HIDE DEF R
  <2>2. u \in T => Sum(v, T) = v[u] + Sum(v, R) /\ v[u] \in Nat
    BY <2>1, SumOne
  <2>3. QED
    BY <2>1, <2>2
<1> HIDE DEF R
<1>4. QED
  BY <1>1, <1>2, <1>3

-----------------------------------------------------------------------------
(* The space of a pool                                                     *)

Cached(d)    == FeedsIn(d, {"M", "MS"})
FeedSize(d)  == [u \in UUID |-> Size[d.storage[u].feedData]]
ImageSize(d) == [u \in UUID |-> Size[d.storage[u].imageData]]

(* What FeedBytes folds from the storage is the sum of the sizes of its    *)
(* feeds.                                                                  *)
LEMMA FeedBytesSum ==
  ASSUME NEW d, NEW S \in SUBSET UUID
  PROVE  FeedBytes(d, S) = Sum(FeedSize(d), S)
<1> DEFINE Parts(g) == g = [s \in SUBSET S |->
                              IF s = {} THEN 0 ELSE Size[d.storage[Some(s)].feedData] + g[s \ {Some(s)}]]
           h == CHOOSE g : Parts(g)
<1>1. FeedBytes(d, S) = h[S]
  BY DEF FeedBytes, MapThenSumSet, MapThenFoldSet, Some
<1>2. ASSUME NEW g PROVE Parts(g) <=> SumParts(FeedSize(d), S, g)
  <2>1. \A s \in SUBSET S : s # {} => FeedSize(d)[Some(s)] = Size[d.storage[Some(s)].feedData]
    BY SomeIn DEF FeedSize
  <2>2. QED
    BY <2>1 DEF SumParts
<1> HIDE DEF Parts
<1>3. Parts(h)
  BY <1>2, SumOf
<1> HIDE DEF h
<1>4. QED
  BY <1>1, <1>2, <1>3, SumOf

(* And ImageBytes that of its images.                                      *)
LEMMA ImageBytesSum ==
  ASSUME NEW d, NEW S \in SUBSET UUID
  PROVE  ImageBytes(d, S) = Sum(ImageSize(d), S)
<1> DEFINE Parts(g) == g = [s \in SUBSET S |->
                              IF s = {} THEN 0 ELSE Size[d.storage[Some(s)].imageData] + g[s \ {Some(s)}]]
           h == CHOOSE g : Parts(g)
<1>1. ImageBytes(d, S) = h[S]
  BY DEF ImageBytes, MapThenSumSet, MapThenFoldSet, Some
<1>2. ASSUME NEW g PROVE Parts(g) <=> SumParts(ImageSize(d), S, g)
  <2>1. \A s \in SUBSET S : s # {} => ImageSize(d)[Some(s)] = Size[d.storage[Some(s)].imageData]
    BY SomeIn DEF ImageSize
  <2>2. QED
    BY <2>1 DEF SumParts
<1> HIDE DEF Parts
<1>3. Parts(h)
  BY <1>2, SumOf
<1> HIDE DEF h
<1>4. QED
  BY <1>1, <1>2, <1>3, SumOf

(* An entry has the data its states say.                                   *)
Filled(e) ==
  /\ e.feed_state \in {"M", "MS"} => e.feedData \in Feeds
  /\ e.image_state = "M" => e.imageData \in Images

FeedSpace(e)  == IF e # NoRow /\ e.feed_state \in {"M", "MS"} THEN Size[e.feedData] ELSE 0
ImageSpace(e) == IF e # NoRow /\ e.image_state = "M" THEN Size[e.imageData] ELSE 0

AllFilled(d) == \A u \in UUID : d.storage[u] # NoRow => Filled(d.storage[u])
IsCounted(d) == d.amountSize = Sum(FeedSize(d), Cached(d)) + Sum(ImageSize(d), ImagesIn(d))

PoolInv(d) ==
  /\ PoolRecord(d) /\ AllFilled(d) /\ IsCounted(d)
  /\ d.amountSize <= LIMITSIZE
  /\ Cardinality(Keys(d.storage)) <= LIMITKEY

(* The size of what is cached is that of the entry, and of what is not     *)
(* cached an entry has none.                                               *)
LEMMA CachedSizes ==
  ASSUME NEW d, AllFilled(d)
  PROVE  /\ Cached(d) \in SUBSET UUID /\ ImagesIn(d) \in SUBSET UUID
         /\ \A u \in Cached(d)   : FeedSize(d)[u] = FeedSpace(d.storage[u]) /\ FeedSize(d)[u] \in Nat
         /\ \A u \in ImagesIn(d) : ImageSize(d)[u] = ImageSpace(d.storage[u]) /\ ImageSize(d)[u] \in Nat
         /\ \A u \in UUID \ Cached(d)   : FeedSpace(d.storage[u]) = 0
         /\ \A u \in UUID \ ImagesIn(d) : ImageSpace(d.storage[u]) = 0
<1>1. \A x \in Feeds \cup Images : Size[x] \in Nat
  BY DataAssumption
<1>2. QED
  BY <1>1 DEF Cached, FeedsIn, ImagesIn, Keys, FeedSize, ImageSize, FeedSpace, ImageSpace, AllFilled, Filled

(* Every size in a pool, and every sum of them, is a natural number.       *)
LEMMA SpaceTypes ==
  ASSUME NEW d, PoolInv(d)
  PROVE  /\ d.amountSize \in Nat
         /\ \A u \in UUID : FeedSpace(d.storage[u]) \in Nat /\ ImageSpace(d.storage[u]) \in Nat
         /\ \A S \in SUBSET Cached(d)   : Sum(FeedSize(d), S) \in Nat
         /\ \A S \in SUBSET ImagesIn(d) : Sum(ImageSize(d), S) \in Nat
<1>1. AllFilled(d) /\ IsCounted(d)
  BY DEF PoolInv
<1>2. \A S \in SUBSET Cached(d) : Sum(FeedSize(d), S) \in Nat
  BY <1>1, CachedSizes, SumType
<1>3. \A S \in SUBSET ImagesIn(d) : Sum(ImageSize(d), S) \in Nat
  BY <1>1, CachedSizes, SumType
<1>4. \A u \in UUID : FeedSpace(d.storage[u]) \in Nat /\ ImageSpace(d.storage[u]) \in Nat
  BY <1>1, CachedSizes
<1>5. QED
  BY <1>1, <1>2, <1>3, <1>4 DEF IsCounted

(* Only what is cached counts.                                             *)
LEMMA SameSpace ==
  ASSUME NEW d, PoolInv(d), NEW e, PoolRecord(e), e.amountSize = d.amountSize,
         \A u \in UUID : e.storage[u] = NoRow <=> d.storage[u] = NoRow,
         \A u \in UUID : d.storage[u] # NoRow =>
           /\ e.storage[u].feedData = d.storage[u].feedData /\ e.storage[u].imageData = d.storage[u].imageData
           /\ e.storage[u].image_state = d.storage[u].image_state
           /\ e.storage[u].feed_state \in {"M", "MS"} <=> d.storage[u].feed_state \in {"M", "MS"}
  PROVE  PoolInv(e)
<1>1. Keys(e.storage) = Keys(d.storage) /\ Cached(e) = Cached(d) /\ ImagesIn(e) = ImagesIn(d)
  BY DEF Keys, Cached, FeedsIn, ImagesIn
<1>2. /\ \A u \in Cached(d) : FeedSize(e)[u] = FeedSize(d)[u]
      /\ \A u \in ImagesIn(d) : ImageSize(e)[u] = ImageSize(d)[u]
  BY DEF Cached, FeedsIn, ImagesIn, Keys, FeedSize, ImageSize
<1>3. /\ Sum(FeedSize(e), Cached(d)) = Sum(FeedSize(d), Cached(d))
      /\ Sum(ImageSize(e), ImagesIn(d)) = Sum(ImageSize(d), ImagesIn(d))
  BY <1>2, CachedSizes, SumSame DEF PoolInv
<1>4. AllFilled(e)
  BY DEF PoolInv, AllFilled, Filled
<1>5. QED
  BY <1>1, <1>3, <1>4 DEF PoolInv, IsCounted

(* One entry is written over, and the space counted with it.               *)
LEMMA WrittenSpace ==
  ASSUME NEW d, PoolInv(d), NEW u \in UUID, NEW f \in MacroData, Filled(f),
         NEW e, WrittenOver(e, d, u, f), e.amountSize \in Int, e.amountSize <= LIMITSIZE,
         e.amountSize + FeedSpace(d.storage[u]) + ImageSpace(d.storage[u]) =
           d.amountSize + FeedSpace(f) + ImageSpace(f),
         d.storage[u] # NoRow \/ Cardinality(Keys(d.storage)) < LIMITKEY
  PROVE  PoolInv(e) /\ e.storage[u] = f /\ SameBut(e.storage, d.storage, u)
<1>1. /\ PoolRecord(d) /\ AllFilled(d) /\ IsCounted(d) /\ f # NoRow
      /\ Cardinality(Keys(d.storage)) <= LIMITKEY
  BY EntryType DEF PoolInv
<1>2. e.storage \in Storage /\ e.storage[u] = f /\ \A v \in UUID \ {u} : e.storage[v] = d.storage[v]
  BY <1>1 DEF WrittenOver, PoolRecord, Storage
<1>3. PoolRecord(e) /\ AllFilled(e)
  BY <1>1, <1>2 DEF WrittenOver, PoolRecord, AllFilled
<1>4. /\ Cached(e) \ {u} = Cached(d) \ {u} /\ ImagesIn(e) \ {u} = ImagesIn(d) \ {u}
      /\ \A x \in Cached(d) \ {u}   : FeedSize(d)[x] = FeedSize(e)[x]
      /\ \A x \in ImagesIn(d) \ {u} : ImageSize(d)[x] = ImageSize(e)[x]
  BY <1>2 DEF Cached, FeedsIn, ImagesIn, Keys, FeedSize, ImageSize
<1>5. Sum(FeedSize(e), Cached(e)) + FeedSpace(d.storage[u]) = Sum(FeedSize(d), Cached(d)) + FeedSpace(f)
  <2>1. Sum(FeedSize(e), Cached(e)) + (IF u \in Cached(d) THEN FeedSize(d)[u] ELSE 0) =
          Sum(FeedSize(d), Cached(d)) + (IF u \in Cached(e) THEN FeedSize(e)[u] ELSE 0)
    BY <1>1, <1>3, <1>4, CachedSizes, SumChanged
  <2>2. /\ FeedSpace(d.storage[u]) = IF u \in Cached(d) THEN FeedSize(d)[u] ELSE 0
        /\ FeedSpace(f) = IF u \in Cached(e) THEN FeedSize(e)[u] ELSE 0
    BY <1>1, <1>2, <1>3, CachedSizes
  <2>3. QED
    BY <2>1, <2>2
<1>6. Sum(ImageSize(e), ImagesIn(e)) + ImageSpace(d.storage[u]) = Sum(ImageSize(d), ImagesIn(d)) + ImageSpace(f)
  <2>1. Sum(ImageSize(e), ImagesIn(e)) + (IF u \in ImagesIn(d) THEN ImageSize(d)[u] ELSE 0) =
          Sum(ImageSize(d), ImagesIn(d)) + (IF u \in ImagesIn(e) THEN ImageSize(e)[u] ELSE 0)
    BY <1>1, <1>3, <1>4, CachedSizes, SumChanged
  <2>2. /\ ImageSpace(d.storage[u]) = IF u \in ImagesIn(d) THEN ImageSize(d)[u] ELSE 0
        /\ ImageSpace(f) = IF u \in ImagesIn(e) THEN ImageSize(e)[u] ELSE 0
    BY <1>1, <1>2, <1>3, CachedSizes
  <2>3. QED
    BY <2>1, <2>2
<1>7. IsCounted(e)
  <2>1. /\ d.amountSize \in Nat
        /\ FeedSpace(d.storage[u]) \in Nat /\ ImageSpace(d.storage[u]) \in Nat
        /\ Sum(FeedSize(d), Cached(d)) \in Nat /\ Sum(ImageSize(d), ImagesIn(d)) \in Nat
    BY SpaceTypes
  <2>2. Sum(FeedSize(e), Cached(e)) \in Nat /\ Sum(ImageSize(e), ImagesIn(e)) \in Nat
    BY <1>3, CachedSizes, SumType
  <2>3. FeedSpace(f) \in Nat /\ ImageSpace(f) \in Nat
    BY <1>2, <1>3, CachedSizes
  <2>4. d.amountSize = Sum(FeedSize(d), Cached(d)) + Sum(ImageSize(d), ImagesIn(d))
    BY <1>1 DEF IsCounted
  <2>5. e.amountSize = Sum(FeedSize(e), Cached(e)) + Sum(ImageSize(e), ImagesIn(e))
    BY <1>5, <1>6, <2>1, <2>2, <2>3, <2>4
  <2>6. QED
    BY <2>5 DEF IsCounted
<1>8. Cardinality(Keys(e.storage)) <= LIMITKEY
  <2>1. Keys(e.storage) = Keys(d.storage) \cup {u}
    BY <1>1, <1>2 DEF Keys
  <2>2. IsFiniteSet(Keys(d.storage)) /\ Cardinality(Keys(d.storage)) \in Nat
    BY UUIDAssumption, FS_Subset, FS_CardinalityType DEF Keys
  <2>3. CASE u \in Keys(d.storage)
    <3>1. Keys(e.storage) = Keys(d.storage)
      BY <2>1, <2>3
    <3>2. QED
      BY <1>1, <3>1
  <2>4. CASE u \notin Keys(d.storage)
    <3>1. Cardinality(Keys(e.storage)) = Cardinality(Keys(d.storage)) + 1
      BY <2>1, <2>2, <2>4, FS_AddElement
    <3>2. Cardinality(Keys(d.storage)) < LIMITKEY
      BY <2>4 DEF Keys
    <3>3. QED
      BY <2>2, <3>1, <3>2, DataAssumption
  <2>5. QED
    BY <2>3, <2>4
<1>9. QED
  BY <1>2, <1>3, <1>7, <1>8 DEF PoolInv, SameBut

(* e is d without the images of P and the feeds of Q.                      *)
Lightened(d, e, P, Q) ==
  /\ PoolInv(e) /\ e.amountSize <= d.amountSize
  /\ Cached(e) = Cached(d) \ Q /\ ImagesIn(e) = ImagesIn(d) \ P
  /\ \A u \in UUID : e.storage[u] = NoRow <=> d.storage[u] = NoRow

(* What is evicted is no longer counted.                                   *)
LEMMA EvictedSpace ==
  ASSUME NEW d, PoolInv(d), NEW P \in SUBSET ImagesIn(d), NEW Q \in SUBSET Cached(d),
         NEW e, e = Evicted(d, P, Q)
  PROVE  Lightened(d, e, P, Q)
<1>1. PoolRecord(d) /\ AllFilled(d) /\ IsCounted(d) /\ Q \in SUBSET FeedsIn(d, {"M", "MS"})
  BY DEF PoolInv, Cached
<1>2. /\ PoolRecord(e)
      /\ \A u \in UUID : e.storage[u] = NoRow <=> d.storage[u] = NoRow
  BY <1>1, EvictedRecord
<1>3. \A u \in UUID : d.storage[u] # NoRow =>
        /\ u \in P    => e.storage[u].image_state = "I"
        /\ u \notin P => /\ e.storage[u].image_state = d.storage[u].image_state
                         /\ e.storage[u].imageData = d.storage[u].imageData
        /\ u \in Q    => e.storage[u].feed_state = "I"
        /\ u \notin Q => /\ e.storage[u].feed_state = d.storage[u].feed_state
                         /\ e.storage[u].feedData = d.storage[u].feedData
  BY <1>1, EvictedEntry
<1>4. Cached(e) = Cached(d) \ Q /\ ImagesIn(e) = ImagesIn(d) \ P
  BY <1>2, <1>3 DEF Cached, FeedsIn, ImagesIn, Keys
<1>5. AllFilled(e)
  BY <1>1, <1>2, <1>3 DEF AllFilled, Filled
<1>6. Keys(e.storage) = Keys(d.storage)
  BY <1>2 DEF Keys
<1>7. e.amountSize = d.amountSize - Sum(ImageSize(d), P) - Sum(FeedSize(d), Q)
  <2>1. ImageBytes(d, P) = Sum(ImageSize(d), P) /\ FeedBytes(d, Q) = Sum(FeedSize(d), Q)
    BY <1>1, CachedSizes, FeedBytesSum, ImageBytesSum
  <2>2. e.amountSize = d.amountSize - ImageBytes(d, P) - FeedBytes(d, Q)
    BY <1>1 DEF Evicted, PoolRecord
  <2>3. QED
    BY <2>1, <2>2
<1>8. /\ Sum(FeedSize(d), Cached(d)) = Sum(FeedSize(d), Q) + Sum(FeedSize(d), Cached(d) \ Q)
      /\ Sum(ImageSize(d), ImagesIn(d)) = Sum(ImageSize(d), P) + Sum(ImageSize(d), ImagesIn(d) \ P)
  BY <1>1, CachedSizes, SumSplit
<1>9. /\ Sum(FeedSize(e), Cached(d) \ Q) = Sum(FeedSize(d), Cached(d) \ Q)
      /\ Sum(ImageSize(e), ImagesIn(d) \ P) = Sum(ImageSize(d), ImagesIn(d) \ P)
  <2>1. \A u \in Cached(d) \ Q : FeedSize(e)[u] = FeedSize(d)[u]
    BY <1>3 DEF Cached, FeedsIn, Keys, FeedSize
  <2>2. \A u \in ImagesIn(d) \ P : ImageSize(e)[u] = ImageSize(d)[u]
    BY <1>3 DEF ImagesIn, Keys, ImageSize
  <2>3. QED
    BY <1>1, <2>1, <2>2, CachedSizes, SumSame
<1>10. /\ d.amountSize \in Nat /\ Sum(FeedSize(d), Q) \in Nat /\ Sum(ImageSize(d), P) \in Nat
       /\ Sum(FeedSize(d), Cached(d) \ Q) \in Nat /\ Sum(ImageSize(d), ImagesIn(d) \ P) \in Nat
  BY SpaceTypes
<1>11. IsCounted(e) /\ e.amountSize <= d.amountSize
  <2>1. d.amountSize = Sum(FeedSize(d), Cached(d)) + Sum(ImageSize(d), ImagesIn(d))
    BY <1>1 DEF IsCounted
  <2>2. e.amountSize = Sum(FeedSize(d), Cached(d) \ Q) + Sum(ImageSize(d), ImagesIn(d) \ P)
    BY <1>7, <1>8, <1>10, <2>1
  <2>3. QED
    BY <1>4, <1>7, <1>9, <1>10, <2>2 DEF IsCounted
<1>12. e.amountSize <= LIMITSIZE
  BY <1>7, <1>10, <1>11, DataAssumption DEF PoolInv
<1>13. PoolInv(e)
  BY <1>2, <1>5, <1>6, <1>11, <1>12 DEF PoolInv
<1>14. QED
  BY <1>2, <1>4, <1>11, <1>13 DEF Lightened

-----------------------------------------------------------------------------
(* The methods of the data pool                                            *)

(* evictFeedMtoI: the feed of u is neither cached nor counted any more.    *)
LEMMA FeedEvictedSpace ==
  ASSUME NEW d, PoolInv(d), NEW u \in UUID, NEW e, e = EvictFeedMtoI(d, u)
  PROVE  /\ PoolInv(e) /\ e.amountSize <= d.amountSize
         /\ u \notin Cached(e) /\ ImagesIn(e) = ImagesIn(d)
         /\ \A v \in UUID : e.storage[v] = NoRow <=> d.storage[v] = NoRow
<1> DEFINE P == {}  Q == {u} \cap Cached(d)
<1>1. P \in SUBSET ImagesIn(d) /\ Q \in SUBSET Cached(d) /\ e = Evicted(d, P, Q)
  BY DEF EvictFeedMtoI, Cached
<1>2. u \notin Cached(d) \ Q /\ ImagesIn(d) \ P = ImagesIn(d)
  OBVIOUS
<1> HIDE DEF P, Q
<1>3. Lightened(d, e, P, Q)
  BY <1>1, EvictedSpace
<1>4. QED
  BY <1>2, <1>3 DEF Lightened

(* evictImageMtoI: nor is its image.                                       *)
LEMMA ImageEvictedSpace ==
  ASSUME NEW d, PoolInv(d), NEW u \in UUID, NEW e, e = EvictImageMtoI(d, u)
  PROVE  /\ PoolInv(e) /\ e.amountSize <= d.amountSize
         /\ u \notin ImagesIn(e) /\ Cached(e) = Cached(d)
         /\ \A v \in UUID : e.storage[v] = NoRow <=> d.storage[v] = NoRow
<1> DEFINE P == {u} \cap ImagesIn(d)  Q == {}
<1>1. P \in SUBSET ImagesIn(d) /\ Q \in SUBSET Cached(d) /\ e = Evicted(d, P, Q)
  BY DEF EvictImageMtoI
<1>2. u \notin ImagesIn(d) \ P /\ Cached(d) \ Q = Cached(d)
  OBVIOUS
<1> HIDE DEF P, Q
<1>3. Lightened(d, e, P, Q)
  BY <1>1, EvictedSpace
<1>4. QED
  BY <1>2, <1>3 DEF Lightened

(* evictForFeed, whichever images and feeds it comes upon first.           *)
LEMMA EvictForFeedSpace ==
  ASSUME NEW d, PoolInv(d), NEW space, NEW e \in EvictForFeed(d, space)
  PROVE  /\ PoolInv(e) /\ Cached(e) \subseteq Cached(d)
         /\ \A v \in UUID : e.storage[v] = NoRow <=> d.storage[v] = NoRow
<1>1. PICK P \in SUBSET ImagesIn(d), Q \in SUBSET FeedsIn(d, {"MS"}) : e = Evicted(d, P, Q)
  BY DEF EvictForFeed
<1>2. Q \in SUBSET Cached(d)
  BY DEF FeedsIn, Cached
<1>3. Lightened(d, e, P, Q)
  BY <1>1, <1>2, EvictedSpace
<1>4. QED
  BY <1>3 DEF Lightened

(* What the pool says of one entry.                                        *)
LEMMA EntryNow ==
  ASSUME NEW d, PoolInv(d), NEW u \in UUID, d.storage[u] # NoRow
  PROVE  /\ d.storage[u] \in MacroData /\ Filled(d.storage[u])
         /\ u \in Cached(d)   <=> d.storage[u].feed_state \in {"M", "MS"}
         /\ u \in ImagesIn(d) <=> d.storage[u].image_state = "M"
         /\ d.amountSize \in Nat /\ d.amountSize <= LIMITSIZE
         /\ FeedSpace(d.storage[u]) \in Nat /\ ImageSpace(d.storage[u]) \in Nat
<1>1. PoolRecord(d) /\ AllFilled(d)
  BY DEF PoolInv
<1>2. d.storage[u] \in MacroData /\ Filled(d.storage[u])
  BY <1>1 DEF PoolRecord, Storage, AllFilled
<1>3. /\ u \in Cached(d)   <=> d.storage[u].feed_state \in {"M", "MS"}
      /\ u \in ImagesIn(d) <=> d.storage[u].image_state = "M"
  BY DEF Cached, FeedsIn, ImagesIn, Keys
<1>4. QED
  BY <1>2, <1>3, SpaceTypes DEF PoolInv

(* A feed that does not fit is not counted, and one that does is.          *)
LEMMA StoreFeedSpace ==
  ASSUME NEW d, PoolInv(d), NEW u \in UUID, d.storage[u] # NoRow, u \notin Cached(d),
         NEW feed \in Feeds, NEW e, e = StoreFeed(d, u, feed)
  PROVE  PoolInv(e) /\ \A v \in UUID : e.storage[v] = NoRow <=> d.storage[v] = NoRow
<1> DEFINE old == d.storage[u]
           f1  == [old EXCEPT !.feed_state = "M", !.feedData = feed]
           f2  == [old EXCEPT !.feed_state = "I"]
<1>1. /\ old \in MacroData /\ Filled(old) /\ old.feed_state \notin {"M", "MS"}
      /\ d.amountSize \in Nat /\ d.amountSize <= LIMITSIZE
      /\ FeedSpace(old) = 0 /\ ImageSpace(old) \in Nat /\ PoolRecord(d)
  BY EntryNow DEF PoolInv, FeedSpace
<1>2. Size[feed] \in Nat
  BY DataAssumption
<1>3. CASE Fits(d, Size[feed])
  <2>1. /\ WrittenOver(e, d, u, f1) /\ e.amountSize = d.amountSize + Size[feed]
        /\ d.amountSize + Size[feed] <= LIMITSIZE
    BY <1>1, <1>3 DEF StoreFeed, PoolRecord, Storage, WrittenOver, Fits
  <2>2. f1 \in MacroData /\ Filled(f1) /\ FeedSpace(f1) = Size[feed] /\ ImageSpace(f1) = ImageSpace(old)
    <3>1. /\ f1 \in MacroData /\ f1.feed_state = "M" /\ f1.feedData = feed
          /\ f1.image_state = old.image_state /\ f1.imageData = old.imageData
      <4> HIDE DEF old
      <4>1. QED
        BY <1>1 DEF MacroData, COH_STATE
    <3> HIDE DEF f1
    <3>2. f1 # NoRow /\ old # NoRow
      BY <1>1, <3>1, EntryType
    <3>3. QED
      BY <1>1, <3>1, <3>2 DEF Filled, FeedSpace, ImageSpace
  <2> HIDE DEF f1
  <2>3. PoolInv(e) /\ e.storage[u] = f1 /\ SameBut(e.storage, d.storage, u)
    <3>1. e.amountSize \in Int /\ e.amountSize <= LIMITSIZE
          /\ e.amountSize + FeedSpace(old) + ImageSpace(old) = d.amountSize + FeedSpace(f1) + ImageSpace(f1)
      <4> HIDE DEF old
      <4>1. QED
        BY <1>1, <1>2, <2>1, <2>2
    <3>2. QED
      BY <2>1, <2>2, <3>1, WrittenSpace
  <2>4. QED
    BY <2>2, <2>3, EntryType DEF SameBut
<1>4. CASE ~Fits(d, Size[feed])
  <2>1. WrittenOver(e, d, u, f2) /\ e.amountSize = d.amountSize
    BY <1>1, <1>4 DEF StoreFeed, PoolRecord, Storage, WrittenOver
  <2>2. f2 \in MacroData /\ Filled(f2) /\ FeedSpace(f2) = 0 /\ ImageSpace(f2) = ImageSpace(old)
    <3>1. /\ f2 \in MacroData /\ f2.feed_state = "I"
          /\ f2.image_state = old.image_state /\ f2.imageData = old.imageData
      <4> HIDE DEF old
      <4>1. QED
        BY <1>1 DEF MacroData, COH_STATE
    <3> HIDE DEF f2
    <3>2. f2 # NoRow /\ old # NoRow
      BY <1>1, <3>1, EntryType
    <3>3. QED
      BY <1>1, <3>1, <3>2 DEF Filled, FeedSpace, ImageSpace
  <2> HIDE DEF f2
  <2>3. PoolInv(e) /\ e.storage[u] = f2 /\ SameBut(e.storage, d.storage, u)
    <3>1. e.amountSize \in Int /\ e.amountSize <= LIMITSIZE
          /\ e.amountSize + FeedSpace(old) + ImageSpace(old) = d.amountSize + FeedSpace(f2) + ImageSpace(f2)
      <4> HIDE DEF old
      <4>1. QED
        BY <1>1, <2>1, <2>2
    <3>2. QED
      BY <2>1, <2>2, <3>1, WrittenSpace
  <2>4. QED
    BY <2>2, <2>3, EntryType DEF SameBut
<1>5. QED
  BY <1>3, <1>4

(* A feed takes the place of the uuid's old one, and an entry of its own   *)
(* if the pool may have one more.                                          *)
LEMMA AddFeedSpace ==
  ASSUME NEW d, PoolInv(d), NEW u \in UUID, NEW feed \in Feeds, NEW onDisk \in BOOLEAN,
         NEW e \in AddFeed(d, u, feed, onDisk)
  PROVE  PoolInv(e)
<1>1. CASE ~IsIdExist(d, u) /\ Cardinality(Keys(d.storage)) >= LIMITKEY
  <2>1. e = [d EXCEPT !.consistent = FALSE]
    BY <1>1 DEF AddFeed
  <2>2. PoolRecord(e) /\ e.storage = d.storage /\ e.amountSize = d.amountSize
    BY <2>1 DEF PoolInv, PoolRecord
  <2>3. QED
    BY <2>2, SameSpace
<1>2. CASE ~(~IsIdExist(d, u) /\ Cardinality(Keys(d.storage)) >= LIMITKEY)
  <2> DEFINE macro == IF IsIdExist(d, u) THEN d.storage[u] ELSE NewMacroData(onDisk)
             f     == [macro EXCEPT !.isDelete = FALSE]
             entry == [d EXCEPT !.storage[u] = f]
             own   == EvictFeedMtoI(entry, u)
  <2>1. PICK g \in EvictForFeed(own, Size[feed]) : e = StoreFeed(g, u, feed)
    BY <1>2 DEF AddFeed
  <2>2. /\ macro \in MacroData /\ Filled(macro)
        /\ FeedSpace(macro) = FeedSpace(d.storage[u]) /\ ImageSpace(macro) = ImageSpace(d.storage[u])
    <3>1. CASE IsIdExist(d, u)
      BY <3>1, EntryNow DEF IsIdExist
    <3>2. CASE ~IsIdExist(d, u)
      <4>1. /\ macro \in MacroData /\ macro.feed_state = "I" /\ macro.image_state # "M"
        BY <3>2 DEF NewMacroData, MacroData, COH_STATE
      <4>2. d.storage[u] = NoRow
        BY <3>2 DEF IsIdExist
      <4> HIDE DEF macro
      <4>3. QED
        BY <4>1, <4>2 DEF Filled, FeedSpace, ImageSpace
    <3>3. QED
      BY <3>1, <3>2
  <2>3. /\ f \in MacroData /\ Filled(f)
        /\ FeedSpace(f) = FeedSpace(d.storage[u]) /\ ImageSpace(f) = ImageSpace(d.storage[u])
    <3> HIDE DEF macro
    <3>1. /\ f \in MacroData /\ f.feed_state = macro.feed_state /\ f.feedData = macro.feedData
          /\ f.image_state = macro.image_state /\ f.imageData = macro.imageData
      BY <2>2 DEF MacroData
    <3> HIDE DEF f
    <3>2. f # NoRow /\ macro # NoRow
      BY <2>2, <3>1, EntryType
    <3>3. QED
      BY <2>2, <3>1, <3>2 DEF Filled, FeedSpace, ImageSpace
  <2> HIDE DEF f, macro
  <2>4. WrittenOver(entry, d, u, f) /\ entry.amountSize = d.amountSize
    BY DEF PoolInv, PoolRecord, Storage, WrittenOver
  <2> HIDE DEF entry, own
  <2>5. PoolInv(entry) /\ entry.storage[u] # NoRow
    <3>1. d.storage[u] # NoRow \/ Cardinality(Keys(d.storage)) < LIMITKEY
      <4>1. Cardinality(Keys(d.storage)) \in Nat
        BY UUIDAssumption, FS_Subset, FS_CardinalityType DEF Keys
      <4>2. QED
        BY <1>2, <4>1, DataAssumption DEF IsIdExist
    <3>2. d.amountSize \in Nat /\ d.amountSize <= LIMITSIZE
      BY SpaceTypes DEF PoolInv
    <3>3. PoolInv(entry) /\ entry.storage[u] = f
      <4>1. entry.amountSize \in Int /\ entry.amountSize <= LIMITSIZE
        BY <2>4, <3>2
      <4>2. entry.amountSize + FeedSpace(d.storage[u]) + ImageSpace(d.storage[u]) =
              d.amountSize + FeedSpace(f) + ImageSpace(f)
        BY <2>3, <2>4
      <4>3. QED
        BY <2>3, <2>4, <3>1, <4>1, <4>2, WrittenSpace
    <3>4. QED
      BY <2>3, <3>3, EntryType
  <2>6. PoolInv(own) /\ u \notin Cached(own) /\ own.storage[u] # NoRow
    BY <2>5, FeedEvictedSpace DEF own
  <2>7. PoolInv(g) /\ u \notin Cached(g) /\ g.storage[u] # NoRow
    BY <2>1, <2>6, EvictForFeedSpace
  <2>8. QED
    BY <2>1, <2>7, StoreFeedSpace
<1>3. QED
  BY <1>1, <1>2

(* addData for an image: the old one is evicted, the new one counted if it *)
(* fits.                                                                   *)
LEMMA AddImageSpace ==
  ASSUME NEW d, PoolInv(d), NEW u \in UUID, d.storage[u] # NoRow, NEW image \in Images,
         NEW e, e = AddImage(d, u, image)
  PROVE  PoolInv(e)
<1> DEFINE own == EvictImageMtoI(d, u)
           old == own.storage[u]
           f1  == [old EXCEPT !.image_state = "M", !.imageData = image]
           f2  == [old EXCEPT !.image_state = "I"]
<1>1. PoolInv(own) /\ u \notin ImagesIn(own) /\ old # NoRow
  BY ImageEvictedSpace
<1>2. e = IF Fits(own, Size[image])
          THEN [own EXCEPT !.storage[u].image_state = "M", !.storage[u].imageData = image,
                           !.amountSize = @ + Size[image]]
          ELSE [own EXCEPT !.storage[u].image_state = "I"]
  BY DEF AddImage
<1> HIDE DEF own
<1>3. /\ old \in MacroData /\ Filled(old) /\ old.image_state # "M"
      /\ own.amountSize \in Nat /\ own.amountSize <= LIMITSIZE
      /\ FeedSpace(old) \in Nat /\ ImageSpace(old) = 0 /\ PoolRecord(own)
  BY <1>1, EntryNow DEF PoolInv, ImageSpace
<1>4. Size[image] \in Nat
  BY DataAssumption
<1>5. CASE Fits(own, Size[image])
  <2>1. /\ WrittenOver(e, own, u, f1) /\ e.amountSize = own.amountSize + Size[image]
        /\ own.amountSize + Size[image] <= LIMITSIZE
    <3> DEFINE s == [own.storage EXCEPT ![u] = f1]
               n == own.amountSize + Size[image]
    <3>1. e = [own EXCEPT !.storage = s, !.amountSize = n]
      <4>1. e = [own EXCEPT !.storage[u].image_state = "M", !.storage[u].imageData = image,
                            !.amountSize = n]
        BY <1>2, <1>5
      <4>2. own.storage \in Storage /\ DOMAIN own = {"storage", "consistent", "amountSize"}
        BY <1>3 DEF PoolRecord
      <4> HIDE DEF n
      <4>3. QED
        BY <4>1, <4>2 DEF Storage
    <3> HIDE DEF s, n
    <3>2. /\ DOMAIN e = DOMAIN own /\ e.consistent = own.consistent /\ e = [x \in DOMAIN e |-> e[x]]
          /\ e.storage = s /\ e.amountSize = n
      BY <1>3, <3>1 DEF PoolRecord
    <3>3. QED
      BY <1>5, <3>2 DEF WrittenOver, Fits, s, n
  <2>2. f1 \in MacroData /\ Filled(f1) /\ ImageSpace(f1) = Size[image] /\ FeedSpace(f1) = FeedSpace(old)
    <3>1. /\ f1 \in MacroData /\ f1.image_state = "M" /\ f1.imageData = image
          /\ f1.feed_state = old.feed_state /\ f1.feedData = old.feedData
      <4> HIDE DEF old
      <4>1. QED
        BY <1>3 DEF MacroData, COH_STATE
    <3> HIDE DEF f1
    <3>2. f1 # NoRow
      BY <3>1, EntryType
    <3>3. QED
      BY <1>1, <1>3, <3>1, <3>2 DEF Filled, FeedSpace, ImageSpace
  <2> HIDE DEF f1
  <2>3. e.amountSize \in Int /\ e.amountSize <= LIMITSIZE
        /\ e.amountSize + FeedSpace(old) + ImageSpace(old) = own.amountSize + FeedSpace(f1) + ImageSpace(f1)
    <3> HIDE DEF old
    <3>1. QED
      BY <1>3, <1>4, <2>1, <2>2
  <2>4. QED
    BY <1>1, <2>1, <2>2, <2>3, WrittenSpace
<1>6. CASE ~Fits(own, Size[image])
  <2>1. WrittenOver(e, own, u, f2) /\ e.amountSize = own.amountSize
    BY <1>2, <1>3, <1>6 DEF PoolRecord, Storage, WrittenOver
  <2>2. f2 \in MacroData /\ Filled(f2) /\ ImageSpace(f2) = 0 /\ FeedSpace(f2) = FeedSpace(old)
    <3>1. /\ f2 \in MacroData /\ f2.image_state = "I"
          /\ f2.feed_state = old.feed_state /\ f2.feedData = old.feedData
      <4> HIDE DEF old
      <4>1. QED
        BY <1>3 DEF MacroData, COH_STATE
    <3> HIDE DEF f2
    <3>2. f2 # NoRow
      BY <3>1, EntryType
    <3>3. QED
      BY <1>1, <1>3, <3>1, <3>2 DEF Filled, FeedSpace, ImageSpace
  <2> HIDE DEF f2
  <2>3. e.amountSize \in Int /\ e.amountSize <= LIMITSIZE
        /\ e.amountSize + FeedSpace(old) + ImageSpace(old) = own.amountSize + FeedSpace(f2) + ImageSpace(f2)
    <3> HIDE DEF old
    <3>1. QED
      BY <1>3, <2>1, <2>2
  <2>4. QED
    BY <1>1, <2>1, <2>2, <2>3, WrittenSpace
<1>7. QED
  BY <1>5, <1>6

(* deleteImage: the image is evicted before the entry forgets it.          *)
LEMMA DeleteImageSpace ==
  ASSUME NEW d, PoolInv(d), NEW u \in UUID, d.storage[u] # NoRow, NEW e, e = DeleteImage(d, u)
  PROVE  PoolInv(e)
<1> DEFINE own == EvictImageMtoI(d, u)
           old == own.storage[u]
           f   == [old EXCEPT !.image_state = "U"]
<1>1. PoolInv(own) /\ u \notin ImagesIn(own) /\ old # NoRow
  BY ImageEvictedSpace
<1>2. e = [own EXCEPT !.storage[u].image_state = "U"]
  BY DEF DeleteImage
<1> HIDE DEF own
<1>3. /\ old \in MacroData /\ Filled(old) /\ old.image_state # "M"
      /\ own.amountSize \in Nat /\ own.amountSize <= LIMITSIZE
      /\ FeedSpace(old) \in Nat /\ ImageSpace(old) = 0 /\ PoolRecord(own)
  BY <1>1, EntryNow DEF PoolInv, ImageSpace
<1>4. WrittenOver(e, own, u, f) /\ e.amountSize = own.amountSize
  BY <1>2, <1>3 DEF PoolRecord, Storage, WrittenOver
<1>5. f \in MacroData /\ Filled(f) /\ ImageSpace(f) = 0 /\ FeedSpace(f) = FeedSpace(old)
  <2>1. /\ f \in MacroData /\ f.image_state = "U"
        /\ f.feed_state = old.feed_state /\ f.feedData = old.feedData
    <3> HIDE DEF old
    <3>1. QED
      BY <1>3 DEF MacroData, COH_STATE
  <2> HIDE DEF f
  <2>2. f # NoRow
    BY <2>1, EntryType
  <2>3. QED
    BY <1>1, <1>3, <2>1, <2>2 DEF Filled, FeedSpace, ImageSpace
<1> HIDE DEF f
<1>6. e.amountSize \in Int /\ e.amountSize <= LIMITSIZE
      /\ e.amountSize + FeedSpace(old) + ImageSpace(old) = own.amountSize + FeedSpace(f) + ImageSpace(f)
  <2> HIDE DEF old
  <2>1. QED
    BY <1>3, <1>4, <1>5
<1>7. QED
  BY <1>1, <1>4, <1>5, <1>6, WrittenSpace

(* deleteData: feed and image are.                                         *)
LEMMA DeleteDataSpace ==
  ASSUME NEW d, PoolInv(d), NEW u \in UUID, d.storage[u] # NoRow, NEW e, e = DeleteData(d, u)
  PROVE  PoolInv(e)
<1> DEFINE fed == EvictFeedMtoI(d, u)
           own == EvictImageMtoI(fed, u)
           old == own.storage[u]
           f   == [old EXCEPT !.feed_state = "U", !.image_state = "U", !.isDelete = TRUE]
<1>1. PoolInv(fed) /\ u \notin Cached(fed) /\ fed.storage[u] # NoRow
  BY FeedEvictedSpace
<1>2. e = [own EXCEPT !.storage[u].feed_state = "U", !.storage[u].image_state = "U",
                      !.storage[u].isDelete = TRUE]
  BY DEF DeleteData
<1> HIDE DEF fed
<1>3. PoolInv(own) /\ u \notin ImagesIn(own) /\ u \notin Cached(own) /\ old # NoRow
  BY <1>1, ImageEvictedSpace
<1> HIDE DEF own
<1>4. /\ old \in MacroData /\ old.image_state # "M" /\ old.feed_state \notin {"M", "MS"}
      /\ own.amountSize \in Nat /\ own.amountSize <= LIMITSIZE
      /\ FeedSpace(old) = 0 /\ ImageSpace(old) = 0 /\ PoolRecord(own)
  BY <1>3, EntryNow DEF PoolInv, FeedSpace, ImageSpace
<1>5. WrittenOver(e, own, u, f) /\ e.amountSize = own.amountSize
  <2> DEFINE s == [own.storage EXCEPT ![u] = f]
  <2>1. own.storage \in Storage /\ DOMAIN own = {"storage", "consistent", "amountSize"}
    BY <1>4 DEF PoolRecord
  <2>2. e = [own EXCEPT !.storage = s]
    <3> DEFINE f1 == [old EXCEPT !.feed_state = "U"]
               f2 == [f1 EXCEPT !.image_state = "U"]
               s1 == [own.storage EXCEPT ![u] = f1]
               s2 == [own.storage EXCEPT ![u] = f2]
               e1 == [own EXCEPT !.storage = s1]
               e2 == [own EXCEPT !.storage = s2]
    <3>1. e = [[[own EXCEPT !.storage[u].feed_state = "U"] EXCEPT !.storage[u].image_state = "U"]
                 EXCEPT !.storage[u].isDelete = TRUE]
      BY <1>2
    <3>2. [own EXCEPT !.storage[u].feed_state = "U"] = e1
      BY <2>1
    <3>3. e1.storage[u] = f1 /\ [e1 EXCEPT !.storage[u].image_state = "U"] = e2
      BY <2>1 DEF Storage
    <3>4. e2.storage[u] = f2 /\ [e2 EXCEPT !.storage[u].isDelete = TRUE] = [own EXCEPT !.storage = s]
      BY <2>1 DEF Storage
    <3> HIDE DEF e1, e2, s
    <3>5. QED
      BY <3>1, <3>2, <3>3, <3>4
  <2> HIDE DEF s
  <2>3. /\ DOMAIN e = DOMAIN own /\ e.consistent = own.consistent /\ e = [x \in DOMAIN e |-> e[x]]
        /\ e.storage = s /\ e.amountSize = own.amountSize
    BY <2>1, <2>2
  <2>4. QED
    BY <2>3 DEF WrittenOver, s
<1>6. f \in MacroData /\ Filled(f) /\ ImageSpace(f) = 0 /\ FeedSpace(f) = 0
  <2>1. f \in MacroData /\ f.image_state = "U" /\ f.feed_state = "U"
    <3> HIDE DEF old
    <3>1. QED
      BY <1>4 DEF MacroData, COH_STATE
  <2> HIDE DEF f
  <2>2. QED
    BY <2>1 DEF Filled, FeedSpace, ImageSpace
<1> HIDE DEF f
<1>7. e.amountSize \in Int /\ e.amountSize <= LIMITSIZE
      /\ e.amountSize + FeedSpace(old) + ImageSpace(old) = own.amountSize + FeedSpace(f) + ImageSpace(f)
  <2> HIDE DEF old
  <2>1. QED
    BY <1>4, <1>5, <1>6
<1>8. QED
  BY <1>3, <1>5, <1>6, <1>7, WrittenSpace

(* After a recruit: images go, and a feed that was sent still counts.      *)
LEMMA NotifySpace ==
  ASSUME NEW d, PoolInv(d), NEW fed, NEW S, NEW e, e = NotifyToFree(d, fed, S)
  PROVE  PoolInv(e)
<1> DEFINE P == S \cap ImagesIn(d)
           Q == {}
           m == Evicted(d, P, {})
           sent == fed \cap FeedsIn(d, {"M"})
<1>1. P \in SUBSET ImagesIn(d) /\ Q \in SUBSET Cached(d) /\ m = Evicted(d, P, Q) /\ Cached(d) \ Q = Cached(d)
  OBVIOUS
<1>2. e = [m EXCEPT !.storage = [u \in UUID |->
             IF u \in sent THEN [m.storage[u] EXCEPT !.feed_state = "MS"] ELSE m.storage[u]]]
  BY DEF NotifyToFree
<1> HIDE DEF m, P, Q
<1>3. /\ PoolInv(m) /\ Cached(m) = Cached(d)
      /\ \A u \in UUID : m.storage[u] = NoRow <=> d.storage[u] = NoRow
  <2>1. Lightened(d, m, P, Q)
    BY <1>1, EvictedSpace
  <2>2. QED
    BY <1>1, <2>1 DEF Lightened
<1>4. \A u \in sent : u \in Cached(m) /\ m.storage[u] # NoRow
  BY <1>3 DEF Cached, FeedsIn, Keys
<1> HIDE DEF sent
<1>5. PoolRecord(m) /\ e.amountSize = m.amountSize
      /\ e.storage = [u \in UUID |->
             IF u \in sent THEN [m.storage[u] EXCEPT !.feed_state = "MS"] ELSE m.storage[u]]
  BY <1>2, <1>3 DEF PoolInv, PoolRecord
<1>6. ASSUME NEW u \in UUID, m.storage[u] # NoRow
      PROVE  /\ e.storage[u] \in MacroData
             /\ e.storage[u].feedData = m.storage[u].feedData /\ e.storage[u].imageData = m.storage[u].imageData
             /\ e.storage[u].image_state = m.storage[u].image_state
             /\ e.storage[u].feed_state \in {"M", "MS"} <=> m.storage[u].feed_state \in {"M", "MS"}
  <2> DEFINE old == m.storage[u]
  <2>1. old \in MacroData
    BY <1>3, <1>6, EntryNow
  <2>2. CASE u \in sent
    <3>1. old.feed_state \in {"M", "MS"}
      BY <1>3, <1>4, <2>2, EntryNow
    <3>2. e.storage[u] = [old EXCEPT !.feed_state = "MS"]
      BY <1>5, <2>2
    <3> HIDE DEF old
    <3>3. QED
      BY <2>1, <3>1, <3>2 DEF MacroData, COH_STATE, old
  <2>3. CASE u \notin sent
    BY <1>5, <2>1, <2>3
  <2>4. QED
    BY <2>2, <2>3
<1>7. \A u \in UUID : m.storage[u] = NoRow => e.storage[u] = NoRow
  BY <1>4, <1>5
<1>8. \A u \in UUID : e.storage[u] = NoRow <=> m.storage[u] = NoRow
  BY <1>6, <1>7, EntryType
<1>9. PoolRecord(e)
  <2>1. e.storage \in Storage
    <3>1. \A u \in UUID : e.storage[u] \in MacroData \cup {NoRow}
      BY <1>6, <1>7
    <3>2. QED
      BY <1>5, <3>1 DEF Storage
  <2>2. QED
    BY <1>2, <1>5, <2>1 DEF PoolRecord
<1>10. \A u \in UUID : m.storage[u] # NoRow =>
         /\ e.storage[u].feedData = m.storage[u].feedData /\ e.storage[u].imageData = m.storage[u].imageData
         /\ e.storage[u].image_state = m.storage[u].image_state
         /\ e.storage[u].feed_state \in {"M", "MS"} <=> m.storage[u].feed_state \in {"M", "MS"}
  BY <1>6
<1>11. PoolInv(m) /\ e.amountSize = m.amountSize
  BY <1>3, <1>5
<1>12. QED
  BY <1>8, <1>9, <1>10, <1>11, SameSpace

-----------------------------------------------------------------------------
(* The connection, the journal and the files keep their types              *)

(* What a flush leaves, also if its statement fails.                       *)
LEMMA FlushType ==
  ASSUME NEW d \in FeedConnection, NEW f \in Flush(d)
  PROVE  f \in FeedConnection
<1>1. Content(d) \in FeedMap /\ EmptyMap \in FeedMap
  BY ContentType DEF FeedMap, EmptyMap
<1>2. /\ [d EXCEPT !.pool = EmptyMap, !.table = Content(d)] \in FeedConnection
      /\ [d EXCEPT !.pool = EmptyMap] \in FeedConnection
  BY <1>1 DEF FeedConnection
<1>3. QED
  BY <1>2 DEF Flush

(* What a push of a row leaves.                                            *)
LEMMA PushType ==
  ASSUME feedDb \in FeedConnection, NEW u \in UUID, NEW feed \in Feeds \cup {NoData},
         NEW isDelete \in BOOLEAN, PushFeed(u, feed, isDelete)
  PROVE  feedDb' \in FeedConnection
<1> DEFINE r      == [feed |-> feed, isDelete |-> isDelete]
           pooled == [feedDb EXCEPT !.pool[u] = r]
<1>1. r \in FeedRow
  BY DEF FeedRow
<1>2. feedDb' \in Flush(pooled) \/ feedDb' = [pooled EXCEPT !.cleaner = TRUE]
  BY DEF PushFeed, PushDataToDb
<1> HIDE DEF r
<1>3. pooled \in FeedConnection /\ [pooled EXCEPT !.cleaner = TRUE] \in FeedConnection
  BY <1>1 DEF FeedConnection, FeedMap
<1> HIDE DEF pooled
<1>4. QED
  BY <1>2, <1>3, FlushType

(* What the cron thread leaves, when it ends.                              *)
LEMMA CronType ==
  ASSUME NEW d \in FeedConnection, NEW e \in CronJob(d)
  PROVE  e \in FeedConnection
<1>1. PICK f \in Flush(d) : e = [f EXCEPT !.cleaner = FALSE]
  BY DEF CronJob
<1>2. f \in FeedConnection
  BY FlushType
<1>3. QED
  BY <1>1, <1>2 DEF FeedConnection

(* What a read of the table leaves, which flushes the pool first.          *)
LEMMA ReadType ==
  ASSUME NEW d \in FeedConnection, NEW asked, NEW got \in GetDataFromDb(d, asked)
  PROVE  got.db \in FeedConnection
<1>1. PICK f \in Flush(d), P \in Reached(asked) : got = [db |-> f, result |-> Taken(f.table, asked, P)]
  BY DEF GetDataFromDb
<1>2. QED
  BY <1>1, FlushType

JournalInv == journal \in RowMap /\ durable \in RowMap /\ batch \in RowMap

(* Every handler's command leaves rows that a journal may hold.            *)
LEMMA UpdateType ==
  ASSUME JournalInv, NEW u \in UUID, NEW needFeed, NEW needImage, NEW needDelete, NEW needDeleteImage,
         [needFeed   |-> needFeed,   needImage       |-> needImage,
          needDelete |-> needDelete, needDeleteImage |-> needDeleteImage] \in Command,
         Update(u, needFeed, needImage, needDelete, needDeleteImage)
  PROVE  JournalInv'
<1> DEFINE c   == [needFeed   |-> needFeed,   needImage       |-> needImage,
                   needDelete |-> needDelete, needDeleteImage |-> needDeleteImage]
           old == IF journal[u] = NoRow THEN Blank ELSE journal[u]
           new == Summed(old, c)
<1>1. c \in Command /\ old \in ReqData
  BY DEF JournalInv, RowMap, Blank, ReqData, ReqRecord
<1>2. journal' = [journal EXCEPT ![u] = new] /\ durable' \in {durable, journal, journal'} /\ batch' = EmptyMap
  BY JournalVocabulary DEF Update, Jor!Absorb
<1> HIDE DEF c, old
<1>3. new \in ReqData
  BY <1>1 DEF Summed, ReqData, ReqRecord, Command, Blank
<1> HIDE DEF new
<1>4. journal' \in RowMap /\ batch' \in RowMap
  BY <1>2, <1>3 DEF JournalInv, RowMap, EmptyMap
<1>5. QED
  BY <1>2, <1>4 DEF JournalInv

(* Parts of a journal are journals.                                        *)
LEMMA HandOverType ==
  ASSUME JournalInv, Jor!HandOver
  PROVE  JournalInv'
<1>1. PICK S : /\ batch' = Only(journal, S) /\ journal' = Only(journal, UUID \ S)
               /\ durable' \in IF S = {} THEN {durable, journal} ELSE {journal'}
  BY JournalVocabulary DEF Jor!HandOver
<1>2. \A T : Only(journal, T) \in RowMap
  BY DEF JournalInv, RowMap, Only
<1>3. QED
  BY <1>1, <1>2 DEF JournalInv

-----------------------------------------------------------------------------
(* Every step keeps the space counted                                      *)

SpaceInv ==
  /\ PoolInv(dp)
  /\ feedDb \in FeedConnection /\ disk \in ImageMap
  /\ JournalInv
  /\ wedged \in BOOLEAN

(* A pool without entries takes no space.                                  *)
LEMMA StartedSpace ==
  ASSUME NEW table, NEW d \in Started(table)
  PROVE  PoolInv(d)
<1>1. PICK c \in {FALSE, \A u \in UUID : ~Live(table[u])} :
        d = [storage |-> EmptyMap, amountSize |-> 0, consistent |-> c]
  BY DEF Started
<1>2. c \in BOOLEAN
  OBVIOUS
<1>3. /\ d.amountSize = 0 /\ d.storage = EmptyMap
      /\ \A u \in UUID : d.storage[u] = NoRow
  BY <1>1 DEF EmptyMap
<1>4. PoolRecord(d)
  BY <1>1, <1>2 DEF PoolRecord, Storage, EmptyMap
<1>5. AllFilled(d)
  BY <1>3 DEF AllFilled
<1>6. Keys(d.storage) = {} /\ Cached(d) = {} /\ ImagesIn(d) = {}
  BY <1>3 DEF Keys, Cached, FeedsIn, ImagesIn
<1>7. Sum(FeedSize(d), {}) = 0 /\ Sum(ImageSize(d), {}) = 0
  BY SumEmpty
<1>8. IsCounted(d)
  BY <1>3, <1>6, <1>7 DEF IsCounted
<1>9. Cardinality(Keys(d.storage)) = 0
  BY <1>6, FS_EmptySet
<1>10. d.amountSize <= LIMITSIZE /\ Cardinality(Keys(d.storage)) <= LIMITKEY
  BY <1>3, <1>9, DataAssumption
<1>11. QED
  BY <1>4, <1>5, <1>8, <1>10 DEF PoolInv

(* A connection that is opened has an empty pool.                          *)
LEMMA ConnectedType ==
  ASSUME NEW table \in FeedMap
  PROVE  Connected(table) \in FeedConnection
BY DEF Connected, FeedConnection, FeedMap, EmptyMap

(* An image is written, left alone or removed.                             *)
LEMMA ImageFollowsSpace ==
  ASSUME NEW d, PoolInv(d), NEW images \in ImageMap, NEW u \in UUID, NEW after, NEW e,
         ImageFollows(e, d, u, after, images)
  PROVE  PoolInv(e) /\ after \in ImageMap
<1>1. CASE e = d /\ after = images
  BY <1>1
<1>2. ASSUME NEW image \in Images, after = [images EXCEPT ![u] = image],
             e = IF IsIdExist(d, u) THEN AddImage(d, u, image) ELSE d
      PROVE  PoolInv(e) /\ after \in ImageMap
  <2>1. after \in ImageMap
    BY <1>2 DEF ImageMap
  <2>2. CASE IsIdExist(d, u)
    <3>1. e = AddImage(d, u, image) /\ d.storage[u] # NoRow
      BY <1>2, <2>2 DEF IsIdExist
    <3>2. QED
      BY <2>1, <3>1, AddImageSpace
  <2>3. QED
    BY <1>2, <2>1, <2>2
<1>3. ASSUME after = [images EXCEPT ![u] = NoData],
             e = IF IsIdExist(d, u) THEN DeleteImage(d, u) ELSE d
      PROVE  PoolInv(e) /\ after \in ImageMap
  <2>1. after \in ImageMap
    BY <1>3 DEF ImageMap
  <2>2. CASE IsIdExist(d, u)
    <3>1. e = DeleteImage(d, u) /\ d.storage[u] # NoRow
      BY <1>3, <2>2 DEF IsIdExist
    <3>2. QED
      BY <2>1, <3>1, DeleteImageSpace
  <2>3. QED
    BY <1>3, <2>1, <2>2
<1>4. QED
  BY <1>1, <1>2, <1>3 DEF ImageFollows

(* The server starts with an empty pool, whatever is stored.               *)
LEMMA InitSpaceInv == Init => SpaceInv
<1> SUFFICES ASSUME Init PROVE SpaceInv
  OBVIOUS
<1>1. PICK table \in [UUID -> [feed : Feeds, isDelete : {FALSE}] \cup {NoRow}] :
        /\ feedDb = Connected(table) /\ dp \in Started(table) /\ disk \in [UUID -> Images \cup {NoData}]
  BY DEF Init
<1>2. table \in FeedMap
  BY DEF FeedMap, FeedRow
<1>3. journal = EmptyMap /\ durable = EmptyMap /\ batch = EmptyMap /\ wedged = FALSE
  BY DEF Init
<1>4. JournalInv
  BY <1>3 DEF JournalInv, RowMap, EmptyMap
<1>5. feedDb \in FeedConnection /\ PoolInv(dp)
  BY <1>1, <1>2, ConnectedType, StartedSpace
<1>6. QED
  BY <1>1, <1>3, <1>4, <1>5 DEF SpaceInv, ImageMap

(* A request that is refused changes neither pool nor store.               *)
LEMMA RefuseSpaceInv ==
  ASSUME SpaceInv, NEW c, Refuse(c)
  PROVE  SpaceInv'
BY DEF Refuse, SpaceInv, JournalInv, RowMap, EmptyMap

(* A POST adds a feed, perhaps with an image.                              *)
LEMMA PostSpaceInv ==
  ASSUME SpaceInv, NEW u \in UUID, NEW feed \in Feeds, NEW image \in Images \cup {NoData},
         Post(u, feed, image)
  PROVE  SpaceInv'
<1>1. CASE Refuse(409)
  BY <1>1, RefuseSpaceInv
<1>2. CASE /\ \E d \in AddFeed(dp, u, feed, IsThereFile(u)) :
                IF image = NoData THEN dp' = d /\ UNCHANGED disk ELSE WriteImage(d, u, image)
           /\ PushFeed(u, feed, FALSE)
           /\ Update(u, TRUE, image # NoData, FALSE, FALSE)
           /\ UNCHANGED wedged
  <2>1. PICK d \in AddFeed(dp, u, feed, IsThereFile(u)) :
               IF image = NoData THEN dp' = d /\ UNCHANGED disk ELSE WriteImage(d, u, image)
    BY <1>2
  <2>2. ImageFollows(dp', d, u, disk', disk)
    BY <2>1 DEF ImageFollows, WriteImage, SetDataToDisk
  <2>3. IsThereFile(u) \in BOOLEAN
    BY DEF IsThereFile
  <2>4. PoolInv(d)
    BY <2>3, AddFeedSpace DEF SpaceInv
  <2>5. PoolInv(dp') /\ disk' \in ImageMap
    BY <2>2, <2>4, ImageFollowsSpace DEF SpaceInv
  <2>6. feedDb' \in FeedConnection
    BY <1>2, PushType DEF SpaceInv
  <2>7. JournalInv'
    <3> DEFINE c == [needFeed |-> TRUE, needImage |-> image # NoData,
                     needDelete |-> FALSE, needDeleteImage |-> FALSE]
    <3>1. c \in Command
      BY DEF Command
    <3>2. QED
      BY <1>2, <3>1, UpdateType DEF SpaceInv
  <2>8. QED
    BY <1>2, <2>5, <2>6, <2>7 DEF SpaceInv
<1>3. QED
  BY <1>1, <1>2 DEF Post

(* A PUT replaces the feed, and replaces, drops or leaves the image.       *)
LEMMA PutSpaceInv ==
  ASSUME SpaceInv, NEW u \in UUID, NEW feed \in Feeds, NEW imageUpdate \in BOOLEAN,
         NEW image \in Images \cup {NoData}, Put(u, feed, imageUpdate, image)
  PROVE  SpaceInv'
<1> DEFINE isSameFeed == IsIdExistAndNotDeleted(dp, u) /\ GetFeedData(dp, u) = feed
           new        == imageUpdate /\ image # NoData
           drop       == imageUpdate /\ image = NoData
<1>1. CASE Refuse(404)
  BY <1>1, RefuseSpaceInv
<1>2. CASE /\ IF isSameFeed THEN UNCHANGED feedDb ELSE PushFeed(u, feed, FALSE)
           /\ Update(u, ~isSameFeed, new, FALSE, drop)
           /\ \E d \in AddFeed(dp, u, feed, IsThereFile(u)) :
                IF ~imageUpdate
                THEN dp' = d /\ UNCHANGED disk
                ELSE IF image = NoData THEN DropImage(d, u) ELSE WriteImage(d, u, image)
           /\ UNCHANGED wedged
  <2>1. PICK d \in AddFeed(dp, u, feed, IsThereFile(u)) :
                IF ~imageUpdate
                THEN dp' = d /\ UNCHANGED disk
                ELSE IF image = NoData THEN DropImage(d, u) ELSE WriteImage(d, u, image)
    BY <1>2
  <2>2. ImageFollows(dp', d, u, disk', disk)
    <3>1. CASE ~imageUpdate
      BY <2>1, <3>1 DEF ImageFollows
    <3>2. CASE imageUpdate /\ image # NoData
      BY <2>1, <3>2 DEF ImageFollows, WriteImage, SetDataToDisk
    <3>3. CASE imageUpdate /\ image = NoData
      BY <2>1, <3>3 DEF ImageFollows, DropImage, DeleteDataFromDiskIfExist
    <3>4. QED
      BY <3>1, <3>2, <3>3
  <2>3. IsThereFile(u) \in BOOLEAN
    BY DEF IsThereFile
  <2>4. PoolInv(d)
    BY <2>3, AddFeedSpace DEF SpaceInv
  <2>5. PoolInv(dp') /\ disk' \in ImageMap
    BY <2>2, <2>4, ImageFollowsSpace DEF SpaceInv
  <2>6. feedDb' \in FeedConnection
    BY <1>2, PushType DEF SpaceInv
  <2>7. JournalInv'
    <3> DEFINE needFeed == ~isSameFeed
    <3>1. needFeed \in BOOLEAN /\ new \in BOOLEAN /\ drop \in BOOLEAN /\ ~(new /\ drop)
      OBVIOUS
    <3>2. Update(u, needFeed, new, FALSE, drop)
      BY <1>2
    <3> HIDE DEF needFeed, new, drop
    <3>3. [needFeed |-> needFeed, needImage |-> new, needDelete |-> FALSE, needDeleteImage |-> drop] \in Command
      BY <3>1 DEF Command
    <3>4. QED
      BY <3>2, <3>3, UpdateType DEF SpaceInv
  <2>8. QED
    BY <1>2, <2>5, <2>6, <2>7 DEF SpaceInv
<1>3. QED
  BY <1>1, <1>2 DEF Put

(* A DELETE evicts both.                                                   *)
LEMMA DeleteSpaceInv ==
  ASSUME SpaceInv, NEW u \in UUID, Delete(u)
  PROVE  SpaceInv'
<1>1. CASE Refuse(404)
  BY <1>1, RefuseSpaceInv
<1>2. CASE /\ dp' = IF IsIdExist(dp, u) THEN DeleteData(dp, u) ELSE dp
           /\ PushFeed(u, NoData, TRUE)
           /\ DeleteDataFromDiskIfExist(u)
           /\ Update(u, FALSE, FALSE, TRUE, FALSE)
           /\ UNCHANGED wedged
  <2>1. PoolInv(dp')
    <3>1. CASE IsIdExist(dp, u)
      <4>1. dp' = DeleteData(dp, u) /\ dp.storage[u] # NoRow
        BY <1>2, <3>1 DEF IsIdExist
      <4>2. QED
        BY <4>1, DeleteDataSpace DEF SpaceInv
    <3>2. QED
      BY <1>2, <3>1 DEF SpaceInv
  <2>2. disk' \in ImageMap
    BY <1>2 DEF DeleteDataFromDiskIfExist, SpaceInv, ImageMap
  <2>3. feedDb' \in FeedConnection
    BY <1>2, PushType DEF SpaceInv
  <2>4. JournalInv'
    <3>1. [needFeed |-> FALSE, needImage |-> FALSE, needDelete |-> TRUE, needDeleteImage |-> FALSE] \in Command
      BY DEF Command
    <3>2. QED
      BY <1>2, <3>1, UpdateType DEF SpaceInv
  <2>5. QED
    BY <1>2, <2>1, <2>2, <2>3, <2>4 DEF SpaceInv
<1>3. QED
  BY <1>1, <1>2 DEF Delete

(* A recruit evicts the images it sent, and may lose the pooled rows.      *)
LEMMA RecruitSpaceInv ==
  ASSUME SpaceInv, Recruit
  PROVE  SpaceInv'
<1>1. PICK got \in GetDataFromDb(feedDb, FromDb(batch')) : feedDb' = got.db
  BY DEF Recruit
<1>2. feedDb' \in FeedConnection
  BY <1>1, ReadType DEF SpaceInv
<1>3. PICK fed, S : dp' = NotifyToFree(dp, fed, S)
  BY DEF Recruit
<1>4. PoolInv(dp')
  BY <1>3, NotifySpace DEF SpaceInv
<1>5. JournalInv'
  BY HandOverType DEF Recruit, SpaceInv
<1>6. UNCHANGED <<disk, wedged>>
  BY DEF Recruit
<1>7. QED
  BY <1>2, <1>4, <1>5, <1>6 DEF SpaceInv

(* An exception leaves the pool as it was, and the mutexes locked.         *)
LEMMA RecruitFailsSpaceInv ==
  ASSUME SpaceInv, RecruitFails
  PROVE  SpaceInv'
<1>1. PICK asked : \E got \in GetDataFromDb(feedDb, asked) : feedDb' = got.db
  BY DEF RecruitFails
<1>2. feedDb' \in FeedConnection
  BY <1>1, ReadType DEF SpaceInv
<1>3. wedged' = TRUE /\ UNCHANGED <<dp, disk, journals>>
  BY DEF RecruitFails
<1>4. QED
  BY <1>2, <1>3 DEF SpaceInv, JournalInv, journals

(* A server that is started again has an empty pool.                       *)
LEMMA RestartSpaceInv ==
  ASSUME SpaceInv, Restart
  PROVE  SpaceInv'
<1> DEFINE table == feedDb.table
<1>1. table \in FeedMap /\ feedDb' = Connected(table) /\ dp' \in Started(table)
  BY DEF Restart, SpaceInv, FeedConnection
<1> HIDE DEF table
<1>2. PoolInv(dp') /\ feedDb' \in FeedConnection
  BY <1>1, ConnectedType, StartedSpace
<1>3. journal' = durable /\ durable' = durable /\ batch' = EmptyMap
  BY JournalVocabulary DEF Restart, Jor!Restart
<1>4. JournalInv'
  BY <1>3 DEF SpaceInv, JournalInv, RowMap, EmptyMap
<1>5. disk' = disk /\ wedged' = FALSE
  BY DEF Restart
<1>6. QED
  BY <1>2, <1>4, <1>5 DEF SpaceInv

(* The cron threads leave the pool alone.                                  *)
LEMMA CronSpaceInv ==
  ASSUME SpaceInv, Cron \/ JournalCron
  PROVE  SpaceInv'
<1>1. CASE Cron
  <2>1. feedDb' \in FeedConnection
    BY <1>1, CronType DEF Cron, SpaceInv
  <2>2. QED
    BY <1>1, <2>1 DEF Cron, SpaceInv, JournalInv, journals
<1>2. CASE JournalCron
  <2>1. durable' = journal /\ UNCHANGED <<journal, batch>>
    BY <1>2 DEF JournalCron, Jor!Persist
  <2>2. QED
    BY <1>2, <2>1 DEF JournalCron, SpaceInv, JournalInv
<1>3. QED
  BY <1>1, <1>2

(* No step of the server breaks the invariant.                             *)
LEMMA NextSpaceInv == SpaceInv /\ [Next]_vars => SpaceInv'
<1> SUFFICES ASSUME SpaceInv, [Next]_vars PROVE SpaceInv'
  OBVIOUS
<1>1. CASE \E u \in UUID, feed \in Feeds, image \in Images \cup {NoData} :
             Post(u, feed, image) \/ \E imageUpdate \in BOOLEAN : Put(u, feed, imageUpdate, image)
  BY <1>1, PostSpaceInv, PutSpaceInv
<1>2. CASE \E u \in UUID : Delete(u)
  BY <1>2, DeleteSpaceInv
<1>3. CASE Recruit
  BY <1>3, RecruitSpaceInv
<1>4. CASE RecruitFails
  BY <1>4, RecruitFailsSpaceInv
<1>5. CASE Cron \/ JournalCron
  BY <1>5, CronSpaceInv
<1>6. CASE Restart
  BY <1>6, RestartSpaceInv
<1>7. CASE UNCHANGED vars
  BY <1>7 DEF vars, journals, SpaceInv, JournalInv
<1>8. QED
  BY <1>1, <1>2, <1>3, <1>4, <1>5, <1>6, <1>7 DEF Next

(* What is counted is what FeedBytes and ImageBytes sum up.                *)
LEMMA SpaceInvImplies == SpaceInv => TypeOK /\ SpaceIsCounted
<1> SUFFICES ASSUME SpaceInv PROVE TypeOK /\ SpaceIsCounted
  OBVIOUS
<1>1. /\ PoolRecord(dp) /\ AllFilled(dp) /\ IsCounted(dp) /\ dp.amountSize \in Nat
      /\ dp.amountSize <= LIMITSIZE /\ Cardinality(Keys(dp.storage)) <= LIMITKEY
  BY SpaceTypes DEF SpaceInv, PoolInv
<1>2. dp \in Pool
  BY <1>1 DEF PoolRecord, Storage, Pool
<1>3. TypeOK
  BY <1>2 DEF TypeOK, SpaceInv, JournalInv, FeedConnection, FeedMap, ImageMap
<1>4. Cached(dp) \in SUBSET UUID /\ ImagesIn(dp) \in SUBSET UUID
  BY <1>1, CachedSizes
<1>5. /\ FeedBytes(dp, Cached(dp)) = Sum(FeedSize(dp), Cached(dp))
      /\ ImageBytes(dp, ImagesIn(dp)) = Sum(ImageSize(dp), ImagesIn(dp))
  BY <1>4, FeedBytesSum, ImageBytesSum
<1>6. dp.amountSize = FeedBytes(dp, Cached(dp)) + ImageBytes(dp, ImagesIn(dp))
  BY <1>1, <1>5 DEF IsCounted
<1>7. SpaceIsCounted
  BY <1>1, <1>6 DEF SpaceIsCounted, Cached
<1>8. QED
  BY <1>3, <1>7

(* Whatever fails and however often the server dies: the pool, the         *)
(* connection, the files and the journal keep their types.                 *)
THEOREM TypeCorrect == Spec => []TypeOK
<1>1. SpaceInv => TypeOK
  BY SpaceInvImplies
<1>2. QED
  BY <1>1, InitSpaceInv, NextSpaceInv, PTL DEF Spec

(* amountSize is the size of the feeds and images in the pool, and never   *)
(* more than LIMITSIZE, as the number of entries never is than LIMITKEY.   *)
THEOREM SpaceIsCountedCorrect == Spec => []SpaceIsCounted
<1>1. SpaceInv => SpaceIsCounted
  BY SpaceInvImplies
<1>2. QED
  BY <1>1, InitSpaceInv, NextSpaceInv, PTL DEF Spec
=============================================================================
