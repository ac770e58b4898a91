------------------------- MODULE TargetingProofs -------------------------
(***************************************************************************)
(* Proofs about Targeting and the custom operators.  What is model-checked *)
(* with 16 hashes and numbers up to 20 is proved here for every width, and *)
(* for every set of documents: the shares and the stability of fractional, *)
(* the order and the ranges of sem_ver, the depth scan, what the resolver  *)
(* makes of a rule with $refs, and the keys of a compiled rule.            *)
(***************************************************************************)
EXTENDS Targeting, WellFoundedInduction, FiniteSetTheorems, TLAPS

\* A nonempty set of naturals has a least element: the proofs about recursive
\* functions and folds below take the least counterexample.
LEMMA Least ==
    ASSUME NEW T \in SUBSET Nat, T # {}
    PROVE  \E n \in T : \A m \in T : n <= m
<1>1. PICK n \in T : \A m \in T : <<m, n>> \notin OpToRel(<, Nat)
  BY ONLY T \in SUBSET Nat, T # {}, NatLessThanWellFounded, WFMin, Zenon
<1>2. \A m \in T : ~(m < n)
  BY <1>1 DEF OpToRel
<1>. QED  BY <1>2

-----------------------------------------------------------------------------
(***************************************************************************)
(* fractional: sums of weights and buckets                                 *)
(***************************************************************************)

\* The product of a hash and an accepted total does not overflow 64 bits, so
\* that the bucket value is the exact quotient and below the total.
LEMMA ProductFits ==
    ASSUME NEW h \in Hashes, NEW t \in 1 .. MaxTotal
    PROVE  /\ (h * t) % Wide = h * t
           /\ BucketValue(h, t) \in 0 .. t - 1
BY HashAssumption DEF Hashes, MaxTotal, Wide, BucketValue

\* The functions that add up the first n weights.
Sums(w, n) == {f \in [0 .. n -> Nat] : f[0] = 0 /\ \A i \in 1 .. n : f[i] = f[i - 1] + w[i]}

\* Such a function exists, so that the recursive definition of Cumulative
\* defines one.
LEMMA SumsExist ==
    ASSUME NEW w \in Seq(Nat)
    PROVE  Sums(w, Len(w)) # {}
<1>. DEFINE Bad == {n \in 0 .. Len(w) : Sums(w, n) = {}}
<1>1. SUFFICES ASSUME Bad # {} PROVE FALSE
  OBVIOUS
<1>2. PICK n \in Bad : \A m \in Bad : n <= m
  <2>1. Bad \in SUBSET Nat
    OBVIOUS
  <2>. HIDE DEF Bad
  <2>. QED  BY <1>1, <2>1, Least, Zenon
<1>3. n # 0
  <2>1. [i \in 0 .. 0 |-> 0] \in Sums(w, 0)
    BY DEF Sums
  <2>. QED  BY <2>1, <1>2
<1>4. PICK f \in Sums(w, n - 1) : TRUE
  <2>1. n - 1 \in 0 .. Len(w) /\ n - 1 \notin Bad
    BY <1>2, <1>3
  <2>. QED  BY <2>1
<1>. DEFINE g == [i \in 0 .. n |-> IF i = n THEN f[n - 1] + w[n] ELSE f[i]]
<1>5. g \in Sums(w, n)
  <2>1. n \in 1 .. Len(w) /\ f \in [0 .. n - 1 -> Nat] /\ w[n] \in Nat
    BY <1>2, <1>3, <1>4 DEF Sums
  <2>2. g \in [0 .. n -> Nat] /\ g[0] = 0
    BY <2>1, <1>4 DEF Sums
  <2>3. ASSUME NEW i \in 1 .. n PROVE g[i] = g[i - 1] + w[i]
    <3>1. CASE i = n
      BY <2>1, <3>1
    <3>2. CASE i # n
      <4>1. i \in 1 .. n - 1 /\ i - 1 \in 0 .. n /\ i - 1 # n
        BY <2>1, <3>2
      <4>2. f[i] = f[i - 1] + w[i]
        BY <1>4, <4>1 DEF Sums
      <4>. QED  BY <4>1, <4>2, <3>2
    <3>. QED  BY <3>1, <3>2
  <2>. QED  BY <2>2, <2>3 DEF Sums
<1>. QED  BY <1>2, <1>5

\* Cumulative adds the weights up in order.
LEMMA CumulativeIsSum ==
    ASSUME NEW w \in Seq(Nat)
    PROVE  Cumulative(w) \in Sums(w, Len(w))
<1>. DEFINE body(f) == [i \in 0 .. Len(w) |-> IF i = 0 THEN 0 ELSE f[i - 1] + w[i]]
            c == Cumulative(w)
<1>1. PICK f \in Sums(w, Len(w)) : TRUE
  BY SumsExist
<1>2. f = body(f)
  BY <1>1 DEF Sums
<1>3. c = CHOOSE g : g = body(g)
  BY DEF Cumulative
<1>4. c = body(c)
  BY <1>2, <1>3
<1>. HIDE DEF c
<1>5. \A n \in 0 .. Len(w) : c[n] \in Nat
  <2>. DEFINE Bad == {n \in 0 .. Len(w) : c[n] \notin Nat}
  <2>1. SUFFICES ASSUME Bad # {} PROVE FALSE
    OBVIOUS
  <2>2. PICK n \in Bad : \A m \in Bad : n <= m
    <3>1. Bad \in SUBSET Nat
      OBVIOUS
    <3>. HIDE DEF Bad
    <3>. QED  BY <2>1, <3>1, Least, Zenon
  <2>3. n # 0
    BY <1>4, <2>2
  <2>4. n - 1 \in 0 .. Len(w) /\ c[n - 1] \in Nat /\ w[n] \in Nat
    BY <2>2, <2>3
  <2>5. c[n] = c[n - 1] + w[n]
    BY <1>4, <2>2, <2>3
  <2>. QED  BY <2>2, <2>4, <2>5
<1>6. c \in Sums(w, Len(w))
  <2>1. c \in [0 .. Len(w) -> Nat]
    BY <1>4, <1>5
  <2>2. c[0] = 0 /\ \A i \in 1 .. Len(w) : c[i] = c[i - 1] + w[i]
    BY <1>4
  <2>. QED  BY <2>1, <2>2 DEF Sums
<1>. QED  BY <1>6 DEF c

\* The same, as the equations the proofs below use.
LEMMA CumulativeFacts ==
    ASSUME NEW w \in Seq(Nat)
    PROVE  /\ Cumulative(w) \in [0 .. Len(w) -> Nat]
           /\ Cumulative(w)[0] = 0
           /\ \A i \in 1 .. Len(w) : Cumulative(w)[i] = Cumulative(w)[i - 1] + w[i]
BY CumulativeIsSum DEF Sums

\* Sums, as facts to instantiate.
LEMMA SumIsNatural == \A a, n \in Nat : a + n \in Nat
OBVIOUS

LEMMA SumGrows == \A a, b, n \in Nat : a <= b => a <= b + n
OBVIOUS

LEMMA SumRegroups == \A a, b, n \in Nat : a + (b + n) = (a + b) + n
OBVIOUS

LEMMA SumShifts == \A a, b, n \in Nat : (a + n) + (b - n) = a + b
OBVIOUS

\* Cumulative weights never decrease: the scan for the bucket may stop at the
\* first one that exceeds the bucket value.
LEMMA CumulativeGrows ==
    ASSUME NEW w \in Seq(Nat), NEW i \in 0 .. Len(w), NEW j \in i .. Len(w)
    PROVE  Cumulative(w)[i] <= Cumulative(w)[j]
<1>. DEFINE c == Cumulative(w)
            Bad == {n \in i .. Len(w) : ~(c[i] <= c[n])}
<1>1. /\ c \in [0 .. Len(w) -> Nat]
      /\ \A n \in 1 .. Len(w) : c[n] = c[n - 1] + w[n]
  BY CumulativeFacts
<1>. HIDE DEF c
<1>2. Bad = {}
  <2>1. SUFFICES ASSUME Bad # {} PROVE FALSE
    OBVIOUS
  <2>2. PICK n \in Bad : \A m \in Bad : n <= m
    <3>1. Bad \in SUBSET Nat
      OBVIOUS
    <3>. HIDE DEF Bad
    <3>. QED  BY <2>1, <3>1, Least, Zenon
  <2>3. n \in i .. Len(w) /\ ~(c[i] <= c[n]) /\ c[i] \in Nat
    BY <1>1, <2>2
  <2>4. n # i
    BY <2>3
  <2>5. n \in 1 .. Len(w) /\ n - 1 \in i .. Len(w) /\ n - 1 \in 0 .. Len(w)
    BY <2>3, <2>4
  <2>6. c[i] <= c[n - 1]
    BY <2>2, <2>5
  <2>7. w[n] \in Nat
    BY <2>5
  <2>8. c[n] = c[n - 1] + w[n]
    BY <1>1, <2>5
  <2>9. c[n - 1] \in Nat
    BY <1>1, <2>5
  <2>. HIDE DEF Bad
  <2>10. c[i] <= c[n - 1] + w[n]
    BY ONLY <2>3, <2>6, <2>7, <2>9, SumGrows, Zenon
  <2>. QED  BY ONLY <2>3, <2>8, <2>10
<1>. QED  BY <1>2 DEF c

\* A list of weights the operator accepts.
Weighted(w) == w \in Seq(Nat) /\ w # <<>> /\ TotalAccepted(TotalWeight(w))

\* Bucket i holds the bucket value v.
Holder(w, v, i) ==
    i \in 1 .. Len(w) /\ Cumulative(w)[i - 1] <= v /\ v < Cumulative(w)[i]

\* An accepted total is a positive number of at most 31 bits, and the last
\* cumulative weight.
LEMMA TotalRange ==
    ASSUME NEW w, Weighted(w)
    PROVE  /\ TotalWeight(w) \in 1 .. MaxTotal
           /\ TotalWeight(w) = Cumulative(w)[Len(w)]
           /\ Len(w) \in Nat \ {0}
<1>1. w \in Seq(Nat) /\ Len(w) \in Nat \ {0}
  BY DEF Weighted
<1>2. Cumulative(w)[Len(w)] \in Nat
  BY <1>1, CumulativeFacts
<1>. QED  BY <1>1, <1>2, HashAssumption DEF Weighted, TotalAccepted, TotalWeight, MaxTotal

\* Cumulative weights stay within the total.
LEMMA CumulativeRange ==
    ASSUME NEW w, Weighted(w), NEW i \in 0 .. Len(w)
    PROVE  Cumulative(w)[i] \in 0 .. TotalWeight(w)
<1>1. w \in Seq(Nat) /\ Len(w) \in i .. Len(w)
  BY TotalRange DEF Weighted
<1>2. Cumulative(w)[i] <= Cumulative(w)[Len(w)]
  BY <1>1, CumulativeGrows
<1>3. Cumulative(w)[i] \in Nat
  BY <1>1, CumulativeFacts
<1>4. TotalWeight(w) = Cumulative(w)[Len(w)] /\ TotalWeight(w) \in Nat
  BY TotalRange DEF MaxTotal
<1>. QED  BY <1>2, <1>3, <1>4

\* At most one bucket holds a value: the buckets do not overlap.
LEMMA HolderUnique ==
    ASSUME NEW w \in Seq(Nat), NEW v \in Nat, NEW i, NEW j, Holder(w, v, i), Holder(w, v, j)
    PROVE  i = j
<1>1. i \in 1 .. Len(w) /\ j \in 1 .. Len(w)
  BY DEF Holder
<1>2. Cumulative(w) \in [0 .. Len(w) -> Nat]
  BY CumulativeFacts
<1>3. \A k, l \in 1 .. Len(w) : Holder(w, v, k) /\ Holder(w, v, l) => ~(k < l)
  <2>1. SUFFICES ASSUME NEW k \in 1 .. Len(w), NEW l \in 1 .. Len(w),
                        Holder(w, v, k), Holder(w, v, l), k < l
                 PROVE  FALSE
    OBVIOUS
  <2>2. k \in 0 .. Len(w) /\ l - 1 \in k .. Len(w) /\ l - 1 \in 0 .. Len(w)
    BY <2>1
  <2>3. Cumulative(w)[k] <= Cumulative(w)[l - 1]
    BY <2>2, CumulativeGrows
  <2>4. Cumulative(w)[k] \in Nat /\ Cumulative(w)[l - 1] \in Nat
    BY <1>2, <2>2
  <2>5. v < Cumulative(w)[k] /\ Cumulative(w)[l - 1] <= v
    BY <2>1 DEF Holder
  <2>. QED  BY <2>3, <2>4, <2>5
<1>. QED  BY <1>1, <1>3

\* The scan finds a bucket that holds the value of the hash; it never falls
\* through to the last bucket.
LEMMA BucketHolds ==
    ASSUME NEW w, Weighted(w), NEW h \in Hashes
    PROVE  Holder(w, BucketValue(h, TotalWeight(w)), Bucket(w, h))
<1>. DEFINE v == BucketValue(h, TotalWeight(w))
            c == Cumulative(w)
            above == {i \in DOMAIN w : v < c[i]}
<1>1. /\ w \in Seq(Nat) /\ DOMAIN w = 1 .. Len(w)
      /\ c \in [0 .. Len(w) -> Nat] /\ c[0] = 0
  BY CumulativeFacts DEF Weighted
<1>2. v \in 0 .. TotalWeight(w) - 1
  BY TotalRange, ProductFits
<1>3. Len(w) \in above
  BY <1>1, <1>2, TotalRange
<1>4. Bucket(w, h) = CHOOSE i \in above : \A j \in above : i <= j
  BY <1>3 DEF Bucket
<1>. HIDE DEF v, c
<1>5. \E i \in above : \A j \in above : i <= j
  <2>1. above \in SUBSET Nat
    BY <1>1
  <2>. HIDE DEF above
  <2>. QED  BY <1>3, <2>1, Least, Zenon
<1>6. Bucket(w, h) \in above /\ \A j \in above : Bucket(w, h) <= j
  <2>. HIDE DEF above
  <2>. QED  BY <1>4, <1>5, Zenon
<1>. DEFINE b == Bucket(w, h)
<1>7. b \in 1 .. Len(w) /\ v < c[b]
  BY <1>1, <1>6
<1>8. c[b - 1] <= v
  <2>1. CASE b = 1
    BY <1>1, <1>2, <2>1, TotalRange
  <2>2. CASE b # 1
    <3>1. b - 1 \in DOMAIN w /\ b - 1 \notin above
      BY <1>1, <1>6, <1>7, <2>2
    <3>2. c[b - 1] \in Nat /\ v \in Nat
      BY <1>1, <1>2, <1>7, TotalRange
    <3>. QED  BY <3>1, <3>2
  <2>. QED  BY <2>1, <2>2
<1>. QED  BY <1>7, <1>8 DEF Holder, v, c

\* The bucket of a hash is the one that holds its value.
LEMMA BucketIsHolder ==
    ASSUME NEW w, Weighted(w), NEW h \in Hashes, NEW i,
           Holder(w, BucketValue(h, TotalWeight(w)), i)
    PROVE  Bucket(w, h) = i
<1>1. w \in Seq(Nat) /\ BucketValue(h, TotalWeight(w)) \in Nat
  BY TotalRange, ProductFits DEF Weighted
<1>. QED  BY <1>1, BucketHolds, HolderUnique

\* The least hash whose bucket value reaches c.
FirstHash(c, t) == (c * HashSize + t - 1) \div t

\* The rounded-up quotient of two naturals.
LEMMA CeilingBounds ==
    ASSUME NEW a \in Nat, NEW t \in Nat \ {0}
    PROVE  /\ (a + t - 1) \div t \in Nat
           /\ t * ((a + t - 1) \div t) >= a
           /\ t * ((a + t - 1) \div t) < a + t
OBVIOUS

\* FirstHash is where the bucket value passes c, and exact up to one hash.
LEMMA FirstHashFacts ==
    ASSUME NEW t \in 1 .. MaxTotal, NEW c \in 0 .. t
    PROVE  /\ FirstHash(c, t) \in 0 .. HashSize
           /\ FirstHash(c, t) * t >= c * HashSize
           /\ FirstHash(c, t) * t < c * HashSize + t
           /\ \A h \in Hashes : c <= BucketValue(h, t) <=> FirstHash(c, t) <= h
<1>. DEFINE a == c * HashSize
            f == FirstHash(c, t)
<1>1. /\ t \in Nat \ {0} /\ HashSize \in Nat \ {0} /\ c \in Nat /\ c <= t /\ a \in Nat
  BY HashAssumption DEF MaxTotal
<1>2. a <= t * HashSize
  BY <1>1
<1>3. f \in Nat /\ t * f >= a /\ t * f < a + t
  <2>. HIDE DEF a
  <2>. QED  BY <1>1, CeilingBounds DEF FirstHash, a
<1>4. f <= HashSize
  <2>1. SUFFICES ASSUME f >= HashSize + 1 PROVE FALSE
    BY <1>1, <1>3
  <2>2. t * f >= t * (HashSize + 1)
    BY <1>1, <1>3, <2>1
  <2>3. t * (HashSize + 1) = t * HashSize + t
    BY <1>1
  <2>4. t * f \in Nat /\ t * HashSize \in Nat
    BY <1>1, <1>3
  <2>. HIDE DEF a, f
  <2>. QED  BY <1>1, <1>2, <1>3, <2>2, <2>3, <2>4
<1>5. ASSUME NEW h \in Hashes PROVE c <= BucketValue(h, t) <=> f <= h
  <2>1. h \in Nat /\ h * t \in Nat
    BY <1>1 DEF Hashes
  <2>2. BucketValue(h, t) = (h * t) \div HashSize
    BY ProductFits DEF BucketValue
  <2>3. c <= (h * t) \div HashSize <=> a <= h * t
    BY <1>1, <2>1
  <2>4. a <= h * t <=> f <= h
    <3>1. ASSUME f <= h PROVE a <= h * t
      <4>1. t * f <= t * h
        BY <1>1, <1>3, <2>1, <3>1
      <4>. QED  BY <1>1, <1>3, <2>1, <4>1
    <3>2. ASSUME ~(f <= h) PROVE ~(a <= h * t)
      <4>1. h + 1 <= f
        BY <1>3, <2>1, <3>2
      <4>2. t * (h + 1) <= t * f
        BY <1>1, <1>3, <2>1, <4>1
      <4>3. t * (h + 1) = h * t + t
        BY <1>1, <2>1
      <4>. QED  BY <1>1, <1>3, <2>1, <4>2, <4>3
    <3>. QED  BY <3>1, <3>2
  <2>. QED  BY <2>2, <2>3, <2>4
<1>. QED  BY <1>1, <1>3, <1>4, <1>5

\* The hashes of a bucket are an interval.
LEMMA HashesAreInterval ==
    ASSUME NEW w, Weighted(w), NEW i \in 1 .. Len(w)
    PROVE  HashesOf(w, i) =
             FirstHash(Cumulative(w)[i - 1], TotalWeight(w))
               .. FirstHash(Cumulative(w)[i], TotalWeight(w)) - 1
<1>. DEFINE c == Cumulative(w)
            t == TotalWeight(w)
            lo == FirstHash(c[i - 1], t)
            hi == FirstHash(c[i], t)
<1>1. /\ w \in Seq(Nat) /\ t \in 1 .. MaxTotal /\ c \in [0 .. Len(w) -> Nat]
      /\ i \in 0 .. Len(w) /\ i - 1 \in 0 .. Len(w)
  BY TotalRange, CumulativeFacts DEF Weighted
<1>3. c[i] \in 0 .. t /\ c[i - 1] \in 0 .. t
  BY <1>1, CumulativeRange
<1>4. /\ lo \in 0 .. HashSize /\ hi \in 0 .. HashSize
      /\ \A h \in Hashes : c[i - 1] <= BucketValue(h, t) <=> lo <= h
      /\ \A h \in Hashes : c[i] <= BucketValue(h, t) <=> hi <= h
  BY <1>1, <1>3, FirstHashFacts
<1>5. \A h \in Hashes : Bucket(w, h) = i <=> Holder(w, BucketValue(h, t), i)
  BY BucketHolds, BucketIsHolder
<1>6. \A h \in Hashes : Holder(w, BucketValue(h, t), i) <=> lo <= h /\ ~(hi <= h)
  <2>1. \A h \in Hashes : BucketValue(h, t) \in Nat
    BY <1>1, ProductFits
  <2>2. c[i] \in Nat /\ i \in 1 .. Len(w)
    BY <1>1
  <2>3. \A h \in Hashes : Holder(w, BucketValue(h, t), i)
            <=> c[i - 1] <= BucketValue(h, t) /\ BucketValue(h, t) < c[i]
    BY <2>2 DEF Holder
  <2>4. \A h \in Hashes : BucketValue(h, t) < c[i] <=> ~(c[i] <= BucketValue(h, t))
    BY <2>1, <2>2
  <2>. HIDE DEF c, lo, hi, t
  <2>. QED  BY <1>4, <2>3, <2>4
<1>7. \A h \in Hashes : lo <= h /\ ~(hi <= h) <=> h \in lo .. hi - 1
  <2>. HIDE DEF c, lo, hi, t
  <2>. QED  BY <1>4, HashAssumption DEF Hashes
<1>8. lo .. hi - 1 \subseteq Hashes
  <2>. HIDE DEF c, lo, hi, t
  <2>. QED  BY <1>4, HashAssumption DEF Hashes
<1>. HIDE DEF lo, hi, t
<1>9. HashesOf(w, i) = lo .. hi - 1
  BY <1>5, <1>6, <1>7, <1>8 DEF HashesOf
<1>. QED  BY <1>9 DEF lo, hi, t

\* The arithmetic of the next theorem.
LEMMA ShareError ==
    ASSUME NEW N \in Nat \ {0}, NEW t \in Nat \ {0}, NEW a \in Nat, NEW x \in Nat,
           NEW b, b = a + x, NEW lo \in Nat, NEW hi \in Nat,
           lo * t >= a * N, lo * t < a * N + t, hi * t >= b * N, hi * t < b * N + t
    PROVE  /\ lo <= hi
           /\ x * N - t < (hi - lo) * t
           /\ (hi - lo) * t < x * N + t
<1>. DEFINE p == lo * t
            q == hi * t
            A == a * N
            X == x * N
<1>1. b * N = A + X
  OBVIOUS
<1>2. p \in Int /\ q \in Int /\ A \in Int /\ X \in Int
  OBVIOUS
<1>3. X >= 0
  OBVIOUS
<1>4. (hi - lo) * t = q - p
  OBVIOUS
<1>5. (hi + 1) * t = q + t
  OBVIOUS
<1>6. lo >= hi + 1 => lo * t >= (hi + 1) * t
  OBVIOUS
<1>7. p >= A /\ p < A + t /\ q >= A + X /\ q < A + X + t
  BY <1>1
<1>. HIDE DEF p, q, A, X
<1>8. X - t < q - p /\ q - p < X + t /\ q > p - t
  BY <1>2, <1>3, <1>7
<1>9. ~(lo >= hi + 1)
  <2>1. SUFFICES ASSUME p >= q + t PROVE FALSE
    BY <1>5, <1>6 DEF p
  <2>. QED  BY ONLY <1>2, <1>8, <2>1, t \in Nat
<1>. QED  BY <1>4, <1>8, <1>9 DEF X

\* For every list of weights fractional accepts, and every hash width, each
\* bucket gets its share of the hashes within one hash.
THEOREM AcceptedSharesAreProportional ==
    ASSUME NEW w, Weighted(w)
    PROVE  Proportional(w)
<1>. DEFINE t == TotalWeight(w)
<1>1. SUFFICES ASSUME NEW i \in 1 .. Len(w)
               PROVE  LET error == Cardinality(HashesOf(w, i)) * t - w[i] * HashSize
                      IN  -t < error /\ error < t
  BY DEF Proportional, Weighted
<1>. DEFINE c == Cumulative(w)
            lo == FirstHash(c[i - 1], t)
            hi == FirstHash(c[i], t)
<1>2. /\ w \in Seq(Nat) /\ t \in 1 .. MaxTotal /\ c \in [0 .. Len(w) -> Nat]
      /\ i \in 0 .. Len(w) /\ i - 1 \in 0 .. Len(w)
  BY TotalRange, CumulativeFacts DEF Weighted
<1>3. c[i] = c[i - 1] + w[i] /\ w[i] \in Nat
  <2>1. w \in Seq(Nat)
    BY <1>2
  <2>. QED  BY <2>1, CumulativeFacts
<1>4. c[i] \in 0 .. t /\ c[i - 1] \in 0 .. t
  BY <1>2, CumulativeRange
<1>5. /\ lo \in 0 .. HashSize /\ hi \in 0 .. HashSize
      /\ lo * t >= c[i - 1] * HashSize /\ lo * t < c[i - 1] * HashSize + t
      /\ hi * t >= c[i] * HashSize /\ hi * t < c[i] * HashSize + t
  BY <1>2, <1>4, FirstHashFacts
<1>6. HashesOf(w, i) = lo .. hi - 1
  BY HashesAreInterval
<1>. HIDE DEF lo, hi
<1>7. lo \in Nat /\ hi \in Nat /\ HashSize \in Nat \ {0}
  BY <1>5, HashAssumption
<1>8. t \in Nat \ {0}
  BY <1>2 DEF MaxTotal
<1>9. c[i - 1] \in Nat
  BY <1>2
<1>. HIDE DEF t, c
<1>10. /\ lo <= hi
       /\ w[i] * HashSize - t < (hi - lo) * t
       /\ (hi - lo) * t < w[i] * HashSize + t
  BY <1>3, <1>5, <1>7, <1>8, <1>9, ShareError
<1>11. Cardinality(HashesOf(w, i)) = hi - lo
  <2>1. Cardinality(lo .. hi - 1) = IF lo > hi - 1 THEN 0 ELSE hi - 1 - lo + 1
    BY <1>7, FS_Interval
  <2>. QED  BY <1>6, <1>7, <1>10, <2>1
<1>12. w[i] * HashSize \in Int /\ (hi - lo) * t \in Int
  BY <1>3, <1>7, <1>8
<1>. DEFINE share == (hi - lo) * t
            exact == w[i] * HashSize
<1>13. share \in Int /\ exact \in Int /\ exact - t < share /\ share < exact + t
  BY <1>10, <1>12
<1>. HIDE DEF share, exact
<1>14. -t < share - exact /\ share - exact < t
  BY <1>8, <1>13
<1>. QED  BY <1>11, <1>14 DEF share, exact

\* Moving n units from bucket i + 1 to bucket i changes one cumulative weight.
LEMMA ShiftedSums ==
    ASSUME NEW w \in Seq(Nat), NEW i \in 1 .. Len(w) - 1, NEW n \in 0 .. w[i + 1]
    PROVE  /\ Shift(w, i, n) \in Seq(Nat)
           /\ Len(Shift(w, i, n)) = Len(w)
           /\ \A j \in 0 .. Len(w) :
                 Cumulative(Shift(w, i, n))[j] =
                    IF j = i THEN Cumulative(w)[i] + n ELSE Cumulative(w)[j]
<1>. DEFINE s == Shift(w, i, n)
            c == Cumulative(w)
            d == Cumulative(s)
            expected(j) == IF j = i THEN c[i] + n ELSE c[j]
            Bad == {j \in 0 .. Len(w) : d[j] # expected(j)}
<1>1. /\ i \in 1 .. Len(w) /\ i + 1 \in 1 .. Len(w) /\ i \in 0 .. Len(w)
      /\ w[i] \in Nat /\ w[i + 1] \in Nat /\ n \in Nat /\ w[i + 1] - n \in Nat
  BY SMTT(30)
<1>2. /\ s \in Seq(Nat) /\ Len(s) = Len(w)
      /\ \A j \in 1 .. Len(w) : s[j] = IF j = i THEN w[i] + n
                                       ELSE IF j = i + 1 THEN w[i + 1] - n ELSE w[j]
  <2>. DEFINE r == [j \in 1 .. Len(w) |-> IF j = i THEN w[i] + n
                                       ELSE IF j = i + 1 THEN w[i + 1] - n ELSE w[j]]
  <2>1. s = r
    <3>1. w = [j \in 1 .. Len(w) |-> w[j]] /\ i # i + 1
      BY ONLY <1>1
    <3>. QED  BY <1>1, <3>1, Zenon DEF Shift
  <2>2. ASSUME NEW j \in 1 .. Len(w) PROVE r[j] \in Nat
    <3>1. w[j] \in Nat
      OBVIOUS
    <3>2. w[i] + n \in Nat
      <4>1. w[i] \in Nat /\ n \in Nat
        BY <1>1
      <4>. QED  BY ONLY <4>1, SumIsNatural, Zenon
    <3>. QED  BY <1>1, <3>1, <3>2
  <2>3. r \in Seq(Nat) /\ Len(r) = Len(w)
    BY <2>2
  <2>. QED  BY <2>1, <2>3
<1>3. /\ c \in [0 .. Len(w) -> Nat] /\ d \in [0 .. Len(w) -> Nat]
      /\ c[0] = 0 /\ d[0] = 0
      /\ \A j \in 1 .. Len(w) : c[j] = c[j - 1] + w[j]
      /\ \A j \in 1 .. Len(w) : d[j] = d[j - 1] + s[j]
  <2>. HIDE DEF s
  <2>. QED  BY <1>2, CumulativeFacts
<1>. HIDE DEF s, c, d
<1>4. Bad = {}
  <2>1. SUFFICES ASSUME Bad # {} PROVE FALSE
    OBVIOUS
  <2>2. PICK j \in Bad : \A m \in Bad : j <= m
    <3>1. Bad \in SUBSET Nat
      OBVIOUS
    <3>. HIDE DEF Bad
    <3>. QED  BY <2>1, <3>1, Least, Zenon
  <2>3. j # 0
    BY <1>1, <1>3, <2>2
  <2>4. j \in 1 .. Len(w) /\ j - 1 \in 0 .. Len(w)
    BY <2>2, <2>3
  <2>5. d[j - 1] = IF j - 1 = i THEN c[i] + n ELSE c[j - 1]
    BY <2>2, <2>4
  <2>6. d[j] = d[j - 1] + s[j] /\ c[j] = c[j - 1] + w[j]
    BY <1>3, <2>4
  <2>7. s[j] = IF j = i THEN w[i] + n ELSE IF j = i + 1 THEN w[i + 1] - n ELSE w[j]
    BY <1>2, <2>4
  <2>8. c[j] \in Nat /\ c[j - 1] \in Nat /\ w[j] \in Nat /\ c[i] \in Nat
    <3>1. j \in 0 .. Len(w) /\ w[j] \in Nat
      BY <2>4
    <3>. QED  BY <1>1, <1>3, <2>4, <3>1
  <2>9. d[j] # IF j = i THEN c[i] + n ELSE c[j]
    BY <2>2
  <2>. HIDE DEF Bad
  <2>10. CASE j = i
    <3>1. d[j - 1] = c[j - 1] /\ s[j] = w[j] + n
      BY <1>1, <2>5, <2>7, <2>10
    <3>2. d[j] = c[j - 1] + (w[j] + n)
      BY <2>6, <3>1
    <3>3. c[j - 1] + (w[j] + n) = (c[j - 1] + w[j]) + n
      <4>1. n \in Nat
        BY <1>1
      <4>. QED  BY ONLY <2>8, <4>1, SumRegroups, Zenon
    <3>. QED  BY <2>6, <2>9, <2>10, <3>2, <3>3
  <2>11. CASE j = i + 1
    <3>1. j - 1 = i /\ j # i
      BY <1>1, <2>11
    <3>2. d[j - 1] = c[j - 1] + n /\ s[j] = w[j] - n
      BY <2>5, <2>7, <2>11, <3>1
    <3>3. d[j] = (c[j - 1] + n) + (w[j] - n)
      BY <2>6, <3>2
    <3>4. (c[j - 1] + n) + (w[j] - n) = c[j - 1] + w[j]
      <4>1. n \in Nat
        BY <1>1
      <4>. QED  BY ONLY <2>8, <4>1, SumShifts, Zenon
    <3>. QED  BY <2>6, <2>9, <3>1, <3>3, <3>4
  <2>12. CASE j # i /\ j # i + 1
    <3>1. j - 1 # i
      BY <1>1, <2>4, <2>12
    <3>. QED  BY <2>5, <2>6, <2>7, <2>9, <2>12, <3>1
  <2>. QED  BY <2>10, <2>11, <2>12
<1>5. \A j \in 0 .. Len(w) : d[j] = expected(j)
  BY <1>4
<1>. QED  BY <1>2, <1>5 DEF s, c, d

\* For every list of weights fractional accepts, moving weight between two
\* neighbours moves hashes between these two only, and in one direction.
THEOREM AcceptedRolloutsAreStable ==
    ASSUME NEW w, Weighted(w)
    PROVE  ShiftMovesNeighbours(w)
<1>1. SUFFICES ASSUME NEW i \in 1 .. Len(w) - 1, NEW n \in 0 .. w[i + 1], NEW h \in Hashes
               PROVE  LET old == Bucket(w, h)
                          new == Bucket(Shift(w, i, n), h)
                      IN  new = old \/ (old = i + 1 /\ new = i)
  BY DEF ShiftMovesNeighbours
<1>. DEFINE s == Shift(w, i, n)
            c == Cumulative(w)
            d == Cumulative(s)
            v == BucketValue(h, TotalWeight(w))
            b == Bucket(w, h)
<1>2. /\ w \in Seq(Nat) /\ c \in [0 .. Len(w) -> Nat] /\ Len(w) \in Nat
      /\ i \in 1 .. Len(w) /\ i + 1 \in 1 .. Len(w) /\ w[i + 1] \in Nat /\ n \in Nat
  <2>1. w \in Seq(Nat) /\ Len(w) \in Nat
    BY DEF Weighted
  <2>2. i \in 1 .. Len(w) /\ i + 1 \in 1 .. Len(w)
    BY <2>1
  <2>3. c \in [0 .. Len(w) -> Nat]
    BY <2>1, CumulativeFacts
  <2>4. w[i + 1] \in Nat
    BY <2>1, <2>2
  <2>5. n \in Nat
    BY <2>4
  <2>. QED  BY <2>1, <2>2, <2>3, <2>4, <2>5
<1>3. /\ s \in Seq(Nat) /\ Len(s) = Len(w)
      /\ \A j \in 0 .. Len(w) : d[j] = IF j = i THEN c[i] + n ELSE c[j]
  BY <1>2, ShiftedSums
<1>. HIDE DEF s, c, d
<1>4. TotalWeight(s) = TotalWeight(w)
  <2>1. Len(w) \in 0 .. Len(w) /\ Len(w) # i
    BY <1>2
  <2>. QED  BY <1>3, <2>1 DEF TotalWeight, c, d
<1>5. Weighted(s)
  <2>1. s # <<>>
    BY <1>2, <1>3
  <2>. QED  BY <1>3, <1>4, <2>1 DEF Weighted
<1>6. v \in Nat
  BY TotalRange, ProductFits
<1>7. b \in 1 .. Len(w) /\ c[b - 1] <= v /\ v < c[b]
  BY BucketHolds DEF Holder, c
<1>8. ASSUME NEW j \in 1 .. Len(w), d[j - 1] <= v, v < d[j]
      PROVE  Bucket(s, h) = j
  <2>1. Holder(s, BucketValue(h, TotalWeight(s)), j)
    BY <1>3, <1>4, <1>8 DEF Holder, d
  <2>. QED  BY <1>5, <2>1, BucketIsHolder
<1>. HIDE DEF v, b
<1>9. c[b] \in Nat /\ c[b - 1] \in Nat /\ c[i] \in Nat /\ c[i - 1] \in Nat
  <2>1. b - 1 \in 0 .. Len(w) /\ b \in 0 .. Len(w) /\ i - 1 \in 0 .. Len(w) /\ i \in 0 .. Len(w)
    BY <1>2, <1>7
  <2>. QED  BY <1>2, <2>1
<1>10. c[i - 1] <= c[i] /\ i - 1 \in 0 .. Len(w) /\ i - 1 # i /\ i \in 0 .. Len(w)
  <2>1. i - 1 \in 0 .. Len(w) /\ i \in i - 1 .. Len(w) /\ i - 1 # i /\ i \in 0 .. Len(w)
    BY <1>2
  <2>2. Cumulative(w)[i - 1] <= Cumulative(w)[i]
    <3>1. \A m \in 0 .. Len(w) : \A l \in m .. Len(w) : Cumulative(w)[m] <= Cumulative(w)[l]
      BY <1>2, CumulativeGrows
    <3>. QED  BY ONLY <2>1, <3>1
  <2>. QED  BY <2>1, <2>2 DEF c
<1>11. CASE b # i /\ b # i + 1
  <2>1. b - 1 # i /\ b - 1 \in 0 .. Len(w) /\ b \in 0 .. Len(w)
    BY <1>2, <1>7, <1>11
  <2>2. d[b - 1] = c[b - 1] /\ d[b] = c[b]
    BY <1>3, <1>11, <2>1
  <2>. QED  BY <1>7, <1>8, <2>2 DEF b, s
<1>12. CASE b = i
  <2>1. d[i - 1] = c[i - 1] /\ d[i] = c[i] + n
    BY <1>3, <1>10
  <2>2. d[i - 1] <= v /\ v < d[i]
    BY <1>2, <1>6, <1>7, <1>9, <1>12, <2>1
  <2>. QED  BY <1>2, <1>8, <1>12, <2>2 DEF b, s
<1>13. CASE b = i + 1
  <2>1. /\ d[i - 1] = c[i - 1] /\ d[i] = c[i] + n /\ d[i + 1] = c[i + 1]
        /\ i + 1 - 1 = i
    <3>1. i + 1 \in 0 .. Len(w) /\ i + 1 # i /\ i + 1 - 1 = i
      BY <1>2
    <3>. QED  BY <1>3, <1>10, <3>1
  <2>2. c[i] <= v /\ v < c[i + 1]
    BY <1>7, <1>13, <2>1
  <2>3. CASE v < c[i] + n
    <3>1. d[i - 1] <= v /\ v < d[i]
      BY <1>6, <1>9, <1>10, <2>1, <2>2, <2>3
    <3>. QED  BY <1>2, <1>8, <1>13, <3>1 DEF b, s
  <2>4. CASE ~(v < c[i] + n)
    <3>1. d[i] <= v /\ v < d[i + 1]
      BY <1>2, <1>6, <1>9, <2>1, <2>2, <2>4
    <3>. QED  BY <1>2, <1>8, <1>13, <2>1, <3>1 DEF b, s
  <2>. QED  BY <2>3, <2>4
<1>. QED  BY <1>11, <1>12, <1>13

-----------------------------------------------------------------------------
(***************************************************************************)
(* fractional: the forms of its arguments                                  *)
(***************************************************************************)

\* The flat list of buckets fractional builds is a sequence.
LEMMA FlattenIsSequence ==
    ASSUME NEW S, NEW seqs \in Seq(Seq(S))
    PROVE  FlattenSeq(seqs) \in Seq(S)
<1>1. CASE seqs = <<>>
  BY <1>1 DEF FlattenSeq
<1>2. CASE seqs # <<>>
  <2>. DEFINE body(f) == [i \in 1 .. Len(seqs) |-> IF i = 1 THEN seqs[i] ELSE f[i - 1] \o seqs[i]]
              Upto(n) == {f \in [1 .. n -> Seq(S)] :
                            \A i \in 1 .. n : f[i] = IF i = 1 THEN seqs[i] ELSE f[i - 1] \o seqs[i]}
              c == CHOOSE f : f = body(f)
              Bad == {n \in 1 .. Len(seqs) : Upto(n) = {}}
  <2>1. Len(seqs) \in Nat \ {0} /\ \A i \in 1 .. Len(seqs) : seqs[i] \in Seq(S)
    BY <1>2
  <2>2. Bad = {}
    <3>1. SUFFICES ASSUME Bad # {} PROVE FALSE
      OBVIOUS
    <3>2. PICK n \in Bad : \A m \in Bad : n <= m
      <4>1. Bad \in SUBSET Nat
        OBVIOUS
      <4>. HIDE DEF Bad
      <4>. QED  BY <3>1, <4>1, Least, Zenon
    <3>3. n # 1
      <4>1. [i \in 1 .. 1 |-> seqs[1]] \in Upto(1)
        BY <2>1
      <4>. QED  BY <3>2, <4>1
    <3>4. n - 1 \in 1 .. Len(seqs) /\ n - 1 \notin Bad
      <4>1. n \in 1 .. Len(seqs) /\ ~(n <= n - 1) /\ n - 1 \in 1 .. Len(seqs)
        BY <2>1, <3>2, <3>3
      <4>. HIDE DEF Bad
      <4>. QED  BY <3>2, <4>1
    <3>5. PICK f \in Upto(n - 1) : TRUE
      BY <3>4
    <3>. DEFINE g == [i \in 1 .. n |-> IF i = n THEN f[n - 1] \o seqs[n] ELSE f[i]]
    <3>6. f[n - 1] \in Seq(S) /\ seqs[n] \in Seq(S) /\ n \in 1 .. Len(seqs)
      <4>1. n - 1 \in 1 .. n - 1
        BY <3>4
      <4>2. f[n - 1] \in Seq(S)
        BY <3>5, <4>1
      <4>. QED  BY <2>1, <3>2, <4>2
    <3>7. f[n - 1] \o seqs[n] \in Seq(S)
      BY <3>6
    <3>8. g \in [1 .. n -> Seq(S)]
      <4>1. ASSUME NEW i \in 1 .. n, i # n PROVE f[i] \in Seq(S)
        <5>1. i \in 1 .. n - 1
          BY <3>6, <4>1
        <5>. QED  BY <3>5, <5>1
      <4>. QED  BY <3>7, <4>1
    <3>9. ASSUME NEW i \in 1 .. n
          PROVE  g[i] = IF i = 1 THEN seqs[i] ELSE g[i - 1] \o seqs[i]
      <4>1. CASE i = n
        <5>1. i - 1 \in 1 .. n /\ i - 1 # n /\ i # 1
          BY <3>3, <3>6, <4>1
        <5>. QED  BY <4>1, <5>1
      <4>2. CASE i # n
        <5>1. i \in 1 .. n - 1
          BY <3>6, <4>2
        <5>2. f[i] = IF i = 1 THEN seqs[i] ELSE f[i - 1] \o seqs[i]
          BY <3>5, <5>1
        <5>3. i # 1 => i - 1 \in 1 .. n /\ i - 1 # n
          BY <3>6, <5>1
        <5>. QED  BY <4>2, <5>2, <5>3
      <4>. QED  BY <4>1, <4>2
    <3>10. g \in Upto(n)
      BY <3>8, <3>9
    <3>. QED  BY <3>2, <3>10
  <2>3. PICK f \in Upto(Len(seqs)) : TRUE
    <3>1. Len(seqs) \in 1 .. Len(seqs)
      BY <2>1
    <3>. QED  BY <2>2, <3>1
  <2>4. f = body(f)
    BY <2>3
  <2>5. c = body(c)
    <3>. HIDE DEF body
    <3>. QED  BY <2>4
  <2>6. FlattenSeq(seqs) = c[Len(seqs)]
    BY <2>1 DEF FlattenSeq
  <2>. HIDE DEF c
  <2>7. \A n \in 1 .. Len(seqs) : c[n] \in Seq(S)
    <3>. DEFINE Odd == {n \in 1 .. Len(seqs) : c[n] \notin Seq(S)}
    <3>1. SUFFICES ASSUME Odd # {} PROVE FALSE
      OBVIOUS
    <3>2. PICK n \in Odd : \A m \in Odd : n <= m
      <4>1. Odd \in SUBSET Nat
        OBVIOUS
      <4>. HIDE DEF Odd
      <4>. QED  BY <3>1, <4>1, Least, Zenon
    <3>3. n \in 1 .. Len(seqs) /\ seqs[n] \in Seq(S)
      BY <2>1, <3>2
    <3>4. n # 1
      BY <2>5, <3>2, <3>3
    <3>5. c[n - 1] \in Seq(S)
      BY <3>2, <3>4
    <3>6. c[n] = c[n - 1] \o seqs[n]
      BY <2>5, <3>3, <3>4
    <3>7. c[n] \in Seq(S)
      BY <3>3, <3>5, <3>6
    <3>. QED  BY <3>2, <3>7
  <2>. QED  BY <2>1, <2>6, <2>7
<1>. QED  BY <1>1, <1>2

\* A sequence over a set is one over every larger set.
LEMMA WiderSequence ==
    ASSUME NEW S, NEW T, S \subseteq T, NEW s \in Seq(S)
    PROVE  s \in Seq(T)
<1>1. \A i \in 1 .. Len(s) : s[i] \in T
  OBVIOUS
<1>. QED  BY <1>1

\* In all its forms, the call of fractional yields a sequence of names and
\* weights.
LEMMA FlatIsSequence ==
    ASSUME NEW args, TypedArguments(args), Accepted(args)
    PROVE  \E S : FlatBuckets(args) \in Seq(S)
<1>. DEFINE A == {args[i] : i \in DOMAIN args}
            buckets == BucketArgs(args)
            each == [i \in DOMAIN buckets |-> BucketOf(buckets[i])]
<1>1. args \in Seq(A) /\ args # <<>>
  BY DEF TypedArguments, IsSequence, Accepted
<1>2. /\ buckets \in Seq(A)
      /\ \A i \in 1 .. Len(buckets) : buckets[i].type = "array" /\ IsSequence(buckets[i].items)
  <2>1. \A i \in 1 .. Len(buckets) : buckets[i].type = "array"
    <3>1. buckets \in Seq(A)
      <4>. HIDE DEF A
      <4>. QED  BY <1>1 DEF BucketArgs
    <3>. QED  BY <3>1 DEF Accepted
  <2>2. buckets \in Seq(A)
    <3>. HIDE DEF A
    <3>. QED  BY <1>1 DEF BucketArgs
  <2>3. \A x \in A : x.type = "array" => IsSequence(x.items)
    BY DEF TypedArguments
  <2>4. \A i \in 1 .. Len(buckets) : buckets[i] \in A
    <3>. HIDE DEF A, buckets
    <3>. QED  BY <2>2
  <2>. HIDE DEF A, buckets
  <2>. QED  BY <2>1, <2>2, <2>3, <2>4
<1>3. CASE IsExplicit(args) /\ Len(args) = 2
  <2>1. FlatBuckets(args) = args[2].items
    BY <1>3 DEF FlatBuckets
  <2>2. Len(buckets) = 1 /\ buckets[1] = args[2]
    <3>1. buckets = Tail(args)
      BY <1>3 DEF BucketArgs
    <3>. HIDE DEF A, buckets
    <3>2. Len(args) = 2 /\ args \in Seq(A)
      BY <1>1, <1>3
    <3>3. Len(Tail(args)) = 1
      BY <3>2
    <3>4. Tail(args)[1] = args[2]
      BY <3>2, <3>3
    <3>. QED  BY <3>1, <3>3, <3>4
  <2>3. IsSequence(args[2].items)
    <3>. HIDE DEF buckets, A
    <3>. QED  BY <1>2, <2>2
  <2>. QED  BY <2>1, <2>3 DEF IsSequence
<1>4. CASE ~(IsExplicit(args) /\ Len(args) = 2)
  <2>. DEFINE one == Num(1)
              I(i) == {buckets[i].items[j] : j \in DOMAIN buckets[i].items}
              U == {one} \cup UNION {I(i) : i \in 1 .. Len(buckets)}
  <2>1. FlatBuckets(args) = FlattenSeq(each)
    BY <1>4, Zenon DEF FlatBuckets
  <2>. HIDE DEF A, buckets
  <2>2. DOMAIN buckets = 1 .. Len(buckets) /\ Len(buckets) \in Nat
    BY <1>2
  <2>3. ASSUME NEW i \in 1 .. Len(buckets) PROVE BucketOf(buckets[i]) \in Seq(U)
    <3>. DEFINE items == buckets[i].items
    <3>1. items \in Seq(I(i))
      BY <1>2 DEF IsSequence
    <3>. HIDE DEF I
    <3>2. I(i) \subseteq U
      OBVIOUS
    <3>. HIDE DEF one
    <3>3. one \in U
      OBVIOUS
    <3>. HIDE DEF U
    <3>4. items \in Seq(U)
      BY <3>1, <3>2, WiderSequence
    <3>. HIDE DEF items
    <3>5. CASE Len(items) >= 2
      <4>1. SubSeq(items, 1, 2) \in Seq(U)
        BY <3>4, <3>5
      <4>. QED  BY <3>5, <4>1 DEF BucketOf, items
    <3>6. CASE Len(items) = 1
      <4>1. Append(items, one) \in Seq(U)
        BY <3>3, <3>4
      <4>. QED  BY <3>6, <4>1 DEF BucketOf, items, one
    <3>7. CASE ~(Len(items) >= 2) /\ Len(items) # 1
      BY <3>7 DEF BucketOf, items
    <3>. QED  BY <3>5, <3>6, <3>7
  <2>4. each \in Seq(Seq(U))
    <3>. HIDE DEF U
    <3>. QED  BY <2>2, <2>3
  <2>. QED  BY <2>1, <2>4, FlattenIsSequence
<1>. QED  BY <1>3, <1>4

\* What fractional accepts is a list of weights as the proofs above assume it.
LEMMA AcceptedIsWeighted ==
    ASSUME NEW args, TypedArguments(args), Accepted(args)
    PROVE  Weighted(Weights(FlatBuckets(args)))
<1>. DEFINE flat == FlatBuckets(args)
<1>1. PICK S : flat \in Seq(S)
  BY FlatIsSequence
<1>2. WellFormed(flat) /\ TotalAccepted(TotalWeight(Weights(flat)))
  BY DEF Accepted
<1>. HIDE DEF flat
<1>3. Len(flat) \in Nat /\ Len(flat) # 0 /\ Len(flat) % 2 = 0
  BY <1>1, <1>2 DEF WellFormed
<1>4. Len(flat) \div 2 \in Nat \ {0} /\ 2 * (Len(flat) \div 2) <= Len(flat)
  BY <1>3
<1>5. ASSUME NEW i \in 1 .. Len(flat) \div 2 PROVE flat[2 * i].number \in Nat
  <2>1. 2 * i \in 1 .. Len(flat) /\ (2 * i) % 2 # 1
    BY <1>3, <1>4
  <2>2. flat[2 * i].number \in 0 .. Wide - 1
    BY <1>1, <1>2, <2>1 DEF WellFormed
  <2>. QED  BY <2>2, HashAssumption DEF Wide
<1>6. Weights(flat) \in Seq(Nat) /\ Len(Weights(flat)) = Len(flat) \div 2
  BY <1>4, <1>5 DEF Weights
<1>7. Weights(flat) # <<>>
  BY <1>4, <1>6
<1>. QED  BY <1>2, <1>6, <1>7 DEF Weighted, flat

-----------------------------------------------------------------------------
(***************************************************************************)
(* sem_ver: comparisons                                                    *)
(***************************************************************************)

\* Less, Equal and Greater.
Signs == {-1, 0, 1}
Ids   == [number : Int, rank : Int]

\* FirstDifference is the first comparison that is not Equal.
LEMMA FirstDifferenceFacts ==
    ASSUME NEW orders \in Seq(Int)
    PROVE  \/ /\ FirstDifference(orders) = 0
              /\ \A i \in 1 .. Len(orders) : orders[i] = 0
           \/ \E k \in 1 .. Len(orders) :
                 /\ FirstDifference(orders) = orders[k] /\ orders[k] # 0
                 /\ \A i \in 1 .. Len(orders) : i < k => orders[i] = 0
<1>. DEFINE different == {i \in DOMAIN orders : orders[i] # 0}
<1>1. CASE different = {}
  BY <1>1 DEF FirstDifference
<1>2. CASE different # {}
  <2>. DEFINE k == CHOOSE i \in different : \A j \in different : i <= j
  <2>1. \E i \in different : \A j \in different : i <= j
    <3>1. different \in SUBSET Nat
      OBVIOUS
    <3>. HIDE DEF different
    <3>. QED  BY <1>2, <3>1, Least, Zenon
  <2>2. k \in different /\ \A j \in different : k <= j
    <3>. HIDE DEF different
    <3>. QED  BY <2>1, Zenon
  <2>3. FirstDifference(orders) = orders[k]
    BY <1>2 DEF FirstDifference
  <2>. HIDE DEF k
  <2>4. k \in 1 .. Len(orders) /\ orders[k] # 0
    BY <2>2
  <2>5. ASSUME NEW i \in 1 .. Len(orders), i < k PROVE orders[i] = 0
    BY <2>2, <2>4, <2>5
  <2>. QED  BY <2>3, <2>4, <2>5
<1>. QED  BY <1>1, <1>2

\* The same for the four comparisons of two versions.
LEMMA FirstOfFour ==
    ASSUME NEW a \in Int, NEW b \in Int, NEW c \in Int, NEW d \in Int
    PROVE  FirstDifference(<<a, b, c, d>>) =
             IF a # 0 THEN a ELSE IF b # 0 THEN b ELSE IF c # 0 THEN c ELSE d
<1>. DEFINE s == <<a, b, c, d>>
<1>1. s \in Seq(Int) /\ Len(s) = 4 /\ s[1] = a /\ s[2] = b /\ s[3] = c /\ s[4] = d
  OBVIOUS
<1>. HIDE DEF s
<1>2. \/ /\ FirstDifference(s) = 0
         /\ \A i \in 1 .. 4 : s[i] = 0
      \/ \E k \in 1 .. 4 :
            /\ FirstDifference(s) = s[k] /\ s[k] # 0
            /\ \A i \in 1 .. 4 : i < k => s[i] = 0
  BY <1>1, FirstDifferenceFacts
<1>3. CASE FirstDifference(s) = 0 /\ \A i \in 1 .. 4 : s[i] = 0
  BY <1>1, <1>3 DEF s
<1>4. CASE \E k \in 1 .. 4 :
              /\ FirstDifference(s) = s[k] /\ s[k] # 0
              /\ \A i \in 1 .. 4 : i < k => s[i] = 0
  <2>1. PICK k \in 1 .. 4 : /\ FirstDifference(s) = s[k] /\ s[k] # 0
                            /\ \A i \in 1 .. 4 : i < k => s[i] = 0
    BY <1>4
  <2>2. k = 1 \/ k = 2 \/ k = 3 \/ k = 4
    OBVIOUS
  <2>3. /\ k > 1 => a = 0
        /\ k > 2 => b = 0
        /\ k > 3 => c = 0
    BY <1>1, <2>1, <2>2
  <2>. QED  BY <1>1, <2>1, <2>2, <2>3 DEF s
<1>. QED  BY <1>2, <1>3, <1>4

\* The comparison of numbers is a total preorder.
LEMMA OrderFacts ==
    ASSUME NEW a \in Int, NEW b \in Int, NEW c \in Int
    PROVE  /\ Order(a, b) \in Signs /\ Order(b, a) + Order(a, b) = 0
           /\ Order(a, b) # 1 /\ Order(b, c) # 1 => Order(a, c) # 1
BY DEF Order, Signs

\* The comparison of identifiers is a total preorder: numbers come before
\* words, numbers are ordered by value and words by their bytes.
LEMMA IdentifierFacts ==
    ASSUME NEW a \in Ids, NEW b \in Ids, NEW c \in Ids
    PROVE  /\ CompareIdentifiers(a, b) \in Signs
           /\ CompareIdentifiers(b, a) + CompareIdentifiers(a, b) = 0
           /\ CompareIdentifiers(a, b) # 1 /\ CompareIdentifiers(b, c) # 1
                 => CompareIdentifiers(a, c) # 1
<1>1. /\ a.number \in Int /\ a.rank \in Int /\ b.number \in Int /\ b.rank \in Int
      /\ c.number \in Int /\ c.rank \in Int
  BY DEF Ids
<1>2. IsNumeric(a) \in BOOLEAN /\ IsNumeric(b) \in BOOLEAN /\ IsNumeric(c) \in BOOLEAN
  BY DEF IsNumeric
<1>. QED  BY <1>1, <1>2 DEF CompareIdentifiers, Order, Signs

\* The comparison of two lists of identifiers at position i; the end of a list
\* comes before every identifier.
At(s, t, i) ==
    IF i <= Len(s) THEN IF i <= Len(t) THEN CompareIdentifiers(s[i], t[i]) ELSE 1
    ELSE IF i <= Len(t) THEN -1 ELSE 0

\* The positions of a list, past its end too.
Positions == Nat \ {0}

\* At every position the comparison is a total preorder.
LEMMA AtFacts ==
    ASSUME NEW s \in Seq(Ids), NEW t \in Seq(Ids), NEW u \in Seq(Ids), NEW i \in Positions
    PROVE  /\ At(s, t, i) \in Signs /\ At(t, s, i) + At(s, t, i) = 0
           /\ At(s, t, i) # 1 /\ At(t, u, i) # 1 => At(s, u, i) # 1
<1>1. /\ i <= Len(s) => s[i] \in Ids
      /\ i <= Len(t) => t[i] \in Ids
      /\ i <= Len(u) => u[i] \in Ids
  BY DEF Positions
<1>2. i <= Len(s) /\ i <= Len(t) =>
         /\ At(s, t, i) = CompareIdentifiers(s[i], t[i])
         /\ At(t, s, i) = CompareIdentifiers(t[i], s[i])
         /\ CompareIdentifiers(s[i], t[i]) \in Signs
         /\ CompareIdentifiers(t[i], s[i]) + CompareIdentifiers(s[i], t[i]) = 0
  BY <1>1, IdentifierFacts DEF At
<1>3. At(s, t, i) \in Signs /\ At(t, s, i) + At(s, t, i) = 0
  <2>1. CASE i <= Len(s) /\ i <= Len(t)
    BY <1>2, <2>1
  <2>2. CASE ~(i <= Len(s) /\ i <= Len(t))
    BY <2>2 DEF At, Signs
  <2>. QED  BY <2>1, <2>2
<1>4. ASSUME At(s, t, i) # 1, At(t, u, i) # 1 PROVE At(s, u, i) # 1
  <2>1. CASE i <= Len(s) /\ i <= Len(t) /\ i <= Len(u)
    BY <1>1, <1>4, <2>1, IdentifierFacts DEF At
  <2>2. CASE ~(i <= Len(s) /\ i <= Len(t) /\ i <= Len(u))
    BY <1>4, <2>2 DEF At
  <2>. QED  BY <2>1, <2>2
<1>. QED  BY <1>3, <1>4

\* Two lists compare as r when their first difference does.
Decides(s, t, r) ==
    \/ r = 0 /\ \A i \in Positions : At(s, t, i) = 0
    \/ r # 0 /\ \E k \in Positions :
          At(s, t, k) = r /\ \A i \in Positions : i < k => At(s, t, i) = 0

\* The comparison of two lists of identifiers is decided by their first
\* difference, the shorter list coming first.
LEMMA ListComparison ==
    ASSUME NEW s \in Seq(Ids), NEW t \in Seq(Ids)
    PROVE  Decides(s, t, ComparePrerelease(<<s>>, <<t>>))
<1>. DEFINE m == IF Len(s) < Len(t) THEN Len(s) ELSE Len(t)
            pairs == [i \in 1 .. m |-> CompareIdentifiers(s[i], t[i])]
            last == Order(Len(s), Len(t))
            orders == pairs \o <<last>>
            r == FirstDifference(orders)
<1>1. ComparePrerelease(<<s>>, <<t>>) = r
  <2>1. <<s>> # <<>> /\ <<t>> # <<>> /\ <<s>>[1] = s /\ <<t>>[1] = t
    OBVIOUS
  <2>. QED  BY <2>1 DEF ComparePrerelease
<1>2. m \in Nat /\ m <= Len(s) /\ m <= Len(t) /\ (m = Len(s) \/ m = Len(t))
      /\ Len(s) \in Nat /\ Len(t) \in Nat
  OBVIOUS
<1>. HIDE DEF m
<1>3. last \in Int
  BY <1>2 DEF Order
<1>4. \A i \in 1 .. m : CompareIdentifiers(s[i], t[i]) \in Int
  <2>1. ASSUME NEW i \in 1 .. m PROVE CompareIdentifiers(s[i], t[i]) \in Int
    <3>1. s[i] \in Ids /\ t[i] \in Ids
      BY <1>2
    <3>. QED  BY <3>1, IdentifierFacts DEF Signs
  <2>. QED  BY <2>1
<1>5. pairs \in Seq(Int) /\ Len(pairs) = m
  BY <1>2, <1>4
<1>6. /\ orders \in Seq(Int) /\ Len(orders) = m + 1
      /\ \A i \in 1 .. m : orders[i] = CompareIdentifiers(s[i], t[i])
      /\ orders[m + 1] = last
  <2>1. \A i \in 1 .. m : pairs[i] = CompareIdentifiers(s[i], t[i])
    OBVIOUS
  <2>. HIDE DEF pairs, last
  <2>. QED  BY <1>2, <1>3, <1>5, <2>1
<1>. HIDE DEF pairs, orders, r
<1>7. ASSUME NEW i \in 1 .. m + 1 PROVE orders[i] = At(s, t, i)
  <2>1. CASE i \in 1 .. m
    BY <1>2, <1>6, <2>1 DEF At
  <2>2. CASE i = m + 1
    BY <1>2, <1>6, <2>2 DEF At, Order
  <2>. QED  BY <1>2, <2>1, <2>2
<1>8. ASSUME NEW i \in Positions, i > m + 1, At(s, t, m + 1) = 0 PROVE At(s, t, i) = 0
  BY <1>2, <1>8 DEF At, Positions
<1>9. CASE r = 0 /\ \A i \in 1 .. m + 1 : orders[i] = 0
  <2>1. ASSUME NEW i \in Positions PROVE At(s, t, i) = 0
    BY <1>2, <1>7, <1>8, <1>9 DEF Positions
  <2>. QED  BY <1>1, <1>9, <2>1 DEF Decides
<1>10. CASE \E k \in 1 .. m + 1 : /\ r = orders[k] /\ orders[k] # 0
                                 /\ \A i \in 1 .. m + 1 : i < k => orders[i] = 0
  <2>1. PICK k \in 1 .. m + 1 : /\ r = orders[k] /\ orders[k] # 0
                                /\ \A i \in 1 .. m + 1 : i < k => orders[i] = 0
    BY <1>10
  <2>2. k \in Positions /\ At(s, t, k) = r /\ r # 0
    BY <1>2, <1>7, <2>1 DEF Positions
  <2>3. ASSUME NEW i \in Positions, i < k PROVE At(s, t, i) = 0
    <3>1. i \in 1 .. m + 1
      BY <1>2, <2>3 DEF Positions
    <3>. QED  BY <1>7, <2>1, <2>3, <3>1
  <2>. QED  BY <1>1, <2>2, <2>3 DEF Decides
<1>. QED  BY <1>6, <1>9, <1>10, FirstDifferenceFacts DEF r

\* Two lists have one first difference.
LEMMA DecidesOnce ==
    ASSUME NEW s \in Seq(Ids), NEW t \in Seq(Ids), NEW r, NEW q,
           Decides(s, t, r), Decides(s, t, q)
    PROVE  r = q
<1>1. CASE r = 0 \/ q = 0
  BY <1>1 DEF Decides
<1>2. CASE r # 0 /\ q # 0
  <2>1. PICK k \in Positions : At(s, t, k) = r /\ \A i \in Positions : i < k => At(s, t, i) = 0
    BY <1>2 DEF Decides
  <2>2. PICK l \in Positions : At(s, t, l) = q /\ \A i \in Positions : i < l => At(s, t, i) = 0
    BY <1>2 DEF Decides
  <2>3. ~(k < l) /\ ~(l < k)
    BY <1>2, <2>1, <2>2
  <2>4. k = l
    BY <2>3 DEF Positions
  <2>. QED  BY <2>1, <2>2, <2>4
<1>. QED  BY <1>1, <1>2

\* Two lists compare one way, and the other way round when swapped.
LEMMA ListFacts ==
    ASSUME NEW s \in Seq(Ids), NEW t \in Seq(Ids)
    PROVE  /\ ComparePrerelease(<<s>>, <<t>>) \in Signs
           /\ ComparePrerelease(<<t>>, <<s>>) + ComparePrerelease(<<s>>, <<t>>) = 0
<1>. DEFINE r == ComparePrerelease(<<s>>, <<t>>)
<1>1. Decides(s, t, r)
  BY ListComparison
<1>. HIDE DEF r
<1>2. r \in Signs
  BY <1>1, AtFacts DEF Decides, Signs
<1>3. ASSUME NEW q \in Signs, q + r = 0 PROVE Decides(t, s, q)
  <2>1. CASE r = 0
    <3>1. \A i \in Positions : At(t, s, i) = 0
      BY <1>1, <2>1, AtFacts DEF Decides, Signs
    <3>2. q = 0
      BY <1>3, <2>1 DEF Signs
    <3>. QED  BY <3>1, <3>2 DEF Decides
  <2>2. CASE r # 0
    <3>1. PICK k \in Positions : At(s, t, k) = r /\ \A i \in Positions : i < k => At(s, t, i) = 0
      BY <1>1, <2>2 DEF Decides
    <3>2. At(t, s, k) = q /\ q # 0
      BY <1>2, <1>3, <2>2, <3>1, AtFacts DEF Signs
    <3>3. \A i \in Positions : i < k => At(t, s, i) = 0
      BY <3>1, AtFacts DEF Signs
    <3>. QED  BY <3>2, <3>3 DEF Decides
  <2>. QED  BY <2>1, <2>2
<1>4. Decides(t, s, ComparePrerelease(<<t>>, <<s>>))
  BY ListComparison
<1>5. PICK q \in Signs : q + r = 0
  BY <1>2 DEF Signs
<1>6. ComparePrerelease(<<t>>, <<s>>) = q
  BY <1>3, <1>4, <1>5, DecidesOnce
<1>. QED  BY <1>2, <1>5, <1>6 DEF r

\* The comparison of lists is transitive.
LEMMA ListTransitive ==
    ASSUME NEW s \in Seq(Ids), NEW t \in Seq(Ids), NEW u \in Seq(Ids),
           ComparePrerelease(<<s>>, <<t>>) # 1, ComparePrerelease(<<t>>, <<u>>) # 1
    PROVE  ComparePrerelease(<<s>>, <<u>>) # 1
<1>. DEFINE r == ComparePrerelease(<<s>>, <<u>>)
<1>1. SUFFICES ASSUME r = 1 PROVE FALSE
  OBVIOUS
<1>2. PICK k \in Positions : At(s, u, k) = 1 /\ \A i \in Positions : i < k => At(s, u, i) = 0
  <2>1. Decides(s, u, 1)
    BY <1>1, ListComparison
  <2>. QED  BY <2>1 DEF Decides
<1>3. At(s, t, k) = 1 \/ At(t, u, k) = 1
  BY <1>2, AtFacts
<1>. DEFINE Apart == {i \in Positions : At(s, t, i) # 0 \/ At(t, u, i) # 0}
<1>4. PICK l \in Apart : \A i \in Apart : l <= i
  <2>1. Apart \in SUBSET Nat /\ k \in Apart
    BY <1>3 DEF Positions
  <2>. HIDE DEF Apart
  <2>. QED  BY <2>1, Least, Zenon
<1>5. l \in Positions /\ l <= k /\ \A i \in Positions : i < l => At(s, t, i) = 0 /\ At(t, u, i) = 0
  BY <1>3, <1>4 DEF Positions
<1>6. At(s, t, l) # 1
  <2>1. SUFFICES ASSUME At(s, t, l) = 1 PROVE FALSE
    OBVIOUS
  <2>2. Decides(s, t, 1)
    BY <1>5, <2>1 DEF Decides
  <2>. QED  BY <2>2, ListComparison, DecidesOnce
<1>7. At(t, u, l) # 1
  <2>1. SUFFICES ASSUME At(t, u, l) = 1 PROVE FALSE
    OBVIOUS
  <2>2. Decides(t, u, 1)
    BY <1>5, <2>1 DEF Decides
  <2>. QED  BY <2>2, ListComparison, DecidesOnce
<1>8. At(s, u, l) # 1
  BY <1>5, <1>6, <1>7, AtFacts
<1>9. At(s, u, l) = 0
  BY <1>2, <1>5, <1>8 DEF Positions
<1>10. At(u, s, l) # 1 /\ (At(s, t, l) # 0 \/ At(t, u, l) # 0)
  BY <1>4, <1>5, <1>9, AtFacts
<1>11. At(t, s, l) # 1 /\ At(u, t, l) # 1
  BY <1>5, <1>6, <1>7, <1>10, AtFacts
<1>12. ASSUME NEW a \in Seq(Ids), NEW b \in Seq(Ids), At(a, b, l) # 1, At(b, a, l) # 1
       PROVE  At(a, b, l) = 0
  <2>1. /\ At(a, b, l) \in Signs /\ At(b, a, l) \in Signs
        /\ At(b, a, l) + At(a, b, l) = 0
    BY <1>5, AtFacts
  <2>. QED  BY <1>12, <2>1 DEF Signs
<1>13. At(s, t, l) = 0 /\ At(t, u, l) = 0
  BY <1>6, <1>7, <1>11, <1>12
<1>. QED  BY <1>10, <1>13

\* No prerelease, or one with a list of identifiers.
Prereleases == {<<>>} \cup {<<ids>> : ids \in Seq(Ids)}

\* A version without a prerelease comes last, and the comparison of
\* prereleases is total.
LEMMA PrereleaseFacts ==
    ASSUME NEW a \in Prereleases, NEW b \in Prereleases
    PROVE  /\ ComparePrerelease(a, b) \in Signs
           /\ ComparePrerelease(b, a) + ComparePrerelease(a, b) = 0
           /\ a = <<>> => ComparePrerelease(a, b) = IF b = <<>> THEN 0 ELSE 1
<1>1. \A c \in Prereleases : c # <<>> => Len(c) = 1
  BY DEF Prereleases
<1>2. CASE a = <<>> \/ b = <<>>
  <2>1. a = <<>> => Len(a) = 0
    OBVIOUS
  <2>2. b = <<>> => Len(b) = 0
    OBVIOUS
  <2>. QED  BY <1>1, <1>2, <2>1, <2>2 DEF ComparePrerelease, Order, Signs
<1>3. CASE a # <<>> /\ b # <<>>
  <2>1. PICK s \in Seq(Ids) : a = <<s>>
    BY <1>3 DEF Prereleases
  <2>2. PICK t \in Seq(Ids) : b = <<t>>
    BY <1>3 DEF Prereleases
  <2>. QED  BY <1>3, <2>1, <2>2, ListFacts
<1>. QED  BY <1>2, <1>3

\* The comparison of prereleases is transitive.
LEMMA PrereleaseTransitive ==
    ASSUME NEW a \in Prereleases, NEW b \in Prereleases, NEW c \in Prereleases,
           ComparePrerelease(a, b) # 1, ComparePrerelease(b, c) # 1
    PROVE  ComparePrerelease(a, c) # 1
<1>1. CASE a # <<>> /\ b # <<>> /\ c # <<>>
  <2>1. PICK s \in Seq(Ids) : a = <<s>>
    BY <1>1 DEF Prereleases
  <2>2. PICK t \in Seq(Ids) : b = <<t>>
    BY <1>1 DEF Prereleases
  <2>3. PICK u \in Seq(Ids) : c = <<u>>
    BY <1>1 DEF Prereleases
  <2>. QED  BY <2>1, <2>2, <2>3, ListTransitive
<1>2. CASE ~(a # <<>> /\ b # <<>> /\ c # <<>>)
  <2>1. <<>> \in Prereleases
    BY DEF Prereleases
  <2>2. ASSUME NEW d \in Prereleases
        PROVE  /\ ComparePrerelease(<<>>, d) = IF d = <<>> THEN 0 ELSE 1
               /\ ComparePrerelease(d, <<>>) = IF d = <<>> THEN 0 ELSE -1
    <3>1. ComparePrerelease(<<>>, d) = IF d = <<>> THEN 0 ELSE 1
      BY <2>1, PrereleaseFacts
    <3>2. /\ ComparePrerelease(<<>>, d) + ComparePrerelease(d, <<>>) = 0
          /\ ComparePrerelease(d, <<>>) \in Signs
      BY <2>1, PrereleaseFacts
    <3>. QED  BY <3>1, <3>2 DEF Signs
  <2>4. CASE a = <<>>
    <3>1. b = <<>>
      BY <2>2, <2>4
    <3>2. c = <<>>
      BY <2>2, <3>1
    <3>. QED  BY <2>2, <2>4, <3>2
  <2>5. CASE a # <<>> /\ c = <<>>
    BY <2>2, <2>5
  <2>6. CASE a # <<>> /\ c # <<>>
    <3>1. b = <<>>
      BY <1>2, <2>6
    <3>. QED  BY <2>2, <2>6, <3>1
  <2>. QED  BY <2>4, <2>5, <2>6
<1>. QED  BY <1>1, <1>2

\* A parsed version.
IsVersion(v) ==
    /\ v.major \in Int /\ v.minor \in Int /\ v.patch \in Int
    /\ v.prerelease \in Prereleases

\* Versions are ordered by major, minor and patch and then by prerelease.
LEMMA CompareIs ==
    ASSUME NEW v, NEW w, IsVersion(v), IsVersion(w)
    PROVE  Compare(v, w) =
             IF v.major # w.major THEN Order(v.major, w.major)
             ELSE IF v.minor # w.minor THEN Order(v.minor, w.minor)
             ELSE IF v.patch # w.patch THEN Order(v.patch, w.patch)
             ELSE ComparePrerelease(v.prerelease, w.prerelease)
<1>. DEFINE a == Order(v.major, w.major)
            b == Order(v.minor, w.minor)
            c == Order(v.patch, w.patch)
            d == ComparePrerelease(v.prerelease, w.prerelease)
<1>1. a \in Int /\ b \in Int /\ c \in Int /\ d \in Int
  <2>1. \A m, n \in Int : Order(m, n) \in Int
    BY DEF Order
  <2>2. d \in Int
    BY PrereleaseFacts DEF IsVersion, Signs
  <2>. QED  BY <2>1, <2>2 DEF IsVersion
<1>2. /\ a = 0 <=> v.major = w.major
      /\ b = 0 <=> v.minor = w.minor
      /\ c = 0 <=> v.patch = w.patch
  BY DEF IsVersion, Order
<1>3. Compare(v, w) = FirstDifference(<<a, b, c, d>>)
  BY DEF Compare
<1>. HIDE DEF a, b, c, d
<1>4. Compare(v, w) = IF a # 0 THEN a ELSE IF b # 0 THEN b ELSE IF c # 0 THEN c ELSE d
  BY <1>1, <1>3, FirstOfFour
<1>. QED  BY <1>2, <1>4 DEF a, b, c, d

\* Two versions compare one way, and the other way round when swapped.
LEMMA CompareFacts ==
    ASSUME NEW v, NEW w, IsVersion(v), IsVersion(w)
    PROVE  Compare(v, w) \in Signs /\ Compare(w, v) + Compare(v, w) = 0
<1>1. /\ ComparePrerelease(v.prerelease, w.prerelease) \in Signs
      /\ ComparePrerelease(w.prerelease, v.prerelease) + ComparePrerelease(v.prerelease, w.prerelease) = 0
  BY PrereleaseFacts DEF IsVersion
<1>. DEFINE p == ComparePrerelease(v.prerelease, w.prerelease)
            q == ComparePrerelease(w.prerelease, v.prerelease)
<1>2. /\ Compare(v, w) = IF v.major # w.major THEN Order(v.major, w.major)
                         ELSE IF v.minor # w.minor THEN Order(v.minor, w.minor)
                         ELSE IF v.patch # w.patch THEN Order(v.patch, w.patch) ELSE p
      /\ Compare(w, v) = IF w.major # v.major THEN Order(w.major, v.major)
                         ELSE IF w.minor # v.minor THEN Order(w.minor, v.minor)
                         ELSE IF w.patch # v.patch THEN Order(w.patch, v.patch) ELSE q
  BY CompareIs
<1>3. p \in Signs /\ q \in Signs /\ q + p = 0
  BY <1>1, PrereleaseFacts DEF IsVersion
<1>. HIDE DEF p, q
<1>. QED  BY <1>2, <1>3 DEF IsVersion, Order, Signs

\* The comparison of versions is transitive.
LEMMA CompareTransitive ==
    ASSUME NEW u, NEW v, NEW w, IsVersion(u), IsVersion(v), IsVersion(w),
           Compare(u, v) # 1, Compare(v, w) # 1
    PROVE  Compare(u, w) # 1
<1>1. /\ ComparePrerelease(u.prerelease, v.prerelease) # 1
         /\ ComparePrerelease(v.prerelease, w.prerelease) # 1
            => ComparePrerelease(u.prerelease, w.prerelease) # 1
  BY PrereleaseTransitive DEF IsVersion
<1>. QED  BY <1>1, CompareIs DEF IsVersion, Order

\* A valid text parses to a version.
LEMMA ParseIsVersion ==
    ASSUME NEW text, TypedText(text), Valid(text)
    PROVE  /\ IsVersion(Parse(text)) /\ Parse(text).prerelease = text.prerelease
           /\ Parse(text).major \in Nat /\ Parse(text).minor \in Nat /\ Parse(text).patch \in Nat
<1>1. \A i \in 1 .. 3 : Core(text, i) \in Nat
  BY NumberAssumption DEF TypedText, Valid, Core
<1>2. text.prerelease \in Prereleases
  BY DEF TypedText, Prereleases, Ids
<1>. QED  BY <1>1, <1>2 DEF Parse, IsVersion

\* The operators on valid texts, in terms of the comparison.
LEMMA SemVerIs ==
    ASSUME NEW v, NEW w, Valid(v), Valid(w)
    PROVE  /\ SemVer(v, "=", w)  <=> Compare(Parse(v), Parse(w)) = 0
           /\ SemVer(v, "!=", w) <=> Compare(Parse(v), Parse(w)) # 0
           /\ SemVer(v, "<", w)  <=> Compare(Parse(v), Parse(w)) = -1
           /\ SemVer(v, "<=", w) <=> Compare(Parse(v), Parse(w)) # 1
           /\ SemVer(v, ">", w)  <=> Compare(Parse(v), Parse(w)) = 1
           /\ SemVer(v, ">=", w) <=> Compare(Parse(v), Parse(w)) # -1
           /\ SemVer(v, "^", w)  <=> CaretRange(Parse(v), Parse(w))
           /\ SemVer(v, "~", w)  <=> TildeRange(Parse(v), Parse(w))
BY DEF SemVer, Holds, Operators

\* For every set of texts, <= is a total preorder of the valid versions, the other
\* five comparison operators of sem_ver are those it defines, and all are false
\* elsewhere.
THEOREM PrecedenceIsTotalPreorder ==
    ASSUME NEW texts, \A v \in texts : TypedText(v), NEW target, TypedText(target)
    PROVE  Precedence(texts, target)
<1>1. SUFFICES ASSUME NEW v \in texts
               PROVE  IF Valid(v) /\ Valid(target)
          THEN /\ SemVer(v, ">=", target) <=> SemVer(target, "<=", v)
               /\ SemVer(v, "=", target) <=> SemVer(v, "<=", target) /\ SemVer(target, "<=", v)
               /\ SemVer(v, "!=", target) <=> ~SemVer(v, "=", target)
               /\ SemVer(v, "<", target) <=> ~SemVer(target, "<=", v)
               /\ SemVer(v, ">", target) <=> ~SemVer(v, "<=", target)
               /\ SemVer(v, "<=", target) \/ SemVer(target, "<=", v)
               /\ \A w \in texts :
                     SemVer(v, "<=", w) /\ SemVer(w, "<=", target) => SemVer(v, "<=", target)
          ELSE \A op \in Operators : ~SemVer(v, op, target)
  BY DEF Precedence
<1>2. CASE ~(Valid(v) /\ Valid(target))
  BY <1>2 DEF SemVer
<1>3. CASE Valid(v) /\ Valid(target)
  <2>2. ASSUME NEW w \in texts, SemVer(v, "<=", w), SemVer(w, "<=", target)
        PROVE  SemVer(v, "<=", target)
    <3>1. Valid(w)
      BY <2>2 DEF SemVer
    <3>2. Compare(Parse(v), Parse(w)) # 1 /\ Compare(Parse(w), Parse(target)) # 1
      BY <1>3, <2>2, <3>1, SemVerIs
    <3>3. Compare(Parse(v), Parse(target)) # 1
      BY <1>3, <3>1, <3>2, ParseIsVersion, CompareTransitive
    <3>. QED  BY <1>3, <3>3, SemVerIs
  <2>3. /\ SemVer(v, ">=", target) <=> SemVer(target, "<=", v)
        /\ SemVer(v, "=", target) <=> SemVer(v, "<=", target) /\ SemVer(target, "<=", v)
        /\ SemVer(v, "!=", target) <=> ~SemVer(v, "=", target)
        /\ SemVer(v, "<", target) <=> ~SemVer(target, "<=", v)
        /\ SemVer(v, ">", target) <=> ~SemVer(v, "<=", target)
        /\ SemVer(v, "<=", target) \/ SemVer(target, "<=", v)
    <3>. DEFINE m == Compare(Parse(v), Parse(target))
                n == Compare(Parse(target), Parse(v))
    <3>1. /\ SemVer(v, "=", target)  <=> m = 0
          /\ SemVer(v, "!=", target) <=> m # 0
          /\ SemVer(v, "<", target)  <=> m = -1
          /\ SemVer(v, "<=", target) <=> m # 1
          /\ SemVer(v, ">", target)  <=> m = 1
          /\ SemVer(v, ">=", target) <=> m # -1
      BY <1>3, SemVerIs
    <3>2. SemVer(target, "<=", v) <=> n # 1
      BY <1>3, SemVerIs
    <3>3. m \in Signs /\ n \in Signs /\ n + m = 0
      BY <1>3, ParseIsVersion, CompareFacts
    <3>. HIDE DEF m, n
    <3>4. /\ m # -1 <=> n # 1
          /\ m = 0 <=> m # 1 /\ n # 1
          /\ m = -1 <=> ~(n # 1)
          /\ m # 1 \/ n # 1
      BY <3>3 DEF Signs
    <3>. QED  BY <3>1, <3>2, <3>4
  <2>. QED  BY <1>3, <2>2, <2>3
<1>. QED  BY <1>2, <1>3

\* ^ admits the versions from the target up to the next breaking release.
LEMMA CaretInterval ==
    ASSUME NEW v, NEW t, IsVersion(v), IsVersion(t),
           v.major \in Nat, v.minor \in Nat, v.patch \in Nat,
           t.major \in Nat, t.minor \in Nat, t.patch \in Nat
    PROVE  CaretRange(v, t) <=> Compare(v, t) # -1 /\ Compare(ReleaseOf(v), CaretEnd(t)) = -1
<1>. DEFINE e == CaretEnd(t)
            c == ReleaseOf(v)
<1>1. /\ e.prerelease = <<>> /\ e.major \in Nat /\ e.minor \in Nat /\ e.patch \in Nat
      /\ t.major > 0 => e.major = t.major + 1 /\ e.minor = 0 /\ e.patch = 0
      /\ t.major = 0 /\ t.minor > 0 => e.major = 0 /\ e.minor = t.minor + 1 /\ e.patch = 0
      /\ t.major = 0 /\ t.minor = 0 => e.major = 0 /\ e.minor = 0 /\ e.patch = t.patch + 1
  BY DEF CaretEnd, Release
<1>2. /\ IsVersion(e) /\ IsVersion(c) /\ ComparePrerelease(c.prerelease, e.prerelease) = 0
      /\ c.major = v.major /\ c.minor = v.minor /\ c.patch = v.patch
  <2>1. <<>> \in Prereleases
    BY DEF Prereleases
  <2>2. ComparePrerelease(<<>>, <<>>) = 0
    BY <2>1, PrereleaseFacts
  <2>3. /\ c.prerelease = <<>>
        /\ c.major = v.major /\ c.minor = v.minor /\ c.patch = v.patch
    BY DEF ReleaseOf, Release
  <2>. HIDE DEF e, c
  <2>. QED  BY <1>1, <2>1, <2>2, <2>3 DEF IsVersion
<1>. HIDE DEF e, c
<1>3. Compare(c, e) = -1 <=>
         \/ v.major < e.major
         \/ v.major = e.major /\ v.minor < e.minor
         \/ v.major = e.major /\ v.minor = e.minor /\ v.patch < e.patch
  BY <1>1, <1>2, CompareIs DEF Order
<1>4. Compare(v, t) # -1 =>
         \/ v.major > t.major
         \/ v.major = t.major /\ v.minor > t.minor
         \/ v.major = t.major /\ v.minor = t.minor /\ v.patch >= t.patch
  BY CompareIs DEF Order
<1>5. CASE t.major > 0
  <2>1. Compare(c, e) = -1 <=> v.major < t.major + 1
    BY <1>1, <1>3, <1>5
  <2>2. Compare(v, t) # -1 => v.major >= t.major
    BY <1>4
  <2>3. v.major < t.major + 1 /\ v.major >= t.major <=> v.major = t.major
    OBVIOUS
  <2>. QED  BY <1>5, <2>1, <2>2, <2>3 DEF CaretRange, e, c
<1>6. CASE t.major = 0 /\ t.minor > 0
  BY <1>1, <1>3, <1>4, <1>6 DEF CaretRange, e, c
<1>7. CASE t.major = 0 /\ t.minor = 0
  BY <1>1, <1>3, <1>4, <1>7 DEF CaretRange, e, c
<1>. QED  BY <1>5, <1>6, <1>7

\* ~ admits the versions from the target up to the next minor release.
LEMMA TildeInterval ==
    ASSUME NEW v, NEW t, IsVersion(v), IsVersion(t),
           v.major \in Nat, v.minor \in Nat, v.patch \in Nat,
           t.major \in Nat, t.minor \in Nat, t.patch \in Nat
    PROVE  TildeRange(v, t) <=> Compare(v, t) # -1 /\ Compare(ReleaseOf(v), TildeEnd(t)) = -1
<1>. DEFINE e == TildeEnd(t)
            c == ReleaseOf(v)
<1>1. /\ e.prerelease = <<>> /\ e.major = t.major /\ e.minor = t.minor + 1 /\ e.patch = 0
  BY DEF TildeEnd, Release
<1>2. /\ IsVersion(e) /\ IsVersion(c) /\ ComparePrerelease(c.prerelease, e.prerelease) = 0
      /\ c.major = v.major /\ c.minor = v.minor /\ c.patch = v.patch
  <2>1. <<>> \in Prereleases
    BY DEF Prereleases
  <2>2. ComparePrerelease(<<>>, <<>>) = 0
    BY <2>1, PrereleaseFacts
  <2>3. /\ c.prerelease = <<>>
        /\ c.major = v.major /\ c.minor = v.minor /\ c.patch = v.patch
    BY DEF ReleaseOf, Release
  <2>. HIDE DEF e, c
  <2>. QED  BY <1>1, <2>1, <2>2, <2>3 DEF IsVersion
<1>. HIDE DEF e, c
<1>3. Compare(c, e) = -1 <=>
         \/ v.major < e.major
         \/ v.major = e.major /\ v.minor < e.minor
         \/ v.major = e.major /\ v.minor = e.minor /\ v.patch < e.patch
  BY <1>1, <1>2, CompareIs DEF Order
<1>4. Compare(v, t) # -1 =>
         \/ v.major > t.major
         \/ v.major = t.major /\ v.minor > t.minor
         \/ v.major = t.major /\ v.minor = t.minor /\ v.patch >= t.patch
  BY CompareIs DEF Order
<1>. QED  BY <1>1, <1>3, <1>4 DEF TildeRange, e, c

\* For every set of texts, the ranges ^ and ~ are the intervals their comments
\* give, less the prereleases of the end.
THEOREM RangesAreExact ==
    ASSUME NEW texts, \A v \in texts : TypedText(v), NEW target, TypedText(target)
    PROVE  RangesAreIntervals(texts, target)
<1>1. SUFFICES ASSUME NEW v \in texts, Valid(v), Valid(target)
               PROVE  /\ SemVer(v, "^", target) <=>
                            /\ SemVer(v, ">=", target)
                            /\ Compare(ReleaseOf(Parse(v)), CaretEnd(Parse(target))) = -1
                      /\ SemVer(v, "~", target) <=>
                            /\ SemVer(v, ">=", target)
                            /\ Compare(ReleaseOf(Parse(v)), TildeEnd(Parse(target))) = -1
  BY DEF RangesAreIntervals
<1>2. /\ CaretRange(Parse(v), Parse(target)) <=>
            /\ Compare(Parse(v), Parse(target)) # -1
            /\ Compare(ReleaseOf(Parse(v)), CaretEnd(Parse(target))) = -1
      /\ TildeRange(Parse(v), Parse(target)) <=>
            /\ Compare(Parse(v), Parse(target)) # -1
            /\ Compare(ReleaseOf(Parse(v)), TildeEnd(Parse(target))) = -1
  BY <1>1, ParseIsVersion, CaretInterval, TildeInterval
<1>. QED  BY <1>1, <1>2, SemVerIs

-----------------------------------------------------------------------------
(***************************************************************************)
(* The resolver of refs                                                    *)
(***************************************************************************)

\* The positions of a stack whose top is replaced by a sequence.
LEMMA ReplaceTop ==
    ASSUME NEW S, NEW s \in Seq(S), s # <<>>, NEW t \in Seq(S)
    PROVE  /\ Len(s) \in Nat \ {0} /\ Len(t) \in Nat
           /\ t \o Tail(s) \in Seq(S)
           /\ Len(t \o Tail(s)) = Len(t) + Len(s) - 1
           /\ \A k \in 1 .. Len(t) + Len(s) - 1 :
                 (t \o Tail(s))[k] = IF k <= Len(t) THEN t[k] ELSE s[k - Len(t) + 1]
<1>1. Len(s) \in Nat \ {0} /\ Len(t) \in Nat /\ Tail(s) \in Seq(S) /\ Len(Tail(s)) = Len(s) - 1
  OBVIOUS
<1>2. t \o Tail(s) \in Seq(S) /\ Len(t \o Tail(s)) = Len(t) + Len(s) - 1
  BY <1>1
<1>3. ASSUME NEW k \in 1 .. Len(t) + Len(s) - 1
      PROVE  (t \o Tail(s))[k] = IF k <= Len(t) THEN t[k] ELSE s[k - Len(t) + 1]
  <2>1. CASE k <= Len(t)
    BY <1>1, <2>1
  <2>2. CASE ~(k <= Len(t))
    <3>1. (t \o Tail(s))[k] = Tail(s)[k - Len(t)]
      BY <1>1, <2>2
    <3>2. k - Len(t) \in 1 .. Len(Tail(s)) /\ k - Len(t) + 1 = (k - Len(t)) + 1
      BY <1>1, <2>2
    <3>3. Tail(s)[k - Len(t)] = s[k - Len(t) + 1]
      BY <1>1, <3>2
    <3>. QED  BY <2>2, <3>1, <3>3
  <2>. QED  BY <2>1, <2>2
<1>. QED  BY <1>1, <1>2, <1>3

\* The positions of the evaluators being resolved.
Leaves(s) == {k \in DOMAIN s : s[k].what = "leave"}

\* The evaluator the ref of a frame names.
NameOf(d, frame) == d.nodes[frame.node].path[1]

\* A set holds exactly the names of the evaluators being resolved, each of
\* which is on the stack once.
BalancedStack(d, s, v) ==
    /\ v = {NameOf(d, s[k]) : k \in Leaves(s)}
    /\ \A k, l \in Leaves(s) : NameOf(d, s[k]) = NameOf(d, s[l]) => k = l

\* Walking a node keeps the names and the stack in agreement.
LEMMA PushVisits ==
    ASSUME NEW d, NEW S, NEW s \in Seq(S), s # <<>>, NEW v, BalancedStack(d, s, v),
           s[1].what # "leave",
           NEW t \in Seq(S), \A k \in 1 .. Len(t) : t[k].what # "leave"
    PROVE  BalancedStack(d, t \o Tail(s), v)
<1>. DEFINE r == t \o Tail(s)
            n == Len(t)
<1>1. /\ Len(s) \in Nat \ {0} /\ n \in Nat /\ r \in Seq(S) /\ Len(r) = n + Len(s) - 1
      /\ \A k \in 1 .. n + Len(s) - 1 : r[k] = IF k <= n THEN t[k] ELSE s[k - n + 1]
  BY ReplaceTop
<1>. HIDE DEF r
<1>2. ASSUME NEW k \in Leaves(r)
      PROVE  k - n + 1 \in Leaves(s) /\ r[k] = s[k - n + 1]
  <2>1. k \in 1 .. n + Len(s) - 1 /\ r[k].what = "leave"
    BY <1>1 DEF Leaves
  <2>2. ~(k <= n)
    BY <1>1, <2>1
  <2>3. r[k] = s[k - n + 1] /\ k - n + 1 \in 1 .. Len(s)
    BY <1>1, <2>1, <2>2
  <2>. QED  BY <2>1, <2>3 DEF Leaves
<1>3. ASSUME NEW k \in Leaves(s)
      PROVE  k + n - 1 \in Leaves(r) /\ r[k + n - 1] = s[k]
  <2>1. k \in 1 .. Len(s) /\ k # 1 /\ s[k].what = "leave"
    BY DEF Leaves
  <2>2. k + n - 1 \in 1 .. n + Len(s) - 1 /\ ~(k + n - 1 <= n) /\ (k + n - 1) - n + 1 = k
    BY <1>1, <2>1
  <2>3. r[k + n - 1] = s[k]
    BY <1>1, <2>2
  <2>4. k + n - 1 \in DOMAIN r
    BY <1>1, <2>2
  <2>. QED  BY <2>1, <2>3, <2>4 DEF Leaves
<1>4. v = {NameOf(d, r[k]) : k \in Leaves(r)}
  <2>1. v = {NameOf(d, s[k]) : k \in Leaves(s)}
    BY DEF BalancedStack
  <2>. QED  BY <1>2, <1>3, <2>1
<1>5. ASSUME NEW k \in Leaves(r), NEW l \in Leaves(r), NameOf(d, r[k]) = NameOf(d, r[l])
      PROVE  k = l
  <2>1. k - n + 1 = l - n + 1
    BY <1>2, <1>5 DEF BalancedStack
  <2>2. k \in Int /\ l \in Int
    BY <1>1 DEF Leaves
  <2>. QED  BY <1>1, <2>1, <2>2
<1>. QED  BY <1>4, <1>5 DEF BalancedStack, r

\* Entering an evaluator that is not in the set adds its name.
LEMMA OpenRef ==
    ASSUME NEW d, NEW S, NEW s \in Seq(S), s # <<>>, NEW v, BalancedStack(d, s, v),
           s[1].what # "leave", NameOf(d, s[1]) \notin v,
           NEW a \in S, NEW b \in S, a.what # "leave", b.what = "leave", b.node = s[1].node
    PROVE  BalancedStack(d, <<a, b>> \o Tail(s), v \cup {NameOf(d, s[1])})
<1>. DEFINE t == <<a, b>>
            r == t \o Tail(s)
            name == NameOf(d, s[1])
<1>0. t \in Seq(S) /\ Len(t) = 2 /\ t[1] = a /\ t[2] = b
  OBVIOUS
<1>. HIDE DEF t
<1>1. /\ Len(s) \in Nat \ {0} /\ r \in Seq(S) /\ Len(r) = Len(s) + 1
      /\ \A k \in 1 .. Len(s) + 1 : r[k] = IF k <= 2 THEN t[k] ELSE s[k - 1]
  <2>1. /\ Len(s) \in Nat \ {0} /\ r \in Seq(S) /\ Len(r) = 2 + Len(s) - 1
        /\ \A k \in 1 .. 2 + Len(s) - 1 : r[k] = IF k <= 2 THEN t[k] ELSE s[k - 2 + 1]
    <3>1. /\ Len(s) \in Nat \ {0} /\ r \in Seq(S) /\ Len(r) = Len(t) + Len(s) - 1
          /\ \A k \in 1 .. Len(t) + Len(s) - 1 : r[k] = IF k <= Len(t) THEN t[k] ELSE s[k - Len(t) + 1]
      BY ONLY ReplaceTop, <1>0, s \in Seq(S), s # <<>>
    <3>. HIDE DEF r
    <3>. QED  BY <1>0, <3>1
  <2>2. \A k \in 1 .. Len(s) + 1 : k - 2 + 1 = k - 1 /\ k \in 1 .. 2 + Len(s) - 1
    BY <2>1
  <2>. QED  BY <2>1, <2>2
<1>. HIDE DEF r
<1>2. 2 \in Leaves(r) /\ r[2] = b /\ NameOf(d, r[2]) = name
  BY <1>0, <1>1 DEF Leaves, NameOf
<1>3. ASSUME NEW k \in Leaves(r), k # 2
      PROVE  k - 1 \in Leaves(s) /\ r[k] = s[k - 1]
  <2>1. k \in 1 .. Len(s) + 1 /\ r[k].what = "leave"
    BY <1>1 DEF Leaves
  <2>2. k # 1
    BY <1>0, <1>1, <2>1
  <2>3. r[k] = s[k - 1] /\ k - 1 \in 1 .. Len(s)
    BY <1>1, <1>3, <2>1, <2>2
  <2>. QED  BY <2>1, <2>3 DEF Leaves
<1>4. ASSUME NEW k \in Leaves(s)
      PROVE  k + 1 \in Leaves(r) /\ r[k + 1] = s[k] /\ k + 1 # 2
  <2>1. k \in 1 .. Len(s) /\ k # 1 /\ s[k].what = "leave"
    BY DEF Leaves
  <2>2. k + 1 \in 1 .. Len(s) + 1 /\ ~(k + 1 <= 2) /\ (k + 1) - 1 = k
    BY <1>1, <2>1
  <2>3. r[k + 1] = s[k]
    BY <1>1, <2>2
  <2>. QED  BY <1>1, <2>1, <2>2, <2>3 DEF Leaves
<1>5. v \cup {name} = {NameOf(d, r[k]) : k \in Leaves(r)}
  <2>1. v = {NameOf(d, s[k]) : k \in Leaves(s)}
    BY DEF BalancedStack
  <2>. HIDE DEF name
  <2>. QED  BY <1>2, <1>3, <1>4, <2>1
<1>6. \A k \in Leaves(r) : k # 2 => NameOf(d, r[k]) # NameOf(d, r[2])
  BY <1>2, <1>3 DEF BalancedStack
<1>7. ASSUME NEW k \in Leaves(r), NEW l \in Leaves(r), NameOf(d, r[k]) = NameOf(d, r[l])
      PROVE  k = l
  <2>1. k \in Int /\ l \in Int
    BY <1>1 DEF Leaves
  <2>2. CASE k = 2 \/ l = 2
    BY <1>6, <1>7, <2>2
  <2>3. CASE k # 2 /\ l # 2
    <3>1. k - 1 = l - 1
      BY <1>3, <1>7, <2>3 DEF BalancedStack
    <3>. QED  BY <2>1, <3>1
  <2>. QED  BY <2>2, <2>3
<1>. QED  BY <1>5, <1>7 DEF BalancedStack, r, t

\* Leaving an evaluator takes its name out of the set, and no other.
LEMMA CloseRef ==
    ASSUME NEW d, NEW S, NEW s \in Seq(S), s # <<>>, NEW v, BalancedStack(d, s, v),
           s[1].what = "leave"
    PROVE  BalancedStack(d, Tail(s), v \ {NameOf(d, s[1])})
<1>. DEFINE r == Tail(s)
            name == NameOf(d, s[1])
<1>1. /\ Len(s) \in Nat \ {0} /\ r \in Seq(S) /\ Len(r) = Len(s) - 1
      /\ \A k \in 1 .. Len(s) - 1 : r[k] = s[k + 1]
  OBVIOUS
<1>. HIDE DEF r
<1>2. 1 \in Leaves(s)
  BY <1>1 DEF Leaves
<1>3. ASSUME NEW k \in Leaves(r)
      PROVE  k + 1 \in Leaves(s) /\ r[k] = s[k + 1] /\ k \in Int /\ k + 1 # 1
  BY <1>1 DEF Leaves
<1>4. ASSUME NEW k \in Leaves(s), k # 1
      PROVE  k - 1 \in Leaves(r) /\ r[k - 1] = s[k]
  <2>1. k \in 1 .. Len(s) /\ s[k].what = "leave"
    BY DEF Leaves
  <2>2. k - 1 \in 1 .. Len(s) - 1 /\ (k - 1) + 1 = k
    BY <1>1, <1>4, <2>1
  <2>. QED  BY <1>1, <2>1, <2>2 DEF Leaves
<1>5. v \ {name} = {NameOf(d, r[k]) : k \in Leaves(r)}
  <2>1. v = {NameOf(d, s[k]) : k \in Leaves(s)}
    BY DEF BalancedStack
  <2>2. \A k \in Leaves(s) : NameOf(d, s[k]) = name <=> k = 1
    BY <1>2 DEF BalancedStack
  <2>. HIDE DEF name
  <2>. QED  BY <1>3, <1>4, <2>1, <2>2
<1>6. ASSUME NEW k \in Leaves(r), NEW l \in Leaves(r), NameOf(d, r[k]) = NameOf(d, r[l])
      PROVE  k = l
  <2>1. k + 1 = l + 1
    BY <1>3, <1>6 DEF BalancedStack
  <2>. QED  BY <1>3, <2>1
<1>. QED  BY <1>5, <1>6 DEF BalancedStack, r

\* The document is one of the documents, and parsed when it has to be.
DocumentOK == doc \in Documents /\ (stage \in {"resolve", "compile", "ready"} => doc.parses)

\* The stack of calls and the set of visited names agree.
Balanced ==
    /\ BalancedStack(doc, work, visited)
    /\ stage \notin {"resolve", "rejected"} => work = <<>>

\* The inductive invariant.
IInv == TypeOK /\ DocumentOK /\ Balanced

\* The invariant holds before the document is scanned.
LEMMA InitInvariant == Init => IInv
<1>. SUFFICES ASSUME Init PROVE IInv
  OBVIOUS
<1>1. TypeOK
  BY DEF Init, TypeOK
<1>2. DocumentOK
  BY DEF Init, DocumentOK
<1>3. Balanced
  BY DEF Init, Balanced, BalancedStack, Leaves
<1>. QED  BY <1>1, <1>2, <1>3 DEF IInv

\* The call on top of the stack.
LEMMA TopFacts ==
    ASSUME IInv, work # <<>>
    PROVE  /\ Top = work[1] /\ Top \in Frames /\ work \in Seq(Frames)
           /\ Tail(work) \in Seq(Frames)
           /\ RefName = NameOf(doc, work[1])
           /\ Top.what = "leave" => RefName \in DOMAIN doc.evaluators
<1>1. work \in Seq(Frames)
  BY DEF IInv, TypeOK
<1>2. Top = work[1] /\ Top \in Frames /\ Tail(work) \in Seq(Frames) /\ 1 \in DOMAIN work
  BY <1>1 DEF Top
<1>3. RefName = NameOf(doc, work[1])
  BY <1>2 DEF RefName, TopNode, NameOf
<1>4. ASSUME Top.what = "leave" PROVE RefName \in DOMAIN doc.evaluators
  <2>1. 1 \in Leaves(work)
    BY <1>2, <1>4 DEF Leaves
  <2>2. RefName \in visited
    BY <1>3, <2>1 DEF IInv, Balanced, BalancedStack
  <2>. QED  BY <2>2 DEF IInv, TypeOK
<1>. QED  BY <1>1, <1>2, <1>3, <1>4

\* The arguments of a node of the document.
LEMMA NodeFacts ==
    ASSUME IInv, NEW i \in DOMAIN doc.nodes
    PROVE  /\ doc.nodes[i].args \in Seq(DOMAIN doc.nodes)
           /\ TypedArguments(doc.nodes[i].values)
<1>1. /\ IsSequence(doc.nodes[i].args)
      /\ \A j \in DOMAIN doc.nodes[i].args : doc.nodes[i].args[j] \in DOMAIN doc.nodes
      /\ TypedArguments(doc.nodes[i].values)
  BY TargetingAssumption DEF IInv, DocumentOK
<1>. DEFINE args == doc.nodes[i].args
            A == {args[j] : j \in DOMAIN args}
<1>2. args \in Seq(A) /\ A \subseteq DOMAIN doc.nodes
  BY <1>1 DEF IsSequence
<1>3. args \in Seq(DOMAIN doc.nodes)
  <2>. HIDE DEF args, A
  <2>. QED  BY <1>2, WiderSequence
<1>. QED  BY <1>1, <1>3

\* Every step of update_state on the rule preserves the invariant.
LEMMA NextInvariant == IInv /\ [Next]_vars => IInv'
<1>. SUFFICES ASSUME IInv, [Next]_vars PROVE IInv'
  OBVIOUS
<1>1. CASE UNCHANGED vars
  BY <1>1 DEF vars, IInv, TypeOK, DocumentOK, Balanced, Frames
<1>2. CASE Reject
  BY <1>2 DEF Reject, IInv, TypeOK, DocumentOK, Balanced, Frames
<1>3. CASE CheckJsonDepth /\ ~Reject
  BY <1>3 DEF CheckJsonDepth, IInv, TypeOK, DocumentOK, Balanced, Frames
<1>4. CASE ParseDocument
  <2>. DEFINE first == Visit(doc.rule, 0)
  <2>1. /\ stage = "parse" /\ doc.parses /\ doc' = doc /\ visited' = visited
        /\ becomes' = becomes /\ keys' = keys /\ work = <<>>
        /\ stage' \in {"resolve", "compile"} /\ work' \in {<<>>, <<first>>}
        /\ stage' = "compile" => work' = <<>>
    BY <1>4 DEF ParseDocument, IInv, Balanced
  <2>2. doc.rule \in DOMAIN doc.nodes
    BY <2>1, TargetingAssumption DEF IInv, DocumentOK
  <2>3. first \in Frames /\ first.what = "visit"
    BY <2>2 DEF Visit, Frames
  <2>4. Leaves(work') = {} /\ Leaves(work) = {}
    <3>. HIDE DEF first
    <3>. QED  BY <2>1, <2>3 DEF Leaves
  <2>5. Balanced'
    BY <2>1, <2>4 DEF IInv, Balanced, BalancedStack
  <2>6. work' \in Seq(Frames)
    <3>. HIDE DEF first
    <3>1. <<first>> \in Seq(Frames) /\ <<>> \in Seq(Frames)
      BY <2>3
    <3>. QED  BY <2>1, <3>1
  <2>7. TypeOK'
    BY <2>1, <2>6 DEF IInv, TypeOK, Frames
  <2>. QED  BY <2>1, <2>5, <2>7 DEF IInv, DocumentOK
<1>5. CASE VisitRef
  <2>1. /\ stage = "resolve" /\ work # <<>> /\ Top.what = "visit"
        /\ RefName \in DOMAIN doc.evaluators \ visited
        /\ visited' = visited \cup {RefName}
        /\ work' = <<Visit(doc.evaluators[RefName], Top.depth + 1),
                     Leave(Top.node, Top.depth)>> \o Tail(work)
        /\ UNCHANGED <<doc, stage, becomes, keys>>
    BY <1>5 DEF VisitRef, Visiting
  <2>. DEFINE a == Visit(doc.evaluators[RefName], Top.depth + 1)
              b == Leave(Top.node, Top.depth)
  <2>2. Top \in Frames /\ Top = work[1] /\ work \in Seq(Frames) /\ Tail(work) \in Seq(Frames)
        /\ RefName = NameOf(doc, work[1])
    BY <2>1, TopFacts
  <2>3. doc.evaluators[RefName] \in DOMAIN doc.nodes
    BY <2>1, TargetingAssumption DEF IInv, DocumentOK
  <2>4. /\ a \in Frames /\ b \in Frames
        /\ a.what # "leave" /\ b.what = "leave" /\ b.node = work[1].node
    BY <2>2, <2>3 DEF Visit, Leave, Frames
  <2>5. work' = <<a, b>> \o Tail(work)
    BY <2>1
  <2>. HIDE DEF a, b
  <2>6. BalancedStack(doc, <<a, b>> \o Tail(work), visited \cup {NameOf(doc, work[1])})
    BY <2>1, <2>2, <2>4, OpenRef DEF IInv, Balanced
  <2>7. Balanced'
    BY <2>1, <2>2, <2>5, <2>6 DEF Balanced
  <2>8. work' \in Seq(Frames)
    BY <2>2, <2>4, <2>5
  <2>9. TypeOK'
    BY <2>1, <2>8 DEF IInv, TypeOK, Frames
  <2>. QED  BY <2>1, <2>7, <2>9 DEF IInv, DocumentOK
<1>6. CASE VisitNode
  <2>. DEFINE t == [j \in DOMAIN TopNode.args |-> Visit(TopNode.args[j], Top.depth)]
  <2>1. /\ stage = "resolve" /\ work # <<>> /\ Top.what = "visit"
        /\ work' = t \o Tail(work)
        /\ UNCHANGED <<doc, stage, visited, becomes, keys>>
    BY <1>6 DEF VisitNode, Visiting
  <2>2. Top \in Frames /\ Top = work[1] /\ work \in Seq(Frames)
    BY <2>1, TopFacts
  <2>3. TopNode.args \in Seq(DOMAIN doc.nodes)
    BY <2>2, NodeFacts DEF TopNode, Frames
  <2>4. \A n \in DOMAIN doc.nodes :
           Visit(n, Top.depth) \in Frames /\ Visit(n, Top.depth).what # "leave"
    BY <2>2 DEF Visit, Frames
  <2>5. t \in Seq(Frames) /\ \A k \in 1 .. Len(t) : t[k].what # "leave"
    <3>1. t = [j \in 1 .. Len(TopNode.args) |-> Visit(TopNode.args[j], Top.depth)]
      BY <2>3
    <3>2. \A j \in 1 .. Len(TopNode.args) : TopNode.args[j] \in DOMAIN doc.nodes
      BY <2>3
    <3>3. Len(TopNode.args) \in Nat
      BY <2>3
    <3>. HIDE DEF t
    <3>4. t \in Seq(Frames) /\ Len(t) = Len(TopNode.args)
      BY <2>4, <3>1, <3>2, <3>3
    <3>. QED  BY <2>4, <3>1, <3>2, <3>4
  <2>. HIDE DEF t
  <2>6. BalancedStack(doc, t \o Tail(work), visited)
    BY <2>1, <2>2, <2>5, PushVisits DEF IInv, Balanced
  <2>7. Balanced'
    BY <2>1, <2>6 DEF Balanced
  <2>8. work' \in Seq(Frames)
    BY <2>1, <2>2, <2>5, ReplaceTop
  <2>9. TypeOK'
    BY <2>1, <2>8 DEF IInv, TypeOK, Frames
  <2>. QED  BY <2>1, <2>7, <2>9 DEF IInv, DocumentOK
<1>7. CASE LeaveRef
  <2>1. /\ stage = "resolve" /\ work # <<>> /\ Top.what = "leave"
        /\ visited' = visited \ {RefName}
        /\ becomes' = [becomes EXCEPT ![Top.node] = becomes[doc.evaluators[RefName]]]
        /\ work' = Tail(work)
        /\ UNCHANGED <<doc, stage, keys>>
    BY <1>7 DEF LeaveRef
  <2>2. /\ Top \in Frames /\ Top = work[1] /\ work \in Seq(Frames)
        /\ Tail(work) \in Seq(Frames) /\ RefName = NameOf(doc, work[1])
        /\ RefName \in DOMAIN doc.evaluators
    BY <2>1, TopFacts
  <2>3. BalancedStack(doc, Tail(work), visited \ {NameOf(doc, work[1])})
    BY <2>1, <2>2, CloseRef DEF IInv, Balanced
  <2>4. Balanced'
    BY <2>1, <2>2, <2>3 DEF Balanced
  <2>5. doc.evaluators[RefName] \in DOMAIN doc.nodes /\ Top.node \in DOMAIN doc.nodes
    BY <2>2, TargetingAssumption DEF IInv, DocumentOK, Frames
  <2>6. becomes' \in [DOMAIN doc.nodes -> DOMAIN doc.nodes]
    BY <2>1, <2>5 DEF IInv, TypeOK
  <2>7. TypeOK'
    BY <2>1, <2>2, <2>6 DEF IInv, TypeOK, Frames
  <2>. QED  BY <2>1, <2>4, <2>7 DEF IInv, DocumentOK
<1>8. CASE Resolved
  BY <1>8 DEF Resolved, IInv, TypeOK, DocumentOK, Balanced, Frames
<1>9. CASE Compile
  <2>1. keys' = AllKeys \/ "targetingKey" \in keys'
    BY <1>9 DEF Compile, ExtractRequiredContextKeys
  <2>. QED  BY <1>9, <2>1 DEF Compile, IInv, TypeOK, DocumentOK, Balanced, Frames
<1>. QED
  <2>1. CASE Next
    BY <1>2, <1>3, <1>4, <1>5, <1>6, <1>7, <1>8, <1>9, <2>1
       DEF Next, ParseFails, VisitTooDeep, VisitBadRef
  <2>. QED  BY <1>1, <2>1

\* The invariant holds throughout.
THEOREM Invariant == Spec => []IInv
<1>. QED  BY InitInvariant, NextInvariant, PTL DEF Spec

\* The type invariant: the resolver only walks nodes of the document, and a
\* compiled rule has the targeting key among its keys.
THEOREM TargetingTypeOK == Spec => []TypeOK
BY Invariant, PTL DEF IInv

\* When resolve_refs has walked the whole rule, the set of visited evaluators
\* is as it was before.
VisitedRestored == stage \in {"compile", "ready"} => visited = {}

\* The set that finds circular references is restored on the way back, however
\* the evaluators refer to each other: one that is used many times over is
\* never mistaken for a cycle later on.
THEOREM ResolutionRestoresVisited == Spec => []VisitedRestored
<1>1. IInv => VisitedRestored
  BY DEF IInv, Balanced, BalancedStack, Leaves, VisitedRestored
<1>. QED  BY <1>1, Invariant, PTL

-----------------------------------------------------------------------------
(***************************************************************************)
(* Rules of the custom operators                                           *)
(***************************************************************************)

\* The arguments of the operator a rule consists of are JSON values.
LEMMA ArgumentsAreTyped ==
    ASSUME IInv, NEW op, Operator(op)
    PROVE  TypedArguments(Arguments)
<1>1. doc.rule \in DOMAIN doc.nodes
  BY TargetingAssumption DEF IInv, DocumentOK, Operator
<1>. QED  BY <1>1, NodeFacts DEF Arguments

\* For every document, hash width and weights, a rule of fractional splits the
\* hashes in proportion to the weights.
THEOREM SharesAreProportional == Spec => []SharesProportional
<1>1. IInv => SharesProportional
  BY ArgumentsAreTyped, AcceptedIsWeighted, AcceptedSharesAreProportional
     DEF SharesProportional
<1>. QED  BY <1>1, Invariant, PTL

\* For every document, hash width and weights, a rule of fractional moves no
\* user but those between the two buckets whose weights change.
THEOREM RolloutsAreStable == Spec => []RolloutIsStable
<1>1. IInv => RolloutIsStable
  BY ArgumentsAreTyped, AcceptedIsWeighted, AcceptedRolloutsAreStable
     DEF RolloutIsStable
<1>. QED  BY <1>1, Invariant, PTL

\* The target of a sem_ver rule spells a text, a version or not.
LEMMA ThirdIsText ==
    ASSUME NEW args, TypedArguments(args), Len(args) >= 3
    PROVE  TypedText(TextOf(args[3]))
<1>. DEFINE x == args[3]
<1>1. 3 \in DOMAIN args
  BY DEF TypedArguments, IsSequence
<1>2. /\ x.type = "number" => x.number \in Int
      /\ x.type = "string" => TypedText(x.text)
  BY <1>1 DEF TypedArguments
<1>. HIDE DEF x
<1>3. \A n \in Int : TypedText(Text("", <<n>>, <<>>, ""))
  BY DEF TypedText, Text
<1>4. TypedText(Word(""))
  BY DEF TypedText, Word, Text, NotNumber
<1>5. TypedText(TextOf(x))
  BY <1>2, <1>3, <1>4 DEF TextOf
<1>. QED  BY <1>5 DEF x

\* The targets of all sem_ver rules spell texts.
LEMMA VersionsAreTyped ==
    \A v \in Versions : TypedText(v)
<1>1. ASSUME NEW d \in Documents, d.parses, Len(d.nodes[d.rule].values) >= 3
      PROVE  TypedText(TextOf(d.nodes[d.rule].values[3]))
  <2>1. TypedArguments(d.nodes[d.rule].values)
    BY <1>1, TargetingAssumption
  <2>. QED  BY <1>1, <2>1, ThirdIsText
<1>. QED  BY <1>1 DEF Versions

\* For every document and every number width, the six comparisons of sem_ver are
\* those of one total preorder.
THEOREM VersionsAreTotallyOrdered == Spec => []VersionsAreOrdered
<1>1. IInv => VersionsAreOrdered
  <2>1. SUFFICES ASSUME IInv, Operator("sem_ver"), Len(Arguments) >= 3
                 PROVE  Precedence(Versions, TextOf(Arguments[3]))
    BY DEF VersionsAreOrdered
  <2>2. TypedText(TextOf(Arguments[3]))
    BY <2>1, ArgumentsAreTyped, ThirdIsText
  <2>. QED  BY <2>2, VersionsAreTyped, PrecedenceIsTotalPreorder
<1>. QED  BY <1>1, Invariant, PTL

\* For every document, number width and version, with a prerelease or without, the
\* ranges of sem_ver accept what is not below the target and whose release is
\* below the end of the range.
THEOREM VersionRangesAreExact == Spec => []VersionRangesExact
<1>1. IInv => VersionRangesExact
  <2>1. SUFFICES ASSUME IInv, Operator("sem_ver"), Len(Arguments) >= 3
                 PROVE  RangesAreIntervals(Versions, TextOf(Arguments[3]))
    BY DEF VersionRangesExact
  <2>2. TypedText(TextOf(Arguments[3]))
    BY <2>1, ArgumentsAreTyped, ThirdIsText
  <2>. QED  BY <2>2, VersionsAreTyped, RangesAreExact
<1>. QED  BY <1>1, Invariant, PTL

-----------------------------------------------------------------------------
(***************************************************************************)
(* check_json_depth                                                        *)
(***************************************************************************)

\* Induction up to N.
LEMMA UpTo ==
    ASSUME NEW N \in Nat, NEW P, 0 \in P, \A i \in 1 .. N : i - 1 \in P => i \in P
    PROVE  \A i \in 0 .. N : i \in P
<1>. DEFINE Bad == {n \in 0 .. N : n \notin P}
<1>1. SUFFICES ASSUME Bad # {} PROVE FALSE
  OBVIOUS
<1>2. PICK n \in Bad : \A m \in Bad : n <= m
  <2>1. Bad \in SUBSET Nat
    OBVIOUS
  <2>. HIDE DEF Bad
  <2>. QED  BY <1>1, <2>1, Least, Zenon
<1>3. n \in 1 .. N /\ n - 1 \in 0 .. N /\ ~(n <= n - 1)
  BY <1>2
<1>4. n - 1 \in P
  BY <1>2, <1>3
<1>. QED  BY <1>2, <1>3, <1>4

\* A machine that takes step[i] as its i-th step has a run of N steps.
IsRun(f, S, N, step, s) ==
    f \in [0 .. N -> S] /\ f[0] = s /\ \A i \in 1 .. N : f[i] = step[i][f[i - 1]]

\* Such a machine has a run, whatever its steps are.
LEMMA RunExists ==
    ASSUME NEW S, NEW N \in Nat, NEW step \in [1 .. N -> [S -> S]], NEW s \in S
    PROVE  \E f : IsRun(f, S, N, step, s)
<1>. USE DEF IsRun
<1>. DEFINE Upto(n) == {f \in [0 .. n -> S] :
                          f[0] = s /\ \A i \in 1 .. n : f[i] = step[i][f[i - 1]]}
            Bad == {n \in 0 .. N : Upto(n) = {}}
<1>1. SUFFICES ASSUME Bad # {} PROVE FALSE
  <2>1. N \in 0 .. N
    OBVIOUS
  <2>. QED  BY <2>1
<1>2. PICK n \in Bad : \A m \in Bad : n <= m
  <2>1. Bad \in SUBSET Nat
    OBVIOUS
  <2>. HIDE DEF Bad
  <2>. QED  BY <1>1, <2>1, Least, Zenon
<1>3. n # 0
  <2>1. [i \in 0 .. 0 |-> s] \in Upto(0)
    OBVIOUS
  <2>. QED  BY <1>2, <2>1
<1>4. n \in 1 .. N /\ n - 1 \in 0 .. N /\ n - 1 \notin Bad
  <2>1. n \in 1 .. N /\ ~(n <= n - 1) /\ n - 1 \in 0 .. N
    BY <1>2, <1>3
  <2>. HIDE DEF Bad
  <2>. QED  BY <1>2, <2>1
<1>5. PICK f \in Upto(n - 1) : TRUE
  BY <1>4
<1>. DEFINE v == step[n][f[n - 1]]
            g == [i \in 0 .. n |-> IF i = n THEN v ELSE f[i]]
<1>6. v \in S
  <2>1. n - 1 \in 0 .. n - 1
    BY <1>4
  <2>2. f[n - 1] \in S
    BY <1>5, <2>1
  <2>3. step[n] \in [S -> S]
    BY <1>4
  <2>. QED  BY <2>2, <2>3
<1>. HIDE DEF v
<1>7. g \in [0 .. n -> S]
  <2>1. ASSUME NEW i \in 0 .. n, i # n PROVE f[i] \in S
    <3>1. i \in 0 .. n - 1
      BY <1>4, <2>1
    <3>. QED  BY <1>5, <3>1
  <2>. QED  BY <1>6, <2>1
<1>8. g[0] = s /\ \A i \in 1 .. n : g[i] = step[i][g[i - 1]]
  <2>1. g[0] = s
    BY <1>4, <1>5
  <2>2. ASSUME NEW i \in 1 .. n PROVE g[i] = step[i][g[i - 1]]
    <3>1. i \in 0 .. n /\ i - 1 \in 0 .. n /\ i - 1 # n
      BY <1>4
    <3>2. g[i - 1] = f[i - 1]
      BY <3>1
    <3>3. CASE i = n
      BY <3>1, <3>2, <3>3 DEF v
    <3>4. CASE i # n
      <4>1. i \in 1 .. n - 1
        BY <1>4, <3>4
      <4>2. f[i] = step[i][f[i - 1]]
        BY <1>5, <4>1
      <4>. QED  BY <3>1, <3>2, <3>4, <4>2
    <3>. QED  BY <3>3, <3>4
  <2>. QED  BY <2>1, <2>2
<1>9. g \in Upto(n)
  <2>. HIDE DEF g
  <2>. QED  BY <1>7, <1>8
<1>. QED  BY <1>2, <1>9

\* A function that satisfies the recursion of a run is one.
LEMMA RunTyped ==
    ASSUME NEW S, NEW N \in Nat, NEW step \in [1 .. N -> [S -> S]], NEW c, c[0] \in S,
           \A i \in 1 .. N : c[i - 1] \in S => c[i] = step[i][c[i - 1]]
    PROVE  \A i \in 0 .. N : c[i] \in S
<1>. DEFINE P == {i \in 0 .. N : c[i] \in S}
<1>1. 0 \in P
  OBVIOUS
<1>2. ASSUME NEW i \in 1 .. N, i - 1 \in P PROVE i \in P
  <2>1. step[i] \in [S -> S] /\ c[i - 1] \in S /\ i \in 0 .. N
    BY <1>2
  <2>. QED  BY <2>1
<1>. HIDE DEF P
<1>3. \A i \in 0 .. N : i \in P
  BY <1>1, <1>2, UpTo
<1>. QED  BY <1>3 DEF P

ScanStates == [depth : Nat, inString : BOOLEAN, escape : BOOLEAN, tooDeep : BOOLEAN]

\* A byte leads from a state of the scan to a state of the scan.
LEMMA ScanByteTyped ==
    ASSUME NEW s \in ScanStates, NEW byte
    PROVE  ScanByte(s, byte) \in ScanStates
<1>1. /\ s.depth \in Nat /\ s.inString \in BOOLEAN /\ s.escape \in BOOLEAN
      /\ s.tooDeep \in BOOLEAN
  BY DEF ScanStates
<1>2. (s.depth = MaxJsonDepth) \in BOOLEAN /\ (byte # "quote") \in BOOLEAN
      /\ (byte = "backslash") \in BOOLEAN
  OBVIOUS
<1>3. (IF s.depth = 0 THEN 0 ELSE s.depth - 1) \in Nat /\ s.depth + 1 \in Nat
  BY <1>1
<1>4. ScanOutside(s, byte) \in ScanStates
  BY <1>1, <1>2, <1>3 DEF ScanOutside, ScanStates
<1>. QED  BY <1>1, <1>2, <1>4 DEF ScanByte, ScanStates

\* The states of the scan of a token.
ScanRun(f, s, bytes) ==
    /\ f \in [0 .. Len(bytes) -> ScanStates]
    /\ f[0] = s
    /\ \A i \in 1 .. Len(bytes) : f[i] = ScanByte(f[i - 1], bytes[i])

\* ScanFrom is the last state of a run over the bytes of a token.
LEMMA ScanFromRuns ==
    ASSUME NEW s \in ScanStates, NEW bytes, Len(bytes) \in Nat
    PROVE  \E f : ScanRun(f, s, bytes) /\ ScanFrom(s, bytes) = f[Len(bytes)]
<1>. DEFINE N == Len(bytes)
            step == [i \in 1 .. N |-> [r \in ScanStates |-> ScanByte(r, bytes[i])]]
            body(f) == [i \in 0 .. N |-> IF i = 0 THEN s ELSE ScanByte(f[i - 1], bytes[i])]
            c == CHOOSE f : f = body(f)
<1>1. step \in [1 .. N -> [ScanStates -> ScanStates]]
  BY ScanByteTyped
<1>2. \A i \in 1 .. N : \A r \in ScanStates : step[i][r] = ScanByte(r, bytes[i])
  OBVIOUS
<1>. HIDE DEF step
<1>3. PICK f : IsRun(f, ScanStates, N, step, s)
  <2>1. N \in Nat
    OBVIOUS
  <2>. HIDE DEF N
  <2>. QED  BY <1>1, <2>1, RunExists
<1>. USE DEF IsRun
<1>4. f = body(f)
  <2>1. ASSUME NEW i \in 0 .. N, i # 0
        PROVE  f[i] = ScanByte(f[i - 1], bytes[i])
    <3>1. i \in 1 .. N /\ i - 1 \in 0 .. N
      BY <2>1
    <3>2. f[i - 1] \in ScanStates
      BY <1>3, <3>1
    <3>. QED  BY <1>2, <1>3, <3>1, <3>2
  <2>2. f = [i \in 0 .. N |-> f[i]]
    BY <1>3
  <2>3. f[0] = s
    BY <1>3
  <2>. HIDE DEF N
  <2>. QED  BY <2>1, <2>2, <2>3
<1>. HIDE DEF IsRun
<1>5. c = body(c)
  <2>. HIDE DEF body
  <2>. QED  BY <1>4
<1>6. ScanFrom(s, bytes) = c[Len(bytes)]
  BY DEF ScanFrom
<1>. HIDE DEF c
<1>7. c[0] = s /\ \A i \in 1 .. N : c[i] = ScanByte(c[i - 1], bytes[i])
  <2>1. 0 \in 0 .. N /\ \A i \in 1 .. N : i \in 0 .. N /\ i # 0
    OBVIOUS
  <2>. HIDE DEF N
  <2>. QED  BY <1>5, <2>1
<1>8. \A i \in 0 .. N : c[i] \in ScanStates
  <2>1. \A i \in 1 .. N : c[i - 1] \in ScanStates => c[i] = step[i][c[i - 1]]
    BY <1>2, <1>7
  <2>2. N \in Nat
    OBVIOUS
  <2>. HIDE DEF N
  <2>. QED  BY <1>1, <1>7, <2>1, <2>2, RunTyped
<1>9. c \in [0 .. N -> ScanStates]
  <2>1. c = [i \in 0 .. N |-> c[i]]
    BY <1>5
  <2>. HIDE DEF N
  <2>. QED  BY <1>8, <2>1
<1>. QED  BY <1>6, <1>7, <1>9 DEF ScanRun

\* The states between the tokens.
LEMMA TokensRun ==
    ASSUME NEW tokens, Len(tokens) \in Nat, \A i \in 1 .. Len(tokens) : Len(tokens[i]) \in Nat
    PROVE  \E f \in [0 .. Len(tokens) -> ScanStates] :
              /\ f[0] = ScanStart
              /\ \A i \in 1 .. Len(tokens) : f[i] = ScanFrom(f[i - 1], tokens[i])
              /\ TooDeep(tokens) = f[Len(tokens)].tooDeep
<1>. DEFINE N == Len(tokens)
            step == [i \in 1 .. N |-> [r \in ScanStates |-> ScanFrom(r, tokens[i])]]
            body(f) == [i \in 0 .. N |->
                           IF i = 0 THEN ScanStart ELSE ScanFrom(f[i - 1], tokens[i])]
            c == CHOOSE f : f = body(f)
<1>1. step \in [1 .. N -> [ScanStates -> ScanStates]]
  <2>1. ASSUME NEW i \in 1 .. N, NEW r \in ScanStates PROVE ScanFrom(r, tokens[i]) \in ScanStates
    <3>1. PICK f : ScanRun(f, r, tokens[i]) /\ ScanFrom(r, tokens[i]) = f[Len(tokens[i])]
      BY ScanFromRuns
    <3>. QED  BY <3>1 DEF ScanRun
  <2>. QED  BY <2>1
<1>2. \A i \in 1 .. N : \A r \in ScanStates : step[i][r] = ScanFrom(r, tokens[i])
  OBVIOUS
<1>. HIDE DEF step
<1>s. ScanStart \in ScanStates
  BY DEF ScanStart, ScanStates
<1>3. PICK f : IsRun(f, ScanStates, N, step, ScanStart)
  <2>1. N \in Nat
    OBVIOUS
  <2>. HIDE DEF N
  <2>. QED  BY <1>1, <1>s, <2>1, RunExists
<1>. USE DEF IsRun
<1>4. f = body(f)
  <2>1. ASSUME NEW i \in 0 .. N, i # 0
        PROVE  f[i] = ScanFrom(f[i - 1], tokens[i])
    <3>1. i \in 1 .. N /\ i - 1 \in 0 .. N
      BY <2>1
    <3>2. f[i - 1] \in ScanStates
      BY <1>3, <3>1
    <3>. QED  BY <1>2, <1>3, <3>1, <3>2
  <2>2. f = [i \in 0 .. N |-> f[i]]
    BY <1>3
  <2>3. f[0] = ScanStart
    BY <1>3
  <2>. HIDE DEF N
  <2>. QED  BY <2>1, <2>2, <2>3
<1>. HIDE DEF IsRun
<1>5. c = body(c)
  <2>. HIDE DEF body
  <2>. QED  BY <1>4
<1>6. TooDeep(tokens) = c[Len(tokens)].tooDeep
  BY DEF TooDeep
<1>. HIDE DEF c
<1>7. c[0] = ScanStart /\ \A i \in 1 .. N : c[i] = ScanFrom(c[i - 1], tokens[i])
  <2>1. 0 \in 0 .. N /\ \A i \in 1 .. N : i \in 0 .. N /\ i # 0
    OBVIOUS
  <2>. HIDE DEF N
  <2>. QED  BY <1>5, <2>1
<1>8. \A i \in 0 .. N : c[i] \in ScanStates
  <2>1. \A i \in 1 .. N : c[i - 1] \in ScanStates => c[i] = step[i][c[i - 1]]
    BY <1>2, <1>7
  <2>2. N \in Nat
    OBVIOUS
  <2>. HIDE DEF N
  <2>. QED  BY <1>1, <1>s, <1>7, <2>1, <2>2, RunTyped
<1>9. c \in [0 .. N -> ScanStates]
  <2>1. c = [i \in 0 .. N |-> c[i]]
    BY <1>5
  <2>. HIDE DEF N
  <2>. QED  BY <1>8, <2>1
<1>. QED  BY <1>6, <1>7, <1>9

\* Once a document is too deep, the scan stands still.
LEMMA ScanStays ==
    ASSUME NEW s \in ScanStates, s.tooDeep, NEW bytes, Len(bytes) \in Nat
    PROVE  ScanFrom(s, bytes) = s
<1>1. PICK f : ScanRun(f, s, bytes) /\ ScanFrom(s, bytes) = f[Len(bytes)]
  BY ScanFromRuns
<1>. DEFINE P == {i \in 0 .. Len(bytes) : f[i] = s}
<1>2. 0 \in P
  BY <1>1 DEF ScanRun
<1>3. ASSUME NEW i \in 1 .. Len(bytes), i - 1 \in P PROVE i \in P
  <2>1. i \in 0 .. Len(bytes) /\ f[i - 1] = s
    BY <1>3
  <2>2. f[i] = ScanByte(s, bytes[i])
    BY <1>1, <2>1 DEF ScanRun
  <2>3. ScanByte(s, bytes[i]) = s
    BY DEF ScanByte
  <2>. QED  BY <2>1, <2>2, <2>3
<1>. HIDE DEF P
<1>4. \A i \in 0 .. Len(bytes) : i \in P
  BY <1>2, <1>3, UpTo
<1>. QED  BY <1>1, <1>4 DEF P

\* The scan between two tokens, at a depth.
Calm(d) == [depth |-> d, inString |-> FALSE, escape |-> FALSE, tooDeep |-> FALSE]

\* A calm state is a state of the scan.
LEMMA CalmFacts ==
    ASSUME NEW d \in Nat
    PROVE  /\ Calm(d) \in ScanStates
           /\ Calm(d).depth = d /\ ~Calm(d).inString /\ ~Calm(d).escape /\ ~Calm(d).tooDeep
BY DEF Calm, ScanStates

\* A change of depth.
LEMMA DepthChange ==
    ASSUME NEW d, NEW x, NEW y
    PROVE  /\ [Calm(d) EXCEPT !.depth = x] = Calm(x)
           /\ [Calm(d) EXCEPT !.depth = x, !.tooDeep = y] = [Calm(x) EXCEPT !.tooDeep = y]
<1>. DEFINE no == FALSE
            Rec(n) == [depth |-> n, inString |-> no, escape |-> no, tooDeep |-> no]
<1>1. \A n : Calm(n) = Rec(n)
  BY DEF Calm
<1>. HIDE DEF no
<1>2. [Rec(d) EXCEPT !.depth = x] = Rec(x)
  OBVIOUS
<1>3. [Rec(d) EXCEPT !.depth = x, !.tooDeep = y] =
         [[Rec(d) EXCEPT !.depth = x] EXCEPT !.tooDeep = y]
  OBVIOUS
<1>. HIDE DEF Rec
<1>. QED  BY <1>1, <1>2, <1>3

\* The scan of a bracket.
LEMMA OneByteScan ==
    ASSUME NEW s \in ScanStates, NEW token, Len(token) = 1
    PROVE  ScanFrom(s, token) = ScanByte(s, token[1])
<1>1. Len(token) \in Nat
  OBVIOUS
<1>2. PICK f : ScanRun(f, s, token) /\ ScanFrom(s, token) = f[Len(token)]
  BY <1>1, ScanFromRuns
<1>3. 1 \in 1 .. Len(token)
  OBVIOUS
<1>. QED  BY <1>2, <1>3 DEF ScanRun

\* An opening bracket adds one level, and is one too many at the limit.
LEMMA OpenScan ==
    ASSUME NEW d \in Nat
    PROVE  ScanFrom(Calm(d), <<"open">>) =
              [Calm(d + 1) EXCEPT !.tooDeep = (d = MaxJsonDepth)]
<1>2. ScanFrom(Calm(d), <<"open">>) = ScanByte(Calm(d), "open")
  <2>. DEFINE token == <<"open">>
  <2>1. Calm(d) \in ScanStates
    BY CalmFacts
  <2>2. Len(token) = 1 /\ token[1] = "open"
    OBVIOUS
  <2>. HIDE DEF token
  <2>3. ScanFrom(Calm(d), token) = ScanByte(Calm(d), token[1])
    BY <2>1, <2>2, OneByteScan
  <2>. QED  BY <2>2, <2>3 DEF token
<1>3. ScanByte(Calm(d), "open") = ScanOutside(Calm(d), "open")
  BY CalmFacts DEF ScanByte
<1>4. ScanOutside(Calm(d), "open") = [Calm(d + 1) EXCEPT !.tooDeep = (d = MaxJsonDepth)]
  <2>1. ScanOutside(Calm(d), "open") =
           [Calm(d) EXCEPT !.depth = @ + 1, !.tooDeep = (Calm(d).depth = MaxJsonDepth)]
    BY DEF ScanOutside
  <2>2. ScanOutside(Calm(d), "open") =
           [Calm(d) EXCEPT !.depth = d + 1, !.tooDeep = (d = MaxJsonDepth)]
    <3>1. Calm(d).depth = d
      BY CalmFacts
    <3>. QED  BY <2>1, <3>1, SMT
  <2>. DEFINE y == (d = MaxJsonDepth)
  <2>. HIDE DEF y
  <2>3. [Calm(d) EXCEPT !.depth = d + 1, !.tooDeep = y] = [Calm(d + 1) EXCEPT !.tooDeep = y]
    BY DepthChange
  <2>. QED  BY <2>2, <2>3, Zenon DEF y
<1>. QED  BY <1>2, <1>3, <1>4

\* A closing bracket takes one level away.
LEMMA CloseScan ==
    ASSUME NEW d \in Nat, d > 0
    PROVE  ScanFrom(Calm(d), <<"close">>) = Calm(d - 1)
<1>2. ScanFrom(Calm(d), <<"close">>) = ScanByte(Calm(d), "close")
  <2>. DEFINE token == <<"close">>
  <2>1. Calm(d) \in ScanStates
    BY CalmFacts
  <2>2. Len(token) = 1 /\ token[1] = "close"
    OBVIOUS
  <2>. HIDE DEF token
  <2>3. ScanFrom(Calm(d), token) = ScanByte(Calm(d), token[1])
    BY <2>1, <2>2, OneByteScan
  <2>. QED  BY <2>2, <2>3 DEF token
<1>3. ScanByte(Calm(d), "close") = ScanOutside(Calm(d), "close")
  BY CalmFacts DEF ScanByte
<1>4. ScanOutside(Calm(d), "close") = Calm(d - 1)
  <2>1. ScanOutside(Calm(d), "close") = [Calm(d) EXCEPT !.depth = IF @ = 0 THEN 0 ELSE @ - 1]
    BY DEF ScanOutside
  <2>2. ScanOutside(Calm(d), "close") = [Calm(d) EXCEPT !.depth = d - 1]
    <3>1. Calm(d).depth = d
      BY CalmFacts
    <3>2. (IF d = 0 THEN 0 ELSE d - 1) = d - 1
      OBVIOUS
    <3>. HIDE DEF Calm
    <3>. QED  BY <2>1, <3>1, <3>2, SMT
  <2>. QED  BY <2>2, DepthChange
<1>. QED  BY <1>2, <1>3, <1>4

\* The scan of anything without brackets and quotes.
LEMMA PlainScan ==
    ASSUME NEW d \in Nat, NEW bytes, Len(bytes) \in Nat,
           \A i \in 1 .. Len(bytes) : bytes[i] \notin {"open", "close", "quote"}
    PROVE  ScanFrom(Calm(d), bytes) = Calm(d)
<1>1. PICK f : ScanRun(f, Calm(d), bytes) /\ ScanFrom(Calm(d), bytes) = f[Len(bytes)]
  BY CalmFacts, ScanFromRuns
<1>. DEFINE P == {i \in 0 .. Len(bytes) : f[i] = Calm(d)}
<1>2. 0 \in P
  BY <1>1 DEF ScanRun
<1>3. ASSUME NEW i \in 1 .. Len(bytes), i - 1 \in P PROVE i \in P
  <2>1. f[i] = ScanByte(Calm(d), bytes[i])
    BY <1>1, <1>3 DEF ScanRun
  <2>2. ScanByte(Calm(d), bytes[i]) = ScanOutside(Calm(d), bytes[i])
    BY CalmFacts DEF ScanByte
  <2>3. ScanOutside(Calm(d), bytes[i]) = Calm(d)
    BY DEF ScanOutside
  <2>. QED  BY <2>1, <2>2, <2>3
<1>. HIDE DEF P
<1>4. \A i \in 0 .. Len(bytes) : i \in P
  BY <1>2, <1>3, UpTo, Zenon
<1>. QED  BY <1>1, <1>4 DEF P

\* The scan inside a string: after byte i, escape says that byte i + 1 is escaped.
Inside(d, esc) == [depth |-> d, inString |-> TRUE, escape |-> esc, tooDeep |-> FALSE]

\* The scan of a string, whatever brackets and escaped quotes are in it.
LEMMA StringScan ==
    ASSUME NEW d \in Nat, NEW bytes, Len(bytes) \in Nat, DOMAIN bytes = 1 .. Len(bytes),
           IsString(bytes)
    PROVE  ScanFrom(Calm(d), bytes) = Calm(d)
<1>. DEFINE N == Len(bytes)
<1>1. PICK f : ScanRun(f, Calm(d), bytes) /\ ScanFrom(Calm(d), bytes) = f[N]
  BY CalmFacts, ScanFromRuns
<1>2. PICK escaped \in [1 .. N -> BOOLEAN] :
        /\ \A i \in 1 .. N :
              escaped[i] = (i > 1 /\ bytes[i - 1] = "backslash" /\ ~escaped[i - 1])
        /\ \A i \in 2 .. N : bytes[i] = "quote" /\ ~escaped[i] <=> i = N
  BY Zenon DEF IsString
<1>3. N \in Nat /\ N > 1 /\ bytes[1] = "quote"
  BY DEF IsString
<1>4. f[0] = Calm(d) /\ \A i \in 1 .. N : f[i] = ScanByte(f[i - 1], bytes[i])
  BY <1>1 DEF ScanRun
<1>. HIDE DEF N
<1>. DEFINE esc(i) == bytes[i] = "backslash" /\ ~escaped[i]
            P == {i \in 0 .. N : i = 0 \/ i = N \/ f[i] = Inside(d, esc(i))}
<1>5. \A i \in 2 .. N : escaped[i] = esc(i - 1)
  <2>1. \A i \in 2 .. N : i \in 1 .. N /\ i > 1
    BY <1>3
  <2>. QED  BY <1>2, <2>1
<1>6. f[1] = Inside(d, FALSE) /\ esc(1) = FALSE
  <2>1. f[1] = ScanByte(Calm(d), "quote")
    BY <1>3, <1>4
  <2>2. ScanByte(Calm(d), "quote") = ScanOutside(Calm(d), "quote")
    BY CalmFacts DEF ScanByte
  <2>3. ScanOutside(Calm(d), "quote") = Inside(d, FALSE)
    BY DEF ScanOutside, Calm, Inside
  <2>. QED  BY <1>3, <2>1, <2>2, <2>3
<1>7. ASSUME NEW i \in 2 .. N, f[i - 1] = Inside(d, esc(i - 1))
      PROVE  f[i] = IF i = N THEN Calm(d) ELSE Inside(d, esc(i))
  <2>1. i \in 1 .. N /\ f[i] = ScanByte(Inside(d, esc(i - 1)), bytes[i])
    BY <1>4, <1>7
  <2>2. escaped[i] = esc(i - 1) /\ (bytes[i] = "quote" /\ ~escaped[i] <=> i = N)
    BY <1>2, <1>5
  <2>3. CASE escaped[i]
    <3>1. i # N /\ ~esc(i) /\ f[i] = ScanByte(Inside(d, TRUE), bytes[i])
      BY <2>1, <2>2, <2>3
    <3>2. ScanByte(Inside(d, TRUE), bytes[i]) = Inside(d, FALSE)
      BY DEF ScanByte, Inside
    <3>. QED  BY <3>1, <3>2
  <2>4. CASE ~escaped[i]
    <3>1. f[i] = ScanByte(Inside(d, FALSE), bytes[i])
      BY <2>1, <2>2, <2>4
    <3>2. CASE i = N
      <4>1. bytes[i] = "quote"
        BY <2>2, <3>2
      <4>2. ScanByte(Inside(d, FALSE), "quote") = Calm(d)
        BY DEF ScanByte, Inside, Calm
      <4>. QED  BY <3>1, <3>2, <4>1, <4>2
    <3>3. CASE i # N
      <4>1. bytes[i] # "quote"
        BY <2>2, <2>4, <3>3
      <4>2. CASE bytes[i] = "backslash"
        <5>1. ScanByte(Inside(d, FALSE), "backslash") = Inside(d, TRUE)
          BY DEF ScanByte, Inside
        <5>. QED  BY <2>4, <3>1, <3>3, <4>2, <5>1
      <4>3. CASE bytes[i] # "backslash"
        <5>1. ScanByte(Inside(d, FALSE), bytes[i]) = Inside(d, FALSE)
          BY <4>1, <4>3 DEF ScanByte, Inside
        <5>. QED  BY <3>1, <3>3, <4>3, <5>1
      <4>. QED  BY <4>2, <4>3
    <3>. QED  BY <3>2, <3>3
  <2>. QED  BY <2>3, <2>4
<1>. HIDE DEF esc
<1>8. ASSUME NEW i \in 1 .. N, i - 1 \in P PROVE i \in P
  <2>1. CASE i = 1
    <3>1. f[1] = Inside(d, esc(1))
      BY <1>6, Zenon
    <3>2. i \in 0 .. N
      OBVIOUS
    <3>. QED  BY <2>1, <3>1, <3>2
  <2>2. CASE i # 1
    <3>1. i \in 2 .. N /\ i - 1 # N /\ i - 1 # 0
      BY <2>2, <1>3
    <3>2. f[i - 1] = Inside(d, esc(i - 1))
      BY <1>8, <3>1
    <3>. QED  BY <1>7, <3>1, <3>2
  <2>. QED  BY <2>1, <2>2
<1>9. N - 1 \in P
  <2>1. 0 \in P
    BY <1>3
  <2>. HIDE DEF P
  <2>2. \A i \in 0 .. N : i \in P
    BY <1>3, <1>8, <2>1, UpTo
  <2>. QED  BY <1>3, <2>2
<1>10. N \in 2 .. N /\ N - 1 # 0 /\ N - 1 # N
  BY <1>3
<1>11. f[N - 1] = Inside(d, esc(N - 1))
  BY <1>9, <1>10
<1>12. f[N] = Calm(d)
  BY <1>7, <1>10, <1>11
<1>. QED  BY <1>1, <1>12 DEF N

\* One more token, one more level at most.
LEMMA NestingStep ==
    ASSUME NEW tokens, NEW n \in Nat \ {0}
    PROVE  /\ Nesting(tokens, n) \in Int /\ Nesting(tokens, n - 1) \in Int
           /\ Nesting(tokens, n) = Nesting(tokens, n - 1) +
                 (IF tokens[n] = <<"open">> THEN 1 ELSE IF tokens[n] = <<"close">> THEN -1 ELSE 0)
<1>. DEFINE Opens(m) == {i \in 1 .. m : tokens[i] = <<"open">>}
            Closes(m) == {i \in 1 .. m : tokens[i] = <<"close">>}
<1>1. <<"open">> # <<"close">>
  OBVIOUS
<1>2. \A m \in Nat : /\ IsFiniteSet(Opens(m)) /\ Cardinality(Opens(m)) \in Nat
                     /\ IsFiniteSet(Closes(m)) /\ Cardinality(Closes(m)) \in Nat
  <2>1. TAKE m \in Nat
  <2>2. IsFiniteSet(1 .. m)
    BY FS_Interval
  <2>3. IsFiniteSet(Opens(m)) /\ IsFiniteSet(Closes(m))
    <3>1. Opens(m) \in SUBSET (1 .. m) /\ Closes(m) \in SUBSET (1 .. m)
      OBVIOUS
    <3>. HIDE DEF Opens, Closes
    <3>. QED  BY <2>2, <3>1, FS_Subset
  <2>. HIDE DEF Opens, Closes
  <2>. QED  BY <2>3, FS_CardinalityType
<1>3. n - 1 \in Nat /\ n \notin Opens(n - 1) /\ n \notin Closes(n - 1)
  OBVIOUS
<1>4. /\ tokens[n] = <<"open">> => Opens(n) = Opens(n - 1) \cup {n}
      /\ tokens[n] # <<"open">> => Opens(n) = Opens(n - 1)
      /\ tokens[n] = <<"close">> => Closes(n) = Closes(n - 1) \cup {n}
      /\ tokens[n] # <<"close">> => Closes(n) = Closes(n - 1)
  <2>1. 1 .. n = (1 .. n - 1) \cup {n}
    OBVIOUS
  <2>. QED  BY <2>1, Zenon
<1>5. \A m : Nesting(tokens, m) = Cardinality(Opens(m)) - Cardinality(Closes(m))
  BY DEF Nesting
<1>. HIDE DEF Opens, Closes
<1>6. /\ Cardinality(Opens(n)) = Cardinality(Opens(n - 1)) + (IF tokens[n] = <<"open">> THEN 1 ELSE 0)
      /\ Cardinality(Closes(n)) = Cardinality(Closes(n - 1)) + (IF tokens[n] = <<"close">> THEN 1 ELSE 0)
  <2>1. /\ Cardinality(Opens(n - 1) \cup {n}) = Cardinality(Opens(n - 1)) + 1
        /\ Cardinality(Closes(n - 1) \cup {n}) = Cardinality(Closes(n - 1)) + 1
    BY <1>2, <1>3, FS_AddElement
  <2>2. Cardinality(Opens(n - 1)) \in Nat /\ Cardinality(Closes(n - 1)) \in Nat
    BY <1>2, <1>3
  <2>3. Cardinality(Opens(n)) = Cardinality(Opens(n - 1)) + (IF tokens[n] = <<"open">> THEN 1 ELSE 0)
    <3>1. CASE tokens[n] = <<"open">>
      <4>1. Opens(n) = Opens(n - 1) \cup {n}
        BY <1>4, <3>1
      <4>. QED  BY <2>1, <3>1, <4>1
    <3>2. CASE tokens[n] # <<"open">>
      <4>1. Opens(n) = Opens(n - 1)
        BY <1>4, <3>2
      <4>. QED  BY <2>2, <3>2, <4>1
    <3>. QED  BY <3>1, <3>2
  <2>4. Cardinality(Closes(n)) = Cardinality(Closes(n - 1)) + (IF tokens[n] = <<"close">> THEN 1 ELSE 0)
    <3>1. CASE tokens[n] = <<"close">>
      <4>1. Closes(n) = Closes(n - 1) \cup {n}
        BY <1>4, <3>1
      <4>. QED  BY <2>1, <3>1, <4>1
    <3>2. CASE tokens[n] # <<"close">>
      <4>1. Closes(n) = Closes(n - 1)
        BY <1>4, <3>2
      <4>. QED  BY <2>2, <3>2, <4>1
    <3>. QED  BY <3>1, <3>2
  <2>. QED  BY <2>3, <2>4
<1>. QED  BY <1>1, <1>2, <1>3, <1>5, <1>6

\* Nothing nests before the first token.
LEMMA NestingStart ==
    ASSUME NEW tokens
    PROVE  Nesting(tokens, 0) = 0
<1>1. 1 .. 0 = {}
  OBVIOUS
<1>2. {i \in 1 .. 0 : tokens[i] = <<"open">>} = {} /\ {i \in 1 .. 0 : tokens[i] = <<"close">>} = {}
  BY <1>1, Zenon
<1>3. Cardinality({}) = 0
  BY FS_EmptySet
<1>. QED  BY <1>2, <1>3 DEF Nesting

\* A document of tokens is too deep exactly when its brackets nest too deep: between
\* two tokens the scan is calm, at the depth of the brackets that are open.
LEMMA TooDeepIsExact ==
    ASSUME NEW tokens, IsSequence(tokens), \A i \in DOMAIN tokens : IsSequence(tokens[i]),
           Tokenized(tokens)
    PROVE  TooDeep(tokens) <=> \E n \in DOMAIN tokens : Nesting(tokens, n) > MaxJsonDepth
<1>. DEFINE N == Len(tokens)
            Deep(n) == \E m \in 1 .. n : Nesting(tokens, m) > MaxJsonDepth
<1>1. N \in Nat /\ DOMAIN tokens = 1 .. N
  BY DEF IsSequence
<1>2. \A i \in 1 .. N : /\ Len(tokens[i]) \in Nat /\ DOMAIN tokens[i] = 1 .. Len(tokens[i])
                        /\ IsToken(tokens[i]) /\ Nesting(tokens, i) >= 0
  BY <1>1 DEF IsSequence, Tokenized
<1>3. PICK f \in [0 .. N -> ScanStates] :
        /\ f[0] = ScanStart
        /\ \A i \in 1 .. N : f[i] = ScanFrom(f[i - 1], tokens[i])
        /\ TooDeep(tokens) = f[N].tooDeep
  BY <1>1, <1>2, TokensRun
<1>. HIDE DEF N
<1>. DEFINE P == {n \in 0 .. N : /\ Nesting(tokens, n) \in Nat
                                 /\ Deep(n) => f[n].tooDeep
                                 /\ ~Deep(n) => f[n] = Calm(Nesting(tokens, n))}
<1>m. MaxJsonDepth \in Nat
  BY TargetingAssumption
<1>4. 0 \in P
  <2>1. ScanStart = Calm(0) /\ ~Deep(0)
    BY DEF ScanStart, Calm
  <2>. QED  BY <1>1, <1>3, <2>1, NestingStart
<1>5. ASSUME NEW n \in 1 .. N, n - 1 \in P PROVE n \in P
  <2>. DEFINE d == Nesting(tokens, n - 1)
              e == Nesting(tokens, n)
  <2>1. n \in Nat \ {0} /\ n \in 0 .. N /\ n - 1 \in 0 .. N
    BY <1>1
  <2>2. /\ e \in Nat /\ d \in Nat
        /\ e = d + (IF tokens[n] = <<"open">> THEN 1 ELSE IF tokens[n] = <<"close">> THEN -1 ELSE 0)
    <3>1. /\ e \in Int
          /\ e = d + (IF tokens[n] = <<"open">> THEN 1 ELSE IF tokens[n] = <<"close">> THEN -1 ELSE 0)
      BY <2>1, NestingStep
    <3>2. e >= 0 /\ d \in Nat
      BY <1>2, <1>5
    <3>. HIDE DEF e, d, P
    <3>. QED  BY <3>1, <3>2
  <2>3. Deep(n) <=> Deep(n - 1) \/ e > MaxJsonDepth
    <3>1. 1 .. n = (1 .. n - 1) \cup {n}
      BY <2>1
    <3>. QED  BY <3>1, Zenon
  <2>4. f[n] = ScanFrom(f[n - 1], tokens[n]) /\ f[n - 1] \in ScanStates
    BY <1>3, <2>1
  <2>5. (Deep(n - 1) => f[n - 1].tooDeep) /\ (~Deep(n - 1) => f[n - 1] = Calm(d))
    BY <1>5
  <2>6. d > MaxJsonDepth => Deep(n - 1)
    <3>1. d > MaxJsonDepth => n - 1 # 0
      BY <1>m, NestingStart
    <3>2. n - 1 # 0 => n - 1 \in 1 .. n - 1
      BY <2>1
    <3>. HIDE DEF d
    <3>. QED  BY <3>1, <3>2 DEF d
  <2>. HIDE DEF Deep, d, e
  <2>7. (Deep(n) => f[n].tooDeep) /\ (~Deep(n) => f[n] = Calm(e))
    <3>1. CASE Deep(n - 1)
      <4>1. f[n] = f[n - 1]
        BY <1>2, <2>4, <2>5, <3>1, ScanStays
      <4>. QED  BY <2>3, <2>5, <3>1, <4>1
    <3>2. CASE ~Deep(n - 1)
      <4>1. f[n] = ScanFrom(Calm(d), tokens[n]) /\ ~(d > MaxJsonDepth)
        BY <2>4, <2>5, <2>6, <3>2
      <4>2. CASE tokens[n] = <<"open">>
        <5>1. f[n] = [Calm(d + 1) EXCEPT !.tooDeep = (d = MaxJsonDepth)] /\ e = d + 1
          BY <2>2, <4>1, <4>2, OpenScan
        <5>2. d = MaxJsonDepth <=> e > MaxJsonDepth
          BY <1>m, <2>2, <4>1, <5>1
        <5>3. CASE d = MaxJsonDepth
          <6>1. f[n].tooDeep
            BY <5>1, <5>3 DEF Calm
          <6>. QED  BY <2>3, <5>2, <5>3, <6>1
        <5>4. CASE d # MaxJsonDepth
          <6>1. f[n] = Calm(d + 1)
            BY <5>1, <5>4 DEF Calm
          <6>. QED  BY <2>3, <3>2, <5>1, <5>2, <5>4, <6>1
        <5>. QED  BY <5>3, <5>4
      <4>3. CASE tokens[n] = <<"close">>
        <5>1. <<"open">> # <<"close">>
          OBVIOUS
        <5>2. e = d - 1 /\ d > 0
          BY <2>2, <4>3, <5>1
        <5>3. f[n] = Calm(e)
          BY <2>2, <4>1, <4>3, <5>2, CloseScan
        <5>4. ~(e > MaxJsonDepth)
          BY <1>m, <2>2, <4>1, <5>2
        <5>. QED  BY <2>3, <3>2, <5>3, <5>4
      <4>4. CASE tokens[n] # <<"open">> /\ tokens[n] # <<"close">>
        <5>1. e = d
          BY <2>2, <4>4
        <5>2. f[n] = Calm(d)
          <6>1. \/ \A i \in 1 .. Len(tokens[n]) : tokens[n][i] \notin {"open", "close", "quote"}
                \/ IsString(tokens[n])
            BY <1>2, <4>4 DEF IsToken
          <6>. QED  BY <1>2, <2>2, <4>1, <6>1, PlainScan, StringScan
        <5>. QED  BY <2>3, <3>2, <4>1, <5>1, <5>2
      <4>. QED  BY <4>2, <4>3, <4>4
    <3>. QED  BY <3>1, <3>2
  <2>. QED  BY <2>1, <2>2, <2>7 DEF e
<1>6. N \in P
  <2>. HIDE DEF P
  <2>. QED  BY <1>1, <1>4, <1>5, UpTo
<1>7. f[N].tooDeep <=> Deep(N)
  <2>1. (Deep(N) => f[N].tooDeep) /\ (~Deep(N) => f[N] = Calm(Nesting(tokens, N)))
    BY <1>6
  <2>. HIDE DEF Deep
  <2>. QED  BY <2>1 DEF Calm
<1>. QED  BY <1>1, <1>3, <1>7

\* For every text of JSON tokens that closes no more than it opens, and for every
\* limit: check_json_depth refuses the text exactly when its brackets nest deeper
\* than the limit, whatever quotes and backslashes its strings hold.
THEOREM DepthScanIsExact == Spec => DepthScanExact
<1>. DEFINE Nested == \E n \in DOMAIN doc.tokens : Nesting(doc.tokens, n) > MaxJsonDepth
<1>1. ASSUME IInv, [Next]_vars, ~UNCHANGED vars, stage = "scan", Tokenized(doc.tokens)
      PROVE  stage' = "rejected" <=> Nested
  <2>1. CheckJsonDepth
    BY <1>1 DEF Next, ParseFails, ParseDocument, VisitTooDeep, VisitBadRef, VisitRef, VisitNode,
                LeaveRef, Resolved, Compile, Visiting
  <2>2. stage' = "rejected" <=> TooDeep(doc.tokens)
    BY <2>1 DEF CheckJsonDepth, Reject
  <2>3. IsSequence(doc.tokens) /\ \A i \in DOMAIN doc.tokens : IsSequence(doc.tokens[i])
    BY <1>1, TargetingAssumption DEF IInv, DocumentOK
  <2>4. TooDeep(doc.tokens) <=> Nested
    BY <1>1, <2>3, TooDeepIsExact
  <2>. HIDE DEF Nested
  <2>. QED  BY <2>2, <2>4
<1>2. IInv /\ [Next]_vars =>
         [stage = "scan" /\ Tokenized(doc.tokens) => (stage' = "rejected" <=> Nested)]_vars
  BY <1>1
<1>. QED  BY <1>2, Invariant, PTL DEF Spec, DepthScanExact

-----------------------------------------------------------------------------
(***************************************************************************)
(* Everything that next leads to                                           *)
(***************************************************************************)

\* Reachable is the least set with the start that next does not lead out of: either
\* the set has stopped growing, or it has more elements than the steps taken.
LEMMA ReachableFacts ==
    ASSUME NEW U, IsFiniteSet(U), NEW s \in U, NEW next \in [U -> SUBSET U]
    PROVE  /\ Reachable(U, s, next) \in SUBSET U
           /\ s \in Reachable(U, s, next)
           /\ \A x \in Reachable(U, s, next) : next[x] \in SUBSET Reachable(U, s, next)
           /\ \A T \in SUBSET U :
                 s \in T /\ (\A x \in T : next[x] \in SUBSET T) =>
                     Reachable(U, s, next) \in SUBSET T
<1>. DEFINE N == Cardinality(U)
            Grow(S) == S \cup UNION {next[x] : x \in S}
            step == [i \in 1 .. N |-> [S \in SUBSET U |-> Grow(S)]]
            body(f) == [n \in 0 .. N |->
                           IF n = 0 THEN {s}
                           ELSE f[n - 1] \cup UNION {next[x] : x \in f[n - 1]}]
            c == CHOOSE f : f = body(f)
<1>n. N \in Nat
  BY FS_CardinalityType
<1>g. \A S \in SUBSET U : Grow(S) \in SUBSET U /\ S \subseteq Grow(S)
  OBVIOUS
<1>1. step \in [1 .. N -> [SUBSET U -> SUBSET U]]
  <2>. HIDE DEF Grow, N
  <2>. QED  BY <1>g
<1>2. \A i \in 1 .. N : \A S \in SUBSET U : step[i][S] = Grow(S)
  <2>. HIDE DEF Grow, N
  <2>. QED  OBVIOUS
<1>b. \A f : body(f) = [n \in 0 .. N |-> IF n = 0 THEN {s} ELSE Grow(f[n - 1])]
  OBVIOUS
<1>. HIDE DEF step, N
<1>3. PICK f : IsRun(f, SUBSET U, N, step, {s})
  <2>1. {s} \in SUBSET U
    OBVIOUS
  <2>. QED  BY <1>n, <1>1, <2>1, RunExists
<1>. HIDE DEF Grow, body
<1>4. f = body(f)
  <2>1. ASSUME NEW n \in 0 .. N, n # 0
        PROVE  f[n] = Grow(f[n - 1])
    <3>1. n \in 1 .. N /\ n - 1 \in 0 .. N
      BY <1>n, <2>1
    <3>2. f[n - 1] \in SUBSET U
      BY <1>3, <3>1 DEF IsRun
    <3>. QED  BY <1>2, <1>3, <3>1, <3>2 DEF IsRun
  <2>2. f = [n \in 0 .. N |-> f[n]]
    BY <1>3 DEF IsRun
  <2>3. f[0] = {s}
    BY <1>3 DEF IsRun
  <2>. QED  BY <1>b, <2>1, <2>2, <2>3
<1>5. c = body(c)
  BY <1>4
<1>6. Reachable(U, s, next) = c[N]
  BY DEF Reachable, N, body
<1>. HIDE DEF c
<1>7. c[0] = {s} /\ \A i \in 1 .. N : c[i] = Grow(c[i - 1])
  <2>1. 0 \in 0 .. N /\ \A i \in 1 .. N : i \in 0 .. N /\ i # 0
    BY <1>n
  <2>. QED  BY <1>5, <1>b, <2>1
<1>8. \A i \in 0 .. N : c[i] \in SUBSET U
  <2>1. \A i \in 1 .. N : c[i - 1] \in SUBSET U => c[i] = step[i][c[i - 1]]
    BY <1>2, <1>7
  <2>2. c[0] \in SUBSET U
    BY <1>7
  <2>. QED  BY <1>n, <1>1, <2>1, <2>2, RunTyped
<1>9. \A i \in 0 .. N : s \in c[i]
  <2>. DEFINE P == {i \in 0 .. N : s \in c[i]}
  <2>1. 0 \in P
    BY <1>n, <1>7
  <2>2. ASSUME NEW i \in 1 .. N, i - 1 \in P PROVE i \in P
    <3>1. i \in 0 .. N /\ i - 1 \in 0 .. N
      BY <1>n
    <3>. QED  BY <1>g, <1>7, <1>8, <2>2, <3>1
  <2>. HIDE DEF P
  <2>3. \A i \in 0 .. N : i \in P
    BY <1>n, <2>1, <2>2, UpTo
  <2>. QED  BY <2>3 DEF P
<1>. DEFINE Closed(S) == \A x \in S : next[x] \in SUBSET S
<1>10. Closed(c[N])
  <2>. DEFINE P == {i \in 0 .. N : Closed(c[i]) \/ Cardinality(c[i]) > i}
  <2>f. \A i \in 0 .. N : IsFiniteSet(c[i]) /\ Cardinality(c[i]) \in Nat /\ Cardinality(c[i]) <= N
    BY <1>8, FS_Subset, FS_CardinalityType DEF N
  <2>1. 0 \in P
    <3>1. Cardinality({s}) = 1
      BY FS_Singleton
    <3>2. 0 \in 0 .. N /\ Cardinality(c[0]) > 0
      BY <1>n, <1>7, <3>1
    <3>. HIDE DEF Closed
    <3>. QED  BY <3>2
  <2>2. ASSUME NEW i \in 1 .. N, i - 1 \in P PROVE i \in P
    <3>1. i \in 0 .. N /\ i - 1 \in 0 .. N /\ c[i] = Grow(c[i - 1])
      BY <1>n, <1>7
    <3>2. CASE Closed(c[i - 1])
      <4>1. Grow(c[i - 1]) = c[i - 1]
        BY <3>2 DEF Grow
      <4>. QED  BY <3>1, <3>2, <4>1
    <3>3. CASE ~Closed(c[i - 1])
      <4>1. c[i] # c[i - 1]
        BY <3>1, <3>3 DEF Grow
      <4>2. c[i - 1] \in SUBSET c[i]
        BY <1>8, <1>g, <3>1
      <4>3. Cardinality(c[i - 1]) < Cardinality(c[i])
        <5>1. /\ Cardinality(c[i - 1]) <= Cardinality(c[i])
              /\ Cardinality(c[i - 1]) # Cardinality(c[i])
          BY <2>f, <3>1, <4>1, <4>2, FS_Subset
        <5>. QED  BY <2>f, <3>1, <5>1
      <4>4. Cardinality(c[i - 1]) > i - 1
        BY <2>2, <3>3
      <4>. QED  BY <2>f, <3>1, <4>3, <4>4
    <3>. QED  BY <3>2, <3>3
  <2>. HIDE DEF P, Closed
  <2>3. N \in P
    BY <1>n, <2>1, <2>2, UpTo
  <2>4. N \in 0 .. N
    BY <1>n
  <2>. QED  BY <1>n, <2>f, <2>3, <2>4 DEF P
<1>11. ASSUME NEW T \in SUBSET U, s \in T, Closed(T)
       PROVE  c[N] \in SUBSET T
  <2>. DEFINE P == {i \in 0 .. N : c[i] \in SUBSET T}
  <2>1. 0 \in P
    BY <1>n, <1>7, <1>11
  <2>2. ASSUME NEW i \in 1 .. N, i - 1 \in P PROVE i \in P
    <3>1. i \in 0 .. N /\ c[i] = Grow(c[i - 1])
      BY <1>n, <1>7
    <3>2. Grow(c[i - 1]) \in SUBSET T
      BY <1>11, <2>2 DEF Grow
    <3>. QED  BY <3>1, <3>2
  <2>. HIDE DEF P
  <2>3. N \in P
    BY <1>n, <2>1, <2>2, UpTo
  <2>. QED  BY <2>3 DEF P
<1>12. N \in 0 .. N
  BY <1>n
<1>. QED  BY <1>6, <1>8, <1>9, <1>10, <1>11, <1>12

-----------------------------------------------------------------------------
(***************************************************************************)
(* Where the nodes of a document lead                                      *)
(***************************************************************************)
IsRef(d, i) == d.nodes[i].op = "ref"
NameAt(d, i) == d.nodes[i].path[1]
BodyAt(d, i) == d.evaluators[NameAt(d, i)]
ArgsAt(d, i) == {d.nodes[i].args[j] : j \in DOMAIN d.nodes[i].args}

\* The nodes a call of resolve_refs on node i makes calls on.
Successors(d, i) ==
    IF ~IsRef(d, i) THEN ArgsAt(d, i)
    ELSE IF NameAt(d, i) \in DOMAIN d.evaluators THEN {BodyAt(d, i)} ELSE {}

\* The nodes that are called, directly or not, from a call on node i.
Under(d, i) == Reachable(DOMAIN d.nodes, i, [n \in DOMAIN d.nodes |-> Successors(d, n)])

\* LeadsTo and Places, as operators of the document.
PlacesIn(d) == [node : DOMAIN d.nodes, refs : 0 .. MaxRefDepth + 1]

Leads(d, p) ==
    IF ~IsRef(d, p.node) THEN {Place(a, p.refs) : a \in ArgsAt(d, p.node)}
    ELSE IF NameAt(d, p.node) \in DOMAIN d.evaluators /\ p.refs <= MaxRefDepth
         THEN {Place(BodyAt(d, p.node), p.refs + 1)}
         ELSE {}

From(d, p) == Reachable(PlacesIn(d), p, [q \in PlacesIn(d) |-> Leads(d, q)])

Start(d) == Place(d.rule, 0)

\* They are the same.
LEMMA PlacesAre == Places = From(doc, Start(doc))
<1>1. AllPlaces = PlacesIn(doc)
  BY Zenon DEF AllPlaces, PlacesIn
<1>2. ASSUME NEW p \in AllPlaces PROVE LeadsTo(p) = Leads(doc, p)
  BY DEF LeadsTo, Leads, IsRef, NameAt, BodyAt, ArgsAt
<1>3. [p \in AllPlaces |-> LeadsTo(p)] = [p \in PlacesIn(doc) |-> Leads(doc, p)]
  BY <1>1, <1>2
<1>. QED  BY <1>1, <1>3 DEF Places, From, Start

\* The documents that parse.
Numbered(d) ==
    /\ Len(d.nodes) \in Nat /\ DOMAIN d.nodes = 1 .. Len(d.nodes)
    /\ d.rule \in DOMAIN d.nodes
    /\ \A e \in DOMAIN d.evaluators : d.evaluators[e] \in DOMAIN d.nodes
    /\ \A i \in DOMAIN d.nodes : \A a \in ArgsAt(d, i) : a \in DOMAIN d.nodes /\ a > i

\* What TargetingAssumption says of a document that parses.
LEMMA ParsedIsNumbered ==
    ASSUME doc \in Documents, doc.parses
    PROVE  Numbered(doc)
<1>1. /\ IsSequence(doc.nodes)
      /\ doc.rule \in DOMAIN doc.nodes
      /\ \A e \in DOMAIN doc.evaluators : doc.evaluators[e] \in DOMAIN doc.nodes
      /\ \A i \in DOMAIN doc.nodes : \A j \in DOMAIN doc.nodes[i].args :
            doc.nodes[i].args[j] \in DOMAIN doc.nodes /\ doc.nodes[i].args[j] > i
  BY TargetingAssumption
<1>2. Len(doc.nodes) \in Nat /\ DOMAIN doc.nodes = 1 .. Len(doc.nodes)
  BY <1>1 DEF IsSequence
<1>. QED  BY <1>1, <1>2 DEF Numbered, ArgsAt

\* Its nodes are finitely many, and numbers.
LEMMA NodesFinite ==
    ASSUME NEW d, Numbered(d)
    PROVE  IsFiniteSet(DOMAIN d.nodes) /\ DOMAIN d.nodes \in SUBSET Nat
BY FS_Interval DEF Numbered

\* A call is made on a node of the document.
LEMMA SuccessorsTyped ==
    ASSUME NEW d, Numbered(d), NEW i \in DOMAIN d.nodes
    PROVE  Successors(d, i) \in SUBSET DOMAIN d.nodes
BY DEF Numbered, Successors, BodyAt

\* The least set with a node that is closed under calls.
LEMMA UnderFacts ==
    ASSUME NEW d, Numbered(d), NEW i \in DOMAIN d.nodes
    PROVE  /\ Under(d, i) \in SUBSET DOMAIN d.nodes
           /\ i \in Under(d, i)
           /\ \A x \in Under(d, i) : Successors(d, x) \in SUBSET Under(d, i)
           /\ \A T \in SUBSET DOMAIN d.nodes :
                 i \in T /\ (\A x \in T : Successors(d, x) \in SUBSET T) =>
                     Under(d, i) \in SUBSET T
<1>. DEFINE N == DOMAIN d.nodes
            next == [n \in N |-> Successors(d, n)]
<1>1. IsFiniteSet(N)
  BY NodesFinite
<1>2. next \in [N -> SUBSET N]
  BY SuccessorsTyped
<1>3. \A x \in N : next[x] = Successors(d, x)
  OBVIOUS
<1>4. Under(d, i) = Reachable(N, i, next)
  BY DEF Under
<1>. HIDE DEF next, N
<1>5. i \in N
  BY DEF N
<1>6. /\ Reachable(N, i, next) \in SUBSET N
      /\ i \in Reachable(N, i, next)
      /\ \A x \in Reachable(N, i, next) : next[x] \in SUBSET Reachable(N, i, next)
      /\ \A T \in SUBSET N :
            i \in T /\ (\A x \in T : next[x] \in SUBSET T) => Reachable(N, i, next) \in SUBSET T
  BY <1>1, <1>2, <1>5, ReachableFacts
<1>7. \A x \in Under(d, i) : Successors(d, x) \in SUBSET Under(d, i)
  BY <1>3, <1>4, <1>6
<1>8. \A T \in SUBSET N : (\A x \in T : Successors(d, x) \in SUBSET T) => (\A x \in T : next[x] \in SUBSET T)
  BY <1>3
<1>. QED  BY <1>4, <1>6, <1>7, <1>8 DEF N

\* A node under i is i or under a successor of i.
LEMMA UnderSplits ==
    ASSUME NEW d, Numbered(d), NEW i \in DOMAIN d.nodes, NEW x \in Under(d, i), x # i
    PROVE  \E y \in Successors(d, i) : x \in Under(d, y)
<1>. DEFINE T == {i} \cup UNION {Under(d, y) : y \in Successors(d, i)}
<1>1. Successors(d, i) \in SUBSET DOMAIN d.nodes
  BY SuccessorsTyped
<1>2. T \in SUBSET DOMAIN d.nodes
  BY <1>1, UnderFacts
<1>3. ASSUME NEW z \in T PROVE Successors(d, z) \in SUBSET T
  <2>1. CASE z = i
    <3>1. \A y \in Successors(d, i) : y \in Under(d, y)
      BY <1>1, UnderFacts
    <3>. QED  BY <2>1, <3>1
  <2>2. CASE z # i
    <3>1. PICK y \in Successors(d, i) : z \in Under(d, y)
      BY <2>2
    <3>2. Successors(d, z) \in SUBSET Under(d, y)
      BY <1>1, <3>1, UnderFacts
    <3>. QED  BY <3>2
  <2>. QED  BY <2>1, <2>2
<1>4. i \in T
  OBVIOUS
<1>5. Under(d, i) \in SUBSET T
  <2>. HIDE DEF T
  <2>. QED  BY <1>2, <1>3, <1>4, UnderFacts
<1>. QED  BY <1>5

\* The places are finitely many: Reachable takes enough steps.
LEMMA PlacesFinite ==
    ASSUME NEW d, Numbered(d)
    PROVE  IsFiniteSet(PlacesIn(d))
<1>. DEFINE N == DOMAIN d.nodes
            K == 0 .. MaxRefDepth + 1
            f == [p \in N \X K |-> Place(p[1], p[2])]
<1>1. IsFiniteSet(N) /\ IsFiniteSet(K)
  BY NodesFinite, FS_Interval, TargetingAssumption
<1>2. IsFiniteSet(N \X K)
  <2>. HIDE DEF N, K
  <2>. QED  BY <1>1, FS_Product
<1>3. f \in Surjection(N \X K, PlacesIn(d))
  <2>1. f \in [N \X K -> PlacesIn(d)]
    BY DEF Place, PlacesIn
  <2>2. ASSUME NEW q \in PlacesIn(d) PROVE \E p \in N \X K : f[p] = q
    <3>1. q.node \in N /\ q.refs \in K /\ q = [node |-> q.node, refs |-> q.refs]
      BY DEF PlacesIn
    <3>. DEFINE p == <<q.node, q.refs>>
    <3>2. p \in N \X K /\ p[1] = q.node /\ p[2] = q.refs
      BY <3>1
    <3>3. f[p] = Place(p[1], p[2])
      BY <3>2
    <3>. HIDE DEF p, f
    <3>. QED  BY <3>1, <3>2, <3>3 DEF Place
  <2>. HIDE DEF f, N, K
  <2>. QED  BY <2>1, <2>2 DEF Surjection
<1>. HIDE DEF N, K, f
<1>. QED  BY <1>2, <1>3, FS_Surjection

\* The parts of a place.
LEMMA PlaceFacts ==
    ASSUME NEW i, NEW k
    PROVE  Place(i, k).node = i /\ Place(i, k).refs = k
BY DEF Place

\* A place leads to places.
LEMMA LeadsTyped ==
    ASSUME NEW d, Numbered(d), NEW p \in PlacesIn(d)
    PROVE  Leads(d, p) \in SUBSET PlacesIn(d)
<1>1. p.node \in DOMAIN d.nodes /\ p.refs \in 0 .. MaxRefDepth + 1
  BY DEF PlacesIn
<1>2. ASSUME NEW i \in DOMAIN d.nodes, NEW k \in 0 .. MaxRefDepth + 1
      PROVE  Place(i, k) \in PlacesIn(d)
  BY DEF Place, PlacesIn
<1>3. p.refs <= MaxRefDepth => p.refs + 1 \in 0 .. MaxRefDepth + 1
  BY <1>1, TargetingAssumption
<1>4. ArgsAt(d, p.node) \in SUBSET DOMAIN d.nodes
  BY <1>1 DEF Numbered
<1>5. NameAt(d, p.node) \in DOMAIN d.evaluators => BodyAt(d, p.node) \in DOMAIN d.nodes
  BY DEF Numbered, BodyAt
<1>. QED  BY <1>1, <1>2, <1>3, <1>4, <1>5 DEF Leads

\* The least set with a place that leads nowhere else.
LEMMA FromFacts ==
    ASSUME NEW d, Numbered(d), NEW p \in PlacesIn(d)
    PROVE  /\ From(d, p) \in SUBSET PlacesIn(d)
           /\ p \in From(d, p)
           /\ \A x \in From(d, p) : Leads(d, x) \in SUBSET From(d, p)
           /\ \A T \in SUBSET PlacesIn(d) :
                 p \in T /\ (\A x \in T : Leads(d, x) \in SUBSET T) =>
                     From(d, p) \in SUBSET T
<1>. DEFINE N == PlacesIn(d)
            next == [n \in N |-> Leads(d, n)]
<1>1. IsFiniteSet(N)
  BY PlacesFinite
<1>2. next \in [N -> SUBSET N]
  BY LeadsTyped
<1>3. \A x \in N : next[x] = Leads(d, x)
  OBVIOUS
<1>4. From(d, p) = Reachable(N, p, next)
  BY DEF From
<1>. HIDE DEF next, N
<1>5. p \in N
  BY DEF N
<1>6. /\ Reachable(N, p, next) \in SUBSET N
      /\ p \in Reachable(N, p, next)
      /\ \A x \in Reachable(N, p, next) : next[x] \in SUBSET Reachable(N, p, next)
      /\ \A T \in SUBSET N :
            p \in T /\ (\A x \in T : next[x] \in SUBSET T) => Reachable(N, p, next) \in SUBSET T
  BY <1>1, <1>2, <1>5, ReachableFacts
<1>7. \A x \in From(d, p) : Leads(d, x) \in SUBSET From(d, p)
  BY <1>3, <1>4, <1>6
<1>8. \A T \in SUBSET N : (\A x \in T : Leads(d, x) \in SUBSET T) => (\A x \in T : next[x] \in SUBSET T)
  BY <1>3
<1>. QED  BY <1>4, <1>6, <1>7, <1>8 DEF N

\* A place p leads to is p, or a place that one p leads to at once leads to.
LEMMA FromSplits ==
    ASSUME NEW d, Numbered(d), NEW p \in PlacesIn(d), NEW x \in From(d, p), x # p
    PROVE  \E y \in Leads(d, p) : x \in From(d, y)
<1>. DEFINE T == {p} \cup UNION {From(d, y) : y \in Leads(d, p)}
<1>1. Leads(d, p) \in SUBSET PlacesIn(d)
  BY LeadsTyped
<1>2. T \in SUBSET PlacesIn(d)
  BY <1>1, FromFacts
<1>3. ASSUME NEW z \in T PROVE Leads(d, z) \in SUBSET T
  <2>1. CASE z = p
    <3>1. \A y \in Leads(d, p) : y \in From(d, y)
      BY <1>1, FromFacts
    <3>. QED  BY <2>1, <3>1
  <2>2. CASE z # p
    <3>1. PICK y \in Leads(d, p) : z \in From(d, y)
      BY <2>2
    <3>2. Leads(d, z) \in SUBSET From(d, y)
      BY <1>1, <3>1, FromFacts
    <3>. QED  BY <3>2
  <2>. QED  BY <2>1, <2>2
<1>4. p \in T
  OBVIOUS
<1>5. From(d, p) \in SUBSET T
  <2>. HIDE DEF T
  <2>. QED  BY <1>2, <1>3, <1>4, FromFacts
<1>. QED  BY <1>5

\* A nonempty set of numbers up to n has a greatest element.
LEMMA Greatest ==
    ASSUME NEW n \in Nat, NEW T \in SUBSET (0 .. n), T # {}
    PROVE  \E m \in T : \A k \in T : k <= m
<1>. DEFINE D == {k \in 0 .. n : n - k \in T}
<1>1. D \in SUBSET Nat
  OBVIOUS
<1>2. \A k \in T : n - k \in D /\ n - (n - k) = k
  OBVIOUS
<1>3. PICK m \in D : \A k \in D : m <= k
  <2>1. D # {}
    BY <1>2
  <2>. HIDE DEF D
  <2>. QED  BY <1>1, <2>1, Least
<1>4. n - m \in T /\ m \in Nat
  BY <1>3
<1>5. ASSUME NEW k \in T PROVE k <= n - m
  <2>1. m <= n - k /\ k \in Nat
    <3>1. n - k \in D /\ k \in Nat
      BY <1>2
    <3>. HIDE DEF D
    <3>. QED  BY <1>3, <3>1
  <2>. QED  BY <1>4, <2>1
<1>. QED  BY <1>4, <1>5

\* Where a place of the rule leads to is a place of the rule.
LEMMA PlacesGrow ==
    ASSUME NEW d, Numbered(d), NEW x \in DOMAIN d.nodes, NEW k \in 0 .. MaxRefDepth,
           Place(x, k) \in From(d, Start(d)), NEW y \in Successors(d, x)
    PROVE  Place(y, IF IsRef(d, x) THEN k + 1 ELSE k) \in From(d, Start(d))
<1>1. Start(d) \in PlacesIn(d)
  BY TargetingAssumption DEF Numbered, Start, Place, PlacesIn
<1>2. Leads(d, Place(x, k)) \in SUBSET From(d, Start(d))
  BY <1>1, FromFacts
<1>3. Place(x, k).node = x /\ Place(x, k).refs = k
  BY PlaceFacts
<1>4. k <= MaxRefDepth
  BY TargetingAssumption
<1>5. Place(y, IF IsRef(d, x) THEN k + 1 ELSE k) \in Leads(d, Place(x, k))
  BY <1>3, <1>4 DEF Leads, Successors
<1>. QED  BY <1>2, <1>5

\* A chain of refs that comes back to where it was never ends, so that it exceeds
\* every limit: among the nodes that lead back to it, the last one at some number
\* of refs is a ref.
LEMMA CyclesAreLong ==
    ASSUME NEW d, Numbered(d), NEW i \in DOMAIN d.nodes, NEW k \in 0 .. MaxRefDepth + 1,
           IsRef(d, i), NameAt(d, i) \in DOMAIN d.evaluators, i \in Under(d, BodyAt(d, i)),
           Place(i, k) \in From(d, Start(d))
    PROVE  \E x : Place(x, MaxRefDepth + 1) \in From(d, Start(d))
<1>. DEFINE D == {x \in DOMAIN d.nodes : i \in Under(d, x)}
            Here(n) == {x \in D : Place(x, n) \in From(d, Start(d))}
            P == {n \in 0 .. MaxRefDepth + 1 : n < k \/ Here(n) # {}}
<1>m. MaxRefDepth \in Nat
  BY TargetingAssumption
<1>1. i \in D
  BY UnderFacts
<1>2. ASSUME NEW x \in D PROVE \E y \in Successors(d, x) : y \in D
  <2>1. CASE x = i
    <3>1. BodyAt(d, i) \in Successors(d, x) /\ BodyAt(d, i) \in DOMAIN d.nodes
      BY <2>1 DEF Successors, Numbered, BodyAt
    <3>. QED  BY <3>1
  <2>2. CASE x # i
    <3>1. PICK y \in Successors(d, x) : i \in Under(d, y)
      BY <2>2, UnderSplits
    <3>. QED  BY <3>1, SuccessorsTyped
  <2>. QED  BY <2>1, <2>2
<1>. HIDE DEF D
<1>3. D \in SUBSET DOMAIN d.nodes
  BY DEF D
<1>4. ASSUME NEW n \in 1 .. MaxRefDepth + 1, Here(n - 1) # {}
      PROVE  Here(n) # {}
  <2>1. PICK x \in Here(n - 1) : \A y \in Here(n - 1) : y <= x
    <3>1. Here(n - 1) \in SUBSET (0 .. Len(d.nodes)) /\ Len(d.nodes) \in Nat
      BY <1>3 DEF Numbered
    <3>. HIDE DEF Here
    <3>. QED  BY <1>4, <3>1, Greatest
  <2>2. PICK y \in Successors(d, x) : y \in D
    BY <1>2
  <2>3. n - 1 \in 0 .. MaxRefDepth /\ (n - 1) + 1 = n
    BY <1>m
  <2>4. Place(y, IF IsRef(d, x) THEN n ELSE n - 1) \in From(d, Start(d))
    BY <1>3, <2>2, <2>3, PlacesGrow
  <2>5. IsRef(d, x)
    <3>1. SUFFICES ASSUME ~IsRef(d, x) PROVE FALSE
      OBVIOUS
    <3>2. y \in ArgsAt(d, x) /\ y \in Here(n - 1)
      BY <2>2, <2>4, <3>1 DEF Successors
    <3>3. y > x /\ x \in Nat /\ y \in Nat
      BY <1>3, <3>2 DEF Numbered
    <3>. QED  BY <2>1, <3>2, <3>3
  <2>. QED  BY <2>2, <2>4, <2>5
<1>5. 0 \in P
  <2>1. CASE k = 0
    BY <1>m, <1>1, <2>1
  <2>2. CASE k # 0
    BY <1>m, <2>2
  <2>. QED  BY <2>1, <2>2
<1>6. ASSUME NEW n \in 1 .. MaxRefDepth + 1, n - 1 \in P PROVE n \in P
  <2>1. n \in 0 .. MaxRefDepth + 1
    BY <1>m
  <2>2. CASE n < k
    BY <2>1, <2>2
  <2>3. CASE n = k
    BY <1>1, <2>1, <2>3
  <2>4. CASE n > k
    <3>1. ~(n - 1 < k)
      BY <1>m, <2>4
    <3>2. Here(n - 1) # {}
      <4>. HIDE DEF Here
      <4>. QED  BY <1>6, <3>1
    <3>3. Here(n) # {}
      <4>. HIDE DEF Here
      <4>. QED  BY <1>4, <3>2
    <3>. QED  BY <2>1, <3>3
  <2>. QED  BY <1>m, <2>2, <2>3, <2>4
<1>7. MaxRefDepth + 1 \in P
  <2>. HIDE DEF P
  <2>. QED  BY <1>m, <1>5, <1>6, UpTo
<1>8. Here(MaxRefDepth + 1) # {}
  <2>. HIDE DEF Here
  <2>. QED  BY <1>m, <1>7
<1>. QED  BY <1>8

-----------------------------------------------------------------------------
(***************************************************************************)
(* What is known while the refs of a rule are resolved                     *)
(***************************************************************************)
PlaceOf(frame) == Place(frame.node, frame.depth)

\* Every call is one the rule leads to; what is left to do is left for a ref with a
\* body.
OnTheWay(d, s) ==
    \A k \in DOMAIN s :
        /\ s[k].node \in DOMAIN d.nodes /\ s[k].depth \in 0 .. MaxRefDepth + 1
        /\ PlaceOf(s[k]) \in From(d, Start(d))
        /\ s[k].what = "leave" => /\ IsRef(d, s[k].node)
                                  /\ NameAt(d, s[k].node) \in DOMAIN d.evaluators
                                  /\ s[k].depth <= MaxRefDepth

\* Everything above a ref on the stack belongs to its body.
Enclosed(d, s) ==
    \A q \in Leaves(s) : \A p \in 1 .. q - 1 : s[p].node \in Under(d, BodyAt(d, s[q].node))

\* Node i does not stand for a ref.
Settled(d, b, i) == ~IsRef(d, b[i])

\* A ref that is settled stands for what its body stands for, and every node of the
\* rule stands for a node of the rule.
Targets(d, b) ==
    /\ \A i \in DOMAIN d.nodes : ~IsRef(d, i) => b[i] = i
    /\ \A i \in DOMAIN d.nodes : IsRef(d, i) /\ Settled(d, b, i) =>
          /\ NameAt(d, i) \in DOMAIN d.evaluators
          /\ Settled(d, b, BodyAt(d, i)) /\ b[i] = b[BodyAt(d, i)]
    /\ \A p \in From(d, Start(d)) : \E k : Place(b[p.node], k) \in From(d, Start(d))

\* A body that is a ref, and not settled, is being resolved right above.
Pending(d, b, s) ==
    \A q \in Leaves(s) : ~Settled(d, b, BodyAt(d, s[q].node)) =>
        q > 1 /\ s[q - 1].node = BodyAt(d, s[q].node)

\* A place that has been looked at: a ref is settled or open.
Seen(d, b, s, p) ==
    /\ p.refs <= MaxRefDepth
    /\ IsRef(d, p.node) => /\ NameAt(d, p.node) \in DOMAIN d.evaluators
                           /\ Settled(d, b, p.node) \/ \E k \in Leaves(s) : s[k].node = p.node

ToCome(d, s, p) == \E k \in DOMAIN s : s[k].what # "leave" /\ p \in From(d, PlaceOf(s[k]))

\* Every place of the rule has been looked at or is still to come.
Walked(d, b, s) ==
    \A p \in From(d, Start(d)) : Seen(d, b, s, p) \/ ToCome(d, s, p)

\* The calls that replace the one on top of the stack, and where each was before.
LEMMA ReplaceLeaves ==
    ASSUME NEW S, NEW s \in Seq(S), s # <<>>, NEW t \in Seq(S), NEW q \in Leaves(t \o Tail(s))
    PROVE  LET o == q - Len(t) + 1
           IN  \/ q <= Len(t) /\ q \in Leaves(t) /\ (t \o Tail(s))[q] = t[q]
               \/ /\ ~(q <= Len(t)) /\ o \in 2 .. Len(s) /\ o \in Leaves(s)
                  /\ (t \o Tail(s))[q] = s[o]
<1>. DEFINE r == t \o Tail(s)
            n == Len(t)
            m == Len(s)
            o == q - n + 1
<1>1. /\ m \in Nat \ {0} /\ n \in Nat /\ r \in Seq(S) /\ Len(r) = n + m - 1
      /\ \A k \in 1 .. n + m - 1 : r[k] = IF k <= n THEN t[k] ELSE s[k - n + 1]
  BY ReplaceTop
<1>2. /\ DOMAIN r = 1 .. n + m - 1 /\ DOMAIN t = 1 .. n /\ DOMAIN s = 1 .. m
  BY <1>1
<1>. HIDE DEF r, n, m
<1>3. q \in 1 .. n + m - 1 /\ r[q].what = "leave"
  BY <1>2 DEF Leaves, r
<1>4. CASE q <= n
  <2>1. r[q] = t[q] /\ q \in 1 .. n
    BY <1>1, <1>3, <1>4
  <2>2. q \in Leaves(t)
    BY <1>2, <1>3, <2>1 DEF Leaves
  <2>. QED  BY <1>4, <2>1, <2>2 DEF r, n
<1>5. CASE ~(q <= n)
  <2>1. o \in 2 .. m /\ o \in 1 .. m
    BY <1>1, <1>3, <1>5
  <2>2. r[q] = s[o]
    BY <1>1, <1>3, <1>5
  <2>3. o \in Leaves(s)
    BY <1>2, <1>3, <2>1, <2>2 DEF Leaves
  <2>. QED  BY <1>5, <2>1, <2>2, <2>3 DEF r, n, m
<1>. QED  BY <1>4, <1>5

LEMMA ReplaceOnTheWay ==
    ASSUME NEW d, NEW S, NEW s \in Seq(S), s # <<>>, NEW t \in Seq(S),
           OnTheWay(d, s), OnTheWay(d, t)
    PROVE  OnTheWay(d, t \o Tail(s))
<1>. DEFINE r == t \o Tail(s)
            n == Len(t)
<1>1. /\ Len(s) \in Nat \ {0} /\ n \in Nat /\ r \in Seq(S) /\ Len(r) = n + Len(s) - 1
      /\ \A k \in 1 .. n + Len(s) - 1 : r[k] = IF k <= n THEN t[k] ELSE s[k - n + 1]
  BY ReplaceTop
<1>. HIDE DEF r
<1>2. ASSUME NEW k \in DOMAIN r
      PROVE  (k \in DOMAIN t /\ r[k] = t[k]) \/ (k - n + 1 \in DOMAIN s /\ r[k] = s[k - n + 1])
  BY <1>1
<1>. QED  BY <1>2 DEF OnTheWay, r

\* The calls that replace one on a node stay under what that node was under.
LEMMA ReplaceEnclosed ==
    ASSUME NEW d, Numbered(d), NEW S, NEW s \in Seq(S), s # <<>>, NEW t \in Seq(S),
           OnTheWay(d, s), Enclosed(d, s), Enclosed(d, t),
           \A k \in DOMAIN t : t[k].node \in {s[1].node} \cup Successors(d, s[1].node)
    PROVE  Enclosed(d, t \o Tail(s))
<1>. DEFINE r == t \o Tail(s)
            n == Len(t)
<1>1. /\ Len(s) \in Nat \ {0} /\ n \in Nat /\ r \in Seq(S) /\ Len(r) = n + Len(s) - 1
      /\ \A k \in 1 .. n + Len(s) - 1 : r[k] = IF k <= n THEN t[k] ELSE s[k - n + 1]
  BY ReplaceTop
<1>0. ASSUME NEW q \in Leaves(r)
      PROVE  LET o == q - n + 1
             IN  \/ q <= n /\ q \in Leaves(t) /\ r[q] = t[q]
                 \/ ~(q <= n) /\ o \in 2 .. Len(s) /\ o \in Leaves(s) /\ r[q] = s[o]
  BY ReplaceLeaves
<1>. HIDE DEF r
<1>2. ASSUME NEW q \in Leaves(r), NEW p \in 1 .. q - 1
      PROVE  r[p].node \in Under(d, BodyAt(d, r[q].node))
  <2>1. q \in 1 .. n + Len(s) - 1 /\ p \in 1 .. n + Len(s) - 1
    BY <1>1 DEF Leaves
  <2>2. CASE q <= n
    <3>1. q \in Leaves(t) /\ r[q] = t[q]
      BY <1>0, <2>2
    <3>2. r[p] = t[p]
      BY <1>1, <2>1, <2>2
    <3>. QED  BY <3>1, <3>2 DEF Enclosed
  <2>3. CASE ~(q <= n)
    <3>. DEFINE o == q - n + 1
                U == Under(d, BodyAt(d, s[o].node))
    <3>1. o \in 2 .. Len(s) /\ r[q] = s[o] /\ o \in Leaves(s)
      BY <1>0, <2>3
    <3>2. BodyAt(d, s[o].node) \in DOMAIN d.nodes
      BY <3>1 DEF OnTheWay, Numbered, BodyAt, Leaves
    <3>3. \A x \in U : Successors(d, x) \in SUBSET U
      BY <3>2, UnderFacts
    <3>4. s[1].node \in U
      BY <3>1 DEF Enclosed
    <3>5. CASE p <= n
      <4>1. r[p] = t[p] /\ p \in DOMAIN t
        BY <1>1, <2>1, <3>5
      <4>. QED  BY <3>1, <3>3, <3>4, <4>1
    <3>6. CASE ~(p <= n)
      <4>1. r[p] = s[p - n + 1] /\ p - n + 1 \in 1 .. o - 1
        BY <1>1, <2>1, <3>6
      <4>. QED  BY <3>1, <4>1 DEF Enclosed
    <3>. QED  BY <3>5, <3>6
  <2>. QED  BY <2>2, <2>3
<1>. QED  BY <1>2 DEF Enclosed, r

\* A body that is called stays right above its ref until it is settled.
LEMMA ReplacePending ==
    ASSUME NEW d, NEW b, NEW S, NEW s \in Seq(S), s # <<>>, NEW t \in Seq(S),
           Pending(d, b, s), Pending(d, b, t),
           Settled(d, b, s[1].node) \/ (t # <<>> /\ t[Len(t)].node = s[1].node)
    PROVE  Pending(d, b, t \o Tail(s))
<1>. DEFINE r == t \o Tail(s)
            n == Len(t)
<1>1. /\ Len(s) \in Nat \ {0} /\ n \in Nat /\ r \in Seq(S) /\ Len(r) = n + Len(s) - 1
      /\ \A k \in 1 .. n + Len(s) - 1 : r[k] = IF k <= n THEN t[k] ELSE s[k - n + 1]
  BY ReplaceTop
<1>0. ASSUME NEW q \in Leaves(r)
      PROVE  LET o == q - n + 1
             IN  \/ q <= n /\ q \in Leaves(t) /\ r[q] = t[q]
                 \/ ~(q <= n) /\ o \in 2 .. Len(s) /\ o \in Leaves(s) /\ r[q] = s[o]
  BY ReplaceLeaves
<1>. HIDE DEF r
<1>2. ASSUME NEW q \in Leaves(r), ~Settled(d, b, BodyAt(d, r[q].node))
      PROVE  q > 1 /\ r[q - 1].node = BodyAt(d, r[q].node)
  <2>1. q \in 1 .. n + Len(s) - 1
    BY <1>1 DEF Leaves
  <2>2. CASE q <= n
    <3>1. q \in Leaves(t) /\ r[q] = t[q]
      BY <1>0, <2>2
    <3>2. q > 1 /\ t[q - 1].node = BodyAt(d, t[q].node)
      BY <1>2, <3>1 DEF Pending
    <3>3. r[q - 1] = t[q - 1]
      BY <1>1, <2>1, <2>2, <3>2
    <3>. QED  BY <3>1, <3>2, <3>3
  <2>3. CASE ~(q <= n)
    <3>. DEFINE o == q - n + 1
    <3>1. o \in 2 .. Len(s) /\ r[q] = s[o] /\ o \in Leaves(s)
      BY <1>0, <2>3
    <3>2. s[o - 1].node = BodyAt(d, s[o].node)
      BY <1>2, <3>1 DEF Pending
    <3>3. CASE o = 2
      <4>1. s[1].node = BodyAt(d, s[o].node) /\ o - 1 = 1
        BY <3>2, <3>3
      <4>2. t # <<>> /\ t[n].node = s[1].node
        BY <1>2, <3>1, <4>1
      <4>3. n > 0 /\ q - 1 = n
        BY <1>1, <2>1, <3>3, <4>2
      <4>4. r[q - 1] = t[n]
        BY <1>1, <2>1, <4>3
      <4>5. q > 1
        BY <1>1, <2>1, <4>3
      <4>. HIDE DEF o, n
      <4>. QED  BY <3>1, <4>1, <4>2, <4>4, <4>5
    <3>4. CASE o # 2
      <4>1. q > 1 /\ q - 1 \in 1 .. n + Len(s) - 1 /\ ~(q - 1 <= n) /\ (q - 1) - n + 1 = o - 1
        BY <1>1, <2>1, <3>1, <3>4
      <4>2. r[q - 1] = s[o - 1]
        BY <1>1, <4>1
      <4>. QED  BY <3>1, <3>2, <4>1, <4>2
    <3>. QED  BY <3>3, <3>4
  <2>. QED  BY <2>2, <2>3
<1>. QED  BY <1>2 DEF Pending, r

\* What the call on top was to look at is looked at by those that replace it.
LEMMA ReplaceWalked ==
    ASSUME NEW d, NEW b, NEW S, NEW s \in Seq(S), s # <<>>, NEW t \in Seq(S),
           Walked(d, b, s),
           s[1].what = "leave" => Settled(d, b, s[1].node),
           s[1].what # "leave" =>
               \A p \in From(d, PlaceOf(s[1])) : Seen(d, b, t, p) \/ ToCome(d, t, p)
    PROVE  Walked(d, b, t \o Tail(s))
<1>. DEFINE r == t \o Tail(s)
            n == Len(t)
<1>1. /\ Len(s) \in Nat \ {0} /\ n \in Nat /\ r \in Seq(S) /\ Len(r) = n + Len(s) - 1
      /\ \A k \in 1 .. n + Len(s) - 1 : r[k] = IF k <= n THEN t[k] ELSE s[k - n + 1]
  BY ReplaceTop
<1>. HIDE DEF r
<1>d. DOMAIN t = 1 .. n /\ DOMAIN s = 1 .. Len(s) /\ DOMAIN r = 1 .. n + Len(s) - 1
  BY <1>1
<1>. HIDE DEF n
<1>2. \A k \in DOMAIN t : k \in DOMAIN r /\ r[k] = t[k]
  BY <1>1, <1>d
<1>3. ASSUME NEW k \in DOMAIN s, k # 1
      PROVE  k + n - 1 \in DOMAIN r /\ r[k + n - 1] = s[k]
  <2>1. k \in 2 .. Len(s) /\ k + n - 1 \in 1 .. n + Len(s) - 1 /\ ~(k + n - 1 <= n)
        /\ (k + n - 1) - n + 1 = k
    BY <1>1, <1>d, <1>3
  <2>. QED  BY <1>1, <1>d, <2>1
<1>4. ASSUME NEW p, Seen(d, b, t, p) PROVE Seen(d, b, r, p)
  <2>1. \A k \in Leaves(t) : k \in Leaves(r) /\ r[k] = t[k]
    BY <1>2 DEF Leaves
  <2>. QED  BY <1>4, <2>1 DEF Seen
<1>5. ASSUME NEW p, ToCome(d, t, p) PROVE ToCome(d, r, p)
  BY <1>2, <1>5 DEF ToCome
<1>6. ASSUME NEW p \in From(d, Start(d)) PROVE Seen(d, b, r, p) \/ ToCome(d, r, p)
  <2>1. CASE Seen(d, b, s, p)
    <3>1. ASSUME NEW k \in Leaves(s), s[k].node = p.node
          PROVE  Settled(d, b, p.node) \/ \E l \in Leaves(r) : r[l].node = p.node
      <4>1. CASE k = 1
        BY <3>1, <4>1 DEF Leaves
      <4>2. CASE k # 1
        <5>1. k + n - 1 \in Leaves(r) /\ r[k + n - 1] = s[k]
          BY <1>3, <4>2 DEF Leaves
        <5>. QED  BY <3>1, <5>1
      <4>. QED  BY <4>1, <4>2
    <3>. QED  BY <2>1, <3>1 DEF Seen
  <2>2. CASE ToCome(d, s, p)
    <3>1. PICK k \in DOMAIN s : s[k].what # "leave" /\ p \in From(d, PlaceOf(s[k]))
      BY <2>2 DEF ToCome
    <3>2. CASE k = 1
      BY <1>4, <1>5, <3>1, <3>2
    <3>3. CASE k # 1
      BY <1>3, <3>1, <3>3 DEF ToCome
    <3>. QED  BY <3>2, <3>3
  <2>. QED  BY <2>1, <2>2 DEF Walked
<1>. QED  BY <1>6 DEF Walked, r

Resolving(d, b, s) ==
    /\ OnTheWay(d, s) /\ Enclosed(d, s)
    /\ Targets(d, b) /\ Pending(d, b, s) /\ Walked(d, b, s)

\* Some place has too many refs or a ref that names no evaluator.
Refusable(d) ==
    \E p \in From(d, Start(d)) :
        \/ p.refs > MaxRefDepth
        \/ IsRef(d, p.node) /\ NameAt(d, p.node) \notin DOMAIN d.evaluators

\* The inductive invariant of the resolution, on top of IInv.
RInv ==
    /\ stage \in {"scan", "parse"} => \A i \in DOMAIN doc.nodes : becomes[i] = i
    /\ stage = "resolve" => DOMAIN doc.evaluators # {}
    /\ stage \in {"resolve", "compile", "ready"} /\ DOMAIN doc.evaluators # {} =>
          Resolving(doc, becomes, work)
    /\ stage = "rejected" /\ ~TooDeep(doc.tokens) /\ doc.parses /\ DOMAIN doc.evaluators # {} =>
          Refusable(doc)

\* A rule is resolvable when no place of it is refusable.
LEMMA ResolvableIs ==
    ASSUME doc \in Documents, doc.parses
    PROVE  Resolvable <=> ~Refusable(doc)
<1>1. Numbered(doc)
  BY ParsedIsNumbered
<1>2. Start(doc) \in PlacesIn(doc)
  BY <1>1, TargetingAssumption DEF Numbered, Start, Place, PlacesIn
<1>3. \A p \in From(doc, Start(doc)) : p.refs \in 0 .. MaxRefDepth + 1
  BY <1>1, <1>2, FromFacts DEF PlacesIn
<1>4. \A p \in From(doc, Start(doc)) : p.refs <= MaxRefDepth <=> ~(p.refs > MaxRefDepth)
  BY <1>3, TargetingAssumption
<1>. QED  BY <1>4, PlacesAre DEF Resolvable, Refusable, IsRef, NameAt

\* What holds when a call is made.
LEMMA ResolvingFacts ==
    ASSUME IInv, RInv, stage = "resolve", work # <<>>
    PROVE  /\ Numbered(doc) /\ Resolving(doc, becomes, work)
           /\ Top = work[1] /\ work \in Seq(Frames) /\ Tail(work) \in Seq(Frames)
           /\ 1 \in DOMAIN work /\ Top \in Frames
           /\ PlaceOf(Top) \in From(doc, Start(doc))
           /\ Top.node \in DOMAIN doc.nodes /\ Top.depth \in 0 .. MaxRefDepth + 1
           /\ TopNode.op = "ref" <=> IsRef(doc, Top.node)
           /\ RefName = NameAt(doc, Top.node)
<1>1. doc \in Documents /\ doc.parses
  BY DEF IInv, DocumentOK
<1>2. Numbered(doc)
  BY <1>1, ParsedIsNumbered
<1>3. Resolving(doc, becomes, work)
  BY DEF RInv
<1>4. Top = work[1] /\ work \in Seq(Frames) /\ Tail(work) \in Seq(Frames) /\ Top \in Frames
  BY TopFacts
<1>5. 1 \in DOMAIN work
  BY <1>4
<1>6. /\ PlaceOf(Top) \in From(doc, Start(doc))
      /\ Top.node \in DOMAIN doc.nodes /\ Top.depth \in 0 .. MaxRefDepth + 1
  BY <1>3, <1>4, <1>5 DEF Resolving, OnTheWay
<1>. QED  BY <1>2, <1>3, <1>4, <1>5, <1>6 DEF TopNode, RefName, IsRef, NameAt

\* What resolve_refs refuses cannot be resolved: a name on the way to itself is on
\* a cycle.
LEMMA RefusalIsRight ==
    ASSUME IInv, RInv, VisitTooDeep \/ VisitBadRef
    PROVE  Refusable(doc)
<1>1. stage = "resolve" /\ work # <<>> /\ Top.what = "visit"
  BY DEF VisitTooDeep, VisitBadRef, Visiting
<1>2. /\ Numbered(doc) /\ Resolving(doc, becomes, work)
      /\ Top = work[1] /\ work \in Seq(Frames)
      /\ PlaceOf(Top) \in From(doc, Start(doc))
      /\ Top.node \in DOMAIN doc.nodes /\ Top.depth \in 0 .. MaxRefDepth + 1
      /\ TopNode.op = "ref" <=> IsRef(doc, Top.node)
      /\ RefName = NameAt(doc, Top.node)
  BY <1>1, ResolvingFacts
<1>3. PlaceOf(Top).node = Top.node /\ PlaceOf(Top).refs = Top.depth
  BY PlaceFacts DEF PlaceOf
<1>4. CASE VisitTooDeep
  BY <1>2, <1>3, <1>4 DEF VisitTooDeep, Refusable
<1>5. CASE VisitBadRef /\ RefName \notin DOMAIN doc.evaluators
  BY <1>2, <1>3, <1>5 DEF VisitBadRef, Refusable
<1>6. CASE VisitBadRef /\ RefName \in visited
  <2>1. PICK q \in Leaves(work) : NameOf(doc, work[q]) = RefName
    BY <1>6 DEF IInv, Balanced, BalancedStack
  <2>2. q \in 2 .. Len(work)
    BY <1>1, <1>2, <2>1 DEF Leaves
  <2>3. work[1].node \in Under(doc, BodyAt(doc, work[q].node))
    <3>1. 1 \in 1 .. q - 1
      BY <1>2, <2>2
    <3>. QED  BY <1>2, <2>1, <3>1 DEF Resolving, Enclosed
  <2>4. BodyAt(doc, work[q].node) = BodyAt(doc, Top.node)
    BY <1>2, <2>1 DEF BodyAt, NameAt, NameOf
  <2>5. Top.node \in Under(doc, BodyAt(doc, Top.node))
    BY <1>2, <2>3, <2>4
  <2>6. IsRef(doc, Top.node) /\ NameAt(doc, Top.node) \in DOMAIN doc.evaluators
    BY <1>2, <1>6 DEF VisitBadRef, IInv, TypeOK
  <2>7. Place(Top.node, Top.depth) \in From(doc, Start(doc))
    BY <1>2 DEF PlaceOf
  <2>8. PICK x : Place(x, MaxRefDepth + 1) \in From(doc, Start(doc))
    BY <1>2, <2>5, <2>6, <2>7, CyclesAreLong
  <2>9. Place(x, MaxRefDepth + 1).refs > MaxRefDepth
    BY PlaceFacts, TargetingAssumption
  <2>. QED  BY <2>8, <2>9 DEF Refusable
<1>. QED  BY <1>4, <1>5, <1>6 DEF VisitBadRef

\* A ref is replaced by a call on its body and what is left to do after it.
LEMMA VisitRefResolves ==
    ASSUME IInv, RInv, VisitRef
    PROVE  Resolving(doc, becomes, work')
<1>1. /\ stage = "resolve" /\ work # <<>> /\ Top.what = "visit" /\ Top.depth <= MaxRefDepth
      /\ TopNode.op = "ref" /\ RefName \in DOMAIN doc.evaluators
      /\ work' = <<Visit(doc.evaluators[RefName], Top.depth + 1),
                   Leave(Top.node, Top.depth)>> \o Tail(work)
  BY DEF VisitRef, Visiting
<1>2. /\ Numbered(doc) /\ Resolving(doc, becomes, work)
      /\ Top = work[1] /\ work \in Seq(Frames) /\ Top \in Frames
      /\ PlaceOf(Top) \in From(doc, Start(doc))
      /\ Top.node \in DOMAIN doc.nodes /\ Top.depth \in 0 .. MaxRefDepth + 1
      /\ TopNode.op = "ref" <=> IsRef(doc, Top.node)
      /\ RefName = NameAt(doc, Top.node)
  BY <1>1, ResolvingFacts
<1>. DEFINE i == Top.node
            k == Top.depth
            a == Visit(BodyAt(doc, i), k + 1)
            b == Leave(i, k)
            t == <<a, b>>
            From0 == From(doc, Start(doc))
<1>3. work' = t \o Tail(work)
  BY <1>1, <1>2 DEF BodyAt
<1>4. /\ a.what # "leave" /\ a.node = BodyAt(doc, i) /\ a.depth = k + 1
      /\ b.what = "leave" /\ b.node = i /\ b.depth = k
  BY DEF Visit, Leave
<1>5. IsRef(doc, i) /\ NameAt(doc, i) \in DOMAIN doc.evaluators
  BY <1>1, <1>2
<1>6. k \in 0 .. MaxRefDepth /\ k + 1 \in 0 .. MaxRefDepth + 1 /\ k \in Nat
  BY <1>1, <1>2, TargetingAssumption
<1>7. BodyAt(doc, i) \in Successors(doc, i) /\ BodyAt(doc, i) \in DOMAIN doc.nodes
  BY <1>2, <1>5 DEF Successors, Numbered, BodyAt
<1>8. a \in Frames /\ b \in Frames
  BY <1>2, <1>6, <1>7 DEF Visit, Leave, Frames
<1>9. t \in Seq(Frames) /\ Len(t) = 2 /\ DOMAIN t = {1, 2} /\ t[1] = a /\ t[2] = b /\ t # <<>>
  BY <1>8
<1>10. PlaceOf(a) = Place(BodyAt(doc, i), k + 1) /\ PlaceOf(b) = Place(i, k) /\ PlaceOf(Top) = Place(i, k)
  BY <1>4 DEF PlaceOf
<1>11. Place(i, k) \in From0 /\ Place(BodyAt(doc, i), k + 1) \in From0
  BY <1>2, <1>5, <1>6, <1>7, <1>10, PlacesGrow
<1>12. Place(i, k) \in PlacesIn(doc)
  BY <1>2 DEF Place, PlacesIn
<1>13. Leads(doc, Place(i, k)) = {PlaceOf(a)}
  BY <1>1, <1>5, <1>10, PlaceFacts DEF Leads
<1>. HIDE DEF i, k, a, b, t
<1>14. OnTheWay(doc, t)
  BY <1>1, <1>2, <1>4, <1>5, <1>6, <1>7, <1>9, <1>10, <1>11 DEF OnTheWay, i, k
<1>15. Enclosed(doc, t) /\ Pending(doc, becomes, t)
  <2>1. \A q \in Leaves(t) : q = 2
    BY <1>4, <1>9 DEF Leaves
  <2>2. BodyAt(doc, i) \in Under(doc, BodyAt(doc, i))
    BY <1>2, <1>7, UnderFacts
  <2>. QED  BY <1>4, <1>9, <2>1, <2>2 DEF Enclosed, Pending
<1>16. \A j \in DOMAIN t : t[j].node \in {i} \cup Successors(doc, i)
  BY <1>4, <1>7, <1>9
<1>17. ASSUME NEW p \in From(doc, Place(i, k))
       PROVE  Seen(doc, becomes, t, p) \/ ToCome(doc, t, p)
  <2>1. CASE p = Place(i, k)
    <3>1. p.node = i /\ p.refs = k /\ 2 \in Leaves(t)
      BY <1>4, <1>9, <2>1, PlaceFacts DEF Leaves
    <3>. QED  BY <1>4, <1>5, <1>6, <1>9, <3>1 DEF Seen
  <2>2. CASE p # Place(i, k)
    <3>1. p \in From(doc, PlaceOf(a))
      BY <1>2, <1>12, <1>13, <2>2, FromSplits
    <3>. QED  BY <1>4, <1>9, <3>1 DEF ToCome
  <2>. QED  BY <2>1, <2>2
<1>18. work[1].node = i /\ PlaceOf(work[1]) = Place(i, k) /\ work[1].what # "leave" /\ work # <<>>
  BY <1>1, <1>2, <1>10 DEF i
<1>19. OnTheWay(doc, work) /\ Enclosed(doc, work) /\ Targets(doc, becomes)
       /\ Pending(doc, becomes, work) /\ Walked(doc, becomes, work)
  BY <1>2 DEF Resolving
<1>w. work \in Seq(Frames) /\ Numbered(doc)
  BY <1>2
<1>20. OnTheWay(doc, t \o Tail(work))
  BY <1>w, <1>9, <1>14, <1>18, <1>19, ReplaceOnTheWay
<1>21. Enclosed(doc, t \o Tail(work))
  BY <1>w, <1>9, <1>15, <1>16, <1>18, <1>19, ReplaceEnclosed
<1>22. Pending(doc, becomes, t \o Tail(work))
  BY <1>w, <1>4, <1>9, <1>15, <1>18, <1>19, ReplacePending
<1>23. Walked(doc, becomes, t \o Tail(work))
  BY <1>w, <1>9, <1>17, <1>18, <1>19, ReplaceWalked
<1>. QED  BY <1>3, <1>19, <1>20, <1>21, <1>22, <1>23 DEF Resolving

\* A node that is no ref is replaced by calls on its arguments.
LEMMA VisitNodeResolves ==
    ASSUME IInv, RInv, VisitNode
    PROVE  Resolving(doc, becomes, work')
<1>. DEFINE t == [j \in DOMAIN TopNode.args |-> Visit(TopNode.args[j], Top.depth)]
            i == Top.node
            k == Top.depth
            From0 == From(doc, Start(doc))
<1>1. /\ stage = "resolve" /\ work # <<>> /\ Top.what = "visit" /\ Top.depth <= MaxRefDepth
      /\ TopNode.op # "ref"
      /\ work' = t \o Tail(work)
  BY DEF VisitNode, Visiting
<1>2. /\ Numbered(doc) /\ Resolving(doc, becomes, work)
      /\ Top = work[1] /\ work \in Seq(Frames) /\ Top \in Frames
      /\ PlaceOf(Top) \in From(doc, Start(doc))
      /\ Top.node \in DOMAIN doc.nodes /\ Top.depth \in 0 .. MaxRefDepth + 1
      /\ TopNode.op = "ref" <=> IsRef(doc, Top.node)
  BY <1>1, ResolvingFacts, Zenon
<1>3. ~IsRef(doc, i) /\ TopNode = doc.nodes[i]
  BY <1>1, <1>2, Zenon DEF TopNode
<1>4. k \in 0 .. MaxRefDepth /\ k \in Nat
  BY <1>1, <1>2, TargetingAssumption
<1>5. TopNode.args \in Seq(DOMAIN doc.nodes)
  BY <1>2, <1>3, NodeFacts
<1>6. Successors(doc, i) = {TopNode.args[j] : j \in DOMAIN TopNode.args}
  BY <1>3 DEF Successors, ArgsAt
<1>7. \A n \in DOMAIN doc.nodes :
        /\ Visit(n, k) \in Frames /\ Visit(n, k).what # "leave"
        /\ Visit(n, k).node = n /\ Visit(n, k).depth = k /\ PlaceOf(Visit(n, k)) = Place(n, k)
  BY <1>4 DEF Visit, Frames, PlaceOf
<1>8. t \in Seq(Frames) /\ Len(t) \in Nat /\ DOMAIN t = DOMAIN TopNode.args
  <2>1. t = [j \in 1 .. Len(TopNode.args) |-> Visit(TopNode.args[j], k)]
    BY <1>5
  <2>2. \A j \in 1 .. Len(TopNode.args) : TopNode.args[j] \in DOMAIN doc.nodes
    BY <1>5
  <2>3. Len(TopNode.args) \in Nat /\ DOMAIN TopNode.args = 1 .. Len(TopNode.args)
    BY <1>5
  <2>. HIDE DEF t, k
  <2>4. t \in Seq(Frames) /\ Len(t) = Len(TopNode.args) /\ DOMAIN t = 1 .. Len(TopNode.args)
    BY <1>7, <2>1, <2>2, <2>3
  <2>. QED  BY <2>3, <2>4
<1>9. \A j \in DOMAIN t : TopNode.args[j] \in DOMAIN doc.nodes /\ t[j] = Visit(TopNode.args[j], k)
  BY <1>5, <1>8
<1>10. PlaceOf(Top) = Place(i, k)
  BY DEF PlaceOf
<1>11. \A n \in Successors(doc, i) : Place(n, k) \in From0
  BY <1>2, <1>3, <1>4, <1>10, PlacesGrow
<1>12. Place(i, k) \in PlacesIn(doc)
  BY <1>2 DEF Place, PlacesIn
<1>13. Leads(doc, Place(i, k)) = {Place(n, k) : n \in Successors(doc, i)}
  BY <1>3, PlaceFacts DEF Leads, Successors
<1>k. k \in 0 .. MaxRefDepth + 1
  BY <1>2
<1>. HIDE DEF i, k, t
<1>14. OnTheWay(doc, t)
  BY <1>6, <1>7, <1>8, <1>9, <1>11, <1>k DEF OnTheWay
<1>15. Enclosed(doc, t) /\ Pending(doc, becomes, t)
  <2>1. Leaves(t) = {}
    BY <1>7, <1>9 DEF Leaves
  <2>. QED  BY <2>1 DEF Enclosed, Pending
<1>16. \A j \in DOMAIN t : t[j].node \in {i} \cup Successors(doc, i)
  BY <1>6, <1>7, <1>8, <1>9
<1>17. ASSUME NEW p \in From(doc, Place(i, k))
       PROVE  Seen(doc, becomes, t, p) \/ ToCome(doc, t, p)
  <2>1. CASE p = Place(i, k)
    <3>1. p.node = i /\ p.refs = k
      BY <2>1, PlaceFacts
    <3>2. k <= MaxRefDepth
      BY <1>4, TargetingAssumption
    <3>. QED  BY <1>3, <3>1, <3>2 DEF Seen
  <2>2. CASE p # Place(i, k)
    <3>1. PICK y \in Leads(doc, Place(i, k)) : p \in From(doc, y)
      BY <1>2, <1>12, <2>2, FromSplits
    <3>2. PICK j \in DOMAIN t : y = Place(TopNode.args[j], k)
      BY <1>6, <1>8, <1>13, <3>1
    <3>3. y = PlaceOf(t[j]) /\ t[j].what # "leave"
      BY <1>7, <1>9, <3>2
    <3>. QED  BY <3>1, <3>3 DEF ToCome
  <2>. QED  BY <2>1, <2>2
<1>18. work[1].node = i /\ PlaceOf(work[1]) = Place(i, k) /\ work[1].what # "leave" /\ work # <<>>
  BY <1>1, <1>2, <1>10 DEF i
<1>19. OnTheWay(doc, work) /\ Enclosed(doc, work) /\ Targets(doc, becomes)
       /\ Pending(doc, becomes, work) /\ Walked(doc, becomes, work)
  BY <1>2 DEF Resolving
<1>w. work \in Seq(Frames) /\ Numbered(doc)
  BY <1>2
<1>20. OnTheWay(doc, t \o Tail(work))
  BY <1>w, <1>8, <1>14, <1>18, <1>19, ReplaceOnTheWay
<1>21. Enclosed(doc, t \o Tail(work))
  BY <1>w, <1>8, <1>15, <1>16, <1>18, <1>19, ReplaceEnclosed
<1>s. Settled(doc, becomes, work[1].node)
  BY <1>2, <1>3, <1>18, <1>19 DEF Targets, Settled, i
<1>22. Pending(doc, becomes, t \o Tail(work))
  BY <1>w, <1>8, <1>15, <1>s, <1>18, <1>19, ReplacePending
<1>23. Walked(doc, becomes, t \o Tail(work))
  BY <1>w, <1>8, <1>17, <1>18, <1>19, ReplaceWalked
<1>. QED  BY <1>1, <1>19, <1>20, <1>21, <1>22, <1>23 DEF Resolving

\* A ref comes to stand for what its body stands for: what stood for something
\* else than a ref before still does.
LEMMA LeaveTargets ==
    ASSUME NEW d, Numbered(d), NEW b \in [DOMAIN d.nodes -> DOMAIN d.nodes], Targets(d, b),
           NEW i \in DOMAIN d.nodes, IsRef(d, i), NameAt(d, i) \in DOMAIN d.evaluators,
           Settled(d, b, BodyAt(d, i)), NEW k \in 0 .. MaxRefDepth,
           Place(i, k) \in From(d, Start(d)),
           NEW c, \A j \in DOMAIN d.nodes : c[j] = IF j = i THEN b[BodyAt(d, i)] ELSE b[j]
    PROVE  /\ Targets(d, c)
           /\ Settled(d, c, i)
           /\ \A j \in DOMAIN d.nodes : Settled(d, b, j) => Settled(d, c, j)
<1>. DEFINE B == BodyAt(d, i)
<1>1. B \in DOMAIN d.nodes /\ B \in Successors(d, i)
  BY DEF Numbered, BodyAt, Successors
<1>2. /\ c[i] = b[B] /\ c[B] = b[B]
      /\ \A j \in DOMAIN d.nodes : j # i => c[j] = b[j]
  BY <1>1
<1>3. \A j \in DOMAIN d.nodes : Settled(d, b, j) => Settled(d, c, j)
  BY <1>2 DEF Settled
<1>4. \A j \in DOMAIN d.nodes : ~IsRef(d, j) => c[j] = j
  BY <1>2 DEF Targets
<1>5. ASSUME NEW j \in DOMAIN d.nodes, IsRef(d, j), Settled(d, c, j)
      PROVE  /\ NameAt(d, j) \in DOMAIN d.evaluators
             /\ Settled(d, c, BodyAt(d, j)) /\ c[j] = c[BodyAt(d, j)]
  <2>1. CASE j = i
    BY <1>2, <2>1 DEF Settled
  <2>2. CASE j # i
    <3>1. Settled(d, b, j) /\ c[j] = b[j]
      BY <1>2, <1>5, <2>2 DEF Settled
    <3>2. /\ NameAt(d, j) \in DOMAIN d.evaluators
          /\ Settled(d, b, BodyAt(d, j)) /\ b[j] = b[BodyAt(d, j)]
      BY <1>5, <3>1 DEF Targets
    <3>3. BodyAt(d, j) \in DOMAIN d.nodes
      BY <3>2 DEF Numbered, BodyAt
    <3>4. c[BodyAt(d, j)] = b[BodyAt(d, j)]
      <4>1. CASE BodyAt(d, j) = i
        BY <1>2, <3>2, <4>1 DEF Targets
      <4>2. CASE BodyAt(d, j) # i
        BY <1>2, <3>3, <4>2
      <4>. QED  BY <4>1, <4>2
    <3>. QED  BY <1>3, <3>1, <3>2, <3>3, <3>4
  <2>. QED  BY <2>1, <2>2
<1>6. ASSUME NEW p \in From(d, Start(d))
      PROVE  \E n : Place(c[p.node], n) \in From(d, Start(d))
  <2>1. CASE p.node = i
    <3>1. Place(B, k + 1) \in From(d, Start(d)) /\ Place(B, k + 1).node = B
      BY <1>1, PlacesGrow, PlaceFacts
    <3>. QED  BY <1>2, <2>1, <3>1 DEF Targets
  <2>2. CASE p.node # i
    <3>1. Start(d) \in PlacesIn(d)
      BY TargetingAssumption DEF Numbered, Start, Place, PlacesIn
    <3>2. p.node \in DOMAIN d.nodes
      BY <3>1, FromFacts DEF PlacesIn
    <3>. QED  BY <1>2, <2>2, <3>2 DEF Targets
  <2>. QED  BY <2>1, <2>2
<1>7. Settled(d, c, i)
  BY <1>2 DEF Settled
<1>. QED  BY <1>3, <1>4, <1>5, <1>6, <1>7 DEF Targets

\* A ref whose body has been walked is done.
LEMMA LeaveRefResolves ==
    ASSUME IInv, RInv, LeaveRef
    PROVE  Resolving(doc, becomes', work')
<1>. DEFINE i == Top.node
            k == Top.depth
            c == [becomes EXCEPT ![i] = becomes[BodyAt(doc, i)]]
<1>1. /\ stage = "resolve" /\ work # <<>> /\ Top.what = "leave"
      /\ becomes' = [becomes EXCEPT ![Top.node] = becomes[doc.evaluators[RefName]]]
      /\ work' = Tail(work)
  BY DEF LeaveRef
<1>2. /\ Numbered(doc) /\ Resolving(doc, becomes, work)
      /\ Top = work[1] /\ work \in Seq(Frames) /\ 1 \in DOMAIN work
      /\ PlaceOf(Top) \in From(doc, Start(doc))
      /\ Top.node \in DOMAIN doc.nodes /\ Top.depth \in 0 .. MaxRefDepth + 1
      /\ RefName = NameAt(doc, Top.node)
  BY <1>1, ResolvingFacts
<1>3. OnTheWay(doc, work) /\ Enclosed(doc, work) /\ Targets(doc, becomes)
      /\ Pending(doc, becomes, work) /\ Walked(doc, becomes, work)
  BY <1>2 DEF Resolving
<1>4. becomes' = c
  BY <1>1, <1>2 DEF BodyAt
<1>5. work' = <<>> \o Tail(work) /\ <<>> \in Seq(Frames)
  <2>1. Tail(work) \in Seq(Frames)
    BY <1>1, <1>2
  <2>. QED  BY <1>1, <2>1
<1>6. 1 \in Leaves(work)
  BY <1>1, <1>2 DEF Leaves
<1>7. IsRef(doc, i) /\ NameAt(doc, i) \in DOMAIN doc.evaluators /\ k <= MaxRefDepth
  BY <1>1, <1>2, <1>3 DEF OnTheWay
<1>8. k \in 0 .. MaxRefDepth
  BY <1>2, <1>7, TargetingAssumption
<1>9. Settled(doc, becomes, BodyAt(doc, i))
  BY <1>2, <1>3, <1>6 DEF Pending
<1>10. Place(i, k) \in From(doc, Start(doc))
  BY <1>2 DEF PlaceOf
<1>11. becomes \in [DOMAIN doc.nodes -> DOMAIN doc.nodes]
  BY DEF IInv, TypeOK
<1>12. i \in DOMAIN doc.nodes /\ i = work[1].node
  BY <1>2
<1>. HIDE DEF i, k
<1>n. Numbered(doc)
  BY <1>2
<1>c. \A j \in DOMAIN doc.nodes : c[j] = IF j = i THEN becomes[BodyAt(doc, i)] ELSE becomes[j]
  BY <1>11
<1>. HIDE DEF c
<1>13. /\ Targets(doc, c) /\ Settled(doc, c, i)
       /\ \A j \in DOMAIN doc.nodes : Settled(doc, becomes, j) => Settled(doc, c, j)
  BY <1>n, <1>c, <1>3, <1>7, <1>8, <1>9, <1>10, <1>11, <1>12, LeaveTargets
<1>14. \A q \in Leaves(work) : BodyAt(doc, work[q].node) \in DOMAIN doc.nodes
  BY <1>2, <1>3 DEF OnTheWay, Leaves, Numbered, BodyAt
<1>15. Pending(doc, c, work)
  BY <1>3, <1>13, <1>14 DEF Pending
<1>16. Walked(doc, c, work)
  <2>1. ASSUME NEW p \in From(doc, Start(doc)), Seen(doc, becomes, work, p)
        PROVE  Seen(doc, c, work, p)
    <3>1. Start(doc) \in PlacesIn(doc)
      BY <1>2, TargetingAssumption DEF Numbered, Start, Place, PlacesIn
    <3>2. p.node \in DOMAIN doc.nodes
      BY <1>2, <3>1, FromFacts DEF PlacesIn
    <3>. QED  BY <1>13, <2>1, <3>2 DEF Seen
  <2>. QED  BY <1>3, <2>1 DEF Walked
<1>17. OnTheWay(doc, <<>>) /\ Enclosed(doc, <<>>) /\ Pending(doc, c, <<>>) /\ DOMAIN <<>> = {}
  BY DEF OnTheWay, Enclosed, Pending, Leaves
<1>18. work[1].what = "leave"
  BY <1>1, <1>2
<1>w. work \in Seq(Frames) /\ work # <<>> /\ Numbered(doc)
  BY <1>1, <1>2
<1>19. OnTheWay(doc, <<>> \o Tail(work))
  BY <1>w, <1>3, <1>5, <1>17, ReplaceOnTheWay
<1>20. Enclosed(doc, <<>> \o Tail(work))
  BY <1>w, <1>3, <1>5, <1>17, ReplaceEnclosed
<1>21. Pending(doc, c, <<>> \o Tail(work))
  BY <1>w, <1>5, <1>12, <1>13, <1>15, <1>17, ReplacePending
<1>22. Walked(doc, c, <<>> \o Tail(work))
  BY <1>w, <1>5, <1>12, <1>13, <1>16, <1>18, ReplaceWalked
<1>. QED  BY <1>4, <1>5, <1>13, <1>19, <1>20, <1>21, <1>22 DEF Resolving

\* The call on the rule leads to everything the rule leads to.
LEMMA ParseResolves ==
    ASSUME NEW d, Numbered(d), NEW b, \A i \in DOMAIN d.nodes : b[i] = i
    PROVE  Resolving(d, b, <<Visit(d.rule, 0)>>)
<1>. DEFINE first == Visit(d.rule, 0)
            s == <<first>>
<1>1. first.what # "leave" /\ first.node = d.rule /\ first.depth = 0 /\ PlaceOf(first) = Start(d)
  BY DEF Visit, PlaceOf, Start
<1>. HIDE DEF first
<1>2. DOMAIN s = {1} /\ s[1] = first
  OBVIOUS
<1>. HIDE DEF s
<1>3. Leaves(s) = {}
  BY <1>1, <1>2 DEF Leaves
<1>4. Start(d) \in PlacesIn(d)
  BY TargetingAssumption DEF Numbered, Start, Place, PlacesIn
<1>5. Start(d) \in From(d, Start(d)) /\ From(d, Start(d)) \in SUBSET PlacesIn(d)
  BY <1>4, FromFacts
<1>6. OnTheWay(d, s)
  BY <1>1, <1>2, <1>5, TargetingAssumption DEF OnTheWay, Numbered
<1>7. Enclosed(d, s) /\ Pending(d, b, s)
  BY <1>3 DEF Enclosed, Pending
<1>8. Targets(d, b)
  <2>1. ASSUME NEW p \in From(d, Start(d)) PROVE \E n : Place(b[p.node], n) \in From(d, Start(d))
    <3>1. p.node \in DOMAIN d.nodes /\ p = Place(p.node, p.refs)
      BY <1>5 DEF PlacesIn, Place
    <3>. QED  BY <3>1
  <2>. QED  BY <2>1 DEF Targets, Settled
<1>9. Walked(d, b, s)
  BY <1>1, <1>2 DEF Walked, ToCome
<1>. QED  BY <1>6, <1>7, <1>8, <1>9 DEF Resolving, s, first

\* Nothing has been replaced before the document is parsed.
LEMMA InitResolution == Init => RInv
<1>. SUFFICES ASSUME Init PROVE RInv
  OBVIOUS
<1>1. stage = "scan" /\ \A i \in DOMAIN doc.nodes : becomes[i] = i
  BY DEF Init
<1>. QED  BY <1>1 DEF RInv

\* Every step preserves what is known about the refs.
LEMMA NextResolution == IInv /\ RInv /\ [Next]_vars => RInv'
<1>. SUFFICES ASSUME IInv, RInv, [Next]_vars PROVE RInv'
  OBVIOUS
<1>1. CASE UNCHANGED vars
  BY <1>1 DEF vars, RInv, Resolving, Refusable
<1>2. CASE CheckJsonDepth
  <2>1. /\ stage = "scan" /\ doc' = doc /\ becomes' = becomes
        /\ stage' = "parse" \/ (stage' = "rejected" /\ TooDeep(doc.tokens))
    BY <1>2 DEF CheckJsonDepth, Reject
  <2>2. stage' = "rejected" => TooDeep(doc'.tokens)
    BY <2>1
  <2>. QED  BY <2>1, <2>2 DEF RInv
<1>3. CASE ParseFails
  BY <1>3 DEF ParseFails, Reject, RInv
<1>4. CASE ParseDocument
  <2>1. /\ stage = "parse" /\ doc.parses /\ doc' = doc /\ becomes' = becomes
        /\ stage' \in {"resolve", "compile"}
        /\ DOMAIN doc.evaluators = {} => stage' = "compile"
        /\ DOMAIN doc.evaluators # {} => work' = <<Visit(doc.rule, 0)>>
    BY <1>4 DEF ParseDocument
  <2>2. Numbered(doc) /\ \A i \in DOMAIN doc.nodes : becomes[i] = i
    BY <2>1, ParsedIsNumbered DEF IInv, DocumentOK, RInv
  <2>3. DOMAIN doc.evaluators # {} => Resolving(doc, becomes, work')
    BY <2>1, <2>2, ParseResolves
  <2>. QED  BY <2>1, <2>3 DEF RInv
<1>5. CASE VisitTooDeep \/ VisitBadRef
  <2>1. stage' = "rejected" /\ doc' = doc
    BY <1>5 DEF VisitTooDeep, VisitBadRef, Reject
  <2>2. Refusable(doc)
    BY <1>5, RefusalIsRight
  <2>. QED  BY <2>1, <2>2 DEF RInv
<1>6. CASE VisitRef \/ VisitNode \/ LeaveRef
  <2>1. stage = "resolve" /\ stage' = "resolve" /\ doc' = doc
    BY <1>6 DEF VisitRef, VisitNode, LeaveRef, Visiting
  <2>2. Resolving(doc, becomes', work')
    <3>1. CASE VisitRef
      BY <3>1, VisitRefResolves DEF VisitRef
    <3>2. CASE VisitNode
      BY <3>2, VisitNodeResolves DEF VisitNode
    <3>3. CASE LeaveRef
      BY <3>3, LeaveRefResolves
    <3>. QED  BY <1>6, <3>1, <3>2, <3>3
  <2>. QED  BY <2>1, <2>2 DEF RInv
<1>7. CASE Resolved \/ Compile
  <2>1. /\ stage \in {"resolve", "compile"} /\ stage' \in {"compile", "ready"}
        /\ doc' = doc /\ becomes' = becomes /\ work' = work
    BY <1>7 DEF Resolved, Compile
  <2>. QED  BY <2>1 DEF RInv
<1>. QED  BY <1>1, <1>2, <1>3, <1>4, <1>5, <1>6, <1>7 DEF Next

\* NodesOf, as an operator of the document and of becomes.
RuleNodes(d, b) ==
    Reachable(DOMAIN d.nodes, b[d.rule],
              [i \in DOMAIN d.nodes |-> {b[d.nodes[i].args[j]] : j \in DOMAIN d.nodes[i].args}])

\* They are the same.
LEMMA NodesOfRule == NodesOf(doc.rule) = RuleNodes(doc, becomes)
BY DEF NodesOf, RuleNodes

\* The nodes of a resolved rule are nodes of the document, and the least set with
\* the rule and with what the arguments of its members stand for.
LEMMA RuleNodesFacts ==
    ASSUME NEW d, Numbered(d), NEW b \in [DOMAIN d.nodes -> DOMAIN d.nodes]
    PROVE  /\ RuleNodes(d, b) \in SUBSET DOMAIN d.nodes
           /\ b[d.rule] \in RuleNodes(d, b)
           /\ \A x \in RuleNodes(d, b) : \A a \in ArgsAt(d, x) : b[a] \in RuleNodes(d, b)
           /\ \A T \in SUBSET DOMAIN d.nodes :
                 b[d.rule] \in T /\ (\A x \in T : \A a \in ArgsAt(d, x) : b[a] \in T) =>
                     RuleNodes(d, b) \in SUBSET T
<1>. DEFINE N == DOMAIN d.nodes
            next == [i \in N |-> {b[d.nodes[i].args[j]] : j \in DOMAIN d.nodes[i].args}]
            R == Reachable(N, b[d.rule], next)
<1>1. RuleNodes(d, b) = R
  BY DEF RuleNodes
<1>2. \A i \in N : next[i] = {b[a] : a \in ArgsAt(d, i)}
  BY DEF ArgsAt
<1>3. next \in [N -> SUBSET N]
  BY DEF Numbered, ArgsAt
<1>4. IsFiniteSet(N) /\ b[d.rule] \in N
  BY NodesFinite DEF Numbered
<1>. HIDE DEF next, N, R
<1>5. /\ R \in SUBSET N
      /\ b[d.rule] \in R
      /\ \A x \in R : next[x] \in SUBSET R
      /\ \A T \in SUBSET N : b[d.rule] \in T /\ (\A x \in T : next[x] \in SUBSET T) => R \in SUBSET T
  BY <1>3, <1>4, ReachableFacts DEF R
<1>6. \A x \in N : \A T : next[x] \in SUBSET T <=> \A a \in ArgsAt(d, x) : b[a] \in T
  BY <1>2
<1>7. \A x \in R : \A a \in ArgsAt(d, x) : b[a] \in R
  BY <1>5, <1>6
<1>8. \A T \in SUBSET N : (\A x \in T : \A a \in ArgsAt(d, x) : b[a] \in T) => \A x \in T : next[x] \in SUBSET T
  BY <1>6
<1>. QED  BY <1>1, <1>5, <1>7, <1>8 DEF N

\* When nothing is left to do, every ref the rule leads to has been replaced by the
\* body it names, and there is nothing else.
LEMMA AcceptedIsExact ==
    ASSUME NEW d, Numbered(d), NEW b \in [DOMAIN d.nodes -> DOMAIN d.nodes],
           Resolving(d, b, <<>>)
    PROVE  /\ ~Refusable(d)
           /\ RuleNodes(d, b) = {p.node : p \in {q \in From(d, Start(d)) : ~IsRef(d, q.node)}}
<1>. DEFINE F == From(d, Start(d))
            N == RuleNodes(d, b)
            E == {p.node : p \in {q \in F : ~IsRef(d, q.node)}}
<1>1. Start(d) \in PlacesIn(d) /\ Start(d).node = d.rule
  BY PlaceFacts, TargetingAssumption DEF Numbered, Start, Place, PlacesIn
<1>2. /\ F \in SUBSET PlacesIn(d) /\ Start(d) \in F
      /\ \A x \in F : Leads(d, x) \in SUBSET F
      /\ \A T \in SUBSET PlacesIn(d) :
            Start(d) \in T /\ (\A x \in T : Leads(d, x) \in SUBSET T) => F \in SUBSET T
  BY <1>1, FromFacts
<1>3. \A p \in F : Seen(d, b, <<>>, p)
  BY DEF Resolving, Walked, ToCome
<1>4. Leaves(<<>>) = {}
  BY DEF Leaves
<1>. HIDE DEF F
<1>5. /\ \A i \in DOMAIN d.nodes : ~IsRef(d, i) => b[i] = i
      /\ \A i \in DOMAIN d.nodes : IsRef(d, i) /\ Settled(d, b, i) => b[i] = b[BodyAt(d, i)]
      /\ \A p \in F : \E k : Place(b[p.node], k) \in F
  BY DEF Resolving, Targets, F
<1>6. ASSUME NEW p \in F
      PROVE  /\ p.node \in DOMAIN d.nodes /\ p.refs \in 0 .. MaxRefDepth
             /\ p = Place(p.node, p.refs)
             /\ IsRef(d, p.node) => NameAt(d, p.node) \in DOMAIN d.evaluators
             /\ Settled(d, b, p.node)
  <2>1. p.node \in DOMAIN d.nodes /\ p.refs \in 0 .. MaxRefDepth + 1 /\ p = Place(p.node, p.refs)
    BY <1>2 DEF PlacesIn, Place
  <2>2. /\ p.refs <= MaxRefDepth
        /\ IsRef(d, p.node) => NameAt(d, p.node) \in DOMAIN d.evaluators /\ Settled(d, b, p.node)
    BY <1>3, <1>4 DEF Seen
  <2>3. ~IsRef(d, p.node) => Settled(d, b, p.node)
    BY <1>5, <2>1 DEF Settled
  <2>4. p.refs \in 0 .. MaxRefDepth
    BY <2>1, <2>2, TargetingAssumption
  <2>. QED  BY <2>1, <2>2, <2>3, <2>4
<1>7. ~Refusable(d)
  <2>1. \A p \in F : ~(p.refs > MaxRefDepth)
    BY <1>6, TargetingAssumption
  <2>. QED  BY <1>6, <2>1 DEF Refusable, F
<1>8. \A p \in F : b[p.node] \in E
  <2>1. TAKE p \in F
  <2>2. PICK k : Place(b[p.node], k) \in F
    BY <1>5
  <2>3. Place(b[p.node], k).node = b[p.node] /\ ~IsRef(d, b[p.node])
    BY <1>6, PlaceFacts DEF Settled
  <2>. QED  BY <2>2, <2>3
<1>9. N \in SUBSET E
  <2>1. E \in SUBSET DOMAIN d.nodes
    BY <1>6
  <2>2. b[d.rule] \in E
    BY <1>1, <1>2, <1>8
  <2>3. ASSUME NEW x \in E, NEW a \in ArgsAt(d, x) PROVE b[a] \in E
    <3>1. PICK p \in F : p.node = x /\ ~IsRef(d, x)
      OBVIOUS
    <3>2. a \in Successors(d, x) /\ Place(x, p.refs) \in F /\ p.refs \in 0 .. MaxRefDepth
          /\ x \in DOMAIN d.nodes
      BY <1>6, <3>1 DEF Successors
    <3>3. Place(a, p.refs) \in F
      BY <3>1, <3>2, PlacesGrow DEF F
    <3>4. b[Place(a, p.refs).node] \in E
      <4>. HIDE DEF E
      <4>. QED  BY <1>8, <3>3
    <3>. QED  BY <3>4, PlaceFacts
  <2>. HIDE DEF E
  <2>. QED  BY <2>1, <2>2, <2>3, RuleNodesFacts
<1>10. /\ b[d.rule] \in N
       /\ \A x \in N : \A a \in ArgsAt(d, x) : b[a] \in N
  BY RuleNodesFacts
<1>11. E \in SUBSET N
  <2>. DEFINE Q == {p \in F : b[p.node] \in N}
  <2>1. Q \in SUBSET PlacesIn(d) /\ Start(d) \in Q
    BY <1>1, <1>2, <1>10
  <2>2. ASSUME NEW p \in Q, NEW y \in Leads(d, p) PROVE y \in Q
    <3>1. p \in F /\ b[p.node] \in N /\ y \in F
      BY <1>2
    <3>2. CASE IsRef(d, p.node)
      <4>1. y = Place(BodyAt(d, p.node), p.refs + 1)
        BY <3>2 DEF Leads
      <4>2. b[y.node] = b[p.node]
        BY <1>5, <1>6, <3>1, <3>2, <4>1, PlaceFacts
      <4>. QED  BY <3>1, <4>2
    <3>3. CASE ~IsRef(d, p.node)
      <4>1. PICK a \in ArgsAt(d, p.node) : y = Place(a, p.refs)
        BY <3>3 DEF Leads
      <4>2. b[p.node] = p.node
        BY <1>5, <1>6, <3>1, <3>3
      <4>3. b[a] \in N /\ y.node = a
        BY <1>10, <3>1, <4>1, <4>2, PlaceFacts
      <4>. QED  BY <3>1, <4>3
    <3>. QED  BY <3>2, <3>3
  <2>3. F \in SUBSET Q
    <3>. HIDE DEF Q
    <3>. QED  BY <1>2, <2>1, <2>2
  <2>4. ASSUME NEW p \in F, ~IsRef(d, p.node) PROVE p.node \in N
    BY <1>5, <1>6, <2>3, <2>4
  <2>. QED  BY <2>4
<1>. QED  BY <1>7, <1>9, <1>11 DEF F

\* What the rule stands for is decided by the documents alone: resolve_refs refuses
\* a rule exactly when some chain of refs is too long, circular or leads nowhere, and
\* otherwise every ref has been replaced by the whole body it names, however the
\* evaluators share each other.
THEOREM ResolutionIsExact == Spec => []ResolutionExact
<1>1. IInv /\ RInv => ResolutionExact
  <2>1. SUFFICES ASSUME IInv, RInv, ~TooDeep(doc.tokens), doc.parses, DOMAIN doc.evaluators # {}
                 PROVE  /\ stage = "rejected" => ~Resolvable
                        /\ stage \in {"compile", "ready"} =>
                              Resolvable /\ NodesOf(doc.rule) = Expansion
    BY DEF ResolutionExact
  <2>2. doc \in Documents /\ Numbered(doc) /\ becomes \in [DOMAIN doc.nodes -> DOMAIN doc.nodes]
    BY <2>1, ParsedIsNumbered DEF IInv, DocumentOK, TypeOK
  <2>3. Resolvable <=> ~Refusable(doc)
    BY <2>1, <2>2, ResolvableIs
  <2>4. CASE stage = "rejected"
    BY <2>1, <2>3, <2>4 DEF RInv
  <2>5. CASE stage \in {"compile", "ready"}
    <3>1. work = <<>>
      BY <2>1, <2>5 DEF IInv, Balanced
    <3>2. Resolving(doc, becomes, <<>>)
      BY <2>1, <2>5, <3>1 DEF RInv
    <3>3. /\ ~Refusable(doc)
          /\ RuleNodes(doc, becomes) = {p.node : p \in {q \in From(doc, Start(doc)) : ~IsRef(doc, q.node)}}
      BY <2>2, <3>2, AcceptedIsExact
    <3>4. Expansion = {p.node : p \in {q \in From(doc, Start(doc)) : ~IsRef(doc, q.node)}}
      BY PlacesAre DEF Expansion, IsRef
    <3>. QED  BY <2>3, <2>5, <3>3, <3>4, NodesOfRule
  <2>. QED  BY <2>4, <2>5
<1>. QED  BY <1>1, InitResolution, NextResolution, Invariant, PTL DEF Spec

-----------------------------------------------------------------------------
(***************************************************************************)
(* The required context keys                                               *)
(***************************************************************************)

\* f[n] is what the first n parts of a path lead to.
Steps(f, data, path, n) ==
    f = [i \in 0 .. n |-> IF i = 0 THEN data ELSE Get(f[i - 1], path[i])]

\* Such a function exists, so that the recursive definition of Lookup defines one.
LEMMA StepsExist ==
    ASSUME NEW data, NEW S, NEW path \in Seq(S)
    PROVE  \E f : Steps(f, data, path, Len(path))
<1>. DEFINE Bad == {n \in 0 .. Len(path) : ~ \E f : Steps(f, data, path, n)}
<1>1. SUFFICES ASSUME Bad # {} PROVE FALSE
  <2>1. Len(path) \in 0 .. Len(path)
    OBVIOUS
  <2>2. Bad = {} => Len(path) \notin Bad
    OBVIOUS
  <2>. QED  BY <2>1, <2>2, Zenon
<1>2. PICK n \in Bad : \A m \in Bad : n <= m
  <2>1. Bad \in SUBSET Nat
    OBVIOUS
  <2>. HIDE DEF Bad
  <2>. QED  BY <1>1, <2>1, Least, Zenon
<1>3. n # 0
  <2>1. Steps([i \in 0 .. 0 |-> data], data, path, 0)
    BY DEF Steps
  <2>. QED  BY <2>1, <1>2
<1>4. PICK f : Steps(f, data, path, n - 1)
  <2>1. n - 1 \in 0 .. Len(path) /\ n - 1 \notin Bad
    BY <1>2, <1>3
  <2>. QED  BY <2>1
<1>. DEFINE g == [i \in 0 .. n |-> IF i = n THEN Get(f[n - 1], path[n]) ELSE f[i]]
<1>5. Steps(g, data, path, n)
  <2>1. n \in 1 .. Len(path) /\ n - 1 \in 0 .. n - 1
    BY <1>2, <1>3
  <2>2. ASSUME NEW i \in 0 .. n
        PROVE  g[i] = IF i = 0 THEN data ELSE Get(g[i - 1], path[i])
    <3>1. CASE i = n
      BY <2>1, <3>1
    <3>2. CASE i # n
      <4>1. i \in 0 .. n - 1 /\ (i # 0 => i - 1 \in 0 .. n /\ i - 1 # n)
        BY <2>1, <3>2
      <4>2. f[i] = IF i = 0 THEN data ELSE Get(f[i - 1], path[i])
        BY <1>4, <4>1 DEF Steps
      <4>. QED  BY <4>1, <4>2, <3>2
    <3>. QED  BY <3>1, <3>2
  <2>. QED  BY <2>2 DEF Steps
<1>. QED  BY <1>2, <1>5

\* Lookup takes the parts of a path in order.
LEMMA LookupSteps ==
    ASSUME NEW data, NEW S, NEW path \in Seq(S)
    PROVE  \E f : Steps(f, data, path, Len(path)) /\ Lookup(data, path) = f[Len(path)]
<1>. DEFINE body(f) == [i \in 0 .. Len(path) |-> IF i = 0 THEN data ELSE Get(f[i - 1], path[i])]
            c == CHOOSE f : f = body(f)
<1>1. PICK f : Steps(f, data, path, Len(path))
  BY StepsExist
<1>2. f = body(f)
  BY <1>1 DEF Steps
<1>3. c = body(c)
  <2>. HIDE DEF body
  <2>. QED  BY <1>2
<1>4. Lookup(data, path) = c[Len(path)]
  BY DEF Lookup
<1>. HIDE DEF c
<1>. QED  BY <1>3, <1>4 DEF Steps

\* Only the field a path begins with matters.
LEMMA LookupFirst ==
    ASSUME NEW d, NEW e, NEW S, NEW path \in Seq(S), path # <<>>,
           Get(d, path[1]) = Get(e, path[1])
    PROVE  Lookup(d, path) = Lookup(e, path)
<1>1. Len(path) \in Nat \ {0}
  OBVIOUS
<1>2. PICK f : Steps(f, d, path, Len(path)) /\ Lookup(d, path) = f[Len(path)]
  BY LookupSteps
<1>3. PICK g : Steps(g, e, path, Len(path)) /\ Lookup(e, path) = g[Len(path)]
  BY LookupSteps
<1>. DEFINE Bad == {n \in 1 .. Len(path) : f[n] # g[n]}
<1>4. Bad = {}
  <2>1. SUFFICES ASSUME Bad # {} PROVE FALSE
    OBVIOUS
  <2>2. PICK n \in Bad : \A m \in Bad : n <= m
    <3>1. Bad \in SUBSET Nat
      OBVIOUS
    <3>. HIDE DEF Bad
    <3>. QED  BY <2>1, <3>1, Least, Zenon
  <2>. DEFINE m == Len(path)
  <2>3. /\ n \in 1 .. m /\ n \in 0 .. m /\ 0 \in 0 .. m /\ n # 0
        /\ f[n] = Get(f[n - 1], path[n]) /\ g[n] = Get(g[n - 1], path[n])
        /\ f[0] = d /\ g[0] = e
    <3>1. n \in 1 .. m /\ m \in Nat
      BY <1>1, <2>2
    <3>2. n \in 0 .. m /\ 0 \in 0 .. m /\ n # 0
      BY <3>1
    <3>3. /\ f = [i \in 0 .. m |-> IF i = 0 THEN d ELSE Get(f[i - 1], path[i])]
          /\ g = [i \in 0 .. m |-> IF i = 0 THEN e ELSE Get(g[i - 1], path[i])]
      BY <1>2, <1>3 DEF Steps
    <3>. HIDE DEF m
    <3>4. f[n] = Get(f[n - 1], path[n]) /\ g[n] = Get(g[n - 1], path[n])
      BY <3>2, <3>3
    <3>5. f[0] = d /\ g[0] = e
      BY <3>2, <3>3
    <3>. QED  BY <3>1, <3>2, <3>4, <3>5
  <2>4. CASE n = 1
    BY <2>2, <2>3, <2>4
  <2>5. CASE n # 1
    <3>1. n - 1 \in 1 .. Len(path) /\ n - 1 \notin Bad
      BY <2>2, <2>3, <2>5
    <3>. QED  BY <2>2, <2>3, <3>1
  <2>. QED  BY <2>4, <2>5
<1>5. Len(path) \in 1 .. Len(path) /\ Len(path) \notin Bad
  BY <1>1, <1>4
<1>. QED  BY <1>2, <1>3, <1>5

\* The fields a host that follows the key list, and the enrichment, deliver.
Kept(f) == f \in keys \/ f = "$flagd"

\* Every field of these is the same with the whole context.
LEMMA SentKeeps ==
    ASSUME keys # AllKeys, "targetingKey" \in keys, NEW c, NEW f, Kept(f)
    PROVE  Get(Enriched(Sent(c)), f) = Get(Enriched(c), f)
<1>1. Sent(c) = [g \in DOMAIN c \cap keys |-> c[g]]
  BY DEF Sent
<1>2. /\ DOMAIN Sent(c) = DOMAIN c \cap keys
      /\ \A g \in DOMAIN c \cap keys : Sent(c)[g] = c[g]
  BY <1>1
<1>3. ASSUME NEW x
      PROVE  Get(Enriched(x), f) =
               IF f = "$flagd" THEN Obj([flagKey |-> Str(Word(FlagKey))])
               ELSE IF f \in DOMAIN x THEN x[f]
               ELSE IF f = "targetingKey" THEN Str(Word("")) ELSE Absent
  <2>. DEFINE D == DOMAIN x \cup {"targetingKey", "$flagd"}
              F == [g \in D |->
                      IF g = "$flagd" THEN Obj([flagKey |-> Str(Word(FlagKey))])
                      ELSE IF g \in DOMAIN x THEN x[g] ELSE Str(Word(""))]
  <2>1. Enriched(x) = Obj(F)
    BY DEF Enriched
  <2>2. Obj(F).type = "object" /\ Obj(F).fields = F
    BY DEF Obj
  <2>3. Get(Enriched(x), f) = IF f \in D THEN F[f] ELSE Absent
    BY <2>1, <2>2 DEF Get
  <2>. QED  BY <2>3
<1>4. f = "$flagd" \/ f \in keys
  BY DEF Kept
<1>. QED  BY <1>2, <1>3, <1>4

\* So is what a path that begins with one of these leads to.
LEMMA LookupKept ==
    ASSUME keys # AllKeys, "targetingKey" \in keys, NEW c, NEW path, IsSequence(path),
           path # <<>>, Kept(path[1])
    PROVE  Lookup(Enriched(Sent(c)), path) = Lookup(Enriched(c), path)
<1>1. Get(Enriched(Sent(c)), path[1]) = Get(Enriched(c), path[1])
  BY SentKeeps
<1>. QED  BY <1>1, LookupFirst DEF IsSequence

\* All paths among values begin with a field that is delivered.
KeptPaths(paths) == \A p \in paths : p # <<>> /\ Kept(p[1])

\* The engine evaluates the arguments of a custom operator to the same values.
LEMMA EvaluatedKept ==
    ASSUME keys # AllKeys, "targetingKey" \in keys, NEW c, NEW values,
           TypedArguments(values), KeptPaths(PathsIn(values))
    PROVE  Evaluated(values, Enriched(Sent(c))) = Evaluated(values, Enriched(c))
<1>. DEFINE d == Enriched(Sent(c))
            e == Enriched(c)
            all == ToSet(values) \cup
                      UNION {IF values[i].type = "array" THEN ToSet(values[i].items) ELSE {} :
                                i \in DOMAIN values}
<1>1. ASSUME NEW v \in all, v.type = "var"
      PROVE  v.path \in PathsIn(values)
  BY <1>1 DEF PathsIn
<1>2. ASSUME NEW v \in all, v.type = "var" => IsSequence(v.path)
      PROVE  ValueOf(v, d) = ValueOf(v, e)
  <2>1. CASE v.type # "var"
    BY <2>1 DEF ValueOf
  <2>2. CASE v.type = "var"
    <3>1. v.path # <<>> /\ Kept(v.path[1])
      BY <1>1, <2>2 DEF KeptPaths
    <3>2. Lookup(d, v.path) = Lookup(e, v.path)
      BY <1>2, <2>2, <3>1, LookupKept
    <3>. QED  BY <3>2 DEF ValueOf
  <2>. QED  BY <2>1, <2>2
<1>3. ASSUME NEW i \in DOMAIN values
      PROVE  /\ values[i] \in all
             /\ values[i].type = "var" => IsSequence(values[i].path)
  BY DEF TypedArguments, ToSet
<1>4. ASSUME NEW i \in DOMAIN values, values[i].type = "array",
             NEW j \in DOMAIN values[i].items
      PROVE  /\ values[i].items[j] \in all
             /\ values[i].items[j].type = "var" => IsSequence(values[i].items[j].path)
  <2>1. values[i].items[j] \in ToSet(values[i].items)
    BY DEF ToSet
  <2>2. j \in ItemsOf(values[i])
    BY <1>4 DEF ItemsOf
  <2>. QED  BY <1>4, <2>1, <2>2 DEF TypedArguments
<1>. HIDE DEF all, d, e
<1>5. \A i \in DOMAIN values : ValueOf(values[i], d) = ValueOf(values[i], e)
  BY <1>2, <1>3
<1>6. \A i \in DOMAIN values : values[i].type = "array" =>
         [j \in DOMAIN values[i].items |-> ValueOf(values[i].items[j], d)]
            = [j \in DOMAIN values[i].items |-> ValueOf(values[i].items[j], e)]
  BY <1>2, <1>4
<1>7. Evaluated(values, d) = Evaluated(values, e)
  BY <1>5, <1>6 DEF Evaluated
<1>. QED  BY <1>7 DEF d, e

\* sem_ver resolves its arguments to the same texts.
LEMMA ResolvedKept ==
    ASSUME keys # AllKeys, "targetingKey" \in keys, NEW c, NEW values,
           TypedArguments(values), KeptPaths(PathsIn(values)), NEW i \in DOMAIN values
    PROVE  ResolveString(values[i], Enriched(Sent(c))) = ResolveString(values[i], Enriched(c))
<1>1. CASE values[i].type # "var"
  BY <1>1 DEF ResolveString
<1>2. CASE values[i].type = "var"
  <2>1. IsSequence(values[i].path)
    BY <1>2 DEF TypedArguments
  <2>2. values[i].path \in PathsIn(values)
    BY <1>2 DEF PathsIn, ToSet
  <2>3. Lookup(Enriched(Sent(c)), values[i].path) = Lookup(Enriched(c), values[i].path)
    BY <2>1, <2>2, LookupKept DEF KeptPaths
  <2>. QED  BY <2>3 DEF ResolveString
<1>. QED  BY <1>1, <1>2

\* A node gives the same to its rule.
LEMMA NodeSeesKept ==
    ASSUME keys # AllKeys, "targetingKey" \in keys, NEW c, NEW node,
           IsSequence(node.path), TypedArguments(node.values),
           node.op \notin {"missing", "computed"}, KeptPaths(PathsOf(node))
    PROVE  NodeSees(node, Enriched(Sent(c))) = NodeSees(node, Enriched(c))
<1>. DEFINE d == Enriched(Sent(c))
            e == Enriched(c)
<1>1. CASE node.op = "var"
  <2>1. node.path # <<>> /\ Kept(node.path[1])
    BY <1>1 DEF PathsOf, KeptPaths
  <2>2. Lookup(d, node.path) = Lookup(e, node.path)
    BY <2>1, LookupKept
  <2>. HIDE DEF d, e
  <2>3. NodeSees(node, d) = NodeSees(node, e)
    BY <1>1, <2>2 DEF NodeSees
  <2>. QED  BY <2>3 DEF d, e
<1>2. CASE node.op = "fractional"
  <2>1. KeptPaths(PathsIn(node.values))
    BY <1>2 DEF PathsOf
  <2>2. Evaluated(node.values, d) = Evaluated(node.values, e)
    BY <2>1, EvaluatedKept
  <2>3. Lookup(d, <<"targetingKey">>) = Lookup(e, <<"targetingKey">>)
    <3>1. IsSequence(<<"targetingKey">>) /\ <<"targetingKey">> # <<>>
      BY DEF IsSequence
    <3>. QED  BY <3>1, LookupKept DEF Kept
  <2>. HIDE DEF d, e
  <2>4. CallFractional(node.values, d) = CallFractional(node.values, e)
    BY <2>2, <2>3 DEF CallFractional
  <2>5. NodeSees(node, d) = NodeSees(node, e)
    BY <1>2, <2>4 DEF NodeSees
  <2>. QED  BY <2>5 DEF d, e
<1>3. CASE node.op = "sem_ver"
  <2>1. KeptPaths(PathsIn(node.values))
    BY <1>3 DEF PathsOf
  <2>2. \A i \in DOMAIN node.values :
           ResolveString(node.values[i], d) = ResolveString(node.values[i], e)
    BY <2>1, ResolvedKept
  <2>3. Len(node.values) >= 3 => 1 \in DOMAIN node.values /\ 3 \in DOMAIN node.values
    BY DEF TypedArguments, IsSequence
  <2>. HIDE DEF d, e
  <2>4. SemVerResult(node.values, d) = SemVerResult(node.values, e)
    BY <2>2, <2>3 DEF SemVerResult
  <2>5. NodeSees(node, d) = NodeSees(node, e)
    BY <1>3, <2>4 DEF NodeSees
  <2>. QED  BY <2>5 DEF d, e
<1>4. CASE node.op \notin {"var", "fractional", "sem_ver"}
  BY <1>4 DEF NodeSees
<1>. QED  BY <1>1, <1>2, <1>3, <1>4

\* What ExtractRequiredContextKeys computes, as operators of the document and of
\* becomes.
RulePaths(d, b) == UNION {PathsOf(d.nodes[i]) : i \in RuleNodes(d, b)}

RuleKeys(d, b) ==
    IF <<>> \in RulePaths(d, b) THEN AllKeys
    ELSE {"targetingKey"} \cup ({p[1] : p \in RulePaths(d, b)} \ FlagdFields)

\* It does compute these.
LEMMA KeysOfRule == ExtractRequiredContextKeys(doc.rule) = RuleKeys(doc, becomes)
BY NodesOfRule DEF ExtractRequiredContextKeys, RuleKeys, RulePaths

\* The keys of a compiled rule are those of its resolved form.
KeysOfReady == stage = "ready" => keys \in {AllKeys, RuleKeys(doc, becomes)}

\* Every step preserves that: no step touches a compiled rule.
LEMMA NextKeys == KeysOfReady /\ [Next]_vars => KeysOfReady'
<1>. SUFFICES ASSUME KeysOfReady, [Next]_vars PROVE KeysOfReady'
  OBVIOUS
<1>1. CASE UNCHANGED vars
  BY <1>1 DEF vars, KeysOfReady
<1>2. CASE Compile
  <2>1. keys' \in {AllKeys, RuleKeys(doc, becomes)}
    BY <1>2, KeysOfRule DEF Compile
  <2>. QED  BY <1>2, <2>1 DEF Compile, KeysOfReady
<1>3. CASE Next /\ ~Compile
  <2>1. stage' # "ready"
    BY <1>3 DEF Next, CheckJsonDepth, ParseFails, ParseDocument, VisitTooDeep, VisitBadRef,
                VisitRef, VisitNode, LeaveRef, Resolved, Visiting, Reject
  <2>. QED  BY <2>1, Zenon DEF KeysOfReady
<1>. QED  BY <1>1, <1>2, <1>3

\* The paths of a traceable rule begin with fields the host delivers.
LEMMA TraceableIsKept ==
    ASSUME KeysOfReady, stage = "ready", Traceable, keys # AllKeys
    PROVE  /\ "targetingKey" \in keys
           /\ \A i \in NodesOf(doc.rule) : KeptPaths(PathsOf(doc.nodes[i]))
<1>1. /\ <<>> \notin RulePaths(doc, becomes)
      /\ keys = {"targetingKey"} \cup ({p[1] : p \in RulePaths(doc, becomes)} \ FlagdFields)
  BY DEF KeysOfReady, RuleKeys
<1>2. ASSUME NEW i \in NodesOf(doc.rule), NEW p \in PathsOf(doc.nodes[i])
      PROVE  p # <<>> /\ Kept(p[1])
  <2>1. p \in RulePaths(doc, becomes)
    BY NodesOfRule DEF RulePaths
  <2>2. p # <<>>
    BY <1>1, <2>1
  <2>3. p[1] \notin FlagdFields \ {"$flagd"}
    BY <2>2 DEF Traceable
  <2>. QED  BY <1>1, <2>1, <2>2, <2>3 DEF Kept
<1>. QED  BY <1>1, <1>2 DEF KeptPaths

\* For every document and every context: a host that sends the required keys
\* and nothing else does not change what a traceable rule sees.
THEOREM KeysCoverReadsOfTraceable == Spec => []KeysCoverTraceableReads
<1>1. IInv /\ KeysOfReady => KeysCoverTraceableReads
  <2>1. SUFFICES ASSUME IInv, KeysOfReady, stage = "ready", Traceable, NEW c \in Contexts
                 PROVE  RuleSees(doc.rule, Sent(c)) = RuleSees(doc.rule, c)
    BY DEF KeysCoverTraceableReads
  <2>2. CASE keys = AllKeys
    BY <2>2 DEF Sent
  <2>3. CASE keys # AllKeys
    <3>1. ASSUME NEW i \in NodesOf(doc.rule)
          PROVE  NodeSees(doc.nodes[i], Enriched(Sent(c))) = NodeSees(doc.nodes[i], Enriched(c))
      <4>1. i \in DOMAIN doc.nodes
        <5>1. Numbered(doc) /\ becomes \in [DOMAIN doc.nodes -> DOMAIN doc.nodes]
          BY <2>1, ParsedIsNumbered DEF IInv, DocumentOK, TypeOK
        <5>2. RuleNodes(doc, becomes) \in SUBSET DOMAIN doc.nodes
          BY <5>1, RuleNodesFacts
        <5>. QED  BY <5>2, NodesOfRule
      <4>2. IsSequence(doc.nodes[i].path) /\ TypedArguments(doc.nodes[i].values)
        BY <2>1, <4>1, TargetingAssumption DEF IInv, DocumentOK
      <4>3. "targetingKey" \in keys /\ KeptPaths(PathsOf(doc.nodes[i]))
        BY <2>1, <2>3, TraceableIsKept
      <4>4. doc.nodes[i].op \notin {"missing", "computed"}
        BY <2>1 DEF Traceable
      <4>. QED  BY <2>3, <4>2, <4>3, <4>4, NodeSeesKept
    <3>. QED  BY <3>1 DEF RuleSees
  <2>. QED  BY <2>1, <2>2, <2>3
<1>2. Init => KeysOfReady
  BY DEF Init, KeysOfReady
<1>. QED  BY <1>1, <1>2, NextKeys, Invariant, PTL DEF Spec

=============================================================================
