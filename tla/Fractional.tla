----------------------------- MODULE Fractional -----------------------------
(***************************************************************************)
(* The fractional operator (src/operators/fractional.rs): a bucketing key  *)
(* is hashed into one of HashSize values and the hash falls into one of the *)
(* buckets, in proportion to their weights.  Machine integers keep their   *)
(* widths: a hash has 32 bits, a weight, a sum and a product have 64.      *)
(***************************************************************************)
EXTENDS Values, FiniteSets

CONSTANT HashSize    \* u32::MAX + 1

ASSUME HashAssumption == HashSize \in Nat \ {0}

Hashes   == 0 .. HashSize - 1
MaxTotal == HashSize \div 2 - 1     \* i32::MAX
Wide     == HashSize * HashSize     \* u64::MAX + 1

\* The key that is hashed: the first argument when it is a string, else the
\* flag key followed by the targeting key.
IsExplicit(args) == args[1].type = "string"

BucketKey(args, flagKey, targetingKey) ==
    IF IsExplicit(args) THEN args[1].text.word
    ELSE flagKey \o (IF targetingKey.type = "string" THEN targetingKey.text.word ELSE "")

\* What one array [name, weight] or [name] adds to the flat list of buckets.
BucketOf(definition) ==
    CASE Len(definition.items) >= 2 -> SubSeq(definition.items, 1, 2)
      [] Len(definition.items) = 1  -> Append(definition.items, Num(1))
      [] OTHER -> <<>>

\* ["key", ["b1", 50, "b2", 50]], ["key", ["b1", 50], ["b2", 50]] or
\* [["b1"], ["b2", 50]].  A single array after a key is always the first form.
BucketArgs(args) == IF IsExplicit(args) THEN Tail(args) ELSE args

FlatBuckets(args) ==
    IF IsExplicit(args) /\ Len(args) = 2 THEN args[2].items
    ELSE FlattenSeq([i \in DOMAIN BucketArgs(args) |-> BucketOf(BucketArgs(args)[i])])

\* The names and weights of a flat list <<name, weight, name, weight, ...>>.
Names(flat)   == [i \in 1 .. Len(flat) \div 2 |-> flat[2 * i - 1]]
Weights(flat) == [i \in 1 .. Len(flat) \div 2 |-> flat[2 * i].number]

\* Cumulative(w)[i]: the sum of the first i weights.
Cumulative(weights) ==
    LET sum[i \in 0 .. Len(weights)] ==
            IF i = 0 THEN 0 ELSE sum[i - 1] + weights[i]
    IN  sum

TotalWeight(weights) == Cumulative(weights)[Len(weights)]

\* Mutant of TotalAccepted: the sum is only tested for overflow.
MutantNoLimit(total) == total > 0 /\ total < Wide

\* Both an overflow of the sum and a sum above i32::MAX are refused.
TotalAccepted(total) == total > 0 /\ total <= MaxTotal

WellFormed(flat) ==
    /\ flat # <<>> /\ Len(flat) % 2 = 0
    /\ \A i \in DOMAIN flat :
          IF i % 2 = 1 THEN flat[i].type = "string"
          ELSE flat[i].type = "number" /\ flat[i].number \in 0 .. Wide - 1

Accepted(args) ==
    /\ args # <<>>
    /\ BucketArgs(args) # <<>>
    /\ \A i \in DOMAIN BucketArgs(args) : BucketArgs(args)[i].type = "array"
    /\ WellFormed(FlatBuckets(args))
    /\ TotalAccepted(TotalWeight(Weights(FlatBuckets(args))))

BucketValue(hash, total) == ((hash * total) % Wide) \div HashSize

\* Mutant of Bucket: the share of each bucket is rounded before they are added.
MutantRounded(weights, hash) ==
    LET share(w) == (w * HashSize) \div TotalWeight(weights)
        ends  == Cumulative([i \in DOMAIN weights |-> share(weights[i])])
        above == {i \in DOMAIN weights : hash < ends[i]}
    IN  IF above = {} THEN Len(weights)
        ELSE CHOOSE i \in above : \A j \in above : i <= j

\* The first bucket whose cumulative weight exceeds the value; the last one
\* when there is none.
Bucket(weights, hash) ==
    LET value == BucketValue(hash, TotalWeight(weights))
        above == {i \in DOMAIN weights : value < Cumulative(weights)[i]}
    IN  IF above = {} THEN Len(weights)
        ELSE CHOOSE i \in above : \A j \in above : i <= j

\* The operator: the name of the bucket, or Absent for an error.
FractionalResult(args, hash) ==
    IF Accepted(args)
    THEN LET flat == FlatBuckets(args) IN Names(flat)[Bucket(Weights(flat), hash)]
    ELSE Absent

-----------------------------------------------------------------------------
(***************************************************************************)
(* What the operator promises for one list of weights it accepts.          *)
(***************************************************************************)
HashesOf(weights, i) == {h \in Hashes : Bucket(weights, h) = i}

\* Bucket i gets a share of all hashes within one hash of weights[i] / total.
Proportional(weights) ==
    \A i \in DOMAIN weights :
        LET total == TotalWeight(weights)
            error == Cardinality(HashesOf(weights, i)) * total - weights[i] * HashSize
        IN  -total < error /\ error < total

\* Moving n units of weight from bucket i + 1 to bucket i moves hashes from
\* bucket i + 1 to bucket i and does not touch any other.
Shift(weights, i, n) == [weights EXCEPT ![i] = @ + n, ![i + 1] = @ - n]

ShiftMovesNeighbours(weights) ==
    \A i \in 1 .. Len(weights) - 1 : \A n \in 0 .. weights[i + 1] : \A h \in Hashes :
        LET old == Bucket(weights, h)
            new == Bucket(Shift(weights, i, n), h)
        IN  new = old \/ (old = i + 1 /\ new = i)

=============================================================================
