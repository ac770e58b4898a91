-------------------------- MODULE FlagConfigProofs --------------------------
(***************************************************************************)
(* Facts about configurations that hold for every set of flags: indices    *)
(* name flags uniquely, and a context filtered to the required keys gives  *)
(* the same answer as the whole context.                                   *)
(***************************************************************************)
EXTENDS FlagConfig, FiniteSetTheorems, TLAPS

LEMMA FlagsOfFinite ==
    ASSUME NEW c
    PROVE  FlagsOf(c) \subseteq Flags /\ IsFiniteSet(FlagsOf(c))
<1>1. FlagsOf(c) \subseteq Flags
  BY DEF FlagsOf
<1>2. IsFiniteSet(Flags)
  BY ConfigAssumption
<1>3. QED
  BY <1>1, <1>2, FS_Subset

\* Flags are indexed in key order: of two flags of one configuration, the one
\* with the smaller key has the smaller index.
LEMMA IndexMonotone ==
    ASSUME NEW c, NEW f \in FlagsOf(c), NEW g \in FlagsOf(c), f < g
    PROVE  FlagIndex(c, f) < FlagIndex(c, g)
<1> DEFINE Below(h) == {x \in FlagsOf(c) : x < h}
<1>1. f \in Nat /\ g \in Nat /\ FlagsOf(c) \subseteq Nat
  BY FlagsOfFinite, ConfigAssumption
<1>2. Below(f) \subseteq Below(g) /\ Below(f) # Below(g)
  <2>1. f \in Below(g) /\ f \notin Below(f)
    BY <1>1
  <2>2. ASSUME NEW x \in Below(f) PROVE x \in Below(g)
    BY <1>1
  <2>3. QED
    BY <2>1, <2>2
<1>3. IsFiniteSet(Below(g)) /\ IsFiniteSet(Below(f))
  <2>1. Below(g) \subseteq FlagsOf(c) /\ Below(f) \subseteq FlagsOf(c)
    OBVIOUS
  <2>2. QED
    BY <2>1, FlagsOfFinite, FS_Subset
<1>4. /\ Cardinality(Below(f)) <= Cardinality(Below(g))
      /\ Cardinality(Below(f)) # Cardinality(Below(g))
  <2> HIDE DEF Below
  <2>1. QED
    BY <1>2, <1>3, FS_Subset
<1>5. Cardinality(Below(f)) \in Nat /\ Cardinality(Below(g)) \in Nat
  <2> HIDE DEF Below
  <2>1. QED
    BY <1>3, FS_CardinalityType
<1>6. Cardinality(Below(f)) < Cardinality(Below(g))
  <2> HIDE DEF Below
  <2>1. QED
    BY <1>4, <1>5
<1>7. QED
  BY <1>6 DEF FlagIndex

\* Two flags of one configuration never share an index.
THEOREM IndexInjective ==
    ASSUME NEW c, NEW f \in FlagsOf(c), NEW g \in FlagsOf(c),
           FlagIndex(c, f) = FlagIndex(c, g)
    PROVE  f = g
<1>1. f \in Nat /\ g \in Nat
  BY FlagsOfFinite, ConfigAssumption
<1>2. /\ FlagIndex(c, f) \in Nat
      /\ FlagIndex(c, g) \in Nat
  <2>1. ASSUME NEW h PROVE FlagIndex(c, h) \in Nat
    <3>1. {x \in FlagsOf(c) : x < h} \subseteq FlagsOf(c)
      OBVIOUS
    <3>2. QED
      BY <3>1, FlagsOfFinite, FS_Subset, FS_CardinalityType DEF FlagIndex
  <2>2. QED
    BY <2>1
<1>3. ~(f < g)
  BY <1>2, IndexMonotone
<1>4. ~(g < f)
  BY <1>2, IndexMonotone
<1>5. QED
  BY <1>1, <1>3, <1>4

\* evaluate_by_index with the index the configuration itself assigned to a flag
\* evaluates that flag: the index path and the key path of the instance agree.
THEOREM ByIndexIsByKey ==
    ASSUME NEW c, NEW f \in FlagsOf(c), NEW ctx
    PROVE  EvaluateByIndex(c, FlagIndex(c, f), ctx) = Evaluate(c, f, ctx)
<1> DEFINE g == CHOOSE h \in FlagsOf(c) : FlagIndex(c, h) = FlagIndex(c, f)
<1>1. g \in FlagsOf(c) /\ FlagIndex(c, g) = FlagIndex(c, f)
  OBVIOUS
<1>2. g = f
  BY <1>1, IndexInjective
<1>3. QED
  BY <1>2 DEF EvaluateByIndex

\* Sending only the required keys of a flag loses nothing its rule reads.
THEOREM FilteringIsSound ==
    ASSUME NEW c \in Configs, NEW f \in RequiredKeyFlags(c), NEW ctx
    PROVE  Evaluate(c, f, ctx \cap Keys[c][f]) = Evaluate(c, f, ctx)
<1>1. Reads[c][f] \subseteq Keys[c][f]
  BY ConfigAssumption DEF RequiredKeyFlags
<1>2. SeenFields(c, f, ctx \cap Keys[c][f]) = SeenFields(c, f, ctx)
  BY <1>1 DEF SeenFields
<1>3. QED
  BY <1>2 DEF Evaluate

\* A static flag is answered without looking at the context.
LEMMA StaticIgnoresContext ==
    ASSUME NEW c, NEW f \in PreEvaluated(c), NEW ctx
    PROVE  Evaluate(c, f, {}) = Evaluate(c, f, ctx)
<1>1. SeenFields(c, f, {}) = SeenFields(c, f, ctx)
  BY DEF SeenFields, PreEvaluated
<1>2. QED
  BY <1>1 DEF Evaluate

LEMMA AnswerTypes ==
    ASSUME NEW c \in Loadable, NEW f, NEW ctx \in SUBSET Attrs
    PROVE  /\ Evaluate(c, f, ctx) \in Answers
           /\ \A k : EvaluateByIndex(c, k, ctx) \in Answers
           /\ NotFound \in Answers
           /\ Failed \in Answers
<1>1. NotFound \in Answers /\ Failed \in Answers
  BY DEF NotFound, Failed, Answers, Loadable
<1>2. ASSUME NEW g \in FlagsOf(c) PROVE Value(c, g, SeenFields(c, g, ctx)) \in Answers
  <2>1. g \in Nat
    BY FlagsOfFinite, ConfigAssumption
  <2>2. SeenFields(c, g, ctx) \subseteq Attrs
    BY DEF SeenFields
  <2>3. QED
    BY <2>1, <2>2 DEF Value, Answers
<1>3. \A g : Evaluate(c, g, ctx) \in Answers
  BY <1>1, <1>2 DEF Evaluate
<1>4. QED
  BY <1>1, <1>3 DEF EvaluateByIndex

=============================================================================
