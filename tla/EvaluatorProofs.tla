--------------------------- MODULE EvaluatorProofs ---------------------------
(***************************************************************************)
(* Invariance proofs for Evaluator, for any configurations, rules and      *)
(* contexts that satisfy the assumptions of Evaluation.                    *)
(***************************************************************************)
EXTENDS Evaluator, WellFoundedInduction, FiniteSetTheorems, TLAPS

Rank(keys, k) == Cardinality({j \in keys : j < k})

LEMMA KeysFinite ==
    ASSUME NEW st \in Configurations
    PROVE  DOMAIN st.flags \subseteq Nat /\ IsFiniteSet(DOMAIN st.flags)
<1>1. DOMAIN st.flags \subseteq FlagKeys /\ FlagKeys \subseteq Nat
  BY EvaluatorAssumption
<1>2. QED
  BY <1>1, EvaluatorAssumption, FS_Subset

LEMMA RankType ==
    ASSUME NEW keys \in SUBSET Nat, IsFiniteSet(keys), NEW k \in keys
    PROVE  /\ Rank(keys, k) \in Nat
           /\ Cardinality(keys) \in Nat
           /\ Rank(keys, k) < Cardinality(keys)
<1> DEFINE Below == {j \in keys : j < k}
<1>1. Below \subseteq keys /\ Below # keys
  <2>1. k \notin Below
    OBVIOUS
  <2>2. QED
    BY <2>1
<1>2. IsFiniteSet(Below)
  BY <1>1, FS_Subset
<1> HIDE DEF Below
<1>3. Cardinality(Below) \in Nat /\ Cardinality(keys) \in Nat
  BY <1>2, FS_CardinalityType
<1>4. Cardinality(Below) <= Cardinality(keys) /\ Cardinality(Below) # Cardinality(keys)
  BY <1>1, <1>2, FS_Subset
<1>5. QED
  BY <1>3, <1>4 DEF Rank, Below

LEMMA RankMonotone ==
    ASSUME NEW keys \in SUBSET Nat, IsFiniteSet(keys),
           NEW k \in keys, NEW l \in keys, k < l
    PROVE  Rank(keys, k) < Rank(keys, l)
<1> DEFINE Below == {j \in keys : j < l}
<1>1. Below \in SUBSET Nat /\ IsFiniteSet(Below) /\ k \in Below
  <2>1. Below \subseteq keys
    OBVIOUS
  <2>2. QED
    BY <2>1, FS_Subset
<1>2. {j \in Below : j < k} = {j \in keys : j < k}
  <2>1. \A j \in keys : j \in Nat /\ k \in Nat /\ l \in Nat
    OBVIOUS
  <2>2. \A j \in keys : j < k => j < l
    BY <2>1
  <2>3. QED
    BY <2>2
<1> HIDE DEF Below
<1>3. Rank(Below, k) < Cardinality(Below)
  BY <1>1, RankType
<1>4. QED
  BY <1>2, <1>3 DEF Rank, Below

LEMMA RankInjective ==
    ASSUME NEW keys \in SUBSET Nat, IsFiniteSet(keys),
           NEW k \in keys, NEW l \in keys, Rank(keys, k) = Rank(keys, l)
    PROVE  k = l
<1>1. k \in Nat /\ l \in Nat
  OBVIOUS
<1>2. Rank(keys, k) \in Nat
  BY RankType
<1>3. ~(k < l) /\ ~(l < k)
  BY <1>2, RankMonotone
<1>4. QED
  BY <1>1, <1>3

\* The index update_state hands out for a flag leads flag_index_map back to it.
THEOREM IndexRoundTrip ==
    ASSUME NEW keys \in SUBSET Nat, IsFiniteSet(keys), NEW k \in keys
    PROVE  /\ FlagIndices(keys)[k] + 1 \in DOMAIN IndexToKey(keys)
           /\ IndexToKey(keys)[FlagIndices(keys)[k] + 1] = k
<1> DEFINE index == FlagIndices(keys)[k]
<1>1. index = Rank(keys, k)
  BY DEF FlagIndices, Rank
<1>2. /\ index \in Nat /\ Cardinality(keys) \in Nat /\ index < Cardinality(keys)
  BY <1>1, RankType
<1>3. index + 1 \in 1..Cardinality(keys)
  BY <1>2
<1>4. IndexToKey(keys)[index + 1]
        = CHOOSE l \in keys : Rank(keys, l) = (index + 1) - 1
  BY <1>3 DEF IndexToKey, Rank
<1>5. (index + 1) - 1 = Rank(keys, k)
  BY <1>1, <1>2
<1>6. \A l \in keys : Rank(keys, l) = Rank(keys, k) => l = k
  BY RankInjective
<1>7. (CHOOSE l \in keys : Rank(keys, l) = Rank(keys, k)) = k
  BY <1>6
<1>8. QED
  BY <1>3, <1>4, <1>5, <1>7 DEF IndexToKey

\* Sorting assigns every index below the number of flags.
LEMMA IndexMapType ==
    ASSUME NEW keys \in SUBSET Nat, IsFiniteSet(keys)
    PROVE  /\ Cardinality(keys) \in Nat
           /\ IndexToKey(keys) \in [1..Cardinality(keys) -> keys]
<1> DEFINE n == Cardinality(keys)
           f == [k \in keys |-> Rank(keys, k)]
<1>1. n \in Nat
  BY FS_CardinalityType
<1>2. f \in [keys -> 0..(n - 1)]
  <2>1. \A k \in keys : Rank(keys, k) \in 0..(n - 1)
    BY <1>1, RankType
  <2>2. QED
    BY <2>1
<1>3. \A k, l \in keys : f[k] = f[l] => k = l
  BY RankInjective
<1>4. f \in Injection(keys, 0..(n - 1))
  BY <1>2, <1>3 DEF Injection, IsInjective
<1>5. IsFiniteSet(0..(n - 1)) /\ Cardinality(0..(n - 1)) = n
  <2>1. 0 \in Int /\ n - 1 \in Int /\ (0 > n - 1 <=> n = 0) /\ (n - 1) - 0 + 1 = n
    BY <1>1
  <2> HIDE DEF n
  <2>2. QED
    BY <2>1, FS_Interval
<1>6. f \in Surjection(keys, 0..(n - 1))
  BY <1>4, <1>5, FS_Injection
<1>7. \A i \in 1..n : \E k \in keys : Rank(keys, k) = i - 1
  <2>1. ASSUME NEW i \in 1..n PROVE i - 1 \in 0..(n - 1)
    BY <1>1
  <2>2. QED
    BY <1>6, <2>1 DEF Surjection
<1>8. \A i \in 1..n : (CHOOSE k \in keys : Rank(keys, k) = i - 1) \in keys
  BY <1>7
<1>9. QED
  BY <1>1, <1>8 DEF IndexToKey, Rank

-----------------------------------------------------------------------------
(***************************************************************************)
(* Evaluation                                                              *)
(***************************************************************************)
\* Any context an evaluation may get, well-formed or missing.
Objects == Contexts \cup {NoContext}

LEMMA ContextTypes ==
    ASSUME NEW c \in Objects
    PROVE  c # BadContext /\ (c = NoContext \/ (c # NoContext /\ c \in Contexts))
BY EvaluatorAssumption DEF Objects

LEMMA AnyContextIsObject == AnyContext \subseteq Objects
BY EvaluatorAssumption DEF AnyContext, Objects

LEMMA EnrichType ==
    ASSUME NEW c \in Contexts, c # NoContext, NEW k \in FlagKeys
    PROVE  EnrichContext(k, c) \in Contexts
BY DEF EnrichContext, AsObject, Contexts

\* A disabled flag and a flag without targeting ignore the context.
LEMMA StaticIgnoresContext ==
    ASSUME NEW flag, flag.state = "DISABLED" \/ IsStatic(flag), NEW set,
           NEW k, NEW c, NEW d, NEW e, NEW f
    PROVE  EvaluateCore(flag, k, c, e, set) = EvaluateCore(flag, k, d, f, set)
BY DEF EvaluateCore

\* A pre-evaluated result is what the exported evaluate returns on any context.
THEOREM PreEvaluatedIsSound ==
    ASSUME NEW st \in Configurations, NEW k \in DOMAIN PreEvaluateStaticFlags(st),
           NEW c \in Objects
    PROVE  PreEvaluateStaticFlags(st)[k] = ExportEvaluate(st, k, c)
<1>1. /\ k \in DOMAIN st.flags
      /\ st.flags[k].state = "DISABLED" \/ IsStatic(st.flags[k])
  BY DEF PreEvaluateStaticFlags
<1>2. PreEvaluateStaticFlags(st)[k]
        = EvaluateCore(st.flags[k], k, EmptyContext, FALSE, st.metadata)
  BY DEF PreEvaluateStaticFlags
<1>3. st # NoState
  BY EvaluatorAssumption
<1>4. \A d : EvaluateFlag(st, k, d, TRUE)
                = EvaluateCore(st.flags[k], k, d, TRUE, st.metadata)
  BY <1>1, <1>3 DEF EvaluateFlag
<1>5. \A d : EvaluateFlag(st, k, d, TRUE) = PreEvaluateStaticFlags(st)[k]
  <2> TAKE d
  <2>1. EvaluateCore(st.flags[k], k, d, TRUE, st.metadata)
          = EvaluateCore(st.flags[k], k, EmptyContext, FALSE, st.metadata)
    BY <1>1, StaticIgnoresContext
  <2>2. QED
    BY <1>2, <1>4, <2>1
<1>6. c # BadContext
  BY ContextTypes
<1>7. CASE st.flags[k].targeting = NoRule
  BY <1>1, <1>3, <1>5, <1>7 DEF ExportEvaluate
<1>8. CASE st.flags[k].targeting # NoRule
  <2>1. ExportEvaluate(st, k, c) = EvaluateFlag(st, k, c, TRUE)
    BY <1>1, <1>3, <1>6, <1>8 DEF ExportEvaluate
  <2>2. QED
    BY <1>5, <2>1
<1>9. QED
  BY <1>7, <1>8

\* A rule whose fields were extracted does not see what filtering takes away.
LEMMA FilteredOutcome ==
    ASSUME NEW r \in Extracted, NEW c \in Contexts, c # NoContext,
           NEW k \in FlagKeys
    PROVE  Outcome(r, FilterContext(k, c, RequiredKeys[r]))
              = Outcome(r, EnrichContext(k, c))
<1> DEFINE whole == EnrichContext(k, c)
           cut == FilterContext(k, c, RequiredKeys[r])
<1>1. whole \in Contexts
  BY EnrichType
<1>2. cut = [whole EXCEPT !.fields = @ \cap RequiredKeys[r]]
  <2>1. [c EXCEPT !.fields = @ \cap RequiredKeys[r]] # NoContext
    <3>1. [c EXCEPT !.fields = @ \cap RequiredKeys[r]] \in Contexts
      BY EvaluatorAssumption DEF Contexts
    <3>2. QED
      BY <3>1, EvaluatorAssumption
  <2>2. QED
    BY <2>1 DEF FilterContext, EnrichContext, AsObject, Contexts
<1>3. QED
  BY <1>1, <1>2, ExtractionAssumption

\* The index handed out for a flag, with the context filtered to the keys handed
\* out, gives what the flag's key with the whole context gives.
THEOREM IndexWithKeysIsSound ==
    ASSUME NEW st \in Configurations, NEW k \in DOMAIN RequiredContextKeys(st),
           NEW c \in Objects
    PROVE  ExportEvaluateByIndex(st, IndexToKey(DOMAIN st.flags),
                  FlagIndices(DOMAIN st.flags)[k],
                  FilterContext(k, c, RequiredContextKeys(st)[k]))
              = ExportEvaluate(st, k, c)
<1> DEFINE flag == st.flags[k]
           sent == FilterContext(k, c, RequiredContextKeys(st)[k])
<1>1. /\ k \in DOMAIN st.flags /\ flag.targeting \in Extracted
      /\ RequiredContextKeys(st)[k] = RequiredKeys[flag.targeting]
  BY DEF RequiredContextKeys
<1>2. st # NoState /\ k \in FlagKeys /\ k \in Nat \ {0}
  BY <1>1, EvaluatorAssumption
<1>3. flag.targeting # NoRule /\ flag.targeting # EmptyRule
  BY <1>1, EvaluatorAssumption
<1>4. ExportEvaluate(st, k, c) = EvaluateCore(flag, k, c, TRUE, st.metadata)
  BY <1>1, <1>2, <1>3, ContextTypes DEF ExportEvaluate, EvaluateFlag
<1>5. CASE c = NoContext
  <2>1. sent = NoContext
    BY <1>5 DEF FilterContext
  <2>2. EvaluatePreEnriched(st, k, sent) = EvaluateCore(flag, k, c, TRUE, st.metadata)
    BY <1>1, <1>2, <1>5, <2>1
       DEF EvaluatePreEnriched, EvaluateFlag, AsObject, EmptyContext
  <2>3. sent # BadContext
    BY <2>1, EvaluatorAssumption
  <2>4. QED
    BY <1>1, <1>2, <1>4, <2>2, <2>3, KeysFinite, IndexRoundTrip
       DEF ExportEvaluateByIndex, EvaluateByIndex
<1>6. CASE c # NoContext
  <2>1. c \in Contexts
    BY <1>6, ContextTypes
  <2>2. [c EXCEPT !.fields = @ \cap RequiredKeys[flag.targeting]] \in Contexts
    BY <1>1, <2>1, EvaluatorAssumption DEF Contexts
  <2>3. sent = EnrichContext(k, [c EXCEPT !.fields = @ \cap RequiredKeys[flag.targeting]])
    BY <1>1, <1>6 DEF FilterContext
  <2>4. sent \in Contexts
    BY <1>2, <2>2, <2>3, EnrichType, EvaluatorAssumption
  <2>5. sent.flagd = k
    BY <2>2, <2>3, EvaluatorAssumption DEF EnrichContext, AsObject, Contexts
  <2>6. sent # NoContext /\ sent # BadContext
    BY <2>4, EvaluatorAssumption
  <2>7. EvaluatePreEnriched(st, k, sent)
          = EvaluateCore(flag, k, sent, FALSE, st.metadata)
    BY <1>1, <1>2, <2>5, <2>6 DEF EvaluatePreEnriched, EvaluateFlag, AsObject
  <2>8. Outcome(flag.targeting, sent) = Outcome(flag.targeting, EnrichContext(k, c))
    BY <1>1, <1>2, <1>6, <2>1, FilteredOutcome
  <2>9. TargetingResult(flag, sent, st.metadata)
          = TargetingResult(flag, EnrichContext(k, c), st.metadata)
    BY <2>8 DEF TargetingResult
  <2>10. EvaluateCore(flag, k, sent, FALSE, st.metadata)
           = EvaluateCore(flag, k, c, TRUE, st.metadata)
    BY <1>3, <2>6, <2>9 DEF EvaluateCore, IsStatic, AsObject
  <2>11. QED
    BY <1>1, <1>2, <1>4, <2>6, <2>7, <2>10, KeysFinite, IndexRoundTrip
       DEF ExportEvaluateByIndex, EvaluateByIndex
<1>7. QED
  BY <1>5, <1>6

-----------------------------------------------------------------------------
(***************************************************************************)
(* The state machine: the index map and the last response always belong to *)
(* the configuration in force.                                             *)
(***************************************************************************)
Belongs ==
    /\ state = NoState => flag_index_map = <<>> /\ response = NoResponse
    /\ state # NoState =>
          /\ flag_index_map = IndexToKey(DOMAIN state.flags)
          /\ response.success = TRUE
          /\ response.preEvaluated = PreEvaluateStaticFlags(state)
          /\ response.requiredContextKeys = RequiredContextKeys(state)
          /\ response.flagIndices = FlagIndices(DOMAIN state.flags)

IInv ==
    /\ state \in Configurations \cup {NoState}
    /\ validation_mode \in {"Strict", "Permissive"}
    /\ Belongs

LEMMA InvInit == Init => IInv
BY DEF Init, IInv, Belongs

LEMMA InvStep == IInv /\ [Next]_vars => IInv'
<1> SUFFICES ASSUME IInv, [Next]_vars PROVE IInv'
  OBVIOUS
<1>1. ASSUME NEW d \in Documents, UpdateState(d) PROVE IInv'
  <2>1. Parsed[d] \in Configurations
    BY <1>1 DEF UpdateState, Accepts, Configurations
  <2>2. Parsed[d] # NoState
    BY <2>1, EvaluatorAssumption
  <2>3. QED
    BY <1>1, <2>1, <2>2
       DEF IInv, Belongs, UpdateState, ResponseFor, Response
<1>2. ASSUME NEW d \in Documents, UpdateRejected(d) PROVE IInv'
  BY <1>2 DEF IInv, Belongs, UpdateRejected, vars
<1>3. ASSUME NEW mode \in {"Strict", "Permissive"}, SetValidationMode(mode)
      PROVE  IInv'
  BY <1>3 DEF IInv, Belongs, SetValidationMode
<1>4. CASE ClearState
  BY <1>4 DEF IInv, Belongs, ClearState
<1>5. CASE UNCHANGED vars
  BY <1>5 DEF IInv, Belongs, vars
<1>6. QED
  BY <1>1, <1>2, <1>3, <1>4, <1>5 DEF Next

LEMMA Invariance == Spec => []IInv
BY InvInit, InvStep, PTL DEF Spec

LEMMA InvGivesTypes == IInv => TypeOK
<1> SUFFICES ASSUME IInv PROVE TypeOK
  OBVIOUS
<1>1. CASE state = NoState
  <2>1. response.success = FALSE /\ DOMAIN response.flagIndices = {}
    BY <1>1 DEF IInv, Belongs, NoResponse, Response
  <2>2. flag_index_map \in Seq(FlagKeys)
    BY <1>1 DEF IInv, Belongs
  <2>3. QED
    BY <2>1, <2>2 DEF TypeOK, IInv
<1>2. CASE state # NoState
  <2> DEFINE keys == DOMAIN state.flags
  <2>1. state \in Configurations /\ keys \in SUBSET Nat /\ IsFiniteSet(keys)
    BY <1>2, KeysFinite DEF IInv
  <2>2. keys \subseteq FlagKeys
    BY <2>1, EvaluatorAssumption
  <2>3. /\ Cardinality(keys) \in Nat
        /\ flag_index_map \in [1..Cardinality(keys) -> keys]
    BY <1>2, <2>1, IndexMapType DEF IInv, Belongs
  <2>4. flag_index_map \in Seq(FlagKeys) /\ Len(flag_index_map) = Cardinality(keys)
    BY <2>2, <2>3
  <2>5. \A k \in keys : /\ FlagIndices(keys)[k] = Rank(keys, k)
                        /\ Rank(keys, k) \in 0 .. Cardinality(keys) - 1
    BY <2>1, RankType DEF FlagIndices, Rank
  <2>6. DOMAIN FlagIndices(keys) = keys
    BY DEF FlagIndices
  <2>7. QED
    BY <1>2, <2>4, <2>5, <2>6 DEF TypeOK, IInv, Belongs
<1>3. QED
  BY <1>1, <1>2

\* Every state the evaluator reaches is well typed, and every index it handed out
\* is within its index map.
THEOREM EvaluatorTypeCorrect == Spec => []TypeOK
BY Invariance, InvGivesTypes, PTL

LEMMA InvGivesAgreement == IInv => HandedOutAgrees
<1> SUFFICES ASSUME IInv PROVE HandedOutAgrees
  OBVIOUS
<1>1. CASE state = NoState
  <2>1. DOMAIN response.preEvaluated = {} /\ DOMAIN response.requiredContextKeys = {}
    BY <1>1 DEF IInv, Belongs, NoResponse, Response
  <2>2. QED
    BY <2>1 DEF HandedOutAgrees
<1>2. CASE state # NoState
  <2>1. /\ state \in Configurations
        /\ flag_index_map = IndexToKey(DOMAIN state.flags)
        /\ response.preEvaluated = PreEvaluateStaticFlags(state)
        /\ response.requiredContextKeys = RequiredContextKeys(state)
        /\ response.flagIndices = FlagIndices(DOMAIN state.flags)
    BY <1>2 DEF IInv, Belongs
  <2>2. QED
    BY <2>1, AnyContextIsObject, PreEvaluatedIsSound, IndexWithKeysIsSound
       DEF HandedOutAgrees
<1>3. QED
  BY <1>1, <1>2

\* What a host holds from the last accepted load stands for calls into the
\* evaluator, whatever was refused and whichever mode was set since.
THEOREM HandedOutIsSound == Spec => []HandedOutAgrees
BY Invariance, InvGivesAgreement, PTL

-----------------------------------------------------------------------------
(***************************************************************************)
(* changedFlags                                                            *)
(***************************************************************************)
LEMMA UnchangedFlagAnswersAsBefore ==
    ASSUME NEW old \in Configurations, NEW new \in Configurations,
           NEW k \in FlagKeys \ DetectChangedFlags(old, new),
           old.metadata = new.metadata, NEW c
    PROVE  EvaluateFlag(new, k, c, TRUE) = EvaluateFlag(old, k, c, TRUE)
<1>1. old # NoState /\ new # NoState
  BY EvaluatorAssumption
<1>2. CASE k \in DOMAIN new.flags
  BY <1>1, <1>2 DEF DetectChangedFlags, EvaluateFlag
<1>3. CASE k \notin DOMAIN new.flags
  BY <1>1, <1>3 DEF DetectChangedFlags, EvaluateFlag
<1>4. QED
  BY <1>2, <1>3

\* A flag that changedFlags does not name answers every context as it did before
\* the load, unless the metadata of the flag set changed.
THEOREM ChangedFlagsIsComplete == Spec => ChangedFlagsComplete
<1> DEFINE A == response'.success /\ response' # response =>
          \A k \in FlagKeys \ response'.changedFlags, c \in AnyContext :
              /\ state # NoState
              /\ state.metadata = state'.metadata
              => EvaluateFlag(state', k, c, TRUE) = EvaluateFlag(state, k, c, TRUE)
<1>1. ASSUME IInv, [Next]_vars, NEW k, NEW c, response'.success,
             response' # response, k \in FlagKeys \ response'.changedFlags,
             c \in AnyContext, state # NoState, state.metadata = state'.metadata
      PROVE  EvaluateFlag(state', k, c, TRUE) = EvaluateFlag(state, k, c, TRUE)
  <2>1. PICK d \in Documents : UpdateState(d)
    BY <1>1 DEF Next, UpdateRejected, SetValidationMode, ClearState, vars,
                NoResponse, Response
  <2>2. /\ state' \in Configurations
        /\ response'.changedFlags = DetectChangedFlags(state, state')
    BY <2>1 DEF UpdateState, Accepts, Configurations, ResponseFor, Response
  <2>3. state \in Configurations
    BY <1>1 DEF IInv
  <2>4. k \in FlagKeys \ DetectChangedFlags(state, state')
    BY <1>1, <2>2
  <2>5. QED
    BY <1>1, <2>2, <2>3, <2>4, UnchangedFlagAnswersAsBefore, Zenon
<1>2. IInv /\ [Next]_vars => [A]_vars
  BY <1>1
<1>3. QED
  BY <1>2, Invariance, PTL DEF Spec, ChangedFlagsComplete

-----------------------------------------------------------------------------
(***************************************************************************)
(* Typed evaluation                                                        *)
(***************************************************************************)
\* The reasons of answers that are passed on, and of those that are checked.
PassedOn == {"ERROR", "FLAG_NOT_FOUND", "FALLBACK", "DISABLED"}
Answering == {"STATIC", "DEFAULT", "TARGETING_MATCH"}

\* An answer without a value, or a typed value without an error.
WellFormed(r) ==
    \E reason \in PassedOn \cup Answering, value \in Values : \E variant, code, metadata :
        /\ r = Result(reason, value, variant, code, metadata)
        /\ reason \in PassedOn => value = Null /\ code # ""
        /\ reason \in Answering => code = ""

\* The answers without a value are well formed.
LEMMA ErrorsWellFormed ==
    /\ \A code \in {"GENERAL", "PARSE_ERROR", "FLAG_NOT_FOUND", "TYPE_MISMATCH"} :
          WellFormed(ErrorResult(code))
    /\ WellFormed(Fallback)
    /\ \A reason \in {"DISABLED", "FLAG_NOT_FOUND"} : \A metadata :
          WellFormed(Result(reason, Null, "", "FLAG_NOT_FOUND", metadata))
<1>1. Null \in Values
  BY DEF Null, Values
<1>2. ASSUME NEW reason \in PassedOn, NEW code, code # "", NEW metadata
      PROVE  WellFormed(Result(reason, Null, "", code, metadata))
  <2>1. reason \notin Answering
    BY DEF PassedOn, Answering
  <2> QED
    BY <1>1, <1>2, <2>1 DEF WellFormed
<1>3. \A code \in {"GENERAL", "PARSE_ERROR", "FLAG_NOT_FOUND", "TYPE_MISMATCH"} : code # ""
  OBVIOUS
<1> QED
  BY <1>2, <1>3 DEF ErrorResult, Fallback, PassedOn

\* Answers from a variant of a flag are well formed.
LEMMA VariantWellFormed ==
    ASSUME NEW st \in Configurations, NEW k \in DOMAIN st.flags,
           NEW variant, NEW reason \in Answering, NEW set
    PROVE  WellFormed(VariantResult(st.flags[k], variant, reason, set))
<1> DEFINE flag == st.flags[k]
<1>1. CASE variant \in DOMAIN flag.variants
  <2>1. flag.variants[variant] \in Values
    BY <1>1, EvaluatorAssumption
  <2>2. VariantResult(flag, variant, reason, set)
          = Result(reason, flag.variants[variant], variant, "", Merge(set, flag.metadata))
    BY <1>1 DEF VariantResult
  <2> HIDE DEF flag
  <2>3. reason \notin PassedOn
    BY DEF PassedOn, Answering
  <2>4. WellFormed(Result(reason, flag.variants[variant], variant, "", Merge(set, flag.metadata)))
    BY <2>1, <2>3 DEF WellFormed
  <2> QED
    BY <2>2, <2>4 DEF flag
<1>2. CASE variant \notin DOMAIN flag.variants
  <2>1. VariantResult(flag, variant, reason, set) = ErrorResult("GENERAL")
    BY <1>2 DEF VariantResult
  <2> QED
    BY <2>1, ErrorsWellFormed
<1> QED
  BY <1>1, <1>2

\* So are answers from the default variant.
LEMMA DefaultWellFormed ==
    ASSUME NEW st \in Configurations, NEW k \in DOMAIN st.flags,
           NEW reason \in Answering, NEW set
    PROVE  WellFormed(DefaultResult(st.flags[k], reason, set))
BY VariantWellFormed, ErrorsWellFormed DEF DefaultResult

\* Every answer of evaluate_flag is well formed.
LEMMA EvaluationWellFormed ==
    ASSUME NEW st \in Configurations \cup {NoState}, NEW k, NEW c, NEW enrich
    PROVE  WellFormed(EvaluateFlag(st, k, c, enrich))
<1>1. CASE st = NoState
  BY <1>1, ErrorsWellFormed DEF EvaluateFlag
<1>2. CASE st # NoState /\ k \notin DOMAIN st.flags
  BY <1>2, ErrorsWellFormed DEF EvaluateFlag
<1>3. CASE st # NoState /\ k \in DOMAIN st.flags
  <2> DEFINE flag == st.flags[k]
             ctx == IF enrich THEN EnrichContext(k, c) ELSE AsObject(c)
  <2>1. EvaluateFlag(st, k, c, enrich) = EvaluateCore(flag, k, c, enrich, st.metadata)
    BY <1>3 DEF EvaluateFlag
  <2>2. WellFormed(DefaultResult(flag, "STATIC", st.metadata))
        /\ WellFormed(DefaultResult(flag, "DEFAULT", st.metadata))
    BY <1>3, DefaultWellFormed DEF Answering
  <2>3. WellFormed(TargetingResult(flag, ctx, st.metadata))
    <3> DEFINE variant == Outcome(flag.targeting, ctx)
    <3>1. WellFormed(VariantResult(flag, variant, "TARGETING_MATCH", st.metadata))
      BY <1>3, VariantWellFormed DEF Answering
    <3> HIDE DEF ctx, flag
    <3> QED
      BY <2>2, <3>1, ErrorsWellFormed DEF TargetingResult
  <2> HIDE DEF flag
  <2>4. WellFormed(EvaluateCore(flag, k, c, enrich, st.metadata))
    BY <2>2, <2>3, ErrorsWellFormed DEF EvaluateCore
  <2> QED
    BY <2>1, <2>4
<1> QED
  BY <1>1, <1>2, <1>3

\* f as i64: the integer next to a number on the side of zero, or the nearest bound.
LEMMA CastToInteger ==
    ASSUME NEW half \in Int
    PROVE  LET n == 2 * Saturate(Truncate(half))
               range == -2 * IntMax - 2 .. 2 * IntMax
           IN  /\ n \in range
               /\ half \in range => n - half \in -1 .. 1
               /\ half \notin range => n \in {-2 * IntMax - 2, 2 * IntMax}
<1>1. IntMax \in Nat
  BY EvaluatorAssumption
<1>2. CASE half >= 0
  <2>1. Truncate(half) = half \div 2
    BY <1>2 DEF Truncate
  <2>2. half \div 2 \in Nat /\ (half = 2 * (half \div 2) \/ half = 2 * (half \div 2) + 1)
    BY <1>2
  <2> QED
    BY <1>1, <1>2, <2>1, <2>2 DEF Saturate
<1>3. CASE half < 0
  <2> DEFINE m == -half
  <2>1. Truncate(half) = -(m \div 2)
    BY <1>3 DEF Truncate
  <2>2. m \in Nat /\ half = -m
    BY <1>3
  <2>3. m \div 2 \in Nat /\ (m = 2 * (m \div 2) \/ m = 2 * (m \div 2) + 1)
    BY <2>2
  <2> QED
    BY <1>1, <1>3, <2>1, <2>2, <2>3 DEF Saturate
<1> QED
  BY <1>2, <1>3

\* The type check turns a well-formed answer into what a typed evaluation promises.
LEMMA TypedIsRight ==
    ASSUME NEW plain, WellFormed(plain),
           NEW t \in {"boolean", "string", "integer", "float", "object"}
    PROVE  AnswersAs(t, ApplyTypeCheck(plain, t), plain)
<1>0. PICK reason \in PassedOn \cup Answering, value \in Values :
         \E variant, code, metadata :
            /\ plain = Result(reason, value, variant, code, metadata)
            /\ reason \in PassedOn => value = Null /\ code # ""
            /\ reason \in Answering => code = ""
  BY DEF WellFormed
<1>1. PICK variant, code, metadata :
        /\ plain = Result(reason, value, variant, code, metadata)
        /\ reason \in PassedOn => value = Null /\ code # ""
        /\ reason \in Answering => code = ""
  BY <1>0
<1>2. /\ plain = [reason |-> reason, value |-> value, variant |-> variant,
                  errorCode |-> code, metadata |-> metadata]
      /\ plain.reason = reason /\ plain.value = value /\ plain.variant = variant
      /\ plain.errorCode = code
  BY <1>1 DEF Result
<1>3. CASE reason \in PassedOn
  <2>1. ApplyTypeCheck(plain, t) = plain
    BY <1>2, <1>3 DEF ApplyTypeCheck, PassedOn
  <2>2. code # "" /\ value = Null
    BY <1>1, <1>3
  <2> QED
    BY <1>2, <2>1, <2>2 DEF AnswersAs
<1>4. CASE reason \in Answering
  <2>1. code = "" /\ reason \notin PassedOn
    BY <1>1, <1>4 DEF PassedOn, Answering
  <2>2. CASE t = "integer" /\ value.type = "float"
    <3>1. ApplyTypeCheck(plain, t) = [plain EXCEPT !.value = ToInteger(@)]
      BY <1>2, <1>4, <2>1, <2>2 DEF ApplyTypeCheck, PassedOn, Answering
    <3>2. /\ ApplyTypeCheck(plain, t).value = ToInteger(value)
          /\ ApplyTypeCheck(plain, t).errorCode = ""
          /\ ApplyTypeCheck(plain, t).variant = variant
      BY <1>2, <2>1, <3>1
    <3>3. /\ ToInteger(value).type = "integer"
          /\ ToInteger(value).half = 2 * Saturate(Truncate(value.half))
      BY DEF ToInteger
    <3>4. value.half \in Int
      BY DEF Values
    <3> QED
      BY <1>2, <2>2, <3>2, <3>3, <3>4, CastToInteger DEF AnswersAs
  <2>3. CASE t = "float" /\ value.type = "integer"
    <3>1. ApplyTypeCheck(plain, t) = [plain EXCEPT !.value = ToFloat(@)]
      BY <1>2, <1>4, <2>1, <2>3 DEF ApplyTypeCheck, PassedOn, Answering
    <3>2. /\ ApplyTypeCheck(plain, t).value = ToFloat(value)
          /\ ApplyTypeCheck(plain, t).errorCode = ""
          /\ ApplyTypeCheck(plain, t).variant = variant
      BY <1>2, <2>1, <3>1
    <3>3. ToFloat(value).type = "float"
      BY DEF ToFloat, Values
    <3> QED
      BY <1>2, <2>3, <3>2, <3>3 DEF AnswersAs
  <2>4. CASE value.type = t
    <3>1. t # "float" \/ value.type # "integer"
      BY <2>4
    <3>2. ApplyTypeCheck(plain, t) = plain
      BY <1>2, <1>4, <2>1, <2>4 DEF ApplyTypeCheck, PassedOn, Answering
    <3> QED
      BY <1>2, <2>1, <2>4, <3>2 DEF AnswersAs
  <2>5. CASE /\ value.type # t /\ ~(t = "integer" /\ value.type = "float")
             /\ ~(t = "float" /\ value.type = "integer")
    <3>1. ApplyTypeCheck(plain, t) = ErrorResult("TYPE_MISMATCH")
      BY <1>2, <1>4, <2>1, <2>5 DEF ApplyTypeCheck, PassedOn, Answering
    <3>2. /\ ErrorResult("TYPE_MISMATCH").errorCode = "TYPE_MISMATCH"
          /\ ErrorResult("TYPE_MISMATCH").value = Null
      BY DEF ErrorResult, Result
    <3>3. "TYPE_MISMATCH" # ""
      OBVIOUS
    <3> QED
      BY <3>1, <3>2, <3>3 DEF AnswersAs
  <2> QED
    BY <2>2, <2>3, <2>4, <2>5
<1> QED
  BY <1>3, <1>4

\* For every configuration, context and width of integers, a typed evaluation
\* answers with an error or with a value of the type asked for, and the cast of a
\* float to an integer truncates towards zero and saturates.
THEOREM TypedAnswersAreTyped == Spec => []TypedAnswers
<1>1. TypeOK => TypedAnswers
  <2>1. TypeOK => \A k, c : WellFormed(EvaluateFlag(state, k, c, TRUE))
    BY EvaluationWellFormed DEF TypeOK
  <2> QED
    BY <2>1, TypedIsRight DEF EvaluateTyped, TypedAnswers
<1> QED
  BY <1>1, EvaluatorTypeCorrect, PTL

-----------------------------------------------------------------------------
(***************************************************************************)
(* What the pools of FlagConfig stand for: a configuration of FlagConfig   *)
(* is one of this evaluator, and the fields a rule reads are the fewest    *)
(* that decide its outcome.                                                *)
(***************************************************************************)

\* A context without the other fields.
Trim(c, fields) == [c EXCEPT !.fields = @ \cap fields]

Decide(fields, r) == \A c \in Contexts : Outcome(r, c) = Outcome(r, Trim(c, fields))

ReadBy(r) ==
    CHOOSE fields \in SUBSET Attrs :
        /\ Decide(fields, r)
        /\ \A other \in SUBSET Attrs : Decide(other, r) => fields \subseteq other

NeedsNoContext(flag) == flag.state = "DISABLED" \/ IsStatic(flag)

KindOf ==
    [st \in Configurations |-> [k \in FlagKeys |->
        IF k \notin DOMAIN st.flags THEN "absent"
        ELSE IF NeedsNoContext(st.flags[k]) THEN "static" ELSE "targeting"]]

ReadsOf ==
    [st \in Configurations |-> [k \in FlagKeys |->
        IF k \in DOMAIN st.flags THEN ReadBy(st.flags[k].targeting) ELSE {}]]

ExtractedOf == [st \in Configurations |-> DOMAIN RequiredContextKeys(st)]

KeysOf ==
    [st \in Configurations |-> [k \in FlagKeys |->
        IF k \in DOMAIN RequiredContextKeys(st) THEN RequiredContextKeys(st)[k] ELSE {}]]

Pool == INSTANCE FlagConfig
            WITH Configs <- Configurations, NoConfig <- NoState, Flags <- FlagKeys,
                 Kind <- KindOf, Reads <- ReadsOf, Extracted <- ExtractedOf, Keys <- KeysOf

\* What is left of a context.
LEMMA TrimIs ==
    ASSUME NEW c \in Contexts, NEW S
    PROVE  Trim(c, S) = [fields |-> c.fields \cap S, targetingKey |-> c.targetingKey,
                         flagd |-> c.flagd]
<1>1. c = [fields |-> c.fields, targetingKey |-> c.targetingKey, flagd |-> c.flagd]
  BY DEF Contexts
<1> QED
  BY <1>1 DEF Trim

LEMMA TrimFacts ==
    ASSUME NEW c \in Contexts
    PROVE  /\ \A S : Trim(c, S) \in Contexts
           /\ \A S : Trim(c, S).fields = c.fields \cap S
           /\ Trim(c, Attrs) = c
           /\ \A S, T : Trim(Trim(c, S), T) = Trim(c, S \cap T)
<1>1. /\ c = [fields |-> c.fields, targetingKey |-> c.targetingKey, flagd |-> c.flagd]
      /\ c.fields \in SUBSET Attrs /\ c.targetingKey \in {"absent", "given", "empty"}
      /\ c.flagd \in FlagKeys \cup {0}
  BY DEF Contexts
<1>2. \A S : Trim(c, S) = [fields |-> c.fields \cap S, targetingKey |-> c.targetingKey,
                           flagd |-> c.flagd]
  BY TrimIs
<1>3. \A S : Trim(c, S) \in Contexts /\ Trim(c, S).fields = c.fields \cap S
  BY <1>1, <1>2 DEF Contexts
<1>4. c.fields \cap Attrs = c.fields
  BY <1>1
<1>5. Trim(c, Attrs) = c
  BY <1>1, <1>2, <1>4
<1>6. ASSUME NEW S, NEW T PROVE Trim(Trim(c, S), T) = Trim(c, S \cap T)
  <2> DEFINE cut == [fields |-> c.fields \cap S, targetingKey |-> c.targetingKey,
                     flagd |-> c.flagd]
  <2>1. Trim(cut, T) = [fields |-> (c.fields \cap S) \cap T,
                        targetingKey |-> c.targetingKey, flagd |-> c.flagd]
    BY DEF Trim
  <2>3. Trim(c, S) = cut
    BY <1>2
  <2>2. (c.fields \cap S) \cap T = c.fields \cap (S \cap T)
    OBVIOUS
  <2> HIDE DEF cut
  <2> QED
    BY <1>2, <2>1, <2>2, <2>3
<1> QED
  BY <1>3, <1>5, <1>6

\* The sets that decide an outcome are closed under intersection, so that the
\* smallest of them is in all the others.
LEMMA ReadsDecide ==
    ASSUME IsFiniteSet(Attrs), NEW r
    PROVE  /\ ReadBy(r) \in SUBSET Attrs
           /\ Decide(ReadBy(r), r)
           /\ \A other \in SUBSET Attrs : Decide(other, r) => ReadBy(r) \subseteq other
<1> DEFINE D == {S \in SUBSET Attrs : Decide(S, r)}
           sizes == {Cardinality(S) : S \in D}
<1>1. Attrs \in D
  BY TrimFacts DEF Decide
<1>2. ASSUME NEW S \in D, NEW T \in D PROVE S \cap T \in D
  <2>1. ASSUME NEW c \in Contexts PROVE Outcome(r, c) = Outcome(r, Trim(c, S \cap T))
    <3>1. Trim(c, S) \in Contexts /\ Trim(Trim(c, S), T) = Trim(c, S \cap T)
      BY TrimFacts
    <3>2. Outcome(r, c) = Outcome(r, Trim(c, S))
      BY DEF Decide
    <3>3. Outcome(r, Trim(c, S)) = Outcome(r, Trim(Trim(c, S), T))
      BY <3>1 DEF Decide
    <3> QED
      BY <3>1, <3>2, <3>3
  <2> QED
    BY <2>1 DEF Decide
<1>3. \A S \in D : IsFiniteSet(S) /\ Cardinality(S) \in Nat
  BY FS_Subset, FS_CardinalityType
<1> HIDE DEF D
<1>4. sizes \in SUBSET Nat /\ sizes # {}
  BY <1>1, <1>3
<1> HIDE DEF sizes
<1>5. PICK n \in sizes : \A m \in sizes : <<m, n>> \notin OpToRel(<, Nat)
  BY ONLY <1>4, NatLessThanWellFounded, WFMin, Zenon
<1>6. \A m \in sizes : ~(m < n)
  BY <1>4, <1>5 DEF OpToRel
<1>7. PICK S \in D : Cardinality(S) = n
  BY DEF sizes
<1>8. ASSUME NEW T \in D PROVE S \subseteq T
  <2>1. S \cap T \in D /\ S \cap T \subseteq S
    BY <1>2
  <2>2. ~(Cardinality(S \cap T) < Cardinality(S))
    BY <1>6, <1>7, <2>1 DEF sizes
  <2>3. /\ Cardinality(S \cap T) <= Cardinality(S)
        /\ Cardinality(S \cap T) = Cardinality(S) => S \cap T = S
    BY <1>3, <2>1, FS_Subset
  <2>4. Cardinality(S \cap T) \in Nat /\ Cardinality(S) \in Nat
    BY <1>3, <2>1
  <2>5. S \cap T = S
    BY <2>2, <2>3, <2>4
  <2> QED
    BY <2>5
<1>9. /\ S \in SUBSET Attrs /\ Decide(S, r)
      /\ \A other \in SUBSET Attrs : Decide(other, r) => S \subseteq other
  BY <1>7, <1>8 DEF D
<1> QED
  BY <1>9, Zenon DEF ReadBy

\* What the pools assume of configurations holds for those the evaluator accepts:
\* the keys extracted from a rule cover what the rule reads.
THEOREM ConfigurationsFitThePools ==
    ASSUME IsFiniteSet(Attrs)
    PROVE  /\ NoState \notin Configurations
           /\ FlagKeys \subseteq Nat /\ IsFiniteSet(FlagKeys)
           /\ KindOf \in [Configurations -> [FlagKeys -> {"absent", "static", "targeting"}]]
           /\ ReadsOf \in [Configurations -> [FlagKeys -> SUBSET Attrs]]
           /\ ExtractedOf \in [Configurations -> SUBSET FlagKeys]
           /\ KeysOf \in [Configurations -> [FlagKeys -> SUBSET Attrs]]
           /\ \A st \in Configurations : \A k \in ExtractedOf[st] :
                 KindOf[st][k] # "absent" /\ ReadsOf[st][k] \subseteq KeysOf[st][k]
<1>1. /\ NoState \notin Configurations /\ FlagKeys \subseteq Nat /\ IsFiniteSet(FlagKeys)
      /\ \A st \in Configurations : DOMAIN st.flags \subseteq FlagKeys
  BY EvaluatorAssumption
<1>2. ASSUME NEW st \in Configurations, NEW k \in DOMAIN RequiredContextKeys(st)
      PROVE  /\ k \in DOMAIN st.flags /\ k \in FlagKeys
             /\ st.flags[k].targeting \in Extracted
             /\ RequiredContextKeys(st)[k] = RequiredKeys[st.flags[k].targeting]
             /\ RequiredContextKeys(st)[k] \in SUBSET Attrs
  BY <1>1, EvaluatorAssumption DEF RequiredContextKeys
<1>3. KindOf \in [Configurations -> [FlagKeys -> {"absent", "static", "targeting"}]]
  BY DEF KindOf
<1>4. ReadsOf \in [Configurations -> [FlagKeys -> SUBSET Attrs]]
  BY ReadsDecide DEF ReadsOf
<1>5. ExtractedOf \in [Configurations -> SUBSET FlagKeys]
  BY <1>2 DEF ExtractedOf
<1>6. KeysOf \in [Configurations -> [FlagKeys -> SUBSET Attrs]]
  BY <1>2 DEF KeysOf
<1>7. ASSUME NEW st \in Configurations, NEW k \in ExtractedOf[st]
      PROVE  KindOf[st][k] # "absent" /\ ReadsOf[st][k] \subseteq KeysOf[st][k]
  <2> DEFINE rule == st.flags[k].targeting
  <2>1. k \in DOMAIN RequiredContextKeys(st)
    BY DEF ExtractedOf
  <2>2. /\ k \in DOMAIN st.flags /\ k \in FlagKeys /\ rule \in Extracted
        /\ KeysOf[st][k] = RequiredKeys[rule] /\ RequiredKeys[rule] \in SUBSET Attrs
    BY <1>2, <2>1 DEF KeysOf
  <2>3. Decide(RequiredKeys[rule], rule)
    BY <2>2, ExtractionAssumption DEF Decide, Trim
  <2>4. ReadsOf[st][k] = ReadBy(rule)
    BY <2>2 DEF ReadsOf
  <2>5. KindOf[st][k] # "absent"
    BY <2>2 DEF KindOf
  <2> HIDE DEF rule
  <2> QED
    BY <2>2, <2>3, <2>4, <2>5, ReadsDecide
<1> QED
  BY <1>1, <1>3, <1>4, <1>5, <1>6, <1>7

\* What the pools read off a configuration is what update_state hands out: its
\* flags, those it evaluates beforehand, those with required keys, the indices.
THEOREM HandedOutIsWhatPoolsCache ==
    ASSUME NEW st \in Configurations
    PROVE  /\ Pool!FlagsOf(st) = DOMAIN st.flags
           /\ Pool!PreEvaluated(st) = DOMAIN PreEvaluateStaticFlags(st)
           /\ Pool!RequiredKeyFlags(st) = DOMAIN RequiredContextKeys(st)
           /\ \A k \in DOMAIN st.flags :
                 Pool!FlagIndex(st, k) = FlagIndices(DOMAIN st.flags)[k]
<1>1. st # NoState /\ DOMAIN st.flags \subseteq FlagKeys
  BY EvaluatorAssumption
<1>2. \A k \in FlagKeys :
         /\ KindOf[st][k] # "absent" <=> k \in DOMAIN st.flags
         /\ KindOf[st][k] = "static"
               <=> k \in DOMAIN st.flags /\ NeedsNoContext(st.flags[k])
  BY DEF KindOf
<1>3. Pool!FlagsOf(st) = DOMAIN st.flags
  BY <1>1, <1>2 DEF Pool!FlagsOf
<1>4. DOMAIN PreEvaluateStaticFlags(st) = {k \in DOMAIN st.flags : NeedsNoContext(st.flags[k])}
  BY DEF PreEvaluateStaticFlags, NeedsNoContext
<1>5. Pool!PreEvaluated(st) = DOMAIN PreEvaluateStaticFlags(st)
  BY <1>1, <1>2, <1>4 DEF Pool!PreEvaluated
<1>6. DOMAIN RequiredContextKeys(st) \subseteq DOMAIN st.flags
  BY DEF RequiredContextKeys
<1>7. Pool!RequiredKeyFlags(st) = DOMAIN RequiredContextKeys(st)
  BY <1>1, <1>6 DEF Pool!RequiredKeyFlags, ExtractedOf
<1>8. \A k \in DOMAIN st.flags : Pool!FlagIndex(st, k) = FlagIndices(DOMAIN st.flags)[k]
  <2>1. \A S : Pool!Cardinality(S) = Cardinality(S)
    BY DEF Pool!Cardinality, Cardinality
  <2>2. \A k \in DOMAIN st.flags :
           Pool!FlagIndex(st, k) = Cardinality({g \in DOMAIN st.flags : g < k})
    BY <1>3, <2>1 DEF Pool!FlagIndex
  <2> QED
    BY <2>2 DEF FlagIndices
<1> QED
  BY <1>3, <1>5, <1>7, <1>8

\* A rule cannot tell apart contexts that differ in fields it does not read.
LEMMA SameReadsSameOutcome ==
    ASSUME IsFiniteSet(Attrs), NEW r, NEW c \in Contexts, NEW d \in Contexts,
           c.targetingKey = d.targetingKey, c.flagd = d.flagd,
           c.fields \cap ReadBy(r) = d.fields \cap ReadBy(r)
    PROVE  Outcome(r, c) = Outcome(r, d)
<1> DEFINE fields == ReadBy(r)
<1>1. /\ Outcome(r, c) = Outcome(r, Trim(c, fields))
      /\ Outcome(r, d) = Outcome(r, Trim(d, fields))
  BY ReadsDecide DEF Decide
<1> HIDE DEF fields
<1>2. /\ Trim(c, fields) = [fields |-> c.fields \cap fields,
                            targetingKey |-> c.targetingKey, flagd |-> c.flagd]
      /\ Trim(d, fields) = [fields |-> d.fields \cap fields,
                            targetingKey |-> d.targetingKey, flagd |-> d.flagd]
  BY TrimIs
<1>3. Trim(c, fields) = Trim(d, fields)
  BY <1>2 DEF fields
<1> QED
  BY <1>1, <1>3

LEMMA EnrichFacts ==
    ASSUME NEW c \in Contexts, NEW k \in FlagKeys
    PROVE  /\ EnrichContext(k, c) \in Contexts
           /\ EnrichContext(k, c).fields = c.fields
           /\ EnrichContext(k, c).flagd = k
           /\ EnrichContext(k, c).targetingKey
                 = IF c.targetingKey = "absent" THEN "empty" ELSE c.targetingKey
<1>1. c # NoContext
  BY EvaluatorAssumption
<1> QED
  BY <1>1 DEF EnrichContext, AsObject, Contexts

\* What a rule sees of two contexts decides whether it tells them apart.
LEMMA SameSeenSameOutcome ==
    ASSUME IsFiniteSet(Attrs), NEW st \in Configurations, NEW k \in DOMAIN st.flags,
           ~ NeedsNoContext(st.flags[k]),
           NEW c \in Contexts, NEW d \in Contexts,
           c.targetingKey = d.targetingKey, c.flagd = d.flagd,
           Pool!SeenFields(st, k, c.fields) = Pool!SeenFields(st, k, d.fields)
    PROVE  Outcome(st.flags[k].targeting, c) = Outcome(st.flags[k].targeting, d)
<1> DEFINE rule == st.flags[k].targeting
<1>1. k \in FlagKeys
  BY EvaluatorAssumption
<1>2. KindOf[st][k] = "targeting" /\ ReadsOf[st][k] = ReadBy(rule)
  BY <1>1 DEF KindOf, ReadsOf
<1>3. \A S : Pool!SeenFields(st, k, S) = S \cap ReadBy(rule)
  BY <1>2 DEF Pool!SeenFields
<1>4. c.fields \cap ReadBy(rule) = d.fields \cap ReadBy(rule)
  BY <1>3
<1> HIDE DEF rule
<1>5. Outcome(rule, c) = Outcome(rule, d)
  BY <1>4, SameReadsSameOutcome
<1> QED
  BY <1>5 DEF rule

\* A well-formed context reaches the evaluation, except that a flag without a rule
\* is evaluated on no context at all.
LEMMA ExportIsCore ==
    ASSUME NEW st \in Configurations, NEW k \in DOMAIN st.flags, NEW c \in Contexts
    PROVE  ExportEvaluate(st, k, c) = EvaluateCore(st.flags[k], k, c, TRUE, st.metadata)
<1>1. st # NoState /\ c # BadContext
  BY EvaluatorAssumption
<1>2. \A d : EvaluateFlag(st, k, d, TRUE) = EvaluateCore(st.flags[k], k, d, TRUE, st.metadata)
  BY <1>1 DEF EvaluateFlag
<1>3. CASE st.flags[k].targeting = NoRule
  <2>1. IsStatic(st.flags[k])
    BY <1>3 DEF IsStatic
  <2>2. EvaluateCore(st.flags[k], k, NoContext, TRUE, st.metadata)
           = EvaluateCore(st.flags[k], k, c, TRUE, st.metadata)
    BY <2>1, StaticIgnoresContext
  <2> QED
    BY <1>1, <1>2, <1>3, <2>2 DEF ExportEvaluate
<1>4. CASE st.flags[k].targeting # NoRule
  BY <1>1, <1>2, <1>4 DEF ExportEvaluate
<1> QED
  BY <1>3, <1>4

LEMMA SameSeenSameResult ==
    ASSUME IsFiniteSet(Attrs), NEW st \in Configurations, NEW k \in DOMAIN st.flags,
           NEW c \in Contexts, NEW d \in Contexts, c.targetingKey = d.targetingKey,
           Pool!SeenFields(st, k, c.fields) = Pool!SeenFields(st, k, d.fields)
    PROVE  ExportEvaluate(st, k, c) = ExportEvaluate(st, k, d)
<1> DEFINE flag == st.flags[k]
<1>1. /\ ExportEvaluate(st, k, c) = EvaluateCore(flag, k, c, TRUE, st.metadata)
      /\ ExportEvaluate(st, k, d) = EvaluateCore(flag, k, d, TRUE, st.metadata)
  BY ExportIsCore
<1>2. CASE NeedsNoContext(flag)
  <2>1. flag.state = "DISABLED" \/ IsStatic(flag)
    BY <1>2 DEF NeedsNoContext
  <2> HIDE DEF flag
  <2>2. EvaluateCore(flag, k, c, TRUE, st.metadata) = EvaluateCore(flag, k, d, TRUE, st.metadata)
    BY <2>1, Zenon DEF EvaluateCore
  <2> QED
    BY <1>1, <2>2
<1>3. CASE ~ NeedsNoContext(flag)
  <2> DEFINE e == EnrichContext(k, c)
             f == EnrichContext(k, d)
  <2>1. k \in FlagKeys
    BY EvaluatorAssumption
  <2>2. /\ e \in Contexts /\ e.fields = c.fields /\ e.flagd = k
        /\ f \in Contexts /\ f.fields = d.fields /\ f.flagd = k
        /\ e.targetingKey = f.targetingKey
    BY <2>1, EnrichFacts
  <2> HIDE DEF e, f
  <2>3. Outcome(flag.targeting, e) = Outcome(flag.targeting, f)
    BY <1>3, <2>2, SameSeenSameOutcome
  <2>4. TargetingResult(flag, e, st.metadata) = TargetingResult(flag, f, st.metadata)
    BY <2>3 DEF TargetingResult
  <2> QED
    BY <1>1, <1>3, <2>4 DEF EvaluateCore, NeedsNoContext, e, f
<1> QED
  BY <1>2, <1>3

LEMMA ValueInjective ==
    ASSUME NEW s, NEW k, NEW S, NEW t, NEW l, NEW T, Pool!Value(s, k, S) = Pool!Value(t, l, T)
    PROVE  s = t /\ k = l /\ S = T
BY DEF Pool!Value

\* Two answers of the pools that name the same configuration and flag and the
\* same fields seen stand for one and the same result of evaluate; the answer
\* that a flag was not found stands for results that say so.
THEOREM SameProvenanceSameAnswer ==
    ASSUME IsFiniteSet(Attrs),
           NEW st \in Configurations \cup {NoState}, NEW k \in FlagKeys, NEW c \in Contexts,
           NEW st2 \in Configurations \cup {NoState}, NEW k2 \in FlagKeys, NEW d \in Contexts,
           c.targetingKey = d.targetingKey,
           Pool!Evaluate(st, k, c.fields) = Pool!Evaluate(st2, k2, d.fields)
    PROVE  \/ /\ ExportEvaluate(st, k, c) = ExportEvaluate(st2, k2, d)
              /\ Pool!Evaluate(st, k, c.fields) # Pool!NotFound
           \/ /\ ExportEvaluate(st, k, c).errorCode = "FLAG_NOT_FOUND"
              /\ ExportEvaluate(st2, k2, d).errorCode = "FLAG_NOT_FOUND"
              /\ Pool!Evaluate(st, k, c.fields) = Pool!NotFound
<1>1. c # BadContext /\ d # BadContext
  BY EvaluatorAssumption
<1>2. Pool!FlagsOf(NoState) = {}
  BY DEF Pool!FlagsOf
<1>3. \A s \in Configurations : s # NoState /\ Pool!FlagsOf(s) = DOMAIN s.flags
  BY EvaluatorAssumption, HandedOutIsWhatPoolsCache
<1>4. ASSUME NEW s \in Configurations \cup {NoState}, NEW l \in FlagKeys, NEW e \in Contexts,
             l \notin Pool!FlagsOf(s)
      PROVE  ExportEvaluate(s, l, e).errorCode = "FLAG_NOT_FOUND"
  <2>1. e # BadContext
    BY EvaluatorAssumption
  <2>2. CASE s = NoState
    BY <2>2 DEF ExportEvaluate, ErrorResult, Result
  <2>3. CASE s \in Configurations
    <3>1. s # NoState /\ l \notin DOMAIN s.flags
      BY <1>3, <1>4, <2>3
    <3> QED
      BY <2>1, <3>1 DEF ExportEvaluate, EvaluateFlag, Result
  <2> QED
    BY <2>2, <2>3
<1>5. CASE k \notin Pool!FlagsOf(st)
  <2>1. Pool!Evaluate(st, k, c.fields) = Pool!NotFound
    BY <1>5 DEF Pool!Evaluate
  <2>2. k2 \notin Pool!FlagsOf(st2)
    BY <2>1 DEF Pool!Evaluate, Pool!NotFound, Pool!Value
  <2> QED
    BY <1>4, <1>5, <2>1, <2>2
<1>6. CASE k \in Pool!FlagsOf(st)
  <2>1. Pool!Evaluate(st, k, c.fields) = Pool!Value(st, k, Pool!SeenFields(st, k, c.fields))
    BY <1>6 DEF Pool!Evaluate
  <2>2. k2 \in Pool!FlagsOf(st2)
    BY <2>1 DEF Pool!Evaluate, Pool!NotFound, Pool!Value
  <2>3. Pool!Evaluate(st2, k2, d.fields)
           = Pool!Value(st2, k2, Pool!SeenFields(st2, k2, d.fields))
    BY <2>2 DEF Pool!Evaluate
  <2>4. /\ st = st2 /\ k = k2
        /\ Pool!SeenFields(st, k, c.fields) = Pool!SeenFields(st, k, d.fields)
    <3>1. Pool!Value(st, k, Pool!SeenFields(st, k, c.fields))
             = Pool!Value(st2, k2, Pool!SeenFields(st2, k2, d.fields))
      BY <2>1, <2>3
    <3>2. /\ st = st2 /\ k = k2
          /\ Pool!SeenFields(st, k, c.fields) = Pool!SeenFields(st2, k2, d.fields)
      BY <3>1, ValueInjective
    <3> QED
      BY <3>2
  <2>5. st \in Configurations /\ st # NoState /\ k \in DOMAIN st.flags
    BY <1>2, <1>3, <1>6
  <2>6. ExportEvaluate(st, k, c) = ExportEvaluate(st, k, d)
    BY <1>1, <2>4, <2>5, SameSeenSameResult
  <2>7. Pool!Evaluate(st, k, c.fields) # Pool!NotFound
    BY <2>1 DEF Pool!Value, Pool!NotFound
  <2> QED
    BY <2>4, <2>6, <2>7
<1> QED
  BY <1>5, <1>6

\* An index and a filtered context that the pools take for the flag and the whole
\* context give what evaluate gives on these.
THEOREM SameProvenanceByIndex ==
    ASSUME IsFiniteSet(Attrs), NEW st \in Configurations, NEW k \in DOMAIN st.flags,
           NEW c \in Contexts, NEW keys \in SUBSET Attrs, NEW i \in Nat,
           Pool!EvaluateByIndex(st, i, c.fields \cap keys) = Pool!Evaluate(st, k, c.fields)
    PROVE  ExportEvaluateByIndex(st, IndexToKey(DOMAIN st.flags), i, FilterContext(k, c, keys))
              = ExportEvaluate(st, k, c)
<1> DEFINE flag == st.flags[k]
           sent == FilterContext(k, c, keys)
           whole == EnrichContext(k, c)
<1>1. /\ st # NoState /\ k \in FlagKeys /\ k \in Nat \ {0} /\ c # BadContext /\ c # NoContext
      /\ Pool!FlagsOf(st) = DOMAIN st.flags
  BY EvaluatorAssumption, HandedOutIsWhatPoolsCache
<1>2. Pool!Evaluate(st, k, c.fields) = Pool!Value(st, k, Pool!SeenFields(st, k, c.fields))
  BY <1>1 DEF Pool!Evaluate
<1>3. PICK g \in DOMAIN st.flags :
         /\ Pool!FlagIndex(st, g) = i
         /\ Pool!EvaluateByIndex(st, i, c.fields \cap keys)
               = Pool!Evaluate(st, g, c.fields \cap keys)
  <2>1. \E g \in Pool!FlagsOf(st) : Pool!FlagIndex(st, g) = i
    BY <1>2 DEF Pool!EvaluateByIndex, Pool!NotFound, Pool!Value
  <2> DEFINE g == CHOOSE f \in Pool!FlagsOf(st) : Pool!FlagIndex(st, f) = i
  <2>2. g \in Pool!FlagsOf(st) /\ Pool!FlagIndex(st, g) = i
    BY <2>1
  <2>3. Pool!EvaluateByIndex(st, i, c.fields \cap keys)
           = Pool!Evaluate(st, g, c.fields \cap keys)
    BY <2>1 DEF Pool!EvaluateByIndex
  <2> HIDE DEF g
  <2> QED
    BY <1>1, <2>2, <2>3
<1>4. Pool!Evaluate(st, g, c.fields \cap keys)
         = Pool!Value(st, g, Pool!SeenFields(st, g, c.fields \cap keys))
  BY <1>1, <1>3 DEF Pool!Evaluate
<1>5. g = k /\ Pool!SeenFields(st, k, c.fields \cap keys) = Pool!SeenFields(st, k, c.fields)
  <2>1. Pool!Value(st, g, Pool!SeenFields(st, g, c.fields \cap keys))
           = Pool!Value(st, k, Pool!SeenFields(st, k, c.fields))
    BY <1>2, <1>3, <1>4
  <2>2. g = k /\ Pool!SeenFields(st, g, c.fields \cap keys) = Pool!SeenFields(st, k, c.fields)
    BY <2>1, ValueInjective
  <2> QED
    BY <2>2
<1>6. i = FlagIndices(DOMAIN st.flags)[k]
  BY <1>3, <1>5, HandedOutIsWhatPoolsCache
<1>7. i + 1 \in DOMAIN IndexToKey(DOMAIN st.flags) /\ IndexToKey(DOMAIN st.flags)[i + 1] = k
  BY <1>6, KeysFinite, IndexRoundTrip
<1>8. Trim(c, keys) \in Contexts /\ Trim(c, keys).fields = c.fields \cap keys
  BY TrimFacts
<1>9. Trim(c, keys).targetingKey = c.targetingKey
  BY DEF Trim, Contexts
<1>10. sent = EnrichContext(k, Trim(c, keys))
  BY <1>1 DEF FilterContext, Trim
<1>11. /\ sent \in Contexts /\ sent.fields = c.fields \cap keys
       /\ sent.flagd = k /\ sent.targetingKey = whole.targetingKey
       /\ whole \in Contexts /\ whole.fields = c.fields /\ whole.flagd = k
  BY <1>1, <1>8, <1>9, <1>10, EnrichFacts
<1> HIDE DEF sent, whole
<1>12. sent # NoContext /\ sent # BadContext
  BY <1>11, EvaluatorAssumption
<1>13. ExportEvaluateByIndex(st, IndexToKey(DOMAIN st.flags), i, sent)
          = EvaluateCore(flag, k, sent, FALSE, st.metadata)
  BY <1>1, <1>7, <1>11, <1>12
     DEF ExportEvaluateByIndex, EvaluateByIndex, EvaluatePreEnriched, EvaluateFlag, AsObject
<1>14. EvaluateCore(flag, k, sent, FALSE, st.metadata)
          = EvaluateCore(flag, k, c, TRUE, st.metadata)
  <2>1. CASE NeedsNoContext(flag)
    BY <2>1, StaticIgnoresContext DEF NeedsNoContext
  <2>2. CASE ~ NeedsNoContext(flag)
    <3>1. Outcome(flag.targeting, sent) = Outcome(flag.targeting, whole)
      <4>1. Pool!SeenFields(st, k, sent.fields) = Pool!SeenFields(st, k, whole.fields)
        BY <1>5, <1>11
      <4>2. sent.targetingKey = whole.targetingKey /\ sent.flagd = whole.flagd
        BY <1>11
      <4>3. sent \in Contexts /\ whole \in Contexts
        BY <1>11
      <4> QED
        BY ONLY IsFiniteSet(Attrs), st \in Configurations, k \in DOMAIN st.flags, <2>2,
                <4>1, <4>2, <4>3, SameSeenSameOutcome, SMT
    <3>2. TargetingResult(flag, sent, st.metadata) = TargetingResult(flag, whole, st.metadata)
      BY <3>1 DEF TargetingResult
    <3> QED
      BY <1>12, <2>2, <3>2 DEF EvaluateCore, NeedsNoContext, AsObject, whole
  <2> QED
    BY <2>1, <2>2
<1>15. ExportEvaluate(st, k, c) = EvaluateCore(flag, k, c, TRUE, st.metadata)
  BY <1>1, ExportIsCore
<1> QED
  BY <1>13, <1>14, <1>15 DEF sent

=============================================================================
