----------------------------- MODULE Evaluation -----------------------------
(***************************************************************************)
(* The functions of src/evaluator.rs and of the WASM entry points in       *)
(* src/lib.rs: every way to evaluate a flag of a configuration, and what   *)
(* update_state computes for the host.                                     *)
(*                                                                         *)
(* A targeting rule is a name; what it gives on a context is Outcome.  A   *)
(* context is the set of fields it supplies, its targetingKey, and whose   *)
(* $flagd it carries.  $flagd.timestamp is left out.                       *)
(***************************************************************************)
EXTENDS Integers, Sequences, FiniteSets, TLC

CONSTANTS
    FlagKeys,       \* flag keys, numbered in the order sort() puts them
    Documents,      \* what callers pass to update_state
    Verdict,        \* Verdict[d]: how far update_state gets with d
    Parsed,         \* Parsed[d]: what ParsingResult::parse makes of d
    Attrs,          \* context fields other than targetingKey and $flagd
    Extracted,      \* the rules that compile and do not read {"var": ""}
    RequiredKeys,   \* RequiredKeys[r], for r \in Extracted: the fields found in r
    Outcome(_, _),  \* what a rule gives on a context: the name of a variant,
                    \* RuleNull or RuleFails
    InternalKeys,   \* metadata keys that start with $
    IntMax,         \* i64::MAX
    Clients,        \* contexts callers pass, as objects
    NoState, NoRule, EmptyRule, RuleNull, RuleFails,
    NoContext,      \* a null pointer, or length 0
    BadContext      \* bytes that are not a JSON context

\* "unreadable": too large, not UTF-8, or YAML that does not convert.
Verdicts == {"unreadable", "tooDeep", "unparsable", "nonconforming", "conforming"}

Contexts == [fields : SUBSET Attrs, targetingKey : {"absent", "given", "empty"},
             flagd : FlagKeys \cup {0}]

\* The configurations of the documents that parse.
Configurations ==
    {Parsed[d] : d \in {e \in Documents : Verdict[e] \in {"nonconforming", "conforming"}}}

\* Numbers are counted in halves, so that 2.5 is a number.
Values == [type : {"null", "boolean", "string", "integer", "float", "array", "object"},
           half : Int]

ASSUME EvaluatorAssumption ==
    /\ FlagKeys \subseteq Nat \ {0} /\ IsFiniteSet(FlagKeys)
    /\ Verdict \in [Documents -> Verdicts]
    /\ \A st \in Configurations : DOMAIN st.flags \subseteq FlagKeys
    /\ \A st \in Configurations : \A k \in DOMAIN st.flags :
          \A v \in DOMAIN st.flags[k].variants : st.flags[k].variants[v] \in Values
    /\ IntMax \in Nat
    /\ RequiredKeys \in [Extracted -> SUBSET Attrs]
    /\ {NoRule, EmptyRule} \cap Extracted = {}
    /\ NoState \notin Configurations
    /\ Clients \subseteq Contexts
    /\ {NoContext, BadContext} \cap Contexts = {} /\ NoContext # BadContext

\* Such a rule sees nothing of the context beyond the fields found in it.
ASSUME ExtractionAssumption ==
    \A r \in Extracted, c \in Contexts :
        Outcome(r, c) = Outcome(r, [c EXCEPT !.fields = @ \cap RequiredKeys[r]])

-----------------------------------------------------------------------------
(***************************************************************************)
(* Results                                                                 *)
(***************************************************************************)
Null == [type |-> "null", half |-> 0]
NoMetadata == <<>>

Result(reason, value, variant, code, metadata) ==
    [reason |-> reason, value |-> value, variant |-> variant,
     errorCode |-> code, metadata |-> metadata]

ErrorResult(code) == Result("ERROR", Null, "", code, NoMetadata)
Fallback == Result("FALLBACK", Null, "", "FLAG_NOT_FOUND", NoMetadata)

\* The metadata of a result: internal keys of the flag set are hidden, and the
\* flag's own values win.
FlagSetOnly(set) == [k \in DOMAIN set \ InternalKeys |-> set[k]]
Merge(set, own) == own @@ FlagSetOnly(set)

VariantResult(flag, variant, reason, set) ==
    IF variant \in DOMAIN flag.variants
    THEN Result(reason, flag.variants[variant], variant, "",
                Merge(set, flag.metadata))
    ELSE ErrorResult("GENERAL")

\* default "" is a default variant that is missing or empty.
DefaultResult(flag, reason, set) ==
    IF flag.default = "" THEN Fallback
    ELSE VariantResult(flag, flag.default, reason, set)

-----------------------------------------------------------------------------
(***************************************************************************)
(* Evaluation.  It never changes the evaluator.                            *)
(***************************************************************************)
EmptyContext == [fields |-> {}, targetingKey |-> "absent", flagd |-> 0]
AsObject(ctx) == IF ctx = NoContext THEN EmptyContext ELSE ctx

EnrichContext(key, ctx) ==
    [AsObject(ctx) EXCEPT !.flagd = key,
                          !.targetingKey = IF @ = "absent" THEN "empty" ELSE @]

\* A rule that returns the empty string names no variant.
TargetingResult(flag, ctx, set) ==
    LET variant == Outcome(flag.targeting, ctx)
    IN  CASE variant = RuleFails -> ErrorResult("PARSE_ERROR")
          [] variant = RuleNull  -> DefaultResult(flag, "DEFAULT", set)
          [] variant = "" /\ flag.default = "" -> Fallback
          [] variant = "" /\ flag.default # "" -> ErrorResult("GENERAL")
          [] OTHER -> VariantResult(flag, variant, "TARGETING_MATCH", set)

IsStatic(flag) == flag.targeting \in {NoRule, EmptyRule}

EvaluateCore(flag, key, ctx, enrich, set) ==
    CASE flag.state = "DISABLED" ->
            Result("DISABLED", Null, "", "FLAG_NOT_FOUND", Merge(set, flag.metadata))
      [] flag.state # "DISABLED" /\ IsStatic(flag) ->
            DefaultResult(flag, "STATIC", set)
      [] OTHER ->
            TargetingResult(flag, IF enrich THEN EnrichContext(key, ctx)
                                  ELSE AsObject(ctx), set)

EvaluateFlag(st, key, ctx, enrich) ==
    IF st = NoState THEN ErrorResult("GENERAL")
    ELSE IF key \notin DOMAIN st.flags
    THEN Result("FLAG_NOT_FOUND", Null, "", "FLAG_NOT_FOUND", FlagSetOnly(st.metadata))
    ELSE EvaluateCore(st.flags[key], key, ctx, enrich, st.metadata)

EvaluatePreEnriched(st, key, ctx) ==
    EvaluateFlag(st, key, ctx, AsObject(ctx).flagd = 0)

EvaluateByIndex(st, map, index, ctx) ==
    IF index + 1 \in DOMAIN map THEN EvaluatePreEnriched(st, map[index + 1], ctx)
    ELSE ErrorResult("FLAG_NOT_FOUND")

\* evaluate and evaluate_reusable: a flag without targeting needs no context.
ExportEvaluate(st, key, ctx) ==
    IF st = NoState THEN ErrorResult("FLAG_NOT_FOUND")
    ELSE IF key \in DOMAIN st.flags /\ st.flags[key].targeting = NoRule
    THEN EvaluateFlag(st, key, NoContext, TRUE)
    ELSE IF ctx = BadContext THEN ErrorResult("PARSE_ERROR")
    ELSE EvaluateFlag(st, key, ctx, TRUE)

ExportEvaluateByIndex(st, map, index, ctx) ==
    IF st = NoState THEN ErrorResult("FLAG_NOT_FOUND")
    ELSE IF ctx = BadContext THEN ErrorResult("PARSE_ERROR")
    ELSE EvaluateByIndex(st, map, index, ctx)

(***************************************************************************)
(* Typed evaluation: f as i64 truncates towards zero and saturates.        *)
(***************************************************************************)
Truncate(half) == IF half >= 0 THEN half \div 2 ELSE -((-half) \div 2)

\* Mutant of Saturate: a cast that does not saturate.
MutantNoSaturation(n) == n

Saturate(n) == IF n > IntMax THEN IntMax ELSE IF n < -IntMax - 1 THEN -IntMax - 1 ELSE n

ToInteger(v) == [type |-> "integer", half |-> 2 * Saturate(Truncate(v.half))]
ToFloat(v) == [v EXCEPT !.type = "float"]

ApplyTypeCheck(result, expected) ==
    CASE result.reason \in {"ERROR", "FLAG_NOT_FOUND", "FALLBACK", "DISABLED"} ->
            result
      [] result.reason \in {"STATIC", "DEFAULT", "TARGETING_MATCH"} ->
            CASE expected = "integer" /\ result.value.type = "float" ->
                    [result EXCEPT !.value = ToInteger(@)]
              [] expected = "float" /\ result.value.type = "integer" ->
                    [result EXCEPT !.value = ToFloat(@)]
              [] result.value.type = expected -> result
              [] OTHER -> ErrorResult("TYPE_MISMATCH")

EvaluateTyped(st, key, ctx, expected) ==
    ApplyTypeCheck(EvaluateFlag(st, key, ctx, TRUE), expected)

-----------------------------------------------------------------------------
(***************************************************************************)
(* What update_state computes for the host                                 *)
(***************************************************************************)
PreEvaluateStaticFlags(st) ==
    [k \in {j \in DOMAIN st.flags :
              st.flags[j].state = "DISABLED" \/ IsStatic(st.flags[j])} |->
        EvaluateCore(st.flags[k], k, EmptyContext, FALSE, st.metadata)]

\* index_to_key: the keys in sorted order.
IndexToKey(keys) ==
    [i \in 1..Cardinality(keys) |->
        CHOOSE k \in keys : Cardinality({j \in keys : j < k}) = i - 1]

\* Mutant of FlagIndices: counted from 1.
MutantOneBased(keys) == [k \in keys |-> Cardinality({j \in keys : j <= k})]

FlagIndices(keys) == [k \in keys |-> Cardinality({j \in keys : j < k})]

\* Disabled flags have an entry too: only the rule is looked at.
RequiredContextKeys(st) ==
    [k \in {j \in DOMAIN st.flags : st.flags[j].targeting \in Extracted} |->
        RequiredKeys[st.flags[k].targeting]]

\* Mutant of DetectChangedFlags: the metadata of a flag is not compared.
MutantIgnoreMetadata(old, new) ==
    IF old = NoState THEN DOMAIN new.flags
    ELSE {k \in DOMAIN old.flags \cup DOMAIN new.flags :
            ~(/\ k \in DOMAIN old.flags /\ k \in DOMAIN new.flags
              /\ [old.flags[k] EXCEPT !.metadata = <<>>]
                    = [new.flags[k] EXCEPT !.metadata = <<>>])}

DetectChangedFlags(old, new) ==
    IF old = NoState THEN DOMAIN new.flags
    ELSE {k \in DOMAIN old.flags \cup DOMAIN new.flags :
            ~(/\ k \in DOMAIN old.flags /\ k \in DOMAIN new.flags
              /\ old.flags[k] = new.flags[k])}

Response(success, changed, pre, keys, indices, metadata) ==
    [success |-> success, changedFlags |-> changed, preEvaluated |-> pre,
     requiredContextKeys |-> keys, flagIndices |-> indices,
     flagSetMetadata |-> metadata]

NoResponse == Response(FALSE, {}, <<>>, <<>>, <<>>, NoMetadata)

ResponseFor(old, new) ==
    Response(TRUE, DetectChangedFlags(old, new), PreEvaluateStaticFlags(new),
             RequiredContextKeys(new), FlagIndices(DOMAIN new.flags), new.metadata)

\* The context a host sends for a flag with required keys: those fields, a
\* targetingKey and the flag's own $flagd.  An empty context is not sent.
FilterContext(key, ctx, keys) ==
    IF ctx = NoContext THEN NoContext
    ELSE EnrichContext(key, [ctx EXCEPT !.fields = @ \cap keys])

Accepts(mode, d) ==
    \/ Verdict[d] = "conforming"
    \/ Verdict[d] = "nonconforming" /\ mode = "Permissive"

=============================================================================
