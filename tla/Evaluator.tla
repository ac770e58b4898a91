------------------------------ MODULE Evaluator ------------------------------
(***************************************************************************)
(* The FlagEvaluator of src/evaluator.rs as its owner drives it: it loads  *)
(* configurations, changes the validation mode, clears the state, and      *)
(* evaluates flags in between.                                             *)
(***************************************************************************)
EXTENDS Evaluation

VARIABLES
    state,            \* the ParsingResult in force, or NoState
    validation_mode,
    flag_index_map,   \* flag keys by index
    response          \* the last UpdateStateResponse that said success and
                      \* was not cleared since: what a host works from

vars == <<state, validation_mode, flag_index_map, response>>

\* Every index handed out has an entry in flag_index_map.
TypeOK ==
    /\ state \in Configurations \cup {NoState}
    /\ validation_mode \in {"Strict", "Permissive"}
    /\ flag_index_map \in Seq(FlagKeys)
    /\ response.success \in BOOLEAN
    /\ \A k \in DOMAIN response.flagIndices :
          response.flagIndices[k] \in 0 .. Len(flag_index_map) - 1

Init ==
    /\ state = NoState
    /\ validation_mode \in {"Strict", "Permissive"}
    /\ flag_index_map = <<>>
    /\ response = NoResponse

\* Mutant of UpdateState: the index map is only filled once.
MutantKeepIndexMap(d) ==
    /\ Accepts(validation_mode, d)
    /\ state' = Parsed[d]
    /\ flag_index_map' = IF state = NoState
                         THEN IndexToKey(DOMAIN Parsed[d].flags) ELSE flag_index_map
    /\ response' = ResponseFor(state, Parsed[d])
    /\ UNCHANGED validation_mode

UpdateState(d) ==
    /\ Accepts(validation_mode, d)
    /\ state' = Parsed[d]
    /\ flag_index_map' = IndexToKey(DOMAIN Parsed[d].flags)
    /\ response' = ResponseFor(state, Parsed[d])
    /\ UNCHANGED validation_mode

\* A document that is not accepted leaves the evaluator as it is.
UpdateRejected(d) ==
    /\ ~Accepts(validation_mode, d)
    /\ UNCHANGED vars

SetValidationMode(mode) ==
    /\ validation_mode' = mode
    /\ UNCHANGED <<state, flag_index_map, response>>

ClearState ==
    /\ state' = NoState
    /\ flag_index_map' = <<>>
    /\ response' = NoResponse
    /\ UNCHANGED validation_mode

Next ==
    \/ \E d \in Documents : UpdateState(d) \/ UpdateRejected(d)
    \/ \E mode \in {"Strict", "Permissive"} : SetValidationMode(mode)
    \/ ClearState

Spec == Init /\ [][Next]_vars

-----------------------------------------------------------------------------
AnyContext == Clients \cup {NoContext}

\* What a host caches stands for a call into the evaluator.  A pre-evaluated
\* result is what an evaluation would return on any context; the handed-out
\* index with the context filtered to the handed-out keys gives what the flag
\* key with the whole context gives.  Loads that were refused and changes of
\* the validation mode since then do not matter.
HandedOutAgrees ==
    \A k \in FlagKeys, c \in AnyContext :
        /\ k \in DOMAIN response.preEvaluated =>
              response.preEvaluated[k] = ExportEvaluate(state, k, c)
        /\ k \in DOMAIN response.requiredContextKeys =>
              ExportEvaluateByIndex(state, flag_index_map, response.flagIndices[k],
                      FilterContext(k, c, response.requiredContextKeys[k]))
                  = ExportEvaluate(state, k, c)

\* A provider that keeps what it resolved and forgets the flags named in
\* changedFlags never serves a stale result: a flag that is not named answers
\* as before, unless the metadata of the flag set changed.
ChangedFlagsComplete ==
    [][response'.success /\ response' # response =>
          \A k \in FlagKeys \ response'.changedFlags, c \in AnyContext :
              /\ state # NoState
              /\ state.metadata = state'.metadata
              => EvaluateFlag(state', k, c, TRUE) = EvaluateFlag(state, k, c, TRUE)]_vars

\* A typed evaluation answers with no value and an error code, or with a value of
\* the type asked for.  Asked for an integer it answers the flag's own integer,
\* which may be above i64::MAX, or the flag's float as an i64: less than 1 away
\* from it, or the nearest bound when it is out of range.
AnswersAs(t, typed, plain) ==
    LET range == -2 * IntMax - 2 .. 2 * IntMax
    IN  \/ typed.errorCode # "" /\ typed.value = Null
        \/ /\ typed.errorCode = ""
           /\ typed.value.type = t
           /\ typed.variant = plain.variant
           /\ t = "integer" /\ plain.value.type = "integer" =>
                 typed.value = plain.value
           /\ t = "integer" /\ plain.value.type = "float" =>
                 /\ typed.value.half \in range
                 /\ plain.value.half \in range =>
                       typed.value.half - plain.value.half \in -1 .. 1
                 /\ plain.value.half \notin range =>
                       typed.value.half \in {-2 * IntMax - 2, 2 * IntMax}

TypedAnswers ==
    \A k \in FlagKeys, c \in AnyContext,
       t \in {"boolean", "string", "integer", "float", "object"} :
        AnswersAs(t, EvaluateTyped(state, k, c, t), EvaluateFlag(state, k, c, TRUE))

=============================================================================
