----------------------------- MODULE FlagConfig -----------------------------
(***************************************************************************)
(* What one parsed flag configuration tells a host, and how one WASM       *)
(* instance holding it answers an evaluation.  This is the data layer every *)
(* host module is built on: src/evaluator.rs without its state.            *)
(*                                                                         *)
(* A context is the set of the top-level fields it supplies, and an answer  *)
(* records where it came from: the configuration, the flag, and the context *)
(* fields its targeting rule could see.  Two evaluations agree exactly when *)
(* these three do, so a wrong flag, a wrong configuration and a context     *)
(* stripped of a field the rule reads all show up as different answers.     *)
(***************************************************************************)
EXTENDS Naturals, FiniteSets

CONSTANTS
    Configs,    \* configurations update_state accepts
    NoConfig,   \* no configuration: FlagEvaluator.state is None
    Flags,      \* flag keys, numbered in the order sort() puts them
    Attrs,      \* top-level fields of evaluation contexts
    Kind,       \* Kind[c][f]: is f absent from c, static, or targeting
    Reads,      \* Reads[c][f]: context fields the targeting rule of f reads
    Extracted,  \* Extracted[c]: flags with a required_context_keys entry
    Keys        \* Keys[c][f]: that entry, for f \in Extracted[c]

(***************************************************************************)
(* The keys extracted from a rule cover the fields the rule reads.         *)
(***************************************************************************)
ASSUME ConfigAssumption ==
    /\ NoConfig \notin Configs
    /\ Flags \subseteq Nat
    /\ IsFiniteSet(Flags)
    /\ Kind \in [Configs -> [Flags -> {"absent", "static", "targeting"}]]
    /\ Reads \in [Configs -> [Flags -> SUBSET Attrs]]
    /\ Extracted \in [Configs -> SUBSET Flags]
    /\ Keys \in [Configs -> [Flags -> SUBSET Attrs]]
    /\ \A c \in Configs : \A f \in Extracted[c] :
          Kind[c][f] # "absent" /\ Reads[c][f] \subseteq Keys[c][f]

Loadable == Configs \cup {NoConfig}

(***************************************************************************)
(* The flags of a configuration, and the parts of UpdateStateResponse that *)
(* hosts cache.  All three are empty for NoConfig.                         *)
(***************************************************************************)
FlagsOf(c) == {f \in Flags : c # NoConfig /\ Kind[c][f] # "absent"}

\* Disabled flags and flags with no targeting are answered without a context.
PreEvaluated(c) == {f \in Flags : c # NoConfig /\ Kind[c][f] = "static"}

RequiredKeyFlags(c) == {f \in Flags : c # NoConfig /\ f \in Extracted[c]}

\* Every flag gets its rank among the sorted keys as its index.
FlagIndex(c, f) == Cardinality({g \in FlagsOf(c) : g < f})

(***************************************************************************)
(* Evaluation by one instance.                                             *)
(***************************************************************************)
Value(c, f, fields) ==
    [status |-> "value", config |-> c, flag |-> f, fields |-> fields]
NotFound == [status |-> "notFound", config |-> NoConfig, flag |-> 0, fields |-> {}]
Failed   == [status |-> "failed", config |-> NoConfig, flag |-> 0, fields |-> {}]

Answers == [status : {"value", "notFound", "failed"}, config : Loadable,
            flag : Nat, fields : SUBSET Attrs]

\* A targeting rule sees the fields it reads; a static flag sees none.
SeenFields(c, f, ctx) ==
    {a \in ctx : Kind[c][f] = "targeting" /\ a \in Reads[c][f]}

Evaluate(c, f, ctx) ==
    IF f \in FlagsOf(c) THEN Value(c, f, SeenFields(c, f, ctx)) ELSE NotFound

\* flag_index_map turns the index back into a key before evaluating.
EvaluateByIndex(c, index, ctx) ==
    IF \E f \in FlagsOf(c) : FlagIndex(c, f) = index
    THEN Evaluate(c, CHOOSE f \in FlagsOf(c) : FlagIndex(c, f) = index, ctx)
    ELSE NotFound

=============================================================================
