----------------------------- MODULE MCEvaluator -----------------------------
(***************************************************************************)
(* Every configuration that gives two flag keys one of nine definitions or *)
(* none, with and without flag-set metadata.                               *)
(***************************************************************************)
EXTENDS Evaluator

MCKeys  == {1, 2}
MCAttrs == {"a", "b"}

Flag(st, default, rule, metadata) ==
    [state |-> st, default |-> default, targeting |-> rule, metadata |-> metadata,
     variants |-> [on  |-> [type |-> "float", half |-> -5],
                   off |-> [type |-> "integer", half |-> 4],
                   huge |-> [type |-> "integer", half |-> 2 * IntMax + 2],
                   max |-> [type |-> "float", half |-> 41],
                   yes |-> [type |-> "boolean", half |-> 1]]]

Definitions == {
    Flag("ENABLED", "huge", NoRule, <<>>),
    Flag("ENABLED", "max", EmptyRule, [owner |-> "flag"]),
    Flag("ENABLED", "on", "byA", [owner |-> "flag"]),
    Flag("ENABLED", "on", "byA", <<>>),
    Flag("DISABLED", "on", "byA", <<>>),
    Flag("ENABLED", "", "byKey", <<>>),
    Flag("ENABLED", "ghost", "byTargetingKey", <<>>),
    Flag("ENABLED", "yes", "whole", <<>>),
    Flag("ENABLED", "on", "broken", <<>>)}

MCExtracted == {"byA", "byKey", "byTargetingKey"}
MCRequiredKeys == [byA |-> {"a"}, byKey |-> {}, byTargetingKey |-> {}]

\* byKey is a rule over $flagd.flagKey; whole reads {"var": ""}.
MCOutcome(rule, c) ==
    CASE rule = "byA"   -> IF "a" \in c.fields THEN "off" ELSE RuleNull
      [] rule = "byKey" -> IF c.flagd = 1 THEN "on" ELSE RuleNull
      [] rule = "byTargetingKey" ->
            IF c.targetingKey = "given" THEN "max"
            ELSE IF c.targetingKey = "empty" THEN RuleNull ELSE "absent"
      [] rule = "whole" -> IF c.fields = MCAttrs THEN "yes" ELSE ""
      [] OTHER          -> RuleFails

MCConfigurations ==
    {[flags |-> [k \in keys |-> f[k]], metadata |-> m] :
        keys \in SUBSET MCKeys, f \in [MCKeys -> Definitions],
        m \in {<<>>, [owner |-> "set", schema |-> "v1"]}}

Document(v, p) == [verdict |-> v, parsed |-> p]

MCDocuments ==
    {Document("conforming", p) : p \in MCConfigurations} \cup
    {Document("nonconforming",
              [flags |-> 1 :> Flag("ENABLED", "ghost", NoRule, <<>>),
               metadata |-> <<>>])} \cup
    {Document(v, NoState) : v \in {"unreadable", "tooDeep", "unparsable"}}

MCVerdict == [d \in MCDocuments |-> d.verdict]
MCParsed  == [d \in MCDocuments |-> d.parsed]

\* A $flagd in the context of a caller is that of another flag.
MCClients ==
    {[fields |-> {}, targetingKey |-> "absent", flagd |-> 0],
     [fields |-> MCAttrs, targetingKey |-> "given", flagd |-> 0],
     [fields |-> {"a"}, targetingKey |-> "empty", flagd |-> 1]}

MCInternalKeys == {"schema"}

=============================================================================
