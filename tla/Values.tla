------------------------------- MODULE Values -------------------------------
(***************************************************************************)
(* The JSON values rules, contexts and custom operators work on.  A string *)
(* is the word it spells together with the version it spells, if any: how  *)
(* it splits at '+', '-' and '.', which the operators compare numbers by.  *)
(***************************************************************************)
EXTENDS Integers, Sequences, SequencesExt

NotNumber == -1

\* prerelease is <<>> for none and <<identifiers>> otherwise.
Text(word, parts, prerelease, build) ==
    [word |-> word, parts |-> parts, prerelease |-> prerelease, build |-> build]
Word(word) == Text(word, <<NotNumber>>, <<>>, "")

Str(text)   == [type |-> "string", text |-> text]
Num(n)      == [type |-> "number", number |-> n]
Bool(b)     == [type |-> "boolean", is |-> b]
Arr(items)  == [type |-> "array", items |-> items]
Obj(fields) == [type |-> "object", fields |-> fields]
VarOf(path) == [type |-> "var", path |-> path]
NullValue   == [type |-> "null"]
Absent      == [type |-> "absent"]

\* What a list of arguments in a rule is: sequences are sequences, numbers and
\* the identifiers of versions are integers.
IsSequence(s) == s \in Seq({s[i] : i \in DOMAIN s})

TypedText(text) ==
    /\ text.parts \in Seq(Int)
    /\ \/ text.prerelease = <<>>
       \/ /\ text.prerelease = <<text.prerelease[1]>>
          /\ text.prerelease[1] \in Seq([number : Int, rank : Int])

ItemsOf(value) == IF value.type = "array" THEN DOMAIN value.items ELSE {}

TypedArguments(args) ==
    /\ IsSequence(args)
    /\ \A i \in DOMAIN args :
          /\ args[i].type = "array"  => IsSequence(args[i].items)
          /\ args[i].type = "number" => args[i].number \in Int
          /\ args[i].type = "string" => TypedText(args[i].text)
          /\ \A v \in {args[i]} \cup {args[i].items[j] : j \in ItemsOf(args[i])} :
                v.type = "var" => IsSequence(v.path)

\* data.get(part) for each part of a dotted path: only objects have parts.
Get(value, part) ==
    IF value.type = "object" /\ part \in DOMAIN value.fields
    THEN value.fields[part] ELSE Absent

Lookup(data, path) ==
    LET at[i \in 0 .. Len(path)] == IF i = 0 THEN data ELSE Get(at[i - 1], path[i])
    IN  at[Len(path)]

\* The text of a string argument, or of the variable it names; null is the
\* empty text, and anything else fails.
Unresolved == Text("", <<>>, <<>>, "")
IsText(value) == value.type \in {"string", "number", "null"}

TextOf(value) ==
    CASE value.type = "string" -> value.text
      [] value.type = "number" /\ value.number >= 0 ->
            Text("", <<value.number>>, <<>>, "")
      [] OTHER -> Word("")

ResolveString(value, data) ==
    LET found == IF value.type = "var" THEN Lookup(data, value.path) ELSE value
    IN  IF IsText(found) THEN TextOf(found) ELSE Unresolved

=============================================================================
