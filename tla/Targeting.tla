------------------------------ MODULE Targeting ------------------------------
(***************************************************************************)
(* The life of one targeting rule in update_state: the document is scanned *)
(* for its depth (src/limits.rs), parsed, the $refs of the rule are        *)
(* resolved (src/model/feature_flag.rs), the rule is compiled and the      *)
(* context keys it needs are extracted (src/evaluator.rs).  Then it can be *)
(* evaluated, with the custom operators of Fractional and SemVer.          *)
(*                                                                         *)
(* The nodes of all rules of a document are numbered, children after their *)
(* parents; the body of an evaluator is a node, too.  How the rule engine  *)
(* (datalogic-rs) computes an operator is left out: a rule sees what its   *)
(* variables and custom operators give it, and nothing else.               *)
(***************************************************************************)
EXTENDS Fractional, SemVer

CONSTANTS
    Documents,
    Contexts,       \* contexts of callers: fields to values
    FlagKey,
    Hash(_),        \* MurmurHash3 of a bucketing key
    FlagdFields,    \* fields whose name starts with $flagd
    MaxJsonDepth,   \* MAX_JSON_DEPTH
    MaxRefDepth,    \* MAX_REF_DEPTH
    AllKeys         \* no key list: the host sends the whole context

(***************************************************************************)
(* Nodes: "value"; "op", anything that walks its arguments; "var" with a   *)
(* path and an optional default; "computed", a var whose path is a rule;   *)
(* "missing" with the fields it tests; the custom operators with their     *)
(* arguments as values; "ref" with the name of an evaluator.               *)
(***************************************************************************)
Node(op, args, path, values) ==
    [op |-> op, args |-> args, path |-> path, values |-> values]

\* tokens: what the depth scan reads, one sequence of bytes per JSON token.
\* parses: whether serde_json and FeatureFlag accept the document.
Document(tokens, parses, nodes, evaluators, rule) ==
    [tokens |-> tokens, parses |-> parses, nodes |-> nodes, evaluators |-> evaluators,
     rule |-> rule]

ASSUME TargetingAssumption ==
    /\ MaxJsonDepth \in Nat /\ MaxRefDepth \in Nat
    /\ \A fields \in SUBSET (UNION {DOMAIN c : c \in Contexts}) : AllKeys # fields
    /\ \A d \in Documents :
          /\ IsSequence(d.tokens) /\ \A i \in DOMAIN d.tokens : IsSequence(d.tokens[i])
          /\ IsSequence(d.nodes) /\ (d.parses => d.rule \in DOMAIN d.nodes)
          /\ \A e \in DOMAIN d.evaluators : d.evaluators[e] \in DOMAIN d.nodes
          /\ \A i \in DOMAIN d.nodes :
                /\ IsSequence(d.nodes[i].path)
                /\ IsSequence(d.nodes[i].args)
                /\ \A j \in DOMAIN d.nodes[i].args :
                      d.nodes[i].args[j] \in DOMAIN d.nodes /\ d.nodes[i].args[j] > i
                /\ TypedArguments(d.nodes[i].values)

VARIABLES
    doc,       \* the document
    stage,     \* "scan", "parse", "resolve", "compile", "ready" or "rejected"
    work,      \* the calls of resolve_refs to come, innermost first
    visited,   \* the evaluators being resolved
    becomes,   \* becomes[i]: the node that stands where i stood
    keys       \* the required context keys of the rule

vars == <<doc, stage, work, visited, becomes, keys>>

\* A call of resolve_refs on node i, and what is left to do after the call on
\* the body of the evaluator that ref i names.
Visit(i, depth) == [what |-> "visit", node |-> i, depth |-> depth]
Leave(i, depth) == [what |-> "leave", node |-> i, depth |-> depth]

Frames == [what : {"visit", "leave"}, node : DOMAIN doc.nodes, depth : Nat]

TypeOK ==
    /\ stage \in {"scan", "parse", "resolve", "compile", "ready", "rejected"}
    /\ work \in Seq(Frames)
    /\ visited \subseteq DOMAIN doc.evaluators
    /\ becomes \in [DOMAIN doc.nodes -> DOMAIN doc.nodes]
    /\ keys = AllKeys \/ "targetingKey" \in keys \/ stage # "ready"

Init ==
    /\ doc \in Documents
    /\ stage = "scan"
    /\ work = <<>>
    /\ visited = {}
    /\ becomes = [i \in DOMAIN doc.nodes |-> i]
    /\ keys = AllKeys

Reject ==
    /\ stage' = "rejected"
    /\ UNCHANGED <<doc, work, visited, becomes, keys>>

-----------------------------------------------------------------------------
(***************************************************************************)
(* check_json_depth                                                        *)
(***************************************************************************)
ScanStart == [depth |-> 0, inString |-> FALSE, escape |-> FALSE, tooDeep |-> FALSE]

\* A byte outside of strings.
ScanOutside(s, byte) ==
    CASE byte = "quote" -> [s EXCEPT !.inString = TRUE]
      [] byte = "open"  -> [s EXCEPT !.depth = @ + 1, !.tooDeep = (s.depth = MaxJsonDepth)]
      [] byte = "close" -> [s EXCEPT !.depth = IF @ = 0 THEN 0 ELSE @ - 1]
      [] OTHER -> s

\* Mutant of ScanByte: a backslash is not looked at.
MutantNoEscape(s, byte) ==
    CASE s.tooDeep -> s
      [] s.inString /\ ~s.tooDeep -> [s EXCEPT !.inString = (byte # "quote")]
      [] OTHER -> ScanOutside(s, byte)

ScanByte(s, byte) ==
    CASE s.tooDeep -> s
      [] s.escape /\ ~s.tooDeep -> [s EXCEPT !.escape = FALSE]
      [] s.inString /\ ~s.escape /\ ~s.tooDeep ->
            [s EXCEPT !.inString = (byte # "quote"), !.escape = (byte = "backslash")]
      [] OTHER -> ScanOutside(s, byte)

\* The loop over the bytes, token by token.
ScanFrom(s, bytes) ==
    LET at[i \in 0 .. Len(bytes)] == IF i = 0 THEN s ELSE ScanByte(at[i - 1], bytes[i])
    IN  at[Len(bytes)]

TooDeep(tokens) ==
    LET at[i \in 0 .. Len(tokens)] ==
            IF i = 0 THEN ScanStart ELSE ScanFrom(at[i - 1], tokens[i])
    IN  at[Len(tokens)].tooDeep

CheckJsonDepth ==
    /\ stage = "scan"
    /\ \/ TooDeep(doc.tokens) /\ Reject
       \/ /\ ~TooDeep(doc.tokens)
          /\ stage' = "parse"
          /\ UNCHANGED <<doc, work, visited, becomes, keys>>

-----------------------------------------------------------------------------
(***************************************************************************)
(* ParsingResult::parse and resolve_refs                                   *)
(***************************************************************************)
ParseFails == stage = "parse" /\ ~doc.parses /\ Reject

\* Without evaluators the rule is left as it is, refs included.
ParseDocument ==
    /\ stage = "parse" /\ doc.parses
    /\ IF DOMAIN doc.evaluators = {}
       THEN stage' = "compile" /\ UNCHANGED work
       ELSE stage' = "resolve" /\ work' = <<Visit(doc.rule, 0)>>
    /\ UNCHANGED <<doc, visited, becomes, keys>>

Top == Head(work)
TopNode == doc.nodes[Top.node]
Visiting == stage = "resolve" /\ work # <<>> /\ Top.what = "visit"
RefName == TopNode.path[1]

VisitTooDeep == Visiting /\ Top.depth > MaxRefDepth /\ Reject

\* A circular reference, or one that names no evaluator.
VisitBadRef ==
    /\ Visiting /\ Top.depth <= MaxRefDepth
    /\ TopNode.op = "ref"
    /\ RefName \in visited \/ RefName \notin DOMAIN doc.evaluators
    /\ Reject

VisitRef ==
    /\ Visiting /\ Top.depth <= MaxRefDepth
    /\ TopNode.op = "ref"
    /\ RefName \in DOMAIN doc.evaluators \ visited
    /\ visited' = visited \cup {RefName}
    /\ work' = <<Visit(doc.evaluators[RefName], Top.depth + 1),
                 Leave(Top.node, Top.depth)>> \o Tail(work)
    /\ UNCHANGED <<doc, stage, becomes, keys>>

\* The depth counts refs only.
VisitNode ==
    /\ Visiting /\ Top.depth <= MaxRefDepth
    /\ TopNode.op # "ref"
    /\ work' = [j \in DOMAIN TopNode.args |-> Visit(TopNode.args[j], Top.depth)]
                   \o Tail(work)
    /\ UNCHANGED <<doc, stage, visited, becomes, keys>>

\* Mutant of LeaveRef: the name stays in the set.
MutantKeepVisited ==
    /\ stage = "resolve" /\ work # <<>> /\ Top.what = "leave"
    /\ becomes' = [becomes EXCEPT ![Top.node] = becomes[doc.evaluators[RefName]]]
    /\ work' = Tail(work)
    /\ UNCHANGED <<doc, stage, visited, keys>>

LeaveRef ==
    /\ stage = "resolve" /\ work # <<>> /\ Top.what = "leave"
    /\ visited' = visited \ {RefName}
    /\ becomes' = [becomes EXCEPT ![Top.node] = becomes[doc.evaluators[RefName]]]
    /\ work' = Tail(work)
    /\ UNCHANGED <<doc, stage, keys>>

Resolved ==
    /\ stage = "resolve" /\ work = <<>>
    /\ stage' = "compile"
    /\ UNCHANGED <<doc, work, visited, becomes, keys>>

-----------------------------------------------------------------------------
(***************************************************************************)
(* engine.compile and extract_required_context_keys                        *)
(***************************************************************************)
\* What next leads to, in any number of steps, from start.
Reachable(all, start, next) ==
    LET grow[n \in 0 .. Cardinality(all)] ==
            IF n = 0 THEN {start}
            ELSE LET before == grow[n - 1] IN before \cup UNION {next[x] : x \in before}
    IN  grow[Cardinality(all)]

\* The nodes of a resolved rule.
NodesOf(rule) ==
    Reachable(DOMAIN doc.nodes, becomes[rule],
              [i \in DOMAIN doc.nodes |-> {becomes[doc.nodes[i].args[j]] :
                                              j \in DOMAIN doc.nodes[i].args}])

\* The paths of the variables among values, and in arrays among them.
PathsIn(values) ==
    LET items == UNION {IF values[i].type = "array" THEN ToSet(values[i].items) ELSE {} :
                           i \in DOMAIN values}
    IN  {v.path : v \in {w \in ToSet(values) \cup items : w.type = "var"}}

\* Mutant of PathsOf: a variable inside an argument that is an array is missed.
MutantShallow(node) ==
    CASE node.op = "var" -> {node.path}
      [] node.op \in {"fractional", "sem_ver"} ->
            {v.path : v \in {w \in ToSet(node.values) : w.type = "var"}}
      [] OTHER -> {}

\* The paths an arm of walk_node_for_vars takes keys from.
PathsOf(node) ==
    CASE node.op = "var" -> {node.path}
      [] node.op \in {"fractional", "sem_ver"} -> PathsIn(node.values)
      [] OTHER -> {}

Compiles(rule) == \A i \in NodesOf(rule) : doc.nodes[i].op # "ref"

\* Mutant of ExtractRequiredContextKeys: targetingKey is taken for granted.
MutantNoTargetingKey(rule) ==
    LET paths == UNION {PathsOf(doc.nodes[i]) : i \in NodesOf(rule)}
    IN  IF <<>> \in paths THEN AllKeys ELSE {p[1] : p \in paths} \ FlagdFields

ExtractRequiredContextKeys(rule) ==
    LET paths == UNION {PathsOf(doc.nodes[i]) : i \in NodesOf(rule)}
    IN  IF <<>> \in paths THEN AllKeys
        ELSE {"targetingKey"} \cup ({p[1] : p \in paths} \ FlagdFields)

Compile ==
    /\ stage = "compile"
    /\ stage' = "ready"
    /\ keys' = IF Compiles(doc.rule) THEN ExtractRequiredContextKeys(doc.rule)
               ELSE AllKeys
    /\ UNCHANGED <<doc, work, visited, becomes>>

Next ==
    \/ CheckJsonDepth \/ ParseFails \/ ParseDocument
    \/ VisitTooDeep \/ VisitBadRef \/ VisitRef \/ VisitNode \/ LeaveRef \/ Resolved
    \/ Compile

Spec == Init /\ [][Next]_vars

-----------------------------------------------------------------------------
(***************************************************************************)
(* Evaluation                                                              *)
(***************************************************************************)
\* The context after enrich_context.
Enriched(context) ==
    Obj([f \in DOMAIN context \cup {"targetingKey", "$flagd"} |->
            IF f = "$flagd" THEN Obj([flagKey |-> Str(Word(FlagKey))])
            ELSE IF f \in DOMAIN context THEN context[f] ELSE Str(Word(""))])

\* What the engine makes of an argument: the value of a variable, or null.
ValueOf(v, data) ==
    IF v.type # "var" THEN v
    ELSE IF Lookup(data, v.path) = Absent THEN NullValue ELSE Lookup(data, v.path)

Evaluated(values, data) ==
    [i \in DOMAIN values |->
        IF values[i].type = "array"
        THEN Arr([j \in DOMAIN values[i].items |-> ValueOf(values[i].items[j], data)])
        ELSE ValueOf(values[i], data)]

CallFractional(values, data) ==
    LET args == Evaluated(values, data)
    IN  IF args = <<>> THEN Absent
        ELSE FractionalResult(args,
                Hash(BucketKey(args, FlagKey, Lookup(data, <<"targetingKey">>))))

Saw(path, value) == {[path |-> path, value |-> value]}

\* The field a computed path names.
ComputedPath(node, data) ==
    LET name == Lookup(data, doc.nodes[becomes[node.args[1]]].path)
    IN  IF name.type = "string" THEN <<name.text.word>> ELSE <<"">>

\* What one node gives to the rule it belongs to.
NodeSees(node, data) ==
    CASE node.op = "var" -> Saw(node.path, Lookup(data, node.path))
      [] node.op = "computed" ->
            Saw(ComputedPath(node, data), Lookup(data, ComputedPath(node, data)))
      [] node.op = "missing" ->
            UNION {Saw(<<f>>, Bool(Lookup(data, <<f>>) = Absent)) : f \in ToSet(node.path)}
      [] node.op = "fractional" -> Saw(<<>>, CallFractional(node.values, data))
      [] node.op = "sem_ver"    -> Saw(<<>>, SemVerResult(node.values, data))
      [] OTHER -> {}

RuleSees(rule, context) ==
    UNION {NodeSees(doc.nodes[i], Enriched(context)) : i \in NodesOf(rule)}

\* The context a host sends.
Sent(context) ==
    IF keys = AllKeys THEN context
    ELSE [f \in DOMAIN context \cap keys |-> context[f]]

-----------------------------------------------------------------------------
(***************************************************************************)
(* Properties                                                              *)
(***************************************************************************)
\* A JSON string ends at the first quote that is not escaped, and a byte is escaped
\* by a backslash before it that is not.
IsString(token) ==
    /\ Len(token) > 1 /\ token[1] = "quote"
    /\ \E escaped \in [DOMAIN token -> BOOLEAN] :
          /\ \A i \in DOMAIN token :
                escaped[i] = (i > 1 /\ token[i - 1] = "backslash" /\ ~escaped[i - 1])
          /\ \A i \in 2 .. Len(token) : token[i] = "quote" /\ ~escaped[i] <=> i = Len(token)

\* A bracket, a string, or anything without brackets and quotes.
IsToken(token) ==
    \/ token \in {<<"open">>, <<"close">>}
    \/ \A i \in DOMAIN token : token[i] \notin {"open", "close", "quote"}
    \/ IsString(token)

Nesting(tokens, n) ==
    Cardinality({i \in 1 .. n : tokens[i] = <<"open">>})
        - Cardinality({i \in 1 .. n : tokens[i] = <<"close">>})

Tokenized(tokens) ==
    \A n \in DOMAIN tokens : IsToken(tokens[n]) /\ Nesting(tokens, n) >= 0

\* A text of JSON tokens that closes no more than it opens is refused by the depth
\* scan exactly when its objects and arrays nest deeper than MaxJsonDepth: brackets
\* and quotes inside strings do not count, escaped or not.
DepthScanExact ==
    [][stage = "scan" /\ Tokenized(doc.tokens) =>
          (stage' = "rejected" <=>
              \E n \in DOMAIN doc.tokens : Nesting(doc.tokens, n) > MaxJsonDepth)]_vars

\* A node, and how many refs lead from the rule to it.
Place(i, refs) == [node |-> i, refs |-> refs]
AllPlaces == [node : DOMAIN doc.nodes, refs : 0 .. MaxRefDepth + 1]

\* A ref leads to the body it names, until there are too many.
LeadsTo(place) ==
    LET node == doc.nodes[place.node]
    IN  IF node.op # "ref" THEN {Place(node.args[j], place.refs) : j \in DOMAIN node.args}
        ELSE IF node.path[1] \in DOMAIN doc.evaluators /\ place.refs <= MaxRefDepth
             THEN {Place(doc.evaluators[node.path[1]], place.refs + 1)}
             ELSE {}

Places == Reachable(AllPlaces, Place(doc.rule, 0), [p \in AllPlaces |-> LeadsTo(p)])

\* Every ref the rule leads to names an evaluator, and no chain has more than
\* MaxRefDepth refs, which excludes cycles; an evaluator may be used many times over.
Resolvable ==
    \A p \in Places :
        /\ p.refs <= MaxRefDepth
        /\ doc.nodes[p.node].op = "ref" => doc.nodes[p.node].path[1] \in DOMAIN doc.evaluators

\* The nodes of the rule with every ref replaced by the body it names.
Expansion == {p.node : p \in {q \in Places : doc.nodes[q.node].op # "ref"}}

\* A rule that can be parsed is refused exactly when it is not resolvable.  What is
\* accepted is the expansion of the rule.
ResolutionExact ==
    ~TooDeep(doc.tokens) /\ doc.parses /\ DOMAIN doc.evaluators # {} =>
        /\ stage = "rejected" => ~Resolvable
        /\ stage \in {"compile", "ready"} =>
              Resolvable /\ NodesOf(doc.rule) = Expansion

\* A host that sends only the required keys does not change what the rule sees,
\* for rules without missing, missing_some and computed paths, over fields that
\* do not start with $flagd.
Traceable ==
    \A i \in NodesOf(doc.rule) :
        /\ doc.nodes[i].op \notin {"missing", "computed"}
        /\ \A p \in PathsOf(doc.nodes[i]) : p # <<>> => p[1] \notin FlagdFields \ {"$flagd"}

KeysCoverTraceableReads ==
    stage = "ready" /\ Traceable =>
        \A c \in Contexts : RuleSees(doc.rule, Sent(c)) = RuleSees(doc.rule, c)

\* README.md: the module "walks each flag's targeting rule tree to extract which
\* context fields it references".  So those fields are enough for any rule.
KeysCoverReads ==
    stage = "ready" =>
        \A c \in Contexts : RuleSees(doc.rule, Sent(c)) = RuleSees(doc.rule, c)

Operator(op) == stage = "ready" /\ doc.nodes[doc.rule].op = op
Arguments == doc.nodes[doc.rule].values

\* Every bucket gets a share of the hashes in proportion to its weight, for all
\* weights the operator accepts.
SharesProportional ==
    Operator("fractional") /\ Accepted(Arguments) =>
        Proportional(Weights(FlatBuckets(Arguments)))

\* Changing a rollout by moving weight between two neighbouring buckets never
\* moves a user between other buckets, nor out of the bucket that grows.
RolloutIsStable ==
    Operator("fractional") /\ Accepted(Arguments) =>
        ShiftMovesNeighbours(Weights(FlatBuckets(Arguments)))

Versions ==
    {TextOf(d.nodes[d.rule].values[3]) :
        d \in {e \in Documents : /\ e.parses /\ e.nodes[e.rule].op = "sem_ver"
                                 /\ Len(e.nodes[e.rule].values) >= 3}}

\* The six comparisons are those of one total preorder of the valid versions.
VersionsAreOrdered ==
    Operator("sem_ver") /\ Len(Arguments) >= 3 =>
        Precedence(Versions, TextOf(Arguments[3]))

\* ^ and ~ admit the versions from the target up to the next breaking release,
\* and no prerelease of that one.
VersionRangesExact ==
    Operator("sem_ver") /\ Len(Arguments) >= 3 =>
        RangesAreIntervals(Versions, TextOf(Arguments[3]))

=============================================================================
