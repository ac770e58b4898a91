----------------------------- MODULE MCTargeting -----------------------------
(***************************************************************************)
(* Documents for Targeting: texts for the depth scan, rules whose refs are *)
(* wrong in every way, rules that read their context in every way, and one *)
(* document for each call of a custom operator.                            *)
(***************************************************************************)
EXTENDS Targeting, TLC

Shallow == <<<<"open">>, <<"close">>>>

(***************************************************************************)
(* Texts: five tokens, strings with brackets, escaped quotes and escaped   *)
(* backslashes among them.                                                 *)
(***************************************************************************)
Tokens == {<<"open">>, <<"close">>, <<"quote", "open", "quote">>,
           <<"quote", "backslash", "quote", "open", "quote">>,
           <<"quote", "backslash", "backslash", "quote">>}

TextDocuments == {Document(t, FALSE, <<>>, <<>>, 0) : t \in BoundedSeq(Tokens, 5)}

(***************************************************************************)
(* Refs: a rule of two nodes, evaluators a and b of two and c of one, each *)
(* a constant or a ref; x is no evaluator.  a, b, c may be undefined.      *)
(***************************************************************************)
Const    == Node("value", <<>>, <<>>, <<>>)
Ref(n)   == Node("ref", <<>>, <<n>>, <<>>)
Op(args) == Node("op", args, <<>>, <<>>)

RefNodes(r1, r2, a1, a2, b1, b2, c) ==
    <<Op(<<2, 3>>), r1, r2, Op(<<5, 6>>), a1, a2, Op(<<8, 9>>), b1, b2, c>>

Bodies == ("a" :> 4) @@ ("b" :> 7) @@ ("c" :> 10)

RefDocuments ==
    {Document(Shallow, TRUE, RefNodes(Ref("a"), r, a1, a2, b1, b2, c),
              [n \in defined |-> Bodies[n]], 1) :
        r \in {Const, Ref("a"), Ref("b")},
        a1 \in {Const, Ref("a"), Ref("b"), Ref("c")}, a2 \in {Ref("b"), Ref("c"), Ref("x")},
        b1 \in {Const, Ref("c")}, b2 \in {Ref("a"), Ref("c")},
        c \in {Const, Ref("a")},
        defined \in {{}, {"a", "b", "c"}, {"a", "c"}}}

(***************************************************************************)
(* Reads: a rule with one node that reads the context, with a variable as  *)
(* its default, behind a ref or not.                                       *)
(***************************************************************************)
Var(path) == Node("var", <<>>, path, <<>>)
Red  == Str(Word("red"))
Blue == Str(Word("blue"))
V1 == Str(Text("1", <<1>>, <<>>, ""))

Paths == {<<"user">>, <<"user", "plan">>, <<"targetingKey">>, <<"$flagd", "flagKey">>, <<>>}

ReadingNodes ==
    {Var(p) : p \in Paths} \cup
    {Node("var", <<3>>, p, <<>>) : p \in Paths} \cup
    {Node("fractional", <<>>, <<>>, v) : v \in {
        <<VarOf(<<"user">>), Arr(<<Red, Num(1)>>), Arr(<<Blue>>)>>,
        <<Arr(<<Red, VarOf(<<"share">>)>>), Arr(<<Blue, Num(1)>>)>>}} \cup
    {Node("sem_ver", <<>>, <<>>, <<v, Str(Word(">=")), V1>>) : v \in {
        VarOf(<<"version">>), VarOf(<<"user", "plan">>), Num(2), NullValue, Arr(<<>>)}} \cup
    {Node("missing", <<>>, <<"user", "share">>, <<>>), Node("computed", <<3>>, <<>>, <<>>)}

ReadDocuments ==
    {Document(Shallow, TRUE, <<Op(<<2>>), root, Var(d), n>>, "e" :> 4, 1) :
        root \in ReadingNodes \cup {Ref("e")}, n \in {Var(<<"user">>), Const},
        d \in {<<"share">>, <<>>}}

MCContexts ==
    {<<>>,
     [user |-> Str(Word("share")), share |-> Num(2)],
     [user |-> Obj([plan |-> V1]), version |-> V1, targetingKey |-> Red],
     [share |-> NullValue, version |-> Num(0), targetingKey |-> Num(1)]}

(***************************************************************************)
(* Calls of fractional: two or three buckets in each of the three forms,   *)
(* weights up to and above what a sum may be; and calls that are refused.  *)
(***************************************************************************)
Call(op, values) == Document(Shallow, TRUE, <<Node(op, <<>>, <<>>, values)>>, <<>>, 1)

SomeWeights == {0, 1, 2, 3, 5, 7, 8, 20, 255}
Def(name, w) == Arr(<<name, Num(w)>>)

FractionalDocuments ==
    {Call("fractional", args) : args \in
        {<<Red, Arr(<<Red, Num(v), Blue, Num(w)>>)>> : v, w \in SomeWeights} \cup
        {<<Red, Def(Red, v), Def(Blue, w), Def(V1, x)>> : v, w, x \in SomeWeights} \cup
        {<<Arr(<<Red>>), Def(Blue, w), Def(V1, x)>> : w, x \in SomeWeights} \cup
        {<<>>, <<Red>>, <<Red, Def(Red, 1), Blue>>, <<Arr(<<>>), Def(Red, 1)>>,
         <<Red, Arr(<<Red>>)>>, <<Red, Arr(<<Num(1), Red>>)>>, <<Red, Def(Red, -1)>>}}

(***************************************************************************)
(* Versions: cores of one to four parts, prereleases whose identifiers are *)
(* numbers, words and numbers too large for a u64.                         *)
(***************************************************************************)
Cores == {<<0>>, <<0, 0, 1>>, <<0, 1>>, <<0, 1, 1>>, <<0, 2>>, <<1>>, <<1, 0, 1>>,
          <<1, 1>>, <<2, 0, 0>>, <<21>>, <<1, 2, 3, 4>>, <<NotNumber>>}

\* In byte order: 10, 1a, 2, 99, beta.
Prereleases ==
    LET ten  == Identifier(10, 1)
        mix  == Identifier(NotNumber, 2)
        two  == Identifier(2, 3)
        huge == Identifier(99, 4)
        beta == Identifier(NotNumber, 5)
    IN  {<<ten>>, <<mix>>, <<two>>, <<huge>>, <<beta>>, <<beta, two>>, <<beta, ten>>}

VersionTexts ==
    {Text("", c, <<>>, b) : c \in Cores, b \in {"", "build"}} \cup
    {Text("", c, <<p>>, "") : c \in {<<0, 1>>, <<1>>}, p \in Prereleases} \cup
    {Text("", <<2, 0, 0>>, <<<<Identifier(2, 3)>>>>, "")}

SemVerDocuments ==
    {Call("sem_ver", <<Str(V1.text), Str(Word("^")), Str(v)>>) : v \in VersionTexts}

MCDocuments == TextDocuments \cup RefDocuments \cup ReadDocuments
                   \cup FractionalDocuments \cup SemVerDocuments

\* The read documents alone.
MCReadDocuments == ReadDocuments

MCFlagdFields == {"$flagd", "$flagdOwn"}
MCHash(word) == (7 * Len(word) + 3) % HashSize

=============================================================================
