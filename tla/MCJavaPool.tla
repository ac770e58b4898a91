----------------------------- MODULE MCJavaPool -----------------------------
(***************************************************************************)
(* Finite instances of JavaPool.  Two configurations over three flags, with *)
(* flag 1 absent from B so that indices shift, and flag 3 static in A only. *)
(* Flag 2 reads field "a" in A; in B the same field (Same...) or "b".       *)
(***************************************************************************)
EXTENDS JavaPool, TLC

CONSTANTS A, B

MCConfigs == {A, B}
MCFlags   == 1..3
MCAttrs   == {"a", "b"}
MCContexts == {{}, {"a", "b"}}

MCKind  == (A :> <<"static", "targeting", "static">>) @@
           (B :> <<"absent", "targeting", "targeting">>)
MCExtracted == (A :> {2}) @@ (B :> {2})

SameReads == (A :> <<{}, {"a"}, {}>>) @@ (B :> <<{}, {"a"}, {"a", "b"}>>)
SameKeys  == (A :> <<{}, {"a"}, {}>>) @@ (B :> <<{}, {"a"}, {}>>)

OtherReads == (A :> <<{}, {"a"}, {}>>) @@ (B :> <<{}, {"b"}, {"a", "b"}>>)
OtherKeys  == (A :> <<{}, {"a"}, {}>>) @@ (B :> <<{}, {"b"}, {}>>)

Symmetry == Permutations(Instances) \cup Permutations(Callers)
                \cup Permutations(Updaters)

=============================================================================
