---------------------------- MODULE MCDotnetPool ----------------------------
(***************************************************************************)
(* A finite instance of DotnetPool, with the configurations of MCGoPool's   *)
(* kind: flag 1 is absent from B so that indices shift, flag 3 is static in *)
(* A only, and flag 2 reads field "a" in A and "b" in B.                    *)
(***************************************************************************)
EXTENDS DotnetPool, TLC

CONSTANTS A, B

MCConfigs == {A, B}
MCFlags   == 1..3
MCAttrs   == {"a", "b"}
MCContexts == {{"a", "b"}}

MCKind  == (A :> <<"static", "targeting", "static">>) @@
           (B :> <<"absent", "targeting", "targeting">>)
MCExtracted == (A :> {2}) @@ (B :> {2})
MCReads == (A :> <<{}, {"a"}, {}>>) @@ (B :> <<{}, {"b"}, {"a", "b"}>>)
MCKeys  == (A :> <<{}, {"a"}, {}>>) @@ (B :> <<{}, {"b"}, {}>>)

Symmetry == Permutations(Instances) \cup Permutations(Callers)
                \cup Permutations(Updaters)

=============================================================================
