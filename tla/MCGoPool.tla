------------------------------ MODULE MCGoPool ------------------------------
(***************************************************************************)
(* Finite instances of GoPool.  Two configurations over three flags:       *)
(*   flag 1  static in A; absent from B, so that indices shift             *)
(*   flag 2  reads field "a" in A and fields "a" and "b" in B, and its key *)
(*           list follows; its index is 1 in A and 0 in B                  *)
(*   flag 3  static in A; in B it reads the whole context                  *)
(***************************************************************************)
EXTENDS GoPool, TLC

CONSTANTS A, B

MCConfigs == {A, B}
MCFlags   == 1..3
MCAttrs   == {"a", "b"}
MCContexts == {{"a", "b"}}

MCKind  == (A :> <<"static", "targeting", "static">>) @@
           (B :> <<"absent", "targeting", "targeting">>)
MCReads == (A :> <<{}, {"a"}, {}>>) @@ (B :> <<{}, {"a", "b"}, {"a", "b"}>>)
MCExtracted == (A :> {2}) @@ (B :> {2})
MCKeys  == (A :> <<{}, {"a"}, {}>>) @@ (B :> <<{}, {"a", "b"}, {}>>)

\* For liveness one configuration with one targeting flag is enough: whether
\* calls return does not depend on what they answer.
OneConfig    == {A}
OneFlag      == {2}
OneKind      == A :> (2 :> "targeting")
OneReads     == A :> (2 :> {"a"})
OneExtracted == A :> {2}

Symmetry == Permutations(Instances) \cup Permutations(Callers)
                \cup Permutations(Updaters)

=============================================================================
