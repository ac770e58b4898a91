-------------------------- MODULE MCSequentialHost --------------------------
(***************************************************************************)
(* SequentialHost over the configurations of MCEvaluator.                  *)
(***************************************************************************)
EXTENDS SequentialHost, MCEvaluator

=============================================================================
