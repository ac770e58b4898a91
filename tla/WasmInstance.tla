---------------------------- MODULE WasmInstance ----------------------------
(***************************************************************************)
(* One WASM instance of the evaluator as a host drives it: what a call to  *)
(* update_state leaves it holding and what the host gets back, with the    *)
(* ways in which the call can fail.                                        *)
(***************************************************************************)
EXTENDS FlagConfig

CONSTANTS
    Malformed,  \* a configuration update_state answers success:false to
    Oversized,  \* a configuration longer than the host's limit
    Dead        \* the state of an instance that can no longer run

(***************************************************************************)
(* The faults of update_state on one instance ("ok" is none):              *)
(*   "notWritten"  the configuration could not be written to the instance, *)
(*                 which is as it was; the host sees an error              *)
(*   "refused"     alloc returned a null pointer, so this instance answers *)
(*                 success:false and keeps its configuration               *)
(*   "trapped"     the call traps; the Rust state stays borrowed, so every *)
(*                 later call into the instance traps too                  *)
(*   "unread"      the configuration is installed but the result cannot be *)
(*                 read back or parsed; the host sees an error             *)
(***************************************************************************)
UpdateFaults == {"notWritten", "refused", "trapped", "unread"}

Submitted == Configs \cup {Malformed, Oversized}

ASSUME InstanceAssumption ==
    /\ Malformed # Oversized
    /\ {Malformed, Oversized} \cap Loadable = {}
    /\ Dead \notin Loadable

\* What an instance that holds w does when fault f is to happen.
FaultOf(w, f) == IF w = Dead THEN "trapped" ELSE f

\* update_state(c) on an instance that holds w: what it holds afterwards.  A
\* configuration that is not accepted changes nothing.
AfterUpdate(w, c, f) ==
    CASE FaultOf(w, f) \in {"notWritten", "refused"} -> w
      [] FaultOf(w, f) = "trapped" -> Dead
      [] OTHER -> IF c \in Configs THEN c ELSE w

\* What the host gets back: success:true, success:false, or an error.
UpdateResult(w, c, f) ==
    CASE FaultOf(w, f) = "ok" -> IF c \in Configs THEN "success" ELSE "failure"
      [] FaultOf(w, f) = "refused" -> "failure"
      [] OTHER -> "error"

=============================================================================
