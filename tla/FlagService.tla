---------------------------- MODULE FlagService ----------------------------
(***************************************************************************)
(* What every pooled host promises its callers: one configuration at a     *)
(* time is in force, it changes atomically, and each evaluation answers    *)
(* from the configuration in force at one instant between its call and its *)
(* return.  An evaluation may fail, but it never answers from a mixture of *)
(* configurations, for another flag, or from a context that lost a field   *)
(* the rule reads.                                                         *)
(***************************************************************************)
EXTENDS FlagConfig

CONSTANTS
    Callers,    \* threads or goroutines that evaluate flags
    Contexts    \* evaluation contexts they pass

VARIABLES
    current,    \* the configuration in force
    call        \* call[p]: the evaluation p has in progress

serviceVars == <<current, call>>

\* The evaluations a caller can have in progress.
Call(stage, f, ctx, a) == [stage |-> stage, flag |-> f, ctx |-> ctx, answer |-> a]
Idle                == Call("idle", 0, {}, NotFound)
Pending(f, ctx)     == Call("pending", f, ctx, NotFound)
Answered(f, ctx, a) == Call("answered", f, ctx, a)

ServiceInit ==
    /\ current = NoConfig
    /\ call = [p \in Callers |-> Idle]

\* A new configuration takes effect, for all callers at once.
Install(c) ==
    /\ current' = c
    /\ UNCHANGED call

Invoke(p, f, ctx) ==
    /\ call[p] = Idle
    /\ call' = [call EXCEPT ![p] = Pending(f, ctx)]
    /\ UNCHANGED current

\* The instant at which the evaluation takes effect.
Answer(p, f, ctx, a) ==
    /\ call[p] = Pending(f, ctx)
    /\ a \in {Evaluate(current, f, ctx), Failed}
    /\ call' = [call EXCEPT ![p] = Answered(f, ctx, a)]
    /\ UNCHANGED current

Return(p) ==
    /\ call[p].stage = "answered"
    /\ call' = [call EXCEPT ![p] = Idle]
    /\ UNCHANGED current

ServiceNext ==
    \/ \E c \in Configs : Install(c)
    \/ \E p \in Callers, f \in Flags, ctx \in Contexts :
          \/ Invoke(p, f, ctx)
          \/ \E a \in {Evaluate(current, f, ctx), Failed} : Answer(p, f, ctx, a)
    \/ \E p \in Callers : Return(p)

ServiceSpec == ServiceInit /\ [][ServiceNext]_serviceVars

=============================================================================
