----------------------------- MODULE DotnetPool -----------------------------
(***************************************************************************)
(* The .NET host (dotnet/src/FlagdEvaluator/FlagEvaluator.cs): threads     *)
(* evaluate flags on a pool of WASM instances while others install         *)
(* configurations, and one disposes the evaluator.                         *)
(*                                                                         *)
(* Unlike JavaPool, a caller serializes its context after the generation   *)
(* guard; an update stops at a first instance that answers success:false   *)
(* and returns that answer, looks at nothing the others answer, and fails  *)
(* when one of them throws; and Dispose takes the pool itself away.        *)
(***************************************************************************)
EXTENDS WasmInstance

CONSTANTS
    Instances,      \* the WASM instances, as many as PoolSize
    Callers,        \* threads that call EvaluateFlag
    Updaters,       \* threads that call UpdateState
    Contexts,       \* evaluation contexts callers pass
    FirstFaults,    \* faults CallUpdateState may meet on instances[0]
    RestFaults,     \* faults it may meet on the other instances
    EvalFaults,     \* faults an evaluation may meet: "trapped" or "thrown"
    MayDispose,     \* whether Dispose is called
    MaxGeneration,  \* bound: UpdateState calls in progress or installed
    Mixed,          \* no one configuration: a failed update left the instances
                    \* with different ones
    None

ASSUME DotnetAssumption ==
    /\ Instances # {} /\ IsFiniteSet(Instances)
    /\ Contexts \subseteq SUBSET Attrs
    /\ FirstFaults \subseteq UpdateFaults /\ RestFaults \subseteq UpdateFaults
    /\ EvalFaults \subseteq {"trapped", "thrown"}
    /\ MayDispose \in BOOLEAN
    /\ MaxGeneration \in Nat
    /\ Mixed \notin Loadable
    /\ None \notin Instances \cup Updaters

VARIABLES
    pool,         \* the idle instances in the BlockingCollection
    cache,        \* the volatile CacheSnapshot
    updateLock,   \* the updater inside lock (_updateLock), or None
    generation,
    wasm,         \* wasm[i]: what instance i holds; Dead once it trapped
    gen,          \* gen[i]: the generation stamped on instance i
    disposed,     \* instances that were disposed
    slots,        \* slots Dispose has yet to try; None before it is called
    poolDisposed, \* whether _pool.Dispose() was called
    \* each caller p, inside EvaluateFlag
    pc, flagKey, ctx, snap, inst, result,
    \* each updater u, inside UpdateState
    upc, config, instances, pending, outcome,
    \* for the specification only: the configuration in force, or Mixed, and
    \* what was in force at some time during the call of p
    current, during

sharedVars  == <<pool, cache, updateLock, generation>>
wasmVars    == <<wasm, gen>>
disposeVars == <<disposed, slots, poolDisposed>>
callVars    == <<pc, flagKey, ctx, snap, inst, result>>
updateVars  == <<upc, config, instances, pending, outcome>>
specVars    == <<current, during>>
vars == <<sharedVars, wasmVars, disposeVars, callVars, updateVars, specVars>>

\* A CacheSnapshot: its generation, and the configuration its maps describe.
Snapshot(g, c) == [Generation |-> g, config |-> c]
Snapshots == [Generation : Nat, config : Loadable]
EmptySnapshot == Snapshot(0, NoConfig)

TypeOK ==
    /\ pool \subseteq Instances /\ disposed \subseteq Instances
    /\ cache \in Snapshots
    /\ updateLock \in Updaters \cup {None}
    /\ generation \in Nat
    /\ wasm \in [Instances -> Loadable \cup {Dead}]
    /\ gen \in [Instances -> Nat]
    /\ slots \in Nat \cup {None} /\ poolDisposed \in BOOLEAN
    /\ pc \in [Callers -> {"idle", "load", "take", "check", "evaluate", "add", "done"}]
    /\ flagKey \in [Callers -> Flags \cup {0}]
    /\ ctx \in [Callers -> SUBSET Attrs]
    /\ snap \in [Callers -> Snapshots]
    /\ inst \in [Callers -> Instances \cup {None}]
    /\ result \in [Callers -> Answers]
    /\ upc \in [Updaters -> {"idle", "lock", "drain", "first", "rest", "addAll", "done"}]
    /\ config \in [Updaters -> Submitted \cup {NoConfig}]
    /\ instances \in [Updaters -> SUBSET Instances]
    /\ pending \in [Updaters -> SUBSET Instances]
    /\ outcome \in [Updaters -> {"none", "success", "failure", "error"}]
    /\ current \in Loadable \cup {Mixed}
    /\ during \in [Callers -> SUBSET (Loadable \cup {Mixed})]

Init ==
    /\ pool = Instances /\ disposed = {}
    /\ cache = EmptySnapshot
    /\ updateLock = None
    /\ generation = 0
    /\ wasm = [i \in Instances |-> NoConfig]
    /\ gen = [i \in Instances |-> 0]
    /\ slots = None /\ poolDisposed = FALSE
    /\ pc = [p \in Callers |-> "idle"]
    /\ flagKey = [p \in Callers |-> 0]
    /\ ctx = [p \in Callers |-> {}]
    /\ snap = [p \in Callers |-> EmptySnapshot]
    /\ inst = [p \in Callers |-> None]
    /\ result = [p \in Callers |-> NotFound]
    /\ upc = [u \in Updaters |-> "idle"]
    /\ config = [u \in Updaters |-> NoConfig]
    /\ instances = [u \in Updaters |-> {}]
    /\ pending = [u \in Updaters |-> {}]
    /\ outcome = [u \in Updaters |-> "none"]
    /\ current = NoConfig
    /\ during = [p \in Callers |-> {}]

-----------------------------------------------------------------------------
(***************************************************************************)
(* EvaluateFlag                                                            *)
(***************************************************************************)
EvaluateFlag(p, f, c) ==
    /\ pc[p] = "idle"
    /\ pc' = [pc EXCEPT ![p] = "load"]
    /\ flagKey' = [flagKey EXCEPT ![p] = f]
    /\ ctx' = [ctx EXCEPT ![p] = c]
    /\ during' = [during EXCEPT ![p] = {current}]
    /\ UNCHANGED <<snap, inst, result, sharedVars, wasmVars, disposeVars,
                   updateVars, current>>

Hit(p) == flagKey[p] \in PreEvaluated(cache.config)

AnswerFromCache(p, next) ==
    /\ result' = [result EXCEPT ![p] = Evaluate(cache.config, flagKey[p], {})]
    /\ pc' = [pc EXCEPT ![p] = next]

\* The volatile read, and the fast path.
Load(p) ==
    /\ pc[p] = "load"
    /\ snap' = [snap EXCEPT ![p] = cache]
    /\ IF Hit(p) THEN AnswerFromCache(p, "done")
       ELSE pc' = [pc EXCEPT ![p] = "take"] /\ UNCHANGED result
    /\ UNCHANGED <<flagKey, ctx, inst, sharedVars, wasmVars, disposeVars,
                   updateVars, specVars>>

Take(p) ==
    /\ pc[p] = "take" /\ ~poolDisposed
    /\ \E i \in pool :
          /\ pool' = pool \ {i}
          /\ inst' = [inst EXCEPT ![p] = i]
    /\ pc' = [pc EXCEPT ![p] = "check"]
    /\ UNCHANGED <<flagKey, ctx, snap, result, cache, updateLock, generation,
                   wasmVars, disposeVars, updateVars, specVars>>

\* _pool.Take() throws ObjectDisposedException.
TakeThrows(p) ==
    /\ pc[p] = "take" /\ poolDisposed
    /\ result' = [result EXCEPT ![p] = Failed]
    /\ pc' = [pc EXCEPT ![p] = "done"]
    /\ UNCHANGED <<flagKey, ctx, snap, inst, sharedVars, wasmVars, disposeVars,
                   updateVars, specVars>>

\* Mutant of CheckGeneration: the cache is not reloaded.
MutantNoGuard(p) ==
    /\ pc[p] = "check"
    /\ pc' = [pc EXCEPT ![p] = "evaluate"]
    /\ UNCHANGED <<flagKey, ctx, snap, inst, result, sharedVars, wasmVars,
                   disposeVars, updateVars, specVars>>

\* The generation guard: the flag may be static in the cache it reloads.
CheckGeneration(p) ==
    /\ pc[p] = "check"
    /\ \/ /\ snap[p].Generation = gen[inst[p]]
          /\ pc' = [pc EXCEPT ![p] = "evaluate"]
          /\ UNCHANGED <<snap, result>>
       \/ /\ snap[p].Generation # gen[inst[p]]
          /\ snap' = [snap EXCEPT ![p] = cache]
          /\ IF Hit(p) THEN AnswerFromCache(p, "add")
             ELSE pc' = [pc EXCEPT ![p] = "evaluate"] /\ UNCHANGED result
    /\ UNCHANGED <<flagKey, ctx, inst, sharedVars, wasmVars, disposeVars,
                   updateVars, specVars>>

HasKeys(p) == flagKey[p] \in RequiredKeyFlags(snap[p].config)

SentContext(p) ==
    IF HasKeys(p) THEN ctx[p] \cap Keys[snap[p].config][flagKey[p]] ELSE ctx[p]

\* evaluate_by_index for a flag with required keys, evaluate_reusable otherwise.
CallWasm(p) ==
    LET c == wasm[inst[p]]
        known == snap[p].config
    IN  IF HasKeys(p) /\ flagKey[p] \in FlagsOf(known)
        THEN EvaluateByIndex(c, FlagIndex(known, flagKey[p]), SentContext(p))
        ELSE Evaluate(c, flagKey[p], SentContext(p))

EvaluateOnInstance(p) ==
    /\ pc[p] = "evaluate"
    /\ wasm[inst[p]] # Dead
    /\ result' = [result EXCEPT ![p] = CallWasm(p)]
    /\ pc' = [pc EXCEPT ![p] = "add"]
    /\ UNCHANGED <<flagKey, ctx, snap, inst, sharedVars, wasmVars, disposeVars,
                   updateVars, specVars>>

\* A context that cannot be serialized or is too large, a trap, an answer that
\* cannot be read.
EvaluateThrows(p) ==
    /\ pc[p] = "evaluate"
    /\ \/ /\ wasm[inst[p]] = Dead \/ "thrown" \in EvalFaults
          /\ UNCHANGED wasm
       \/ /\ "trapped" \in EvalFaults
          /\ wasm' = [wasm EXCEPT ![inst[p]] = Dead]
    /\ result' = [result EXCEPT ![p] = Failed]
    /\ pc' = [pc EXCEPT ![p] = "add"]
    /\ UNCHANGED <<flagKey, ctx, snap, inst, gen, sharedVars, disposeVars,
                   updateVars, specVars>>

\* finally { _pool.Add(inst); }
Add(p) ==
    /\ pc[p] = "add" /\ ~poolDisposed
    /\ pool' = pool \cup {inst[p]}
    /\ inst' = [inst EXCEPT ![p] = None]
    /\ pc' = [pc EXCEPT ![p] = "done"]
    /\ UNCHANGED <<flagKey, ctx, snap, result, cache, updateLock, generation,
                   wasmVars, disposeVars, updateVars, specVars>>

\* The answer is lost to the exception, and the instance to the pool.
AddThrows(p) ==
    /\ pc[p] = "add" /\ poolDisposed
    /\ result' = [result EXCEPT ![p] = Failed]
    /\ inst' = [inst EXCEPT ![p] = None]
    /\ pc' = [pc EXCEPT ![p] = "done"]
    /\ UNCHANGED <<flagKey, ctx, snap, sharedVars, wasmVars, disposeVars,
                   updateVars, specVars>>

EvaluateReturns(p) ==
    /\ pc[p] = "done"
    /\ pc' = [pc EXCEPT ![p] = "idle"]
    /\ flagKey' = [flagKey EXCEPT ![p] = 0]
    /\ ctx' = [ctx EXCEPT ![p] = {}]
    /\ snap' = [snap EXCEPT ![p] = EmptySnapshot]
    /\ result' = [result EXCEPT ![p] = NotFound]
    /\ during' = [during EXCEPT ![p] = {}]
    /\ UNCHANGED <<inst, sharedVars, wasmVars, disposeVars, updateVars, current>>

-----------------------------------------------------------------------------
(***************************************************************************)
(* UpdateState                                                             *)
(***************************************************************************)
UpdateState(u, c) ==
    /\ upc[u] = "idle"
    /\ generation + Cardinality({v \in Updaters : upc[v] # "idle"}) < MaxGeneration
    /\ upc' = [upc EXCEPT ![u] = "lock"]
    /\ config' = [config EXCEPT ![u] = c]
    /\ UNCHANGED <<instances, pending, outcome, sharedVars, wasmVars, disposeVars,
                   callVars, specVars>>

Lock(u) ==
    /\ upc[u] = "lock"
    /\ updateLock = None
    /\ upc' = [upc EXCEPT ![u] = "drain"]
    /\ updateLock' = u
    /\ UNCHANGED <<config, instances, pending, outcome, pool, cache, generation,
                   wasmVars, disposeVars, callVars, specVars>>

Drain(u) ==
    /\ upc[u] = "drain" /\ ~poolDisposed
    /\ \E i \in pool :
          /\ pool' = pool \ {i}
          /\ instances' = [instances EXCEPT ![u] = @ \cup {i}]
          /\ upc' = IF instances[u] \cup {i} = Instances
                    THEN [upc EXCEPT ![u] = "first"] ELSE upc
    /\ UNCHANGED <<config, pending, outcome, cache, updateLock, generation,
                   wasmVars, disposeVars, callVars, specVars>>

\* _pool.Take() throws before the try: what was drained is lost.
DrainThrows(u) ==
    /\ upc[u] = "drain" /\ poolDisposed
    /\ instances' = [instances EXCEPT ![u] = {}]
    /\ outcome' = [outcome EXCEPT ![u] = "error"]
    /\ updateLock' = None
    /\ upc' = [upc EXCEPT ![u] = "done"]
    /\ UNCHANGED <<config, pending, pool, cache, generation, wasmVars, disposeVars,
                   callVars, specVars>>

\* CallUpdateState on an instance that holds w: a configuration that is too
\* large throws before the instance is touched.
AfterCall(w, c, f) == IF c = Oversized THEN w ELSE AfterUpdate(w, c, f)
CallResult(w, c, f) == IF c = Oversized THEN "error" ELSE UpdateResult(w, c, f)

\* A change of what is in force is seen by every call in progress.
InForce(c) ==
    /\ current' = c
    /\ during' = [p \in Callers |-> IF pc[p] = "idle" THEN {} ELSE during[p] \cup {c}]

\* The update ends without publishing.
Abandon == InForce(IF \A i \in Instances : wasm'[i] \in {current, Dead}
                   THEN current ELSE Mixed)

\* Mutant of UpdateFirst: it does not return on success:false.
MutantGoOn(u) ==
    /\ upc[u] = "first"
    /\ \E i \in instances[u], f \in FirstFaults \cup {"ok"} :
          /\ wasm' = [wasm EXCEPT ![i] = AfterCall(@, config[u], f)]
          /\ \/ /\ CallResult(wasm[i], config[u], f) # "error"
                /\ pending' = [pending EXCEPT ![u] = instances[u] \ {i}]
                /\ upc' = [upc EXCEPT ![u] = "rest"]
                /\ UNCHANGED <<outcome, specVars>>
             \/ /\ CallResult(wasm[i], config[u], f) = "error"
                /\ outcome' = [outcome EXCEPT ![u] = "error"]
                /\ upc' = [upc EXCEPT ![u] = "addAll"]
                /\ Abandon
                /\ UNCHANGED pending
    /\ UNCHANGED <<config, instances, gen, sharedVars, disposeVars, callVars>>

\* instances[0] decides: success:false is returned, an exception leaves.
UpdateFirst(u) ==
    /\ upc[u] = "first"
    /\ \E i \in instances[u], f \in FirstFaults \cup {"ok"} :
          /\ wasm' = [wasm EXCEPT ![i] = AfterCall(@, config[u], f)]
          /\ \/ /\ CallResult(wasm[i], config[u], f) = "success"
                /\ pending' = [pending EXCEPT ![u] = instances[u] \ {i}]
                /\ upc' = [upc EXCEPT ![u] = "rest"]
                /\ UNCHANGED <<outcome, specVars>>
             \/ /\ CallResult(wasm[i], config[u], f) # "success"
                /\ outcome' = [outcome EXCEPT ![u] = CallResult(wasm[i], config[u], f)]
                /\ upc' = [upc EXCEPT ![u] = "addAll"]
                /\ Abandon
                /\ UNCHANGED pending
    /\ UNCHANGED <<config, instances, gen, sharedVars, disposeVars, callVars>>

\* Mutant of UpdateRest: what an iteration throws is dropped.
MutantDropException(u) ==
    /\ upc[u] = "rest"
    /\ \E i \in pending[u], f \in RestFaults \cup {"ok"} :
          /\ wasm' = [wasm EXCEPT ![i] = AfterCall(@, config[u], f)]
          /\ pending' = [pending EXCEPT ![u] = @ \ {i}]
    /\ UNCHANGED <<upc, config, instances, outcome, gen, sharedVars, disposeVars,
                   callVars, specVars>>

\* One iteration of Parallel.For ends; nobody looks at success:false.
UpdateRest(u) ==
    /\ upc[u] = "rest"
    /\ \E i \in pending[u], f \in RestFaults \cup {"ok"} :
          /\ wasm' = [wasm EXCEPT ![i] = AfterCall(@, config[u], f)]
          /\ outcome' = IF CallResult(wasm[i], config[u], f) = "error"
                        THEN [outcome EXCEPT ![u] = "error"] ELSE outcome
          /\ pending' = [pending EXCEPT ![u] = @ \ {i}]
    /\ UNCHANGED <<upc, config, instances, gen, sharedVars, disposeVars, callVars,
                   specVars>>

\* Parallel.For throws; iterations that had not begun are not run.
ParallelForThrows(u) ==
    /\ upc[u] = "rest"
    /\ outcome[u] = "error"
    /\ pending' = [pending EXCEPT ![u] = {}]
    /\ upc' = [upc EXCEPT ![u] = "addAll"]
    /\ UNCHANGED wasm
    /\ Abandon
    /\ UNCHANGED <<config, instances, outcome, gen, sharedVars, disposeVars, callVars>>

\* Mutant of Publish: the instances are not stamped.
MutantNoStamp(u) ==
    /\ upc[u] = "rest"
    /\ pending[u] = {} /\ outcome[u] # "error"
    /\ generation' = generation + 1
    /\ cache' = Snapshot(generation + 1, config[u])
    /\ InForce(config[u])
    /\ outcome' = [outcome EXCEPT ![u] = "success"]
    /\ upc' = [upc EXCEPT ![u] = "addAll"]
    /\ UNCHANGED <<config, instances, pending, pool, updateLock, wasmVars,
                   disposeVars, callVars>>

\* The new generation, the stamps and the volatile write, at which the update
\* takes effect.
Publish(u) ==
    /\ upc[u] = "rest"
    /\ pending[u] = {} /\ outcome[u] # "error"
    /\ generation' = generation + 1
    /\ gen' = [i \in Instances |-> IF i \in instances[u] THEN generation + 1 ELSE gen[i]]
    /\ cache' = Snapshot(generation + 1, config[u])
    /\ InForce(config[u])
    /\ outcome' = [outcome EXCEPT ![u] = "success"]
    /\ upc' = [upc EXCEPT ![u] = "addAll"]
    /\ UNCHANGED <<config, instances, pending, pool, updateLock, wasm, disposeVars,
                   callVars>>

AddAll(u) ==
    /\ upc[u] = "addAll" /\ ~poolDisposed
    /\ \E i \in instances[u] :
          /\ pool' = pool \cup {i}
          /\ instances' = [instances EXCEPT ![u] = @ \ {i}]
    /\ UNCHANGED <<upc, config, pending, outcome, cache, updateLock, generation,
                   wasmVars, disposeVars, callVars, specVars>>

\* The exception takes the place of the answer and ends the loop: the instances
\* not yet added are lost.
AddAllThrows(u) ==
    /\ upc[u] = "addAll" /\ poolDisposed /\ instances[u] # {}
    /\ instances' = [instances EXCEPT ![u] = {}]
    /\ outcome' = [outcome EXCEPT ![u] = "error"]
    /\ UNCHANGED <<upc, config, pending, sharedVars, wasmVars, disposeVars, callVars,
                   specVars>>

Unlock(u) ==
    /\ upc[u] = "addAll"
    /\ instances[u] = {}
    /\ updateLock' = None
    /\ upc' = [upc EXCEPT ![u] = "done"]
    /\ UNCHANGED <<config, instances, pending, outcome, pool, cache, generation,
                   wasmVars, disposeVars, callVars, specVars>>

UpdateReturns(u) ==
    /\ upc[u] = "done"
    /\ upc' = [upc EXCEPT ![u] = "idle"]
    /\ config' = [config EXCEPT ![u] = NoConfig]
    /\ outcome' = [outcome EXCEPT ![u] = "none"]
    /\ UNCHANGED <<instances, pending, sharedVars, wasmVars, disposeVars, callVars,
                   specVars>>

-----------------------------------------------------------------------------
(***************************************************************************)
(* Dispose                                                                 *)
(***************************************************************************)
Dispose ==
    /\ MayDispose /\ slots = None
    /\ slots' = Cardinality(Instances)
    /\ UNCHANGED <<disposed, poolDisposed, sharedVars, wasmVars, callVars, updateVars,
                   specVars>>

Slot == slots # None /\ slots # 0 /\ slots' = slots - 1

\* Mutant of DisposeTaken: it disposes an idle instance without taking it.
MutantPeek ==
    /\ Slot
    /\ \E i \in pool : disposed' = disposed \cup {i}
    /\ UNCHANGED <<poolDisposed, sharedVars, wasmVars, callVars, updateVars, specVars>>

DisposeTaken ==
    /\ Slot
    /\ \E i \in pool : pool' = pool \ {i} /\ disposed' = disposed \cup {i}
    /\ UNCHANGED <<poolDisposed, cache, updateLock, generation, wasmVars, callVars,
                   updateVars, specVars>>

\* No instance came back for five seconds.
DisposeTimesOut ==
    /\ Slot
    /\ pool = {}
    /\ UNCHANGED <<disposed, poolDisposed, sharedVars, wasmVars, callVars, updateVars,
                   specVars>>

\* _pool.Dispose(), with what came back since the last TryTake.
DisposePool ==
    /\ slots = 0 /\ ~poolDisposed
    /\ poolDisposed' = TRUE
    /\ UNCHANGED <<slots, disposed, sharedVars, wasmVars, callVars, updateVars, specVars>>

-----------------------------------------------------------------------------
Evaluation(p) ==
    \/ Load(p) \/ Take(p) \/ TakeThrows(p) \/ CheckGeneration(p)
    \/ EvaluateOnInstance(p) \/ EvaluateThrows(p) \/ Add(p) \/ AddThrows(p)
    \/ EvaluateReturns(p)

Update(u) ==
    \/ Lock(u) \/ Drain(u) \/ DrainThrows(u) \/ UpdateFirst(u) \/ UpdateRest(u)
    \/ ParallelForThrows(u) \/ Publish(u) \/ AddAll(u) \/ AddAllThrows(u)
    \/ Unlock(u) \/ UpdateReturns(u)

Next ==
    \/ \E p \in Callers, f \in Flags, c \in Contexts : EvaluateFlag(p, f, c)
    \/ \E p \in Callers : Evaluation(p)
    \/ \E u \in Updaters, c \in Submitted : UpdateState(u, c)
    \/ \E u \in Updaters : Update(u)
    \/ Dispose \/ DisposeTaken \/ DisposeTimesOut \/ DisposePool

Spec == Init /\ [][Next]_vars

-----------------------------------------------------------------------------
(***************************************************************************)
(* Properties                                                              *)
(***************************************************************************)
\* No instance is in two places, whatever throws and whenever Dispose gives up
\* waiting: no thread works on an instance that was disposed, or that another
\* thread has.
OneHolder ==
    /\ pool \cap disposed = {}
    /\ \A p \in Callers : inst[p] \notin pool \cup disposed
    /\ \A u \in Updaters : instances[u] \cap (pool \cup disposed) = {}
    /\ \A p \in Callers, u \in Updaters : inst[p] \notin instances[u]
    /\ \A p, q \in Callers : p # q /\ inst[p] # None => inst[p] # inst[q]
    /\ \A u, v \in Updaters : u # v => instances[u] \cap instances[v] = {}

\* Until Dispose is through, every instance has a place: the finally blocks of
\* EvaluateFlag and UpdateState give back what they took on every path.
NoneLost ==
    poolDisposed \/ \A i \in Instances :
        \/ i \in pool \cup disposed
        \/ \E p \in Callers : inst[p] = i
        \/ \E u \in Updaters : i \in instances[u]

OnePlace == OneHolder /\ NoneLost

\* Outside an update, the instances agree with each other and with the cache
\* unless an update failed half way: an exception on the first instance, or on
\* one of the others in Parallel.For, is what leaves the pool Mixed.
PoolUniform ==
    \A i \in Instances : (\A u \in Updaters : i \notin instances[u]) =>
        /\ gen[i] = cache.Generation
        /\ current # Mixed => wasm[i] \in {current, Dead} /\ cache.config = current

\* An answer is an exception, or the answer of a configuration that was in
\* force at some time during the call, when none of them was Mixed.
AnswersInForce ==
    \A p \in Callers :
        pc[p] \in {"add", "done"} /\ Mixed \notin during[p] =>
            \/ result[p] = Failed
            \/ \E c \in during[p] : result[p] = Evaluate(c, flagKey[p], ctx[p])

\* An UpdateState that returns success has put its configuration on every
\* instance that still runs; a configuration that was in force only in part
\* never survives one.
UpdateReachesAll ==
    [][\A u \in Updaters :
          upc'[u] = "done" /\ upc[u] # "done" /\ outcome'[u] = "success"
              => \A i \in Instances : wasm'[i] \in {config[u], Dead}]_vars

=============================================================================
