------------------------------- MODULE GoPool -------------------------------
(***************************************************************************)
(* The Go host (go/evaluator.go, go/evaluate.go): goroutines evaluate flags *)
(* on a pool of WASM instances while others install new configurations and *)
(* one may close the evaluator.                                            *)
(*                                                                         *)
(* Each action is one step of a goroutine between two points where another *)
(* goroutine can see or change what it uses: a mutex, the channel "pool",  *)
(* the atomic pointer "cache", a call into a WASM instance.                *)
(***************************************************************************)
EXTENDS WasmInstance

CONSTANTS
    Instances,        \* the WASM instances, as many as poolSize
    Callers,          \* goroutines that call EvaluateFlag
    Updaters,         \* goroutines that call UpdateState
    Contexts,         \* evaluation contexts callers pass
    FirstFaults,      \* faults updateInstance may meet on instances[0]
    RestFaults,       \* faults it may meet on the other instances
    EvalFaults,       \* faults a WASM evaluation may meet: "trapped", or
                      \* "tooLarge" for a key or context beyond its buffer
    ByIndexExported,  \* the module exports evaluate_by_index
    MaxGeneration,    \* bound: number of UpdateState calls that install
    MayClose,         \* whether Close is called
    None

ASSUME PoolAssumption ==
    /\ Instances # {} /\ IsFiniteSet(Instances)
    /\ Contexts \subseteq SUBSET Attrs
    /\ FirstFaults \subseteq UpdateFaults /\ RestFaults \subseteq UpdateFaults
    /\ EvalFaults \subseteq {"trapped", "tooLarge"}
    /\ ByIndexExported \in BOOLEAN /\ MayClose \in BOOLEAN
    /\ MaxGeneration \in Nat
    /\ None \notin Instances \cup Updaters

VARIABLES
    pool,         \* e.pool: the idle instances in the channel
    cache,        \* e.cache: the current cacheSnapshot
    updateMu,     \* e.updateMu: the updater that holds it, or None
    generation,   \* e.generation
    wasm,         \* wasm[i]: what instance i holds; Dead once it cannot run
    gen,          \* gen[i]: the generation stamped on instance i
    \* each caller p, inside evaluateFlag
    pc, flagKey, ctx, snap, inst, result,
    \* each updater u, inside UpdateState
    upc, config, instances, pending, updated, outcome,
    \* the goroutine inside Close, and the receives it has left
    closing, left,
    \* for the specification only: the configuration callers are answered from
    current

sharedVars == <<pool, cache, updateMu, generation>>
wasmVars   == <<wasm, gen>>
callVars   == <<pc, flagKey, ctx, snap, inst, result>>
updateVars == <<upc, config, instances, pending, updated, outcome>>
closeVars  == <<closing, left>>
vars == <<sharedVars, wasmVars, callVars, updateVars, closeVars, current>>

\* A cacheSnapshot: its generation, and the configuration its maps describe.
Snapshot(g, c) == [generation |-> g, config |-> c]
Snapshots == [generation : Nat, config : Loadable]

TypeOK ==
    /\ pool \subseteq Instances
    /\ cache \in Snapshots
    /\ updateMu \in Updaters \cup {None}
    /\ generation \in Nat
    /\ wasm \in [Instances -> Loadable \cup {Dead}]
    /\ gen \in [Instances -> Nat]
    /\ pc \in [Callers -> {"idle", "load", "acquire", "check", "evaluate",
                           "release", "done"}]
    /\ flagKey \in [Callers -> Flags \cup {0}]
    /\ ctx \in [Callers -> SUBSET Attrs]
    /\ snap \in [Callers -> Snapshots]
    /\ inst \in [Callers -> Instances \cup {None}]
    /\ result \in [Callers -> Answers]
    /\ upc \in [Updaters -> {"idle", "lock", "drain", "first", "rest",
                             "giveBack", "done"}]
    /\ config \in [Updaters -> Submitted \cup {NoConfig}]
    /\ instances \in [Updaters -> SUBSET Instances]
    /\ pending \in [Updaters -> SUBSET Instances]
    /\ updated \in [Updaters -> Loadable]
    /\ outcome \in [Updaters -> {"none", "success", "failure", "error"}]
    /\ closing \in {"open", "draining", "closed"}
    /\ left \in Nat
    /\ current \in Loadable

NoSnapshot == Snapshot(0, NoConfig)

Init ==
    /\ pool = Instances
    /\ cache = NoSnapshot
    /\ updateMu = None
    /\ generation = 0
    /\ wasm = [i \in Instances |-> NoConfig]
    /\ gen = [i \in Instances |-> 0]
    /\ pc = [p \in Callers |-> "idle"]
    /\ flagKey = [p \in Callers |-> 0]
    /\ ctx = [p \in Callers |-> {}]
    /\ snap = [p \in Callers |-> NoSnapshot]
    /\ inst = [p \in Callers |-> None]
    /\ result = [p \in Callers |-> NotFound]
    /\ upc = [u \in Updaters |-> "idle"]
    /\ config = [u \in Updaters |-> NoConfig]
    /\ instances = [u \in Updaters |-> {}]
    /\ pending = [u \in Updaters |-> {}]
    /\ updated = [u \in Updaters |-> NoConfig]
    /\ outcome = [u \in Updaters |-> "none"]
    /\ closing = "open"
    /\ left = 0
    /\ current = NoConfig

-----------------------------------------------------------------------------
(***************************************************************************)
(* evaluateFlag                                                            *)
(***************************************************************************)
EvaluateFlag(p, f, c) ==
    /\ pc[p] = "idle"
    /\ pc' = [pc EXCEPT ![p] = "load"]
    /\ flagKey' = [flagKey EXCEPT ![p] = f]
    /\ ctx' = [ctx EXCEPT ![p] = c]
    /\ UNCHANGED <<snap, inst, result, sharedVars, wasmVars, updateVars,
                   closeVars, current>>

\* cache.Load() and the lookup in its preEvaluated map: a hit answers, a miss
\* goes on to the step named next.
LoadCache(p, next, hit) ==
    /\ snap' = [snap EXCEPT ![p] = cache]
    /\ IF flagKey[p] \in PreEvaluated(cache.config)
       THEN /\ pc' = [pc EXCEPT ![p] = hit]
            /\ result' = [result EXCEPT ![p] =
                             Evaluate(cache.config, flagKey[p], {})]
       ELSE /\ pc' = [pc EXCEPT ![p] = next]
            /\ UNCHANGED result
    /\ UNCHANGED <<flagKey, ctx, inst>>

Load(p) ==
    /\ pc[p] = "load"
    /\ LoadCache(p, "acquire", "done")
    /\ UNCHANGED <<sharedVars, wasmVars, updateVars, closeVars, current>>

\* inst := <-e.pool
Acquire(p) ==
    /\ pc[p] = "acquire"
    /\ \E i \in pool :
          /\ pool' = pool \ {i}
          /\ inst' = [inst EXCEPT ![p] = i]
    /\ pc' = [pc EXCEPT ![p] = "check"]
    /\ UNCHANGED <<flagKey, ctx, snap, result, cache, updateMu, generation,
                   wasmVars, updateVars, closeVars, current>>

\* Mutant of CheckGeneration: no generation guard.
MutantNoGuard(p) ==
    /\ pc[p] = "check"
    /\ pc' = [pc EXCEPT ![p] = "evaluate"]
    /\ UNCHANGED <<flagKey, ctx, snap, inst, result, sharedVars, wasmVars,
                   updateVars, closeVars, current>>

\* Reload the cache when the instance is of another generation.
CheckGeneration(p) ==
    /\ pc[p] = "check"
    /\ IF snap[p].generation # gen[inst[p]]
       THEN LoadCache(p, "evaluate", "release")
       ELSE /\ pc' = [pc EXCEPT ![p] = "evaluate"]
            /\ UNCHANGED <<flagKey, ctx, snap, inst, result>>
    /\ UNCHANGED <<sharedVars, wasmVars, updateVars, closeVars, current>>

\* The fields of the context that are serialized for the instance.
SentContext(p) ==
    IF flagKey[p] \in RequiredKeyFlags(snap[p].config)
    THEN ctx[p] \cap Keys[snap[p].config][flagKey[p]]
    ELSE ctx[p]

\* evaluate_by_index when the snapshot has an index and required keys for the
\* flag, evaluate_reusable with the flag key otherwise.
CallWasm(p) ==
    LET c == wasm[inst[p]]
        f == flagKey[p]
        known == snap[p].config
    IN  IF /\ f \in FlagsOf(known)
           /\ f \in RequiredKeyFlags(known)
           /\ ByIndexExported
        THEN EvaluateByIndex(c, FlagIndex(known, f), SentContext(p))
        ELSE Evaluate(c, f, SentContext(p))

EvaluateOnInstance(p) ==
    /\ pc[p] = "evaluate"
    /\ wasm[inst[p]] # Dead
    /\ result' = [result EXCEPT ![p] = CallWasm(p)]
    /\ pc' = [pc EXCEPT ![p] = "release"]
    /\ UNCHANGED <<flagKey, ctx, snap, inst, sharedVars, wasmVars, updateVars,
                   closeVars, current>>

\* Mutants of EvaluateFails: the error path gives the instance back itself,
\* before the deferred send does; it drops a trapped instance; it is not taken
\* for a call into a closed module.
MutantDoubleRelease(p) ==
    /\ pc[p] = "evaluate"
    /\ wasm[inst[p]] = Dead \/ "trapped" \in EvalFaults
    /\ wasm' = [wasm EXCEPT ![inst[p]] = Dead]
    /\ pool' = pool \cup {inst[p]}
    /\ result' = [result EXCEPT ![p] = Failed]
    /\ pc' = [pc EXCEPT ![p] = "release"]
    /\ UNCHANGED <<flagKey, ctx, snap, inst, gen, cache, updateMu, generation,
                   updateVars, closeVars, current>>

MutantDropTrapped(p) ==
    /\ pc[p] = "evaluate"
    /\ wasm[inst[p]] = Dead \/ "trapped" \in EvalFaults
    /\ wasm' = [wasm EXCEPT ![inst[p]] = Dead]
    /\ inst' = [inst EXCEPT ![p] = None]
    /\ result' = [result EXCEPT ![p] = Failed]
    /\ pc' = [pc EXCEPT ![p] = "done"]
    /\ UNCHANGED <<flagKey, ctx, snap, gen, sharedVars, updateVars, closeVars,
                   current>>

MutantHangOnClosed(p) ==
    /\ pc[p] = "evaluate"
    /\ wasm[inst[p]] # Dead /\ "tooLarge" \in EvalFaults
    /\ result' = [result EXCEPT ![p] = Failed]
    /\ pc' = [pc EXCEPT ![p] = "release"]
    /\ UNCHANGED <<flagKey, ctx, snap, inst, wasmVars, sharedVars, updateVars,
                   closeVars, current>>

\* The call returns an error, or panics and is recovered.
EvaluateFails(p) ==
    /\ pc[p] = "evaluate"
    /\ \/ /\ wasm[inst[p]] = Dead \/ "tooLarge" \in EvalFaults
          /\ UNCHANGED wasm
       \/ /\ "trapped" \in EvalFaults
          /\ wasm' = [wasm EXCEPT ![inst[p]] = Dead]
    /\ result' = [result EXCEPT ![p] = Failed]
    /\ pc' = [pc EXCEPT ![p] = "release"]
    /\ UNCHANGED <<flagKey, ctx, snap, inst, gen, sharedVars, updateVars,
                   closeVars, current>>

\* The deferred e.pool <- inst
Release(p) ==
    /\ pc[p] = "release"
    /\ pool' = pool \cup {inst[p]}
    /\ inst' = [inst EXCEPT ![p] = None]
    /\ pc' = [pc EXCEPT ![p] = "done"]
    /\ UNCHANGED <<flagKey, ctx, snap, result, cache, updateMu, generation,
                   wasmVars, updateVars, closeVars, current>>

EvaluateReturns(p) ==
    /\ pc[p] = "done"
    /\ pc' = [pc EXCEPT ![p] = "idle"]
    /\ flagKey' = [flagKey EXCEPT ![p] = 0]
    /\ ctx' = [ctx EXCEPT ![p] = {}]
    /\ snap' = [snap EXCEPT ![p] = NoSnapshot]
    /\ result' = [result EXCEPT ![p] = NotFound]
    /\ UNCHANGED <<inst, sharedVars, wasmVars, updateVars, closeVars, current>>

-----------------------------------------------------------------------------
(***************************************************************************)
(* UpdateState                                                             *)
(***************************************************************************)
\* MaxGeneration bounds the calls in progress and those that installed.
UpdateState(u, c) ==
    /\ upc[u] = "idle"
    /\ generation + Cardinality({v \in Updaters : upc[v] # "idle"})
          < MaxGeneration
    /\ upc' = [upc EXCEPT ![u] = "lock"]
    /\ config' = [config EXCEPT ![u] = c]
    /\ UNCHANGED <<instances, pending, updated, outcome, sharedVars, wasmVars,
                   callVars, closeVars, current>>

\* Mutant of Lock: UpdateState without its mutex.
MutantNoMutex(u) ==
    /\ upc[u] = "lock"
    /\ upc' = [upc EXCEPT ![u] = IF config[u] = Oversized THEN "done" ELSE "drain"]
    /\ UNCHANGED <<config, instances, pending, updated, outcome, sharedVars,
                   wasmVars, callVars, closeVars, current>>

\* updateMu.Lock() and the size check, which returns and so unlocks.
Lock(u) ==
    /\ upc[u] = "lock"
    /\ updateMu = None
    /\ IF config[u] = Oversized
       THEN /\ upc' = [upc EXCEPT ![u] = "done"]
            /\ outcome' = [outcome EXCEPT ![u] = "error"]
            /\ UNCHANGED updateMu
       ELSE /\ upc' = [upc EXCEPT ![u] = "drain"]
            /\ updateMu' = u
            /\ UNCHANGED outcome
    /\ UNCHANGED <<config, instances, pending, updated, pool, cache, generation,
                   wasmVars, callVars, closeVars, current>>

\* Mutant of Drain: it stops one instance short.
MutantDrainShort(u) ==
    /\ upc[u] = "drain"
    /\ \E i \in pool :
          /\ pool' = pool \ {i}
          /\ instances' = [instances EXCEPT ![u] = @ \cup {i}]
          /\ upc' = IF Cardinality(instances[u]) + 2 >= Cardinality(Instances)
                    THEN [upc EXCEPT ![u] = "first"] ELSE upc
    /\ UNCHANGED <<config, pending, updated, outcome, cache, updateMu,
                   generation, wasmVars, callVars, closeVars, current>>

\* instances[k] = <-e.pool, until there are poolSize of them.
Drain(u) ==
    /\ upc[u] = "drain"
    /\ \E i \in pool :
          /\ pool' = pool \ {i}
          /\ instances' = [instances EXCEPT ![u] = @ \cup {i}]
          /\ upc' = IF instances[u] \cup {i} = Instances
                    THEN [upc EXCEPT ![u] = "first"] ELSE upc
    /\ UNCHANGED <<config, pending, updated, outcome, cache, updateMu,
                   generation, wasmVars, callVars, closeVars, current>>

\* Mutant of UpdateFirst: an error returns without giving the instances back.
MutantKeepOnError(u) ==
    /\ upc[u] = "first"
    /\ \E i \in instances[u], f \in FirstFaults \cup {"ok"} :
          LET answer == UpdateResult(wasm[i], config[u], f)
          IN  /\ wasm' = [wasm EXCEPT ![i] = AfterUpdate(wasm[i], config[u], f)]
              /\ outcome' = [outcome EXCEPT ![u] = answer]
              /\ updated' = [updated EXCEPT ![u] =
                    IF answer = "success" THEN config[u] ELSE NoConfig]
              /\ IF answer = "error"
                 THEN /\ upc' = [upc EXCEPT ![u] = "done"]
                      /\ updateMu' = None
                      /\ UNCHANGED pending
                 ELSE /\ upc' = [upc EXCEPT ![u] = "rest"]
                      /\ pending' = [pending EXCEPT ![u] = instances[u] \ {i}]
                      /\ UNCHANGED updateMu
    /\ UNCHANGED <<config, instances, gen, pool, cache, generation, callVars,
                   closeVars, current>>

\* updateInstance on instances[0].  Only an error ends the update: a result
\* that says success:false goes on like any other, with empty maps.
UpdateFirst(u) ==
    /\ upc[u] = "first"
    /\ \E i \in instances[u], f \in FirstFaults \cup {"ok"} :
          LET answer == UpdateResult(wasm[i], config[u], f)
          IN  /\ wasm' = [wasm EXCEPT ![i] = AfterUpdate(wasm[i], config[u], f)]
              /\ outcome' = [outcome EXCEPT ![u] = answer]
              /\ updated' = [updated EXCEPT ![u] =
                    IF answer = "success" THEN config[u] ELSE NoConfig]
              /\ IF answer = "error"
                 THEN /\ upc' = [upc EXCEPT ![u] = "giveBack"]
                      /\ UNCHANGED pending
                 ELSE /\ upc' = [upc EXCEPT ![u] = "rest"]
                      /\ pending' = [pending EXCEPT ![u] = instances[u] \ {i}]
    /\ UNCHANGED <<config, instances, gen, sharedVars, callVars, closeVars,
                   current>>

\* One of the parallel goroutines; what updateInstance returns is dropped.
UpdateRest(u) ==
    /\ upc[u] = "rest"
    /\ \E i \in pending[u], f \in RestFaults \cup {"ok"} :
          /\ wasm' = [wasm EXCEPT ![i] = AfterUpdate(wasm[i], config[u], f)]
          /\ pending' = [pending EXCEPT ![u] = @ \ {i}]
    /\ UNCHANGED <<upc, config, instances, updated, outcome, gen, sharedVars,
                   callVars, closeVars, current>>

\* Mutants of Publish: the cache takes what was submitted, even if it was
\* rejected; the instances are not stamped; wg.Wait() is missing.
MutantPublishRejected(u) ==
    /\ upc[u] = "rest"
    /\ pending[u] = {}
    /\ generation' = generation + 1
    /\ gen' = [i \in Instances |->
                 IF i \in instances[u] THEN generation + 1 ELSE gen[i]]
    /\ cache' = Snapshot(generation + 1, config[u])
    /\ current' = config[u]
    /\ upc' = [upc EXCEPT ![u] = "giveBack"]
    /\ UNCHANGED <<config, instances, pending, updated, outcome, pool, updateMu,
                   wasm, callVars, closeVars>>

MutantNoStamp(u) ==
    /\ upc[u] = "rest"
    /\ pending[u] = {}
    /\ generation' = generation + 1
    /\ cache' = Snapshot(generation + 1, updated[u])
    /\ current' = IF outcome[u] = "success" THEN config[u] ELSE current
    /\ upc' = [upc EXCEPT ![u] = "giveBack"]
    /\ UNCHANGED <<config, instances, pending, updated, outcome, pool, updateMu,
                   wasmVars, callVars, closeVars>>

MutantNoWait(u) ==
    /\ upc[u] = "rest"
    /\ generation' = generation + 1
    /\ gen' = [i \in Instances |->
                 IF i \in instances[u] THEN generation + 1 ELSE gen[i]]
    /\ cache' = Snapshot(generation + 1, updated[u])
    /\ current' = IF outcome[u] = "success" THEN config[u] ELSE current
    /\ upc' = [upc EXCEPT ![u] = "giveBack"]
    /\ UNCHANGED <<config, instances, pending, updated, outcome, pool, updateMu,
                   wasm, callVars, closeVars>>

\* wg.Wait() is over: the new generation, the stamps and cache.Store.  The
\* store is the instant a successful update takes effect.
Publish(u) ==
    /\ upc[u] = "rest"
    /\ pending[u] = {}
    /\ generation' = generation + 1
    /\ gen' = [i \in Instances |->
                 IF i \in instances[u] THEN generation + 1 ELSE gen[i]]
    /\ cache' = Snapshot(generation + 1, updated[u])
    /\ current' = IF outcome[u] = "success" THEN config[u] ELSE current
    /\ upc' = [upc EXCEPT ![u] = "giveBack"]
    /\ UNCHANGED <<config, instances, pending, updated, outcome, pool, updateMu,
                   wasm, callVars, closeVars>>

GiveBack(u) ==
    /\ upc[u] = "giveBack"
    /\ \E i \in instances[u] :
          /\ pool' = pool \cup {i}
          /\ instances' = [instances EXCEPT ![u] = @ \ {i}]
    /\ UNCHANGED <<upc, config, pending, updated, outcome, cache, updateMu,
                   generation, wasmVars, callVars, closeVars, current>>

\* The deferred Unlock
Unlock(u) ==
    /\ upc[u] = "giveBack"
    /\ instances[u] = {}
    /\ updateMu' = None
    /\ upc' = [upc EXCEPT ![u] = "done"]
    /\ UNCHANGED <<config, instances, pending, updated, outcome, pool, cache,
                   generation, wasmVars, callVars, closeVars, current>>

UpdateReturns(u) ==
    /\ upc[u] = "done"
    /\ upc' = [upc EXCEPT ![u] = "idle"]
    /\ config' = [config EXCEPT ![u] = NoConfig]
    /\ updated' = [updated EXCEPT ![u] = NoConfig]
    /\ outcome' = [outcome EXCEPT ![u] = "none"]
    /\ UNCHANGED <<instances, pending, sharedVars, wasmVars, callVars,
                   closeVars, current>>

-----------------------------------------------------------------------------
(***************************************************************************)
(* Close                                                                   *)
(***************************************************************************)
Close ==
    /\ MayClose
    /\ closing = "open"
    /\ closing' = "draining"
    /\ left' = Cardinality(Instances)
    /\ UNCHANGED <<sharedVars, wasmVars, callVars, updateVars, current>>

\* Mutant of CloseIdle: it takes the instance without closing its module.
MutantCloseLeaks ==
    /\ closing = "draining"
    /\ left > 0
    /\ left' = left - 1
    /\ \/ \E i \in pool : pool' = pool \ {i}
       \/ pool = {} /\ UNCHANGED pool
    /\ UNCHANGED <<closing, cache, updateMu, generation, wasmVars, callVars,
                   updateVars, current>>

\* One turn of its loop: close an idle instance, if there is one.
CloseIdle ==
    /\ closing = "draining"
    /\ left > 0
    /\ left' = left - 1
    /\ \/ \E i \in pool : /\ pool' = pool \ {i}
                          /\ wasm' = [wasm EXCEPT ![i] = Dead]
       \/ /\ pool = {}
          /\ UNCHANGED <<pool, wasm>>
    /\ UNCHANGED <<closing, cache, updateMu, generation, gen, callVars,
                   updateVars, current>>

\* rt.Close closes every module, those in use too.
CloseRuntime ==
    /\ closing = "draining"
    /\ left = 0
    /\ closing' = "closed"
    /\ wasm' = [i \in Instances |-> Dead]
    /\ UNCHANGED <<left, sharedVars, gen, callVars, updateVars, current>>

-----------------------------------------------------------------------------
Evaluation(p) ==
    \/ Load(p) \/ Acquire(p) \/ CheckGeneration(p) \/ EvaluateOnInstance(p)
    \/ EvaluateFails(p) \/ Release(p) \/ EvaluateReturns(p)

Update(u) ==
    \/ Lock(u) \/ Drain(u) \/ UpdateFirst(u) \/ UpdateRest(u) \/ Publish(u)
    \/ GiveBack(u) \/ Unlock(u) \/ UpdateReturns(u)

Next ==
    \/ \E p \in Callers, f \in Flags, c \in Contexts : EvaluateFlag(p, f, c)
    \/ \E p \in Callers : Evaluation(p)
    \/ \E u \in Updaters, c \in Submitted : UpdateState(u, c)
    \/ \E u \in Updaters : Update(u)
    \/ Close \/ CloseIdle \/ CloseRuntime

Spec == Init /\ [][Next]_vars

(***************************************************************************)
(* Scheduling.  A goroutine that can run does run.  A channel hands its    *)
(* elements to blocked receivers in the order they arrived, and a sync.Mutex*)
(* in starvation mode does the same, so a goroutine that waits in Acquire, *)
(* Drain or Lock is not passed over for ever.  Nobody is obliged to call   *)
(* EvaluateFlag, UpdateState or Close.                                     *)
(***************************************************************************)
Fairness ==
    /\ \A p \in Callers : WF_vars(Evaluation(p)) /\ SF_vars(Acquire(p))
    /\ \A u \in Updaters :
          WF_vars(Update(u)) /\ SF_vars(Drain(u)) /\ SF_vars(Lock(u))
    /\ WF_vars(CloseIdle \/ CloseRuntime)

FairSpec == Spec /\ Fairness

-----------------------------------------------------------------------------
(***************************************************************************)
(* Safety                                                                  *)
(***************************************************************************)
\* An instance has one linear memory and one pair of buffers: it is idle in
\* the pool, or with one goroutine, or gone with Close, and never two of these.
SingleOwner ==
    /\ \A i \in pool : /\ \A p \in Callers : inst[p] # i
                       /\ \A u \in Updaters : i \notin instances[u]
    /\ \A p, q \in Callers : p # q /\ inst[p] # None => inst[p] # inst[q]
    /\ \A u, v \in Updaters : u # v => instances[u] \cap instances[v] = {}
    /\ \A p \in Callers, u \in Updaters : inst[p] \notin instances[u]

\* No instance is lost: one that is not in the pool is with a call that has yet
\* to give it back, or was closed by Close.  A call that fails and keeps its
\* instance, even one that trapped, would block every later UpdateState.
NoneLost ==
    \A i \in Instances :
        \/ i \in pool
        \/ \E p \in Callers : inst[p] = i /\ pc[p] \in {"check", "evaluate", "release"}
        \/ \E u \in Updaters : /\ i \in instances[u]
                               /\ upc[u] \in {"drain", "first", "rest", "giveBack"}
        \/ closing # "open" /\ wasm[i] = Dead

\* Updating(i): UpdateState is between its first update_state and its stamps.
Updating(i) == \E u \in Updaters : upc[u] \in {"first", "rest"} /\ i \in instances[u]

\* Outside UpdateState's critical part, every instance that still runs holds
\* the configuration in force and carries the generation of the cache.
PoolUniform ==
    \A i \in Instances : ~Updating(i) =>
        /\ gen[i] = cache.generation
        /\ wasm[i] \in {current, Dead}

\* When a caller is about to call into its instance, the snapshot it takes the
\* index and the required keys from describes that instance's configuration
\* (or nothing, after a rejected update): the promise of the comment above
\* the generation check.
GuardSound ==
    \A p \in Callers : pc[p] = "evaluate" =>
        /\ snap[p].generation = gen[inst[p]]
        /\ wasm[inst[p]] # Dead => snap[p].config \in {NoConfig, wasm[inst[p]]}

\* The faults UpdateState tolerates.  It drops what updateInstance returns for
\* instances[1..], so a fault that leaves one of them with its old
\* configuration goes unnoticed; and an error from instances[0] must mean that
\* nothing was installed there.
BenignFaults ==
    /\ FirstFaults \subseteq {"notWritten", "trapped"}
    /\ RestFaults \subseteq {"trapped", "unread"}

\* UpdateState "updates the flag configuration across all WASM instances":
\* when it is about to return success, every instance that still runs holds
\* the configuration it was given.
UpdateReachesAll ==
    [][\A u \in Updaters :
          upc'[u] = "done" /\ upc[u] # "done" /\ outcome'[u] = "success"
              => \A i \in Instances : wasm'[i] \in {config[u], Dead}]_vars

\* What each caller sees of the pool is a FlagService: an evaluation is
\* answered at the lookup that hits the pre-evaluated results or at the call
\* into its instance, and a configuration comes into force at cache.Store.
CallSeen(p) ==
    [stage |-> IF pc[p] = "idle" THEN "idle"
               ELSE IF pc[p] \in {"release", "done"} THEN "answered"
               ELSE "pending",
     flag |-> flagKey[p], ctx |-> ctx[p], answer |-> result[p]]

Service == INSTANCE FlagService WITH call <- [p \in Callers |-> CallSeen(p)]

ServesOneConfiguration == Service!ServiceSpec

(***************************************************************************)
(* Liveness: unless the evaluator is closed, every call returns.           *)
(***************************************************************************)
\* An evaluation waits for an instance, at worst behind an UpdateState that
\* takes all of them, and comes back.
EveryEvaluationReturns ==
    \A p \in Callers : pc[p] # "idle" ~> (pc[p] = "idle" \/ closing # "open")

\* UpdateState gets all instances however often callers evaluate, and two
\* concurrent calls never hold half of the pool each.
EveryUpdateReturns ==
    \A u \in Updaters : upc[u] # "idle" ~> (upc[u] = "idle" \/ closing # "open")

\* A caller that has an instance comes back even while Close runs: only those
\* that still wait for one can be left waiting.
HoldersReturn == \A p \in Callers : inst[p] # None ~> pc[p] = "done"

=============================================================================
