------------------------------ MODULE JavaPool ------------------------------
(***************************************************************************)
(* The Java host (java/.../FlagEvaluator.java): threads evaluate flags on a *)
(* pool of WASM instances while others install configurations, threads are *)
(* interrupted, and one may close the evaluator.                           *)
(*                                                                         *)
(* Unlike GoPool, an update fails as a whole when any instance refuses or  *)
(* fails; the context is serialized before the wait for an instance; and   *)
(* Close leaves an instance that is in use alone.                          *)
(***************************************************************************)
EXTENDS WasmInstance

CONSTANTS
    Instances,        \* the WASM instances, as many as poolSize
    Callers,          \* threads that call evaluateFlag
    Updaters,         \* threads that call updateState
    Contexts,         \* evaluation contexts callers pass
    FirstFaults,      \* faults updateInstance may meet on instances.get(0)
    RestFaults,       \* faults it may meet on the other instances
    EvalFaults,       \* faults an evaluation may meet: "trapped", "tooLarge"
                      \* or "unserializable"
    ByIndexExported,  \* the module exports evaluate_by_index
    MayInterrupt,     \* whether threads are interrupted
    MayClose,         \* whether close is called
    MaxGeneration,    \* bound: updateState calls in progress or installed
    None

ASSUME PoolAssumption ==
    /\ Instances # {} /\ IsFiniteSet(Instances)
    /\ Contexts \subseteq SUBSET Attrs
    /\ FirstFaults \subseteq UpdateFaults /\ RestFaults \subseteq UpdateFaults
    /\ EvalFaults \subseteq {"trapped", "tooLarge", "unserializable"}
    /\ ByIndexExported \in BOOLEAN /\ MayInterrupt \in BOOLEAN /\ MayClose \in BOOLEAN
    /\ MaxGeneration \in Nat
    /\ None \notin Instances \cup Updaters

VARIABLES
    pool,         \* the idle instances in the ArrayBlockingQueue
    cache,        \* the volatile CacheSnapshot
    updateLock,   \* the updater that holds it, or None
    generation,
    wasm,         \* wasm[i]: what instance i holds; Dead once it trapped
    gen,          \* gen[i]: the generation stamped on instance i
    closed,       \* instances whose buffers close freed
    closing,      \* whether close is polling the pool
    \* each caller p, inside evaluateFlag; byContext[p] when it was called with
    \* an EvaluationContext, sent[p] the fields of the serialized context
    pc, flagKey, ctx, byContext, sent, snap, inst, result,
    \* each updater u, inside updateState
    upc, config, instances, pending, outcome,
    \* for the specification only: the configuration callers are answered from
    current

sharedVars == <<pool, cache, updateLock, generation>>
wasmVars   == <<wasm, gen>>
closeVars  == <<closed, closing>>
callVars   == <<pc, flagKey, ctx, byContext, sent, snap, inst, result>>
updateVars == <<upc, config, instances, pending, outcome>>
vars == <<sharedVars, wasmVars, closeVars, callVars, updateVars, current>>

\* A CacheSnapshot: its generation, and the configuration its maps describe.
Snapshot(g, c) == [generation |-> g, config |-> c]
Snapshots == [generation : Nat, config : Loadable]
EMPTY == Snapshot(0, NoConfig)

TypeOK ==
    /\ pool \subseteq Instances /\ closed \subseteq Instances
    /\ cache \in Snapshots
    /\ updateLock \in Updaters \cup {None}
    /\ generation \in Nat
    /\ wasm \in [Instances -> Loadable \cup {Dead}]
    /\ gen \in [Instances -> Nat]
    /\ closing \in BOOLEAN
    /\ pc \in [Callers -> {"idle", "load", "take", "check", "evaluate", "add", "done"}]
    /\ flagKey \in [Callers -> Flags \cup {0}]
    /\ ctx \in [Callers -> SUBSET Attrs]
    /\ byContext \in [Callers -> BOOLEAN]
    /\ sent \in [Callers -> SUBSET Attrs]
    /\ snap \in [Callers -> Snapshots]
    /\ inst \in [Callers -> Instances \cup {None}]
    /\ result \in [Callers -> Answers]
    /\ upc \in [Updaters -> {"idle", "lock", "drain", "first", "rest", "addAll", "done"}]
    /\ config \in [Updaters -> Submitted \cup {NoConfig}]
    /\ instances \in [Updaters -> SUBSET Instances]
    /\ pending \in [Updaters -> SUBSET Instances]
    /\ outcome \in [Updaters -> {"none", "success", "error"}]
    /\ current \in Loadable

Init ==
    /\ pool = Instances /\ closed = {}
    /\ cache = EMPTY
    /\ updateLock = None
    /\ generation = 0
    /\ wasm = [i \in Instances |-> NoConfig]
    /\ gen = [i \in Instances |-> 0]
    /\ closing = FALSE
    /\ pc = [p \in Callers |-> "idle"]
    /\ flagKey = [p \in Callers |-> 0]
    /\ ctx = [p \in Callers |-> {}]
    /\ byContext = [p \in Callers |-> FALSE]
    /\ sent = [p \in Callers |-> {}]
    /\ snap = [p \in Callers |-> EMPTY]
    /\ inst = [p \in Callers |-> None]
    /\ result = [p \in Callers |-> NotFound]
    /\ upc = [u \in Updaters |-> "idle"]
    /\ config = [u \in Updaters |-> NoConfig]
    /\ instances = [u \in Updaters |-> {}]
    /\ pending = [u \in Updaters |-> {}]
    /\ outcome = [u \in Updaters |-> "none"]
    /\ current = NoConfig

-----------------------------------------------------------------------------
(***************************************************************************)
(* evaluateFlag, with a context or with a context serialized by the caller *)
(***************************************************************************)
EvaluateFlag(p, f, c, withContext) ==
    /\ pc[p] = "idle"
    /\ pc' = [pc EXCEPT ![p] = "load"]
    /\ flagKey' = [flagKey EXCEPT ![p] = f]
    /\ ctx' = [ctx EXCEPT ![p] = c]
    /\ byContext' = [byContext EXCEPT ![p] = withContext]
    /\ UNCHANGED <<sent, snap, inst, result, sharedVars, wasmVars, closeVars,
                   updateVars, current>>

Hit(p) == flagKey[p] \in PreEvaluated(cache.config)

AnswerFromCache(p, next) ==
    /\ result' = [result EXCEPT ![p] = Evaluate(cache.config, flagKey[p], {})]
    /\ pc' = [pc EXCEPT ![p] = next]

\* The fields serializeFiltered keeps, by the keys of the snapshot s.
Filtered(p, s) ==
    IF byContext[p] /\ flagKey[p] \in RequiredKeyFlags(s.config)
    THEN ctx[p] \cap Keys[s.config][flagKey[p]]
    ELSE ctx[p]

\* The volatile read and what follows without waiting: a hit answers; an empty
\* EvaluationContext starts again as no context string; any other context is
\* serialized, with the keys of this snapshot.
Load(p) ==
    /\ pc[p] = "load"
    /\ snap' = [snap EXCEPT ![p] = cache]
    /\ \/ /\ Hit(p)
          /\ AnswerFromCache(p, "done")
          /\ UNCHANGED <<byContext, sent>>
       \/ /\ ~Hit(p)
          /\ byContext[p] /\ ctx[p] = {}
          /\ byContext' = [byContext EXCEPT ![p] = FALSE]
          /\ UNCHANGED <<pc, sent, result>>
       \/ /\ ~Hit(p)
          /\ ~(byContext[p] /\ ctx[p] = {})
          /\ sent' = [sent EXCEPT ![p] = Filtered(p, cache)]
          /\ pc' = [pc EXCEPT ![p] = "take"]
          /\ UNCHANGED <<byContext, result>>
       \/ /\ ~Hit(p)
          /\ byContext[p] /\ ctx[p] # {} /\ "unserializable" \in EvalFaults
          /\ result' = [result EXCEPT ![p] = Failed]
          /\ pc' = [pc EXCEPT ![p] = "done"]
          /\ UNCHANGED <<byContext, sent>>
    /\ UNCHANGED <<flagKey, ctx, inst, sharedVars, wasmVars, closeVars,
                   updateVars, current>>

Take(p) ==
    /\ pc[p] = "take"
    /\ \E i \in pool :
          /\ pool' = pool \ {i}
          /\ inst' = [inst EXCEPT ![p] = i]
    /\ pc' = [pc EXCEPT ![p] = "check"]
    /\ UNCHANGED <<flagKey, ctx, byContext, sent, snap, result, cache, updateLock,
                   generation, wasmVars, closeVars, updateVars, current>>

\* pool.take() throws InterruptedException.
TakeInterrupted(p) ==
    /\ MayInterrupt
    /\ pc[p] = "take"
    /\ result' = [result EXCEPT ![p] = Failed]
    /\ pc' = [pc EXCEPT ![p] = "done"]
    /\ UNCHANGED <<flagKey, ctx, byContext, sent, snap, inst, sharedVars, wasmVars,
                   closeVars, updateVars, current>>

\* Mutant of CheckGeneration: the cache is not reloaded.
MutantNoGuard(p) ==
    /\ pc[p] = "check"
    /\ pc' = [pc EXCEPT ![p] = "evaluate"]
    /\ UNCHANGED <<flagKey, ctx, byContext, sent, snap, inst, result, sharedVars,
                   wasmVars, closeVars, updateVars, current>>

\* The generation guard: the cache is reloaded; the context is what it was.
CheckGeneration(p) ==
    /\ pc[p] = "check"
    /\ \/ /\ snap[p].generation = gen[inst[p]]
          /\ pc' = [pc EXCEPT ![p] = "evaluate"]
          /\ UNCHANGED <<snap, result>>
       \/ /\ snap[p].generation # gen[inst[p]]
          /\ snap' = [snap EXCEPT ![p] = cache]
          /\ IF Hit(p) THEN AnswerFromCache(p, "add")
             ELSE /\ pc' = [pc EXCEPT ![p] = "evaluate"]
                  /\ UNCHANGED result
    /\ UNCHANGED <<flagKey, ctx, byContext, sent, inst, sharedVars, wasmVars,
                   closeVars, updateVars, current>>

\* evaluate_by_index for an EvaluationContext when the snapshot has an index and
\* required keys, evaluate_reusable otherwise.
CallWasm(p) ==
    LET c == wasm[inst[p]]
        f == flagKey[p]
        known == snap[p].config
    IN  IF /\ byContext[p] /\ ByIndexExported
           /\ f \in FlagsOf(known) \cap RequiredKeyFlags(known)
        THEN EvaluateByIndex(c, FlagIndex(known, f), sent[p])
        ELSE Evaluate(c, f, sent[p])

EvaluateOnInstance(p) ==
    /\ pc[p] = "evaluate"
    /\ wasm[inst[p]] # Dead
    /\ result' = [result EXCEPT ![p] = CallWasm(p)]
    /\ pc' = [pc EXCEPT ![p] = "add"]
    /\ UNCHANGED <<flagKey, ctx, byContext, sent, snap, inst, sharedVars, wasmVars,
                   closeVars, updateVars, current>>

EvaluateFails(p) ==
    /\ pc[p] = "evaluate"
    /\ \/ /\ wasm[inst[p]] = Dead \/ "tooLarge" \in EvalFaults
          /\ UNCHANGED wasm
       \/ /\ "trapped" \in EvalFaults
          /\ wasm' = [wasm EXCEPT ![inst[p]] = Dead]
    /\ result' = [result EXCEPT ![p] = Failed]
    /\ pc' = [pc EXCEPT ![p] = "add"]
    /\ UNCHANGED <<flagKey, ctx, byContext, sent, snap, inst, gen, sharedVars,
                   closeVars, updateVars, current>>

\* finally pool.add(inst)
Add(p) ==
    /\ pc[p] = "add"
    /\ pool' = pool \cup {inst[p]}
    /\ inst' = [inst EXCEPT ![p] = None]
    /\ pc' = [pc EXCEPT ![p] = "done"]
    /\ UNCHANGED <<flagKey, ctx, byContext, sent, snap, result, cache, updateLock,
                   generation, wasmVars, closeVars, updateVars, current>>

EvaluateReturns(p) ==
    /\ pc[p] = "done"
    /\ pc' = [pc EXCEPT ![p] = "idle"]
    /\ flagKey' = [flagKey EXCEPT ![p] = 0]
    /\ ctx' = [ctx EXCEPT ![p] = {}]
    /\ byContext' = [byContext EXCEPT ![p] = FALSE]
    /\ sent' = [sent EXCEPT ![p] = {}]
    /\ snap' = [snap EXCEPT ![p] = EMPTY]
    /\ result' = [result EXCEPT ![p] = NotFound]
    /\ UNCHANGED <<inst, sharedVars, wasmVars, closeVars, updateVars, current>>

-----------------------------------------------------------------------------
(***************************************************************************)
(* updateState                                                             *)
(***************************************************************************)
UpdateState(u, c) ==
    /\ upc[u] = "idle"
    /\ generation + Cardinality({v \in Updaters : upc[v] # "idle"}) < MaxGeneration
    /\ upc' = [upc EXCEPT ![u] = "lock"]
    /\ config' = [config EXCEPT ![u] = c]
    /\ UNCHANGED <<instances, pending, outcome, sharedVars, wasmVars, closeVars,
                   callVars, current>>

\* updateLock.lock() and the size check, which throws and so unlocks.
Lock(u) ==
    /\ upc[u] = "lock"
    /\ updateLock = None
    /\ IF config[u] = Oversized
       THEN /\ upc' = [upc EXCEPT ![u] = "done"]
            /\ outcome' = [outcome EXCEPT ![u] = "error"]
            /\ UNCHANGED updateLock
       ELSE /\ upc' = [upc EXCEPT ![u] = "drain"]
            /\ updateLock' = u
            /\ UNCHANGED outcome
    /\ UNCHANGED <<config, instances, pending, pool, cache, generation, wasmVars,
                   closeVars, callVars, current>>

Drain(u) ==
    /\ upc[u] = "drain"
    /\ \E i \in pool :
          /\ pool' = pool \ {i}
          /\ instances' = [instances EXCEPT ![u] = @ \cup {i}]
          /\ upc' = IF instances[u] \cup {i} = Instances
                    THEN [upc EXCEPT ![u] = "first"] ELSE upc
    /\ UNCHANGED <<config, pending, outcome, cache, updateLock, generation,
                   wasmVars, closeVars, callVars, current>>

\* Mutant of DrainInterrupted: the drained instances are not added back.
MutantDropDrained(u) ==
    /\ MayInterrupt
    /\ upc[u] = "drain"
    /\ upc' = [upc EXCEPT ![u] = "addAll"]
    /\ outcome' = [outcome EXCEPT ![u] = "error"]
    /\ instances' = [instances EXCEPT ![u] = {}]
    /\ UNCHANGED <<config, pending, sharedVars, wasmVars, closeVars, callVars,
                   current>>

\* pool.take() throws: the drained instances go back.
DrainInterrupted(u) ==
    /\ MayInterrupt
    /\ upc[u] = "drain"
    /\ upc' = [upc EXCEPT ![u] = "addAll"]
    /\ outcome' = [outcome EXCEPT ![u] = "error"]
    /\ UNCHANGED <<config, instances, pending, sharedVars, wasmVars, closeVars,
                   callVars, current>>

\* Mutant of UpdateInstance: success:false is not looked at.
MutantIgnoreSuccess(u, i, f) ==
    /\ wasm' = [wasm EXCEPT ![i] = AfterUpdate(wasm[i], config[u], f)]
    /\ outcome' = IF UpdateResult(wasm[i], config[u], f) # "error" THEN outcome
                  ELSE [outcome EXCEPT ![u] = "error"]

\* updateInstance throws on an error and on success:false alike.
UpdateInstance(u, i, f) ==
    /\ wasm' = [wasm EXCEPT ![i] = AfterUpdate(wasm[i], config[u], f)]
    /\ outcome' = IF UpdateResult(wasm[i], config[u], f) = "success" THEN outcome
                  ELSE [outcome EXCEPT ![u] = "error"]

UpdateFirst(u) ==
    /\ upc[u] = "first"
    /\ \E i \in instances[u], f \in FirstFaults \cup {"ok"} :
          /\ UpdateInstance(u, i, f)
          /\ pending' = [pending EXCEPT ![u] = instances[u] \ {i}]
    /\ upc' = [upc EXCEPT ![u] = IF outcome'[u] = "error" THEN "addAll" ELSE "rest"]
    /\ UNCHANGED <<config, instances, gen, sharedVars, closeVars, callVars, current>>

\* Mutant of UpdateRest: what the asynchronous updates throw is dropped.
MutantIgnoreFutures(u) ==
    /\ upc[u] = "rest"
    /\ \E i \in pending[u], f \in RestFaults \cup {"ok"} :
          /\ wasm' = [wasm EXCEPT ![i] = AfterUpdate(wasm[i], config[u], f)]
          /\ pending' = [pending EXCEPT ![u] = @ \ {i}]
    /\ UNCHANGED <<upc, config, instances, outcome, gen, sharedVars, closeVars,
                   callVars, current>>

\* One of the asynchronous updates ends.
UpdateRest(u) ==
    /\ upc[u] = "rest"
    /\ \E i \in pending[u], f \in RestFaults \cup {"ok"} :
          /\ UpdateInstance(u, i, f)
          /\ pending' = [pending EXCEPT ![u] = @ \ {i}]
    /\ UNCHANGED <<upc, config, instances, gen, sharedVars, closeVars, callVars,
                   current>>

\* join() rethrows once all futures are done.
JoinThrows(u) ==
    /\ upc[u] = "rest"
    /\ pending[u] = {}
    /\ outcome[u] = "error"
    /\ upc' = [upc EXCEPT ![u] = "addAll"]
    /\ UNCHANGED <<config, instances, pending, outcome, sharedVars, wasmVars,
                   closeVars, callVars, current>>

\* Mutant of Publish: the instances are not stamped.
MutantNoStamp(u) ==
    /\ upc[u] = "rest"
    /\ pending[u] = {}
    /\ outcome[u] # "error"
    /\ generation' = generation + 1
    /\ cache' = Snapshot(generation + 1, config[u])
    /\ current' = config[u]
    /\ outcome' = [outcome EXCEPT ![u] = "success"]
    /\ upc' = [upc EXCEPT ![u] = "addAll"]
    /\ UNCHANGED <<config, instances, pending, pool, updateLock, gen, wasm,
                   closeVars, callVars>>

\* The new generation, the stamps and the volatile write, at which the update
\* takes effect.
Publish(u) ==
    /\ upc[u] = "rest"
    /\ pending[u] = {}
    /\ outcome[u] # "error"
    /\ generation' = generation + 1
    /\ gen' = [i \in Instances |-> IF i \in instances[u] THEN generation + 1 ELSE gen[i]]
    /\ cache' = Snapshot(generation + 1, config[u])
    /\ current' = config[u]
    /\ outcome' = [outcome EXCEPT ![u] = "success"]
    /\ upc' = [upc EXCEPT ![u] = "addAll"]
    /\ UNCHANGED <<config, instances, pending, pool, updateLock, wasm, closeVars,
                   callVars>>

AddAll(u) ==
    /\ upc[u] = "addAll"
    /\ \E i \in instances[u] :
          /\ pool' = pool \cup {i}
          /\ instances' = [instances EXCEPT ![u] = @ \ {i}]
    /\ UNCHANGED <<upc, config, pending, outcome, cache, updateLock, generation,
                   wasmVars, closeVars, callVars, current>>

Unlock(u) ==
    /\ upc[u] = "addAll"
    /\ instances[u] = {}
    /\ updateLock' = None
    /\ upc' = [upc EXCEPT ![u] = "done"]
    /\ UNCHANGED <<config, instances, pending, outcome, pool, cache, generation,
                   wasmVars, closeVars, callVars, current>>

UpdateReturns(u) ==
    /\ upc[u] = "done"
    /\ upc' = [upc EXCEPT ![u] = "idle"]
    /\ config' = [config EXCEPT ![u] = NoConfig]
    /\ pending' = [pending EXCEPT ![u] = {}]
    /\ outcome' = [outcome EXCEPT ![u] = "none"]
    /\ UNCHANGED <<instances, sharedVars, wasmVars, closeVars, callVars, current>>

-----------------------------------------------------------------------------
(***************************************************************************)
(* close                                                                   *)
(***************************************************************************)
Close ==
    /\ MayClose
    /\ ~closing
    /\ closing' = TRUE
    /\ UNCHANGED <<closed, sharedVars, wasmVars, callVars, updateVars, current>>

\* Mutant of ClosePolled: it looks at the idle instances without taking them.
MutantPeek ==
    /\ closing
    /\ \E i \in pool \ closed : closed' = closed \cup {i}
    /\ UNCHANGED <<closing, sharedVars, wasmVars, callVars, updateVars, current>>

\* pool.poll() until it returns null.
ClosePolled ==
    /\ closing
    /\ \E i \in pool : pool' = pool \ {i} /\ closed' = closed \cup {i}
    /\ UNCHANGED <<closing, cache, updateLock, generation, wasmVars, callVars,
                   updateVars, current>>

CloseEnds ==
    /\ closing
    /\ pool = {}
    /\ closing' = FALSE
    /\ UNCHANGED <<closed, sharedVars, wasmVars, callVars, updateVars, current>>

-----------------------------------------------------------------------------
Evaluation(p) ==
    \/ Load(p) \/ Take(p) \/ TakeInterrupted(p) \/ CheckGeneration(p)
    \/ EvaluateOnInstance(p) \/ EvaluateFails(p) \/ Add(p) \/ EvaluateReturns(p)

Update(u) ==
    \/ Lock(u) \/ Drain(u) \/ DrainInterrupted(u) \/ UpdateFirst(u) \/ UpdateRest(u)
    \/ JoinThrows(u) \/ Publish(u) \/ AddAll(u) \/ Unlock(u) \/ UpdateReturns(u)

Next ==
    \/ \E p \in Callers, f \in Flags, c \in Contexts, b \in BOOLEAN :
          EvaluateFlag(p, f, c, b)
    \/ \E p \in Callers : Evaluation(p)
    \/ \E u \in Updaters, c \in Submitted : UpdateState(u, c)
    \/ \E u \in Updaters : Update(u)
    \/ Close \/ ClosePolled \/ CloseEnds

Spec == Init /\ [][Next]_vars

-----------------------------------------------------------------------------
(***************************************************************************)
(* Properties                                                              *)
(***************************************************************************)
\* Each instance is in exactly one place: idle in the pool, with one thread, or
\* closed.  So no thread works in the buffers of another one or in freed ones,
\* and no instance is lost to an interrupt, an error or a failed update.
OnePlace ==
    /\ \A i \in Instances :
          \/ i \in pool \cup closed
          \/ \E p \in Callers : inst[p] = i
          \/ \E u \in Updaters : i \in instances[u]
    /\ pool \cap closed = {}
    /\ \A p \in Callers : inst[p] \notin pool \cup closed
    /\ \A u \in Updaters : instances[u] \cap (pool \cup closed) = {}
    /\ \A p \in Callers, u \in Updaters : inst[p] \notin instances[u]
    /\ \A p, q \in Callers : p # q /\ inst[p] # None => inst[p] # inst[q]
    /\ \A u, v \in Updaters : u # v => instances[u] \cap instances[v] = {}

\* An updateState that returns has put its configuration on every instance that
\* still runs, whatever went wrong: any failure makes it throw.
UpdateReachesAll ==
    [][\A u \in Updaters :
          upc'[u] = "done" /\ upc[u] # "done" /\ outcome'[u] = "success"
              => \A i \in Instances : wasm'[i] \in {config[u], Dead}]_vars

\* The faults under which a failed update leaves all instances as they were: it
\* fails on the first instance, or not at all.
CleanFaults ==
    /\ FirstFaults \subseteq {"notWritten", "refused"}
    /\ RestFaults = {}
    /\ "trapped" \notin EvalFaults

\* When a caller calls into its instance, its snapshot describes what the
\* instance holds, as the comment above the generation guard says.
GuardSound ==
    \A p \in Callers : pc[p] = "evaluate" =>
        /\ snap[p].generation = gen[inst[p]]
        /\ snap[p].config = wasm[inst[p]]

\* The comment in the guard of evaluateFlag: "Re-resolve required keys from new
\* cache".  The context a caller sends has at least the fields those keys ask for.
ContextFitsKeys ==
    \A p \in Callers : pc[p] = "evaluate" => Filtered(p, snap[p]) \subseteq sent[p]

\* What one configuration says a flag needs covers what it reads in any other.
KeysAgree ==
    \A c, d \in Configs : \A f \in Extracted[c] :
        Kind[d][f] = "targeting" => Reads[d][f] \subseteq Keys[c][f]

\* What callers see of the pool is a FlagService, as in GoPool, under KeysAgree.
CallSeen(p) ==
    [stage |-> IF pc[p] = "idle" THEN "idle"
               ELSE IF pc[p] \in {"add", "done"} THEN "answered"
               ELSE "pending",
     flag |-> flagKey[p], ctx |-> ctx[p], answer |-> result[p]]

Service == INSTANCE FlagService WITH call <- [p \in Callers |-> CallSeen(p)]

ServesOneConfiguration == Service!ServiceSpec

=============================================================================
