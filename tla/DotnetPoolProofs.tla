--------------------------- MODULE DotnetPoolProofs ---------------------------
(***************************************************************************)
(* Invariance and refinement proofs for DotnetPool, for any number of      *)
(* instances, callers, updaters and configurations, every fault of the     *)
(* first instance and every moment of Dispose.                             *)
(***************************************************************************)
EXTENDS DotnetPool, FlagConfigProofs

\* What an update reports, as far as it has come.
OutcomeOK ==
    \A u \in Updaters :
        /\ upc[u] \in {"idle", "lock", "drain", "first"} => outcome[u] = "none"
        /\ upc[u] = "rest" => outcome[u] \in {"none", "error"} /\ config[u] \in Configs
        /\ upc[u] # "idle" => config[u] \in Submitted

Typed == TypeOK /\ OutcomeOK

\* CallUpdateState succeeds only on a configuration it then holds.
LEMMA CallSucceeds ==
    ASSUME NEW w, NEW c, NEW f, CallResult(w, c, f) = "success"
    PROVE  c \in Configs /\ AfterCall(w, c, f) = c
BY DEF CallResult, AfterCall, UpdateResult, AfterUpdate

LEMMA CallTypes ==
    ASSUME NEW w \in Loadable \cup {Dead}, NEW c, NEW f
    PROVE  /\ AfterCall(w, c, f) \in Loadable \cup {Dead}
           /\ CallResult(w, c, f) \in {"success", "failure", "error"}
BY DEF AfterCall, CallResult, AfterUpdate, UpdateResult, Loadable

LEMMA CallWasmType ==
    ASSUME TypeOK, NEW p \in Callers, inst[p] \in Instances, wasm[inst[p]] # Dead
    PROVE  CallWasm(p) \in Answers
<1>1. wasm[inst[p]] \in Loadable
  BY DEF TypeOK
<1>2. SentContext(p) \in SUBSET Attrs
  BY DEF TypeOK, SentContext
<1>3. QED
  BY <1>1, <1>2, AnswerTypes DEF CallWasm

\* A change of what is in force is well typed, and only adds to what the calls
\* in progress have seen.
LEMMA InForceTypes ==
    ASSUME TypeOK, NEW c \in Loadable \cup {Mixed}, InForce(c)
    PROVE  /\ current' = c
           /\ during' \in [Callers -> SUBSET (Loadable \cup {Mixed})]
           /\ \A p \in Callers : pc[p] # "idle" => during'[p] = during[p] \cup {c}
BY DEF TypeOK, InForce

\* An update that publishes nothing leaves one configuration in force only when
\* every instance that runs still holds it.
LEMMA AbandonFacts ==
    ASSUME TypeOK, Abandon
    PROVE  /\ current' \in {current, Mixed}
           /\ current' # Mixed => \A i \in Instances : wasm'[i] \in {current, Dead}
           /\ during' \in [Callers -> SUBSET (Loadable \cup {Mixed})]
           /\ \A p \in Callers : pc[p] # "idle" => during'[p] = during[p] \cup {current'}
<1>1. CASE \A i \in Instances : wasm'[i] \in {current, Dead}
  <2>1. InForce(current)
    BY <1>1 DEF Abandon
  <2>2. current \in Loadable \cup {Mixed}
    BY DEF TypeOK
  <2>3. QED
    BY <1>1, <2>1, <2>2, InForceTypes
<1>2. CASE ~(\A i \in Instances : wasm'[i] \in {current, Dead})
  <2>1. InForce(Mixed)
    BY <1>2 DEF Abandon
  <2>2. QED
    BY <2>1, InForceTypes
<1>3. QED
  BY <1>1, <1>2

\* A caller has an instance exactly from Take to Add.
HolderPhase ==
    \A p \in Callers :
        inst[p] \in Instances <=> pc[p] \in {"check", "evaluate", "add"}

\* An updater has the lock exactly from Lock to Unlock, or to the exception of a
\* disposed pool, and while it has it the instances it drained; it calls
\* update_state once it has all of them.
UpdaterPhase ==
    \A u \in Updaters :
        /\ upc[u] \in {"drain", "first", "rest", "addAll"} <=> updateLock = u
        /\ instances[u] # {} => updateLock = u
        /\ upc[u] \in {"first", "rest"} => instances[u] = Instances

Ownership == HolderPhase /\ UpdaterPhase /\ OneHolder /\ NoneLost

-----------------------------------------------------------------------------
(***************************************************************************)
(* Types                                                                   *)
(***************************************************************************)
LEMMA TypedInit == Init => Typed
<1>1. EmptySnapshot \in Snapshots /\ NoConfig \in Loadable /\ NotFound \in Answers
  BY AnswerTypes DEF EmptySnapshot, Snapshot, Snapshots, Loadable
<1>2. ASSUME Init PROVE TypeOK
  <2>1. /\ inst \in [Callers -> Instances \cup {None}]
        /\ result \in [Callers -> Answers] /\ snap \in [Callers -> Snapshots]
        /\ flagKey \in [Callers -> Flags \cup {0}]
        /\ ctx \in [Callers -> SUBSET Attrs]
        /\ during \in [Callers -> SUBSET (Loadable \cup {Mixed})]
    BY <1>1, <1>2 DEF Init
  <2>2. /\ instances \in [Updaters -> SUBSET Instances]
        /\ pending \in [Updaters -> SUBSET Instances]
        /\ config \in [Updaters -> Submitted \cup {NoConfig}]
    BY <1>2 DEF Init
  <2>3. QED
    BY <1>1, <1>2, <2>1, <2>2 DEF Init, TypeOK
<1>3. Init => OutcomeOK
  BY DEF Init, OutcomeOK
<1>4. QED
  BY <1>2, <1>3 DEF Typed

\* Steps of a caller.
LEMMA TypedEvaluation ==
    ASSUME Typed, HolderPhase, NEW p \in Callers, Evaluation(p)
    PROVE  Typed'
<1> USE DEF Typed, TypeOK, OutcomeOK, sharedVars, wasmVars, updateVars, disposeVars,
            specVars
<1>1. NotFound \in Answers /\ Failed \in Answers
  BY AnswerTypes DEF Loadable
<1>2. Evaluate(cache.config, flagKey[p], {}) \in Answers
  <2>1. cache.config \in Loadable
    BY DEF Snapshots
  <2>2. QED
    BY <2>1, AnswerTypes
<1>3. CASE Load(p)
  <2>1. /\ snap' = [snap EXCEPT ![p] = cache]
        /\ pc' = [pc EXCEPT ![p] = "done"] \/ pc' = [pc EXCEPT ![p] = "take"]
        /\ \/ UNCHANGED result
           \/ result' = [result EXCEPT ![p] = Evaluate(cache.config, flagKey[p], {})]
        /\ UNCHANGED <<flagKey, ctx, inst, sharedVars, wasmVars, disposeVars,
                       updateVars, specVars>>
    BY <1>3 DEF Load, AnswerFromCache
  <2>2. QED
    BY <1>2, <2>1
<1>4. CASE Take(p)
  BY <1>4 DEF Take
<1>5. CASE TakeThrows(p)
  BY <1>1, <1>5 DEF TakeThrows
<1>6. CASE CheckGeneration(p)
  <2>1. /\ UNCHANGED snap \/ snap' = [snap EXCEPT ![p] = cache]
        /\ pc' = [pc EXCEPT ![p] = "evaluate"] \/ pc' = [pc EXCEPT ![p] = "add"]
        /\ \/ UNCHANGED result
           \/ result' = [result EXCEPT ![p] = Evaluate(cache.config, flagKey[p], {})]
        /\ UNCHANGED <<flagKey, ctx, inst, sharedVars, wasmVars, disposeVars,
                       updateVars, specVars>>
    BY <1>6 DEF CheckGeneration, AnswerFromCache
  <2>2. QED
    BY <1>2, <2>1
<1>7. CASE EvaluateOnInstance(p)
  <2>1. CallWasm(p) \in Answers
    BY <1>7, CallWasmType DEF EvaluateOnInstance, HolderPhase
  <2>2. QED
    BY <1>7, <2>1 DEF EvaluateOnInstance
<1>8. CASE EvaluateThrows(p)
  BY <1>1, <1>8 DEF EvaluateThrows
<1>9. CASE Add(p)
  BY <1>9 DEF Add, HolderPhase
<1>10. CASE AddThrows(p)
  BY <1>1, <1>10 DEF AddThrows
<1>11. CASE EvaluateReturns(p)
  BY <1>1, <1>11 DEF EvaluateReturns, EmptySnapshot, Snapshot, Snapshots, Loadable
<1>12. QED
  BY <1>3, <1>4, <1>5, <1>6, <1>7, <1>8, <1>9, <1>10, <1>11 DEF Evaluation

\* What UpdateFirst does, with the instance it takes for instances[0].
LEMMA FirstFacts ==
    ASSUME Typed, NEW u \in Updaters, UpdateFirst(u)
    PROVE  /\ upc[u] = "first" /\ outcome[u] = "none"
           /\ UNCHANGED <<config, instances, gen, sharedVars, disposeVars, callVars>>
           /\ \E i \in instances[u] : \E v \in Loadable \cup {Dead} :
                 /\ wasm' = [wasm EXCEPT ![i] = v]
                 /\ \/ /\ config[u] \in Configs /\ v = config[u]
                       /\ pending' = [pending EXCEPT ![u] = instances[u] \ {i}]
                       /\ upc' = [upc EXCEPT ![u] = "rest"]
                       /\ UNCHANGED <<outcome, specVars>>
                    \/ /\ \E r \in {"failure", "error"} :
                             outcome' = [outcome EXCEPT ![u] = r]
                       /\ upc' = [upc EXCEPT ![u] = "addAll"]
                       /\ Abandon
                       /\ UNCHANGED pending
<1>1. /\ upc[u] = "first" /\ outcome[u] = "none"
      /\ UNCHANGED <<config, instances, gen, sharedVars, disposeVars, callVars>>
  BY DEF UpdateFirst, Typed, OutcomeOK
<1>2. PICK i \in instances[u], f \in FirstFaults \cup {"ok"} :
          /\ wasm' = [wasm EXCEPT ![i] = AfterCall(wasm[i], config[u], f)]
          /\ \/ /\ CallResult(wasm[i], config[u], f) = "success"
                /\ pending' = [pending EXCEPT ![u] = instances[u] \ {i}]
                /\ upc' = [upc EXCEPT ![u] = "rest"]
                /\ UNCHANGED <<outcome, specVars>>
             \/ /\ CallResult(wasm[i], config[u], f) # "success"
                /\ outcome' = [outcome EXCEPT ![u] = CallResult(wasm[i], config[u], f)]
                /\ upc' = [upc EXCEPT ![u] = "addAll"]
                /\ Abandon
                /\ UNCHANGED pending
  BY DEF UpdateFirst
<1>3. wasm[i] \in Loadable \cup {Dead}
  BY DEF Typed, TypeOK
<1>4. /\ AfterCall(wasm[i], config[u], f) \in Loadable \cup {Dead}
      /\ CallResult(wasm[i], config[u], f) \in {"success", "failure", "error"}
  BY <1>3, CallTypes
<1>5. CallResult(wasm[i], config[u], f) = "success" =>
          config[u] \in Configs /\ AfterCall(wasm[i], config[u], f) = config[u]
  BY CallSucceeds
<1>6. QED
  BY <1>1, <1>2, <1>4, <1>5

\* What one iteration of Parallel.For does.  Without a refusal, which nobody
\* looks at, it either installs the configuration or ends in an exception.
LEMMA RestFacts ==
    ASSUME Typed, NEW u \in Updaters, UpdateRest(u)
    PROVE  /\ upc[u] = "rest"
           /\ UNCHANGED <<upc, config, instances, gen, sharedVars, disposeVars, callVars,
                          specVars>>
           /\ \E i \in pending[u] : \E v \in Loadable \cup {Dead} :
                 /\ wasm' = [wasm EXCEPT ![i] = v]
                 /\ pending' = [pending EXCEPT ![u] = @ \ {i}]
                 /\ \/ UNCHANGED outcome /\ ("refused" \notin RestFaults => v = config[u])
                    \/ outcome' = [outcome EXCEPT ![u] = "error"]
<1>1. /\ upc[u] = "rest" /\ config[u] \in Configs
      /\ UNCHANGED <<upc, config, instances, gen, sharedVars, disposeVars, callVars,
                     specVars>>
  BY DEF UpdateRest, Typed, OutcomeOK
<1>2. PICK i \in pending[u], f \in RestFaults \cup {"ok"} :
          /\ wasm' = [wasm EXCEPT ![i] = AfterCall(wasm[i], config[u], f)]
          /\ outcome' = IF CallResult(wasm[i], config[u], f) = "error"
                        THEN [outcome EXCEPT ![u] = "error"] ELSE outcome
          /\ pending' = [pending EXCEPT ![u] = @ \ {i}]
  BY DEF UpdateRest
<1>3. wasm[i] \in Loadable \cup {Dead}
  BY DEF Typed, TypeOK
<1>4. AfterCall(wasm[i], config[u], f) \in Loadable \cup {Dead}
  BY <1>3, CallTypes
<1>5. CallResult(wasm[i], config[u], f) # "error" /\ f # "refused" =>
          AfterCall(wasm[i], config[u], f) = config[u]
  BY <1>1, InstanceAssumption
     DEF CallResult, AfterCall, UpdateResult, AfterUpdate, FaultOf, Loadable
<1>6. QED
  BY <1>1, <1>2, <1>4, <1>5

\* Steps of an updater.
LEMMA TypedUpdate ==
    ASSUME Typed, NEW u \in Updaters, Update(u)
    PROVE  Typed'
<1> USE DEF Typed, TypeOK, OutcomeOK, sharedVars, wasmVars, callVars, disposeVars,
            specVars
<1>1. CASE Lock(u)
  BY <1>1 DEF Lock
<1>2. CASE Drain(u)
  BY <1>2 DEF Drain
<1>3. CASE DrainThrows(u)
  BY <1>3 DEF DrainThrows
<1>4. CASE UpdateFirst(u)
  <2>1. /\ upc[u] = "first"
        /\ UNCHANGED <<config, instances, gen, sharedVars, disposeVars, callVars>>
    BY <1>4, FirstFacts
  <2>2. PICK i \in instances[u], v \in Loadable \cup {Dead} :
              /\ wasm' = [wasm EXCEPT ![i] = v]
              /\ \/ /\ config[u] \in Configs /\ v = config[u]
                    /\ pending' = [pending EXCEPT ![u] = instances[u] \ {i}]
                    /\ upc' = [upc EXCEPT ![u] = "rest"]
                    /\ UNCHANGED <<outcome, specVars>>
                 \/ /\ \E r \in {"failure", "error"} :
                          outcome' = [outcome EXCEPT ![u] = r]
                    /\ upc' = [upc EXCEPT ![u] = "addAll"]
                    /\ Abandon
                    /\ UNCHANGED pending
    BY <1>4, FirstFacts
  <2>3. CASE upc' = [upc EXCEPT ![u] = "rest"]
    BY <2>1, <2>2, <2>3
  <2>4. CASE Abandon
    <3>1. /\ current' \in Loadable \cup {Mixed}
          /\ during' \in [Callers -> SUBSET (Loadable \cup {Mixed})]
      BY <2>4, AbandonFacts
    <3>2. /\ wasm' \in [Instances -> Loadable \cup {Dead}]
          /\ upc' \in [Updaters -> {"idle", "lock", "drain", "first", "rest", "addAll", "done"}]
          /\ pending' \in [Updaters -> SUBSET Instances]
          /\ outcome' \in [Updaters -> {"none", "success", "failure", "error"}]
      BY <2>1, <2>2
    <3>3. OutcomeOK'
      BY <2>1, <2>2
    <3>4. QED
      BY <2>1, <3>1, <3>2, <3>3
  <2>5. QED
    BY <2>2, <2>3, <2>4
<1>5. CASE UpdateRest(u)
  <2>1. /\ upc[u] = "rest"
        /\ UNCHANGED <<upc, config, instances, gen, sharedVars, disposeVars, callVars,
                       specVars>>
    BY <1>5, RestFacts
  <2>2. PICK i \in pending[u], v \in Loadable \cup {Dead} :
              /\ wasm' = [wasm EXCEPT ![i] = v]
              /\ pending' = [pending EXCEPT ![u] = @ \ {i}]
              /\ \/ UNCHANGED outcome /\ ("refused" \notin RestFaults => v = config[u])
                 \/ outcome' = [outcome EXCEPT ![u] = "error"]
    BY <1>5, RestFacts DEF Typed
  <2>3. QED
    BY <2>1, <2>2
<1>6. CASE ParallelForThrows(u)
  <2>1. /\ current' \in Loadable \cup {Mixed}
        /\ during' \in [Callers -> SUBSET (Loadable \cup {Mixed})]
    BY <1>6, AbandonFacts DEF ParallelForThrows
  <2>2. QED
    BY <1>6, <2>1 DEF ParallelForThrows
<1>7. CASE Publish(u)
  <2>1. config[u] \in Loadable /\ generation + 1 \in Nat
    BY <1>7 DEF Publish, Loadable
  <2>2. Snapshot(generation + 1, config[u]) \in Snapshots
    BY <2>1 DEF Snapshot, Snapshots
  <2>3. /\ current' \in Loadable \cup {Mixed}
        /\ during' \in [Callers -> SUBSET (Loadable \cup {Mixed})]
    BY <1>7, <2>1, InForceTypes DEF Publish
  <2>4. QED
    BY <1>7, <2>1, <2>2, <2>3 DEF Publish
<1>8. CASE AddAll(u)
  BY <1>8 DEF AddAll
<1>9. CASE AddAllThrows(u)
  BY <1>9 DEF AddAllThrows
<1>10. CASE Unlock(u)
  BY <1>10 DEF Unlock
<1>11. CASE UpdateReturns(u)
  BY <1>11 DEF UpdateReturns
<1>12. QED
  BY <1>1, <1>2, <1>3, <1>4, <1>5, <1>6, <1>7, <1>8, <1>9, <1>10, <1>11 DEF Update

\* Dispose has a number of slots to try.
LEMMA TypedDispose ==
    ASSUME Typed, Dispose \/ DisposeTaken \/ DisposeTimesOut \/ DisposePool
    PROVE  Typed'
<1> USE DEF Typed, TypeOK, OutcomeOK, sharedVars, wasmVars, callVars, updateVars,
            disposeVars, specVars
<1>1. Cardinality(Instances) \in Nat
  BY DotnetAssumption, FS_CardinalityType
<1>2. CASE Dispose
  BY <1>1, <1>2 DEF Dispose
<1>3. CASE DisposeTaken
  <2>1. slots' \in Nat
    BY <1>3 DEF DisposeTaken, Slot
  <2>2. QED
    BY <1>3, <2>1 DEF DisposeTaken
<1>4. CASE DisposeTimesOut
  <2>1. slots' \in Nat
    BY <1>4 DEF DisposeTimesOut, Slot
  <2>2. QED
    BY <1>4, <2>1 DEF DisposeTimesOut
<1>5. CASE DisposePool
  BY <1>5 DEF DisposePool
<1>6. QED
  BY <1>2, <1>3, <1>4, <1>5

LEMMA TypedStep ==
    ASSUME Typed, HolderPhase, [Next]_vars
    PROVE  Typed'
<1> USE DEF Typed, TypeOK, OutcomeOK
<1>1. ASSUME NEW p \in Callers, NEW f \in Flags, NEW c \in Contexts,
             EvaluateFlag(p, f, c)
      PROVE  Typed'
  BY <1>1, DotnetAssumption
     DEF EvaluateFlag, sharedVars, wasmVars, updateVars, disposeVars
<1>2. ASSUME NEW u \in Updaters, NEW c \in Submitted, UpdateState(u, c)
      PROVE  Typed'
  BY <1>2 DEF UpdateState, sharedVars, wasmVars, callVars, disposeVars, specVars
<1>3. CASE UNCHANGED vars
  BY <1>3 DEF vars, sharedVars, wasmVars, callVars, updateVars, disposeVars, specVars
<1> HIDE DEF Typed, TypeOK, OutcomeOK
<1>4. QED
  BY <1>1, <1>2, <1>3, TypedEvaluation, TypedUpdate, TypedDispose DEF Next

-----------------------------------------------------------------------------
(***************************************************************************)
(* Ownership                                                               *)
(***************************************************************************)
LEMMA OwnershipInit == Init => Ownership
BY DotnetAssumption
   DEF Init, Ownership, HolderPhase, UpdaterPhase, OneHolder, NoneLost

LEMMA SamePlaces ==
    ASSUME OneHolder, NoneLost, UNCHANGED <<pool, disposed, inst, instances, poolDisposed>>
    PROVE  OneHolder' /\ NoneLost'
BY DEF OneHolder, NoneLost

\* What becomes of the places of the instances when caller p changes pc and
\* neither takes an instance nor gives one back.
LEMMA OwnershipKept ==
    ASSUME Typed, Ownership, NEW p \in Callers, NEW n,
           pc' = [pc EXCEPT ![p] = n],
           pc[p] \in {"check", "evaluate", "add"} <=> n \in {"check", "evaluate", "add"},
           UNCHANGED <<inst, pool, disposed, poolDisposed, updateLock, upc, instances>>
    PROVE  Ownership'
<1>1. HolderPhase' /\ UpdaterPhase'
  BY DEF Typed, TypeOK, Ownership, HolderPhase, UpdaterPhase
<1>2. QED
  BY <1>1, SamePlaces DEF Ownership

LEMMA OwnershipEvaluation ==
    ASSUME Typed, Ownership, NEW p \in Callers, Evaluation(p)
    PROVE  Ownership'
<1> USE DotnetAssumption
    DEF sharedVars, wasmVars, updateVars, disposeVars, specVars
<1>1. CASE Load(p)
  <2>1. /\ pc[p] = "load"
        /\ \E n \in {"done", "take"} : pc' = [pc EXCEPT ![p] = n]
        /\ UNCHANGED <<inst, pool, disposed, poolDisposed, updateLock, upc, instances>>
    BY <1>1 DEF Load, AnswerFromCache
  <2>2. QED
    BY <2>1, OwnershipKept
<1>2. CASE Take(p)
  <2> USE DEF Typed, TypeOK, Ownership, HolderPhase, UpdaterPhase
  <2>1. /\ pc[p] = "take" /\ pc' = [pc EXCEPT ![p] = "check"]
        /\ inst[p] \notin Instances
        /\ UNCHANGED <<updateLock, upc, instances, disposed, poolDisposed>>
    BY <1>2 DEF Take
  <2>2. PICK i \in pool : /\ pool' = pool \ {i}
                          /\ inst' = [inst EXCEPT ![p] = i]
    BY <1>2 DEF Take
  <2>3. HolderPhase' /\ UpdaterPhase'
    BY <2>1, <2>2
  <2>4. NoneLost'
    BY <2>1, <2>2 DEF NoneLost
  <2>5. OneHolder'
    BY <2>1, <2>2 DEF OneHolder
  <2>6. QED
    BY <2>3, <2>4, <2>5
<1>3. CASE TakeThrows(p)
  BY <1>3, OwnershipKept DEF TakeThrows
<1>4. CASE CheckGeneration(p)
  <2>1. /\ pc[p] = "check"
        /\ \E n \in {"evaluate", "add"} : pc' = [pc EXCEPT ![p] = n]
        /\ UNCHANGED <<inst, pool, disposed, poolDisposed, updateLock, upc, instances>>
    BY <1>4 DEF CheckGeneration, AnswerFromCache
  <2>2. QED
    BY <2>1, OwnershipKept
<1>5. CASE EvaluateOnInstance(p)
  BY <1>5, OwnershipKept DEF EvaluateOnInstance
<1>6. CASE EvaluateThrows(p)
  BY <1>6, OwnershipKept DEF EvaluateThrows
<1>7. CASE Add(p) \/ AddThrows(p)
  <2> USE DEF Typed, TypeOK, Ownership, HolderPhase, UpdaterPhase
  <2>1. /\ pc[p] = "add" /\ pc' = [pc EXCEPT ![p] = "done"]
        /\ inst' = [inst EXCEPT ![p] = None]
        /\ inst[p] \in Instances
        /\ (poolDisposed /\ pool' = pool) \/ pool' = pool \cup {inst[p]}
        /\ UNCHANGED <<updateLock, upc, instances, disposed, poolDisposed>>
    BY <1>7 DEF Add, AddThrows
  <2>2. HolderPhase' /\ UpdaterPhase'
    BY <2>1
  <2>3. NoneLost'
    <3>1. \A i \in Instances, q \in Callers :
             inst[q] = i => inst'[q] = i \/ i \in pool' \/ poolDisposed'
      BY <2>1
    <3>2. QED
      BY <2>1, <3>1 DEF NoneLost
  <2>4. OneHolder'
    BY <2>1 DEF OneHolder
  <2>5. QED
    BY <2>2, <2>3, <2>4
<1>8. CASE EvaluateReturns(p)
  BY <1>8, OwnershipKept DEF EvaluateReturns
<1>9. QED
  BY <1>1, <1>2, <1>3, <1>4, <1>5, <1>6, <1>7, <1>8 DEF Evaluation

LEMMA OwnershipUpdate ==
    ASSUME Typed, Ownership, NEW u \in Updaters, Update(u)
    PROVE  Ownership'
<1> USE DotnetAssumption
    DEF Typed, TypeOK, Ownership, HolderPhase, UpdaterPhase,
        sharedVars, wasmVars, callVars, disposeVars, specVars
<1>1. CASE Lock(u)
  BY <1>1, SamePlaces DEF Lock
<1>2. CASE Drain(u)
  <2>1. upc[u] = "drain" /\ UNCHANGED <<inst, updateLock, pc, disposed, poolDisposed>>
    BY <1>2 DEF Drain
  <2>2. PICK i \in pool :
              /\ pool' = pool \ {i}
              /\ instances' = [instances EXCEPT ![u] = @ \cup {i}]
              /\ upc' = IF instances[u] \cup {i} = Instances
                        THEN [upc EXCEPT ![u] = "first"] ELSE upc
    BY <1>2 DEF Drain
  <2>3. HolderPhase' /\ UpdaterPhase'
    BY <2>1, <2>2
  <2>4. i \in instances'[u] /\ \A v \in Updaters : instances[v] \subseteq instances'[v]
    BY <2>2
  <2>5. OneHolder'
    BY <2>1, <2>2 DEF OneHolder
  <2> HIDE DEF Typed, TypeOK, HolderPhase, UpdaterPhase
  <2>6. NoneLost'
    <3>1. ASSUME NEW j \in Instances, ~poolDisposed
          PROVE  \/ j \in pool' \cup disposed'
                 \/ \E p \in Callers : inst'[p] = j
                 \/ \E v \in Updaters : j \in instances'[v]
      <4>1. \/ j \in pool \cup disposed
            \/ \E p \in Callers : inst[p] = j
            \/ \E v \in Updaters : j \in instances[v]
        BY <3>1 DEF NoneLost
      <4>2. CASE j = i
        BY <2>4, <4>2
      <4>3. CASE j # i /\ j \in pool \cup disposed
        BY <2>1, <2>2, <4>3
      <4>4. CASE \E p \in Callers : inst[p] = j
        BY <2>1, <4>4
      <4>5. CASE \E v \in Updaters : j \in instances[v]
        BY <2>4, <4>5
      <4>6. QED
        BY <4>1, <4>2, <4>3, <4>4, <4>5
    <3>2. QED
      BY <2>1, <3>1 DEF NoneLost
  <2>7. QED
    BY <2>3, <2>5, <2>6
<1>3. CASE DrainThrows(u) \/ AddAllThrows(u)
  <2>1. /\ upc[u] \in {"drain", "addAll"} /\ poolDisposed
        /\ instances' = [instances EXCEPT ![u] = {}]
        /\ \/ upc' = [upc EXCEPT ![u] = "done"] /\ updateLock' = None
           \/ UNCHANGED <<upc, updateLock>> /\ upc[u] = "addAll"
        /\ UNCHANGED <<inst, pool, pc, disposed, poolDisposed>>
    BY <1>3 DEF DrainThrows, AddAllThrows
  <2>2. HolderPhase' /\ UpdaterPhase'
    BY <2>1
  <2>3. OneHolder'
    BY <2>1 DEF OneHolder
  <2>4. NoneLost'
    BY <2>1 DEF NoneLost
  <2>5. QED
    BY <2>2, <2>3, <2>4
<1>4. CASE UpdateFirst(u) \/ UpdateRest(u) \/ ParallelForThrows(u) \/ Publish(u)
  <2>1. /\ upc[u] \in {"first", "rest"}
        /\ \/ UNCHANGED upc /\ upc[u] = "rest"
           \/ upc' = [upc EXCEPT ![u] = "rest"]
           \/ upc' = [upc EXCEPT ![u] = "addAll"]
        /\ UNCHANGED <<inst, instances, pool, updateLock, pc, disposed, poolDisposed>>
    BY <1>4 DEF UpdateFirst, UpdateRest, ParallelForThrows, Publish
  <2>2. HolderPhase' /\ UpdaterPhase'
    BY <2>1
  <2>3. QED
    BY <2>1, <2>2, SamePlaces
<1>5. CASE AddAll(u)
  <2>1. upc[u] = "addAll" /\ UNCHANGED <<inst, updateLock, pc, upc, disposed, poolDisposed>>
    BY <1>5 DEF AddAll
  <2>2. PICK i \in instances[u] :
              /\ pool' = pool \cup {i}
              /\ instances' = [instances EXCEPT ![u] = @ \ {i}]
    BY <1>5 DEF AddAll
  <2>3. HolderPhase' /\ UpdaterPhase'
    BY <2>1, <2>2
  <2>4. OneHolder'
    BY <2>1, <2>2 DEF OneHolder
  <2>5. NoneLost'
    <3>1. \A j \in Instances, v \in Updaters :
             j \in instances[v] => j \in instances'[v] \/ j \in pool'
      BY <2>2
    <3>2. QED
      BY <2>1, <2>2, <3>1 DEF NoneLost
  <2>6. QED
    BY <2>3, <2>4, <2>5
<1>6. CASE Unlock(u)
  BY <1>6, SamePlaces DEF Unlock
<1>7. CASE UpdateReturns(u)
  BY <1>7, SamePlaces DEF UpdateReturns
<1>8. QED
  BY <1>1, <1>2, <1>3, <1>4, <1>5, <1>6, <1>7 DEF Update

LEMMA OwnershipDispose ==
    ASSUME Ownership, Dispose \/ DisposeTaken \/ DisposeTimesOut \/ DisposePool
    PROVE  Ownership'
<1> USE DEF Ownership, HolderPhase, UpdaterPhase, OneHolder, NoneLost,
            sharedVars, callVars, updateVars
<1>1. CASE Dispose
  BY <1>1 DEF Dispose
<1>2. CASE DisposeTaken
  <2>1. /\ \E i \in pool : pool' = pool \ {i} /\ disposed' = disposed \cup {i}
        /\ UNCHANGED <<pc, inst, upc, updateLock, instances, poolDisposed>>
    BY <1>2 DEF DisposeTaken
  <2>2. QED
    BY <2>1
<1>3. CASE DisposeTimesOut
  BY <1>3 DEF DisposeTimesOut
<1>4. CASE DisposePool
  BY <1>4 DEF DisposePool
<1>5. QED
  BY <1>1, <1>2, <1>3, <1>4

LEMMA OwnershipStep ==
    ASSUME Typed, Ownership, [Next]_vars
    PROVE  Ownership'
<1> USE DEF sharedVars, wasmVars, callVars, updateVars, disposeVars, specVars
<1>1. ASSUME NEW p \in Callers, NEW f \in Flags, NEW c \in Contexts,
             EvaluateFlag(p, f, c)
      PROVE  Ownership'
  BY <1>1, OwnershipKept DEF EvaluateFlag
<1>2. ASSUME NEW u \in Updaters, NEW c \in Submitted, UpdateState(u, c)
      PROVE  Ownership'
  BY <1>2, SamePlaces
     DEF UpdateState, Typed, TypeOK, Ownership, HolderPhase, UpdaterPhase
<1>3. CASE UNCHANGED vars
  BY <1>3, SamePlaces DEF vars, Ownership, HolderPhase, UpdaterPhase
<1>4. QED
  BY <1>1, <1>2, <1>3, OwnershipEvaluation, OwnershipUpdate, OwnershipDispose DEF Next

OInv == Typed /\ Ownership

LEMMA OInvInit == Init => OInv
BY TypedInit, OwnershipInit DEF OInv

LEMMA OInvStep == OInv /\ [Next]_vars => OInv'
BY TypedStep, OwnershipStep DEF OInv, Ownership

\* Every reachable state of the .NET pool is well typed.
THEOREM DotnetTypeCorrect == Spec => []TypeOK
<1>1. OInv => TypeOK
  BY DEF OInv, Typed
<1>2. QED
  BY <1>1, OInvInit, OInvStep, PTL DEF Spec

\* Under every fault, and wherever Dispose gives up waiting, no instance of the
\* .NET pool is in two places, and none is lost until the pool is disposed.
THEOREM DotnetInstancesHaveOnePlace == Spec => []OnePlace
<1>1. OInv => OnePlace
  BY DEF OInv, Ownership, OnePlace
<1>2. QED
  BY <1>1, OInvInit, OInvStep, PTL DEF Spec

-----------------------------------------------------------------------------
(***************************************************************************)
(* What an update that succeeds has done, when no instance but the first   *)
(* refuses a configuration the first one took                              *)
(***************************************************************************)
NoneRefuses == "refused" \notin RestFaults

\* The instances an update is through with, while it has met no exception.
Reached ==
    \A u \in Updaters :
        /\ upc[u] = "rest" /\ outcome[u] = "none" =>
              \A i \in Instances \ pending[u] : wasm[i] \in {config[u], Dead}
        /\ upc[u] = "addAll" /\ outcome[u] = "success" =>
              \A i \in Instances : wasm[i] \in {config[u], Dead}

\* While an updater has all instances, no caller has one and no other updater
\* is past its lock.
LEMMA UpdaterAlone ==
    ASSUME OInv, NEW u \in Updaters, upc[u] \in {"first", "rest"}
    PROVE  /\ instances[u] = Instances
           /\ \A v \in Updaters : v # u =>
                 upc[v] \notin {"drain", "first", "rest", "addAll"}
           /\ \A p \in Callers : pc[p] \notin {"check", "evaluate", "add"}
BY DEF OInv, Typed, TypeOK, Ownership, HolderPhase, UpdaterPhase, OneHolder

\* A caller leaves updates alone and can only kill an instance.
LEMMA EvaluationFrame ==
    ASSUME OInv, NEW p \in Callers, Evaluation(p)
    PROVE  /\ UNCHANGED <<cache, generation, gen, updateVars, current>>
           /\ \A i \in Instances : wasm'[i] \in {wasm[i], Dead}
<1> USE DEF OInv, Typed, TypeOK, sharedVars, wasmVars, specVars
<1>1. CASE EvaluateThrows(p)
  BY <1>1 DEF EvaluateThrows
<1>2. CASE ~EvaluateThrows(p)
  BY <1>2 DEF Evaluation, Load, Take, TakeThrows, CheckGeneration,
              EvaluateOnInstance, Add, AddThrows, EvaluateReturns
<1>3. QED
  BY <1>1, <1>2

LEMMA ReachedUpdate ==
    ASSUME NoneRefuses, OInv, Reached, NEW u \in Updaters, Update(u)
    PROVE  Reached'
<1> USE DEF sharedVars, wasmVars, callVars, disposeVars, specVars
<1>1. CASE Lock(u) \/ Drain(u) \/ DrainThrows(u) \/ UpdateReturns(u) \/ Unlock(u)
           \/ AddAll(u) \/ AddAllThrows(u) \/ ParallelForThrows(u)
  <2>1. /\ UNCHANGED wasm
        /\ \A v \in Updaters : v # u =>
              /\ upc'[v] = upc[v] /\ outcome'[v] = outcome[v]
              /\ pending'[v] = pending[v] /\ config'[v] = config[v]
        /\ \/ upc'[u] \notin {"rest", "addAll"}
           \/ upc'[u] = "addAll" /\ outcome'[u] = "error"
           \/ /\ upc'[u] = upc[u] /\ upc[u] = "addAll"
              /\ outcome'[u] = outcome[u] /\ config'[u] = config[u]
    <3>1. CASE Lock(u) \/ Drain(u) \/ DrainThrows(u) \/ UpdateReturns(u) \/ Unlock(u)
      <4>1. /\ upc[u] \in {"lock", "drain", "done", "addAll"}
            /\ \E n \in {"drain", "first", "done", "idle"} :
                  upc' = [upc EXCEPT ![u] = n]
            /\ UNCHANGED <<wasm, pending>>
            /\ \A v \in Updaters : v # u =>
                  outcome'[v] = outcome[v] /\ config'[v] = config[v]
        BY <3>1 DEF Lock, Drain, DrainThrows, UpdateReturns, Unlock, OInv, Typed, TypeOK
      <4>2. QED
        BY <4>1 DEF OInv, Typed, TypeOK
    <3>2. CASE AddAll(u)
      BY <3>2 DEF AddAll
    <3>3. CASE AddAllThrows(u)
      BY <3>3 DEF AddAllThrows, OInv, Typed, TypeOK
    <3>4. CASE ParallelForThrows(u)
      BY <3>4 DEF ParallelForThrows, OInv, Typed, TypeOK
    <3>5. QED
      BY <1>1, <3>1, <3>2, <3>3, <3>4
  <2>2. QED
    BY <2>1 DEF Reached
<1>2. CASE UpdateFirst(u)
  <2>1. /\ upc[u] = "first" /\ outcome[u] = "none" /\ UNCHANGED <<config, instances>>
    BY <1>2, FirstFacts DEF OInv
  <2>2. PICK i \in instances[u], v \in Loadable \cup {Dead} :
              /\ wasm' = [wasm EXCEPT ![i] = v]
              /\ \/ /\ config[u] \in Configs /\ v = config[u]
                    /\ pending' = [pending EXCEPT ![u] = instances[u] \ {i}]
                    /\ upc' = [upc EXCEPT ![u] = "rest"]
                    /\ UNCHANGED <<outcome, specVars>>
                 \/ /\ \E r \in {"failure", "error"} :
                          outcome' = [outcome EXCEPT ![u] = r]
                    /\ upc' = [upc EXCEPT ![u] = "addAll"]
                    /\ Abandon
                    /\ UNCHANGED pending
    BY <1>2, FirstFacts DEF OInv
  <2>3. /\ instances[u] = Instances
        /\ \A w \in Updaters : w # u => upc[w] \notin {"rest", "addAll"}
    BY <2>1, UpdaterAlone
  <2>4. CASE upc' = [upc EXCEPT ![u] = "rest"]
    <3>1. wasm'[i] = config[u] /\ pending'[u] = Instances \ {i} /\ upc'[u] = "rest"
      BY <2>1, <2>2, <2>3, <2>4 DEF OInv, Typed, TypeOK
    <3>2. \A w \in Updaters : w # u => upc'[w] \notin {"rest", "addAll"}
      BY <2>3, <2>4
    <3>3. QED
      BY <2>1, <3>1, <3>2 DEF Reached
  <2>5. CASE Abandon /\ upc' = [upc EXCEPT ![u] = "addAll"]
    <3>1. outcome'[u] # "success" /\ upc'[u] = "addAll"
      BY <2>1, <2>2, <2>5 DEF OInv, Typed, TypeOK
    <3>2. \A w \in Updaters : w # u => upc'[w] \notin {"rest", "addAll"}
      BY <2>3, <2>5
    <3>3. QED
      BY <3>1, <3>2 DEF Reached
  <2>6. QED
    BY <2>2, <2>4, <2>5
<1>3. CASE UpdateRest(u)
  <2>1. upc[u] = "rest" /\ UNCHANGED <<upc, config>>
    BY <1>3, RestFacts DEF OInv
  <2>2. PICK i \in pending[u], v \in Loadable \cup {Dead} :
              /\ wasm' = [wasm EXCEPT ![i] = v]
              /\ pending' = [pending EXCEPT ![u] = @ \ {i}]
              /\ \/ UNCHANGED outcome /\ ("refused" \notin RestFaults => v = config[u])
                 \/ outcome' = [outcome EXCEPT ![u] = "error"]
    BY <1>3, RestFacts DEF OInv
  <2>3. \A w \in Updaters : w # u => upc'[w] \notin {"rest", "addAll"}
    BY <2>1, UpdaterAlone
  <2>4. CASE outcome' = [outcome EXCEPT ![u] = "error"]
    BY <2>1, <2>3, <2>4 DEF Reached, OInv, Typed, TypeOK
  <2>5. CASE UNCHANGED outcome /\ v = config[u]
    <3>1. /\ wasm'[i] = config[u] /\ \A j \in Instances : j # i => wasm'[j] = wasm[j]
          /\ Instances \ pending'[u] = (Instances \ pending[u]) \cup {i}
      BY <2>2, <2>5 DEF OInv, Typed, TypeOK
    <3>2. QED
      BY <2>1, <2>3, <2>5, <3>1 DEF Reached
  <2>6. QED
    BY <2>2, <2>4, <2>5 DEF NoneRefuses
<1>4. CASE Publish(u)
  <2>1. /\ upc[u] = "rest" /\ pending[u] = {} /\ outcome[u] # "error"
        /\ upc' = [upc EXCEPT ![u] = "addAll"]
        /\ UNCHANGED <<wasm, config, pending>>
    BY <1>4 DEF Publish
  <2>2. outcome[u] = "none" /\ \A w \in Updaters : w # u => upc'[w] \notin {"rest", "addAll"}
    BY <2>1, UpdaterAlone DEF OInv, Typed, OutcomeOK
  <2>3. upc'[u] = "addAll"
    BY <2>1 DEF OInv, Typed, TypeOK
  <2>4. QED
    BY <2>1, <2>2, <2>3 DEF Reached
<1>5. QED
  BY <1>1, <1>2, <1>3, <1>4 DEF Update

LEMMA ReachedStep ==
    ASSUME NoneRefuses, OInv, Reached, [Next]_vars
    PROVE  Reached'
<1> USE DEF wasmVars, updateVars
<1>1. ASSUME NEW p \in Callers, NEW f \in Flags, NEW c \in Contexts,
             EvaluateFlag(p, f, c)
      PROVE  Reached'
  BY <1>1 DEF Reached, EvaluateFlag
<1>2. ASSUME NEW p \in Callers, Evaluation(p)
      PROVE  Reached'
  BY <1>2, EvaluationFrame DEF Reached
<1>3. ASSUME NEW u \in Updaters, NEW c \in Submitted, UpdateState(u, c)
      PROVE  Reached'
  BY <1>3 DEF OInv, Typed, TypeOK, Reached, UpdateState
<1>4. CASE Dispose \/ DisposeTaken \/ DisposeTimesOut \/ DisposePool \/ UNCHANGED vars
  <2>1. UNCHANGED <<wasm, updateVars>>
    BY <1>4 DEF Dispose, DisposeTaken, DisposeTimesOut, DisposePool, vars
  <2>2. QED
    BY <2>1 DEF Reached
<1>5. QED
  BY <1>1, <1>2, <1>3, <1>4, ReachedUpdate DEF Next

RInv == OInv /\ Reached

LEMMA RInvInit == Init => RInv
BY OInvInit DEF Init, RInv, Reached

LEMMA RInvStep == ASSUME NoneRefuses PROVE RInv /\ [Next]_vars => RInv'
BY OInvStep, ReachedStep DEF RInv

\* Only Unlock ends an update that has a success to report.
LEMMA SuccessIsUnlock ==
    ASSUME OInv, [Next]_vars, NEW u \in Updaters,
           upc'[u] = "done", upc[u] # "done", outcome'[u] = "success"
    PROVE  Unlock(u)
<1> USE DEF OInv, Typed, TypeOK, OutcomeOK
<1>1. ~(UNCHANGED vars) /\ ~Dispose /\ ~DisposeTaken /\ ~DisposeTimesOut /\ ~DisposePool
  BY DEF vars, updateVars, Dispose, DisposeTaken, DisposeTimesOut, DisposePool
<1>2. ASSUME NEW p \in Callers, NEW f \in Flags, NEW c \in Contexts,
             EvaluateFlag(p, f, c)
      PROVE  FALSE
  BY <1>2 DEF EvaluateFlag, updateVars
<1>3. ASSUME NEW p \in Callers, Evaluation(p)
      PROVE  FALSE
  BY <1>3, EvaluationFrame DEF updateVars
<1>4. ASSUME NEW v \in Updaters, NEW c \in Submitted, UpdateState(v, c)
      PROVE  FALSE
  BY <1>4 DEF UpdateState
<1>5. ASSUME NEW v \in Updaters, Update(v)
      PROVE  Unlock(u)
  <2>1. v = u
    BY <1>5
       DEF Update, Lock, Drain, DrainThrows, UpdateFirst, UpdateRest, ParallelForThrows,
           Publish, AddAll, AddAllThrows, Unlock, UpdateReturns
  <2>2. ~Lock(u) /\ ~Drain(u) /\ ~DrainThrows(u)
    BY DEF Lock, Drain, DrainThrows
  <2>3. /\ ~UpdateFirst(u) /\ ~UpdateRest(u) /\ ~ParallelForThrows(u) /\ ~Publish(u)
        /\ ~AddAll(u) /\ ~AddAllThrows(u) /\ ~UpdateReturns(u)
    BY DEF UpdateFirst, UpdateRest, ParallelForThrows, Publish, AddAll, AddAllThrows,
           UpdateReturns
  <2>4. QED
    BY <1>5, <2>1, <2>2, <2>3 DEF Update
<1>6. QED
  BY <1>1, <1>2, <1>3, <1>4, <1>5 DEF Next

\* An UpdateState of the .NET pool that succeeds has put its configuration on
\* every instance that still runs, however the iterations of Parallel.For fail,
\* as long as none but the first answers success:false.
THEOREM DotnetUpdateReachesAll == ASSUME NoneRefuses PROVE Spec => UpdateReachesAll
<1>1. ASSUME RInv, [Next]_vars, NEW u \in Updaters,
             upc'[u] = "done", upc[u] # "done", outcome'[u] = "success"
      PROVE  \A i \in Instances : wasm'[i] \in {config[u], Dead}
  <2>1. Unlock(u)
    BY <1>1, SuccessIsUnlock DEF RInv
  <2>2. upc[u] = "addAll" /\ outcome[u] = "success" /\ UNCHANGED wasm
    BY <1>1, <2>1 DEF Unlock, wasmVars
  <2>3. QED
    BY <1>1, <2>2 DEF RInv, Reached
<1>2. RInv /\ [Next]_vars =>
        [\A u \in Updaters :
            upc'[u] = "done" /\ upc[u] # "done" /\ outcome'[u] = "success"
                => \A i \in Instances : wasm'[i] \in {config[u], Dead}]_vars
  BY <1>1
<1>3. QED
  BY <1>2, RInvInit, RInvStep, PTL DEF Spec, UpdateReachesAll

-----------------------------------------------------------------------------
(***************************************************************************)
(* One configuration at a time, unless an update failed half way           *)
(***************************************************************************)
\* Every instance that runs holds the configuration in force, but for those the
\* iterations of Parallel.For are through with.
InstancesOK ==
    /\ \A i \in Instances : gen[i] = generation
    /\ (\A u \in Updaters : upc[u] # "rest") /\ current # Mixed =>
          \A i \in Instances : wasm[i] \in {current, Dead}

CacheOK ==
    /\ cache.Generation = generation
    /\ current # Mixed => cache.config = current

Consistent == InstancesOK /\ CacheOK

CInv == RInv /\ Consistent

LEMMA ConsistentInit == Init => Consistent
BY DEF Init, Consistent, InstancesOK, CacheOK, EmptySnapshot, Snapshot

LEMMA ConsistentUpdate ==
    ASSUME CInv, NEW u \in Updaters, Update(u)
    PROVE  Consistent'
<1> USE DEF sharedVars, wasmVars, callVars, disposeVars, specVars
<1>1. CASE Lock(u) \/ Drain(u) \/ DrainThrows(u) \/ AddAll(u) \/ AddAllThrows(u)
           \/ Unlock(u) \/ UpdateReturns(u)
  <2>1. /\ UNCHANGED <<cache, generation, current, wasm, gen>>
        /\ upc[u] # "rest"
        /\ \A v \in Updaters : v # u => upc'[v] = upc[v]
    <3> USE DEF CInv, RInv, OInv, Typed, TypeOK
    <3>1. CASE Lock(u) \/ UpdateReturns(u) \/ Unlock(u)
      BY <3>1 DEF Lock, UpdateReturns, Unlock
    <3>2. CASE Drain(u) \/ DrainThrows(u)
      BY <3>2 DEF Drain, DrainThrows
    <3>3. CASE AddAll(u) \/ AddAllThrows(u)
      BY <3>3 DEF AddAll, AddAllThrows
    <3>4. QED
      BY <1>1, <3>1, <3>2, <3>3
  <2>2. QED
    BY <2>1 DEF CInv, Consistent, InstancesOK, CacheOK
<1>2. CASE UpdateFirst(u)
  <2>1. upc[u] = "first" /\ UNCHANGED <<gen, cache, generation>>
    BY <1>2, FirstFacts DEF CInv, RInv, OInv
  <2>2. \/ upc' = [upc EXCEPT ![u] = "rest"] /\ UNCHANGED current
        \/ Abandon
    BY <1>2, FirstFacts DEF CInv, RInv, OInv
  <2>3. CASE upc' = [upc EXCEPT ![u] = "rest"] /\ UNCHANGED current
    <3>1. upc'[u] = "rest"
      BY <2>3 DEF CInv, RInv, OInv, Typed, TypeOK
    <3>2. QED
      BY <2>1, <2>3, <3>1 DEF CInv, Consistent, InstancesOK, CacheOK
  <2>4. CASE Abandon
    <3>1. /\ current' \in {current, Mixed}
          /\ current' # Mixed => \A i \in Instances : wasm'[i] \in {current, Dead}
      BY <2>4, AbandonFacts DEF CInv, RInv, OInv, Typed
    <3>2. QED
      BY <2>1, <3>1 DEF CInv, Consistent, InstancesOK, CacheOK
  <2>5. QED
    BY <2>2, <2>3, <2>4
<1>3. CASE UpdateRest(u)
  <2>1. upc[u] = "rest" /\ UNCHANGED <<upc, gen, cache, generation, current>>
    BY <1>3, RestFacts DEF CInv, RInv, OInv
  <2>2. QED
    BY <2>1 DEF CInv, Consistent, InstancesOK, CacheOK
<1>4. CASE ParallelForThrows(u)
  <2>1. /\ current' \in {current, Mixed}
        /\ current' # Mixed => \A i \in Instances : wasm'[i] \in {current, Dead}
    BY <1>4, AbandonFacts DEF ParallelForThrows, CInv, RInv, OInv, Typed
  <2>2. UNCHANGED <<gen, cache, generation>>
    BY <1>4 DEF ParallelForThrows
  <2>3. QED
    BY <2>1, <2>2 DEF CInv, Consistent, InstancesOK, CacheOK
<1>5. CASE Publish(u)
  <2>1. /\ upc[u] = "rest" /\ pending[u] = {} /\ outcome[u] # "error"
        /\ generation' = generation + 1
        /\ cache' = Snapshot(generation + 1, config[u])
        /\ current' = config[u]
        /\ UNCHANGED wasm
    BY <1>5 DEF Publish, InForce
  <2>2. gen' = [i \in Instances |-> generation + 1]
    BY <1>5, <2>1, UpdaterAlone DEF Publish, CInv, RInv
  <2>3. outcome[u] = "none"
    BY <2>1 DEF CInv, RInv, OInv, Typed, OutcomeOK
  <2>4. \A i \in Instances : wasm'[i] \in {current', Dead}
    BY <2>1, <2>3 DEF CInv, RInv, Reached
  <2>5. QED
    BY <2>1, <2>2, <2>4 DEF Consistent, InstancesOK, CacheOK, Snapshot
<1>6. QED
  BY <1>1, <1>2, <1>3, <1>4, <1>5 DEF Update

LEMMA ConsistentStep ==
    ASSUME CInv, [Next]_vars
    PROVE  Consistent'
<1> USE DEF wasmVars, sharedVars, updateVars, specVars
<1>1. ASSUME NEW p \in Callers, NEW f \in Flags, NEW c \in Contexts,
             EvaluateFlag(p, f, c)
      PROVE  Consistent'
  BY <1>1 DEF EvaluateFlag, CInv, Consistent, InstancesOK, CacheOK
<1>2. ASSUME NEW p \in Callers, Evaluation(p)
      PROVE  Consistent'
  <2>1. /\ UNCHANGED <<cache, generation, gen, upc, current>>
        /\ \A i \in Instances : wasm'[i] \in {wasm[i], Dead}
    BY <1>2, EvaluationFrame DEF CInv, RInv
  <2>2. QED
    BY <2>1 DEF CInv, Consistent, InstancesOK, CacheOK
<1>3. ASSUME NEW u \in Updaters, NEW c \in Submitted, UpdateState(u, c)
      PROVE  Consistent'
  <2>1. /\ UNCHANGED <<cache, generation, current, wasm, gen>>
        /\ \A v \in Updaters : upc'[v] = "rest" <=> upc[v] = "rest"
    BY <1>3 DEF UpdateState, CInv, RInv, OInv, Typed, TypeOK
  <2>2. QED
    BY <2>1 DEF CInv, Consistent, InstancesOK, CacheOK
<1>4. CASE Dispose \/ DisposeTaken \/ DisposeTimesOut \/ DisposePool \/ UNCHANGED vars
  <2>1. UNCHANGED <<cache, generation, current, wasm, gen, upc>>
    BY <1>4 DEF Dispose, DisposeTaken, DisposeTimesOut, DisposePool, vars
  <2>2. QED
    BY <2>1 DEF CInv, Consistent, InstancesOK, CacheOK
<1>5. QED
  BY <1>1, <1>2, <1>3, <1>4, ConsistentUpdate DEF Next

LEMMA CInvInit == Init => CInv
BY RInvInit, ConsistentInit DEF CInv

LEMMA CInvStep == ASSUME NoneRefuses PROVE CInv /\ [Next]_vars => CInv'
BY RInvStep, ConsistentStep DEF CInv

\* While no updater holds them, the instances carry the generation of the cache
\* and, unless an update failed half way, hold the configuration it describes.
THEOREM DotnetPoolIsUniform == ASSUME NoneRefuses PROVE Spec => []PoolUniform
<1>1. CInv => PoolUniform
  <2>1. SUFFICES ASSUME CInv, NEW i \in Instances,
                        \A u \in Updaters : i \notin instances[u]
                 PROVE  /\ gen[i] = cache.Generation
                        /\ current # Mixed =>
                              wasm[i] \in {current, Dead} /\ cache.config = current
    BY DEF PoolUniform
  <2>2. \A u \in Updaters : upc[u] # "rest"
    BY <2>1, UpdaterAlone DEF CInv, RInv
  <2>3. QED
    BY <2>1, <2>2 DEF CInv, Consistent, InstancesOK, CacheOK
<1>2. QED
  BY <1>1, CInvInit, CInvStep, PTL DEF Spec

-----------------------------------------------------------------------------
(***************************************************************************)
(* The answers of the pool                                                 *)
(***************************************************************************)
\* A snapshot a caller still uses is no newer than the cache, and describes the
\* same configuration if it is of the same generation.
SnapshotsOK ==
    \A p \in Callers :
        /\ pc[p] \in {"take", "check", "evaluate"} =>
              /\ snap[p].Generation <= generation
              /\ snap[p].Generation = generation => snap[p].config = cache.config
        /\ pc[p] = "evaluate" => snap[p].Generation = generation

\* What is in force has been seen by every call in progress.
DuringOK == \A p \in Callers : pc[p] # "idle" => current \in during[p]

IInv == CInv /\ SnapshotsOK /\ DuringOK /\ AnswersInForce

LEMMA IInvInit == Init => IInv
BY CInvInit DEF Init, IInv, SnapshotsOK, DuringOK, AnswersInForce

\* What the fast path answers is the answer of the configuration in force.
LEMMA HitIsRight ==
    ASSUME IInv, NEW p \in Callers, Hit(p), current # Mixed
    PROVE  Evaluate(cache.config, flagKey[p], {}) = Evaluate(current, flagKey[p], ctx[p])
<1>1. cache.config = current
  BY DEF IInv, CInv, Consistent, CacheOK
<1>2. QED
  BY <1>1, StaticIgnoresContext DEF Hit

\* What an instance answers is the answer of the configuration in force: the
\* guard has made sure that the snapshot and the instance agree.
LEMMA InstanceIsRight ==
    ASSUME IInv, NEW p \in Callers, EvaluateOnInstance(p), current # Mixed
    PROVE  CallWasm(p) = Evaluate(current, flagKey[p], ctx[p])
<1> DEFINE f == flagKey[p]
<1>1. pc[p] = "evaluate" /\ wasm[inst[p]] # Dead
  BY DEF EvaluateOnInstance
<1>2. inst[p] \in Instances /\ \A u \in Updaters : upc[u] # "rest"
  BY <1>1, UpdaterAlone DEF IInv, CInv, RInv, OInv, Ownership, HolderPhase
<1>3. wasm[inst[p]] = current
  BY <1>1, <1>2 DEF IInv, CInv, Consistent, InstancesOK
<1>4. snap[p].config = current
  BY <1>1 DEF IInv, SnapshotsOK, CInv, Consistent, CacheOK
<1>5. current \in Loadable
  BY DEF IInv, CInv, RInv, OInv, Typed, TypeOK
<1>6. Evaluate(current, f, SentContext(p)) = Evaluate(current, f, ctx[p])
  <2>1. CASE HasKeys(p)
    <3>1. f \in RequiredKeyFlags(current) /\ current \in Configs
      BY <1>4, <1>5, <2>1 DEF HasKeys, RequiredKeyFlags, Loadable
    <3>2. SentContext(p) = ctx[p] \cap Keys[current][f]
      BY <1>4, <2>1 DEF SentContext
    <3>3. QED
      BY <3>1, <3>2, FilteringIsSound
  <2>2. CASE ~HasKeys(p)
    BY <2>2 DEF SentContext
  <2>3. QED
    BY <2>1, <2>2
<1>7. f \in FlagsOf(current) =>
        EvaluateByIndex(current, FlagIndex(current, f), SentContext(p))
          = Evaluate(current, f, SentContext(p))
  BY ByIndexIsByKey
<1>8. QED
  BY <1>3, <1>4, <1>6, <1>7 DEF CallWasm

\* The part of the step that concerns what a caller knows and answers.
Known == SnapshotsOK /\ DuringOK /\ AnswersInForce

LEMMA KnownEvaluation ==
    ASSUME IInv, NEW p \in Callers, Evaluation(p)
    PROVE  Known'
<1> USE DEF IInv, CInv, RInv, OInv, Typed, TypeOK
<1>1. UNCHANGED <<cache, generation, current>>
  BY EvaluationFrame
<1>2. ASSUME UNCHANGED <<during, flagKey, ctx>>,
             \A q \in Callers \ {p} :
                pc'[q] = pc[q] /\ snap'[q] = snap[q] /\ result'[q] = result[q],
             pc'[p] # "idle" /\ pc[p] # "idle",
             pc'[p] \in {"take", "check", "evaluate"} =>
                 /\ snap'[p].Generation <= generation
                 /\ snap'[p].Generation = generation => snap'[p].config = cache.config,
             pc'[p] = "evaluate" => snap'[p].Generation = generation,
             pc'[p] \in {"add", "done"} /\ Mixed \notin during[p] =>
                 \/ result'[p] = Failed
                 \/ \E c \in during[p] : result'[p] = Evaluate(c, flagKey[p], ctx[p])
      PROVE  Known'
  <2> HIDE DEF CInv, RInv, OInv, Typed, TypeOK
  <2>1. SnapshotsOK'
    BY <1>1, <1>2 DEF SnapshotsOK
  <2>2. DuringOK'
    BY <1>1, <1>2 DEF DuringOK
  <2>3. AnswersInForce'
    BY <1>1, <1>2 DEF AnswersInForce
  <2>4. QED
    BY <2>1, <2>2, <2>3 DEF Known
<1>3. CASE Load(p)
  <2>1. /\ pc[p] = "load" /\ snap'[p] = cache
        /\ UNCHANGED <<during, flagKey, ctx>>
        /\ \A q \in Callers \ {p} :
              pc'[q] = pc[q] /\ snap'[q] = snap[q] /\ result'[q] = result[q]
        /\ \/ pc'[p] = "take"
           \/ /\ pc'[p] = "done" /\ Hit(p)
              /\ result'[p] = Evaluate(cache.config, flagKey[p], {})
    BY <1>3 DEF Load, AnswerFromCache, specVars
  <2>2. cache.Generation = generation /\ generation \in Nat
    BY DEF Consistent, CacheOK
  <2> HIDE DEF CInv, RInv, OInv, Typed, TypeOK
  <2>3. pc'[p] = "done" /\ Mixed \notin during[p] =>
          \E c \in during[p] : result'[p] = Evaluate(c, flagKey[p], ctx[p])
    BY <2>1, HitIsRight DEF DuringOK
  <2> HIDE DEF IInv
  <2>4. QED
    BY <1>2, <2>1, <2>2, <2>3
<1>4. CASE Take(p)
  <2>1. /\ pc[p] = "take" /\ pc'[p] = "check"
        /\ UNCHANGED <<during, flagKey, ctx, snap, result>>
        /\ \A q \in Callers \ {p} : pc'[q] = pc[q]
    BY <1>4 DEF Take, specVars
  <2>2. QED
    BY <1>2, <2>1 DEF SnapshotsOK
<1>5. CASE TakeThrows(p) \/ EvaluateThrows(p) \/ AddThrows(p)
  <2>1. /\ pc[p] # "idle" /\ pc'[p] \in {"add", "done"} /\ result'[p] = Failed
        /\ UNCHANGED <<during, flagKey, ctx, snap>>
        /\ \A q \in Callers \ {p} : pc'[q] = pc[q] /\ result'[q] = result[q]
    BY <1>5 DEF TakeThrows, EvaluateThrows, AddThrows, specVars
  <2>2. QED
    BY <1>2, <2>1
<1>6. CASE CheckGeneration(p)
  <2>1. gen[inst[p]] = generation
    BY <1>6 DEF CheckGeneration, Ownership, HolderPhase, Consistent, InstancesOK
  <2>2. /\ pc[p] = "check"
        /\ UNCHANGED <<during, flagKey, ctx>>
        /\ \A q \in Callers \ {p} :
              pc'[q] = pc[q] /\ snap'[q] = snap[q] /\ result'[q] = result[q]
        /\ \/ /\ snap[p].Generation = generation /\ snap'[p] = snap[p]
              /\ pc'[p] = "evaluate"
           \/ /\ snap'[p] = cache
              /\ \/ pc'[p] = "evaluate"
                 \/ /\ pc'[p] = "add" /\ Hit(p)
                    /\ result'[p] = Evaluate(cache.config, flagKey[p], {})
    BY <1>6, <2>1 DEF CheckGeneration, AnswerFromCache, specVars
  <2>3. cache.Generation = generation /\ generation \in Nat
    BY DEF Consistent, CacheOK
  <2>4. pc'[p] = "evaluate" =>
          snap'[p].Generation = generation /\ snap'[p].config = cache.config
    BY <2>2, <2>3 DEF SnapshotsOK
  <2> HIDE DEF CInv, RInv, OInv, Typed, TypeOK
  <2>5. pc'[p] = "add" /\ Mixed \notin during[p] =>
          \E c \in during[p] : result'[p] = Evaluate(c, flagKey[p], ctx[p])
    BY <2>2, HitIsRight DEF DuringOK
  <2> HIDE DEF IInv
  <2>6. pc'[p] \in {"evaluate", "add"}
    BY <2>2
  <2>7. QED
    BY <1>2, <2>2, <2>3, <2>4, <2>5, <2>6
<1>7. CASE EvaluateOnInstance(p)
  <2>1. /\ pc[p] = "evaluate" /\ pc'[p] = "add" /\ result'[p] = CallWasm(p)
        /\ UNCHANGED <<during, flagKey, ctx, snap>>
        /\ \A q \in Callers \ {p} : pc'[q] = pc[q] /\ result'[q] = result[q]
    BY <1>7 DEF EvaluateOnInstance, specVars
  <2> HIDE DEF CInv, RInv, OInv, Typed, TypeOK
  <2>2. Mixed \notin during[p] =>
          \E c \in during[p] : result'[p] = Evaluate(c, flagKey[p], ctx[p])
    BY <1>7, <2>1, InstanceIsRight DEF DuringOK
  <2> HIDE DEF IInv
  <2>3. QED
    BY <1>2, <2>1, <2>2
<1>8. CASE Add(p)
  <2>1. /\ pc[p] = "add" /\ pc'[p] = "done"
        /\ UNCHANGED <<during, flagKey, ctx, snap, result>>
        /\ \A q \in Callers \ {p} : pc'[q] = pc[q]
    BY <1>8 DEF Add, specVars
  <2>2. QED
    BY <1>2, <2>1 DEF AnswersInForce
<1>9. CASE EvaluateReturns(p)
  <2>1. /\ pc'[p] = "idle"
        /\ \A q \in Callers \ {p} :
              /\ pc'[q] = pc[q] /\ snap'[q] = snap[q] /\ result'[q] = result[q]
              /\ flagKey'[q] = flagKey[q] /\ ctx'[q] = ctx[q] /\ during'[q] = during[q]
    BY <1>9 DEF EvaluateReturns
  <2> HIDE DEF CInv, RInv, OInv, Typed, TypeOK
  <2>2. QED
    BY <1>1, <2>1 DEF Known, SnapshotsOK, DuringOK, AnswersInForce
<1>10. QED
  BY <1>3, <1>4, <1>5, <1>6, <1>7, <1>8, <1>9 DEF Evaluation

\* A change of what is in force leaves the answers right.
LEMMA KnownInForce ==
    ASSUME IInv, UNCHANGED callVars,
           \A p \in Callers : pc[p] # "idle" => during'[p] = during[p] \cup {current'}
    PROVE  DuringOK' /\ AnswersInForce'
<1>1. UNCHANGED <<pc, result, flagKey, ctx>>
  BY DEF callVars
<1>2. DuringOK'
  BY <1>1 DEF DuringOK
<1>3. AnswersInForce'
  BY <1>1 DEF IInv, AnswersInForce
<1>4. QED
  BY <1>2, <1>3

LEMMA KnownUpdate ==
    ASSUME IInv, NEW u \in Updaters, Update(u)
    PROVE  Known'
<1> USE DEF sharedVars, wasmVars, disposeVars, specVars
<1>1. CASE Publish(u)
  <2>1. /\ upc[u] = "rest" /\ UNCHANGED callVars
        /\ generation' = generation + 1
        /\ cache' = Snapshot(generation + 1, config[u])
        /\ InForce(config[u]) /\ config[u] \in Loadable
    BY <1>1 DEF Publish, IInv, CInv, RInv, OInv, Typed, OutcomeOK, Loadable
  <2>2. \A p \in Callers : pc[p] \notin {"check", "evaluate"}
    BY <2>1, UpdaterAlone DEF IInv, CInv, RInv
  <2>3. DuringOK' /\ AnswersInForce'
    BY <2>1, InForceTypes, KnownInForce DEF IInv, CInv, RInv, OInv, Typed
  <2>4. SnapshotsOK'
    <3>1. generation \in Nat /\ \A p \in Callers : snap[p].Generation \in Nat
      BY DEF IInv, CInv, RInv, OInv, Typed, TypeOK, Snapshots
    <3>2. UNCHANGED <<pc, snap>> /\ SnapshotsOK
      BY <2>1 DEF callVars, IInv
    <3>3. QED
      BY <2>1, <2>2, <3>1, <3>2 DEF SnapshotsOK
  <2>5. QED
    BY <2>3, <2>4 DEF Known
<1>2. CASE ~Publish(u)
  <2>1. UNCHANGED <<cache, generation, callVars>>
    BY <1>2 DEF Update, Lock, Drain, DrainThrows, UpdateFirst, UpdateRest,
                ParallelForThrows, AddAll, AddAllThrows, Unlock, UpdateReturns
  <2>2. UNCHANGED <<current, during>> \/ Abandon
    BY <1>2 DEF Update, Lock, Drain, DrainThrows, UpdateFirst, UpdateRest,
                ParallelForThrows, AddAll, AddAllThrows, Unlock, UpdateReturns
  <2>3. SnapshotsOK'
    BY <2>1 DEF callVars, IInv, SnapshotsOK
  <2>4. CASE UNCHANGED <<current, during>>
    BY <2>1, <2>3, <2>4 DEF callVars, IInv, Known, DuringOK, AnswersInForce
  <2>5. CASE Abandon
    BY <2>1, <2>3, <2>5, AbandonFacts, KnownInForce
       DEF Known, IInv, CInv, RInv, OInv, Typed
  <2>6. QED
    BY <2>2, <2>4, <2>5
<1>3. QED
  BY <1>1, <1>2

LEMMA KnownStep ==
    ASSUME IInv, [Next]_vars
    PROVE  Known'
<1>1. ASSUME NEW p \in Callers, NEW f \in Flags, NEW c \in Contexts,
             EvaluateFlag(p, f, c)
      PROVE  Known'
  <2>1. /\ UNCHANGED <<cache, generation, current>>
        /\ pc'[p] = "load" /\ during'[p] = {current}
        /\ \A q \in Callers \ {p} :
              /\ pc'[q] = pc[q] /\ snap'[q] = snap[q] /\ result'[q] = result[q]
              /\ flagKey'[q] = flagKey[q] /\ ctx'[q] = ctx[q] /\ during'[q] = during[q]
    BY <1>1 DEF EvaluateFlag, sharedVars, IInv, CInv, RInv, OInv, Typed, TypeOK
  <2>2. QED
    BY <2>1 DEF IInv, Known, SnapshotsOK, DuringOK, AnswersInForce
<1>2. ASSUME NEW u \in Updaters, NEW c \in Submitted, UpdateState(u, c)
      PROVE  Known'
  BY <1>2 DEF UpdateState, sharedVars, callVars, specVars,
              IInv, Known, SnapshotsOK, DuringOK, AnswersInForce
<1>3. CASE Dispose \/ DisposeTaken \/ DisposeTimesOut \/ DisposePool \/ UNCHANGED vars
  <2>1. UNCHANGED <<cache, generation, callVars, specVars>>
    BY <1>3 DEF Dispose, DisposeTaken, DisposeTimesOut, DisposePool, vars, sharedVars
  <2>2. QED
    BY <2>1 DEF callVars, specVars, IInv, Known, SnapshotsOK, DuringOK, AnswersInForce
<1>4. QED
  BY <1>1, <1>2, <1>3, KnownEvaluation, KnownUpdate DEF Next

\* Every answer of the .NET pool is an exception or the answer of a configuration
\* that was in force during the call, whatever other threads install meanwhile,
\* unless a failed update had left the instances with different ones.
THEOREM DotnetAnswersAreInForce == ASSUME NoneRefuses PROVE Spec => []AnswersInForce
<1>1. IInv /\ [Next]_vars => IInv'
  BY CInvStep, KnownStep DEF IInv, Known
<1>2. IInv => AnswersInForce
  BY DEF IInv
<1>3. QED
  BY <1>1, <1>2, IInvInit, PTL DEF Spec

-----------------------------------------------------------------------------
(***************************************************************************)
(* Refinement: while no update fails half way, callers see a FlagService,  *)
(* whatever is filtered from a context and whenever the pool is disposed.  *)
(***************************************************************************)
\* An evaluation takes effect as it gives back its instance, at which a disposed
\* pool may still replace its answer by an exception; on the fast path, as it
\* reads the cache.
CallSeen(p) ==
    [stage |-> IF pc[p] = "idle" THEN "idle"
               ELSE IF pc[p] = "done" THEN "answered"
               ELSE "pending",
     flag |-> flagKey[p], ctx |-> ctx[p],
     answer |-> IF pc[p] = "done" THEN result[p] ELSE NotFound]

Seen == [p \in Callers |-> CallSeen(p)]

Service == INSTANCE FlagService WITH call <- Seen

\* What a caller asked.
AskedOK ==
    \A p \in Callers :
        /\ pc[p] = "idle" => flagKey[p] = 0 /\ ctx[p] = {}
        /\ pc[p] # "idle" => flagKey[p] \in Flags /\ ctx[p] \in Contexts

\* An answer cannot grow old while its caller has the instance: no update has all
\* of them, so none publishes.
AnswerHeld ==
    \A p \in Callers : pc[p] = "add" /\ current # Mixed =>
        result[p] \in {Failed, Evaluate(current, flagKey[p], ctx[p])}

SInv == IInv /\ AskedOK /\ AnswerHeld

\* FlagService speaks of the same configurations as the pool.
LEMMA SameConfig ==
    /\ Service!NotFound = NotFound
    /\ Service!Failed = Failed
    /\ \A c, f, k : Service!Evaluate(c, f, k) = Evaluate(c, f, k)
BY DEF Service!NotFound, NotFound, Service!Failed, Failed, Service!Evaluate, Evaluate,
       Service!FlagsOf, FlagsOf, Service!Value, Value, Service!SeenFields, SeenFields

LEMMA SInvInit == Init => SInv
BY IInvInit DEF Init, SInv, AskedOK, AnswerHeld

\* A step of a caller that shows nothing: it moves on, with or without an answer
\* that is not final yet.
MovesOn(p) ==
    /\ pc[p] \notin {"idle", "done"} /\ UNCHANGED <<flagKey, ctx, current>>
    /\ pc'[p] \notin {"idle", "done"}
    /\ \A q \in Callers : q # p => pc'[q] = pc[q] /\ result'[q] = result[q]
    /\ pc'[p] = "add" /\ current # Mixed =>
          result'[p] \in {Failed, Evaluate(current, flagKey[p], ctx[p])}

\* A step that ends the call with answer a.
EndsWith(p, a) ==
    /\ pc[p] \notin {"idle", "done"} /\ UNCHANGED <<flagKey, ctx, current>>
    /\ pc'[p] = "done" /\ result'[p] = a
    /\ \A q \in Callers : q # p => pc'[q] = pc[q] /\ result'[q] = result[q]

LEMMA MovesOnSeen ==
    ASSUME SInv, NEW p \in Callers, MovesOn(p)
    PROVE  UNCHANGED <<current, Seen>> /\ AskedOK' /\ AnswerHeld'
<1> USE DEF SInv, MovesOn
<1>1. \A q \in Callers : CallSeen(q)' = CallSeen(q)
  BY DEF CallSeen
<1>2. UNCHANGED <<current, Seen>>
  BY <1>1 DEF Seen
<1>3. AskedOK' /\ AnswerHeld'
  BY DEF AskedOK, AnswerHeld
<1>4. QED
  BY <1>2, <1>3

LEMMA EndsWithSeen ==
    ASSUME SInv, NEW p \in Callers, NEW a, EndsWith(p, a)
    PROVE  /\ a \in {Failed, Evaluate(current, flagKey[p], ctx[p])} => Service!ServiceNext
           /\ AskedOK' /\ AnswerHeld'
<1> USE DEF SInv, EndsWith
<1> DEFINE w == Service!Answered(flagKey[p], ctx[p], a)
<1>1. CallSeen(p) = Service!Pending(flagKey[p], ctx[p]) /\ CallSeen(p)' = w
  BY SameConfig DEF CallSeen, Service!Pending, Service!Answered, Service!Call
<1>2. \A q \in Callers : q # p => CallSeen(q)' = CallSeen(q)
  BY DEF CallSeen
<1>3. Seen' = [Seen EXCEPT ![p] = w]
  <2> HIDE DEF w
  <2>1. \A q \in Callers : CallSeen(q)' = IF q = p THEN w ELSE CallSeen(q)
    BY <1>1, <1>2
  <2>2. Seen' = [q \in Callers |-> IF q = p THEN w ELSE CallSeen(q)]
    BY <2>1 DEF Seen
  <2>3. QED
    BY <2>2 DEF Seen
<1>4. ASSUME a \in {Failed, Evaluate(current, flagKey[p], ctx[p])}
      PROVE  Service!ServiceNext
  <2>1. a \in {Service!Evaluate(current, flagKey[p], ctx[p]), Service!Failed}
    BY <1>4, SameConfig
  <2>2. Service!Answer(p, flagKey[p], ctx[p], a)
    BY <1>1, <1>3, <2>1 DEF Service!Answer, Seen
  <2>3. flagKey[p] \in Flags /\ ctx[p] \in Contexts
    BY DEF AskedOK
  <2>4. QED
    BY <2>1, <2>2, <2>3 DEF Service!ServiceNext
<1>5. AskedOK' /\ AnswerHeld'
  BY DEF AskedOK, AnswerHeld
<1>6. QED
  BY <1>4, <1>5

\* The step shows as one of the service, or not at all.
Shown == [Service!ServiceNext]_<<current, Seen>>

LEMMA ReturnImplements ==
    ASSUME SInv, NEW p \in Callers, EvaluateReturns(p)
    PROVE  Shown /\ AskedOK' /\ AnswerHeld'
<1> USE DEF SInv, IInv, CInv, RInv, OInv, Typed, TypeOK
<1>1. /\ pc[p] = "done" /\ pc'[p] = "idle" /\ flagKey'[p] = 0 /\ ctx'[p] = {}
      /\ \A q \in Callers : q # p =>
            /\ pc'[q] = pc[q] /\ result'[q] = result[q]
            /\ flagKey'[q] = flagKey[q] /\ ctx'[q] = ctx[q]
      /\ UNCHANGED current
  BY DEF EvaluateReturns
<1> HIDE DEF IInv, CInv, RInv, OInv, Typed, TypeOK
<1>2. CallSeen(p).stage = "answered" /\ CallSeen(p)' = Service!Idle
  BY <1>1, SameConfig DEF CallSeen, Service!Idle, Service!Call
<1>3. \A q \in Callers : CallSeen(q)' = IF q = p THEN Service!Idle ELSE CallSeen(q)
  BY <1>1, <1>2 DEF CallSeen
<1>4. Seen' = [Seen EXCEPT ![p] = Service!Idle]
  <2>1. Seen' = [q \in Callers |-> IF q = p THEN Service!Idle ELSE CallSeen(q)]
    BY <1>3 DEF Seen
  <2>2. QED
    BY <2>1 DEF Seen
<1>5. Service!Return(p)
  BY <1>1, <1>2, <1>4 DEF Service!Return, Seen
<1>6. AskedOK' /\ AnswerHeld'
  BY <1>1 DEF AskedOK, AnswerHeld
<1>7. QED
  BY <1>5, <1>6 DEF Service!ServiceNext, Shown

LEMMA CallImplements ==
    ASSUME SInv, NEW p \in Callers, Evaluation(p)
    PROVE  (current # Mixed => Shown) /\ AskedOK' /\ AnswerHeld'
<1> DEFINE right == {Failed, Evaluate(current, flagKey[p], ctx[p])}
<1> USE DEF SInv, IInv, CInv, RInv, OInv, Typed, TypeOK
<1>1. UNCHANGED current
  BY EvaluationFrame
<1>2. CASE MovesOn(p)
  BY <1>2, MovesOnSeen DEF Shown
<1>3. ASSUME NEW a, EndsWith(p, a), current # Mixed => a \in right
      PROVE  (current # Mixed => Shown) /\ AskedOK' /\ AnswerHeld'
  BY <1>3, EndsWithSeen DEF Shown
<1>4. CASE Load(p)
  <2>1. CASE Hit(p)
    <3>1. EndsWith(p, Evaluate(cache.config, flagKey[p], {}))
      BY <1>1, <1>4, <2>1 DEF Load, AnswerFromCache, EndsWith
    <3>2. QED
      BY <1>3, <2>1, <3>1, HitIsRight
  <2>2. CASE ~Hit(p)
    BY <1>1, <1>2, <1>4, <2>2 DEF Load, MovesOn
  <2>3. QED
    BY <2>1, <2>2
<1>5. CASE Take(p)
  BY <1>1, <1>2, <1>5 DEF Take, MovesOn
<1>6. CASE TakeThrows(p) \/ AddThrows(p)
  <2>1. EndsWith(p, Failed)
    BY <1>1, <1>6 DEF TakeThrows, AddThrows, EndsWith
  <2>2. QED
    BY <1>3, <2>1
<1>7. CASE CheckGeneration(p)
  <2>1. /\ pc[p] = "check" /\ UNCHANGED <<flagKey, ctx>>
        /\ \A q \in Callers : q # p => pc'[q] = pc[q] /\ result'[q] = result[q]
        /\ \/ pc'[p] = "evaluate"
           \/ /\ pc'[p] = "add" /\ Hit(p)
              /\ result'[p] = Evaluate(cache.config, flagKey[p], {})
    BY <1>7 DEF CheckGeneration, AnswerFromCache
  <2>2. QED
    BY <1>1, <1>2, <2>1, HitIsRight DEF MovesOn
<1>8. CASE EvaluateOnInstance(p)
  <2>1. /\ pc[p] = "evaluate" /\ UNCHANGED <<flagKey, ctx>>
        /\ pc'[p] = "add" /\ result'[p] = CallWasm(p)
        /\ \A q \in Callers : q # p => pc'[q] = pc[q] /\ result'[q] = result[q]
    BY <1>8 DEF EvaluateOnInstance
  <2>2. QED
    BY <1>1, <1>2, <1>8, <2>1, InstanceIsRight DEF MovesOn
<1>9. CASE EvaluateThrows(p)
  BY <1>1, <1>2, <1>9 DEF EvaluateThrows, MovesOn
<1>10. CASE Add(p)
  <2>1. pc[p] = "add" /\ EndsWith(p, result[p])
    BY <1>1, <1>10 DEF Add, EndsWith
  <2>2. QED
    BY <1>3, <2>1 DEF AnswerHeld
<1>11. QED
  BY <1>4, <1>5, <1>6, <1>7, <1>8, <1>9, <1>10, ReturnImplements DEF Evaluation

LEMMA InvokeImplements ==
    ASSUME SInv, NEW p \in Callers, NEW f \in Flags, NEW c \in Contexts,
           EvaluateFlag(p, f, c)
    PROVE  Shown /\ AskedOK' /\ AnswerHeld'
<1> USE DEF SInv, IInv, CInv, RInv, OInv, Typed, TypeOK
<1>1. /\ pc[p] = "idle" /\ pc'[p] = "load" /\ flagKey'[p] = f /\ ctx'[p] = c
      /\ \A q \in Callers : q # p =>
            /\ pc'[q] = pc[q] /\ result'[q] = result[q]
            /\ flagKey'[q] = flagKey[q] /\ ctx'[q] = ctx[q]
      /\ UNCHANGED current
  BY DEF EvaluateFlag
<1> HIDE DEF IInv, CInv, RInv, OInv, Typed, TypeOK
<1>2. CallSeen(p) = Service!Idle /\ CallSeen(p)' = Service!Pending(f, c)
  BY <1>1, SameConfig DEF AskedOK, CallSeen, Service!Idle, Service!Pending, Service!Call
<1>3. \A q \in Callers :
        CallSeen(q)' = IF q = p THEN Service!Pending(f, c) ELSE CallSeen(q)
  BY <1>1, <1>2 DEF CallSeen
<1>4. Seen' = [Seen EXCEPT ![p] = Service!Pending(f, c)]
  <2>1. Seen' = [q \in Callers |->
                   IF q = p THEN Service!Pending(f, c) ELSE CallSeen(q)]
    BY <1>3 DEF Seen
  <2>2. QED
    BY <2>1 DEF Seen
<1>5. Service!Invoke(p, f, c)
  BY <1>1, <1>2, <1>4 DEF Service!Invoke, Seen
<1>6. AskedOK' /\ AnswerHeld'
  BY <1>1 DEF AskedOK, AnswerHeld
<1>7. QED
  BY <1>5, <1>6 DEF Service!ServiceNext, Shown

\* An update shows at its Publish, at which no caller has an answer that is not
\* final, or when it fails half way.
LEMMA UpdateImplements ==
    ASSUME SInv, NEW u \in Updaters, Update(u)
    PROVE  /\ current # Mixed /\ current' # Mixed => Shown
           /\ AskedOK' /\ AnswerHeld'
<1> USE DEF SInv, IInv, CInv, RInv
<1>1. UNCHANGED callVars
  BY DEF Update, Lock, Drain, DrainThrows, UpdateFirst, UpdateRest, ParallelForThrows,
         Publish, AddAll, AddAllThrows, Unlock, UpdateReturns
<1>2. UNCHANGED Seen /\ AskedOK'
  BY <1>1 DEF callVars, Seen, CallSeen, AskedOK
<1>3. CASE Publish(u)
  <2>1. upc[u] = "rest" /\ config[u] \in Configs /\ current' = config[u]
    BY <1>3 DEF Publish, InForce, OInv, Typed, OutcomeOK
  <2>2. Service!Install(config[u])
    BY <1>2, <2>1 DEF Service!Install, Seen
  <2>3. AnswerHeld'
    BY <1>1, <2>1, UpdaterAlone DEF callVars, AnswerHeld
  <2>4. QED
    BY <1>2, <2>1, <2>2, <2>3 DEF Service!ServiceNext, Shown
<1>4. CASE ~Publish(u)
  <2>1. UNCHANGED current \/ Abandon
    BY <1>4 DEF Update, Lock, Drain, DrainThrows, UpdateFirst, UpdateRest,
                ParallelForThrows, AddAll, AddAllThrows, Unlock, UpdateReturns, specVars
  <2>2. current' \in {current, Mixed}
    BY <2>1, AbandonFacts DEF OInv, Typed
  <2>3. QED
    BY <1>1, <1>2, <2>2 DEF callVars, AnswerHeld, Shown
<1>5. QED
  BY <1>3, <1>4

LEMMA StepImplements ==
    ASSUME SInv, [Next]_vars
    PROVE  /\ current # Mixed /\ current' # Mixed => Shown
           /\ AskedOK' /\ AnswerHeld'
<1>1. ASSUME UNCHANGED <<callVars, current>>
      PROVE  Shown /\ AskedOK' /\ AnswerHeld'
  BY <1>1 DEF callVars, SInv, Shown, Seen, CallSeen, AskedOK, AnswerHeld
<1>2. ASSUME NEW u \in Updaters, NEW c \in Submitted, UpdateState(u, c)
      PROVE  UNCHANGED <<callVars, current>>
  BY <1>2 DEF UpdateState, specVars
<1>3. Dispose \/ DisposeTaken \/ DisposeTimesOut \/ DisposePool \/ UNCHANGED vars
        => UNCHANGED <<callVars, current>>
  BY DEF Dispose, DisposeTaken, DisposeTimesOut, DisposePool, vars, specVars
<1>4. QED
  BY <1>1, <1>2, <1>3, CallImplements, InvokeImplements, UpdateImplements DEF Next

\* The .NET host implements the abstract service for as long as no failed update
\* leaves its instances with different configurations, with nothing asked of the
\* fields the configurations read: a caller serializes its context after the
\* guard.  A pool that is disposed only adds exceptions.
THEOREM DotnetPoolImplementsService ==
    ASSUME NoneRefuses
    PROVE  Spec /\ [](current # Mixed) => Service!ServiceSpec
<1>1. SInv /\ [Next]_vars => SInv'
  BY CInvStep, KnownStep, StepImplements DEF SInv, IInv, Known
<1>2. Init => Service!ServiceInit
  <2>1. Init => \A p \in Callers : CallSeen(p) = Service!Idle
    BY SameConfig DEF Init, CallSeen, Service!Idle, Service!Call
  <2>2. QED
    BY <2>1 DEF Init, Service!ServiceInit, Seen
<1>3. SInv /\ current # Mixed /\ (current # Mixed)' /\ [Next]_vars
        => [Service!ServiceNext]_(Service!serviceVars)
  BY StepImplements DEF Service!serviceVars, Shown
<1>4. QED
  BY SInvInit, <1>1, <1>2, <1>3, PTL DEF Spec, Service!ServiceSpec

=============================================================================
