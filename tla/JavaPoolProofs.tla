---------------------------- MODULE JavaPoolProofs ----------------------------
(***************************************************************************)
(* Invariance proofs for JavaPool, for any number of instances, callers,   *)
(* updaters and configurations, and the proof that JavaPool implements     *)
(* FlagService.                                                            *)
(***************************************************************************)
EXTENDS JavaPool, FlagConfigProofs

\* What an update reports, as far as it has come.
OutcomeOK ==
    \A u \in Updaters :
        /\ upc[u] \in {"idle", "lock", "drain", "first"} => outcome[u] = "none"
        /\ upc[u] = "rest" => outcome[u] \in {"none", "error"}
        /\ upc[u] = "rest" /\ outcome[u] = "none" => config[u] \in Configs
        /\ upc[u] # "idle" => config[u] \in Submitted

Typed == TypeOK /\ OutcomeOK

LEMMA ResultTypes ==
    ASSUME NEW w, NEW c, NEW f
    PROVE  UpdateResult(w, c, f) = "success" =>
               c \in Configs /\ AfterUpdate(w, c, f) = c
BY DEF UpdateResult, AfterUpdate

LEMMA InstalledTypes ==
    ASSUME NEW w \in Loadable \cup {Dead}, NEW c, NEW f
    PROVE  AfterUpdate(w, c, f) \in Loadable \cup {Dead}
BY DEF AfterUpdate, Loadable

LEMMA CallWasmType ==
    ASSUME TypeOK, NEW p \in Callers, inst[p] \in Instances, wasm[inst[p]] # Dead
    PROVE  CallWasm(p) \in Answers
<1>1. wasm[inst[p]] \in Loadable
  BY DEF TypeOK
<1>2. sent[p] \in SUBSET Attrs
  BY DEF TypeOK
<1>3. QED
  BY <1>1, <1>2, AnswerTypes DEF CallWasm

\* The two halves of OnePlace: nowhere twice, and somewhere.
Disjoint ==
    /\ pool \cap closed = {}
    /\ \A p \in Callers : inst[p] \notin pool \cup closed
    /\ \A u \in Updaters : instances[u] \cap (pool \cup closed) = {}
    /\ \A p \in Callers, u \in Updaters : inst[p] \notin instances[u]
    /\ \A p, q \in Callers : p # q /\ inst[p] # None => inst[p] # inst[q]
    /\ \A u, v \in Updaters : u # v => instances[u] \cap instances[v] = {}

Somewhere ==
    \A i \in Instances :
        \/ i \in pool \cup closed
        \/ \E p \in Callers : inst[p] = i
        \/ \E u \in Updaters : i \in instances[u]

\* A caller has an instance exactly from Take to Add.
HolderPhase ==
    \A p \in Callers :
        inst[p] \in Instances <=> pc[p] \in {"check", "evaluate", "add"}

\* An updater has the lock exactly from Lock to Unlock, and while it has it the
\* instances it drained; it calls update_state once it has all of them.
UpdaterPhase ==
    \A u \in Updaters :
        /\ upc[u] \in {"drain", "first", "rest", "addAll"} <=> updateLock = u
        /\ instances[u] # {} => updateLock = u
        /\ upc[u] \in {"first", "rest"} => instances[u] = Instances

Ownership == HolderPhase /\ UpdaterPhase /\ OnePlace

-----------------------------------------------------------------------------
(***************************************************************************)
(* Types                                                                   *)
(***************************************************************************)
LEMMA TypedInit == Init => Typed
<1>1. EMPTY \in Snapshots /\ NoConfig \in Loadable /\ NotFound \in Answers
  BY AnswerTypes DEF EMPTY, Snapshot, Snapshots, Loadable
<1>2. ASSUME Init PROVE TypeOK
  <2>1. /\ inst \in [Callers -> Instances \cup {None}]
        /\ result \in [Callers -> Answers] /\ snap \in [Callers -> Snapshots]
        /\ flagKey \in [Callers -> Flags \cup {0}]
        /\ ctx \in [Callers -> SUBSET Attrs] /\ sent \in [Callers -> SUBSET Attrs]
        /\ byContext \in [Callers -> BOOLEAN]
    BY <1>1, <1>2 DEF Init
  <2>2. /\ instances \in [Updaters -> SUBSET Instances]
        /\ pending \in [Updaters -> SUBSET Instances]
        /\ config \in [Updaters -> Submitted \cup {NoConfig}]
    BY <1>2 DEF Init
  <2>3. QED
    BY <1>1, <1>2, <2>1, <2>2 DEF Init, TypeOK
<1>3. Init => OutcomeOK
  BY DEF Init, OutcomeOK
<1>4. QED
  BY <1>2, <1>3 DEF Typed

\* Steps of a caller.
LEMMA TypedEvaluation ==
    ASSUME Typed, NEW p \in Callers, Evaluation(p), HolderPhase
    PROVE  Typed'
<1> USE DEF Typed, TypeOK, OutcomeOK, sharedVars, wasmVars, updateVars, closeVars
<1>1. NotFound \in Answers /\ Failed \in Answers
  BY AnswerTypes DEF Loadable
<1>2. Evaluate(cache.config, flagKey[p], {}) \in Answers
  <2>1. cache.config \in Loadable
    BY DEF Snapshots
  <2>2. QED
    BY <2>1, AnswerTypes
<1>3. CASE Load(p)
  <2>1. Filtered(p, cache) \in SUBSET Attrs
    BY DEF Filtered
  <2>2. /\ snap' = [snap EXCEPT ![p] = cache]
        /\ \/ UNCHANGED pc
           \/ pc' = [pc EXCEPT ![p] = "done"]
           \/ pc' = [pc EXCEPT ![p] = "take"]
        /\ \/ UNCHANGED byContext
           \/ byContext' = [byContext EXCEPT ![p] = FALSE]
        /\ UNCHANGED <<flagKey, ctx, inst, sharedVars, wasmVars, closeVars,
                       updateVars, current>>
    BY <1>3 DEF Load, AnswerFromCache
  <2>3. sent' \in [Callers -> SUBSET Attrs]
    BY <1>3, <2>1 DEF Load
  <2>4. result' \in [Callers -> Answers]
    BY <1>1, <1>2, <1>3 DEF Load, AnswerFromCache
  <2>5. /\ snap' \in [Callers -> Snapshots] /\ byContext' \in [Callers -> BOOLEAN]
        /\ pc' \in [Callers -> {"idle", "load", "take", "check", "evaluate", "add",
                                "done"}]
    BY <2>2
  <2>6. QED
    BY <2>2, <2>3, <2>4, <2>5
<1>4. CASE Take(p)
  BY <1>4 DEF Take
<1>5. CASE TakeInterrupted(p)
  BY <1>1, <1>5 DEF TakeInterrupted
<1>6. CASE CheckGeneration(p)
  <2>1. /\ UNCHANGED snap \/ snap' = [snap EXCEPT ![p] = cache]
        /\ pc' = [pc EXCEPT ![p] = "evaluate"] \/ pc' = [pc EXCEPT ![p] = "add"]
        /\ \/ UNCHANGED result
           \/ result' = [result EXCEPT ![p] = Evaluate(cache.config, flagKey[p], {})]
        /\ UNCHANGED <<flagKey, ctx, byContext, sent, inst, sharedVars, wasmVars,
                       closeVars, updateVars, current>>
    BY <1>6 DEF CheckGeneration, AnswerFromCache
  <2>2. QED
    BY <1>2, <2>1
<1>7. CASE EvaluateOnInstance(p)
  <2>1. CallWasm(p) \in Answers
    BY <1>7, CallWasmType DEF EvaluateOnInstance, HolderPhase
  <2>2. QED
    BY <1>7, <2>1 DEF EvaluateOnInstance
<1>8. CASE EvaluateFails(p)
  BY <1>1, <1>8 DEF EvaluateFails
<1>9. CASE Add(p)
  BY <1>9 DEF Add, HolderPhase
<1>10. CASE EvaluateReturns(p)
  BY <1>1, <1>10 DEF EvaluateReturns, EMPTY, Snapshot, Snapshots, Loadable
<1>11. QED
  BY <1>3, <1>4, <1>5, <1>6, <1>7, <1>8, <1>9, <1>10 DEF Evaluation

\* Steps of an updater.
LEMMA TypedUpdate ==
    ASSUME Typed, NEW u \in Updaters, Update(u)
    PROVE  Typed'
<1> USE DEF Typed, TypeOK, OutcomeOK, sharedVars, wasmVars, callVars, closeVars
<1>1. CASE Lock(u)
  BY <1>1 DEF Lock
<1>2. CASE Drain(u)
  BY <1>2 DEF Drain
<1>3. CASE DrainInterrupted(u)
  BY <1>3 DEF DrainInterrupted
<1>4. CASE UpdateFirst(u)
  <2>1. PICK i \in instances[u], f \in FirstFaults \cup {"ok"} :
              /\ wasm' = [wasm EXCEPT ![i] = AfterUpdate(wasm[i], config[u], f)]
              /\ outcome' = IF UpdateResult(wasm[i], config[u], f) = "success"
                            THEN outcome ELSE [outcome EXCEPT ![u] = "error"]
              /\ pending' = [pending EXCEPT ![u] = instances[u] \ {i}]
    BY <1>4 DEF UpdateFirst, UpdateInstance
  <2>2. i \in Instances /\ AfterUpdate(wasm[i], config[u], f) \in Loadable \cup {Dead}
    BY InstalledTypes
  <2>3. UpdateResult(wasm[i], config[u], f) = "success" => config[u] \in Configs
    BY ResultTypes
  <2>4. QED
    BY <1>4, <2>1, <2>2, <2>3 DEF UpdateFirst
<1>5. CASE UpdateRest(u)
  <2>1. PICK i \in pending[u], f \in RestFaults \cup {"ok"} :
              /\ wasm' = [wasm EXCEPT ![i] = AfterUpdate(wasm[i], config[u], f)]
              /\ \/ UNCHANGED outcome
                 \/ outcome' = [outcome EXCEPT ![u] = "error"]
              /\ pending' = [pending EXCEPT ![u] = @ \ {i}]
    BY <1>5 DEF UpdateRest, UpdateInstance
  <2>2. i \in Instances /\ AfterUpdate(wasm[i], config[u], f) \in Loadable \cup {Dead}
    BY InstalledTypes
  <2>3. QED
    BY <1>5, <2>1, <2>2 DEF UpdateRest
<1>6. CASE JoinThrows(u)
  BY <1>6 DEF JoinThrows
<1>7. CASE Publish(u)
  <2>1. config[u] \in Loadable /\ generation + 1 \in Nat
    BY <1>7 DEF Publish, Loadable
  <2>2. Snapshot(generation + 1, config[u]) \in Snapshots
    BY <2>1 DEF Snapshot, Snapshots
  <2>3. QED
    BY <1>7, <2>1, <2>2 DEF Publish
<1>8. CASE AddAll(u)
  BY <1>8 DEF AddAll
<1>9. CASE Unlock(u)
  BY <1>9 DEF Unlock
<1>10. CASE UpdateReturns(u)
  BY <1>10 DEF UpdateReturns
<1>11. QED
  BY <1>1, <1>2, <1>3, <1>4, <1>5, <1>6, <1>7, <1>8, <1>9, <1>10 DEF Update

LEMMA TypedStep ==
    ASSUME Typed, HolderPhase, [Next]_vars
    PROVE  Typed'
<1> USE DEF Typed, TypeOK, OutcomeOK
<1>1. ASSUME NEW p \in Callers, NEW f \in Flags, NEW c \in Contexts,
             NEW b \in BOOLEAN, EvaluateFlag(p, f, c, b)
      PROVE  Typed'
  BY <1>1, PoolAssumption
     DEF EvaluateFlag, sharedVars, wasmVars, updateVars, closeVars
<1>2. ASSUME NEW u \in Updaters, NEW c \in Submitted, UpdateState(u, c)
      PROVE  Typed'
  BY <1>2 DEF UpdateState, sharedVars, wasmVars, callVars, closeVars
<1>3. CASE Close
  BY <1>3 DEF Close, sharedVars, wasmVars, callVars, updateVars
<1>4. CASE ClosePolled
  BY <1>4 DEF ClosePolled, wasmVars, callVars, updateVars
<1>5. CASE CloseEnds
  BY <1>5 DEF CloseEnds, sharedVars, wasmVars, callVars, updateVars
<1>6. CASE UNCHANGED vars
  BY <1>6 DEF vars, sharedVars, wasmVars, callVars, updateVars, closeVars
<1>7. QED
  <2>1. ASSUME NEW p \in Callers, Evaluation(p) PROVE Typed'
    BY ONLY <2>1, Typed, HolderPhase, TypedEvaluation
  <2>2. ASSUME NEW u \in Updaters, Update(u) PROVE Typed'
    BY ONLY <2>2, Typed, TypedUpdate
  <2> HIDE DEF Typed
  <2>3. QED
    BY <1>1, <1>2, <1>3, <1>4, <1>5, <1>6, <2>1, <2>2 DEF Next

-----------------------------------------------------------------------------
(***************************************************************************)
(* Ownership                                                               *)
(***************************************************************************)
LEMMA OwnershipInit == Init => Ownership
BY PoolAssumption
   DEF Init, Ownership, HolderPhase, UpdaterPhase, OnePlace

LEMMA SamePlaces ==
    ASSUME OnePlace, UNCHANGED <<pool, closed, inst, instances>>
    PROVE  OnePlace'
BY DEF OnePlace

\* A step of a caller that leaves every instance where it is.
LEMMA OwnershipKept ==
    ASSUME Ownership,
           UNCHANGED <<inst, pool, updateLock, upc, instances, closed>>,
           \A p \in Callers : pc'[p] \in {"check", "evaluate", "add"}
                                <=> pc[p] \in {"check", "evaluate", "add"}
    PROVE  Ownership'
<1>1. HolderPhase'
  BY DEF Ownership, HolderPhase
<1>2. UpdaterPhase'
  BY DEF Ownership, UpdaterPhase
<1>3. OnePlace'
  BY SamePlaces DEF Ownership
<1> QED
  BY <1>1, <1>2, <1>3 DEF Ownership

LEMMA OwnershipEvaluation ==
    ASSUME Typed, Ownership, NEW p \in Callers, Evaluation(p)
    PROVE  Ownership'
<1> USE PoolAssumption
    DEF Typed, TypeOK, Ownership, HolderPhase, UpdaterPhase, OnePlace,
        sharedVars, wasmVars, updateVars, closeVars
<1>1. CASE Load(p)
  <2>1. /\ pc[p] = "load"
        /\ \/ UNCHANGED pc
           \/ pc' = [pc EXCEPT ![p] = "done"]
           \/ pc' = [pc EXCEPT ![p] = "take"]
        /\ UNCHANGED <<inst, pool, updateLock, upc, instances, closed>>
    BY <1>1 DEF Load, AnswerFromCache
  <2>2. HolderPhase'
    BY <2>1
  <2>3. UpdaterPhase' /\ OnePlace'
    BY <2>1
  <2>4. QED
    BY <2>2, <2>3
<1>2. CASE Take(p)
  <2>1. /\ pc[p] = "take" /\ pc' = [pc EXCEPT ![p] = "check"]
        /\ inst[p] \notin Instances
        /\ UNCHANGED <<updateLock, upc, instances, closed>>
    BY <1>2 DEF Take
  <2>2. PICK i \in pool : /\ pool' = pool \ {i}
                          /\ inst' = [inst EXCEPT ![p] = i]
    BY <1>2 DEF Take
  <2>3. HolderPhase' /\ UpdaterPhase'
    BY <2>1, <2>2
  <2>4. OnePlace'
    BY <2>1, <2>2
  <2>5. QED
    BY <2>3, <2>4
<1>3. CASE TakeInterrupted(p)
  <2>1. /\ pc[p] = "take" /\ pc' = [pc EXCEPT ![p] = "done"]
        /\ UNCHANGED <<inst, pool, updateLock, upc, instances, closed>>
    BY <1>3 DEF TakeInterrupted
  <2>2. \A q \in Callers : pc'[q] \in {"check", "evaluate", "add"}
                               <=> pc[q] \in {"check", "evaluate", "add"}
    BY ONLY <2>1, Typed, p \in Callers DEF Typed, TypeOK
  <2>3. QED
    BY ONLY <2>1, <2>2, Ownership, OwnershipKept
<1>4. CASE CheckGeneration(p)
  <2>1. /\ pc[p] = "check"
        /\ \/ pc' = [pc EXCEPT ![p] = "evaluate"]
           \/ pc' = [pc EXCEPT ![p] = "add"]
        /\ UNCHANGED <<inst, pool, updateLock, upc, instances, closed>>
    BY <1>4 DEF CheckGeneration, AnswerFromCache
  <2>2. \A q \in Callers : pc'[q] \in {"check", "evaluate", "add"}
                               <=> pc[q] \in {"check", "evaluate", "add"}
    BY ONLY <2>1, Typed, p \in Callers DEF Typed, TypeOK
  <2>3. QED
    BY ONLY <2>1, <2>2, Ownership, OwnershipKept
<1>5. CASE EvaluateOnInstance(p)
  <2>1. /\ pc[p] = "evaluate" /\ pc' = [pc EXCEPT ![p] = "add"]
        /\ UNCHANGED <<inst, pool, updateLock, upc, instances, closed>>
    BY <1>5 DEF EvaluateOnInstance
  <2>2. \A q \in Callers : pc'[q] \in {"check", "evaluate", "add"}
                               <=> pc[q] \in {"check", "evaluate", "add"}
    BY ONLY <2>1, Typed, p \in Callers DEF Typed, TypeOK
  <2>3. QED
    BY ONLY <2>1, <2>2, Ownership, OwnershipKept
<1>6. CASE EvaluateFails(p)
  BY <1>6 DEF EvaluateFails
<1>7. CASE Add(p)
  <2>1. /\ pc[p] = "add" /\ pc' = [pc EXCEPT ![p] = "done"]
        /\ pool' = pool \cup {inst[p]} /\ inst' = [inst EXCEPT ![p] = None]
        /\ inst[p] \in Instances
        /\ UNCHANGED <<updateLock, upc, instances, closed>>
    BY <1>7 DEF Add
  <2>2. HolderPhase' /\ UpdaterPhase'
    BY <2>1
  <2>3. Somewhere'
    <3>1. \A i \in Instances, q \in Callers : inst[q] = i => inst'[q] = i \/ i \in pool'
      BY <2>1
    <3>2. QED
      BY <2>1, <3>1 DEF Somewhere
  <2>4. Disjoint'
    BY <2>1 DEF Disjoint
  <2>5. QED
    BY <2>2, <2>3, <2>4 DEF Somewhere, Disjoint
<1>8. CASE EvaluateReturns(p)
  <2>1. HolderPhase' /\ UpdaterPhase'
    BY <1>8 DEF EvaluateReturns
  <2>2. OnePlace'
    BY <1>8, SamePlaces DEF EvaluateReturns
  <2>3. QED
    BY <2>1, <2>2
<1>9. QED
  BY <1>1, <1>2, <1>3, <1>4, <1>5, <1>6, <1>7, <1>8 DEF Evaluation

LEMMA OwnershipUpdate ==
    ASSUME Typed, Ownership, NEW u \in Updaters, Update(u)
    PROVE  Ownership'
<1> USE PoolAssumption
    DEF Typed, TypeOK, Ownership, HolderPhase, UpdaterPhase, OnePlace,
        sharedVars, wasmVars, callVars, closeVars
<1>1. CASE Lock(u)
  BY <1>1 DEF Lock
<1>2. CASE Drain(u)
  <2>1. upc[u] = "drain" /\ UNCHANGED <<inst, updateLock, pc, closed>>
    BY <1>2 DEF Drain
  <2>2. PICK i \in pool :
              /\ pool' = pool \ {i}
              /\ instances' = [instances EXCEPT ![u] = @ \cup {i}]
              /\ upc' = IF instances[u] \cup {i} = Instances
                        THEN [upc EXCEPT ![u] = "first"] ELSE upc
    BY <1>2 DEF Drain
  <2>3. HolderPhase' /\ UpdaterPhase'
    BY <2>1, <2>2
  <2>4. Somewhere'
    <3>1. i \in instances'[u] /\ \A v \in Updaters : instances[v] \subseteq instances'[v]
      BY <2>2
    <3>2. Somewhere
      BY DEF Somewhere
    <3> HIDE DEF Typed, TypeOK, Ownership, HolderPhase, UpdaterPhase, OnePlace
    <3>3. ASSUME NEW j \in Instances
          PROVE  \/ j \in pool' \cup closed'
                 \/ \E p \in Callers : inst'[p] = j
                 \/ \E v \in Updaters : j \in instances'[v]
      <4>1. CASE j = i
        BY <3>1, <4>1
      <4>2. CASE j # i /\ j \in pool \cup closed
        BY <2>1, <2>2, <4>2
      <4>3. CASE \E p \in Callers : inst[p] = j
        BY <2>1, <4>3
      <4>4. CASE \E v \in Updaters : j \in instances[v]
        BY <3>1, <4>4
      <4>5. QED
        BY <3>2, <4>1, <4>2, <4>3, <4>4 DEF Somewhere
    <3>4. QED
      BY <3>3 DEF Somewhere
  <2>5. Disjoint'
    BY <2>1, <2>2 DEF Disjoint
  <2>6. QED
    BY <2>3, <2>4, <2>5 DEF Somewhere, Disjoint
<1>3. CASE DrainInterrupted(u)
  BY <1>3 DEF DrainInterrupted
<1>4. CASE UpdateFirst(u) \/ UpdateRest(u) \/ JoinThrows(u) \/ Publish(u)
  <2>1. /\ upc[u] \in {"first", "rest"}
        /\ \/ UNCHANGED upc /\ upc[u] = "rest"
           \/ upc' = [upc EXCEPT ![u] = "rest"]
           \/ upc' = [upc EXCEPT ![u] = "addAll"]
        /\ UNCHANGED <<inst, instances, pool, updateLock, pc, closed>>
    BY <1>4 DEF UpdateFirst, UpdateRest, JoinThrows, Publish
  <2>2. HolderPhase' /\ UpdaterPhase'
    BY <2>1
  <2>3. OnePlace'
    BY <2>1
  <2>4. QED
    BY <2>2, <2>3
<1>5. CASE AddAll(u)
  <2>1. upc[u] = "addAll" /\ UNCHANGED <<inst, updateLock, pc, upc, closed>>
    BY <1>5 DEF AddAll
  <2>2. PICK i \in instances[u] :
              /\ pool' = pool \cup {i}
              /\ instances' = [instances EXCEPT ![u] = @ \ {i}]
    BY <1>5 DEF AddAll
  <2>3. HolderPhase' /\ UpdaterPhase'
    BY <2>1, <2>2
  <2>4. OnePlace'
    BY <2>1, <2>2
  <2>5. QED
    BY <2>3, <2>4
<1>6. CASE Unlock(u)
  BY <1>6 DEF Unlock
<1>7. CASE UpdateReturns(u)
  BY <1>7 DEF UpdateReturns
<1>8. QED
  BY <1>1, <1>2, <1>3, <1>4, <1>5, <1>6, <1>7 DEF Update

LEMMA OwnershipStep ==
    ASSUME Typed, Ownership, [Next]_vars
    PROVE  Ownership'
<1> USE PoolAssumption
    DEF Typed, TypeOK, Ownership, HolderPhase, UpdaterPhase, OnePlace
<1>1. ASSUME NEW p \in Callers, NEW f \in Flags, NEW c \in Contexts,
             NEW b \in BOOLEAN, EvaluateFlag(p, f, c, b)
      PROVE  Ownership'
  BY <1>1 DEF EvaluateFlag, sharedVars, wasmVars, updateVars, closeVars
<1>2. ASSUME NEW u \in Updaters, NEW c \in Submitted, UpdateState(u, c)
      PROVE  Ownership'
  BY <1>2 DEF UpdateState, sharedVars, wasmVars, callVars, closeVars
<1>3. CASE Close
  BY <1>3 DEF Close, sharedVars, wasmVars, callVars, updateVars
<1>4. CASE ClosePolled
  BY <1>4 DEF ClosePolled, wasmVars, callVars, updateVars
<1>5. CASE CloseEnds
  BY <1>5 DEF CloseEnds, sharedVars, wasmVars, callVars, updateVars
<1>6. CASE UNCHANGED vars
  BY <1>6 DEF vars, sharedVars, wasmVars, callVars, updateVars, closeVars
<1> HIDE DEF Typed, TypeOK, Ownership, HolderPhase, UpdaterPhase, OnePlace
<1>7. QED
  BY <1>1, <1>2, <1>3, <1>4, <1>5, <1>6, OwnershipEvaluation, OwnershipUpdate
     DEF Next

\* Every reachable state of the Java pool is well typed.
THEOREM JavaTypeCorrect == Spec => []TypeOK
<1>1. Init => Typed /\ Ownership
  BY TypedInit, OwnershipInit
<1>2. (Typed /\ Ownership) /\ [Next]_vars => (Typed /\ Ownership)'
  BY TypedStep, OwnershipStep DEF Ownership
<1>3. Typed /\ Ownership => TypeOK
  BY DEF Typed
<1>4. QED
  BY <1>1, <1>2, <1>3, PTL DEF Spec

\* No instance of the Java pool is ever lost, shared by two threads, or used
\* after close freed it, whatever fails and whoever is interrupted.
THEOREM EveryInstanceInOnePlace == Spec => []OnePlace
<1>1. Init => Typed /\ Ownership
  BY TypedInit, OwnershipInit
<1>2. (Typed /\ Ownership) /\ [Next]_vars => (Typed /\ Ownership)'
  BY TypedStep, OwnershipStep DEF Ownership
<1>3. Typed /\ Ownership => OnePlace
  BY DEF Ownership
<1>4. QED
  BY <1>1, <1>2, <1>3, PTL DEF Spec

-----------------------------------------------------------------------------
(***************************************************************************)
(* What an update that succeeds has done, under every fault                *)
(***************************************************************************)
\* The instances an update is through with, while it has met no failure.
Reached ==
    \A u \in Updaters :
        /\ upc[u] = "rest" /\ outcome[u] = "none" =>
              \A i \in Instances \ pending[u] : wasm[i] \in {config[u], Dead}
        /\ upc[u] = "addAll" /\ outcome[u] = "success" =>
              \A i \in Instances : wasm[i] \in {config[u], Dead}

LEMMA ReachedInit == Init => Reached
BY DEF Init, Reached

\* While an updater has all instances, no caller has one and no other updater
\* is past its lock.
LEMMA UpdaterAlone ==
    ASSUME Typed, Ownership, NEW u \in Updaters, upc[u] \in {"first", "rest"}
    PROVE  /\ instances[u] = Instances
           /\ \A v \in Updaters : v # u =>
                 upc[v] \notin {"drain", "first", "rest", "addAll"}
           /\ \A p \in Callers : pc[p] \notin {"check", "evaluate", "add"}
BY DEF Typed, TypeOK, Ownership, HolderPhase, UpdaterPhase, OnePlace

\* A caller leaves updates alone and can only kill an instance.
LEMMA EvaluationFrame ==
    ASSUME Typed, NEW p \in Callers, Evaluation(p)
    PROVE  /\ UNCHANGED <<cache, generation, gen, closeVars, updateVars, current>>
           /\ \A i \in Instances : wasm'[i] \in {wasm[i], Dead}
<1> USE DEF Typed, TypeOK, sharedVars, wasmVars
<1>1. CASE EvaluateFails(p)
  BY <1>1 DEF EvaluateFails
<1>2. CASE ~EvaluateFails(p)
  BY <1>2 DEF Evaluation, Load, Take, TakeInterrupted, CheckGeneration,
              EvaluateOnInstance, Add, EvaluateReturns
<1>3. QED
  BY <1>1, <1>2

LEMMA ReachedEvaluation ==
    ASSUME Typed, Reached, NEW p \in Callers, Evaluation(p)
    PROVE  Reached'
BY EvaluationFrame DEF Reached, updateVars

LEMMA ReachedUpdate ==
    ASSUME Typed, Ownership, Reached, NEW u \in Updaters, Update(u)
    PROVE  Reached'
<1> USE DEF Typed, TypeOK, OutcomeOK, Reached, sharedVars, wasmVars, callVars, closeVars
<1>1. CASE Lock(u)
  BY <1>1 DEF Lock
<1>2. CASE Drain(u)
  BY <1>2 DEF Drain
<1>3. CASE DrainInterrupted(u)
  BY <1>3 DEF DrainInterrupted
<1>4. CASE UpdateFirst(u)
  <2>1. upc[u] = "first" /\ outcome[u] = "none" /\ UNCHANGED <<config, instances>>
    BY <1>4 DEF UpdateFirst
  <2>2. PICK i \in instances[u], f \in FirstFaults \cup {"ok"} :
              /\ wasm' = [wasm EXCEPT ![i] = AfterUpdate(wasm[i], config[u], f)]
              /\ outcome' = IF UpdateResult(wasm[i], config[u], f) = "success"
                            THEN outcome ELSE [outcome EXCEPT ![u] = "error"]
              /\ pending' = [pending EXCEPT ![u] = instances[u] \ {i}]
    BY <1>4 DEF UpdateFirst, UpdateInstance
  <2>3. /\ instances[u] = Instances
        /\ \A v \in Updaters : v # u => upc[v] \notin {"rest", "addAll"}
    BY <2>1, UpdaterAlone
  <2>4. upc' = [upc EXCEPT ![u] = IF outcome'[u] = "error" THEN "addAll" ELSE "rest"]
    BY <1>4 DEF UpdateFirst
  <2>5. CASE UpdateResult(wasm[i], config[u], f) = "success"
    <3>1. wasm'[i] = config[u] /\ outcome' = outcome
      BY <2>2, <2>3, <2>5, ResultTypes
    <3>2. Instances \ pending'[u] = {i}
      BY <2>2, <2>3
    <3>3. QED
      BY <2>1, <2>3, <2>4, <3>1, <3>2
  <2>6. CASE UpdateResult(wasm[i], config[u], f) # "success"
    <3>1. outcome' = [outcome EXCEPT ![u] = "error"]
      BY <2>2, <2>6
    <3>2. upc' = [upc EXCEPT ![u] = "addAll"]
      BY <2>4, <3>1
    <3>3. QED
      BY <2>1, <2>3, <3>1, <3>2
  <2>7. QED
    BY <2>5, <2>6
<1>5. CASE UpdateRest(u)
  <2>1. upc[u] = "rest" /\ UNCHANGED <<upc, config, instances>>
    BY <1>5 DEF UpdateRest
  <2>2. PICK i \in pending[u], f \in RestFaults \cup {"ok"} :
              /\ wasm' = [wasm EXCEPT ![i] = AfterUpdate(wasm[i], config[u], f)]
              /\ outcome' = IF UpdateResult(wasm[i], config[u], f) = "success"
                            THEN outcome ELSE [outcome EXCEPT ![u] = "error"]
              /\ pending' = [pending EXCEPT ![u] = @ \ {i}]
    BY <1>5 DEF UpdateRest, UpdateInstance
  <2>3. \A v \in Updaters : v # u => upc[v] \notin {"rest", "addAll"}
    BY <2>1, UpdaterAlone
  <2>4. CASE UpdateResult(wasm[i], config[u], f) = "success"
    <3>1. wasm'[i] = config[u] /\ outcome' = outcome
      BY <2>2, <2>4, ResultTypes
    <3>2. \A j \in Instances : j # i => wasm'[j] = wasm[j]
      BY <2>2
    <3>3. Instances \ pending'[u] = (Instances \ pending[u]) \cup {i}
      BY <2>2
    <3>4. QED
      BY <2>1, <2>3, <3>1, <3>2, <3>3
  <2>5. CASE UpdateResult(wasm[i], config[u], f) # "success"
    BY <2>1, <2>2, <2>3, <2>5
  <2>6. QED
    BY <2>4, <2>5
<1>6. CASE JoinThrows(u)
  BY <1>6 DEF JoinThrows
<1>7. CASE Publish(u)
  BY <1>7 DEF Publish
<1>8. CASE AddAll(u)
  BY <1>8 DEF AddAll
<1>9. CASE Unlock(u)
  BY <1>9 DEF Unlock
<1>10. CASE UpdateReturns(u)
  BY <1>10 DEF UpdateReturns
<1>11. QED
  BY <1>1, <1>2, <1>3, <1>4, <1>5, <1>6, <1>7, <1>8, <1>9, <1>10 DEF Update

LEMMA ReachedStep ==
    ASSUME Typed, Ownership, Reached, [Next]_vars
    PROVE  Reached'
<1>1. ASSUME NEW p \in Callers, NEW f \in Flags, NEW c \in Contexts,
             NEW b \in BOOLEAN, EvaluateFlag(p, f, c, b)
      PROVE  Reached'
  BY <1>1 DEF Reached, EvaluateFlag, wasmVars, updateVars
<1>2. ASSUME NEW u \in Updaters, NEW c \in Submitted, UpdateState(u, c)
      PROVE  Reached'
  BY <1>2 DEF Typed, TypeOK, Reached, UpdateState, wasmVars
<1>3. CASE Close \/ ClosePolled \/ CloseEnds
  BY <1>3 DEF Reached, Close, ClosePolled, CloseEnds, wasmVars, updateVars
<1>4. CASE UNCHANGED vars
  BY <1>4 DEF Reached, vars, wasmVars, updateVars
<1>5. QED
  BY <1>1, <1>2, <1>3, <1>4, ReachedEvaluation, ReachedUpdate DEF Next

RInv == Typed /\ Ownership /\ Reached

LEMMA RInvInit == Init => RInv
BY TypedInit, OwnershipInit, ReachedInit DEF RInv

LEMMA RInvStep == RInv /\ [Next]_vars => RInv'
BY TypedStep, OwnershipStep, ReachedStep DEF RInv, Ownership

\* An updateState of the Java pool that succeeds has updated every instance that
\* still runs, whatever faults the instances meet.
THEOREM JavaUpdateReachesAll == Spec => UpdateReachesAll
<1>1. ASSUME RInv, [Next]_vars, NEW u \in Updaters,
             upc'[u] = "done", upc[u] # "done", outcome'[u] = "success"
      PROVE  \A i \in Instances : wasm'[i] \in {config[u], Dead}
  <2> USE DEF RInv, Typed, TypeOK, OutcomeOK
  <2>1. Unlock(u)
    <3>1. ~(UNCHANGED vars)
      BY <1>1 DEF vars, updateVars
    <3>2. ASSUME NEW p \in Callers, NEW f \in Flags, NEW c \in Contexts,
                 NEW b \in BOOLEAN, EvaluateFlag(p, f, c, b)
          PROVE  FALSE
      BY <1>1, <3>2 DEF EvaluateFlag, updateVars
    <3>3. ASSUME NEW p \in Callers, Evaluation(p)
          PROVE  FALSE
      BY <1>1, <3>3, EvaluationFrame DEF updateVars
    <3>4. ASSUME NEW v \in Updaters, NEW c \in Submitted, UpdateState(v, c)
          PROVE  FALSE
      BY <1>1, <3>4 DEF UpdateState
    <3>5. ~Close /\ ~ClosePolled /\ ~CloseEnds
      BY <1>1 DEF Close, ClosePolled, CloseEnds, updateVars
    <3>6. ASSUME NEW v \in Updaters, Update(v)
          PROVE  Unlock(u)
      <4>1. v = u
        BY <1>1, <3>6
           DEF Update, Lock, Drain, DrainInterrupted, UpdateFirst, UpdateRest,
               JoinThrows, Publish, AddAll, Unlock, UpdateReturns
      <4>2. ~Lock(u)
        BY <1>1 DEF Lock
      <4>3. /\ ~Drain(u) /\ ~DrainInterrupted(u) /\ ~UpdateFirst(u) /\ ~UpdateRest(u)
            /\ ~JoinThrows(u) /\ ~Publish(u) /\ ~AddAll(u) /\ ~UpdateReturns(u)
        BY <1>1
           DEF Drain, DrainInterrupted, UpdateFirst, UpdateRest, JoinThrows, Publish,
               AddAll, UpdateReturns
      <4>4. QED
        BY <3>6, <4>1, <4>2, <4>3 DEF Update
    <3>7. QED
      BY <1>1, <3>1, <3>2, <3>3, <3>4, <3>5, <3>6 DEF Next
  <2>2. /\ upc[u] = "addAll" /\ outcome[u] = "success"
        /\ UNCHANGED wasm
    BY <1>1, <2>1 DEF Unlock, wasmVars
  <2>3. QED
    BY <1>1, <2>2 DEF Reached
<1>2. RInv /\ [Next]_vars =>
        [\A u \in Updaters :
            upc'[u] = "done" /\ upc[u] # "done" /\ outcome'[u] = "success"
                => \A i \in Instances : wasm'[i] \in {config[u], Dead}]_vars
  BY <1>1
<1>3. QED
  BY <1>2, RInvInit, RInvStep, PTL DEF Spec, UpdateReachesAll

-----------------------------------------------------------------------------
(***************************************************************************)
(* One configuration at a time, under clean faults                         *)
(***************************************************************************)
\* Every instance runs the configuration in force, except those an update that
\* has met no failure is through with.
InstancesOK ==
    /\ \A i \in Instances : gen[i] = generation /\ wasm[i] # Dead
    /\ (\A u \in Updaters : upc[u] # "rest") =>
          \A i \in Instances : wasm[i] = current
    /\ \A u \in Updaters : upc[u] = "rest" =>
          outcome[u] = "none" /\ \A i \in pending[u] : wasm[i] = current

CacheOK == cache.generation = generation /\ cache.config = current

\* A snapshot a caller still uses is no newer than the cache, and is the cache
\* if it is of the same generation.
SnapshotsOK ==
    \A p \in Callers :
        /\ pc[p] \in {"take", "check", "evaluate"} =>
              /\ snap[p].generation <= generation
              /\ snap[p].generation = generation => snap[p].config = cache.config
        /\ pc[p] = "evaluate" => snap[p].generation = generation

Consistent == InstancesOK /\ CacheOK /\ SnapshotsOK

IInv == RInv /\ Consistent

LEMMA ConsistentInit == Init => Consistent
BY InstanceAssumption
   DEF Init, Consistent, InstancesOK, CacheOK, SnapshotsOK, EMPTY, Snapshot, Loadable

\* What update_state does to an instance that runs, under clean faults.
LEMMA CleanUpdate ==
    ASSUME NEW w, w # Dead, NEW c, NEW f \in {"ok", "notWritten", "refused"}
    PROVE  /\ UpdateResult(w, c, f) # "success" => AfterUpdate(w, c, f) = w
           /\ f = "ok" /\ c \in Configs => UpdateResult(w, c, f) = "success"
<1>1. FaultOf(w, f) = f
  BY DEF FaultOf
<1>2. CASE f = "ok"
  BY <1>1, <1>2 DEF UpdateResult, AfterUpdate
<1>3. CASE f # "ok"
  BY <1>1, <1>3 DEF UpdateResult, AfterUpdate
<1>4. QED
  BY <1>2, <1>3

\* Under clean faults nothing a caller does reaches an instance.
LEMMA CleanEvaluation ==
    ASSUME CleanFaults, IInv, NEW p \in Callers, Evaluation(p)
    PROVE  UNCHANGED wasm
<1>1. CASE EvaluateFails(p)
  <2>1. inst[p] \in Instances
    BY <1>1 DEF EvaluateFails, IInv, RInv, Ownership, HolderPhase
  <2>2. QED
    BY <1>1, <2>1 DEF CleanFaults, EvaluateFails, IInv, Consistent, InstancesOK
<1>2. CASE ~EvaluateFails(p)
  BY <1>2 DEF Evaluation, Load, Take, TakeInterrupted, CheckGeneration,
              EvaluateOnInstance, Add, EvaluateReturns, wasmVars
<1>3. QED
  BY <1>1, <1>2

LEMMA ConsistentEvaluation ==
    ASSUME CleanFaults, IInv, NEW p \in Callers, Evaluation(p)
    PROVE  Consistent'
<1>1. /\ UNCHANGED <<cache, generation, gen, updateVars, current>>
      /\ UNCHANGED wasm
  BY EvaluationFrame, CleanEvaluation DEF IInv, RInv
<1>2. InstancesOK' /\ CacheOK'
  BY <1>1 DEF IInv, Consistent, InstancesOK, CacheOK, updateVars
<1>3. SnapshotsOK'
  <2> USE DEF IInv, RInv, Typed, TypeOK, Consistent, CacheOK, SnapshotsOK, Snapshots
  <2>1. CASE Load(p)
    <3>1. /\ snap' = [snap EXCEPT ![p] = cache]
          /\ \A q \in Callers : q # p => pc'[q] = pc[q]
          /\ pc'[p] \in {"load", "done", "take"}
      BY <2>1 DEF Load, AnswerFromCache
    <3>2. QED
      BY <1>1, <3>1
  <2>2. CASE Take(p)
    BY <1>1, <2>2 DEF Take
  <2>3. CASE TakeInterrupted(p)
    BY <1>1, <2>3 DEF TakeInterrupted
  <2>4. CASE CheckGeneration(p)
    <3>1. gen[inst[p]] = generation
      BY <2>4 DEF CheckGeneration, Ownership, HolderPhase, InstancesOK
    <3>2. /\ pc[p] = "check"
          /\ \A q \in Callers : q # p => pc'[q] = pc[q]
          /\ pc'[p] \in {"evaluate", "add"}
          /\ \/ UNCHANGED snap /\ snap[p].generation = generation
             \/ snap' = [snap EXCEPT ![p] = cache]
      BY <2>4, <3>1 DEF CheckGeneration, AnswerFromCache
    <3>3. QED
      BY <1>1, <3>2
  <2>5. CASE EvaluateOnInstance(p)
    BY <1>1, <2>5 DEF EvaluateOnInstance
  <2>6. CASE EvaluateFails(p)
    BY <1>1, <2>6 DEF EvaluateFails
  <2>7. CASE Add(p)
    BY <1>1, <2>7 DEF Add
  <2>8. CASE EvaluateReturns(p)
    BY <1>1, <2>8 DEF EvaluateReturns
  <2>9. QED
    BY <2>1, <2>2, <2>3, <2>4, <2>5, <2>6, <2>7, <2>8 DEF Evaluation
<1>4. QED
  BY <1>2, <1>3 DEF Consistent

\* The first instance takes the configuration or stays as it was.
LEMMA InstancesFirst ==
    ASSUME CleanFaults, IInv, NEW u \in Updaters, UpdateFirst(u)
    PROVE  InstancesOK'
<1> USE DEF IInv, RInv, Typed, TypeOK
<1>1. /\ upc[u] = "first" /\ outcome[u] = "none"
      /\ UNCHANGED <<gen, generation, current, config, instances>>
  BY DEF UpdateFirst, OutcomeOK, sharedVars
<1>2. current' = current
  BY <1>1
<1>3. PICK i \in instances[u], f \in FirstFaults \cup {"ok"} :
            /\ wasm' = [wasm EXCEPT ![i] = AfterUpdate(wasm[i], config[u], f)]
            /\ outcome' = IF UpdateResult(wasm[i], config[u], f) = "success"
                          THEN outcome ELSE [outcome EXCEPT ![u] = "error"]
            /\ pending' = [pending EXCEPT ![u] = instances[u] \ {i}]
  BY DEF UpdateFirst, UpdateInstance
<1>4. upc' = [upc EXCEPT ![u] = IF outcome'[u] = "error" THEN "addAll" ELSE "rest"]
  BY DEF UpdateFirst
<1>5. /\ instances[u] = Instances
      /\ \A v \in Updaters : upc[v] # "rest"
  BY <1>1, UpdaterAlone
<1>6. /\ \A j \in Instances : gen[j] = generation /\ wasm[j] # Dead
      /\ \A j \in Instances : wasm[j] = current
  BY <1>5 DEF Consistent, InstancesOK
<1>7. i \in Instances /\ f \in {"ok", "notWritten", "refused"} /\ wasm[i] # Dead
  BY <1>3, <1>6 DEF CleanFaults
<1>8. CASE UpdateResult(wasm[i], config[u], f) = "success"
  <2>1. wasm'[i] = config[u] /\ config[u] \in Configs
    BY <1>3, <1>7, <1>8, ResultTypes
  <2>2. outcome' = outcome /\ upc' = [upc EXCEPT ![u] = "rest"]
    BY <1>1, <1>3, <1>4, <1>8
  <2>3. wasm'[i] # Dead
    BY <2>1, InstanceAssumption DEF Loadable
  <2>4. \A j \in Instances : j # i => wasm'[j] = wasm[j]
    BY <1>3
  <2>5. \A v \in Updaters : upc'[v] = "rest" => v = u
    BY <1>5, <2>2
  <2>6. pending'[u] = Instances \ {i} /\ outcome'[u] = "none" /\ upc'[u] = "rest"
    BY <1>1, <1>3, <1>5, <2>2
  <2> HIDE DEF IInv, RInv, Typed, TypeOK
  <2>7. QED
    BY <1>1, <1>6, <2>3, <2>4, <2>5, <2>6 DEF InstancesOK
<1>9. CASE UpdateResult(wasm[i], config[u], f) # "success"
  <2>1. wasm' = wasm
    BY <1>3, <1>7, <1>9, CleanUpdate
  <2>2. upc' = [upc EXCEPT ![u] = "addAll"]
    BY <1>3, <1>4, <1>9
  <2>3. \A v \in Updaters : upc'[v] # "rest"
    BY <1>5, <2>2
  <2> HIDE DEF IInv, RInv, Typed, TypeOK
  <2>4. QED
    BY <1>1, <1>6, <2>1, <2>3 DEF InstancesOK
<1>10. QED
  BY <1>8, <1>9

\* The others take it too.
LEMMA InstancesRest ==
    ASSUME CleanFaults, IInv, NEW u \in Updaters, UpdateRest(u)
    PROVE  InstancesOK'
<1> USE DEF IInv, RInv, Typed, TypeOK
<1>1. upc[u] = "rest" /\ UNCHANGED <<gen, generation, current, config, instances, upc>>
  BY DEF UpdateRest, sharedVars
<1>2. /\ outcome[u] = "none" /\ config[u] \in Configs
      /\ \A j \in Instances : gen[j] = generation /\ wasm[j] # Dead
      /\ \A j \in pending[u] : wasm[j] = current
  BY <1>1 DEF Consistent, InstancesOK, OutcomeOK
<1>3. PICK i \in pending[u] :
            /\ wasm' = [wasm EXCEPT ![i] = AfterUpdate(wasm[i], config[u], "ok")]
            /\ outcome' = IF UpdateResult(wasm[i], config[u], "ok") = "success"
                          THEN outcome ELSE [outcome EXCEPT ![u] = "error"]
            /\ pending' = [pending EXCEPT ![u] = @ \ {i}]
  BY DEF UpdateRest, UpdateInstance, CleanFaults
<1>4. i \in Instances /\ UpdateResult(wasm[i], config[u], "ok") = "success"
  BY <1>2, <1>3, CleanUpdate
<1>5. outcome' = outcome /\ wasm'[i] = config[u]
  BY <1>3, <1>4, ResultTypes
<1>6. wasm'[i] # Dead
  BY <1>2, <1>5, InstanceAssumption DEF Loadable
<1>7. \A j \in Instances : j # i => wasm'[j] = wasm[j]
  BY <1>3
<1>8. \A v \in Updaters : upc[v] = "rest" => v = u
  BY <1>1, UpdaterAlone
<1>9. pending'[u] = pending[u] \ {i} /\ pending[u] \subseteq Instances
  BY <1>3
<1> HIDE DEF IInv, RInv, Typed, TypeOK
<1>10. QED
  BY <1>1, <1>2, <1>5, <1>6, <1>7, <1>8, <1>9 DEF InstancesOK

LEMMA ConsistentPublish ==
    ASSUME IInv, NEW u \in Updaters, Publish(u)
    PROVE  Consistent'
<1> USE DEF IInv, RInv, Typed, TypeOK
<1>1. /\ upc[u] = "rest" /\ pending[u] = {} /\ outcome[u] = "none"
      /\ UNCHANGED <<wasm, pc, snap>>
      /\ generation' = generation + 1
      /\ cache' = Snapshot(generation + 1, config[u])
      /\ current' = config[u]
      /\ upc' = [upc EXCEPT ![u] = "addAll"]
  BY DEF Publish, OutcomeOK, callVars
<1>2. /\ instances[u] = Instances
      /\ \A v \in Updaters : v # u => upc[v] # "rest"
      /\ \A p \in Callers : pc[p] \notin {"check", "evaluate"}
  BY <1>1, UpdaterAlone
<1>3. gen' = [i \in Instances |-> generation + 1]
  BY <1>2 DEF Publish
<1>4. \A i \in Instances : wasm[i] = config[u] /\ wasm[i] # Dead
  BY <1>1 DEF Reached, Consistent, InstancesOK
<1>5. \A v \in Updaters : upc'[v] # "rest"
  BY <1>1, <1>2
<1>6. InstancesOK'
  BY <1>1, <1>3, <1>4, <1>5 DEF InstancesOK
<1>7. CacheOK'
  BY <1>1 DEF CacheOK, Snapshot
<1>8. SnapshotsOK'
  <2>1. ASSUME NEW p \in Callers, pc[p] = "take"
        PROVE  snap[p].generation <= generation /\ generation \in Nat
    BY <2>1 DEF Consistent, SnapshotsOK
  <2>2. \A p \in Callers : snap[p].generation \in Nat
    BY DEF Snapshots
  <2> HIDE DEF IInv, RInv, Typed, TypeOK
  <2>3. QED
    BY <1>1, <1>2, <2>1, <2>2 DEF SnapshotsOK
<1>9. QED
  BY <1>6, <1>7, <1>8 DEF Consistent

\* The other steps of an updater touch neither the instances nor the cache.
LEMMA ConsistentUpdate ==
    ASSUME CleanFaults, IInv, NEW u \in Updaters, Update(u)
    PROVE  Consistent'
<1> USE DEF sharedVars, wasmVars, callVars
<1>1. CASE UpdateFirst(u) \/ UpdateRest(u)
  <2>1. UNCHANGED <<cache, generation, current, pc, snap>>
    BY <1>1 DEF UpdateFirst, UpdateRest
  <2>2. CacheOK' /\ SnapshotsOK'
    BY <2>1 DEF IInv, Consistent, CacheOK, SnapshotsOK
  <2>3. QED
    BY <1>1, <2>2, InstancesFirst, InstancesRest DEF Consistent
<1>2. CASE Lock(u) \/ Drain(u) \/ DrainInterrupted(u) \/ AddAll(u) \/ Unlock(u)
           \/ UpdateReturns(u)
  <2>1. /\ UNCHANGED <<cache, generation, current, pc, snap, wasm, gen>>
        /\ upc[u] # "rest" /\ upc'[u] # "rest"
        /\ \A v \in Updaters : v # u =>
              /\ upc'[v] = upc[v] /\ outcome'[v] = outcome[v]
              /\ pending'[v] = pending[v]
    BY <1>2 DEF Lock, Drain, DrainInterrupted, AddAll, Unlock, UpdateReturns,
                IInv, RInv, Typed, TypeOK
  <2>2. \A v \in Updaters :
           /\ upc'[v] = "rest" <=> upc[v] = "rest"
           /\ upc[v] = "rest" => outcome'[v] = outcome[v] /\ pending'[v] = pending[v]
    BY <2>1
  <2>3. QED
    BY <2>1, <2>2 DEF IInv, Consistent, InstancesOK, CacheOK, SnapshotsOK
<1>3. CASE JoinThrows(u)
  BY <1>3 DEF JoinThrows, IInv, Consistent, InstancesOK
<1>4. CASE Publish(u)
  BY <1>4, ConsistentPublish
<1>5. QED
  BY <1>1, <1>2, <1>3, <1>4 DEF Update

LEMMA ConsistentStep ==
    ASSUME CleanFaults, IInv, [Next]_vars
    PROVE  Consistent'
<1> USE DEF wasmVars, sharedVars, callVars, updateVars
<1>1. ASSUME NEW p \in Callers, NEW f \in Flags, NEW c \in Contexts,
             NEW b \in BOOLEAN, EvaluateFlag(p, f, c, b)
      PROVE  Consistent'
  <2>1. /\ UNCHANGED <<cache, generation, current, snap, wasm, gen, updateVars>>
        /\ \A q \in Callers : pc'[q] = pc[q] \/ pc'[q] = "load"
    BY <1>1 DEF EvaluateFlag, IInv, RInv, Typed, TypeOK
  <2>2. QED
    BY <2>1 DEF IInv, Consistent, InstancesOK, CacheOK, SnapshotsOK
<1>2. ASSUME NEW u \in Updaters, NEW c \in Submitted, UpdateState(u, c)
      PROVE  Consistent'
  <2>1. /\ UNCHANGED <<cache, generation, current, pc, snap, wasm, gen, outcome,
                       pending>>
        /\ \A v \in Updaters : upc'[v] = "rest" <=> upc[v] = "rest"
    BY <1>2 DEF UpdateState, IInv, RInv, Typed, TypeOK
  <2>2. QED
    BY <2>1 DEF IInv, Consistent, InstancesOK, CacheOK, SnapshotsOK
<1>3. CASE Close \/ ClosePolled \/ CloseEnds \/ UNCHANGED vars
  <2>1. UNCHANGED <<cache, generation, current, pc, snap, wasm, gen, updateVars>>
    BY <1>3 DEF Close, ClosePolled, CloseEnds, vars
  <2>2. QED
    BY <2>1 DEF IInv, Consistent, InstancesOK, CacheOK, SnapshotsOK
<1>4. QED
  BY <1>1, <1>2, <1>3, ConsistentEvaluation, ConsistentUpdate DEF Next

\* While a caller evaluates, its instance and its snapshot are of the
\* configuration in force.
LEMMA GuardHolds ==
    ASSUME IInv, NEW p \in Callers, pc[p] = "evaluate"
    PROVE  /\ gen[inst[p]] = generation /\ wasm[inst[p]] = current
           /\ snap[p].generation = generation /\ snap[p].config = current
<1>1. inst[p] \in Instances
  BY DEF IInv, RInv, Ownership, HolderPhase
<1>2. \A u \in Updaters : upc[u] # "rest"
  BY UpdaterAlone DEF IInv, RInv
<1>3. gen[inst[p]] = generation /\ wasm[inst[p]] = current
  BY <1>1, <1>2 DEF IInv, Consistent, InstancesOK
<1>4. snap[p].generation = generation /\ snap[p].config = current
  BY DEF IInv, Consistent, SnapshotsOK, CacheOK
<1>5. QED
  BY <1>3, <1>4

\* With faults that leave a failed update without effect, a caller evaluates a
\* flag on an instance that holds exactly the configuration its snapshot
\* describes: the generation guard is sound.
THEOREM JavaGuardIsSound == ASSUME CleanFaults PROVE Spec => []GuardSound
<1>1. Init => IInv
  BY RInvInit, ConsistentInit DEF IInv
<1>2. IInv /\ [Next]_vars => IInv'
  BY RInvStep, ConsistentStep DEF IInv
<1>3. IInv => GuardSound
  BY GuardHolds DEF GuardSound
<1>4. QED
  BY <1>1, <1>2, <1>3, PTL DEF Spec

-----------------------------------------------------------------------------
(***************************************************************************)
(* Refinement: under clean faults, evaluations are answered from one       *)
(* configuration at a time, although the context is serialized before the  *)
(* wait for an instance.                                                   *)
(***************************************************************************)
\* What a caller asked, and that it has no answer before the step that gives it.
CallsOK ==
    \A p \in Callers :
        /\ pc[p] = "idle" => flagKey[p] = 0 /\ ctx[p] = {}
        /\ pc[p] # "idle" => flagKey[p] \in Flags /\ ctx[p] \in Contexts
        /\ pc[p] \in {"idle", "load", "take", "check", "evaluate"} => result[p] = NotFound

\* A serialized context is the whole one, or what some configuration said the
\* flag needs of it.
SentOK ==
    \A p \in Callers : pc[p] \in {"take", "check", "evaluate"} =>
        \/ sent[p] = ctx[p]
        \/ \E c \in Configs : /\ flagKey[p] \in Extracted[c]
                              /\ sent[p] = ctx[p] \cap Keys[c][flagKey[p]]

SInv == IInv /\ CallsOK /\ SentOK

Seen == [p \in Callers |-> CallSeen(p)]

\* FlagService speaks of the same configurations as the pool.
LEMMA SameConfig ==
    /\ Service!NotFound = NotFound
    /\ Service!Failed = Failed
    /\ \A c, f, k : Service!Evaluate(c, f, k) = Evaluate(c, f, k)
BY DEF Service!NotFound, NotFound, Service!Failed, Failed, Service!Evaluate, Evaluate,
       Service!FlagsOf, FlagsOf, Service!Value, Value, Service!SeenFields, SeenFields

LEMMA CallsInit == Init => CallsOK /\ SentOK
BY DEF Init, CallsOK, SentOK

\* The ways a step of an evaluation in progress shows: not at all, or as its answer.
StutterOf(p) ==
    /\ UNCHANGED <<flagKey, ctx, result>>
    /\ \/ UNCHANGED pc
       \/ /\ pc[p] \in {"load", "take", "check", "evaluate"}
          /\ \E l \in {"take", "check", "evaluate"} : pc' = [pc EXCEPT ![p] = l]
       \/ /\ pc[p] = "add"
          /\ pc' = [pc EXCEPT ![p] = "done"]

AnswerOf(p, a) ==
    /\ pc[p] \in {"load", "take", "check", "evaluate"}
    /\ \E l \in {"add", "done"} : pc' = [pc EXCEPT ![p] = l]
    /\ result' = [result EXCEPT ![p] = a]
    /\ UNCHANGED <<flagKey, ctx>>

LEMMA StutterSeen ==
    ASSUME SInv, NEW p \in Callers, StutterOf(p)
    PROVE  UNCHANGED Seen /\ CallsOK'
BY DEF SInv, IInv, RInv, Typed, TypeOK, CallsOK, StutterOf, Seen, CallSeen

LEMMA AnswerSeen ==
    ASSUME SInv, NEW p \in Callers, NEW a, AnswerOf(p, a)
    PROVE  /\ Seen[p] = Service!Pending(flagKey[p], ctx[p])
           /\ Seen' = [Seen EXCEPT ![p] = Service!Answered(flagKey[p], ctx[p], a)]
           /\ CallsOK'
<1> USE SameConfig
    DEF SInv, IInv, RInv, Typed, TypeOK, CallsOK, AnswerOf, CallSeen, Service!Pending,
        Service!Answered, Service!Call
<1>1. CallSeen(p) = Service!Pending(flagKey[p], ctx[p])
  OBVIOUS
<1>2. CallSeen(p)' = Service!Answered(flagKey[p], ctx[p], a)
  OBVIOUS
<1>3. \A q \in Callers : q # p => CallSeen(q)' = CallSeen(q)
  OBVIOUS
<1>4. CallsOK'
  OBVIOUS
<1> DEFINE w == Service!Answered(flagKey[p], ctx[p], a)
<1>5. Seen' = [Seen EXCEPT ![p] = w]
  <2> HIDE DEF w
  <2>1. \A q \in Callers : CallSeen(q)' = IF q = p THEN w ELSE CallSeen(q)
    BY <1>2, <1>3 DEF w
  <2>2. Seen' = [q \in Callers |-> IF q = p THEN w ELSE CallSeen(q)]
    BY <2>1 DEF Seen
  <2>3. QED
    BY <2>2 DEF Seen
<1>6. QED
  BY <1>1, <1>4, <1>5 DEF Seen

LEMMA AnswerImplements ==
    ASSUME SInv, NEW p \in Callers, UNCHANGED current,
           NEW a \in {Evaluate(current, flagKey[p], ctx[p]), Failed}, AnswerOf(p, a)
    PROVE  Service!ServiceNext /\ CallsOK'
<1>1. Service!Answer(p, flagKey[p], ctx[p], a)
  BY AnswerSeen, SameConfig DEF Service!Answer, Seen
<1>2. flagKey[p] \in Flags /\ ctx[p] \in Contexts
  BY DEF SInv, CallsOK, AnswerOf
<1>3. a \in {Service!Evaluate(current, flagKey[p], ctx[p]), Service!Failed}
  BY SameConfig
<1>4. QED
  BY <1>1, <1>2, <1>3, AnswerSeen DEF Service!ServiceNext

\* The configurations agree, so nothing the rule reads was filtered away.
LEMMA SentIsEnough ==
    ASSUME KeysAgree, SInv, NEW p \in Callers, pc[p] = "evaluate", current \in Loadable
    PROVE  Evaluate(current, flagKey[p], sent[p]) = Evaluate(current, flagKey[p], ctx[p])
<1>1. CASE sent[p] = ctx[p]
  BY <1>1
<1>2. ASSUME NEW c \in Configs, flagKey[p] \in Extracted[c],
             sent[p] = ctx[p] \cap Keys[c][flagKey[p]], flagKey[p] \in FlagsOf(current)
      PROVE  SeenFields(current, flagKey[p], sent[p])
               = SeenFields(current, flagKey[p], ctx[p])
  <2>1. current \in Configs
    BY <1>2 DEF FlagsOf, Loadable
  <2>2. QED
    BY <1>2, <2>1 DEF KeysAgree, SeenFields
<1>3. QED
  BY <1>1, <1>2 DEF SInv, SentOK, Evaluate

\* A hit in the pre-evaluated results answers from the configuration in force.
LEMMA HitAnswer ==
    ASSUME SInv, NEW p \in Callers, Hit(p)
    PROVE  Evaluate(cache.config, flagKey[p], {}) = Evaluate(current, flagKey[p], ctx[p])
BY StaticIgnoresContext DEF Hit, SInv, IInv, Consistent, CacheOK

\* So does the call into the instance, by index or by key.
LEMMA InstanceAnswer ==
    ASSUME CleanFaults, KeysAgree, SInv, NEW p \in Callers, pc[p] = "evaluate"
    PROVE  CallWasm(p) = Evaluate(current, flagKey[p], ctx[p])
<1>1. snap[p].config = current /\ wasm[inst[p]] = current
  BY GuardHolds DEF SInv
<1>2. flagKey[p] \in FlagsOf(current) =>
        EvaluateByIndex(current, FlagIndex(current, flagKey[p]), sent[p])
          = Evaluate(current, flagKey[p], sent[p])
  BY ByIndexIsByKey
<1>3. CallWasm(p) = Evaluate(current, flagKey[p], sent[p])
  BY <1>1, <1>2 DEF CallWasm
<1>4. current \in Loadable
  BY DEF SInv, IInv, RInv, Typed, TypeOK
<1>5. QED
  BY <1>3, <1>4, SentIsEnough

\* The context is serialized once, when the caller has a snapshot.
LEMMA SentEvaluation ==
    ASSUME SInv, NEW p \in Callers, Evaluation(p)
    PROVE  SentOK'
<1> USE DEF SInv, IInv, RInv, Typed, TypeOK, SentOK
<1>1. CASE Load(p)
  <2>1. /\ UNCHANGED <<flagKey, ctx>>
        /\ \/ pc'[p] \in {"load", "done"} /\ UNCHANGED sent
           \/ pc'[p] = "take" /\ sent' = [sent EXCEPT ![p] = Filtered(p, cache)]
        /\ \A q \in Callers : q # p => pc'[q] = pc[q]
    BY <1>1 DEF Load, AnswerFromCache
  <2>2. \/ Filtered(p, cache) = ctx[p]
        \/ \E c \in Configs : /\ flagKey[p] \in Extracted[c]
                              /\ Filtered(p, cache) = ctx[p] \cap Keys[c][flagKey[p]]
    <3>1. cache.config \in Loadable
      BY DEF Snapshots
    <3>2. QED
      BY <3>1 DEF Filtered, RequiredKeyFlags, Loadable
  <2>3. QED
    BY <2>1, <2>2
<1>2. CASE Take(p) \/ TakeInterrupted(p) \/ CheckGeneration(p) \/ EvaluateOnInstance(p)
           \/ EvaluateFails(p) \/ Add(p)
  <2>1. /\ UNCHANGED <<flagKey, ctx, sent>>
        /\ pc'[p] \in {"take", "check", "evaluate"} =>
              pc[p] \in {"take", "check", "evaluate"}
        /\ \A q \in Callers : q # p => pc'[q] = pc[q]
    BY <1>2 DEF Take, TakeInterrupted, CheckGeneration, AnswerFromCache,
                EvaluateOnInstance, EvaluateFails, Add
  <2>2. QED
    BY <2>1
<1>3. CASE EvaluateReturns(p)
  BY <1>3 DEF EvaluateReturns
<1>4. QED
  BY <1>1, <1>2, <1>3 DEF Evaluation

-----------------------------------------------------------------------------
LEMMA EvaluationImplements ==
    ASSUME CleanFaults, KeysAgree, SInv, NEW p \in Callers, Evaluation(p)
    PROVE  [Service!ServiceNext]_<<current, Seen>> /\ CallsOK'
<1>1. CASE Load(p)
  <2>1. CASE Hit(p)
    <3>1. AnswerOf(p, Evaluate(current, flagKey[p], ctx[p])) /\ UNCHANGED current
      BY <1>1, <2>1, HitAnswer DEF Load, AnswerFromCache, AnswerOf
    <3>2. QED
      BY <3>1, AnswerImplements
  <2>2. CASE ~Hit(p)
    <3>1. StutterOf(p) \/ AnswerOf(p, Failed)
      BY <1>1, <2>2 DEF Load, StutterOf, AnswerOf
    <3>2. UNCHANGED current
      BY <1>1 DEF Load
    <3>3. QED
      BY <3>1, <3>2, StutterSeen, AnswerImplements
  <2>3. QED
    BY <2>1, <2>2
<1>2. CASE Take(p) \/ Add(p)
  <2>1. StutterOf(p) /\ UNCHANGED current
    BY <1>2 DEF Take, Add, StutterOf
  <2>2. QED
    BY <2>1, StutterSeen
<1>3. CASE TakeInterrupted(p) \/ EvaluateFails(p)
  <2>1. AnswerOf(p, Failed) /\ UNCHANGED current
    BY <1>3 DEF TakeInterrupted, EvaluateFails, AnswerOf
  <2>2. QED
    BY <2>1, AnswerImplements
<1>4. CASE CheckGeneration(p)
  <2>1. CASE snap[p].generation # gen[inst[p]] /\ Hit(p)
    <3>1. AnswerOf(p, Evaluate(current, flagKey[p], ctx[p])) /\ UNCHANGED current
      BY <1>4, <2>1, HitAnswer DEF CheckGeneration, AnswerFromCache, AnswerOf
    <3>2. QED
      BY <3>1, AnswerImplements
  <2>2. CASE ~(snap[p].generation # gen[inst[p]] /\ Hit(p))
    <3>1. StutterOf(p) /\ UNCHANGED current
      BY <1>4, <2>2 DEF CheckGeneration, StutterOf
    <3>2. QED
      BY <3>1, StutterSeen
  <2>3. QED
    BY <2>1, <2>2
<1>5. CASE EvaluateOnInstance(p)
  <2>1. CallWasm(p) = Evaluate(current, flagKey[p], ctx[p])
    BY <1>5, InstanceAnswer DEF EvaluateOnInstance
  <2>2. AnswerOf(p, Evaluate(current, flagKey[p], ctx[p])) /\ UNCHANGED current
    BY <1>5, <2>1 DEF EvaluateOnInstance, AnswerOf
  <2>3. QED
    BY <2>2, AnswerImplements
<1>6. CASE EvaluateReturns(p)
  <2>1. /\ pc[p] = "done" /\ pc' = [pc EXCEPT ![p] = "idle"]
        /\ flagKey' = [flagKey EXCEPT ![p] = 0]
        /\ ctx' = [ctx EXCEPT ![p] = {}]
        /\ result' = [result EXCEPT ![p] = NotFound]
        /\ UNCHANGED current
    BY <1>6 DEF EvaluateReturns
  <2> USE DEF SInv, IInv, RInv, Typed, TypeOK, CallsOK
  <2>2. CallSeen(p)' = Service!Idle /\ CallSeen(p).stage = "answered"
    BY <2>1, SameConfig DEF CallSeen, Service!Idle, Service!Call
  <2>3. \A q \in Callers : q # p => CallSeen(q)' = CallSeen(q)
    BY <2>1 DEF CallSeen
  <2>4. Seen' = [Seen EXCEPT ![p] = Service!Idle]
    <3>1. \A q \in Callers : CallSeen(q)' = IF q = p THEN Service!Idle ELSE CallSeen(q)
      BY <2>2, <2>3
    <3>2. Seen' = [q \in Callers |-> IF q = p THEN Service!Idle ELSE CallSeen(q)]
      BY <3>1 DEF Seen
    <3>3. QED
      BY <3>2 DEF Seen
  <2>5. Service!Return(p)
    BY <2>1, <2>2, <2>4 DEF Service!Return, Seen
  <2>6. CallsOK'
    BY <2>1
  <2>7. QED
    BY <2>5, <2>6 DEF Service!ServiceNext
<1>7. QED
  BY <1>1, <1>2, <1>3, <1>4, <1>5, <1>6 DEF Evaluation

LEMMA InvokeImplements ==
    ASSUME SInv, NEW p \in Callers, NEW f \in Flags, NEW c \in Contexts, NEW b \in BOOLEAN,
           EvaluateFlag(p, f, c, b)
    PROVE  Service!ServiceNext /\ CallsOK' /\ SentOK'
<1>1. /\ pc[p] = "idle" /\ pc' = [pc EXCEPT ![p] = "load"]
      /\ flagKey' = [flagKey EXCEPT ![p] = f]
      /\ ctx' = [ctx EXCEPT ![p] = c]
      /\ UNCHANGED <<result, sent, current>>
  BY DEF EvaluateFlag
<1> USE DEF SInv, IInv, RInv, Typed, TypeOK, CallsOK
<1>2. CallSeen(p) = Service!Idle /\ CallSeen(p)' = Service!Pending(f, c)
  BY <1>1, SameConfig DEF CallSeen, Service!Idle, Service!Pending, Service!Call
<1>3. \A q \in Callers : q # p => CallSeen(q)' = CallSeen(q)
  BY <1>1 DEF CallSeen
<1>4. Seen' = [Seen EXCEPT ![p] = Service!Pending(f, c)]
  <2>1. \A q \in Callers :
          CallSeen(q)' = IF q = p THEN Service!Pending(f, c) ELSE CallSeen(q)
    BY <1>2, <1>3
  <2>2. Seen' = [q \in Callers |->
                   IF q = p THEN Service!Pending(f, c) ELSE CallSeen(q)]
    BY <2>1 DEF Seen
  <2>3. QED
    BY <2>2 DEF Seen
<1>5. Service!Invoke(p, f, c)
  BY <1>1, <1>2, <1>4 DEF Service!Invoke, Seen
<1>6. CallsOK' /\ SentOK'
  BY <1>1 DEF SentOK
<1>7. QED
  BY <1>5, <1>6 DEF Service!ServiceNext

\* An update changes nothing callers see except by installing at its Publish.
LEMMA UpdateImplements ==
    ASSUME SInv, NEW u \in Updaters, Update(u)
    PROVE  [Service!ServiceNext]_<<current, Seen>> /\ CallsOK' /\ SentOK'
<1>1. UNCHANGED callVars
  BY DEF Update, Lock, Drain, DrainInterrupted, UpdateFirst, UpdateRest, JoinThrows,
         Publish, AddAll, Unlock, UpdateReturns
<1>2. UNCHANGED Seen /\ CallsOK' /\ SentOK'
  BY <1>1 DEF callVars, Seen, CallSeen, CallsOK, SentOK, SInv
<1>3. CASE Publish(u)
  <2>1. config[u] \in Configs /\ current' = config[u]
    BY <1>3 DEF Publish, SInv, IInv, RInv, Typed, TypeOK, OutcomeOK
  <2>2. Service!Install(config[u])
    BY <1>2, <2>1 DEF Service!Install, Seen
  <2>3. QED
    BY <1>2, <2>1, <2>2 DEF Service!ServiceNext
<1>4. CASE ~Publish(u)
  <2>1. UNCHANGED current
    BY <1>4 DEF Update, Lock, Drain, DrainInterrupted, UpdateFirst, UpdateRest,
                JoinThrows, AddAll, Unlock, UpdateReturns
  <2>2. QED
    BY <1>2, <2>1
<1>5. QED
  BY <1>3, <1>4

LEMMA StepImplements ==
    ASSUME CleanFaults, KeysAgree, SInv, [Next]_vars
    PROVE  [Service!ServiceNext]_<<current, Seen>> /\ CallsOK' /\ SentOK'
<1>1. ASSUME UNCHANGED <<callVars, current>>
      PROVE  UNCHANGED <<current, Seen>> /\ CallsOK' /\ SentOK'
  BY <1>1 DEF callVars, Seen, CallSeen, CallsOK, SentOK, SInv
<1>2. ASSUME NEW u \in Updaters, NEW c \in Submitted, UpdateState(u, c)
      PROVE  UNCHANGED <<callVars, current>>
  BY <1>2 DEF UpdateState
<1>3. Close \/ ClosePolled \/ CloseEnds \/ UNCHANGED vars => UNCHANGED <<callVars, current>>
  BY DEF Close, ClosePolled, CloseEnds, vars
<1>4. QED
  BY <1>1, <1>2, <1>3, EvaluationImplements, SentEvaluation, InvokeImplements,
     UpdateImplements DEF Next

\* Under clean faults, and when what one configuration says a flag needs covers
\* what it reads in the others, the Java host implements the abstract service.
\* Without the latter, a caller that waited answers from a context that lost a
\* field: the context is not serialized again with the keys of the new cache.
THEOREM JavaPoolImplementsService ==
    ASSUME CleanFaults, KeysAgree
    PROVE  Spec => ServesOneConfiguration
<1>1. Init => SInv
  BY RInvInit, ConsistentInit, CallsInit DEF SInv, IInv
<1>2. SInv /\ [Next]_vars => SInv'
  BY RInvStep, ConsistentStep, StepImplements DEF SInv, IInv
<1>3. Init => Service!ServiceInit
  <2>1. Init => \A p \in Callers : CallSeen(p) = Service!Idle
    BY SameConfig DEF Init, CallSeen, Service!Idle, Service!Call
  <2>2. QED
    BY <2>1 DEF Init, Service!ServiceInit
<1>4. SInv /\ [Next]_vars => [Service!ServiceNext]_(Service!serviceVars)
  BY StepImplements DEF Service!serviceVars, Seen
<1>5. QED
  BY <1>1, <1>2, <1>3, <1>4, PTL
     DEF Spec, ServesOneConfiguration, Service!ServiceSpec

=============================================================================
