---------------------------- MODULE GoPoolProofs ----------------------------
(***************************************************************************)
(* Invariance proofs for GoPool, for any number of instances, callers,     *)
(* updaters and configurations, and the proof that GoPool implements       *)
(* FlagService.                                                            *)
(***************************************************************************)
EXTENDS GoPool, FlagConfigProofs

\* What an update reports, as far as it has come.
OutcomeOK ==
    \A u \in Updaters :
        /\ upc[u] \in {"idle", "lock", "drain", "first"} => outcome[u] = "none"
        /\ upc[u] = "rest" => outcome[u] \in {"success", "failure"}
        /\ outcome[u] = "success" => config[u] \in Configs
        /\ upc[u] # "idle" => config[u] \in Submitted

Typed == TypeOK /\ OutcomeOK

LEMMA ResultTypes ==
    ASSUME NEW w, NEW c, NEW f
    PROVE  /\ UpdateResult(w, c, f) \in {"success", "failure", "error"}
           /\ UpdateResult(w, c, f) = "success" => c \in Configs
BY DEF UpdateResult

LEMMA InstalledTypes ==
    ASSUME NEW w \in Loadable \cup {Dead}, NEW c, NEW f
    PROVE  AfterUpdate(w, c, f) \in Loadable \cup {Dead}
BY DEF AfterUpdate, Loadable

LEMMA CallWasmType ==
    ASSUME TypeOK, NEW p \in Callers, inst[p] \in Instances, wasm[inst[p]] # Dead
    PROVE  CallWasm(p) \in Answers
<1>1. wasm[inst[p]] \in Loadable
  BY DEF TypeOK
<1>2. SentContext(p) \in SUBSET Attrs
  BY DEF SentContext, TypeOK
<1>3. QED
  BY <1>1, <1>2, AnswerTypes DEF CallWasm

\* A caller has an instance exactly from Acquire to Release.
HolderPhase ==
    \A p \in Callers :
        inst[p] \in Instances <=> pc[p] \in {"check", "evaluate", "release"}

\* An updater has the mutex exactly from Lock to Unlock, and while it has it the
\* instances it drained; it calls update_state once it has all of them.
UpdaterPhase ==
    \A u \in Updaters :
        /\ upc[u] \in {"drain", "first", "rest", "giveBack"} <=> updateMu = u
        /\ instances[u] # {} => updateMu = u
        /\ upc[u] \in {"first", "rest"} => instances[u] = Instances
        /\ upc[u] # "rest" => pending[u] = {}

\* Every instance has a place, if only with Close.
Placed ==
    \A i \in Instances :
        \/ i \in pool
        \/ \E p \in Callers : inst[p] = i
        \/ \E u \in Updaters : i \in instances[u]
        \/ closing # "open" /\ wasm[i] = Dead

Ownership == HolderPhase /\ UpdaterPhase /\ SingleOwner /\ Placed

-----------------------------------------------------------------------------
(***************************************************************************)
(* Types                                                                   *)
(***************************************************************************)
LEMMA TypedInit == Init => Typed
BY PoolAssumption, ConfigAssumption, AnswerTypes
   DEF Init, Typed, TypeOK, OutcomeOK, NoSnapshot, Snapshot, Snapshots, Loadable,
       Answers, NotFound

\* Steps of a caller.
LEMMA TypedEvaluation ==
    ASSUME Typed, NEW p \in Callers, Evaluation(p), HolderPhase
    PROVE  Typed'
<1> USE DEF Typed, TypeOK, OutcomeOK, sharedVars, wasmVars, updateVars, closeVars
<1>1. NotFound \in Answers /\ Failed \in Answers
  BY AnswerTypes DEF Loadable
<1>2. Evaluate(cache.config, flagKey[p], {}) \in Answers
  <2>1. cache.config \in Loadable
    BY DEF Snapshots
  <2>2. QED
    BY <2>1, AnswerTypes
<1>3. CASE Load(p)
  BY <1>2, <1>3 DEF Load, LoadCache
<1>4. CASE Acquire(p)
  BY <1>4 DEF Acquire
<1>5. CASE CheckGeneration(p)
  BY <1>2, <1>5 DEF CheckGeneration, LoadCache
<1>6. CASE EvaluateOnInstance(p)
  <2>1. CallWasm(p) \in Answers
    BY <1>6, CallWasmType DEF EvaluateOnInstance, HolderPhase
  <2>2. QED
    BY <1>6, <2>1 DEF EvaluateOnInstance
<1>7. CASE EvaluateFails(p)
  BY <1>1, <1>7 DEF EvaluateFails
<1>8. CASE Release(p)
  BY <1>8 DEF Release, HolderPhase
<1>9. CASE EvaluateReturns(p)
  BY <1>1, <1>9 DEF EvaluateReturns, NoSnapshot, Snapshot, Snapshots, Loadable
<1>10. QED
  BY <1>3, <1>4, <1>5, <1>6, <1>7, <1>8, <1>9 DEF Evaluation

\* Steps of an updater.
LEMMA TypedUpdate ==
    ASSUME Typed, NEW u \in Updaters, Update(u)
    PROVE  Typed'
<1> USE DEF Typed, TypeOK, OutcomeOK, sharedVars, wasmVars, callVars, closeVars
<1>1. CASE Lock(u)
  BY <1>1 DEF Lock
<1>2. CASE Drain(u)
  BY <1>2 DEF Drain
<1>3. CASE UpdateFirst(u)
  <2>1. PICK i \in instances[u], f \in FirstFaults \cup {"ok"} :
              /\ wasm' = [wasm EXCEPT ![i] = AfterUpdate(wasm[i], config[u], f)]
              /\ outcome' = [outcome EXCEPT ![u] = UpdateResult(wasm[i], config[u], f)]
              /\ updated' = [updated EXCEPT ![u] =
                    IF UpdateResult(wasm[i], config[u], f) = "success"
                    THEN config[u] ELSE NoConfig]
              /\ IF UpdateResult(wasm[i], config[u], f) = "error"
                 THEN /\ upc' = [upc EXCEPT ![u] = "giveBack"]
                      /\ UNCHANGED pending
                 ELSE /\ upc' = [upc EXCEPT ![u] = "rest"]
                      /\ pending' = [pending EXCEPT ![u] = instances[u] \ {i}]
    BY <1>3 DEF UpdateFirst
  <2>2. i \in Instances /\ AfterUpdate(wasm[i], config[u], f) \in Loadable \cup {Dead}
    BY InstalledTypes
  <2>3. /\ UpdateResult(wasm[i], config[u], f) \in {"success", "failure", "error"}
        /\ UpdateResult(wasm[i], config[u], f) = "success" => config[u] \in Configs
    BY ResultTypes
  <2>0. UNCHANGED <<config, instances, gen, sharedVars, callVars, closeVars, current>>
    BY <1>3 DEF UpdateFirst
  <2>4. TypeOK'
    <3>1. wasm' \in [Instances -> Loadable \cup {Dead}]
      BY <2>1, <2>2
    <3>2. /\ upc' \in [Updaters -> {"idle", "lock", "drain", "first", "rest", "giveBack", "done"}]
          /\ pending' \in [Updaters -> SUBSET Instances]
      BY <2>1
    <3>3. /\ outcome' \in [Updaters -> {"none", "success", "failure", "error"}]
          /\ updated' \in [Updaters -> Loadable]
      BY <2>1, <2>3 DEF Loadable
    <3> QED
      BY <2>0, <3>1, <3>2, <3>3
  <2>5. OutcomeOK'
    BY <1>3, <2>1, <2>3 DEF UpdateFirst
  <2>6. QED
    BY <2>4, <2>5
<1>4. CASE UpdateRest(u)
  <2>1. PICK i \in pending[u], f \in RestFaults \cup {"ok"} :
              /\ wasm' = [wasm EXCEPT ![i] = AfterUpdate(wasm[i], config[u], f)]
              /\ pending' = [pending EXCEPT ![u] = @ \ {i}]
    BY <1>4 DEF UpdateRest
  <2>2. i \in Instances /\ AfterUpdate(wasm[i], config[u], f) \in Loadable \cup {Dead}
    BY InstalledTypes
  <2>3. QED
    BY <1>4, <2>1, <2>2 DEF UpdateRest
<1>5. CASE Publish(u)
  <2>1. /\ Snapshot(generation + 1, updated[u]) \in Snapshots
        /\ generation + 1 \in Nat
    BY DEF Snapshot, Snapshots
  <2>2. outcome[u] = "success" => config[u] \in Loadable
    BY DEF Loadable
  <2>3. QED
    BY <1>5, <2>1, <2>2 DEF Publish
<1>6. CASE GiveBack(u)
  BY <1>6 DEF GiveBack
<1>7. CASE Unlock(u)
  BY <1>7 DEF Unlock
<1>8. CASE UpdateReturns(u)
  BY <1>8 DEF UpdateReturns, Loadable
<1>9. QED
  BY <1>1, <1>2, <1>3, <1>4, <1>5, <1>6, <1>7, <1>8 DEF Update

LEMMA TypedStep ==
    ASSUME Typed, HolderPhase, [Next]_vars
    PROVE  Typed'
<1> USE DEF Typed, TypeOK, OutcomeOK
<1>1. ASSUME NEW p \in Callers, NEW f \in Flags, NEW c \in Contexts,
             EvaluateFlag(p, f, c)
      PROVE  Typed'
  BY <1>1, PoolAssumption
     DEF EvaluateFlag, sharedVars, wasmVars, updateVars, closeVars
<1>2. ASSUME NEW u \in Updaters, NEW c \in Submitted, UpdateState(u, c)
      PROVE  Typed'
  BY <1>2 DEF UpdateState, sharedVars, wasmVars, callVars, closeVars
<1>3. CASE Close
  <2>1. Cardinality(Instances) \in Nat
    BY PoolAssumption, FS_CardinalityType
  <2>2. QED
    BY <1>3, <2>1 DEF Close, sharedVars, wasmVars, callVars, updateVars
<1>4. CASE CloseIdle
  BY <1>4 DEF CloseIdle, callVars, updateVars
<1>5. CASE CloseRuntime
  BY <1>5 DEF CloseRuntime, sharedVars, callVars, updateVars
<1>6. CASE UNCHANGED vars
  BY <1>6 DEF vars, sharedVars, wasmVars, callVars, updateVars, closeVars
<1>7. QED
  BY <1>1, <1>2, <1>3, <1>4, <1>5, <1>6, TypedEvaluation, TypedUpdate DEF Next

-----------------------------------------------------------------------------
(***************************************************************************)
(* Ownership                                                               *)
(***************************************************************************)
LEMMA OwnershipInit == Init => Ownership
BY PoolAssumption
   DEF Init, Ownership, HolderPhase, UpdaterPhase, SingleOwner, Placed

\* A closed or trapped instance stays so.
LEMMA DeadStaysDead ==
    ASSUME NEW c, NEW f
    PROVE  AfterUpdate(Dead, c, f) = Dead
BY DEF AfterUpdate, FaultOf

\* A step of a caller that leaves every instance where it is.
LEMMA OwnershipKept ==
    ASSUME Ownership,
           UNCHANGED <<inst, pool, updateMu, wasm, upc, instances, pending, closing>>,
           \A p \in Callers : pc'[p] \in {"check", "evaluate", "release"}
                                <=> pc[p] \in {"check", "evaluate", "release"}
    PROVE  Ownership'
<1>1. HolderPhase'
  BY DEF Ownership, HolderPhase
<1>2. UpdaterPhase'
  BY DEF Ownership, UpdaterPhase
<1>3. SingleOwner'
  BY DEF Ownership, SingleOwner
<1>4. Placed'
  BY DEF Ownership, Placed
<1> QED
  BY <1>1, <1>2, <1>3, <1>4 DEF Ownership

LEMMA OwnershipEvaluation ==
    ASSUME Typed, Ownership, NEW p \in Callers, Evaluation(p)
    PROVE  Ownership'
<1> USE PoolAssumption
    DEF Typed, TypeOK, Ownership, HolderPhase, UpdaterPhase, SingleOwner, Placed,
        sharedVars, wasmVars, updateVars, closeVars
<1>1. CASE Load(p)
  <2>1. /\ pc[p] = "load"
        /\ pc' = [pc EXCEPT ![p] = "done"] \/ pc' = [pc EXCEPT ![p] = "acquire"]
        /\ UNCHANGED <<inst, pool, updateMu, wasm, upc, instances, pending, closing>>
    BY <1>1 DEF Load, LoadCache
  <2>2. \A q \in Callers : pc'[q] \in {"check", "evaluate", "release"}
                               <=> pc[q] \in {"check", "evaluate", "release"}
    BY ONLY <2>1, Typed, p \in Callers DEF Typed, TypeOK
  <2>3. QED
    BY ONLY <2>1, <2>2, Ownership, OwnershipKept
<1>2. CASE Acquire(p)
  <2>1. /\ pc[p] = "acquire" /\ pc' = [pc EXCEPT ![p] = "check"]
        /\ inst[p] \notin Instances
        /\ UNCHANGED <<updateMu, wasm, upc, instances, pending, closing>>
    BY <1>2 DEF Acquire
  <2>2. PICK i \in pool : /\ pool' = pool \ {i}
                          /\ inst' = [inst EXCEPT ![p] = i]
    BY <1>2 DEF Acquire
  <2>3. HolderPhase' /\ UpdaterPhase'
    BY <2>1, <2>2
  <2>4. SingleOwner' /\ Placed'
    BY <2>1, <2>2
  <2>5. QED
    BY <2>3, <2>4
<1>3. CASE CheckGeneration(p)
  <2>1. /\ pc[p] = "check"
        /\ \/ pc' = [pc EXCEPT ![p] = "evaluate"]
           \/ pc' = [pc EXCEPT ![p] = "release"]
        /\ UNCHANGED <<inst, pool, updateMu, wasm, upc, instances, pending, closing>>
    BY <1>3 DEF CheckGeneration, LoadCache
  <2>2. \A q \in Callers : pc'[q] \in {"check", "evaluate", "release"}
                               <=> pc[q] \in {"check", "evaluate", "release"}
    BY ONLY <2>1, Typed, p \in Callers DEF Typed, TypeOK
  <2>3. QED
    BY ONLY <2>1, <2>2, Ownership, OwnershipKept
<1>4. CASE EvaluateOnInstance(p)
  BY <1>4 DEF EvaluateOnInstance
<1>5. CASE EvaluateFails(p)
  BY <1>5 DEF EvaluateFails
<1>6. CASE Release(p)
  BY <1>6 DEF Release
<1>7. CASE EvaluateReturns(p)
  BY <1>7 DEF EvaluateReturns
<1>8. QED
  BY <1>1, <1>2, <1>3, <1>4, <1>5, <1>6, <1>7 DEF Evaluation

LEMMA OwnershipUpdate ==
    ASSUME Typed, Ownership, NEW u \in Updaters, Update(u)
    PROVE  Ownership'
<1> USE PoolAssumption
    DEF Typed, TypeOK, Ownership, HolderPhase, UpdaterPhase, SingleOwner, Placed,
        sharedVars, wasmVars, callVars, closeVars
<1>1. CASE Lock(u)
  BY <1>1 DEF Lock
<1>2. CASE Drain(u)
  BY <1>2 DEF Drain
<1>3. CASE UpdateFirst(u)
  <2>1. /\ upc[u] = "first"
        /\ UNCHANGED <<inst, instances, pool, updateMu, pc, closing>>
        /\ \/ upc' = [upc EXCEPT ![u] = "giveBack"] /\ UNCHANGED pending
           \/ /\ upc' = [upc EXCEPT ![u] = "rest"]
              /\ \E i \in Instances :
                    pending' = [pending EXCEPT ![u] = instances[u] \ {i}]
    BY <1>3 DEF UpdateFirst
  <2>2. \A i \in Instances : wasm[i] = Dead => wasm'[i] = Dead
    BY <1>3, DeadStaysDead DEF UpdateFirst
  <2>3. HolderPhase' /\ UpdaterPhase'
    BY <2>1
  <2>4. SingleOwner' /\ Placed'
    BY <2>1, <2>2
  <2>5. QED
    BY <2>3, <2>4
<1>4. CASE UpdateRest(u)
  <2>1. /\ upc[u] = "rest"
        /\ UNCHANGED <<inst, instances, pool, updateMu, pc, upc, closing>>
        /\ \A v \in Updaters : v # u => pending'[v] = pending[v]
    BY <1>4 DEF UpdateRest
  <2>2. \A i \in Instances : wasm[i] = Dead => wasm'[i] = Dead
    BY <1>4, DeadStaysDead DEF UpdateRest
  <2>3. HolderPhase' /\ UpdaterPhase'
    BY <2>1
  <2>4. SingleOwner' /\ Placed'
    BY <2>1, <2>2
  <2>5. QED
    BY <2>3, <2>4
<1>5. CASE Publish(u)
  BY <1>5 DEF Publish
<1>6. CASE GiveBack(u)
  <2>1. /\ upc[u] = "giveBack"
        /\ UNCHANGED <<inst, updateMu, wasm, pc, upc, pending, closing>>
    BY <1>6 DEF GiveBack
  <2>2. PICK i \in instances[u] :
              /\ pool' = pool \cup {i}
              /\ instances' = [instances EXCEPT ![u] = @ \ {i}]
    BY <1>6 DEF GiveBack
  <2>3. HolderPhase' /\ UpdaterPhase'
    BY <2>1, <2>2
  <2>4. SingleOwner'
    BY <2>1, <2>2
  <2>5. Placed'
    BY <2>1, <2>2
  <2>6. QED
    BY <2>3, <2>4, <2>5
<1>7. CASE Unlock(u)
  BY <1>7 DEF Unlock
<1>8. CASE UpdateReturns(u)
  BY <1>8 DEF UpdateReturns
<1>9. QED
  BY <1>1, <1>2, <1>3, <1>4, <1>5, <1>6, <1>7, <1>8 DEF Update

LEMMA OwnershipStep ==
    ASSUME Typed, Ownership, [Next]_vars
    PROVE  Ownership'
<1> USE PoolAssumption
    DEF Typed, TypeOK, Ownership, HolderPhase, UpdaterPhase, SingleOwner, Placed
<1>1. ASSUME NEW p \in Callers, NEW f \in Flags, NEW c \in Contexts,
             EvaluateFlag(p, f, c)
      PROVE  Ownership'
  <2>1. /\ pc[p] = "idle" /\ pc' = [pc EXCEPT ![p] = "load"]
        /\ UNCHANGED <<inst, pool, updateMu, wasm, upc, instances, pending, closing>>
    BY <1>1 DEF EvaluateFlag, sharedVars, wasmVars, updateVars, closeVars
  <2>2. \A q \in Callers : pc'[q] \in {"check", "evaluate", "release"}
                               <=> pc[q] \in {"check", "evaluate", "release"}
    BY ONLY <2>1, Typed, p \in Callers DEF Typed, TypeOK
  <2>3. QED
    BY ONLY <2>1, <2>2, Ownership, OwnershipKept
<1>2. ASSUME NEW u \in Updaters, NEW c \in Submitted, UpdateState(u, c)
      PROVE  Ownership'
  BY <1>2 DEF UpdateState, sharedVars, wasmVars, callVars, closeVars
<1>3. CASE Close
  BY <1>3 DEF Close, sharedVars, wasmVars, callVars, updateVars
<1>4. CASE CloseIdle
  <2>1. /\ closing # "open"
        /\ UNCHANGED <<inst, updateMu, pc, upc, instances, pending, closing>>
        /\ \/ \E i \in pool : /\ pool' = pool \ {i}
                              /\ wasm' = [wasm EXCEPT ![i] = Dead]
           \/ UNCHANGED <<pool, wasm>>
    BY <1>4 DEF CloseIdle, callVars, updateVars
  <2>2. HolderPhase' /\ UpdaterPhase'
    BY <2>1
  <2>3. CASE UNCHANGED <<pool, wasm>>
    <3>1. SingleOwner' /\ Placed'
      BY <2>1, <2>3
    <3>2. QED
      BY <2>2, <3>1
  <2>4. CASE \E i \in pool : pool' = pool \ {i} /\ wasm' = [wasm EXCEPT ![i] = Dead]
    <3>1. PICK i \in pool : pool' = pool \ {i} /\ wasm' = [wasm EXCEPT ![i] = Dead]
      BY <2>4
    <3>2. SingleOwner'
      BY <2>1, <3>1
    <3>3. Placed'
      BY <2>1, <3>1
    <3>4. QED
      BY <2>2, <3>2, <3>3
  <2>5. QED
    BY <2>1, <2>3, <2>4
<1>5. CASE CloseRuntime
  BY <1>5 DEF CloseRuntime, sharedVars, callVars, updateVars
<1>6. CASE UNCHANGED vars
  BY <1>6 DEF vars, sharedVars, wasmVars, callVars, updateVars, closeVars
<1>7. QED
  BY <1>1, <1>2, <1>3, <1>4, <1>5, <1>6, OwnershipEvaluation, OwnershipUpdate
     DEF Next

\* Every reachable state is well typed.
THEOREM TypeCorrect == Spec => []TypeOK
<1>1. Init => Typed /\ Ownership
  BY TypedInit, OwnershipInit
<1>2. (Typed /\ Ownership) /\ [Next]_vars => (Typed /\ Ownership)'
  BY TypedStep, OwnershipStep DEF Ownership
<1>3. Typed /\ Ownership => TypeOK
  BY DEF Typed
<1>4. QED
  BY <1>1, <1>2, <1>3, PTL DEF Spec

\* No two goroutines ever use one instance, whatever fails and whenever Close
\* is called.
THEOREM ExclusiveInstances == Spec => []SingleOwner
<1>1. Init => Typed /\ Ownership
  BY TypedInit, OwnershipInit
<1>2. (Typed /\ Ownership) /\ [Next]_vars => (Typed /\ Ownership)'
  BY TypedStep, OwnershipStep DEF Ownership
<1>3. Typed /\ Ownership => SingleOwner
  BY DEF Ownership
<1>4. QED
  BY <1>1, <1>2, <1>3, PTL DEF Spec

\* No instance is ever lost to the pool except by Close.
THEOREM InstancesConserved == Spec => []NoneLost
<1>1. Init => Typed /\ Ownership
  BY TypedInit, OwnershipInit
<1>2. (Typed /\ Ownership) /\ [Next]_vars => (Typed /\ Ownership)'
  BY TypedStep, OwnershipStep DEF Ownership
<1>3. Typed /\ Ownership => NoneLost
  BY DEF Typed, TypeOK, Ownership, HolderPhase, UpdaterPhase, Placed, NoneLost
<1>4. QED
  BY <1>1, <1>2, <1>3, PTL DEF Spec

-----------------------------------------------------------------------------
(***************************************************************************)
(* One configuration at a time                                             *)
(***************************************************************************)
\* What an instance holds once UpdateState u has updated it.
Target(u) == IF outcome[u] = "success" THEN config[u] ELSE current

\* Instance i runs configuration c, unless it no longer runs.
Runs(i, c) == wasm[i] = c \/ wasm[i] = Dead

InstancesOK ==
    /\ \A i \in Instances : gen[i] = generation
    /\ \A i \in Instances : ~Updating(i) => Runs(i, current)
    /\ \A u \in Updaters : upc[u] = "first" =>
          \A i \in Instances : Runs(i, current)
    /\ \A u \in Updaters : upc[u] = "rest" =>
          /\ \A i \in Instances :
                Runs(i, IF i \in pending[u] THEN current ELSE Target(u))
          /\ outcome[u] = "failure" => config[u] \notin Configs
          /\ updated[u] = IF outcome[u] = "success" THEN config[u] ELSE NoConfig

\* A configuration stays in force until the update that installed it returns.
InstalledOK ==
    \A u \in Updaters :
        upc[u] = "giveBack" /\ outcome[u] = "success" => config[u] = current

CacheOK == cache.generation = generation /\ cache.config \in {NoConfig, current}

\* A snapshot a caller still uses is no newer than the cache, and is the cache
\* if it is of the same generation.
SnapshotsOK ==
    \A p \in Callers :
        /\ pc[p] \in {"acquire", "check", "evaluate"} =>
              /\ snap[p].generation <= generation
              /\ snap[p].generation = generation => snap[p].config = cache.config
        /\ pc[p] = "evaluate" => snap[p].generation = generation

Consistent == InstancesOK /\ InstalledOK /\ CacheOK /\ SnapshotsOK

IInv == Typed /\ Ownership /\ Consistent

LEMMA ConsistentInit == Init => Consistent
BY DEF Init, Consistent, InstancesOK, InstalledOK, CacheOK, SnapshotsOK, NoSnapshot, Snapshot, Runs

\* What update_state leaves instance i with under benign faults.
LEMMA BenignFirst ==
    ASSUME BenignFaults, NEW w \in {current, Dead}, NEW c,
           NEW f \in FirstFaults \cup {"ok"}
    PROVE  LET after == AfterUpdate(w, c, f)
               r == UpdateResult(w, c, f)
           IN  /\ r = "success" => c \in Configs /\ after = c
               /\ r = "failure" => c \notin Configs /\ after \in {current, Dead}
               /\ r = "error" => after \in {current, Dead}
<1>1. FaultOf(w, f) \in {"ok", "notWritten", "trapped"}
  BY DEF BenignFaults, FaultOf
<1>2. CASE FaultOf(w, f) = "ok"
  BY <1>2 DEF AfterUpdate, UpdateResult
<1>3. CASE FaultOf(w, f) = "notWritten"
  BY <1>3 DEF AfterUpdate, UpdateResult
<1>4. CASE FaultOf(w, f) = "trapped"
  BY <1>4 DEF AfterUpdate, UpdateResult
<1>5. QED
  BY <1>1, <1>2, <1>3, <1>4

LEMMA BenignRest ==
    ASSUME BenignFaults, NEW w \in {current, Dead}, NEW c,
           NEW f \in RestFaults \cup {"ok"}
    PROVE  AfterUpdate(w, c, f) \in {IF c \in Configs THEN c ELSE current, Dead}
<1>1. FaultOf(w, f) \in {"ok", "unread", "trapped"}
  BY DEF BenignFaults, FaultOf
<1>2. CASE FaultOf(w, f) = "trapped"
  BY <1>2 DEF AfterUpdate
<1>3. CASE FaultOf(w, f) \in {"ok", "unread"}
  <2>1. w = current
    BY <1>3 DEF FaultOf
  <2>2. AfterUpdate(w, c, f) = IF c \in Configs THEN c ELSE w
    BY <1>3 DEF AfterUpdate
  <2>3. QED
    BY <2>1, <2>2
<1>4. QED
  BY <1>1, <1>2, <1>3

\* Steps of a caller leave everything but the pool and a trapped instance alone.
LEMMA ConsistentEvaluation ==
    ASSUME IInv, NEW p \in Callers, Evaluation(p)
    PROVE  Consistent'
<1> USE DEF IInv, Typed, TypeOK, Consistent, InstancesOK, InstalledOK, CacheOK,
            SnapshotsOK, Updating, Target, Runs, Snapshots, sharedVars, wasmVars, updateVars,
            closeVars
<1>1. CASE Load(p)
  <2>1. /\ pc[p] = "load"
        /\ pc' = [pc EXCEPT ![p] = "done"] \/ pc' = [pc EXCEPT ![p] = "acquire"]
        /\ snap' = [snap EXCEPT ![p] = cache]
        /\ UNCHANGED <<cache, generation, wasm, gen, updateVars, current>>
    BY <1>1 DEF Load, LoadCache
  <2>2. QED
    BY <2>1
<1>2. CASE Acquire(p)
  BY <1>2 DEF Acquire
<1>3. CASE CheckGeneration(p)
  <2>1. inst[p] \in Instances
    BY <1>3 DEF CheckGeneration, Ownership, HolderPhase
  <2>2. /\ pc[p] = "check"
        /\ UNCHANGED <<cache, generation, wasm, gen, updateVars, current>>
    BY <1>3 DEF CheckGeneration
  <2>3. CASE snap[p].generation # gen[inst[p]]
    <3>1. /\ snap' = [snap EXCEPT ![p] = cache]
          /\ \/ pc' = [pc EXCEPT ![p] = "release"]
             \/ pc' = [pc EXCEPT ![p] = "evaluate"]
      BY <1>3, <2>3 DEF CheckGeneration, LoadCache
    <3>2. QED
      BY <2>2, <3>1
  <2>4. CASE snap[p].generation = gen[inst[p]]
    <3>1. snap[p].generation = generation
      BY <2>1, <2>4
    <3>2. UNCHANGED snap /\ pc' = [pc EXCEPT ![p] = "evaluate"]
      BY <1>3, <2>4 DEF CheckGeneration
    <3>3. QED
      BY <2>2, <3>1, <3>2
  <2>5. QED
    BY <2>3, <2>4
<1>4. CASE EvaluateOnInstance(p)
  BY <1>4 DEF EvaluateOnInstance
<1>5. CASE EvaluateFails(p)
  <2>1. /\ pc[p] = "evaluate" /\ pc' = [pc EXCEPT ![p] = "release"]
        /\ UNCHANGED <<snap, cache, generation, gen, updateVars, current>>
    BY <1>5 DEF EvaluateFails
  <2>2. \A i \in Instances : wasm'[i] = wasm[i] \/ wasm'[i] = Dead
    BY <1>5 DEF EvaluateFails
  <2>3. \A u \in Updaters : upc[u] \notin {"first", "rest"}
    <3>1. inst[p] \in Instances
      BY <2>1 DEF Ownership, HolderPhase
    <3>2. QED
      BY <3>1 DEF Ownership, UpdaterPhase, SingleOwner
  <2>4. QED
    BY <2>1, <2>2, <2>3
<1>6. CASE Release(p)
  BY <1>6 DEF Release
<1>7. CASE EvaluateReturns(p)
  BY <1>7 DEF EvaluateReturns
<1>8. QED
  BY <1>1, <1>2, <1>3, <1>4, <1>5, <1>6, <1>7 DEF Evaluation

\* While an updater has all instances, no caller has one and no other updater
\* is past its lock.
LEMMA UpdaterAlone ==
    ASSUME Typed, Ownership, NEW u \in Updaters, upc[u] \in {"first", "rest"}
    PROVE  /\ instances[u] = Instances
           /\ \A v \in Updaters : v # u => upc[v] \notin {"first", "rest"}
           /\ \A p \in Callers : pc[p] \notin {"check", "evaluate", "release"}
BY DEF Typed, TypeOK, Ownership, HolderPhase, UpdaterPhase, SingleOwner

LEMMA ConsistentUpdate ==
    ASSUME BenignFaults, IInv, NEW u \in Updaters, Update(u)
    PROVE  Consistent'
<1> USE DEF IInv, Typed, TypeOK, Consistent, InstancesOK, InstalledOK, CacheOK,
            SnapshotsOK, Updating, Target, Runs, sharedVars, wasmVars, callVars, closeVars
<1>1. CASE Lock(u)
  BY <1>1 DEF Lock
<1>2. CASE Drain(u)
  <2>1. \A i \in Instances : Runs(i, current)
    BY <1>2 DEF Drain, Ownership, UpdaterPhase
  <2>2. QED
    BY <1>2, <2>1 DEF Drain
<1>3. CASE UpdateFirst(u)
  <2>1. /\ upc[u] = "first"
        /\ UNCHANGED <<config, instances, gen, cache, generation, pc, snap, current>>
    BY <1>3 DEF UpdateFirst
  <2>2. PICK i \in instances[u], f \in FirstFaults \cup {"ok"} :
              /\ wasm' = [wasm EXCEPT ![i] = AfterUpdate(wasm[i], config[u], f)]
              /\ outcome' = [outcome EXCEPT ![u] = UpdateResult(wasm[i], config[u], f)]
              /\ updated' = [updated EXCEPT ![u] =
                    IF UpdateResult(wasm[i], config[u], f) = "success"
                    THEN config[u] ELSE NoConfig]
              /\ IF UpdateResult(wasm[i], config[u], f) = "error"
                 THEN /\ upc' = [upc EXCEPT ![u] = "giveBack"]
                      /\ UNCHANGED pending
                 ELSE /\ upc' = [upc EXCEPT ![u] = "rest"]
                      /\ pending' = [pending EXCEPT ![u] = instances[u] \ {i}]
    BY <1>3 DEF UpdateFirst
  <2>3. i \in Instances /\ instances[u] = Instances
    BY <2>1, UpdaterAlone
  <2>4. \A v \in Updaters : v # u => upc[v] \notin {"first", "rest"}
    BY <2>1, UpdaterAlone
  <2>5. \A j \in Instances : wasm[j] \in {current, Dead}
    BY <2>1
  <2> DEFINE w == AfterUpdate(wasm[i], config[u], f)
             r == UpdateResult(wasm[i], config[u], f)
  <2>6. /\ r = "success" => config[u] \in Configs /\ w = config[u]
        /\ r = "failure" => config[u] \notin Configs /\ w \in {current, Dead}
        /\ r = "error" => w \in {current, Dead}
        /\ r \in {"success", "failure", "error"}
    BY <2>3, <2>5, BenignFirst, ResultTypes
  <2>7. wasm' = [wasm EXCEPT ![i] = w] /\ outcome' = [outcome EXCEPT ![u] = r]
    BY <2>2
  <2>8. CASE r = "error"
    <3>1. UNCHANGED pending /\ upc' = [upc EXCEPT ![u] = "giveBack"]
      BY <2>2, <2>8
    <3>2. \A j \in Instances : wasm'[j] \in {current, Dead}
      BY <2>5, <2>6, <2>7, <2>8
    <3> HIDE DEF w, r
    <3>3. outcome' = [outcome EXCEPT ![u] = "error"]
      BY <2>7, <2>8
    <3>4. QED
      BY <2>1, <2>4, <3>1, <3>2, <3>3
  <2>9. CASE r # "error"
    <3>1. /\ pending' = [pending EXCEPT ![u] = Instances \ {i}]
          /\ upc' = [upc EXCEPT ![u] = "rest"]
          /\ updated' = [updated EXCEPT ![u] =
                IF r = "success" THEN config[u] ELSE NoConfig]
      BY <2>2, <2>3, <2>9
    <3>2. w \in {IF r = "success" THEN config[u] ELSE current, Dead}
      BY <2>6, <2>9
    <3>3. r = "failure" => config[u] \notin Configs
      BY <2>6
    <3> HIDE DEF w, r
    <3>4. QED
      BY <2>1, <2>3, <2>4, <2>5, <2>7, <3>1, <3>2, <3>3
  <2>10. QED
    BY <2>8, <2>9
<1>4. CASE UpdateRest(u)
  <2>1. /\ upc[u] = "rest"
        /\ UNCHANGED <<upc, config, instances, updated, outcome, gen, cache,
                       generation, pc, snap, current>>
    BY <1>4 DEF UpdateRest
  <2>2. PICK i \in pending[u], f \in RestFaults \cup {"ok"} :
              /\ wasm' = [wasm EXCEPT ![i] = AfterUpdate(wasm[i], config[u], f)]
              /\ pending' = [pending EXCEPT ![u] = @ \ {i}]
    BY <1>4 DEF UpdateRest
  <2>3. i \in Instances /\ instances[u] = Instances
    BY <2>1, UpdaterAlone
  <2>4. \A v \in Updaters : v # u => upc[v] \notin {"first", "rest"}
    BY <2>1, UpdaterAlone
  <2>5. AfterUpdate(wasm[i], config[u], f)
          \in {IF config[u] \in Configs THEN config[u] ELSE current, Dead}
    BY <2>1, <2>3, BenignRest
  <2>6. Target(u) = IF config[u] \in Configs THEN config[u] ELSE current
    BY <2>1 DEF OutcomeOK
  <2>7. AfterUpdate(wasm[i], config[u], f) \in {Target(u), Dead}
    BY <2>5, <2>6
  <2> DEFINE w == AfterUpdate(wasm[i], config[u], f)
  <2>8. wasm' = [wasm EXCEPT ![i] = w] /\ w \in {Target(u), Dead}
    BY <2>2, <2>7
  <2> HIDE DEF w
  <2>9. QED
    BY <2>1, <2>2, <2>3, <2>4, <2>8
<1>5. CASE Publish(u)
  <2>1. /\ upc[u] = "rest" /\ pending[u] = {}
        /\ upc' = [upc EXCEPT ![u] = "giveBack"]
        /\ generation' = generation + 1
        /\ cache'.generation = generation + 1 /\ cache'.config = updated[u]
        /\ current' = Target(u)
        /\ UNCHANGED <<config, instances, pending, updated, outcome, wasm, pc, snap>>
    BY <1>5 DEF Publish, Snapshot
  <2>2. \A i \in Instances : gen'[i] = generation + 1
    BY <1>5, <2>1, UpdaterAlone DEF Publish
  <2>3. /\ \A v \in Updaters : v # u =>
              upc[v] \notin {"drain", "first", "rest", "giveBack"}
        /\ \A p \in Callers : pc[p] \notin {"check", "evaluate", "release"}
    BY <2>1, UpdaterAlone DEF Ownership, UpdaterPhase
  <2>4. InstancesOK'
    BY <2>1, <2>2, <2>3
  <2>5. InstalledOK'
    BY <2>1, <2>3
  <2>6. CacheOK'
    BY <2>1
  <2>7. SnapshotsOK'
    BY <2>1, <2>3 DEF Snapshots
  <2>8. QED
    BY <2>4, <2>5, <2>6, <2>7
<1>6. CASE GiveBack(u)
  BY <1>6 DEF GiveBack
<1>7. CASE Unlock(u)
  BY <1>7 DEF Unlock
<1>8. CASE UpdateReturns(u)
  BY <1>8 DEF UpdateReturns
<1>9. QED
  BY <1>1, <1>2, <1>3, <1>4, <1>5, <1>6, <1>7, <1>8 DEF Update

LEMMA ConsistentStep ==
    ASSUME BenignFaults, IInv, [Next]_vars
    PROVE  Consistent'
<1> USE DEF IInv, Typed, TypeOK, Consistent, InstancesOK, InstalledOK, CacheOK,
            SnapshotsOK, Updating, Target, Runs
<1>1. ASSUME NEW p \in Callers, NEW f \in Flags, NEW c \in Contexts,
             EvaluateFlag(p, f, c)
      PROVE  Consistent'
  BY <1>1 DEF EvaluateFlag, sharedVars, wasmVars, updateVars, closeVars
<1>2. ASSUME NEW u \in Updaters, NEW c \in Submitted, UpdateState(u, c)
      PROVE  Consistent'
  BY <1>2 DEF UpdateState, sharedVars, wasmVars, callVars, closeVars
<1>3. CASE Close
  BY <1>3 DEF Close, sharedVars, wasmVars, callVars, updateVars
<1>4. CASE CloseIdle
  BY <1>4 DEF CloseIdle, callVars, updateVars
<1>5. CASE CloseRuntime
  BY <1>5 DEF CloseRuntime, sharedVars, callVars, updateVars
<1>6. CASE UNCHANGED vars
  BY <1>6 DEF vars, sharedVars, wasmVars, callVars, updateVars, closeVars
<1>7. QED
  BY <1>1, <1>2, <1>3, <1>4, <1>5, <1>6, ConsistentEvaluation, ConsistentUpdate
     DEF Next

LEMMA InvariantInit == Init => IInv
BY TypedInit, OwnershipInit, ConsistentInit DEF IInv

LEMMA InvariantStep ==
    ASSUME BenignFaults, IInv, [Next]_vars
    PROVE  IInv'
<1>1. Typed'
  BY TypedStep DEF IInv, Ownership
<1>2. Ownership'
  BY OwnershipStep DEF IInv
<1>3. Consistent'
  BY ConsistentStep
<1>4. QED
  BY <1>1, <1>2, <1>3 DEF IInv

THEOREM Invariance ==
    ASSUME BenignFaults
    PROVE  Spec => []IInv
<1>1. IInv /\ [Next]_vars => IInv'
  BY InvariantStep
<1>2. QED
  BY <1>1, InvariantInit, PTL DEF Spec

\* If faults are benign, the instances never disagree outside the critical
\* part of UpdateState.
THEOREM PoolStaysUniform ==
    ASSUME BenignFaults
    PROVE  Spec => []PoolUniform
<1>1. IInv => PoolUniform
  BY DEF IInv, Consistent, InstancesOK, CacheOK, PoolUniform, Runs
<1>2. QED
  BY <1>1, Invariance, PTL

\* If faults are benign, a caller never uses the index or the required keys of
\* one configuration on an instance that holds another.
THEOREM GuardIsSound ==
    ASSUME BenignFaults
    PROVE  Spec => []GuardSound
<1>1. IInv => GuardSound
  <2>1. SUFFICES ASSUME IInv, NEW p \in Callers, pc[p] = "evaluate"
                 PROVE  /\ snap[p].generation = gen[inst[p]]
                        /\ wasm[inst[p]] # Dead =>
                              snap[p].config \in {NoConfig, wasm[inst[p]]}
    BY DEF GuardSound
  <2>2. inst[p] \in Instances
    BY <2>1 DEF IInv, Ownership, HolderPhase
  <2>3. ~Updating(inst[p])
    BY <2>2, <2>1 DEF IInv, Ownership, SingleOwner, Updating
  <2>4. snap[p].generation = generation /\ snap[p].config = cache.config
    BY <2>1 DEF IInv, Consistent, SnapshotsOK
  <2>5. QED
    BY <2>1, <2>2, <2>3, <2>4 DEF IInv, Consistent, InstancesOK, CacheOK, Runs
<1>2. QED
  BY <1>1, Invariance, PTL

\* If faults are benign, UpdateState that returns success has updated every
\* instance that still runs.
THEOREM UpdateReachesAllInstances ==
    ASSUME BenignFaults
    PROVE  Spec => UpdateReachesAll
<1> DEFINE Reaches(u) ==
        upc'[u] = "done" /\ upc[u] # "done" /\ outcome'[u] = "success"
            => \A i \in Instances : wasm'[i] \in {config[u], Dead}
<1>1. ASSUME IInv, [Next]_vars, NEW u \in Updaters,
             upc'[u] = "done", upc[u] # "done", outcome'[u] = "success"
      PROVE  \A i \in Instances : wasm'[i] \in {config[u], Dead}
  <2>1. Lock(u) \/ Unlock(u)
    <3> USE DEF IInv, Typed, TypeOK, sharedVars, wasmVars, callVars, updateVars,
                closeVars
    <3>1. ~(UNCHANGED vars)
      BY <1>1 DEF vars
    <3>2. ASSUME NEW p \in Callers, NEW f \in Flags, NEW c \in Contexts,
                 EvaluateFlag(p, f, c)
          PROVE  FALSE
      BY <1>1, <3>2 DEF EvaluateFlag
    <3>3. ASSUME NEW p \in Callers, Evaluation(p)
          PROVE  FALSE
      <4>1. UNCHANGED upc
        BY <3>3 DEF Evaluation, Load, Acquire, CheckGeneration, EvaluateOnInstance,
                    EvaluateFails, Release, EvaluateReturns
      <4>2. QED
        BY <1>1, <4>1
    <3>4. ASSUME NEW v \in Updaters, NEW c \in Submitted, UpdateState(v, c)
          PROVE  FALSE
      BY <1>1, <3>4 DEF UpdateState
    <3>5. ~Close /\ ~CloseIdle /\ ~CloseRuntime
      BY <1>1 DEF Close, CloseIdle, CloseRuntime
    <3>6. ASSUME NEW v \in Updaters, Update(v)
          PROVE  Lock(u) \/ Unlock(u)
      <4>1. v = u
        BY <1>1, <3>6 DEF Update, Lock, Drain, UpdateFirst, UpdateRest, Publish,
                          GiveBack, Unlock, UpdateReturns
      <4>2. ~Drain(u) /\ ~UpdateFirst(u) /\ ~UpdateRest(u) /\ ~Publish(u)
            /\ ~GiveBack(u) /\ ~UpdateReturns(u)
        BY <1>1 DEF Drain, UpdateFirst, UpdateRest, Publish, GiveBack, UpdateReturns
      <4>3. QED
        BY <3>6, <4>1, <4>2 DEF Update
    <3>7. QED
      BY <1>1, <3>1, <3>2, <3>3, <3>4, <3>5, <3>6 DEF Next
  <2>2. ~Lock(u)
    BY <1>1 DEF Lock, IInv, Typed, TypeOK, OutcomeOK
  <2>3. /\ upc[u] = "giveBack" /\ outcome[u] = "success"
        /\ UNCHANGED <<wasm, config>>
    BY <1>1, <2>1, <2>2 DEF Unlock, wasmVars
  <2>4. \A v \in Updaters : upc[v] \notin {"first", "rest"}
    BY <2>3, <1>1 DEF IInv, Ownership, UpdaterPhase
  <2>5. QED
    BY <1>1, <2>3, <2>4
       DEF IInv, Consistent, InstancesOK, InstalledOK, Runs, Updating
<1>2. IInv /\ [Next]_vars => [\A u \in Updaters : Reaches(u)]_vars
  BY <1>1
<1>3. QED
  BY <1>2, Invariance, PTL DEF Spec, UpdateReachesAll

-----------------------------------------------------------------------------
(***************************************************************************)
(* Refinement: whatever the interleaving of callers, updaters and Close,   *)
(* evaluations are answered from one configuration at a time, provided the *)
(* faults of updateInstance are benign.                                    *)
(***************************************************************************)
\* What a caller asked, and that it has no answer before the step that gives it.
CallsOK ==
    \A p \in Callers :
        /\ pc[p] = "idle" => flagKey[p] = 0 /\ ctx[p] = {}
        /\ pc[p] # "idle" => flagKey[p] \in Flags /\ ctx[p] \in Contexts
        /\ pc[p] \in {"idle", "load", "acquire", "check", "evaluate"} =>
              result[p] = NotFound

RInv == IInv /\ CallsOK

Seen == [p \in Callers |-> CallSeen(p)]

\* FlagService speaks of the same configurations as the pool.
LEMMA SameConfig ==
    /\ Service!NotFound = NotFound
    /\ Service!Failed = Failed
    /\ \A c, f, k : Service!Evaluate(c, f, k) = Evaluate(c, f, k)
BY DEF Service!NotFound, NotFound, Service!Failed, Failed, Service!Evaluate, Evaluate,
       Service!FlagsOf, FlagsOf, Service!Value, Value, Service!SeenFields, SeenFields

LEMMA CallsInit == Init => CallsOK
BY DEF Init, CallsOK

\* The four ways the calls in progress change: not at all, by a new call, by an
\* answer, by a return.
StutterOf(p) ==
    /\ UNCHANGED <<flagKey, ctx, result>>
    /\ \/ UNCHANGED pc
       \/ /\ pc[p] \in {"load", "acquire", "check", "evaluate"}
          /\ \E l \in {"acquire", "check", "evaluate"} : pc' = [pc EXCEPT ![p] = l]
       \/ /\ pc[p] = "release"
          /\ pc' = [pc EXCEPT ![p] = "done"]

AnswerOf(p, a) ==
    /\ pc[p] \in {"load", "check", "evaluate"}
    /\ \E l \in {"release", "done"} : pc' = [pc EXCEPT ![p] = l]
    /\ result' = [result EXCEPT ![p] = a]
    /\ UNCHANGED <<flagKey, ctx>>

LEMMA StutterSeen ==
    ASSUME RInv, NEW p \in Callers, StutterOf(p)
    PROVE  UNCHANGED Seen /\ CallsOK'
BY DEF RInv, IInv, Typed, TypeOK, CallsOK, StutterOf, Seen, CallSeen

LEMMA AnswerSeen ==
    ASSUME RInv, NEW p \in Callers, NEW a, AnswerOf(p, a)
    PROVE  /\ Seen[p] = Service!Pending(flagKey[p], ctx[p])
           /\ Seen' = [Seen EXCEPT ![p] = Service!Answered(flagKey[p], ctx[p], a)]
           /\ CallsOK'
<1> USE SameConfig
    DEF RInv, IInv, Typed, TypeOK, CallsOK, AnswerOf, CallSeen, Service!Pending,
        Service!Answered, Service!Call
<1>1. CallSeen(p) = Service!Pending(flagKey[p], ctx[p])
  OBVIOUS
<1>2. CallSeen(p)' = Service!Answered(flagKey[p], ctx[p], a)
  OBVIOUS
<1>3. \A q \in Callers : q # p => CallSeen(q)' = CallSeen(q)
  OBVIOUS
<1>4. CallsOK'
  OBVIOUS
<1> DEFINE w == Service!Answered(flagKey[p], ctx[p], a)
<1>5. Seen' = [Seen EXCEPT ![p] = w]
  <2> HIDE DEF w
  <2>1. Seen' = [q \in Callers |-> IF q = p THEN w ELSE CallSeen(q)]
    <3>1. \A q \in Callers : CallSeen(q)' = IF q = p THEN w ELSE CallSeen(q)
      BY <1>2, <1>3 DEF w
    <3>2. QED
      BY <3>1 DEF Seen
  <2>2. QED
    BY <2>1 DEF Seen
<1>6. QED
  BY <1>1, <1>4, <1>5 DEF Seen

LEMMA AnswerImplements ==
    ASSUME RInv, NEW p \in Callers, UNCHANGED current,
           NEW a \in {Evaluate(current, flagKey[p], ctx[p]), Failed}, AnswerOf(p, a)
    PROVE  Service!ServiceNext /\ CallsOK'
<1>1. Service!Answer(p, flagKey[p], ctx[p], a)
  BY AnswerSeen, SameConfig DEF Service!Answer, Seen
<1>2. flagKey[p] \in Flags /\ ctx[p] \in Contexts
  BY DEF RInv, CallsOK, AnswerOf
<1>3. QED
  <2>1. a \in {Service!Evaluate(current, flagKey[p], ctx[p]), Service!Failed}
    BY SameConfig
  <2>2. QED
    BY <1>1, <1>2, <2>1, AnswerSeen DEF Service!ServiceNext

\* A hit in the pre-evaluated results answers from the configuration in force.
LEMMA HitAnswer ==
    ASSUME RInv, NEW p \in Callers, flagKey[p] \in PreEvaluated(cache.config)
    PROVE  Evaluate(cache.config, flagKey[p], {})
             = Evaluate(current, flagKey[p], ctx[p])
<1>1. cache.config = current
  BY DEF PreEvaluated, RInv, IInv, Consistent, CacheOK
<1>2. QED
  BY <1>1, StaticIgnoresContext

\* So does the call into the instance, by index or by key, with the filtered
\* context or the whole.
LEMMA InstanceAnswer ==
    ASSUME BenignFaults, RInv, NEW p \in Callers, pc[p] = "evaluate",
           wasm[inst[p]] # Dead
    PROVE  CallWasm(p) = Evaluate(current, flagKey[p], ctx[p])
<1> DEFINE f == flagKey[p]
           known == snap[p].config
<1>1. inst[p] \in Instances
  BY DEF RInv, IInv, Ownership, HolderPhase
<1>2. ~Updating(inst[p])
  BY <1>1 DEF RInv, IInv, Ownership, SingleOwner, Updating
<1>3. wasm[inst[p]] = current
  BY <1>1, <1>2 DEF RInv, IInv, Consistent, InstancesOK, Runs
<1>4. known \in {NoConfig, current} /\ current \in Loadable
  BY DEF RInv, IInv, Typed, TypeOK, Consistent, SnapshotsOK, CacheOK
<1>5. CASE f \notin RequiredKeyFlags(known)
  <2>1. SentContext(p) = ctx[p]
    BY <1>5 DEF SentContext
  <2>2. QED
    BY <1>3, <1>5, <2>1 DEF CallWasm
<1>6. CASE f \in RequiredKeyFlags(known)
  <2>1. known = current /\ current \in Configs
    BY <1>4, <1>6 DEF RequiredKeyFlags, Loadable
  <2>2. SentContext(p) = ctx[p] \cap Keys[current][f]
    BY <1>6, <2>1 DEF SentContext
  <2>3. Evaluate(current, f, SentContext(p)) = Evaluate(current, f, ctx[p])
    BY <1>6, <2>1, <2>2, FilteringIsSound
  <2>4. f \in FlagsOf(known) =>
          EvaluateByIndex(current, FlagIndex(known, f), SentContext(p))
            = Evaluate(current, f, SentContext(p))
    BY <2>1, ByIndexIsByKey
  <2>5. QED
    BY <1>3, <2>3, <2>4 DEF CallWasm
<1>7. QED
  BY <1>5, <1>6

-----------------------------------------------------------------------------
LEMMA EvaluationImplements ==
    ASSUME BenignFaults, RInv, NEW p \in Callers, Evaluation(p)
    PROVE  [Service!ServiceNext]_<<current, Seen>> /\ CallsOK'
<1>1. flagKey[p] \in PreEvaluated(cache.config) =>
        Evaluate(cache.config, flagKey[p], {}) = Evaluate(current, flagKey[p], ctx[p])
  BY HitAnswer
<1>2. CASE Load(p)
  <2>1. CASE flagKey[p] \in PreEvaluated(cache.config)
    <3>1. AnswerOf(p, Evaluate(current, flagKey[p], ctx[p])) /\ UNCHANGED current
      BY <1>1, <1>2, <2>1 DEF Load, LoadCache, AnswerOf
    <3>2. QED
      BY <3>1, AnswerImplements
  <2>2. CASE flagKey[p] \notin PreEvaluated(cache.config)
    <3>1. StutterOf(p) /\ UNCHANGED current
      BY <1>2, <2>2 DEF Load, LoadCache, StutterOf
    <3>2. QED
      BY <3>1, StutterSeen
  <2>3. QED
    BY <2>1, <2>2
<1>3. CASE Acquire(p)
  <2>1. StutterOf(p) /\ UNCHANGED current
    BY <1>3 DEF Acquire, StutterOf
  <2>2. QED
    BY <2>1, StutterSeen
<1>4. CASE CheckGeneration(p)
  <2>1. CASE /\ snap[p].generation # gen[inst[p]]
             /\ flagKey[p] \in PreEvaluated(cache.config)
    <3>1. AnswerOf(p, Evaluate(current, flagKey[p], ctx[p])) /\ UNCHANGED current
      BY <1>1, <1>4, <2>1 DEF CheckGeneration, LoadCache, AnswerOf
    <3>2. QED
      BY <3>1, AnswerImplements
  <2>2. CASE ~(/\ snap[p].generation # gen[inst[p]]
               /\ flagKey[p] \in PreEvaluated(cache.config))
    <3>1. StutterOf(p) /\ UNCHANGED current
      BY <1>4, <2>2 DEF CheckGeneration, LoadCache, StutterOf
    <3>2. QED
      BY <3>1, StutterSeen
  <2>3. QED
    BY <2>1, <2>2
<1>5. CASE EvaluateOnInstance(p)
  <2>1. CallWasm(p) = Evaluate(current, flagKey[p], ctx[p])
    BY <1>5, InstanceAnswer DEF EvaluateOnInstance
  <2>2. AnswerOf(p, Evaluate(current, flagKey[p], ctx[p])) /\ UNCHANGED current
    BY <1>5, <2>1 DEF EvaluateOnInstance, AnswerOf
  <2>3. QED
    BY <2>2, AnswerImplements
<1>6. CASE EvaluateFails(p)
  <2>1. AnswerOf(p, Failed) /\ UNCHANGED current
    BY <1>6 DEF EvaluateFails, AnswerOf
  <2>2. QED
    BY <2>1, AnswerImplements
<1>7. CASE Release(p)
  <2>1. StutterOf(p) /\ UNCHANGED current
    BY <1>7 DEF Release, StutterOf
  <2>2. QED
    BY <2>1, StutterSeen
<1>8. CASE EvaluateReturns(p)
  <2>1. /\ pc[p] = "done" /\ pc' = [pc EXCEPT ![p] = "idle"]
        /\ flagKey' = [flagKey EXCEPT ![p] = 0]
        /\ ctx' = [ctx EXCEPT ![p] = {}]
        /\ result' = [result EXCEPT ![p] = NotFound]
        /\ UNCHANGED current
    BY <1>8 DEF EvaluateReturns
  <2> USE DEF RInv, IInv, Typed, TypeOK, CallsOK
  <2>2. CallSeen(p)' = Service!Idle /\ CallSeen(p).stage = "answered"
    BY <2>1, SameConfig DEF CallSeen, Service!Idle, Service!Call
  <2>3. \A q \in Callers : q # p => CallSeen(q)' = CallSeen(q)
    BY <2>1 DEF CallSeen
  <2>4. Seen' = [Seen EXCEPT ![p] = Service!Idle]
    <3>1. \A q \in Callers :
            CallSeen(q)' = IF q = p THEN Service!Idle ELSE CallSeen(q)
      BY <2>2, <2>3
    <3>2. Seen' = [q \in Callers |-> IF q = p THEN Service!Idle ELSE CallSeen(q)]
      BY <3>1 DEF Seen
    <3>3. QED
      BY <3>2 DEF Seen
  <2>5. Service!Return(p)
    BY <2>1, <2>2, <2>4 DEF Service!Return, Seen
  <2>6. CallsOK'
    BY <2>1
  <2>7. QED
    BY <2>5, <2>6 DEF Service!ServiceNext
<1>9. QED
  BY <1>2, <1>3, <1>4, <1>5, <1>6, <1>7, <1>8 DEF Evaluation

LEMMA InvokeImplements ==
    ASSUME RInv, NEW p \in Callers, NEW f \in Flags, NEW c \in Contexts,
           EvaluateFlag(p, f, c)
    PROVE  Service!ServiceNext /\ CallsOK'
<1>1. /\ pc[p] = "idle" /\ pc' = [pc EXCEPT ![p] = "load"]
      /\ flagKey' = [flagKey EXCEPT ![p] = f]
      /\ ctx' = [ctx EXCEPT ![p] = c]
      /\ UNCHANGED <<result, current>>
  BY DEF EvaluateFlag
<1> USE DEF RInv, IInv, Typed, TypeOK, CallsOK
<1>2. CallSeen(p) = Service!Idle /\ CallSeen(p)' = Service!Pending(f, c)
  BY <1>1, SameConfig DEF CallSeen, Service!Idle, Service!Pending, Service!Call
<1>3. \A q \in Callers : q # p => CallSeen(q)' = CallSeen(q)
  BY <1>1 DEF CallSeen
<1>4. Seen' = [Seen EXCEPT ![p] = Service!Pending(f, c)]
  <2>1. \A q \in Callers :
          CallSeen(q)' = IF q = p THEN Service!Pending(f, c) ELSE CallSeen(q)
    BY <1>2, <1>3
  <2>2. Seen' = [q \in Callers |->
                   IF q = p THEN Service!Pending(f, c) ELSE CallSeen(q)]
    BY <2>1 DEF Seen
  <2>3. QED
    BY <2>2 DEF Seen
<1>5. Service!Invoke(p, f, c)
  BY <1>1, <1>2, <1>4 DEF Service!Invoke, Seen
<1>6. CallsOK'
  BY <1>1
<1>7. QED
  BY <1>5, <1>6 DEF Service!ServiceNext

\* An update changes nothing callers see except by installing at its Publish.
LEMMA UpdateImplements ==
    ASSUME RInv, NEW u \in Updaters, Update(u)
    PROVE  [Service!ServiceNext]_<<current, Seen>> /\ CallsOK'
<1>1. UNCHANGED callVars
  BY DEF Update, Lock, Drain, UpdateFirst, UpdateRest, Publish, GiveBack, Unlock,
         UpdateReturns
<1>2. UNCHANGED Seen /\ CallsOK'
  BY <1>1 DEF callVars, Seen, CallSeen, CallsOK, RInv
<1>3. CASE Publish(u) /\ outcome[u] = "success"
  <2>1. config[u] \in Configs /\ current' = config[u]
    BY <1>3 DEF Publish, RInv, IInv, Typed, OutcomeOK
  <2>2. Service!Install(config[u])
    BY <1>2, <2>1 DEF Service!Install, Seen
  <2>3. QED
    BY <1>2, <2>1, <2>2 DEF Service!ServiceNext
<1>4. CASE ~(Publish(u) /\ outcome[u] = "success")
  <2>1. UNCHANGED current
    BY <1>4 DEF Update, Lock, Drain, UpdateFirst, UpdateRest, Publish, GiveBack,
                Unlock, UpdateReturns
  <2>2. QED
    BY <1>2, <2>1
<1>5. QED
  BY <1>3, <1>4

LEMMA StepImplements ==
    ASSUME BenignFaults, RInv, [Next]_vars
    PROVE  [Service!ServiceNext]_<<current, Seen>> /\ CallsOK'
<1>1. ASSUME UNCHANGED <<callVars, current>>
      PROVE  UNCHANGED <<current, Seen>> /\ CallsOK'
  BY <1>1 DEF callVars, Seen, CallSeen, CallsOK, RInv
<1>2. ASSUME NEW u \in Updaters, NEW c \in Submitted, UpdateState(u, c)
      PROVE  UNCHANGED <<callVars, current>>
  BY <1>2 DEF UpdateState
<1>3. Close \/ CloseIdle \/ CloseRuntime \/ UNCHANGED vars
        => UNCHANGED <<callVars, current>>
  BY DEF Close, CloseIdle, CloseRuntime, vars
<1>4. QED
  BY <1>1, <1>2, <1>3, EvaluationImplements, InvokeImplements, UpdateImplements
     DEF Next

\* The Go host implements the abstract service.
THEOREM GoPoolImplementsService ==
    ASSUME BenignFaults
    PROVE  Spec => ServesOneConfiguration
<1>1. Init => RInv
  BY InvariantInit, CallsInit DEF RInv
<1>2. RInv /\ [Next]_vars => RInv'
  BY InvariantStep, StepImplements DEF RInv
<1>3. Init => Service!ServiceInit
  <2>1. Init => \A p \in Callers : CallSeen(p) = Service!Idle
    BY SameConfig DEF Init, CallSeen, Service!Idle, Service!Call
  <2>2. QED
    BY <2>1 DEF Init, Service!ServiceInit
<1>4. RInv /\ [Next]_vars => [Service!ServiceNext]_(Service!serviceVars)
  BY StepImplements DEF Service!serviceVars, Seen
<1>5. QED
  BY <1>1, <1>2, <1>3, <1>4, PTL
     DEF Spec, ServesOneConfiguration, Service!ServiceSpec

=============================================================================
