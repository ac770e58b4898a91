# flagd-evaluator in TLA+

A verification development for flagd-evaluator: a feature-flag evaluator written
in Rust, compiled to WebAssembly, and driven by hosts in Go, Java, .NET,
JavaScript and Python. The hosts pool WASM instances, cache what a load hands
them and skip or shorten calls into the evaluator; most of what can go wrong
is in how those caches, the instances and concurrent loads fit together.

## The system

| Component | State | Operations | Hard behaviours | Correct when |
|---|---|---|---|---|
| Rust evaluator (`src/src/evaluator.rs`) | `state`, `validation_mode`, `flag_index_map` | `update_state`, `clear_state`, `set_validation_mode`, `evaluate_*` | refused loads; two validation modes; results computed by different paths (pre-evaluated, by index, pre-enriched, by key) | every path gives the same answer; `changedFlags` misses nothing; typed answers have the type asked for |
| WASM boundary (`lib.rs`) | a thread-local evaluator in a `RefCell` | the exports `alloc`, `dealloc`, `update_state`, `evaluate`, `evaluate_reusable`, `evaluate_by_index` | a trap leaves the `RefCell` borrowed, so each later call traps; a null pointer from `alloc`; who frees what | a call never answers from the wrong state; each buffer is freed once |
| Go host (`go/evaluator.go`, `go/evaluate.go`) | pool channel, atomic cache snapshot, generation, mutex | `EvaluateFlag*`, `UpdateState`, `Close` | a snapshot loaded before the wait for an instance; a load that fails on some instances; `Close` against everything | callers see one configuration at a time; no instance is lost or shared; calls return |
| Java host (`FlagEvaluator.java`) | `ArrayBlockingQueue`, volatile snapshot, generation, lock | `evaluateFlag` (two), `updateState`, `close` | the same, and interrupts, and a context serialized before the wait | the same |
| .NET host (`FlagEvaluator.cs`) | `BlockingCollection`, volatile snapshot, lock | `EvaluateFlag`, `UpdateState`, `Dispose` | the same, and `Dispose` with timeouts | the same |
| JavaScript, Python WASM, native Python hosts | one evaluator and its caches | `updateState`, `evaluateFlag` | a refused load empties the caches, one that raises keeps them | the caches never change an answer |
| Parsing, `$ref` resolution (`feature_flag.rs`) | the `visited` set of one call | `ParsingResult::parse`, `resolve_refs` | cycles, depth limit, an evaluator used twice | refuses exactly the cyclic, dangling and too deep |
| Context-key extraction (`evaluator.rs`) | none | `extract_required_context_keys`, `walk_node_for_vars` | computed paths, `{"var": ""}`, variables in arguments of operators | the keys cover what the rule reads |
| Operators (`operators/*.rs`) | none | `fractional`, `sem_ver` | 32- and 64-bit arithmetic, prereleases, partial versions | shares in proportion, rollouts that move nobody else; a total preorder |
| Limits (`limits.rs`) | none | `check_json_depth` | quotes and escapes in strings | refuses exactly what nests too deep |
| Memory (`memory.rs`, the hosts' glue) | heap of one instance, two buffers of the host | `alloc`, `dealloc`, packed pointers | null answers, traps, unchecked writes, use after `dispose` | nothing freed twice; writes in the writer's own blocks; calls leak nothing |

Components interact through calls (a host calls the exports of an instance it
has taken from its pool) and through shared state inside a host (pool, snapshot,
generation, lock). Instances share nothing with each other: a host keeps them
alike by loading each configuration into all of them, and detects a load that
happened while a caller waited by comparing the generation of the caller's
snapshot with the one stamped on the instance.

## Modules

Levels of detail are kept apart. The pools only care *which* configuration, flag
and context fields an answer comes from; the evaluator cares how an answer is
made from a flag and the outcome of its rule; `Targeting` and the operators say
where that outcome and the context keys come from; `WasmMemory` looks at the
bytes of one instance.

| Module | Models | Reads like |
|---|---|---|
| `FlagConfig` | what one configuration tells a host and how an instance answers, as provenance (configuration, flag, fields seen) | operators only. `NotFound` stands for an unknown flag and for an instance without a configuration: callers get an error code from both |
| `WasmInstance` | one instance under `update_state` and the ways the call fails | `AfterUpdate`, `UpdateResult` |
| `FlagService` | abstract: one configuration in force, changed atomically; an evaluation takes effect at one instant between call and return | the specification both pools implement |
| `GoPool` | `evaluateFlag`, `UpdateState`, `Close` of the Go host, one action between two synchronisation points | `pool` is the channel, `cache` the `atomic.Pointer`, `updateMu`, `generation`; per caller `pc`, `snap`, `inst`; per updater `upc`, `instances`, `pending`, `outcome` |
| `JavaPool` | the Java host, the same way | `pool` the queue, `cache` the volatile field, `sent` the serialized context |
| `DotnetPool` | the .NET host, the same way, with `Dispose` | `slots` counts the iterations `Dispose` has left; the step at which a disposed collection throws is an action of its own (`TakeThrows`, `AddThrows`, `DrainThrows`, `AddAllThrows`) |
| `Evaluation` | every function of `evaluator.rs` that evaluates or computes a load's response, and the exports of `lib.rs` around them | pure operators |
| `Evaluator` | the evaluator as a state machine | one action per operation that changes state |
| `SequentialHost` | the three hosts with one evaluator; `host` says which | `HostUpdate`, `HostUpdateRefused`, `HostUpdateRaises` |
| `Targeting` | one rule from the text of its document to its context keys: depth scan, parsing, `resolve_refs`, compilation, `extract_required_context_keys` | `work` is the call stack of `resolve_refs`, `visited` its set, `becomes` the tree it rewrites |
| `Values`, `Fractional`, `SemVer` | JSON values, and the two custom operators with the widths of their integers | pure operators |
| `WasmMemory` | the allocations of one instance under each host, from its constructor to `close` or `dispose` | `host` says which; one action per export and per write |
| `MC*` | finite instances (`WasmMemory` needs none) | |
| `*Proofs` | theorems | |

`current` in the pool modules is a history variable: the configuration callers
are answered from, set where the snapshot is stored. Mutants (`Mutant...`) are
the plausible bugs each property was tested against; no specification uses one.

Correspondence worth knowing when reading against the code:

- Go's `UpdateState` treats `success:false` from the first instance as no error:
  it goes on, stamps a new generation and stores a snapshot with empty maps.
  `Publish` does that, and `GuardSound` says what remains true: the snapshot then
  describes nothing, so evaluations go by key. Java throws instead.
- Go serializes the context after the generation guard, Java before the wait for
  an instance. `sent` keeps what Java serialized.
- The parallel updates of both hosts are one action per instance, in any order.
- A trap makes an instance `Dead` for good: `with_evaluator` keeps a mutable
  borrow that the trap never releases.
- Contexts are sets of top-level fields, a `targetingKey` (absent, given or
  empty) and the flag whose `$flagd` they carry. `$flagd.timestamp` is left out.
- Rules are names; `Outcome` says what a rule gives on a context. Numbers are
  counted in halves, enough to see truncation and saturation; the rounding of
  integers beyond 2^53 to a double is not modelled.
- `DotnetPool`: `current` is `Mixed` from a failed update that left the instances
  with different configurations to the next that succeeds; `during[p]` collects what
  was in force while `p` was inside its call, so that `AnswersInForce` says
  "some time during the call" without prophecy. .NET returns the answer
  `success:false` of the first instance and ignores it of the others, like Go.
- `Targeting`: a rule is a graph of numbered nodes with children after parents, as
  a tree read in order has them; a string is the word it spells and the version it
  spells, if any. The rule engine (datalogic-rs) is left out: a rule sees what its
  variables and custom operators give it. MurmurHash3 is the parameter `Hash`.
- `WasmMemory`: nothing is said of what runs after a write outside the writer's
  blocks or a bad free, since the code behind it is then arbitrary. A packed
  answer of 0 reads as the empty text, which no host can parse.

## Runs

| Run | Shows | Instance |
|---|---|---|
| `GoPoolSafety` | types, one owner per instance, a uniform pool, a sound guard, updates that reach every instance, and refinement of `FlagService`, with traps and unreadable results | 2 instances, 2 callers, 2 updaters, 2 configurations |
| `GoPoolLiveness` | every `UpdateState` and every evaluation returns unless `Close` was called, holders return even then, instances are lost only to `Close` | 2 instances, 1 caller, 2 updaters, a first instance that may fail, `Close` at any moment; 57,840 states |
| `GoPoolRefused` (violation) | an instance that refuses the configuration is not noticed | 1 caller, 1 updater |
| `EvaluatorState` | what a load hands out agrees with evaluating; `changedFlags` is complete; typed answers | 2 flags, 9 definitions, 2 flag-set metadata, both modes, refused documents of every kind |
| `SequentialHosts` | caches of the three hosts never change an answer | the same documents |
| `JavaPoolService` | guard and refinement under clean faults | 2 instances, 2 callers, 1 updater that loads twice |
| `JavaPoolFaults` | nothing lost or shared, success means everywhere, under every fault, interrupts and `close` | 1 caller, 2 updaters |
| `JavaPoolStaleContext` (violation) | the guard does not filter the context again | 1 caller, 1 updater |
| `DotnetPool` | nothing lost or shared, a uniform pool, answers of a configuration in force, success means everywhere | 2 instances, 1 caller, 2 updaters, every fault but `refused` on an instance other than the first, `Dispose` at any moment; 4.2 million states |
| `WasmMemory` | nothing freed twice, writes in the writer's blocks, calls that leak nothing | each host, 8 bytes, allocations that fail, traps, inputs up to and above each limit, two disposals; 3.1 million states |
| `Targeting` | the depth scan, `resolve_refs` and the key walk against their definitions; shares, rollouts, precedence and ranges of the operators | the documents of `MCTargeting`; 22,323 states |
| `TargetingMissing` (violation) | `missing` and computed paths read what is not among the keys | the documents that read a context |

Bounds. `MaxGeneration` bounds the loads in progress or installed; two are
enough for a caller to hold a snapshot, an index and an instance of three
different moments (none, first, second). Two instances make a partial load, and
two updaters each holding half of the pool, possible. The pool configurations
are chosen so that every mix-up shows: a flag present in one only, so that
indices shift; a flag static in one and targeting in the other; a rule whose
fields differ. Two flag keys are enough for the evaluator because each flag is
evaluated on its own and indices only need two to be confused; the nine
definitions take every branch of `evaluate_flag_core`. `IntMax` is 8, with
values on both sides of it. Instances, callers and updaters are symmetric in
the safety runs; the liveness runs use no symmetry.

`WasmMemory` has 8 addresses: room for the two buffers of a host (1 and 2 bytes),
a configuration and an answer, and for each allocation to fail or to leave a gap;
lengths go one above each limit. The block sizes only matter by how they compare.
`Targeting` scales the limits down and keeps what they are compared with: depths up
to 5 against a limit of 2; chains of refs of 0 to 3 and cycles of 1 to 3 against a
limit of 2; 16 hashes, so that the sum of weights reaches its limit of 7 and a
weight overflows; version numbers up to 21 against a maximum of 20. The texts are
all sequences of five JSON tokens; the refs all rules of two nodes over evaluators
`a`, `b`, `c` of two nodes and `x` that does not exist; the versions all pairs over
twelve cores and seven prereleases.

Deadlock is checked except in runs with `Close`, `close` or `Dispose`, where
threads may wait for instances that never come back, as they do in the code, and
in the runs that come to an end (`Targeting`, `WasmMemory`).

Fairness (`GoPool` only). A goroutine that can run runs: weak fairness. `Acquire`,
`Drain` and `Lock` have strong fairness because a Go channel hands elements to
blocked receivers in arrival order and `sync.Mutex` in starvation mode hands the
lock to its oldest waiter, so nobody is passed over for ever. Nobody has to
call anything. `ArrayBlockingQueue` and `ReentrantLock` are used unfairly in
the Java host, and `BlockingCollection` and `lock` in .NET promise no order, so no
liveness is claimed for them. The liveness run leaves traps of evaluations out: a
caller gives its instance back on the same path whether it trapped or not, and
`GoPoolSafety` has them.

### Findings

- `GoPoolRefused`: `UpdateState` (go/evaluator.go:250) drops the result of
  every instance but the first, and says it updated "across all WASM instances".
  The .NET host does the same with a `success:false` of the others; the run
  `DotnetPool` therefore has every fault of those but `refused`.
- `JavaPoolStaleContext`: `evaluateFlag` (FlagEvaluator.java:534) looks up the
  required keys of the new snapshot and still sends the context filtered with the
  old ones: after an update from `A` to `B` between the two, without the field that
  `B` names. (After a first load the whole context is sent, and nothing
  is missing: `ContextFitsKeys` allows more than the keys ask for.)
  `JavaPoolService` therefore checks configurations that agree on the fields a
  flag reads.
- `TargetingMissing`: `walk_node_for_vars` (evaluator.rs:923) takes no key from
  `missing`, `missing_some` or a variable whose path is computed, and does not fall
  back to the full context. `KeysCoverTraceableReads` is the same property without
  those operators.

Visible in the models, though no line of the repository says otherwise:

- After a Java load that fails on some instance only, the others keep the new
  configuration under the old generation; in .NET, too (`Mixed`). The service
  properties of `JavaPool` are stated for `CleanFaults`, those of `DotnetPool`
  except calls that saw `Mixed`.
- An instance that trapped stays in its pool, and from then on no Java or .NET load
  succeeds; Go reports success unless the first instance is the dead one.
- After `Dispose` a .NET caller loses the answer it already has to the exception
  of `_pool.Add`, and an update that waits for instances loses those it drained.
- `fractional` with a key and one shorthand bucket, `["key", ["a"]]`, takes the
  branch of a single array and asks for a weight.
- `^1.2.3` is false for `2.0.0-alpha`, which precedes `2.0.0`: the `<2.0.0` of the
  comment in sem_ver.rs is not meant by precedence (`VersionRangesExact` states the
  ranges with that exception); `=` and `!=`
  are both false for a text that is no version; a numeric prerelease identifier
  above `u64::MAX` is compared as a text.
- Only the JavaScript host looks for a null pointer from `alloc`, so `WritesOwned`
  says what it can after a refusal: see the property. The JavaScript host leaks
  the configuration of a trapped update and forgets that it was disposed. The answer of
  `set_validation_mode` is freed by nobody else, once per instance.
- User fields that start with `$flagd` are never among the keys.

## Proofs

All for any finite set of instances and any callers, updaters, flags, documents,
rules and contexts, and any widths and limits.

Assumptions on the constants: `ConfigAssumption` and `ExtractionAssumption` say
that extracted keys cover what a rule reads (`KeysCoverReadsOfTraceable` proves it for
the operators of `KeysCoverTraceableReads`; `TargetingMissing` shows that it fails for
`missing`, and `ConfigurationsFitThePools` derives the first from the second for the
configurations of `Evaluation`, given finitely many fields);
`InstanceAssumption`, `PoolAssumption`, `DotnetAssumption`, `EvaluatorAssumption`,
`HashAssumption`, `NumberAssumption`, `TargetingAssumption` and `MemoryAssumption` only
say what kind of thing each constant is. `BenignFaults` (`GoPool`), `CleanFaults`
(`JavaPool`) and `NoneRefuses` (`DotnetPool`) are hypotheses of the theorems about
configurations, not of those about types and ownership: without them
`GoPoolRefused` and the partial loads listed above are counterexamples. `KeysAgree`
(what one configuration says a flag needs covers what the same flag reads in the
others) is a hypothesis of the refinement by `JavaPool` alone:
`JavaPoolStaleContext` is the counterexample without it. The refinement by
`DotnetPool` is about behaviours in which no update fails half way
(`[](current # Mixed)`): a `FlagService` has no such state.

- `FlagConfigProofs`: an index belongs to one flag (a strictly smaller set of
  smaller keys has a smaller cardinality), so evaluating by index is evaluating
  by key; filtering does not change an answer.
- `GoPoolProofs`: `IInv == Typed /\ Ownership /\ Consistent`. `TypeOK` is not
  inductive without what an updater's outcome may be (`OutcomeOK`);
  `SingleOwner` and `NoneLost` need who may hold an instance at which
  step (`HolderPhase`, `UpdaterPhase`: only the holder of the mutex has drained
  instances). `Consistent` adds what each instance holds at each step of the update
  (`InstancesOK`, `InstalledOK`) and that a snapshot of the current generation
  is the current cache (`SnapshotsOK`); `PoolUniform`, `GuardSound` and
  `UpdateReachesAll` follow. `GoPoolImplementsService`: each step of the pool is a
  stutter, a call, an answer from the configuration in force, a return, or (at
  `Publish`) an installation of `FlagService`.
- `EvaluatorProofs`: `IInv` says that state, index map and last response belong
  to one configuration (`Belongs`). With `IndexRoundTrip`, and lemmas that a
  static flag ignores its context and that a filtered context gives a rule the
  same outcome, `HandedOutAgrees` follows; `ChangedFlagsComplete` follows
  because equal flags under equal metadata evaluate alike. `TypedAnswers`
  follows for every path an answer can take, by the type each one asks for.
  The last section joins `Evaluation` to `FlagConfig` (`Pool`, an instance whose
  constants are computed from the evaluator's configurations): what hosts cache is what
  `update_state` hands out (`HandedOutIsWhatPoolsCache`), and two answers of the pools
  with the same provenance are the same result (`SameProvenanceSameAnswer`,
  `SameProvenanceByIndex`), so the answers the pool proofs compare are results of
  the evaluator. What a rule reads is there the least set of fields that
  decides its outcome, which exists because the sets that decide it are
  closed under intersection (`ReadsDecide`). Provenance leaves out `targetingKey`, which
  hosts pass on as it is: the contexts compared have the same.
- `SequentialHostProofs`: the host's steps are steps of the evaluator, and
  `CachesBelong` (its caches are empty or those of the configuration in force) is
  inductive over the three kinds of load. Were only some caches emptied, an
  index of an old configuration could be used.
- `JavaPoolProofs`: `RInv == Typed /\ Ownership /\ Reached`, under every fault.
  `OnePlace` needs who holds an instance at which step (`HolderPhase`,
  `UpdaterPhase`), `UpdateReachesAll` the instances an update is through with
  (`Reached`). Under `CleanFaults`, `Consistent` adds what the instances, the
  cache and the callers' snapshots hold, and `GuardSound` follows: while an
  update is writing to instances (`UpdaterAlone`) no caller has one.
  `JavaPoolImplementsService` adds what each caller has serialized: its whole context
  or what some configuration said its flag needs (`SentOK`), which `KeysAgree` makes
  enough (`SentIsEnough`).
- `DotnetPoolProofs`: the same skeleton proves all five properties of the run. A
  failed update needs `AbandonFacts`: it leaves a configuration in force only when
  every running instance still holds it. `AnswersInForce` needs that the
  configuration in force has been seen by every call in progress (`DuringOK`) and
  that a snapshot of the current generation describes the cache (`SnapshotsOK`):
  then a fast-path hit is the answer of `current` (`HitIsRight`), and an instance is
  only asked by someone whose snapshot describes it (`InstanceIsRight`).
  `DotnetPoolImplementsService`: a call takes effect as it gives its instance back, since
  a pool disposed meanwhile still replaces the answer by an exception, and
  until then the answer does not grow old (`AnswerHeld`), because an update needs the
  instance the caller still has. `KeysAgree` is not needed: the context is
  serialized after the guard.
- `TargetingProofs`: `IInv == TypeOK /\ DocumentOK /\ Balanced`. `Balanced` says that
  the names in `visited` are exactly those of the frames still to be left, no
  name twice: so the set is empty when the rule is resolved, whatever the
  nesting. The operators: the prefix sums of accepted weights stay
  below the total, no product leaves 64 bits, and the hashes of a bucket are an
  interval whose ends are the quotients of the cumulative weights, from which shares and
  stability follow; the comparison of versions is decided at the first
  difference, which orders lists of identifiers and then versions, and the end of a
  range is a version to compare with. The recursive functions and folds in it
  are unfolded by least counterexamples (`Least`), since induction theorems take an
  operator as parameter. `KeysCoverReadsOfTraceable` needs that the keys of a
  compiled rule are those of its resolved form (`KeysOfReady`), that the context
  a host sends and the whole one agree on every field kept once enriched (`SentKeeps`), and
  that only the first field of a path matters for what is at its end (`LookupFirst`).
  `DepthScanIsExact`: the scan is a run over the bytes of each token (`ScanFromRuns`), calm
  again after each of them (`Calm`): inside a string, its state follows which bytes are
  escaped (`StringScan`), so that only a bracket of its own changes the
  depth, and the depth is then the nesting. It is stated for texts that are a
  sequence of JSON tokens and close no more than they open (`Tokenized`): elsewhere
  there is no nesting to compare with, and serde_json refuses the text anyway.
  `ResolutionIsExact` needs `RInv`: every call is at a place the rule leads to
  (`OnTheWay`), what is above a ref on the stack belongs to its body (`Enclosed`), a
  ref that is settled stands for what its body stands for (`Targets`), a body that is
  not settled yet is being walked (`Pending`), and every place of the rule has been
  looked at or is below a call still to come (`Walked`). A name met twice on the way
  is then on a cycle, and a cycle makes chains longer than any limit (`CyclesAreLong`:
  arguments have greater numbers than their parent, so it goes through a ref).
  `Reachable` is the least closed set because it grows at each step until it stops
  (`ReachableFacts`).
- `WasmMemoryProofs`: `IInv` says which block each slot of the caller holds at each
  step (`Held`), that the slots hold different blocks of the heap and, until the
  host is disposed of, all of them (`Owns`); which host can be where (`Phases`), and
  that texts fit the blocks they are written to (`Sizes`). `BlocksBalanced` is
  `Owns` between two calls; `FreedOnce` and `WritesOwned` need it at the step that frees
  or writes. A block that alloc hands out is none of those in use (`AllocOwn`), and
  what is freed is one of them (`FreeOwn`).

Only model-checked: the liveness of `GoPool` (ENABLED and fairness are out of the
prover's reach). Every safety invariant and action property of a passing run, and the
refinements of the Go and Java pools, are theorems too; the refinement of the .NET
pool is proved and not the property of a run.

## Not modelled

- The JSON Schema validator, YAML conversion, the rule engine and MurmurHash3 are
  libraries: seen here as accepted, refused or failed, or as a parameter.
- JSON decoding and encoding in the hosts (`go/parse.go`, the Java serializers), the
  wording of messages, and the host functions for time and random bytes: data
  layout without state.
- The typed getters of the Python and .NET hosts convert answers and change no
  state. (Python's `evaluate_int` gives the default for a float where the core
  truncates.)
- `$flagd.timestamp`, and deserializing a flag beyond whether it succeeds.
- The benchmarks and examples are not part of the program.

## Plan

1. (done) `FlagConfig`, `WasmInstance`, `FlagService`, `GoPool`: safety, liveness,
   close, proofs, refinement.
2. (done) `Evaluation`, `Evaluator`, `SequentialHost`: runs and proofs.
3. (done) `JavaPool`: runs, proofs and the refinement of `FlagService`, under
   `CleanFaults` and `KeysAgree`.
4. (done) `DotnetPool`: run, proofs of every property, refinement of `FlagService`.
5. (done) `Values`, `Fractional`, `SemVer`, `Targeting`: runs, proofs of the operators,
   of the depth scan, of what the resolver makes of a rule and of the coverage of the
   required keys.
6. (done) `WasmMemory`: run and proofs of its invariants.
7. (done) The bridge from `Evaluation` to `FlagConfig`: `ConfigAssumption` derived, and
   answers with the same provenance proved equal.

## Running

    tlc -config GoPoolSafety.cfg MCGoPool        # each cfg with its MC module
    tlapm GoPoolProofs.tla                        # each module with theorems
