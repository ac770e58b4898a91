----------------------------- MODULE WasmMemory -----------------------------
(***************************************************************************)
(* Who owns what in the linear memory of one instance: the exports alloc,  *)
(* dealloc, update_state, evaluate, evaluate_reusable, evaluate_by_index   *)
(* and set_validation_mode (src/lib.rs, src/memory.rs), under each host.   *)
(*                                                                         *)
(* A host keeps two buffers for evaluations, allocates one block for every *)
(* configuration, and gets back one block with every result, which it has  *)
(* to free.  "direct" is a caller of evaluate, which frees the two blocks  *)
(* it is given; the hosts of this repository do not call it.  Only one     *)
(* thread at a time uses an instance (OnePlace, SingleOwner).              *)
(*                                                                         *)
(* Nothing is said of what runs after a write outside the caller's blocks  *)
(* or a bad dealloc: no action is enabled then.                            *)
(***************************************************************************)
EXTENDS Integers, FiniteSets

CONSTANTS
    MemorySize,     \* addresses 0 .. MemorySize - 1
    KeySize,        \* MAX_FLAG_KEY_SIZE, the size of the flag key buffer
    ContextSize,    \* MAX_CONTEXT_SIZE, the size of the context buffer
    ConfigLengths,  \* lengths of the configurations that are loaded
    KeyLengths,     \* lengths of the flag keys,
    ContextLengths, \* and of the contexts flags are evaluated with
    ResultLengths,  \* lengths of the JSON answers; never empty
    MaxDisposals    \* bound: calls of close or dispose

ASSUME MemoryAssumption ==
    /\ MemorySize \in Nat \ {0} /\ KeySize \in Nat \ {0} /\ ContextSize \in Nat \ {0}
    /\ ConfigLengths \cup KeyLengths \cup ContextLengths \subseteq Nat
    /\ ResultLengths \subseteq Nat \ {0}
    /\ MaxDisposals \in Nat

Hosts == {"go", "java", "dotnet", "js", "python", "direct"}

Block(ptr, len) == [ptr |-> ptr, len |-> len]
NoBlock == Block(0, 0)

VARIABLES
    host,
    heap,        \* the blocks that are allocated
    refused,     \* whether alloc has answered null for a length other than 0
    stray,       \* whether the host wrote outside the blocks it owns
    badFree,     \* whether something that is not a block was freed
    alive,       \* FALSE once a call trapped: every later call traps
    pc,
    keyBuffer, contextBuffer, config, result, modeResult,
    keyText, contextText,   \* what evaluate is called with: lengths
    disposals

callerVars == <<keyBuffer, contextBuffer, config, result, modeResult>>
textVars   == <<keyText, contextText>>
vars == <<host, heap, refused, stray, badFree, alive, pc, callerVars, textVars, disposals>>

Blocks == [ptr : 0 .. MemorySize - 1, len : Nat]

TypeOK ==
    /\ host \in Hosts
    /\ heap \subseteq Blocks
    /\ \A b \in heap : b.ptr > 0 /\ b.len > 0 /\ b.ptr + b.len <= MemorySize
    /\ \A a, b \in heap : a = b \/ a.ptr + a.len <= b.ptr \/ b.ptr + b.len <= a.ptr
    /\ {refused, stray, badFree, alive} \subseteq BOOLEAN
    /\ pc \in {"newKey", "newContext", "mode", "idle", "writeConfig", "update", "updated",
               "directContext", "write", "evaluate", "evaluated", "closed"}
    /\ {keyBuffer, contextBuffer, config, result, modeResult} \subseteq Blocks
    /\ {keyText, contextText, disposals} \subseteq Nat

Init ==
    /\ host \in Hosts
    /\ heap = {}
    /\ refused = FALSE /\ stray = FALSE /\ badFree = FALSE /\ alive = TRUE
    /\ pc = IF host = "direct" THEN "idle" ELSE "newKey"
    /\ keyBuffer = NoBlock /\ contextBuffer = NoBlock
    /\ config = NoBlock /\ result = NoBlock /\ modeResult = NoBlock
    /\ keyText = 0 /\ contextText = 0
    /\ disposals = 0

-----------------------------------------------------------------------------
(***************************************************************************)
(* src/memory.rs                                                           *)
(***************************************************************************)
At(place, then) == pc = place /\ ~stray /\ ~badFree /\ pc' = then

Fits(b) == \A a \in heap : a.ptr + a.len <= b.ptr \/ b.ptr + b.len <= a.ptr

\* Mutant of Allocations: no length is a length like any other.
MutantNoZero(len) ==
    {Block(0, len)} \cup {b \in {Block(p, len) : p \in 1 .. MemorySize - len} : Fits(b)}

\* What alloc may answer: null for no length and, at any time, for no room.
Allocations(len) ==
    {Block(0, len)} \cup
    {b \in {Block(p, len) : p \in 1 .. MemorySize - len} : len > 0 /\ Fits(b)}

\* alloc(b.len) answers b.ptr.
Alloc(b) ==
    /\ heap' = IF b.ptr = 0 THEN heap ELSE heap \cup {b}
    /\ refused' = (refused \/ (b.ptr = 0 /\ b.len > 0))

\* string_to_memory: the block of an answer, or a packed 0.
Answer(b) ==
    /\ Alloc(b)
    /\ result' = IF b.ptr = 0 THEN NoBlock ELSE b

\* dealloc for each of the blocks: null pointers and empty blocks are ignored.
Dealloc(blocks) ==
    LET freed == {b \in blocks : b.ptr # 0 /\ b.len # 0}
    IN  /\ heap' = heap \ freed
        /\ badFree' = (badFree \/ ~(freed \subseteq heap))

InMemory(ptr, len) == ptr + len <= MemorySize
Owned(ptr, len) ==
    len = 0 \/ \E b \in heap : b.ptr <= ptr /\ ptr + len <= b.ptr + b.len

-----------------------------------------------------------------------------
(***************************************************************************)
(* The constructors of the hosts; none looks at what alloc answers.        *)
(***************************************************************************)
NewKeyBuffer ==
    /\ At("newKey", "newContext")
    /\ \E b \in Allocations(KeySize) : Alloc(b) /\ keyBuffer' = b
    /\ UNCHANGED <<host, stray, badFree, alive, contextBuffer, config, result, modeResult,
                   textVars, disposals>>

NewContextBuffer ==
    /\ At("newContext", "mode")
    /\ \E b \in Allocations(ContextSize) : Alloc(b) /\ contextBuffer' = b
    /\ UNCHANGED <<host, stray, badFree, alive, keyBuffer, config, result, modeResult,
                   textVars, disposals>>

\* set_validation_mode: only the JavaScript host frees the answer, and it calls
\* the export only for the permissive mode.
SetValidationMode ==
    /\ At("mode", "idle")
    /\ IF host = "js" THEN UNCHANGED <<heap, refused, modeResult>>
       ELSE \E len \in ResultLengths : \E b \in Allocations(len) :
               Alloc(b) /\ modeResult' = b
    /\ UNCHANGED <<host, stray, badFree, alive, keyBuffer, contextBuffer, config, result,
                   textVars, disposals>>

-----------------------------------------------------------------------------
(***************************************************************************)
(* update_state                                                            *)
(***************************************************************************)
UpdateState ==
    /\ At("idle", "writeConfig")
    /\ host # "direct"
    /\ \E len \in ConfigLengths : \E b \in Allocations(len) : Alloc(b) /\ config' = b
    /\ UNCHANGED <<host, stray, badFree, alive, keyBuffer, contextBuffer, result,
                   modeResult, textVars, disposals>>

\* The JavaScript host gives up on a null pointer, every host on a write that
\* leaves the memory; the Java host frees the block then, as on any exception.
WriteConfigFails ==
    /\ At("writeConfig", "idle")
    /\ \/ host = "js" /\ config.ptr = 0
       \/ ~InMemory(config.ptr, config.len)
    /\ IF host = "java" THEN Dealloc({config}) ELSE UNCHANGED <<heap, badFree>>
    /\ config' = NoBlock
    /\ UNCHANGED <<host, refused, stray, alive, keyBuffer, contextBuffer, result,
                   modeResult, textVars, disposals>>

WriteConfig ==
    /\ At("writeConfig", "update")
    /\ host = "js" => config.ptr # 0
    /\ InMemory(config.ptr, config.len)
    /\ stray' = ~Owned(config.ptr, config.len)
    /\ UNCHANGED <<host, heap, refused, badFree, alive, callerVars, textVars, disposals>>

CallUpdateState ==
    /\ At("update", "updated")
    /\ alive
    /\ \E len \in ResultLengths : \E b \in Allocations(len) : Answer(b)
    /\ UNCHANGED <<host, stray, badFree, alive, keyBuffer, contextBuffer, config,
                   modeResult, textVars, disposals>>

\* Mutant of UpdateTraps: nobody frees the configuration.
MutantNoFinally ==
    /\ At("update", "idle")
    /\ alive' = FALSE
    /\ config' = NoBlock
    /\ UNCHANGED <<host, heap, refused, stray, badFree, keyBuffer, contextBuffer, result,
                   modeResult, textVars, disposals>>

\* The configuration is freed by defer or finally, but not in JavaScript.
UpdateTraps ==
    /\ At("update", "idle")
    /\ alive' = FALSE
    /\ IF host = "js" THEN UNCHANGED <<heap, badFree>> ELSE Dealloc({config})
    /\ config' = NoBlock
    /\ UNCHANGED <<host, refused, stray, keyBuffer, contextBuffer, result, modeResult,
                   textVars, disposals>>

\* The answer is read and both blocks are freed.  A packed 0 reads as "", which
\* is no JSON: an exception, after the same frees.
UpdateReturns ==
    /\ At("updated", "idle")
    /\ Dealloc({result, config})
    /\ config' = NoBlock /\ result' = NoBlock
    /\ UNCHANGED <<host, refused, stray, alive, keyBuffer, contextBuffer, modeResult,
                   textVars, disposals>>

-----------------------------------------------------------------------------
(***************************************************************************)
(* evaluate_reusable and evaluate_by_index, in the buffers of the host.    *)
(***************************************************************************)
\* Mutant of Accepts: the context is not compared with its buffer.
MutantKeyOnly(key, context) == host # "js" => key <= KeySize

\* The JavaScript host compares neither with the size of its buffer.
Accepts(key, context) ==
    host # "js" => key <= KeySize /\ context <= ContextSize

\* No key: evaluate_by_index.  What is too large throws.
Evaluate ==
    /\ At("idle", "write")
    /\ host # "direct"
    /\ \E key \in KeyLengths \cup {0}, context \in ContextLengths :
          Accepts(key, context) /\ keyText' = key /\ contextText' = context
    /\ UNCHANGED <<host, heap, refused, stray, badFree, alive, callerVars, disposals>>

WriteFails ==
    /\ At("write", "idle")
    /\ \/ ~InMemory(keyBuffer.ptr, keyText)
       \/ ~InMemory(contextBuffer.ptr, contextText)
    /\ stray' = (InMemory(keyBuffer.ptr, keyText) /\ ~Owned(keyBuffer.ptr, keyText))
    /\ UNCHANGED <<host, heap, refused, badFree, alive, callerVars, textVars, disposals>>

Write ==
    /\ At("write", "evaluate")
    /\ InMemory(keyBuffer.ptr, keyText) /\ InMemory(contextBuffer.ptr, contextText)
    /\ stray' = ~(/\ Owned(keyBuffer.ptr, keyText)
                  /\ Owned(contextBuffer.ptr, contextText))
    /\ UNCHANGED <<host, heap, refused, badFree, alive, callerVars, textVars, disposals>>

CallEvaluateReusable ==
    /\ At("evaluate", "evaluated")
    /\ alive /\ host # "direct"
    /\ \E len \in ResultLengths : \E b \in Allocations(len) : Answer(b)
    /\ UNCHANGED <<host, stray, badFree, alive, keyBuffer, contextBuffer, config,
                   modeResult, textVars, disposals>>

EvaluateTraps ==
    /\ At("evaluate", "idle")
    /\ host # "direct"
    /\ alive' = FALSE
    /\ keyText' = 0 /\ contextText' = 0
    /\ UNCHANGED <<host, heap, refused, stray, badFree, callerVars, disposals>>

\* Mutant of Evaluated: the caller of evaluate frees what it allocated, as
\* ARCHITECTURE.md:184 says.
MutantGuide == {result, keyBuffer, contextBuffer}

\* What the caller of the evaluating exports frees.
Evaluated == {result}

EvaluateReturns ==
    /\ At("evaluated", "idle")
    /\ Dealloc(IF host = "direct" THEN Evaluated ELSE {result})
    /\ result' = NoBlock
    /\ keyText' = 0 /\ contextText' = 0
    /\ IF host = "direct" THEN keyBuffer' = NoBlock /\ contextBuffer' = NoBlock
       ELSE UNCHANGED <<keyBuffer, contextBuffer>>
    /\ UNCHANGED <<host, refused, stray, alive, config, modeResult, disposals>>

-----------------------------------------------------------------------------
(***************************************************************************)
(* evaluate, by a caller that checks for null and allocates no empty       *)
(* context.                                                                *)
(***************************************************************************)
DirectKey ==
    /\ At("idle", "directContext")
    /\ host = "direct" /\ alive
    /\ \E len \in KeyLengths : \E b \in Allocations(len) \ {Block(0, len)} :
          Alloc(b) /\ keyBuffer' = b /\ keyText' = len
    /\ UNCHANGED <<host, stray, badFree, alive, contextBuffer, config, result, modeResult,
                   contextText, disposals>>

DirectContext ==
    /\ At("directContext", "write")
    /\ \E len \in ContextLengths : \E b \in Allocations(len) :
          /\ len = 0 \/ b.ptr # 0
          /\ Alloc(b) /\ contextBuffer' = b /\ contextText' = len
    /\ UNCHANGED <<host, stray, badFree, alive, keyBuffer, config, result, modeResult,
                   keyText, disposals>>

\* evaluate frees the blocks it was given before it allocates its answer.
CallEvaluate ==
    /\ At("evaluate", "evaluated")
    /\ alive /\ host = "direct"
    /\ \E len \in ResultLengths : \E b \in Allocations(len) :
          LET inputs == {c \in {keyBuffer, contextBuffer} : c.len > 0}
          IN  /\ heap' = (heap \ inputs) \cup (IF b.ptr = 0 THEN {} ELSE {b})
              /\ badFree' = ~(inputs \subseteq heap)
              /\ refused' = (refused \/ b.ptr = 0)
              /\ result' = IF b.ptr = 0 THEN NoBlock ELSE b
    /\ UNCHANGED <<host, stray, alive, keyBuffer, contextBuffer, config, modeResult,
                   textVars, disposals>>

-----------------------------------------------------------------------------
(***************************************************************************)
(* close and dispose                                                       *)
(***************************************************************************)
\* The pools take an instance they close out of use; the JavaScript and Python
\* hosts go on with the freed buffers when they are called again, and only the
\* Python host remembers that it was closed.
Close ==
    /\ host # "direct"
    /\ disposals < MaxDisposals
    /\ At("idle", IF host \in {"js", "python"} THEN "idle" ELSE "closed")
    /\ disposals' = disposals + 1
    /\ IF host = "python" /\ disposals > 0 THEN UNCHANGED <<heap, badFree>>
       ELSE Dealloc({keyBuffer, contextBuffer})
    /\ UNCHANGED <<host, refused, stray, alive, callerVars, textVars>>

-----------------------------------------------------------------------------
Next ==
    \/ NewKeyBuffer \/ NewContextBuffer \/ SetValidationMode
    \/ UpdateState \/ WriteConfig \/ WriteConfigFails
    \/ CallUpdateState \/ UpdateTraps \/ UpdateReturns
    \/ Evaluate \/ Write \/ WriteFails
    \/ CallEvaluateReusable \/ EvaluateTraps \/ EvaluateReturns
    \/ DirectKey \/ DirectContext \/ CallEvaluate
    \/ Close

Spec == Init /\ [][Next]_vars

-----------------------------------------------------------------------------
(***************************************************************************)
(* Properties                                                              *)
(***************************************************************************)
\* Nothing is freed twice, or with a length it was not allocated with: not on
\* any error path, and not when evaluate frees its inputs itself.  Only a
\* second dispose of the JavaScript host, which keeps no flag, does.
FreedOnce == badFree => host = "js" /\ disposals > 1

\* A host writes into blocks that are its own, unless alloc answered null, it
\* is used after close, or it is the JavaScript host with a text that is longer
\* than the buffer.
WritesOwned ==
    stray => \/ refused
             \/ disposals > 0
             \/ (host = "js" /\ (keyText > KeySize \/ contextText > ContextSize))

\* Between calls the host's buffers are all that is allocated, whatever failed:
\* calls leak nothing but the answer of set_validation_mode, once, and in the
\* JavaScript host the configuration of a call that trapped.
BlocksBalanced ==
    pc = "idle" /\ disposals = 0 /\ ~stray /\ ~badFree =>
        LET kept == {b \in {keyBuffer, contextBuffer, modeResult} : b.ptr # 0}
        IN  /\ kept \subseteq heap
            /\ (host = "js" /\ ~alive) \/ heap \subseteq kept

=============================================================================
