-------------------------- MODULE WasmMemoryProofs --------------------------
(***************************************************************************)
(* Every safety invariant of WasmMemory, for any memory, buffers, lengths  *)
(* and number of disposals: the hosts free what they allocated once, write *)
(* into their own blocks, and leak nothing, on every path.                 *)
(***************************************************************************)
EXTENDS WasmMemory, TLAPS

-----------------------------------------------------------------------------
(***************************************************************************)
(* Blocks and what holds them                                              *)
(***************************************************************************)
Slots == {"key", "context", "config", "result", "mode"}

\* Slots hold different blocks of the heap h, or null; and when all is set, every
\* block of the heap is in a slot.
Own(h, held, all) ==
    /\ \A s \in Slots : held[s].ptr # 0 => held[s] \in h
    /\ \A s, t \in Slots : s # t /\ held[s].ptr # 0 => held[s] # held[t]
    /\ all => \A b \in h : \E s \in Slots : held[s] = b

\* A buffer of the host is its own from the call of alloc to the close; a caller
\* of evaluate has its two blocks until the call.
KeyHeld ==
    IF host = "direct" THEN pc \in {"directContext", "write", "evaluate"}
    ELSE pc # "newKey" /\ disposals = 0
ContextHeld ==
    IF host = "direct" THEN pc \in {"write", "evaluate"}
    ELSE pc \notin {"newKey", "newContext"} /\ disposals = 0
ConfigHeld == pc \in {"writeConfig", "update", "updated"}
ResultHeld == pc \in {"updated", "evaluated"}

\* The block each slot of the caller holds.
Held ==
    [s \in Slots |->
        CASE s = "key"     -> IF KeyHeld THEN keyBuffer ELSE NoBlock
          [] s = "context" -> IF ContextHeld THEN contextBuffer ELSE NoBlock
          [] s = "config"  -> config
          [] s = "result"  -> result
          [] s = "mode"    -> modeResult]

\* The caller owns what it holds, and nothing else is allocated, until it is
\* closed, or a configuration leaks in a call of the JavaScript host that traps.
Owns == ~badFree => Own(heap, Held, disposals = 0 /\ (alive \/ host # "js"))

\* Which host is where, and which of its blocks it has then.
Phases ==
    /\ host = "direct" =>
          /\ pc \in {"idle", "directContext", "write", "evaluate", "evaluated"}
          /\ disposals = 0 /\ alive /\ modeResult = NoBlock
          /\ pc = "idle" => keyBuffer = NoBlock /\ contextBuffer = NoBlock
    /\ pc = "directContext" => host = "direct"
    /\ ~ConfigHeld => config = NoBlock
    /\ ~ResultHeld => result = NoBlock
    /\ pc \in {"newKey", "newContext", "mode"} => modeResult = NoBlock /\ disposals = 0
    /\ host = "js" => modeResult = NoBlock
    /\ disposals > 0 => host \in {"js", "python"} \/ pc = "closed"

\* The texts that are written fit the buffers they are written to.
Sizes ==
    /\ host # "direct" /\ KeyHeld =>
          keyBuffer.len = KeySize /\ (keyBuffer.ptr # 0 \/ refused)
    /\ host # "direct" /\ ContextHeld =>
          contextBuffer.len = ContextSize /\ (contextBuffer.ptr # 0 \/ refused)
    /\ host = "direct" /\ KeyHeld => keyBuffer.len = keyText /\ keyBuffer.ptr # 0
    /\ host = "direct" /\ ContextHeld =>
          contextBuffer.len = contextText /\ (contextBuffer.ptr # 0 \/ contextBuffer.len = 0)
    /\ config.ptr # 0 \/ config.len = 0 \/ refused
    /\ pc = "write" /\ host \notin {"js", "direct"} =>
          keyText <= KeySize /\ contextText <= ContextSize

IInv == TypeOK /\ Owns /\ Phases /\ Sizes /\ FreedOnce /\ WritesOwned

-----------------------------------------------------------------------------
(***************************************************************************)
(* alloc and dealloc                                                       *)
(***************************************************************************)

\* Blocks of the heap lie in the memory and do not overlap.
Laid(h) ==
    /\ \A b \in h : b.ptr > 0 /\ b.len > 0 /\ b.ptr + b.len <= MemorySize
    /\ \A a, b \in h : a = b \/ a.ptr + a.len <= b.ptr \/ b.ptr + b.len <= a.ptr
    /\ h \subseteq Blocks

\* The record of a block.
LEMMA BlockFields ==
    /\ \A p, n : Block(p, n).ptr = p /\ Block(p, n).len = n
    /\ NoBlock.ptr = 0 /\ NoBlock.len = 0
    /\ NoBlock \in Blocks
    /\ \A n \in Nat : Block(0, n) \in Blocks
BY MemoryAssumption DEF Block, NoBlock, Blocks

\* What alloc answers is null, or a new block beside all others.
LEMMA AllocFacts ==
    ASSUME Laid(heap), NEW len \in Nat, NEW b \in Allocations(len)
    PROVE  /\ b \in Blocks /\ b.len = len
           /\ b # Block(0, len) => b.ptr # 0
           /\ b.ptr # 0 => b \notin heap /\ b.len > 0 /\ Laid(heap \cup {b})
<1>1. CASE b = Block(0, len)
  BY <1>1, BlockFields
<1>2. CASE b # Block(0, len)
  <2>1. PICK p \in 1 .. MemorySize - len : b = Block(p, len) /\ len > 0 /\ Fits(b)
    BY <1>2 DEF Allocations
  <2>2. b.ptr = p /\ b.len = len /\ p \in 0 .. MemorySize - 1 /\ p + len <= MemorySize
    BY <2>1, BlockFields, MemoryAssumption
  <2>3. b \in Blocks
    BY <2>1, <2>2 DEF Block, Blocks
  <2>4. \A a \in heap : a.ptr \in Int /\ a.len \in Int
    BY DEF Laid, Blocks
  <2>5. b \notin heap
    BY <2>1, <2>2, <2>4 DEF Fits
  <2>6. Laid(heap \cup {b})
    BY <2>1, <2>2, <2>3 DEF Fits, Laid
  <2> QED
    BY <2>1, <2>2, <2>3, <2>5, <2>6
<1> QED
  BY <1>1, <1>2

\* A null pointer for a length other than 0 is remembered.
LEMMA AllocRefuses ==
    ASSUME NEW b, b.len \in Nat, Alloc(b)
    PROVE  /\ refused => refused'
           /\ b.ptr # 0 \/ b.len = 0 \/ refused'
           /\ refused \in BOOLEAN => refused' \in BOOLEAN
<1> DEFINE null == b.ptr = 0 /\ b.len > 0
<1>1. refused' = (refused \/ null)
  BY DEF Alloc
<1>2. null <=> ~(b.ptr # 0 \/ b.len = 0)
  OBVIOUS
<1> HIDE DEF null
<1> QED
  BY <1>1, <1>2, Zenon

\* A slot that holds nothing takes what alloc answers.
LEMMA AllocOwn ==
    ASSUME NEW h, NEW h2, NEW m, NEW m2, NEW all, Own(h, m, all),
           \A x \in h : x.ptr > 0, NEW s \in Slots, m[s].ptr = 0, NEW b,
           b.ptr # 0 => b \notin h,
           h2 = IF b.ptr = 0 THEN h ELSE h \cup {b},
           \A t \in Slots : m2[t] = IF t = s THEN b ELSE m[t]
    PROVE  Own(h2, m2, all)
<1>1. \A t \in Slots : m2[t].ptr # 0 => m2[t] \in h2
  BY DEF Own
<1>2. \A t, u \in Slots : t # u /\ m2[t].ptr # 0 => m2[t] # m2[u]
  BY DEF Own
<1>3. all => \A x \in h2 : \E t \in Slots : m2[t] = x
  <2> SUFFICES ASSUME all, NEW x \in h2 PROVE \E t \in Slots : m2[t] = x
    OBVIOUS
  <2>1. CASE x \in h
    <3>1. PICK t \in Slots : m[t] = x
      BY <2>1 DEF Own
    <3>2. t # s
      BY <2>1, <3>1
    <3> QED
      BY <3>1, <3>2
  <2>2. CASE x \notin h
    BY <2>2
  <2> QED
    BY <2>1, <2>2
<1> QED
  BY <1>1, <1>2, <1>3 DEF Own

\* The slots of S when they are freed, and the blocks that this frees.
Emptied(m, S) == [t \in Slots |-> IF t \in S THEN NoBlock ELSE m[t]]
Spent(m, S) == {b \in {m[s] : s \in S} : b.ptr # 0 /\ b.len # 0}

\* Slots that are freed held blocks of the heap, and nobody else's.
LEMMA FreeOwn ==
    ASSUME NEW h, Laid(h), NEW m, NEW all, Own(h, m, all), NEW S \in SUBSET Slots
    PROVE  /\ Spent(m, S) \subseteq h /\ Laid(h \ Spent(m, S))
           /\ Own(h \ Spent(m, S), Emptied(m, S), all)
<1> DEFINE freed == Spent(m, S)
           m2 == Emptied(m, S)
<1> USE DEF Spent, Emptied
<1>1. freed \subseteq h
  BY DEF Own
<1>2. \A b \in h : b.ptr # 0 /\ b.len # 0
  BY DEF Laid
<1>3. \A b \in h \ freed : b \in h /\ \A s \in S : b # m[s]
  BY <1>2
<1>4. \A t \in Slots : m2[t].ptr # 0 => t \notin S /\ m2[t] = m[t]
  BY BlockFields
<1>5. \A t \in Slots : m2[t].ptr # 0 => m2[t] \in h \ freed
  <2> SUFFICES ASSUME NEW t \in Slots, m2[t].ptr # 0 PROVE m2[t] \in h \ freed
    OBVIOUS
  <2>1. t \notin S /\ m2[t] = m[t] /\ m[t] \in h
    BY <1>4 DEF Own
  <2>2. \A s \in S : m[t] # m[s]
    BY <2>1 DEF Own
  <2> QED
    BY <2>1, <2>2
<1>6. \A t, u \in Slots : t # u /\ m2[t].ptr # 0 => m2[t] # m2[u]
  BY <1>4, BlockFields DEF Own
<1>7. all => \A b \in h \ freed : \E t \in Slots : m2[t] = b
  BY <1>3 DEF Own
<1>8. Laid(h \ freed)
  BY DEF Laid
<1> QED
  BY <1>1, <1>5, <1>6, <1>7, <1>8 DEF Own

-----------------------------------------------------------------------------
(***************************************************************************)
(* The inductive invariant                                                 *)
(***************************************************************************)

\* What the slots hold, one by one.
HeldIs ==
    /\ Held["key"] = IF KeyHeld THEN keyBuffer ELSE NoBlock
    /\ Held["context"] = IF ContextHeld THEN contextBuffer ELSE NoBlock
    /\ Held["config"] = config
    /\ Held["result"] = result
    /\ Held["mode"] = modeResult

LEMMA HeldEquations == HeldIs
BY DEF HeldIs, Held, Slots

LEMMA HeldEquationsNext == HeldIs'
BY DEF HeldIs, Held, Slots

\* The invariant holds before anything is allocated.
LEMMA InitInvariant == Init => IInv
<1> SUFFICES ASSUME Init PROVE IInv
  OBVIOUS
<1>1. TypeOK
  <2>1. {refused, stray, badFree, alive} \subseteq BOOLEAN
    BY DEF Init
  <2>2. host \in Hosts /\ heap = {} /\ pc \in {"idle", "newKey"}
    BY DEF Init
  <2>3. /\ {keyBuffer, contextBuffer, config, result, modeResult} \subseteq Blocks
        /\ {keyText, contextText, disposals} \subseteq Nat
    BY BlockFields DEF Init
  <2> QED
    BY <2>1, <2>2, <2>3 DEF TypeOK
<1>2. Phases /\ Sizes
  BY BlockFields DEF Init, Phases, Sizes, KeyHeld, ContextHeld, ConfigHeld, ResultHeld
<1>3. \A s \in Slots : Held[s] = NoBlock
  BY HeldEquations DEF HeldIs, Init, Slots, KeyHeld, ContextHeld
<1>4. Owns
  BY <1>3, BlockFields DEF Init, Owns, Own
<1>5. FreedOnce /\ WritesOwned
  BY DEF Init, FreedOnce, WritesOwned
<1> QED
  BY <1>1, <1>2, <1>4, <1>5 DEF IInv

\* A slot the caller allocates into.
LEMMA AllocKeeps ==
    ASSUME IInv, ~badFree, badFree' = badFree,
           NEW len \in Nat, NEW b \in Allocations(len), NEW s \in Slots,
           heap' = IF b.ptr = 0 THEN heap ELSE heap \cup {b},
           Held[s].ptr = 0, \A t \in Slots : Held'[t] = IF t = s THEN b ELSE Held[t],
           UNCHANGED <<host, alive, disposals>>
    PROVE  Owns' /\ Laid(heap')
<1>1. Laid(heap) /\ Own(heap, Held, disposals = 0 /\ (alive \/ host # "js"))
  BY DEF IInv, TypeOK, Laid, Owns
<1>2. b.ptr # 0 => b \notin heap /\ Laid(heap \cup {b})
  BY <1>1, AllocFacts
<1>3. \A x \in heap : x.ptr > 0
  BY <1>1 DEF Laid
<1>4. Own(heap', Held', disposals = 0 /\ (alive \/ host # "js"))
  BY <1>1, <1>2, <1>3, AllocOwn
<1> QED
  BY <1>1, <1>2, <1>4 DEF Owns

\* The slot of the answer: a packed 0 stands for no block, whatever the length.
LEMMA AnswerKeeps ==
    ASSUME IInv, ~badFree, badFree' = badFree,
           NEW len \in Nat, NEW b \in Allocations(len),
           Alloc(b), result' = IF b.ptr = 0 THEN NoBlock ELSE b,
           Held["result"].ptr = 0,
           \A t \in Slots : Held'[t] = IF t = "result" THEN result' ELSE Held[t],
           UNCHANGED <<host, alive, disposals>>
    PROVE  Owns' /\ Laid(heap')
<1>1. Laid(heap) /\ Own(heap, Held, disposals = 0 /\ (alive \/ host # "js"))
  BY DEF IInv, TypeOK, Laid, Owns
<1>2. b.ptr # 0 => b \notin heap /\ Laid(heap \cup {b})
  BY <1>1, AllocFacts
<1>3. /\ heap' = IF result'.ptr = 0 THEN heap ELSE heap \cup {result'}
      /\ result'.ptr # 0 => result' = b
  BY BlockFields DEF Alloc
<1>4. (\A x \in heap : x.ptr > 0) /\ "result" \in Slots
  BY <1>1 DEF Laid, Slots
<1>5. Own(heap', Held', disposals = 0 /\ (alive \/ host # "js"))
  BY <1>1, <1>2, <1>3, <1>4, AllocOwn
<1>6. Laid(heap')
  BY <1>1, <1>2, <1>3
<1> QED
  BY <1>5, <1>6 DEF Owns

\* Slots the caller frees.
LEMMA DeallocKeeps ==
    ASSUME IInv, ~badFree, NEW S \in SUBSET Slots, NEW blocks, blocks = {Held[s] : s \in S},
           Dealloc(blocks),
           \A t \in Slots : Held'[t] = IF t \in S THEN NoBlock ELSE Held[t],
           (disposals = 0 /\ (alive \/ host # "js"))'
              => (disposals = 0 /\ (alive \/ host # "js"))
    PROVE  Owns' /\ Laid(heap') /\ ~badFree'
<1> DEFINE all == disposals = 0 /\ (alive \/ host # "js")
<1>1. Laid(heap) /\ Own(heap, Held, all)
  BY DEF IInv, TypeOK, Laid, Owns
<1> DEFINE freed == Spent(Held, S)
<1>2. ~badFree' /\ Laid(heap') /\ Own(heap', Held', all)
  <2>1. /\ freed \subseteq heap /\ Laid(heap \ freed)
        /\ Own(heap \ freed, Emptied(Held, S), all)
    <3> HIDE DEF all
    <3> QED
      BY <1>1, FreeOwn
  <2>2. heap' = heap \ freed /\ badFree' = (badFree \/ ~(freed \subseteq heap))
    BY DEF Dealloc, Spent
  <2>3. \A t \in Slots : Held'[t] = Emptied(Held, S)[t]
    BY DEF Emptied
  <2>4. Own(heap \ freed, Held', all)
    BY <2>1, <2>3 DEF Own
  <2> QED
    BY <2>1, <2>2, <2>4
<1>3. Own(heap', Held', all')
  BY <1>2 DEF Own
<1> QED
  BY <1>2, <1>3 DEF Owns

\* Slots that change neither in what they hold nor the heap.
LEMMA NothingMoves ==
    ASSUME IInv, ~badFree, UNCHANGED <<heap, host>>,
           \A t \in Slots : Held'[t] = Held[t],
           (disposals = 0 /\ (alive \/ host # "js"))'
              => (disposals = 0 /\ (alive \/ host # "js"))
    PROVE  Owns' /\ Laid(heap')
<1> DEFINE all == disposals = 0 /\ (alive \/ host # "js")
<1>1. Laid(heap) /\ Own(heap, Held, all)
  BY DEF IInv, TypeOK, Laid, Owns
<1>2. Own(heap', Held', all')
  BY <1>1 DEF Own
<1> QED
  BY <1>1, <1>2 DEF Owns, Laid

\* The constructors.
LEMMA ConstructorsKeep ==
    ASSUME IInv, NewKeyBuffer \/ NewContextBuffer \/ SetValidationMode
    PROVE  IInv'
<1> USE MemoryAssumption
<1>1. CASE NewKeyBuffer
  <2>1. /\ pc = "newKey" /\ pc' = "newContext" /\ ~badFree /\ ~stray
        /\ UNCHANGED <<host, stray, badFree, alive, contextBuffer, config, result, modeResult,
                       keyText, contextText, disposals>>
    BY <1>1 DEF NewKeyBuffer, At, textVars
  <2>2. PICK b \in Allocations(KeySize) : Alloc(b) /\ keyBuffer' = b
    BY <1>1 DEF NewKeyBuffer
  <2>3. host # "direct" /\ disposals = 0
    BY <2>1 DEF IInv, Phases
  <2>4. b \in Blocks /\ b.len = KeySize
    BY AllocFacts DEF IInv, TypeOK, Laid
  <2>5. Held["key"].ptr = 0 /\ \A t \in Slots : Held'[t] = IF t = "key" THEN b ELSE Held[t]
    BY <2>1, <2>2, <2>3, HeldEquations, HeldEquationsNext, BlockFields
       DEF HeldIs, Slots, KeyHeld, ContextHeld
  <2>6. Owns' /\ Laid(heap')
    BY <2>1, <2>2, <2>5, AllocKeeps DEF Alloc, Slots
  <2>7. TypeOK'
    BY <2>1, <2>2, <2>4, <2>6 DEF IInv, TypeOK, Laid, Alloc
  <2>8. Phases' /\ Sizes'
    <3>1. (refused => refused') /\ (b.ptr # 0 \/ refused')
      BY <2>2, <2>4, AllocRefuses
    <3>2. Phases'
      BY <2>1, <2>3 DEF IInv, Phases, ConfigHeld, ResultHeld
    <3>3. Sizes'
      BY <2>1, <2>2, <2>3, <2>4, <3>1 DEF IInv, Sizes, KeyHeld, ContextHeld
    <3> QED
      BY <3>2, <3>3
  <2>9. FreedOnce' /\ WritesOwned'
    BY <2>1 DEF FreedOnce, WritesOwned
  <2> QED
    BY <2>6, <2>7, <2>8, <2>9 DEF IInv
<1>2. CASE NewContextBuffer
  <2>1. /\ pc = "newContext" /\ pc' = "mode" /\ ~badFree /\ ~stray
        /\ UNCHANGED <<host, stray, badFree, alive, keyBuffer, config, result, modeResult,
                       keyText, contextText, disposals>>
    BY <1>2 DEF NewContextBuffer, At, textVars
  <2>2. PICK b \in Allocations(ContextSize) : Alloc(b) /\ contextBuffer' = b
    BY <1>2 DEF NewContextBuffer
  <2>3. host # "direct" /\ disposals = 0
    BY <2>1 DEF IInv, Phases
  <2>4. b \in Blocks /\ b.len = ContextSize
    BY AllocFacts DEF IInv, TypeOK, Laid
  <2>5. /\ Held["context"].ptr = 0
        /\ \A t \in Slots : Held'[t] = IF t = "context" THEN b ELSE Held[t]
    BY <2>1, <2>2, <2>3, HeldEquations, HeldEquationsNext, BlockFields
       DEF HeldIs, Slots, KeyHeld, ContextHeld
  <2>6. Owns' /\ Laid(heap')
    BY <2>1, <2>2, <2>5, AllocKeeps DEF Alloc, Slots
  <2>7. TypeOK'
    BY <2>1, <2>2, <2>4, <2>6 DEF IInv, TypeOK, Laid, Alloc
  <2>8. Phases' /\ Sizes'
    <3>1. (refused => refused') /\ (b.ptr # 0 \/ refused')
      BY <2>2, <2>4, AllocRefuses
    <3>2. Phases'
      BY <2>1, <2>3 DEF IInv, Phases, ConfigHeld, ResultHeld
    <3>3. Sizes'
      BY <2>1, <2>2, <2>3, <2>4, <3>1 DEF IInv, Sizes, KeyHeld, ContextHeld
    <3> QED
      BY <3>2, <3>3
  <2>9. FreedOnce' /\ WritesOwned'
    BY <2>1 DEF FreedOnce, WritesOwned
  <2> QED
    BY <2>6, <2>7, <2>8, <2>9 DEF IInv
<1>3. CASE SetValidationMode
  <2>1. /\ pc = "mode" /\ pc' = "idle" /\ ~badFree /\ ~stray
        /\ UNCHANGED <<host, stray, badFree, alive, keyBuffer, contextBuffer, config, result,
                       keyText, contextText, disposals>>
    BY <1>3 DEF SetValidationMode, At, textVars
  <2>2. host # "direct" /\ disposals = 0 /\ modeResult = NoBlock
    BY <2>1 DEF IInv, Phases
  <2>3. CASE host = "js"
    <3>1. UNCHANGED <<heap, refused, modeResult>>
      BY <1>3, <2>3 DEF SetValidationMode
    <3>2. \A t \in Slots : Held'[t] = Held[t]
      BY <2>1, <2>2, <3>1, HeldEquations, HeldEquationsNext
         DEF HeldIs, Slots, KeyHeld, ContextHeld
    <3>3. Owns' /\ Laid(heap')
      BY <2>1, <3>1, <3>2, NothingMoves
    <3>4. TypeOK'
      BY <2>1, <3>1 DEF IInv, TypeOK
    <3>5. Phases' /\ Sizes'
      BY <2>1, <2>2, <3>1
         DEF IInv, Phases, Sizes, KeyHeld, ContextHeld, ConfigHeld, ResultHeld
    <3> QED
      BY <2>1, <3>3, <3>4, <3>5 DEF IInv, FreedOnce, WritesOwned
  <2>4. CASE host # "js"
    <3>0. PICK len \in ResultLengths :
             \E b \in Allocations(len) : Alloc(b) /\ modeResult' = b
      BY <1>3, <2>4 DEF SetValidationMode
    <3>1. PICK b \in Allocations(len) : Alloc(b) /\ modeResult' = b
      BY <3>0
    <3>2. b \in Blocks
      BY <3>1, AllocFacts DEF IInv, TypeOK, Laid
    <3>3. /\ Held["mode"].ptr = 0
          /\ \A t \in Slots : Held'[t] = IF t = "mode" THEN b ELSE Held[t]
      BY <2>1, <2>2, <3>1, HeldEquations, HeldEquationsNext, BlockFields
         DEF HeldIs, Slots, KeyHeld, ContextHeld
    <3>4. Owns' /\ Laid(heap')
      BY <2>1, <3>1, <3>3, AllocKeeps DEF Alloc, Slots
    <3>5. TypeOK'
      BY <2>1, <3>1, <3>2, <3>4 DEF IInv, TypeOK, Laid, Alloc
    <3>6. Phases' /\ Sizes'
      BY <2>1, <2>2, <2>4, <3>1
         DEF IInv, Phases, Sizes, Alloc, KeyHeld, ContextHeld, ConfigHeld, ResultHeld
    <3> QED
      BY <2>1, <3>4, <3>5, <3>6 DEF IInv, FreedOnce, WritesOwned
  <2> QED
    BY <2>3, <2>4
<1> QED
  BY <1>1, <1>2, <1>3

\* Loading a configuration.
LEMMA LoadsKeep ==
    ASSUME IInv, UpdateState \/ WriteConfigFails \/ WriteConfig \/ CallUpdateState
                     \/ UpdateTraps \/ UpdateReturns
    PROVE  IInv'
<1> USE MemoryAssumption
<1>1. CASE UpdateState
  <2>1. /\ pc = "idle" /\ pc' = "writeConfig" /\ ~badFree /\ ~stray /\ host # "direct"
        /\ UNCHANGED <<host, stray, badFree, alive, keyBuffer, contextBuffer, result,
                       modeResult, keyText, contextText, disposals>>
    BY <1>1 DEF UpdateState, At, textVars
  <2>2. PICK len \in ConfigLengths : \E b \in Allocations(len) : Alloc(b) /\ config' = b
    BY <1>1 DEF UpdateState
  <2>3. PICK b \in Allocations(len) : Alloc(b) /\ config' = b
    BY <2>2
  <2>4. b \in Blocks /\ b.len \in Nat
    BY AllocFacts DEF IInv, TypeOK, Laid
  <2>5. /\ Held["config"].ptr = 0
        /\ \A t \in Slots : Held'[t] = IF t = "config" THEN b ELSE Held[t]
    BY <2>1, <2>3, HeldEquations, HeldEquationsNext, BlockFields
       DEF HeldIs, Slots, KeyHeld, ContextHeld, ConfigHeld, IInv, Phases
  <2>6. Owns' /\ Laid(heap')
    BY <2>1, <2>3, <2>5, AllocKeeps DEF Alloc, Slots
  <2>7. (refused => refused') /\ (b.ptr # 0 \/ b.len = 0 \/ refused')
        /\ refused' \in BOOLEAN
    BY <2>3, <2>4, AllocRefuses DEF IInv, TypeOK
  <2>8. TypeOK'
    BY <2>1, <2>3, <2>4, <2>6, <2>7 DEF IInv, TypeOK, Laid
  <2>9. Phases'
    BY <2>1 DEF IInv, Phases, ConfigHeld, ResultHeld
  <2>10. Sizes'
    BY <2>1, <2>3, <2>7 DEF IInv, Sizes, KeyHeld, ContextHeld
  <2> QED
    BY <2>1, <2>6, <2>8, <2>9, <2>10 DEF IInv, FreedOnce, WritesOwned
<1>2. CASE WriteConfigFails
  <2>1. /\ pc = "writeConfig" /\ pc' = "idle" /\ ~badFree /\ ~stray
        /\ (host = "js" /\ config.ptr = 0) \/ ~InMemory(config.ptr, config.len)
        /\ IF host = "java" THEN Dealloc({config}) ELSE UNCHANGED <<heap, badFree>>
        /\ config' = NoBlock
        /\ UNCHANGED <<host, refused, stray, alive, keyBuffer, contextBuffer, result,
                       modeResult, keyText, contextText, disposals>>
    BY <1>2 DEF WriteConfigFails, At, textVars
  <2>2. host # "direct"
    BY <2>1 DEF IInv, Phases
  <2>3. config.ptr = 0
    <3>1. Own(heap, Held, disposals = 0 /\ (alive \/ host # "js")) /\ Held["config"] = config
      BY <2>1, HeldEquations DEF IInv, Owns, HeldIs
    <3>2. config.ptr # 0 => config \in heap
      BY <3>1 DEF Own, Slots
    <3> QED
      BY <2>1, <3>2 DEF IInv, TypeOK, InMemory
  <2>4. heap' = heap /\ badFree' = badFree
    <3>1. Dealloc({config}) => heap' = heap /\ badFree' = badFree
      <4>1. {b \in {config} : b.ptr # 0 /\ b.len # 0} = {}
        BY <2>3
      <4>2. Dealloc({config}) =>
              heap' = heap \ {} /\ badFree' = (badFree \/ ~({} \subseteq heap))
        BY <4>1, Zenon DEF Dealloc
      <4>3. badFree = FALSE /\ {} \subseteq heap /\ heap \ {} = heap
        BY <2>1 DEF IInv, TypeOK
      <4> QED
        BY <4>2, <4>3
    <3> QED
      BY <2>1, <3>1
  <2>5. Laid(heap') /\ Owns'
    <3>1. Laid(heap) /\ Own(heap, Held, disposals = 0 /\ (alive \/ host # "js"))
      BY <2>1 DEF IInv, TypeOK, Laid, Owns
    <3>2. \A t \in Slots : Held'[t] = IF t = "config" THEN NoBlock ELSE Held[t]
      BY <2>1, HeldEquations, HeldEquationsNext
         DEF HeldIs, Slots, KeyHeld, ContextHeld
    <3>3. Held["config"].ptr = 0 /\ NoBlock.ptr = 0 /\ "config" \in Slots
      BY <2>3, BlockFields, HeldEquations DEF HeldIs, Slots
    <3>4. heap' = IF NoBlock.ptr = 0 THEN heap ELSE heap \cup {NoBlock}
      BY <2>4, <3>3
    <3>5. \A x \in heap : x.ptr > 0
      BY <3>1 DEF Laid
    <3>6. Own(heap', Held', disposals = 0 /\ (alive \/ host # "js"))
      BY <3>1, <3>2, <3>3, <3>4, <3>5, AllocOwn
    <3> QED
      BY <2>1, <2>4, <3>1, <3>6 DEF Owns, Laid
  <2>6. TypeOK'
    BY <2>1, <2>4, BlockFields DEF IInv, TypeOK
  <2>7. Phases'
    BY <2>1, <2>2 DEF IInv, Phases, ConfigHeld, ResultHeld
  <2>8. Sizes'
    BY <2>1, <2>2, BlockFields DEF IInv, Sizes, KeyHeld, ContextHeld
  <2> QED
    BY <2>1, <2>4, <2>5, <2>6, <2>7, <2>8 DEF IInv, FreedOnce, WritesOwned
<1>3. CASE WriteConfig
  <2>1. /\ pc = "writeConfig" /\ pc' = "update" /\ ~badFree /\ ~stray
        /\ stray' = ~Owned(config.ptr, config.len)
        /\ UNCHANGED <<host, heap, refused, badFree, alive, keyBuffer, contextBuffer, config,
                       result, modeResult, keyText, contextText, disposals>>
    BY <1>3 DEF WriteConfig, At, textVars, callerVars
  <2>2. \A t \in Slots : Held'[t] = Held[t]
    BY <2>1, HeldEquations, HeldEquationsNext DEF HeldIs, Slots, KeyHeld, ContextHeld, IInv, Phases
  <2>3. Owns' /\ Laid(heap')
    BY <2>1, <2>2, NothingMoves
  <2>4. TypeOK'
    BY <2>1 DEF IInv, TypeOK
  <2>5. Phases' /\ Sizes'
    BY <2>1 DEF IInv, Phases, Sizes, KeyHeld, ContextHeld, ConfigHeld, ResultHeld
  <2>6. stray' => refused
    <3>1. config.ptr # 0 => config \in heap
      BY <2>1, HeldEquations DEF IInv, Owns, Own, HeldIs, Slots
    <3>2. config.ptr \in Int /\ config.len \in Nat
      BY DEF IInv, TypeOK, Blocks
    <3>3. config.len = 0 \/ config.ptr # 0 => Owned(config.ptr, config.len)
      BY <3>1, <3>2 DEF Owned
    <3> QED
      BY <2>1, <3>3 DEF IInv, Sizes
  <2> QED
    BY <2>1, <2>3, <2>4, <2>5, <2>6 DEF IInv, FreedOnce, WritesOwned
<1>4. CASE CallUpdateState
  <2>1. /\ pc = "update" /\ pc' = "updated" /\ ~badFree /\ ~stray
        /\ UNCHANGED <<host, stray, badFree, alive, keyBuffer, contextBuffer, config,
                       modeResult, keyText, contextText, disposals>>
    BY <1>4 DEF CallUpdateState, At, textVars
  <2>2. PICK len \in ResultLengths : \E b \in Allocations(len) : Answer(b)
    BY <1>4 DEF CallUpdateState
  <2>3. PICK b \in Allocations(len) : Answer(b)
    BY <2>2
  <2>4. /\ Alloc(b) /\ result' \in Blocks /\ b.len \in Nat
        /\ result' = IF b.ptr = 0 THEN NoBlock ELSE b
    BY <2>3, BlockFields, AllocFacts DEF IInv, TypeOK, Laid, Answer
  <2>5. /\ Held["result"].ptr = 0
        /\ \A t \in Slots : Held'[t] = IF t = "result" THEN result' ELSE Held[t]
    BY <2>1, HeldEquations, HeldEquationsNext, BlockFields
       DEF HeldIs, Slots, KeyHeld, ContextHeld, ResultHeld, IInv, Phases
  <2>6. Owns' /\ Laid(heap')
    BY <2>1, <2>4, <2>5, AnswerKeeps
  <2>7. (refused => refused') /\ refused' \in BOOLEAN
    BY <2>4, AllocRefuses DEF IInv, TypeOK
  <2>8. TypeOK'
    BY <2>1, <2>4, <2>6, <2>7 DEF IInv, TypeOK, Laid
  <2>9. Phases'
    BY <2>1 DEF IInv, Phases, ConfigHeld, ResultHeld
  <2>10. Sizes'
    BY <2>1, <2>7 DEF IInv, Phases, Sizes, KeyHeld, ContextHeld
  <2> QED
    BY <2>1, <2>6, <2>8, <2>9, <2>10 DEF IInv, FreedOnce, WritesOwned
<1>5. CASE UpdateTraps
  <2>1. /\ pc = "update" /\ pc' = "idle" /\ ~badFree /\ ~stray
        /\ alive' = FALSE
        /\ IF host = "js" THEN UNCHANGED <<heap, badFree>> ELSE Dealloc({config})
        /\ config' = NoBlock
        /\ UNCHANGED <<host, refused, stray, keyBuffer, contextBuffer, result, modeResult,
                       keyText, contextText, disposals>>
    BY <1>5 DEF UpdateTraps, At, textVars
  <2>2. host # "direct"
    BY <2>1 DEF IInv, Phases
  <2>3. \A t \in Slots : Held'[t] = IF t \in {"config"} THEN NoBlock ELSE Held[t]
    BY <2>1, <2>2, HeldEquations, HeldEquationsNext DEF HeldIs, Slots, KeyHeld, ContextHeld
  <2>4. Owns' /\ Laid(heap') /\ ~badFree'
    <3>1. CASE host = "js"
      <4>1. Laid(heap) /\ Own(heap, Held, FALSE)
        BY <2>1 DEF IInv, TypeOK, Laid, Owns, Own
      <4>2. Own(heap', Held', FALSE)
        BY <2>1, <2>3, <3>1, <4>1, BlockFields DEF Own
      <4> QED
        BY <2>1, <3>1, <4>1, <4>2 DEF Owns, Own, Laid
    <3>2. CASE host # "js"
      <4>1. {config} = {Held[s] : s \in {"config"}} /\ {"config"} \in SUBSET Slots
        BY HeldEquations DEF HeldIs, Slots
      <4> QED
        BY <2>1, <2>3, <3>2, <4>1, DeallocKeeps
    <3> QED
      BY <3>1, <3>2
  <2>5. TypeOK'
    <3>1. ~badFree' /\ badFree' \in BOOLEAN
      BY <2>1, <2>4 DEF Dealloc, IInv, TypeOK
    <3>2. TypeOK /\ Laid(heap')
      BY <2>1, <2>4 DEF IInv
    <3>3. /\ heap' \subseteq Blocks
          /\ \A b \in heap' : b.ptr > 0 /\ b.len > 0 /\ b.ptr + b.len <= MemorySize
          /\ \A a, b \in heap' : a = b \/ a.ptr + a.len <= b.ptr \/ b.ptr + b.len <= a.ptr
      BY <3>2 DEF Laid
    <3>4. /\ UNCHANGED <<host, refused, stray, keyBuffer, contextBuffer, result, modeResult,
                         keyText, contextText, disposals>>
          /\ config' = NoBlock /\ alive' = FALSE /\ pc' = "idle"
      BY <2>1
    <3>5. {refused', stray', badFree', alive'} \subseteq BOOLEAN
      BY ONLY <3>1, <3>2, <3>4, Zenon DEF TypeOK
    <3>6. /\ {keyBuffer', contextBuffer', config', result', modeResult'} \subseteq Blocks
          /\ {keyText', contextText', disposals'} \subseteq Nat
          /\ host' \in Hosts
      BY ONLY <3>2, <3>4, BlockFields DEF TypeOK
    <3> QED
      BY ONLY <3>3, <3>4, <3>5, <3>6 DEF TypeOK
  <2>6. Phases'
    BY <2>1, <2>2 DEF IInv, Phases, ConfigHeld, ResultHeld
  <2>7. Sizes'
    BY <2>1, <2>2, BlockFields DEF IInv, Sizes, KeyHeld, ContextHeld
  <2> QED
    BY <2>1, <2>4, <2>5, <2>6, <2>7 DEF IInv, FreedOnce, WritesOwned
<1>6. CASE UpdateReturns
  <2>1. /\ pc = "updated" /\ pc' = "idle" /\ ~badFree /\ ~stray
        /\ Dealloc({result, config})
        /\ config' = NoBlock /\ result' = NoBlock
        /\ UNCHANGED <<host, refused, stray, alive, keyBuffer, contextBuffer, modeResult,
                       keyText, contextText, disposals>>
    BY <1>6 DEF UpdateReturns, At, textVars
  <2>2. host # "direct"
    BY <2>1 DEF IInv, Phases
  <2>3. \A t \in Slots : Held'[t] = IF t \in {"result", "config"} THEN NoBlock ELSE Held[t]
    BY <2>1, <2>2, HeldEquations, HeldEquationsNext DEF HeldIs, Slots, KeyHeld, ContextHeld
  <2>4. /\ {result, config} = {Held[s] : s \in {"result", "config"}}
        /\ {"result", "config"} \in SUBSET Slots
    BY HeldEquations DEF HeldIs, Slots
  <2>5. Owns' /\ Laid(heap') /\ ~badFree'
    BY <2>1, <2>3, <2>4, DeallocKeeps
  <2>6. TypeOK'
    <3>1. ~badFree' /\ badFree' \in BOOLEAN
      BY <2>1, <2>5 DEF Dealloc
    <3> QED
      BY <2>1, <2>5, <3>1, BlockFields DEF IInv, TypeOK, Laid
  <2>7. Phases'
    BY <2>1, <2>2 DEF IInv, Phases, ConfigHeld, ResultHeld
  <2>8. Sizes'
    BY <2>1, <2>2, BlockFields DEF IInv, Sizes, KeyHeld, ContextHeld
  <2> QED
    BY <2>1, <2>5, <2>6, <2>7, <2>8 DEF IInv, FreedOnce, WritesOwned
<1> QED
  BY <1>1, <1>2, <1>3, <1>4, <1>5, <1>6

\* What is written to buffers that alloc gave, and that are still the host's, stays
\* within them.
LEMMA TextsOwned ==
    ASSUME IInv, pc = "write", ~badFree, ~refused, disposals = 0,
           ~(host = "js" /\ (keyText > KeySize \/ contextText > ContextSize))
    PROVE  Owned(keyBuffer.ptr, keyText) /\ Owned(contextBuffer.ptr, contextText)
<1> USE MemoryAssumption
<1>1. KeyHeld /\ ContextHeld
  BY DEF KeyHeld, ContextHeld
<1>2. /\ keyBuffer.ptr # 0 => keyBuffer \in heap
      /\ contextBuffer.ptr # 0 => contextBuffer \in heap
  BY <1>1, HeldEquations DEF IInv, Owns, Own, HeldIs, Slots
<1>3. /\ keyBuffer \in Blocks /\ contextBuffer \in Blocks
      /\ keyText \in Nat /\ contextText \in Nat
  BY DEF IInv, TypeOK
<1>4. keyText <= keyBuffer.len /\ keyBuffer.ptr # 0
  BY <1>1, <1>3 DEF IInv, Sizes
<1>5. contextText <= contextBuffer.len /\ (contextBuffer.ptr # 0 \/ contextText = 0)
  BY <1>1, <1>3 DEF IInv, Sizes
<1> QED
  BY <1>2, <1>3, <1>4, <1>5 DEF Owned, Blocks

\* Evaluations in the buffers of the host.
LEMMA EvaluationsKeep ==
    ASSUME IInv, Evaluate \/ WriteFails \/ Write \/ CallEvaluateReusable
                     \/ EvaluateTraps \/ EvaluateReturns
    PROVE  IInv'
<1> USE MemoryAssumption
<1>1. CASE Evaluate
  <2>1. /\ pc = "idle" /\ pc' = "write" /\ ~badFree /\ ~stray /\ host # "direct"
        /\ \E key \in KeyLengths \cup {0}, context \in ContextLengths :
              Accepts(key, context) /\ keyText' = key /\ contextText' = context
        /\ UNCHANGED <<host, heap, refused, stray, badFree, alive, keyBuffer, contextBuffer,
                       config, result, modeResult, disposals>>
    BY <1>1 DEF Evaluate, At, callerVars
  <2>2. keyText' \in Nat /\ contextText' \in Nat /\ Accepts(keyText', contextText')
    BY <2>1
  <2>3. \A t \in Slots : Held'[t] = Held[t]
    BY <2>1, HeldEquations, HeldEquationsNext DEF HeldIs, Slots, KeyHeld, ContextHeld
  <2>4. Owns' /\ Laid(heap')
    BY <2>1, <2>3, NothingMoves
  <2>5. TypeOK'
    BY <2>1, <2>2 DEF IInv, TypeOK
  <2>6. Phases'
    BY <2>1 DEF IInv, Phases, ConfigHeld, ResultHeld
  <2>7. Sizes'
    BY <2>1, <2>2 DEF IInv, Sizes, KeyHeld, ContextHeld, Accepts
  <2> QED
    BY <2>1, <2>4, <2>5, <2>6, <2>7 DEF IInv, FreedOnce, WritesOwned
<1>2. CASE WriteFails \/ Write
  <2>1. /\ pc = "write" /\ pc' \in {"idle", "evaluate"} /\ ~badFree /\ ~stray
        /\ UNCHANGED <<host, heap, refused, badFree, alive, keyBuffer, contextBuffer,
                       config, result, modeResult, keyText, contextText, disposals>>
        /\ stray' \in BOOLEAN
    BY <1>2 DEF WriteFails, Write, At, callerVars, textVars
  <2>2. stray' => ~Owned(keyBuffer.ptr, keyText) \/ ~Owned(contextBuffer.ptr, contextText)
    BY <1>2 DEF WriteFails, Write
  <2>3. pc' = "idle" => host # "direct"
    <3> SUFFICES ASSUME pc' = "idle", host = "direct" PROVE FALSE
      OBVIOUS
    <3>1. WriteFails /\ KeyHeld /\ ContextHeld
      BY <1>2, <2>1 DEF Write, At, KeyHeld, ContextHeld
    <3>2. /\ keyBuffer.ptr # 0 /\ keyBuffer \in heap /\ keyText = keyBuffer.len
          /\ contextBuffer.ptr # 0 => contextBuffer \in heap
          /\ contextText = contextBuffer.len
          /\ contextBuffer.ptr = 0 => contextText = 0
      BY <2>1, <3>1, HeldEquations DEF IInv, Owns, Own, HeldIs, Slots, Sizes
    <3>3. InMemory(keyBuffer.ptr, keyText) /\ InMemory(contextBuffer.ptr, contextText)
      BY <3>2 DEF IInv, TypeOK, InMemory
    <3> QED
      BY <3>1, <3>3 DEF WriteFails
  <2>4. \A t \in Slots : Held'[t] = Held[t]
    BY <2>1, <2>3, HeldEquations, HeldEquationsNext DEF HeldIs, Slots, KeyHeld, ContextHeld
  <2>5. Owns' /\ Laid(heap')
    BY <2>1, <2>4, NothingMoves
  <2>6. TypeOK'
    BY <2>1 DEF IInv, TypeOK
  <2>7. Phases'
    BY <2>1, <2>3 DEF IInv, Phases, ConfigHeld, ResultHeld
  <2>8. Sizes'
    BY <2>1, <2>3 DEF IInv, Sizes, KeyHeld, ContextHeld
  <2>9. WritesOwned'
    <3>1. disposals \in Nat
      BY DEF IInv, TypeOK
    <3> QED
      BY <2>1, <2>2, <3>1, TextsOwned DEF WritesOwned
  <2> QED
    BY <2>1, <2>5, <2>6, <2>7, <2>8, <2>9 DEF IInv, FreedOnce
<1>3. CASE CallEvaluateReusable
  <2>1. /\ pc = "evaluate" /\ pc' = "evaluated" /\ ~badFree /\ ~stray /\ host # "direct"
        /\ UNCHANGED <<host, stray, badFree, alive, keyBuffer, contextBuffer, config,
                       modeResult, keyText, contextText, disposals>>
    BY <1>3 DEF CallEvaluateReusable, At, textVars
  <2>2. PICK len \in ResultLengths : \E b \in Allocations(len) : Answer(b)
    BY <1>3 DEF CallEvaluateReusable
  <2>3. PICK b \in Allocations(len) : Answer(b)
    BY <2>2
  <2>4. /\ Alloc(b) /\ result' \in Blocks /\ b.len \in Nat
        /\ result' = IF b.ptr = 0 THEN NoBlock ELSE b
    BY <2>3, BlockFields, AllocFacts DEF IInv, TypeOK, Laid, Answer
  <2>5. /\ Held["result"].ptr = 0
        /\ \A t \in Slots : Held'[t] = IF t = "result" THEN result' ELSE Held[t]
    BY <2>1, HeldEquations, HeldEquationsNext, BlockFields
       DEF HeldIs, Slots, KeyHeld, ContextHeld, ResultHeld, IInv, Phases
  <2>6. Owns' /\ Laid(heap')
    BY <2>1, <2>4, <2>5, AnswerKeeps
  <2>7. (refused => refused') /\ refused' \in BOOLEAN
    BY <2>4, AllocRefuses DEF IInv, TypeOK
  <2>8. TypeOK'
    BY <2>1, <2>4, <2>6, <2>7 DEF IInv, TypeOK, Laid
  <2>9. Phases'
    BY <2>1 DEF IInv, Phases, ConfigHeld, ResultHeld
  <2>10. Sizes'
    BY <2>1, <2>7 DEF IInv, Sizes, KeyHeld, ContextHeld
  <2> QED
    BY <2>1, <2>6, <2>8, <2>9, <2>10 DEF IInv, FreedOnce, WritesOwned
<1>4. CASE EvaluateTraps
  <2>1. /\ pc = "evaluate" /\ pc' = "idle" /\ ~badFree /\ ~stray /\ host # "direct"
        /\ alive' = FALSE /\ keyText' = 0 /\ contextText' = 0
        /\ UNCHANGED <<host, heap, refused, stray, badFree, keyBuffer, contextBuffer, config,
                       result, modeResult, disposals>>
    BY <1>4 DEF EvaluateTraps, At, callerVars
  <2>2. \A t \in Slots : Held'[t] = Held[t]
    BY <2>1, HeldEquations, HeldEquationsNext DEF HeldIs, Slots, KeyHeld, ContextHeld
  <2>3. Owns' /\ Laid(heap')
    BY <2>1, <2>2, NothingMoves
  <2>4. TypeOK'
    <3>1. TypeOK
      BY DEF IInv
    <3>2. /\ {keyText', contextText', disposals'} \subseteq Nat
          /\ {refused', stray', badFree', alive'} \subseteq BOOLEAN
      <4>1. disposals \in Nat /\ {refused, stray, badFree} \subseteq BOOLEAN
        BY <3>1 DEF TypeOK
      <4>2. keyText' \in Nat /\ contextText' \in Nat /\ disposals' \in Nat
        BY <2>1, <4>1
      <4>3. refused' = refused /\ stray' = stray /\ badFree' = badFree /\ alive' = FALSE
        BY <2>1
      <4> QED
        BY <4>1, <4>2, <4>3
    <3>3. /\ host' = host /\ heap' = heap
          /\ {keyBuffer', contextBuffer', config', result', modeResult'}
               = {keyBuffer, contextBuffer, config, result, modeResult}
      BY <2>1
    <3> QED
      BY <2>1, <3>1, <3>2, <3>3 DEF TypeOK
  <2>5. Phases'
    BY <2>1 DEF IInv, Phases, ConfigHeld, ResultHeld
  <2>6. Sizes'
    BY <2>1 DEF IInv, Sizes, KeyHeld, ContextHeld
  <2> QED
    BY <2>1, <2>3, <2>4, <2>5, <2>6 DEF IInv, FreedOnce, WritesOwned
<1>5. CASE EvaluateReturns
  <2>1. /\ pc = "evaluated" /\ pc' = "idle" /\ ~badFree /\ ~stray
        /\ Dealloc({result}) /\ result' = NoBlock
        /\ keyText' = 0 /\ contextText' = 0
        /\ IF host = "direct" THEN keyBuffer' = NoBlock /\ contextBuffer' = NoBlock
           ELSE UNCHANGED <<keyBuffer, contextBuffer>>
        /\ UNCHANGED <<host, refused, stray, alive, config, modeResult, disposals>>
    BY <1>5 DEF EvaluateReturns, At, Evaluated
  <2>2. \A t \in Slots : Held'[t] = IF t \in {"result"} THEN NoBlock ELSE Held[t]
    BY <2>1, HeldEquations, HeldEquationsNext DEF HeldIs, Slots, KeyHeld, ContextHeld
  <2>3. {result} = {Held[s] : s \in {"result"}} /\ {"result"} \in SUBSET Slots
    BY HeldEquations DEF HeldIs, Slots
  <2>4. Owns' /\ Laid(heap') /\ ~badFree'
    BY <2>1, <2>2, <2>3, DeallocKeeps
  <2>5. TypeOK'
    <3>1. ~badFree' /\ badFree' \in BOOLEAN
      BY <2>1, <2>4 DEF Dealloc
    <3> QED
      BY <2>1, <2>4, <3>1, BlockFields DEF IInv, TypeOK, Laid
  <2>6. Phases'
    BY <2>1 DEF IInv, Phases, ConfigHeld, ResultHeld
  <2>7. Sizes'
    BY <2>1 DEF IInv, Sizes, KeyHeld, ContextHeld
  <2> QED
    BY <2>1, <2>4, <2>5, <2>6, <2>7 DEF IInv, FreedOnce, WritesOwned
<1> QED
  BY <1>1, <1>2, <1>3, <1>4, <1>5

\* Evaluations by a caller of evaluate.
LEMMA DirectKeeps ==
    ASSUME IInv, DirectKey \/ DirectContext \/ CallEvaluate
    PROVE  IInv'
<1> USE MemoryAssumption
<1>1. CASE DirectKey
  <2>1. /\ pc = "idle" /\ pc' = "directContext" /\ ~badFree /\ ~stray /\ host = "direct"
        /\ UNCHANGED <<host, stray, badFree, alive, contextBuffer, config, result, modeResult,
                       contextText, disposals>>
    BY <1>1 DEF DirectKey, At
  <2>2. PICK len \in KeyLengths :
           \E b \in Allocations(len) \ {Block(0, len)} :
              Alloc(b) /\ keyBuffer' = b /\ keyText' = len
    BY <1>1 DEF DirectKey
  <2>3. PICK b \in Allocations(len) \ {Block(0, len)} :
           Alloc(b) /\ keyBuffer' = b /\ keyText' = len
    BY <2>2
  <2>4. b \in Blocks /\ b.len = len /\ b.ptr # 0
    BY AllocFacts DEF IInv, TypeOK, Laid
  <2>5. Held["key"].ptr = 0 /\ \A t \in Slots : Held'[t] = IF t = "key" THEN b ELSE Held[t]
    BY <2>1, <2>3, HeldEquations, HeldEquationsNext, BlockFields
       DEF HeldIs, Slots, KeyHeld, ContextHeld
  <2>6. Owns' /\ Laid(heap')
    BY <2>1, <2>3, <2>5, AllocKeeps DEF Alloc, Slots
  <2>7. (refused => refused') /\ refused' \in BOOLEAN
    BY <2>3, <2>4, AllocRefuses DEF IInv, TypeOK
  <2>8. TypeOK'
    BY <2>1, <2>3, <2>4, <2>6, <2>7 DEF IInv, TypeOK, Laid
  <2>9. Phases'
    BY <2>1 DEF IInv, Phases, ConfigHeld, ResultHeld
  <2>10. Sizes'
    BY <2>1, <2>3, <2>4, <2>7 DEF IInv, Sizes, KeyHeld, ContextHeld
  <2> QED
    BY <2>1, <2>6, <2>8, <2>9, <2>10 DEF IInv, FreedOnce, WritesOwned
<1>2. CASE DirectContext
  <2>1. /\ pc = "directContext" /\ pc' = "write" /\ ~badFree /\ ~stray
        /\ UNCHANGED <<host, stray, badFree, alive, keyBuffer, config, result, modeResult,
                       keyText, disposals>>
    BY <1>2 DEF DirectContext, At
  <2>2. host = "direct"
    BY <2>1 DEF IInv, Phases
  <2>3. PICK len \in ContextLengths :
           \E b \in Allocations(len) :
              /\ len = 0 \/ b.ptr # 0
              /\ Alloc(b) /\ contextBuffer' = b /\ contextText' = len
    BY <1>2 DEF DirectContext
  <2>4. PICK b \in Allocations(len) :
           /\ len = 0 \/ b.ptr # 0
           /\ Alloc(b) /\ contextBuffer' = b /\ contextText' = len
    BY <2>3
  <2>5. b \in Blocks /\ b.len = len
    BY AllocFacts DEF IInv, TypeOK, Laid
  <2>6. /\ Held["context"].ptr = 0
        /\ \A t \in Slots : Held'[t] = IF t = "context" THEN b ELSE Held[t]
    BY <2>1, <2>2, <2>4, HeldEquations, HeldEquationsNext, BlockFields
       DEF HeldIs, Slots, KeyHeld, ContextHeld
  <2>7. Owns' /\ Laid(heap')
    BY <2>1, <2>4, <2>6, AllocKeeps DEF Alloc, Slots
  <2>8. (refused => refused') /\ refused' \in BOOLEAN
    BY <2>4, <2>5, AllocRefuses DEF IInv, TypeOK
  <2>9. TypeOK'
    BY <2>1, <2>4, <2>5, <2>7, <2>8 DEF IInv, TypeOK, Laid
  <2>10. Phases'
    BY <2>1, <2>2 DEF IInv, Phases, ConfigHeld, ResultHeld
  <2>11. Sizes'
    BY <2>1, <2>2, <2>4, <2>5, <2>8 DEF IInv, Sizes, KeyHeld, ContextHeld
  <2> QED
    BY <2>1, <2>7, <2>9, <2>10, <2>11 DEF IInv, FreedOnce, WritesOwned
<1>3. CASE CallEvaluate
  <2> DEFINE inputs == {c \in {keyBuffer, contextBuffer} : c.len > 0}
             all == disposals = 0 /\ (alive \/ host # "js")
             freeing == Emptied(Held, {"key", "context"})
  <2>1. /\ pc = "evaluate" /\ pc' = "evaluated" /\ ~badFree /\ ~stray /\ host = "direct"
        /\ UNCHANGED <<host, stray, alive, keyBuffer, contextBuffer, config, modeResult,
                       keyText, contextText, disposals>>
    BY <1>3 DEF CallEvaluate, At, textVars
  <2>2. PICK len \in ResultLengths :
           \E b \in Allocations(len) :
              /\ heap' = (heap \ inputs) \cup (IF b.ptr = 0 THEN {} ELSE {b})
              /\ badFree' = ~(inputs \subseteq heap)
              /\ refused' = (refused \/ b.ptr = 0)
              /\ result' = IF b.ptr = 0 THEN NoBlock ELSE b
    BY <1>3 DEF CallEvaluate
  <2>3. PICK b \in Allocations(len) :
           /\ heap' = (heap \ inputs) \cup (IF b.ptr = 0 THEN {} ELSE {b})
           /\ badFree' = ~(inputs \subseteq heap)
           /\ refused' = (refused \/ b.ptr = 0)
           /\ result' = IF b.ptr = 0 THEN NoBlock ELSE b
    BY <2>2
  <2>4. Laid(heap) /\ Own(heap, Held, all)
    BY <2>1 DEF IInv, TypeOK, Laid, Owns
  <2>5. b \in Blocks /\ (b.ptr # 0 => b \notin heap /\ Laid(heap \cup {b}))
    BY <2>4, AllocFacts
  <2>6. KeyHeld /\ ContextHeld /\ Held["key"] = keyBuffer /\ Held["context"] = contextBuffer
    BY <2>1, HeldEquations DEF KeyHeld, ContextHeld, HeldIs
  <2>7. /\ inputs = {c \in {Held[s] : s \in {"key", "context"}} : c.ptr # 0 /\ c.len # 0}
        /\ {"key", "context"} \in SUBSET Slots
    <3>1. keyBuffer.ptr # 0 /\ (contextBuffer.ptr # 0 \/ contextBuffer.len = 0)
      BY <2>1, <2>6 DEF IInv, Sizes
    <3>2. keyBuffer.len \in Nat /\ contextBuffer.len \in Nat
      BY DEF IInv, TypeOK, Blocks
    <3>3. {Held[s] : s \in {"key", "context"}} = {keyBuffer, contextBuffer}
      BY <2>6
    <3> QED
      BY <3>1, <3>2, <3>3 DEF Slots
  <2>8. inputs \subseteq heap /\ Laid(heap \ inputs) /\ Own(heap \ inputs, freeing, all)
    <3>1. inputs = Spent(Held, {"key", "context"})
      BY <2>7 DEF Spent
    <3> HIDE DEF all, inputs
    <3> QED
      BY <2>4, <2>7, <3>1, FreeOwn
  <2>9. /\ heap' = IF result'.ptr = 0 THEN heap \ inputs ELSE (heap \ inputs) \cup {result'}
        /\ result'.ptr # 0 => result' = b
    BY <2>3, BlockFields
  <2>10. /\ freeing["result"].ptr = 0
         /\ \A t \in Slots : Held'[t] = IF t = "result" THEN result' ELSE freeing[t]
    BY <2>1, HeldEquations, HeldEquationsNext, BlockFields
       DEF Emptied, HeldIs, Slots, KeyHeld, ContextHeld, ResultHeld, IInv, Phases
  <2>11. Own(heap', Held', all)
    <3>1. \A x \in heap \ inputs : x.ptr > 0
      BY <2>8 DEF Laid
    <3>2. result'.ptr # 0 => result' \notin heap \ inputs
      BY <2>5, <2>9
    <3>3. "result" \in Slots
      BY DEF Slots
    <3> HIDE DEF all, inputs, freeing
    <3> QED
      BY <2>8, <2>9, <2>10, <3>1, <3>2, <3>3, AllocOwn
  <2>12. Laid(heap')
    <3> HIDE DEF inputs
    <3> QED
      BY <2>5, <2>8, <2>9 DEF Laid
  <2>13. ~badFree' /\ badFree' \in BOOLEAN /\ (refused => refused') /\ refused' \in BOOLEAN
    <3> HIDE DEF inputs
    <3> QED
      BY <2>3, <2>8
  <2>14. Owns'
    BY <2>1, <2>11 DEF Owns
  <2>15. TypeOK'
    <3>1. result' \in Blocks
      BY <2>3, <2>5, BlockFields
    <3> QED
      BY <2>1, <2>12, <2>13, <3>1 DEF IInv, TypeOK, Laid
  <2>16. Phases'
    BY <2>1 DEF IInv, Phases, ConfigHeld, ResultHeld
  <2>17. Sizes'
    BY <2>1, <2>13 DEF IInv, Sizes, KeyHeld, ContextHeld
  <2> QED
    BY <2>1, <2>13, <2>14, <2>15, <2>16, <2>17 DEF IInv, FreedOnce, WritesOwned
<1> QED
  BY <1>1, <1>2, <1>3

\* Closing, and disposing again.
LEMMA CloseKeeps ==
    ASSUME IInv, Close
    PROVE  IInv'
<1> USE MemoryAssumption
<1>1. /\ host # "direct" /\ pc = "idle" /\ ~badFree /\ ~stray
      /\ pc' = IF host \in {"js", "python"} THEN "idle" ELSE "closed"
      /\ disposals' = disposals + 1
      /\ IF host = "python" /\ disposals > 0 THEN UNCHANGED <<heap, badFree>>
         ELSE Dealloc({keyBuffer, contextBuffer})
      /\ UNCHANGED <<host, refused, stray, alive, keyBuffer, contextBuffer, config, result,
                     modeResult, keyText, contextText>>
  BY DEF Close, At, callerVars, textVars
<1>2. disposals \in Nat /\ disposals' > 0 /\ disposals' # 0
  BY <1>1 DEF IInv, TypeOK
<1>3. \A t \in Slots : Held'[t] = IF t \in {"key", "context"} THEN NoBlock ELSE Held[t]
  BY <1>1, <1>2, HeldEquations, HeldEquationsNext DEF HeldIs, Slots, KeyHeld, ContextHeld
<1>4. Owns' /\ Laid(heap') /\ FreedOnce' /\ badFree' \in BOOLEAN
  <2>1. CASE disposals = 0
    <3>1. /\ {keyBuffer, contextBuffer} = {Held[s] : s \in {"key", "context"}}
          /\ {"key", "context"} \in SUBSET Slots
      BY <1>1, <2>1, HeldEquations DEF HeldIs, Slots, KeyHeld, ContextHeld
    <3>2. Dealloc({keyBuffer, contextBuffer})
      BY <1>1, <2>1
    <3>3. Owns' /\ Laid(heap') /\ ~badFree'
      BY <1>1, <1>2, <1>3, <3>1, <3>2, DeallocKeeps
    <3> QED
      BY <3>2, <3>3 DEF FreedOnce, Dealloc
  <2>2. CASE host = "python" /\ disposals > 0
    <3>1. UNCHANGED <<heap, badFree, host>>
      BY <1>1, <2>2
    <3>2. \A t \in Slots : Held'[t] = Held[t]
      BY <1>3, <2>2, HeldEquations DEF HeldIs, Slots, KeyHeld, ContextHeld
    <3>3. Owns' /\ Laid(heap')
      BY <1>1, <1>2, <3>1, <3>2, NothingMoves
    <3> QED
      BY <1>1, <3>1, <3>3 DEF FreedOnce, IInv, TypeOK
  <2>3. CASE host # "python" /\ disposals > 0
    <3>1. host = "js" /\ modeResult = NoBlock /\ config = NoBlock /\ result = NoBlock
      BY <1>1, <2>3 DEF IInv, Phases, ConfigHeld, ResultHeld
    <3>2. \A t \in Slots : Held'[t] = NoBlock
      BY <1>3, <3>1, HeldEquations DEF HeldIs, Slots
    <3>3. Owns'
      BY <1>2, <3>2, BlockFields DEF Owns, Own
    <3>4. heap' \subseteq heap /\ badFree' \in BOOLEAN
      BY <1>1, <2>3 DEF Dealloc
    <3>5. Laid(heap')
      BY <3>4 DEF IInv, TypeOK, Laid
    <3>6. host' = "js" /\ disposals' > 1
      BY <1>1, <1>2, <2>3, <3>1
    <3> QED
      BY <3>3, <3>4, <3>5, <3>6 DEF FreedOnce
  <2> QED
    BY <1>2, <2>1, <2>2, <2>3
<1>5. TypeOK'
  BY <1>1, <1>2, <1>4 DEF IInv, TypeOK, Laid
<1>6. Phases'
  BY <1>1, <1>2 DEF IInv, Phases, ConfigHeld, ResultHeld
<1>7. Sizes'
  BY <1>1, <1>2 DEF IInv, Sizes, KeyHeld, ContextHeld
<1> QED
  BY <1>1, <1>4, <1>5, <1>6, <1>7 DEF IInv, WritesOwned

\* Every step of a host preserves the invariant.
LEMMA NextInvariant == IInv /\ [Next]_vars => IInv'
<1> SUFFICES ASSUME IInv, [Next]_vars PROVE IInv'
  OBVIOUS
<1>1. CASE Next
  BY <1>1, ConstructorsKeep, LoadsKeep, EvaluationsKeep, DirectKeeps, CloseKeeps DEF Next
<1>2. CASE UNCHANGED vars
  <2>1. UNCHANGED <<host, heap, refused, stray, badFree, alive, pc, keyBuffer, contextBuffer,
                    config, result, modeResult, keyText, contextText, disposals>>
    BY <1>2 DEF vars, callerVars, textVars
  <2>2. Held' = Held
    BY <2>1 DEF Held, KeyHeld, ContextHeld
  <2>3. Owns'
    BY <2>1, <2>2 DEF IInv, Owns
  <2>4. TypeOK' /\ Phases' /\ Sizes'
    BY <2>1 DEF IInv, TypeOK, Phases, Sizes, KeyHeld, ContextHeld, ConfigHeld, ResultHeld
  <2> QED
    BY <2>1, <2>3, <2>4 DEF IInv, FreedOnce, WritesOwned
<1> QED
  BY <1>1, <1>2

\* The invariant holds throughout.
LEMMA Invariant == Spec => []IInv
<1> QED
  BY InitInvariant, NextInvariant, PTL DEF Spec

-----------------------------------------------------------------------------
(***************************************************************************)
(* What the hosts guarantee                                                *)
(***************************************************************************)

\* The type invariant: allocated blocks lie in the memory and never overlap.
THEOREM MemoryTypeOK == Spec => []TypeOK
<1> QED
  BY Invariant, PTL DEF IInv

\* No host frees a block twice or with a wrong length, on any path, however
\* allocations fail: but for a second dispose of the JavaScript host.
THEOREM BlocksAreFreedOnce == Spec => []FreedOnce
<1> QED
  BY Invariant, PTL DEF IInv

\* No host writes outside its own blocks, unless alloc answered null before, it was
\* closed, or the JavaScript host is given a text that is too long.
THEOREM WritesStayInside == Spec => []WritesOwned
<1> QED
  BY Invariant, PTL DEF IInv

\* Between calls the host's buffers are all that is allocated.
THEOREM NothingLeaks == Spec => []BlocksBalanced
<1>1. IInv => BlocksBalanced
  <2> DEFINE kept == {b \in {keyBuffer, contextBuffer, modeResult} : b.ptr # 0}
  <2> SUFFICES ASSUME IInv, pc = "idle", disposals = 0, ~badFree
               PROVE  kept \subseteq heap /\ ((host = "js" /\ ~alive) \/ heap \subseteq kept)
    BY DEF BlocksBalanced
  <2>1. Own(heap, Held, alive \/ host # "js")
    BY DEF IInv, Owns
  <2>2. config = NoBlock /\ result = NoBlock
    BY DEF IInv, Phases, ConfigHeld, ResultHeld
  <2>3. Held["key"] = keyBuffer /\ Held["context"] = contextBuffer
    BY HeldEquations DEF IInv, Phases, HeldIs, KeyHeld, ContextHeld
  <2>4. kept \subseteq heap
    BY <2>1, <2>3, HeldEquations DEF Own, Slots, HeldIs
  <2>5. ASSUME alive \/ host # "js" PROVE heap \subseteq kept
    <3> SUFFICES ASSUME NEW b \in heap PROVE b \in kept
      OBVIOUS
    <3>1. PICK s \in Slots : Held[s] = b
      BY <2>1, <2>5 DEF Own
    <3>2. b.ptr # 0
      BY DEF IInv, TypeOK
    <3> QED
      BY <2>2, <2>3, <3>1, <3>2, BlockFields, HeldEquations DEF Slots, HeldIs
  <2> QED
    BY <2>4, <2>5
<1> QED
  BY <1>1, Invariant, PTL

=============================================================================
