------------------------ MODULE SequentialHostProofs ------------------------
(***************************************************************************)
(* The three single-instance hosts answer like the evaluator they drive.   *)
(***************************************************************************)
EXTENDS SequentialHost, EvaluatorProofs

\* The caches are empty, or those of the configuration in force.
CachesBelong ==
    \/ /\ DOMAIN pre_evaluated_cache = {}
       /\ DOMAIN required_context_keys = {}
    \/ /\ state # NoState
       /\ pre_evaluated_cache = PreEvaluateStaticFlags(state)
       /\ required_context_keys = RequiredContextKeys(state)
       /\ flag_indices = FlagIndices(DOMAIN state.flags)

HInv == IInv /\ host \in Hosts /\ CachesBelong

LEMMA HostInvInit == HostInit => HInv
BY InvInit DEF HostInit, HInv, CachesBelong

LEMMA HostStepIsStep == [HostNext]_hostVars => [Next]_vars
BY DEF HostNext, HostUpdate, HostUpdateRefused, HostUpdateRaises, Next,
       UpdateRejected, hostVars

LEMMA HostInvStep == HInv /\ [HostNext]_hostVars => HInv'
<1> SUFFICES ASSUME HInv, [HostNext]_hostVars PROVE HInv'
  OBVIOUS
<1>1. IInv'
  BY HostStepIsStep, InvStep DEF HInv
<1>2. host' \in Hosts
  BY DEF HInv, HostNext, HostUpdate, HostUpdateRefused, HostUpdateRaises, hostVars
<1>3. CachesBelong'
  <2>1. ASSUME NEW d \in Documents, HostUpdate(d) PROVE CachesBelong'
    <3>1. state' # NoState
      <4>1. state' \in Configurations
        BY <2>1 DEF HostUpdate, UpdateState, Accepts, Configurations
      <4>2. QED
        BY <4>1, EvaluatorAssumption
    <3>2. QED
      BY <2>1, <3>1
         DEF HostUpdate, UpdateState, CacheResponse, CachesBelong, ResponseFor, Response
  <2>2. ASSUME NEW d \in Documents, HostUpdateRefused(d) PROVE CachesBelong'
    BY <2>2 DEF HostUpdateRefused, CacheResponse, CachesBelong, NoResponse, Response
  <2>3. ASSUME NEW d \in Documents, HostUpdateRaises(d) PROVE CachesBelong'
    BY <2>3 DEF HInv, HostUpdateRaises, UpdateRejected, CachesBelong, vars, cacheVars
  <2>4. CASE UNCHANGED hostVars
    BY <2>4 DEF HInv, hostVars, CachesBelong, vars, cacheVars
  <2>5. QED
    BY <2>1, <2>2, <2>3, <2>4 DEF HostNext
<1>4. QED
  BY <1>1, <1>2, <1>3 DEF HInv

\* Enriching twice is enriching once, and it makes an empty object of a missing
\* context.
LEMMA EnrichTwice ==
    ASSUME NEW k \in FlagKeys, NEW c \in Objects
    PROVE  /\ EnrichContext(k, EnrichContext(k, c)) = EnrichContext(k, c)
           /\ EnrichContext(k, EmptyContext) = EnrichContext(k, NoContext)
           /\ EnrichContext(k, c) \in Contexts
           /\ EnrichContext(k, c) # NoContext /\ EnrichContext(k, c) # BadContext
<1>1. EmptyContext \in Contexts /\ EmptyContext # NoContext
  <2>1. EmptyContext \in Contexts
    BY DEF EmptyContext, Contexts
  <2>2. QED
    BY <2>1, EvaluatorAssumption
<1>2. AsObject(c) \in Contexts
  BY <1>1, ContextTypes DEF AsObject
<1>3. EnrichContext(k, c) \in Contexts
  BY <1>2 DEF EnrichContext, Contexts
<1>4. EnrichContext(k, c) # NoContext /\ EnrichContext(k, c) # BadContext
  BY <1>3, EvaluatorAssumption
<1>5. AsObject(EnrichContext(k, c)) = EnrichContext(k, c)
  BY <1>4 DEF AsObject
<1>6. EnrichContext(k, EnrichContext(k, c)) = EnrichContext(k, c)
  <2> DEFINE o == AsObject(c)
  <2>1. o \in Contexts
    BY <1>2
  <2> HIDE DEF o
  <2>2. [[o EXCEPT !.flagd = k,
                   !.targetingKey = IF @ = "absent" THEN "empty" ELSE @]
           EXCEPT !.flagd = k,
                  !.targetingKey = IF @ = "absent" THEN "empty" ELSE @]
          = [o EXCEPT !.flagd = k,
                      !.targetingKey = IF @ = "absent" THEN "empty" ELSE @]
    BY <2>1 DEF Contexts
  <2>3. QED
    BY <1>5, <2>2 DEF EnrichContext, o
<1>7. AsObject(EmptyContext) = AsObject(NoContext)
  BY <1>1 DEF AsObject
<1>8. QED
  BY <1>3, <1>4, <1>6, <1>7 DEF EnrichContext

\* Evaluation by key sees the context only after enriching it.
LEMMA SameWhenEnriched ==
    ASSUME NEW st, NEW k \in FlagKeys, NEW c, NEW d,
           EnrichContext(k, c) = EnrichContext(k, d)
    PROVE  EvaluateFlag(st, k, c, TRUE) = EvaluateFlag(st, k, d, TRUE)
BY DEF EvaluateFlag, EvaluateCore

\* The whole context, however the host serializes it.
LEMMA CallIsEvaluate ==
    ASSUME NEW k \in FlagKeys, NEW c \in Objects
    PROVE  /\ SerializeContext(k, c) # BadContext
           /\ ExportEvaluate(state, k, SerializeContext(k, c))
                = ExportEvaluate(state, k, c)
<1> DEFINE s == SerializeContext(k, c)
<1>1. s # BadContext /\ EnrichContext(k, s) = EnrichContext(k, c)
  <2>1. CASE host = "python" /\ IsEmpty(c)
    BY <2>1, EnrichTwice, EvaluatorAssumption DEF SerializeContext, IsEmpty
  <2>2. CASE ~(host = "python" /\ IsEmpty(c))
    BY <2>2, EnrichTwice DEF SerializeContext
  <2>3. QED
    BY <2>1, <2>2
<1>2. EvaluateFlag(state, k, s, TRUE) = EvaluateFlag(state, k, c, TRUE)
  BY <1>1, SameWhenEnriched
<1>3. c # BadContext
  BY ContextTypes
<1> HIDE DEF s
<1>4. ExportEvaluate(state, k, s) = ExportEvaluate(state, k, c)
  BY <1>1, <1>2, <1>3 DEF ExportEvaluate
<1>5. QED
  BY <1>1, <1>4 DEF s

LEMMA ExportIsEvaluate ==
    ASSUME NEW st \in Configurations, NEW k \in FlagKeys, NEW c \in Objects
    PROVE  ExportEvaluate(st, k, c) = EvaluateFlag(st, k, c, TRUE)
<1>1. st # NoState /\ c # BadContext
  BY ContextTypes, EvaluatorAssumption
<1>2. CASE k \in DOMAIN st.flags /\ st.flags[k].targeting = NoRule
  <2>1. IsStatic(st.flags[k])
    BY <1>2 DEF IsStatic
  <2>2. EvaluateCore(st.flags[k], k, NoContext, TRUE, st.metadata)
          = EvaluateCore(st.flags[k], k, c, TRUE, st.metadata)
    BY <2>1, StaticIgnoresContext
  <2>3. QED
    BY <1>1, <1>2, <2>2 DEF ExportEvaluate, EvaluateFlag
<1>3. CASE ~(k \in DOMAIN st.flags /\ st.flags[k].targeting = NoRule)
  BY <1>1, <1>3 DEF ExportEvaluate
<1>4. QED
  BY <1>2, <1>3

\* What a host sends with an index is a filtered context that enriches to what
\* the caller's own context enriches to.
LEMMA SentIsFiltered ==
    ASSUME NEW k \in FlagKeys, NEW c \in Objects, host \in Hosts
    PROVE  \E e \in Objects :
              /\ EnrichContext(k, e) = EnrichContext(k, c)
              /\ SerializeFilteredContext(k, c)
                    = FilterContext(k, e, required_context_keys[k])
<1> DEFINE keys == required_context_keys[k]
<1>1. EmptyContext \in Objects /\ NoContext \in Objects /\ EmptyContext # NoContext
  <2>1. EmptyContext \in Contexts
    BY DEF EmptyContext, Contexts
  <2>2. QED
    BY <2>1, EvaluatorAssumption DEF Objects
<1>2. EnrichContext(k, EmptyContext) = EnrichContext(k, NoContext)
  BY <1>1, EnrichTwice
<1>3. FilterContext(k, EmptyContext, keys) = EnrichContext(k, EmptyContext)
  <2>1. [EmptyContext EXCEPT !.fields = @ \cap keys] = EmptyContext
    BY DEF EmptyContext
  <2>2. QED
    BY <1>1, <2>1 DEF FilterContext
<1>4. CASE host = "python" /\ IsEmpty(c)
  <2>1. SerializeFilteredContext(k, c) = FilterContext(k, NoContext, keys)
    BY <1>4 DEF SerializeFilteredContext, SerializeContext, FilterContext
  <2>2. EnrichContext(k, NoContext) = EnrichContext(k, c)
    BY <1>2, <1>4 DEF IsEmpty
  <2>3. QED
    BY <1>1, <2>1, <2>2
<1>5. CASE host = "js" /\ IsEmpty(c)
  <2>1. EnrichContext(k, EmptyContext) = EnrichContext(k, c)
    BY <1>2, <1>5 DEF IsEmpty
  <2>2. SerializeFilteredContext(k, c) = EnrichContext(k, c)
    BY <1>5 DEF SerializeFilteredContext, SerializeContext
  <2>3. QED
    BY <1>1, <1>3, <2>1, <2>2
<1>6. CASE host = "native" \/ ~IsEmpty(c)
  <2>1. SerializeFilteredContext(k, c) = FilterContext(k, AsObject(c), keys)
    BY <1>1, <1>6 DEF SerializeFilteredContext, FilterContext, IsEmpty, AsObject
  <2>2. AsObject(c) \in Objects
    BY <1>1 DEF AsObject
  <2>3. EnrichContext(k, AsObject(c)) = EnrichContext(k, c)
    BY <1>1, <1>2 DEF AsObject
  <2>4. QED
    BY <2>1, <2>2, <2>3
<1>7. QED
  BY <1>4, <1>5, <1>6 DEF Hosts

LEMMA InvGivesShortcuts == HInv => ShortcutsDoNotShow
<1> SUFFICES ASSUME HInv, NEW k \in FlagKeys, NEW c \in Objects
             PROVE  EvaluateOptimized(k, c) =
                       IF host = "native" THEN EvaluateFlag(state, k, c, TRUE)
                       ELSE ExportEvaluate(state, k, c)
  BY AnyContextIsObject DEF ShortcutsDoNotShow
<1>1. CASE k \in DOMAIN pre_evaluated_cache
  <2>1. /\ state \in Configurations
        /\ pre_evaluated_cache = PreEvaluateStaticFlags(state)
    BY <1>1 DEF HInv, IInv, CachesBelong
  <2>2. EvaluateOptimized(k, c) = ExportEvaluate(state, k, c)
    BY <1>1, <2>1, PreEvaluatedIsSound DEF EvaluateOptimized
  <2>3. QED
    BY <2>1, <2>2, ExportIsEvaluate
<1>2. CASE /\ k \notin DOMAIN pre_evaluated_cache
           /\ k \in DOMAIN required_context_keys \cap DOMAIN flag_indices
  <2> DEFINE sent == SerializeFilteredContext(k, c)
  <2>1. /\ state \in Configurations
        /\ state # NoState
        /\ required_context_keys = RequiredContextKeys(state)
        /\ flag_indices = FlagIndices(DOMAIN state.flags)
        /\ flag_index_map = IndexToKey(DOMAIN state.flags)
    BY <1>2 DEF HInv, IInv, Belongs, CachesBelong
  <2>2. PICK e \in Objects :
              /\ EnrichContext(k, e) = EnrichContext(k, c)
              /\ sent = FilterContext(k, e, required_context_keys[k])
    BY SentIsFiltered DEF HInv
  <2>3. ExportEvaluateByIndex(state, flag_index_map, flag_indices[k], sent)
          = ExportEvaluate(state, k, e)
    BY <1>2, <2>1, <2>2, IndexWithKeysIsSound
  <2>4. /\ ExportEvaluate(state, k, e) = EvaluateFlag(state, k, e, TRUE)
        /\ ExportEvaluate(state, k, c) = EvaluateFlag(state, k, c, TRUE)
        /\ EvaluateFlag(state, k, e, TRUE) = EvaluateFlag(state, k, c, TRUE)
    BY <2>1, <2>2, ExportIsEvaluate, SameWhenEnriched
  <2>5. sent # BadContext
    <3>1. CASE e = NoContext
      BY <2>2, <3>1, EvaluatorAssumption DEF FilterContext
    <3>2. CASE e # NoContext
      <4>1. e \in Contexts
        BY <3>2 DEF Objects
      <4>2. [e EXCEPT !.fields = @ \cap required_context_keys[k]] \in Objects
        BY <4>1 DEF Contexts, Objects
      <4>3. QED
        BY <2>2, <3>2, <4>2, EnrichTwice DEF FilterContext
    <3>3. QED
      BY <3>1, <3>2
  <2>6. EvaluateOptimized(k, c) = CallByIndex(flag_indices[k], sent)
    BY <1>2 DEF EvaluateOptimized
  <2> HIDE DEF sent
  <2>7. EvaluateByIndex(state, flag_index_map, flag_indices[k], sent)
          = ExportEvaluateByIndex(state, flag_index_map, flag_indices[k], sent)
    BY <2>1, <2>5 DEF ExportEvaluateByIndex
  <2>8. QED
    BY <2>3, <2>4, <2>6, <2>7 DEF CallByIndex
<1>3. CASE /\ k \notin DOMAIN pre_evaluated_cache
           /\ k \notin DOMAIN required_context_keys \cap DOMAIN flag_indices
  <2>1. EvaluateOptimized(k, c) = CallEvaluate(k, c)
    BY <1>3 DEF EvaluateOptimized
  <2>2. QED
    BY <2>1, CallIsEvaluate DEF CallEvaluate
<1>4. QED
  BY <1>1, <1>2, <1>3

\* Whatever was loaded and refused before, a single-instance host answers from
\* its caches, by index and on filtered contexts as the evaluator answers by key
\* on the whole context.
THEOREM ShortcutsAreSound == HostSpec => []ShortcutsDoNotShow
BY HostInvInit, HostInvStep, InvGivesShortcuts, PTL DEF HostSpec

=============================================================================
