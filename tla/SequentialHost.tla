--------------------------- MODULE SequentialHost ---------------------------
(***************************************************************************)
(* The hosts that drive one evaluator with one call at a time: the native  *)
(* Python binding (python/src/lib.rs; calls are serialized by the borrow of *)
(* the PyO3 object), the JavaScript host (js/src/evaluator.ts; calls do not *)
(* yield) and the Python WASM host (its lock).  They cache what update_state*)
(* hands out and use it to avoid, or to shorten, calls into the evaluator. *)
(***************************************************************************)
EXTENDS Evaluator

VARIABLES
    host,                   \* which of the three this is
    pre_evaluated_cache,    \* the host's copies of the last response
    required_context_keys,
    flag_indices

cacheVars == <<pre_evaluated_cache, required_context_keys, flag_indices>>
hostVars  == <<vars, host, cacheVars>>

Hosts == {"native", "js", "python"}

HostInit ==
    /\ Init
    /\ host \in Hosts
    /\ pre_evaluated_cache = <<>>
    /\ required_context_keys = <<>>
    /\ flag_indices = <<>>

\* Mutant of CacheResponse: a map the response leaves out is not replaced.
MutantMergeResponse(r) ==
    /\ pre_evaluated_cache' = r.preEvaluated
    /\ required_context_keys' = r.requiredContextKeys @@ required_context_keys
    /\ flag_indices' = r.flagIndices

\* A map the response leaves out becomes empty.
CacheResponse(r) ==
    /\ pre_evaluated_cache' = r.preEvaluated
    /\ required_context_keys' = r.requiredContextKeys
    /\ flag_indices' = r.flagIndices

HostUpdate(d) ==
    /\ UpdateState(d)
    /\ CacheResponse(response')
    /\ UNCHANGED host

\* success:false comes back as a response, and its maps are cached too.
HostUpdateRefused(d) ==
    /\ UpdateRejected(d)
    /\ host = "native" => Verdict[d] # "unreadable"
    /\ CacheResponse(NoResponse)
    /\ UNCHANGED host

\* YAML that does not convert, and for the JavaScript host a configuration that
\* is too large, raise an error before anything is cached.
HostUpdateRaises(d) ==
    /\ UpdateRejected(d)
    /\ Verdict[d] = "unreadable"
    /\ host \in {"native", "js"}
    /\ UNCHANGED <<host, cacheVars>>

HostNext ==
    \E d \in Documents :
        HostUpdate(d) \/ HostUpdateRefused(d) \/ HostUpdateRaises(d)

HostSpec == HostInit /\ [][HostNext]_hostVars

-----------------------------------------------------------------------------
IsEmpty(ctx) == ctx \in {NoContext, EmptyContext}

\* The context sent with a flag key, and the one sent with required keys.  Only
\* the Python WASM host sends no context for an empty one.
SerializeContext(key, ctx) ==
    IF host = "python" /\ IsEmpty(ctx) THEN NoContext ELSE EnrichContext(key, ctx)

SerializeFilteredContext(key, ctx) ==
    IF host # "native" /\ IsEmpty(ctx) THEN SerializeContext(key, ctx)
    ELSE EnrichContext(key, [AsObject(ctx) EXCEPT
                                !.fields = @ \cap required_context_keys[key]])

\* A call into the evaluator: by the exports, or natively.
CallEvaluate(key, ctx) ==
    IF host = "native" THEN EvaluateFlag(state, key, ctx, TRUE)
    ELSE ExportEvaluate(state, key, SerializeContext(key, ctx))

CallByIndex(index, ctx) ==
    IF host = "native" THEN EvaluateByIndex(state, flag_index_map, index, ctx)
    ELSE ExportEvaluateByIndex(state, flag_index_map, index, ctx)

\* evaluate_optimized, evaluateFlag, _evaluate_locked
EvaluateOptimized(key, ctx) ==
    CASE key \in DOMAIN pre_evaluated_cache -> pre_evaluated_cache[key]
      [] /\ key \notin DOMAIN pre_evaluated_cache
         /\ key \in DOMAIN required_context_keys \cap DOMAIN flag_indices ->
            CallByIndex(flag_indices[key], SerializeFilteredContext(key, ctx))
      [] OTHER -> CallEvaluate(key, ctx)

\* Whatever was loaded or refused before, the shortcuts of a host do not show:
\* it answers what the evaluator itself answers from the whole context for the
\* flag key.  Caches a refused load empties only make it slower.
ShortcutsDoNotShow ==
    \A k \in FlagKeys, c \in AnyContext :
        EvaluateOptimized(k, c) =
            IF host = "native" THEN EvaluateFlag(state, k, c, TRUE)
            ELSE ExportEvaluate(state, k, c)

=============================================================================
