------------------------------ MODULE ToolCache ------------------------------
(***************************************************************************)
(* The cache of tool results in front of the tools of an engine.  An       *)
(* engine has one batch of calls under way at a time: its calls are looked *)
(* up one after the other, what is not cached runs in parallel, and when   *)
(* all of it has ended the results are stored, or what they outdate is     *)
(* removed, in the order of the calls.  The lock is held for one lookup,   *)
(* one store or one removal.  The cache is shared by every engine that has *)
(* the executor: the children of a decomposition get their parent's.       *)
(* Results are the versions of the data they were read from.               *)
(***************************************************************************)
EXTENDS Naturals, Sequences, FiniteSets, SequencesExt

CONSTANTS Engines,      \* the engines that have the executor
          Files,        \* the files, all in one directory
          Paths,        \* what calls name them by, as normalize_path leaves it
          File,         \* the file of each path, as the tools resolve it
          CachedCalls,  \* the calls that are made
          MaxBatch,     \* bound: the longest batch of each engine
          MaxEntries,   \* MAX_CACHE_ENTRIES
          MaxVersion    \* bound: how often each file is changed

\* The tools whose calls differ in what they read, in what they change, and in what is
\* removed for them.  "other" is any side effect that invalidate_for_side_effect does not
\* name: edit_file, exec_background and the rest.  Calls name a file by a path, and the
\* cache knows nothing but the text of it: "a" and "/wd/a" are two paths to it, and one
\* file to the tools.  The tools of the memory are to its keys what reads and writes are to
\* files that have one path each; a listing is to the path of its directory, for the writes
\* that name a file below that path, what a read is to the path of its file.
AllCalls == [tool : {"read_file", "write_file", "other"}, arg : Paths]
            \cup [tool : {"search_text", "run_command"}, arg : {"none"}]

CacheConstants ==
    /\ CachedCalls \subseteq AllCalls /\ IsFiniteSet(CachedCalls) /\ IsFiniteSet(Files)
    /\ File \in [Paths -> Files] /\ "none" \notin Paths
    /\ MaxBatch \in [Engines -> Nat \ {0}] /\ MaxEntries \in Nat \ {0} /\ MaxVersion \in Nat

ASSUME CacheAssumption == CacheConstants

VARIABLES
    world,      \* the version of each file
    cached,     \* ToolCache::entries: from calls to results
    order,      \* ToolCache::order
    phase,      \* where each engine is with its batch
    batch,      \* its calls
    plan,       \* for each: 0 for a hit, its own index if it runs, else that of its source
    result,     \* for each: how it ended, and what it read
    at          \* the next call to look up, or the next result to apply

cacheVars == <<cached, order>>
engineVars == <<world, cacheVars, phase, batch, plan, result, at>>

\* cacheability; failures and side effects have no value to be cached.
Cacheable(c) == c.tool \in {"read_file", "search_text"}

\* What a call reads, and what it may change.
Reads(c) == CASE c.tool = "read_file"   -> {File[c.arg]}
              [] c.tool = "search_text" -> Files
              [] OTHER -> {}

Changes(c) == CASE c.tool \in {"write_file", "other"} -> {{File[c.arg]}}
                [] c.tool = "run_command"  -> SUBSET Files \ {{}}
                [] OTHER -> {}

\* A result: how the call ended, the versions it read, and whether a change since then will
\* not cause its removal (history: the code does not know; Unnoticed and RunChange say when).
Value == [how : {"none", "read", "changed", "failed"},
          data : UNION {[D -> 0..MaxVersion] : D \in SUBSET Files}, missed : BOOLEAN]

Ended(how) == [how |-> how, data |-> <<>>, missed |-> FALSE]

CacheInit ==
    /\ world = [d \in Files |-> 0]
    /\ cached = <<>> /\ order = <<>>
    /\ phase = [e \in Engines |-> "idle"]
    /\ batch = [e \in Engines |-> <<>>]
    /\ plan = [e \in Engines |-> <<>>]
    /\ result = [e \in Engines |-> <<>>]
    /\ at = [e \in Engines |-> 1]
-----------------------------------------------------------------------------
(* The cache, under its lock                                               *)

\* remove_key: the entry, its place in the order and its paths in the index, which is
\* what Outdates computes from the calls that have an entry.
Without(keys) == [k \in DOMAIN cached \ keys |-> cached[k]]

RemoveFromOrder(keys) ==
    FoldLeft(LAMBDA kept, k : IF k \in keys THEN kept ELSE Append(kept, k), <<>>, order)

Outdates_NoSearch(c, k) ==              \* A bug: searches are kept.
    \/ c.tool = "write_file" /\ k = [tool |-> "read_file", arg |-> c.arg]
    \/ c.tool = "run_command"

\* The entries a side effect removes: by the paths they are indexed under
\* (extract_index_paths), by their tool, or all of them.
Outdates(c, k) ==
    \/ c.tool = "write_file" /\ (k = [tool |-> "read_file", arg |-> c.arg] \/ k.tool = "search_text")
    \/ c.tool = "run_command"

\* invalidate_for_side_effect
Invalidate(c) ==
    LET keys == {k \in DOMAIN cached : Outdates(c, k)} IN
    /\ cached' = Without(keys)
    /\ order' = RemoveFromOrder(keys)

Store_KeepOrder(k, value) ==            \* A bug: the old place in the order stays.
    LET full == Cardinality(DOMAIN cached \ {k}) >= MaxEntries
        gone == IF full THEN {k, Head(order)} ELSE {k}
    IN  /\ cached' = [x \in (DOMAIN cached \ gone) \cup {k} |->
                         IF x = k THEN value ELSE cached[x]]
        /\ order' = Append(IF full THEN Tail(order) ELSE order, k)

\* store: what is there is removed first, then the oldest entry if the cache is full.
Store(k, value) ==
    LET kept == RemoveFromOrder({k})
        full == Cardinality(DOMAIN cached \ {k}) >= MaxEntries
        gone == IF full THEN {k, Head(kept)} ELSE {k}
    IN  /\ cached' = [x \in (DOMAIN cached \ gone) \cup {k} |->
                         IF x = k THEN value ELSE cached[x]]
        /\ order' = Append(IF full THEN Tail(kept) ELSE kept, k)
-----------------------------------------------------------------------------
(* A batch of calls: CachingExecutor::execute_tools                        *)

Request(e, calls) ==
    /\ phase[e] = "idle"
    /\ phase' = [phase EXCEPT ![e] = "plan"]
    /\ batch' = [batch EXCEPT ![e] = calls]
    /\ UNCHANGED <<world, cacheVars, plan, result, at>>

Upcoming(e) == batch[e][at[e]]

More(e) == at[e] < Len(batch[e])

Sources_AnyCall(e) ==                   \* A bug: side effects are deduplicated as well.
    {i \in 1..Len(plan[e]) : plan[e][i] = i /\ batch[e][i] = Upcoming(e)}

\* The calls of the batch that run and whose result another one may take.
Sources(e) == {i \in 1..Len(plan[e]) :
                 plan[e][i] = i /\ batch[e][i] = Upcoming(e) /\ Cacheable(Upcoming(e))}

\* resolve_cached_call: found, found in this batch, or to be run.
Resolved(e) ==
    IF Cacheable(Upcoming(e)) /\ Upcoming(e) \in DOMAIN cached THEN 0
    ELSE IF Sources(e) # {} THEN CHOOSE i \in Sources(e) : TRUE
    ELSE at[e]

\* plan_calls, one call at a time.
PlanCall(e) ==
    /\ phase[e] = "plan"
    /\ plan' = [plan EXCEPT ![e] = Append(@, Resolved(e))]
    /\ result' = [result EXCEPT ![e] =
         Append(@, IF Resolved(e) = 0 THEN cached[Upcoming(e)] ELSE Ended("none"))]
    /\ IF More(e)
       THEN at' = [at EXCEPT ![e] = @ + 1] /\ UNCHANGED phase
       ELSE at' = [at EXCEPT ![e] = 1] /\ phase' = [phase EXCEPT ![e] = "run"]
    /\ UNCHANGED <<world, cacheVars, batch>>

Waiting(e, i) == phase[e] = "run" /\ plan[e][i] = i /\ result[e][i].how = "none"

\* A read that is not in the cache yet.
Pending(e, i) ==
    /\ plan[e][i] = i /\ result[e][i].how = "read"
    /\ phase[e] = "apply" => i >= at[e]

Missed(v, D) == [how |-> v.how, data |-> v.data, missed |-> v.missed \/ DOMAIN v.data \cap D # {}]

\* A call that reads, run by the registry in parallel with the others of its batch.
RunRead(e, i) ==
    /\ Waiting(e, i) /\ Cacheable(batch[e][i])
    /\ result' = [result EXCEPT ![e][i] =
         [how |-> "read", data |-> [d \in Reads(batch[e][i]) |-> world[d]], missed |-> FALSE]]
    /\ UNCHANGED <<world, cacheVars, phase, batch, plan, at>>

\* Whether the cache will not learn that c has changed what k read: the tool is none of
\* those it knows, or c writes the file under another path than k.
Unnoticed(c, k) ==
    \/ c.tool = "other"
    \/ c.tool = "write_file" /\ k.tool = "read_file" /\ k.arg # c.arg

\* A call that changes data, whether it succeeds or not.  Nothing tells the reads that are
\* pending at that moment.
RunChange(e, i, D) ==
    /\ Waiting(e, i) /\ D \in Changes(batch[e][i])
    /\ \A d \in D : world[d] < MaxVersion
    /\ world' = [d \in Files |-> IF d \in D THEN world[d] + 1 ELSE world[d]]
    /\ result' = [x \in Engines |-> [j \in DOMAIN result[x] |->
         IF x = e /\ j = i THEN Ended("changed")
         ELSE IF phase[x] # "idle" /\ j \in DOMAIN plan[x] /\ Pending(x, j)
              THEN Missed(result[x][j], D) ELSE result[x][j]]]
    /\ cached' = [k \in DOMAIN cached |->
         IF Unnoticed(batch[e][i], k) THEN Missed(cached[k], D) ELSE cached[k]]
    /\ UNCHANGED <<order, phase, batch, plan, at>>

Runs(e) == {i \in 1..Len(plan[e]) : plan[e][i] = i}

\* A call that fails, is refused or is cancelled, and has no effect.
RunFails(e, i) ==
    /\ Waiting(e, i)
    /\ result' = [result EXCEPT ![e][i] = Ended("failed")]
    /\ UNCHANGED <<world, cacheVars, phase, batch, plan, at>>

\* update_cache_for_result, one result at a time once all calls have ended (join_all); after
\* the last one the batch returns.
Apply(e) ==
    /\ phase[e] \in {"run", "apply"} /\ \A i \in Runs(e) : result[e][i].how # "none"
    /\ LET c == Upcoming(e)  v == result[e][at[e]] IN
       \/ plan[e][at[e]] = at[e] /\ v.how = "read" /\ Store(c, v)
       \/ plan[e][at[e]] = at[e] /\ ~Cacheable(c) /\ Invalidate(c)
       \/ ~(plan[e][at[e]] = at[e] /\ (v.how = "read" \/ ~Cacheable(c))) /\ UNCHANGED cacheVars
    /\ IF More(e)
       THEN /\ phase' = [phase EXCEPT ![e] = "apply"]
            /\ at' = [at EXCEPT ![e] = @ + 1]
            /\ UNCHANGED <<batch, plan, result>>
       ELSE /\ phase' = [phase EXCEPT ![e] = "idle"]
            /\ at' = [at EXCEPT ![e] = 1]
            /\ batch' = [batch EXCEPT ![e] = <<>>]
            /\ plan' = [plan EXCEPT ![e] = <<>>]
            /\ result' = [result EXCEPT ![e] = <<>>]
    /\ UNCHANGED world

\* prepare_cycle of an engine, which clears the cache of all of them.
ClearCache(e) ==
    /\ phase[e] = "idle" /\ cached # <<>>
    /\ cached' = <<>> /\ order' = <<>>
    /\ UNCHANGED <<world, phase, batch, plan, result, at>>

CacheNext ==
    \E e \in Engines :
        \/ \E calls \in BoundedSeq(CachedCalls, MaxBatch[e]) : calls # <<>> /\ Request(e, calls)
        \/ PlanCall(e)
        \/ \E i \in DOMAIN plan[e] : \/ RunRead(e, i)
                                    \/ \E D \in SUBSET Files : RunChange(e, i, D)
                                    \/ RunFails(e, i)
        \/ Apply(e)
        \/ ClearCache(e)

CacheSpec == CacheInit /\ [][CacheNext]_engineVars
-----------------------------------------------------------------------------
(* Properties                                                              *)

\* The types.
CacheTypeOK ==
    /\ world \in [Files -> 0..MaxVersion]
    /\ DOMAIN cached \subseteq CachedCalls /\ \A k \in DOMAIN cached : cached[k] \in Value
    /\ order \in Seq(CachedCalls)
    /\ phase \in [Engines -> {"idle", "plan", "run", "apply"}]
    /\ batch \in [Engines -> Seq(CachedCalls)]
    /\ plan \in [Engines -> Seq(Nat)]
    /\ \A e \in Engines :
         /\ Len(result[e]) = Len(plan[e]) /\ Len(plan[e]) <= Len(batch[e])
         /\ \A i \in DOMAIN result[e] : result[e][i] \in Value
         \* A call without a run of its own was found, or is a read that runs for another.
         /\ \A i \in DOMAIN plan[e] :
              \/ plan[e][i] = i
              \/ plan[e][i] = 0 /\ result[e][i].how = "read"
              \/ /\ plan[e][i] < i /\ plan[e][plan[e][i]] = plan[e][i]
                 /\ batch[e][plan[e][i]] = batch[e][i] /\ Cacheable(batch[e][i])
    /\ \A e \in Engines : at[e] \in 1..MaxBatch[e]

\* The order of eviction lists what is cached, each entry once, and the cache keeps its
\* limit, whatever engines store and remove in between: otherwise an eviction would free
\* nothing, or entries would stay for ever.
OrderMatchesEntries ==
    /\ ToSet(order) = DOMAIN cached
    /\ Len(order) = Cardinality(DOMAIN cached)
    /\ Len(order) <= MaxEntries

\* The types, and the order of eviction.
CacheInv == CacheTypeOK /\ OrderMatchesEntries

Fresh(v) == \A d \in DOMAIN v.data : v.data[d] = world[d]

\* A side effect that has changed data and whose removals are still to come.
RemovalDue(k) ==
    \E e \in Engines : \E i \in DOMAIN result[e] :
        /\ phase[e] # "apply" \/ i >= at[e]
        /\ plan[e][i] = i /\ ~Cacheable(batch[e][i]) /\ Outdates(batch[e][i], k)

\* What is cached is what a new call would read, or its removal is due, or the data were
\* changed in one of three ways: by a tool that the cache does not know, by a write that
\* named the file by another path, or while the read was on its way into the cache.  Every
\* other change is covered, in whatever order the batches of several engines run and are
\* applied.
StaleOnlyByMiss ==
    \A k \in DOMAIN cached : \/ Fresh(cached[k])
                             \/ cached[k].missed
                             \/ RemovalDue(k)
=============================================================================
