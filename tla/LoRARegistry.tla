---------------------------- MODULE LoRARegistry ----------------------------
(***************************************************************************)
(* LoRA adapters that come and go while requests use them: LoRARegistry    *)
(* (lora/lora_registry.py), its callers in the tokenizer manager           *)
(* (managers/tokenizer_manager.py, managers/tokenizer_control_mixin.py)    *)
(* and the adapters the scheduler process has loaded (lora/lora_manager).  *)
(*                                                                         *)
(* All of it runs on one asyncio loop, so a step is a stretch of code      *)
(* between two awaits that really suspend. The sections under the          *)
(* registry's RWLock and under a ConcurrentCounter's condition await       *)
(* nothing else, so they never find their lock taken and are one step      *)
(* with the code around them. What does suspend: lora_update_lock, a       *)
(* reply of the scheduler, wait_for_zero(), and asyncio.gather(), which    *)
(* runs the increments of a batched request as tasks of their own.         *)
(*                                                                         *)
(* The LRU order of the registry only picks the adapter to evict; here any *)
(* unpinned one may be picked.                                             *)
(***************************************************************************)
EXTENDS Integers, FiniteSets

CONSTANTS Names,             \* adapter names
          Pinned,            \* the names loaded with pinned=True
          max_loaded_loras,
          Parts,             \* the requests the scheduler sees, one LoRA id each
          Singles,           \* ... those of a request with one lora_path
          Batches,           \* ... and those of each request with a list of them
          Endings,           \* the ways a request ends, members of DOMAIN Releases
          MaxLoads           \* bound: adapters ever loaded

\* How often release() is called for a request that ended this way.
Releases ==
    [output            |-> 1,   \* a finished output
     queue_abort_503   |-> 1,   \* an AbortReq with a 500 or 503
     running_abort_503 |-> 2,   \* a finished output whose reason is a 500 or 503
     queue_abort       |-> 0,   \* an AbortReq without a status
     rejected          |-> 0,   \* an exception before the request is sent
     disconnected      |-> 0]   \* an exception while waiting for the response

Requests == Batches \cup {{p} : p \in Singles}

ASSUME LimitAssumption == max_loaded_loras \in Nat /\ MaxLoads \in Nat
ASSUME PartsAssumption == /\ IsFiniteSet(Parts)
                          /\ Singles \subseteq Parts
                          /\ \A B \in Batches : B # {} /\ B \subseteq Parts \ Singles
                          /\ \A B, C \in Batches : B # C => B \cap C = {}
ASSUME EndingsAssumption == Endings \subseteq DOMAIN Releases

Refs == [name : Names, id : 1..MaxLoads]

VARIABLES registry,    \* _registry
          counters,    \* _counters: id -> count
          loaded,      \* the scheduler's lora_refs
          ref_cache,   \* lora_ref_cache: names that were ever loaded
          next_id,     \* LoRARef ids are fresh
          lock,        \* who holds lora_update_lock, and how far it has come
          stage,       \* where the coroutine of a request is
          missing,     \* ... the adapters it still has to reload
          use,         \* a request's hold on its adapter
          ref,         \* ... which one
          owed         \* ... calls of release() still to come

reqvars == <<stage, missing, use, ref, owed>>
regvars == <<registry, counters, loaded, ref_cache, next_id, lock>>
vars == <<regvars, reqvars>>

Free == [phase |-> "free"]
Api == {}              \* a load that no request waits for

-----------------------------------------------------------------------------
(* Steps are sequences of awaits that do not suspend, so the operators take *)
(* the registry R and the counters C their caller has made.                 *)

Registered(n, R) == \E r \in R : r.name = n
RefOf(n, R) == CHOOSE r \in R : r.name = n
without(f, i) == [j \in DOMAIN f \ {i} |-> f[j]]

\* acquire(): the ids are looked up together, an error when one is missing (it
\* was evicted meanwhile). A single lora_path is counted in the same step; the
\* increments of a list are tasks that run later.
acquire(B, R, C, wanted) ==
    LET found == [p \in Parts |-> IF p \in B THEN RefOf(wanted[p], R) ELSE ref[p]] IN
    /\ registry' = R
    /\ missing' = [missing EXCEPT ![B] = {}]
    /\ IF \E p \in B : ~Registered(wanted[p], R)
       THEN /\ stage' = [stage EXCEPT ![B] = "failed"]
            /\ counters' = C
            /\ UNCHANGED <<use, ref>>
       ELSE /\ stage' = [stage EXCEPT ![B] = "acquired"]
            /\ ref' = found
            /\ IF B \in Batches
               THEN /\ use' = [p \in Parts |-> IF p \in B THEN "looked up" ELSE use[p]]
                    /\ counters' = C
               ELSE /\ use' = [p \in Parts |-> IF p \in B THEN "held" ELSE use[p]]
                    /\ counters' = [i \in DOMAIN C |->
                          IF \E p \in B : found[p].id = i THEN C[i] + 1 ELSE C[i]]
    /\ UNCHANGED owed

\* A load returns and gives up the lock; a request that was reloading goes on
\* with the next adapter, or to acquire(), or fails.
finish(load, ok, R, C) ==
    LET B == load.by
        wanted == [p \in Parts |-> ref[p].name] IN
    /\ lock' = Free
    /\ IF ok /\ B # Api /\ missing[B] \subseteq {load.name}
       THEN acquire(B, R, C, wanted)
       ELSE /\ registry' = R
            /\ counters' = C
            /\ stage' = IF B = Api THEN stage
                        ELSE [stage EXCEPT ![B] = IF ok THEN "reload" ELSE "failed"]
            /\ missing' = IF B = Api THEN missing
                          ELSE [missing EXCEPT ![B] = @ \ {load.name}]
            /\ UNCHANGED <<use, ref, owed>>

\* Mutant: the counter is not waited for.
unregister_at_once(r, after, R, C) ==
    /\ registry' = R \ {r}
    /\ counters' = without(C, r.id)
    /\ lock' = [phase |-> "unloading", ref |-> r, after |-> after]
    /\ UNCHANGED reqvars

\* unregister(), then wait_for_unload(), which goes on at once when the count
\* is zero, then the request to the scheduler.
unregister(r, after, R, C) ==
    /\ registry' = R \ {r}
    /\ IF C[r.id] = 0
       THEN /\ counters' = without(C, r.id)
            /\ lock' = [phase |-> "unloading", ref |-> r, after |-> after]
       ELSE /\ counters' = C
            /\ lock' = [phase |-> "draining", ref |-> r, after |-> after]
    /\ UNCHANGED reqvars

\* The end of load_lora_adapter(): unpinned adapters beyond max_loaded_loras are
\* evicted, an error when there is none.
trim(load, ok, R, C) ==
    IF Cardinality(R) <= max_loaded_loras THEN finish(load, ok, R, C)
    ELSE \/ /\ \A r \in R : r.name \in Pinned
            /\ finish(load, FALSE, R, C)
         \/ \E r \in R : /\ r.name \notin Pinned
                         /\ unregister(r, [load EXCEPT !.ok = ok], R, C)

-----------------------------------------------------------------------------
(* Under lora_update_lock.                                                 *)

\* load_lora_adapter() up to the request it sends to the scheduler.
start_load(by, n) ==
    /\ lock = Free
    /\ next_id <= MaxLoads
    /\ next_id' = next_id + 1
    /\ lock' = [phase |-> "loading", by |-> by, name |-> n, id |-> next_id, ok |-> FALSE]

\* Mutant: the adapter is registered whether or not it was loaded.
LoadReply_unchecked ==
    LET r == [name |-> lock.name, id |-> lock.id] IN
    /\ lock.phase = "loading"
    /\ ~Registered(r.name, registry)
    /\ ref_cache' = ref_cache \cup {r.name}
    /\ trim(lock, TRUE, registry \cup {r}, [i \in DOMAIN counters \cup {r.id} |->
                                               IF i = r.id THEN 0 ELSE counters[i]])
    /\ UNCHANGED <<loaded, next_id>>

\* The scheduler refuses a name it has loaded (an "already loaded" is as good as
\* a success to a reload), and may fail for reasons of its own.
LoadReply == \E result \in {"success", "already loaded", "failure"} :
    LET r == [name |-> lock.name, id |-> lock.id] IN
    /\ lock.phase = "loading"
    /\ (result = "already loaded") = Registered(r.name, loaded)
    /\ IF result # "success"
       THEN /\ trim(lock, result = "already loaded", registry, counters)
            /\ UNCHANGED <<loaded, ref_cache>>
       ELSE /\ loaded' = loaded \cup {r}
            /\ IF Registered(r.name, registry)      \* register() raises
               THEN /\ finish(lock, FALSE, registry, counters)
                    /\ UNCHANGED ref_cache
               ELSE /\ ref_cache' = ref_cache \cup {r.name}
                    /\ trim(lock, TRUE, registry \cup {r},
                            [i \in DOMAIN counters \cup {r.id} |->
                                IF i = r.id THEN 0 ELSE counters[i]])
    /\ UNCHANGED next_id

\* wait_for_zero() returns.
Drained ==
    /\ lock.phase = "draining"
    /\ counters[lock.ref.id] = 0
    /\ counters' = without(counters, lock.ref.id)
    /\ lock' = [lock EXCEPT !.phase = "unloading"]
    /\ UNCHANGED <<registry, loaded, ref_cache, next_id, reqvars>>

\* An eviction goes on with the load that needed it.
UnloadReply ==
    /\ lock.phase = "unloading"
    /\ loaded' = loaded \ {lock.ref}
    /\ IF lock.after = Free
       THEN /\ lock' = Free
            /\ UNCHANGED <<registry, counters, reqvars>>
       ELSE trim(lock.after, lock.after.ok, registry, counters)
    /\ UNCHANGED <<ref_cache, next_id>>

\* /load_lora_adapter and /unload_lora_adapter; the latter raises on a name
\* that is not registered, which changes nothing.
ApiLoad == \E n \in Names :
    /\ start_load(Api, n)
    /\ UNCHANGED <<registry, counters, loaded, ref_cache, reqvars>>

ApiUnload ==
    /\ lock = Free
    /\ \E r \in registry : unregister(r, Free, registry, counters)
    /\ UNCHANGED <<loaded, ref_cache, next_id>>

-----------------------------------------------------------------------------
(* A request.                                                              *)

\* _resolve_lora_path(), for any choice of names: too many of them, some to
\* reload first, or on to acquire().
Resolve(B) == \E w \in [B -> Names] :
    LET wanted == [p \in Parts |-> IF p \in B THEN w[p] ELSE ref[p].name]
        names == {w[p] : p \in B}
        unregistered == {n \in names : ~Registered(n, registry)} IN
    /\ stage[B] = "new"
    /\ IF Cardinality(names) > max_loaded_loras
       THEN /\ stage' = [stage EXCEPT ![B] = "failed"]
            /\ UNCHANGED <<registry, counters, missing, use, ref, owed>>
       ELSE IF unregistered = {} THEN acquire(B, registry, counters, wanted)
       ELSE /\ stage' = [stage EXCEPT ![B] = "reload"]
            /\ missing' = [missing EXCEPT ![B] = unregistered]
            /\ ref' = [p \in Parts |-> IF p \in B THEN [name |-> w[p], id |-> 0]
                                                  ELSE ref[p]]
            /\ UNCHANGED <<registry, counters, use, owed>>
    /\ UNCHANGED <<loaded, ref_cache, next_id, lock>>

\* An adapter that was loaded once is loaded again; any other is an error.
Reload(B) == \E n \in missing[B] :
    /\ stage[B] = "reload"
    /\ IF n \notin ref_cache
       THEN /\ stage' = [stage EXCEPT ![B] = "failed"]
            /\ UNCHANGED <<next_id, lock>>
       ELSE /\ start_load(B, n)
            /\ stage' = [stage EXCEPT ![B] = "reloading"]
    /\ UNCHANGED <<registry, counters, loaded, ref_cache, missing, use, ref, owed>>

\* An increment of the gather(). It was given the counter, not the id: when the
\* id has left _counters, it counts on an object nobody looks at.
Increment(p) ==
    /\ use[p] = "looked up"
    /\ use' = [use EXCEPT ![p] = "held"]
    /\ counters' = [i \in DOMAIN counters |->
                       IF i = ref[p].id THEN counters[i] + 1 ELSE counters[i]]
    /\ UNCHANGED <<registry, loaded, ref_cache, next_id, lock, stage, missing, ref, owed>>

\* acquire() has returned for p's request, and p has not ended.
InUse(p) == /\ use[p] = "held"
            /\ \A B \in Batches : p \in B => \A q \in B : use[q] # "looked up"

\* Mutant: the output and the abort status both release.
End_releases_twice(p) == \E e \in Endings :
    /\ InUse(p)
    /\ use' = [use EXCEPT ![p] = "ended"]
    /\ owed' = [owed EXCEPT ![p] = Releases[e] + 1]
    /\ UNCHANGED <<regvars, stage, missing, ref>>

End(p) == \E e \in Endings :
    /\ InUse(p)
    /\ use' = [use EXCEPT ![p] = "ended"]
    /\ owed' = [owed EXCEPT ![p] = Releases[e]]
    /\ UNCHANGED <<regvars, stage, missing, ref>>

\* Mutant: release() forgets to decrement.
Release_uncounted(p) ==
    /\ owed[p] > 0
    /\ owed' = [owed EXCEPT ![p] = @ - 1]
    /\ UNCHANGED <<regvars, stage, missing, use, ref>>

\* release(), a task of its own; a KeyError when the id has left _counters.
Release(p) ==
    /\ owed[p] > 0
    /\ owed' = [owed EXCEPT ![p] = @ - 1]
    /\ counters' = [i \in DOMAIN counters |->
                       IF i = ref[p].id THEN counters[i] - 1 ELSE counters[i]]
    /\ UNCHANGED <<registry, loaded, ref_cache, next_id, lock, stage, missing, use, ref>>

-----------------------------------------------------------------------------

Init == /\ registry = {} /\ loaded = {} /\ ref_cache = {}
        /\ counters = [i \in {} |-> 0]
        /\ next_id = 1
        /\ lock = Free
        /\ stage = [B \in Requests |-> "new"]
        /\ missing = [B \in Requests |-> {}]
        /\ use = [p \in Parts |-> "none"]
        /\ ref = [p \in Parts |-> [name |-> "none", id |-> 0]]
        /\ owed = [p \in Parts |-> 0]

Update == LoadReply \/ Drained \/ UnloadReply

Request(B) == Resolve(B) \/ Reload(B)

Part(p) == Increment(p) \/ End(p) \/ Release(p)

Next == \/ ApiLoad \/ ApiUnload
        \/ Update
        \/ \E B \in Requests : Request(B)
        \/ \E p \in Parts : Part(p)

Spec == Init /\ [][Next]_vars

\* The loop runs every task that is ready, the scheduler answers, and every
\* request the scheduler was given ends.
FairSpec == /\ Spec
            /\ WF_vars(Update)
            /\ \A p \in Parts : WF_vars(Part(p))

-----------------------------------------------------------------------------
(* Properties.                                                             *)

\* A counter at zero is what lets an adapter go, so it may never be below the
\* requests that have yet to call release(), through gathered increments, reloads
\* under the same name, and release tasks that run late.
NeverUndercounts ==
    \A i \in DOMAIN counters :
        counters[i] >= Cardinality({p \in Parts :
                          ref[p].id = i /\ (use[p] = "held" \/ owed[p] # 0)})

\* A request the scheduler works on finds its adapter loaded, for as long as it
\* runs ("Initiate the actual unloading operation at the backend processes only
\* after all ongoing requests using this LoRA adapter are finished").
InUseStaysLoaded == \A p \in Parts : InUse(p) => ref[p] \in loaded

\* ... which single requests may rely on, whatever batched ones, reloads,
\* evictions and unloads run beside them.
SinglesStayLoaded == \A p \in Singles : InUse(p) => ref[p] \in loaded

\* Two processes, one truth: when nobody holds lora_update_lock, the registry
\* lists exactly the adapters the scheduler has loaded, one of each name, also
\* after failed loads, refused names and evictions that were given up.
BackendAgrees ==
    lock = Free => /\ loaded = registry
                   /\ \A r, o \in registry : r.name = o.name => r = o

\* No update hangs: whoever takes lora_update_lock gives it up, however many
\* requests it has to wait for and adapters it has to evict.
UpdateReturns == lock # Free ~> lock = Free
=============================================================================
