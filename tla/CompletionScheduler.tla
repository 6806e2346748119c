------------------------- MODULE CompletionScheduler -------------------------
(***************************************************************************)
(* The reconcile thread of llama-box/httpserver.hpp serving completion     *)
(* requests: httpserver::reconcile and the helpers it calls.               *)
(*                                                                         *)
(* HTTP threads put completions_task objects into the queue process_tasks. *)
(* One round of the reconcile thread takes tasks from the queue, walks     *)
(* them to build a batch (either ONE prefill, or any number of decodes),   *)
(* decodes the batch, samples a token for each of its tasks, and puts      *)
(* unfinished tasks back.  The thread owns all the state below; the HTTP   *)
(* threads and the clients touch only `location` (a new task arrives),     *)
(* `serving` and `closed`.                                                 *)
(*                                                                         *)
(* All tasks are completions, and prompts are text only (one tokenized     *)
(* prompt).  Token contents are abstracted: a cache hit may match any      *)
(* prefix that the entry can hold, sampling may end a generation at any    *)
(* token, and a draft may be accepted up to any token.  llama_decode may   *)
(* answer 1 (no room) or fail at any time.                                 *)
(***************************************************************************)
EXTENDS ContextQuota, FiniteSets, FiniteSetsExt

CONSTANTS
    Tasks,          \* the completions_task objects, one per request
    NoTask,         \* nullptr
    NThreads,       \* params.llm_params.n_threads_http
    CtxSize,        \* llm_ctx_size
    KvUnified,      \* params.llm_params.kv_unified: dynamic context allocation
    CachePrompt,    \* cache_prompt
    CanShift,       \* llm_kv_cache_shift
    ShiftContext,   \* shift_context: what --context-shift asks for, if CanShift
    RemovesRange,   \* llama_memory_seq_rm can remove a range in the middle
    SlidingWindow,  \* llm_model_n_swa > 0
    NKeep,          \* params.llm_params.n_keep
    NUbatch,        \* params.llm_params.n_ubatch
    DiscardFloor,   \* 4 in the code: shorter shifts are not worth making
    DraftMax,       \* params.llm_params.speculative.draft.n_max
    MTP,            \* mtp_enabled: drafts come from the model's own head
    DraftModel,     \* draft_batch_initialized: drafts come from a draft model
    BatchViewMax,   \* batch_view_max
    MaxRetries,     \* 3 in the code: attempts to make room for a batch
    Prompts,        \* lengths of the prompts the handlers let through
    MaxTokens,      \* values of max_tokens in the requests
    Streams,        \* the tasks whose request asks for streaming
    Throttled,      \* the tasks that carry a token bucket
    MayClose,       \* the tasks whose client may disconnect
    Adapted         \* the tasks whose request scales a LoRA adapter, all alike

Tids  == 0 .. NThreads - 1   \* HTTP threads, named by get_task_id
Slots == 0 .. NThreads - 1   \* sequences of the KV cache, and cache_prompts

dynamic_context_enabled == KvUnified

llm_slot_ctx_size == CtxSize \div NThreads

llm_kv_cache_limit == (IF KvUnified THEN CtxSize ELSE llm_slot_ctx_size) - 1

completion_context_limit == IF dynamic_context_enabled THEN CtxSize ELSE llm_slot_ctx_size

ASSUME SchedulerAssumption ==
    /\ IsFiniteSet(Tasks) /\ NoTask \notin Tasks
    /\ NThreads \in Nat \ {0}
    /\ CtxSize \in Nat /\ CtxSize >= NThreads
    /\ KvUnified \in BOOLEAN /\ CachePrompt \in BOOLEAN /\ CanShift \in BOOLEAN
    /\ RemovesRange \in BOOLEAN /\ SlidingWindow \in BOOLEAN
    /\ MTP \in BOOLEAN /\ DraftModel \in BOOLEAN
    /\ CachePrompt => CanShift
    /\ ShiftContext \in BOOLEAN /\ (ShiftContext => CanShift)
    /\ NKeep \in Nat /\ NUbatch \in Nat \ {0} /\ DiscardFloor \in Nat
    /\ DraftMax \in Nat /\ BatchViewMax \in Nat \ {0} /\ MaxRetries \in Nat
    /\ Prompts \subseteq 1 .. completion_context_limit - 1
    /\ MaxTokens \subseteq Int
    /\ Streams \subseteq Tasks /\ Throttled \subseteq Tasks /\ MayClose \subseteq Tasks
    /\ Adapted \subseteq Tasks

VARIABLES
    location,          \* where each task is
    task,              \* the fields of each completions_task
    serving,           \* the task each HTTP thread is waiting for
    closed,            \* the tasks whose connection is closed
    outcome,           \* the final result posted for each task
    phase,             \* what the reconcile thread is doing
    lora_adapters,     \* the adapters applied: those of Adapted, or none
    batch_process_type,
    batch_tokens,      \* batch_text.n_tokens
    retries,           \* attempts left to make room for the batch
    active_completion_tasks,
    cache_prompts,
    llm_kv_cache_used,
    llm_kv_cache_inactive

environment == <<serving, closed>>
registryAndCache == <<active_completion_tasks, cache_prompts>>
kv == <<llm_kv_cache_used, llm_kv_cache_inactive>>
batching == <<lora_adapters, batch_process_type, batch_tokens, retries>>
vars == <<location, task, outcome, phase, environment, registryAndCache, kv, batching>>

Locations == {"unsent", "queued", "round", "batch", "destroyed"}

TaskRecord ==
    [tid : Tids, prompt : Nat, requested : Int, pos : Int, pos_discard : Nat,
     n_decoded : Nat, budget : Int, drafted : Nat,
     admitted : BOOLEAN, limit : Nat, seq_id : Slots]

CacheEntry == [used : BOOLEAN, pos : Int, pos_discard : Nat]

get_lora_adapters(t) == t \in Adapted

At(place) == {t \in Tasks : location[t] = place}

Queued == At("queued")
Round  == At("round")
Batch  == At("batch")
Live   == Queued \cup Round \cup Batch

(* n_prefilled < n_prefilling_request: between rounds a task has either    *)
(* nothing prefilled, or all of its prompt and a first token sampled.      *)
AwaitsPrefill(t) == task[t].n_decoded = 0

Registered == {t \in Tasks : \E tid \in Tids : active_completion_tasks[tid] = t}

ActiveCount == Cardinality({tid \in Tids : active_completion_tasks[tid] # NoTask})

TypeOK ==
    /\ location \in [Tasks -> Locations]
    /\ task \in [Tasks -> TaskRecord]
    /\ serving \in [Tids -> Tasks \cup {NoTask}]
    /\ closed \subseteq Tasks
    /\ outcome \in [Tasks -> {"none", "ok", "error"}]
    /\ phase \in {"idle", "batching", "decode", "decode_draft", "failing", "sample", "crashed"}
    /\ lora_adapters \in BOOLEAN
    /\ batch_process_type \in {"unknown", "prefill", "decode"}
    /\ batch_tokens \in Nat
    /\ retries \in 0 .. MaxRetries
    /\ active_completion_tasks \in [Tids -> Tasks \cup {NoTask}]
    /\ cache_prompts \in [Slots -> CacheEntry]
    /\ llm_kv_cache_used \in Int
    /\ llm_kv_cache_inactive \in Int

NewTask(tid, prompt, max_tokens) ==
    LET budget == CASE max_tokens > 0 -> max_tokens
                    [] max_tokens < 0 -> INT32_MAX
                    [] OTHER -> completion_context_limit
    IN  [tid |-> tid, prompt |-> prompt, requested |-> IF max_tokens < 0 THEN -1 ELSE budget,
         pos |-> 0, pos_discard |-> 0, n_decoded |-> 0, budget |-> budget, drafted |-> 0,
         admitted |-> FALSE, limit |-> 0, seq_id |-> tid]

EmptyEntry == [used |-> FALSE, pos |-> 0, pos_discard |-> 0]

Init ==
    /\ location = [t \in Tasks |-> "unsent"]
    /\ task = [t \in Tasks |-> NewTask(0, 1, 0)]
    /\ serving = [tid \in Tids |-> NoTask]
    /\ closed = {}
    /\ outcome = [t \in Tasks |-> "none"]
    /\ phase = "idle"
    /\ lora_adapters = FALSE
    /\ batch_process_type = "unknown"
    /\ batch_tokens = 0
    /\ retries = 0
    /\ active_completion_tasks = [tid \in Tids |-> NoTask]
    /\ cache_prompts = [s \in Slots |-> EmptyEntry]
    /\ llm_kv_cache_used = 0
    /\ llm_kv_cache_inactive = 0

-----------------------------------------------------------------------------
(***************************************************************************)
(* The HTTP side: handlers enqueue tasks, clients disconnect.              *)
(***************************************************************************)

(* A handler builds a task and enqueues it; the thread waits for the       *)
(* result.  The queue keeps no order between its producers, and a round    *)
(* takes whatever is in it, so the order of arrival is not recorded.       *)
Submit(t, tid, prompt, max_tokens) ==
    /\ location[t] = "unsent"
    /\ serving[tid] = NoTask
    /\ location' = [location EXCEPT ![t] = "queued"]
    /\ task' = [task EXCEPT ![t] = NewTask(tid, prompt, max_tokens)]
    /\ serving' = [serving EXCEPT ![tid] = t]
    /\ UNCHANGED <<closed, outcome, phase, registryAndCache, kv, batching>>

(* The client goes away.  Nobody is told: the connection is polled.        *)
Disconnect(t) ==
    /\ t \in MayClose \ closed
    /\ \E tid \in Tids : serving[tid] = t
    /\ closed' = closed \cup {t}
    /\ UNCHANGED <<location, task, outcome, phase, serving, registryAndCache, kv, batching>>

(* A streaming handler finds that it cannot write: it returns, and the     *)
(* thread is free for another request while the task lives on.             *)
Abandon(tid) ==
    /\ serving[tid] \in Streams \cap closed
    /\ serving' = [serving EXCEPT ![tid] = NoTask]
    /\ UNCHANGED <<location, task, outcome, phase, closed, registryAndCache, kv, batching>>

(* The final result of t is posted and releases the thread waiting for it. *)
Post(t, result) ==
    /\ outcome' = [outcome EXCEPT ![t] = result]
    /\ serving' = [tid \in Tids |-> IF serving[tid] = t THEN NoTask ELSE serving[tid]]

Abandoned(t) == t \in Live /\ \A tid \in Tids : serving[tid] # t

(* is_connection_closed() of a task whose handler has returned reads a     *)
(* connection that is gone: either answer is possible.                     *)
MaySeeOpen(t)   == t \notin closed \/ Abandoned(t)
MaySeeClosed(t) == t \in closed

-----------------------------------------------------------------------------
(***************************************************************************)
(* Quotas: the registry of admitted tasks and the limits they carry.       *)
(***************************************************************************)

quotaFor(active) == for_active_requests(CtxSize, active)

RegisteredIn(registry) == {registry[tid] : tid \in Tids} \ {NoTask}

(* refresh_completion_task_budget on a task record.                        *)
Refreshed(rec) ==
    IF dynamic_context_enabled /\ rec.admitted
    THEN [rec EXCEPT !.budget = remaining_output_budget(rec.limit, position_for_budget(rec.pos),
                                                        rec.requested, rec.n_decoded)]
    ELSE rec

(* Every registered task gets the new limit, then a budget to match.       *)
Requoted(tasks, registry, quota) ==
    [u \in Tasks |-> IF u \in RegisteredIn(registry)
                     THEN Refreshed([tasks[u] EXCEPT !.limit = quota])
                     ELSE tasks[u]]

(* Mutant: the positions of the running tasks are not looked at.           *)
check_completion_admission_NoPositions(t) ==
    LET active == ActiveCount
        quota  == quotaFor(active + 1)
    IN  CASE ~dynamic_context_enabled               -> "ready"
          [] active >= NThreads                     -> "wait"
          [] quota <= 0 \/ task[t].prompt > CtxSize -> "reject"
          [] task[t].prompt > quota                 -> "wait"
          [] OTHER                                  -> "ready"

(* Mutant: the candidate itself is not counted.                            *)
check_completion_admission_OffByOne(t) ==
    LET active == ActiveCount
        quota  == quotaFor(active)
        held   == {position_for_budget(task[u].pos) : u \in Registered}
    IN  CASE ~dynamic_context_enabled               -> "ready"
          [] active >= NThreads                     -> "wait"
          [] quota <= 0 \/ task[t].prompt > CtxSize -> "reject"
          [] ~positions_fit(held, quota) \/ task[t].prompt > quota -> "wait"
          [] OTHER                                  -> "ready"

check_completion_admission(t) ==
    LET active == ActiveCount
        quota  == quotaFor(active + 1)
        held   == {position_for_budget(task[u].pos) : u \in Registered}
    IN  CASE ~dynamic_context_enabled              -> "ready"
          [] task[t].prompt > CtxSize              -> "reject"
          [] active >= NThreads                    -> "wait"
          [] quota <= 0                            -> "reject"
          [] ~positions_fit(held, quota) \/ task[t].prompt > quota -> "wait"
          [] OTHER                                 -> "ready"

(* register_completion_task, on the task records in `tasks`.               *)
register_completion_task(tasks, t, quota) ==
    LET registry == [active_completion_tasks EXCEPT ![tasks[t].tid] = t]
    IN  IF dynamic_context_enabled
        THEN /\ active_completion_tasks' = registry
             /\ task' = Requoted([tasks EXCEPT ![t].admitted = TRUE], registry, quota)
        ELSE task' = tasks /\ UNCHANGED active_completion_tasks

(* Mutant: the tasks that stay keep the limit they had.                    *)
release_completion_task_NoRequote(tasks, t) ==
    IF dynamic_context_enabled /\ tasks[t].admitted
    THEN /\ active_completion_tasks' = [active_completion_tasks EXCEPT ![tasks[t].tid] = NoTask]
         /\ task' = [tasks EXCEPT ![t].admitted = FALSE, ![t].limit = 0]
    ELSE task' = tasks /\ UNCHANGED active_completion_tasks

(* Mutant: the registry entry is looked up by sequence.                    *)
release_completion_task_BySequence(tasks, t) ==
    LET registry == [active_completion_tasks EXCEPT ![tasks[t].seq_id] = NoTask]
        active   == Cardinality({tid \in Tids : registry[tid] # NoTask})
    IN  IF dynamic_context_enabled /\ tasks[t].admitted
        THEN /\ active_completion_tasks' = registry
             /\ task' = Requoted([tasks EXCEPT ![t].admitted = FALSE, ![t].limit = 0],
                                 registry, quotaFor(active))
        ELSE task' = tasks /\ UNCHANGED active_completion_tasks

(* release_completion_task, on the task records in `tasks`.                *)
release_completion_task(tasks, t) ==
    LET registry == [active_completion_tasks EXCEPT ![tasks[t].tid] = NoTask]
        active   == Cardinality({tid \in Tids : registry[tid] # NoTask})
    IN  IF dynamic_context_enabled /\ tasks[t].admitted
        THEN /\ active_completion_tasks' = registry
             /\ task' = Requoted([tasks EXCEPT ![t].admitted = FALSE, ![t].limit = 0],
                                 registry, quotaFor(active))
        ELSE task' = tasks /\ UNCHANGED active_completion_tasks

-----------------------------------------------------------------------------
(***************************************************************************)
(* Making room in the KV cache: shift_completion_task_cache.  The result   *)
(* is the state it leaves behind.                                          *)
(***************************************************************************)

Discardable(pos) == min((pos - (NKeep + 1)) \div 4, NUbatch)

(* Mutant: entries in use are not skipped.                                 *)
FreeSlots_InUseToo == Slots

FreeSlots == {s \in Slots : ~cache_prompts[s].used}

IdleCaches == {s \in FreeSlots : CachePrompt /\ cache_prompts[s].pos > 0}

(* The longest idle cache, the first of them in case of a tie.             *)
LargestIdle ==
    {s \in IdleCaches :
        \A r \in IdleCaches :
            \/ cache_prompts[r].pos < cache_prompts[s].pos
            \/ cache_prompts[r].pos = cache_prompts[s].pos /\ s <= r}

Unshifted == [task |-> task, caches |-> cache_prompts,
              used |-> llm_kv_cache_used, inactive |-> llm_kv_cache_inactive]

(* Mutant: what is squashed stays counted as inactive.                     *)
SquashedIdle_StillInactive(s) ==
    LET n == Discardable(cache_prompts[s].pos)
        d == IF RemovesRange THEN n ELSE cache_prompts[s].pos
    IN  IF n <= DiscardFloor
        THEN Unshifted
        ELSE [Unshifted EXCEPT !.caches[s].pos = @ - d, !.caches[s].pos_discard = @ + d,
                               !.used = @ - d]

SquashedIdle(s) ==
    LET n == Discardable(cache_prompts[s].pos)
        d == IF RemovesRange THEN n ELSE cache_prompts[s].pos
    IN  IF n <= DiscardFloor
        THEN Unshifted
        ELSE [Unshifted EXCEPT !.caches[s].pos = @ - d, !.caches[s].pos_discard = @ + d,
                               !.used = @ - d, !.inactive = @ - d]

ShiftedTask(t) ==
    LET d == Discardable(task[t].pos)
    IN  IF d <= DiscardFloor
        THEN Unshifted
        ELSE [Unshifted EXCEPT !.task[t].pos = @ - d, !.task[t].pos_discard = @ + d,
                               !.used = @ - d]

(* The one state that shifting leads to, as a set.                         *)
shift_completion_task_cache(t) ==
    CASE ~CanShift        -> {Unshifted}
      [] CanShift /\ IdleCaches # {} -> {SquashedIdle(s) : s \in LargestIdle}
      [] CanShift /\ IdleCaches = {} /\ t = NoTask -> {Unshifted}
      [] CanShift /\ IdleCaches = {} /\ t # NoTask -> {ShiftedTask(t)}

-----------------------------------------------------------------------------
(***************************************************************************)
(* A round: take tasks, walk them to build the batch.                      *)
(***************************************************************************)

Move(t, place) == location' = [location EXCEPT ![t] = place]

(* wait_dequeue_bulk_timed: everything in the queue, at most NThreads.     *)
(* The first task to be walked has its LoRA adapters applied.              *)
Dequeue ==
    /\ phase = "idle"
    /\ \E taken \in kSubset(min(NThreads, Cardinality(Queued)), Queued) :
           /\ taken # {}
           /\ location' = [t \in Tasks |-> IF t \in taken THEN "round" ELSE location[t]]
           /\ \E first \in taken : lora_adapters' = get_lora_adapters(first)
    /\ phase' = "batching"
    /\ batch_process_type' = "unknown"
    /\ batch_tokens' = 0
    /\ UNCHANGED <<task, outcome, environment, registryAndCache, kv, retries>>

(* Nothing arrives within the timeout.                                     *)
DequeueTimesOut ==
    /\ phase = "idle"
    /\ Queued = {}
    /\ UNCHANGED vars

Requeue(t) ==
    /\ Move(t, "queued")
    /\ UNCHANGED <<task, outcome, phase, environment, registryAndCache, kv, batching>>

(* Other adapters than those of the batch: wait for another round.         *)
LoraWaits(t) ==
    /\ phase = "batching"
    /\ t \in Round
    /\ get_lora_adapters(t) # lora_adapters
    /\ Requeue(t)

Walked(t) ==
    /\ phase = "batching"
    /\ t \in Round
    /\ get_lora_adapters(t) = lora_adapters

ConsidersPrefill(t) ==
    /\ Walked(t)
    /\ batch_process_type = "unknown"
    /\ AwaitsPrefill(t)

(* Mutant: idle prompt caches count as if they could not be evicted.       *)
KvFits_IdleCounted(t) == llm_kv_cache_used + task[t].prompt <= llm_kv_cache_limit

KvFits(t) ==
    llm_kv_cache_used - llm_kv_cache_inactive + task[t].prompt <= llm_kv_cache_limit

(* Dynamic admission says wait: back to the queue, nothing allocated.      *)
AdmissionWaits(t) ==
    /\ ConsidersPrefill(t)
    /\ check_completion_admission(t) = "wait"
    /\ Requeue(t)

(* The KV cache has no room for the prompt beside the running tasks.       *)
KvWaits(t) ==
    /\ ConsidersPrefill(t)
    /\ check_completion_admission(t) = "ready"
    /\ ~KvFits(t)
    /\ Requeue(t)

(* How many tokens an idle entry stores: those in its sequence, those      *)
(* discarded by shifts, and the last sampled one, which was never decoded. *)
StoredTokens(s) ==
    LET held == cache_prompts[s].pos + cache_prompts[s].pos_discard
    IN  IF held = 0 THEN 0 ELSE held + 1

FromScratch(s) == [seq |-> s, pos |-> 0, cached |-> 0]

(* The sequence a prompt may get, the position it starts from and the      *)
(* number of its tokens taken as prefilled.  `lcp` is the longest prefix   *)
(* shared with an idle entry; without any, the first idle entry is taken.  *)
Placements(t) ==
    LET hits(s, lcp) ==
            IF cache_prompts[s].pos_discard > 0 /\ lcp = task[t].prompt
            THEN {FromScratch(s)}
            ELSE {[seq |-> s, pos |-> min(cache_prompts[s].pos - 1, lcp - 1), cached |-> lcp - 1]}
                 \cup {r \in {FromScratch(s)} : SlidingWindow /\ cache_prompts[s].pos > lcp}
        misses == {FromScratch(s) : s \in {f \in FreeSlots : \A g \in FreeSlots : f <= g}}
    IN  IF CachePrompt
        THEN misses \cup
             UNION {UNION {hits(s, lcp) : lcp \in 1 .. min(task[t].prompt, StoredTokens(s))}
                      : s \in FreeSlots}
        ELSE {FromScratch(task[t].seq_id)}

(* A sequence is chosen, its idle entry taken over, the task registered,   *)
(* and the rest of its prompt put in the batch.                            *)
Prefill(t) ==
    /\ ConsidersPrefill(t)
    /\ check_completion_admission(t) = "ready"
    /\ KvFits(t)
    /\ \E place \in Placements(t) :
        LET entry == cache_prompts[place.seq]
            added == task[t].prompt - place.cached
            freed == IF CachePrompt THEN entry.pos ELSE 0
        IN  /\ IF CachePrompt
               THEN cache_prompts' = [cache_prompts EXCEPT ![place.seq] =
                        [entry EXCEPT !.used = TRUE, !.pos = 0,
                                      !.pos_discard = IF place.pos > 0 THEN @ ELSE 0]]
               ELSE UNCHANGED cache_prompts
            /\ register_completion_task(
                   [task EXCEPT ![t].seq_id = place.seq, ![t].pos = place.pos + added],
                   t, quotaFor(ActiveCount + 1))
            /\ llm_kv_cache_used' = llm_kv_cache_used - freed + place.pos + added
            /\ llm_kv_cache_inactive' = llm_kv_cache_inactive - freed
            /\ batch_tokens' = added
    /\ batch_process_type' = "prefill"
    /\ Move(t, "batch")
    /\ UNCHANGED <<outcome, phase, environment, lora_adapters, retries>>

(* No idle entry: cache_prompts.at(-1) throws out of the reconcile thread. *)
PrefillThrows(t) ==
    /\ ConsidersPrefill(t)
    /\ check_completion_admission(t) = "ready"
    /\ KvFits(t)
    /\ Placements(t) = {}
    /\ phase' = "crashed"
    /\ UNCHANGED <<location, task, outcome, environment, registryAndCache, kv, batching>>

(* Mutant: tasks whose client is gone are passed over.                     *)
ConsidersDecode_OpenOnly(t) ==
    /\ Walked(t) /\ t \notin closed
    /\ ~ConsidersPrefill(t)
    /\ batch_process_type # "prefill"
    /\ ~AwaitsPrefill(t)
    /\ batch_tokens + DraftMax < BatchViewMax

ConsidersDecode(t) ==
    /\ Walked(t)
    /\ ~ConsidersPrefill(t)
    /\ batch_process_type # "prefill"
    /\ ~AwaitsPrefill(t)
    /\ batch_tokens + DraftMax < BatchViewMax

(* The token bucket of t is empty.                                         *)
Throttle(t) ==
    /\ ConsidersDecode(t)
    /\ t \in Throttled
    /\ Requeue(t)

(* The last sampled token and the drafted ones join the batch; if the KV   *)
(* cache is at its limit, something is shifted first.                      *)
JoinDecode(t) ==
    /\ ConsidersDecode(t)
    /\ \E room \in IF llm_kv_cache_used >= llm_kv_cache_limit
                    THEN shift_completion_task_cache(t)
                    ELSE {Unshifted} :
        LET added == 1 + task[t].drafted
        IN  /\ task' = [room.task EXCEPT ![t].pos = @ + added]
            /\ cache_prompts' = room.caches
            /\ llm_kv_cache_used' = room.used + added
            /\ llm_kv_cache_inactive' = room.inactive
            /\ batch_tokens' = batch_tokens + added
    /\ batch_process_type' = "decode"
    /\ Move(t, "batch")
    /\ UNCHANGED <<outcome, phase, environment, lora_adapters, retries, active_completion_tasks>>

(* Neither fits the batch being built: wait for the next round.            *)
Defer(t) ==
    /\ Walked(t)
    /\ ~ConsidersPrefill(t)
    /\ ~ConsidersDecode(t)
    /\ Requeue(t)

(* Mutant: one attempt too many.                                           *)
CloseBatch_OneTooMany ==
    /\ phase = "batching"
    /\ Round = {}
    /\ phase' = IF Batch = {} THEN "idle" ELSE "decode"
    /\ retries' = MaxRetries + 1
    /\ UNCHANGED <<location, task, outcome, environment, registryAndCache, kv,
                   lora_adapters, batch_process_type, batch_tokens>>

CloseBatch ==
    /\ phase = "batching"
    /\ Round = {}
    /\ phase' = IF Batch = {} THEN "idle" ELSE "decode"
    /\ retries' = MaxRetries
    /\ UNCHANGED <<location, task, outcome, environment, registryAndCache, kv,
                   lora_adapters, batch_process_type, batch_tokens>>

-----------------------------------------------------------------------------
(***************************************************************************)
(* Decoding the batch: decode_completion_task_batch and its failure path.  *)
(***************************************************************************)

Decoding == {t \in Batch : ~AwaitsPrefill(t)}

Longest == {t \in Decoding : \A u \in Decoding : task[u].pos <= task[t].pos}

Decoders == {"decode", "decode_draft"}

(* llama_decode answers 1: shift the longest decoding task of the batch,   *)
(* or an idle cache, and try again.  The code allows three attempts for    *)
(* every batch_view_max tokens; here MaxRetries bounds them per context.   *)
MakeRoom ==
    /\ phase \in Decoders
    /\ retries > 0
    /\ \E t \in IF Decoding = {} THEN {NoTask} ELSE Longest :
        \E room \in shift_completion_task_cache(t) :
            /\ task' = room.task
            /\ cache_prompts' = room.caches
            /\ llm_kv_cache_used' = room.used
            /\ llm_kv_cache_inactive' = room.inactive
    /\ retries' = retries - 1
    /\ UNCHANGED <<location, outcome, phase, environment, active_completion_tasks,
                   lora_adapters, batch_process_type, batch_tokens>>

(* A prefill is decoded by the draft model too, after the model itself.    *)
Decodes ==
    /\ phase \in Decoders
    /\ IF phase = "decode" /\ DraftModel /\ batch_process_type = "prefill"
       THEN phase' = "decode_draft" /\ retries' = MaxRetries
       ELSE phase' = "sample" /\ UNCHANGED retries
    /\ UNCHANGED <<location, task, outcome, environment, registryAndCache, kv,
                   lora_adapters, batch_process_type, batch_tokens>>

DecodeFails ==
    /\ phase \in Decoders
    /\ phase' = "failing"
    /\ UNCHANGED <<location, task, outcome, environment, registryAndCache, kv, batching>>

(* t leaves the batch; after the last one the round is over.               *)
LeaveBatch(t, place) ==
    /\ Move(t, place)
    /\ phase' = IF Batch = {t} THEN "idle" ELSE phase

(* Mutant: the cache entry of the failed task stays in use.                *)
Abort_EntryInUse(tasks, t, used) ==
    /\ llm_kv_cache_used' = used - tasks[t].pos
    /\ UNCHANGED cache_prompts
    /\ Post(t, "error")
    /\ release_completion_task(tasks, t)
    /\ LeaveBatch(t, "destroyed")
    /\ UNCHANGED <<closed, llm_kv_cache_inactive, batching>>

(* A task that failed: its sequence and its cache entry are emptied.       *)
Abort(tasks, t, used) ==
    /\ llm_kv_cache_used' = used - tasks[t].pos
    /\ cache_prompts' = IF CachePrompt
                        THEN [cache_prompts EXCEPT ![tasks[t].seq_id] = EmptyEntry]
                        ELSE cache_prompts
    /\ Post(t, "error")
    /\ release_completion_task(tasks, t)
    /\ LeaveBatch(t, "destroyed")
    /\ UNCHANGED <<closed, llm_kv_cache_inactive, batching>>

FailTask(t) ==
    /\ phase = "failing"
    /\ t \in Batch
    /\ Abort(task, t, llm_kv_cache_used)

-----------------------------------------------------------------------------
(***************************************************************************)
(* Sampling: every task of the batch gets its token, then goes back to the *)
(* queue or ends.                                                          *)
(***************************************************************************)

(* Verification of the drafted tokens: `kept` of them match what the model *)
(* samples.  The rest leave the KV cache, but are counted as decoded.      *)
Sampled(t, kept) ==
    LET n == 1 + task[t].drafted
    IN  [task EXCEPT ![t].pos = @ - (task[t].drafted - kept),
                     ![t].n_decoded = @ + n,
                     ![t].budget = @ - n,
                     ![t].drafted = 0]

(* Mutant: rejected drafts stay counted.                                   *)
UsedAfter_DraftsCounted(t, kept) == llm_kv_cache_used

UsedAfter(t, kept) == llm_kv_cache_used - (task[t].drafted - kept)

Samples(t, kept) ==
    /\ phase = "sample"
    /\ t \in Batch
    /\ kept \in 0 .. task[t].drafted

(* The end of a task that did not fail: its sequence becomes an idle cache *)
(* entry, or is emptied when prompts are not cached.                       *)
Retire(tasks, t, used) ==
    /\ IF CachePrompt
       THEN /\ cache_prompts' = [cache_prompts EXCEPT ![tasks[t].seq_id] =
                    [used |-> FALSE, pos |-> tasks[t].pos,
                     pos_discard |-> @.pos_discard + tasks[t].pos_discard]]
            /\ llm_kv_cache_used' = used
            /\ llm_kv_cache_inactive' = llm_kv_cache_inactive + tasks[t].pos
       ELSE /\ llm_kv_cache_used' = used - tasks[t].pos
            /\ UNCHANGED <<cache_prompts, llm_kv_cache_inactive>>
    /\ release_completion_task(tasks, t)
    /\ LeaveBatch(t, "destroyed")
    /\ UNCHANGED <<closed, batching>>

(* An end-of-generation token, a stop word or tool call, or no budget.     *)
Finish(t, kept) ==
    /\ Samples(t, kept)
    /\ Post(t, "ok")
    /\ Retire(Sampled(t, kept), t, UsedAfter(t, kept))

(* Tokens drafted for the next round; only MTP looks at the budget.        *)
DraftSizes(budget) == 0 .. IF MTP THEN min(DraftMax, max(0, budget - 1)) ELSE DraftMax

(* Unfinished: draft, look at the connection, go back to the queue.        *)
Continue(t, kept) ==
    /\ Samples(t, kept)
    /\ Sampled(t, kept)[t].budget > 0
    /\ MaySeeOpen(t)
    /\ \E drafted \in DraftSizes(Sampled(t, kept)[t].budget) :
           task' = [Sampled(t, kept) EXCEPT ![t].drafted = drafted]
    /\ llm_kv_cache_used' = UsedAfter(t, kept)
    /\ LeaveBatch(t, "queued")
    /\ UNCHANGED <<outcome, environment, registryAndCache, llm_kv_cache_inactive, batching>>

(* Unfinished, but the connection is closed: no result is posted.          *)
Drop(t, kept) ==
    /\ Samples(t, kept)
    /\ Sampled(t, kept)[t].budget > 0
    /\ MaySeeClosed(t)
    /\ Retire(Sampled(t, kept), t, UsedAfter(t, kept))
    /\ UNCHANGED <<outcome, serving>>

(* Unfinished, and the draft model fails to decode.                        *)
DraftFails(t, kept) ==
    /\ DraftModel /\ ~MTP
    /\ Samples(t, kept)
    /\ Sampled(t, kept)[t].budget > 0
    /\ Abort(Sampled(t, kept), t, UsedAfter(t, kept))

-----------------------------------------------------------------------------

Environment ==
    \/ \E t \in Tasks, tid \in Tids, prompt \in Prompts, max_tokens \in MaxTokens :
           Submit(t, tid, prompt, max_tokens)
    \/ \E t \in Tasks : Disconnect(t)
    \/ \E tid \in Tids : Abandon(tid)

Walk(t) ==
    \/ LoraWaits(t)
    \/ AdmissionWaits(t)
    \/ KvWaits(t)
    \/ Prefill(t)
    \/ PrefillThrows(t)
    \/ Throttle(t)
    \/ JoinDecode(t)
    \/ Defer(t)

Process(t) ==
    \/ FailTask(t)
    \/ \E kept \in 0 .. DraftMax :
           Finish(t, kept) \/ Continue(t, kept) \/ Drop(t, kept) \/ DraftFails(t, kept)

reconcile ==
    \/ Dequeue
    \/ \E t \in Tasks : Walk(t)
    \/ CloseBatch
    \/ MakeRoom
    \/ Decodes
    \/ DecodeFails
    \/ \E t \in Tasks : Process(t)

Next == Environment \/ reconcile \/ DequeueTimesOut

Spec == Init /\ [][Next]_vars

(* The reconcile thread runs for as long as the server does, and a token   *)
(* bucket is refilled by the passing of time.  Clients owe nothing.        *)
FairSpec ==
    /\ Spec
    /\ WF_vars(reconcile)
    /\ \A t \in Throttled : SF_vars(JoinDecode(t))

-----------------------------------------------------------------------------
(***************************************************************************)
(* Properties.                                                             *)
(***************************************************************************)

(* The tasks that hold a sequence of the KV cache.                         *)
Holders == {t \in Live : t \in Batch \/ ~AwaitsPrefill(t)}

(***************************************************************************)
(* llm_kv_cache_used is what the running tasks hold and what idle prompt   *)
(* caches hold, and llm_kv_cache_inactive is the second part: no path      *)
(* through prefill, shift, rejected drafts, failure, disconnect or         *)
(* completion loses or invents a token.  A leak would make KvWaits hold    *)
(* every later prompt back for ever.                                       *)
(***************************************************************************)
KvAccounted ==
    /\ llm_kv_cache_inactive = SumFunctionOnSet([s \in Slots |-> cache_prompts[s].pos], Slots)
    /\ llm_kv_cache_used =
           llm_kv_cache_inactive + SumFunctionOnSet([t \in Tasks |-> task[t].pos], Live)

(***************************************************************************)
(* A sequence belongs to one running task at a time, and a prompt cache    *)
(* entry is marked used exactly while a running task owns its sequence.    *)
(***************************************************************************)
SequencesOwned ==
    /\ \A t, u \in Holders : task[t].seq_id = task[u].seq_id => t = u
    /\ CachePrompt => \A s \in Slots :
           cache_prompts[s].used <=> \E t \in Holders : task[t].seq_id = s

(***************************************************************************)
(* The registry holds exactly the running tasks, each under its own id: no *)
(* terminal path leaves a stale entry (a count that blocks admission, a    *)
(* dangling pointer), and none drops the entry of another task.            *)
(***************************************************************************)
RegistryExact ==
    dynamic_context_enabled =>
        /\ Registered = Holders
        /\ \A tid \in Tids : active_completion_tasks[tid] # NoTask =>
               task[active_completion_tasks[tid]].tid = tid

(***************************************************************************)
(* Every running task has the limit that the number of running tasks       *)
(* gives, after any interleaving of admissions and releases.               *)
(***************************************************************************)
QuotaExact ==
    dynamic_context_enabled =>
        \A t \in Holders : task[t].limit = quotaFor(Cardinality(Holders))

(***************************************************************************)
(* A running task that waits for its next round is within its quota, and   *)
(* its budget does not exceed what the quota leaves, although admissions   *)
(* and releases of others keep changing both.                              *)
(***************************************************************************)
WithinQuota ==
    dynamic_context_enabled =>
        \A t \in Holders \ Batch :
            /\ task[t].pos <= task[t].limit
            /\ task[t].budget <= task[t].limit - task[t].pos

(***************************************************************************)
(* When a limit is lowered, because somebody was admitted, the task keeps  *)
(* all of its tokens and they fit the lower limit.                         *)
(***************************************************************************)
AdmissionKeepsHistory ==
    [][\A t \in Holders \cap Holders' :
          task'[t].limit < task[t].limit =>
              /\ task'[t].pos = task[t].pos
              /\ task[t].pos <= task'[t].limit]_vars

(***************************************************************************)
(* Every request whose client stays gets a final result.                   *)
(***************************************************************************)
Answered ==
    \A t \in Tasks : location[t] = "queued" ~> outcome[t] # "none" \/ t \in closed

(***************************************************************************)
(* A task whose client left does not run, or count, for ever.              *)
(***************************************************************************)
DisconnectedRelease ==
    \A t \in Tasks : t \in closed ~> t \notin Live
=============================================================================
