--------------------- MODULE CompletionSchedulerProofs ---------------------
(***************************************************************************)
(* What the reconcile thread keeps to for every number of threads and      *)
(* requests, every context size, and every setting: its quota, the KV      *)
(* cache, and the promise of DynamicContext, with one step of the abstract *)
(* specification for every step of the scheduler.                          *)
(***************************************************************************)
EXTENDS SchedulerRefinement, SharedFacts

TaskTable == [Tasks -> TaskRecord]

(* What the assumption says of the definitions the actions use.            *)
LEMMA ConstantTypes ==
    /\ 0 \in Tids
    /\ Slots = Tids /\ Tids \subseteq Nat
    /\ llm_slot_ctx_size \in Nat
    /\ completion_context_limit \in Nat
    /\ Prompts \subseteq Nat
    /\ NThreads \in Nat
  <1>1. llm_slot_ctx_size \in Nat
    BY SchedulerAssumption, DivBounds DEF llm_slot_ctx_size
  <1>2. completion_context_limit \in Nat
    BY <1>1, SchedulerAssumption DEF completion_context_limit
  <1>3. Prompts \subseteq Nat
    BY <1>2, SchedulerAssumption
  <1> QED
    BY <1>1, <1>2, <1>3, SchedulerAssumption DEF Slots, Tids

LEMMA DiscardableType ==
    ASSUME NEW pos \in Int
    PROVE  Discardable(pos) \in Int
  BY SchedulerAssumption DEF Discardable, min

(* However the registry is filled, the number of its entries is a number.  *)
LEMMA EntriesCounted ==
    ASSUME NEW registry
    PROVE  LET entries == {tid \in Tids : registry[tid] # NoTask}
           IN  IsFiniteSet(entries) /\ Cardinality(entries) \in Nat
  <1>1. IsFiniteSet(Tids)
    BY SchedulerAssumption, FS_Interval DEF Tids
  <1> QED
    BY <1>1, FS_Subset, FS_CardinalityType

LEMMA QuotaForType ==
    ASSUME NEW active \in Nat
    PROVE  quotaFor(active) \in Nat /\ quotaFor(active) <= CtxSize
  BY SchedulerAssumption, QuotaType DEF quotaFor

LEMMA NewTaskType ==
    ASSUME NEW tid \in Tids, NEW prompt \in Nat, NEW max_tokens \in Int
    PROVE  NewTask(tid, prompt, max_tokens) \in TaskRecord
  BY ConstantTypes DEF NewTask, TaskRecord, INT32_MAX

-----------------------------------------------------------------------------
(***************************************************************************)
(* What the helpers return.                                                *)
(***************************************************************************)

(* A new limit and budget, and nothing else of the record.                 *)
LEMMA RefreshedRecord ==
    ASSUME NEW rec \in TaskRecord
    PROVE  /\ Refreshed(rec) \in TaskRecord
           /\ \E budget \in Int : Refreshed(rec) = [rec EXCEPT !.budget = budget]
  <1> DEFINE b == remaining_output_budget(rec.limit, position_for_budget(rec.pos),
                                          rec.requested, rec.n_decoded)
  <1>1. position_for_budget(rec.pos) \in Int
    BY DEF position_for_budget, max, TaskRecord
  <1>2. b \in Nat
    <2>1. rec.limit \in Int /\ rec.requested \in Int /\ rec.n_decoded \in Nat
      BY DEF TaskRecord
    <2> QED
      BY <1>1, <2>1, BudgetBounds
  <1> HIDE DEF b
  <1>3. [rec EXCEPT !.budget = b] \in TaskRecord
    BY <1>2 DEF TaskRecord
  <1>4. rec = [rec EXCEPT !.budget = rec.budget] /\ rec.budget \in Int
    BY DEF TaskRecord
  <1> QED
    BY <1>2, <1>3, <1>4 DEF Refreshed, b

LEMMA RequotedTable ==
    ASSUME NEW tasks \in TaskTable, NEW registry, NEW quota \in Nat
    PROVE  Requoted(tasks, registry, quota) \in TaskTable
  <1>1. ASSUME NEW u \in Tasks
        PROVE  Refreshed([tasks[u] EXCEPT !.limit = quota]) \in TaskRecord
    <2>1. [tasks[u] EXCEPT !.limit = quota] \in TaskRecord
      BY DEF TaskTable, TaskRecord
    <2> QED
      BY <2>1, RefreshedRecord
  <1> QED
    BY <1>1 DEF Requoted, TaskTable

LEMMA RegisterType ==
    ASSUME TypeOK, NEW tasks \in TaskTable, NEW t \in Tasks, NEW quota \in Nat,
           register_completion_task(tasks, t, quota)
    PROVE  /\ task' \in TaskTable
           /\ active_completion_tasks' \in [Tids -> Tasks \cup {NoTask}]
  <1>1. tasks[t].tid \in Tids /\ [tasks EXCEPT ![t].admitted = TRUE] \in TaskTable
    BY DEF TaskTable, TaskRecord
  <1> QED
    BY <1>1, RequotedTable DEF register_completion_task, TypeOK

LEMMA ReleasedTable ==
    ASSUME NEW tasks \in TaskTable, NEW t \in Tasks
    PROVE  [tasks EXCEPT ![t].admitted = FALSE, ![t].limit = 0] \in TaskTable
  BY DEF TaskTable, TaskRecord

LEMMA ReleaseType ==
    ASSUME TypeOK, NEW tasks \in TaskTable, NEW t \in Tasks,
           release_completion_task(tasks, t)
    PROVE  /\ task' \in TaskTable
           /\ active_completion_tasks' \in [Tids -> Tasks \cup {NoTask}]
  <1> DEFINE registry == [active_completion_tasks EXCEPT ![tasks[t].tid] = NoTask]
             active   == Cardinality({tid \in Tids : registry[tid] # NoTask})
             table    == [tasks EXCEPT ![t].admitted = FALSE, ![t].limit = 0]
  <1>1. tasks[t].tid \in Tids /\ table \in TaskTable
    BY ReleasedTable DEF TaskTable, TaskRecord
  <1>2. quotaFor(active) \in Nat
    <2> HIDE DEF registry
    <2> QED
      BY EntriesCounted, QuotaForType
  <1>3. registry \in [Tids -> Tasks \cup {NoTask}]
    BY <1>1 DEF TypeOK
  <1>4. \/ task' = tasks /\ active_completion_tasks' = active_completion_tasks
        \/ task' = Requoted(table, registry, quotaFor(active)) /\ active_completion_tasks' = registry
    BY DEF release_completion_task
  <1> HIDE DEF registry, active, table
  <1> QED
    BY <1>1, <1>2, <1>3, <1>4, RequotedTable DEF TypeOK

(* Discarding d tokens from a task, and from an idle cache.                *)
LEMMA ShiftedRecord ==
    ASSUME NEW rec \in TaskRecord, NEW pos \in Int, NEW discarded \in Nat
    PROVE  [rec EXCEPT !.pos = pos, !.pos_discard = discarded] \in TaskRecord
  BY DEF TaskRecord

LEMMA ShiftedEntry ==
    ASSUME NEW entry \in CacheEntry, NEW pos \in Int, NEW discarded \in Nat
    PROVE  [entry EXCEPT !.pos = pos, !.pos_discard = discarded] \in CacheEntry
  BY DEF CacheEntry

LEMMA SampledRecord ==
    ASSUME NEW rec \in TaskRecord, NEW pos \in Int, NEW n_decoded \in Nat, NEW budget \in Int
    PROVE  [rec EXCEPT !.pos = pos, !.n_decoded = n_decoded, !.budget = budget, !.drafted = 0]
               \in TaskRecord
  BY DEF TaskRecord

LEMMA PlacedRecord ==
    ASSUME NEW rec \in TaskRecord, NEW seq \in Slots, NEW pos \in Int
    PROVE  [rec EXCEPT !.seq_id = seq, !.pos = pos] \in TaskRecord
  BY DEF TaskRecord

LEMMA TakenEntry ==
    ASSUME NEW entry \in CacheEntry, NEW discarded \in Nat
    PROVE  [entry EXCEPT !.used = TRUE, !.pos = 0, !.pos_discard = discarded] \in CacheEntry
  <1> DEFINE taken == [entry EXCEPT !.used = TRUE]
  <1>1. taken \in CacheEntry
    BY DEF CacheEntry
  <1>2. [entry EXCEPT !.used = TRUE, !.pos = 0, !.pos_discard = discarded]
          = [taken EXCEPT !.pos = 0, !.pos_discard = discarded]
    OBVIOUS
  <1>3. 0 \in Int
    OBVIOUS
  <1> HIDE DEF taken
  <1>4. [taken EXCEPT !.pos = 0, !.pos_discard = discarded] \in CacheEntry
    BY <1>1, <1>3, ShiftedEntry, Zenon
  <1> QED
    BY <1>2, <1>4

(* A shift leaves a typed state.                                           *)
LEMMA ShiftType ==
    ASSUME TypeOK, NEW t \in Tasks \cup {NoTask}, NEW room \in shift_completion_task_cache(t)
    PROVE  /\ room.task \in TaskTable
           /\ room.caches \in [Slots -> CacheEntry]
           /\ room.used \in Int /\ room.inactive \in Int
  <1> DEFINE Good(r) == /\ r.task \in TaskTable
                        /\ r.caches \in [Slots -> CacheEntry]
                        /\ r.used \in Int /\ r.inactive \in Int
  <1>1. Good(Unshifted)
    BY DEF Unshifted, TypeOK, TaskTable
  <1>2. ASSUME NEW s \in IdleCaches PROVE Good(SquashedIdle(s))
    <2> DEFINE n == Discardable(cache_prompts[s].pos)
               d == IF RemovesRange THEN n ELSE cache_prompts[s].pos
    <2>1. s \in Slots /\ cache_prompts[s] \in CacheEntry /\ cache_prompts[s].pos \in Int
                      /\ cache_prompts[s].pos > 0
      BY DEF IdleCaches, FreeSlots, TypeOK, CacheEntry
    <2>2. n \in Int
      BY <2>1, DiscardableType
    <2> HIDE DEF n
    <2>3. n > DiscardFloor => d \in Nat
      BY <2>1, <2>2, SchedulerAssumption
    <2> HIDE DEF d
    <2>4. ASSUME n > DiscardFloor
          PROVE  Good([Unshifted EXCEPT !.caches[s].pos = @ - d, !.caches[s].pos_discard = @ + d,
                                        !.used = @ - d, !.inactive = @ - d])
      <3> DEFINE entry == cache_prompts[s]
                 c == [cache_prompts EXCEPT ![s].pos = @ - d, ![s].pos_discard = @ + d]
      <3>1. c = [cache_prompts EXCEPT ![s] = [entry EXCEPT !.pos = entry.pos - d,
                                                           !.pos_discard = entry.pos_discard + d]]
        BY <2>1 DEF TypeOK
      <3>2. [entry EXCEPT !.pos = entry.pos - d, !.pos_discard = entry.pos_discard + d] \in CacheEntry
        <4>1. entry.pos - d \in Int /\ entry.pos_discard + d \in Nat
          BY <2>1, <2>3, <2>4 DEF CacheEntry
        <4> HIDE DEF entry
        <4> QED
          BY <2>1, <4>1, ShiftedEntry DEF entry
      <3>3. c \in [Slots -> CacheEntry]
        <4> HIDE DEF c, entry
        <4> QED
          BY <2>1, <3>1, <3>2 DEF TypeOK
      <3> QED
        BY <3>3, <2>3, <2>4 DEF Unshifted, TypeOK, TaskTable
    <2> QED
      BY <1>1, <2>2, <2>4, SchedulerAssumption DEF SquashedIdle, n, d
  <1>3. ASSUME t # NoTask PROVE Good(ShiftedTask(t))
    <2> DEFINE d == Discardable(task[t].pos)
    <2>1. t \in Tasks /\ task[t].pos \in Int
      BY <1>3 DEF TypeOK, TaskRecord
    <2>2. d \in Int
      BY <2>1, DiscardableType
    <2> HIDE DEF d
    <2>3. ASSUME d > DiscardFloor
          PROVE  Good([Unshifted EXCEPT !.task[t].pos = @ - d, !.task[t].pos_discard = @ + d,
                                        !.used = @ - d])
      <3>1. d \in Nat
        BY <2>2, <2>3, SchedulerAssumption
      <3>2. [task[t] EXCEPT !.pos = @ - d, !.pos_discard = @ + d] \in TaskRecord
        <4>1. task[t] \in TaskRecord
          BY <2>1 DEF TypeOK
        <4>2. task[t].pos - d \in Int /\ task[t].pos_discard + d \in Nat
          BY <3>1, <4>1 DEF TaskRecord
        <4> QED
          BY <4>1, <4>2, ShiftedRecord
      <3>3. [task EXCEPT ![t].pos = @ - d, ![t].pos_discard = @ + d] \in TaskTable
        <4>1. [task EXCEPT ![t].pos = @ - d, ![t].pos_discard = @ + d]
                = [task EXCEPT ![t] = [task[t] EXCEPT !.pos = @ - d, !.pos_discard = @ + d]]
          BY <2>1 DEF TypeOK
        <4> QED
          BY <2>1, <3>2, <4>1 DEF TypeOK, TaskTable
      <3> QED
        BY <3>1, <3>3 DEF Unshifted, TypeOK
    <2> QED
      BY <1>1, <2>2, <2>3, SchedulerAssumption DEF ShiftedTask, d
  <1>4. LargestIdle \subseteq IdleCaches
    BY DEF LargestIdle
  <1> HIDE DEF Good
  <1>5. Good(room)
    BY <1>1, <1>2, <1>3, <1>4 DEF shift_completion_task_cache
  <1> QED
    BY <1>5 DEF Good

(* A prompt never takes over more tokens than it has.                      *)
LEMMA PlacementType ==
    ASSUME TypeOK, NEW t \in Tasks, NEW place \in Placements(t)
    PROVE  /\ place.seq \in Slots
           /\ place.pos \in Int
           /\ place.cached \in Int
           /\ task[t].prompt - place.cached \in Nat
  <1> DEFINE Good(p) == /\ p.seq \in Slots /\ p.pos \in Int /\ p.cached \in Int
                        /\ task[t].prompt - p.cached \in Nat
  <1>1. task[t].prompt \in Nat /\ task[t].seq_id \in Slots
    BY DEF TypeOK, TaskRecord
  <1>2. ASSUME NEW s \in Slots PROVE Good(FromScratch(s))
    BY <1>1 DEF FromScratch
  <1>3. ASSUME NEW s \in Slots, NEW lcp \in 1 .. min(task[t].prompt, StoredTokens(s))
        PROVE  Good([seq |-> s, pos |-> min(cache_prompts[s].pos - 1, lcp - 1),
                     cached |-> lcp - 1])
    <2>1. cache_prompts[s].pos \in Int /\ StoredTokens(s) \in Int
      BY DEF TypeOK, CacheEntry, StoredTokens
    <2>2. lcp \in Nat /\ lcp <= task[t].prompt
      BY <1>1, <2>1 DEF min
    <2> QED
      BY <1>1, <2>1, <2>2 DEF min
  <1>4. FreeSlots \subseteq Slots
    BY DEF FreeSlots
  <1> HIDE DEF Good
  <1>5. Good(place)
    BY <1>1, <1>2, <1>3, <1>4 DEF Placements
  <1> QED
    BY <1>5 DEF Good

LEMMA SampledType ==
    ASSUME TypeOK, NEW t \in Tasks, NEW kept \in 0 .. DraftMax
    PROVE  Sampled(t, kept) \in TaskTable
  <1>1. task[t] \in TaskRecord /\ kept \in Int
    BY SchedulerAssumption DEF TypeOK
  <1>2. [task[t] EXCEPT !.pos = task[t].pos - (task[t].drafted - kept),
                        !.n_decoded = task[t].n_decoded + (1 + task[t].drafted),
                        !.budget = task[t].budget - (1 + task[t].drafted),
                        !.drafted = 0] \in TaskRecord
    <2>1. /\ task[t].pos - (task[t].drafted - kept) \in Int
          /\ task[t].n_decoded + (1 + task[t].drafted) \in Nat
          /\ task[t].budget - (1 + task[t].drafted) \in Int
      BY <1>1 DEF TaskRecord
    <2> QED
      BY <1>1, <2>1, SampledRecord
  <1>3. Sampled(t, kept)
          = [task EXCEPT ![t] = [task[t] EXCEPT
                !.pos = task[t].pos - (task[t].drafted - kept),
                !.n_decoded = task[t].n_decoded + (1 + task[t].drafted),
                !.budget = task[t].budget - (1 + task[t].drafted),
                !.drafted = 0]]
    BY DEF Sampled, TypeOK
  <1> QED
    BY <1>2, <1>3 DEF TaskTable, TypeOK

LEMMA UsedAfterType ==
    ASSUME TypeOK, NEW t \in Tasks, NEW kept \in 0 .. DraftMax
    PROVE  UsedAfter(t, kept) \in Int
  BY SchedulerAssumption DEF UsedAfter, TypeOK, TaskRecord

-----------------------------------------------------------------------------
(***************************************************************************)
(* Type correctness, one lemma per operation that does more than requeue.  *)
(***************************************************************************)

LEMMA SubmitType ==
    ASSUME TypeOK, NEW t \in Tasks, NEW tid \in Tids, NEW prompt \in Prompts,
           NEW max_tokens \in MaxTokens, Submit(t, tid, prompt, max_tokens)
    PROVE  TypeOK'
  <1>1. NewTask(tid, prompt, max_tokens) \in TaskRecord
    BY NewTaskType, ConstantTypes, SchedulerAssumption
  <1>2. task' \in [Tasks -> TaskRecord]
    BY <1>1 DEF Submit, TypeOK
  <1>3. location' \in [Tasks -> Locations]
    BY DEF Submit, TypeOK, Locations
  <1>4. serving' \in [Tids -> Tasks \cup {NoTask}]
    BY DEF Submit, TypeOK
  <1> QED
    BY <1>2, <1>3, <1>4 DEF Submit, registryAndCache, kv, batching, TypeOK

LEMMA PrefillType ==
    ASSUME TypeOK, NEW t \in Tasks, Prefill(t)
    PROVE  TypeOK'
  <1>1. PICK place \in Placements(t) :
            /\ cache_prompts' =
                   IF CachePrompt
                   THEN [cache_prompts EXCEPT ![place.seq] =
                            [cache_prompts[place.seq] EXCEPT
                                !.used = TRUE, !.pos = 0,
                                !.pos_discard = IF place.pos > 0 THEN @ ELSE 0]]
                   ELSE cache_prompts
            /\ register_completion_task(
                   [task EXCEPT ![t].seq_id = place.seq,
                                ![t].pos = place.pos + (task[t].prompt - place.cached)],
                   t, quotaFor(ActiveCount + 1))
            /\ llm_kv_cache_used' =
                   llm_kv_cache_used - (IF CachePrompt THEN cache_prompts[place.seq].pos ELSE 0)
                     + place.pos + (task[t].prompt - place.cached)
            /\ llm_kv_cache_inactive' =
                   llm_kv_cache_inactive - (IF CachePrompt THEN cache_prompts[place.seq].pos ELSE 0)
            /\ batch_tokens' = task[t].prompt - place.cached
    BY DEF Prefill
  <1> DEFINE added  == task[t].prompt - place.cached
             placed == [task EXCEPT ![t].seq_id = place.seq, ![t].pos = place.pos + added]
  <1>2. place.seq \in Slots /\ place.pos \in Int /\ added \in Nat
    BY PlacementType
  <1>3. placed \in TaskTable
    <2> HIDE DEF added
    <2>1. task[t] \in TaskRecord /\ place.pos + added \in Int
      BY <1>2 DEF TypeOK
    <2>2. [task[t] EXCEPT !.seq_id = place.seq, !.pos = place.pos + added] \in TaskRecord
      BY <1>2, <2>1, PlacedRecord
    <2>3. placed = [task EXCEPT ![t] = [task[t] EXCEPT !.seq_id = place.seq,
                                                       !.pos = place.pos + added]]
      BY DEF TypeOK
    <2> QED
      BY <2>2, <2>3 DEF TypeOK, TaskTable
  <1>4. cache_prompts[place.seq] \in CacheEntry /\ cache_prompts[place.seq].pos \in Int
    BY <1>2 DEF TypeOK, CacheEntry
  <1>5. cache_prompts' \in [Slots -> CacheEntry]
    <2> DEFINE entry == cache_prompts[place.seq]
               discarded == IF place.pos > 0 THEN entry.pos_discard ELSE 0
               taken == [entry EXCEPT !.used = TRUE, !.pos = 0, !.pos_discard = discarded]
    <2>1. entry \in CacheEntry
      BY <1>4
    <2>2. \/ cache_prompts' = cache_prompts
          \/ cache_prompts' = [cache_prompts EXCEPT ![place.seq] = taken]
      BY <1>1
    <2> HIDE DEF entry
    <2>3. discarded \in Nat
      BY <2>1 DEF CacheEntry
    <2> HIDE DEF discarded
    <2>4. taken \in CacheEntry
      BY <2>1, <2>3, TakenEntry
    <2> HIDE DEF taken
    <2> QED
      BY <1>2, <2>2, <2>4 DEF TypeOK
  <1>6. ActiveCount + 1 \in Nat
    BY EntriesCounted DEF ActiveCount
  <1>7. /\ task' \in TaskTable
        /\ active_completion_tasks' \in [Tids -> Tasks \cup {NoTask}]
    <2>1. register_completion_task(placed, t, quotaFor(ActiveCount + 1))
      BY <1>1
    <2> HIDE DEF placed
    <2> QED
      BY <1>3, <1>6, <2>1, QuotaForType, RegisterType
  <1>8. /\ llm_kv_cache_used' \in Int /\ llm_kv_cache_inactive' \in Int
        /\ batch_tokens' \in Nat
    BY <1>1, <1>2, <1>4 DEF TypeOK
  <1>9. location' \in [Tasks -> Locations]
    BY DEF Prefill, Move, TypeOK, Locations
  <1> QED
    BY <1>5, <1>7, <1>8, <1>9 DEF Prefill, TypeOK, TaskTable, environment

LEMMA JoinDecodeType ==
    ASSUME TypeOK, NEW t \in Tasks, JoinDecode(t)
    PROVE  TypeOK'
  <1> DEFINE added == 1 + task[t].drafted
  <1>1. PICK room \in (IF llm_kv_cache_used >= llm_kv_cache_limit
                       THEN shift_completion_task_cache(t)
                       ELSE {Unshifted}) :
            /\ task' = [room.task EXCEPT ![t].pos = @ + added]
            /\ cache_prompts' = room.caches
            /\ llm_kv_cache_used' = room.used + added
            /\ llm_kv_cache_inactive' = room.inactive
            /\ batch_tokens' = batch_tokens + added
    BY DEF JoinDecode
  <1>2. /\ Unshifted.task \in TaskTable
        /\ Unshifted.caches \in [Slots -> CacheEntry]
        /\ Unshifted.used \in Int /\ Unshifted.inactive \in Int
    BY DEF Unshifted, TypeOK, TaskTable
  <1>3. /\ room.task \in TaskTable
        /\ room.caches \in [Slots -> CacheEntry]
        /\ room.used \in Int /\ room.inactive \in Int
    BY <1>2, ShiftType
  <1>4. added \in Nat
    BY DEF TypeOK, TaskRecord
  <1> HIDE DEF added
  <1>5. task' \in TaskTable
    <2>1. room.task[t] \in TaskRecord
      BY <1>3 DEF TaskTable
    <2>2. [room.task[t] EXCEPT !.pos = @ + added] \in TaskRecord
      BY <1>4, <2>1 DEF TaskRecord
    <2>3. task' = [room.task EXCEPT ![t] = [room.task[t] EXCEPT !.pos = @ + added]]
      BY <1>1, <1>3 DEF TaskTable
    <2> QED
      BY <1>3, <2>2, <2>3 DEF TaskTable
  <1>6. location' \in [Tasks -> Locations]
    BY DEF JoinDecode, Move, TypeOK, Locations
  <1> QED
    BY <1>1, <1>3, <1>4, <1>5, <1>6 DEF JoinDecode, TypeOK, TaskTable, environment

LEMMA MakeRoomType ==
    ASSUME TypeOK, MakeRoom
    PROVE  TypeOK'
  <1>1. PICK t \in (IF Decoding = {} THEN {NoTask} ELSE Longest) :
            \E room \in shift_completion_task_cache(t) :
                /\ task' = room.task
                /\ cache_prompts' = room.caches
                /\ llm_kv_cache_used' = room.used
                /\ llm_kv_cache_inactive' = room.inactive
    BY DEF MakeRoom
  <1>2. t \in Tasks \cup {NoTask}
    BY <1>1 DEF Longest, Decoding, Batch, At
  <1>3. /\ task' \in TaskTable /\ cache_prompts' \in [Slots -> CacheEntry]
        /\ llm_kv_cache_used' \in Int /\ llm_kv_cache_inactive' \in Int
    BY <1>1, <1>2, ShiftType
  <1>4. retries' \in 0 .. MaxRetries
    BY SchedulerAssumption DEF MakeRoom, TypeOK
  <1> QED
    BY <1>3, <1>4 DEF MakeRoom, TypeOK, TaskTable, environment

(* The ways a task ends keep the type, whatever table and count they get.  *)
LEMMA AbortType ==
    ASSUME TypeOK, NEW tasks \in TaskTable, NEW t \in Tasks, NEW used \in Int,
           Abort(tasks, t, used)
    PROVE  TypeOK'
  <1>1. tasks[t].pos \in Int /\ tasks[t].seq_id \in Slots
    BY DEF TaskTable, TaskRecord
  <1>2. cache_prompts' \in [Slots -> CacheEntry]
    <2>1. EmptyEntry \in CacheEntry
      BY DEF EmptyEntry, CacheEntry
    <2>2. \/ cache_prompts' = cache_prompts
          \/ cache_prompts' = [cache_prompts EXCEPT ![tasks[t].seq_id] = EmptyEntry]
      BY DEF Abort
    <2> QED
      BY <2>1, <2>2 DEF TypeOK
  <1>3. /\ task' \in TaskTable
        /\ active_completion_tasks' \in [Tids -> Tasks \cup {NoTask}]
    BY ReleaseType DEF Abort
  <1>4. /\ outcome' \in [Tasks -> {"none", "ok", "error"}]
        /\ serving' \in [Tids -> Tasks \cup {NoTask}]
    BY DEF Abort, Post, TypeOK
  <1>5. /\ location' \in [Tasks -> Locations]
        /\ phase' \in {"idle", "batching", "decode", "decode_draft", "failing", "sample", "crashed"}
    BY DEF Abort, LeaveBatch, Move, TypeOK, Locations
  <1> QED
    BY <1>1, <1>2, <1>3, <1>4, <1>5 DEF Abort, TypeOK, TaskTable, batching

LEMMA RetireType ==
    ASSUME TypeOK, NEW tasks \in TaskTable, NEW t \in Tasks, NEW used \in Int,
           Retire(tasks, t, used),
           outcome' \in [Tasks -> {"none", "ok", "error"}],
           serving' \in [Tids -> Tasks \cup {NoTask}]
    PROVE  TypeOK'
  <1>1. /\ tasks[t].pos \in Int /\ tasks[t].seq_id \in Slots
        /\ tasks[t].pos_discard \in Nat
    BY DEF TaskTable, TaskRecord
  <1>2. cache_prompts' \in [Slots -> CacheEntry]
    <2>1. cache_prompts[tasks[t].seq_id] \in CacheEntry
      BY <1>1 DEF TypeOK
    <2>2. [used |-> FALSE, pos |-> tasks[t].pos,
           pos_discard |-> cache_prompts[tasks[t].seq_id].pos_discard + tasks[t].pos_discard]
              \in CacheEntry
      BY <1>1, <2>1 DEF CacheEntry
    <2>3. \/ cache_prompts' = cache_prompts
          \/ cache_prompts' = [cache_prompts EXCEPT ![tasks[t].seq_id] =
                [used |-> FALSE, pos |-> tasks[t].pos,
                 pos_discard |-> cache_prompts[tasks[t].seq_id].pos_discard + tasks[t].pos_discard]]
      BY DEF Retire
    <2> QED
      BY <2>2, <2>3 DEF TypeOK
  <1>3. /\ task' \in TaskTable
        /\ active_completion_tasks' \in [Tids -> Tasks \cup {NoTask}]
    BY ReleaseType DEF Retire
  <1>4. /\ location' \in [Tasks -> Locations]
        /\ phase' \in {"idle", "batching", "decode", "decode_draft", "failing", "sample", "crashed"}
    BY DEF Retire, LeaveBatch, Move, TypeOK, Locations
  <1>5. llm_kv_cache_used' \in Int /\ llm_kv_cache_inactive' \in Int
    BY <1>1 DEF Retire, TypeOK
  <1> QED
    BY <1>2, <1>3, <1>4, <1>5 DEF Retire, TypeOK, TaskTable, batching

LEMMA ContinueType ==
    ASSUME TypeOK, NEW t \in Tasks, NEW kept \in 0 .. DraftMax, Continue(t, kept)
    PROVE  TypeOK'
  <1> DEFINE sampled == Sampled(t, kept)
  <1>1. PICK drafted \in DraftSizes(sampled[t].budget) :
            task' = [sampled EXCEPT ![t].drafted = drafted]
    BY DEF Continue
  <1>2. sampled \in TaskTable
    BY SampledType
  <1> HIDE DEF sampled
  <1>3. sampled[t].budget \in Int
    BY <1>2 DEF TaskTable, TaskRecord
  <1>4. drafted \in Nat
    BY <1>1, <1>3, SchedulerAssumption DEF DraftSizes, min, max
  <1>5. task' \in TaskTable
    <2>1. [sampled[t] EXCEPT !.drafted = drafted] \in TaskRecord
      BY <1>2, <1>4 DEF TaskTable, TaskRecord
    <2>2. task' = [sampled EXCEPT ![t] = [sampled[t] EXCEPT !.drafted = drafted]]
      BY <1>1
    <2> QED
      BY <1>2, <2>1, <2>2 DEF TaskTable
  <1>6. /\ location' \in [Tasks -> Locations]
        /\ phase' \in {"idle", "batching", "decode", "decode_draft", "failing", "sample", "crashed"}
    BY DEF Continue, LeaveBatch, Move, TypeOK, Locations
  <1> QED
    BY <1>5, <1>6, UsedAfterType DEF Continue, TypeOK, TaskTable, environment, registryAndCache, batching

(* Neither do the steps that only move tasks about touch the rest.         *)
LEMMA RequeueType ==
    ASSUME TypeOK, NEW t \in Tasks, Requeue(t)
    PROVE  TypeOK'
  <1>1. location' \in [Tasks -> Locations]
    BY DEF Requeue, Move, TypeOK, Locations
  <1> QED
    BY <1>1 DEF Requeue, environment, registryAndCache, kv, batching, TypeOK

LEMMA WalkType ==
    ASSUME TypeOK, NEW t \in Tasks, Walk(t)
    PROVE  TypeOK'
  <1>1. CASE Requeue(t)
    BY <1>1, RequeueType
  <1>2. CASE Prefill(t)
    BY <1>2, PrefillType
  <1>3. CASE PrefillThrows(t)
    BY <1>3 DEF PrefillThrows, environment, registryAndCache, kv, batching, TypeOK
  <1>4. CASE JoinDecode(t)
    BY <1>4, JoinDecodeType
  <1> QED
    BY <1>1, <1>2, <1>3, <1>4 DEF Walk, LoraWaits, AdmissionWaits, KvWaits, Throttle, Defer

LEMMA ProcessType ==
    ASSUME TypeOK, NEW t \in Tasks, Process(t)
    PROVE  TypeOK'
  <1>1. CASE FailTask(t)
    <2>1. task \in TaskTable /\ llm_kv_cache_used \in Int
      BY DEF TypeOK, TaskTable
    <2> QED
      BY <1>1, <2>1, AbortType DEF FailTask
  <1>2. ASSUME NEW kept \in 0 .. DraftMax,
               Finish(t, kept) \/ Continue(t, kept) \/ Drop(t, kept) \/ DraftFails(t, kept)
        PROVE  TypeOK'
    <2>1. Sampled(t, kept) \in TaskTable /\ UsedAfter(t, kept) \in Int
      BY SampledType, UsedAfterType
    <2>2. CASE Finish(t, kept)
      <3>1. /\ outcome' \in [Tasks -> {"none", "ok", "error"}]
            /\ serving' \in [Tids -> Tasks \cup {NoTask}]
        BY <2>2 DEF Finish, Post, TypeOK
      <3> QED
        BY <2>1, <2>2, <3>1, RetireType DEF Finish
    <2>3. CASE Continue(t, kept)
      BY <2>3, ContinueType
    <2>4. CASE Drop(t, kept)
      <3>1. /\ outcome' \in [Tasks -> {"none", "ok", "error"}]
            /\ serving' \in [Tids -> Tasks \cup {NoTask}]
        BY <2>4 DEF Drop, TypeOK
      <3> QED
        BY <2>1, <2>4, <3>1, RetireType DEF Drop
    <2>5. CASE DraftFails(t, kept)
      BY <2>1, <2>5, AbortType DEF DraftFails
    <2> QED
      BY <1>2, <2>2, <2>3, <2>4, <2>5
  <1> QED
    BY <1>1, <1>2 DEF Process

LEMMA InitType ==
    ASSUME Init
    PROVE  TypeOK
  <1>1. NewTask(0, 1, 0) \in TaskRecord
    BY NewTaskType, ConstantTypes
  <1>2. task \in [Tasks -> TaskRecord] /\ cache_prompts \in [Slots -> CacheEntry]
    BY <1>1 DEF Init, EmptyEntry, CacheEntry
  <1>3. /\ location \in [Tasks -> Locations]
        /\ outcome \in [Tasks -> {"none", "ok", "error"}]
    BY DEF Init, Locations
  <1>4. retries \in 0 .. MaxRetries
    BY SchedulerAssumption DEF Init
  <1>5. lora_adapters \in BOOLEAN
    BY DEF Init
  <1>6. /\ serving \in [Tids -> Tasks \cup {NoTask}]
        /\ active_completion_tasks \in [Tids -> Tasks \cup {NoTask}]
    BY DEF Init
  <1> QED
    BY <1>2, <1>3, <1>4, <1>5, <1>6 DEF Init, TypeOK

LEMMA TypeStep ==
    ASSUME TypeOK, [Next]_vars
    PROVE  TypeOK'
  <1>1. ASSUME NEW t \in Tasks, NEW tid \in Tids, NEW prompt \in Prompts,
               NEW max_tokens \in MaxTokens, Submit(t, tid, prompt, max_tokens)
        PROVE  TypeOK'
    BY <1>1, SubmitType
  <1>2. ASSUME NEW t \in Tasks, Disconnect(t) PROVE TypeOK'
    BY <1>2 DEF Disconnect, registryAndCache, kv, batching, TypeOK
  <1>3. ASSUME NEW tid \in Tids, Abandon(tid) PROVE TypeOK'
    BY <1>3 DEF Abandon, registryAndCache, kv, batching, TypeOK
  <1>4. CASE Dequeue
    BY <1>4 DEF Dequeue, environment, registryAndCache, kv, TypeOK, Locations, get_lora_adapters
  <1>5. ASSUME NEW t \in Tasks, Walk(t) PROVE TypeOK'
    BY <1>5, WalkType
  <1>6. CASE CloseBatch
    BY <1>6, SchedulerAssumption DEF CloseBatch, environment, registryAndCache, kv, TypeOK
  <1>7. CASE MakeRoom
    BY <1>7, MakeRoomType
  <1>8. CASE Decodes
    BY <1>8, SchedulerAssumption DEF Decodes, environment, registryAndCache, kv, TypeOK
  <1>9. CASE DecodeFails
    BY <1>9 DEF DecodeFails, environment, registryAndCache, kv, batching, TypeOK
  <1>10. ASSUME NEW t \in Tasks, Process(t) PROVE TypeOK'
    BY <1>10, ProcessType
  <1>11. CASE UNCHANGED vars
    BY <1>11 DEF vars, environment, registryAndCache, kv, batching, TypeOK
  <1> QED
    BY <1>1, <1>2, <1>3, <1>4, <1>5, <1>6, <1>7, <1>8, <1>9, <1>10, <1>11
    DEF Next, Environment, reconcile, DequeueTimesOut

(***************************************************************************)
(* Every variable keeps its type: in particular no shift, rejected draft   *)
(* or cache hit makes a counter of tokens negative that must not be, and   *)
(* the attempts to make room never exceed their bound.                     *)
(***************************************************************************)
THEOREM TypeCorrect == Spec => []TypeOK
  <1>1. Init => TypeOK
    BY InitType
  <1>2. TypeOK /\ [Next]_vars => TypeOK'
    BY TypeStep
  <1> QED
    BY <1>1, <1>2, PTL DEF Spec

-----------------------------------------------------------------------------
(***************************************************************************)
(* Dynamic context allocation.  As long as no stream is abandoned, every   *)
(* unfinished task is the one its HTTP thread waits for, so two of them    *)
(* never share a task id: that is what makes the registry, which is        *)
(* indexed by task id, exact.  The limits follow from the registry, and    *)
(* the bounds on positions and budgets from the limits.                    *)
(***************************************************************************)

Served == \A t \in Live : serving[task[t].tid] = t

RegistryOfHolders ==
    /\ \A tid \in Tids : active_completion_tasks[tid] # NoTask =>
           /\ active_completion_tasks[tid] \in Holders
           /\ task[active_completion_tasks[tid]].tid = tid
    /\ \A t \in Holders : active_completion_tasks[task[t].tid] = t /\ task[t].admitted

LimitsExact == \A t \in Holders : task[t].limit = quotaFor(ActiveCount)

(* What t has put in the batch beyond the position its limit was checked   *)
(* against: the last sampled token and the drafted ones.                   *)
Ahead(t) == IF t \in Batch /\ ~AwaitsPrefill(t) THEN 1 + task[t].drafted ELSE 0

QuotaBounds ==
    \A t \in Holders :
        /\ task[t].pos - Ahead(t) <= task[t].limit
        /\ task[t].budget <= task[t].limit - (task[t].pos - Ahead(t))

NothingBatched ==
    phase = "idle" \/ (phase = "batching" /\ batch_process_type = "unknown") => Batch = {}

Inv ==
    /\ TypeOK
    /\ closed \subseteq MayClose
    /\ NothingBatched
    /\ Served
    /\ RegistryOfHolders
    /\ LimitsExact
    /\ QuotaBounds

(* The task table keeps the fields that tie tasks to the registry.         *)
KeepsIdentity(tasks) ==
    \A u \in Tasks : /\ tasks[u].tid = task[u].tid
                     /\ tasks[u].admitted = task[u].admitted
                     /\ tasks[u].limit = task[u].limit

KeepsProgress(tasks, u) ==
    /\ tasks[u].n_decoded = task[u].n_decoded
    /\ tasks[u].drafted = task[u].drafted
    /\ tasks[u].budget = task[u].budget

LEMMA RequotedFields ==
    ASSUME NEW tasks \in TaskTable, NEW registry, NEW quota \in Nat, NEW u \in Tasks
    PROVE  LET new == Requoted(tasks, registry, quota)[u]
           IN  /\ new.tid = tasks[u].tid
               /\ new.admitted = tasks[u].admitted
               /\ new.n_decoded = tasks[u].n_decoded
               /\ new.drafted = tasks[u].drafted
               /\ new.pos = tasks[u].pos
               /\ new.seq_id = tasks[u].seq_id
               /\ u \in RegisteredIn(registry) => new.limit = quota
               /\ u \notin RegisteredIn(registry) => new = tasks[u]
               /\ dynamic_context_enabled /\ tasks[u].admitted /\ u \in RegisteredIn(registry) =>
                      new.budget <= max(0, quota - position_for_budget(tasks[u].pos))
  <1> DEFINE rec == [tasks[u] EXCEPT !.limit = quota]
             b   == remaining_output_budget(rec.limit, position_for_budget(rec.pos),
                                            rec.requested, rec.n_decoded)
  <1>1. /\ rec \in TaskRecord
        /\ rec.tid = tasks[u].tid /\ rec.admitted = tasks[u].admitted
        /\ rec.n_decoded = tasks[u].n_decoded /\ rec.drafted = tasks[u].drafted
        /\ rec.pos = tasks[u].pos /\ rec.limit = quota /\ rec.seq_id = tasks[u].seq_id
    BY DEF TaskTable, TaskRecord
  <1>2. Requoted(tasks, registry, quota)[u]
          = IF u \in RegisteredIn(registry) THEN Refreshed(rec) ELSE tasks[u]
    BY DEF Requoted
  <1> HIDE DEF rec
  <1>3. PICK budget \in Int : Refreshed(rec) = [rec EXCEPT !.budget = budget]
    BY <1>1, RefreshedRecord
  <1>4. /\ Refreshed(rec).tid = rec.tid /\ Refreshed(rec).admitted = rec.admitted
        /\ Refreshed(rec).n_decoded = rec.n_decoded /\ Refreshed(rec).drafted = rec.drafted
        /\ Refreshed(rec).pos = rec.pos /\ Refreshed(rec).limit = rec.limit
        /\ Refreshed(rec).seq_id = rec.seq_id
    BY <1>1, <1>3 DEF TaskRecord
  <1>5. dynamic_context_enabled /\ rec.admitted => Refreshed(rec).budget = b
    BY <1>1 DEF Refreshed, TaskRecord
  <1>6. b <= max(0, quota - position_for_budget(rec.pos))
    <2>1. rec.pos \in Int /\ rec.requested \in Int /\ rec.n_decoded \in Nat
      BY <1>1 DEF TaskRecord
    <2> QED
      BY <1>1, <2>1 DEF remaining_output_budget, min, max, position_for_budget, INT32_MAX
  <1> HIDE DEF b
  <1> QED
    BY <1>1, <1>2, <1>4, <1>5, <1>6

(* A shift only moves a task back.                                         *)
LEMMA ShiftKeeps ==
    ASSUME TypeOK, NEW t \in Tasks \cup {NoTask}, NEW room \in shift_completion_task_cache(t)
    PROVE  /\ \A u \in Tasks : /\ room.task[u].tid = task[u].tid
                               /\ room.task[u].admitted = task[u].admitted
                               /\ room.task[u].limit = task[u].limit
                               /\ KeepsProgress(room.task, u)
                               /\ room.task[u].pos <= task[u].pos
  <1> DEFINE Good(r) == \A u \in Tasks : /\ r.task[u].tid = task[u].tid
                                         /\ r.task[u].admitted = task[u].admitted
                                         /\ r.task[u].limit = task[u].limit
                                         /\ KeepsProgress(r.task, u)
                                         /\ r.task[u].pos <= task[u].pos
  <1>1. ASSUME NEW r, r.task = task PROVE Good(r)
    BY <1>1 DEF TypeOK, TaskRecord, KeepsProgress
  <1>2. Good(Unshifted)
    BY <1>1 DEF Unshifted
  <1>3. ASSUME NEW s \in IdleCaches PROVE Good(SquashedIdle(s))
    <2>1. SquashedIdle(s).task = task
      BY DEF SquashedIdle, Unshifted
    <2> QED
      BY <1>1, <2>1
  <1>4. ASSUME t # NoTask PROVE Good(ShiftedTask(t))
    <2> DEFINE d == Discardable(task[t].pos)
    <2>1. t \in Tasks /\ task[t] \in TaskRecord /\ task[t].pos \in Int
      BY <1>4 DEF TypeOK, TaskRecord
    <2>2. d \in Int
      BY <2>1, DiscardableType
    <2> HIDE DEF d
    <2>3. ASSUME d > DiscardFloor
          PROVE  Good([Unshifted EXCEPT !.task[t].pos = @ - d, !.task[t].pos_discard = @ + d,
                                        !.used = @ - d])
      <3>1. d \in Nat
        BY <2>2, <2>3, SchedulerAssumption
      <3> DEFINE shifted == [task EXCEPT ![t].pos = @ - d, ![t].pos_discard = @ + d]
      <3>2. ASSUME NEW r, r.task = shifted PROVE Good(r)
        <4>1. ASSUME NEW u \in Tasks
              PROVE  /\ shifted[u].tid = task[u].tid
                     /\ shifted[u].admitted = task[u].admitted
                     /\ shifted[u].limit = task[u].limit
                     /\ KeepsProgress(shifted, u)
                     /\ shifted[u].pos <= task[u].pos
          BY <2>1, <3>1 DEF TypeOK, TaskRecord, KeepsProgress
        <4> QED
          BY <3>2, <4>1
      <3>3. [Unshifted EXCEPT !.task[t].pos = @ - d, !.task[t].pos_discard = @ + d,
                              !.used = @ - d].task = shifted
        BY DEF Unshifted
      <3> HIDE DEF shifted, Good
      <3> QED
        BY <3>2, <3>3
    <2> QED
      BY <1>2, <2>2, <2>3, SchedulerAssumption DEF ShiftedTask, d
  <1>5. LargestIdle \subseteq IdleCaches
    BY DEF LargestIdle
  <1> HIDE DEF Good
  <1>6. Good(room)
    BY <1>2, <1>3, <1>4, <1>5 DEF shift_completion_task_cache
  <1> QED
    BY <1>6 DEF Good

LEMMA SampledFields ==
    ASSUME TypeOK, NEW t \in Tasks, NEW kept \in 0 .. DraftMax
    PROVE  /\ KeepsIdentity(Sampled(t, kept))
           /\ \A u \in Tasks \ {t} : Sampled(t, kept)[u] = task[u]
           /\ Sampled(t, kept)[t].n_decoded = task[t].n_decoded + 1 + task[t].drafted
           /\ Sampled(t, kept)[t].budget = task[t].budget - (1 + task[t].drafted)
           /\ Sampled(t, kept)[t].pos = task[t].pos - (task[t].drafted - kept)
  BY DEF Sampled, KeepsIdentity, TypeOK, TaskRecord

-----------------------------------------------------------------------------
(***************************************************************************)
(* Steps that admit and release nobody.                                    *)
(***************************************************************************)

(* The same tasks run, under the same limits.                              *)
LEMMA QuietStep ==
    ASSUME Inv, TypeOK',
           closed' \subseteq MayClose,
           Live' \subseteq Live, Holders' = Holders,
           serving' = serving, active_completion_tasks' = active_completion_tasks,
           KeepsIdentity(task'),
           NothingBatched', QuotaBounds'
    PROVE  Inv'
  <1>1. Served'
    BY DEF Inv, Served, KeepsIdentity, Live, Queued, Round, Batch, At
  <1>2. Holders \subseteq Tasks
    BY DEF Holders, Live, Queued, Round, Batch, At
  <1>3. ASSUME NEW tid \in Tids, active_completion_tasks'[tid] # NoTask
        PROVE  /\ active_completion_tasks'[tid] \in Holders'
               /\ task'[active_completion_tasks'[tid]].tid = tid
    BY <1>2, <1>3 DEF Inv, RegistryOfHolders, KeepsIdentity
  <1>4. ASSUME NEW t \in Holders'
        PROVE  active_completion_tasks'[task'[t].tid] = t /\ task'[t].admitted
    BY <1>2, <1>4 DEF Inv, RegistryOfHolders, KeepsIdentity
  <1>5. ActiveCount' = ActiveCount
    BY DEF ActiveCount
  <1>6. LimitsExact'
    BY <1>2, <1>5 DEF Inv, LimitsExact, KeepsIdentity, quotaFor
  <1> QED
    BY <1>1, <1>3, <1>4, <1>6 DEF Inv, RegistryOfHolders

(* Nothing but the place of tasks changes, and the batch stays.            *)
LEMMA QuietMove ==
    ASSUME Inv, TypeOK',
           closed' \subseteq MayClose,
           Live' = Live, Batch' = Batch, task' = task,
           serving' = serving, active_completion_tasks' = active_completion_tasks,
           NothingBatched'
    PROVE  Inv'
  <1>1. Holders' = Holders
    BY DEF Holders, AwaitsPrefill
  <1>2. KeepsIdentity(task')
    BY DEF KeepsIdentity
  <1>3. QuotaBounds'
    BY <1>1 DEF Inv, QuotaBounds, Ahead, AwaitsPrefill
  <1> QED
    BY <1>1, <1>2, <1>3, QuietStep

LEMMA RequeueKeeps ==
    ASSUME Inv, TypeOK', NEW t \in Round, Requeue(t)
    PROVE  Inv'
  <1>1. Live' = Live /\ Batch' = Batch
    BY DEF Requeue, Move, Inv, TypeOK, Live, Queued, Round, Batch, At
  <1>2. NothingBatched'
    BY <1>1 DEF Inv, NothingBatched, Requeue, batching
  <1> QED
    BY <1>1, <1>2, QuietMove DEF Requeue, environment, registryAndCache, Inv

LEMMA DequeueKeeps ==
    ASSUME Inv, TypeOK', Dequeue
    PROVE  Inv'
  <1>1. PICK taken \in SUBSET Queued :
            location' = [t \in Tasks |-> IF t \in taken THEN "round" ELSE location[t]]
    BY DEF Dequeue, kSubset
  <1>2. Live' = Live /\ Batch' = Batch
    BY <1>1 DEF Inv, TypeOK, Live, Queued, Round, Batch, At
  <1>3. NothingBatched'
    BY <1>2 DEF Inv, NothingBatched, Dequeue
  <1> QED
    BY <1>2, <1>3, QuietMove DEF Dequeue, environment, registryAndCache, Inv

LEMMA BatchDone ==
    ASSUME Inv, TypeOK', CloseBatch \/ Decodes \/ DecodeFails
    PROVE  Inv'
  <1>1. Live' = Live /\ Batch' = Batch
    BY DEF CloseBatch, Decodes, DecodeFails, Live, Queued, Round, Batch, At
  <1>2. NothingBatched'
    BY <1>1 DEF Inv, NothingBatched, CloseBatch, Decodes, DecodeFails, Decoders, batching
  <1> QED
    BY <1>1, <1>2, QuietMove
    DEF CloseBatch, Decodes, DecodeFails, environment, registryAndCache, Inv

LEMMA PrefillThrowsKeeps ==
    ASSUME Inv, TypeOK', NEW t \in Tasks, PrefillThrows(t)
    PROVE  Inv'
  <1>1. Live' = Live /\ Batch' = Batch
    BY DEF PrefillThrows, Live, Queued, Round, Batch, At
  <1>2. NothingBatched'
    BY DEF NothingBatched, PrefillThrows
  <1> QED
    BY <1>1, <1>2, QuietMove DEF PrefillThrows, environment, registryAndCache, Inv

LEMMA DisconnectKeeps ==
    ASSUME Inv, TypeOK', NEW t \in Tasks, Disconnect(t)
    PROVE  Inv'
  <1>1. Live' = Live /\ Batch' = Batch
    BY DEF Disconnect, Live, Queued, Round, Batch, At
  <1>2. NothingBatched'
    BY <1>1 DEF Inv, NothingBatched, Disconnect, batching
  <1> QED
    BY <1>1, <1>2, QuietMove DEF Disconnect, registryAndCache, Inv

(* A decoding task joins the batch, perhaps shifted first.                 *)
LEMMA JoinDecodeKeeps ==
    ASSUME Inv, TypeOK', NEW t \in Tasks, JoinDecode(t)
    PROVE  Inv'
  <1> DEFINE added == 1 + task[t].drafted
  <1>1. PICK room \in (IF llm_kv_cache_used >= llm_kv_cache_limit
                       THEN shift_completion_task_cache(t)
                       ELSE {Unshifted}) :
            task' = [room.task EXCEPT ![t].pos = @ + added]
    BY DEF JoinDecode
  <1>2. \A u \in Tasks : /\ room.task[u].tid = task[u].tid
                         /\ room.task[u].admitted = task[u].admitted
                         /\ room.task[u].limit = task[u].limit
                         /\ KeepsProgress(room.task, u)
                         /\ room.task[u].pos <= task[u].pos
    <2>1. CASE room = Unshifted
      BY <2>1 DEF Unshifted, Inv, TypeOK, TaskRecord, KeepsProgress
    <2>2. CASE room \in shift_completion_task_cache(t)
      BY <2>2, ShiftKeeps DEF Inv
    <2> QED
      BY <1>1, <2>1, <2>2
  <1>3. room.task \in TaskTable
    <2>1. CASE room = Unshifted
      BY <2>1 DEF Unshifted, Inv, TypeOK, TaskTable
    <2>2. CASE room \in shift_completion_task_cache(t)
      BY <2>2, ShiftType DEF Inv
    <2> QED
      BY <1>1, <2>1, <2>2
  <1>4. /\ t \in Round /\ location[t] = "round" /\ ~AwaitsPrefill(t)
        /\ location' = [location EXCEPT ![t] = "batch"]
    BY DEF JoinDecode, ConsidersDecode, Walked, Round, At, Move
  <1>5. ASSUME NEW u \in Tasks
        PROVE  /\ task'[u].tid = task[u].tid
               /\ task'[u].admitted = task[u].admitted
               /\ task'[u].limit = task[u].limit
               /\ KeepsProgress(task', u)
               /\ u # t => task'[u].pos <= task[u].pos
               /\ u = t => task'[u].pos - added <= task[u].pos
    <2>1. room.task[u] \in TaskRecord /\ added \in Nat
      BY <1>3 DEF TaskTable, Inv, TypeOK, TaskRecord
    <2> HIDE DEF added
    <2>2. CASE u # t
      <3>1. task'[u] = room.task[u]
        BY <1>1, <1>3, <2>2 DEF TaskTable
      <3> QED
        BY <1>2, <2>2, <3>1 DEF KeepsProgress
    <2>3. CASE u = t
      <3>1. task'[u] = [room.task[u] EXCEPT !.pos = @ + added]
        BY <1>1, <1>3, <2>3 DEF TaskTable
      <3>2. /\ task'[u].tid = room.task[u].tid /\ task'[u].admitted = room.task[u].admitted
            /\ task'[u].limit = room.task[u].limit
            /\ task'[u].n_decoded = room.task[u].n_decoded
            /\ task'[u].drafted = room.task[u].drafted
            /\ task'[u].budget = room.task[u].budget
            /\ task'[u].pos = room.task[u].pos + added
        BY <2>1, <3>1 DEF TaskRecord
      <3>3. task'[u].pos - added = room.task[u].pos
        BY <2>1, <3>2 DEF TaskRecord
      <3> QED
        BY <1>2, <2>3, <3>2, <3>3 DEF KeepsProgress
    <2> QED
      BY <2>2, <2>3
  <1>6. /\ Live' = Live /\ Holders' = Holders /\ Batch' = Batch \cup {t}
    BY <1>4, <1>5
    DEF Inv, TypeOK, KeepsProgress, Holders, Live, Queued, Round, Batch, At, AwaitsPrefill
  <1>7. QuotaBounds'
    <2> SUFFICES ASSUME NEW u \in Holders'
                 PROVE  /\ task'[u].pos - Ahead(u)' <= task'[u].limit
                        /\ task'[u].budget <= task'[u].limit - (task'[u].pos - Ahead(u)')
      BY DEF QuotaBounds
    <2>1. /\ u \in Holders /\ u \in Tasks
          /\ task[u].pos - Ahead(u) <= task[u].limit
          /\ task[u].budget <= task[u].limit - (task[u].pos - Ahead(u))
      BY <1>6 DEF Inv, QuotaBounds, Holders, Live, Queued, Round, Batch, At
    <2>2. /\ task[u].pos \in Int /\ task'[u].pos \in Int /\ task[u].limit \in Int
          /\ task[u].budget \in Int /\ task[u].drafted \in Nat
      BY <2>1 DEF Inv, TypeOK, TaskRecord
    <2>3. CASE u # t
      <3>1. Ahead(u)' = Ahead(u) /\ Ahead(u) \in Int
        BY <1>5, <1>6, <2>1, <2>2, <2>3 DEF Ahead, AwaitsPrefill, KeepsProgress
      <3> QED
        BY <1>5, <2>1, <2>2, <2>3, <3>1 DEF KeepsProgress
    <2>4. CASE u = t
      <3>1. Ahead(u) = 0
        BY <1>4, <2>4 DEF Ahead, Batch, At
      <3>2. Ahead(u)' = added
        BY <1>4, <1>5, <1>6, <2>1, <2>4 DEF Ahead, AwaitsPrefill, KeepsProgress
      <3> QED
        BY <1>5, <2>1, <2>2, <2>4, <3>1, <3>2 DEF KeepsProgress
    <2> QED
      BY <2>3, <2>4
  <1>8. NothingBatched'
    BY DEF JoinDecode, ConsidersDecode, Walked, NothingBatched
  <1>9. KeepsIdentity(task')
    BY <1>5 DEF KeepsIdentity
  <1> QED
    BY <1>6, <1>7, <1>8, <1>9, QuietStep DEF JoinDecode, environment, Inv

LEMMA MakeRoomKeeps ==
    ASSUME Inv, TypeOK', MakeRoom
    PROVE  Inv'
  <1>1. PICK t \in (IF Decoding = {} THEN {NoTask} ELSE Longest) :
            \E room \in shift_completion_task_cache(t) : task' = room.task
    BY DEF MakeRoom
  <1>2. t \in Tasks \cup {NoTask}
    BY <1>1 DEF Longest, Decoding, Batch, At
  <1>3. \A u \in Tasks : /\ task'[u].tid = task[u].tid
                         /\ task'[u].admitted = task[u].admitted
                         /\ task'[u].limit = task[u].limit
                         /\ KeepsProgress(task', u)
                         /\ task'[u].pos <= task[u].pos
    BY <1>1, <1>2, ShiftKeeps DEF Inv
  <1>4. Live' = Live /\ Holders' = Holders /\ Batch' = Batch
    BY <1>3 DEF MakeRoom, KeepsProgress, Holders, Live, Queued, Round, Batch, At, AwaitsPrefill
  <1>5. QuotaBounds'
    <2> SUFFICES ASSUME NEW u \in Holders'
                 PROVE  /\ task'[u].pos - Ahead(u)' <= task'[u].limit
                        /\ task'[u].budget <= task'[u].limit - (task'[u].pos - Ahead(u)')
      BY DEF QuotaBounds
    <2>1. /\ u \in Holders /\ u \in Tasks
          /\ task[u].pos - Ahead(u) <= task[u].limit
          /\ task[u].budget <= task[u].limit - (task[u].pos - Ahead(u))
      BY <1>4 DEF Inv, QuotaBounds, Holders, Live, Queued, Round, Batch, At
    <2>2. /\ task[u].pos \in Int /\ task'[u].pos \in Int /\ task[u].limit \in Int
          /\ task[u].budget \in Int /\ task[u].drafted \in Nat
      BY <2>1 DEF Inv, TypeOK, TaskRecord
    <2>3. Ahead(u)' = Ahead(u) /\ Ahead(u) \in Int
      BY <1>3, <1>4, <2>1, <2>2 DEF Ahead, AwaitsPrefill, KeepsProgress
    <2> QED
      BY <1>3, <2>1, <2>2, <2>3 DEF KeepsProgress
  <1>6. NothingBatched'
    BY DEF MakeRoom, Decoders, NothingBatched
  <1>7. KeepsIdentity(task')
    BY <1>3 DEF KeepsIdentity
  <1> QED
    BY <1>4, <1>5, <1>6, <1>7, QuietStep DEF MakeRoom, environment, Inv

(* An unfinished task goes back to the queue: what it sampled was within   *)
(* its budget, and rejected drafts only lower its position.                *)
LEMMA ContinueKeeps ==
    ASSUME Inv, TypeOK', NEW t \in Tasks, NEW kept \in 0 .. DraftMax, Continue(t, kept)
    PROVE  Inv'
  <1> DEFINE sampled == Sampled(t, kept)
  <1>1. PICK drafted : task' = [sampled EXCEPT ![t].drafted = drafted]
    BY DEF Continue
  <1>2. /\ t \in Batch /\ location[t] = "batch"
        /\ location' = [location EXCEPT ![t] = "queued"]
        /\ kept \in 0 .. task[t].drafted
        /\ sampled[t].budget > 0
    BY DEF Continue, Samples, LeaveBatch, Move, Batch, At
  <1>3. /\ KeepsIdentity(sampled) /\ \A u \in Tasks \ {t} : sampled[u] = task[u]
        /\ sampled[t].n_decoded = task[t].n_decoded + 1 + task[t].drafted
        /\ sampled[t].budget = task[t].budget - (1 + task[t].drafted)
        /\ sampled[t].pos = task[t].pos - (task[t].drafted - kept)
    BY SampledFields DEF Inv
  <1>4. sampled \in TaskTable
    BY SampledType DEF Inv
  <1> HIDE DEF sampled
  <1>5. /\ \A u \in Tasks \ {t} : task'[u] = sampled[u]
        /\ task'[t].tid = sampled[t].tid /\ task'[t].admitted = sampled[t].admitted
        /\ task'[t].limit = sampled[t].limit /\ task'[t].n_decoded = sampled[t].n_decoded
        /\ task'[t].budget = sampled[t].budget /\ task'[t].pos = sampled[t].pos
    BY <1>1, <1>4 DEF TaskTable, TaskRecord
  <1>6. KeepsIdentity(task')
    BY <1>3, <1>5 DEF KeepsIdentity
  <1>7. task[t].drafted \in Nat /\ task[t].n_decoded \in Nat /\ task[t].budget \in Int
        /\ task[t].pos \in Int /\ task[t].limit \in Nat
    BY DEF Inv, TypeOK, TaskRecord
  <1>8. Live' = Live /\ Batch' = Batch \ {t}
    BY <1>2 DEF Inv, TypeOK, Live, Queued, Round, Batch, At
  <1>9. task'[t].n_decoded # 0
    BY <1>3, <1>5, <1>7
  <1>10. Holders' = Holders
    BY <1>2, <1>3, <1>5, <1>8, <1>9
    DEF Holders, AwaitsPrefill, Live, Queued, Round, Batch, At
  <1>11. QuotaBounds'
    <2> SUFFICES ASSUME NEW u \in Holders'
                 PROVE  /\ task'[u].pos - Ahead(u)' <= task'[u].limit
                        /\ task'[u].budget <= task'[u].limit - (task'[u].pos - Ahead(u)')
      BY DEF QuotaBounds
    <2>1. /\ u \in Holders /\ u \in Tasks
          /\ task[u].pos - Ahead(u) <= task[u].limit
          /\ task[u].budget <= task[u].limit - (task[u].pos - Ahead(u))
      BY <1>10 DEF Inv, QuotaBounds, Holders, Live, Queued, Round, Batch, At
    <2>2. CASE u # t
      <3>1. task'[u] = task[u]
        BY <1>3, <1>5, <2>1, <2>2
      <3>2. Ahead(u)' = Ahead(u)
        BY <1>8, <2>2, <3>1 DEF Ahead, AwaitsPrefill
      <3> QED
        BY <2>1, <3>1, <3>2
    <2>3. CASE u = t
      <3>1. Ahead(t)' = 0
        BY <1>8 DEF Ahead
      <3>2. Ahead(t) \in Nat /\ Ahead(t) <= 1 + task[t].drafted
        BY <1>7 DEF Ahead
      <3>3. task'[t].limit = task[t].limit
        BY <1>6 DEF KeepsIdentity
      <3>4. /\ task'[t].budget = task[t].budget - (1 + task[t].drafted)
            /\ task'[t].pos = task[t].pos - (task[t].drafted - kept)
            /\ task[t].budget - (1 + task[t].drafted) > 0
            /\ kept \in Int /\ kept <= task[t].drafted
        BY <1>2, <1>3, <1>5, <1>7
      <3> HIDE DEF Ahead
      <3> QED
        BY <1>7, <2>1, <2>3, <3>1, <3>2, <3>3, <3>4
    <2> QED
      BY <2>2, <2>3
  <1>12. NothingBatched'
    BY <1>2, <1>8 DEF Continue, Samples, LeaveBatch, NothingBatched
  <1> QED
    BY <1>6, <1>8, <1>10, <1>11, <1>12, QuietStep
    DEF Continue, environment, registryAndCache, Inv

-----------------------------------------------------------------------------
(***************************************************************************)
(* Arrival, admission and release.                                         *)
(***************************************************************************)

LEMMA SubmitKeeps ==
    ASSUME Inv, TypeOK', NEW t \in Tasks, NEW tid \in Tids, NEW prompt, NEW max_tokens,
           Submit(t, tid, prompt, max_tokens)
    PROVE  Inv'
  <1>1. /\ location[t] = "unsent" /\ serving[tid] = NoTask
        /\ location' = [location EXCEPT ![t] = "queued"]
        /\ serving' = [serving EXCEPT ![tid] = t]
        /\ task' = [task EXCEPT ![t] = NewTask(tid, prompt, max_tokens)]
        /\ active_completion_tasks' = active_completion_tasks
    BY DEF Submit, registryAndCache
  <1>2. task'[t].tid = tid /\ task'[t].n_decoded = 0
    BY <1>1 DEF NewTask, Inv, TypeOK
  <1>3. \A u \in Tasks \ {t} : task'[u] = task[u]
    BY <1>1 DEF Inv, TypeOK
  <1>4. Live' = Live \cup {t} /\ t \notin Live /\ Batch' = Batch /\ Live \subseteq Tasks
    BY <1>1 DEF Inv, TypeOK, Live, Queued, Round, Batch, At
  <1>5. Holders' = Holders /\ t \notin Holders /\ Holders \subseteq Live
    BY <1>2, <1>3, <1>4 DEF Holders, AwaitsPrefill, Live
  <1>6. Served'
    <2>1. ASSUME NEW u \in Live PROVE task[u].tid # tid
      BY <1>1, <1>4, <2>1, SchedulerAssumption DEF Inv, Served
    <2> QED
      BY <1>1, <1>2, <1>3, <1>4, <2>1 DEF Inv, Served, TypeOK, TaskRecord
  <1>7. RegistryOfHolders'
    BY <1>1, <1>3, <1>4, <1>5 DEF Inv, RegistryOfHolders
  <1>8. LimitsExact'
    BY <1>1, <1>3, <1>4, <1>5 DEF Inv, LimitsExact, ActiveCount, quotaFor
  <1>9. QuotaBounds'
    BY <1>3, <1>4, <1>5 DEF Inv, QuotaBounds, Ahead, AwaitsPrefill
  <1>10. NothingBatched'
    BY <1>4 DEF Submit, batching, Inv, NothingBatched
  <1> QED
    BY <1>6, <1>7, <1>8, <1>9, <1>10 DEF Submit, Inv

(* t ends: the others get the limit of one request less.                   *)
LEMMA ReleaseKeeps ==
    ASSUME dynamic_context_enabled, Inv, TypeOK',
           NEW t \in Batch, NEW tasks \in TaskTable,
           KeepsIdentity(tasks), \A u \in Tasks \ {t} : tasks[u] = task[u],
           release_completion_task(tasks, t), LeaveBatch(t, "destroyed"),
           phase \in {"failing", "sample"},
           closed' = closed,
           \A tid \in Tids : serving[tid] # t => serving'[tid] = serving[tid]
    PROVE  /\ Inv'
           /\ \A u \in Holders' : /\ u \in Holders
                                  /\ task'[u].limit >= task[u].limit
  <1> DEFINE registry == [active_completion_tasks EXCEPT ![tasks[t].tid] = NoTask]
             active   == Cardinality({tid \in Tids : registry[tid] # NoTask})
             table    == [tasks EXCEPT ![t].admitted = FALSE, ![t].limit = 0]
  <1>1. /\ t \in Tasks /\ t \in Holders /\ t \in Live
        /\ location' = [location EXCEPT ![t] = "destroyed"]
    BY DEF Holders, Live, Batch, At, LeaveBatch, Move
  <1>2. /\ tasks[t].tid = task[t].tid /\ task[t].tid \in Tids
        /\ tasks[t].admitted
    BY <1>1 DEF KeepsIdentity, Inv, RegistryOfHolders, TypeOK, TaskRecord
  <1>3. /\ active_completion_tasks' = registry
        /\ task' = Requoted(table, registry, quotaFor(active))
    BY <1>2 DEF release_completion_task
  <1>4. table \in TaskTable
    BY <1>1, ReleasedTable
  <1>5. /\ active = ActiveCount'
        /\ active \in Nat /\ active <= ActiveCount /\ ActiveCount \in Nat
    <2> DEFINE before == {tid \in Tids : active_completion_tasks[tid] # NoTask}
               after  == {tid \in Tids : registry[tid] # NoTask}
    <2>1. after \subseteq before
      BY <1>2 DEF Inv, TypeOK
    <2>2. IsFiniteSet(before) /\ Cardinality(before) \in Nat
      BY EntriesCounted
    <2>3. Cardinality(after) \in Nat
      <3> HIDE DEF registry
      <3> QED
        BY EntriesCounted
    <2>4. Cardinality(after) <= Cardinality(before)
      <3> HIDE DEF after, before
      <3> QED
        BY <2>1, <2>2, FS_Subset
    <2> QED
      BY <1>3, <2>2, <2>3, <2>4 DEF ActiveCount
  <1>6. /\ \A tid \in Tids : registry[tid] =
                IF tid = task[t].tid THEN NoTask ELSE active_completion_tasks[tid]
    BY <1>2 DEF Inv, TypeOK
  <1> HIDE DEF registry, active
  <1>7. quotaFor(active) \in Nat
    BY <1>5, QuotaForType
  <1>8. ASSUME NEW u \in Tasks, u # t
        PROVE  /\ task'[u].tid = task[u].tid
               /\ task'[u].admitted = task[u].admitted
               /\ task'[u].n_decoded = task[u].n_decoded
               /\ task'[u].drafted = task[u].drafted
               /\ task'[u].pos = task[u].pos
               /\ u \in RegisteredIn(registry) => task'[u].limit = quotaFor(active)
               /\ task[u].admitted /\ u \in RegisteredIn(registry) =>
                      task'[u].budget <= max(0, quotaFor(active) - position_for_budget(task[u].pos))
    <2>1. table[u] = task[u]
      BY <1>8 DEF TaskTable
    <2> HIDE DEF table
    <2> QED
      BY <1>3, <1>4, <1>7, <2>1, RequotedFields
  <1>9. Live' = Live \ {t} /\ Batch' = Batch \ {t} /\ Live \subseteq Tasks
    BY <1>1 DEF Inv, TypeOK, Live, Queued, Round, Batch, At
  <1>10. Holders' = Holders \ {t} /\ Holders \subseteq Live
    BY <1>8, <1>9 DEF Holders, AwaitsPrefill
  <1>11. Served'
    BY <1>8, <1>9 DEF Inv, Served, TypeOK, TaskRecord
  <1>12. ASSUME NEW u \in Holders'
         PROVE  /\ u \in Holders /\ u # t /\ u \in Tasks
                /\ task[u].tid # task[t].tid /\ task[u].tid \in Tids
                /\ registry[task[u].tid] = u
                /\ task[u].admitted
                /\ u \in RegisteredIn(registry)
    <2>1. u \in Holders /\ u # t /\ u \in Tasks
      BY <1>9, <1>10, <1>12
    <2>2. /\ active_completion_tasks[task[u].tid] = u /\ task[u].tid \in Tids
          /\ task[u].admitted
      BY <2>1 DEF Inv, RegistryOfHolders, TypeOK, TaskRecord
    <2>3. task[u].tid # task[t].tid
      BY <1>1, <2>1, <2>2 DEF Inv, RegistryOfHolders
    <2>4. registry[task[u].tid] = u
      BY <1>6, <2>2, <2>3
    <2>5. u \in RegisteredIn(registry)
      BY <2>1, <2>2, <2>4, SchedulerAssumption DEF RegisteredIn
    <2> QED
      BY <2>1, <2>2, <2>3, <2>4, <2>5
  <1>13. RegistryOfHolders'
    <2>1. ASSUME NEW tid \in Tids, active_completion_tasks'[tid] # NoTask
          PROVE  /\ active_completion_tasks'[tid] \in Holders'
                 /\ task'[active_completion_tasks'[tid]].tid = tid
      <3>1. tid # task[t].tid /\ active_completion_tasks'[tid] = active_completion_tasks[tid]
        BY <1>3, <1>6, <2>1
      <3>2. /\ active_completion_tasks[tid] \in Holders
            /\ task[active_completion_tasks[tid]].tid = tid
        BY <2>1, <3>1 DEF Inv, RegistryOfHolders
      <3> QED
        BY <1>8, <1>9, <1>10, <3>1, <3>2
    <2>2. ASSUME NEW u \in Holders'
          PROVE  active_completion_tasks'[task'[u].tid] = u /\ task'[u].admitted
      BY <1>3, <1>8, <1>12, <2>2
    <2> QED
      BY <2>1, <2>2 DEF RegistryOfHolders
  <1>14. LimitsExact'
    BY <1>5, <1>8, <1>12 DEF LimitsExact, quotaFor
  <1>15. quotaFor(ActiveCount) <= quotaFor(active)
    BY <1>5, QuotaAntitone, SchedulerAssumption DEF quotaFor
  <1>16. ASSUME NEW u \in Holders'
         PROVE  /\ task'[u].limit >= task[u].limit
                /\ task'[u].pos - Ahead(u)' <= task'[u].limit
                /\ task'[u].budget <= task'[u].limit - (task'[u].pos - Ahead(u)')
    <2>1. /\ task[u].pos - Ahead(u) <= task[u].limit
          /\ task[u].limit = quotaFor(ActiveCount)
          /\ task'[u].limit = quotaFor(active)
      BY <1>8, <1>12, <1>16 DEF Inv, QuotaBounds, LimitsExact
    <2>2. /\ task[u].pos \in Int /\ task[u].drafted \in Nat
          /\ quotaFor(ActiveCount) \in Int /\ task'[u].budget \in Int
      BY <1>5, <1>12, <1>16, QuotaForType DEF Inv, TypeOK, TaskRecord
    <2>3. Ahead(u)' = Ahead(u) /\ Ahead(u) \in Nat
      BY <1>8, <1>9, <1>12, <1>16, <2>2 DEF Ahead, AwaitsPrefill
    <2>4. task'[u].budget <= max(0, quotaFor(active) - position_for_budget(task[u].pos))
      BY <1>8, <1>12, <1>16
    <2>5. task'[u].pos = task[u].pos
      BY <1>8, <1>12, <1>16
    <2> HIDE DEF Ahead
    <2> QED
      BY <1>7, <1>15, <2>1, <2>2, <2>3, <2>4, <2>5 DEF max, position_for_budget
  <1>17. NothingBatched'
    BY <1>9 DEF LeaveBatch, NothingBatched
  <1> QED
    BY <1>10, <1>11, <1>13, <1>14, <1>16, <1>17 DEF Inv, QuotaBounds

(* What check_completion_admission and Placements say of an admission.     *)
LEMMA ReadyFits ==
    ASSUME dynamic_context_enabled, TypeOK, NEW t \in Tasks,
           check_completion_admission(t) = "ready"
    PROVE  /\ \A u \in Registered : task[u].pos <= quotaFor(ActiveCount + 1)
           /\ task[t].prompt <= quotaFor(ActiveCount + 1)
  <1> DEFINE held == {position_for_budget(task[u].pos) : u \in Registered}
             quota == quotaFor(ActiveCount + 1)
  <1>1. positions_fit(held, quota) /\ ~(task[t].prompt > quota)
    BY DEF check_completion_admission
  <1>2. quota \in Nat /\ task[t].prompt \in Nat
    <2>1. ActiveCount + 1 \in Nat
      BY EntriesCounted DEF ActiveCount
    <2>2. task[t].prompt \in Nat
      BY DEF TypeOK, TaskRecord
    <2> QED
      BY <2>1, <2>2, QuotaForType
  <1>3. ASSUME NEW u \in Registered PROVE task[u].pos <= quota
    <2>1. task[u].pos \in Int
      BY DEF Registered, TypeOK, TaskRecord
    <2>2. position_for_budget(task[u].pos) <= quota
      BY <1>1 DEF positions_fit
    <2> HIDE DEF quota
    <2> QED
      BY <1>2, <2>1, <2>2 DEF position_for_budget, max
  <1> HIDE DEF quota
  <1>4. task[t].prompt <= quota
    BY <1>1, <1>2
  <1> QED
    BY <1>3, <1>4 DEF quota

LEMMA PlacedBelowCached ==
    ASSUME TypeOK, NEW t \in Tasks, NEW place \in Placements(t)
    PROVE  place.pos <= place.cached
  <1> DEFINE Good(p) == p.pos <= p.cached
  <1>1. ASSUME NEW s PROVE Good(FromScratch(s))
    BY DEF FromScratch
  <1>2. ASSUME NEW s \in Slots, NEW lcp \in 1 .. min(task[t].prompt, StoredTokens(s))
        PROVE  Good([seq |-> s, pos |-> min(cache_prompts[s].pos - 1, lcp - 1),
                     cached |-> lcp - 1])
    <2>1. cache_prompts[s].pos \in Int /\ lcp \in Int
      BY DEF TypeOK, CacheEntry
    <2> QED
      BY <2>1 DEF min
  <1>3. FreeSlots \subseteq Slots
    BY DEF FreeSlots
  <1> HIDE DEF Good
  <1>4. Good(place)
    BY <1>1, <1>2, <1>3 DEF Placements
  <1> QED
    BY <1>4 DEF Good

(* t is admitted: nobody is in the batch, and everyone fits the new limit. *)
LEMMA PrefillKeeps ==
    ASSUME dynamic_context_enabled, Inv, TypeOK', NEW t \in Tasks, Prefill(t)
    PROVE  /\ Inv'
           /\ \A u \in Holders : /\ task'[u].pos = task[u].pos
                                 /\ task[u].pos <= task'[u].limit
  <1>1. PICK place \in Placements(t) :
            register_completion_task(
                [task EXCEPT ![t].seq_id = place.seq,
                             ![t].pos = place.pos + (task[t].prompt - place.cached)],
                t, quotaFor(ActiveCount + 1))
    BY DEF Prefill
  <1> DEFINE added  == task[t].prompt - place.cached
             placed == [task EXCEPT ![t].seq_id = place.seq, ![t].pos = place.pos + added]
             table  == [placed EXCEPT ![t].admitted = TRUE]
             quota  == quotaFor(ActiveCount + 1)
             registry == [active_completion_tasks EXCEPT ![placed[t].tid] = t]
  <1>2. /\ location[t] = "round" /\ AwaitsPrefill(t) /\ batch_process_type = "unknown"
        /\ phase = "batching"
        /\ location' = [location EXCEPT ![t] = "batch"]
        /\ check_completion_admission(t) = "ready"
    BY DEF Prefill, ConsidersPrefill, Walked, Round, At, Move
  <1>3. /\ place.seq \in Slots /\ place.pos \in Int /\ added \in Nat
        /\ place.pos <= place.cached /\ place.cached \in Int
    BY PlacementType, PlacedBelowCached DEF Inv
  <1>4. /\ task[t] \in TaskRecord /\ task[t].prompt \in Nat
        /\ task[t].tid \in Tids /\ task \in TaskTable
    BY DEF Inv, TypeOK, TaskRecord, TaskTable
  <1>5. place.pos + added <= task[t].prompt /\ place.pos + added \in Int
    BY <1>3, <1>4
  <1> HIDE DEF added
  <1>6. placed \in TaskTable
    <2>1. [task[t] EXCEPT !.seq_id = place.seq, !.pos = place.pos + added] \in TaskRecord
      BY <1>3, <1>4, <1>5, PlacedRecord
    <2>2. placed = [task EXCEPT ![t] = [task[t] EXCEPT !.seq_id = place.seq,
                                                       !.pos = place.pos + added]]
      BY <1>4 DEF TaskTable
    <2> QED
      BY <1>4, <2>1, <2>2 DEF TaskTable
  <1>7. /\ \A u \in Tasks \ {t} : placed[u] = task[u]
        /\ placed[t].tid = task[t].tid /\ placed[t].n_decoded = task[t].n_decoded
        /\ placed[t].pos = place.pos + added
    BY <1>4 DEF TaskTable, TaskRecord
  <1>8. registry = [active_completion_tasks EXCEPT ![task[t].tid] = t]
    BY <1>7
  <1>9. /\ active_completion_tasks' = registry
        /\ task' = Requoted(table, registry, quota)
    BY <1>1 DEF register_completion_task, added
  <1> HIDE DEF placed, registry
  <1>10. table \in TaskTable
    BY <1>6 DEF TaskTable, TaskRecord
  <1>11. /\ \A u \in Tasks \ {t} : table[u] = task[u]
         /\ table[t].tid = task[t].tid /\ table[t].n_decoded = task[t].n_decoded
         /\ table[t].pos = place.pos + added /\ table[t].admitted
    BY <1>6, <1>7 DEF TaskTable, TaskRecord
  <1>12. ActiveCount \in Nat /\ quota \in Nat
    BY EntriesCounted, QuotaForType DEF ActiveCount
  <1> HIDE DEF quota, table
  <1>13. /\ t \in Live /\ t \notin Holders /\ t \notin Batch /\ Batch = {}
         /\ Live \subseteq Tasks /\ Holders \subseteq Live
    BY <1>2 DEF Inv, NothingBatched, Holders, Live, Queued, Round, Batch, At
  <1>14. active_completion_tasks[task[t].tid] = NoTask
    <2> SUFFICES ASSUME active_completion_tasks[task[t].tid] # NoTask PROVE FALSE
      OBVIOUS
    <2> DEFINE u == active_completion_tasks[task[t].tid]
    <2>1. u \in Holders /\ task[u].tid = task[t].tid
      BY <1>4 DEF Inv, RegistryOfHolders
    <2>2. serving[task[u].tid] = u /\ serving[task[t].tid] = t
      BY <1>13, <2>1 DEF Inv, Served
    <2> QED
      BY <1>13, <2>1, <2>2
  <1>15. /\ registry \in [Tids -> Tasks \cup {NoTask}]
         /\ \A tid \in Tids : registry[tid] =
                IF tid = task[t].tid THEN t ELSE active_completion_tasks[tid]
    BY <1>4, <1>8 DEF Inv, TypeOK
  <1>16. ActiveCount' = ActiveCount + 1
    <2> DEFINE before == {tid \in Tids : active_completion_tasks[tid] # NoTask}
               after  == {tid \in Tids : registry[tid] # NoTask}
    <2>1. after = before \cup {task[t].tid} /\ task[t].tid \notin before
      BY <1>4, <1>14, <1>15, SchedulerAssumption
    <2>2. IsFiniteSet(before)
      BY EntriesCounted
    <2>3. Cardinality(after) = Cardinality(before) + 1
      <3> HIDE DEF before, after
      <3> QED
        BY <2>1, <2>2, FS_AddElement
    <2> QED
      BY <1>9, <2>3 DEF ActiveCount
  <1>17. ASSUME NEW u \in Tasks
         PROVE  /\ task'[u].tid = task[u].tid
                /\ task'[u].n_decoded = task[u].n_decoded
                /\ u # t => /\ task'[u].pos = task[u].pos
                            /\ task'[u].admitted = task[u].admitted
                /\ u = t => task'[u].pos = place.pos + added /\ task'[u].admitted
                /\ u \in RegisteredIn(registry) => task'[u].limit = quota
                /\ u \in RegisteredIn(registry) /\ task'[u].admitted =>
                       task'[u].budget <= max(0, quota - position_for_budget(task'[u].pos))
    BY <1>9, <1>10, <1>11, <1>12, RequotedFields
  <1>18. Live' = Live /\ Batch' = {t}
    BY <1>2, <1>13 DEF Inv, TypeOK, Live, Queued, Round, Batch, At
  <1>19. Holders' = Holders \cup {t}
    BY <1>13, <1>17, <1>18 DEF Holders, AwaitsPrefill
  <1>20. Served'
    BY <1>13, <1>17, <1>18 DEF Inv, Served, Prefill, environment
  <1>21. ASSUME NEW u \in Holders
         PROVE  /\ u # t /\ u \in Tasks /\ task[u].tid \in Tids
                /\ task[u].tid # task[t].tid /\ task[u].admitted
                /\ active_completion_tasks[task[u].tid] = u /\ u \in Registered
                /\ registry[task[u].tid] = u /\ u \in RegisteredIn(registry)
    <2>1. u # t /\ u \in Tasks /\ task[u].tid \in Tids
      BY <1>13, <1>21 DEF Inv, TypeOK, TaskRecord
    <2>2. active_completion_tasks[task[u].tid] = u /\ task[u].admitted
      BY <1>21 DEF Inv, RegistryOfHolders
    <2>3. task[u].tid # task[t].tid
      BY <1>14, <2>1, <2>2, SchedulerAssumption
    <2>4. registry[task[u].tid] = u
      BY <1>15, <2>1, <2>2, <2>3
    <2>5. u \in Registered /\ u \in RegisteredIn(registry)
      BY <2>1, <2>2, <2>4, SchedulerAssumption DEF Registered, RegisteredIn
    <2> QED
      BY <2>1, <2>2, <2>3, <2>4, <2>5
  <1>22. registry[task[t].tid] = t /\ t \in RegisteredIn(registry)
    BY <1>4, <1>15, SchedulerAssumption DEF RegisteredIn
  <1>23. RegistryOfHolders'
    <2>1. ASSUME NEW tid \in Tids, active_completion_tasks'[tid] # NoTask
          PROVE  /\ active_completion_tasks'[tid] \in Holders'
                 /\ task'[active_completion_tasks'[tid]].tid = tid
      <3>1. CASE tid = task[t].tid
        BY <1>9, <1>17, <1>19, <1>22, <3>1
      <3>2. CASE tid # task[t].tid
        <4>1. active_completion_tasks'[tid] = active_completion_tasks[tid]
          BY <1>9, <1>15, <3>2
        <4>2. /\ active_completion_tasks[tid] \in Holders
              /\ task[active_completion_tasks[tid]].tid = tid
          BY <2>1, <4>1 DEF Inv, RegistryOfHolders
        <4> QED
          BY <1>17, <1>19, <1>21, <4>1, <4>2
      <3> QED
        BY <3>1, <3>2
    <2>2. ASSUME NEW u \in Holders'
          PROVE  active_completion_tasks'[task'[u].tid] = u /\ task'[u].admitted
      BY <1>9, <1>17, <1>19, <1>21, <1>22, <2>2
    <2> QED
      BY <2>1, <2>2 DEF RegistryOfHolders
  <1>24. LimitsExact'
    BY <1>16, <1>17, <1>19, <1>21, <1>22 DEF LimitsExact, quota, quotaFor
  <1>25. (\A u \in Registered : task[u].pos <= quota) /\ task[t].prompt <= quota
    BY <1>2, ReadyFits DEF Inv, quota
  <1>26. ASSUME NEW u \in Holders'
         PROVE  /\ task'[u].pos - Ahead(u)' <= task'[u].limit
                /\ task'[u].budget <= task'[u].limit - (task'[u].pos - Ahead(u)')
    <2>1. Ahead(u)' = 0
      BY <1>2, <1>17, <1>18 DEF Ahead, AwaitsPrefill
    <2>2. u \in Tasks /\ u \in RegisteredIn(registry)
      BY <1>19, <1>21, <1>22, <1>26
    <2>3. task'[u].pos \in Int /\ task'[u].budget \in Int
      BY <2>2 DEF TypeOK, TaskRecord
    <2>4. task'[u].pos <= quota
      <3>1. CASE u = t
        BY <1>4, <1>5, <1>12, <1>17, <1>25, <3>1
      <3>2. CASE u # t
        BY <1>17, <1>19, <1>21, <1>25, <2>2, <3>2
      <3> QED
        BY <3>1, <3>2
    <2>5. task'[u].admitted
      BY <1>17, <1>19, <1>21, <1>26
    <2>6. task'[u].limit = quota
      BY <1>17, <2>2
    <2>7. task'[u].budget <= max(0, quota - position_for_budget(task'[u].pos))
      BY <1>17, <2>2, <2>5
    <2>8. task'[u].budget <= quota - task'[u].pos
      BY <1>12, <2>3, <2>4, <2>7 DEF max, position_for_budget
    <2> QED
      BY <1>12, <2>1, <2>3, <2>4, <2>6, <2>8
  <1>27. NothingBatched'
    BY <1>2 DEF Prefill, NothingBatched
  <1>28. closed' \subseteq MayClose
    BY DEF Prefill, environment, Inv
  <1>29. \A u \in Holders : task'[u].pos = task[u].pos /\ task[u].pos <= task'[u].limit
    BY <1>17, <1>21, <1>25
  <1> QED
    BY <1>20, <1>23, <1>24, <1>26, <1>27, <1>28, <1>29 DEF Inv, QuotaBounds

-----------------------------------------------------------------------------
(***************************************************************************)
(* The invariant, and what follows from it.                                *)
(***************************************************************************)

(* The four ways a task of the batch ends.                                 *)
LEMMA EndKeeps ==
    ASSUME dynamic_context_enabled, Inv, TypeOK', NEW t \in Tasks,
           \/ FailTask(t)
           \/ \E kept \in 0 .. DraftMax : Finish(t, kept) \/ Drop(t, kept) \/ DraftFails(t, kept)
    PROVE  /\ Inv'
           /\ \A u \in Holders' : u \in Holders /\ task'[u].limit >= task[u].limit
  <1>1. CASE FailTask(t)
    <2>1. task \in TaskTable /\ KeepsIdentity(task)
      BY DEF Inv, TypeOK, TaskTable, KeepsIdentity
    <2>2. /\ t \in Batch /\ phase \in {"failing", "sample"} /\ closed' = closed
          /\ release_completion_task(task, t) /\ LeaveBatch(t, "destroyed")
          /\ \A tid \in Tids : serving[tid] # t => serving'[tid] = serving[tid]
      BY <1>1 DEF FailTask, Abort, Post, Inv, TypeOK
    <2> QED
      BY <2>1, <2>2, ReleaseKeeps
  <1>2. ASSUME NEW kept \in 0 .. DraftMax,
               Finish(t, kept) \/ Drop(t, kept) \/ DraftFails(t, kept)
        PROVE  /\ Inv'
               /\ \A u \in Holders' : u \in Holders /\ task'[u].limit >= task[u].limit
    <2> DEFINE tasks == Sampled(t, kept)
    <2>1. /\ tasks \in TaskTable /\ KeepsIdentity(tasks)
          /\ \A u \in Tasks \ {t} : tasks[u] = task[u]
      BY SampledType, SampledFields DEF Inv
    <2>2. /\ t \in Batch /\ phase \in {"failing", "sample"} /\ closed' = closed
          /\ release_completion_task(tasks, t) /\ LeaveBatch(t, "destroyed")
          /\ \A tid \in Tids : serving[tid] # t => serving'[tid] = serving[tid]
      BY <1>2 DEF Finish, Drop, DraftFails, Samples, Retire, Abort, Post, Inv, TypeOK
    <2> HIDE DEF tasks
    <2> QED
      BY <2>1, <2>2, ReleaseKeeps
  <1> QED
    BY <1>1, <1>2

LEMMA WalkKeeps ==
    ASSUME dynamic_context_enabled, Inv, TypeOK', NEW t \in Tasks, Walk(t)
    PROVE  Inv'
  <1>1. CASE Requeue(t) /\ t \in Round
    BY <1>1, RequeueKeeps
  <1>2. CASE Prefill(t)
    BY <1>2, PrefillKeeps
  <1>3. CASE PrefillThrows(t)
    BY <1>3, PrefillThrowsKeeps
  <1>4. CASE JoinDecode(t)
    BY <1>4, JoinDecodeKeeps
  <1> QED
    BY <1>1, <1>2, <1>3, <1>4
    DEF Walk, LoraWaits, AdmissionWaits, KvWaits, Throttle, Defer,
        ConsidersPrefill, ConsidersDecode, Walked

(***************************************************************************)
(* Inv is inductive when context is allocated dynamically and the streams  *)
(* of disconnecting clients are left out.  (With them Served fails: an     *)
(* abandoned task and the next one of its HTTP thread share a task id.)    *)
(***************************************************************************)
THEOREM InvHolds ==
    ASSUME dynamic_context_enabled, Streams \cap MayClose = {}
    PROVE  Spec => []Inv
  <1>1. Init => Inv
    <2> SUFFICES ASSUME Init PROVE Inv
      OBVIOUS
    <2>1. TypeOK
      BY InitType
    <2>2. Live = {} /\ Batch = {} /\ Holders = {}
      BY DEF Init, Holders, Live, Queued, Round, Batch, At
    <2> QED
      BY <2>1, <2>2
      DEF Init, Inv, NothingBatched, Served, RegistryOfHolders, LimitsExact, QuotaBounds
  <1>2. Inv /\ [Next]_vars => Inv'
    <2> SUFFICES ASSUME Inv, [Next]_vars PROVE Inv'
      OBVIOUS
    <2>0. TypeOK'
      BY TypeStep DEF Inv
    <2>1. ASSUME NEW t \in Tasks, NEW tid \in Tids, NEW prompt \in Prompts,
                 NEW max_tokens \in MaxTokens, Submit(t, tid, prompt, max_tokens)
          PROVE  Inv'
      BY <2>0, <2>1, SubmitKeeps
    <2>2. ASSUME NEW t \in Tasks, Disconnect(t) PROVE Inv'
      BY <2>0, <2>2, DisconnectKeeps
    <2>3. ASSUME NEW tid \in Tids, Abandon(tid) PROVE FALSE
      BY <2>3 DEF Abandon, Inv
    <2>4. CASE Dequeue
      BY <2>0, <2>4, DequeueKeeps
    <2>5. ASSUME NEW t \in Tasks, Walk(t) PROVE Inv'
      BY <2>0, <2>5, WalkKeeps
    <2>6. CASE CloseBatch \/ Decodes \/ DecodeFails
      BY <2>0, <2>6, BatchDone
    <2>7. CASE MakeRoom
      BY <2>0, <2>7, MakeRoomKeeps
    <2>8. ASSUME NEW t \in Tasks, Process(t) PROVE Inv'
      BY <2>0, <2>8, EndKeeps, ContinueKeeps DEF Process
    <2>9. CASE UNCHANGED vars
      <3>1. Live' = Live /\ Batch' = Batch
        BY <2>9 DEF vars, Live, Queued, Round, Batch, At
      <3>2. NothingBatched'
        BY <2>9, <3>1 DEF Inv, NothingBatched, vars, batching
      <3> QED
        BY <2>0, <2>9, <3>1, <3>2, QuietMove DEF vars, environment, registryAndCache, Inv
    <2> QED
      BY <2>1, <2>2, <2>3, <2>4, <2>5, <2>6, <2>7, <2>8, <2>9
      DEF Next, Environment, reconcile, DequeueTimesOut
  <1> QED
    BY <1>1, <1>2, PTL DEF Spec

(* The registry names every running task once.                             *)
LEMMA HoldersCounted ==
    ASSUME Inv
    PROVE  ActiveCount = Cardinality(Holders)
  <1> DEFINE entries == {tid \in Tids : active_completion_tasks[tid] # NoTask}
             f == [tid \in entries |-> active_completion_tasks[tid]]
  <1>1. IsFiniteSet(entries)
    BY EntriesCounted
  <1>2. ASSUME NEW t \in Holders
        PROVE  t \in Tasks /\ task[t].tid \in entries /\ f[task[t].tid] = t
    <2>1. t \in Tasks
      BY DEF Holders, Live, Queued, Round, Batch, At
    <2>2. task[t].tid \in Tids /\ active_completion_tasks[task[t].tid] = t
      BY <2>1 DEF Inv, RegistryOfHolders, TypeOK, TaskRecord
    <2> QED
      BY <2>1, <2>2, SchedulerAssumption
  <1>3. ASSUME NEW tid \in entries
        PROVE  f[tid] \in Holders /\ task[f[tid]].tid = tid
    BY DEF Inv, RegistryOfHolders
  <1>4. f \in [entries -> Holders]
    BY <1>3
  <1>5. f \in Bijection(entries, Holders)
    <2> HIDE DEF f, entries
    <2>1. \A a, b \in entries : f[a] = f[b] => a = b
      BY <1>3
    <2>2. \A t \in Holders : \E a \in entries : f[a] = t
      BY <1>2
    <2> QED
      BY <1>4, <2>1, <2>2 DEF Bijection, Injection, Surjection, IsInjective
  <1>6. ExistsBijection(entries, Holders)
    BY <1>5 DEF ExistsBijection
  <1> HIDE DEF entries
  <1>7. Cardinality(Holders) = Cardinality(entries)
    BY <1>1, <1>6, FS_Bijection
  <1> QED
    BY <1>7 DEF entries, ActiveCount

LEMMA RegisteredAreHolders ==
    ASSUME Inv
    PROVE  Registered = Holders
  <1>1. Registered \subseteq Holders
    BY SchedulerAssumption DEF Inv, RegistryOfHolders, Registered
  <1>2. ASSUME NEW t \in Holders PROVE t \in Registered
    <2>1. t \in Tasks
      BY DEF Holders, Live, Queued, Round, Batch, At
    <2>2. task[t].tid \in Tids
      BY <2>1 DEF Inv, TypeOK, TaskRecord
    <2> QED
      BY <2>1, <2>2 DEF Inv, RegistryOfHolders, Registered
  <1> QED
    BY <1>1, <1>2

(***************************************************************************)
(* Every path by which a task starts or ends keeps the registry exact.     *)
(***************************************************************************)
THEOREM RegistryCorrect ==
    ASSUME dynamic_context_enabled, Streams \cap MayClose = {}
    PROVE  Spec => []RegistryExact
  <1>1. Inv => RegistryExact
    BY RegisteredAreHolders DEF RegistryExact, Inv, RegistryOfHolders
  <1> QED
    BY <1>1, InvHolds, PTL

(***************************************************************************)
(* Whatever is admitted and released in between, every running task has    *)
(* the limit that the number of running tasks gives.                       *)
(***************************************************************************)
THEOREM QuotaCorrect ==
    ASSUME dynamic_context_enabled, Streams \cap MayClose = {}
    PROVE  Spec => []QuotaExact
  <1>1. Inv => QuotaExact
    BY HoldersCounted DEF Inv, LimitsExact, QuotaExact
  <1> QED
    BY <1>1, InvHolds, PTL

(***************************************************************************)
(* Between rounds a running task is within its quota, and its budget ends  *)
(* it there.                                                               *)
(***************************************************************************)
THEOREM QuotaKept ==
    ASSUME dynamic_context_enabled, Streams \cap MayClose = {}
    PROVE  Spec => []WithinQuota
  <1>1. Inv => WithinQuota
    <2> SUFFICES ASSUME Inv, NEW t \in Holders \ Batch
                 PROVE  /\ task[t].pos <= task[t].limit
                        /\ task[t].budget <= task[t].limit - task[t].pos
      BY DEF WithinQuota
    <2>1. Ahead(t) = 0
      BY DEF Ahead
    <2>2. task[t].pos \in Int
      BY DEF Inv, TypeOK, TaskRecord, Holders, Live, Queued, Round, Batch, At
    <2> QED
      BY <2>1, <2>2 DEF Inv, QuotaBounds
  <1> QED
    BY <1>1, InvHolds, PTL

(* The registry changes only when a task is admitted or ends.              *)
LEMMA RegistryChanges ==
    ASSUME Inv, [Next]_vars
    PROVE  \/ active_completion_tasks' = active_completion_tasks
           \/ \E t \in Tasks : Prefill(t)
           \/ \E t \in Tasks :
                  \/ FailTask(t)
                  \/ \E kept \in 0 .. DraftMax :
                         Finish(t, kept) \/ Drop(t, kept) \/ DraftFails(t, kept)
  <1>1. ASSUME NEW t \in Tasks, Walk(t), ~Prefill(t)
        PROVE  active_completion_tasks' = active_completion_tasks
    BY <1>1 DEF Walk, LoraWaits, AdmissionWaits, KvWaits, PrefillThrows, Throttle, Defer,
                Requeue, JoinDecode, registryAndCache
  <1>2. ASSUME NEW t \in Tasks, NEW kept \in 0 .. DraftMax, Continue(t, kept)
        PROVE  active_completion_tasks' = active_completion_tasks
    BY <1>2 DEF Continue, registryAndCache
  <1>3. ASSUME Dequeue \/ CloseBatch \/ MakeRoom \/ Decodes \/ DecodeFails \/ UNCHANGED vars
        PROVE  active_completion_tasks' = active_completion_tasks
    BY <1>3 DEF Dequeue, CloseBatch, MakeRoom, Decodes, DecodeFails, vars, registryAndCache
  <1>4. ASSUME Environment
        PROVE  active_completion_tasks' = active_completion_tasks
    BY <1>4 DEF Environment, Submit, Disconnect, Abandon, registryAndCache
  <1> QED
    BY <1>1, <1>2, <1>3, <1>4 DEF Next, reconcile, Process, DequeueTimesOut

(***************************************************************************)
(* Lowering a limit never cuts into what a request holds: the request does *)
(* not move in that step, and fits.                                        *)
(***************************************************************************)
THEOREM HistoryKept ==
    ASSUME dynamic_context_enabled, Streams \cap MayClose = {}
    PROVE  Spec => AdmissionKeepsHistory
  <1> DEFINE Keeps == \A t \in Holders \cap Holders' :
                          task'[t].limit < task[t].limit =>
                              /\ task'[t].pos = task[t].pos
                              /\ task[t].pos <= task'[t].limit
  <1>1. ASSUME Inv, Inv', [Next]_vars PROVE Keeps
    <2>0. ASSUME NEW t \in Holders, NEW u \in Holders'
          PROVE  task[t].limit \in Int /\ task'[u].limit \in Int
      BY <1>1 DEF Inv, TypeOK, TaskRecord, Holders, Live, Queued, Round, Batch, At
    <2>1. CASE active_completion_tasks' = active_completion_tasks
      <3>1. ActiveCount' = ActiveCount
        BY <2>1 DEF ActiveCount
      <3>2. ASSUME NEW t \in Holders \cap Holders' PROVE task'[t].limit = task[t].limit
        BY <1>1, <3>1, <3>2 DEF Inv, LimitsExact, quotaFor
      <3> QED
        BY <2>0, <3>2
    <2>2. ASSUME NEW t \in Tasks, Prefill(t) PROVE Keeps
      BY <1>1, <2>2, PrefillKeeps DEF Inv
    <2>3. ASSUME NEW t \in Tasks,
                 \/ FailTask(t)
                 \/ \E kept \in 0 .. DraftMax :
                        Finish(t, kept) \/ Drop(t, kept) \/ DraftFails(t, kept)
          PROVE  Keeps
      <3>1. \A u \in Holders' : u \in Holders /\ task'[u].limit >= task[u].limit
        BY <1>1, <2>3, EndKeeps DEF Inv
      <3> QED
        BY <2>0, <3>1
    <2> HIDE DEF Keeps
    <2> QED
      BY <1>1, <2>1, <2>2, <2>3, RegistryChanges
  <1>2. Inv /\ Inv' /\ [Next]_vars => [Keeps]_vars
    BY <1>1
  <1>3. Spec => []Inv
    BY InvHolds
  <1> QED
    BY <1>2, <1>3, PTL DEF Spec, AdmissionKeepsHistory

-----------------------------------------------------------------------------
(***************************************************************************)
(* The KV cache: its sequences have one owner each, and its two counters   *)
(* are exact.                                                              *)
(***************************************************************************)

(* The positions held by the tasks of S, and by all prompt cache entries.  *)
Held(tasks, S) == SumFunctionOnSet([t \in Tasks |-> tasks[t].pos], S)
Cached(caches) == SumFunctionOnSet([s \in Slots |-> caches[s].pos], Slots)

(* An entry in use keeps its tokens in the task that uses it, and a task   *)
(* that waits for its first batch holds nothing yet.                       *)
UsedEmpty == \A s \in Slots : cache_prompts[s].used => cache_prompts[s].pos = 0

WaitingEmpty == \A t \in Live \ Holders : task[t].pos = 0

CacheInv ==
    /\ TypeOK
    /\ CachePrompt => SequencesOwned
    /\ UsedEmpty
    /\ WaitingEmpty
    /\ KvAccounted

LEMMA FiniteParts ==
    /\ IsFiniteSet(Slots)
    /\ \A S \in SUBSET Tasks : IsFiniteSet(S)
  BY SchedulerAssumption, FS_Interval, FS_Subset DEF Slots

LEMMA PlacesOfTasks ==
    /\ Live \subseteq Tasks /\ Batch \subseteq Live /\ Holders \subseteq Live
    /\ Batch \subseteq Holders /\ Round \subseteq Live
  BY DEF Holders, Live, Queued, Round, Batch, At

-----------------------------------------------------------------------------
(***************************************************************************)
(* The two sums, when a task or an entry changes.                          *)
(***************************************************************************)

LEMMA HeldType ==
    ASSUME NEW tasks \in TaskTable, NEW S \in SUBSET Tasks
    PROVE  Held(tasks, S) \in Int
  BY FiniteParts, SumIsInt DEF Held, TaskTable, TaskRecord

LEMMA HeldSame ==
    ASSUME NEW tasks, NEW others, NEW S \in SUBSET Tasks, \A t \in S : tasks[t].pos = others[t].pos
    PROVE  Held(tasks, S) = Held(others, S)
  BY FiniteParts, SumSame DEF Held

(* Only t moves.                                                           *)
LEMMA HeldMoves ==
    ASSUME NEW tasks \in TaskTable, NEW others \in TaskTable, NEW S \in SUBSET Tasks, NEW t \in S,
           \A u \in S \ {t} : others[u].pos = tasks[u].pos
    PROVE  Held(others, S) = Held(tasks, S) + others[t].pos - tasks[t].pos
  <1> DEFINE f == [u \in Tasks |-> tasks[u].pos]
             g == [u \in Tasks |-> others[u].pos]
  <1>1. (\A u \in S : f[u] \in Int) /\ g[t] \in Int /\ \A u \in S \ {t} : g[u] = f[u]
    BY DEF TaskTable, TaskRecord
  <1>2. f[t] = tasks[t].pos /\ g[t] = others[t].pos
    OBVIOUS
  <1> HIDE DEF f, g
  <1>3. SumFunctionOnSet(g, S) = SumFunctionOnSet(f, S) + g[t] - f[t]
    BY <1>1, FiniteParts, SumUpdate
  <1> QED
    BY <1>2, <1>3 DEF Held, f, g

(* t arrives at, or leaves, the tasks that are counted.                    *)
LEMMA HeldWith ==
    ASSUME NEW tasks \in TaskTable, NEW S \in SUBSET Tasks, NEW t \in Tasks, t \notin S
    PROVE  Held(tasks, S \cup {t}) = Held(tasks, S) + tasks[t].pos
  <1> DEFINE f == [u \in Tasks |-> tasks[u].pos]
  <1>1. (\A u \in S \cup {t} : f[u] \in Int) /\ f[t] = tasks[t].pos
    BY DEF TaskTable, TaskRecord
  <1> HIDE DEF f
  <1>2. SumFunctionOnSet(f, S \cup {t}) = f[t] + SumFunctionOnSet(f, S)
    BY <1>1, FiniteParts, SumAdd
  <1>3. SumFunctionOnSet(f, S) \in Int
    BY <1>1, FiniteParts, SumIsInt
  <1> QED
    BY <1>1, <1>2, <1>3 DEF Held, f

LEMMA HeldWithout ==
    ASSUME NEW tasks \in TaskTable, NEW S \in SUBSET Tasks, NEW t \in S
    PROVE  Held(tasks, S \ {t}) = Held(tasks, S) - tasks[t].pos
  <1>1. (S \ {t}) \cup {t} = S /\ t \notin S \ {t} /\ S \ {t} \in SUBSET Tasks
    OBVIOUS
  <1>2. Held(tasks, S) = Held(tasks, S \ {t}) + tasks[t].pos
    BY <1>1, HeldWith
  <1>3. Held(tasks, S \ {t}) \in Int /\ tasks[t].pos \in Int
    BY <1>1, HeldType DEF TaskTable, TaskRecord
  <1> QED
    BY <1>2, <1>3

(* Only the entry s changes its position.                                  *)
LEMMA CachedMoves ==
    ASSUME NEW caches \in [Slots -> CacheEntry], NEW others \in [Slots -> CacheEntry], NEW s \in Slots,
           \A r \in Slots \ {s} : others[r].pos = caches[r].pos
    PROVE  Cached(others) = Cached(caches) + others[s].pos - caches[s].pos
  <1> DEFINE f == [r \in Slots |-> caches[r].pos]
             g == [r \in Slots |-> others[r].pos]
  <1>1. (\A r \in Slots : f[r] \in Int) /\ g[s] \in Int /\ \A r \in Slots \ {s} : g[r] = f[r]
    BY DEF CacheEntry
  <1>2. f[s] = caches[s].pos /\ g[s] = others[s].pos
    OBVIOUS
  <1> HIDE DEF f, g
  <1>3. SumFunctionOnSet(g, Slots) = SumFunctionOnSet(f, Slots) + g[s] - f[s]
    BY <1>1, FiniteParts, SumUpdate
  <1> QED
    BY <1>2, <1>3 DEF Cached, f, g

LEMMA CachedType ==
    ASSUME NEW caches \in [Slots -> CacheEntry]
    PROVE  Cached(caches) \in Int
  BY FiniteParts, SumIsInt DEF Cached, CacheEntry

-----------------------------------------------------------------------------
(***************************************************************************)
(* Steps after which the same tasks run in the same sequences.             *)
(***************************************************************************)

LEMMA SameOwners ==
    ASSUME CacheInv, TypeOK',
           Live' = Live, Holders' = Holders,
           \A t \in Live : task'[t].seq_id = task[t].seq_id,
           \A s \in Slots : /\ cache_prompts'[s].used = cache_prompts[s].used
                            /\ cache_prompts[s].used => cache_prompts'[s].pos = cache_prompts[s].pos,
           \A t \in Live \ Holders : task'[t].pos = task[t].pos,
           llm_kv_cache_inactive' = llm_kv_cache_inactive + Cached(cache_prompts') - Cached(cache_prompts),
           llm_kv_cache_used' - llm_kv_cache_inactive' =
               llm_kv_cache_used - llm_kv_cache_inactive + Held(task', Live) - Held(task, Live)
    PROVE  CacheInv'
  <1>1. CachePrompt => SequencesOwned'
    BY PlacesOfTasks DEF CacheInv, SequencesOwned
  <1>2. UsedEmpty' /\ WaitingEmpty'
    BY DEF CacheInv, UsedEmpty, WaitingEmpty
  <1>3. KvAccounted'
    <2>1. /\ task \in TaskTable /\ task' \in TaskTable
          /\ cache_prompts \in [Slots -> CacheEntry] /\ cache_prompts' \in [Slots -> CacheEntry]
          /\ llm_kv_cache_used \in Int /\ llm_kv_cache_used' \in Int
          /\ llm_kv_cache_inactive \in Int /\ llm_kv_cache_inactive' \in Int
      BY DEF CacheInv, TypeOK, TaskTable
    <2>2. /\ Held(task, Live) \in Int /\ Held(task', Live) \in Int
          /\ Cached(cache_prompts) \in Int /\ Cached(cache_prompts') \in Int
      BY <2>1, HeldType, CachedType, PlacesOfTasks
    <2>3. /\ llm_kv_cache_inactive = Cached(cache_prompts)
          /\ llm_kv_cache_used = llm_kv_cache_inactive + Held(task, Live)
      BY DEF CacheInv, KvAccounted, Held, Cached
    <2>4. /\ llm_kv_cache_inactive' = Cached(cache_prompts')
          /\ llm_kv_cache_used' = llm_kv_cache_inactive' + Held(task', Live)
      BY <2>1, <2>2, <2>3
    <2> QED
      BY <2>4 DEF KvAccounted, Held, Cached
  <1> QED
    BY <1>1, <1>2, <1>3 DEF CacheInv

(* Nothing about the cache changes.                                        *)
LEMMA SameCache ==
    ASSUME CacheInv, TypeOK', Live' = Live, Batch' = Batch, UNCHANGED <<task, cache_prompts, kv>>
    PROVE  CacheInv'
  <1>1. Holders' = Holders
    BY DEF Holders, AwaitsPrefill
  <1>2. /\ Held(task', Live) \in Int /\ Cached(cache_prompts') \in Int
        /\ llm_kv_cache_used \in Int /\ llm_kv_cache_inactive \in Int
    BY HeldType, CachedType, PlacesOfTasks DEF CacheInv, TypeOK, TaskTable
  <1> QED
    BY <1>1, <1>2, SameOwners DEF kv

(* What shifting does: it takes d tokens from an idle entry or from t.     *)
ShiftsEntry(room, s, d) ==
    /\ room.task = task
    /\ room.caches = [cache_prompts EXCEPT ![s].pos = @ - d, ![s].pos_discard = @ + d]
    /\ room.used = llm_kv_cache_used - d
    /\ room.inactive = llm_kv_cache_inactive - d

ShiftsTask(room, t, d) ==
    /\ room.task = [task EXCEPT ![t].pos = @ - d, ![t].pos_discard = @ + d]
    /\ room.caches = cache_prompts
    /\ room.used = llm_kv_cache_used - d
    /\ room.inactive = llm_kv_cache_inactive

LEMMA ShiftEffect ==
    ASSUME TypeOK, NEW t \in Tasks \cup {NoTask}, NEW room \in shift_completion_task_cache(t)
    PROVE  \/ room = Unshifted
           \/ \E s \in IdleCaches, d \in Int : ShiftsEntry(room, s, d)
           \/ t \in Tasks /\ \E d \in Int : ShiftsTask(room, t, d)
  <1> DEFINE Good(r) == \/ r = Unshifted
                        \/ \E s \in IdleCaches, d \in Int : ShiftsEntry(r, s, d)
                        \/ t \in Tasks /\ \E d \in Int : ShiftsTask(r, t, d)
  <1>1. Good(Unshifted)
    OBVIOUS
  <1>2. ASSUME NEW s \in IdleCaches PROVE Good(SquashedIdle(s))
    <2> DEFINE n == Discardable(cache_prompts[s].pos)
               d == IF RemovesRange THEN n ELSE cache_prompts[s].pos
    <2>1. cache_prompts[s].pos \in Int
      BY DEF IdleCaches, FreeSlots, TypeOK, CacheEntry
    <2>2. d \in Int
      BY <2>1, DiscardableType
    <2>3. \/ SquashedIdle(s) = Unshifted
          \/ SquashedIdle(s) =
                 [Unshifted EXCEPT !.caches[s].pos = @ - d, !.caches[s].pos_discard = @ + d,
                                   !.used = @ - d, !.inactive = @ - d]
      BY DEF SquashedIdle
    <2> HIDE DEF d
    <2>4. ShiftsEntry([Unshifted EXCEPT !.caches[s].pos = @ - d, !.caches[s].pos_discard = @ + d,
                                        !.used = @ - d, !.inactive = @ - d], s, d)
      BY DEF ShiftsEntry, Unshifted
    <2> QED
      BY <2>2, <2>3, <2>4
  <1>3. ASSUME t # NoTask PROVE Good(ShiftedTask(t))
    <2> DEFINE d == Discardable(task[t].pos)
    <2>1. t \in Tasks /\ d \in Int
      BY <1>3, DiscardableType DEF TypeOK, TaskRecord
    <2>2. \/ ShiftedTask(t) = Unshifted
          \/ ShiftedTask(t) =
                 [Unshifted EXCEPT !.task[t].pos = @ - d, !.task[t].pos_discard = @ + d,
                                   !.used = @ - d]
      BY DEF ShiftedTask
    <2> HIDE DEF d
    <2>3. ShiftsTask([Unshifted EXCEPT !.task[t].pos = @ - d, !.task[t].pos_discard = @ + d,
                                       !.used = @ - d], t, d)
      BY DEF ShiftsTask, Unshifted
    <2> QED
      BY <2>1, <2>2, <2>3
  <1>4. LargestIdle \subseteq IdleCaches
    BY DEF LargestIdle
  <1> HIDE DEF Good
  <1>5. Good(room)
    BY <1>1, <1>2, <1>3, <1>4 DEF shift_completion_task_cache
  <1> QED
    BY <1>5 DEF Good

(* Shifting takes as much from the counters as from what they count.       *)
LEMMA ShiftAccounts ==
    ASSUME TypeOK, NEW t, t = NoTask \/ t \in Holders,
           NEW room, room = Unshifted \/ room \in shift_completion_task_cache(t)
    PROVE  /\ room.task \in TaskTable /\ room.caches \in [Slots -> CacheEntry]
           /\ room.used \in Int /\ room.inactive \in Int
           /\ \A s \in Slots : /\ room.caches[s].used = cache_prompts[s].used
                               /\ cache_prompts[s].used => room.caches[s].pos = cache_prompts[s].pos
           /\ \A u \in Tasks : /\ room.task[u].seq_id = task[u].seq_id
                               /\ room.task[u].n_decoded = task[u].n_decoded
                               /\ u # t => room.task[u].pos = task[u].pos
           /\ room.inactive = llm_kv_cache_inactive + Cached(room.caches) - Cached(cache_prompts)
           /\ room.used - room.inactive =
                  llm_kv_cache_used - llm_kv_cache_inactive + Held(room.task, Live) - Held(task, Live)
  <1>1. /\ task \in TaskTable /\ cache_prompts \in [Slots -> CacheEntry]
        /\ llm_kv_cache_used \in Int /\ llm_kv_cache_inactive \in Int
        /\ Held(task, Live) \in Int /\ Cached(cache_prompts) \in Int
    BY HeldType, CachedType, PlacesOfTasks DEF TypeOK, TaskTable
  <1>2. CASE room = Unshifted
    BY <1>1, <1>2 DEF Unshifted
  <1>3. CASE room \in shift_completion_task_cache(t)
    <2>1. t \in Tasks \cup {NoTask}
      BY PlacesOfTasks
    <2>2. /\ room.task \in TaskTable /\ room.caches \in [Slots -> CacheEntry]
          /\ room.used \in Int /\ room.inactive \in Int
      BY <1>3, <2>1, ShiftType
    <2>3. ASSUME NEW s \in IdleCaches, NEW d \in Int, ShiftsEntry(room, s, d)
          PROVE  /\ \A r \in Slots : /\ room.caches[r].used = cache_prompts[r].used
                                     /\ cache_prompts[r].used => room.caches[r].pos = cache_prompts[r].pos
                 /\ Cached(room.caches) = Cached(cache_prompts) - d
      <3>1. s \in Slots /\ ~cache_prompts[s].used
        BY DEF IdleCaches, FreeSlots
      <3>2. /\ room.caches[s].pos = cache_prompts[s].pos - d
            /\ room.caches[s].used = cache_prompts[s].used
            /\ \A r \in Slots \ {s} : room.caches[r] = cache_prompts[r]
        BY <1>1, <2>3, <3>1 DEF ShiftsEntry, CacheEntry
      <3>3. Cached(room.caches) = Cached(cache_prompts) + room.caches[s].pos - cache_prompts[s].pos
        BY <1>1, <2>2, <3>1, <3>2, CachedMoves
      <3>4. cache_prompts[s].pos \in Int
        BY <1>1, <3>1 DEF CacheEntry
      <3> QED
        BY <1>1, <3>1, <3>2, <3>3, <3>4
    <2>4. CASE \E s \in IdleCaches, d \in Int : ShiftsEntry(room, s, d)
      <3>1. PICK s \in IdleCaches, d \in Int : ShiftsEntry(room, s, d)
        BY <2>4
      <3>2. /\ room.task = task /\ room.used = llm_kv_cache_used - d
            /\ room.inactive = llm_kv_cache_inactive - d
        BY <3>1 DEF ShiftsEntry
      <3> QED
        BY <1>1, <2>2, <2>3, <3>1, <3>2
    <2>5. CASE t \in Tasks /\ \E d \in Int : ShiftsTask(room, t, d)
      <3>1. PICK d \in Int : ShiftsTask(room, t, d)
        BY <2>5
      <3>2. t \in Holders /\ t \in Live /\ task[t].pos \in Int
        BY <1>1, <2>5, SchedulerAssumption, PlacesOfTasks DEF TaskTable, TaskRecord
      <3>3. /\ room.task[t].pos = task[t].pos - d
            /\ room.task[t].seq_id = task[t].seq_id /\ room.task[t].n_decoded = task[t].n_decoded
            /\ \A u \in Tasks \ {t} : room.task[u] = task[u]
        BY <1>1, <2>5, <3>1 DEF ShiftsTask, TaskTable, TaskRecord
      <3>4. Held(room.task, Live) = Held(task, Live) + room.task[t].pos - task[t].pos
        BY <1>1, <2>2, <3>2, <3>3, HeldMoves, PlacesOfTasks
      <3>5. /\ room.caches = cache_prompts /\ room.used = llm_kv_cache_used - d
            /\ room.inactive = llm_kv_cache_inactive
        BY <3>1 DEF ShiftsTask
      <3> QED
        BY <1>1, <2>2, <3>2, <3>3, <3>4, <3>5
    <2> QED
      BY <1>2, <1>3, <2>1, <2>4, <2>5, ShiftEffect
  <1> QED
    BY <1>2, <1>3

LEMMA MakeRoomCache ==
    ASSUME CacheInv, TypeOK', MakeRoom
    PROVE  CacheInv'
  <1>1. PICK t \in (IF Decoding = {} THEN {NoTask} ELSE Longest) :
            \E room \in shift_completion_task_cache(t) :
                /\ task' = room.task
                /\ cache_prompts' = room.caches
                /\ llm_kv_cache_used' = room.used
                /\ llm_kv_cache_inactive' = room.inactive
    BY DEF MakeRoom
  <1>2. t = NoTask \/ t \in Holders
    BY <1>1, PlacesOfTasks DEF Longest, Decoding
  <1>3. PICK room \in shift_completion_task_cache(t) :
            /\ task' = room.task
            /\ cache_prompts' = room.caches
            /\ llm_kv_cache_used' = room.used
            /\ llm_kv_cache_inactive' = room.inactive
    BY <1>1
  <1>4. /\ \A s \in Slots : /\ cache_prompts'[s].used = cache_prompts[s].used
                            /\ cache_prompts[s].used => cache_prompts'[s].pos = cache_prompts[s].pos
        /\ \A u \in Tasks : /\ task'[u].seq_id = task[u].seq_id
                            /\ task'[u].n_decoded = task[u].n_decoded
                            /\ u # t => task'[u].pos = task[u].pos
        /\ llm_kv_cache_inactive' = llm_kv_cache_inactive + Cached(cache_prompts') - Cached(cache_prompts)
        /\ llm_kv_cache_used' - llm_kv_cache_inactive' =
               llm_kv_cache_used - llm_kv_cache_inactive + Held(task', Live) - Held(task, Live)
    BY <1>2, <1>3, ShiftAccounts DEF CacheInv
  <1>5. Live' = Live /\ Holders' = Holders
    <2>1. Live' = Live /\ Batch' = Batch
      BY DEF MakeRoom, Live, Queued, Round, Batch, At
    <2> QED
      BY <1>4, <2>1, PlacesOfTasks DEF Holders, AwaitsPrefill
  <1>6. \A u \in Live : task'[u].seq_id = task[u].seq_id
    BY <1>4, PlacesOfTasks
  <1>7. \A u \in Live \ Holders : task'[u].pos = task[u].pos
    BY <1>2, <1>4, PlacesOfTasks, SchedulerAssumption
  <1> QED
    BY <1>4, <1>5, <1>6, <1>7, SameOwners

LEMMA JoinDecodeCache ==
    ASSUME CacheInv, TypeOK', NEW t \in Tasks, JoinDecode(t)
    PROVE  CacheInv'
  <1> DEFINE added == 1 + task[t].drafted
  <1>1. PICK room \in (IF llm_kv_cache_used >= llm_kv_cache_limit
                       THEN shift_completion_task_cache(t)
                       ELSE {Unshifted}) :
            /\ task' = [room.task EXCEPT ![t].pos = @ + added]
            /\ cache_prompts' = room.caches
            /\ llm_kv_cache_used' = room.used + added
            /\ llm_kv_cache_inactive' = room.inactive
    BY DEF JoinDecode
  <1>2. room = Unshifted \/ room \in shift_completion_task_cache(t)
    BY <1>1
  <1>3. /\ t \in Round /\ ~AwaitsPrefill(t) /\ location' = [location EXCEPT ![t] = "batch"]
        /\ t \in Holders /\ t \in Live
    BY PlacesOfTasks DEF JoinDecode, ConsidersDecode, Walked, Move, Holders
  <1>4. /\ room.task \in TaskTable /\ room.caches \in [Slots -> CacheEntry]
        /\ room.used \in Int /\ room.inactive \in Int
        /\ \A s \in Slots : /\ room.caches[s].used = cache_prompts[s].used
                            /\ cache_prompts[s].used => room.caches[s].pos = cache_prompts[s].pos
        /\ \A u \in Tasks : /\ room.task[u].seq_id = task[u].seq_id
                            /\ room.task[u].n_decoded = task[u].n_decoded
                            /\ u # t => room.task[u].pos = task[u].pos
        /\ room.inactive = llm_kv_cache_inactive + Cached(room.caches) - Cached(cache_prompts)
        /\ room.used - room.inactive =
               llm_kv_cache_used - llm_kv_cache_inactive + Held(room.task, Live) - Held(task, Live)
    BY <1>2, <1>3, ShiftAccounts DEF CacheInv
  <1>5. /\ \A u \in Tasks \ {t} : task'[u] = room.task[u]
        /\ task'[t].seq_id = room.task[t].seq_id /\ task'[t].n_decoded = room.task[t].n_decoded
        /\ task'[t].pos = room.task[t].pos + added
    <2> HIDE DEF added
    <2> QED
      BY <1>1, <1>4 DEF TaskTable, TaskRecord
  <1>6. Live' = Live /\ Holders' = Holders
    BY <1>3, <1>4, <1>5
    DEF CacheInv, TypeOK, Holders, Live, Queued, Round, Batch, At, AwaitsPrefill
  <1>7. /\ room.task[t].pos \in Int /\ added \in Int
        /\ Held(room.task, Live) \in Int /\ Held(task, Live) \in Int
        /\ task' \in TaskTable
        /\ llm_kv_cache_used \in Int /\ llm_kv_cache_inactive \in Int
    <2>1. /\ task \in TaskTable /\ task' \in TaskTable
          /\ llm_kv_cache_used \in Int /\ llm_kv_cache_inactive \in Int
      BY DEF CacheInv, TypeOK, TaskTable
    <2>2. room.task[t].pos \in Int /\ task[t].drafted \in Nat
      BY <1>4, <2>1 DEF TaskTable, TaskRecord
    <2>3. Held(room.task, Live) \in Int /\ Held(task, Live) \in Int
      BY <1>4, <2>1, HeldType, PlacesOfTasks
    <2> QED
      BY <2>1, <2>2, <2>3
  <1>8. Held(task', Live) = Held(room.task, Live) + task'[t].pos - room.task[t].pos
    BY <1>3, <1>4, <1>5, <1>7, HeldMoves, PlacesOfTasks
  <1>9. llm_kv_cache_used' - llm_kv_cache_inactive' =
            llm_kv_cache_used - llm_kv_cache_inactive + Held(task', Live) - Held(task, Live)
    BY <1>1, <1>4, <1>5, <1>7, <1>8
  <1>10. \A u \in Live : task'[u].seq_id = task[u].seq_id
    BY <1>4, <1>5, PlacesOfTasks
  <1>11. \A u \in Live \ Holders : task'[u].pos = task[u].pos
    BY <1>3, <1>4, <1>5, PlacesOfTasks
  <1>12. /\ cache_prompts' = room.caches
         /\ llm_kv_cache_inactive' = llm_kv_cache_inactive + Cached(cache_prompts') - Cached(cache_prompts)
    BY <1>1, <1>4
  <1> QED
    BY <1>4, <1>6, <1>9, <1>10, <1>11, <1>12, SameOwners

(* Rejected drafts leave the counter and the task alike.                   *)
LEMMA SampledAccounts ==
    ASSUME CacheInv, NEW t \in Batch, NEW kept \in 0 .. task[t].drafted
    PROVE  /\ Sampled(t, kept) \in TaskTable
           /\ \A u \in Tasks : Sampled(t, kept)[u].seq_id = task[u].seq_id
           /\ \A u \in Tasks \ {t} : Sampled(t, kept)[u] = task[u]
           /\ Sampled(t, kept)[t].n_decoded > 0
           /\ UsedAfter(t, kept) \in Int
           /\ UsedAfter(t, kept) =
                  llm_kv_cache_used + Held(Sampled(t, kept), Live) - Held(task, Live)
  <1> DEFINE sampled == Sampled(t, kept)
  <1>1. /\ t \in Tasks /\ t \in Live /\ task \in TaskTable
        /\ task[t].pos \in Int /\ task[t].drafted \in Nat /\ task[t].n_decoded \in Nat /\ kept \in Int
        /\ llm_kv_cache_used \in Int
    BY PlacesOfTasks DEF CacheInv, TypeOK, TaskTable, TaskRecord
  <1>2. /\ \A u \in Tasks : sampled[u].seq_id = task[u].seq_id
        /\ \A u \in Tasks \ {t} : sampled[u] = task[u]
        /\ sampled[t].n_decoded = task[t].n_decoded + (1 + task[t].drafted)
        /\ sampled[t].pos = task[t].pos - (task[t].drafted - kept)
    BY <1>1 DEF Sampled, TaskTable, TaskRecord
  <1>3. sampled \in TaskTable
    <2>1. [task[t] EXCEPT !.pos = task[t].pos - (task[t].drafted - kept),
                          !.n_decoded = task[t].n_decoded + (1 + task[t].drafted),
                          !.budget = task[t].budget - (1 + task[t].drafted),
                          !.drafted = 0] \in TaskRecord
      <3>1. /\ task[t].pos - (task[t].drafted - kept) \in Int
            /\ task[t].n_decoded + (1 + task[t].drafted) \in Nat
            /\ task[t].budget - (1 + task[t].drafted) \in Int
            /\ task[t] \in TaskRecord
        BY <1>1 DEF TaskTable, TaskRecord
      <3> QED
        BY <3>1, SampledRecord
    <2>2. sampled = [task EXCEPT ![t] = [task[t] EXCEPT
                        !.pos = task[t].pos - (task[t].drafted - kept),
                        !.n_decoded = task[t].n_decoded + (1 + task[t].drafted),
                        !.budget = task[t].budget - (1 + task[t].drafted),
                        !.drafted = 0]]
      BY <1>1 DEF Sampled, TaskTable
    <2> QED
      BY <1>1, <2>1, <2>2 DEF TaskTable
  <1> HIDE DEF sampled
  <1>4. Held(sampled, Live) = Held(task, Live) + sampled[t].pos - task[t].pos
    BY <1>1, <1>2, <1>3, HeldMoves, PlacesOfTasks
  <1>5. Held(task, Live) \in Int
    BY <1>1, HeldType, PlacesOfTasks
  <1>6. UsedAfter(t, kept) = llm_kv_cache_used + Held(sampled, Live) - Held(task, Live)
    BY <1>1, <1>2, <1>4, <1>5 DEF UsedAfter
  <1>7. UsedAfter(t, kept) \in Int
    BY <1>1 DEF UsedAfter
  <1> QED
    BY <1>1, <1>2, <1>3, <1>6, <1>7 DEF sampled

LEMMA ContinueCache ==
    ASSUME CacheInv, TypeOK', NEW t \in Tasks, NEW kept, Continue(t, kept)
    PROVE  CacheInv'
  <1> DEFINE sampled == Sampled(t, kept)
  <1>1. /\ t \in Batch /\ t \in Live /\ t \in Holders /\ kept \in 0 .. task[t].drafted
        /\ location' = [location EXCEPT ![t] = "queued"] /\ location[t] = "batch"
        /\ llm_kv_cache_used' = UsedAfter(t, kept)
        /\ UNCHANGED <<cache_prompts, llm_kv_cache_inactive>>
    BY PlacesOfTasks DEF Continue, Samples, LeaveBatch, Move, registryAndCache, Batch, At
  <1>2. PICK drafted : task' = [sampled EXCEPT ![t].drafted = drafted]
    BY DEF Continue
  <1>3. /\ sampled \in TaskTable
        /\ \A u \in Tasks : sampled[u].seq_id = task[u].seq_id
        /\ \A u \in Tasks \ {t} : sampled[u] = task[u]
        /\ sampled[t].n_decoded > 0
        /\ UsedAfter(t, kept) = llm_kv_cache_used + Held(sampled, Live) - Held(task, Live)
    BY <1>1, SampledAccounts
  <1> HIDE DEF sampled
  <1>4. /\ \A u \in Tasks \ {t} : task'[u] = sampled[u]
        /\ task'[t].seq_id = sampled[t].seq_id /\ task'[t].n_decoded = sampled[t].n_decoded
        /\ task'[t].pos = sampled[t].pos
    BY <1>2, <1>3 DEF TaskTable, TaskRecord
  <1>5. Live' = Live /\ Holders' = Holders
    <2>1. Live' = Live /\ Batch' = Batch \ {t}
      BY <1>1 DEF CacheInv, TypeOK, Live, Queued, Round, Batch, At
    <2>2. ~AwaitsPrefill(t)'
      BY <1>3, <1>4 DEF AwaitsPrefill
    <2> QED
      BY <1>1, <1>3, <1>4, <2>1, <2>2, PlacesOfTasks DEF Holders, AwaitsPrefill
  <1>6. Held(task', Live) = Held(sampled, Live)
    BY <1>4, HeldSame, PlacesOfTasks
  <1>7. /\ Held(sampled, Live) \in Int /\ Held(task, Live) \in Int /\ Cached(cache_prompts) \in Int
        /\ llm_kv_cache_used \in Int /\ llm_kv_cache_inactive \in Int
    BY <1>3, HeldType, CachedType, PlacesOfTasks DEF CacheInv, TypeOK, TaskTable
  <1>8. /\ llm_kv_cache_inactive' = llm_kv_cache_inactive + Cached(cache_prompts') - Cached(cache_prompts)
        /\ llm_kv_cache_used' - llm_kv_cache_inactive' =
               llm_kv_cache_used - llm_kv_cache_inactive + Held(task', Live) - Held(task, Live)
    BY <1>1, <1>3, <1>6, <1>7
  <1>9. \A u \in Live : task'[u].seq_id = task[u].seq_id
    BY <1>3, <1>4, PlacesOfTasks
  <1>10. \A u \in Live \ Holders : task'[u].pos = task[u].pos
    BY <1>1, <1>3, <1>4, PlacesOfTasks
  <1> QED
    BY <1>1, <1>5, <1>8, <1>9, <1>10, SameOwners

-----------------------------------------------------------------------------
(***************************************************************************)
(* Tasks arrive, take a sequence, and give it up.                          *)
(***************************************************************************)

LEMMA SubmitCache ==
    ASSUME CacheInv, TypeOK', NEW t \in Tasks, NEW tid \in Tids, NEW prompt, NEW max_tokens,
           Submit(t, tid, prompt, max_tokens)
    PROVE  CacheInv'
  <1>1. /\ location[t] = "unsent" /\ location' = [location EXCEPT ![t] = "queued"]
        /\ task' = [task EXCEPT ![t] = NewTask(tid, prompt, max_tokens)]
        /\ UNCHANGED <<cache_prompts, llm_kv_cache_used, llm_kv_cache_inactive>>
    BY DEF Submit, registryAndCache, kv
  <1>2. task'[t].pos = 0 /\ task'[t].n_decoded = 0 /\ \A u \in Tasks \ {t} : task'[u] = task[u]
    BY <1>1 DEF NewTask, CacheInv, TypeOK
  <1>3. Live' = Live \cup {t} /\ t \notin Live /\ Batch' = Batch
    BY <1>1 DEF CacheInv, TypeOK, Live, Queued, Round, Batch, At
  <1>4. Holders' = Holders /\ t \notin Holders
    BY <1>2, <1>3, PlacesOfTasks DEF Holders, AwaitsPrefill
  <1>5. CachePrompt => SequencesOwned'
    BY <1>1, <1>2, <1>4, PlacesOfTasks DEF CacheInv, SequencesOwned
  <1>6. UsedEmpty' /\ WaitingEmpty'
    BY <1>1, <1>2, <1>3, <1>4, PlacesOfTasks DEF CacheInv, UsedEmpty, WaitingEmpty
  <1>7. Held(task', Live') = Held(task, Live)
    <2>1. task' \in TaskTable
      BY DEF TypeOK, TaskTable
    <2>2. Held(task', Live \cup {t}) = Held(task', Live) + task'[t].pos
      BY <1>3, <2>1, HeldWith, PlacesOfTasks
    <2>3. Held(task', Live) = Held(task, Live)
      BY <1>2, <1>3, HeldSame, PlacesOfTasks
    <2>4. Held(task', Live) \in Int
      BY <2>1, HeldType, PlacesOfTasks
    <2> QED
      BY <1>2, <1>3, <2>2, <2>3, <2>4
  <1>8. KvAccounted'
    BY <1>1, <1>7 DEF CacheInv, KvAccounted, Held
  <1> QED
    BY <1>5, <1>6, <1>8 DEF CacheInv

(* A prompt only takes over an entry that nobody uses.                     *)
LEMMA PlacedInFree ==
    ASSUME CachePrompt, NEW t \in Tasks, NEW place \in Placements(t)
    PROVE  place.seq \in FreeSlots
  BY DEF Placements, FromScratch

(* Registering and releasing change quotas, not places in the cache.       *)
PlacesKept(tasks) ==
    \A u \in Tasks : /\ task'[u].pos = tasks[u].pos
                     /\ task'[u].tid = tasks[u].tid
                     /\ task'[u].seq_id = tasks[u].seq_id
                     /\ task'[u].n_decoded = tasks[u].n_decoded
                     /\ task'[u].drafted = tasks[u].drafted

LEMMA RegisterKeepsPlaces ==
    ASSUME NEW tasks \in TaskTable, NEW t \in Tasks, NEW quota \in Nat,
           register_completion_task(tasks, t, quota)
    PROVE  PlacesKept(tasks)
  <1> DEFINE registry == [active_completion_tasks EXCEPT ![tasks[t].tid] = t]
             table    == [tasks EXCEPT ![t].admitted = TRUE]
  <1>1. task' = tasks \/ task' = Requoted(table, registry, quota)
    BY DEF register_completion_task
  <1>2. /\ table \in TaskTable
        /\ \A u \in Tasks : /\ table[u].pos = tasks[u].pos
                            /\ table[u].tid = tasks[u].tid
                            /\ table[u].seq_id = tasks[u].seq_id
                            /\ table[u].n_decoded = tasks[u].n_decoded
                            /\ table[u].drafted = tasks[u].drafted
    BY DEF TaskTable, TaskRecord
  <1> HIDE DEF registry, table
  <1> QED
    BY <1>1, <1>2, RequotedFields DEF PlacesKept

LEMMA ReleaseKeepsPlaces ==
    ASSUME NEW tasks \in TaskTable, NEW t \in Tasks, release_completion_task(tasks, t)
    PROVE  PlacesKept(tasks)
  <1> DEFINE registry == [active_completion_tasks EXCEPT ![tasks[t].tid] = NoTask]
             active   == Cardinality({tid \in Tids : registry[tid] # NoTask})
             table    == [tasks EXCEPT ![t].admitted = FALSE, ![t].limit = 0]
  <1>1. task' = tasks \/ task' = Requoted(table, registry, quotaFor(active))
    BY DEF release_completion_task
  <1>2. \A u \in Tasks : /\ table[u].pos = tasks[u].pos
                         /\ table[u].tid = tasks[u].tid
                         /\ table[u].seq_id = tasks[u].seq_id
                         /\ table[u].n_decoded = tasks[u].n_decoded
                         /\ table[u].drafted = tasks[u].drafted
    BY DEF TaskTable, TaskRecord
  <1>3. table \in TaskTable
    BY ReleasedTable
  <1> HIDE DEF registry
  <1>4. quotaFor(active) \in Nat
    BY EntriesCounted, QuotaForType
  <1> HIDE DEF active, table
  <1> QED
    BY <1>1, <1>2, <1>3, <1>4, RequotedFields DEF PlacesKept

LEMMA PrefillCache ==
    ASSUME CacheInv, TypeOK', NEW t \in Tasks, Prefill(t)
    PROVE  CacheInv'
  <1>1. PICK place \in Placements(t) :
            /\ cache_prompts' =
                   IF CachePrompt
                   THEN [cache_prompts EXCEPT ![place.seq] =
                            [cache_prompts[place.seq] EXCEPT
                                !.used = TRUE, !.pos = 0,
                                !.pos_discard = IF place.pos > 0 THEN @ ELSE 0]]
                   ELSE cache_prompts
            /\ register_completion_task(
                   [task EXCEPT ![t].seq_id = place.seq,
                                ![t].pos = place.pos + (task[t].prompt - place.cached)],
                   t, quotaFor(ActiveCount + 1))
            /\ llm_kv_cache_used' =
                   llm_kv_cache_used - (IF CachePrompt THEN cache_prompts[place.seq].pos ELSE 0)
                     + place.pos + (task[t].prompt - place.cached)
            /\ llm_kv_cache_inactive' =
                   llm_kv_cache_inactive - (IF CachePrompt THEN cache_prompts[place.seq].pos ELSE 0)
    BY DEF Prefill
  <1> DEFINE added  == task[t].prompt - place.cached
             placed == [task EXCEPT ![t].seq_id = place.seq, ![t].pos = place.pos + added]
  <1>2. /\ task \in TaskTable /\ task' \in TaskTable
        /\ cache_prompts \in [Slots -> CacheEntry] /\ cache_prompts' \in [Slots -> CacheEntry]
        /\ llm_kv_cache_used \in Int /\ llm_kv_cache_inactive \in Int
    BY DEF CacheInv, TypeOK, TaskTable
  <1>3. place.seq \in Slots /\ place.pos \in Int /\ added \in Int
    BY PlacementType DEF CacheInv
  <1>4. /\ t \in Round /\ AwaitsPrefill(t) /\ location[t] = "round"
        /\ location' = [location EXCEPT ![t] = "batch"]
    BY DEF Prefill, ConsidersPrefill, Walked, Move, Round, At
  <1>5. t \in Live /\ t \notin Holders /\ task[t].pos = 0
    <2>1. t \in Live /\ t \notin Holders
      BY <1>4, PlacesOfTasks DEF Holders, Batch, At
    <2> QED
      BY <2>1 DEF CacheInv, WaitingEmpty
  <1>6. register_completion_task(placed, t, quotaFor(ActiveCount + 1))
    BY <1>1
  <1> HIDE DEF added
  <1>7. /\ placed \in TaskTable
        /\ placed[t].seq_id = place.seq /\ placed[t].pos = place.pos + added
        /\ placed[t].n_decoded = task[t].n_decoded
        /\ \A u \in Tasks \ {t} : placed[u] = task[u]
    <2>1. task[t] \in TaskRecord /\ place.pos + added \in Int
      BY <1>2, <1>3 DEF TaskTable
    <2>2. [task[t] EXCEPT !.seq_id = place.seq, !.pos = place.pos + added] \in TaskRecord
      BY <1>3, <2>1, PlacedRecord
    <2>3. placed = [task EXCEPT ![t] = [task[t] EXCEPT !.seq_id = place.seq,
                                                       !.pos = place.pos + added]]
      BY <1>2 DEF TaskTable
    <2> QED
      BY <1>2, <2>1, <2>2, <2>3 DEF TaskTable, TaskRecord
  <1> HIDE DEF placed
  <1>8. PlacesKept(placed)
    <2>1. quotaFor(ActiveCount + 1) \in Nat
      BY EntriesCounted, QuotaForType DEF ActiveCount
    <2> QED
      BY <1>6, <1>7, <2>1, RegisterKeepsPlaces
  <1>9. /\ task'[t].seq_id = place.seq /\ task'[t].pos = place.pos + added
        /\ \A u \in Tasks \ {t} : /\ task'[u].pos = task[u].pos
                                  /\ task'[u].seq_id = task[u].seq_id
                                  /\ task'[u].n_decoded = task[u].n_decoded
    BY <1>7, <1>8 DEF PlacesKept
  <1>10. Live' = Live /\ Batch' = Batch \cup {t}
    BY <1>4 DEF CacheInv, TypeOK, Live, Queued, Round, Batch, At
  <1>11. Holders' = Holders \cup {t}
    BY <1>5, <1>9, <1>10, PlacesOfTasks DEF Holders, AwaitsPrefill
  <1>12. CachePrompt => /\ ~cache_prompts[place.seq].used
                        /\ cache_prompts'[place.seq].used /\ cache_prompts'[place.seq].pos = 0
                        /\ \A s \in Slots \ {place.seq} : cache_prompts'[s] = cache_prompts[s]
    BY <1>1, <1>2, <1>3, PlacedInFree DEF FreeSlots, CacheEntry
  <1>13. CachePrompt => SequencesOwned'
    <2> SUFFICES ASSUME CachePrompt PROVE SequencesOwned'
      OBVIOUS
    <2>1. \A u \in Holders : task[u].seq_id # place.seq
      BY <1>3, <1>12 DEF CacheInv, SequencesOwned
    <2>2. \A u \in Holders : u # t /\ u \in Tasks /\ task'[u].seq_id = task[u].seq_id
      BY <1>5, <1>9, PlacesOfTasks
    <2>3. \A u, v \in Holders' : task'[u].seq_id = task'[v].seq_id => u = v
      BY <1>9, <1>11, <2>1, <2>2 DEF CacheInv, SequencesOwned
    <2>4. ASSUME NEW s \in Slots
          PROVE  cache_prompts'[s].used <=> \E u \in Holders' : task'[u].seq_id = s
      <3>1. CASE s = place.seq
        BY <1>9, <1>11, <1>12, <3>1
      <3>2. CASE s # place.seq
        <4>1. cache_prompts[s].used <=> \E u \in Holders : task[u].seq_id = s
          BY DEF CacheInv, SequencesOwned
        <4> QED
          BY <1>9, <1>11, <1>12, <2>2, <3>2, <4>1
      <3> QED
        BY <3>1, <3>2
    <2> QED
      BY <2>3, <2>4 DEF SequencesOwned
  <1>14. UsedEmpty'
    <2>1. CASE CachePrompt
      BY <1>12, <2>1 DEF CacheInv, UsedEmpty
    <2>2. CASE ~CachePrompt
      BY <1>1, <2>2 DEF CacheInv, UsedEmpty
    <2> QED
      BY <2>1, <2>2
  <1>15. WaitingEmpty'
    BY <1>9, <1>10, <1>11, PlacesOfTasks DEF CacheInv, WaitingEmpty
  <1>16. KvAccounted'
    <2>1. Held(task', Live') = Held(task, Live) + place.pos + added
      <3>1. Held(task', Live) = Held(task, Live) + task'[t].pos - task[t].pos
        BY <1>2, <1>5, <1>9, HeldMoves, PlacesOfTasks
      <3>2. Held(task, Live) \in Int
        BY <1>2, HeldType, PlacesOfTasks
      <3> QED
        BY <1>3, <1>5, <1>9, <1>10, <3>1, <3>2
    <2>2. Cached(cache_prompts') =
              Cached(cache_prompts) - (IF CachePrompt THEN cache_prompts[place.seq].pos ELSE 0)
      <3>1. Cached(cache_prompts) \in Int /\ cache_prompts[place.seq].pos \in Int
        BY <1>2, <1>3, CachedType DEF CacheEntry
      <3>2. CASE CachePrompt
        <4>1. Cached(cache_prompts') = Cached(cache_prompts) + cache_prompts'[place.seq].pos
                                         - cache_prompts[place.seq].pos
          BY <1>2, <1>3, <1>12, <3>2, CachedMoves
        <4> QED
          BY <1>12, <3>1, <3>2, <4>1
      <3>3. CASE ~CachePrompt
        BY <1>1, <3>1, <3>3
      <3> QED
        BY <3>2, <3>3
    <2>3. /\ llm_kv_cache_inactive = Cached(cache_prompts)
          /\ llm_kv_cache_used = llm_kv_cache_inactive + Held(task, Live)
      BY DEF CacheInv, KvAccounted, Held, Cached
    <2>4. /\ Held(task, Live) \in Int /\ Cached(cache_prompts) \in Int
          /\ cache_prompts[place.seq].pos \in Int
      BY <1>2, <1>3, HeldType, CachedType, PlacesOfTasks DEF CacheEntry
    <2>5. /\ llm_kv_cache_inactive' = Cached(cache_prompts')
          /\ llm_kv_cache_used' = llm_kv_cache_inactive' + Held(task', Live')
      BY <1>1, <1>2, <1>3, <2>1, <2>2, <2>3, <2>4 DEF added
    <2> QED
      BY <2>5 DEF KvAccounted, Held, Cached
  <1> QED
    BY <1>13, <1>14, <1>15, <1>16 DEF CacheInv

(* t ends and leaves `entry` behind in its sequence, if prompts are cached. *)
LEMMA EndCache ==
    ASSUME CacheInv, TypeOK', NEW t \in Batch, NEW tasks \in TaskTable, NEW used \in Int,
           \A u \in Tasks : tasks[u].seq_id = task[u].seq_id,
           \A u \in Tasks \ {t} : tasks[u] = task[u],
           used = llm_kv_cache_used + Held(tasks, Live) - Held(task, Live),
           release_completion_task(tasks, t), LeaveBatch(t, "destroyed"),
           NEW entry \in CacheEntry, ~entry.used,
           IF CachePrompt
           THEN /\ cache_prompts' = [cache_prompts EXCEPT ![tasks[t].seq_id] = entry]
                /\ llm_kv_cache_inactive' = llm_kv_cache_inactive + entry.pos
                /\ llm_kv_cache_used' = used - tasks[t].pos + entry.pos
           ELSE /\ UNCHANGED <<cache_prompts, llm_kv_cache_inactive>>
                /\ llm_kv_cache_used' = used - tasks[t].pos
    PROVE  CacheInv'
  <1> DEFINE seq == task[t].seq_id
  <1>1. /\ t \in Tasks /\ t \in Live /\ t \in Holders /\ location' = [location EXCEPT ![t] = "destroyed"]
    BY PlacesOfTasks DEF LeaveBatch, Move
  <1>2. /\ task \in TaskTable /\ task' \in TaskTable
        /\ cache_prompts \in [Slots -> CacheEntry] /\ cache_prompts' \in [Slots -> CacheEntry]
        /\ llm_kv_cache_used \in Int /\ llm_kv_cache_inactive \in Int
        /\ seq \in Slots /\ tasks[t].seq_id = seq
        /\ tasks[t].pos \in Int /\ entry.pos \in Int
    BY <1>1 DEF CacheInv, TypeOK, TaskTable, TaskRecord, CacheEntry
  <1>3. PlacesKept(tasks)
    BY <1>1, ReleaseKeepsPlaces
  <1>4. \A u \in Tasks \ {t} : /\ task'[u].pos = task[u].pos
                               /\ task'[u].seq_id = task[u].seq_id
                               /\ task'[u].n_decoded = task[u].n_decoded
    BY <1>3 DEF PlacesKept
  <1>5. Live' = Live \ {t} /\ Batch' = Batch \ {t}
    BY <1>1 DEF CacheInv, TypeOK, Live, Queued, Round, Batch, At
  <1>6. Holders' = Holders \ {t}
    BY <1>4, <1>5, PlacesOfTasks DEF Holders, AwaitsPrefill
  <1>7. CachePrompt => /\ cache_prompts[seq].used /\ cache_prompts[seq].pos = 0
                       /\ cache_prompts'[seq] = entry
                       /\ \A s \in Slots \ {seq} : cache_prompts'[s] = cache_prompts[s]
    BY <1>1, <1>2 DEF CacheInv, SequencesOwned, UsedEmpty
  <1> HIDE DEF seq
  <1>8. CachePrompt => SequencesOwned'
    <2> SUFFICES ASSUME CachePrompt PROVE SequencesOwned'
      OBVIOUS
    <2>1. \A u \in Holders' : /\ u \in Holders /\ u # t /\ task'[u].seq_id = task[u].seq_id
                              /\ task[u].seq_id # seq
      BY <1>1, <1>4, <1>6, PlacesOfTasks DEF CacheInv, SequencesOwned, seq
    <2>2. \A u, v \in Holders' : task'[u].seq_id = task'[v].seq_id => u = v
      BY <2>1 DEF CacheInv, SequencesOwned
    <2>3. ASSUME NEW s \in Slots
          PROVE  cache_prompts'[s].used <=> \E u \in Holders' : task'[u].seq_id = s
      <3>1. CASE s = seq
        BY <1>7, <2>1, <3>1
      <3>2. CASE s # seq
        <4>1. cache_prompts[s].used <=> \E u \in Holders : task[u].seq_id = s
          BY DEF CacheInv, SequencesOwned
        <4> QED
          BY <1>6, <1>7, <2>1, <3>2, <4>1 DEF seq
      <3> QED
        BY <3>1, <3>2
    <2> QED
      BY <2>2, <2>3 DEF SequencesOwned
  <1>9. UsedEmpty'
    <2>1. CASE CachePrompt
      BY <1>7, <2>1 DEF CacheInv, UsedEmpty
    <2>2. CASE ~CachePrompt
      BY <2>2 DEF CacheInv, UsedEmpty
    <2> QED
      BY <2>1, <2>2
  <1>10. WaitingEmpty'
    BY <1>4, <1>5, <1>6, PlacesOfTasks DEF CacheInv, WaitingEmpty
  <1>11. KvAccounted'
    <2>1. Held(task', Live') = Held(tasks, Live) - tasks[t].pos
      <3>1. Held(tasks, Live \ {t}) = Held(tasks, Live) - tasks[t].pos
        BY <1>1, HeldWithout, PlacesOfTasks
      <3>2. Held(task', Live \ {t}) = Held(tasks, Live \ {t})
        <4>1. Live \ {t} \in SUBSET Tasks /\ \A u \in Live \ {t} : task'[u].pos = tasks[u].pos
          BY <1>3, PlacesOfTasks DEF PlacesKept
        <4> QED
          BY <4>1, HeldSame
      <3> QED
        BY <1>5, <3>1, <3>2
    <2>2. /\ Held(task, Live) \in Int /\ Held(tasks, Live) \in Int /\ Cached(cache_prompts) \in Int
      BY <1>2, HeldType, CachedType, PlacesOfTasks
    <2>3. /\ llm_kv_cache_inactive = Cached(cache_prompts)
          /\ llm_kv_cache_used = llm_kv_cache_inactive + Held(task, Live)
      BY DEF CacheInv, KvAccounted, Held, Cached
    <2>4. /\ llm_kv_cache_inactive' = Cached(cache_prompts')
          /\ llm_kv_cache_used' = llm_kv_cache_inactive' + Held(task', Live')
      <3>1. CASE CachePrompt
        <4>1. Cached(cache_prompts') =
                  Cached(cache_prompts) + cache_prompts'[seq].pos - cache_prompts[seq].pos
          BY <1>2, <1>7, <3>1, CachedMoves
        <4> QED
          BY <1>2, <1>7, <2>1, <2>2, <2>3, <3>1, <4>1
      <3>2. CASE ~CachePrompt
        BY <1>2, <2>1, <2>2, <2>3, <3>2
      <3> QED
        BY <3>1, <3>2
    <2> QED
      BY <2>4 DEF KvAccounted, Held, Cached
  <1> QED
    BY <1>8, <1>9, <1>10, <1>11 DEF CacheInv

LEMMA AbortCache ==
    ASSUME CacheInv, TypeOK', NEW t \in Batch, NEW tasks \in TaskTable, NEW used \in Int,
           \A u \in Tasks : tasks[u].seq_id = task[u].seq_id,
           \A u \in Tasks \ {t} : tasks[u] = task[u],
           used = llm_kv_cache_used + Held(tasks, Live) - Held(task, Live),
           Abort(tasks, t, used)
    PROVE  CacheInv'
  <1>1. EmptyEntry \in CacheEntry /\ ~EmptyEntry.used /\ EmptyEntry.pos = 0
    BY DEF EmptyEntry, CacheEntry
  <1>2. tasks[t].pos \in Int /\ llm_kv_cache_inactive \in Int
    BY PlacesOfTasks DEF TaskTable, TaskRecord, CacheInv, TypeOK
  <1>3. IF CachePrompt
        THEN /\ cache_prompts' = [cache_prompts EXCEPT ![tasks[t].seq_id] = EmptyEntry]
             /\ llm_kv_cache_inactive' = llm_kv_cache_inactive + EmptyEntry.pos
             /\ llm_kv_cache_used' = used - tasks[t].pos + EmptyEntry.pos
        ELSE /\ UNCHANGED <<cache_prompts, llm_kv_cache_inactive>>
             /\ llm_kv_cache_used' = used - tasks[t].pos
    BY <1>1, <1>2 DEF Abort
  <1>4. release_completion_task(tasks, t) /\ LeaveBatch(t, "destroyed")
    BY DEF Abort
  <1> QED
    BY <1>1, <1>3, <1>4, EndCache

LEMMA RetireCache ==
    ASSUME CacheInv, TypeOK', NEW t \in Batch, NEW tasks \in TaskTable, NEW used \in Int,
           \A u \in Tasks : tasks[u].seq_id = task[u].seq_id,
           \A u \in Tasks \ {t} : tasks[u] = task[u],
           used = llm_kv_cache_used + Held(tasks, Live) - Held(task, Live),
           Retire(tasks, t, used)
    PROVE  CacheInv'
  <1> DEFINE entry == [used |-> FALSE, pos |-> tasks[t].pos,
                       pos_discard |-> cache_prompts[tasks[t].seq_id].pos_discard
                                           + tasks[t].pos_discard]
  <1>1. tasks[t].seq_id \in Slots /\ tasks[t].pos \in Int /\ tasks[t].pos_discard \in Nat
    BY PlacesOfTasks DEF TaskTable, TaskRecord
  <1>2. /\ cache_prompts \in [Slots -> CacheEntry] /\ llm_kv_cache_inactive \in Int
        /\ cache_prompts[tasks[t].seq_id].pos_discard \in Nat
    BY <1>1 DEF CacheInv, TypeOK, CacheEntry
  <1>3. entry \in CacheEntry /\ ~entry.used /\ entry.pos = tasks[t].pos
    BY <1>1, <1>2 DEF CacheEntry
  <1>4. IF CachePrompt
        THEN /\ cache_prompts' = [cache_prompts EXCEPT ![tasks[t].seq_id] = entry]
             /\ llm_kv_cache_inactive' = llm_kv_cache_inactive + tasks[t].pos
             /\ llm_kv_cache_used' = used
        ELSE /\ UNCHANGED <<cache_prompts, llm_kv_cache_inactive>>
             /\ llm_kv_cache_used' = used - tasks[t].pos
    BY <1>1, <1>2 DEF Retire
  <1>5. release_completion_task(tasks, t) /\ LeaveBatch(t, "destroyed")
    BY DEF Retire
  <1> HIDE DEF entry
  <1>6. used - tasks[t].pos + entry.pos = used
    BY <1>1, <1>3
  <1> QED
    BY <1>3, <1>4, <1>5, <1>6, EndCache

LEMMA ProcessCache ==
    ASSUME CacheInv, TypeOK', NEW t \in Tasks, Process(t)
    PROVE  CacheInv'
  <1>1. CASE FailTask(t)
    <2>1. /\ task \in TaskTable /\ llm_kv_cache_used \in Int /\ t \in Batch
          /\ Abort(task, t, llm_kv_cache_used)
      BY <1>1 DEF CacheInv, TypeOK, TaskTable, FailTask
    <2>2. llm_kv_cache_used = llm_kv_cache_used + Held(task, Live) - Held(task, Live)
      BY <2>1, HeldType, PlacesOfTasks
    <2> QED
      BY <2>1, <2>2, AbortCache
  <1>2. ASSUME NEW kept \in 0 .. DraftMax, Samples(t, kept)
        PROVE  /\ t \in Batch /\ kept \in 0 .. task[t].drafted
               /\ Sampled(t, kept) \in TaskTable /\ UsedAfter(t, kept) \in Int
               /\ \A u \in Tasks : Sampled(t, kept)[u].seq_id = task[u].seq_id
               /\ \A u \in Tasks \ {t} : Sampled(t, kept)[u] = task[u]
               /\ UsedAfter(t, kept) =
                      llm_kv_cache_used + Held(Sampled(t, kept), Live) - Held(task, Live)
    BY <1>2, SampledAccounts DEF Samples
  <1>3. ASSUME NEW kept \in 0 .. DraftMax, Finish(t, kept) \/ Drop(t, kept) PROVE CacheInv'
    <2>1. Samples(t, kept) /\ Retire(Sampled(t, kept), t, UsedAfter(t, kept))
      BY <1>3 DEF Finish, Drop
    <2> QED
      BY <1>2, <2>1, RetireCache
  <1>4. ASSUME NEW kept \in 0 .. DraftMax, DraftFails(t, kept) PROVE CacheInv'
    <2>1. Samples(t, kept) /\ Abort(Sampled(t, kept), t, UsedAfter(t, kept))
      BY <1>4 DEF DraftFails
    <2> QED
      BY <1>2, <2>1, AbortCache
  <1> QED
    BY <1>1, <1>3, <1>4, ContinueCache DEF Process

LEMMA WalkCache ==
    ASSUME CacheInv, TypeOK', NEW t \in Tasks, Walk(t)
    PROVE  CacheInv'
  <1>1. CASE Requeue(t) /\ t \in Round
    <2>1. Live' = Live /\ Batch' = Batch
      BY <1>1 DEF Requeue, Move, CacheInv, TypeOK, Live, Queued, Round, Batch, At
    <2> QED
      BY <1>1, <2>1, SameCache DEF Requeue, registryAndCache
  <1>2. CASE PrefillThrows(t)
    <2>1. Live' = Live /\ Batch' = Batch
      BY <1>2 DEF PrefillThrows, Live, Queued, Round, Batch, At
    <2> QED
      BY <1>2, <2>1, SameCache DEF PrefillThrows, registryAndCache
  <1> QED
    BY <1>1, <1>2, PrefillCache, JoinDecodeCache
    DEF Walk, LoraWaits, AdmissionWaits, KvWaits, Throttle, Defer,
        ConsidersPrefill, ConsidersDecode, Walked

LEMMA CacheStep ==
    ASSUME CacheInv, [Next]_vars
    PROVE  CacheInv'
  <1>0. TypeOK'
    BY TypeStep DEF CacheInv
  <1>1. ASSUME NEW t \in Tasks, NEW tid \in Tids, NEW prompt \in Prompts,
               NEW max_tokens \in MaxTokens, Submit(t, tid, prompt, max_tokens)
        PROVE  CacheInv'
    BY <1>0, <1>1, SubmitCache
  <1>2. CASE Dequeue
    <2>1. PICK taken \in SUBSET Queued :
              location' = [t \in Tasks |-> IF t \in taken THEN "round" ELSE location[t]]
      BY <1>2 DEF Dequeue, kSubset
    <2>2. Live' = Live /\ Batch' = Batch
      BY <2>1 DEF CacheInv, TypeOK, Live, Queued, Round, Batch, At
    <2> QED
      BY <1>0, <1>2, <2>2, SameCache DEF Dequeue, registryAndCache
  <1>3. CASE \/ \E t \in Tasks : Disconnect(t)
             \/ \E tid \in Tids : Abandon(tid)
             \/ CloseBatch \/ Decodes \/ DecodeFails \/ UNCHANGED vars
    <2>1. UNCHANGED <<location, task, cache_prompts, kv>>
      BY <1>3 DEF Disconnect, Abandon, CloseBatch, Decodes, DecodeFails, vars, registryAndCache
    <2>2. Live' = Live /\ Batch' = Batch
      BY <2>1 DEF Live, Queued, Round, Batch, At
    <2> QED
      BY <1>0, <2>1, <2>2, SameCache
  <1>4. CASE MakeRoom
    BY <1>0, <1>4, MakeRoomCache
  <1> QED
    BY <1>0, <1>1, <1>2, <1>3, <1>4, WalkCache, ProcessCache
    DEF Next, Environment, reconcile, DequeueTimesOut

(***************************************************************************)
(* The invariant holds in every reachable state, whatever the settings:    *)
(* dynamic or static context, with or without prompt caching, shifting,    *)
(* speculative decoding, disconnecting or abandoning clients.              *)
(***************************************************************************)
THEOREM CacheInvHolds == Spec => []CacheInv
  <1>1. Init => CacheInv
    <2> SUFFICES ASSUME Init PROVE CacheInv
      OBVIOUS
    <2>1. TypeOK
      BY InitType
    <2>2. Live = {} /\ Holders = {}
      BY DEF Init, Holders, Live, Queued, Round, Batch, At
    <2>3. \A s \in Slots : cache_prompts[s].used = FALSE /\ cache_prompts[s].pos = 0
      BY DEF Init, EmptyEntry
    <2>4. Cached(cache_prompts) = 0
      BY <2>3, FiniteParts, SumZero DEF Cached
    <2>5. Held(task, {}) = 0
      BY SumEmpty DEF Held
    <2>6. KvAccounted
      BY <2>2, <2>4, <2>5 DEF Init, KvAccounted, Held, Cached
    <2> QED
      BY <2>1, <2>2, <2>3, <2>6 DEF CacheInv, SequencesOwned, UsedEmpty, WaitingEmpty
  <1>2. CacheInv /\ [Next]_vars => CacheInv'
    BY CacheStep
  <1> QED
    BY <1>1, <1>2, PTL DEF Spec

(***************************************************************************)
(* No path through prefill, shift, rejected drafts, failure, disconnect or *)
(* completion loses or invents a token of the KV cache: KvWaits never      *)
(* holds a prompt back for tokens that nobody holds.                       *)
(***************************************************************************)
THEOREM CountersExact == Spec => []KvAccounted
  <1>1. CacheInv => KvAccounted
    BY DEF CacheInv
  <1> QED
    BY <1>1, CacheInvHolds, PTL

-----------------------------------------------------------------------------
(***************************************************************************)
(* Without prompt caching the sequence of a task is its task id, so that   *)
(* ownership of sequences rests on ownership of ids.                       *)
(***************************************************************************)

IdInv ==
    /\ TypeOK
    /\ closed \subseteq MayClose
    /\ Served
    /\ \A t \in Live : task[t].seq_id = task[t].tid

(* Who is served by whom changes only when tasks arrive or end.            *)
LEMMA IdsKept ==
    ASSUME IdInv, TypeOK', closed' \subseteq MayClose, Live' \subseteq Live,
           \A t \in Live' : /\ task'[t].tid = task[t].tid
                            /\ task'[t].seq_id = task[t].seq_id,
           \A tid \in Tids : serving[tid] \in Live' => serving'[tid] = serving[tid]
    PROVE  IdInv'
  <1>1. \A t \in Live' : t \in Live /\ task[t].tid \in Tids /\ serving[task[t].tid] = t
    BY PlacesOfTasks DEF IdInv, Served, TypeOK, TaskRecord
  <1> QED
    BY <1>1 DEF IdInv, Served

(* Prefilling without prompt caching leaves a task in its own sequence.    *)
LEMMA PrefillKeepsIds ==
    ASSUME TypeOK, ~CachePrompt, NEW t \in Tasks, Prefill(t)
    PROVE  \A u \in Tasks : task'[u].tid = task[u].tid /\ task'[u].seq_id = task[u].seq_id
  <1>1. PICK place \in Placements(t) :
            register_completion_task(
                [task EXCEPT ![t].seq_id = place.seq,
                             ![t].pos = place.pos + (task[t].prompt - place.cached)],
                t, quotaFor(ActiveCount + 1))
    BY DEF Prefill
  <1> DEFINE pos == place.pos + (task[t].prompt - place.cached)
             placed == [task EXCEPT ![t].seq_id = place.seq, ![t].pos = pos]
  <1>2. place.seq = task[t].seq_id /\ place.seq \in Slots /\ pos \in Int
    <2>1. place.pos \in Int /\ task[t].prompt - place.cached \in Nat
      BY PlacementType
    <2>2. place.seq = task[t].seq_id
      BY DEF Placements, FromScratch
    <2> QED
      BY <2>1, <2>2 DEF TypeOK, TaskRecord
  <1>3. register_completion_task(placed, t, quotaFor(ActiveCount + 1))
    BY <1>1
  <1> HIDE DEF pos
  <1>4. /\ placed \in TaskTable
        /\ \A u \in Tasks : placed[u].tid = task[u].tid /\ placed[u].seq_id = task[u].seq_id
    <2>1. task[t] \in TaskRecord
      BY DEF TypeOK
    <2>2. [task[t] EXCEPT !.seq_id = place.seq, !.pos = pos] \in TaskRecord
      BY <1>2, <2>1, PlacedRecord
    <2>3. placed = [task EXCEPT ![t] = [task[t] EXCEPT !.seq_id = place.seq, !.pos = pos]]
      BY DEF TypeOK
    <2> QED
      BY <1>2, <2>1, <2>2, <2>3 DEF TypeOK, TaskTable, TaskRecord
  <1> HIDE DEF placed
  <1>5. quotaFor(ActiveCount + 1) \in Nat
    <2>1. ActiveCount \in Nat
      BY EntriesCounted DEF ActiveCount
    <2> QED
      BY <2>1, QuotaForType
  <1>6. PlacesKept(placed)
    BY <1>3, <1>4, <1>5, RegisterKeepsPlaces
  <1> QED
    BY <1>4, <1>6 DEF PlacesKept

(* So does everything that happens to a batch.                             *)
LEMMA BatchKeepsIds ==
    ASSUME TypeOK, NEW t \in Tasks, JoinDecode(t) \/ MakeRoom \/ Process(t)
    PROVE  \A u \in Tasks : task'[u].tid = task[u].tid /\ task'[u].seq_id = task[u].seq_id
  <1> DEFINE Same(tasks) ==
                 \A u \in Tasks : tasks[u].tid = task[u].tid /\ tasks[u].seq_id = task[u].seq_id
  <1>0. task \in TaskTable
    BY DEF TypeOK, TaskTable
  <1>1. ASSUME NEW v, v = NoTask \/ v \in Holders,
               NEW room, room = Unshifted \/ room \in shift_completion_task_cache(v)
        PROVE  room.task \in TaskTable /\ Same(room.task)
    <2>1. room.task \in TaskTable /\ \A u \in Tasks : room.task[u].seq_id = task[u].seq_id
      BY <1>1, ShiftAccounts
    <2>2. \A u \in Tasks : room.task[u].tid = task[u].tid
      BY <1>1, ShiftKeeps, PlacesOfTasks DEF Unshifted
    <2> QED
      BY <2>1, <2>2
  <1>2. CASE JoinDecode(t)
    <2>1. t \in Holders
      BY <1>2, PlacesOfTasks DEF JoinDecode, ConsidersDecode, Walked, Holders
    <2>2. PICK room, added : /\ room = Unshifted \/ room \in shift_completion_task_cache(t)
                             /\ task' = [room.task EXCEPT ![t].pos = @ + added]
      BY <1>2 DEF JoinDecode
    <2>3. room.task \in TaskTable /\ Same(room.task)
      BY <1>1, <2>1, <2>2
    <2> QED
      BY <2>2, <2>3 DEF TaskTable, TaskRecord
  <1>3. CASE MakeRoom
    <2>1. PICK v \in (IF Decoding = {} THEN {NoTask} ELSE Longest) :
              \E room \in shift_completion_task_cache(v) : task' = room.task
      BY <1>3 DEF MakeRoom
    <2>2. v = NoTask \/ v \in Holders
      BY <2>1, PlacesOfTasks DEF Longest, Decoding
    <2> QED
      BY <1>1, <2>1, <2>2
  <1>4. ASSUME NEW tasks \in TaskTable, Same(tasks), release_completion_task(tasks, t)
        PROVE  Same(task')
    BY <1>4, ReleaseKeepsPlaces DEF PlacesKept
  <1>5. ASSUME NEW kept \in 0 .. DraftMax
        PROVE  Sampled(t, kept) \in TaskTable /\ Same(Sampled(t, kept))
    <2>1. Same(Sampled(t, kept))
      BY DEF Sampled, TypeOK, TaskRecord
    <2> QED
      BY <2>1, SampledType
  <1>6. CASE FailTask(t)
    BY <1>0, <1>4, <1>6 DEF FailTask, Abort
  <1>7. ASSUME NEW kept \in 0 .. DraftMax,
               Finish(t, kept) \/ Drop(t, kept) \/ DraftFails(t, kept)
        PROVE  Same(task')
    <2>1. release_completion_task(Sampled(t, kept), t)
      BY <1>7 DEF Finish, Drop, DraftFails, Retire, Abort
    <2> HIDE DEF Same
    <2> QED
      BY <1>4, <1>5, <2>1
  <1>8. ASSUME NEW kept \in 0 .. DraftMax, Continue(t, kept)
        PROVE  Same(task')
    <2>1. PICK drafted : task' = [Sampled(t, kept) EXCEPT ![t].drafted = drafted]
      BY <1>8 DEF Continue
    <2> DEFINE sampled == Sampled(t, kept)
    <2>2. sampled \in TaskTable /\ Same(sampled) /\ task' = [sampled EXCEPT ![t].drafted = drafted]
      BY <1>5, <2>1
    <2> HIDE DEF sampled
    <2> QED
      BY <2>2 DEF TaskTable, TaskRecord
  <1> QED
    BY <1>2, <1>3, <1>6, <1>7, <1>8 DEF Process

LEMMA IdStep ==
    ASSUME ~CachePrompt, Streams \cap MayClose = {}, IdInv, [Next]_vars
    PROVE  IdInv'
  <1>0. TypeOK'
    BY TypeStep DEF IdInv
  <1>1. ASSUME NEW t \in Tasks, NEW tid \in Tids, NEW prompt, NEW max_tokens,
               Submit(t, tid, prompt, max_tokens)
        PROVE  IdInv'
    <2>1. /\ location[t] = "unsent" /\ serving[tid] = NoTask
          /\ location' = [location EXCEPT ![t] = "queued"]
          /\ serving' = [serving EXCEPT ![tid] = t]
          /\ task' = [task EXCEPT ![t] = NewTask(tid, prompt, max_tokens)]
          /\ closed' = closed
      BY <1>1 DEF Submit
    <2>2. /\ task'[t].tid = tid /\ task'[t].seq_id = tid
          /\ \A u \in Tasks \ {t} : task'[u] = task[u]
      BY <2>1 DEF NewTask, IdInv, TypeOK
    <2>3. Live' = Live \cup {t} /\ t \notin Live
      BY <2>1 DEF IdInv, TypeOK, Live, Queued, Round, Batch, At
    <2>4. \A u \in Live : task[u].tid # tid /\ task[u].tid \in Tids
      BY <2>1, PlacesOfTasks, SchedulerAssumption DEF IdInv, Served, TypeOK, TaskRecord
    <2>5. Served'
      BY <2>1, <2>2, <2>3, <2>4, PlacesOfTasks DEF IdInv, Served, TypeOK
    <2> QED
      BY <1>0, <2>1, <2>2, <2>3, <2>5, PlacesOfTasks DEF IdInv
  <1>2. ASSUME NEW tid \in Tids, Abandon(tid) PROVE FALSE
    BY <1>2 DEF Abandon, IdInv
  <1>3. CASE \/ \E t \in Tasks : Disconnect(t)
             \/ CloseBatch \/ Decodes \/ DecodeFails \/ UNCHANGED vars
    <2>1. UNCHANGED <<location, task, serving>>
      BY <1>3 DEF Disconnect, CloseBatch, Decodes, DecodeFails, vars, environment
    <2>2. Live' = Live
      BY <2>1 DEF Live, Queued, Round, Batch, At
    <2>3. closed' \subseteq MayClose
      BY <1>3 DEF IdInv, Disconnect, CloseBatch, Decodes, DecodeFails, vars, environment
    <2> QED
      BY <1>0, <2>1, <2>2, <2>3, IdsKept
  <1>4. CASE Dequeue
    <2>1. PICK taken \in SUBSET Queued :
              location' = [t \in Tasks |-> IF t \in taken THEN "round" ELSE location[t]]
      BY <1>4 DEF Dequeue, kSubset
    <2>2. Live' = Live
      BY <2>1 DEF IdInv, TypeOK, Live, Queued, Round, Batch, At
    <2> QED
      BY <1>0, <1>4, <2>2, IdsKept DEF Dequeue, environment, IdInv
  <1>5. ASSUME NEW t \in Tasks, Requeue(t), t \in Round PROVE IdInv'
    <2>1. Live' = Live
      BY <1>5 DEF Requeue, Move, IdInv, TypeOK, Live, Queued, Round, Batch, At
    <2> QED
      BY <1>0, <1>5, <2>1, IdsKept DEF Requeue, environment, IdInv
  <1>6. ASSUME NEW t \in Tasks, Prefill(t) \/ PrefillThrows(t) \/ JoinDecode(t) PROVE IdInv'
    <2>1. Live' = Live /\ UNCHANGED environment
      <3>1. location' = location \/ (location[t] = "round" /\ location' = [location EXCEPT ![t] = "batch"])
        BY <1>6 DEF Prefill, PrefillThrows, JoinDecode, ConsidersPrefill, ConsidersDecode, Walked,
                    Move, Round, At
      <3> QED
        BY <1>6, <3>1
        DEF Prefill, PrefillThrows, JoinDecode, IdInv, TypeOK, Live, Queued, Round, Batch, At
    <2>2. \A u \in Tasks : task'[u].tid = task[u].tid /\ task'[u].seq_id = task[u].seq_id
      BY <1>6, PrefillKeepsIds, BatchKeepsIds DEF IdInv, PrefillThrows
    <2> QED
      BY <1>0, <2>1, <2>2, IdsKept, PlacesOfTasks DEF environment, IdInv
  <1>7. CASE MakeRoom
    <2>1. Live' = Live /\ UNCHANGED environment
      BY <1>7 DEF MakeRoom, Live, Queued, Round, Batch, At
    <2>2. ASSUME NEW u \in Live PROVE task'[u].tid = task[u].tid /\ task'[u].seq_id = task[u].seq_id
      BY <1>7, BatchKeepsIds, PlacesOfTasks DEF IdInv
    <2> QED
      BY <1>0, <2>1, <2>2, IdsKept DEF environment, IdInv
  <1>8. ASSUME NEW t \in Tasks, Process(t) PROVE IdInv'
    <2>1. \A u \in Tasks : task'[u].tid = task[u].tid /\ task'[u].seq_id = task[u].seq_id
      BY <1>8, BatchKeepsIds DEF IdInv
    <2>2. closed' = closed
      BY <1>8 DEF Process, FailTask, Finish, Continue, Drop, DraftFails, Retire, Abort, environment
    <2>3. CASE \E kept \in 0 .. DraftMax : Continue(t, kept)
      <3>1. Live' = Live /\ serving' = serving
        BY <2>3 DEF Continue, LeaveBatch, Move, Samples, environment, IdInv, TypeOK,
                    Live, Queued, Round, Batch, At
      <3> QED
        BY <1>0, <2>1, <2>2, <3>1, IdsKept, PlacesOfTasks DEF IdInv
    <2>4. CASE LeaveBatch(t, "destroyed") /\ t \in Batch
      <3>1. Live' = Live \ {t}
        BY <2>4 DEF LeaveBatch, Move, IdInv, TypeOK, Live, Queued, Round, Batch, At
      <3>2. \A tid \in Tids : serving[tid] # t => serving'[tid] = serving[tid]
        BY <1>8, <2>4 DEF Process, FailTask, Finish, Continue, Drop, DraftFails, Retire, Abort, Post,
                          environment, IdInv, TypeOK
      <3> QED
        BY <1>0, <2>1, <2>2, <3>1, <3>2, IdsKept, PlacesOfTasks DEF IdInv
    <2> QED
      BY <1>8, <2>3, <2>4
      DEF Process, FailTask, Finish, Drop, DraftFails, Samples, Retire, Abort
  <1> QED
    BY <1>1, <1>2, <1>3, <1>4, <1>5, <1>6, <1>7, <1>8
    DEF Next, Environment, reconcile, DequeueTimesOut,
        Walk, LoraWaits, AdmissionWaits, KvWaits, Throttle, Defer,
        ConsidersPrefill, ConsidersDecode, Walked

(***************************************************************************)
(* A sequence of the KV cache has one running owner, and a cache entry is  *)
(* marked used exactly while it has one: with prompt caching always,       *)
(* without it as long as no stream is abandoned (an abandoned task and the *)
(* next one of its HTTP thread would share a sequence).                    *)
(***************************************************************************)
THEOREM Ownership ==
    ASSUME CachePrompt \/ Streams \cap MayClose = {}
    PROVE  Spec => []SequencesOwned
  <1>1. CASE CachePrompt
    <2>1. CacheInv => SequencesOwned
      BY <1>1 DEF CacheInv
    <2> QED
      BY <2>1, CacheInvHolds, PTL
  <1>2. CASE ~CachePrompt
    <2>1. Init => IdInv
      <3>1. Init => Live = {}
        BY DEF Init, Live, Queued, Round, Batch, At
      <3> QED
        BY <3>1, InitType DEF Init, IdInv, Served
    <2>2. IdInv /\ [Next]_vars => IdInv'
      BY <1>2, IdStep
    <2>3. IdInv => SequencesOwned
      BY <1>2, PlacesOfTasks DEF IdInv, Served, SequencesOwned
    <2> QED
      BY <2>1, <2>2, <2>3, PTL DEF Spec
  <1> QED
    BY <1>1, <1>2

-----------------------------------------------------------------------------
(***************************************************************************)
(* The promise.                                                            *)
(***************************************************************************)

(* No draft is longer than speculative.draft.n_max.                        *)
DraftsBounded == \A t \in Tasks : task[t].drafted <= DraftMax

LEMMA SettingTypes ==
    CtxSize \in Nat /\ DraftMax \in Nat /\ NThreads \in Nat /\ NThreads > 0 /\ CtxSize > 0
  BY SchedulerAssumption

(* position_for_budget keeps the order and grows by no more than pos does. *)
LEMMA BudgetPosition ==
    ASSUME NEW a \in Int, NEW b \in Int, NEW c \in Nat
    PROVE  /\ position_for_budget(a) \in Nat
           /\ a <= position_for_budget(a)
           /\ a <= b => position_for_budget(a) <= position_for_budget(b)
           /\ a <= c => position_for_budget(a) <= c
           /\ a <= b + c => position_for_budget(a) <= position_for_budget(b) + c
  BY DEF position_for_budget, max

LEMMA PositionTypes ==
    ASSUME TypeOK
    PROVE  /\ \A t \in Tasks : task[t].pos \in Int /\ task[t].drafted \in Nat
           /\ Registered \subseteq Tasks
  BY DEF TypeOK, TaskRecord, Registered

(* The operators of the quota module, as the promise sees them.            *)
LEMMA SameOperators ==
    /\ \A S : Promise!Cardinality(S) = Cardinality(S)
    /\ \A total, active : Promise!for_active_requests(total, active) = for_active_requests(total, active)
    /\ \A positions, quota :
           Promise!positions_fit(positions, quota) <=> positions_fit(positions, quota)
    /\ \A total, parallel, active, positions, prompt :
           Promise!can_admit(total, parallel, active, positions, prompt)
               <=> can_admit(total, parallel, active, positions, prompt)
  <1>1. \A S : Promise!Cardinality(S) = Cardinality(S)
    BY DEF Promise!Cardinality, Cardinality
  <1>2. /\ \A total, active :
               Promise!for_active_requests(total, active) = for_active_requests(total, active)
        /\ \A positions, quota :
               Promise!positions_fit(positions, quota) <=> positions_fit(positions, quota)
    BY DEF Promise!for_active_requests, for_active_requests, Promise!max, max,
           Promise!positions_fit, positions_fit
  <1>3. ASSUME NEW total, NEW parallel, NEW active, NEW positions, NEW prompt
        PROVE  Promise!can_admit(total, parallel, active, positions, prompt)
                   <=> can_admit(total, parallel, active, positions, prompt)
    BY <1>2 DEF Promise!can_admit, can_admit
  <1> QED
    BY <1>1, <1>2, <1>3

(* The abstract limit is the quota that the registry gives.                *)
LEMMA LimitIsQuota ==
    ASSUME Inv
    PROVE  Promise!Limit = quotaFor(ActiveCount)
  <1>1. DOMAIN admitted_positions = Registered
    BY DEF admitted_positions
  <1>2. Cardinality(Registered) = ActiveCount
    BY HoldersCounted, RegisteredAreHolders
  <1> QED
    BY <1>1, <1>2, SameOperators DEF Promise!Limit, Promise!Admitted, quotaFor

-----------------------------------------------------------------------------
(***************************************************************************)
(* Steps of the scheduler as steps of the promise.                         *)
(***************************************************************************)

LEMMA StutterMaps ==
    ASSUME Registered' = Registered, \A u \in Registered : task'[u].pos = task[u].pos
    PROVE  admitted_positions' = admitted_positions
  BY DEF admitted_positions

(* A running task takes tokens, or gives some back.                        *)
LEMMA AdvanceMaps ==
    ASSUME Inv, Inv', DraftsBounded',
           Registered' = Registered, NEW t \in Registered,
           \A u \in Registered \ {t} : task'[u].pos = task[u].pos,
           \/ task'[t].pos <= task[t].pos
           \/ task[t].pos <= task[t].limit /\ task'[t].pos <= task[t].pos + (1 + DraftMax)
    PROVE  Promise!Next
  <1> DEFINE p == position_for_budget(task'[t].pos)
  <1>1. /\ t \in Tasks /\ t \in Holders /\ t \in Holders'
        /\ task[t].pos \in Int /\ task'[t].pos \in Int /\ task'[t].drafted \in Nat
        /\ task[t].limit \in Nat /\ task'[t].limit \in Nat
    <2>1. t \in Tasks /\ task[t] \in TaskRecord /\ task'[t] \in TaskRecord
      BY DEF Inv, TypeOK, Registered
    <2>2. t \in Holders
      BY RegisteredAreHolders
    <2>3. PICK tid \in Tids : active_completion_tasks'[tid] = t
      BY DEF Registered
    <2>4. t \in Holders'
      BY <2>1, <2>3, SchedulerAssumption DEF Inv, RegistryOfHolders
    <2> QED
      BY <2>1, <2>2, <2>4 DEF TaskRecord
  <1>2. p \in 0 .. CtxSize + (1 + DraftMax)
    <2>1. task'[t].pos - Ahead(t)' <= task'[t].limit
      BY <1>1 DEF Inv, QuotaBounds
    <2>2. task'[t].limit <= CtxSize
      <3>1. ActiveCount' \in Nat
        BY EntriesCounted DEF ActiveCount
      <3>2. quotaFor(ActiveCount') <= CtxSize
        BY <3>1, QuotaForType
      <3>3. task'[t].limit = quotaFor(ActiveCount')
        BY <1>1 DEF Inv, LimitsExact, quotaFor
      <3> QED
        BY <3>2, <3>3
    <2>3. Ahead(t)' \in Nat /\ Ahead(t)' <= 1 + DraftMax
      BY <1>1, SettingTypes DEF Ahead, DraftsBounded
    <2>4. task'[t].pos <= CtxSize + (1 + DraftMax)
      <3> HIDE DEF Ahead
      <3> QED
        BY <1>1, <2>1, <2>2, <2>3, SettingTypes
    <2>5. CtxSize + (1 + DraftMax) \in Nat
      BY SettingTypes
    <2> DEFINE c == CtxSize + (1 + DraftMax)
    <2>6. p \in Nat /\ p <= c
      <3> HIDE DEF c
      <3> QED
        BY <1>1, <2>4, <2>5, BudgetPosition DEF c
    <2> QED
      BY <2>6, SettingTypes
  <1>3. /\ admitted_positions[t] = position_for_budget(task[t].pos)
        /\ DOMAIN admitted_positions = Registered
        /\ admitted_positions' = [admitted_positions EXCEPT ![t] = p]
    BY DEF admitted_positions
  <1>4. \/ p <= admitted_positions[t]
        \/ admitted_positions[t] <= Promise!Limit /\ p <= admitted_positions[t] + (1 + DraftMax)
    <2>1. Promise!Limit = task[t].limit
      BY <1>1, LimitIsQuota DEF Inv, LimitsExact
    <2>2. CASE task'[t].pos <= task[t].pos
      <3>1. p <= position_for_budget(task[t].pos)
        BY <1>1, <2>2, 0 \in Nat, BudgetPosition
      <3> QED
        BY <1>3, <3>1
    <2>3. CASE /\ task[t].pos <= task[t].limit
               /\ task'[t].pos <= task[t].pos + (1 + DraftMax)
      <3>1. position_for_budget(task[t].pos) <= task[t].limit
        BY <1>1, <2>3, BudgetPosition
      <3>2. 1 + DraftMax \in Nat
        BY SettingTypes
      <3>3. p <= position_for_budget(task[t].pos) + (1 + DraftMax)
        BY <1>1, <2>3, <3>2, BudgetPosition
      <3> QED
        BY <1>3, <2>1, <3>1, <3>3
    <2> QED
      BY <2>2, <2>3
  <1> HIDE DEF p
  <1>5. Promise!Advance(t, p)
    BY <1>3, <1>4 DEF Promise!Advance, Promise!Admitted
  <1> QED
    BY <1>1, <1>2, <1>5 DEF Promise!Next

(* A task ends.                                                            *)
LEMMA ReleaseMaps ==
    ASSUME Inv, NEW t \in Registered, Registered' = Registered \ {t},
           \A u \in Registered \ {t} : task'[u].pos = task[u].pos
    PROVE  Promise!Next
  <1>1. /\ t \in Tasks /\ DOMAIN admitted_positions = Registered
        /\ admitted_positions' = [q \in Registered \ {t} |-> admitted_positions[q]]
    BY PositionTypes DEF admitted_positions, Inv
  <1>2. Promise!Release(t)
    BY <1>1 DEF Promise!Release, Promise!Admitted
  <1> QED
    BY <1>1, <1>2 DEF Promise!Next

(* A task is admitted, for all of its prompt.                              *)
LEMMA AdmitMaps ==
    ASSUME dynamic_context_enabled, Inv, TypeOK', NEW t \in Tasks \ Registered,
           check_completion_admission(t) = "ready",
           Registered' = Registered \cup {t},
           \A u \in Registered : task'[u].pos = task[u].pos,
           task'[t].pos <= task[t].prompt
    PROVE  Promise!Next
  <1> DEFINE p      == position_for_budget(task'[t].pos)
             prompt == task[t].prompt
             quota  == quotaFor(ActiveCount + 1)
             held   == {position_for_budget(task[u].pos) : u \in Registered}
  <1>1. /\ ActiveCount < NThreads /\ ~(quota <= 0) /\ positions_fit(held, quota)
        /\ ~(prompt > quota) /\ ~(ActiveCount >= NThreads)
    <2>1. ActiveCount \in Nat
      BY EntriesCounted DEF ActiveCount
    <2>2. ~(ActiveCount >= NThreads)
      BY DEF check_completion_admission
    <2>3. ActiveCount < NThreads
      BY <2>1, <2>2, SettingTypes
    <2> QED
      BY <2>3 DEF check_completion_admission
  <1>2. /\ ActiveCount \in Nat /\ quota \in Nat /\ quota <= CtxSize
        /\ prompt \in Nat /\ task'[t].pos \in Int
    <2>1. ActiveCount \in Nat
      BY EntriesCounted DEF ActiveCount
    <2>2. quota \in Nat /\ quota <= CtxSize
      BY <2>1, QuotaForType
    <2>3. prompt \in Nat /\ task'[t].pos \in Int
      BY DEF Inv, TypeOK, TaskRecord
    <2> QED
      BY <2>1, <2>2, <2>3
  <1>3. /\ DOMAIN admitted_positions = Registered
        /\ Promise!Positions = held
        /\ admitted_positions' = [q \in Registered \cup {t} |->
                                      IF q = t THEN p ELSE admitted_positions[q]]
    BY DEF admitted_positions, Promise!Positions, Promise!Admitted
  <1>4. Cardinality(Registered) = ActiveCount
    BY HoldersCounted, RegisteredAreHolders
  <1>5. prompt \in 0 .. CtxSize /\ p \in 0 .. CtxSize /\ p <= prompt
    <2>1. prompt <= CtxSize
      BY <1>1, <1>2, SettingTypes
    <2>2. p \in Nat /\ p <= prompt
      BY <1>2, BudgetPosition
    <2> QED
      BY <1>2, <2>1, <2>2, SettingTypes
  <1> HIDE DEF held, p, prompt
  <1>6. can_admit(CtxSize, NThreads, Cardinality(Registered), held, prompt)
    <2>1. quota = for_active_requests(CtxSize, Cardinality(Registered) + 1)
      BY <1>4 DEF quotaFor
    <2> HIDE DEF quota
    <2> QED
      BY <1>1, <1>2, <1>4, <2>1, SettingTypes DEF can_admit
  <1>7. Promise!Admit(t, prompt, p)
    BY <1>3, <1>5, <1>6, SameOperators DEF Promise!Admit, Promise!Admitted
  <1> QED
    BY <1>5, <1>7 DEF Promise!Next

-----------------------------------------------------------------------------
(***************************************************************************)
(* What each step of the scheduler does to positions and drafts.           *)
(***************************************************************************)

LEMMA RegisteredNext ==
    ASSUME Inv'
    PROVE  Registered' = Holders'
  <1>1. Registered' \subseteq Holders'
    BY SchedulerAssumption DEF Inv, RegistryOfHolders, Registered
  <1>2. ASSUME NEW t \in Holders' PROVE t \in Registered'
    <2>1. t \in Tasks
      BY DEF Holders, Live, Queued, Round, Batch, At
    <2>2. task'[t].tid \in Tids
      BY <2>1 DEF Inv, TypeOK, TaskRecord
    <2> QED
      BY <2>1, <2>2 DEF Inv, RegistryOfHolders, Registered
  <1> QED
    BY <1>1, <1>2

(* A prompt enters the cache for at most its length.                       *)
LEMMA PrefillPlaces ==
    ASSUME TypeOK, NEW t \in Tasks, Prefill(t)
    PROVE  /\ \A u \in Tasks : /\ task'[u].n_decoded = task[u].n_decoded
                               /\ task'[u].drafted = task[u].drafted
                               /\ u # t => task'[u].pos = task[u].pos
           /\ task'[t].pos <= task[t].prompt
  <1>1. PICK place \in Placements(t) :
            register_completion_task(
                [task EXCEPT ![t].seq_id = place.seq,
                             ![t].pos = place.pos + (task[t].prompt - place.cached)],
                t, quotaFor(ActiveCount + 1))
    BY DEF Prefill
  <1> DEFINE pos == place.pos + (task[t].prompt - place.cached)
             placed == [task EXCEPT ![t].seq_id = place.seq, ![t].pos = pos]
  <1>2. place.seq \in Slots /\ pos \in Int /\ pos <= task[t].prompt
    <2>1. /\ place.seq \in Slots /\ place.pos \in Int /\ place.cached \in Int
          /\ place.pos <= place.cached /\ task[t].prompt \in Nat
      BY PlacementType, PlacedBelowCached DEF TypeOK, TaskRecord
    <2> QED
      BY <2>1
  <1>3. register_completion_task(placed, t, quotaFor(ActiveCount + 1))
    BY <1>1
  <1> HIDE DEF pos
  <1>4. /\ placed \in TaskTable
        /\ \A u \in Tasks : /\ placed[u].n_decoded = task[u].n_decoded
                            /\ placed[u].drafted = task[u].drafted
                            /\ u # t => placed[u].pos = task[u].pos
        /\ placed[t].pos = pos
    <2>1. task[t] \in TaskRecord
      BY DEF TypeOK
    <2>2. [task[t] EXCEPT !.seq_id = place.seq, !.pos = pos] \in TaskRecord
      BY <1>2, <2>1, PlacedRecord
    <2>3. placed = [task EXCEPT ![t] = [task[t] EXCEPT !.seq_id = place.seq, !.pos = pos]]
      BY DEF TypeOK
    <2> QED
      BY <1>2, <2>1, <2>2, <2>3 DEF TypeOK, TaskTable, TaskRecord
  <1> HIDE DEF placed
  <1>5. quotaFor(ActiveCount + 1) \in Nat
    <2>1. ActiveCount \in Nat
      BY EntriesCounted DEF ActiveCount
    <2> QED
      BY <2>1, QuotaForType
  <1>6. PlacesKept(placed)
    BY <1>3, <1>4, <1>5, RegisterKeepsPlaces
  <1> QED
    BY <1>2, <1>4, <1>6 DEF PlacesKept

(* A decoding task goes ahead by the tokens it puts in the batch.          *)
LEMMA JoinDecodePlaces ==
    ASSUME TypeOK, NEW t \in Tasks, JoinDecode(t)
    PROVE  /\ t \in Holders \ Batch
           /\ \A u \in Tasks : /\ task'[u].drafted = task[u].drafted
                               /\ u # t => task'[u].pos = task[u].pos
           /\ task'[t].pos <= task[t].pos + (1 + task[t].drafted)
  <1>1. t \in Holders \ Batch /\ t \in Holders
    BY PlacesOfTasks DEF JoinDecode, ConsidersDecode, Walked, Holders, Round, Batch, At
  <1> DEFINE added == 1 + task[t].drafted
  <1>2. PICK room : /\ room = Unshifted \/ room \in shift_completion_task_cache(t)
                    /\ task' = [room.task EXCEPT ![t].pos = @ + added]
    BY DEF JoinDecode
  <1>3. /\ room.task \in TaskTable /\ added \in Nat
        /\ \A u \in Tasks : u # t => room.task[u].pos = task[u].pos
    BY <1>1, <1>2, ShiftAccounts DEF TypeOK, TaskRecord
  <1>4. \A u \in Tasks : room.task[u].drafted = task[u].drafted /\ room.task[u].pos <= task[u].pos
    <2>1. CASE room = Unshifted
      BY <2>1 DEF Unshifted, TypeOK, TaskRecord
    <2>2. CASE room \in shift_completion_task_cache(t)
      BY <2>2, ShiftKeeps DEF KeepsProgress
    <2> QED
      BY <1>2, <2>1, <2>2
  <1> HIDE DEF added
  <1>5. /\ task'[t].drafted = room.task[t].drafted
        /\ task'[t].pos = room.task[t].pos + added
        /\ \A u \in Tasks \ {t} : task'[u] = room.task[u]
        /\ room.task[t].pos \in Int /\ task[t].pos \in Int
    BY <1>2, <1>3 DEF TaskTable, TaskRecord, TypeOK
  <1>6. task'[t].pos <= task[t].pos + added
    BY <1>3, <1>4, <1>5
  <1> QED
    BY <1>1, <1>3, <1>4, <1>5, <1>6 DEF added

(* At most one task gives up tokens to make room.                          *)
LEMMA MakeRoomPlaces ==
    ASSUME TypeOK, MakeRoom
    PROVE  /\ \A u \in Tasks : task'[u].drafted = task[u].drafted /\ task'[u].pos <= task[u].pos
           /\ \/ \A u \in Tasks : task'[u].pos = task[u].pos
              \/ \E t \in Holders : \A u \in Tasks \ {t} : task'[u].pos = task[u].pos
  <1>1. PICK t \in (IF Decoding = {} THEN {NoTask} ELSE Longest) :
            \E room \in shift_completion_task_cache(t) : task' = room.task
    BY DEF MakeRoom
  <1>2. t = NoTask \/ t \in Holders
    BY <1>1, PlacesOfTasks DEF Longest, Decoding
  <1>3. PICK room \in shift_completion_task_cache(t) : task' = room.task
    BY <1>1
  <1>4. \A u \in Tasks : task'[u].drafted = task[u].drafted /\ task'[u].pos <= task[u].pos
    BY <1>2, <1>3, ShiftKeeps, PlacesOfTasks DEF KeepsProgress
  <1>5. \A u \in Tasks : u # t => task'[u].pos = task[u].pos
    BY <1>2, <1>3, ShiftAccounts
  <1> QED
    BY <1>2, <1>4, <1>5, SchedulerAssumption

(* Verification takes back what was rejected.                              *)
LEMMA SampledPlaces ==
    ASSUME TypeOK, NEW t \in Tasks, NEW kept \in 0 .. DraftMax, kept \in 0 .. task[t].drafted
    PROVE  /\ Sampled(t, kept) \in TaskTable
           /\ \A u \in Tasks : /\ u # t => Sampled(t, kept)[u] = task[u]
                               /\ Sampled(t, kept)[u].drafted <= task[u].drafted
           /\ Sampled(t, kept)[t].pos <= task[t].pos
           /\ Sampled(t, kept)[t].n_decoded > 0
  <1>1. /\ task[t].pos \in Int /\ task[t].drafted \in Nat /\ task[t].n_decoded \in Nat
        /\ kept \in Int /\ kept <= task[t].drafted
    BY DEF TypeOK, TaskRecord
  <1>2. Sampled(t, kept) \in TaskTable
    BY SampledType
  <1>3. /\ \A u \in Tasks \ {t} : Sampled(t, kept)[u] = task[u]
        /\ Sampled(t, kept)[t].n_decoded = task[t].n_decoded + 1 + task[t].drafted
        /\ Sampled(t, kept)[t].pos = task[t].pos - (task[t].drafted - kept)
    BY SampledFields
  <1>4. Sampled(t, kept)[t].drafted = 0
    BY DEF Sampled, TypeOK, TaskRecord
  <1>5. \A u \in Tasks : task[u].drafted \in Nat
    BY DEF TypeOK, TaskRecord
  <1>6. \A u \in Tasks : Sampled(t, kept)[u].drafted <= task[u].drafted
    BY <1>3, <1>4, <1>5
  <1>7. Sampled(t, kept)[t].pos <= task[t].pos /\ Sampled(t, kept)[t].n_decoded > 0
    BY <1>1, <1>3
  <1> QED
    BY <1>2, <1>3, <1>6, <1>7

(* A task that ends disturbs nobody else.                                  *)
LEMMA EndPlaces ==
    ASSUME TypeOK, NEW t \in Tasks,
           \/ FailTask(t)
           \/ \E kept \in 0 .. DraftMax : Finish(t, kept) \/ Drop(t, kept) \/ DraftFails(t, kept)
    PROVE  /\ t \in Batch /\ location' = [location EXCEPT ![t] = "destroyed"]
           /\ \A u \in Tasks : task'[u].drafted <= task[u].drafted
           /\ \A u \in Tasks \ {t} : /\ task'[u].pos = task[u].pos
                                     /\ task'[u].n_decoded = task[u].n_decoded
  <1> DEFINE Quiet(tasks) == /\ tasks \in TaskTable
                             /\ \A u \in Tasks : /\ u # t => tasks[u] = task[u]
                                                 /\ tasks[u].drafted <= task[u].drafted
  <1>1. ASSUME NEW tasks, Quiet(tasks), release_completion_task(tasks, t)
        PROVE  /\ \A u \in Tasks : task'[u].drafted <= task[u].drafted
               /\ \A u \in Tasks \ {t} : /\ task'[u].pos = task[u].pos
                                         /\ task'[u].n_decoded = task[u].n_decoded
    <2>1. PlacesKept(tasks)
      BY <1>1, ReleaseKeepsPlaces
    <2> QED
      BY <1>1, <2>1 DEF PlacesKept
  <1>2. CASE FailTask(t)
    <2>1. Quiet(task)
      BY DEF TypeOK, TaskTable, TaskRecord
    <2>2. /\ t \in Batch /\ release_completion_task(task, t)
          /\ location' = [location EXCEPT ![t] = "destroyed"]
      BY <1>2 DEF FailTask, Abort, LeaveBatch, Move
    <2> HIDE DEF Quiet
    <2> QED
      BY <1>1, <2>1, <2>2
  <1>3. ASSUME NEW kept \in 0 .. DraftMax,
               Finish(t, kept) \/ Drop(t, kept) \/ DraftFails(t, kept)
        PROVE  /\ t \in Batch /\ location' = [location EXCEPT ![t] = "destroyed"]
               /\ \A u \in Tasks : task'[u].drafted <= task[u].drafted
               /\ \A u \in Tasks \ {t} : /\ task'[u].pos = task[u].pos
                                         /\ task'[u].n_decoded = task[u].n_decoded
    <2>1. /\ t \in Batch /\ kept \in 0 .. task[t].drafted
          /\ release_completion_task(Sampled(t, kept), t)
          /\ location' = [location EXCEPT ![t] = "destroyed"]
      BY <1>3 DEF Finish, Drop, DraftFails, Samples, Retire, Abort, LeaveBatch, Move
    <2>2. Quiet(Sampled(t, kept))
      BY <2>1, SampledPlaces
    <2> HIDE DEF Quiet
    <2> QED
      BY <1>1, <2>1, <2>2
  <1> QED
    BY <1>2, <1>3

(* An unfinished task has given back what was rejected, and drafts anew.   *)
LEMMA ContinuePlaces ==
    ASSUME TypeOK, NEW t \in Tasks, NEW kept \in 0 .. DraftMax, Continue(t, kept)
    PROVE  /\ t \in Batch
           /\ \A u \in Tasks \ {t} : task'[u] = task[u]
           /\ task'[t].pos <= task[t].pos
           /\ task'[t].drafted <= DraftMax
  <1> DEFINE sampled == Sampled(t, kept)
  <1>1. t \in Batch /\ kept \in 0 .. task[t].drafted
    BY DEF Continue, Samples
  <1>2. /\ sampled \in TaskTable
        /\ \A u \in Tasks : u # t => sampled[u] = task[u]
        /\ sampled[t].pos <= task[t].pos
    BY <1>1, SampledPlaces
  <1>3. PICK drafted \in DraftSizes(sampled[t].budget) : task' = [sampled EXCEPT ![t].drafted = drafted]
    BY DEF Continue
  <1>4. drafted <= DraftMax
    <2>1. sampled[t].budget \in Int
      BY <1>2 DEF TaskTable, TaskRecord
    <2> HIDE DEF sampled
    <2> QED
      BY <1>3, <2>1, SchedulerAssumption DEF DraftSizes, min, max
  <1> HIDE DEF sampled
  <1> QED
    BY <1>1, <1>2, <1>3, <1>4 DEF TaskTable, TaskRecord

-----------------------------------------------------------------------------
(***************************************************************************)
(* The refinement.                                                         *)
(***************************************************************************)

(* The steps that change the task table or the registry.                   *)
LEMMA StepKinds ==
    ASSUME [Next]_vars
    PROVE  \/ UNCHANGED <<task, active_completion_tasks>>
           \/ \E t \in Tasks, tid \in Tids, prompt \in Prompts, max_tokens \in MaxTokens :
                  Submit(t, tid, prompt, max_tokens)
           \/ \E t \in Tasks : Prefill(t)
           \/ \E t \in Tasks : JoinDecode(t)
           \/ MakeRoom
           \/ \E t \in Tasks, kept \in 0 .. DraftMax : Continue(t, kept)
           \/ \E t \in Tasks :
                  \/ FailTask(t)
                  \/ \E kept \in 0 .. DraftMax :
                         Finish(t, kept) \/ Drop(t, kept) \/ DraftFails(t, kept)
  <1>1. ASSUME NEW t \in Tasks, Walk(t), ~Prefill(t), ~JoinDecode(t)
        PROVE  UNCHANGED <<task, active_completion_tasks>>
    BY <1>1 DEF Walk, LoraWaits, AdmissionWaits, KvWaits, PrefillThrows, Throttle, Defer,
                Requeue, registryAndCache
  <1>2. CASE \/ \E t \in Tasks : Disconnect(t)
             \/ \E tid \in Tids : Abandon(tid)
             \/ Dequeue \/ CloseBatch \/ Decodes \/ DecodeFails \/ UNCHANGED vars
    BY <1>2 DEF Disconnect, Abandon, Dequeue, CloseBatch, Decodes, DecodeFails, vars,
                registryAndCache
  <1> QED
    BY <1>1, <1>2 DEF Next, Environment, reconcile, Process, DequeueTimesOut

LEMMA DraftsStep ==
    ASSUME TypeOK, DraftsBounded, [Next]_vars
    PROVE  DraftsBounded'
  <1>1. \A u \in Tasks : task[u].drafted \in Nat /\ task'[u].drafted \in Nat
    BY TypeStep DEF TypeOK, TaskRecord
  <1>2. CASE \A u \in Tasks : task'[u].drafted <= task[u].drafted
    BY <1>1, <1>2, SettingTypes DEF DraftsBounded
  <1>3. ASSUME NEW t \in Tasks, NEW tid \in Tids, NEW prompt \in Prompts,
               NEW max_tokens \in MaxTokens, Submit(t, tid, prompt, max_tokens)
        PROVE  DraftsBounded'
    <2>1. /\ task'[t].drafted = 0
          /\ \A u \in Tasks \ {t} : task'[u] = task[u]
      BY <1>3 DEF Submit, NewTask, TypeOK
    <2> QED
      BY <2>1, SettingTypes DEF DraftsBounded
  <1>4. ASSUME NEW t \in Tasks, NEW kept \in 0 .. DraftMax, Continue(t, kept)
        PROVE  DraftsBounded'
    BY <1>4, ContinuePlaces DEF DraftsBounded
  <1>5. CASE \/ UNCHANGED <<task, active_completion_tasks>>
             \/ \E t \in Tasks : Prefill(t) \/ JoinDecode(t)
             \/ MakeRoom
    <2>1. \A u \in Tasks : task'[u].drafted = task[u].drafted
      BY <1>5, PrefillPlaces, JoinDecodePlaces, MakeRoomPlaces
    <2> QED
      BY <2>1 DEF DraftsBounded
  <1> QED
    BY <1>2, <1>3, <1>4, <1>5, StepKinds, EndPlaces

(***************************************************************************)
(* Every step of the scheduler is one that the promise allows, or changes  *)
(* nobody's position.                                                      *)
(***************************************************************************)
LEMMA StepMaps ==
    ASSUME dynamic_context_enabled, Inv, Inv', DraftsBounded, DraftsBounded', [Next]_vars
    PROVE  Promise!Next \/ admitted_positions' = admitted_positions
  <1>0. /\ TypeOK /\ TypeOK'
        /\ Registered = Holders /\ Registered' = Holders'
        /\ Registered \subseteq Tasks
    BY RegisteredAreHolders, RegisteredNext, PositionTypes DEF Inv
  <1>1. CASE UNCHANGED <<task, active_completion_tasks>>
    BY <1>1, StutterMaps DEF Registered
  <1>2. ASSUME NEW t \in Tasks, NEW tid \in Tids, NEW prompt \in Prompts,
               NEW max_tokens \in MaxTokens, Submit(t, tid, prompt, max_tokens)
        PROVE  admitted_positions' = admitted_positions
    <2>1. Registered' = Registered
      BY <1>2 DEF Submit, registryAndCache, Registered
    <2>2. t \notin Registered
      BY <1>0, <1>2, PlacesOfTasks DEF Submit, Live, Queued, Round, Batch, At
    <2>3. \A u \in Registered : task'[u].pos = task[u].pos
      BY <1>0, <1>2, <2>2 DEF Submit, TypeOK
    <2> QED
      BY <2>1, <2>3, StutterMaps
  <1>3. ASSUME NEW t \in Tasks, Prefill(t)
        PROVE  Promise!Next
    <2>1. /\ t \in Round /\ AwaitsPrefill(t) /\ check_completion_admission(t) = "ready"
          /\ location' = [location EXCEPT ![t] = "batch"]
      BY <1>3 DEF Prefill, ConsidersPrefill, Walked, Move
    <2>2. /\ \A u \in Tasks : /\ task'[u].n_decoded = task[u].n_decoded
                              /\ u # t => task'[u].pos = task[u].pos
          /\ task'[t].pos <= task[t].prompt
      BY <1>0, <1>3, PrefillPlaces
    <2>3. t \notin Holders /\ Holders' = Holders \cup {t}
      BY <1>0, <2>1, <2>2 DEF TypeOK, Holders, Live, Queued, Round, Batch, At, AwaitsPrefill
    <2>4. \A u \in Registered : task'[u].pos = task[u].pos
      BY <1>0, <2>2, <2>3
    <2> QED
      BY <1>0, <2>1, <2>2, <2>3, <2>4, AdmitMaps
  <1>4. ASSUME NEW t \in Tasks, JoinDecode(t)
        PROVE  Promise!Next
    <2>1. Registered' = Registered
      BY <1>4 DEF JoinDecode, Registered
    <2>2. /\ t \in Holders /\ t \notin Batch
          /\ \A u \in Tasks : u # t => task'[u].pos = task[u].pos
          /\ task'[t].pos <= task[t].pos + (1 + task[t].drafted)
      BY <1>0, <1>4, JoinDecodePlaces
    <2>3. Ahead(t) = 0 /\ task[t].pos \in Int /\ task[t].limit \in Int
          /\ task'[t].pos \in Int /\ task[t].drafted \in Nat
      BY <1>0, <2>2 DEF Ahead, TypeOK, TaskRecord
    <2>4. task[t].pos <= task[t].limit
      BY <2>2, <2>3 DEF Inv, QuotaBounds
    <2>5. task'[t].pos <= task[t].pos + (1 + DraftMax)
      BY <2>2, <2>3, SettingTypes DEF DraftsBounded
    <2> QED
      BY <1>0, <2>1, <2>2, <2>4, <2>5, AdvanceMaps
  <1>5. CASE MakeRoom
    <2>1. Registered' = Registered
      BY <1>5 DEF MakeRoom, Registered
    <2>2. CASE \A u \in Tasks : task'[u].pos = task[u].pos
      BY <1>0, <2>1, <2>2, StutterMaps
    <2>3. ASSUME NEW t \in Holders, \A u \in Tasks \ {t} : task'[u].pos = task[u].pos
          PROVE  Promise!Next
      <3>1. task'[t].pos <= task[t].pos
        BY <1>0, <1>5, MakeRoomPlaces
      <3> QED
        BY <1>0, <2>1, <2>3, <3>1, AdvanceMaps
    <2> QED
      BY <1>0, <1>5, <2>2, <2>3, MakeRoomPlaces
  <1>6. ASSUME NEW t \in Tasks, NEW kept \in 0 .. DraftMax, Continue(t, kept)
        PROVE  Promise!Next
    <2>1. Registered' = Registered
      BY <1>6 DEF Continue, registryAndCache, Registered
    <2>2. /\ t \in Holders
          /\ \A u \in Tasks \ {t} : task'[u] = task[u]
          /\ task'[t].pos <= task[t].pos
      BY <1>0, <1>6, ContinuePlaces, PlacesOfTasks
    <2> QED
      BY <1>0, <2>1, <2>2, AdvanceMaps
  <1>7. ASSUME NEW t \in Tasks,
               \/ FailTask(t)
               \/ \E kept \in 0 .. DraftMax : Finish(t, kept) \/ Drop(t, kept) \/ DraftFails(t, kept)
        PROVE  Promise!Next
    <2>1. /\ t \in Batch /\ location' = [location EXCEPT ![t] = "destroyed"]
          /\ \A u \in Tasks \ {t} : /\ task'[u].pos = task[u].pos
                                    /\ task'[u].n_decoded = task[u].n_decoded
      BY <1>0, <1>7, EndPlaces
    <2>2. t \in Holders /\ Holders' = Holders \ {t}
      BY <1>0, <2>1, PlacesOfTasks
      DEF TypeOK, Holders, Live, Queued, Round, Batch, At, AwaitsPrefill
    <2> QED
      BY <1>0, <2>1, <2>2, ReleaseMaps
  <1> QED
    BY <1>1, <1>2, <1>3, <1>4, <1>5, <1>6, <1>7, StepKinds

LEMMA InitMaps ==
    ASSUME Init
    PROVE  Promise!Init /\ DraftsBounded
  <1>1. Registered = {}
    BY SchedulerAssumption DEF Init, Registered
  <1>2. DraftsBounded
    BY SettingTypes DEF Init, NewTask, DraftsBounded
  <1> QED
    BY <1>1, <1>2 DEF Promise!Init, admitted_positions

(***************************************************************************)
(* Whatever the batches, drafts, shifts and failures, the scheduler keeps  *)
(* the promise that DynamicContext states: a request is admitted only if   *)
(* it and all others fit the limit that results, a running one goes at     *)
(* most one decode step beyond the limit, and nobody is shrunk for         *)
(* another.  The streams of disconnecting clients are left out, as for     *)
(* InvHolds.                                                               *)
(***************************************************************************)
THEOREM PromiseKept ==
    ASSUME dynamic_context_enabled, Streams \cap MayClose = {}
    PROVE  Spec => KeepsPromise
  <1>1. Init => Promise!Init /\ DraftsBounded
    BY InitMaps
  <1>2. TypeOK /\ DraftsBounded /\ [Next]_vars => DraftsBounded'
    BY DraftsStep
  <1>3. Inv => TypeOK
    BY DEF Inv
  <1>4. Inv /\ Inv' /\ DraftsBounded /\ DraftsBounded' /\ [Next]_vars
            => [Promise!Next]_admitted_positions
    BY StepMaps
  <1>5. Spec => []Inv
    BY InvHolds
  <1> QED
    BY <1>1, <1>2, <1>3, <1>4, <1>5, PTL DEF Spec, KeepsPromise, Promise!Spec
=============================================================================
