# Verification of llama-box

llama-box is one process: an HTTP server (cpp-httplib) in front of llama.cpp.  Its own logic is in
`llama-box/httpserver.hpp`: HTTP threads turn requests into tasks, one *reconcile thread* batches the
tasks, runs the model and answers, and everything between them goes through queues.  This directory
holds TLA+ modules for that logic, the TLC configurations that check them, and TLAPS proofs.  Line
numbers without a file are those of `llama-box/httpserver.hpp`.

## 1. The system

| Component | State | Operations | Interacts with |
|---|---|---|---|
| Parameters (`engine_param.hpp`, `engine.cpp`) | `llama_box_params` | read the command line, fill in what was not given | loading |
| Loading and serving (`load`, `start`, `start_httpserver`) | settings, routes, thread ids, `is_running()` | load models, derive settings, register routes, start threads, stop at a signal | all |
| Handlers | JSON, prompts | parse, render templates, tokenize, project media, trim, refuse, enqueue | queues, projection cache |
| Projection cache (`cache_tokenize_multimedia`) | least-recently-used list of projected media, a generator of dummy tokens | look up, evict, insert, under the mutex of the projectors | handlers |
| Request and result queues (`process`) | `process_task_results[tid]` for each HTTP thread | enqueue a task, wait for one result, or stream results chunk by chunk, images in pieces | reconcile thread, HTTP library |
| Completion scheduler (`reconcile` and its helpers) | queue `process_tasks`, task fields, `active_completion_tasks`, `cache_prompts`, `llm_kv_cache_used/_inactive`, LoRA adapters applied | dequeue, filter, admit, place in the prompt cache, prefill, join a decode, shift, decode, sample, draft, requeue, retire | HTTP threads (queues), llama.cpp (decode, memory), clients (connection polled) |
| Multimodal prefill | a partly prefilled prompt, the memory of its sequence | decode all chunks but the last while batching | scheduler |
| Text of an answer (`completions_task`) | `generated_text`, offsets, held calls, reasoning | find stop words, reasoning and tool calls; chunks; the reason of the end | scheduler, clients |
| Embeddings and rerank | inputs, embeddings, batch, sequence ids | batch several inputs, clean sequences, decode, collect, score, sort | scheduler's loop, queue, caches and counters |
| Images | progress of one generation | generate, report progress and previews | reconcile loop, result queues |
| Quota arithmetic (`dynamic_context_quota.hpp`) | none | share of the context, admission test, remaining budget | scheduler |
| Token buckets (`z_utils.hpp`) | tokens left, time of the last refill | acquire, refill | scheduler, handlers |
| RPC server (`rpcserver.hpp`) | none of its own in use | `start_rpcserver` hands over to ggml's server | remote clients |

What is hard, and what the properties are for:

* **Admission against moving positions.**  A request is admitted if everybody fits the smaller quota
  that results; while it waits, others advance, are shifted, are released.  Correct: limits always
  match the number of running requests, a request between rounds is within its limit, history is never
  cut because somebody arrived.
* **Hand-kept counters.**  A dozen places adjust the KV counters.  Correct: they equal what running
  tasks and idle caches hold, on every path, with failures of any chunk and with embeddings beside.
* **Ownership of sequences.**  A sequence moves from an idle cache entry to a task and back, and an
  embeddings request takes one without asking.  Correct: one owner at a time, nothing is computed on
  top of what somebody else left.
* **Terminal paths.**  Finish, disconnect, decode failure, draft failure each undo a different set of
  effects.  Correct: the registry holds exactly the running tasks.
* **Progress.**  Tasks are put back at six places of the walk.  Correct: every request is answered
  unless its client leaves; a task whose client left ends; a signal ends the process.
* **Tasks that outlive their handler.**  A stream's handler returns when a write fails; its task goes
  on, under the id of a thread that serves somebody else.
* **Text in rounds.**  Stop words, reasoning and calls are looked for in what a round brought, which a
  draft makes longer.  Correct: nothing is lost, doubled, sent under a wrong name or reported twice.
* **Caches of what was computed.**  Projections and prompt caches are matched by tokens that stand for
  something else.  Correct: a hit gives what would have been computed.

## 2. Modules

```
ContextQuota ──── DynamicContext ──── MCDynamicContext
     │    │             └─ DynamicContextProofs ── (SharedFacts)
     │    └── SharedFacts
     └─ CompletionScheduler ── SchedulerRefinement (INSTANCE DynamicContext) ── MCCompletionScheduler
                                      └─ CompletionSchedulerProofs ── (SharedFacts)
TokenBucket ───── RequestLifecycle ── MCRequestLifecycle
                        └─ RequestLifecycleProofs
MultimodalPrompt ─ ChunkedPrefill ─── MCChunkedPrefill
                        └─ ChunkedPrefillProofs ── (SharedFacts)
RerankSort ────── EmbeddingsBatch ─── MCEmbeddingsBatch
                        └─ EmbeddingsBatchProofs ── (SharedFacts)
GeneratedText ─── MCGeneratedText
     └─ GeneratedTextProofs ── (SharedFacts)
EngineParams ──── ServerStart ─────── MCServerStart
                        └─ ServerStartProofs
```

A line is EXTENDS, unless it says INSTANCE.  What composes: ChunkedPrefill runs the handlers of
MultimodalPrompt against the prompt cache and memory of the reconcile thread; EmbeddingsBatch runs
embeddings and completions in the same rounds, on the same counters; RequestLifecycle joins handlers,
queues, reconcile thread and buckets; ServerStart continues where EngineParams ends, and its settings
are the constants of CompletionScheduler (`SettingsSound` states what that module assumes of them).

**ContextQuota** translates the five functions of `dynamic_context_quota.hpp`, under their names.  A
vector of positions becomes the set of its elements.

**DynamicContext** is the abstract specification: admitted requests with positions, a common limit,
and three steps (admit, advance by at most `Overshoot`, release).  It knows no batches, caches or
threads.

**CompletionScheduler** is the reconcile thread for completions.  `location` says where a task object
is (`unsent`, `queued`, taken in this `round`, in the `batch`, `destroyed`); `phase` is the place in
`reconcile()`.  A round is `Dequeue`; then, for each task taken, exactly one of `LoraWaits`,
`AdmissionWaits`, `KvWaits`, `Prefill`, `PrefillThrows`, `Throttle`, `JoinDecode`, `Defer`; then
`CloseBatch`; `MakeRoom`/`Decodes`/`DecodeFails`; then for each task of the batch one of `Finish`,
`Continue`, `Drop`, `DraftFails`, or `FailTask`.  Each action carries every effect of its branch:
counters, cache entry, registry, the limits and budgets of all registered tasks, the result posted.
The environment is `Submit` (a handler), `Disconnect` (a client) and `Abandon` (a streaming handler
that returns because it cannot write).

| Model | Code |
|---|---|
| `task[t].pos`, `.n_decoded`, `.budget`, `.requested` | `pos`, `n_decoded`, `n_decoding_budget`, `requested_decoding_budget` |
| `task[t].prompt` | `n_prefilling_request` |
| `task[t].drafted` | `drafted_tokens.size()` |
| `task[t].admitted`, `.limit` | `dynamic_context_admitted`, `dynamic_context_limit` |
| `task[t].tid`, `.seq_id` | `btask::id`, `btask::seq_id` |
| `batch_tokens` | `batch_text.n_tokens` |
| `retries` | attempts left in `decode_completion_task_batch` |
| `lora_adapters` | whether the adapters of the tasks in `Adapted` are the ones applied |

Abstractions: token contents (a hit may match any prefix an entry can hold, sampling may end anywhere,
a draft may be accepted up to any token), the order of the queue (a walk may meet the tasks in any
order; the queue is FIFO only per producer), elapsed time (a token bucket is empty or not), the
failures of llama.cpp (any decode may fail or ask for room).  A round chooses the task that fixes the
LoRA adapters when it starts, which is the same as letting the first walked task fix them.

**SchedulerRefinement** maps the scheduler to DynamicContext: the admitted requests are the registered
tasks, `Overshoot` is one token and the drafted ones, and a position is `pos` as the quota arithmetic
takes it (`position_for_budget`): a rejected draft that outlives a shift may leave `pos` below zero, which
counts as nothing held.

**RequestLifecycle** is the way of a request through `process()`: the HTTP threads (`serving`, `blocked`
in `wait_dequeue`, `writing` a result in pieces), their result queues, streams and other requests,
disconnects and failing writes.  Of the reconcile thread it keeps what it posts: `Sample`, `Requeue`,
`Drop`, `Finish` for a completion, `Render` and `FinishImages` for images.  Each round of a
completion but the first takes one token of its bucket (`Acquire`), whatever it yields: a token, and
those of its draft that are accepted (`Yields`).  `Tick` lets half a second pass.  **TokenBucket** is
`RatelimitTokenBucket`, which has capacity and rate equal: the time of the last refill becomes an age
that stops counting at a second.

**MultimodalPrompt** is how a handler makes chunks of tokens of a message: `TooLong`, `Trimmed`, the
`Wrapped` markers of twelve families of models, the slices and dummy tokens of `tokenize_image` and
`tokenize_audio`, and `cache_tokenize_multimedia` as one step, which its mutex makes it.
**ChunkedPrefill** sends those prompts to the reconcile thread: `Receive`, `AddText`, `AddMedia` and
`Enqueue` are a handler; `Prefill` decodes all chunks of a prompt, any of which may fail, and samples a
first token; `Decode`, `DecodeFails` and `Retire` are later rounds.  `memory[s]` is what llama.cpp holds
of sequence `s`, position by position, so that what an answer is computed from can be compared with
what was asked.  `history`, `clean`, `skewed` and `uses` are not in the code.

**EmbeddingsBatch** is a round that embeddings, rerank requests and completions share.  `where` is the
place of a task, as `location` above; the type of the first task walked is the type of the round.
`Dequeue`; `TypeWaits` for the other type; `BatchInput` (with the sequence lowered to what the batch
allows, and its cache entry cleaned) or `NoRoom`; `Decodes`/`DecodeFails`; `EmbeddingMissing`,
`NextRound` (the next input) or `Finish`.  An embedding is the set of inputs it was computed from: those
that earlier batches left in its sequence, and those of its batch that share it.
Completions are reduced to what touches the shared state: `PrefillCompletion`, `EndCompletion`.
**RerankSort** is the hand-written quicksort over scored documents and the cut to `top_n` (`Ranked`).

**GeneratedText** is the text of one request from `Detokenized` through `Stopped`, `ReasonedByWord`,
`ToolCalls` and `Finished` to what `Sent` (`to_json`) gives the client.  Each stage is a function of the
task, and one action `Round` composes them in the order of the code, for one token or for what a draft
brought.  A symbol of a text is what the stages tell apart; a byte of a two-byte character is one.
Calls are found in two ways.  Of a model whose template jinja renders, the text is held from an `Opening`
tag on and parsed once it is `Complete` (`ByJinja`; `Envelopes` are the calls in XML, in JSON and of
gemma4).  Of the five templates that `load` knows, `Formats` says what is trimmed and what the parser
takes; the markers are looked for as tokens if any of the format's words is one token, else as words,
independently at the start and the end (`StartsCall`, `EndsCall`).

**EngineParams** is the loop over `argv`: `position` is `i`, `given` what was set.  Options that behave
alike are one action over a table (`Switch`, `TakeNumber`, `RefuseNumber`, `TakeWord`, `RefuseWord`,
`Missing`), the others have their own.  **ServerStart** goes on: `Load`, `Start`, `ListenFails`, then
`Request`, `Handle`, `Return` of the thread pool, `Signal`, `LoopEnds` and `JoinPool`.  What model
files hold is a record chosen with `Load`.

## 3. Runs

| Run | Checks | Bounds and why they are enough |
|---|---|---|
| `promise` | `WithinLimit`, `AdmissionKeepsHistory` of DynamicContext | 4 requests, 12 tokens, 3 at once: every quota 12, 6, 4 occurs, and one request has to wait |
| `quotas` | `QuotaExact`, `WithinQuota`, `AdmissionKeepsHistory`, `KeepsPromise` | 2 tasks, 6 tokens, prompts 1 (fits both quotas) and 4 (fits only the whole context, and is worth shifting once it decodes), with and without `max_tokens`, MTP drafts of one token, both LoRA settings |
| `dynamic` | `TypeOK`, `KvAccounted`, `SequencesOwned`, `RegistryExact` | 3 tasks on 2 threads, so that a sequence is reused while another is busy; prompts long enough to be shifted after one decode; draft model, failures, disconnects, sliding window, every shift worth making (`DiscardFloor` 0) |
| `static` | `KvAccounted`, `SequencesOwned` | 3 streams on 2 threads, so that an abandoned stream meets two new tasks; prompts 1 (a third one still fits beside two running) and 4 (fills the KV cache, and is worth shifting after one decode); memory that cannot remove a range |
| `answers` | `Answered`, `DisconnectedRelease` | 2 tasks whose prompts do not fit together, one throttled |
| `lifecycle` | `CleanUnlessAbandoned`, `EndIsLast`, `PostedInOrder`, `ImagesSent`, `RateKept`, `EndsSent` | up to 3 requests on 2 threads, so that a thread is reused; streams that leave and that stay; up to 3 images with previews, failures and pieces of 2 units, of a size it divides (4) and one it does not (3); rates asked of 0, 1 and 3 where 2 are allowed, with 4 tokens so that a bucket runs empty and is refilled; rounds with and without a draft of one token |
| `multimodal` | `TypeOK`, `KvAccounted`, `ContextKept`, `PiecesTold`, `RecentlyUsedCached`, `PromptSaysMessage`, `PromptFits` | 3 requests with common beginnings on 2 sequences; 4 media for a cache of 2, so that one in use is evicted; slices of 2 by 2; one medium that may fail; every family; a prompt of 25 tokens for a slot of 24 |
| `embeddings` | `SequencesClean`, `CountersExact`, `EmbedsInOrder`, `RankedByScore`, `AnsweredUnlessLost` | a text, a query with a document (one input, or three if it normalizes, each a round of its own), two completions one after the other or at once, on 2 sequences and a batch of 7: the first input of the text, of one token, shares a batch and, lowered, the sequence of the others, which have 6; its second, of two, does not fit beside them; a client that leaves, embeddings that are missing; all rankings of up to 4 documents of 3 scores |
| `text` | `Delivered`, `ReasoningSeparated`, `CallsReported`, `MarkersHidden` | every sequence of tokens up to a budget of 4, drafts of 1 or 2; a stop word of two symbols that begins and ends inside tokens; a two-byte character, also where the reasoning ends; two-symbol words around reasoning, also in a token with what follows; a token without text behind the reasoning; calls in XML, in JSON and of gemma4 under jinja, and of the five known templates with each marker a token or a word, streaming or not, with and without drafts |
| `startup` | `CustomTemplateNeedsJinja`, `SettingsSound`, `ThreadsNumbered`, `SignalEnds` | every order of up to three options about templates and of up to two about threads and caches, 28 other lines; 5 kinds of model files; up to 2 handlers, 2 requests and 2 signals |

Deadlock is checked in `promise`, `quotas`, `dynamic` and `answers`.  The others may stop: when the
reconcile thread has crashed, when a handler waits for ever, or when the model is out of requests.

Runs that must find a violation, each a place where the code does not do what it says:

| Run | Property | What happens |
|---|---|---|
| `stale_result` | `OwnResults` | results of an abandoned stream are read by the next request of the thread |
| `prefix_lost` | `ContextIsHistory` | a prompt that continues all of a cached entry is computed without one of its tokens: the last one of the entry is in no position, and is counted as prefilled |

`ContextKept` is `ContextIsHistory` for the requests whose prompt began where an entry can be cut.  In
the same way `CleanUnlessAbandoned` is what remains of `OwnResults`, and the exceptions that the other
properties name (`Throws`, `trampled`, `Lowered`, `Separates`, `FindsCalls`, `skewed`) are the disagreements of
section 6: outside of them the properties hold.

Mutants: each property of a passing run is paired in `PROJECT.json` with a plausible bug that breaks
it; they stand before the definitions they mutate, marked `Mutant`.

**Fairness.**  `CompletionScheduler!FairSpec` assumes weak fairness of the reconcile thread as a whole
(`reconcile_loop` runs while the server does; any step it can take next counts), and strong fairness of
a throttled task joining a batch (a token bucket refills with time, so it cannot be found empty for
ever).  `EmbeddingsBatch!FairSpec` assumes the same weak fairness.  `RequestLifecycle!FairSpec` assumes
that every HTTP thread runs, that time passes (`Tick`), and that the reconcile thread processes every
queued task, which is what `Answered` shows of the scheduler.  `ServerStart!FairSpec` assumes that
`main` goes on and that threads which run a handler or the loop go on; a handler that waits for a
result goes on only while the loop runs.  Nothing is assumed of clients, of signals or of decodes.

## 4. Proofs

* **SharedFacts**: what several components rest on.
  * Of ContextQuota, for all integers, `QuotaType`, `QuotaShares` (N quotas fit the context),
    `QuotaAntitone` (more requests, no larger quota), `BudgetBounds`.  They rest on `DivBounds` and
    `ProductMonotone`, the only places where the provers see division.
  * Of `SumFunctionOnSet`: the sum of nothing, of a set with one more element, of a function changed in one
    place, and that a sum of naturals is one.  The sum is a fold, a recursive function over subsets; its
    equation is proved by taking a smallest set for which it fails (`FiniteMinimum`), which needs no
    induction theorem.  In the same way, with the numbers for which something holds as a set: induction
    (`EveryNumber`), and that a step can be repeated any number of times (`Iteration`), from which a
    recursive function is what its definition says (`Recursion`).  `FlattenSeq` follows.
* **DynamicContextProofs**: `TypeCorrect`, `LimitKept` (`WithinLimit`) and `HistoryKept`
  (`AdmissionKeepsHistory`) for any set of requests, context size, parallelism and step size, under
  `DynamicContextAssumption`.  `WithinLimit` is inductive with `TypeOK`: an admission checks everybody
  against the limit that results, an advance starts within the limit, and a release only raises it
  (`QuotaAntitone`).
* **CompletionSchedulerProofs**: for any number of threads and requests, any context, step, draft and
  batch size, and any combination of settings, under `SchedulerAssumption`:
  * `TypeCorrect` (`TypeOK`), with one lemma per operation.  It needs that a prompt never takes over more
    tokens than it has (`PlacementType`) and that a shift which is carried out discards a positive number
    (`ShiftType`).
  * `RegistryCorrect`, `QuotaCorrect`, `QuotaKept`, `HistoryKept` (`RegistryExact`, `QuotaExact`,
    `WithinQuota`, `AdmissionKeepsHistory`), with dynamic allocation and no stream whose client may
    disconnect.  The second hypothesis is needed: the registry is
    keyed by the thread, and a stream that outlives its handler shares its key with the thread's next task
    (section 6).

  None of these four is inductive.  `Inv` adds: *`Served`*, an unfinished task is the one its HTTP thread
  waits for, so two of them never share a task id, the key of the registry; *`RegistryOfHolders`*, the
  registry and the running tasks point at each other, and these are marked admitted; *`LimitsExact`*, every
  limit is the quota for the number of registry entries; *`QuotaBounds`*, positions and budgets fit the
  limit, with the tokens that a task has put in the current batch (`Ahead`) taken off; and
  *`NothingBatched`*, when a prefill is admitted nobody is in the batch, so the positions that admission
  looks at are the settled ones.  Most steps admit and release nobody (`QuietStep`).  `PrefillKeeps` uses
  that the admission test covers every registered task; `ReleaseKeeps` uses `QuotaAntitone`.  A step that
  lowers a limit changes the registry (`RegistryChanges`), hence is an admission, which gives `HistoryKept`.
  `HoldersCounted` ends `QuotaCorrect`: the registry has as many entries as there are running tasks.
  * `CountersExact` (`KvAccounted`): both KV counters equal what running tasks and idle entries hold, for
    every setting.  Inductive is `CacheInv`, which adds `TypeOK`; `UsedEmpty`, an entry in use holds nothing
    of its own, so that taking an entry over moves its tokens instead of doubling them; `WaitingEmpty`, a
    task that does not run holds nothing; and, with prompt caching, `SequencesOwned`, so that the entry a
    task gives back is not somebody else's.
  * `Ownership` (`SequencesOwned`): a sequence has one running owner, and its entry is marked exactly
    while it has one.  With prompt caching always; without it a sequence is the number of the thread, and
    the theorem assumes that no stream may be abandoned, as an abandoned task and the thread's next one
    do share a sequence.
  * `PromiseKept` (`KeepsPromise`): with dynamic allocation and no abandoned stream, the scheduler
    implements DynamicContext.  `InitMaps` maps the initial states, and `StepMaps` each step to an
    admission (a prefill, `AdmitMaps`), an advance of one task (it joins a batch, gives back rejected
    tokens or gives up some to make room, `AdvanceMaps`), a release (`ReleaseMaps`) or a stutter.  It
    rests on `Inv` of CompletionSchedulerProofs and on `DraftsBounded`, which gives `Overshoot`.
* **RequestLifecycleProofs**, for any number of requests and threads, whatever is asked for, under
  `LifecycleAssumption`:
  * `HandlersInvHolds`: a thread serves the request whose task it enqueued, so that no two serve the same.
  * `ResultsInOrder` (`PostedInOrder`), with `QueueInv`: what waits of a request has lower numbers than
    what can still be posted (`Bound`), and an end waits only of a task that is destroyed.
  * `QueuesClean` (`CleanUnlessAbandoned`), with `CleanInv`: on a thread that no client of a stream left,
    the only live task is that of the served request, and when the end of an answer is being written in
    pieces the queue is empty already.
  * `EndsStream` (`EndIsLast`), with `EndInv`: what a client was sent before the last result says
    `continue`, as does all of a request that is still served.
  * `AllImagesSent` (`ImagesSent`), with `ImagesInv`: what a client was sent, what is being written in
    pieces and what waits in the queue form one line (`Line`).  A line is `Fine` (an image comes once under a
    number, numbers grow, nothing follows an end) and `Whole` (every image made so far is in it under all
    numbers due).  A thread moves results along the line or cuts one into pieces (`HttpLine`, `Cut`), the
    reconcile thread appends to it (`FinePosts`, `WholePosts`).  `Counted` turns a fine and whole line
    into the counts of `ImagesSent`, the numbers of the results being a bijection to those due.
  * `RateIsKept` (`RateKept`), with `RateInv`: of what the rounds of a second yielded, those since the last
    refill are missing in the bucket and the others fit into the refill before (`Within`, by the age of
    the bucket), each round counted with the most it may yield (`Width`).  So the rate holds of rounds; of
    tokens it holds times `1 + drafted`, and no better (section 6).
* **ServerStartProofs**, for command lines of any length, any model file and any number of requests:
  `TemplatesRendered` (`CustomTemplateNeedsJinja`, inductive with the types in `ParamsInv`),
  `SettingsAreSound` (`SettingsSound`: what CompletionScheduler assumes of its constants is what `load`
  derives, `SettingsInv`) and `NumbersAreOwn` (`ThreadsNumbered`: `PoolInv` says that the numbers given out
  are an initial part of the naturals, and fewer than the pool has threads as long as one still asks).
  That a context of negative size cannot be created is assumed of llama.cpp (`LoadFails`).
* **EmbeddingsBatchProofs**, for any number of requests, inputs and threads:
  * `EachInItsPlace` (`EmbedsInOrder`), with `OrderInv`: when a batch is collected, the sequence of each of
    its tasks holds the embedding of the task's next input.
  * `NothingLeaks` (`SequencesClean`), with `CleanInv`: a task in the batch found its sequence clean; and
    with `SourceInv`: an embedding was computed from the task's own input and, if the sequence of one of
    the two was lowered, from that of a task of the same batch.  Sequences that are not lowered are
    numbers of threads, and a thread waits for one task (`WaitInv`), so two of them differ.  The theorem
    assumes prompt caching, under which the sequence is cleaned before; without it only the cleaning
    after an answer remains (`EmptyInv`), which a completion or a missing embedding defeats, so that
    the theorem then assumes neither occurs.
    A rerank request has documents, which the handler asks for (1511-1513).
  * `CountersStayExact` (`CountersExact`), with `EntryInv`: as long as nothing was trampled, an entry in
    use is that of the completion that runs in its sequence.
  * `DocumentsRanked` (`RankedByScore`), by `SortRanks`, the correctness of the quicksort for every list.
    A pass of the loop keeps the pivot in front, scores at least the pivot's up to the left cursor and at most
    it behind the right one, and brings the cursors closer (`PassInv`, `PassKeeps`); so they have met
    after as many passes as the part has results, less one, and the pivot goes where they met (`Parting`).
    Sorting the two sides then sorts the part (`SidesOrder`), and nothing but moves inside it happened
    (`Moved`: no document is lost or doubled).  That the recursive definition has a value at all is
    `SortDefined`: sorters that sort parts of size 0, 1, 2, ... agree where they are defined.

* **ChunkedPrefillProofs**, for any messages, media, slots and settings under `PromptAssumption` and
  `PrefillAssumption`.  `Inv`: no two running requests share a sequence, the entry of a running request is
  marked and empty, what llama.cpp holds of a sequence is as long as the request or the entry says, and
  every cached projection is pieces whose dummy tokens were given out (`MediaTold`).  `Chunked`, the loop
  over chunks that any failure ends, is a recursive function; `Outcome` is what it keeps after every
  chunk (`DecodedOf` for one of them, then `Recursion`).
  * `CountersAreExact` (`KvAccounted`): `Inv` with `Counted`, in which the sums of SharedFacts change in
    one request and one entry at a step (`CountStep`).
  * `TypesHold` (`TypeOK`): `Inv` with that sums of positions are no less than zero.
  * `PromptsFit` (`PromptFits`), by `AskedInv`: what a handler has left to do of a message, with what it
    has done, is what was asked, up to the prompt it queues.  `TrimmedOf` is the arithmetic of a trim:
    it cuts at least one token, and not so much that less than half the slot remains.
  * `UsedStayCached` (`RecentlyUsedCached`), by `Recent`: hashes are in the cache once, what is behind an
    entry was used after every use of it, and what was used lately is there.  A hit is moved to the end
    (`HitRecent`); a miss evicts the first, and were that used lately, the cache would hold more
    hashes than were used since (`MissRecent`, with the pigeonhole theorem).
  * `PiecesApart` (`PiecesTold`), by `PieceInv`: a set of pieces that differ in their dummy token contains
    all that is cached or in a prompt.  A projection adds pieces with tokens below those given out
    (`NewlyTold`), and eviction takes nothing away: prompts outlive the cache.
  * `ContextsKept` (`ContextKept`), by `ContextInv`: the tokens of a running request, and of an entry that
    can be cut, are those of chunks that say its history, of texts and of that set of pieces (`Means`).
    Such tokens determine what they say, position by position, although a dummy token is repeated over
    its piece and pieces may follow each other (`PartsOf`), so prompts that begin with the same tokens
    begin alike (`MeansSame`), which is what the comparison of tokens in the prompt cache relies on.  A
    prompt that begins where it can be cut is then held, all of it and once, whichever chunks it skips, and
    leaves something for the batch (`PromptHeld`, by `HoldsUpto` after every chunk).
  * `PromptsSayMessages` (`PromptSaysMessage`), by `SayInv`: the meaning of the chunks made so far, followed by
    what the rest of the message says, is what was asked.  `Meaning`, what chunks contain without markers,
    is a homomorphism (`MeaningConcat`); markers, and the rows and columns they fence, are `Silent`.  For
    each family the chunks of a medium then say what its pieces do (`WrappedMeans`, with `FencedMeans`,
    `RowsMean` and `MiniCpmVMeans` for slices), and the pieces of a projection say what the medium does,
    whenever it was made (`PiecesSay`).  Markers are left out of both sides, for a text may spell them.
* **GeneratedTextProofs**, for any vocabulary, budget, stop words and number of tokens a draft brings, under
  `TextAssumption`:
  * `TextDelivered` (`Delivered`), by `PlainInv`: before the end, what was sent followed by what is held back
    is the text of all sampled tokens, and the end is not among these.  A round is a recursive function
    over its tokens, and the text grows by their pieces up to the end token (`HeardMore`,
    `DetokenizedAll`).  A response splits the text into what it sends and what is left (`TakesIs`), as
    it does when it is one chunk per token (`ChunksIs`).  The round of the end sends all that is left, or
    what precedes a stop word that is found in the round's text (`FoundIs`, `StoppedIs`, `PlainEnd`).

  * `ReasoningIsSeparated` (`ReasoningSeparated`), by an invariant for each way in which reasoning ends.
    With a token (`TokenInv`): the tokens heard so far are in one of five phases (`Silent`, `Direct`,
    `Inside`, `Behind`, `Answers`), each of which fixes what is reasoning and what is content; the flags of
    the task tell the phase (`Tells`), and what was sent with what is held is what that phase says
    (`Holds`).  A token moves from phase to phase or waits for the next round (`TracksMore`), and then finds
    the reasoning sent but for a cut character, since the chunks of a round leave nothing (`ChunksFlush`).
    With words (`WordInv`): the text begins with the start word and is split where the end word is first
    found (`Within`, `Past`), or nothing of it is reasoning (`Plainly`), or the word was not the text of
    whole rounds (`Lost`), of which the property says nothing.  The first place of a word does not move
    when text follows (`FirstMore`).
    The proof found that reasoning which ends inside a character is lost in a stream, and that a stop word
    may cut it anywhere; the property names both.

Only model-checked: liveness (`Answered`, `DisconnectedRelease`, `EndsSent`, `AnsweredUnlessLost`,
`SignalEnds`), which is out of the prover's reach; and of GeneratedText `CallsReported` and `MarkersHidden`.
Their condition (`FindsCalls`) was found on the vocabularies of the run; for every vocabulary it would
have to say more, for instance that no stop word cuts a marker, which the code does not ask of a model.

## 5. Not modelled

* **RPC server.**  The `rpcserver` class is used by nothing; ggml's server is not in this repository.
* **llama.cpp and stable-diffusion.cpp**: decoding may fail, ask for room or miss an embedding; how an
  image is made is one step.  Values of embeddings, and the division that normalizes scores, are left out.
* **JSON, chat templates and the inside of calls**: a request is what it asks for; of a call only its
  markers and where it is whole are modelled, several calls in one array are one, and the parser of
  jinja's calls is external: it finds those that are there or, if there is none, may throw.  Metrics and logs: nothing reads them back.
* **Positions inside a batch after a shift** (3840), drafts from n-gram lookups, and the buffers of an
  image edit.
* **How much room an eviction makes** (3824): the KV filter counts all idle caches as room, but a prompt
  evicts one of them; the failure that follows is answered with an error.
* The `reject` branch of admission is modelled but cannot happen: the handlers refuse such prompts
  first (6057-6064, 6186-6193), and `Prompts` holds what they let through.
* `ParallelControlTokenBucket` is used by nothing.

## 6. Where the code differs from what it says, without a run

The models show these too, or were built around them; they are stated so that a reader of a property
knows what it leaves out.

Scheduling:
* In static mode a slot's limit is compared with what all slots hold (4352), so a session is shifted
  because others are long (`README.md`:172 describes separate slots).
* `--no-context-shift` does not reach `shift_completion_task_cache` (3685), which asks only whether the
  memory can shift.
* A prompt cache is matched by tokens alone (4060), not by the LoRA adapters it was computed with.
* A task that waits for room may be walked first and fix the adapters of the round; the task it waits
  for is then put back for its adapters, and both for ever (3954).
* The registry is keyed by thread (3651).  A stream that outlives its handler loses its key to the
  thread's next task, one task too many is admitted, and `cache_prompts.at(-1)` throws (4112).
* A task at exactly its quota decodes once more before it stops (4338-4374): `Overshoot` allows it.

Queues, images and rates:
* A closed connection ends a task without a result; a handler that does not stream waits for one (5482).
* Images poll no connection; the pieces of an image throw unless they divide its size (5535, `Throws`);
  `README.md`:786 documents `chunk_result`, the handler reads another name (5472).  A failed image makes
  the answer an error while the others were sent (5399).
* A bucket pays for a round, not for a token (4342): a round with drafts yields all that were accepted
  (4603-4637), so a request gets up to `1 + n_max` times the rate that `README.md`:110 calls a limit on
  "the number of tokens per second".  `RateKept` says that much and no more.
* A bucket is refilled only when it is empty, which gives up to twice the rate within a second; a request
  without the header has no bucket even where `n_tps` is set (6029).

Embeddings:
* An input that does not fit beside others is dropped without a result (4402), as is one whose
  embedding is missing (5302); `AnsweredUnlessLost` names both.
* The sequence of an input may be lowered to that of another in the same batch (4406): both are decoded
  into it, and the embedding of each is that of both (`SequencesClean` allows it, and the run meets it).
  Its entry is cleaned even if a completion runs in it (4413, `trampled`); a failed decode clears the whole memory
  (5269), of running completions too.
* Normalized scores are divided by the query's own score, whatever its sign (2531).

Prompts of several chunks:
* A hit that ends inside a medium decodes the medium again as a whole and skips as much of the text
  behind it (4180-4182, 4276), up to an empty batch, which ends the process (`crashed`); if more is skipped
  than there is, a counter is wrong from then on (`skewed`).
* A failed projection is cached and refused until it is evicted (5686); an entry is evicted even if the
  projector is missing (5652).
* Trimming divides by half of what the slot has beyond `n_keep` (6077), which may be zero.

Text:
* A stop word that spans rounds is missed if its beginning was sent (4758); chunks may cut a character
  (5073-5081).
* Reasoning by words: an answer not longer than the word is sent as reasoning (4784), text behind the
  word in the same round is lost (4779), as is unsent reasoning before the end word in a stream
  (4805-4809).  Reasoning that a token ends inside a character loses the cut character in a stream
  (4731).  With reasoning in the content and no stream the reasoning is thrown away (4726).
* Calls under jinja: a JSON `<tool_call>` is never complete (`chat_template_request.hpp`:87-103 asks for
  `<function=` too), so it is held back and sent raw at the end, with reason `stop` or `length`.  With
  parallel calls in a stream the reason of the end may be `stop` (5049).
* Calls of known templates: `erase(sp, sp + length)` and `substr(sp, ep)` take too much when text precedes
  the marker (4914, 4958), which keeps chatml from parsing such calls that start by token and end by word
  without a stream.  A start word counts only when more text follows it (4903), by when a token that
  ends the call may be over (`StartIsWord`).  For mistral `}]` is trimmed although it belongs to the JSON
  (3074-3075), so that no streamed call is ever reported.  The start word of llama3 is not trimmed and is
  sent as content in a stream (4911), after which its call does not parse.  Text without a call in the
  function format of deepseek3 is refused silently (5005-5023), and JSON that does not parse is marked to be
  shown (5036); both stay held until the end.
* `FindsCalls` says where calls are found; what is not found is never sent before the end (`MarkersHidden`).

Start and end:
* The loop of `--n-cpu-moe` counts with the index of the arguments (`engine_param.hpp`:1627, 1652), so
  parsing goes on elsewhere (`CpuMoe`); `--dry-base` sets the multiplier (1362); only `invalid_argument` is
  caught (2391), a number out of range aborts.
* Handlers that wait for a result when the loop ends at a signal never return (`Blocked`).

## 7. Plan

1. (done) quota arithmetic, its promise, the scheduler, the queues; embeddings, multimodal prompts, the
   text of answers, parameters and the server's life.
2. (done) proofs about the scheduler, its counters and its refinement, the result queues, the server's
   settings and thread numbers, embeddings, the quicksort of rerank results, all safety of ChunkedPrefill,
   and that a generated text is delivered with its reasoning apart.
3. Conditions on a vocabulary under which `CallsReported` and `MarkersHidden` hold of every one, and their
   proofs.
4. Positions inside a batch with drafts and shifts (3840).
