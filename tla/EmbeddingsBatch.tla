--------------------------- MODULE EmbeddingsBatch ---------------------------
(***************************************************************************)
(* Embeddings and rerank requests in llama-box/httpserver.hpp: the         *)
(* handlers, and the rounds of httpserver::reconcile that serve            *)
(* embeddings_task objects, next to completions.                           *)
(*                                                                         *)
(* A request has several inputs; every round takes one input of each task. *)
(* Completions appear only through what they share with embeddings: the    *)
(* queue, the sequences of the KV cache, cache_prompts and the counters    *)
(* (CompletionScheduler has the rest; here a completion is prefilled in    *)
(* one step and ends in another).  The walk over the dequeued tasks may    *)
(* meet them in any order.  llama_decode and llama_get_embeddings may fail.*)
(***************************************************************************)
EXTENDS RerankSort, FiniteSets

CONSTANTS
    Embeds,       \* requests of /v1/embeddings
    Reranks,      \* requests of /v1/rerank
    Completions,  \* completion requests
    NThreads,     \* params.llm_params.n_threads_http
    SlotCtx,      \* llm_slot_ctx_size
    ShiftContext, \* shift_context
    CachePrompt,  \* cache_prompt
    CanShift,     \* llm_kv_cache_shift; FALSE for encoders, which keep no KV
    Texts,        \* the token counts of the inputs an embeddings request may have
    Queries,      \* the token counts a rerank query may have
    Documents,    \* the token counts of the documents of a rerank request
    PromptSize,   \* tokens a completion keeps in the KV cache
    MayClose,     \* the requests whose client may disconnect
    MayMiss       \* llama.cpp may have no embedding for a sequence it decoded

Requests == Embeds \cup Reranks \cup Completions
Slots    == 0 .. NThreads - 1

ASSUME EmbeddingsAssumption ==
    /\ IsFiniteSet(Requests) /\ MayClose \subseteq Requests
    /\ Embeds \cap Reranks = {} /\ (Embeds \cup Reranks) \cap Completions = {}
    /\ NThreads \in Nat \ {0} /\ SlotCtx \in Nat \ {0} /\ PromptSize \in Nat \ {0}
    /\ ShiftContext \in BOOLEAN /\ CachePrompt \in BOOLEAN /\ CanShift \in BOOLEAN
    /\ CachePrompt => CanShift
    /\ MayMiss \in BOOLEAN
    /\ Texts \cup Documents \subseteq Seq(Nat) /\ Queries \subseteq Nat
    /\ <<>> \notin Documents  \* "must be a list with at least one item"

VARIABLES
    where,      \* where the task of each request is
    tid,        \* btask::id, the HTTP thread of each request
    seq_id,     \* btask::seq_id
    inputs,     \* tokenized_inputs, by their sizes
    embeds,     \* what each embedding was computed from
    answer,     \* the result posted for each request
    closed,     \* the requests whose connection is closed
    phase,
    batch_task_type,
    batch_tokens,   \* batch_text.n_tokens
    kv,             \* what each sequence of the KV cache holds
    embd_seq,       \* what the decode left to llama_get_embeddings_seq
    cache_prompts,
    llm_kv_cache_used,
    llm_kv_cache_inactive,
    trampled    \* not in the code: running completions whose tokens an embeddings task removed

tasks    == <<tid, inputs, answer, closed>>
counters == <<llm_kv_cache_used, llm_kv_cache_inactive>>
caches   == <<cache_prompts, counters>>
vars     == <<where, seq_id, embeds, tasks, phase, batch_task_type, batch_tokens, kv, embd_seq, caches, trampled>>

(* Some input of some request: what a sequence holds.  A completion has    *)
(* one input.                                                              *)
Source == Requests \X Nat

Kind(r) == IF r \in Completions THEN "completions" ELSE "embeddings"

At(place) == {r \in Requests : where[r] = place}

Running == {r \in Completions : seq_id[r] # -1 /\ where[r] # "destroyed"}

Init ==
    /\ where = [r \in Requests |-> "unsent"]
    /\ tid = [r \in Requests |-> 0]
    /\ seq_id = [r \in Requests |-> -1]
    /\ inputs = [r \in Requests |-> <<>>]
    /\ embeds = [r \in Requests |-> <<>>]
    /\ answer = [r \in Requests |-> "none"]
    /\ closed = {}
    /\ phase = "idle" /\ batch_task_type = "unknown" /\ batch_tokens = 0
    /\ kv = [s \in Slots |-> {}] /\ embd_seq = [s \in Slots |-> {}]
    /\ cache_prompts = [s \in Slots |-> [used |-> FALSE, pos |-> 0]]
    /\ llm_kv_cache_used = 0 /\ llm_kv_cache_inactive = 0
    /\ trampled = {}

-----------------------------------------------------------------------------
(* The handlers.                                                           *)

(* handle_embeddings: an empty input becomes one token, a long one loses   *)
(* its head or is refused.                                                 *)
EmbedInputs ==
    {[i \in DOMAIN t |-> Min({Max({t[i], 1}), SlotCtx})] :
        t \in {t \in Texts : t # <<>> /\ (ShiftContext \/ \A i \in DOMAIN t : t[i] <= SlotCtx)}}

(* handle_rerank: each document is joined to the query by four tokens; to  *)
(* normalize, the query itself and an unknown token are scored as well.    *)
decorate(query, document) == query + document + 4

RerankInputs ==
    {x \in {[i \in DOMAIN (d \o more) |-> decorate(q, (d \o more)[i])] :
               q \in Queries, d \in Documents, more \in {<<>>} \cup {<<k, 1>> : k \in Queries}} :
        \A i \in DOMAIN x : x[i] <= SlotCtx}

(* Its handler waits in wait_dequeue until a result is posted.             *)
Waits(r) == where[r] # "unsent" /\ answer[r] = "none"

FreeThreads == Slots \ {tid[r] : r \in {q \in Requests : Waits(q)}}

Unfinished(r) == where[r] \in {"queued", "round", "batch"}

(* A request on a free thread; its handler waits for the result.           *)
Submit(r) ==
    /\ where[r] = "unsent"
    /\ \E h \in FreeThreads :
        /\ tid' = [tid EXCEPT ![r] = h]
        /\ seq_id' = [seq_id EXCEPT ![r] = IF r \in Completions THEN -1 ELSE h]
    /\ \E x \in IF r \in Embeds THEN EmbedInputs ELSE IF r \in Reranks THEN RerankInputs ELSE {<<>>} :
           inputs' = [inputs EXCEPT ![r] = x]
    /\ where' = [where EXCEPT ![r] = "queued"]
    /\ UNCHANGED <<embeds, answer, closed, phase, batch_task_type, batch_tokens, kv, embd_seq, caches, trampled>>

Disconnect(r) ==
    /\ r \in MayClose \ closed
    /\ Unfinished(r)
    /\ closed' = closed \cup {r}
    /\ UNCHANGED <<where, seq_id, embeds, tid, inputs, answer,
                   phase, batch_task_type, batch_tokens, kv, embd_seq, caches, trampled>>

-----------------------------------------------------------------------------
(* The walk.                                                               *)

Goes(r, place) == where' = [where EXCEPT ![r] = place]

(* Whatever waits is taken; the first task walked fixes the type.          *)
Dequeue(first) ==
    /\ phase = "idle"
    /\ where[first] = "queued"
    /\ where' = [r \in Requests |-> IF where[r] = "queued" THEN "round" ELSE where[r]]
    /\ phase' = "batching"
    /\ batch_task_type' = Kind(first)
    /\ batch_tokens' = 0
    /\ UNCHANGED <<seq_id, embeds, tasks, kv, embd_seq, caches, trampled>>

Walks(r) == phase = "batching" /\ where[r] = "round"

(* Mutant: a task of the other type is forgotten.                          *)
TypeWaits_Dropped(r) ==
    /\ Walks(r)
    /\ Kind(r) # batch_task_type
    /\ Goes(r, "destroyed")
    /\ UNCHANGED <<seq_id, embeds, tasks, phase, batch_task_type, batch_tokens, kv, embd_seq, caches, trampled>>

TypeWaits(r) ==
    /\ Walks(r)
    /\ Kind(r) # batch_task_type
    /\ Goes(r, "queued")
    /\ UNCHANGED <<seq_id, embeds, tasks, phase, batch_task_type, batch_tokens, kv, embd_seq, caches, trampled>>

(* A completion takes over an idle entry, or the sequence of its thread.   *)
PrefillCompletion(r) ==
    /\ Walks(r) /\ Kind(r) = batch_task_type
    /\ r \in Completions /\ seq_id[r] = -1
    /\ \E s \in IF CachePrompt THEN {s \in Slots : ~cache_prompts[s].used} ELSE {tid[r]} :
        /\ seq_id' = [seq_id EXCEPT ![r] = s]
        /\ kv' = [kv EXCEPT ![s] = {<<r, 1>>}]
        /\ cache_prompts' = [cache_prompts EXCEPT ![s] = [used |-> CachePrompt, pos |-> 0]]
        /\ llm_kv_cache_used' = llm_kv_cache_used - cache_prompts[s].pos + PromptSize
        /\ llm_kv_cache_inactive' = llm_kv_cache_inactive - cache_prompts[s].pos
    /\ Goes(r, "queued")
    /\ UNCHANGED <<embeds, tasks, phase, batch_task_type, batch_tokens, embd_seq, trampled>>

(* Its tokens stay as an idle entry, or leave the KV cache.                *)
EndCompletion(r) ==
    /\ Walks(r) /\ Kind(r) = batch_task_type
    /\ r \in Completions /\ seq_id[r] # -1
    /\ LET s == seq_id[r] IN
        IF CachePrompt
        THEN /\ cache_prompts' = [cache_prompts EXCEPT ![s] = [used |-> FALSE, pos |-> PromptSize]]
             /\ llm_kv_cache_inactive' = llm_kv_cache_inactive + PromptSize
             /\ UNCHANGED <<kv, llm_kv_cache_used>>
        ELSE /\ kv' = [kv EXCEPT ![s] = {}]
             /\ llm_kv_cache_used' = llm_kv_cache_used - PromptSize
             /\ UNCHANGED <<cache_prompts, llm_kv_cache_inactive>>
    /\ Goes(r, "destroyed")
    /\ answer' = [answer EXCEPT ![r] = "ok"]
    /\ UNCHANGED <<seq_id, embeds, tid, inputs, closed, phase, batch_task_type, batch_tokens, embd_seq, trampled>>

(* tokenized_inputs[i_input_prefilled].                                    *)
NextInput(r) == inputs[r][Len(embeds[r]) + 1]

FitsBatch(r) == batch_tokens + NextInput(r) <= SlotCtx

(* The walk ends here for a task whose input does not fit the batch.       *)
NoRoom(r) ==
    /\ Walks(r) /\ Kind(r) = batch_task_type
    /\ r \notin Completions
    /\ ~FitsBatch(r)
    /\ Goes(r, "lost")
    /\ UNCHANGED <<seq_id, embeds, tasks, phase, batch_task_type, batch_tokens, kv, embd_seq, caches, trampled>>

(* A sequence id must be below the number of tokens of the batch.          *)
LoweredSequence(r) == Min({seq_id[r], batch_tokens + NextInput(r) - 1})

(* Mutant: the counters are not told of the prompt cache that is cleaned.  *)
CleanCache_Uncounted(s) ==
    IF CachePrompt
    THEN /\ cache_prompts' = [cache_prompts EXCEPT ![s] = [used |-> FALSE, pos |-> 0]]
         /\ kv' = [kv EXCEPT ![s] = {}]
         /\ UNCHANGED counters
    ELSE UNCHANGED <<caches, kv>>

(* Mutant: the entry is cleaned, its sequence is not.                      *)
CleanCache_KeepsTokens(s) ==
    IF CachePrompt
    THEN /\ llm_kv_cache_used' = llm_kv_cache_used - cache_prompts[s].pos
         /\ llm_kv_cache_inactive' = llm_kv_cache_inactive - cache_prompts[s].pos
         /\ cache_prompts' = [cache_prompts EXCEPT ![s] = [used |-> FALSE, pos |-> 0]]
         /\ UNCHANGED kv
    ELSE UNCHANGED <<caches, kv>>

CleanCache(s) ==
    IF CachePrompt
    THEN /\ llm_kv_cache_used' = llm_kv_cache_used - cache_prompts[s].pos
         /\ llm_kv_cache_inactive' = llm_kv_cache_inactive - cache_prompts[s].pos
         /\ cache_prompts' = [cache_prompts EXCEPT ![s] = [used |-> FALSE, pos |-> 0]]
         /\ kv' = [kv EXCEPT ![s] = {}]
    ELSE UNCHANGED <<caches, kv>>

BatchInput(r) ==
    /\ Walks(r) /\ Kind(r) = batch_task_type
    /\ r \notin Completions
    /\ FitsBatch(r)
    /\ seq_id' = [seq_id EXCEPT ![r] = LoweredSequence(r)]
    /\ CleanCache(LoweredSequence(r))
    /\ trampled' = trampled \cup {c \in Running : seq_id[c] = LoweredSequence(r)}
    /\ batch_tokens' = batch_tokens + NextInput(r)
    /\ Goes(r, "batch")
    /\ UNCHANGED <<embeds, tasks, phase, batch_task_type, embd_seq>>

CloseBatch ==
    /\ phase = "batching"
    /\ At("round") = {}
    /\ phase' = IF At("batch") = {} THEN "idle" ELSE "decode"
    /\ UNCHANGED <<where, seq_id, embeds, tasks, batch_task_type, batch_tokens, kv, embd_seq, caches, trampled>>

-----------------------------------------------------------------------------
(* The batch.                                                              *)

(* The inputs of the batch are added to their sequences; an encoder keeps  *)
(* nothing beyond the decode.                                              *)
Decodes ==
    /\ phase = "decode"
    /\ embd_seq' = [s \in Slots |->
           kv[s] \cup {<<r, Len(embeds[r]) + 1>> : r \in {q \in At("batch") : seq_id[q] = s}}]
    /\ kv' = IF CanShift THEN embd_seq' ELSE kv
    /\ phase' = "collect"
    /\ UNCHANGED <<where, seq_id, embeds, tasks, batch_task_type, batch_tokens, caches, trampled>>

(* Every task of the batch is answered, and the KV cache is cleared.       *)
DecodeFails ==
    /\ phase = "decode"
    /\ kv' = [s \in Slots |-> {}]
    /\ trampled' = trampled \cup Running
    /\ answer' = [r \in Requests |-> IF r \in At("batch") THEN "error" ELSE answer[r]]
    /\ where' = [r \in Requests |-> IF r \in At("batch") THEN "destroyed" ELSE where[r]]
    /\ phase' = "idle"
    /\ UNCHANGED <<seq_id, embeds, tid, inputs, closed, batch_task_type, batch_tokens, embd_seq, caches>>

Collects(r) == phase = "collect" /\ where[r] = "batch"

(* With the last task of the batch, what was decoded for it is no more.    *)
LastOfBatch(r) ==
    IF At("batch") = {r}
    THEN phase' = "idle" /\ embd_seq' = [s \in Slots |-> {}]
    ELSE UNCHANGED <<phase, embd_seq>>

(* No embedding for the sequence: the walk goes on with the next task.     *)
EmbeddingMissing(r) ==
    /\ MayMiss
    /\ Collects(r)
    /\ embeds' = [embeds EXCEPT ![r] = Append(@, {})]
    /\ Goes(r, "lost")
    /\ LastOfBatch(r)
    /\ UNCHANGED <<seq_id, tasks, batch_task_type, batch_tokens, kv, caches, trampled>>

(* Mutant: the embedding of a later round takes the place of the first.    *)
Gathers_Overwriting(r) ==
    /\ embeds' = [embeds EXCEPT ![r] = IF @ = <<>> THEN <<embd_seq[seq_id[r]]>>
                                       ELSE Append([@ EXCEPT ![1] = embd_seq[seq_id[r]]], {})]
    /\ kv' = IF CanShift THEN [kv EXCEPT ![seq_id[r]] = {}] ELSE kv

(* The embedding is kept and the sequence cleaned.                         *)
Gathers(r) ==
    /\ embeds' = [embeds EXCEPT ![r] = Append(@, embd_seq[seq_id[r]])]
    /\ kv' = IF CanShift THEN [kv EXCEPT ![seq_id[r]] = {}] ELSE kv

(* task->embeds.size() < n_input, with the embedding just gathered.        *)
MoreInputs(r) == Len(embeds[r]) + 1 < Len(inputs[r])

(* Another round for the next input; when the client has left, no result.  *)
NextRound(r) ==
    /\ Collects(r)
    /\ MoreInputs(r)
    /\ Gathers(r)
    /\ Goes(r, IF r \in closed THEN "destroyed" ELSE "queued")
    /\ LastOfBatch(r)
    /\ UNCHANGED <<seq_id, tasks, batch_task_type, batch_tokens, caches, trampled>>

(* All inputs have their embedding: the answer.                            *)
Finish(r) ==
    /\ Collects(r)
    /\ ~MoreInputs(r)
    /\ Gathers(r)
    /\ answer' = [answer EXCEPT ![r] = "ok"]
    /\ Goes(r, "destroyed")
    /\ LastOfBatch(r)
    /\ UNCHANGED <<seq_id, tid, inputs, closed, batch_task_type, batch_tokens, caches, trampled>>

-----------------------------------------------------------------------------

reconcile ==
    \/ \E r \in Requests :
        \/ Dequeue(r)
        \/ TypeWaits(r) \/ PrefillCompletion(r) \/ EndCompletion(r) \/ NoRoom(r) \/ BatchInput(r)
        \/ EmbeddingMissing(r) \/ NextRound(r) \/ Finish(r)
    \/ CloseBatch \/ Decodes \/ DecodeFails

Next ==
    \/ \E r \in Requests : Submit(r) \/ Disconnect(r)
    \/ reconcile

Spec == Init /\ [][Next]_vars

(* The reconcile thread runs while the server does.                        *)
FairSpec == Spec /\ WF_vars(reconcile)

-----------------------------------------------------------------------------
(* An embeddings task whose sequence was lowered has that of a thread that *)
(* is not its own, and may meet another task of the batch there.           *)
Lowered(r) == seq_id[r] # tid[r]

(***************************************************************************)
(* An embedding is computed from its own input: no input is decoded into a *)
(* sequence that still holds an earlier input of any request or the prompt *)
(* cache of a completion that ended there, and two inputs of one batch are *)
(* in one sequence only if the sequence of one of them was lowered, where  *)
(* the embedding of each is that of both.  What is decoded at once is      *)
(* never more than a slot holds.                                           *)
(***************************************************************************)
SequencesClean ==
    /\ phase = "decode" => batch_tokens <= SlotCtx /\ \A r \in At("batch") : kv[seq_id[r]] = {}
    /\ \A r \in Embeds \cup Reranks : \A i \in DOMAIN embeds[r] : \A x \in embeds[r][i] :
           \/ x = <<r, i>>
           \/ x[1] \in (Embeds \cup Reranks) \ {r} /\ (Lowered(r) \/ Lowered(x[1]))

Idle == {s \in Slots : ~cache_prompts[s].used}

(***************************************************************************)
(* As long as no embeddings task cleaned the sequence of a running         *)
(* completion, the KV counters that completions are admitted by stay exact *)
(* while embeddings clean prompt caches: used is what running completions  *)
(* and idle entries hold, inactive is the idle part.                       *)
(***************************************************************************)
CountersExact ==
    trampled = {} =>
        LET idle == SumFunctionOnSet([s \in Slots |-> cache_prompts[s].pos], Idle)
        IN  /\ llm_kv_cache_inactive = idle
            /\ llm_kv_cache_used = idle + PromptSize * Cardinality(Running)

(***************************************************************************)
(* Over all the rounds a request takes, its i-th embedding is computed     *)
(* from its i-th input, and an answer has one embedding for each input.    *)
(***************************************************************************)
EmbedsInOrder ==
    \A r \in Embeds \cup Reranks :
        answer[r] = "ok" =>
            /\ Len(embeds[r]) = Len(inputs[r])
            /\ \A i \in DOMAIN embeds[r] : <<r, i>> \in embeds[r][i]

(***************************************************************************)
(* The answer of a rerank request ranks its documents by score, with ties  *)
(* and for every top_n, whatever scores they got and in whatever order     *)
(* they came; the query and the unknown token of a request that normalizes *)
(* are not among them.                                                     *)
(***************************************************************************)
RankedByScore ==
    \A r \in Reranks :
        answer[r] = "ok" =>
            \A n \in {Len(inputs[r]), Len(inputs[r]) - 2} \cap 1 .. MaxDocuments : RankingOf[n]

(***************************************************************************)
(* An embeddings or rerank request that is not dropped for want of room or *)
(* of an embedding is answered unless its client leaves, whatever waits    *)
(* beside it and however many rounds it takes.                             *)
(***************************************************************************)
AnsweredUnlessLost ==
    \A r \in Embeds \cup Reranks :
        where[r] = "queued" ~> answer[r] # "none" \/ where[r] = "lost" \/ r \in closed
=============================================================================
