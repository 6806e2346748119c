--------------------------- MODULE ChunkedPrefill ---------------------------
(***************************************************************************)
(* Prompts of several chunks on their way through the reconcile thread,    *)
(* and what the memory of each sequence holds meanwhile: all chunks but    *)
(* the last are decoded while the batch is built, each may fail, and a     *)
(* prompt starts from what an idle entry of the prompt cache has in common *)
(* with it.                                                                *)
(*                                                                         *)
(* Unlike in CompletionScheduler tokens are told apart here, quotas, LoRA  *)
(* adapters, drafts and shifts are left out: the prompts are so short that *)
(* a shift would discard no more than four positions, and is not made.     *)
(***************************************************************************)
EXTENDS MultimodalPrompt

CONSTANTS
    Requests,      \* completion requests
    Setups,        \* [family, requests, messages]: a model, and who uses it
    Slots,         \* the sequences, and the entries of cache_prompts
    Limit,         \* llm_kv_cache_limit
    Generated,     \* the tokens that may be sampled
    MaxGenerated   \* bound on the tokens of an answer

ASSUME PrefillAssumption ==
    /\ IsFiniteSet(Requests) /\ Slots \subseteq Nat /\ IsFiniteSet(Slots) /\ Slots # {}
    /\ Limit \in Nat /\ MaxGenerated \in Nat \ {0} /\ Generated \subseteq Nat
    /\ \A setup \in Setups :
        /\ setup.family \in Families /\ setup.requests \subseteq Requests
        /\ \A message \in setup.messages :
            \* the template of a chat ends it with text, what is to be answered
            /\ message \in Seq([media : Media \cup {0}, text : Seq(Nat)])
            /\ message # <<>> /\ Last(message).media = 0 /\ Last(message).text # <<>>

VARIABLES
    setup,                    \* the model
    uses,                     \* the media asked for, in that order
    request,                  \* a request, from its message to its answer
    cache_prompts,
    memory,                   \* what each sequence holds, by position
    llm_kv_cache_used,
    llm_kv_cache_inactive,
    skewed,                   \* a counter went wrong: see LastChunk
    crashed                   \* sampling without a batch ends the process

vars == <<setup, uses, request, cache_prompts, memory, llm_kv_cache_used, llm_kv_cache_inactive, skewed, crashed, media_vars>>

kv_vars == <<cache_prompts, memory, llm_kv_cache_used, llm_kv_cache_inactive, skewed, crashed>>

(* Not in the code: what was asked, history, which the memory should hold, *)
(* and clean, whether the prompt began where an entry can be cut.          *)
NewRequest ==
    [state |-> "new", asked |-> <<>>, message |-> <<>>, chunks |-> <<>>, pos |-> 0, seq |-> 0,
     processed_tokens |-> <<>>, history |-> <<>>, answered |-> 0, clean |-> TRUE]

EmptyEntry == [used |-> FALSE, tokens |-> <<>>, pos |-> 0, clean |-> TRUE]

Init ==
    /\ setup \in Setups
    /\ uses = <<>>
    /\ request = [r \in Requests |-> NewRequest]
    /\ cache_prompts = [s \in Slots |-> EmptyEntry]
    /\ memory = [s \in Slots |-> <<>>]
    /\ llm_kv_cache_used = 0 /\ llm_kv_cache_inactive = 0
    /\ skewed = FALSE /\ crashed = FALSE
    /\ cache_multimodals = <<>> /\ multimodal_dummy_token_generator = -1

Contents(chunks) == FlattenSeq([k \in DOMAIN chunks |-> chunks[k].contents])

In(state) == {r \in Requests : request[r].state = state}

-----------------------------------------------------------------------------
(* The handlers.                                                           *)

IsPlain(message) == \A k \in DOMAIN message : message[k].media = 0

(* A message of plain text is tokenized as a whole.                        *)
Receive(r, message) ==
    /\ request[r].state = "new"
    /\ LET prompt == PlainPrompt(FlattenSeq([k \in DOMAIN message |-> message[k].text]))
           rec    == [request[r] EXCEPT !.asked = message]
       IN  request' = [request EXCEPT ![r] =
               CASE ~IsPlain(message) -> [rec EXCEPT !.state = "tokenizing", !.message = message]
                 [] IsPlain(message) /\ prompt = <<>> -> [rec EXCEPT !.state = "refused"]
                 [] OTHER -> [rec EXCEPT !.state = "queued", !.chunks = <<text_chunk(prompt)>>]]
    /\ UNCHANGED <<setup, kv_vars, media_vars, uses>>

(* Others part by part, a medium with the mutex held.                      *)
AddText(r) ==
    LET rec   == request[r]
        chunk == tokenize(Head(rec.message).text, rec.chunks = <<>>)
    IN  /\ rec.state = "tokenizing" /\ rec.message # <<>> /\ Head(rec.message).media = 0
        /\ request' = [request EXCEPT ![r].chunks = Append(@, chunk), ![r].message = Tail(@)]
        /\ UNCHANGED <<setup, kv_vars, media_vars, uses>>

AddMedia(r) ==
    LET rec == request[r]
        m   == Head(rec.message).media
    IN  /\ rec.state = "tokenizing" /\ rec.message # <<>> /\ m # 0
        /\ \E outcome \in cache_tokenize_multimedia(setup.family, m) :
            /\ cache_multimodals' = outcome.cache
            /\ uses' = Append(uses, m)
            /\ multimodal_dummy_token_generator' = multimodal_dummy_token_generator - outcome.made
            /\ request' = [request EXCEPT ![r] =
                   IF outcome.pieces = <<>> THEN [rec EXCEPT !.state = "refused"]
                   ELSE [rec EXCEPT !.message = Tail(@),
                                    !.chunks = @ \o Wrapped(setup.family, m, outcome.pieces, rec.chunks = <<>>)]]
        /\ UNCHANGED <<setup, kv_vars>>

Enqueue(r) ==
    /\ request[r].state = "tokenizing" /\ request[r].message = <<>>
    /\ request' = [request EXCEPT ![r].state = IF TooLong(NumTokens(request[r].chunks)) THEN "refused" ELSE "queued"]
    /\ UNCHANGED <<setup, kv_vars, media_vars, uses>>

-----------------------------------------------------------------------------
(* Where a prompt begins.                                                  *)

common_lcp(a, b) == Max({n \in 0 .. Min({Len(a), Len(b)}) : SubSeq(a, 1, n) = SubSeq(b, 1, n)})

Idle == {s \in Slots : ~cache_prompts[s].used}

(* The first idle entry with the longest prefix in common.                 *)
Best(tokens) ==
    LET lcp(s) == common_lcp(cache_prompts[s].tokens, tokens)
    IN  Min({s \in Idle : \A u \in Idle : lcp(u) <= lcp(s)})

(* One token less than the prefix, one position less than the entry.       *)
Hit(s, tokens) ==
    LET lcp == common_lcp(cache_prompts[s].tokens, tokens)
    IN  IF lcp = 0 THEN [cached |-> 0, pos |-> 0]
        ELSE [cached |-> lcp - 1, pos |-> Min({cache_prompts[s].pos - 1, lcp - 1})]

(* Neither the whole entry, whose last token is in no position, nor the    *)
(* middle of a medium, which is always decoded as a whole.                 *)
CanCut(hit, chunks) ==
    LET before(k) == NumTokens(SubSeq(chunks, 1, k - 1))
    IN  /\ hit.pos = hit.cached
        /\ \A k \in DOMAIN chunks :
            chunks[k].media => hit.cached <= before(k) \/ hit.cached >= before(k) + Len(chunks[k].tokens)

-----------------------------------------------------------------------------
(* Chunk by chunk.                                                         *)

(* What a chunk changes: counters before it is decoded, memory after.      *)
Start(s, hit) ==
    [pos |-> hit.pos, n_prefilled |-> hit.cached, c_prefilled |-> 0,
     used |-> llm_kv_cache_used - cache_prompts[s].pos + hit.pos,
     memory |-> SubSeq(memory[s], 1, hit.pos), failed |-> FALSE, batch |-> <<>>, skewed |-> FALSE]

(* Mutant: chunks after one that failed are decoded all the same.          *)
Decoded_PastFailure(p, chunk, ok) ==
    LET from  == p.n_prefilled - p.c_prefilled
        n     == Len(chunk.tokens)
        skip  == IF chunk.media THEN 0 ELSE from
        added == [p EXCEPT !.pos = @ + n - skip, !.n_prefilled = @ + n - skip, !.used = @ + n - skip]
    IN  IF from >= n THEN [p EXCEPT !.c_prefilled = @ + n]
        ELSE [added EXCEPT !.c_prefilled = @ + n, !.memory = IF ok THEN @ \o SubSeq(chunk.contents, skip + 1, n) ELSE @]

Decoded(p, chunk, ok) ==
    LET from  == p.n_prefilled - p.c_prefilled
        n     == Len(chunk.tokens)
        skip  == IF chunk.media THEN 0 ELSE from
        added == [p EXCEPT !.pos = @ + n - skip, !.n_prefilled = @ + n - skip, !.used = @ + n - skip]
    IN  IF p.failed THEN p
        ELSE IF from >= n THEN [p EXCEPT !.c_prefilled = @ + n]
        ELSE IF ~ok THEN [added EXCEPT !.failed = TRUE]
        ELSE [added EXCEPT !.c_prefilled = @ + n, !.memory = @ \o SubSeq(chunk.contents, skip + 1, n)]

(* The last chunk joins the batch.  If more of it is skipped than there    *)
(* is, the counters are lowered and the position is not.                   *)
LastChunk(p, chunk) ==
    LET from  == p.n_prefilled - p.c_prefilled
        n     == Len(chunk.tokens)
        batch == SubSeq(chunk.contents, from + 1, n)
    IN  [p EXCEPT !.pos = @ + Len(batch), !.n_prefilled = @ + n - from, !.used = @ + n - from,
                  !.batch = batch, !.skewed = from > n]

(* The counters after all chunks, if the one numbered `bad` fails.         *)
Chunked(r, s, hit, bad) ==
    LET chunks == request[r].chunks
        last   == Len(chunks)
        after[k \in 0 .. last - 1] == IF k = 0 THEN Start(s, hit) ELSE Decoded(after[k - 1], chunks[k], k # bad)
    IN  LastChunk(after[last - 1], chunks[last])

(* Mutant: the cells of the request are not given back.                    *)
Aborted_CellsCounted(r, s, p, held) ==
    /\ request' = [request EXCEPT ![r].state = "failed"]
    /\ cache_prompts' = [cache_prompts EXCEPT ![s] = EmptyEntry]
    /\ memory' = [memory EXCEPT ![s] = held]
    /\ llm_kv_cache_used' = p.used

(* The request ends with an error and its sequence is cleaned; what is in  *)
(* the batch by then is decoded into it all the same.                      *)
Aborted(r, s, p, held) ==
    /\ request' = [request EXCEPT ![r].state = "failed"]
    /\ cache_prompts' = [cache_prompts EXCEPT ![s] = EmptyEntry]
    /\ memory' = [memory EXCEPT ![s] = held]
    /\ llm_kv_cache_used' = p.used - p.pos

Sampled(rec, token) ==
    [rec EXCEPT !.processed_tokens = Append(@, token), !.history = Append(@, token), !.answered = @ + 1]

(* The first token of the answer is sampled in the same round.             *)
Prefilled(r, s, hit, p) ==
    LET rec    == request[r]
        chunks == rec.chunks
    IN  \E token \in Generated :
            /\ request' = [request EXCEPT ![r] = Sampled(
                   [rec EXCEPT !.state = "running", !.seq = s, !.pos = p.pos, !.chunks = <<>>,
                               !.processed_tokens = Tokens(chunks), !.history = Contents(chunks),
                               !.clean = CanCut(hit, chunks) /\ (hit.cached > 0 => cache_prompts[s].clean)], token)]
            /\ cache_prompts' = [cache_prompts EXCEPT ![s].used = TRUE, ![s].pos = 0]
            /\ memory' = [memory EXCEPT ![s] = p.memory \o p.batch]
            /\ llm_kv_cache_used' = p.used

KvFits(r) ==
    llm_kv_cache_used - llm_kv_cache_inactive + NumTokens(request[r].chunks) <= Limit

Prefill(r) ==
    /\ ~crashed
    /\ request[r].state = "queued" /\ Idle # {} /\ KvFits(r)
    /\ \E bad \in 0 .. Len(request[r].chunks) :
        LET tokens == Tokens(request[r].chunks)
            s      == Best(tokens)
            hit    == Hit(s, tokens)
            p      == Chunked(r, s, hit, bad)
            short  == p.n_prefilled < Len(tokens)
        IN  /\ llm_kv_cache_inactive' = llm_kv_cache_inactive - cache_prompts[s].pos
            /\ skewed' = (skewed \/ p.skewed)
            /\ crashed' = (~short /\ p.batch = <<>>)
            /\ IF short THEN Aborted(r, s, p, p.batch)
               ELSE IF bad = Len(request[r].chunks) /\ p.batch # <<>> THEN Aborted(r, s, p, <<>>)
               ELSE Prefilled(r, s, hit, p)
    /\ UNCHANGED <<setup, media_vars, uses>>

-----------------------------------------------------------------------------
(* Later rounds.                                                           *)

Decode(r) ==
    LET rec == request[r]
    IN  /\ ~crashed
        /\ rec.state = "running" /\ rec.answered < MaxGenerated
        /\ \E token \in Generated :
            request' = [request EXCEPT ![r] = [Sampled(rec, token) EXCEPT !.pos = @ + 1]]
        /\ memory' = [memory EXCEPT ![rec.seq] = Append(@, Last(rec.history))]
        /\ llm_kv_cache_used' = llm_kv_cache_used + 1
        /\ UNCHANGED <<setup, cache_prompts, llm_kv_cache_inactive, skewed, crashed, media_vars, uses>>

(* What was processed becomes an entry of the cache: the last token of it  *)
(* is in no position.                                                      *)
Retire(r) ==
    LET rec == request[r]
    IN  /\ ~crashed
        /\ rec.state = "running"
        /\ request' = [request EXCEPT ![r].state = "answered"]
        /\ cache_prompts' = [cache_prompts EXCEPT ![rec.seq] =
               [used |-> FALSE, tokens |-> rec.processed_tokens, pos |-> rec.pos, clean |-> rec.clean]]
        /\ llm_kv_cache_inactive' = llm_kv_cache_inactive + rec.pos
        /\ UNCHANGED <<setup, memory, llm_kv_cache_used, skewed, crashed, media_vars, uses>>

DecodeFails(r) ==
    LET rec == request[r]
    IN  /\ ~crashed
        /\ rec.state = "running" /\ rec.answered < MaxGenerated
        /\ Aborted(r, rec.seq, [pos |-> rec.pos + 1, used |-> llm_kv_cache_used + 1], <<>>)
        /\ UNCHANGED <<setup, llm_kv_cache_inactive, skewed, crashed, media_vars, uses>>

handler(r) == (\E message \in setup.messages : Receive(r, message)) \/ AddText(r) \/ AddMedia(r) \/ Enqueue(r)

reconcile(r) == Prefill(r) \/ Decode(r) \/ Retire(r) \/ DecodeFails(r)

Next == \E r \in setup.requests : handler(r) \/ reconcile(r)

Spec == Init /\ [][Next]_vars
-----------------------------------------------------------------------------
TypeOK ==
    /\ setup \in Setups
    /\ \A r \in Requests :
        /\ request[r].state \in {"new", "tokenizing", "queued", "refused", "running", "failed", "answered"}
        /\ request[r].seq \in Slots \cup {0} /\ request[r].pos \in Nat
    /\ \A s \in Slots : cache_prompts[s].used \in BOOLEAN /\ cache_prompts[s].pos \in Nat
    /\ Len(cache_multimodals) <= Max({0, max_projected_cache})
    /\ multimodal_dummy_token_generator < 0
    /\ llm_kv_cache_used \in Int /\ llm_kv_cache_inactive \in Nat

(***************************************************************************)
(* Whichever chunk fails and whatever was cached, the counters are what    *)
(* the running requests and the idle entries hold - unless more of the     *)
(* last chunk was skipped than there is of it.                             *)
(***************************************************************************)
KvAccounted ==
    LET idle    == SumFunctionOnSet([s \in Slots |-> cache_prompts[s].pos], Slots)
        running == SumFunctionOnSet([r \in Requests |-> request[r].pos], In("running"))
    IN  llm_kv_cache_inactive = idle /\ (~skewed => llm_kv_cache_used = idle + running)

HoldsHistory(r) == Append(memory[request[r].seq], Last(request[r].history)) = request[r].history

(***************************************************************************)
(* A request is answered from its own prompt and answer, each token and    *)
(* each part of an image once and in order, with nothing left over from    *)
(* the request that held the sequence before, if its prompt began at a     *)
(* place where the entry can be cut; and only one that did not may end the *)
(* process.                                                                *)
(***************************************************************************)
ContextKept ==
    /\ \A r \in In("running") : request[r].clean => HoldsHistory(r)
    /\ crashed => \E r \in In("running") : ~request[r].clean

(***************************************************************************)
(* A request is answered from its own prompt and answer.  The tokens taken *)
(* as prefilled are cached: "indicate how many prefilled tokens are        *)
(* cached", httpserver.hpp:2192.                                           *)
(***************************************************************************)
ContextIsHistory == \A r \in In("running") : HoldsHistory(r)

Pieces ==
    (UNION {ToSet(cache_multimodals[k].pieces) : k \in DOMAIN cache_multimodals})
    \cup (UNION {{c \in ToSet(request[r].chunks) : c.media} : r \in In("queued")})

(***************************************************************************)
(* What the prompt cache takes for equal is equal, however often images    *)
(* were projected, cached and evicted in between.                          *)
(***************************************************************************)
PiecesTold == \A a, b \in Pieces : a.tokens[1] = b.tokens[1] => a.contents = b.contents

(***************************************************************************)
(* The media of the latest uses, as many as the cache may hold, are in it. *)
(***************************************************************************)
RecentlyUsedCached ==
    LET since(k) == ToSet(SubSeq(uses, k, Len(uses)))
    IN  (\A k \in DOMAIN uses : Hears(setup.family) = (uses[k] \in Audio)) =>
            \A k \in DOMAIN uses : Cardinality(since(k)) <= max_projected_cache => Cached(uses[k]) # {}

Marks == {Bos} \cup {Marker[name] : name \in DOMAIN Marker}

Unmarked(contents) == FlattenSeq([k \in DOMAIN contents |-> IF contents[k] \in Marks THEN <<>> ELSE <<contents[k]>>])

(* What a message says: the texts, and of each medium what its model sees. *)
MediumSays(m) ==
    LET grid  == Grid[m][1] * Grid[m][2]
        n     == CASE m \in Audio -> Grid[m][1]
                   [] setup.family \in {"minicpmv", "minicpmv2"} /\ grid > 1 -> grid + 1
                   [] OTHER -> 1
        n_pos == IF setup.family = "qwen2vl" THEN Max(ToSet(Grid[m])) ELSE Positions[m]
    IN  FlattenSeq([i \in 1 .. n |-> [k \in 1 .. n_pos |-> 10000 * m + 100 * i + k]])

Says(message) ==
    FlattenSeq([k \in DOMAIN message |-> IF message[k].media = 0 THEN message[k].text ELSE MediumSays(message[k].media)])

(***************************************************************************)
(* Whatever markers a family has, and whether its media were projected now *)
(* or come from the cache, a prompt says what was asked, in its order,     *)
(* each text, image, slice of an image and part of a sound once.  Markers  *)
(* are left out of both, for a text may spell them too.                    *)
(***************************************************************************)
PromptSaysMessage ==
    \A r \in In("queued") :
        ~IsPlain(request[r].asked) => Unmarked(Contents(request[r].chunks)) = Unmarked(Says(request[r].asked))

(***************************************************************************)
(* A prompt that is queued leaves room to answer it, and a trimmed one has *)
(* the tokens to keep, and ends as it was asked.                           *)
(***************************************************************************)
PromptFits ==
    \A r \in In("queued") :
        LET prompt == Tokens(request[r].chunks)
            all    == <<Bos>> \o Says(request[r].asked)
        IN  /\ Len(prompt) < completion_context_limit
            /\ IsPlain(request[r].asked) =>
                   /\ SubSeq(prompt, 1, NKeep) = SubSeq(all, 1, NKeep)
                   /\ IsSuffix(SubSeq(prompt, NKeep + 1, Len(prompt)), all)
                   /\ Len(prompt) < Len(all) => 2 * Len(prompt) >= SlotSize + NKeep - 1
=============================================================================
