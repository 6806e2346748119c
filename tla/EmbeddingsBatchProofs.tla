----------------------- MODULE EmbeddingsBatchProofs -----------------------
(***************************************************************************)
(* Embeddings next to completions, for every number of threads, requests   *)
(* and inputs: nothing leaks into an embedding, each belongs to its input, *)
(* the KV counters stay exact, and documents are ranked by their scores.   *)
(***************************************************************************)
EXTENDS EmbeddingsBatch, SharedFacts

Places == {"unsent", "queued", "round", "batch", "lost", "destroyed"}

Encoded == Requests \ Completions

TypeInv ==
    /\ where \in [Requests -> Places]
    /\ tid \in [Requests -> Slots]
    /\ seq_id \in [Requests -> Slots \cup {-1}]
    /\ inputs \in [Requests -> Seq(Nat \ {0})]
    /\ embeds \in [Requests -> Seq(SUBSET Source)]
    /\ answer \in [Requests -> {"none", "ok", "error"}]
    /\ phase \in {"idle", "batching", "decode", "collect"}
    /\ batch_tokens \in 0 .. SlotCtx
    /\ kv \in [Slots -> SUBSET Source] /\ embd_seq \in [Slots -> SUBSET Source]
    /\ cache_prompts \in [Slots -> [used : BOOLEAN, pos : Nat]]
    /\ llm_kv_cache_used \in Int /\ llm_kv_cache_inactive \in Int
    /\ trampled \subseteq Completions

(* A request that waits has something to compute, in a sequence.           *)
SentInv ==
    \A r \in Encoded :
        /\ where[r] # "unsent" => seq_id[r] # -1 /\ inputs[r] # <<>>
        /\ where[r] = "unsent" => answer[r] = "none" /\ embeds[r] = <<>>
        /\ Unfinished(r) => Len(embeds[r]) < Len(inputs[r])

(* Every embedding so far was computed from its own input.                 *)
OwnInputs(r) == \A i \in DOMAIN embeds[r] : <<r, i>> \in embeds[r][i]

OrderInv ==
    \A r \in Encoded :
        /\ Unfinished(r) => OwnInputs(r) /\ answer[r] # "ok"
        /\ answer[r] = "ok" => where[r] = "destroyed" /\ Len(embeds[r]) = Len(inputs[r]) /\ OwnInputs(r)
        /\ phase = "collect" /\ where[r] = "batch" => <<r, Len(embeds[r]) + 1>> \in embd_seq[seq_id[r]]

(* A task joins the batch while it is built, of embeddings only.           *)
BatchInv ==
    /\ At("batch") \subseteq Encoded
    /\ phase = "idle" => At("batch") = {}
    /\ phase = "batching" /\ At("batch") # {} => batch_task_type = "embeddings"

CleanInv ==
    phase \in {"batching", "decode"} => \A r \in At("batch") : kv[seq_id[r]] = {}

(* A handler waits for one request, whose sequence is that of its thread   *)
(* or a lower one.                                                         *)
WaitInv ==
    /\ \A r \in Encoded : Unfinished(r) => answer[r] = "none"
    /\ \A r \in Encoded : where[r] # "unsent" => seq_id[r] <= tid[r]
    /\ \A q, r \in Requests : q # r /\ Waits(q) /\ Waits(r) => tid[q] # tid[r]

SentTasks    == {q \in Encoded : where[q] # "unsent"}
LoweredTasks == {q \in SentTasks : Lowered(q)}

(* What the i-th embedding of a request may be computed from.              *)
Own(r, i, x, sent, lowered) ==
    \/ x = <<r, i>>
    \/ x[1] \in sent \ {r} /\ (r \in lowered \/ x[1] \in lowered)

SourceInv ==
    /\ \A r \in Encoded : \A i \in DOMAIN embeds[r] : \A x \in embeds[r][i] : Own(r, i, x, SentTasks, LoweredTasks)
    /\ phase = "collect" =>
           \A r \in At("batch") : \A x \in embd_seq[seq_id[r]] : Own(r, Len(embeds[r]) + 1, x, SentTasks, LoweredTasks)

(* Without prompt caches nothing is cleaned before a batch: it must be     *)
(* cleaned after it.                                                       *)
EmptyInv ==
    \A s \in Slots : kv[s] # {} => CanShift /\ phase = "collect" /\ \E r \in At("batch") : seq_id[r] = s

(* As long as nothing was trampled, an entry in use belongs to the         *)
(* completion that runs in it.                                             *)
EntryInv ==
    /\ \A s \in Slots : cache_prompts[s].used => CachePrompt /\ cache_prompts[s].pos = 0
    /\ ~CachePrompt => \A s \in Slots : cache_prompts[s].pos = 0
    /\ \A c \in Completions : where[c] = "unsent" => seq_id[c] = -1
    /\ trampled = {} /\ CachePrompt =>
           \A c \in Running :
               /\ cache_prompts[seq_id[c]].used
               /\ \A d \in Running \ {c} : seq_id[d] # seq_id[c]

BatchesInv   == TypeInv /\ SentInv /\ BatchInv
EmbeddingInv == BatchesInv /\ OrderInv
CacheInv     == BatchesInv /\ EntryInv /\ CountersExact

-----------------------------------------------------------------------------
(***************************************************************************)
(* Inputs and sequences.                                                   *)
(***************************************************************************)

LEMMA MinMaxOfTwo ==
    ASSUME NEW a \in Int, NEW b \in Int
    PROVE  /\ Min({a, b}) = IF a <= b THEN a ELSE b
           /\ Max({a, b}) = IF a >= b THEN a ELSE b
  <1> DEFINE m == IF a <= b THEN a ELSE b
             n == IF a >= b THEN a ELSE b
  <1>1. /\ m \in {a, b} /\ \A y \in {a, b} : m <= y
        /\ \A x \in {a, b} : (\A y \in {a, b} : x <= y) => x = m
    OBVIOUS
  <1>2. /\ n \in {a, b} /\ \A y \in {a, b} : n >= y
        /\ \A x \in {a, b} : (\A y \in {a, b} : x >= y) => x = n
    OBVIOUS
  <1> HIDE DEF m, n
  <1>3. Min({a, b}) = m
    BY <1>1 DEF Min
  <1>4. Max({a, b}) = n
    BY <1>2 DEF Max
  <1> QED
    BY <1>3, <1>4 DEF m, n

LEMMA Clipped ==
    ASSUME NEW a \in Nat, NEW b \in Nat \ {0}
    PROVE  Min({Max({a, 1}), b}) \in Nat \ {0}
  <1> DEFINE m == IF a >= 1 THEN a ELSE 1
  <1>1. Max({a, 1}) = m
    BY MinMaxOfTwo
  <1>2. m \in Nat \ {0}
    OBVIOUS
  <1> HIDE DEF m
  <1>3. Min({m, b}) = IF m <= b THEN m ELSE b
    BY <1>2, MinMaxOfTwo
  <1> QED
    BY <1>1, <1>2, <1>3

LEMMA SomeInputs ==
    ASSUME NEW n \in Nat \ {0}, NEW x \in [1 .. n -> Nat \ {0}]
    PROVE  x \in Seq(Nat \ {0}) /\ x # <<>>
  <1>1. x \in Seq(Nat \ {0})
    BY SeqDef
  <1>2. DOMAIN x = 1 .. n /\ DOMAIN <<>> = {}
    OBVIOUS
  <1> QED
    BY <1>1, <1>2

(* No input is without tokens, and no request without inputs.              *)
LEMMA EmbedInputsTyped ==
    ASSUME NEW x \in EmbedInputs
    PROVE  x \in Seq(Nat \ {0}) /\ x # <<>>
  <1>1. PICK t \in Texts : t # <<>> /\ x = [i \in DOMAIN t |-> Min({Max({t[i], 1}), SlotCtx})]
    BY DEF EmbedInputs
  <1>2. t \in Seq(Nat) /\ SlotCtx \in Nat \ {0}
    BY <1>1, EmbeddingsAssumption
  <1>3. Len(t) \in Nat \ {0} /\ DOMAIN t = 1 .. Len(t) /\ \A i \in 1 .. Len(t) : t[i] \in Nat
    BY <1>1, <1>2, EmptySeq
  <1>4. ASSUME NEW i \in 1 .. Len(t)
        PROVE  Min({Max({t[i], 1}), SlotCtx}) \in Nat \ {0}
    <2> DEFINE a == t[i]
    <2>1. a \in Nat
      BY <1>3, <1>4
    <2> HIDE DEF a
    <2>2. Min({Max({a, 1}), SlotCtx}) \in Nat \ {0}
      BY <1>2, <2>1, Clipped
    <2> QED
      BY <2>2 DEF a
  <1>5. x \in [1 .. Len(t) -> Nat \ {0}]
    BY <1>1, <1>3, <1>4
  <1> QED
    BY <1>3, <1>5, SomeInputs

LEMMA RerankInputsTyped ==
    ASSUME NEW x \in RerankInputs
    PROVE  x \in Seq(Nat \ {0}) /\ x # <<>>
  <1>1. PICK q \in Queries, d \in Documents, more \in {<<>>} \cup {<<k, 1>> : k \in Queries} :
            x = [i \in DOMAIN (d \o more) |-> decorate(q, (d \o more)[i])]
    BY DEF RerankInputs
  <1>2. q \in Nat /\ d \in Seq(Nat) /\ d # <<>> /\ more \in Seq(Nat)
    <2>1. q \in Nat /\ d \in Seq(Nat) /\ d # <<>> /\ Queries \subseteq Nat
      BY <1>1, EmbeddingsAssumption
    <2>2. CASE more = <<>>
      BY <2>1, <2>2
    <2>3. CASE more # <<>>
      <3>1. PICK k \in Queries : more = <<k, 1>>
        BY <1>1, <2>3
      <3> QED
        BY <2>1, <3>1
    <2> QED
      BY <2>1, <2>2, <2>3
  <1> DEFINE all == d \o more
  <1>3. all \in Seq(Nat) /\ Len(all) = Len(d) + Len(more) /\ Len(d) \in Nat \ {0} /\ Len(more) \in Nat
    BY <1>2, EmptySeq
  <1> HIDE DEF all
  <1>4. Len(all) \in Nat \ {0} /\ DOMAIN all = 1 .. Len(all) /\ \A i \in 1 .. Len(all) : all[i] \in Nat
    BY <1>3
  <1>5. x = [i \in 1 .. Len(all) |-> q + all[i] + 4]
    BY <1>1, <1>4 DEF all, decorate
  <1>6. x \in [1 .. Len(all) -> Nat \ {0}]
    <2>1. \A i \in 1 .. Len(all) : q + all[i] + 4 \in Nat \ {0}
      BY <1>2, <1>4
    <2> QED
      BY <1>5, <2>1
  <1> QED
    BY <1>4, <1>6, SomeInputs

(* The next input of a task that has one.                                  *)
LEMMA NextInputTyped ==
    ASSUME TypeInv, SentInv, NEW r \in Encoded, Unfinished(r)
    PROVE  /\ NextInput(r) \in Nat \ {0}
           /\ Len(embeds[r]) \in Nat /\ Len(inputs[r]) \in Nat /\ Len(embeds[r]) + 1 <= Len(inputs[r])
  <1>1. /\ inputs[r] \in Seq(Nat \ {0}) /\ embeds[r] \in Seq(SUBSET Source)
        /\ Len(embeds[r]) < Len(inputs[r])
    BY DEF TypeInv, SentInv, Encoded
  <1>2. Len(embeds[r]) \in Nat /\ Len(inputs[r]) \in Nat
    BY <1>1
  <1>3. inputs[r][Len(embeds[r]) + 1] \in Nat \ {0}
    BY <1>1, <1>2
  <1> QED
    BY <1>1, <1>2, <1>3 DEF NextInput

LEMMA SlotsFacts ==
    /\ 0 \in Slots /\ -1 \notin Slots /\ IsFiniteSet(Slots) /\ \A s \in Slots : s \in Nat
    /\ IsFiniteSet(Completions)
  BY EmbeddingsAssumption, FS_Interval, FS_Subset DEF Slots, Requests

(* A task keeps its sequence or gets a lower one.                          *)
LEMMA LoweredIs ==
    ASSUME TypeInv, SentInv, NEW r \in Encoded, Unfinished(r)
    PROVE  LoweredSequence(r) \in Slots /\ LoweredSequence(r) <= seq_id[r]
  <1>1. seq_id[r] \in Slots
    BY DEF TypeInv, SentInv, Unfinished, Encoded
  <1>2. batch_tokens + NextInput(r) - 1 \in Nat
    BY NextInputTyped DEF TypeInv
  <1>3. seq_id[r] \in 0 .. NThreads - 1 /\ NThreads \in Nat
    BY <1>1, EmbeddingsAssumption DEF Slots
  <1> DEFINE last == batch_tokens + NextInput(r) - 1
  <1>4. Min({seq_id[r], last}) = IF seq_id[r] <= last THEN seq_id[r] ELSE last
    <2> HIDE DEF last
    <2> QED
      BY <1>2, <1>3, MinMaxOfTwo DEF last
  <1>5. /\ (IF seq_id[r] <= last THEN seq_id[r] ELSE last) \in 0 .. NThreads - 1
        /\ (IF seq_id[r] <= last THEN seq_id[r] ELSE last) <= seq_id[r]
    <2> HIDE DEF last
    <2> QED
      BY <1>2, <1>3 DEF last
  <1> QED
    BY <1>4, <1>5 DEF LoweredSequence, Slots

(* What can be said of a task that is served in the batch.                 *)
LEMMA InBatch ==
    ASSUME BatchesInv, NEW r \in Requests, where[r] = "batch"
    PROVE  /\ r \in Encoded /\ Unfinished(r) /\ seq_id[r] \in Slots
           /\ embd_seq[seq_id[r]] \in SUBSET Source
           /\ embeds[r] \in Seq(SUBSET Source) /\ Len(embeds[r]) \in Nat
  <1>1. r \in Encoded
    BY DEF BatchesInv, BatchInv, At
  <1>2. seq_id[r] \in Slots
    BY <1>1 DEF BatchesInv, TypeInv, SentInv, Encoded
  <1>3. embeds[r] \in Seq(SUBSET Source)
    BY DEF BatchesInv, TypeInv
  <1>4. Len(embeds[r]) \in Nat
    BY <1>3
  <1> QED
    BY <1>1, <1>2, <1>3, <1>4 DEF Unfinished, BatchesInv, TypeInv

-----------------------------------------------------------------------------
(***************************************************************************)
(* Types, and what is in the batch.                                        *)
(***************************************************************************)

LEMMA BatchesInit == Init => BatchesInv
  <1> SUFFICES ASSUME Init PROVE BatchesInv
    OBVIOUS
  <1>1. TypeInv
    <2>1. <<>> \in Seq(Nat \ {0}) /\ <<>> \in Seq(SUBSET Source)
      BY EmptySeq
    <2>2. 0 \in 0 .. SlotCtx
      BY EmbeddingsAssumption
    <2> QED
      BY <2>1, <2>2, SlotsFacts DEF Init, TypeInv, Places
  <1>2. SentInv /\ BatchInv
    BY DEF Init, SentInv, BatchInv, At, Unfinished, Encoded
  <1> QED
    BY <1>1, <1>2 DEF BatchesInv

LEMMA TypeStep ==
    ASSUME BatchesInv, [Next]_vars
    PROVE  TypeInv'
  <1> USE DEF BatchesInv
  <1>0. /\ where \in [Requests -> Places] /\ tid \in [Requests -> Slots]
        /\ seq_id \in [Requests -> Slots \cup {-1}]
        /\ inputs \in [Requests -> Seq(Nat \ {0})] /\ embeds \in [Requests -> Seq(SUBSET Source)]
        /\ answer \in [Requests -> {"none", "ok", "error"}]
        /\ batch_tokens \in 0 .. SlotCtx /\ SlotCtx \in Nat
        /\ kv \in [Slots -> SUBSET Source] /\ embd_seq \in [Slots -> SUBSET Source]
        /\ cache_prompts \in [Slots -> [used : BOOLEAN, pos : Nat]]
        /\ llm_kv_cache_used \in Int /\ llm_kv_cache_inactive \in Int /\ PromptSize \in Nat
        /\ CachePrompt \in BOOLEAN
    BY EmbeddingsAssumption DEF TypeInv
  <1> DEFINE Entry == [used : BOOLEAN, pos : Nat]
             EmptyAt == [used |-> FALSE, pos |-> 0]
  <1>a. EmptyAt \in Entry
    OBVIOUS
  <1>1. ASSUME NEW r \in Requests, Submit(r)
        PROVE  TypeInv'
    <2>1. PICK h \in FreeThreads : tid' = [tid EXCEPT ![r] = h]
              /\ seq_id' = [seq_id EXCEPT ![r] = IF r \in Completions THEN -1 ELSE h]
      BY <1>1 DEF Submit
    <2>2. h \in Slots
      BY DEF FreeThreads
    <2>3. PICK x : /\ x \in IF r \in Embeds THEN EmbedInputs ELSE IF r \in Reranks THEN RerankInputs ELSE {<<>>}
                   /\ inputs' = [inputs EXCEPT ![r] = x]
      BY <1>1 DEF Submit
    <2>4. x \in Seq(Nat \ {0})
      BY <2>3, EmbedInputsTyped, RerankInputsTyped, EmptySeq
    <2>5. tid' \in [Requests -> Slots] /\ seq_id' \in [Requests -> Slots \cup {-1}]
      BY <1>0, <2>1, <2>2
    <2>6. inputs' \in [Requests -> Seq(Nat \ {0})]
      BY <1>0, <2>3, <2>4
    <2>7. where' \in [Requests -> Places]
      BY <1>0, <1>1 DEF Submit, Places
    <2> QED
      BY <1>1, <2>5, <2>6, <2>7 DEF Submit, TypeInv, caches, counters
  <1>2. ASSUME NEW r \in Requests, Disconnect(r)
        PROVE  TypeInv'
    BY <1>2 DEF Disconnect, TypeInv, caches, counters
  <1>3. ASSUME NEW r \in Requests, Dequeue(r)
        PROVE  TypeInv'
    <2>1. where' \in [Requests -> Places]
      BY <1>0, <1>3 DEF Dequeue, Places
    <2>2. batch_tokens' \in 0 .. SlotCtx /\ phase' = "batching"
      BY <1>0, <1>3 DEF Dequeue
    <2> QED
      BY <1>3, <2>1, <2>2 DEF Dequeue, TypeInv, tasks, caches, counters
  <1>4. ASSUME NEW r \in Requests, TypeWaits(r) \/ NoRoom(r)
        PROVE  TypeInv'
    <2>1. where' \in [Requests -> Places]
      BY <1>0, <1>4 DEF TypeWaits, NoRoom, Goes, Places
    <2> QED
      BY <1>4, <2>1 DEF TypeWaits, NoRoom, TypeInv, tasks, caches, counters
  <1>5. ASSUME NEW r \in Requests, PrefillCompletion(r)
        PROVE  TypeInv'
    <2>1. PICK s \in Slots :
              /\ seq_id' = [seq_id EXCEPT ![r] = s]
              /\ kv' = [kv EXCEPT ![s] = {<<r, 1>>}]
              /\ cache_prompts' = [cache_prompts EXCEPT ![s] = [used |-> CachePrompt, pos |-> 0]]
              /\ llm_kv_cache_used' = llm_kv_cache_used - cache_prompts[s].pos + PromptSize
              /\ llm_kv_cache_inactive' = llm_kv_cache_inactive - cache_prompts[s].pos
      BY <1>0, <1>5 DEF PrefillCompletion
    <2>2. where' \in [Requests -> Places]
      BY <1>0, <1>5 DEF PrefillCompletion, Goes, Places
    <2>3. kv' \in [Slots -> SUBSET Source]
      <3>1. {<<r, 1>>} \in SUBSET Source
        BY DEF Source
      <3> QED
        BY <1>0, <2>1, <3>1
    <2>4. cache_prompts' \in [Slots -> Entry]
      <3>1. [used |-> CachePrompt, pos |-> 0] \in Entry
        BY <1>0
      <3> DEFINE e == [used |-> CachePrompt, pos |-> 0]
      <3> HIDE DEF Entry, e
      <3> QED
        BY <1>0, <2>1, <3>1 DEF e, Entry
    <2>5. llm_kv_cache_used' \in Int /\ llm_kv_cache_inactive' \in Int
      <3>1. cache_prompts[s].pos \in Nat
        BY <1>0, <2>1
      <3> QED
        BY <1>0, <2>1, <3>1
    <2>6. seq_id' \in [Requests -> Slots \cup {-1}]
      BY <1>0, <2>1
    <2> QED
      BY <1>5, <2>2, <2>3, <2>4, <2>5, <2>6 DEF PrefillCompletion, TypeInv, tasks
  <1>6. ASSUME NEW r \in Requests, EndCompletion(r)
        PROVE  TypeInv'
    <2>1. seq_id[r] \in Slots
      BY <1>0, <1>6 DEF EndCompletion
    <2>2. where' \in [Requests -> Places] /\ answer' \in [Requests -> {"none", "ok", "error"}]
      BY <1>0, <1>6 DEF EndCompletion, Goes, Places
    <2>3. kv' \in [Slots -> SUBSET Source]
      <3>1. kv' = kv \/ kv' = [kv EXCEPT ![seq_id[r]] = {}]
        BY <1>6 DEF EndCompletion
      <3> QED
        BY <1>0, <3>1
    <2>4. cache_prompts' \in [Slots -> Entry]
      <3> DEFINE e == [used |-> FALSE, pos |-> PromptSize]
      <3>1. e \in Entry
        BY <1>0
      <3>2. cache_prompts' = cache_prompts \/ cache_prompts' = [cache_prompts EXCEPT ![seq_id[r]] = e]
        BY <1>6 DEF EndCompletion
      <3> HIDE DEF Entry, e
      <3> QED
        BY <1>0, <3>1, <3>2 DEF Entry
    <2>5. llm_kv_cache_used' \in Int /\ llm_kv_cache_inactive' \in Int
      BY <1>0, <1>6 DEF EndCompletion
    <2> QED
      BY <1>6, <2>2, <2>3, <2>4, <2>5 DEF EndCompletion, TypeInv
  <1>7. ASSUME NEW r \in Requests, BatchInput(r)
        PROVE  TypeInv'
    <2> DEFINE s == LoweredSequence(r)
    <2>1. Unfinished(r) /\ r \in Encoded
      BY <1>7 DEF BatchInput, Walks, Unfinished, Encoded
    <2>2. s \in Slots /\ NextInput(r) \in Nat
      BY <2>1, LoweredIs, NextInputTyped
    <2>3. /\ where' = [where EXCEPT ![r] = "batch"]
          /\ seq_id' = [seq_id EXCEPT ![r] = s]
          /\ batch_tokens' = batch_tokens + NextInput(r) /\ batch_tokens + NextInput(r) <= SlotCtx
          /\ trampled' = trampled \cup {c \in Running : seq_id[c] = s}
      BY <1>7 DEF BatchInput, Goes, FitsBatch
    <2>4. \/ /\ cache_prompts' = [cache_prompts EXCEPT ![s] = EmptyAt]
             /\ kv' = [kv EXCEPT ![s] = {}]
             /\ llm_kv_cache_used' = llm_kv_cache_used - cache_prompts[s].pos
             /\ llm_kv_cache_inactive' = llm_kv_cache_inactive - cache_prompts[s].pos
          \/ UNCHANGED <<cache_prompts, kv, llm_kv_cache_used, llm_kv_cache_inactive>>
      BY <1>7 DEF BatchInput, CleanCache, caches, counters
    <2> HIDE DEF s
    <2>5. where' \in [Requests -> Places] /\ seq_id' \in [Requests -> Slots \cup {-1}]
      BY <1>0, <2>2, <2>3 DEF Places
    <2>6. batch_tokens' \in 0 .. SlotCtx
      BY <1>0, <2>2, <2>3
    <2>7. kv' \in [Slots -> SUBSET Source]
      BY <1>0, <2>4
    <2>8. cache_prompts' \in [Slots -> Entry]
      <3> HIDE DEF Entry, EmptyAt
      <3> QED
        BY <1>0, <1>a, <2>4 DEF Entry
    <2>9. llm_kv_cache_used' \in Int /\ llm_kv_cache_inactive' \in Int
      <3>1. cache_prompts[s].pos \in Nat
        BY <1>0, <2>2
      <3> QED
        BY <1>0, <2>4, <3>1
    <2>10. trampled' \subseteq Completions
      BY <2>3 DEF TypeInv, Running
    <2> QED
      BY <1>7, <2>5, <2>6, <2>7, <2>8, <2>9, <2>10 DEF BatchInput, TypeInv, tasks
  <1>8. ASSUME NEW r \in Requests, EmbeddingMissing(r) \/ NextRound(r) \/ Finish(r)
        PROVE  TypeInv'
    <2>1. where[r] = "batch"
      BY <1>8 DEF EmbeddingMissing, NextRound, Finish, Collects
    <2>2. seq_id[r] \in Slots /\ embd_seq[seq_id[r]] \in SUBSET Source /\ embeds[r] \in Seq(SUBSET Source)
      BY <2>1, InBatch
    <2>3. PICK e \in SUBSET Source : embeds' = [embeds EXCEPT ![r] = Append(embeds[r], e)]
      BY <1>8, <2>2 DEF EmbeddingMissing, NextRound, Finish, Gathers
    <2>4. embeds' \in [Requests -> Seq(SUBSET Source)]
      <3>1. Append(embeds[r], e) \in Seq(SUBSET Source)
        BY <2>2, <2>3
      <3> QED
        BY <1>0, <2>3, <3>1
    <2>5. kv' \in [Slots -> SUBSET Source]
      <3>1. kv' = kv \/ kv' = [kv EXCEPT ![seq_id[r]] = {}]
        BY <1>8 DEF EmbeddingMissing, NextRound, Finish, Gathers
      <3> QED
        BY <1>0, <3>1
    <2>6. where' \in [Requests -> Places]
      BY <1>0, <1>8 DEF EmbeddingMissing, NextRound, Finish, Goes, Places
    <2>7. answer' \in [Requests -> {"none", "ok", "error"}]
      BY <1>0, <1>8 DEF EmbeddingMissing, NextRound, Finish, tasks
    <2>8. phase' \in {"idle", phase} /\ embd_seq' \in [Slots -> SUBSET Source]
      BY <1>0, <1>8 DEF EmbeddingMissing, NextRound, Finish, LastOfBatch
    <2>9. UNCHANGED <<tid, seq_id, inputs, batch_tokens, cache_prompts, llm_kv_cache_used, llm_kv_cache_inactive, trampled>>
      BY <1>8 DEF EmbeddingMissing, NextRound, Finish, tasks, caches, counters
    <2> QED
      BY <2>4, <2>5, <2>6, <2>7, <2>8, <2>9 DEF TypeInv
  <1>9. CASE CloseBatch
    BY <1>9 DEF CloseBatch, TypeInv, tasks, caches, counters
  <1>10. CASE Decodes
    <2>1. embd_seq' \in [Slots -> SUBSET Source]
      <3>1. ASSUME NEW s \in Slots
            PROVE  kv[s] \cup {<<r, Len(embeds[r]) + 1>> : r \in {q \in At("batch") : seq_id[q] = s}} \in SUBSET Source
        <4>1. \A r \in At("batch") : r \in Requests /\ Len(embeds[r]) + 1 \in Nat
          BY InBatch DEF At
        <4>2. kv[s] \in SUBSET Source
          BY <1>0
        <4> QED
          BY <4>1, <4>2 DEF Source
      <3> QED
        BY <1>10, <3>1 DEF Decodes
    <2>2. kv' \in [Slots -> SUBSET Source] /\ phase' = "collect"
      BY <1>0, <1>10, <2>1 DEF Decodes
    <2> QED
      BY <1>10, <2>1, <2>2 DEF Decodes, TypeInv, tasks, caches, counters
  <1>11. CASE DecodeFails
    <2>1. where' \in [Requests -> Places] /\ answer' \in [Requests -> {"none", "ok", "error"}]
      BY <1>0, <1>11 DEF DecodeFails, Places
    <2>2. kv' \in [Slots -> SUBSET Source] /\ trampled' \subseteq Completions /\ phase' = "idle"
      BY <1>11 DEF DecodeFails, TypeInv, Running
    <2> QED
      BY <1>11, <2>1, <2>2 DEF DecodeFails, TypeInv, caches, counters
  <1>12. CASE UNCHANGED vars
    BY <1>12 DEF vars, TypeInv, tasks, caches, counters
  <1> QED
    BY <1>1, <1>2, <1>3, <1>4, <1>5, <1>6, <1>7, <1>8, <1>9, <1>10, <1>11, <1>12 DEF Next, reconcile

(* What a task that gathers an embedding is left with.                     *)
LEMMA Appended ==
    ASSUME BatchesInv, NEW r \in Requests, where[r] = "batch", NEW e,
           embeds' = [embeds EXCEPT ![r] = Append(embeds[r], e)]
    PROVE  /\ Len(embeds'[r]) = Len(embeds[r]) + 1 /\ Len(embeds[r]) \in Nat
           /\ embeds'[r][Len(embeds[r]) + 1] = e
           /\ \A i \in DOMAIN embeds[r] : embeds'[r][i] = embeds[r][i]
           /\ DOMAIN embeds[r] = 1 .. Len(embeds[r]) /\ DOMAIN embeds'[r] = 1 .. Len(embeds[r]) + 1
           /\ \A q \in Requests \ {r} : embeds'[q] = embeds[q]
  <1>1. embeds \in [Requests -> Seq(SUBSET Source)]
    BY DEF BatchesInv, TypeInv
  <1>2. embeds[r] \in Seq(SUBSET Source) /\ embeds'[r] = Append(embeds[r], e)
    BY <1>1
  <1> DEFINE S == (SUBSET Source) \cup {e}
  <1>3. embeds[r] \in Seq(S) /\ e \in S
    BY <1>2, SeqMonotonic
  <1> HIDE DEF S
  <1>4. /\ Len(Append(embeds[r], e)) = Len(embeds[r]) + 1 /\ Len(embeds[r]) \in Nat
        /\ Append(embeds[r], e)[Len(embeds[r]) + 1] = e
        /\ \A i \in 1 .. Len(embeds[r]) : Append(embeds[r], e)[i] = embeds[r][i]
        /\ DOMAIN embeds[r] = 1 .. Len(embeds[r])
        /\ DOMAIN Append(embeds[r], e) = 1 .. Len(embeds[r]) + 1
    BY <1>3
  <1> QED
    BY <1>1, <1>2, <1>4

(* What the walk over the batch does to a task.                            *)
LEMMA Gathering ==
    ASSUME BatchesInv, NEW r \in Requests, EmbeddingMissing(r) \/ NextRound(r) \/ Finish(r)
    PROVE  /\ where[r] = "batch" /\ phase = "collect" /\ r \in Encoded
           /\ where' = [where EXCEPT ![r] = where'[r]] /\ where'[r] \in {"lost", "queued", "destroyed"}
           /\ embeds' = [embeds EXCEPT ![r] =
                  Append(embeds[r], IF EmbeddingMissing(r) THEN {} ELSE embd_seq[seq_id[r]])]
           /\ UNCHANGED <<seq_id, inputs, batch_task_type>>
           /\ \/ At("batch") = {r} /\ phase' = "idle"
              \/ UNCHANGED <<phase, embd_seq>>
  <1>1. where[r] = "batch" /\ phase = "collect"
    BY DEF EmbeddingMissing, NextRound, Finish, Collects
  <1>2. \E place \in {"lost", "queued", "destroyed"} : where' = [where EXCEPT ![r] = place]
    BY DEF EmbeddingMissing, NextRound, Finish, Goes
  <1>3. where' = [where EXCEPT ![r] = where'[r]] /\ where'[r] \in {"lost", "queued", "destroyed"}
    BY <1>2 DEF BatchesInv, TypeInv
  <1>4. embeds' = [embeds EXCEPT ![r] = Append(embeds[r], IF EmbeddingMissing(r) THEN {} ELSE embd_seq[seq_id[r]])]
    BY DEF EmbeddingMissing, NextRound, Finish, Gathers, Goes
  <1>5. \/ At("batch") = {r} /\ phase' = "idle"
        \/ UNCHANGED <<phase, embd_seq>>
    BY DEF EmbeddingMissing, NextRound, Finish, LastOfBatch
  <1>6. UNCHANGED <<seq_id, inputs, batch_task_type>>
    BY DEF EmbeddingMissing, NextRound, Finish, tasks
  <1> QED
    BY <1>1, <1>3, <1>4, <1>5, <1>6, InBatch

LEMMA SentStep ==
    ASSUME BatchesInv, [Next]_vars
    PROVE  SentInv'
  <1> USE DEF BatchesInv
  <1>0. /\ where \in [Requests -> Places] /\ seq_id \in [Requests -> Slots \cup {-1}]
        /\ inputs \in [Requests -> Seq(Nat \ {0})] /\ embeds \in [Requests -> Seq(SUBSET Source)]
    BY DEF TypeInv
  <1>1. ASSUME NEW r \in Requests, Submit(r)
        PROVE  SentInv'
    <2>1. PICK h \in FreeThreads : seq_id' = [seq_id EXCEPT ![r] = IF r \in Completions THEN -1 ELSE h]
      BY <1>1 DEF Submit
    <2>2. h \in Slots /\ h # -1
      BY SlotsFacts DEF FreeThreads
    <2>3. PICK x : /\ x \in IF r \in Embeds THEN EmbedInputs ELSE IF r \in Reranks THEN RerankInputs ELSE {<<>>}
                   /\ inputs' = [inputs EXCEPT ![r] = x]
      BY <1>1 DEF Submit
    <2>4. r \in Encoded => x # <<>> /\ x \in Seq(Nat \ {0})
      BY <2>3, EmbedInputsTyped, RerankInputsTyped DEF Encoded, Requests
    <2>5. ASSUME r \in Encoded
          PROVE  Len(embeds'[r]) < Len(inputs'[r])
      <3>1. embeds'[r] = <<>> /\ inputs'[r] = x
        BY <1>0, <1>1, <2>3, <2>5 DEF Submit, SentInv
      <3>2. Len(x) \in Nat \ {0} /\ Len(<<>>) = 0
        BY <2>4, <2>5, EmptySeq
      <3> QED
        BY <3>1, <3>2
    <2>6. /\ where[r] = "unsent" /\ where'[r] = "queued"
          /\ \A q \in Requests \ {r} : where'[q] = where[q] /\ seq_id'[q] = seq_id[q] /\ inputs'[q] = inputs[q]
          /\ seq_id'[r] = (IF r \in Completions THEN -1 ELSE h) /\ inputs'[r] = x
          /\ embeds' = embeds /\ answer' = answer
      BY <1>0, <1>1, <2>1, <2>3 DEF Submit
    <2> QED
      BY <2>2, <2>4, <2>5, <2>6 DEF SentInv, Encoded, Unfinished
  <1>2. ASSUME NEW r \in Requests, Disconnect(r)
        PROVE  SentInv'
    BY <1>2 DEF Disconnect, SentInv, Unfinished
  <1>3. ASSUME NEW r \in Requests, Dequeue(r)
        PROVE  SentInv'
    <2>1. \A q \in Encoded : where'[q] = IF where[q] = "queued" THEN "round" ELSE where[q]
      BY <1>3 DEF Dequeue, Encoded
    <2> QED
      BY <1>3, <2>1 DEF Dequeue, SentInv, Unfinished, tasks
  <1>4. ASSUME NEW r \in Requests, TypeWaits(r) \/ NoRoom(r)
        PROVE  SentInv'
    <2>1. /\ where[r] = "round" /\ where'[r] \in {"queued", "lost"}
          /\ \A q \in Requests \ {r} : where'[q] = where[q]
          /\ UNCHANGED <<seq_id, inputs, embeds, answer>>
      BY <1>0, <1>4 DEF TypeWaits, NoRoom, Goes, Walks, tasks
    <2> QED
      BY <2>1 DEF SentInv, Unfinished, Encoded
  <1>5. ASSUME NEW r \in Requests, PrefillCompletion(r) \/ EndCompletion(r)
        PROVE  SentInv'
    <2>1. /\ r \in Completions
          /\ \A q \in Requests \ {r} : where'[q] = where[q] /\ seq_id'[q] = seq_id[q] /\ answer'[q] = answer[q]
          /\ UNCHANGED <<inputs, embeds>>
      BY <1>0, <1>5 DEF PrefillCompletion, EndCompletion, Goes, tasks, TypeInv
    <2> QED
      BY <2>1 DEF SentInv, Unfinished, Encoded
  <1>6. ASSUME NEW r \in Requests, BatchInput(r)
        PROVE  SentInv'
    <2>1. Unfinished(r) /\ r \in Encoded
      BY <1>6 DEF BatchInput, Walks, Unfinished, Encoded
    <2>2. LoweredSequence(r) # -1
      BY <2>1, LoweredIs, SlotsFacts
    <2>3. /\ \A q \in Requests \ {r} : where'[q] = where[q] /\ seq_id'[q] = seq_id[q]
          /\ where[r] = "round" /\ where'[r] = "batch" /\ seq_id'[r] = LoweredSequence(r)
          /\ UNCHANGED <<inputs, embeds, answer>>
      BY <1>0, <1>6 DEF BatchInput, Goes, Walks, tasks
    <2> QED
      BY <2>2, <2>3 DEF SentInv, Unfinished, Encoded
  <1>7. ASSUME NEW r \in Requests, EmbeddingMissing(r) \/ NextRound(r) \/ Finish(r)
        PROVE  SentInv'
    <2> DEFINE e == IF EmbeddingMissing(r) THEN {} ELSE embd_seq[seq_id[r]]
    <2>1. /\ where[r] = "batch" /\ r \in Encoded /\ where'[r] \in {"lost", "queued", "destroyed"}
          /\ \A q \in Requests \ {r} : where'[q] = where[q]
          /\ embeds' = [embeds EXCEPT ![r] = Append(embeds[r], e)]
          /\ UNCHANGED <<seq_id, inputs>>
      BY <1>0, <1>7, Gathering
    <2> HIDE DEF e
    <2>2. Len(embeds'[r]) = Len(embeds[r]) + 1 /\ \A q \in Requests \ {r} : embeds'[q] = embeds[q]
      BY <2>1, Appended
    <2>3. where'[r] = "queued" => MoreInputs(r)
      BY <1>0, <1>7 DEF EmbeddingMissing, NextRound, Finish, Goes
    <2>4. \A q \in Requests \ {r} : answer'[q] = answer[q]
      BY <1>7 DEF EmbeddingMissing, NextRound, Finish, tasks, TypeInv
    <2>5. seq_id[r] # -1 /\ inputs[r] # <<>>
      BY <2>1 DEF SentInv
    <2> QED
      BY <2>1, <2>2, <2>3, <2>4, <2>5 DEF SentInv, Unfinished, MoreInputs, Encoded
  <1>8. CASE CloseBatch \/ Decodes
    BY <1>8 DEF CloseBatch, Decodes, SentInv, Unfinished, tasks
  <1>9. CASE DecodeFails
    <2>1. /\ \A q \in Encoded : /\ where'[q] = IF where[q] = "batch" THEN "destroyed" ELSE where[q]
                                /\ where[q] # "batch" => answer'[q] = answer[q]
          /\ UNCHANGED <<seq_id, inputs, embeds>>
      BY <1>9 DEF DecodeFails, At, Encoded
    <2> QED
      BY <2>1 DEF SentInv, Unfinished
  <1>10. CASE UNCHANGED vars
    BY <1>10 DEF vars, SentInv, Unfinished, tasks
  <1> QED
    BY <1>1, <1>2, <1>3, <1>4, <1>5, <1>6, <1>7, <1>8, <1>9, <1>10 DEF Next, reconcile

(* What is walked, and what is in the batch after a step.                  *)
LEMMA BatchStep ==
    ASSUME BatchesInv, [Next]_vars
    PROVE  BatchInv'
  <1> USE DEF BatchesInv
  <1>0. where \in [Requests -> Places]
    BY DEF TypeInv
  <1>1. ASSUME NEW r \in Requests,
               Submit(r) \/ TypeWaits(r) \/ PrefillCompletion(r) \/ EndCompletion(r) \/ NoRoom(r)
        PROVE  BatchInv'
    <2>1. PICK place \in {"queued", "lost", "destroyed"} :
              where' = [where EXCEPT ![r] = place] /\ where[r] # "batch" /\ UNCHANGED <<phase, batch_task_type>>
      BY <1>1 DEF Submit, TypeWaits, PrefillCompletion, EndCompletion, NoRoom, Goes, Walks
    <2>2. At("batch")' = At("batch")
      BY <1>0, <2>1 DEF At
    <2> QED
      BY <2>1, <2>2 DEF BatchInv, Encoded
  <1>2. ASSUME NEW r \in Requests, Disconnect(r)
        PROVE  BatchInv'
    BY <1>2 DEF Disconnect, BatchInv, At
  <1>3. ASSUME NEW r \in Requests, Dequeue(r)
        PROVE  BatchInv'
    <2>1. At("batch")' = At("batch")
      BY <1>3 DEF Dequeue, At
    <2> QED
      BY <1>3, <2>1 DEF Dequeue, BatchInv
  <1>4. ASSUME NEW r \in Requests, BatchInput(r)
        PROVE  BatchInv'
    <2>1. At("batch")' = At("batch") \cup {r}
      BY <1>0, <1>4 DEF BatchInput, At, Goes
    <2>2. batch_task_type' = "embeddings" /\ phase' = "batching" /\ r \in Encoded
      BY <1>4 DEF BatchInput, Walks, Kind, Encoded
    <2> QED
      BY <2>1, <2>2 DEF BatchInv
  <1>5. ASSUME NEW r \in Requests, EmbeddingMissing(r) \/ NextRound(r) \/ Finish(r)
        PROVE  BatchInv'
    <2>1. /\ phase = "collect"
          /\ where' = [where EXCEPT ![r] = where'[r]] /\ where'[r] \in {"lost", "queued", "destroyed"}
          /\ (At("batch") = {r} /\ phase' = "idle") \/ phase' = phase
      BY <1>5, Gathering
    <2>2. At("batch")' = At("batch") \ {r}
      BY <1>0, <2>1 DEF At
    <2> QED
      BY <2>1, <2>2 DEF BatchInv
  <1>6. CASE CloseBatch \/ Decodes
    <2>1. At("batch")' = At("batch")
      BY <1>6 DEF CloseBatch, Decodes, At
    <2> QED
      BY <1>6, <2>1 DEF CloseBatch, Decodes, BatchInv
  <1>7. CASE DecodeFails
    <2>1. At("batch")' = {}
      BY <1>7 DEF DecodeFails, At
    <2> QED
      BY <1>7, <2>1 DEF DecodeFails, BatchInv
  <1>8. CASE UNCHANGED vars
    BY <1>8 DEF vars, BatchInv, At
  <1> QED
    BY <1>1, <1>2, <1>3, <1>4, <1>5, <1>6, <1>7, <1>8 DEF Next, reconcile

LEMMA BatchesStep ==
    ASSUME BatchesInv, [Next]_vars
    PROVE  BatchesInv'
  BY TypeStep, SentStep, BatchStep DEF BatchesInv

-----------------------------------------------------------------------------
(***************************************************************************)
(* Embeddings and their inputs.                                            *)
(***************************************************************************)

LEMMA OrderStep ==
    ASSUME BatchesInv, OrderInv, [Next]_vars
    PROVE  OrderInv'
  <1>0. /\ where \in [Requests -> Places] /\ answer \in [Requests -> {"none", "ok", "error"}]
        /\ seq_id \in [Requests -> Slots \cup {-1}] /\ embeds \in [Requests -> Seq(SUBSET Source)]
    BY DEF BatchesInv, TypeInv
  <1>1. ASSUME NEW r \in Requests, Submit(r)
        PROVE  OrderInv'
    <2>1. /\ where[r] = "unsent" /\ where'[r] = "queued" /\ phase' = phase
          /\ \A q \in Requests \ {r} : where'[q] = where[q] /\ seq_id'[q] = seq_id[q] /\ inputs'[q] = inputs[q]
          /\ UNCHANGED <<embeds, answer, embd_seq>>
      BY <1>0, <1>1 DEF Submit, BatchesInv, TypeInv
    <2>2. r \in Encoded => answer[r] = "none" /\ DOMAIN embeds[r] = {}
      BY <2>1 DEF BatchesInv, SentInv
    <2> QED
      BY <2>1, <2>2 DEF OrderInv, OwnInputs, Unfinished, Encoded
  <1>2. ASSUME NEW r \in Requests, Disconnect(r)
        PROVE  OrderInv'
    BY <1>2 DEF Disconnect, OrderInv, OwnInputs, Unfinished
  <1>3. ASSUME NEW r \in Requests, Dequeue(r)
        PROVE  OrderInv'
    <2>1. \A q \in Encoded : where'[q] = IF where[q] = "queued" THEN "round" ELSE where[q]
      BY <1>3 DEF Dequeue, Encoded
    <2>2. phase' # "collect" /\ UNCHANGED <<seq_id, embeds, inputs, answer, embd_seq>>
      BY <1>3 DEF Dequeue, tasks
    <2> QED
      BY <2>1, <2>2 DEF OrderInv, OwnInputs, Unfinished
  <1>4. ASSUME NEW r \in Requests, TypeWaits(r) \/ NoRoom(r)
        PROVE  OrderInv'
    <2>1. /\ where[r] = "round" /\ where'[r] \in {"queued", "lost"} /\ phase' = phase
          /\ \A q \in Requests \ {r} : where'[q] = where[q]
          /\ UNCHANGED <<seq_id, inputs, embeds, answer, embd_seq>>
      BY <1>0, <1>4 DEF TypeWaits, NoRoom, Goes, Walks, tasks
    <2> QED
      BY <2>1 DEF OrderInv, OwnInputs, Unfinished, Encoded
  <1>5. ASSUME NEW r \in Requests, PrefillCompletion(r) \/ EndCompletion(r)
        PROVE  OrderInv'
    <2>1. /\ r \in Completions /\ phase' = phase
          /\ \A q \in Requests \ {r} : where'[q] = where[q] /\ seq_id'[q] = seq_id[q] /\ answer'[q] = answer[q]
          /\ UNCHANGED <<inputs, embeds, embd_seq>>
      BY <1>0, <1>5 DEF PrefillCompletion, EndCompletion, Goes, tasks
    <2> QED
      BY <2>1 DEF OrderInv, OwnInputs, Unfinished, Encoded
  <1>6. ASSUME NEW r \in Requests, BatchInput(r)
        PROVE  OrderInv'
    <2>1. /\ where[r] = "round" /\ where'[r] = "batch" /\ phase' # "collect"
          /\ \A q \in Requests \ {r} : where'[q] = where[q]
          /\ UNCHANGED <<inputs, embeds, answer>>
      BY <1>0, <1>6 DEF BatchInput, Goes, Walks, tasks
    <2> QED
      BY <2>1 DEF OrderInv, OwnInputs, Unfinished, Encoded
  <1>7. ASSUME NEW r \in Requests, EmbeddingMissing(r) \/ NextRound(r) \/ Finish(r)
        PROVE  OrderInv'
    <2> DEFINE e == IF EmbeddingMissing(r) THEN {} ELSE embd_seq[seq_id[r]]
    <2>1. /\ where[r] = "batch" /\ phase = "collect" /\ r \in Encoded
          /\ where'[r] \in {"lost", "queued", "destroyed"}
          /\ \A q \in Requests \ {r} : where'[q] = where[q]
          /\ embeds' = [embeds EXCEPT ![r] = Append(embeds[r], e)]
          /\ UNCHANGED <<seq_id, inputs>>
          /\ \/ At("batch") = {r} /\ phase' = "idle"
             \/ UNCHANGED <<phase, embd_seq>>
      BY <1>0, <1>7, Gathering
    <2>2. EmbeddingMissing(r) \/ e = embd_seq[seq_id[r]]
      OBVIOUS
    <2> HIDE DEF e
    <2>3. /\ Len(embeds'[r]) = Len(embeds[r]) + 1 /\ Len(embeds[r]) \in Nat
          /\ embeds'[r][Len(embeds[r]) + 1] = e
          /\ \A i \in DOMAIN embeds[r] : embeds'[r][i] = embeds[r][i]
          /\ DOMAIN embeds[r] = 1 .. Len(embeds[r]) /\ DOMAIN embeds'[r] = 1 .. Len(embeds[r]) + 1
          /\ \A q \in Requests \ {r} : embeds'[q] = embeds[q]
      BY <2>1, Appended
    <2>4. \/ where'[r] = "lost" /\ answer' = answer
          \/ /\ e = embd_seq[seq_id[r]]
             /\ \/ answer' = answer /\ where'[r] \in {"queued", "destroyed"}
                \/ ~MoreInputs(r) /\ answer' = [answer EXCEPT ![r] = "ok"] /\ where'[r] = "destroyed"
      BY <1>0, <1>7, <2>2 DEF EmbeddingMissing, NextRound, Finish, Goes, tasks
    <2>5. /\ OwnInputs(r) /\ answer[r] # "ok" /\ <<r, Len(embeds[r]) + 1>> \in embd_seq[seq_id[r]]
          /\ Len(embeds[r]) < Len(inputs[r]) /\ Len(inputs[r]) \in Nat
      BY <2>1 DEF OrderInv, BatchesInv, SentInv, TypeInv, Unfinished, Encoded
    <2>6. ASSUME e = embd_seq[seq_id[r]]
          PROVE  \A i \in DOMAIN embeds'[r] : <<r, i>> \in embeds'[r][i]
      BY <2>3, <2>5, <2>6 DEF OwnInputs
    <2>7. ASSUME ~MoreInputs(r)
          PROVE  Len(embeds'[r]) = Len(inputs'[r])
      BY <2>1, <2>3, <2>5, <2>7 DEF MoreInputs
    <2>8. ASSUME NEW q \in Encoded, q # r
          PROVE  /\ Unfinished(q)' => OwnInputs(q)' /\ answer'[q] # "ok"
                 /\ answer'[q] = "ok" =>
                        where'[q] = "destroyed" /\ Len(embeds'[q]) = Len(inputs'[q]) /\ OwnInputs(q)'
                 /\ phase' = "collect" /\ where'[q] = "batch" => <<q, Len(embeds'[q]) + 1>> \in embd_seq'[seq_id'[q]]
      <3>1. /\ q \in Requests /\ where'[q] = where[q] /\ embeds'[q] = embeds[q] /\ answer'[q] = answer[q]
            /\ inputs'[q] = inputs[q] /\ seq_id'[q] = seq_id[q]
        BY <1>0, <2>1, <2>3, <2>4, <2>8 DEF Encoded
      <3>2. phase' = "collect" => embd_seq' = embd_seq /\ phase = "collect"
        BY <2>1
      <3> QED
        BY <3>1, <3>2 DEF OrderInv, OwnInputs, Unfinished
    <2>9. /\ Unfinished(r)' => OwnInputs(r)' /\ answer'[r] # "ok"
          /\ answer'[r] = "ok" =>
                 where'[r] = "destroyed" /\ Len(embeds'[r]) = Len(inputs'[r]) /\ OwnInputs(r)'
          /\ phase' = "collect" /\ where'[r] = "batch" => <<r, Len(embeds'[r]) + 1>> \in embd_seq'[seq_id'[r]]
      BY <1>0, <2>1, <2>4, <2>5, <2>6, <2>7 DEF Unfinished, OwnInputs
    <2> QED
      BY <2>8, <2>9 DEF OrderInv
  <1>8. CASE CloseBatch
    BY <1>8 DEF CloseBatch, OrderInv, OwnInputs, Unfinished, tasks
  <1>9. CASE Decodes
    <2>1. UNCHANGED <<where, seq_id, inputs, embeds, answer>>
      BY <1>9 DEF Decodes, tasks
    <2>2. ASSUME NEW r \in Encoded, where[r] = "batch"
          PROVE  <<r, Len(embeds[r]) + 1>> \in embd_seq'[seq_id[r]]
      <3>1. r \in At("batch") /\ seq_id[r] \in Slots
        BY <2>2, InBatch DEF At, Encoded
      <3> QED
        BY <1>9, <3>1 DEF Decodes
    <2> QED
      BY <2>1, <2>2 DEF OrderInv, OwnInputs, Unfinished
  <1>10. CASE DecodeFails
    <2>1. /\ \A q \in Encoded : /\ where'[q] = IF where[q] = "batch" THEN "destroyed" ELSE where[q]
                                /\ answer'[q] = IF where[q] = "batch" THEN "error" ELSE answer[q]
          /\ phase' = "idle" /\ UNCHANGED <<seq_id, inputs, embeds>>
      BY <1>10 DEF DecodeFails, At, Encoded
    <2> QED
      BY <2>1 DEF OrderInv, OwnInputs, Unfinished
  <1>11. CASE UNCHANGED vars
    BY <1>11 DEF vars, OrderInv, OwnInputs, Unfinished, tasks
  <1> QED
    BY <1>1, <1>2, <1>3, <1>4, <1>5, <1>6, <1>7, <1>8, <1>9, <1>10, <1>11 DEF Next, reconcile

(***************************************************************************)
(* However many inputs the requests have, in whatever order their rounds   *)
(* are walked and whatever fails between them, an answer has the embedding *)
(* of each input in its place.                                             *)
(***************************************************************************)
THEOREM EachInItsPlace == Spec => []EmbedsInOrder
  <1>1. Init => EmbeddingInv
    <2>1. Init => OrderInv
      BY DEF Init, OrderInv, Unfinished, Encoded
    <2> QED
      BY <2>1, BatchesInit DEF EmbeddingInv
  <1>2. EmbeddingInv /\ [Next]_vars => EmbeddingInv'
    BY BatchesStep, OrderStep DEF EmbeddingInv
  <1>3. EmbeddingInv => EmbedsInOrder
    <2>1. Embeds \cup Reranks \subseteq Encoded
      BY EmbeddingsAssumption DEF Encoded, Requests
    <2> QED
      BY <2>1 DEF EmbeddingInv, OrderInv, OwnInputs, EmbedsInOrder
  <1>4. Spec => []EmbeddingInv
    BY <1>1, <1>2, PTL DEF Spec
  <1> QED
    BY <1>3, <1>4, PTL

-----------------------------------------------------------------------------
(***************************************************************************)
(* What a sequence holds when a batch is decoded.                          *)
(***************************************************************************)

(* With prompt caches the sequence of an input is cleaned as it joins.     *)
LEMMA CleanStep ==
    ASSUME CachePrompt, BatchesInv, CleanInv, [Next]_vars
    PROVE  CleanInv'
  <1>0. /\ where \in [Requests -> Places] /\ kv \in [Slots -> SUBSET Source]
        /\ seq_id \in [Requests -> Slots \cup {-1}]
    BY DEF BatchesInv, TypeInv
  <1>1. ASSUME NEW r \in Requests, Submit(r)
        PROVE  CleanInv'
    <2>1. /\ where[r] = "unsent" /\ where'[r] = "queued" /\ UNCHANGED <<phase, kv>>
          /\ \A q \in Requests \ {r} : where'[q] = where[q] /\ seq_id'[q] = seq_id[q]
      BY <1>0, <1>1 DEF Submit
    <2> QED
      BY <2>1 DEF CleanInv, At
  <1>2. ASSUME NEW r \in Requests, Disconnect(r)
        PROVE  CleanInv'
    BY <1>2 DEF Disconnect, CleanInv, At
  <1>3. ASSUME NEW r \in Requests, Dequeue(r)
        PROVE  CleanInv'
    <2>1. phase = "idle" /\ At("batch")' = At("batch")
      BY <1>3 DEF Dequeue, At
    <2> QED
      BY <2>1 DEF CleanInv, BatchesInv, BatchInv
  <1>4. ASSUME NEW r \in Requests, TypeWaits(r) \/ NoRoom(r) \/ EndCompletion(r)
        PROVE  CleanInv'
    <2>1. /\ where[r] = "round" /\ where'[r] \in {"queued", "lost", "destroyed"}
          /\ \A q \in Requests \ {r} : where'[q] = where[q]
          /\ UNCHANGED <<phase, kv, seq_id>>
      BY <1>0, <1>4 DEF TypeWaits, NoRoom, EndCompletion, Goes, Walks
    <2> QED
      BY <2>1 DEF CleanInv, At
  <1>5. ASSUME NEW r \in Requests, PrefillCompletion(r)
        PROVE  CleanInv'
    <2>1. At("batch") = {}
      BY <1>5 DEF PrefillCompletion, Walks, Kind, BatchesInv, BatchInv
    <2>2. At("batch")' = {}
      BY <1>0, <1>5, <2>1 DEF PrefillCompletion, Goes, At
    <2> QED
      BY <2>2 DEF CleanInv
  <1>6. ASSUME NEW r \in Requests, BatchInput(r)
        PROVE  CleanInv'
    <2> DEFINE s == LoweredSequence(r)
    <2>1. phase = "batching" /\ where' = [where EXCEPT ![r] = "batch"] /\ seq_id' = [seq_id EXCEPT ![r] = s]
      BY <1>6 DEF BatchInput, Walks, Goes
    <2>2. kv' = [kv EXCEPT ![s] = {}]
      BY <1>6 DEF BatchInput, CleanCache
    <2> HIDE DEF s
    <2>3. ASSUME NEW q \in Requests, where'[q] = "batch"
          PROVE  kv'[seq_id'[q]] = {}
      <3>1. CASE q = r
        <4>1. seq_id'[q] = s
          BY <1>0, <2>1, <3>1
        <4>2. s \in Slots
          <5>1. Unfinished(r) /\ r \in Encoded
            BY <1>6 DEF BatchInput, Walks, Unfinished, Encoded
          <5> QED
            BY <5>1, LoweredIs DEF BatchesInv, s
        <4> QED
          BY <1>0, <2>2, <4>1, <4>2
      <3>2. CASE q # r
        <4>1. where[q] = "batch" /\ seq_id'[q] = seq_id[q]
          BY <1>0, <2>1, <2>3, <3>2
        <4>2. kv[seq_id[q]] = {} /\ seq_id[q] \in Slots
          BY <2>1, <4>1, InBatch DEF CleanInv, At
        <4> QED
          BY <1>0, <2>2, <4>1, <4>2
      <3> QED
        BY <3>1, <3>2
    <2> QED
      BY <2>3 DEF CleanInv, At
  <1>7. ASSUME NEW r \in Requests, EmbeddingMissing(r) \/ NextRound(r) \/ Finish(r)
        PROVE  CleanInv'
    <2>1. phase' \in {"idle", "collect"}
      BY <1>7, Gathering
    <2> QED
      BY <2>1 DEF CleanInv
  <1>8. CASE CloseBatch
    <2>1. phase = "batching" /\ UNCHANGED <<where, seq_id, kv>>
      BY <1>8 DEF CloseBatch
    <2> QED
      BY <2>1 DEF CleanInv, At
  <1>9. CASE Decodes \/ DecodeFails
    BY <1>9 DEF Decodes, DecodeFails, CleanInv
  <1>10. CASE UNCHANGED vars
    BY <1>10 DEF vars, CleanInv, At
  <1> QED
    BY <1>1, <1>2, <1>3, <1>4, <1>5, <1>6, <1>7, <1>8, <1>9, <1>10 DEF Next, reconcile

(* Without them, and without completions, what a batch leaves behind is    *)
(* cleaned with its last task.                                             *)
LEMMA EmptyStep ==
    ASSUME Completions = {}, ~CanShift \/ ~MayMiss, BatchesInv, EmptyInv, [Next]_vars
    PROVE  EmptyInv'
  <1>0. /\ where \in [Requests -> Places] /\ kv \in [Slots -> SUBSET Source]
        /\ seq_id \in [Requests -> Slots \cup {-1}]
    BY DEF BatchesInv, TypeInv
  <1>1. ASSUME NEW r \in Requests, Submit(r)
        PROVE  EmptyInv'
    <2>1. /\ where[r] = "unsent" /\ where'[r] = "queued" /\ UNCHANGED <<phase, kv>>
          /\ \A q \in Requests \ {r} : where'[q] = where[q] /\ seq_id'[q] = seq_id[q]
      BY <1>0, <1>1 DEF Submit
    <2> QED
      BY <2>1 DEF EmptyInv, At
  <1>2. ASSUME NEW r \in Requests, Disconnect(r)
        PROVE  EmptyInv'
    BY <1>2 DEF Disconnect, EmptyInv, At
  <1>3. ASSUME NEW r \in Requests, Dequeue(r)
        PROVE  EmptyInv'
    BY <1>3 DEF Dequeue, EmptyInv
  <1>4. ASSUME NEW r \in Requests, TypeWaits(r) \/ NoRoom(r)
        PROVE  EmptyInv'
    BY <1>4 DEF TypeWaits, NoRoom, Walks, EmptyInv
  <1>5. ASSUME NEW r \in Requests, BatchInput(r)
        PROVE  EmptyInv'
    <2>1. phase = "batching" /\ phase' = phase
      BY <1>5 DEF BatchInput, Walks
    <2>2. kv' = [kv EXCEPT ![LoweredSequence(r)] = {}] \/ kv' = kv
      BY <1>5 DEF BatchInput, CleanCache
    <2>3. \A s \in Slots : kv[s] = {}
      BY <2>1 DEF EmptyInv
    <2> QED
      BY <1>0, <2>2, <2>3 DEF EmptyInv
  <1>6. ASSUME NEW r \in Requests, EmbeddingMissing(r)
        PROVE  EmptyInv'
    <2>1. ~CanShift /\ kv' = kv
      BY <1>6 DEF EmbeddingMissing
    <2> QED
      BY <2>1 DEF EmptyInv
  <1>7. ASSUME NEW r \in Requests, NextRound(r) \/ Finish(r)
        PROVE  EmptyInv'
    <2>1. /\ where[r] = "batch" /\ phase = "collect"
          /\ where' = [where EXCEPT ![r] = where'[r]]
          /\ seq_id' = seq_id
          /\ \/ At("batch") = {r} /\ phase' = "idle"
             \/ phase' = phase
      BY <1>7, Gathering
    <2>2. kv' = IF CanShift THEN [kv EXCEPT ![seq_id[r]] = {}] ELSE kv
      BY <1>7 DEF NextRound, Finish, Gathers
    <2>3. CASE ~CanShift
      BY <2>2, <2>3 DEF EmptyInv
    <2>4. ASSUME CanShift, NEW s \in Slots, kv'[s] # {}
          PROVE  phase' = "collect" /\ \E q \in At("batch")' : seq_id'[q] = s
      <3>1. kv[s] # {} /\ s # seq_id[r]
        BY <1>0, <2>2, <2>4
      <3>2. PICK q \in At("batch") : seq_id[q] = s
        BY <3>1 DEF EmptyInv
      <3>3. q # r
        BY <3>1, <3>2
      <3>4. q \in At("batch")' /\ phase' = phase
        BY <1>0, <2>1, <3>2, <3>3 DEF At
      <3> QED
        BY <2>1, <3>2, <3>4
    <2> QED
      BY <2>3, <2>4 DEF EmptyInv
  <1>8. CASE CloseBatch
    BY <1>8 DEF CloseBatch, EmptyInv
  <1>9. CASE Decodes
    <2>1. \A s \in Slots : kv[s] = {}
      BY <1>9 DEF Decodes, EmptyInv
    <2>2. CASE ~CanShift
      BY <1>9, <2>1, <2>2 DEF Decodes, EmptyInv
    <2>3. ASSUME CanShift, NEW s \in Slots, kv'[s] # {}
          PROVE  \E q \in At("batch")' : seq_id'[q] = s
      <3>1. kv'[s] = kv[s] \cup {<<q, Len(embeds[q]) + 1>> : q \in {q \in At("batch") : seq_id[q] = s}}
        BY <1>9, <2>3 DEF Decodes
      <3>2. PICK q \in At("batch") : seq_id[q] = s
        BY <2>1, <2>3, <3>1
      <3> QED
        BY <1>9, <3>2 DEF Decodes, At
    <2> QED
      BY <1>9, <2>2, <2>3 DEF Decodes, EmptyInv
  <1>10. CASE DecodeFails
    BY <1>10 DEF DecodeFails, EmptyInv
  <1>11. CASE UNCHANGED vars
    BY <1>11 DEF vars, EmptyInv, At
  <1> QED
    BY <1>1, <1>2, <1>3, <1>4, <1>5, <1>6, <1>7, <1>8, <1>9, <1>10, <1>11
       DEF Next, reconcile, PrefillCompletion, EndCompletion

(* A step leaves what was sent with its thread, in no higher sequence.     *)
LEMMA StaysSent ==
    ASSUME BatchesInv, [Next]_vars, NEW q \in Requests, ~Submit(q)
    PROVE  /\ tid'[q] = tid[q]
           /\ where'[q] = "unsent" <=> where[q] = "unsent"
           /\ answer'[q] = "none" => answer[q] = "none"
           /\ q \in Encoded => seq_id'[q] = seq_id[q] \/ (where[q] # "unsent" /\ seq_id'[q] <= seq_id[q])
           /\ q \in Encoded /\ Unfinished(q)' => Unfinished(q) /\ answer'[q] = answer[q]
  <1>0. /\ where \in [Requests -> Places] /\ tid \in [Requests -> Slots]
        /\ seq_id \in [Requests -> Slots \cup {-1}] /\ answer \in [Requests -> {"none", "ok", "error"}]
    BY DEF BatchesInv, TypeInv
  <1>1. ASSUME NEW r \in Requests, Submit(r)
        PROVE  UNCHANGED <<where[q], tid[q], seq_id[q], answer>>
    <2>1. q # r
      BY <1>1
    <2> QED
      BY <1>0, <1>1, <2>1 DEF Submit
  <1>2. ASSUME NEW r \in Requests, Dequeue(r)
        PROVE  /\ UNCHANGED <<tid, seq_id, answer>>
               /\ where'[q] = IF where[q] = "queued" THEN "round" ELSE where[q]
    BY <1>2 DEF Dequeue, tasks
  <1>3. ASSUME NEW r \in Requests, TypeWaits(r) \/ NoRoom(r)
        PROVE  /\ UNCHANGED <<tid, seq_id, answer>>
               /\ where[r] = "round" /\ where'[r] # "unsent" /\ (q # r => where'[q] = where[q])
    BY <1>0, <1>3 DEF TypeWaits, NoRoom, Goes, Walks, tasks
  <1>4. ASSUME NEW r \in Requests, PrefillCompletion(r) \/ EndCompletion(r)
        PROVE  /\ tid' = tid /\ r \notin Encoded /\ where[r] = "round" /\ where'[r] # "unsent"
               /\ answer'[r] = "none" => answer[r] = "none"
               /\ q # r => UNCHANGED <<where[q], seq_id[q], answer[q]>>
    BY <1>0, <1>4 DEF PrefillCompletion, EndCompletion, Goes, Walks, tasks, Encoded
  <1>5. ASSUME NEW r \in Requests, BatchInput(r)
        PROVE  /\ UNCHANGED <<tid, answer>> /\ where[r] = "round" /\ where'[r] = "batch"
               /\ q # r => UNCHANGED <<where[q], seq_id[q]>>
               /\ seq_id'[r] <= seq_id[r]
    <2>1. Unfinished(r) /\ r \in Encoded
      BY <1>5 DEF BatchInput, Walks, Unfinished, Encoded
    <2>2. LoweredSequence(r) <= seq_id[r]
      BY <2>1, LoweredIs DEF BatchesInv
    <2> QED
      BY <1>0, <1>5, <2>2 DEF BatchInput, Goes, Walks, tasks
  <1>6. ASSUME NEW r \in Requests, EmbeddingMissing(r) \/ NextRound(r) \/ Finish(r)
        PROVE  /\ UNCHANGED <<tid, seq_id>> /\ where[r] = "batch" /\ where'[r] # "unsent"
               /\ answer' = answer \/ (where'[r] = "destroyed" /\ answer' = [answer EXCEPT ![r] = "ok"])
               /\ q # r => where'[q] = where[q]
    <2>1. /\ where[r] = "batch" /\ seq_id' = seq_id
          /\ where' = [where EXCEPT ![r] = where'[r]] /\ where'[r] \in {"lost", "queued", "destroyed"}
      BY <1>6, Gathering
    <2>2. q # r => where'[q] = where[q]
      BY <1>0, <2>1
    <2> QED
      BY <1>0, <1>6, <2>1, <2>2 DEF EmbeddingMissing, NextRound, Finish, Goes, tasks
  <1>7. CASE CloseBatch \/ Decodes \/ (\E r \in Requests : Disconnect(r)) \/ UNCHANGED vars
    <2>1. UNCHANGED <<where, tid, seq_id, answer>>
      BY <1>7 DEF CloseBatch, Decodes, Disconnect, vars, tasks
    <2> QED
      BY <2>1 DEF Unfinished
  <1>8. CASE DecodeFails
    <2>1. /\ UNCHANGED <<tid, seq_id>>
          /\ where'[q] = IF where[q] = "batch" THEN "destroyed" ELSE where[q]
          /\ answer'[q] = IF where[q] = "batch" THEN "error" ELSE answer[q]
      BY <1>8 DEF DecodeFails, At
    <2> QED
      BY <2>1 DEF Unfinished
  <1>9. CASE \E r \in Requests : Submit(r) \/ Dequeue(r) \/ TypeWaits(r) \/ NoRoom(r)
    BY <1>1, <1>2, <1>3, <1>9 DEF Unfinished
  <1>10. CASE \E r \in Requests : PrefillCompletion(r) \/ EndCompletion(r)
    BY <1>4, <1>10 DEF Unfinished
  <1>11. CASE \E r \in Requests : BatchInput(r)
    BY <1>5, <1>11 DEF Unfinished
  <1>12. CASE \E r \in Requests : EmbeddingMissing(r) \/ NextRound(r) \/ Finish(r)
    BY <1>0, <1>6, <1>12 DEF Unfinished
  <1> QED
    BY <1>7, <1>8, <1>9, <1>10, <1>11, <1>12 DEF Next, reconcile

LEMMA WaitStep ==
    ASSUME BatchesInv, WaitInv, [Next]_vars
    PROVE  WaitInv'
  <1>0. /\ where \in [Requests -> Places] /\ tid \in [Requests -> Slots]
        /\ seq_id \in [Requests -> Slots \cup {-1}] /\ \A s \in Slots : s \in Nat
    BY SlotsFacts DEF BatchesInv, TypeInv
  <1>1. ASSUME NEW q \in Requests, ~Submit(q), Waits(q)'
        PROVE  Waits(q) /\ tid'[q] = tid[q]
    BY <1>1, StaysSent DEF Waits
  <1>2. ASSUME NEW q \in Encoded, ~Submit(q)
        PROVE  /\ Unfinished(q)' => answer'[q] = "none"
               /\ where'[q] # "unsent" => seq_id'[q] <= tid'[q]
    <2>1. q \in Requests /\ seq_id[q] \in Int /\ tid[q] \in Int
      BY <1>0 DEF Encoded
    <2>2. /\ tid'[q] = tid[q]
          /\ where'[q] = "unsent" <=> where[q] = "unsent"
          /\ seq_id'[q] = seq_id[q] \/ seq_id'[q] <= seq_id[q]
          /\ Unfinished(q)' => Unfinished(q) /\ answer'[q] = answer[q]
      BY <1>2, <2>1, StaysSent
    <2>3. seq_id'[q] \in Int
      BY <1>0, <2>1, TypeStep DEF TypeInv
    <2> QED
      BY <2>1, <2>2, <2>3 DEF WaitInv
  <1>3. ASSUME NEW r \in Requests, Submit(r)
        PROVE  WaitInv'
    <2>1. PICK h \in FreeThreads : /\ tid' = [tid EXCEPT ![r] = h]
              /\ seq_id' = [seq_id EXCEPT ![r] = IF r \in Completions THEN -1 ELSE h]
      BY <1>3 DEF Submit
    <2>2. /\ where[r] = "unsent" /\ answer' = answer
          /\ tid'[r] = h /\ h \in Nat /\ (r \in Encoded => seq_id'[r] = h)
          /\ \A q \in Requests \ {r} : Waits(q) => tid[q] # h
      BY <1>0, <1>3, <2>1 DEF Submit, FreeThreads, Encoded
    <2>3. \A q \in Requests \ {r} : ~Submit(q)
      <3>1. \A q \in Requests \ {r} : where'[q] = where[q]
        BY <1>0, <1>3 DEF Submit
      <3>2. \A q \in Requests : Submit(q) => where[q] = "unsent" /\ where'[q] = "queued"
        BY <1>0 DEF Submit
      <3> QED
        BY <3>1, <3>2
    <2>4. r \in Encoded => answer'[r] = "none"
      BY <2>2 DEF BatchesInv, SentInv
    <2>5. \A q \in Encoded : /\ Unfinished(q)' => answer'[q] = "none"
                             /\ where'[q] # "unsent" => seq_id'[q] <= tid'[q]
      BY <1>2, <2>2, <2>3, <2>4 DEF Encoded
    <2>6. ASSUME NEW q \in Requests, NEW g \in Requests, q # g, Waits(q)', Waits(g)'
          PROVE  tid'[q] # tid'[g]
      <3>1. CASE q # r /\ g # r
        BY <1>1, <2>3, <2>6, <3>1 DEF WaitInv
      <3>2. CASE q = r
        <4>1. Waits(g) /\ tid'[g] = tid[g] /\ g # r
          BY <1>1, <2>3, <2>6, <3>2
        <4> QED
          BY <2>2, <3>2, <4>1
      <3>3. CASE g = r
        <4>1. Waits(q) /\ tid'[q] = tid[q] /\ q # r
          BY <1>1, <2>3, <2>6, <3>3
        <4> QED
          BY <2>2, <3>3, <4>1
      <3> QED
        BY <3>1, <3>2, <3>3
    <2> QED
      BY <2>5, <2>6 DEF WaitInv, Waits
  <1>4. CASE \A r \in Requests : ~Submit(r)
    <2>1. \A q \in Encoded : /\ Unfinished(q)' => answer'[q] = "none"
                             /\ where'[q] # "unsent" => seq_id'[q] <= tid'[q]
      BY <1>2, <1>4 DEF Encoded
    <2>2. \A q, r \in Requests : q # r /\ Waits(q)' /\ Waits(r)' => tid'[q] # tid'[r]
      BY <1>1, <1>4 DEF WaitInv
    <2> QED
      BY <2>1, <2>2 DEF WaitInv, Waits
  <1> QED
    BY <1>3, <1>4

(* A lowered sequence stays so, and what an embedding was computed from.   *)
LEMMA TasksGrow ==
    ASSUME BatchesInv, WaitInv, [Next]_vars
    PROVE  SentTasks \subseteq SentTasks' /\ LoweredTasks \subseteq LoweredTasks'
  <1>1. ASSUME NEW q \in Encoded, where[q] # "unsent"
        PROVE  where'[q] # "unsent" /\ (Lowered(q) => Lowered(q)')
    <2>1. ~Submit(q) /\ q \in Requests
      BY <1>1 DEF Submit, Encoded
    <2>2. /\ tid'[q] = tid[q]
          /\ where'[q] # "unsent"
          /\ seq_id'[q] = seq_id[q] \/ seq_id'[q] <= seq_id[q]
      BY <1>1, <2>1, StaysSent
    <2>3. /\ tid[q] \in Int /\ seq_id[q] \in Int /\ seq_id[q] <= tid[q]
      BY <1>1, <2>1, SlotsFacts DEF BatchesInv, TypeInv, WaitInv
    <2>4. seq_id'[q] \in Int
      <3>1. seq_id'[q] \in Slots \cup {-1}
        BY <2>1, TypeStep DEF TypeInv
      <3> QED
        BY <3>1, SlotsFacts
    <2> QED
      BY <2>2, <2>3, <2>4 DEF Lowered
  <1> QED
    BY <1>1 DEF SentTasks, LoweredTasks

LEMMA OwnGrows ==
    ASSUME NEW r, NEW i, NEW x, NEW sent, NEW lowered, NEW moreSent, NEW moreLowered,
           sent \subseteq moreSent, lowered \subseteq moreLowered, Own(r, i, x, sent, lowered)
    PROVE  Own(r, i, x, moreSent, moreLowered)
  BY DEF Own

LEMMA OwnKept ==
    ASSUME BatchesInv, WaitInv, [Next]_vars, NEW r, NEW i, NEW x, Own(r, i, x, SentTasks, LoweredTasks)
    PROVE  Own(r, i, x, SentTasks', LoweredTasks')
  BY TasksGrow, OwnGrows

LEMMA SourceStep ==
    ASSUME BatchesInv, WaitInv, CleanInv, SourceInv, [Next]_vars
    PROVE  SourceInv'
  <1>0. /\ where \in [Requests -> Places] /\ embeds \in [Requests -> Seq(SUBSET Source)]
        /\ seq_id \in [Requests -> Slots \cup {-1}] /\ tid \in [Requests -> Slots]
    BY DEF BatchesInv, TypeInv
  <1>1. \A r \in Encoded : embeds[r] # <<>> => where[r] # "unsent"
    BY DEF BatchesInv, SentInv
  <1>2. ASSUME NEW r \in Encoded, embeds'[r] = embeds[r]
        PROVE  \A i \in DOMAIN embeds'[r] : \A x \in embeds'[r][i] : Own(r, i, x, SentTasks', LoweredTasks')
    <2> SUFFICES ASSUME NEW i \in DOMAIN embeds[r], NEW x \in embeds[r][i]
                 PROVE  Own(r, i, x, SentTasks', LoweredTasks')
      BY <1>2
    <2>1. Own(r, i, x, SentTasks, LoweredTasks) /\ embeds[r] # <<>>
      BY DEF SourceInv
    <2> QED
      BY <1>1, <2>1, OwnKept
  <1>3. ASSUME NEW r \in Requests, EmbeddingMissing(r) \/ NextRound(r) \/ Finish(r)
        PROVE  SourceInv'
    <2> DEFINE e == IF EmbeddingMissing(r) THEN {} ELSE embd_seq[seq_id[r]]
    <2>1. /\ where[r] = "batch" /\ phase = "collect" /\ r \in Encoded
          /\ where' = [where EXCEPT ![r] = where'[r]] /\ where'[r] \in {"lost", "queued", "destroyed"}
          /\ embeds' = [embeds EXCEPT ![r] = Append(embeds[r], e)]
          /\ seq_id' = seq_id
          /\ \/ At("batch") = {r} /\ phase' = "idle"
             \/ UNCHANGED <<phase, embd_seq>>
      BY <1>3, Gathering
    <2>2. \A x \in e : Own(r, Len(embeds[r]) + 1, x, SentTasks, LoweredTasks)
      BY <2>1 DEF SourceInv, At
    <2> HIDE DEF e
    <2>3. /\ embeds'[r][Len(embeds[r]) + 1] = e
          /\ \A i \in DOMAIN embeds[r] : embeds'[r][i] = embeds[r][i]
          /\ DOMAIN embeds[r] = 1 .. Len(embeds[r]) /\ DOMAIN embeds'[r] = 1 .. Len(embeds[r]) + 1
          /\ Len(embeds[r]) \in Nat
          /\ \A q \in Requests \ {r} : embeds'[q] = embeds[q]
      BY <2>1, Appended
    <2>4. ASSUME NEW q \in Encoded, NEW i \in DOMAIN embeds'[q], NEW x \in embeds'[q][i]
          PROVE  Own(q, i, x, SentTasks', LoweredTasks')
      <3>1. CASE q # r
        <4>1. embeds'[q] = embeds[q]
          BY <2>3, <3>1 DEF Encoded
        <4> QED
          BY <1>2, <2>4, <4>1
      <3>2. CASE q = r
        <4>1. Own(r, i, x, SentTasks, LoweredTasks)
          <5>1. CASE i = Len(embeds[r]) + 1
            BY <2>2, <2>3, <2>4, <3>2, <5>1
          <5>2. CASE i \in DOMAIN embeds[r]
            BY <2>1, <2>3, <2>4, <3>2, <5>2 DEF SourceInv
          <5>3. i = Len(embeds[r]) + 1 \/ i \in DOMAIN embeds[r]
            BY <2>3, <2>4, <3>2
          <5> QED
            BY <5>1, <5>2, <5>3
        <4> QED
          BY <2>1, <3>2, <4>1, OwnKept
      <3> QED
        BY <3>1, <3>2
    <2>5. ASSUME phase' = "collect", NEW q \in At("batch")', NEW x \in embd_seq'[seq_id'[q]]
          PROVE  Own(q, Len(embeds'[q]) + 1, x, SentTasks', LoweredTasks')
      <3>1. q \in At("batch") /\ q # r /\ q \in Requests /\ q \in Encoded /\ where[q] # "unsent"
        BY <1>0, <2>1, <2>5 DEF At, BatchesInv, BatchInv
      <3>2. embd_seq' = embd_seq /\ embeds'[q] = embeds[q]
        BY <2>1, <2>3, <2>5, <3>1
      <3>3. Own(q, Len(embeds[q]) + 1, x, SentTasks, LoweredTasks)
        BY <2>1, <2>5, <3>1, <3>2 DEF SourceInv
      <3>4. Own(q, Len(embeds[q]) + 1, x, SentTasks', LoweredTasks')
        BY <3>3, OwnKept
      <3> QED
        BY <3>2, <3>4
    <2> QED
      BY <2>4, <2>5 DEF SourceInv
  <1>4. CASE Decodes
    <2>1. UNCHANGED <<where, seq_id, tid, embeds>> /\ phase = "decode"
      BY <1>4 DEF Decodes, tasks
    <2>2. ASSUME NEW r \in At("batch")', NEW x \in embd_seq'[seq_id'[r]]
          PROVE  Own(r, Len(embeds'[r]) + 1, x, SentTasks', LoweredTasks')
      <3>1. r \in At("batch") /\ r \in Encoded /\ r \in Requests /\ seq_id[r] \in Slots
        BY <2>1, <2>2, InBatch DEF At
      <3>2. kv[seq_id[r]] = {}
        BY <2>1, <3>1 DEF CleanInv
      <3>3. PICK q \in At("batch") : seq_id[q] = seq_id[r] /\ x = <<q, Len(embeds[q]) + 1>>
        BY <1>4, <2>1, <2>2, <3>1, <3>2 DEF Decodes
      <3>7. SentTasks' = SentTasks /\ LoweredTasks' = LoweredTasks
        BY <2>1 DEF SentTasks, LoweredTasks, Lowered
      <3>4. q \in Encoded /\ q \in Requests /\ Unfinished(q) /\ Unfinished(r) /\ where[q] # "unsent"
        BY <3>1, <3>3, InBatch DEF At
      <3>5. CASE q = r
        BY <2>1, <3>3, <3>5 DEF Own
      <3>6. CASE q # r
        <4>1. tid[q] # tid[r]
          BY <3>1, <3>4, <3>6 DEF WaitInv, Waits, Unfinished
        <4>2. Lowered(r) \/ Lowered(q)
          BY <3>3, <4>1 DEF Lowered
        <4>3. x[1] = q
          BY <3>3
        <4> QED
          BY <3>1, <3>4, <3>6, <3>7, <4>2, <4>3 DEF Own, SentTasks, LoweredTasks, Unfinished
      <3> QED
        BY <3>5, <3>6
    <2>3. \A r \in Encoded : \A i \in DOMAIN embeds'[r] : \A x \in embeds'[r][i] : Own(r, i, x, SentTasks', LoweredTasks')
      BY <1>2, <2>1
    <2> QED
      BY <2>2, <2>3 DEF SourceInv
  <1>5. CASE embeds' = embeds /\ phase' # "collect"
    BY <1>2, <1>5 DEF SourceInv
  <1>6. CASE /\ embeds' = embeds /\ UNCHANGED <<phase, embd_seq>>
             /\ \A r \in At("batch")' : r \in At("batch") /\ seq_id'[r] = seq_id[r]
    <2>1. \A r \in Encoded : \A i \in DOMAIN embeds'[r] : \A x \in embeds'[r][i] : Own(r, i, x, SentTasks', LoweredTasks')
      BY <1>2, <1>6
    <2>2. ASSUME phase' = "collect", NEW r \in At("batch")', NEW x \in embd_seq'[seq_id'[r]]
          PROVE  Own(r, Len(embeds'[r]) + 1, x, SentTasks', LoweredTasks')
      <3>1. r \in At("batch") /\ r \in Encoded /\ where[r] # "unsent"
        BY <1>6, <2>2 DEF At, BatchesInv, BatchInv
      <3>2. Own(r, Len(embeds[r]) + 1, x, SentTasks, LoweredTasks)
        BY <1>6, <2>2, <3>1 DEF SourceInv
      <3>3. Own(r, Len(embeds[r]) + 1, x, SentTasks', LoweredTasks')
        BY <3>2, OwnKept
      <3> QED
        BY <1>6, <3>3
    <2> QED
      BY <2>1, <2>2 DEF SourceInv
  <1>7. ASSUME NEW r \in Requests, Submit(r)
        PROVE  /\ embeds' = embeds /\ UNCHANGED <<phase, embd_seq>>
               /\ \A q \in At("batch")' : q \in At("batch") /\ seq_id'[q] = seq_id[q]
    BY <1>0, <1>7 DEF Submit, At
  <1>8. (\E r \in Requests : Disconnect(r)) \/ UNCHANGED vars =>
            /\ embeds' = embeds /\ UNCHANGED <<phase, embd_seq>>
            /\ \A q \in At("batch")' : q \in At("batch") /\ seq_id'[q] = seq_id[q]
    BY DEF Disconnect, vars, At
  <1>9. ASSUME NEW r \in Requests,
               Dequeue(r) \/ TypeWaits(r) \/ PrefillCompletion(r) \/ EndCompletion(r) \/ NoRoom(r) \/ BatchInput(r)
        PROVE  embeds' = embeds /\ phase' # "collect"
    BY <1>9 DEF Dequeue, TypeWaits, PrefillCompletion, EndCompletion, NoRoom, BatchInput, Walks
  <1>10. CloseBatch \/ DecodeFails => embeds' = embeds /\ phase' # "collect"
    BY DEF CloseBatch, DecodeFails
  <1> QED
    BY <1>3, <1>4, <1>5, <1>6, <1>7, <1>8, <1>9, <1>10 DEF Next, reconcile

(***************************************************************************)
(* With prompt caches, an embedding is computed from its own input alone,  *)
(* whatever waits, runs or fails beside it, unless it was decoded together *)
(* with the input of a task whose sequence was lowered to the same, or its *)
(* own was.  Without prompt caches this needs that no completions are      *)
(* served, and that the model either keeps no KV or misses no embedding.   *)
(***************************************************************************)
THEOREM NothingLeaks ==
    ASSUME CachePrompt \/ (Completions = {} /\ (~CanShift \/ ~MayMiss))
    PROVE  Spec => []SequencesClean
  <1> DEFINE Leaks == WaitInv /\ SourceInv
  <1>1. BatchesInv /\ CleanInv /\ SourceInv => SequencesClean
    <2> SUFFICES ASSUME BatchesInv, CleanInv, SourceInv PROVE SequencesClean
      OBVIOUS
    <2>1. batch_tokens <= SlotCtx
      BY EmbeddingsAssumption DEF BatchesInv, TypeInv
    <2>2. Embeds \cup Reranks = Encoded
      BY EmbeddingsAssumption DEF Encoded, Requests
    <2>3. \A r \in Embeds \cup Reranks : \A i \in DOMAIN embeds[r] : \A x \in embeds[r][i] :
              x = <<r, i>> \/ (x[1] \in (Embeds \cup Reranks) \ {r} /\ (Lowered(r) \/ Lowered(x[1])))
      BY <2>2 DEF SourceInv, Own, SentTasks, LoweredTasks
    <2> QED
      BY <2>1, <2>3 DEF CleanInv, SequencesClean
  <1>2. Init => BatchesInv /\ CleanInv /\ EmptyInv /\ Leaks
    <2>1. Init => WaitInv
      <3> SUFFICES ASSUME Init PROVE WaitInv
        OBVIOUS
      <3>1. \A r \in Requests : where[r] = "unsent"
        BY DEF Init
      <3>2. \A r \in Encoded : where[r] = "unsent"
        BY <3>1 DEF Encoded
      <3> QED
        BY <3>1, <3>2 DEF WaitInv, Unfinished, Waits
    <2>2. Init => SourceInv
      BY DEF Init, SourceInv, Encoded
    <2> QED
      BY <2>1, <2>2, BatchesInit DEF Init, CleanInv, EmptyInv
  <1>3. BatchesInv /\ CleanInv /\ Leaks /\ [Next]_vars => Leaks'
    BY WaitStep, SourceStep
  <1> HIDE DEF Leaks
  <1>4. BatchesInv /\ CleanInv /\ Leaks => SequencesClean
    BY <1>1 DEF Leaks
  <1>5. CASE CachePrompt
    <2>1. BatchesInv /\ CleanInv /\ Leaks /\ [Next]_vars => (BatchesInv /\ CleanInv /\ Leaks)'
      BY <1>3, <1>5, BatchesStep, CleanStep
    <2>2. Spec => [](BatchesInv /\ CleanInv /\ Leaks)
      BY <1>2, <2>1, PTL DEF Spec
    <2> QED
      BY <1>4, <2>2, PTL
  <1>6. CASE Completions = {} /\ (~CanShift \/ ~MayMiss)
    <2>2. BatchesInv /\ EmptyInv => CleanInv
      BY InBatch DEF EmptyInv, CleanInv, At
    <2>1. BatchesInv /\ EmptyInv /\ Leaks /\ [Next]_vars => (BatchesInv /\ EmptyInv /\ Leaks)'
      BY <1>3, <1>6, <2>2, BatchesStep, EmptyStep
    <2>3. Spec => [](BatchesInv /\ EmptyInv /\ Leaks)
      BY <1>2, <2>1, PTL DEF Spec
    <2> QED
      BY <1>4, <2>2, <2>3, PTL
  <1> QED
    BY <1>5, <1>6

-----------------------------------------------------------------------------
(***************************************************************************)
(* The counters of the KV cache.                                           *)
(***************************************************************************)

Entries == [Slots -> [used : BOOLEAN, pos : Nat]]

Held(entries, S) == SumFunctionOnSet([s \in Slots |-> entries[s].pos], S)

(* The sum when S gains or loses an entry, or one of it changes.           *)
LEMMA HeldType ==
    ASSUME NEW entries \in Entries, NEW S \in SUBSET Slots
    PROVE  IsFiniteSet(S) /\ Held(entries, S) \in Int
  <1> DEFINE f == [s \in Slots |-> entries[s].pos]
  <1>1. \A s \in S : f[s] \in Int
    BY DEF Entries
  <1>2. IsFiniteSet(S)
    BY SlotsFacts, FS_Subset
  <1> HIDE DEF f
  <1>3. SumFunctionOnSet(f, S) \in Int
    BY <1>1, <1>2, SumIsInt
  <1> QED
    BY <1>2, <1>3 DEF f, Held

LEMMA HeldGains ==
    ASSUME NEW entries \in Entries, NEW others \in Entries, NEW S \in SUBSET Slots, NEW s \in Slots \ S,
           \A q \in S : others[q] = entries[q]
    PROVE  Held(others, S \cup {s}) = Held(entries, S) + others[s].pos
  <1> DEFINE f == [q \in Slots |-> entries[q].pos]
             g == [q \in Slots |-> others[q].pos]
  <1>1. (\A q \in S : f[q] = g[q]) /\ (\A q \in S \cup {s} : g[q] \in Int) /\ g[s] = others[s].pos
    BY DEF Entries
  <1>2. IsFiniteSet(S) /\ Held(entries, S) \in Int /\ others[s].pos \in Int
    BY HeldType DEF Entries
  <1> HIDE DEF f, g
  <1>3. SumFunctionOnSet(g, S) = SumFunctionOnSet(f, S)
    BY <1>1, <1>2, SumSame
  <1>4. SumFunctionOnSet(g, S \cup {s}) = g[s] + SumFunctionOnSet(g, S)
    BY <1>1, <1>2, SumAdd
  <1>5. Held(entries, S) = SumFunctionOnSet(f, S) /\ Held(others, S \cup {s}) = SumFunctionOnSet(g, S \cup {s})
    BY DEF Held, f, g
  <1> QED
    BY <1>1, <1>2, <1>3, <1>4, <1>5

LEMMA HeldLoses ==
    ASSUME NEW entries \in Entries, NEW others \in Entries, NEW S \in SUBSET Slots, NEW s \in S,
           \A q \in S \ {s} : others[q] = entries[q]
    PROVE  Held(others, S \ {s}) = Held(entries, S) - entries[s].pos
  <1>1. Held(entries, (S \ {s}) \cup {s}) = Held(others, S \ {s}) + entries[s].pos
    BY HeldGains
  <1>2. (S \ {s}) \cup {s} = S
    OBVIOUS
  <1>3. Held(others, S \ {s}) \in Int /\ entries[s].pos \in Int
    <2>1. S \ {s} \in SUBSET Slots
      OBVIOUS
    <2> QED
      BY <2>1, HeldType DEF Entries
  <1>4. Held(entries, S) = Held(others, S \ {s}) + entries[s].pos
    BY <1>1, <1>2, Zenon
  <1> DEFINE rest == Held(others, S \ {s})
             x    == entries[s].pos
  <1> HIDE DEF rest, x
  <1>5. Held(entries, S) = rest + x /\ rest \in Int /\ x \in Int
    BY <1>3, <1>4 DEF rest, x
  <1>6. rest = Held(entries, S) - x
    BY <1>5
  <1> QED
    BY <1>6 DEF rest, x

LEMMA HeldMoves ==
    ASSUME NEW entries \in Entries, NEW others \in Entries, NEW S \in SUBSET Slots, NEW s \in S,
           \A q \in S \ {s} : others[q] = entries[q]
    PROVE  Held(others, S) = Held(entries, S) + others[s].pos - entries[s].pos
  <1>1. Held(others, S \ {s}) = Held(entries, S) - entries[s].pos
    BY HeldLoses
  <1>2. Held(others, S \ {s}) = Held(others, S) - others[s].pos
    BY HeldLoses
  <1>3. Held(others, S) \in Int /\ Held(entries, S) \in Int /\ others[s].pos \in Int /\ entries[s].pos \in Int
    BY HeldType DEF Entries
  <1> DEFINE before == Held(entries, S)
             after  == Held(others, S)
             x      == entries[s].pos
             y      == others[s].pos
  <1>4. before \in Int /\ after \in Int /\ x \in Int /\ y \in Int /\ after - y = before - x
    BY <1>1, <1>2, <1>3
  <1> HIDE DEF before, after, x, y
  <1>5. after = before + y - x
    BY <1>4
  <1> QED
    BY <1>5 DEF before, after, x, y

LEMMA CacheTypes ==
    ASSUME TypeInv
    PROVE  /\ IsFiniteSet(Idle) /\ Idle \subseteq Slots
           /\ IsFiniteSet(Running) /\ Running \subseteq Completions /\ Cardinality(Running) \in Nat
           /\ cache_prompts \in Entries /\ \A s \in Slots : cache_prompts[s].pos \in Nat
           /\ Held(cache_prompts, Idle) \in Int
           /\ PromptSize \in Nat
           /\ llm_kv_cache_used \in Int /\ llm_kv_cache_inactive \in Int
  <1>1. IsFiniteSet(Idle) /\ Idle \subseteq Slots
    BY SlotsFacts, FS_Subset DEF Idle
  <1>2. IsFiniteSet(Running) /\ Running \subseteq Completions
    BY SlotsFacts, FS_Subset DEF Running
  <1>3. Cardinality(Running) \in Nat
    BY <1>2, FS_CardinalityType
  <1>4. cache_prompts \in Entries /\ \A s \in Slots : cache_prompts[s].pos \in Nat
    BY DEF Entries, TypeInv
  <1>5. Held(cache_prompts, Idle) \in Int
    BY <1>1, <1>4, HeldType
  <1> QED
    BY <1>1, <1>2, <1>3, <1>4, <1>5, EmbeddingsAssumption DEF TypeInv

LEMMA CacheInit == Init => EntryInv /\ CountersExact
  <1> SUFFICES ASSUME Init PROVE EntryInv /\ CountersExact
    OBVIOUS
  <1>1. Running = {} /\ \A s \in Slots : ~cache_prompts[s].used /\ cache_prompts[s].pos = 0
    BY DEF Init, Running, Requests
  <1>2. EntryInv
    BY <1>1 DEF Init, EntryInv, Requests
  <1> DEFINE f == [s \in Slots |-> cache_prompts[s].pos]
  <1>3. SumFunctionOnSet(f, Idle) = 0
    <2>1. IsFiniteSet(Idle)
      BY SlotsFacts, FS_Subset DEF Idle
    <2>2. \A s \in Idle : f[s] = 0
      BY <1>1 DEF Idle
    <2> HIDE DEF f
    <2> QED
      BY <2>1, <2>2, SumZero
  <1>4. Cardinality(Running) = 0
    BY <1>1, FS_EmptySet
  <1> QED
    BY <1>2, <1>3, <1>4, EmbeddingsAssumption DEF Init, CountersExact

(* A step that neither starts nor ends completion c.                       *)
Keeps(c) ==
    /\ where[c] # "unsent" => where'[c] # "unsent" /\ seq_id'[c] = seq_id[c]
    /\ where[c] = "unsent" => seq_id'[c] = -1
    /\ where[c] = "destroyed" <=> where'[c] = "destroyed"

LEMMA OthersKeep ==
    ASSUME BatchesInv, EntryInv, [Next]_vars, \A r \in Requests : ~PrefillCompletion(r) /\ ~EndCompletion(r)
    PROVE  \A c \in Completions : Keeps(c)
  <1>0. /\ where \in [Requests -> Places] /\ seq_id \in [Requests -> Slots \cup {-1}]
        /\ Completions \subseteq Requests
    BY DEF BatchesInv, TypeInv, Requests
  <1>a. ASSUME UNCHANGED seq_id,
               \A c \in Completions : \/ where'[c] = where[c]
                                      \/ {where[c], where'[c]} \cap {"unsent", "destroyed"} = {}
        PROVE  \A c \in Completions : Keeps(c)
    BY <1>a DEF Keeps, EntryInv
  <1>1. ASSUME NEW r \in Requests, Submit(r)
        PROVE  \A c \in Completions : Keeps(c)
    <2>1. /\ where[r] = "unsent" /\ where'[r] = "queued" /\ (r \in Completions => seq_id'[r] = -1)
          /\ \A q \in Requests \ {r} : where'[q] = where[q] /\ seq_id'[q] = seq_id[q]
      BY <1>0, <1>1 DEF Submit
    <2> QED
      BY <1>0, <2>1 DEF EntryInv, Keeps
  <1>2. ASSUME NEW r \in Requests, Disconnect(r)
        PROVE  \A c \in Completions : Keeps(c)
    BY <1>a, <1>2 DEF Disconnect
  <1>3. ASSUME NEW r \in Requests, Dequeue(r)
        PROVE  \A c \in Completions : Keeps(c)
    BY <1>0, <1>a, <1>3 DEF Dequeue
  <1>4. ASSUME NEW r \in Requests, TypeWaits(r)
        PROVE  \A c \in Completions : Keeps(c)
    BY <1>0, <1>a, <1>4 DEF TypeWaits, Walks, Goes
  <1>5. ASSUME NEW r \in Requests, NoRoom(r)
        PROVE  \A c \in Completions : Keeps(c)
    BY <1>0, <1>a, <1>5 DEF NoRoom, Goes
  <1>6. ASSUME NEW r \in Requests, BatchInput(r)
        PROVE  \A c \in Completions : Keeps(c)
    <2>1. /\ r \notin Completions
          /\ \A q \in Requests \ {r} : where'[q] = where[q] /\ seq_id'[q] = seq_id[q]
      BY <1>0, <1>6 DEF BatchInput, Goes
    <2> QED
      BY <1>0, <2>1 DEF EntryInv, Keeps
  <1>7. ASSUME NEW r \in Requests, EmbeddingMissing(r) \/ NextRound(r) \/ Finish(r)
        PROVE  \A c \in Completions : Keeps(c)
    <2>1. r \notin Completions /\ where' = [where EXCEPT ![r] = where'[r]] /\ seq_id' = seq_id
      BY <1>7, Gathering DEF Encoded
    <2> QED
      BY <1>0, <1>a, <2>1
  <1>8. CASE CloseBatch \/ Decodes
    BY <1>a, <1>8 DEF CloseBatch, Decodes
  <1>9. CASE DecodeFails
    <2>1. \A c \in Completions : c \notin At("batch")
      BY DEF BatchesInv, BatchInv, Encoded
    <2> QED
      BY <1>0, <1>a, <1>9, <2>1 DEF DecodeFails
  <1>10. CASE UNCHANGED vars
    BY <1>a, <1>10 DEF vars
  <1> QED
    BY <1>1, <1>2, <1>3, <1>4, <1>5, <1>6, <1>7, <1>8, <1>9, <1>10 DEF Next, reconcile

LEMMA RunningKept ==
    ASSUME EntryInv, \A c \in Completions : Keeps(c)
    PROVE  /\ Running' = Running /\ \A c \in Running : seq_id'[c] = seq_id[c]
           /\ \A c \in Completions : where'[c] = "unsent" => seq_id'[c] = -1
  <1>1. \A c \in Completions : where[c] = "unsent" => seq_id[c] = -1
    BY DEF EntryInv
  <1>2. \A c \in Completions : where'[c] = "unsent" => seq_id'[c] = -1
    BY DEF Keeps
  <1>3. \A c \in Completions : seq_id'[c] # -1 /\ where'[c] # "destroyed" <=> seq_id[c] # -1 /\ where[c] # "destroyed"
    BY <1>1 DEF Keeps
  <1>4. Running' = Running
    BY <1>3 DEF Running
  <1> QED
    BY <1>1, <1>2, <1>4 DEF Running, Keeps

(* Nor is an entry changed, unless an input joins the batch.               *)
LEMMA CachesKept ==
    ASSUME BatchesInv, [Next]_vars,
           \A r \in Requests : ~PrefillCompletion(r) /\ ~EndCompletion(r) /\ ~BatchInput(r)
    PROVE  UNCHANGED caches /\ trampled \subseteq trampled'
  BY DEF Next, reconcile, Submit, Disconnect, Dequeue, TypeWaits, NoRoom, EmbeddingMissing, NextRound, Finish,
         CloseBatch, Decodes, DecodeFails, vars

LEMMA KeptStep ==
    ASSUME EntryInv, CountersExact, \A c \in Completions : Keeps(c), UNCHANGED caches, trampled \subseteq trampled'
    PROVE  EntryInv' /\ CountersExact'
  <1>1. /\ Running' = Running /\ \A c \in Running : seq_id'[c] = seq_id[c]
        /\ \A c \in Completions : where'[c] = "unsent" => seq_id'[c] = -1
    BY RunningKept
  <1>2. UNCHANGED <<cache_prompts, llm_kv_cache_used, llm_kv_cache_inactive>> /\ Idle' = Idle
    BY DEF caches, counters, Idle
  <1>3. trampled' = {} => trampled = {}
    OBVIOUS
  <1>4. EntryInv'
    BY <1>1, <1>2, <1>3 DEF EntryInv
  <1>5. CountersExact'
    BY <1>1, <1>2, <1>3 DEF CountersExact
  <1> QED
    BY <1>4, <1>5

LEMMA JoinStep ==
    ASSUME BatchesInv, EntryInv, CountersExact, NEW r \in Requests, BatchInput(r),
           \A c \in Completions : Keeps(c)
    PROVE  EntryInv' /\ CountersExact'
  <1> DEFINE s == LoweredSequence(r)
             EmptyAt == [used |-> FALSE, pos |-> 0]
  <1>1. trampled' = trampled \cup {c \in Running : seq_id[c] = s}
    BY DEF BatchInput
  <1>2. s \in Slots
    <2>1. Unfinished(r) /\ r \in Encoded
      BY DEF BatchInput, Walks, Unfinished, Encoded
    <2> QED
      BY <2>1, LoweredIs DEF BatchesInv
  <1>3. CASE ~CachePrompt
    <2>1. UNCHANGED caches
      BY <1>3 DEF BatchInput, CleanCache, caches
    <2> QED
      BY <1>1, <2>1, KeptStep
  <1>4. CASE CachePrompt
    <2>1. /\ cache_prompts' = [cache_prompts EXCEPT ![s] = EmptyAt]
          /\ llm_kv_cache_used' = llm_kv_cache_used - cache_prompts[s].pos
          /\ llm_kv_cache_inactive' = llm_kv_cache_inactive - cache_prompts[s].pos
      BY <1>4 DEF BatchInput, CleanCache
    <2> HIDE DEF s
    <2>2. /\ Running' = Running /\ \A c \in Running : seq_id'[c] = seq_id[c]
          /\ \A c \in Completions : where'[c] = "unsent" => seq_id'[c] = -1
      BY RunningKept
    <2>3. /\ cache_prompts \in [Slots -> [used : BOOLEAN, pos : Nat]]
          /\ cache_prompts'[s] = EmptyAt
          /\ \A q \in Slots \ {s} : cache_prompts'[q] = cache_prompts[q]
      BY <1>2, <2>1 DEF BatchesInv, TypeInv
    <2>4. EmptyAt.used = FALSE /\ EmptyAt.pos = 0
      OBVIOUS
    <2>5. \A q \in Slots : cache_prompts'[q].used => CachePrompt /\ cache_prompts'[q].pos = 0
      <3> HIDE DEF EmptyAt
      <3> QED
        BY <1>4, <2>3, <2>4 DEF EntryInv
    <2>6. ASSUME trampled' = {}
          PROVE  \A c \in Running : /\ cache_prompts'[seq_id[c]].used
                                    /\ \A d \in Running \ {c} : seq_id[d] # seq_id[c]
      <3>1. trampled = {} /\ \A c \in Running : seq_id[c] # s /\ seq_id[c] \in Slots
        BY <1>1, <2>6 DEF BatchesInv, TypeInv, Running, Requests
      <3> QED
        BY <1>4, <2>3, <3>1 DEF EntryInv
    <2>7. EntryInv'
      <3> HIDE DEF EmptyAt
      <3> QED
        BY <1>4, <2>2, <2>5, <2>6 DEF EntryInv
    <2>8. CountersExact'
      <3> SUFFICES ASSUME trampled' = {} PROVE CountersExact'
        BY DEF CountersExact
      <3>1. /\ llm_kv_cache_inactive = Held(cache_prompts, Idle)
            /\ llm_kv_cache_used = Held(cache_prompts, Idle) + PromptSize * Cardinality(Running)
        BY <1>1 DEF CountersExact, Held
      <3>2. Idle' = Idle \cup {s}
        BY <1>2, <2>3, <2>4 DEF Idle
      <3>3. /\ Idle \subseteq Slots /\ cache_prompts \in Entries /\ cache_prompts' \in Entries
            /\ \A q \in Slots : cache_prompts[q].pos \in Nat
            /\ cache_prompts'[s].pos = 0
        <4>1. EmptyAt \in [used : BOOLEAN, pos : Nat]
          OBVIOUS
        <4>2. cache_prompts' \in Entries
          <5> HIDE DEF EmptyAt
          <5> QED
            BY <2>1, <2>3, <4>1 DEF Entries
        <4> QED
          BY <1>2, <2>3, <2>4, <4>2, CacheTypes DEF BatchesInv
      <3>4. Held(cache_prompts', Idle') = Held(cache_prompts, Idle) - cache_prompts[s].pos
        <4>1. CASE s \in Idle
          <5>1. Idle' = Idle
            BY <3>2, <4>1
          <5>2. Held(cache_prompts', Idle) = Held(cache_prompts, Idle) + cache_prompts'[s].pos - cache_prompts[s].pos
            BY <2>3, <3>3, <4>1, HeldMoves
          <5>3. Held(cache_prompts, Idle) \in Int /\ cache_prompts[s].pos \in Int
            BY <1>2, <3>3, HeldType
          <5> QED
            BY <3>3, <5>1, <5>2, <5>3
        <4>2. CASE s \notin Idle
          <5>1. cache_prompts[s].pos = 0
            BY <1>2, <4>2 DEF Idle, EntryInv
          <5>2. Held(cache_prompts', Idle \cup {s}) = Held(cache_prompts, Idle) + cache_prompts'[s].pos
            BY <1>2, <2>3, <3>3, <4>2, HeldGains
          <5> QED
            BY <3>2, <3>3, <5>1, <5>2, HeldType
        <4> QED
          BY <4>1, <4>2
      <3>5. PromptSize * Cardinality(Running) \in Int /\ Held(cache_prompts, Idle) \in Int
        BY CacheTypes DEF BatchesInv
      <3>6. cache_prompts[s].pos \in Int
        BY <1>2, <3>3
      <3>7. /\ llm_kv_cache_inactive' = Held(cache_prompts', Idle')
            /\ llm_kv_cache_used' = Held(cache_prompts', Idle') + PromptSize * Cardinality(Running)
        BY <2>1, <3>1, <3>4, <3>5, <3>6
      <3> QED
        BY <2>2, <3>7 DEF CountersExact, Held
    <2> QED
      BY <2>7, <2>8
  <1> QED
    BY <1>3, <1>4

(* A completion begins in an idle sequence.                                *)
LEMMA BeginStep ==
    ASSUME BatchesInv, EntryInv, CountersExact, NEW r \in Requests, PrefillCompletion(r)
    PROVE  EntryInv' /\ CountersExact'
  <1> DEFINE begun == [used |-> CachePrompt, pos |-> 0]
  <1>1. PICK s \in Slots :
            /\ CachePrompt => ~cache_prompts[s].used
            /\ seq_id' = [seq_id EXCEPT ![r] = s]
            /\ cache_prompts' = [cache_prompts EXCEPT ![s] = begun]
            /\ llm_kv_cache_used' = llm_kv_cache_used - cache_prompts[s].pos + PromptSize
            /\ llm_kv_cache_inactive' = llm_kv_cache_inactive - cache_prompts[s].pos
    BY DEF PrefillCompletion, BatchesInv, TypeInv
  <1>2. /\ r \in Completions /\ seq_id[r] = -1 /\ where[r] = "round" /\ where' = [where EXCEPT ![r] = "queued"]
        /\ trampled' = trampled
    BY DEF PrefillCompletion, Walks, Goes
  <1>3. begun.used = CachePrompt /\ begun.pos = 0 /\ begun \in [used : BOOLEAN, pos : Nat]
    BY EmbeddingsAssumption
  <1> HIDE DEF begun
  <1>4. /\ cache_prompts \in Entries /\ cache_prompts' \in Entries
        /\ cache_prompts'[s] = begun /\ \A q \in Slots \ {s} : cache_prompts'[q] = cache_prompts[q]
    BY <1>1, <1>3, CacheTypes DEF BatchesInv, Entries
  <1>5. /\ where'[r] = "queued" /\ seq_id'[r] = s /\ s # -1
        /\ \A q \in Requests \ {r} : where'[q] = where[q] /\ seq_id'[q] = seq_id[q]
    BY <1>1, <1>2, SlotsFacts DEF BatchesInv, TypeInv
  <1>6. Running' = Running \cup {r} /\ r \notin Running
    BY <1>2, <1>5 DEF Running, Requests
  <1>7. EntryInv'
    <2>1. \A q \in Slots : cache_prompts'[q].used => CachePrompt /\ cache_prompts'[q].pos = 0
      BY <1>3, <1>4 DEF EntryInv
    <2>2. ~CachePrompt => \A q \in Slots : cache_prompts'[q].pos = 0
      BY <1>3, <1>4 DEF EntryInv
    <2>3. \A c \in Completions : where'[c] = "unsent" => seq_id'[c] = -1
      BY <1>5 DEF EntryInv, Requests
    <2>4. ASSUME trampled = {}, CachePrompt
          PROVE  \A c \in Running' : /\ cache_prompts'[seq_id'[c]].used
                                     /\ \A d \in Running' \ {c} : seq_id'[d] # seq_id'[c]
      <3>1. \A c \in Running : /\ seq_id'[c] = seq_id[c] /\ seq_id[c] \in Slots /\ seq_id[c] # s
                               /\ cache_prompts[seq_id[c]].used
                               /\ \A d \in Running \ {c} : seq_id[d] # seq_id[c]
        BY <1>1, <1>5, <1>6, <2>4 DEF EntryInv, Running, BatchesInv, TypeInv, Requests
      <3>2. cache_prompts'[seq_id'[r]].used
        BY <1>3, <1>4, <1>5, <2>4
      <3>3. \A c \in Running : cache_prompts'[seq_id'[c]].used
        BY <1>4, <3>1
      <3> QED
        BY <1>5, <1>6, <3>1, <3>2, <3>3
    <2> QED
      BY <1>2, <2>1, <2>2, <2>3, <2>4 DEF EntryInv
  <1>8. CountersExact'
    <2> SUFFICES ASSUME trampled' = {} PROVE CountersExact'
      BY DEF CountersExact
    <2> DEFINE n == Cardinality(Running)
               held == Held(cache_prompts, Idle)
               x == cache_prompts[s].pos
    <2>1. llm_kv_cache_inactive = held /\ llm_kv_cache_used = held + PromptSize * n
      BY <1>2 DEF CountersExact, Held
    <2>2. IsFiniteSet(Running) /\ n \in Nat /\ held \in Int /\ PromptSize \in Nat /\ Idle \subseteq Slots /\ x \in Nat
      BY <1>1, CacheTypes DEF BatchesInv
    <2>3. Cardinality(Running') = n + 1
      BY <1>6, <2>2, FS_AddElement
    <2>4. Held(cache_prompts', Idle') = held - x
      <3>1. s \in Idle
        BY <1>1 DEF Idle, EntryInv
      <3>2. CASE CachePrompt
        <4>1. Idle' = Idle \ {s}
          BY <1>3, <1>4, <3>2 DEF Idle
        <4>2. Held(cache_prompts', Idle \ {s}) = held - x
          BY <1>4, <2>2, <3>1, HeldLoses
        <4> QED
          BY <4>1, <4>2
      <3>3. CASE ~CachePrompt
        <4>1. Idle' = Idle
          BY <1>3, <1>4, <3>1, <3>3 DEF Idle
        <4>2. Held(cache_prompts', Idle) = held + begun.pos - x
          BY <1>4, <2>2, <3>1, HeldMoves
        <4> HIDE DEF held, x
        <4> QED
          BY <1>3, <2>2, <4>1, <4>2
      <3> QED
        BY <3>2, <3>3
    <2>5. /\ llm_kv_cache_used' = llm_kv_cache_used - x + PromptSize
          /\ llm_kv_cache_inactive' = llm_kv_cache_inactive - x
      BY <1>1
    <2> HIDE DEF n, held, x
    <2>6. PromptSize * (n + 1) = PromptSize * n + PromptSize /\ PromptSize * n \in Nat
      BY <2>2
    <2>7. /\ llm_kv_cache_inactive' = Held(cache_prompts', Idle')
          /\ llm_kv_cache_used' = Held(cache_prompts', Idle') + PromptSize * Cardinality(Running')
      BY <2>1, <2>2, <2>3, <2>4, <2>5, <2>6
    <2> QED
      BY <2>7 DEF CountersExact, Held
  <1> QED
    BY <1>7, <1>8

(* A completion ends: its tokens become those of an idle entry, or none.   *)
LEMMA EndStep ==
    ASSUME BatchesInv, EntryInv, CountersExact, NEW r \in Requests, EndCompletion(r)
    PROVE  EntryInv' /\ CountersExact'
  <1> DEFINE s == seq_id[r]
             ended == [used |-> FALSE, pos |-> PromptSize]
  <1>1. /\ r \in Completions /\ s \in Slots /\ where[r] = "round" /\ where' = [where EXCEPT ![r] = "destroyed"]
        /\ trampled' = trampled /\ seq_id' = seq_id
    BY DEF EndCompletion, Walks, Goes, BatchesInv, TypeInv
  <1>2. \/ /\ CachePrompt
           /\ cache_prompts' = [cache_prompts EXCEPT ![s] = ended]
           /\ llm_kv_cache_inactive' = llm_kv_cache_inactive + PromptSize
           /\ llm_kv_cache_used' = llm_kv_cache_used
        \/ /\ ~CachePrompt
           /\ cache_prompts' = cache_prompts
           /\ llm_kv_cache_inactive' = llm_kv_cache_inactive
           /\ llm_kv_cache_used' = llm_kv_cache_used - PromptSize
    BY DEF EndCompletion
  <1>3. ended.used = FALSE /\ ended.pos = PromptSize /\ ended \in [used : BOOLEAN, pos : Nat]
    BY EmbeddingsAssumption
  <1>4. r \in Running
    BY <1>1, SlotsFacts DEF Running
  <1> HIDE DEF s, ended
  <1>5. /\ cache_prompts \in Entries
        /\ CachePrompt => /\ cache_prompts' \in Entries /\ cache_prompts'[s] = ended
                          /\ \A q \in Slots \ {s} : cache_prompts'[q] = cache_prompts[q]
    BY <1>1, <1>2, <1>3, CacheTypes DEF BatchesInv, Entries
  <1>6. where'[r] = "destroyed" /\ \A q \in Requests \ {r} : where'[q] = where[q]
    BY <1>1 DEF BatchesInv, TypeInv
  <1>7. Running' = Running \ {r}
    BY <1>1, <1>6 DEF Running, Requests
  <1>8. EntryInv'
    <2>1. \A q \in Slots : cache_prompts'[q].used => CachePrompt /\ cache_prompts'[q].pos = 0
      BY <1>2, <1>3, <1>5 DEF EntryInv
    <2>2. ~CachePrompt => \A q \in Slots : cache_prompts'[q].pos = 0
      BY <1>2 DEF EntryInv
    <2>3. \A c \in Completions : where'[c] = "unsent" => seq_id'[c] = -1
      BY <1>1, <1>6 DEF EntryInv, Requests
    <2>4. ASSUME trampled = {}, CachePrompt
          PROVE  \A c \in Running' : /\ cache_prompts'[seq_id'[c]].used
                                     /\ \A d \in Running' \ {c} : seq_id'[d] # seq_id'[c]
      <3>1. \A c \in Running : /\ seq_id[c] \in Slots /\ cache_prompts[seq_id[c]].used
                               /\ \A d \in Running \ {c} : seq_id[d] # seq_id[c]
        BY <2>4 DEF EntryInv, Running, BatchesInv, TypeInv, Requests
      <3>2. \A c \in Running' : seq_id[c] # s
        BY <1>4, <1>7, <3>1 DEF s
      <3> QED
        BY <1>1, <1>5, <1>7, <2>4, <3>1, <3>2
    <2> QED
      BY <1>1, <2>1, <2>2, <2>3, <2>4 DEF EntryInv
  <1>9. CountersExact'
    <2> SUFFICES ASSUME trampled' = {} PROVE CountersExact'
      BY DEF CountersExact
    <2> DEFINE n == Cardinality(Running)
               held == Held(cache_prompts, Idle)
    <2>1. llm_kv_cache_inactive = held /\ llm_kv_cache_used = held + PromptSize * n
      BY <1>1 DEF CountersExact, Held
    <2>2. IsFiniteSet(Running) /\ n \in Nat /\ held \in Int /\ PromptSize \in Nat /\ Idle \subseteq Slots
      BY CacheTypes DEF BatchesInv
    <2>3. Cardinality(Running') = n - 1
      BY <1>4, <1>7, <2>2, FS_RemoveElement
    <2>4. CASE CachePrompt
      <3>1. s \notin Idle
        BY <1>1, <1>4, <2>4 DEF Idle, EntryInv, s
      <3>2. Idle' = Idle \cup {s}
        BY <1>1, <1>3, <1>5, <2>4 DEF Idle
      <3>3. Held(cache_prompts', Idle \cup {s}) = held + ended.pos
        BY <1>1, <1>5, <2>2, <2>4, <3>1, HeldGains
      <3>4. Held(cache_prompts', Idle') = held + PromptSize
        BY <1>3, <3>2, <3>3
      <3> HIDE DEF n, held
      <3>5. PromptSize * (n - 1) = PromptSize * n - PromptSize /\ PromptSize * n \in Int
        BY <2>2
      <3>6. /\ llm_kv_cache_inactive' = Held(cache_prompts', Idle')
            /\ llm_kv_cache_used' = Held(cache_prompts', Idle') + PromptSize * Cardinality(Running')
        BY <1>2, <2>1, <2>2, <2>3, <2>4, <3>4, <3>5
      <3> QED
        BY <3>6 DEF CountersExact, Held
    <2>5. CASE ~CachePrompt
      <3>1. Held(cache_prompts', Idle') = held
        BY <1>2, <2>5 DEF Idle
      <3> HIDE DEF n, held
      <3>2. PromptSize * (n - 1) = PromptSize * n - PromptSize /\ PromptSize * n \in Int
        BY <2>2
      <3>3. /\ llm_kv_cache_inactive' = Held(cache_prompts', Idle')
            /\ llm_kv_cache_used' = Held(cache_prompts', Idle') + PromptSize * Cardinality(Running')
        BY <1>2, <2>1, <2>2, <2>3, <2>5, <3>1, <3>2
      <3> QED
        BY <3>3 DEF CountersExact, Held
    <2> QED
      BY <2>4, <2>5
  <1> QED
    BY <1>8, <1>9

(***************************************************************************)
(* As long as no embeddings task took the sequence of a running            *)
(* completion, the KV counters are exact, however many completions and     *)
(* embeddings share the sequences.                                         *)
(***************************************************************************)
THEOREM CountersStayExact == Spec => []CountersExact
  <1>1. Init => CacheInv
    BY BatchesInit, CacheInit DEF CacheInv
  <1>2. ASSUME CacheInv, [Next]_vars
        PROVE  CacheInv'
    <2>1. BatchesInv /\ EntryInv /\ CountersExact /\ BatchesInv'
      BY <1>2, BatchesStep DEF CacheInv
    <2>2. CASE \E r \in Requests : PrefillCompletion(r)
      BY <2>1, <2>2, BeginStep DEF CacheInv
    <2>3. CASE \E r \in Requests : EndCompletion(r)
      BY <2>1, <2>3, EndStep DEF CacheInv
    <2>4. CASE \A r \in Requests : ~PrefillCompletion(r) /\ ~EndCompletion(r)
      <3>1. \A c \in Completions : Keeps(c)
        BY <1>2, <2>1, <2>4, OthersKeep
      <3>2. CASE \E r \in Requests : BatchInput(r)
        BY <2>1, <3>1, <3>2, JoinStep DEF CacheInv
      <3>3. CASE \A r \in Requests : ~BatchInput(r)
        <4>1. UNCHANGED caches /\ trampled \subseteq trampled'
          BY <1>2, <2>1, <2>4, <3>3, CachesKept
        <4> QED
          BY <2>1, <3>1, <4>1, KeptStep DEF CacheInv
      <3> QED
        BY <3>2, <3>3
    <2> QED
      BY <2>2, <2>3, <2>4
  <1>3. CacheInv => CountersExact
    BY DEF CacheInv
  <1>4. Spec => []CacheInv
    BY <1>1, <1>2, PTL DEF Spec
  <1> QED
    BY <1>3, <1>4, PTL

-----------------------------------------------------------------------------

(* The order of rerank results: what RerankSort computes, for all inputs.  *)

Score(s, k) == s[k].relevance_score

Met(x) == x.i = x.j

(* Cursors into results, where a pass may start.                           *)
Cursors == {x \in [s : Seq(Result), i : Nat \ {0}, j : Nat] : x.i <= x.j /\ x.j <= Len(x.s)}

(* One pass, with the score of the pivot.                                  *)
AfterPass(base, x) ==
    LET right == LastAbove(x.s, base, x.i, x.j)
        left  == FirstBelow(x.s, base, x.i, right)
    IN  [s |-> Swapped(x.s, left, right), i |-> left, j |-> right]

(* What stays when the results from low to high are moved around.          *)
Distinct(s) == \A a, b \in DOMAIN s : s[a].index = s[b].index => a = b

Moved(s, t, low, high) ==
    /\ t \in Seq(Result) /\ Len(t) = Len(s)
    /\ \A k \in DOMAIN s \ (low .. high) : t[k] = s[k]
    /\ \A k \in low .. high : \E m \in low .. high : t[k] = s[m]
    /\ \A m \in low .. high : \E k \in low .. high : t[k] = s[m]
    /\ Distinct(s) => Distinct(t)

LEMMA MovedTyped ==
    ASSUME NEW s, NEW t, NEW low, NEW high, Moved(s, t, low, high)
    PROVE  t \in Seq(Result) /\ Len(t) = Len(s) /\ DOMAIN t = 1 .. Len(s)
  BY DEF Moved

LEMMA MovedNot ==
    ASSUME NEW s \in Seq(Result), NEW low, NEW high
    PROVE  Moved(s, s, low, high)
  BY DEF Moved

LEMMA MovedTwice ==
    ASSUME NEW s \in Seq(Result), NEW t, NEW u, NEW low, NEW high,
           Moved(s, t, low, high), Moved(t, u, low, high)
    PROVE  Moved(s, u, low, high)
  <1>1. t \in Seq(Result) /\ u \in Seq(Result) /\ Len(u) = Len(s) /\ DOMAIN t = DOMAIN s
    BY DEF Moved
  <1>2. \A k \in DOMAIN s \ (low .. high) : u[k] = s[k]
    BY <1>1 DEF Moved
  <1>3. \A k \in low .. high : \E m \in low .. high : u[k] = s[m]
    BY DEF Moved
  <1>4. \A m \in low .. high : \E k \in low .. high : u[k] = s[m]
    BY DEF Moved
  <1> QED
    BY <1>1, <1>2, <1>3, <1>4 DEF Moved

LEMMA MovedWithin ==
    ASSUME NEW s \in Seq(Result), NEW t, NEW low \in Int, NEW high \in Int, NEW l \in Int, NEW h \in Int,
           Moved(s, t, l, h), low <= l, h <= high, 1 <= low, high <= Len(s)
    PROVE  Moved(s, t, low, high)
  <1>1. \A k \in low .. high : k \in DOMAIN s /\ (k \in l .. h \/ k \in DOMAIN s \ (l .. h))
    OBVIOUS
  <1>2. \A k \in l .. h : k \in low .. high
    OBVIOUS
  <1>3. \A k \in DOMAIN s \ (low .. high) : k \in DOMAIN s \ (l .. h)
    BY <1>2
  <1> QED
    BY <1>1, <1>2, <1>3 DEF Moved

LEMMA SwapMoves ==
    ASSUME NEW s \in Seq(Result), NEW low \in Int, NEW high \in Int, 1 <= low, high <= Len(s),
           NEW i \in low .. high, NEW j \in low .. high
    PROVE  /\ Moved(s, Swapped(s, i, j), low, high)
           /\ Swapped(s, i, j)[i] = s[j]
           /\ Swapped(s, i, j)[j] = s[i]
           /\ \A k \in DOMAIN s \ {i, j} : Swapped(s, i, j)[k] = s[k]
  <1> DEFINE t == Swapped(s, i, j)
  <1>1. i \in DOMAIN s /\ j \in DOMAIN s /\ DOMAIN s = 1 .. Len(s) /\ Len(s) \in Nat
    OBVIOUS
  <1>2. t = [k \in DOMAIN s |-> IF k = j THEN s[i] ELSE IF k = i THEN s[j] ELSE s[k]]
    BY <1>1 DEF Swapped
  <1>3. t \in Seq(Result) /\ Len(t) = Len(s) /\ DOMAIN t = DOMAIN s
    <2>1. \A k \in 1 .. Len(s) : s[k] \in Result
      OBVIOUS
    <2>2. t \in [1 .. Len(s) -> Result]
      BY <1>1, <1>2, <2>1
    <2> QED
      BY <1>1, <2>2
  <1>4. /\ t[i] = s[j] /\ t[j] = s[i] /\ \A k \in DOMAIN s \ {i, j} : t[k] = s[k]
    BY <1>1, <1>2
  <1> HIDE DEF t
  <1>5. \A k \in DOMAIN s : \E m \in DOMAIN s :
            /\ t[k] = s[m]
            /\ m = IF k = i THEN j ELSE IF k = j THEN i ELSE k
    BY <1>1, <1>4
  <1>6. Distinct(s) => Distinct(t)
    BY <1>1, <1>3, <1>5 DEF Distinct
  <1>7. \A k \in DOMAIN s \ (low .. high) : t[k] = s[k]
    BY <1>4
  <1>8. \A k \in low .. high : k \in DOMAIN s
    BY <1>1
  <1>9. \A k \in low .. high : \E m \in low .. high : t[k] = s[m]
    BY <1>4, <1>8
  <1>10. \A m \in low .. high : \E k \in low .. high : t[k] = s[m]
    BY <1>4, <1>8
  <1> QED
    BY <1>3, <1>4, <1>6, <1>7, <1>9, <1>10 DEF Moved, t

(* Where the cursors stop.                                                 *)
LEMMA LastAboveStops ==
    ASSUME NEW s, NEW base, NEW i \in Nat, NEW j \in Nat, i <= j
    PROVE  LET right == LastAbove(s, base, i, j)
           IN  /\ right \in i .. j
               /\ right = i \/ Score(s, right) > base
               /\ \A k \in (right + 1) .. j : ~ (Score(s, k) > base)
  <1> DEFINE A == {i} \cup {k \in i .. j : s[k].relevance_score > base}
             right == Max(A)
             Up == {k .. j : k \in A}
  <1>1. \E r \in A : \A k \in A : r >= k
    <2>1. PICK B \in Up : \A C \in Up : ~ (C \subseteq B /\ C # B)
      <3> DEFINE All == i .. j
      <3>1. IsFiniteSet(All)
        BY FS_Interval
      <3>2. Up \subseteq SUBSET All /\ Up # {}
        OBVIOUS
      <3> HIDE DEF Up, All
      <3> QED
        BY <3>1, <3>2, FiniteMinimum
    <2>2. PICK r \in A : B = r .. j
      OBVIOUS
    <2>3. ASSUME NEW k \in A, k > r PROVE FALSE
      <3>1. k .. j \in Up
        OBVIOUS
      <3>2. k .. j \subseteq B /\ k .. j # B
        BY <2>2, <2>3
      <3> QED
        BY <2>1, <3>1, <3>2
    <2> QED
      BY <2>2, <2>3
  <1>2. right \in A /\ \A k \in A : right >= k
    BY <1>1 DEF Max
  <1>3. right = LastAbove(s, base, i, j)
    BY DEF LastAbove
  <1> HIDE DEF right
  <1> QED
    BY <1>2, <1>3 DEF Score

LEMMA FirstBelowStops ==
    ASSUME NEW s, NEW base, NEW i \in Nat, NEW j \in Nat, i <= j
    PROVE  LET left == FirstBelow(s, base, i, j)
           IN  /\ left \in i .. j
               /\ left = j \/ Score(s, left) < base
               /\ \A k \in i .. (left - 1) : ~ (Score(s, k) < base)
  <1> DEFINE A == {j} \cup {k \in i .. j : s[k].relevance_score < base}
             left == Min(A)
             Up == {i .. k : k \in A}
  <1>1. \E r \in A : \A k \in A : r <= k
    <2>1. PICK B \in Up : \A C \in Up : ~ (C \subseteq B /\ C # B)
      <3> DEFINE All == i .. j
      <3>1. IsFiniteSet(All)
        BY FS_Interval
      <3>2. Up \subseteq SUBSET All /\ Up # {}
        OBVIOUS
      <3> HIDE DEF Up, All
      <3> QED
        BY <3>1, <3>2, FiniteMinimum
    <2>2. PICK r \in A : B = i .. r
      OBVIOUS
    <2>3. ASSUME NEW k \in A, k < r PROVE FALSE
      <3>1. i .. k \in Up
        OBVIOUS
      <3>2. i .. k \subseteq B /\ i .. k # B
        BY <2>2, <2>3
      <3> QED
        BY <2>1, <3>1, <3>2
    <2> QED
      BY <2>2, <2>3
  <1>2. left \in A /\ \A k \in A : left <= k
    BY <1>1 DEF Min
  <1>3. left = FirstBelow(s, base, i, j)
    BY DEF FirstBelow
  <1> HIDE DEF left
  <1> QED
    BY <1>2, <1>3 DEF Score

LEMMA PassTyped ==
    ASSUME NEW base \in Int, NEW x \in Cursors
    PROVE  LET y == AfterPass(base, x)
           IN  y \in Cursors /\ Len(y.s) = Len(x.s) /\ x.i <= y.i /\ y.j <= x.j
  <1> DEFINE right == LastAbove(x.s, base, x.i, x.j)
             left  == FirstBelow(x.s, base, x.i, right)
  <1>1. /\ x.s \in Seq(Result) /\ x.i \in Nat \ {0} /\ x.j \in Nat /\ x.i <= x.j /\ x.j <= Len(x.s)
    BY DEF Cursors
  <1>2. right \in x.i .. x.j
    BY <1>1, LastAboveStops
  <1> HIDE DEF right
  <1>3. left \in x.i .. right
    BY <1>1, <1>2, FirstBelowStops
  <1> HIDE DEF left
  <1> DEFINE t == Swapped(x.s, left, right)
  <1>4. Len(x.s) \in Nat /\ left \in 1 .. Len(x.s) /\ right \in 1 .. Len(x.s)
    BY <1>1, <1>2, <1>3
  <1>5. t \in Seq(Result) /\ Len(t) = Len(x.s)
    <2> DEFINE s == x.s
               n == Len(s)
    <2>1. s \in Seq(Result) /\ n \in Int /\ left \in 1 .. n /\ right \in 1 .. n /\ n <= Len(s)
      BY <1>1, <1>4
    <2> HIDE DEF s, n
    <2>2. Moved(s, Swapped(s, left, right), 1, n)
      BY <2>1, SwapMoves
    <2> QED
      BY <2>2 DEF Moved, s
  <1> HIDE DEF t
  <1>6. AfterPass(base, x) = [s |-> t, i |-> left, j |-> right]
    BY DEF AfterPass, left, right, t
  <1> QED
    BY <1>1, <1>2, <1>3, <1>5, <1>6 DEF Cursors

(* The passes over the results from low to high.                           *)
PassRun(results, low, high, f) ==
    /\ f \in [Nat -> Cursors]
    /\ f[0] = [s |-> results, i |-> low, j |-> high]
    /\ \A n \in Nat : f[n + 1] = AfterPass(Score(results, low), f[n])

LEMMA PassesRun ==
    ASSUME NEW results \in Seq(Result), NEW low \in Nat \ {0}, NEW high \in Nat,
           low <= high, high <= Len(results)
    PROVE  PassRun(results, low, high, Passes(results, low, high))
  <1> DEFINE base == results[low].relevance_score
             start    == [s |-> results, i |-> low, j |-> high]
             next == [x \in Cursors |-> AfterPass(base, x)]
             Is(f) == f = [n \in Nat |-> IF n = 0 THEN start ELSE AfterPass(base, f[n - 1])]
  <1>1. start \in Cursors /\ base \in Int
    <2>1. results[low] \in Result
      OBVIOUS
    <2> QED
      BY <2>1 DEF Cursors, Result
  <1>2. next \in [Cursors -> Cursors]
    <2> HIDE DEF base
    <2> QED
      BY <1>1, PassTyped
  <1>3. PICK f : f \in [Nat -> Cursors] /\ f[0] = start /\ \A n \in Nat : f[n + 1] = next[f[n]]
    <2>1. IsStep(Cursors, next)
      BY <1>2 DEF IsStep
    <2> HIDE DEF start, next, base, Is
    <2>2. PICK f : Repeats(Cursors, start, next, f)
      BY <1>1, <2>1, Iteration
    <2> QED
      BY <2>2 DEF Repeats
  <1> HIDE DEF start, base
  <1>4. Is(f)
    <2>1. \A n \in Nat : next[f[n]] = AfterPass(base, f[n])
      BY <1>3
    <2>2. ASSUME NEW n \in Nat PROVE f[n] = IF n = 0 THEN start ELSE AfterPass(base, f[n - 1])
      <3> HIDE DEF next
      <3>1. n # 0 => n - 1 \in Nat /\ (n - 1) + 1 = n
        OBVIOUS
      <3> QED
        BY <1>3, <2>1, <3>1
    <2>3. f = [n \in Nat |-> f[n]]
      BY <1>3
    <2> HIDE DEF next
    <2> QED
      BY <2>2, <2>3
  <1> DEFINE g == CHOOSE h : Is(h)
  <1>5. Is(g)
    <2> HIDE DEF Is
    <2> QED
      BY <1>4
  <1>6. Passes(results, low, high) = g
    BY DEF Passes, AfterPass, base, start
  <1> HIDE DEF g
  <1>7. g[0] = start /\ \A n \in Nat : g[n + 1] = AfterPass(base, g[n])
    BY <1>5
  <1>8. g \in [Nat -> Cursors]
    <2> DEFINE T == {n \in Nat : g[n] \in Cursors}
    <2>1. 0 \in T
      BY <1>1, <1>7
    <2>2. ASSUME NEW n \in Nat, n \in T PROVE n + 1 \in T
      <3> DEFINE x == g[n]
      <3>1. x \in Cursors /\ g[n + 1] = AfterPass(base, x)
        BY <1>7, <2>2
      <3> HIDE DEF x
      <3>2. AfterPass(base, x) \in Cursors
        BY <1>1, <3>1, PassTyped
      <3> QED
        BY <3>1, <3>2
    <2>3. \A n \in Nat : n \in T
      <3> HIDE DEF T
      <3> QED
        BY <2>1, <2>2, EveryNumber
    <2> HIDE DEF Is
    <2>4. g = [n \in Nat |-> g[n]]
      BY <1>5 DEF Is
    <2> QED
      BY <2>3, <2>4
  <1> QED
    BY <1>6, <1>7, <1>8 DEF PassRun, start, base, Score

(* What every pass keeps: the pivot is still in front, and what the        *)
(* cursors left behind is on its side.                                     *)
PassInv(results, low, high, n, x) ==
    /\ x \in Cursors
    /\ low <= x.i /\ x.j <= high
    /\ Moved(results, x.s, low, high)
    /\ x.s[low] = results[low]
    /\ \A k \in low .. x.i : Score(x.s, k) >= Score(results, low)
    /\ \A k \in (x.j + 1) .. high : Score(x.s, k) <= Score(results, low)
    /\ Met(x) \/ x.j - x.i <= high - low - n

LEMMA PassKeeps ==
    ASSUME NEW results \in Seq(Result), NEW low \in Nat \ {0}, NEW high \in Nat,
           low <= high, high <= Len(results), NEW n \in Nat, NEW x, PassInv(results, low, high, n, x)
    PROVE  PassInv(results, low, high, n + 1, AfterPass(Score(results, low), x))
  <1> DEFINE b == Score(results, low)
             s == x.s
             i == x.i
             j == x.j
             right == LastAbove(s, b, i, j)
             left  == FirstBelow(s, b, i, right)
             t == Swapped(s, left, right)
             y == [s |-> t, i |-> left, j |-> right]
  <1>1. /\ s \in Seq(Result) /\ i \in Nat \ {0} /\ j \in Nat /\ i <= j /\ j <= Len(s)
        /\ low <= i /\ j <= high /\ Moved(results, s, low, high) /\ s[low] = results[low]
        /\ \A k \in low .. i : Score(s, k) >= b
        /\ \A k \in (j + 1) .. high : Score(s, k) <= b
        /\ i = j \/ j - i <= high - low - n
    BY DEF PassInv, Cursors, Met
  <1>2. AfterPass(b, x) = y
    BY DEF AfterPass
  <1>3. Len(s) = Len(results) /\ Len(s) \in Nat /\ DOMAIN s = 1 .. Len(s)
    BY <1>1 DEF Moved
  <1>4. b \in Int /\ \A k \in 1 .. Len(s) : Score(s, k) \in Int
    <2>1. \A q \in Result : q.relevance_score \in Int
      BY DEF Result
    <2>2. results[low] \in Result /\ \A k \in 1 .. Len(s) : s[k] \in Result
      BY <1>1, <1>3
    <2> QED
      BY <2>1, <2>2 DEF Score
  <1>5. y \in Cursors
    <2>1. x \in Cursors
      BY DEF PassInv
    <2> QED
      BY <2>1, <1>2, <1>4, PassTyped
  <1> HIDE DEF s, i, j, b
  <1>6. /\ right \in i .. j
        /\ right = i \/ Score(s, right) > b
        /\ \A k \in (right + 1) .. j : ~ (Score(s, k) > b)
    BY <1>1, LastAboveStops
  <1> HIDE DEF right
  <1>7. /\ left \in i .. right
        /\ left = right \/ Score(s, left) < b
        /\ \A k \in i .. (left - 1) : ~ (Score(s, k) < b)
    BY <1>1, <1>6, FirstBelowStops
  <1> HIDE DEF left
  <1>8. left \in low .. high /\ right \in low .. high
    BY <1>1, <1>6, <1>7
  <1>9. /\ Moved(s, t, low, high) /\ t[left] = s[right] /\ t[right] = s[left]
        /\ \A k \in DOMAIN s \ {left, right} : t[k] = s[k]
    BY <1>1, <1>3, <1>8, SwapMoves
  <1> HIDE DEF t
  <1>10. Moved(results, t, low, high)
    BY <1>1, <1>9, MovedTwice
  <1>11. /\ Score(t, left) = Score(s, right) /\ Score(t, right) = Score(s, left)
         /\ \A k \in DOMAIN s \ {left, right} : Score(t, k) = Score(s, k)
    BY <1>9 DEF Score
  <1>12. \A k \in (right + 1) .. high : Score(s, k) <= b
    <2> TAKE k \in (right + 1) .. high
    <2>1. k \in (right + 1) .. j \/ k \in (j + 1) .. high
      BY <1>1, <1>6
    <2>2. Score(s, k) \in Int
      BY <1>3, <1>4, <1>6, <1>1
    <2> QED
      BY <1>1, <1>6, <1>4, <2>1, <2>2
  <1>13. \A k \in (right + 1) .. high : Score(t, k) <= b
    <2> TAKE k \in (right + 1) .. high
    <2>1. k \in DOMAIN s \ {left, right}
      BY <1>1, <1>3, <1>6, <1>7
    <2> QED
      BY <1>11, <1>12, <2>1
  <1>14. /\ t[low] = results[low]
         /\ \A k \in low .. left : Score(t, k) >= b
         /\ left = right \/ right - left <= high - low - (n + 1)
    <2>1. CASE right = i
      <3>1. left = i
        BY <2>1, <1>7, <1>1
      <3>2. \A k \in DOMAIN s : t[k] = s[k]
        BY <2>1, <3>1, <1>9
      <3>3. low \in DOMAIN s /\ \A k \in low .. left : k \in DOMAIN s
        BY <1>1, <1>3, <1>8
      <3> QED
        BY <2>1, <3>1, <3>2, <3>3, <1>1 DEF Score
    <2>2. CASE right # i
      <3>1. Score(s, right) > b
        BY <2>2, <1>6
      <3>2. left # i
        <4>1. Score(s, i) >= b /\ Score(s, i) \in Int
          BY <1>1, <1>3, <1>4
        <4> QED
          BY <2>2, <4>1, <1>4, <1>7
      <3>3. low \in DOMAIN s \ {left, right}
        BY <3>2, <2>2, <1>1, <1>3, <1>6, <1>7
      <3>4. t[low] = results[low]
        BY <3>3, <1>1, <1>9
      <3>5. \A k \in low .. left : Score(t, k) >= b
        <4> TAKE k \in low .. left
        <4>1. CASE k = left
          <5>1. Score(s, right) \in Int
            BY <1>3, <1>4, <1>8, <1>1
          <5> QED
            BY <4>1, <3>1, <1>11, <5>1, <1>4
        <4>2. CASE k # left
          <5>1. k \in DOMAIN s \ {left, right} /\ k \in 1 .. Len(s)
            BY <4>2, <1>1, <1>3, <1>6, <1>7
          <5>2. k \in low .. i \/ k \in i .. (left - 1)
            BY <4>2, <1>1, <1>7, <1>8
          <5>3. Score(s, k) >= b
            BY <5>1, <5>2, <1>1, <1>4, <1>7
          <5> QED
            BY <5>1, <5>3, <1>11
        <4> QED
          BY <4>1, <4>2
      <3>6. right - left <= high - low - (n + 1)
        BY <3>2, <2>2, <1>1, <1>6, <1>7
      <3> QED
        BY <3>4, <3>5, <3>6
    <2> QED
      BY <2>1, <2>2
  <1> DEFINE z == AfterPass(Score(results, low), x)
  <1>15. z \in Cursors /\ z.s = t /\ z.i = left /\ z.j = right
    BY <1>2, <1>5 DEF b
  <1> HIDE DEF z
  <1>16. PassInv(results, low, high, n + 1, z)
    BY <1>8, <1>10, <1>13, <1>14, <1>15 DEF PassInv, Met, b
  <1> QED
    BY <1>16 DEF z

(* Where the pivot of a part goes, and the results once it is there.       *)
Middle(p) == partition(p.s, p.low, p.high).i

Parted(p) == Swapped(partition(p.s, p.low, p.high).s, p.low, Middle(p))

(* The parts to the left and, with the left one sorted, to the right.      *)
LeftPart(p) == Part(Parted(p), p.low, Middle(p) - 1)

RightPart(p, s) == Part(s, Middle(p) + 1, p.high)

LEMMA ScoreIsInt ==
    ASSUME NEW s \in Seq(Result), NEW k \in 1 .. Len(s)
    PROVE  s[k] \in Result /\ Score(s, k) \in Int
  <1>1. s[k] \in Result
    OBVIOUS
  <1> QED
    BY <1>1 DEF Result, Score

LEMMA PartIs ==
    ASSUME NEW p \in Parts
    PROVE  /\ p.s \in Seq(Result) /\ p.low \in Nat \ {0} /\ p.high \in Nat /\ p.high <= Len(p.s)
           /\ Len(p.s) \in Nat
  BY DEF Parts

LEMMA Parting ==
    ASSUME NEW p \in Parts, p.low < p.high
    PROVE  /\ Middle(p) \in p.low .. p.high
           /\ Moved(p.s, Parted(p), p.low, p.high)
           /\ \A k \in p.low .. Middle(p) : Score(Parted(p), k) >= Score(Parted(p), Middle(p))
           /\ \A k \in Middle(p) .. p.high : Score(Parted(p), k) <= Score(Parted(p), Middle(p))
  <1> DEFINE results == p.s
             low == p.low
             high == p.high
             f == Passes(results, low, high)
  <1>1. /\ results \in Seq(Result) /\ low \in Nat \ {0} /\ high \in Nat
        /\ low < high /\ high <= Len(results)
    BY PartIs
  <1> HIDE DEF results, low, high
  <1>2. PassRun(results, low, high, f)
    BY <1>1, PassesRun
  <1> HIDE DEF f
  <1>3. f \in [Nat -> Cursors] /\ f[0] = [s |-> results, i |-> low, j |-> high]
    BY <1>2 DEF PassRun
  <1>4. \A k \in 1 .. Len(results) : results[k] \in Result /\ Score(results, k) \in Int
    BY <1>1, ScoreIsInt
  <1> DEFINE T == {n \in Nat : PassInv(results, low, high, n, f[n])}
  <1>5. \A n \in Nat : n \in T
    <2>1. 0 \in T
      <3>1. f[0] \in Cursors
        BY <1>3
      <3>2. Moved(results, results, low, high)
        BY <1>1, MovedNot
      <3>3. Score(results, low) \in Int
        BY <1>1, <1>4
      <3>4. PassInv(results, low, high, 0, f[0])
        <4> DEFINE x == f[0]
        <4>1. x.s = results /\ x.i = low /\ x.j = high /\ x \in Cursors
          BY <1>3, <3>1
        <4> HIDE DEF x
        <4>2. PassInv(results, low, high, 0, x)
          BY <1>1, <3>2, <3>3, <4>1 DEF PassInv
        <4> QED
          BY <4>2 DEF x
      <3> QED
        BY <3>4
    <2>2. ASSUME NEW n \in Nat, n \in T PROVE n + 1 \in T
      <3> DEFINE x == f[n]
      <3>1. PassInv(results, low, high, n, x)
        BY <2>2
      <3>2. f[n + 1] = AfterPass(Score(results, low), x)
        BY <1>2 DEF PassRun
      <3> HIDE DEF x
      <3>3. PassInv(results, low, high, n + 1, AfterPass(Score(results, low), x))
        BY <1>1, <3>1, PassKeeps
      <3> QED
        BY <3>2, <3>3
    <2> HIDE DEF T
    <2> QED
      BY <2>1, <2>2, EveryNumber
  <1> DEFINE x == f[high - low]
             b == Score(results, low)
             s == x.s
             i == x.i
             t == Swapped(s, low, i)
  <1>6. PassInv(results, low, high, high - low, x)
    <2>1. high - low \in Nat
      BY <1>1
    <2> QED
      BY <1>5, <2>1
  <1> HIDE DEF x
  <1>7. /\ low <= i /\ i <= high /\ i \in Nat /\ x.j = i
        /\ s \in Seq(Result) /\ high <= Len(s)
        /\ Moved(results, s, low, high) /\ s[low] = results[low]
        /\ \A k \in low .. i : Score(s, k) >= b
        /\ \A k \in (i + 1) .. high : Score(s, k) <= b
    <2>1. x.i \in Nat /\ x.j \in Nat /\ x.i <= x.j /\ x.s \in Seq(Result)
      BY <1>6 DEF PassInv, Cursors
    <2>2. x.i = x.j
      BY <1>1, <1>6, <2>1 DEF PassInv, Met
    <2>3. high <= Len(x.s)
      BY <1>1, <1>6 DEF PassInv, Moved
    <2> QED
      BY <1>6, <2>1, <2>2, <2>3 DEF PassInv
  <1>8. Middle(p) = i /\ Parted(p) = t
    BY DEF Middle, Parted, partition, x, f, results, low, high
  <1> HIDE DEF s, i, b
  <1>9. low \in low .. high /\ i \in low .. high
    BY <1>1, <1>7
  <1>10. /\ Moved(s, t, low, high) /\ t[low] = s[i] /\ t[i] = s[low]
         /\ \A k \in DOMAIN s \ {low, i} : t[k] = s[k]
    BY <1>1, <1>7, <1>9, SwapMoves
  <1> HIDE DEF t
  <1>11. Moved(results, t, low, high)
    BY <1>1, <1>7, <1>10, MovedTwice
  <1>12. Score(t, i) = b
    BY <1>7, <1>10 DEF Score, b
  <1>13. b \in Int
    BY <1>1, <1>4 DEF b
  <1>14. \A k \in low .. i : Score(t, k) >= b
    <2> TAKE k \in low .. i
    <2>1. CASE k = i
      BY <2>1, <1>12, <1>13
    <2>2. CASE k # i /\ k = low
      <3>1. Score(t, k) = Score(s, i) /\ i \in low .. i
        BY <2>2, <1>10, <1>7, <1>1 DEF Score
      <3> QED
        BY <3>1, <1>7
    <2>3. CASE k # i /\ k # low
      <3>1. k \in DOMAIN s \ {low, i}
        BY <2>3, <1>1, <1>7
      <3>2. Score(t, k) = Score(s, k)
        BY <3>1, <1>10 DEF Score
      <3> QED
        BY <3>2, <1>7
    <2> QED
      BY <2>1, <2>2, <2>3
  <1>15. \A k \in i .. high : Score(t, k) <= b
    <2> TAKE k \in i .. high
    <2>1. CASE k = i
      BY <2>1, <1>12, <1>13
    <2>2. CASE k # i
      <3>1. k \in DOMAIN s \ {low, i} /\ k \in (i + 1) .. high
        BY <2>2, <1>1, <1>7
      <3>2. Score(t, k) = Score(s, k)
        BY <3>1, <1>10 DEF Score
      <3> QED
        BY <3>1, <3>2, <1>7
    <2> QED
      BY <2>1, <2>2
  <1>16. /\ i \in low .. high /\ Moved(results, t, low, high)
         /\ \A k \in low .. i : Score(t, k) >= Score(t, i)
         /\ \A k \in i .. high : Score(t, k) <= Score(t, i)
    BY <1>9, <1>11, <1>12, <1>14, <1>15
  <1> QED
    BY <1>8, <1>16 DEF results, low, high

(* What sorting a part makes of it: the parts around the pivot are sorted  *)
(* by f.                                                                   *)
SortedBy(f, p) ==
    IF p.low >= p.high THEN p.s ELSE f[RightPart(p, f[LeftPart(p)])]

Sorters == {f \in [Parts -> Seq(Result)] : \A p \in Parts : Len(f[p]) = Len(p.s)}

LEMMA SmallerParts ==
    ASSUME NEW p \in Parts, p.low < p.high
    PROVE  /\ LeftPart(p) \in Parts
           /\ LeftPart(p).high - LeftPart(p).low < p.high - p.low
           /\ \A s \in Seq(Result) : Len(s) = Len(p.s) =>
                  /\ RightPart(p, s) \in Parts
                  /\ RightPart(p, s).high - RightPart(p, s).low < p.high - p.low
           /\ Len(LeftPart(p).s) = Len(p.s)
  <1>1. Middle(p) \in p.low .. p.high /\ Parted(p) \in Seq(Result) /\ Len(Parted(p)) = Len(p.s)
    BY Parting DEF Moved
  <1> QED
    BY <1>1, PartIs DEF LeftPart, RightPart, Part, Parts

LEMMA SortedByTyped ==
    ASSUME NEW f \in Sorters, NEW p \in Parts
    PROVE  SortedBy(f, p) \in Seq(Result) /\ Len(SortedBy(f, p)) = Len(p.s)
  <1>1. CASE p.low >= p.high
    BY <1>1, PartIs DEF SortedBy
  <1>2. CASE p.low < p.high
    <2> DEFINE l == LeftPart(p)
               s == f[l]
               r == RightPart(p, s)
    <2>1. l \in Parts /\ Len(l.s) = Len(p.s)
      BY <1>2, SmallerParts
    <2> HIDE DEF l
    <2>2. s \in Seq(Result) /\ Len(s) = Len(p.s)
      BY <2>1 DEF Sorters
    <2> HIDE DEF s
    <2>3. r \in Parts /\ r.s = s
      BY <1>2, <2>2, SmallerParts DEF RightPart, Part
    <2> HIDE DEF r
    <2>4. f[r] \in Seq(Result) /\ Len(f[r]) = Len(p.s)
      BY <2>2, <2>3 DEF Sorters
    <2>5. SortedBy(f, p) = f[r]
      BY <1>2, PartIs DEF SortedBy, r, s, l
    <2> QED
      BY <2>4, <2>5
  <1> QED
    BY <1>1, <1>2, PartIs

(* Only what f does with smaller parts counts.                             *)
LEMMA SortedAlike ==
    ASSUME NEW f \in Sorters, NEW g, NEW p \in Parts,
           \A q \in Parts : q.high - q.low < p.high - p.low => f[q] = g[q]
    PROVE  SortedBy(f, p) = SortedBy(g, p)
  <1>1. CASE p.low >= p.high
    BY <1>1 DEF SortedBy
  <1>2. CASE p.low < p.high
    <2> DEFINE l == LeftPart(p)
               s == f[l]
               r == RightPart(p, s)
    <2>1. l \in Parts /\ Len(l.s) = Len(p.s) /\ f[l] = g[l]
      BY <1>2, SmallerParts
    <2> HIDE DEF l
    <2>2. s \in Seq(Result) /\ Len(s) = Len(p.s) /\ s = g[l]
      BY <2>1 DEF Sorters
    <2> HIDE DEF s
    <2>3. r \in Parts /\ r.high - r.low < p.high - p.low
      BY <1>2, <2>2, SmallerParts
    <2> HIDE DEF r
    <2>4. f[r] = g[r]
      BY <2>3
    <2> QED
      BY <1>2, <2>2, <2>4, PartIs DEF SortedBy, r, s, l
  <1> QED
    BY <1>1, <1>2, PartIs

(* Sorting is what its recursive definition says.                          *)
LEMMA SortDefined ==
    /\ sort_rerank_results \in Sorters
    /\ \A p \in Parts : sort_rerank_results[p] = SortedBy(sort_rerank_results, p)
  <1> DEFINE first == [p \in Parts |-> p.s]
             next  == [f \in Sorters |-> [p \in Parts |-> SortedBy(f, p)]]
  <1>1. first \in Sorters
    BY PartIs DEF Sorters
  <1>2. ASSUME NEW f \in Sorters PROVE [p \in Parts |-> SortedBy(f, p)] \in Sorters
    BY SortedByTyped DEF Sorters
  <1>3. PICK g : /\ g \in [Nat -> Sorters] /\ g[0] = first
                 /\ \A n \in Nat : g[n + 1] = next[g[n]]
    <2>1. IsStep(Sorters, next)
      BY <1>2 DEF IsStep
    <2> HIDE DEF first, next
    <2>2. PICK g : Repeats(Sorters, first, next, g)
      BY <1>1, <2>1, Iteration
    <2> QED
      BY <2>2 DEF Repeats
  <1>4. \A n \in Nat, p \in Parts : g[n + 1][p] = SortedBy(g[n], p)
    <2> TAKE n \in Nat, p \in Parts
    <2> DEFINE f == g[n]
    <2>1. f \in Sorters /\ g[n + 1] = next[f]
      BY <1>3
    <2> HIDE DEF f
    <2>2. next[f][p] = SortedBy(f, p)
      BY <2>1
    <2> QED
      BY <2>1, <2>2 DEF f
  <1>5. \A n \in Nat, p \in Parts : p.high < p.low => g[n][p] = p.s
    <2> TAKE n \in Nat, p \in Parts
    <2> HAVE p.high < p.low
    <2>1. CASE n = 0
      BY <2>1, <1>3
    <2>2. CASE n # 0
      <3>1. n - 1 \in Nat /\ (n - 1) + 1 = n
        BY <2>2
      <3>2. g[n][p] = SortedBy(g[n - 1], p)
        BY <1>4, <3>1
      <3> QED
        BY <3>2, PartIs DEF SortedBy
    <2> QED
      BY <2>1, <2>2
  <1> HIDE DEF first, next
  <1> DEFINE Settled == {n \in Nat : \A m \in Nat, p \in Parts :
                            n <= m /\ p.high - p.low < n => g[m][p] = g[n][p]}
  <1>6. \A n \in Nat : n \in Settled
    <2>1. 0 \in Settled
      <3>1. \A p \in Parts : p.high - p.low < 0 => p.high < p.low
        BY PartIs
      <3> QED
        BY <1>5, <3>1
    <2>2. ASSUME NEW n \in Nat, n \in Settled PROVE n + 1 \in Settled
      <3> SUFFICES ASSUME NEW m \in Nat, NEW p \in Parts, n + 1 <= m, p.high - p.low < n + 1
                   PROVE g[m][p] = g[n + 1][p]
        OBVIOUS
      <3>1. m - 1 \in Nat /\ (m - 1) + 1 = m /\ n <= m - 1
        OBVIOUS
      <3>2. g[m][p] = SortedBy(g[m - 1], p) /\ g[n + 1][p] = SortedBy(g[n], p)
        BY <1>4, <3>1
      <3>3. ASSUME NEW q \in Parts, q.high - q.low < p.high - p.low
            PROVE  g[m - 1][q] = g[n][q]
        <4>1. q.high - q.low < n
          BY <3>3, PartIs
        <4> QED
          BY <2>2, <3>1, <4>1
      <3>4. g[m - 1] \in Sorters
        BY <1>3, <3>1
      <3>5. SortedBy(g[m - 1], p) = SortedBy(g[n], p)
        <4> DEFINE u == g[m - 1]
                   v == g[n]
        <4>1. u \in Sorters
              /\ \A q \in Parts : q.high - q.low < p.high - p.low => u[q] = v[q]
          BY <3>3, <3>4
        <4> HIDE DEF u, v
        <4>2. SortedBy(u, p) = SortedBy(v, p)
          BY <4>1, SortedAlike
        <4> QED
          BY <4>2 DEF u, v
      <3> QED
        BY <3>2, <3>5
    <2> HIDE DEF Settled
    <2> QED
      BY <2>1, <2>2, EveryNumber
  <1> DEFINE F == [p \in Parts |-> g[p.high][p]]
  <1>7. F \in Sorters
    BY <1>3, PartIs DEF Sorters
  <1>8. ASSUME NEW p \in Parts PROVE F[p] = SortedBy(F, p)
    <2> DEFINE n == p.high
    <2>1. n \in Nat /\ n + 1 \in Nat /\ n <= n + 1 /\ p.high - p.low < n
      BY PartIs
    <2>2. g[n + 1][p] = g[n][p]
      BY <1>6, <2>1
    <2>3. ASSUME NEW q \in Parts, q.high - q.low < p.high - p.low PROVE F[q] = g[n][q]
      <3> DEFINE m == q.high
      <3>1. m \in Nat /\ q.high - q.low < m /\ q.high - q.low < n /\ (m <= n \/ n <= m)
        BY <2>1, <2>3, PartIs
      <3>2. F[q] = g[m][q]
        OBVIOUS
      <3> HIDE DEF m, n, F
      <3>3. CASE m <= n
        BY <1>6, <2>1, <3>1, <3>2, <3>3
      <3>4. CASE n <= m
        BY <1>6, <2>1, <3>1, <3>2, <3>4
      <3> QED
        BY <3>1, <3>3, <3>4
    <2>4. g[n + 1][p] = SortedBy(g[n], p)
      BY <1>4, <2>1
    <2>5. F[p] = g[n][p]
      OBVIOUS
    <2> DEFINE v == g[n]
    <2>6. \A q \in Parts : q.high - q.low < p.high - p.low => F[q] = v[q]
      BY <2>3
    <2> HIDE DEF v, F
    <2>7. SortedBy(F, p) = SortedBy(v, p)
      BY <1>7, <2>6, SortedAlike
    <2> QED
      BY <2>2, <2>4, <2>5, <2>7 DEF v
  <1> DEFINE Is(f) == f = [p \in Parts |-> SortedBy(f, p)]
             G == CHOOSE f : Is(f)
  <1>9. Is(F)
    <2>1. F = [p \in Parts |-> F[p]]
      OBVIOUS
    <2> HIDE DEF F
    <2> QED
      BY <1>8, <2>1
  <1>10. Is(G)
    <2> HIDE DEF Is
    <2> QED
      BY <1>9
  <1>11. sort_rerank_results = G
    BY DEF sort_rerank_results, SortedBy, LeftPart, RightPart, Parted, Middle
  <1> HIDE DEF G
  <1>12. \A p \in Parts : G[p] = SortedBy(G, p)
    BY <1>10
  <1>13. G \in Sorters
    <2> DEFINE Typed == {n \in Nat : \A p \in Parts : p.high - p.low < n =>
                             G[p] \in Seq(Result) /\ Len(G[p]) = Len(p.s) /\ G[p] = F[p]}
    <2> HIDE DEF F
    <2>1. 0 \in Typed
      <3>1. ASSUME NEW p \in Parts, p.high - p.low < 0
            PROVE  G[p] = p.s /\ F[p] = p.s
        BY <3>1, <1>8, <1>12, PartIs DEF SortedBy
      <3> QED
        BY <3>1, PartIs
    <2>2. ASSUME NEW n \in Nat, n \in Typed PROVE n + 1 \in Typed
      <3> SUFFICES ASSUME NEW p \in Parts, p.high - p.low < n + 1
                   PROVE  G[p] \in Seq(Result) /\ Len(G[p]) = Len(p.s) /\ G[p] = F[p]
        OBVIOUS
      <3>1. ASSUME NEW q \in Parts, q.high - q.low < p.high - p.low PROVE G[q] = F[q]
        <4>1. q.high - q.low < n
          BY <3>1, PartIs
        <4> QED
          BY <2>2, <4>1
      <3>2. SortedBy(G, p) = SortedBy(F, p)
        <4>1. \A q \in Parts : q.high - q.low < p.high - p.low => F[q] = G[q]
          BY <3>1
        <4> QED
          BY <1>7, <4>1, SortedAlike
      <3>3. G[p] = F[p]
        BY <1>8, <1>12, <3>2
      <3> QED
        BY <1>7, <3>3 DEF Sorters
    <2>3. \A n \in Nat : n \in Typed
      <3> HIDE DEF Typed
      <3> QED
        BY <2>1, <2>2, EveryNumber
    <2>4. ASSUME NEW p \in Parts PROVE G[p] \in Seq(Result) /\ Len(G[p]) = Len(p.s)
      <3>1. p.high \in Nat /\ p.high - p.low < p.high
        BY PartIs
      <3> QED
        BY <2>3, <3>1
    <2>5. G = [p \in Parts |-> G[p]]
      BY <1>10
    <2> QED
      BY <2>4, <2>5 DEF Sorters
  <1> QED
    BY <1>11, <1>12, <1>13

Ordered(s, low, high) == \A a, b \in low .. high : a < b => Score(s, a) >= Score(s, b)

(* A part whose sides are sorted around its pivot is sorted.               *)
LEMMA SidesOrder ==
    ASSUME NEW p \in Parts, p.low < p.high, NEW s, NEW t,
           Moved(Parted(p), s, p.low, Middle(p) - 1), Ordered(s, p.low, Middle(p) - 1),
           Moved(s, t, Middle(p) + 1, p.high), Ordered(t, Middle(p) + 1, p.high)
    PROVE  Moved(p.s, t, p.low, p.high) /\ Ordered(t, p.low, p.high)
  <1> DEFINE low == p.low
             high == p.high
             i == Middle(p)
             u == Parted(p)
             b == Score(u, i)
  <1>1. /\ low \in Nat \ {0} /\ high \in Nat /\ high <= Len(p.s) /\ p.s \in Seq(Result)
        /\ i \in low .. high /\ Moved(p.s, u, low, high)
        /\ \A k \in low .. i : Score(u, k) >= b
        /\ \A k \in i .. high : Score(u, k) <= b
    BY PartIs, Parting
  <1>2. /\ Moved(u, s, low, i - 1) /\ Ordered(s, low, i - 1)
        /\ Moved(s, t, i + 1, high) /\ Ordered(t, i + 1, high)
    OBVIOUS
  <1> HIDE DEF low, high, i, u
  <1>3. /\ u \in Seq(Result) /\ s \in Seq(Result) /\ t \in Seq(Result)
        /\ Len(u) = Len(p.s) /\ Len(s) = Len(p.s) /\ Len(t) = Len(p.s)
        /\ DOMAIN u = 1 .. Len(p.s) /\ DOMAIN s = 1 .. Len(p.s)
    <2>1. u \in Seq(Result) /\ Len(u) = Len(p.s) /\ DOMAIN u = 1 .. Len(p.s)
      BY <1>1, MovedTyped
    <2>2. s \in Seq(Result) /\ Len(s) = Len(u) /\ DOMAIN s = 1 .. Len(u)
      BY <1>2, MovedTyped
    <2>3. t \in Seq(Result) /\ Len(t) = Len(s)
      BY <1>2, MovedTyped
    <2> QED
      BY <2>1, <2>2, <2>3
  <1>4. Moved(u, s, low, high)
    BY <1>1, <1>2, <1>3, MovedWithin
  <1>5. Moved(s, t, low, high)
    BY <1>1, <1>2, <1>3, MovedWithin
  <1>6. Moved(p.s, t, low, high)
    <2> DEFINE q == p.s
    <2>1. q \in Seq(Result) /\ Moved(q, u, low, high)
      BY <1>1
    <2> HIDE DEF q
    <2>2. Moved(q, s, low, high)
      BY <1>4, <2>1, MovedTwice
    <2>3. Moved(q, t, low, high)
      BY <1>5, <2>1, <2>2, MovedTwice
    <2> QED
      BY <2>3 DEF q
  <1>7. \A k \in low .. high : Score(t, k) \in Int
    BY <1>1, <1>3, ScoreIsInt
  <1>8. b \in Int
    BY <1>1, <1>3, ScoreIsInt
  <1> HIDE DEF b
  <1>9. \A k \in low .. (i - 1) : t[k] = s[k] /\ \E m \in low .. i : s[k] = u[m]
    <2> TAKE k \in low .. (i - 1)
    <2>1. t[k] = s[k]
      <3>1. k \in DOMAIN s \ ((i + 1) .. high)
        BY <1>1, <1>3
      <3> QED
        BY <1>2, <3>1 DEF Moved
    <2>2. PICK m \in low .. (i - 1) : s[k] = u[m]
      BY <1>2 DEF Moved
    <2>3. m \in low .. i
      BY <1>1
    <2> QED
      BY <2>1, <2>2, <2>3
  <1>10. t[i] = u[i]
    <2>1. i \in DOMAIN s \ ((i + 1) .. high) /\ i \in DOMAIN u \ (low .. (i - 1))
      BY <1>1, <1>3
    <2> QED
      BY <1>2, <2>1 DEF Moved
  <1>11. \A k \in (i + 1) .. high : \E m \in i .. high : t[k] = u[m]
    <2> TAKE k \in (i + 1) .. high
    <2>1. PICK m \in (i + 1) .. high : t[k] = s[m]
      BY <1>2 DEF Moved
    <2>2. m \in DOMAIN u \ (low .. (i - 1)) /\ m \in i .. high
      BY <1>1, <1>3
    <2>3. s[m] = u[m]
      BY <1>2, <2>2 DEF Moved
    <2> QED
      BY <2>1, <2>2, <2>3
  <1>12. \A k \in low .. i : Score(t, k) >= b
    <2> TAKE k \in low .. i
    <2>1. k \in low .. (i - 1) \/ k = i
      BY <1>1
    <2>2. PICK m \in low .. i : t[k] = u[m]
      BY <1>9, <1>10, <2>1
    <2>3. Score(t, k) = Score(u, m)
      BY <2>2 DEF Score
    <2> QED
      BY <1>1, <2>3
  <1>13. \A k \in i .. high : Score(t, k) <= b
    <2> TAKE k \in i .. high
    <2>1. k \in (i + 1) .. high \/ k = i
      BY <1>1
    <2>2. PICK m \in i .. high : t[k] = u[m]
      BY <1>10, <1>11, <2>1
    <2>3. Score(t, k) = Score(u, m)
      BY <2>2 DEF Score
    <2> QED
      BY <1>1, <2>3
  <1>14. ASSUME NEW k \in low .. high, NEW m \in low .. high, k < m
         PROVE  Score(t, k) >= Score(t, m)
    <2>1. CASE k <= i /\ i <= m
      <3>1. k \in low .. i /\ m \in i .. high
        BY <1>1, <2>1
      <3> QED
        BY <1>7, <1>8, <1>12, <1>13, <3>1
    <2>2. CASE m < i
      <3>1. k \in low .. (i - 1) /\ m \in low .. (i - 1)
        BY <1>1, <1>14, <2>2
      <3>2. Score(s, k) >= Score(s, m)
        BY <1>2, <1>14, <3>1 DEF Ordered
      <3> QED
        BY <1>9, <3>1, <3>2 DEF Score
    <2>3. CASE i < k
      <3>1. k \in (i + 1) .. high /\ m \in (i + 1) .. high
        BY <1>1, <1>14, <2>3
      <3> QED
        BY <1>2, <1>14, <3>1 DEF Ordered
    <2> QED
      BY <1>1, <1>14, <2>1, <2>2, <2>3
  <1> QED
    BY <1>6, <1>14 DEF Ordered, low, high

(***************************************************************************)
(* sort_rerank_results puts the results of a part in descending order of   *)
(* their scores, whatever they are: it only moves them, and only within    *)
(* the part.                                                               *)
(***************************************************************************)
THEOREM SortRanks ==
    ASSUME NEW p \in Parts
    PROVE  /\ Moved(p.s, sort_rerank_results[p], p.low, p.high)
           /\ Ordered(sort_rerank_results[p], p.low, p.high)
  <1> DEFINE F == sort_rerank_results
             Right(q) == Moved(q.s, F[q], q.low, q.high) /\ Ordered(F[q], q.low, q.high)
             Done == {n \in Nat : \A q \in Parts : q.high - q.low < n => Right(q)}
  <1>1. F \in Sorters /\ \A q \in Parts : F[q] = SortedBy(F, q)
    BY SortDefined
  <1> HIDE DEF F
  <1>2. ASSUME NEW q \in Parts, q.low >= q.high PROVE Right(q)
    <2> DEFINE s == q.s
               low == q.low
               high == q.high
    <2>1. s \in Seq(Result) /\ F[q] = s /\ low \in Nat /\ high \in Nat /\ low >= high
      BY <1>1, <1>2, PartIs DEF SortedBy
    <2> HIDE DEF s, low, high
    <2>2. Moved(s, s, low, high) /\ Ordered(s, low, high)
      BY <2>1, MovedNot DEF Ordered
    <2> QED
      BY <2>1, <2>2 DEF s, low, high
  <1>3. ASSUME NEW q \in Parts, q.low < q.high,
               \A r \in Parts : r.high - r.low < q.high - q.low => Right(r)
        PROVE  Right(q)
    <2> DEFINE l == LeftPart(q)
               s == F[l]
               r == RightPart(q, s)
               t == F[r]
    <2>1. /\ l \in Parts /\ Len(l.s) = Len(q.s) /\ l.high - l.low < q.high - q.low
          /\ l.s = Parted(q) /\ l.low = q.low /\ l.high = Middle(q) - 1
      BY <1>3, SmallerParts DEF LeftPart, Part
    <2> HIDE DEF l
    <2>2. s \in Seq(Result) /\ Len(s) = Len(q.s)
      BY <1>1, <2>1 DEF Sorters
    <2>3. Right(l)
      BY <1>3, <2>1
    <2> HIDE DEF Right
    <2>4. Moved(Parted(q), s, q.low, Middle(q) - 1) /\ Ordered(s, q.low, Middle(q) - 1)
      BY <2>1, <2>3 DEF Right
    <2> HIDE DEF s
    <2>5. /\ r \in Parts /\ r.high - r.low < q.high - q.low
          /\ r.s = s /\ r.low = Middle(q) + 1 /\ r.high = q.high
      BY <1>3, <2>2, SmallerParts DEF RightPart, Part
    <2> HIDE DEF r
    <2>6. Right(r)
      BY <1>3, <2>5
    <2>7. Moved(s, t, Middle(q) + 1, q.high) /\ Ordered(t, Middle(q) + 1, q.high)
      BY <2>5, <2>6 DEF Right
    <2> HIDE DEF t
    <2>8. Moved(q.s, t, q.low, q.high) /\ Ordered(t, q.low, q.high)
      BY <1>3, <2>4, <2>7, SidesOrder
    <2>9. F[q] = t
      BY <1>1, <1>3, PartIs DEF SortedBy, t, r, s, l
    <2> QED
      BY <2>8, <2>9 DEF Right
  <1> HIDE DEF Right
  <1>4. \A n \in Nat : n \in Done
    <2>1. 0 \in Done
      <3>1. \A q \in Parts : q.high - q.low < 0 => q.low >= q.high
        BY PartIs
      <3> QED
        BY <1>2, <3>1
    <2>2. ASSUME NEW n \in Nat, n \in Done PROVE n + 1 \in Done
      <3> SUFFICES ASSUME NEW q \in Parts, q.high - q.low < n + 1 PROVE Right(q)
        OBVIOUS
      <3>1. CASE q.low >= q.high
        BY <1>2, <3>1
      <3>2. CASE q.low < q.high
        <4>1. \A r \in Parts : r.high - r.low < q.high - q.low => r.high - r.low < n
          BY PartIs
        <4>2. \A r \in Parts : r.high - r.low < q.high - q.low => Right(r)
          BY <2>2, <4>1
        <4> QED
          BY <1>3, <3>2, <4>2
      <3> QED
        BY <3>1, <3>2, PartIs
    <2> HIDE DEF Done
    <2> QED
      BY <2>1, <2>2, EveryNumber
  <1>5. Right(p)
    <2>1. p.high \in Nat /\ p.high - p.low < p.high
      BY PartIs
    <2> QED
      BY <1>4, <2>1
  <1> QED
    BY <1>5 DEF Right, F

(* A list as long as its indexes are distinct has that many of them.       *)
LEMMA KeptCount ==
    ASSUME NEW t \in Seq(Result), NEW n \in Nat, n <= Len(t), Distinct(t)
    PROVE  Cardinality({t[i].index : i \in 1 .. n}) = n
  <1> DEFINE Kept == {t[i].index : i \in 1 .. n}
             f == [i \in 1 .. n |-> t[i].index]
  <1>1. f \in Bijection(1 .. n, Kept)
    <2>1. f \in [1 .. n -> Kept] /\ \A y \in Kept : \E i \in 1 .. n : f[i] = y
      OBVIOUS
    <2>2. \A i, j \in 1 .. n : f[i] = f[j] => i = j
      BY DEF Distinct
    <2> DEFINE S == 1 .. n
    <2>3. f \in [S -> Kept] /\ \A y \in Kept : \E i \in S : f[i] = y
      BY <2>1
    <2>4. \A i, j \in S : f[i] = f[j] => i = j
      BY <2>2
    <2> HIDE DEF f, Kept, S
    <2>5. f \in Bijection(S, Kept)
      BY <2>3, <2>4 DEF Bijection, Injection, Surjection, IsInjective
    <2> QED
      BY <2>5 DEF S
  <1>2. IsFiniteSet(1 .. n) /\ Cardinality(1 .. n) = n
    BY FS_Interval
  <1> HIDE DEF f, Kept
  <1>3. Cardinality(Kept) = Cardinality(1 .. n)
    <2>1. ExistsBijection(1 .. n, Kept)
      BY <1>1 DEF ExistsBijection
    <2> QED
      BY <1>2, <2>1, FS_Bijection
  <1> QED
    BY <1>2, <1>3 DEF Kept

(***************************************************************************)
(* The answer of a rerank request ranks its documents, for every list of   *)
(* scores and every top_n: as many as were asked for, in order, none       *)
(* twice, each under its own score, and nothing cut off above what was     *)
(* kept (sort_rerank_results and embeddings_task::to_json).                *)
(***************************************************************************)
THEOREM RankingIsRight == \A n \in 1 .. MaxDocuments : RankingOf[n]
  <1> SUFFICES ASSUME NEW n \in 1 .. MaxDocuments, NEW scores \in [1 .. n -> Scores],
                      NEW top_n \in 1 .. n
               PROVE  /\ Len(Ranked(scores, top_n)) = top_n
                      /\ Ranks(Ranked(scores, top_n), scores)
    BY DEF RankingOf
  <1> DEFINE results == [i \in DOMAIN scores |-> [index |-> i, relevance_score |-> scores[i]]]
             p == Part(results, 1, Len(scores))
             t == sort_rerank_results[p]
             ranked == SubSeq(t, 1, top_n)
  <1>1. n \in Nat /\ Len(scores) = n /\ DOMAIN scores = 1 .. n /\ top_n \in Nat /\ top_n <= n
        /\ \A k \in 1 .. n : scores[k] \in Int
    <2>1. n \in Nat /\ top_n \in Nat /\ top_n <= n /\ Scores \subseteq Int
      BY RerankAssumption
    <2>2. scores \in [1 .. n -> Scores]
      OBVIOUS
    <2>3. scores \in Seq(Scores) /\ Len(scores) = n /\ DOMAIN scores = 1 .. n
      BY <2>1, <2>2
    <2> QED
      BY <2>1, <2>2, <2>3
  <1>2. results \in Seq(Result) /\ Len(results) = n /\ DOMAIN results = 1 .. n
    <2>1. \A i \in 1 .. n : [index |-> i, relevance_score |-> scores[i]] \in Result
      BY <1>1 DEF Result
    <2>2. results \in [1 .. n -> Result]
      BY <1>1, <2>1
    <2> HIDE DEF results
    <2> QED
      BY <1>1, <2>2
  <1>3. \A i \in 1 .. n : results[i].index = i /\ results[i].relevance_score = scores[i]
    BY <1>1
  <1>4. Ranked(scores, top_n) = ranked
    BY DEF Ranked
  <1> HIDE DEF results
  <1>5. p \in Parts /\ p.s = results /\ p.low = 1 /\ p.high = n
    BY <1>1, <1>2 DEF Part, Parts
  <1> HIDE DEF p
  <1>6. Moved(results, t, 1, n) /\ Ordered(t, 1, n)
    BY <1>5, SortRanks
  <1> HIDE DEF t
  <1>7. t \in Seq(Result) /\ Len(t) = n /\ DOMAIN t = 1 .. n
    BY <1>2, <1>6, MovedTyped
  <1>8. Distinct(t)
    <2>1. Distinct(results)
      BY <1>2, <1>3 DEF Distinct
    <2> QED
      BY <1>6, <2>1 DEF Moved
  <1>9. \A i \in 1 .. n : t[i].index \in 1 .. n /\ t[i].relevance_score = scores[t[i].index]
                          /\ Score(t, i) = scores[t[i].index]
    <2> TAKE i \in 1 .. n
    <2>1. PICK m \in 1 .. n : t[i] = results[m]
      BY <1>6 DEF Moved
    <2> QED
      BY <1>3, <2>1 DEF Score
  <1>10. /\ Len(ranked) = top_n /\ DOMAIN ranked = 1 .. top_n
         /\ \A i \in 1 .. top_n : ranked[i] = t[i]
    BY <1>1, <1>7
  <1> HIDE DEF ranked
  <1> DEFINE kept == {ranked[i].index : i \in DOMAIN ranked}
  <1>11. kept = {t[i].index : i \in 1 .. top_n}
    BY <1>10
  <1>12. Cardinality(kept) = Len(ranked)
    BY <1>1, <1>7, <1>8, <1>10, <1>11, KeptCount
  <1>13. \A i \in DOMAIN ranked : ranked[i].relevance_score = scores[ranked[i].index]
    BY <1>1, <1>9, <1>10
  <1>14. \A i, j \in DOMAIN ranked : i < j => ranked[i].relevance_score >= ranked[j].relevance_score
    BY <1>1, <1>6, <1>10 DEF Ordered, Score
  <1>15. ASSUME NEW i \in DOMAIN ranked, NEW k \in DOMAIN scores \ kept
         PROVE  ranked[i].relevance_score >= scores[k]
    <2>1. PICK m \in 1 .. n : t[m] = results[k]
      BY <1>1, <1>6 DEF Moved
    <2>2. t[m].index = k /\ Score(t, m) = scores[k]
      BY <1>1, <1>3, <2>1 DEF Score
    <2>3. m \notin 1 .. top_n
      BY <1>11, <2>2
    <2>4. i \in 1 .. n /\ i < m
      BY <1>1, <1>10, <2>3
    <2>5. Score(t, i) >= Score(t, m)
      BY <1>6, <2>4 DEF Ordered
    <2> QED
      BY <1>10, <2>2, <2>5 DEF Score
  <1>16. Ranks(ranked, scores)
    BY <1>12, <1>13, <1>14, <1>15 DEF Ranks
  <1> QED
    BY <1>4, <1>10, <1>16

(***************************************************************************)
(* Whatever its documents score and however many of them it wants, the     *)
(* answer of a rerank request ranks them (RankedByScore).                  *)
(***************************************************************************)
THEOREM DocumentsRanked == Spec => []RankedByScore
  <1>1. RankedByScore
    BY RankingIsRight DEF RankedByScore
  <1> QED
    BY <1>1, PTL
=============================================================================
