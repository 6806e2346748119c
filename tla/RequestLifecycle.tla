-------------------------- MODULE RequestLifecycle --------------------------
(***************************************************************************)
(* The way of a request through llama-box/httpserver.hpp:                  *)
(* httpserver::process on the HTTP threads, the queue process_tasks, the   *)
(* result queue process_task_results[tid] of each thread, and what the     *)
(* reconcile thread posts there: the rounds of completions, at the rate a  *)
(* token bucket allows, or images, which on_chunk() may write in pieces.   *)
(*                                                                         *)
(* A result queue belongs to a thread, not to a request: whatever is left  *)
(* in it is read by the next request the thread serves.  The reconcile     *)
(* thread learns of a closed connection by polling it after every token,   *)
(* and not at all while it makes images, an HTTP thread by failing to      *)
(* write.  How CompletionScheduler batches the tasks is left out; here a   *)
(* task is processed at any time.                                          *)
(***************************************************************************)
EXTENDS TokenBucket, Sequences, FiniteSets

CONSTANTS
    Requests,
    NoRequest,  \* a thread that serves nobody
    Threads,    \* HTTP threads, named by get_task_id
    Mixes,      \* what the requests may ask for, together
    ChunkSize   \* "chunk_size", in units of a base64 text

(* What is asked for.  tokens bounds what is generated before the last     *)
(* round; drafted is how many tokens a draft may add to a round; asked is  *)
(* the header that limits the rate; size is what an image takes, in units  *)
(* of its text.                                                            *)
Completion(stream, closes, tokens, drafted, asked) ==
    [type |-> "completion", stream |-> stream, closes |-> closes, tokens |-> tokens, drafted |-> drafted,
     asked |-> asked, n |-> 0, preview |-> FALSE, chunk |-> FALSE, size |-> 0]

Pictures(stream, closes, n, preview, chunk, size) ==
    [type |-> "images", stream |-> stream, closes |-> closes, tokens |-> 0, drafted |-> 0,
     asked |-> <<>>, n |-> n, preview |-> preview, chunk |-> chunk, size |-> size]

Wishes == [type : {"completion", "images"}, stream : BOOLEAN, closes : BOOLEAN, tokens : Nat, drafted : Nat,
           asked : Seq(Int), n : Nat, preview : BOOLEAN, chunk : BOOLEAN, size : Nat]

ASSUME LifecycleAssumption ==
    /\ IsFiniteSet(Requests) /\ IsFiniteSet(Threads) /\ Threads # {}
    /\ NoRequest \notin Requests
    /\ \A mix \in Mixes :
        /\ DOMAIN mix \subseteq Requests /\ mix \in [DOMAIN mix -> Wishes]
        /\ \A r \in DOMAIN mix :
            /\ mix[r].type = "images" => mix[r].n >= 1 /\ mix[r].size >= 1 /\ mix[r].asked = <<>>
            /\ mix[r].type = "completion" => ~mix[r].chunk
    /\ ChunkSize \in Nat \ {0}

VARIABLES
    req,        \* what each request asks for
    serving,    \* the request each thread is in process() or on_chunk() for
    blocked,    \* the threads in wait_dequeue, on their result queue
    writing,    \* what on_chunk() still has to write of a result it took
    tid,        \* btask::id, the thread that enqueued each request's task
    task,       \* where the task of each request is
    generated,  \* tokens generated, or images attempted, for it
    images,     \* b64_jsons that are not moved out yet, and failed ones
    bucket,     \* token_bucket
    recent,     \* tokens of rounds that began in this half of a second and the last
    closed,     \* the requests whose connection is closed
    process_task_results,
    received,   \* what was sent to each client
    returned    \* the requests whose handler is done

http_vars == <<serving, blocked, writing, received, returned>>
rate_vars == <<bucket, recent>>
vars == <<req, http_vars, tid, task, generated, images, rate_vars, closed, process_task_results>>

Asking  == DOMAIN req
Streams == {r \in Asking : req[r].stream}

(* A result of request r: its number-th, or its end, and the images in it. *)
result(r, number, status, b64) == [of |-> r, number |-> number, status |-> status, b64 |-> b64]

Init ==
    /\ req \in Mixes
    /\ serving = [h \in Threads |-> NoRequest]
    /\ blocked = {}
    /\ writing = [h \in Threads |-> <<>>]
    /\ tid \in [Asking -> {CHOOSE h \in Threads : TRUE}]
    /\ task = [r \in Asking |-> "unsent"]
    /\ generated = [r \in Asking |-> 0]
    /\ images = [r \in Asking |-> [b64 |-> {}, failed |-> {}]]
    /\ bucket = [r \in Asking |-> NewBucket(0)]
    /\ recent = [r \in Asking |-> <<0, 0>>]
    /\ closed = {}
    /\ process_task_results = [h \in Threads |-> <<>>]
    /\ received = [r \in Asking |-> <<>>]
    /\ returned = {}

Served(r) == \E h \in Threads : serving[h] = r

-----------------------------------------------------------------------------
(* HTTP threads and clients.                                               *)

(* A completion that asks for more than the server's rate is refused.      *)
Refuse(h, r) ==
    /\ serving[h] = NoRequest
    /\ task[r] = "unsent" /\ req[r].type = "completion" /\ Gone(req[r].asked)
    /\ task' = [task EXCEPT ![r] = "refused"]
    /\ returned' = returned \cup {r}
    /\ UNCHANGED <<req, serving, blocked, writing, received, tid, generated, images, rate_vars, closed, process_task_results>>

(* process(): the task is enqueued.  Then the thread waits for its result, *)
(* or returns to the HTTP library, which calls on_chunk() until it is done.*)
Enqueue(h, r) ==
    /\ serving[h] = NoRequest
    /\ task[r] = "unsent" /\ (req[r].type = "completion" => ~Gone(req[r].asked))
    /\ serving' = [serving EXCEPT ![h] = r]
    /\ blocked' = IF r \in Streams THEN blocked ELSE blocked \cup {h}
    /\ tid' = [tid EXCEPT ![r] = h]
    /\ task' = [task EXCEPT ![r] = "queued"]
    /\ bucket' = [bucket EXCEPT ![r] = NewBucket(TpsFor(req[r].asked))]
    /\ UNCHANGED <<req, generated, images, recent, closed, process_task_results, writing, received, returned>>

Disconnect(r) ==
    /\ req[r].closes /\ r \notin closed
    /\ Served(r)
    /\ closed' = closed \cup {r}
    /\ UNCHANGED <<req, http_vars, tid, task, generated, images, rate_vars, process_task_results>>

Return(h) ==
    /\ serving' = [serving EXCEPT ![h] = NoRequest]
    /\ writing' = [writing EXCEPT ![h] = <<>>]
    /\ blocked' = blocked \ {h}
    /\ returned' = returned \cup {serving[h]}

(* on_chunk() is done, and called again if `pending` says so.              *)
Poll(h, pending) ==
    IF pending THEN blocked' = blocked \ {h} /\ UNCHANGED <<serving, returned, writing>>
    ELSE Return(h)

Takes(h) ==
    /\ h \in blocked
    /\ process_task_results[h] # <<>>
    /\ process_task_results' = [process_task_results EXCEPT ![h] = Tail(@)]

Sends(h, sent) == received' = [received EXCEPT ![serving[h]] = Append(@, sent)]

(* One result answers a request that does not stream; send_json sends      *)
(* nothing on a closed connection.                                         *)
Answer(h) ==
    /\ serving[h] \in Asking \ Streams
    /\ Takes(h)
    /\ IF serving[h] \in closed THEN UNCHANGED received ELSE Sends(h, Head(process_task_results[h]))
    /\ Return(h)
    /\ UNCHANGED <<req, tid, task, generated, images, rate_vars, closed>>

(* The HTTP library calls on_chunk() only while it can write.              *)
PollStream(h) ==
    /\ serving[h] \in Streams
    /\ h \notin blocked /\ writing[h] = <<>>
    /\ IF serving[h] \in closed
       THEN Return(h)
       ELSE blocked' = blocked \cup {h} /\ UNCHANGED <<serving, returned, writing>>
    /\ UNCHANGED <<req, tid, task, generated, images, rate_vars, closed, process_task_results, received>>

(* Whether on_chunk() writes a result in pieces.                           *)
InPieces(h, taken) == req[serving[h]].chunk /\ taken.b64 # {}

(* Mutant: every result ends the stream.                                   *)
Chunk_Once(h) ==
    LET taken == Head(process_task_results[h])
    IN  /\ serving[h] \in Streams \ closed
        /\ Takes(h)
        /\ ~InPieces(h, taken)
        /\ Sends(h, taken)
        /\ Return(h)
        /\ UNCHANGED <<req, tid, task, generated, images, rate_vars, closed>>

(* on_chunk(): one result is written; anything but a 100 ends the stream.  *)
Chunk(h) ==
    LET taken == Head(process_task_results[h])
    IN  /\ serving[h] \in Streams \ closed
        /\ Takes(h)
        /\ ~InPieces(h, taken)
        /\ Sends(h, taken)
        /\ Poll(h, taken.status = "continue")
        /\ UNCHANGED <<req, tid, task, generated, images, rate_vars, closed>>

(* on_chunk() takes a result, finds the connection closed and gives up.    *)
ChunkFails(h) ==
    /\ serving[h] \in Streams \cap closed
    /\ Takes(h)
    /\ ~InPieces(h, Head(process_task_results[h]))
    /\ Return(h)
    /\ UNCHANGED <<req, tid, task, generated, images, rate_vars, closed, received>>

(* Mutant: every piece has the status of the whole.                        *)
PiecesOf_EachEnds(taken, size) ==
    [k \in 1 .. size \div ChunkSize |-> taken]
    \o IF size % ChunkSize = 0 THEN <<>> ELSE <<[taken EXCEPT !.status = "throws"]>>

(* The pieces of a text: all but the last are followed by more.  What is   *)
(* left beyond a multiple of chunk_size is cut off behind its end, which   *)
(* throws before it is written.                                            *)
PiecesOf(taken, size) ==
    [k \in 1 .. size \div ChunkSize |->
        IF k * ChunkSize = size THEN taken ELSE [taken EXCEPT !.status = "continue", !.b64 = {}]]
    \o IF size % ChunkSize = 0 THEN <<>> ELSE <<[taken EXCEPT !.status = "throws"]>>

(* Pieces are written within one on_chunk().                               *)
TakePieces(h) ==
    LET taken == Head(process_task_results[h])
    IN  /\ serving[h] \in Streams
        /\ Takes(h)
        /\ InPieces(h, taken)
        /\ blocked' = blocked \ {h}
        /\ writing' = [writing EXCEPT ![h] = PiecesOf(taken, req[serving[h]].size)]
        /\ UNCHANGED <<req, serving, tid, task, generated, images, rate_vars, closed, received, returned>>

(* What becomes of the thread after the exception is not in src/: here it  *)
(* is never seen again.                                                    *)
WritePiece(h) ==
    LET piece == Head(writing[h])
        left  == Tail(writing[h])
    IN  /\ writing[h] # <<>> /\ piece.status # "throws"
        /\ IF serving[h] \in closed THEN Return(h) /\ UNCHANGED received
           ELSE /\ Sends(h, piece)
                /\ IF left # <<>>
                   THEN writing' = [writing EXCEPT ![h] = left] /\ UNCHANGED <<serving, blocked, returned>>
                   ELSE IF piece.status = "continue"
                   THEN writing' = [writing EXCEPT ![h] = <<>>] /\ UNCHANGED <<serving, blocked, returned>>
                   ELSE Return(h)
        /\ UNCHANGED <<req, tid, task, generated, images, rate_vars, closed, process_task_results>>

-----------------------------------------------------------------------------
(* The reconcile thread, for one task of its batch.                        *)

(* Mutant: the newest result is read first.                                *)
Posts_InFront(r, results) ==
    process_task_results' = [process_task_results EXCEPT ![tid[r]] = results \o @]

Posts(r, results) ==
    process_task_results' = [process_task_results EXCEPT ![tid[r]] = @ \o results]

(* What a round yields: a token, and those of its draft that are accepted. *)
Yields(r) == IF generated[r] = 0 THEN {1} ELSE 1 .. 1 + req[r].drafted

(* The round of the prompt is free, every other takes one token of the     *)
(* bucket, whatever it yields; without it the task waits for the next.     *)
Acquire(r, yield) ==
    IF generated[r] = 0 \/ bucket[r].rate = 0 THEN UNCHANGED rate_vars
    ELSE /\ CanAcquire(bucket[r])
         /\ bucket' = [bucket EXCEPT ![r] = Acquired(@)]
         /\ recent' = [recent EXCEPT ![r][1] = @ + yield]

(* The results of a round: one for each token of the text, fewer if some   *)
(* have none or all are sent as one, and none if the text is held back.    *)
Deltas(r, n) == [k \in 1 .. n |-> result(r, generated[r] + k, "continue", {})]

(* Mutant: a request that does not stream gets its tokens one by one too.  *)
Sample_ForAll(r) ==
    /\ req[r].type = "completion"
    /\ task[r] = "queued"
    /\ \E yield \in Yields(r) :
        /\ generated[r] + yield <= req[r].tokens
        /\ Acquire(r, yield)
        /\ generated' = [generated EXCEPT ![r] = @ + yield]
        /\ Posts(r, Deltas(r, yield))
    /\ task' = [task EXCEPT ![r] = "sampled"]
    /\ UNCHANGED <<req, http_vars, tid, images, closed>>

(* A round that does not end the generation: a streaming task posts what   *)
(* it yields.                                                              *)
Sample(r) ==
    /\ req[r].type = "completion"
    /\ task[r] = "queued"
    /\ \E yield \in Yields(r) :
        /\ generated[r] + yield <= req[r].tokens
        /\ Acquire(r, yield)
        /\ generated' = [generated EXCEPT ![r] = @ + yield]
        /\ \E n \in IF r \in Streams THEN 0 .. yield ELSE {0} : Posts(r, Deltas(r, n))
    /\ task' = [task EXCEPT ![r] = "sampled"]
    /\ UNCHANGED <<req, http_vars, tid, images, closed>>

(* Then its connection is polled: open, the task waits for the next round. *)
(* When its handler has returned, either answer is possible.               *)
Requeue(r) ==
    /\ task[r] = "sampled"
    /\ r \notin closed \/ r \in returned
    /\ task' = [task EXCEPT ![r] = "queued"]
    /\ UNCHANGED <<req, http_vars, tid, generated, images, rate_vars, closed, process_task_results>>

(* Closed, the task is destroyed and nothing is posted.                    *)
Drop(r) ==
    /\ task[r] = "sampled"
    /\ r \in closed
    /\ task' = [task EXCEPT ![r] = "destroyed"]
    /\ UNCHANGED <<req, http_vars, tid, generated, images, rate_vars, closed, process_task_results>>

(* The generation ends, or decoding fails.                                 *)
Finish(r) ==
    /\ req[r].type = "completion"
    /\ task[r] = "queued"
    /\ task' = [task EXCEPT ![r] = "destroyed"]
    /\ \E status \in {"ok", "error"} :
        /\ \E yield \in IF status = "ok" THEN Yields(r) ELSE {0} : Acquire(r, yield)
        /\ Posts(r, <<result(r, generated[r] + 1, status, {})>>)
    /\ UNCHANGED <<req, http_vars, tid, generated, images, closed>>

(* Mutant: to_json() moves the image out for its preview.                  *)
ToJson_PreviewMoves(r, n) ==
    LET preview == result(r, 2 * n - 1, "continue", {n})
        final   == result(r, 2 * n, "continue", IF req[r].preview THEN {} ELSE {n})
    IN  (IF req[r].preview THEN <<preview>> ELSE <<>>) \o (IF n < req[r].n THEN <<final>> ELSE <<>>)

(* What a stream is sent of image n: a copy for its preview, and itself,   *)
(* unless it is the last, which comes with the end.                        *)
ToJson(r, n) ==
    LET preview == result(r, 2 * n - 1, "continue", {n})
        final   == result(r, 2 * n, "continue", {n})
    IN  (IF req[r].preview THEN <<preview>> ELSE <<>>) \o (IF n < req[r].n THEN <<final>> ELSE <<>>)

(* An image is made in one step, or fails; nobody asks whether the client  *)
(* is still there.                                                         *)
Render(r) ==
    LET n == generated[r] + 1
    IN  /\ req[r].type = "images"
        /\ task[r] = "queued" /\ generated[r] < req[r].n
        /\ generated' = [generated EXCEPT ![r] = n]
        /\ \/ /\ images' = [images EXCEPT ![r].failed = @ \cup {n}]
              /\ UNCHANGED process_task_results
           \/ /\ images' = [images EXCEPT ![r].b64 = IF r \in Streams /\ n < req[r].n THEN @ ELSE @ \cup {n}]
              /\ IF r \in Streams THEN Posts(r, ToJson(r, n)) ELSE UNCHANGED process_task_results
        /\ UNCHANGED <<req, http_vars, tid, task, rate_vars, closed>>

(* All images, or the last one of a stream, end the request.               *)
FinishImages(r) ==
    /\ req[r].type = "images"
    /\ task[r] = "queued" /\ generated[r] = req[r].n
    /\ task' = [task EXCEPT ![r] = "destroyed"]
    /\ LET status == IF images[r].failed = {} THEN "ok" ELSE "error"
       IN  Posts(r, <<result(r, 2 * req[r].n, status, images[r].b64)>>)
    /\ UNCHANGED <<req, http_vars, tid, generated, images, rate_vars, closed>>

(* Half a second passes.                                                   *)
Tick ==
    /\ bucket' = [r \in Asking |-> IF task[r] \in {"queued", "sampled"} THEN Aged(bucket[r]) ELSE bucket[r]]
    /\ recent' = [r \in Asking |-> <<0, recent[r][1]>>]
    /\ \E r \in Asking : bucket[r].rate > 0
    /\ UNCHANGED <<req, http_vars, tid, task, generated, images, closed, process_task_results>>

-----------------------------------------------------------------------------

http_thread(h) == Answer(h) \/ PollStream(h) \/ Chunk(h) \/ ChunkFails(h) \/ TakePieces(h) \/ WritePiece(h)

Process(r) == Sample(r) \/ Requeue(r) \/ Drop(r) \/ Finish(r) \/ Render(r) \/ FinishImages(r)

Next ==
    \/ \E h \in Threads, r \in Asking : Refuse(h, r) \/ Enqueue(h, r)
    \/ \E r \in Asking : Disconnect(r)
    \/ \E h \in Threads : http_thread(h)
    \/ \E r \in Asking : Process(r)
    \/ Tick

Spec == Init /\ [][Next]_vars

(* Every thread runs, time passes, and the reconcile thread processes      *)
(* every queued task (what CompletionScheduler's Answered shows).  Clients *)
(* owe nothing.                                                            *)
FairSpec ==
    /\ Spec
    /\ \A h \in Threads : WF_vars(http_thread(h))
    /\ \A r \in Requests : WF_vars(r \in Asking /\ Process(r))
    /\ WF_vars(Tick)

-----------------------------------------------------------------------------
(***************************************************************************)
(* A client is sent only results of its own request.                       *)
(***************************************************************************)
OwnResults == \A r \in Asking : \A i \in DOMAIN received[r] : received[r][i].of = r

(***************************************************************************)
(* Nobody is sent anything after an end, not even by a handler that reads  *)
(* what an abandoned stream left in its queue, or writes an end in pieces. *)
(***************************************************************************)
EndIsLast ==
    \A r \in Asking : \A i, j \in DOMAIN received[r] :
        i < j => received[r][i].status = "continue"

(***************************************************************************)
(* Wherever a disconnect leaves them, the results of a request wait only   *)
(* in the queue of the thread that enqueued it, in the order they were     *)
(* generated.                                                              *)
(***************************************************************************)
PostedInOrder ==
    \A h \in Threads : \A i, j \in DOMAIN process_task_results[h] :
        LET first  == process_task_results[h][i]
            second == process_task_results[h][j]
        IN  /\ tid[first.of] = h
            /\ i < j /\ first.of = second.of =>
                   first.number < second.number /\ first.status = "continue"

(* A thread that served a stream whose client left.                        *)
Tainted(h) == \E r \in closed \cap Streams : tid[r] = h

(***************************************************************************)
(* A thread finds in its result queue only what belongs to the request it  *)
(* serves, unless the client of a stream left that very thread: a request  *)
(* that is answered, fails or is cut off leaves nothing behind, and no     *)
(* result strays to another thread.                                        *)
(***************************************************************************)
CleanUnlessAbandoned ==
    \A h \in Threads : \A i \in DOMAIN process_task_results[h] :
        process_task_results[h][i].of = serving[h] \/ Tainted(h)

(***************************************************************************)
(* However many images are asked for, whichever of them fail and whether   *)
(* they stream, in pieces or after previews: each one that was made is     *)
(* sent once, or once more as its preview, and all of them before the end, *)
(* which is an error if one failed.                                        *)
(***************************************************************************)
ImagesSent ==
    \A r \in {q \in Asking : req[q].type = "images"} :
        LET own       == {i \in DOMAIN received[r] : received[r][i].of = r}
            shown(n)  == Cardinality({i \in own : n \in received[r][i].b64})
            wanted(n) == IF n \in images[r].failed THEN 0 ELSE IF r \in Streams /\ req[r].preview THEN 2 ELSE 1
        IN  \A n \in 1 .. req[r].n :
                /\ shown(n) <= wanted(n)
                /\ \A i \in own : received[r][i].status # "continue" =>
                    /\ shown(n) = wanted(n)
                    /\ received[r][i].status = "ok" <=> images[r].failed = {}

(***************************************************************************)
(* Within a second the rounds of a request are at most twice its rate -    *)
(* what was left in the bucket, and one refill - and each yields no more   *)
(* than a token and its draft: with drafts a request gets more tokens than *)
(* its rate says, but never more than so many times as many.  Its rate is  *)
(* not above the server's.                                                 *)
(***************************************************************************)
RateKept ==
    \A r \in Asking : bucket[r].rate > 0 =>
        /\ bucket[r].rate <= n_tps
        /\ recent[r][1] + recent[r][2] <= 2 * bucket[r].rate * (1 + req[r].drafted)

(* An image in pieces that its size does not divide into never ends.       *)
Throws(r) == req[r].chunk /\ req[r].size % ChunkSize # 0

(***************************************************************************)
(* A client that stays is sent the end of its own request, at whatever     *)
(* rate, unless an abandoned stream used the thread that serves it, or its *)
(* images do not divide into pieces.                                       *)
(***************************************************************************)
EndsSent ==
    \A r \in Requests :
        (r \in Asking /\ task[r] = "queued") ~> r \in Asking /\
            \/ r \in closed
            \/ \E i \in DOMAIN received[r] : received[r][i].of = r /\ received[r][i].status # "continue"
            \/ Tainted(tid[r])
            \/ Throws(r)
=============================================================================
