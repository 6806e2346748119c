----------------------- MODULE RequestLifecycleProofs -----------------------
(***************************************************************************)
(* What RequestLifecycle keeps to for every number of requests and HTTP    *)
(* threads, whatever is asked for: the results of a request stay in order, *)
(* an end is the last that a client is sent, the result queues are clean,  *)
(* every image that was made is sent, and a token bucket keeps its rate.   *)
(***************************************************************************)
EXTENDS RequestLifecycle, SequenceTheorems, FiniteSetTheorems, TLAPS

Tasks == {"unsent", "refused", "queued", "sampled", "destroyed"}

Results == [of : Asking, number : Nat, status : {"continue", "ok", "error", "throws"}, b64 : SUBSET Nat]

Typed ==
    /\ req \in Mixes
    /\ serving \in [Threads -> Asking \cup {NoRequest}]
    /\ blocked \subseteq Threads
    /\ writing \in [Threads -> Seq(Results)]
    /\ tid \in [Asking -> Threads]
    /\ task \in [Asking -> Tasks]
    /\ generated \in [Asking -> Nat]
    /\ images \in [Asking -> [b64 : SUBSET Nat, failed : SUBSET Nat]]
    /\ closed \subseteq Asking
    /\ process_task_results \in [Threads -> Seq(Results)]
    /\ received \in [Asking -> Seq(Results)]
    /\ returned \subseteq Asking

LEMMA Asked ==
    ASSUME Typed, NEW r \in Asking
    PROVE  /\ r \in Requests /\ r # NoRequest
           /\ req[r] \in Wishes
           /\ req[r].type = "images" => req[r].n >= 1 /\ req[r].size >= 1 /\ req[r].asked = <<>>
           /\ req[r].type = "completion" => ~req[r].chunk
  BY LifecycleAssumption DEF Typed, Asking

LEMMA SettingTypes == ChunkSize \in Nat /\ ChunkSize > 0 /\ n_tps \in Nat
  BY LifecycleAssumption, TpsAssumption

-----------------------------------------------------------------------------
(***************************************************************************)
(* The token bucket.                                                       *)
(***************************************************************************)

Buckets == [rate : Nat, tokens_remain : Nat, age : 0 .. Second]

LEMMA MinOfTwo ==
    ASSUME NEW a \in Int, NEW b \in Int
    PROVE  Min({a, b}) = IF a <= b THEN a ELSE b
  <1> DEFINE m == IF a <= b THEN a ELSE b
  <1>1. m \in {a, b} /\ \A y \in {a, b} : m <= y
    OBVIOUS
  <1>2. \A x \in {a, b} : (\A y \in {a, b} : x <= y) => x = m
    OBVIOUS
  <1> HIDE DEF m
  <1> QED
    BY <1>1, <1>2 DEF Min

(* An aged bucket.                                                         *)
LEMMA AgedBucket ==
    ASSUME NEW b \in Buckets
    PROVE  /\ Aged(b) \in Buckets
           /\ Aged(b).rate = b.rate /\ Aged(b).tokens_remain = b.tokens_remain
           /\ Aged(b).age = IF b.age < Second THEN b.age + 1 ELSE Second
  <1>1. Min({Second, b.age + 1}) = IF b.age < Second THEN b.age + 1 ELSE Second
    <2>1. Second \in Int /\ b.age + 1 \in Int /\ b.age \in 0 .. Second
      BY DEF Buckets, Second
    <2> QED
      BY <2>1, MinOfTwo
  <1> DEFINE age == Min({Second, b.age + 1})
  <1>2. age \in 0 .. Second
    BY <1>1 DEF Buckets, Second
  <1>3. Aged(b) = [b EXCEPT !.age = age]
    BY DEF Aged
  <1> HIDE DEF age
  <1>4. /\ Aged(b) \in Buckets /\ Aged(b).rate = b.rate
        /\ Aged(b).tokens_remain = b.tokens_remain /\ Aged(b).age = age
    BY <1>2, <1>3 DEF Buckets
  <1> QED
    BY <1>1, <1>4 DEF age

(* A token comes from what remains, or from a refill after a whole second. *)
LEMMA AcquiredBucket ==
    ASSUME NEW b \in Buckets, b.rate > 0, CanAcquire(b)
    PROVE  /\ Acquired(b) \in Buckets
           /\ Acquired(b).rate = b.rate
           /\ \/ /\ b.tokens_remain >= 1
                 /\ Acquired(b).tokens_remain = b.tokens_remain - 1 /\ Acquired(b).age = b.age
              \/ /\ b.tokens_remain = 0 /\ b.age = Second
                 /\ Acquired(b).tokens_remain = b.rate - 1 /\ Acquired(b).age = 0
  <1>1. b.rate \in Nat /\ b.tokens_remain \in Nat /\ b.age \in 0 .. Second
    BY DEF Buckets
  <1>2. CASE b.tokens_remain >= 1
    <2>1. Acquired(b) = [b EXCEPT !.tokens_remain = b.tokens_remain - 1]
      BY <1>1, <1>2 DEF Acquired, Ready
    <2> QED
      BY <1>1, <1>2, <2>1 DEF Buckets
  <1>3. CASE b.tokens_remain = 0
    <2>1. Ready(b) = Refilled(b) /\ Ready(b).tokens_remain >= 1
      BY <1>1, <1>3 DEF CanAcquire, Ready
    <2>2. b.age = Second
      BY <1>1, <1>3, <2>1 DEF Refilled, Second
    <2> DEFINE full == Min({b.rate, b.tokens_remain + b.rate})
    <2>3. full = b.rate
      BY <1>1, <1>3, MinOfTwo
    <2>4. Ready(b) = [b EXCEPT !.tokens_remain = full, !.age = 0]
      BY <2>1, <2>2 DEF Refilled, Second
    <2> HIDE DEF full
    <2>5. Acquired(b) = [Ready(b) EXCEPT !.tokens_remain = @ - 1]
      BY <1>1 DEF Acquired
    <2>6. /\ Ready(b) \in Buckets /\ Ready(b).rate = b.rate
          /\ Ready(b).tokens_remain = b.rate /\ Ready(b).age = 0
      <3>1. Ready(b) = [b EXCEPT !.tokens_remain = b.rate, !.age = 0] /\ 0 \in 0 .. Second
        BY <2>3, <2>4 DEF Second
      <3> HIDE DEF Ready
      <3> QED
        BY <1>1, <3>1 DEF Buckets
    <2> HIDE DEF Ready
    <2>7. /\ Acquired(b) \in Buckets /\ Acquired(b).rate = b.rate
          /\ Acquired(b).tokens_remain = b.rate - 1 /\ Acquired(b).age = 0
      BY <1>1, <2>5, <2>6 DEF Buckets
    <2> QED
      BY <1>3, <2>2, <2>7
  <1> QED
    BY <1>1, <1>2, <1>3

(* The rate a handler gives a request is within the server's limit.        *)
LEMMA NewBucketRate ==
    ASSUME NEW asked \in Seq(Int), ~Gone(asked)
    PROVE  /\ NewBucket(TpsFor(asked)) \in Buckets
           /\ NewBucket(TpsFor(asked)).rate <= n_tps
           /\ NewBucket(TpsFor(asked)).tokens_remain = NewBucket(TpsFor(asked)).rate
           /\ NewBucket(TpsFor(asked)).age = 0
  <1>1. TpsFor(asked) \in Nat /\ TpsFor(asked) <= n_tps
    <2>1. asked # <<>> => asked[1] \in Int
      BY ElementOfSeq, EmptySeq
    <2> QED
      BY <2>1, TpsAssumption DEF TpsFor, Gone
  <1> QED
    BY <1>1 DEF NewBucket, Buckets, Second

-----------------------------------------------------------------------------
(***************************************************************************)
(* Results.                                                                *)
(***************************************************************************)

LEMMA ResultType ==
    ASSUME NEW r \in Asking, NEW number \in Nat,
           NEW status \in {"continue", "ok", "error", "throws"}, NEW b64 \in SUBSET Nat
    PROVE  result(r, number, status, b64) \in Results
  BY DEF result, Results

LEMMA Single ==
    ASSUME NEW S, NEW x \in S
    PROVE  <<x>> \in Seq(S) /\ Len(<<x>>) = 1 /\ <<x>>[1] = x
  OBVIOUS

(* Where a result of a queue that was read, or written to, came from.      *)
LEMMA TailOf ==
    ASSUME NEW S, NEW q \in Seq(S), q # <<>>
    PROVE  /\ Tail(q) \in Seq(S) /\ Len(Tail(q)) = Len(q) - 1 /\ Len(q) \in Nat /\ Len(q) > 0
           /\ \A i \in 1 .. Len(Tail(q)) : Tail(q)[i] = q[i + 1] /\ i + 1 \in 1 .. Len(q)
           /\ Head(q) = q[1] /\ Head(q) \in S
  BY HeadTailProperties, LenProperties

(* What is posted of a round.                                              *)
LEMMA DeltasAre ==
    ASSUME Typed, NEW r \in Asking, NEW n \in Nat
    PROVE  /\ Deltas(r, n) \in Seq(Results) /\ Len(Deltas(r, n)) = n
           /\ \A i \in 1 .. n : /\ Deltas(r, n)[i].of = r /\ Deltas(r, n)[i].status = "continue"
                               /\ Deltas(r, n)[i].number = generated[r] + i
  <1> DEFINE x(i) == result(r, generated[r] + i, "continue", {})
  <1>1. generated[r] \in Nat
    BY DEF Typed
  <1>2. ASSUME NEW i \in 1 .. n
        PROVE  /\ x(i) \in Results /\ x(i).of = r /\ x(i).status = "continue"
               /\ x(i).number = generated[r] + i
    <2>1. generated[r] + i \in Nat
      BY <1>1
    <2> QED
      BY <2>1, ResultType DEF result
  <1>3. Deltas(r, n) = [i \in 1 .. n |-> x(i)]
    BY DEF Deltas
  <1> HIDE DEF x
  <1>4. Deltas(r, n) \in [1 .. n -> Results] /\ \A i \in 1 .. n : Deltas(r, n)[i] = x(i)
    BY <1>2, <1>3
  <1>5. Deltas(r, n) \in Seq(Results) /\ Len(Deltas(r, n)) = n
    BY <1>4
  <1> QED
    BY <1>2, <1>4, <1>5

(* A round that does not end the generation.                               *)
LEMMA SampleIs ==
    ASSUME Typed, NEW r \in Asking, Sample(r)
    PROVE  /\ req[r].type = "completion" /\ task[r] = "queued" /\ task' = [task EXCEPT ![r] = "sampled"]
           /\ \E yield \in Nat \ {0} : \E n \in 0 .. yield :
                  /\ yield <= 1 + req[r].drafted
                  /\ Acquire(r, yield) /\ generated' = [generated EXCEPT ![r] = @ + yield]
                  /\ Posts(r, Deltas(r, n)) /\ (n > 0 => r \in Streams)
  <1>1. req[r].drafted \in Nat
    BY Asked DEF Wishes
  <1>2. PICK yield \in Yields(r) :
            /\ Acquire(r, yield) /\ generated' = [generated EXCEPT ![r] = @ + yield]
            /\ \E n \in IF r \in Streams THEN 0 .. yield ELSE {0} : Posts(r, Deltas(r, n))
    BY DEF Sample
  <1>3. yield \in Nat \ {0} /\ yield <= 1 + req[r].drafted
    BY <1>1, <1>2 DEF Yields
  <1>4. PICK n \in 0 .. yield : Posts(r, Deltas(r, n)) /\ (n > 0 => r \in Streams)
    <2>1. CASE r \in Streams
      BY <1>2, <2>1
    <2>2. CASE r \notin Streams
      BY <1>2, <1>3, <2>2
    <2> QED
      BY <2>1, <2>2
  <1> QED
    BY <1>2, <1>3, <1>4 DEF Sample

(* What is sent of an image: its preview, and itself unless it is the last.*)
LEMMA Rendered ==
    ASSUME Typed, NEW r \in Asking, NEW n \in Nat, n >= 1
    PROVE  /\ ToJson(r, n) \in Seq(Results)
           /\ \A i \in 1 .. Len(ToJson(r, n)) :
                  LET x == ToJson(r, n)[i]
                  IN  /\ x.of = r /\ x.status = "continue" /\ x.b64 = {n}
                      /\ x.number >= 2 * n - 1
                      /\ x.number <= IF n < req[r].n THEN 2 * n ELSE 2 * n - 1
                      /\ x.number = 2 * n - 1 => req[r].preview
           /\ \A i, j \in 1 .. Len(ToJson(r, n)) :
                  i < j => ToJson(r, n)[i].number < ToJson(r, n)[j].number
           /\ req[r].preview => \E i \in 1 .. Len(ToJson(r, n)) : ToJson(r, n)[i].number = 2 * n - 1
           /\ n < req[r].n => \E i \in 1 .. Len(ToJson(r, n)) : ToJson(r, n)[i].number = 2 * n
  <1> DEFINE preview == result(r, 2 * n - 1, "continue", {n})
             final   == result(r, 2 * n, "continue", {n})
             early   == IF req[r].preview THEN <<preview>> ELSE <<>>
             late    == IF n < req[r].n THEN <<final>> ELSE <<>>
  <1>1. /\ preview \in Results /\ preview.of = r /\ preview.number = 2 * n - 1
        /\ preview.status = "continue" /\ preview.b64 = {n}
        /\ final \in Results /\ final.of = r /\ final.number = 2 * n
        /\ final.status = "continue" /\ final.b64 = {n}
    BY DEF result, Results
  <1>2. ToJson(r, n) = early \o late
    BY DEF ToJson
  <1>3. req[r].n \in Nat
    BY Asked DEF Wishes
  <1> HIDE DEF preview, final
  <1>4. /\ early \in Seq(Results) /\ Len(early) \in {0, 1}
        /\ (Len(early) = 1 => early[1] = preview /\ req[r].preview) /\ (req[r].preview => Len(early) = 1)
        /\ late \in Seq(Results) /\ Len(late) \in {0, 1}
        /\ (Len(late) = 1 => late[1] = final /\ n < req[r].n) /\ (n < req[r].n => Len(late) = 1)
    BY <1>1, EmptySeq, Single
  <1> HIDE DEF early, late
  <1> DEFINE both == early \o late
  <1>5. /\ both \in Seq(Results)
        /\ Len(both) = Len(early) + Len(late)
        /\ \A i \in 1 .. Len(both) : both[i] = IF i <= Len(early) THEN early[i] ELSE late[i - Len(early)]
    BY <1>4, ConcatProperties
  <1>6. \A i \in 1 .. Len(both) :
            (both[i] = preview /\ req[r].preview) \/ (both[i] = final /\ n < req[r].n)
    BY <1>4, <1>5
  <1>7. \A i, j \in 1 .. Len(both) : i < j => both[i] = preview /\ both[j] = final
    BY <1>4, <1>5
  <1> HIDE DEF both
  <1>8. \A i \in 1 .. Len(both) :
            /\ both[i].of = r /\ both[i].status = "continue" /\ both[i].b64 = {n}
            /\ both[i].number >= 2 * n - 1
            /\ both[i].number <= IF n < req[r].n THEN 2 * n ELSE 2 * n - 1
    BY <1>1, <1>3, <1>6
  <1>12. \A i \in 1 .. Len(both) : both[i].number = 2 * n - 1 => req[r].preview
    <2>1. final.number # preview.number
      BY <1>1
    <2> QED
      BY <1>1, <1>6, <2>1, Zenon
  <1>9. \A i, j \in 1 .. Len(both) : i < j => both[i].number < both[j].number
    BY <1>1, <1>7
  <1>10. req[r].preview => \E i \in 1 .. Len(both) : both[i].number = 2 * n - 1
    <2> HAVE req[r].preview
    <2>1. Len(early) = 1 /\ early[1] = preview
      BY <1>4
    <2>2. 1 \in 1 .. Len(both) /\ both[1] = preview
      BY <1>4, <1>5, <2>1
    <2> QED
      BY <1>1, <2>2
  <1>11. n < req[r].n => \E i \in 1 .. Len(both) : both[i].number = 2 * n
    <2> HAVE n < req[r].n
    <2> DEFINE k == Len(early) + 1
    <2>1. k \in 1 .. Len(both) /\ both[k] = late[1] /\ late[1] = final
      BY <1>4, <1>5
    <2> QED
      BY <1>1, <2>1
  <1> QED
    BY <1>2, <1>5, <1>8, <1>9, <1>10, <1>11, <1>12 DEF both

LEMMA MultipleModulo ==
    ASSUME NEW x \in Nat, NEW y \in Nat \ {0}, NEW k \in Nat, x = k * y
    PROVE  x % y = 0
  OBVIOUS

LEMMA Division ==
    ASSUME NEW x \in Nat, NEW y \in Nat \ {0}
    PROVE  /\ x \div y \in Nat
           /\ \A k \in Nat : k * y = x => x % y = 0 /\ k = x \div y
  <1>1. x \div y \in Nat
    OBVIOUS
  <1>2. x % y = 0 => x = (x \div y) * y
    OBVIOUS
  <1>3. ASSUME NEW k \in Nat, k * y = x PROVE x % y = 0 /\ k = x \div y
    <2>1. x % y = 0
      BY <1>3, MultipleModulo
    <2> DEFINE q == x \div y
    <2>2. q \in Nat /\ k * y = q * y
      BY <1>1, <1>2, <1>3, <2>1
    <2> HIDE DEF q
    <2>3. k = q
      BY <2>2
    <2> QED
      BY <2>1, <2>3 DEF q
  <1> QED
    BY <1>1, <1>3

(* All pieces but the last one are followed by more.                       *)
LEMMA Pieces ==
    ASSUME NEW taken \in Results, NEW size \in Nat
    PROVE  /\ PiecesOf(taken, size) \in Seq(Results)
           /\ \A i \in 1 .. Len(PiecesOf(taken, size)) :
                  LET piece == PiecesOf(taken, size)[i]
                  IN  /\ piece.of = taken.of
                      /\ piece.number = taken.number /\ piece.b64 \in {{}, taken.b64}
                      /\ piece.status \in {"continue", "throws"} \/ piece = taken
                      /\ i < Len(PiecesOf(taken, size)) => piece.status = "continue" /\ piece.b64 = {}
           /\ size >= 1 =>
                  /\ Len(PiecesOf(taken, size)) >= 1
                  /\ PiecesOf(taken, size)[Len(PiecesOf(taken, size))].b64 = taken.b64
  <1> DEFINE m == size \div ChunkSize
             whole == [k \in 1 .. m |->
                          IF k * ChunkSize = size THEN taken
                          ELSE [taken EXCEPT !.status = "continue", !.b64 = {}]]
             rest  == IF size % ChunkSize = 0 THEN <<>> ELSE <<[taken EXCEPT !.status = "throws"]>>
             pieces == whole \o rest
  <1>1. PiecesOf(taken, size) = pieces
    BY DEF PiecesOf
  <1>2. m \in Nat
    BY SettingTypes, Division
  <1>3. \A k \in 1 .. m : k * ChunkSize = size => k = m /\ size % ChunkSize = 0
    BY SettingTypes, Division
  <1>11. size % ChunkSize = 0 => m * ChunkSize = size
    BY SettingTypes
  <1> HIDE DEF m
  <1> DEFINE middle == [taken EXCEPT !.status = "continue", !.b64 = {}]
             throws == [taken EXCEPT !.status = "throws"]
  <1>4. /\ middle \in Results /\ middle.of = taken.of /\ middle.status = "continue"
        /\ middle.number = taken.number /\ middle.b64 = {}
        /\ throws \in Results /\ throws.of = taken.of /\ throws.status = "throws"
        /\ throws.number = taken.number /\ throws.b64 = taken.b64
    BY DEF Results
  <1>5. /\ whole \in Seq(Results) /\ Len(whole) = m
        /\ \A k \in 1 .. m : whole[k] = IF k * ChunkSize = size THEN taken ELSE middle
    <2> HIDE DEF middle
    <2>1. \A k \in 1 .. m : (IF k * ChunkSize = size THEN taken ELSE middle) \in Results
      BY <1>4
    <2>2. whole = [k \in 1 .. m |-> IF k * ChunkSize = size THEN taken ELSE middle]
      BY DEF middle
    <2> HIDE DEF whole
    <2> QED
      BY <1>2, <2>1, <2>2
  <1>6. /\ rest \in Seq(Results)
        /\ rest = <<>> \/ (Len(rest) = 1 /\ rest[1] = throws /\ size % ChunkSize # 0)
    <2> HIDE DEF throws
    <2>1. rest = IF size % ChunkSize = 0 THEN <<>> ELSE <<throws>>
      BY DEF throws
    <2> HIDE DEF rest
    <2> QED
      BY <1>4, <2>1, EmptySeq, Single
  <1>12. size % ChunkSize # 0 => Len(rest) = 1
    BY Single
  <1> HIDE DEF middle, throws, whole, rest
  <1>7. /\ pieces \in Seq(Results) /\ Len(pieces) = m + Len(rest)
        /\ \A i \in 1 .. m + Len(rest) : pieces[i] = IF i <= m THEN whole[i] ELSE rest[i - m]
    BY <1>5, <1>6, ConcatProperties
  <1> HIDE DEF pieces
  <1>8. Len(rest) = 0 \/ (Len(rest) = 1 /\ rest[1] = throws /\ size % ChunkSize # 0)
    BY <1>6, EmptySeq
  <1>9. ASSUME NEW i \in 1 .. Len(pieces)
        PROVE  /\ pieces[i].of = taken.of
               /\ pieces[i].number = taken.number /\ pieces[i].b64 \in {{}, taken.b64}
               /\ pieces[i].status \in {"continue", "throws"} \/ pieces[i] = taken
               /\ i < Len(pieces) => pieces[i].status = "continue" /\ pieces[i].b64 = {}
    <2>1. CASE i <= m
      <3>1. pieces[i] = taken \/ pieces[i] = middle
        BY <1>2, <1>5, <1>7, <1>8, <2>1
      <3>2. i < Len(pieces) => pieces[i] = middle
        BY <1>2, <1>3, <1>5, <1>7, <1>8, <2>1
      <3> QED
        BY <1>4, <3>1, <3>2
    <2>2. CASE i > m
      BY <1>2, <1>4, <1>7, <1>8, <2>2
    <2> QED
      BY <1>2, <2>1, <2>2
  <1>10. ASSUME size >= 1
         PROVE  Len(pieces) >= 1 /\ pieces[Len(pieces)].b64 = taken.b64
    <2>1. CASE size % ChunkSize = 0
      <3>1. m * ChunkSize = size /\ Len(rest) = 0
        BY <1>2, <1>6, <1>8, <1>11, <2>1, EmptySeq
      <3>2. m >= 1
        BY <1>2, <1>10, <3>1, SettingTypes
      <3> QED
        BY <1>2, <1>5, <1>7, <3>1, <3>2
    <2>2. CASE size % ChunkSize # 0
      <3>1. Len(rest) = 1 /\ rest[1] = throws
        BY <1>8, <1>12, <2>2
      <3> QED
        BY <1>2, <1>4, <1>7, <3>1
    <2> QED
      BY <2>1, <2>2
  <1> QED
    BY <1>1, <1>7, <1>9, <1>10

-----------------------------------------------------------------------------
(***************************************************************************)
(* Types.                                                                  *)
(***************************************************************************)

(* What is left alone by everything that only moves results.               *)
HandlerTyped ==
    /\ serving \in [Threads -> Asking \cup {NoRequest}]
    /\ blocked \subseteq Threads
    /\ writing \in [Threads -> Seq(Results)]
    /\ returned \subseteq Asking

LEMMA ReturnType ==
    ASSUME Typed, NEW h \in Threads, serving[h] \in Asking, req' = req, Return(h)
    PROVE  HandlerTyped'
  BY EmptySeq DEF Return, Typed, HandlerTyped, Asking, Results

LEMMA TakesType ==
    ASSUME Typed, NEW h \in Threads, Takes(h), req' = req
    PROVE  /\ process_task_results' \in [Threads -> Seq(Results)]
           /\ Head(process_task_results[h]) \in Results
           /\ process_task_results[h] \in Seq(Results) /\ process_task_results[h] # <<>>
  <1>1. process_task_results[h] \in Seq(Results) /\ process_task_results[h] # <<>>
    BY DEF Takes, Typed
  <1>2. Tail(process_task_results[h]) \in Seq(Results) /\ Head(process_task_results[h]) \in Results
    BY <1>1, TailOf
  <1> QED
    BY <1>1, <1>2 DEF Takes, Typed

LEMMA SendsType ==
    ASSUME Typed, NEW h \in Threads, serving[h] \in Asking, NEW sent \in Results, Sends(h, sent)
    PROVE  received' \in [Asking -> Seq(Results)]
  <1>1. Append(received[serving[h]], sent) \in Seq(Results)
    BY AppendProperties DEF Typed
  <1> QED
    BY <1>1 DEF Sends, Typed

LEMMA PostsType ==
    ASSUME Typed, NEW r \in Asking, NEW results \in Seq(Results), Posts(r, results)
    PROVE  process_task_results' \in [Threads -> Seq(Results)]
  <1>1. tid[r] \in Threads /\ process_task_results[tid[r]] \o results \in Seq(Results)
    BY ConcatProperties DEF Typed
  <1> QED
    BY <1>1 DEF Posts, Typed

LEMMA TypedHttp ==
    ASSUME Typed, NEW h \in Threads, http_thread(h), writing[h] # <<>> => serving[h] \in Asking
    PROVE  Typed'
  <1>0. /\ req' = req /\ Asking' = Asking /\ Results' = Results
        /\ UNCHANGED <<tid, task, generated, images, closed>>
    BY DEF http_thread, Answer, PollStream, Chunk, ChunkFails, TakePieces, WritePiece, Asking, Results
  <1> SUFFICES /\ HandlerTyped'
               /\ process_task_results' \in [Threads -> Seq(Results)]
               /\ received' \in [Asking -> Seq(Results)]
    BY <1>0 DEF Typed, HandlerTyped
  <1>1. HandlerTyped
    BY DEF Typed, HandlerTyped
  <1>2. CASE Answer(h)
    <2>1. serving[h] \in Asking /\ Takes(h) /\ Return(h)
      BY <1>2 DEF Answer
    <2>2. received' = received \/ Sends(h, Head(process_task_results[h]))
      BY <1>2 DEF Answer
    <2> QED
      BY <1>0, <2>1, <2>2, ReturnType, TakesType, SendsType DEF Typed
  <1>3. CASE PollStream(h)
    <2>1. serving[h] \in Asking /\ process_task_results' = process_task_results /\ received' = received
      BY <1>3 DEF PollStream, Streams
    <2>2. CASE Return(h)
      BY <1>0, <2>1, <2>2, ReturnType DEF Typed
    <2>3. CASE blocked' = blocked \cup {h} /\ UNCHANGED <<serving, returned, writing>>
      BY <1>0, <2>1, <2>3 DEF Typed, HandlerTyped
    <2> QED
      BY <1>3, <2>2, <2>3 DEF PollStream
  <1>4. CASE Chunk(h)
    <2>1. serving[h] \in Asking /\ Takes(h) /\ Sends(h, Head(process_task_results[h]))
      BY <1>4 DEF Chunk, Streams
    <2>2. HandlerTyped'
      <3>1. CASE Return(h)
        BY <1>0, <2>1, <3>1, ReturnType
      <3>2. CASE blocked' = blocked \ {h} /\ UNCHANGED <<serving, returned, writing>>
        BY <1>0, <1>1, <3>2 DEF HandlerTyped
      <3> QED
        BY <1>4, <3>1, <3>2 DEF Chunk, Poll
    <2> QED
      BY <1>0, <2>1, <2>2, TakesType, SendsType
  <1>5. CASE ChunkFails(h)
    <2>1. serving[h] \in Asking /\ Takes(h) /\ Return(h) /\ received' = received
      BY <1>5 DEF ChunkFails, Streams
    <2> QED
      BY <1>0, <2>1, ReturnType, TakesType DEF Typed
  <1>6. CASE TakePieces(h)
    <2> DEFINE pieces == PiecesOf(Head(process_task_results[h]), req[serving[h]].size)
    <2>1. /\ serving[h] \in Asking /\ Takes(h) /\ received' = received
          /\ blocked' = blocked \ {h} /\ writing' = [writing EXCEPT ![h] = pieces]
          /\ serving' = serving /\ returned' = returned
      BY <1>6 DEF TakePieces, Streams
    <2>2. pieces \in Seq(Results)
      <3>1. Head(process_task_results[h]) \in Results /\ req[serving[h]].size \in Nat
        BY <1>0, <2>1, TakesType, Asked DEF Wishes
      <3> QED
        BY <3>1, Pieces
    <2> HIDE DEF pieces
    <2>3. HandlerTyped'
      BY <1>0, <1>1, <2>1, <2>2 DEF HandlerTyped
    <2> QED
      BY <1>0, <2>1, <2>3, TakesType DEF Typed
  <1>7. CASE WritePiece(h)
    <2>1. /\ serving[h] \in Asking /\ process_task_results' = process_task_results
          /\ writing[h] # <<>> /\ writing[h] \in Seq(Results)
      BY <1>7 DEF WritePiece, Typed
    <2>2. Head(writing[h]) \in Results /\ Tail(writing[h]) \in Seq(Results)
      BY <2>1, TailOf
    <2>3. received' = received \/ Sends(h, Head(writing[h]))
      BY <1>7 DEF WritePiece
    <2>4. received' \in [Asking -> Seq(Results)]
      BY <2>1, <2>2, <2>3, SendsType DEF Typed
    <2>5. HandlerTyped'
      <3>1. CASE Return(h)
        BY <1>0, <2>1, <3>1, ReturnType
      <3>2. CASE /\ \/ writing' = [writing EXCEPT ![h] = Tail(writing[h])]
                    \/ writing' = [writing EXCEPT ![h] = <<>>]
                 /\ UNCHANGED <<serving, blocked, returned>>
        BY <1>0, <1>1, <2>2, <3>2, EmptySeq DEF HandlerTyped
      <3> QED
        BY <1>7, <3>1, <3>2 DEF WritePiece
    <2> QED
      BY <2>1, <2>4, <2>5 DEF Typed
  <1> QED
    BY <1>2, <1>3, <1>4, <1>5, <1>6, <1>7 DEF http_thread

LEMMA TypedProcess ==
    ASSUME Typed, NEW r \in Asking, Process(r)
    PROVE  Typed'
  <1>0. /\ req' = req /\ Asking' = Asking /\ Results' = Results
        /\ UNCHANGED <<http_vars, tid, closed>>
    BY DEF Process, Sample, Requeue, Drop, Finish, Render, FinishImages, Asking, Results
  <1> SUFFICES /\ task' \in [Asking -> Tasks]
               /\ generated' \in [Asking -> Nat]
               /\ images' \in [Asking -> [b64 : SUBSET Nat, failed : SUBSET Nat]]
               /\ process_task_results' \in [Threads -> Seq(Results)]
    BY <1>0 DEF Typed, http_vars
  <1>1. /\ generated[r] \in Nat /\ generated[r] + 1 \in Nat /\ req[r].n \in Nat
        /\ images[r] \in [b64 : SUBSET Nat, failed : SUBSET Nat]
    BY Asked DEF Typed, Wishes
  <1>2. CASE Sample(r)
    <2>1. PICK yield \in Nat, n \in Nat :
              generated' = [generated EXCEPT ![r] = @ + yield] /\ Posts(r, Deltas(r, n))
      BY <1>2, SampleIs
    <2>2. process_task_results' \in [Threads -> Seq(Results)]
      BY <2>1, DeltasAre, PostsType
    <2>3. generated' \in [Asking -> Nat] /\ images' = images
      BY <1>1, <1>2, <2>1 DEF Sample, Typed
    <2>4. task' \in [Asking -> Tasks]
      BY <1>2 DEF Sample, Typed, Tasks
    <2> QED
      BY <2>2, <2>3, <2>4 DEF Typed
  <1>3. CASE Requeue(r) \/ Drop(r)
    BY <1>3 DEF Requeue, Drop, Typed, Tasks
  <1>4. CASE Finish(r)
    <2>1. \A status \in {"ok", "error"} : <<result(r, generated[r] + 1, status, {})>> \in Seq(Results)
      BY <1>1, ResultType, Single
    <2>2. process_task_results' \in [Threads -> Seq(Results)]
      BY <1>4, <2>1, PostsType DEF Finish
    <2> QED
      BY <1>4, <2>2 DEF Finish, Typed, Tasks
  <1>5. CASE Render(r)
    <2> DEFINE n == generated[r] + 1
    <2>1. ToJson(r, n) \in Seq(Results)
      BY <1>1, Rendered
    <2>2. process_task_results' \in [Threads -> Seq(Results)]
      BY <1>5, <2>1, PostsType DEF Render, Typed
    <2>3. images' \in [Asking -> [b64 : SUBSET Nat, failed : SUBSET Nat]]
      <3>1. /\ [images[r] EXCEPT !.failed = @ \cup {n}] \in [b64 : SUBSET Nat, failed : SUBSET Nat]
            /\ [images[r] EXCEPT !.b64 = @ \cup {n}] \in [b64 : SUBSET Nat, failed : SUBSET Nat]
            /\ [images[r] EXCEPT !.b64 = @] \in [b64 : SUBSET Nat, failed : SUBSET Nat]
        BY <1>1
      <3>2. \/ images' = [images EXCEPT ![r] = [images[r] EXCEPT !.failed = @ \cup {n}]]
            \/ images' = [images EXCEPT ![r] = [images[r] EXCEPT !.b64 = @ \cup {n}]]
            \/ images' = [images EXCEPT ![r] = [images[r] EXCEPT !.b64 = @]]
        BY <1>5 DEF Render, Typed
      <3> HIDE DEF n
      <3> QED
        BY <3>1, <3>2 DEF Typed
    <2>4. generated' \in [Asking -> Nat] /\ task' = task
      BY <1>1, <1>5 DEF Render, Typed
    <2> QED
      BY <2>2, <2>3, <2>4 DEF Typed
  <1>6. CASE FinishImages(r)
    <2> DEFINE status == IF images[r].failed = {} THEN "ok" ELSE "error"
               end == result(r, 2 * req[r].n, status, images[r].b64)
    <2>1. end \in Results
      <3>1. /\ status \in {"continue", "ok", "error", "throws"}
            /\ 2 * req[r].n \in Nat /\ images[r].b64 \in SUBSET Nat
        BY <1>1
      <3> HIDE DEF status
      <3> QED
        BY <3>1, ResultType
    <2>2. Posts(r, <<end>>) /\ task' = [task EXCEPT ![r] = "destroyed"]
          /\ UNCHANGED <<generated, images>>
      BY <1>6 DEF FinishImages
    <2> HIDE DEF end
    <2>3. process_task_results' \in [Threads -> Seq(Results)]
      BY <2>1, <2>2, PostsType, Single
    <2> QED
      BY <2>2, <2>3 DEF Typed, Tasks
  <1> QED
    BY <1>2, <1>3, <1>4, <1>5, <1>6 DEF Process

-----------------------------------------------------------------------------
(***************************************************************************)
(* Which thread serves which request.                                      *)
(***************************************************************************)

Sent(r) == task[r] \notin {"unsent", "refused"}
Live(r) == task[r] \in {"queued", "sampled"}

(* A thread serves the request whose task it enqueued, so that two threads *)
(* never serve the same; it writes pieces only to a stream it serves.      *)
HandlersInv ==
    /\ Typed
    /\ \A h \in Threads : serving[h] # NoRequest => tid[serving[h]] = h /\ Sent(serving[h])
    /\ \A h \in Threads : writing[h] # <<>> => serving[h] \in Streams
    /\ \A r \in closed : Sent(r)
    /\ \A r \in Asking : task[r] = "unsent" => received[r] = <<>>

(* A step of an HTTP thread concerns the request it serves.                *)
LEMMA HttpEffect ==
    ASSUME HandlersInv, NEW h \in Threads, http_thread(h)
    PROVE  /\ serving[h] \in Asking
           /\ UNCHANGED <<req, tid, task, generated, images, rate_vars, closed>>
           /\ \A g \in Threads : serving'[g] = serving[g] \/ (g = h /\ serving'[g] = NoRequest)
           /\ \A g \in Threads \ {h} : writing'[g] = writing[g]
           /\ writing'[h] # <<>> => serving'[h] = serving[h] /\ serving[h] \in Streams
           /\ \A r \in Asking \ {serving[h]} : received'[r] = received[r]
  <1>1. serving[h] \in Asking
    BY DEF http_thread, Answer, PollStream, Chunk, ChunkFails, TakePieces, WritePiece,
           HandlersInv, Streams
  <1>2. UNCHANGED <<req, tid, task, generated, images, rate_vars, closed>>
    BY DEF http_thread, Answer, PollStream, Chunk, ChunkFails, TakePieces, WritePiece
  <1>3. /\ \A g \in Threads : serving'[g] = serving[g] \/ (g = h /\ serving'[g] = NoRequest)
        /\ \A g \in Threads \ {h} : writing'[g] = writing[g]
        /\ writing'[h] # <<>> => serving'[h] = serving[h] /\ serving[h] \in Streams
    BY <1>1 DEF http_thread, Answer, PollStream, Chunk, ChunkFails, TakePieces, WritePiece,
                Poll, Return, HandlersInv, Typed
  <1>4. \A r \in Asking \ {serving[h]} : received'[r] = received[r]
    BY <1>1 DEF http_thread, Answer, PollStream, Chunk, ChunkFails, TakePieces, WritePiece,
                Sends, HandlersInv, Typed
  <1> QED
    BY <1>1, <1>2, <1>3, <1>4

LEMMA ProcessEffect ==
    ASSUME NEW r \in Asking, Process(r)
    PROVE  /\ UNCHANGED <<req, http_vars, tid, closed>>
           /\ task[r] \in {"queued", "sampled"}
           /\ \/ task' = task
              \/ task' = [task EXCEPT ![r] = "queued"]
              \/ task' = [task EXCEPT ![r] = "sampled"]
              \/ task' = [task EXCEPT ![r] = "destroyed"]
  BY DEF Process, Sample, Requeue, Drop, Finish, Render, FinishImages

LEMMA HandlersInit ==
    ASSUME Init
    PROVE  HandlersInv
  <1>1. \A r \in Asking : r \in Requests
    BY LifecycleAssumption DEF Init, Asking
  <1>2. (CHOOSE h \in Threads : TRUE) \in Threads
    BY LifecycleAssumption
  <1>3. Typed
    BY <1>1, <1>2, EmptySeq DEF Init, Typed, Asking, Tasks, Results
  <1> QED
    BY <1>3 DEF Init, HandlersInv, Sent

LEMMA HandlersStep ==
    ASSUME HandlersInv, [Next]_vars
    PROVE  HandlersInv'
  <1>0. Typed
    BY DEF HandlersInv
  <1>1. ASSUME NEW h \in Threads, NEW r \in Asking, Refuse(h, r)
        PROVE  HandlersInv'
    <2>1. /\ task[r] = "unsent" /\ task' = [task EXCEPT ![r] = "refused"]
          /\ returned' = returned \cup {r}
          /\ UNCHANGED <<req, serving, blocked, writing, received, tid, generated, images, closed,
                         process_task_results>>
      BY <1>1 DEF Refuse
    <2>2. Typed'
      BY <1>0, <2>1 DEF Typed, Asking, Results, Tasks
    <2> QED
      BY <1>0, <2>1, <2>2 DEF HandlersInv, Sent, Asking, Streams, Typed
  <1>2. ASSUME NEW h \in Threads, NEW r \in Asking, Enqueue(h, r)
        PROVE  HandlersInv'
    <2>1. /\ serving[h] = NoRequest /\ task[r] = "unsent"
          /\ serving' = [serving EXCEPT ![h] = r]
          /\ blocked' \subseteq blocked \cup {h}
          /\ tid' = [tid EXCEPT ![r] = h]
          /\ task' = [task EXCEPT ![r] = "queued"]
          /\ UNCHANGED <<req, generated, images, closed, process_task_results, writing, received,
                         returned>>
      BY <1>2 DEF Enqueue
    <2>2. Typed'
      BY <1>0, <2>1 DEF Typed, Asking, Results, Tasks
    <2>3. \A g \in Threads : serving[g] # r
      BY <1>0, <2>1, Asked DEF HandlersInv, Sent
    <2> QED
      BY <1>0, <2>1, <2>2, <2>3, LifecycleAssumption DEF HandlersInv, Sent, Asking, Streams, Typed
  <1>3. ASSUME NEW r \in Asking, Disconnect(r)
        PROVE  HandlersInv'
    <2>1. /\ closed' = closed \cup {r}
          /\ UNCHANGED <<req, http_vars, tid, task, generated, images, process_task_results>>
      BY <1>3 DEF Disconnect
    <2>2. Sent(r)
      BY <1>0, <1>3, Asked DEF Disconnect, Served, HandlersInv
    <2>3. Typed'
      BY <1>0, <2>1 DEF Typed, Asking, Results, http_vars
    <2> QED
      BY <2>1, <2>2, <2>3 DEF HandlersInv, Sent, Asking, Streams, http_vars
  <1>4. ASSUME NEW h \in Threads, http_thread(h)
        PROVE  HandlersInv'
    <2>1. Typed'
      BY <1>0, <1>4, TypedHttp DEF HandlersInv, Streams
    <2>2. /\ serving[h] \in Asking
          /\ UNCHANGED <<req, tid, task, closed>>
          /\ \A g \in Threads : serving'[g] = serving[g] \/ (g = h /\ serving'[g] = NoRequest)
          /\ \A g \in Threads \ {h} : writing'[g] = writing[g]
          /\ writing'[h] # <<>> => serving'[h] = serving[h] /\ serving[h] \in Streams
          /\ \A r \in Asking \ {serving[h]} : received'[r] = received[r]
      BY <1>4, HttpEffect
    <2>3. \A g \in Threads : writing'[g] # <<>> => serving'[g] \in Streams'
      <3>1. Streams' = Streams
        BY <2>2 DEF Streams, Asking
      <3> QED
        BY <2>2, <3>1 DEF HandlersInv
    <2>4. task[serving[h]] # "unsent"
      BY <2>2, <1>0, Asked DEF HandlersInv, Sent
    <2> QED
      BY <2>1, <2>2, <2>3, <2>4 DEF HandlersInv, Sent, Asking
  <1>5. ASSUME NEW r \in Asking, Process(r)
        PROVE  HandlersInv'
    <2>1. Typed'
      BY <1>0, <1>5, TypedProcess
    <2>2. /\ UNCHANGED <<req, http_vars, tid, closed>>
          /\ \A q \in Asking : (Sent(q) => Sent(q)') /\ (task'[q] = "unsent" => task[q] = "unsent")
      BY <1>0, <1>5, ProcessEffect DEF Typed, Sent
    <2> QED
      BY <1>0, <2>1, <2>2 DEF HandlersInv, http_vars, Asking, Streams, Typed
  <1>6. CASE Tick \/ UNCHANGED vars
    <2>1. UNCHANGED <<req, http_vars, tid, task, generated, images, closed, process_task_results>>
      BY <1>6 DEF Tick, vars
    <2>2. Typed'
      BY <1>0, <2>1 DEF Typed, Asking, Results, http_vars
    <2> QED
      BY <2>1, <2>2 DEF HandlersInv, Sent, Asking, Streams, http_vars
  <1> QED
    BY <1>1, <1>2, <1>3, <1>4, <1>5, <1>6 DEF Next

(***************************************************************************)
(* Threads, requests, tasks and the pieces being written agree: a thread   *)
(* serves at most one request, and waits or writes only while it does.     *)
(***************************************************************************)
THEOREM HandlersInvHolds == Spec => []HandlersInv
  BY HandlersInit, HandlersStep, PTL DEF Spec

-----------------------------------------------------------------------------
(***************************************************************************)
(* The rate.                                                               *)
(***************************************************************************)

(* A bucket of age b.age that paid for rounds of up to w tokens, a in this *)
(* half of a second and p in the last one: what rounds since its last      *)
(* refill took is missing in it, and the others fit into the refill before.*)
Within(b, w, a, p) ==
    /\ b.rate <= n_tps /\ b.tokens_remain <= b.rate
    /\ b.age < Second => a + p <= w * b.rate + (w * b.rate - w * b.tokens_remain)
    /\ b.age = 1 => a <= w * b.rate - w * b.tokens_remain
    /\ b.age = Second => a + p <= w * b.rate - w * b.tokens_remain

(* The most tokens that a round of request r yields.                       *)
Width(r) == 1 + req[r].drafted

RateInv ==
    /\ HandlersInv
    /\ bucket \in [Asking -> Buckets]
    /\ recent \in [Asking -> [1 .. 2 -> Nat]]
    /\ \A r \in Asking : task[r] = "unsent" => recent[r] = <<0, 0>>
    /\ \A r \in Asking : bucket[r].rate > 0 => Within(bucket[r], Width(r), recent[r][1], recent[r][2])

LEMMA ProductBound ==
    ASSUME NEW w \in Nat, NEW m \in Nat, NEW n \in Nat, m <= n
    PROVE  w * m \in Nat /\ w * n \in Nat /\ w * m <= w * n
  OBVIOUS

LEMMA WithinTick ==
    ASSUME NEW b \in Buckets, NEW w \in Nat, NEW a \in Nat, NEW p \in Nat, Within(b, w, a, p)
    PROVE  Within(b, w, 0, a) /\ Within(Aged(b), w, 0, a)
  <1>1. b.rate \in Nat /\ b.tokens_remain \in Nat /\ b.age \in {0, 1, 2} /\ n_tps \in Nat
    BY SettingTypes DEF Buckets, Second
  <1>5. /\ w * b.rate \in Nat /\ w * b.tokens_remain \in Nat
        /\ w * b.tokens_remain <= w * b.rate
    BY <1>1, ProductBound DEF Within
  <1>2. Within(b, w, 0, a)
    BY <1>1, <1>5 DEF Within, Second
  <1>3. /\ Aged(b).rate = b.rate /\ Aged(b).tokens_remain = b.tokens_remain
        /\ Aged(b).age = IF b.age < 2 THEN b.age + 1 ELSE 2
    BY AgedBucket DEF Second
  <1>4. Within(Aged(b), w, 0, a)
    BY <1>1, <1>3, <1>5 DEF Within, Second
  <1> QED
    BY <1>2, <1>4

LEMMA WithinAcquire ==
    ASSUME NEW b \in Buckets, NEW w \in Nat, NEW a \in Nat, NEW p \in Nat, Within(b, w, a, p),
           b.rate > 0, CanAcquire(b), NEW n \in 0 .. w
    PROVE  Within(Acquired(b), w, a + n, p)
  <1>1. b.rate \in Nat /\ b.tokens_remain \in Nat /\ b.age \in {0, 1, 2} /\ n_tps \in Nat
    BY SettingTypes DEF Buckets, Second
  <1>2. /\ Acquired(b).rate = b.rate
        /\ \/ /\ b.tokens_remain >= 1
              /\ Acquired(b).tokens_remain = b.tokens_remain - 1 /\ Acquired(b).age = b.age
           \/ /\ b.tokens_remain = 0 /\ b.age = 2
              /\ Acquired(b).tokens_remain = b.rate - 1 /\ Acquired(b).age = 0
    BY AcquiredBucket DEF Second
  <1>3. /\ w * b.rate \in Nat /\ w * b.tokens_remain \in Nat
        /\ w * (b.tokens_remain - 1) = w * b.tokens_remain - w
        /\ w * (b.rate - 1) = w * b.rate - w
        /\ b.tokens_remain = 0 => w * b.tokens_remain = 0
    BY <1>1
  <1>4. CASE /\ b.tokens_remain >= 1
             /\ Acquired(b).tokens_remain = b.tokens_remain - 1 /\ Acquired(b).age = b.age
    BY <1>1, <1>2, <1>3, <1>4 DEF Within, Second
  <1>5. CASE /\ b.tokens_remain = 0 /\ b.age = 2
             /\ Acquired(b).tokens_remain = b.rate - 1 /\ Acquired(b).age = 0
    BY <1>1, <1>2, <1>3, <1>5 DEF Within, Second
  <1> QED
    BY <1>2, <1>4, <1>5

LEMMA RateInit ==
    ASSUME Init
    PROVE  RateInv
  <1>1. NewBucket(0) \in Buckets /\ NewBucket(0).rate = 0
    BY DEF NewBucket, Buckets, Second
  <1>2. <<0, 0>> \in [1 .. 2 -> Nat]
    OBVIOUS
  <1>3. /\ bucket = [r \in Asking |-> NewBucket(0)]
        /\ recent = [r \in Asking |-> <<0, 0>>]
    BY DEF Init
  <1> QED
    BY <1>1, <1>2, <1>3, HandlersInit DEF RateInv

LEMMA WidthType ==
    ASSUME Typed, NEW r \in Asking
    PROVE  Width(r) \in Nat
  BY Asked DEF Wishes, Width

(* A round is paid for, or free.                                           *)
LEMMA RateAcquire ==
    ASSUME RateInv, NEW r \in Asking, NEW n \in 0 .. Width(r), Acquire(r, n),
           task[r] = "queued", req' = req,
           task' = [task EXCEPT ![r] = "sampled"] \/ task' = [task EXCEPT ![r] = "destroyed"],
           HandlersInv'
    PROVE  RateInv'
  <1>0. /\ Asking' = Asking
        /\ \A q \in Asking : task'[q] = "unsent" => task[q] = "unsent" /\ q # r
        /\ \A q \in Asking : Width(q) \in Nat /\ Width(q)' = Width(q)
    BY WidthType DEF Asking, RateInv, HandlersInv, Typed, Width
  <1>1. CASE UNCHANGED rate_vars
    BY <1>0, <1>1 DEF RateInv, rate_vars, Within
  <1>2. CASE /\ bucket[r].rate > 0 /\ CanAcquire(bucket[r])
             /\ bucket' = [bucket EXCEPT ![r] = Acquired(@)]
             /\ recent' = [recent EXCEPT ![r][1] = @ + n]
    <2>1. bucket[r] \in Buckets /\ recent[r] \in [1 .. 2 -> Nat]
      BY DEF RateInv
    <2>2. recent[r][1] \in Nat /\ recent[r][2] \in Nat
      BY <2>1
    <2>3. Within(Acquired(bucket[r]), Width(r), recent[r][1] + n, recent[r][2])
      BY <1>0, <1>2, <2>1, <2>2, WithinAcquire DEF RateInv
    <2>4. Acquired(bucket[r]) \in Buckets
      BY <1>2, <2>1, AcquiredBucket
    <2>5. /\ bucket' \in [Asking -> Buckets]
          /\ bucket'[r] = Acquired(bucket[r])
          /\ \A q \in Asking \ {r} : bucket'[q] = bucket[q]
      BY <1>2, <2>4 DEF RateInv
    <2> DEFINE more == [recent[r] EXCEPT ![1] = @ + n]
    <2>6. more \in [1 .. 2 -> Nat] /\ more[1] = recent[r][1] + n /\ more[2] = recent[r][2]
      BY <1>0, <2>1, <2>2
    <2>7. recent' = [recent EXCEPT ![r] = more]
      BY <1>2
    <2> HIDE DEF more
    <2>8. /\ recent' \in [Asking -> [1 .. 2 -> Nat]]
          /\ recent'[r] = more
          /\ \A q \in Asking \ {r} : recent'[q] = recent[q]
      BY <2>6, <2>7 DEF RateInv
    <2>9. \A q \in Asking : bucket'[q].rate > 0 => Within(bucket'[q], Width(q), recent'[q][1], recent'[q][2])
      <3> TAKE q \in Asking
      <3>1. CASE q = r
        BY <2>3, <2>5, <2>6, <2>8, <3>1
      <3>2. CASE q # r
        BY <2>5, <2>8, <3>2 DEF RateInv
      <3> QED
        BY <3>1, <3>2
    <2>10. \A q \in Asking : task'[q] = "unsent" => recent'[q] = <<0, 0>>
      BY <1>0, <2>8 DEF RateInv
    <2>11. \A q \in Asking : bucket'[q].rate > 0 => Within(bucket[q], Width(q), recent[q][1], recent[q][2])'
      BY <1>0, <2>9 DEF Within
    <2> QED
      BY <1>0, <2>5, <2>8, <2>10, <2>11 DEF RateInv
  <1>3. bucket[r].rate = 0 \/ bucket[r].rate > 0
    BY DEF RateInv, Buckets
  <1> QED
    BY <1>1, <1>2, <1>3 DEF Acquire

LEMMA RateStep ==
    ASSUME RateInv, [Next]_vars
    PROVE  RateInv'
  <1>0. Typed /\ HandlersInv /\ HandlersInv'
    BY HandlersStep DEF RateInv, HandlersInv
  <1>1. ASSUME NEW h \in Threads, NEW r \in Asking, Refuse(h, r)
        PROVE  RateInv'
    BY <1>0, <1>1 DEF Refuse, RateInv, rate_vars, Asking, Typed, Within, Width
  <1>2. ASSUME NEW h \in Threads, NEW r \in Asking, Enqueue(h, r)
        PROVE  RateInv'
    <2> DEFINE new == NewBucket(TpsFor(req[r].asked))
    <2>1. req[r].asked \in Seq(Int) /\ ~Gone(req[r].asked)
      BY <1>0, <1>2, Asked DEF Enqueue, Wishes, Gone
    <2>2. /\ new \in Buckets /\ new.rate <= n_tps /\ new.tokens_remain = new.rate /\ new.age = 0
      BY <2>1, NewBucketRate
    <2>3. /\ req' = req /\ task[r] = "unsent"
          /\ task' = [task EXCEPT ![r] = "queued"]
          /\ bucket' = [bucket EXCEPT ![r] = new]
          /\ recent' = recent
      BY <1>2 DEF Enqueue
    <2>4. new.rate \in Nat
      BY <2>2 DEF Buckets
    <2> HIDE DEF new
    <2>8. Width(r) \in Nat /\ Width(r) * new.rate \in Nat
      <3>1. Width(r) \in Nat
        BY <1>0, WidthType
      <3> QED
        BY <2>4, <3>1
    <2>5. Within(new, Width(r), 0, 0)
      BY <2>2, <2>4, <2>8 DEF Within, Second
    <2>6. /\ recent[r][1] = 0 /\ recent[r][2] = 0
      BY <2>3 DEF RateInv
    <2>7. \A q \in Asking : bucket'[q].rate > 0 => Within(bucket[q], Width(q), recent[q][1], recent[q][2])'
      <3>1. \A q \in Asking : bucket'[q].rate > 0 => Within(bucket'[q], Width(q), recent[q][1], recent[q][2])
        BY <2>2, <2>3, <2>5, <2>6 DEF RateInv
      <3> QED
        BY <2>3, <3>1 DEF Within, Width
    <2> QED
      BY <1>0, <2>2, <2>3, <2>7 DEF RateInv, Asking, Typed
  <1>3. ASSUME NEW r \in Asking, Process(r)
        PROVE  RateInv'
    <2>1. CASE Sample(r)
      <3>1. PICK n \in Nat \ {0} : n <= 1 + req[r].drafted /\ Acquire(r, n)
        BY <1>0, <2>1, SampleIs
      <3>2. n \in 0 .. Width(r)
        BY <1>0, <3>1, WidthType DEF Width
      <3> QED
        BY <1>0, <2>1, <3>1, <3>2, RateAcquire DEF Sample
    <2>3. CASE Finish(r)
      <3>1. PICK n \in {0} \cup Yields(r) : Acquire(r, n)
        BY <2>3 DEF Finish
      <3>2. n \in 0 .. Width(r)
        <4>1. req[r].drafted \in Nat
          BY <1>0, Asked DEF Wishes
        <4> QED
          BY <3>1, <4>1 DEF Width, Yields
      <3> QED
        BY <1>0, <2>3, <3>1, <3>2, RateAcquire DEF Finish
    <2>2. CASE Requeue(r) \/ Drop(r) \/ Render(r) \/ FinishImages(r)
      <3>1. UNCHANGED <<req, rate_vars>>
        BY <2>2 DEF Requeue, Drop, Render, FinishImages
      <3>2. \A q \in Asking : task'[q] = "unsent" => task[q] = "unsent"
        BY <1>0, <1>3, ProcessEffect DEF Typed
      <3> QED
        BY <1>0, <3>1, <3>2 DEF RateInv, rate_vars, Asking, Within, Width
    <2> QED
      BY <1>3, <2>1, <2>2, <2>3 DEF Process
  <1>4. CASE Tick
    <2>1. /\ bucket' = [r \in Asking |-> IF Live(r) THEN Aged(bucket[r]) ELSE bucket[r]]
          /\ recent' = [r \in Asking |-> <<0, recent[r][1]>>]
          /\ UNCHANGED <<req, task>>
      BY <1>4 DEF Tick, Live
    <2>2. \A r \in Asking : /\ bucket[r] \in Buckets /\ Aged(bucket[r]) \in Buckets
                            /\ Aged(bucket[r]).rate = bucket[r].rate
                            /\ recent[r][1] \in Nat /\ recent[r][2] \in Nat
      BY AgedBucket DEF RateInv
    <2>3. bucket' \in [Asking -> Buckets] /\ recent' \in [Asking -> [1 .. 2 -> Nat]]
      <3>1. \A a \in Nat : <<0, a>> \in [1 .. 2 -> Nat]
        OBVIOUS
      <3> QED
        BY <2>1, <2>2, <3>1
    <2>4. ASSUME NEW r \in Asking, bucket'[r].rate > 0
          PROVE  Within(bucket[r], Width(r), recent[r][1], recent[r][2])'
      <3>1. bucket[r].rate > 0
        BY <2>1, <2>2, <2>4
      <3>2. Within(bucket[r], Width(r), recent[r][1], recent[r][2])
        BY <3>1 DEF RateInv
      <3>7. Width(r) \in Nat
        BY <1>0, WidthType
      <3>3. Within(bucket[r], Width(r), 0, recent[r][1]) /\ Within(Aged(bucket[r]), Width(r), 0, recent[r][1])
        BY <2>2, <3>2, <3>7, WithinTick
      <3>4. recent'[r][1] = 0 /\ recent'[r][2] = recent[r][1]
        BY <2>1
      <3>5. bucket'[r] = bucket[r] \/ bucket'[r] = Aged(bucket[r])
        BY <2>1
      <3>6. Within(bucket'[r], Width(r), recent'[r][1], recent'[r][2])
        BY <3>3, <3>4, <3>5
      <3> QED
        BY <2>1, <3>6 DEF Within, Width
    <2>5. \A r \in Asking : task[r] = "unsent" => recent'[r] = <<0, 0>>
      BY <2>1 DEF RateInv
    <2> QED
      BY <1>0, <2>1, <2>3, <2>4, <2>5 DEF RateInv, Asking
  <1>5. CASE (\E r \in Asking : Disconnect(r)) \/ (\E h \in Threads : http_thread(h)) \/ UNCHANGED vars
    <2>1. UNCHANGED <<req, task, rate_vars>>
      BY <1>0, <1>5, HttpEffect DEF Disconnect, vars
    <2> QED
      BY <1>0, <2>1 DEF RateInv, rate_vars, Asking, Within, Width
  <1> QED
    BY <1>1, <1>2, <1>3, <1>4, <1>5 DEF Next

(***************************************************************************)
(* Within a second a request gets the tokens of at most twice as many      *)
(* rounds as its rate allows, each with all that was drafted for it, and   *)
(* its rate is not above the server's.                                     *)
(***************************************************************************)
THEOREM RateIsKept == Spec => []RateKept
  <1>1. RateInv => RateKept
    <2> SUFFICES ASSUME RateInv, NEW r \in Asking, bucket[r].rate > 0
                 PROVE  /\ bucket[r].rate <= n_tps
                        /\ recent[r][1] + recent[r][2] <= 2 * bucket[r].rate * (1 + req[r].drafted)
      BY DEF RateKept
    <2>1. /\ Within(bucket[r], Width(r), recent[r][1], recent[r][2])
          /\ bucket[r] \in Buckets /\ recent[r][1] \in Nat /\ recent[r][2] \in Nat
      BY DEF RateInv
    <2>2. bucket[r].rate \in Nat /\ bucket[r].tokens_remain \in Nat /\ bucket[r].age \in {0, 1, 2}
      BY <2>1 DEF Buckets, Second
    <2>3. Width(r) \in Nat
      BY WidthType DEF RateInv, HandlersInv
    <2>4. ASSUME NEW w \in Nat, NEW n \in Nat, NEW m \in Nat
          PROVE  2 * n * w = 2 * (w * n) /\ w * n \in Nat /\ w * m \in Nat
      OBVIOUS
    <2> DEFINE a == recent[r][1] + recent[r][2]
               x == Width(r) * bucket[r].rate
               y == Width(r) * bucket[r].tokens_remain
    <2>5. 2 * bucket[r].rate * Width(r) = 2 * x /\ x \in Nat /\ y \in Nat
      BY <2>2, <2>3, <2>4
    <2>6. /\ bucket[r].rate <= n_tps
          /\ bucket[r].age < 2 => a <= x + (x - y)
          /\ bucket[r].age = 2 => a <= x - y
      BY <2>1 DEF Within, Second
    <2>7. a \in Nat
      BY <2>1
    <2> HIDE DEF a, x, y
    <2>8. a <= 2 * x
      BY <2>2, <2>5, <2>6, <2>7
    <2>9. a <= 2 * bucket[r].rate * Width(r)
      BY <2>5, <2>8
    <2> QED
      BY <2>6, <2>9 DEF a, Width
  <1>2. Spec => []RateInv
    BY RateInit, RateStep, PTL DEF Spec
  <1> QED
    BY <1>1, <1>2, PTL

-----------------------------------------------------------------------------
(***************************************************************************)
(* The end of what is sent.                                                *)
(***************************************************************************)

EndInv ==
    /\ HandlersInv
    /\ \A h \in Threads : \A i \in 1 .. Len(writing[h]) :
           i < Len(writing[h]) => writing[h][i].status = "continue"
    /\ \A h \in Threads : serving[h] # NoRequest =>
           \A i \in 1 .. Len(received[serving[h]]) : received[serving[h]][i].status = "continue"
    /\ EndIsLast

Continued(s) == \A i \in 1 .. Len(s) : s[i].status = "continue"

(* A client that was only sent results that are followed by more, is sent  *)
(* one more.                                                               *)
LEMMA Sending ==
    ASSUME NEW s \in Seq(Results), NEW x \in Results, Continued(s)
    PROVE  /\ \A i, j \in 1 .. Len(Append(s, x)) : i < j => Append(s, x)[i].status = "continue"
           /\ x.status = "continue" => Continued(Append(s, x))
  <1>1. /\ Len(Append(s, x)) = Len(s) + 1 /\ Len(s) \in Nat
        /\ \A i \in 1 .. Len(s) : Append(s, x)[i] = s[i]
        /\ Append(s, x)[Len(s) + 1] = x
    BY AppendProperties, LenProperties
  <1> QED
    BY <1>1 DEF Continued

(* What a step of thread h does to what is sent and still to be written.   *)
LEMMA HttpSends ==
    ASSUME EndInv, NEW h \in Threads, http_thread(h)
    PROVE  /\ \A i \in 1 .. Len(writing'[h]) :
                  i < Len(writing'[h]) => writing'[h][i].status = "continue"
           /\ \A i, j \in 1 .. Len(received'[serving[h]]) :
                  i < j => received'[serving[h]][i].status = "continue"
           /\ serving'[h] # NoRequest => Continued(received'[serving[h]])
  <1> DEFINE c == serving[h]
  <1>1. /\ Typed /\ c \in Asking /\ received[c] \in Seq(Results) /\ Continued(received[c])
        /\ c # NoRequest
        /\ writing \in [Threads -> Seq(Results)] /\ serving \in [Threads -> Asking \cup {NoRequest}]
    BY HttpEffect, Asked DEF EndInv, HandlersInv, Typed, Continued
  <1>2. \A x \in Results : Sends(h, x) => received'[c] = Append(received[c], x)
    BY <1>1 DEF Sends, Typed
  <1>3. Return(h) => writing'[h] = <<>> /\ serving'[h] = NoRequest
    BY <1>1 DEF Return
  <1>4. \A i, j \in 1 .. Len(received[c]) : i < j => received[c][i].status = "continue"
    BY <1>1 DEF Continued
  <1>5. \A i \in 1 .. Len(<<>>) : FALSE
    OBVIOUS
  <1>6. \A x \in Results : Sends(h, x) =>
            /\ \A i, j \in 1 .. Len(received'[c]) : i < j => received'[c][i].status = "continue"
            /\ x.status = "continue" => Continued(received'[c])
    <2> SUFFICES ASSUME NEW x \in Results, Sends(h, x)
                 PROVE  /\ \A i, j \in 1 .. Len(received'[c]) : i < j => received'[c][i].status = "continue"
                        /\ x.status = "continue" => Continued(received'[c])
      OBVIOUS
    <2>1. received'[c] = Append(received[c], x)
      BY <1>2
    <2>2. /\ \A i, j \in 1 .. Len(Append(received[c], x)) :
                 i < j => Append(received[c], x)[i].status = "continue"
          /\ x.status = "continue" => Continued(Append(received[c], x))
      BY <1>1, Sending
    <2> QED
      BY <2>1, <2>2
  <1>7. CASE Answer(h)
    <2>1. Takes(h) /\ Return(h)
          /\ (received' = received \/ Sends(h, Head(process_task_results[h])))
      BY <1>7 DEF Answer
    <2>2. Head(process_task_results[h]) \in Results
      BY <1>1, <2>1, TakesType, <1>7 DEF Answer
    <2> QED
      BY <1>3, <1>4, <1>5, <1>6, <2>1, <2>2
  <1>8. CASE PollStream(h)
    <2>1. /\ received' = received /\ writing[h] = <<>>
          /\ Return(h) \/ writing' = writing
      BY <1>8 DEF PollStream
    <2> QED
      BY <1>1, <1>3, <1>4, <1>5, <2>1
  <1>9. CASE Chunk(h)
    <2> DEFINE taken == Head(process_task_results[h])
    <2>1. /\ Takes(h) /\ Sends(h, taken) /\ req' = req
          /\ (taken.status = "continue" /\ writing' = writing) \/ Return(h)
      BY <1>9 DEF Chunk, Poll
    <2>2. taken \in Results
      BY <1>1, <2>1, TakesType
    <2> HIDE DEF taken
    <2>3. \A i \in 1 .. Len(writing[h]) :
              i < Len(writing[h]) => writing[h][i].status = "continue"
      BY DEF EndInv
    <2> QED
      BY <1>3, <1>5, <1>6, <2>1, <2>2, <2>3
  <1>10. CASE ChunkFails(h)
    BY <1>3, <1>4, <1>5, <1>10 DEF ChunkFails
  <1>11. CASE TakePieces(h)
    <2> DEFINE taken == Head(process_task_results[h])
               pieces == PiecesOf(taken, req[c].size)
    <2>1. /\ Takes(h) /\ req' = req /\ received' = received /\ serving' = serving
          /\ writing'[h] = pieces
      BY <1>1, <1>11 DEF TakePieces
    <2>2. taken \in Results /\ req[c].size \in Nat
      BY <1>1, <2>1, TakesType, Asked DEF Wishes
    <2>3. \A i \in 1 .. Len(pieces) : i < Len(pieces) => pieces[i].status = "continue"
      BY <2>2, Pieces
    <2> HIDE DEF pieces
    <2> QED
      BY <1>1, <1>4, <2>1, <2>3
  <1>12. CASE WritePiece(h)
    <2> DEFINE q == writing[h]
    <2>1. q \in Seq(Results) /\ q # <<>>
      BY <1>1, <1>12 DEF WritePiece
    <2>2. \A i \in 1 .. Len(q) : i < Len(q) => q[i].status = "continue"
      BY DEF EndInv
    <2>3. /\ Tail(q) \in Seq(Results) /\ Len(Tail(q)) = Len(q) - 1 /\ Len(q) \in Nat /\ Len(q) > 0
          /\ \A i \in 1 .. Len(Tail(q)) : Tail(q)[i] = q[i + 1] /\ i + 1 \in 1 .. Len(q)
          /\ Head(q) = q[1] /\ Head(q) \in Results
      BY <2>1, TailOf
    <2>4. \A i \in 1 .. Len(Tail(q)) : i < Len(Tail(q)) => Tail(q)[i].status = "continue"
      BY <2>2, <2>3
    <2>5. Tail(q) # <<>> => Head(q).status = "continue"
      <3>1. Tail(q) # <<>> => Len(q) > 1
        BY <2>3, EmptySeq
      <3> QED
        BY <2>2, <2>3, <3>1
    <2>6. CASE Return(h) /\ received' = received
      BY <1>3, <1>4, <1>5, <2>6
    <2>7. CASE /\ Sends(h, Head(q))
               /\ \/ Return(h)
                  \/ Tail(q) # <<>> /\ writing' = [writing EXCEPT ![h] = Tail(q)]
                  \/ Head(q).status = "continue" /\ writing' = [writing EXCEPT ![h] = <<>>]
      <3>1. /\ \A i, j \in 1 .. Len(received'[c]) : i < j => received'[c][i].status = "continue"
            /\ Head(q).status = "continue" => Continued(received'[c])
        BY <1>6, <2>3, <2>7
      <3>2. CASE Return(h)
        BY <1>3, <1>5, <3>1, <3>2
      <3>3. CASE Tail(q) # <<>> /\ writing' = [writing EXCEPT ![h] = Tail(q)]
        <4>1. writing'[h] = Tail(q)
          BY <1>1, <3>3
        <4> QED
          BY <2>4, <2>5, <3>1, <3>3, <4>1
      <3>4. CASE Head(q).status = "continue" /\ writing' = [writing EXCEPT ![h] = <<>>]
        <4>1. writing'[h] = <<>>
          BY <1>1, <3>4
        <4> QED
          BY <1>5, <3>1, <3>4, <4>1
      <3> QED
        BY <2>7, <3>2, <3>3, <3>4
    <2> QED
      BY <1>12, <2>6, <2>7 DEF WritePiece
  <1> QED
    BY <1>7, <1>8, <1>9, <1>10, <1>11, <1>12 DEF http_thread

LEMMA EndInit ==
    ASSUME Init
    PROVE  EndInv
  <1>1. HandlersInv
    BY HandlersInit
  <1>2. /\ writing = [h \in Threads |-> <<>>] /\ serving = [h \in Threads |-> NoRequest]
        /\ received = [r \in Asking |-> <<>>]
    BY DEF Init
  <1>3. EndIsLast
    BY <1>2 DEF EndIsLast
  <1> QED
    BY <1>1, <1>2, <1>3 DEF EndInv

LEMMA EndStep ==
    ASSUME EndInv, [Next]_vars
    PROVE  EndInv'
  <1>0. Typed /\ HandlersInv /\ HandlersInv' /\ Typed'
    BY HandlersStep DEF EndInv, HandlersInv
  <1>1. ASSUME NEW h \in Threads, http_thread(h)
        PROVE  EndInv'
    <2>1. /\ serving[h] \in Asking /\ req' = req /\ tid' = tid
          /\ \A g \in Threads : serving'[g] = serving[g] \/ (g = h /\ serving'[g] = NoRequest)
          /\ \A g \in Threads \ {h} : writing'[g] = writing[g]
          /\ \A r \in Asking \ {serving[h]} : received'[r] = received[r]
      BY <1>0, <1>1, HttpEffect
    <2>2. /\ \A i \in 1 .. Len(writing'[h]) :
                 i < Len(writing'[h]) => writing'[h][i].status = "continue"
          /\ \A i, j \in 1 .. Len(received'[serving[h]]) :
                 i < j => received'[serving[h]][i].status = "continue"
          /\ serving'[h] # NoRequest => Continued(received'[serving[h]])
      BY <1>1, HttpSends
    <2>3. \A g \in Threads : \A i \in 1 .. Len(writing'[g]) :
              i < Len(writing'[g]) => writing'[g][i].status = "continue"
      BY <2>1, <2>2 DEF EndInv
    <2>4. ASSUME NEW g \in Threads, serving'[g] # NoRequest
          PROVE  Continued(received'[serving'[g]])
      <3>1. serving'[g] = serving[g] /\ serving[g] \in Asking
        BY <1>0, <2>1, <2>4 DEF Typed
      <3>2. CASE g = h
        BY <2>2, <2>4, <3>1, <3>2
      <3>3. CASE g # h
        <4>1. serving[g] # serving[h]
          BY <1>0, <2>1, <2>4, <3>1, <3>3, Asked DEF HandlersInv
        <4>2. received'[serving[g]] = received[serving[g]]
          BY <2>1, <3>1, <4>1
        <4> QED
          BY <2>4, <3>1, <4>2 DEF EndInv, Continued
      <3> QED
        BY <3>2, <3>3
    <2>5. \A r \in Asking : \A i, j \in 1 .. Len(received'[r]) :
              i < j => received'[r][i].status = "continue"
      <3>1. \A r \in Asking : \A i, j \in 1 .. Len(received[r]) :
                i < j => received[r][i].status = "continue"
        <4>1. \A r \in Asking : DOMAIN received[r] = 1 .. Len(received[r])
          BY <1>0, LenProperties DEF Typed
        <4> QED
          BY <4>1 DEF EndInv, EndIsLast
      <3> QED
        BY <2>1, <2>2, <3>1
    <2>6. EndIsLast'
      <3>1. Asking' = Asking
        BY <2>1 DEF Asking
      <3>2. \A r \in Asking : DOMAIN received'[r] = 1 .. Len(received'[r])
        <4>1. \A r \in Asking : received'[r] \in Seq(Results')
          BY <1>0, <3>1 DEF Typed
        <4> QED
          BY <4>1, LenProperties
      <3> QED
        BY <2>5, <3>1, <3>2 DEF EndIsLast
    <2> QED
      BY <1>0, <2>3, <2>4, <2>6 DEF EndInv, Continued
  <1>2. ASSUME NEW h \in Threads, NEW r \in Asking, Enqueue(h, r)
        PROVE  EndInv'
    <2>1. /\ task[r] = "unsent" /\ serving' = [serving EXCEPT ![h] = r]
          /\ UNCHANGED <<req, writing, received>>
      BY <1>2 DEF Enqueue
    <2>2. received[r] = <<>> /\ Len(received[r]) = 0
      BY <1>0, <2>1 DEF HandlersInv
    <2>3. \A g \in Threads : serving'[g] = serving[g] \/ serving'[g] = r
      BY <1>0, <2>1 DEF Typed
    <2>4. \A g \in Threads : serving'[g] # NoRequest =>
             \A i \in 1 .. Len(received'[serving'[g]]) : received'[serving'[g]][i].status = "continue"
      BY <2>1, <2>2, <2>3 DEF EndInv
    <2>5. EndIsLast'
      BY <2>1 DEF EndInv, EndIsLast, Asking
    <2> QED
      BY <1>0, <2>1, <2>4, <2>5 DEF EndInv
  <1>3. CASE \/ \E h \in Threads, r \in Asking : Refuse(h, r)
             \/ \E r \in Asking : Disconnect(r) \/ Process(r)
             \/ Tick \/ UNCHANGED vars
    <2>1. UNCHANGED <<req, serving, writing, received>>
      BY <1>0, <1>3, ProcessEffect DEF Refuse, Disconnect, Tick, vars, http_vars
    <2>2. EndIsLast'
      BY <2>1 DEF EndInv, EndIsLast, Asking
    <2> QED
      BY <1>0, <2>1, <2>2 DEF EndInv
  <1> QED
    BY <1>1, <1>2, <1>3 DEF Next

(***************************************************************************)
(* However handlers end - an answer, a stream that ends or whose client    *)
(* left, an image in pieces -, and whatever a thread finds in its queue,   *)
(* no client is sent anything after an end.                                *)
(***************************************************************************)
THEOREM EndsStream == Spec => []EndIsLast
  <1>1. EndInv => EndIsLast
    BY DEF EndInv
  <1>2. Spec => []EndInv
    BY EndInit, EndStep, PTL DEF Spec
  <1> QED
    BY <1>1, <1>2, PTL

-----------------------------------------------------------------------------
(***************************************************************************)
(* The result queues.                                                      *)
(***************************************************************************)

(* The highest number that a result posted so far can have.                *)
Bound(r) ==
    CASE req[r].type = "completion" -> generated[r]
      [] req[r].type = "images" /\ generated[r] < req[r].n -> 2 * generated[r]
      [] OTHER -> 2 * generated[r] - 1

(* A result that waits in the queue of thread h.                           *)
Waits(x, h) ==
    /\ tid[x.of] = h /\ Sent(x.of)
    /\ Live(x.of) => x.status = "continue" /\ x.number <= Bound(x.of)
    /\ x.of \notin Streams => x.status # "continue"

(* Of two results of a request, the first has the lower number and is not  *)
(* its end.                                                                *)
Ordered(s) ==
    \A i, j \in 1 .. Len(s) :
        i < j /\ s[i].of = s[j].of => s[i].number < s[j].number /\ s[i].status = "continue"

QueueInv ==
    /\ HandlersInv
    /\ \A r \in Asking : req[r].type = "images" => generated[r] <= req[r].n
    /\ \A h \in Threads : \A i \in 1 .. Len(process_task_results[h]) : Waits(process_task_results[h][i], h)
    /\ \A h \in Threads : Ordered(process_task_results[h])

(* The numbers grow with what is generated.                                *)
LEMMA BoundGrows ==
    ASSUME Typed, NEW r \in Asking
    PROVE  /\ Bound(r) \in Int /\ generated[r] \in Nat /\ req[r].n \in Nat /\ req[r].n >= 0
           /\ req[r].type \in {"completion", "images"}
           /\ req[r].type = "completion" => Bound(r) = generated[r]
           /\ req[r].type = "images" =>
                  Bound(r) = IF generated[r] < req[r].n THEN 2 * generated[r] ELSE 2 * generated[r] - 1
  <1>1. /\ generated[r] \in Nat /\ req[r].n \in Nat /\ req[r].type \in {"completion", "images"}
    BY Asked DEF Typed, Wishes
  <1> QED
    BY <1>1 DEF Bound

LEMMA OrderedTail ==
    ASSUME NEW q \in Seq(Results), q # <<>>, Ordered(q)
    PROVE  Ordered(Tail(q))
  <1>1. /\ Len(Tail(q)) = Len(q) - 1 /\ Len(q) \in Nat
        /\ \A i \in 1 .. Len(Tail(q)) : Tail(q)[i] = q[i + 1] /\ i + 1 \in 1 .. Len(q)
    BY TailOf
  <1>2. \A i, j \in 1 .. Len(Tail(q)) : i < j => i + 1 < j + 1
    BY <1>1
  <1> QED
    BY <1>1, <1>2 DEF Ordered

(* What is new of a request has higher numbers than all that waits of it.  *)
LEMMA OrderedPosts ==
    ASSUME NEW q \in Seq(Results), NEW new \in Seq(Results), NEW r \in Asking, NEW k \in Int,
           Ordered(q), Ordered(new),
           \A i \in 1 .. Len(q) : q[i].of = r => q[i].status = "continue" /\ q[i].number <= k,
           \A i \in 1 .. Len(new) : new[i].of = r /\ new[i].number > k
    PROVE  Ordered(q \o new)
  <1> DEFINE s == q \o new
  <1>1. /\ Len(s) = Len(q) + Len(new) /\ Len(q) \in Nat /\ Len(new) \in Nat
        /\ \A i \in 1 .. Len(s) : s[i] = IF i <= Len(q) THEN q[i] ELSE new[i - Len(q)]
    BY ConcatProperties, LenProperties
  <1>2. /\ \A i \in 1 .. Len(q) : q[i].number \in Nat
        /\ \A i \in 1 .. Len(new) : new[i].number \in Nat
    <2>1. /\ \A i \in 1 .. Len(q) : q[i] \in Results
          /\ \A i \in 1 .. Len(new) : new[i] \in Results
      BY ElementOfSeq
    <2> QED
      BY <2>1 DEF Results
  <1> HIDE DEF s
  <1> SUFFICES ASSUME NEW i \in 1 .. Len(s), NEW j \in 1 .. Len(s), i < j, s[i].of = s[j].of
               PROVE  s[i].number < s[j].number /\ s[i].status = "continue"
    BY DEF s, Ordered
  <1>3. CASE j <= Len(q)
    <2>1. i \in 1 .. Len(q) /\ j \in 1 .. Len(q) /\ s[i] = q[i] /\ s[j] = q[j]
      BY <1>1, <1>3
    <2> QED
      BY <2>1 DEF Ordered
  <1>4. CASE i <= Len(q) /\ j > Len(q)
    <2>1. i \in 1 .. Len(q) /\ j - Len(q) \in 1 .. Len(new) /\ s[i] = q[i] /\ s[j] = new[j - Len(q)]
      BY <1>1, <1>4
    <2>2. /\ q[i].of = r /\ new[j - Len(q)].number > k
          /\ new[j - Len(q)].number \in Nat /\ q[i].number \in Nat
      BY <1>2, <2>1
    <2> QED
      BY <2>1, <2>2
  <1>5. CASE i > Len(q)
    <2>1. /\ i - Len(q) \in 1 .. Len(new) /\ j - Len(q) \in 1 .. Len(new) /\ i - Len(q) < j - Len(q)
          /\ s[i] = new[i - Len(q)] /\ s[j] = new[j - Len(q)]
      BY <1>1, <1>5
    <2> QED
      BY <2>1 DEF Ordered
  <1> QED
    BY <1>1, <1>3, <1>4, <1>5

(* A step that takes from the queues at most, and leaves alone what the    *)
(* results in them depend on.                                              *)
LEMMA QueueKept ==
    ASSUME QueueInv, HandlersInv', req' = req, generated' = generated,
           \A h \in Threads : \/ process_task_results'[h] = process_task_results[h]
                              \/ /\ process_task_results[h] # <<>>
                                 /\ process_task_results'[h] = Tail(process_task_results[h]),
           \A q \in Asking : Sent(q) => tid'[q] = tid[q] /\ task'[q] = task[q]
    PROVE  QueueInv'
  <1>0. Asking' = Asking /\ Streams' = Streams /\ Typed
    BY DEF Asking, Streams, QueueInv, HandlersInv
  <1>1. ASSUME NEW h \in Threads
        PROVE  /\ Ordered(process_task_results'[h])
               /\ \A i \in 1 .. Len(process_task_results'[h]) : \E k \in 1 .. Len(process_task_results[h]) :
                      process_task_results'[h][i] = process_task_results[h][k]
    <2>1. process_task_results[h] \in Seq(Results) /\ Ordered(process_task_results[h])
      BY <1>0 DEF Typed, QueueInv
    <2>2. CASE process_task_results'[h] = process_task_results[h]
      BY <2>1, <2>2
    <2>3. CASE process_task_results[h] # <<>> /\ process_task_results'[h] = Tail(process_task_results[h])
      BY <2>1, <2>3, OrderedTail, TailOf
    <2> QED
      BY <2>2, <2>3
  <1>3. \A h \in Threads : \A i \in 1 .. Len(process_task_results'[h]) :
            Waits(process_task_results[h][i], h)'
    <2> TAKE h \in Threads
    <2> TAKE i \in 1 .. Len(process_task_results'[h])
    <2>1. PICK k \in 1 .. Len(process_task_results[h]) :
              process_task_results'[h][i] = process_task_results[h][k]
      BY <1>1
    <2> DEFINE x == process_task_results[h][k]
    <2>2. process_task_results[h] \in Seq(Results)
      BY <1>0 DEF Typed
    <2>3. x \in Results
      BY <2>2, ElementOfSeq
    <2>4. Waits(x, h)
      BY DEF QueueInv
    <2> HIDE DEF x
    <2>5. x.of \in Asking /\ Sent(x.of)
      BY <2>3, <2>4 DEF Results, Waits
    <2>6. tid'[x.of] = tid[x.of] /\ task'[x.of] = task[x.of]
      BY <2>5
    <2>7. Waits(process_task_results[h][i], h)' <=>
              /\ tid'[x.of] = h /\ task'[x.of] \notin {"unsent", "refused"}
              /\ task'[x.of] \in {"queued", "sampled"} => x.status = "continue" /\ x.number <= Bound(x.of)
              /\ x.of \notin Streams => x.status # "continue"
      BY <1>0, <2>1 DEF x, Waits, Live, Sent, Bound
    <2> QED
      BY <2>4, <2>6, <2>7 DEF Waits, Live, Sent
  <1> QED
    BY <1>0, <1>1, <1>3 DEF QueueInv, Ordered

LEMMA NothingPosted ==
    ASSUME Typed, NEW r \in Asking, process_task_results' = process_task_results
    PROVE  /\ Posts(r, <<>>) /\ Ordered(<<>>) /\ <<>> \in Seq(Results)
           /\ \A i \in 1 .. Len(<<>>) : FALSE
  <1>1. tid[r] \in Threads /\ process_task_results[tid[r]] \in Seq(Results)
    BY DEF Typed
  <1>2. process_task_results[tid[r]] \o <<>> = process_task_results[tid[r]]
    BY <1>1, ConcatEmptySeq
  <1>3. \A i \in 1 .. Len(<<>>) : FALSE
    OBVIOUS
  <1> QED
    BY <1>1, <1>2, <1>3, EmptySeq DEF Posts, Typed, Ordered

(* A step of the reconcile thread for one task.                            *)
LEMMA QueuePosts ==
    ASSUME QueueInv, HandlersInv', NEW r \in Asking, Live(r), NEW new \in Seq(Results),
           req' = req, tid' = tid,
           \A q \in Asking \ {r} : task'[q] = task[q] /\ generated'[q] = generated[q],
           Live(r)' \/ task'[r] = "destroyed",
           req[r].type = "images" => generated'[r] <= req[r].n,
           Posts(r, new), Ordered(new),
           \A i \in 1 .. Len(new) :
               new[i].of = r /\ new[i].number > Bound(r) /\ (r \notin Streams => new[i].status # "continue"),
           Live(r)' => Bound(r) <= Bound(r)' /\
               \A i \in 1 .. Len(new) : new[i].status = "continue" /\ new[i].number <= Bound(r)'
    PROVE  QueueInv'
  <1>0. /\ Asking' = Asking /\ Streams' = Streams /\ Typed /\ tid[r] \in Threads
        /\ Bound(r) \in Int
    BY BoundGrows DEF Asking, Streams, QueueInv, HandlersInv, Typed
  <1>1. Bound(r)' \in Int
    <2>1. /\ generated'[r] \in Nat /\ req[r].n \in Nat /\ req[r].type \in {"completion", "images"}
      BY <1>0, Asked DEF QueueInv, HandlersInv, Typed, Wishes
    <2> QED
      BY <2>1 DEF Bound
  <1> DEFINE after(q) ==
                 CASE req[q].type = "completion" -> generated'[q]
                   [] req[q].type = "images" /\ generated'[q] < req[q].n -> 2 * generated'[q]
                   [] OTHER -> 2 * generated'[q] - 1
  <1>8. Bound(r)' = after(r) /\ \A q \in Asking \ {r} : after(q) = Bound(q)
    BY DEF Bound
  <1>2. /\ process_task_results'[tid[r]] = process_task_results[tid[r]] \o new
        /\ \A h \in Threads \ {tid[r]} : process_task_results'[h] = process_task_results[h]
    BY <1>0 DEF Posts, Typed
  <1>3. \A h \in Threads : process_task_results[h] \in Seq(Results)
    BY <1>0 DEF Typed
  <1>4. \A h \in Threads : \A i \in 1 .. Len(process_task_results[h]) :
            /\ process_task_results[h][i] \in Results
            /\ process_task_results[h][i].number \in Nat
            /\ process_task_results[h][i].of \in Asking
    <2>1. \A h \in Threads : \A i \in 1 .. Len(process_task_results[h]) :
              process_task_results[h][i] \in Results
      BY <1>3, ElementOfSeq
    <2> QED
      BY <2>1 DEF Results
  <1>5. ASSUME NEW h \in Threads
        PROVE  Ordered(process_task_results'[h])
    <2>1. CASE h = tid[r]
      <3>1. \A i \in 1 .. Len(process_task_results[h]) : process_task_results[h][i].of = r =>
                process_task_results[h][i].status = "continue" /\ process_task_results[h][i].number <= Bound(r)
        BY DEF QueueInv, Waits
      <3>2. Ordered(process_task_results[h])
        BY DEF QueueInv
      <3>3. \A i \in 1 .. Len(new) : new[i].of = r /\ new[i].number > Bound(r)
        OBVIOUS
      <3>4. Ordered(process_task_results[h] \o new)
        BY <1>0, <1>3, <3>1, <3>2, <3>3, OrderedPosts
      <3> QED
        BY <1>2, <2>1, <3>4
    <2>2. CASE h # tid[r]
      BY <1>2, <2>2 DEF QueueInv
    <2> QED
      BY <2>1, <2>2
  <1>6. ASSUME NEW h \in Threads, NEW i \in 1 .. Len(process_task_results'[h])
        PROVE  Waits(process_task_results[h][i], h)'
    <2> DEFINE x == process_task_results'[h][i]
    <2>1. \/ \E k \in 1 .. Len(process_task_results[h]) : x = process_task_results[h][k]
          \/ h = tid[r] /\ \E k \in 1 .. Len(new) : x = new[k]
      <3>1. CASE h = tid[r]
        <4>0. process_task_results'[h] = process_task_results[h] \o new /\ process_task_results[h] \in Seq(Results)
          BY <1>2, <1>3, <3>1
        <4>1. /\ Len(process_task_results'[h]) = Len(process_task_results[h]) + Len(new)
              /\ Len(process_task_results[h]) \in Nat /\ Len(new) \in Nat
              /\ x = IF i <= Len(process_task_results[h]) THEN process_task_results[h][i]
                     ELSE new[i - Len(process_task_results[h])]
          BY <4>0, ConcatProperties, LenProperties
        <4> QED
          BY <3>1, <4>1
      <3>2. CASE h # tid[r]
        BY <1>2, <3>2
      <3> QED
        BY <3>1, <3>2
    <2> SUFFICES /\ tid[x.of] = h /\ task'[x.of] \notin {"unsent", "refused"}
                 /\ task'[x.of] \in {"queued", "sampled"} => x.status = "continue" /\ x.number <= after(x.of)
                 /\ x.of \notin Streams => x.status # "continue"
      BY <1>0 DEF Waits, Live, Sent, Bound
    <2>2. CASE \E k \in 1 .. Len(process_task_results[h]) : x = process_task_results[h][k]
      <3>1. x.of \in Asking /\ x.number \in Nat
        BY <1>4, <2>2
      <3>2. Waits(x, h)
        BY <2>2 DEF QueueInv
      <3> HIDE DEF x, after
      <3>3. CASE x.of = r
        <4>1. tid[r] = h /\ (r \notin Streams => x.status # "continue") /\ x.status = "continue" /\ x.number <= Bound(r)
          BY <3>2, <3>3 DEF Waits, Live
        <4>2. task'[r] \in {"queued", "sampled"} => x.number <= after(r)
          BY <1>0, <1>1, <1>8, <3>1, <4>1 DEF Live
        <4> QED
          BY <3>3, <4>1, <4>2 DEF Live
      <3>4. CASE x.of # r
        <4>1. task'[x.of] = task[x.of] /\ generated'[x.of] = generated[x.of]
          BY <3>1, <3>4
        <4>2. after(x.of) = Bound(x.of)
          BY <1>8, <3>1, <3>4
        <4> QED
          BY <3>2, <4>1, <4>2 DEF Waits, Live, Sent
      <3> QED
        BY <3>3, <3>4
    <2>3. CASE h = tid[r] /\ \E k \in 1 .. Len(new) : x = new[k]
      <3>1. x.of = r /\ (r \notin Streams => x.status # "continue")
            /\ (Live(r)' => x.status = "continue" /\ x.number <= Bound(r)')
        BY <2>3
      <3> HIDE DEF x, after
      <3> QED
        BY <1>8, <2>3, <3>1 DEF Live
    <2> QED
      BY <2>1, <2>2, <2>3
  <1>7. \A q \in Asking : req[q].type = "images" => generated'[q] <= req[q].n
    BY DEF QueueInv
  <1> QED
    BY <1>0, <1>5, <1>6, <1>7 DEF QueueInv, Ordered

LEMMA QueueProcess ==
    ASSUME QueueInv, HandlersInv', NEW r \in Asking, Process(r)
    PROVE  QueueInv'
  <1>0. Typed /\ Live(r) /\ req' = req /\ tid' = tid
    BY ProcessEffect DEF QueueInv, HandlersInv, Live
  <1>1. /\ Bound(r) \in Int /\ generated[r] \in Nat /\ req[r].n \in Nat
        /\ req[r].type = "completion" => Bound(r) = generated[r]
        /\ req[r].type = "images" =>
               Bound(r) = IF generated[r] < req[r].n THEN 2 * generated[r] ELSE 2 * generated[r] - 1
        /\ req[r].type = "images" => generated[r] <= req[r].n /\ req[r].n >= 1
    BY <1>0, BoundGrows, Asked DEF QueueInv
  <1>2. /\ req[r].type = "completion" => Bound(r)' = generated'[r]
        /\ req[r].type = "images" =>
               Bound(r)' = IF generated'[r] < req[r].n THEN 2 * generated'[r] ELSE 2 * generated'[r] - 1
    BY <1>0 DEF Bound
  <1>3. CASE Sample(r)
    <2>1. /\ req[r].type = "completion" /\ task' = [task EXCEPT ![r] = "sampled"]
          /\ \E yield \in Nat \ {0} : \E n \in 0 .. yield :
                 /\ generated' = [generated EXCEPT ![r] = @ + yield]
                 /\ Posts(r, Deltas(r, n)) /\ (n > 0 => r \in Streams)
      BY <1>0, <1>3, SampleIs
    <2>2. PICK yield \in Nat \ {0} : \E n \in 0 .. yield :
                 /\ generated' = [generated EXCEPT ![r] = @ + yield]
                 /\ Posts(r, Deltas(r, n)) /\ (n > 0 => r \in Streams)
      BY <2>1
    <2>3. PICK n \in 0 .. yield :
                 /\ generated' = [generated EXCEPT ![r] = @ + yield]
                 /\ Posts(r, Deltas(r, n)) /\ (n > 0 => r \in Streams)
      BY <2>2
    <2>4. /\ generated'[r] = generated[r] + yield /\ task'[r] = "sampled"
          /\ \A q \in Asking \ {r} : task'[q] = task[q] /\ generated'[q] = generated[q]
      BY <1>0, <2>1, <2>3 DEF Typed
    <2>5. /\ Live(r)' /\ Bound(r) <= Bound(r)'
          /\ Bound(r)' = generated[r] + yield /\ Bound(r) = generated[r]
      BY <1>1, <1>2, <2>1, <2>4 DEF Live
    <2> DEFINE new == Deltas(r, n)
    <2>6. /\ n \in Nat /\ new \in Seq(Results) /\ Len(new) = n
          /\ \A i \in 1 .. n : new[i].of = r /\ new[i].status = "continue" /\ new[i].number = generated[r] + i
      BY <1>0, DeltasAre
    <2> HIDE DEF new
    <2>7. Ordered(new)
      BY <1>1, <2>6 DEF Ordered
    <2>8. \A i \in 1 .. Len(new) :
              /\ new[i].of = r /\ new[i].number > Bound(r) /\ new[i].status = "continue"
              /\ new[i].number <= Bound(r)' /\ r \in Streams
      BY <1>1, <2>3, <2>5, <2>6
    <2>9. Posts(r, new)
      BY <2>3 DEF new
    <2> QED
      BY <1>0, <2>1, <2>4, <2>5, <2>6, <2>7, <2>8, <2>9, QueuePosts
  <1>4. CASE Requeue(r) \/ Drop(r)
    <2>1. /\ process_task_results' = process_task_results /\ generated' = generated
          /\ \A q \in Asking \ {r} : task'[q] = task[q]
          /\ Live(r)' \/ task'[r] = "destroyed"
      BY <1>0, <1>4 DEF Requeue, Drop, Typed, Live
    <2>2. Bound(r)' = Bound(r)
      BY <1>0, <2>1 DEF Bound
    <2>3. /\ Bound(r) <= Bound(r)'
          /\ req[r].type = "images" => generated'[r] <= req[r].n
          /\ \A q \in Asking \ {r} : task'[q] = task[q] /\ generated'[q] = generated[q]
      BY <1>1, <2>1, <2>2
    <2>4. /\ Posts(r, <<>>) /\ Ordered(<<>>) /\ <<>> \in Seq(Results)
          /\ \A i \in 1 .. Len(<<>>) : FALSE
      BY <1>0, <2>1, NothingPosted
    <2> QED
      BY <1>0, <2>1, <2>3, <2>4, QueuePosts
  <1>5. CASE Finish(r)
    <2>1. PICK status \in {"ok", "error"} : Posts(r, <<result(r, generated[r] + 1, status, {})>>)
      BY <1>5 DEF Finish
    <2> DEFINE x == result(r, generated[r] + 1, status, {})
    <2>2. /\ req[r].type = "completion" /\ generated' = generated /\ Posts(r, <<x>>)
          /\ task'[r] = "destroyed"
          /\ \A q \in Asking \ {r} : task'[q] = task[q]
      BY <1>0, <1>5, <2>1 DEF Finish, Typed
    <2>7. x \in Results
      <3>1. generated[r] + 1 \in Nat /\ status \in {"continue", "ok", "error", "throws"}
        BY <1>1
      <3> QED
        BY <3>1, ResultType
    <2>3. x \in Results /\ x.of = r /\ x.number = generated[r] + 1 /\ x.status # "continue"
      BY <2>7 DEF result
    <2> HIDE DEF x
    <2>4. /\ <<x>> \in Seq(Results) /\ Ordered(<<x>>)
          /\ \A i \in 1 .. Len(<<x>>) : <<x>>[i] = x
      BY <2>3 DEF Ordered
    <2>5. \A i \in 1 .. Len(<<x>>) :
              /\ <<x>>[i].of = r /\ <<x>>[i].number > Bound(r)
              /\ r \notin Streams => <<x>>[i].status # "continue"
      BY <1>1, <2>2, <2>3, <2>4
    <2>6. ~Live(r)'
      BY <2>2 DEF Live
    <2> QED
      BY <1>0, <1>1, <2>2, <2>4, <2>5, <2>6, QueuePosts
  <1>6. CASE Render(r)
    <2> DEFINE n == generated[r] + 1
               new == ToJson(r, n)
    <2>1. /\ req[r].type = "images" /\ generated[r] < req[r].n
          /\ task' = task
          /\ generated'[r] = n
          /\ \A q \in Asking \ {r} : generated'[q] = generated[q]
          /\ process_task_results' = process_task_results \/ (r \in Streams /\ Posts(r, new))
      BY <1>0, <1>6 DEF Render, Typed
    <2>2. /\ Live(r)' /\ n \in Nat /\ n >= 1 /\ n <= req[r].n
          /\ Bound(r) = 2 * n - 2
          /\ Bound(r)' = IF n < req[r].n THEN 2 * n ELSE 2 * n - 1
      BY <1>0, <1>1, <1>2, <2>1 DEF Live
    <2>3. Bound(r) <= Bound(r)'
      BY <1>1, <2>2
    <2>4. CASE process_task_results' = process_task_results
      BY <1>0, <2>1, <2>2, <2>3, <2>4, NothingPosted, QueuePosts
    <2>5. CASE r \in Streams /\ Posts(r, new)
      <3>1. /\ new \in Seq(Results)
            /\ \A i \in 1 .. Len(new) :
                   /\ new[i] \in Results /\ new[i].of = r /\ new[i].status = "continue"
                   /\ new[i].number >= 2 * n - 1
                   /\ new[i].number <= IF n < req[r].n THEN 2 * n ELSE 2 * n - 1
            /\ \A i, j \in 1 .. Len(new) : i < j => new[i].number < new[j].number
        BY <1>0, <2>2, Rendered, ElementOfSeq
      <3> HIDE DEF new
      <3>2. Ordered(new)
        BY <3>1 DEF Ordered
      <3>3. \A i \in 1 .. Len(new) : new[i].number \in Nat
        BY <3>1 DEF Results
      <3> HIDE DEF n
      <3>4. \A i \in 1 .. Len(new) :
                 /\ new[i].number > Bound(r)
                 /\ new[i].number <= Bound(r)'
        BY <1>1, <2>2, <3>1, <3>3
      <3> QED
        BY <1>0, <2>1, <2>2, <2>3, <2>5, <3>1, <3>2, <3>4, QueuePosts
    <2> QED
      BY <2>1, <2>4, <2>5
  <1>7. CASE FinishImages(r)
    <2> DEFINE status == IF images[r].failed = {} THEN "ok" ELSE "error"
               x == result(r, 2 * req[r].n, status, images[r].b64)
    <2>1. /\ req[r].type = "images" /\ generated[r] = req[r].n
          /\ generated' = generated /\ Posts(r, <<x>>)
          /\ task'[r] = "destroyed"
          /\ \A q \in Asking \ {r} : task'[q] = task[q]
      BY <1>0, <1>7 DEF FinishImages, Typed
    <2>2. x \in Results
      BY <1>0, <1>1, ResultType DEF Typed
    <2>3. x.of = r /\ x.number = 2 * req[r].n /\ x.status # "continue"
      BY DEF result
    <2> HIDE DEF x
    <2>4. /\ <<x>> \in Seq(Results) /\ Ordered(<<x>>)
          /\ \A i \in 1 .. Len(<<x>>) : <<x>>[i] = x
      BY <2>2 DEF Ordered
    <2>5. \A i \in 1 .. Len(<<x>>) :
              /\ <<x>>[i].of = r /\ <<x>>[i].number > Bound(r)
              /\ r \notin Streams => <<x>>[i].status # "continue"
      BY <1>1, <2>1, <2>3, <2>4
    <2>6. ~Live(r)'
      BY <2>1 DEF Live
    <2> QED
      BY <1>0, <1>1, <2>1, <2>4, <2>5, <2>6, QueuePosts
  <1> QED
    BY <1>3, <1>4, <1>5, <1>6, <1>7 DEF Process

(* A thread takes from the front of its own queue.                         *)
LEMMA HttpTakes ==
    ASSUME Typed, NEW h \in Threads, http_thread(h)
    PROVE  /\ \A g \in Threads \ {h} : process_task_results'[g] = process_task_results[g]
           /\ \/ process_task_results'[h] = process_task_results[h]
              \/ /\ process_task_results[h] # <<>>
                 /\ process_task_results'[h] = Tail(process_task_results[h])
  <1>1. process_task_results' = process_task_results \/ Takes(h)
    BY DEF http_thread, Answer, PollStream, Chunk, ChunkFails, TakePieces, WritePiece
  <1> QED
    BY <1>1 DEF Takes, Typed

LEMMA QueueInit ==
    ASSUME Init
    PROVE  QueueInv
  <1>1. HandlersInv
    BY HandlersInit
  <1>2. /\ process_task_results = [h \in Threads |-> <<>>] /\ generated = [r \in Asking |-> 0]
        /\ \A i \in 1 .. Len(<<>>) : FALSE
    BY DEF Init
  <1>3. \A r \in Asking : req[r].type = "images" => generated[r] <= req[r].n
    BY <1>1, <1>2, Asked DEF HandlersInv, Wishes
  <1> QED
    BY <1>1, <1>2, <1>3 DEF QueueInv, Ordered

LEMMA QueueStep ==
    ASSUME QueueInv, [Next]_vars
    PROVE  QueueInv'
  <1>0. Typed /\ HandlersInv /\ HandlersInv'
    BY HandlersStep DEF QueueInv, HandlersInv
  <1>1. ASSUME NEW h \in Threads, NEW r \in Asking, Refuse(h, r) \/ Enqueue(h, r)
        PROVE  QueueInv'
    <2>1. /\ UNCHANGED <<req, generated, process_task_results>>
          /\ task[r] = "unsent"
          /\ \A q \in Asking \ {r} : tid'[q] = tid[q] /\ task'[q] = task[q]
      BY <1>0, <1>1 DEF Refuse, Enqueue, Typed
    <2>2. \A q \in Asking : Sent(q) => tid'[q] = tid[q] /\ task'[q] = task[q]
      BY <2>1 DEF Sent
    <2> QED
      BY <1>0, <2>1, <2>2, QueueKept
  <1>2. ASSUME NEW h \in Threads, http_thread(h)
        PROVE  QueueInv'
    <2>1. UNCHANGED <<req, generated, task, tid>>
      BY <1>0, <1>2, HttpEffect
    <2> QED
      BY <1>0, <1>2, <2>1, HttpTakes, QueueKept
  <1>3. CASE (\E r \in Asking : Disconnect(r)) \/ Tick \/ UNCHANGED vars
    <2>1. UNCHANGED <<req, generated, task, tid, process_task_results>>
      BY <1>3 DEF Disconnect, Tick, vars
    <2> QED
      BY <1>0, <2>1, QueueKept
  <1> QED
    BY <1>0, <1>1, <1>2, <1>3, QueueProcess DEF Next

(***************************************************************************)
(* The results of a request wait only in the queue of the thread that      *)
(* enqueued it, in the order they were generated, an end behind all others.*)
(***************************************************************************)
THEOREM ResultsInOrder == Spec => []PostedInOrder
  <1>1. QueueInv => PostedInOrder
    <2> SUFFICES ASSUME QueueInv
                 PROVE  PostedInOrder
      OBVIOUS
    <2>1. \A h \in Threads : DOMAIN process_task_results[h] = 1 .. Len(process_task_results[h])
      BY LenProperties DEF QueueInv, HandlersInv, Typed
    <2> QED
      BY <2>1 DEF PostedInOrder, QueueInv, Ordered, Waits
  <1>2. Spec => []QueueInv
    BY QueueInit, QueueStep, PTL DEF Spec
  <1> QED
    BY <1>1, <1>2, PTL

(* As long as no client left a stream of it, a thread serves the only task *)
(* that posts to it, and has read all there is when it is about to end.    *)
CleanInv ==
    /\ QueueInv
    /\ \A r \in Asking : Live(r) => serving[tid[r]] = r \/ Tainted(tid[r])
    /\ \A h \in Threads :
           writing[h] # <<>> /\ writing[h][Len(writing[h])].status \in {"ok", "error"} =>
               Tainted(h) \/ (process_task_results[h] = <<>> /\ task[serving[h]] = "destroyed")
    /\ \A h \in Threads : \A i \in 1 .. Len(process_task_results[h]) :
           process_task_results[h][i].of = serving[h] \/ Tainted(h)

(* The reconcile thread posts results of the request it processes.         *)
LEMMA ProcessPosts ==
    ASSUME Typed, NEW r \in Asking, Process(r)
    PROVE  \E new \in Seq(Results) :
               Posts(r, new) /\ \A i \in 1 .. Len(new) : new[i].of = r /\ new[i].status # "throws"
  <1>1. /\ generated[r] + 1 \in Nat /\ generated[r] + 1 >= 1 /\ 2 * req[r].n \in Nat
        /\ images[r].b64 \in SUBSET Nat
    <2>1. generated[r] \in Nat /\ images[r].b64 \in SUBSET Nat
      BY DEF Typed
    <2>2. req[r].n \in Nat
      BY Asked DEF Wishes
    <2> QED
      BY <2>1, <2>2
  <1>2. ASSUME NEW number \in Nat, NEW status \in {"continue", "ok", "error"},
               NEW b64 \in SUBSET Nat, Posts(r, <<result(r, number, status, b64)>>)
        PROVE  \E new \in Seq(Results) :
                   Posts(r, new) /\ \A i \in 1 .. Len(new) : new[i].of = r /\ new[i].status # "throws"
    <2> DEFINE x == result(r, number, status, b64)
    <2>1. x \in Results /\ x.of = r /\ x.status # "throws" /\ Posts(r, <<x>>)
      BY <1>2, ResultType DEF result
    <2> HIDE DEF x
    <2>2. <<x>> \in Seq(Results) /\ \A i \in 1 .. Len(<<x>>) : <<x>>[i].of = r /\ <<x>>[i].status # "throws"
      BY <2>1
    <2> QED
      BY <2>1, <2>2
  <1>3. CASE process_task_results' = process_task_results
    BY <1>3, NothingPosted
  <1>4. CASE Sample(r)
    <2>1. PICK n \in Nat : Posts(r, Deltas(r, n))
      BY <1>4, SampleIs
    <2>2. /\ Deltas(r, n) \in Seq(Results) /\ Len(Deltas(r, n)) = n
          /\ \A i \in 1 .. n : Deltas(r, n)[i].of = r /\ Deltas(r, n)[i].status = "continue"
      BY DeltasAre
    <2> QED
      BY <2>1, <2>2
  <1>5. CASE Finish(r)
    <2>1. PICK status \in {"ok", "error"} : Posts(r, <<result(r, generated[r] + 1, status, {})>>)
      BY <1>5 DEF Finish
    <2> QED
      BY <1>1, <1>2, <2>1
  <1>6. CASE Render(r) /\ process_task_results' # process_task_results
    <2>1. Posts(r, ToJson(r, generated[r] + 1))
      BY <1>6 DEF Render
    <2> QED
      BY <1>1, <2>1, Rendered
  <1>7. CASE FinishImages(r)
    <2> DEFINE status == IF images[r].failed = {} THEN "ok" ELSE "error"
    <2>1. Posts(r, <<result(r, 2 * req[r].n, status, images[r].b64)>>)
      BY <1>7 DEF FinishImages
    <2>2. status \in {"continue", "ok", "error"}
      OBVIOUS
    <2> HIDE DEF status
    <2> QED
      BY <1>1, <1>2, <2>1, <2>2
  <1>8. Requeue(r) \/ Drop(r) => process_task_results' = process_task_results
    BY DEF Requeue, Drop
  <1> QED
    BY <1>3, <1>4, <1>5, <1>6, <1>7, <1>8 DEF Process

(* A thread stays abandoned.                                               *)
LEMMA TaintKept ==
    ASSUME HandlersInv, [Next]_vars, NEW h \in Threads, Tainted(h)
    PROVE  Tainted(h)'
  <1>1. Typed
    BY DEF HandlersInv
  <1>2. req' = req /\ closed \subseteq closed' /\ \A q \in Asking : Sent(q) => tid'[q] = tid[q]
    <2>1. ASSUME NEW g \in Threads, NEW r \in Asking, Refuse(g, r) \/ Enqueue(g, r)
          PROVE  req' = req /\ closed \subseteq closed' /\ \A q \in Asking : Sent(q) => tid'[q] = tid[q]
      BY <1>1, <2>1 DEF Refuse, Enqueue, Sent, Typed
    <2>2. ASSUME NEW r \in Asking, Disconnect(r)
          PROVE  req' = req /\ closed \subseteq closed' /\ tid' = tid
      BY <2>2 DEF Disconnect
    <2>3. ASSUME NEW g \in Threads, http_thread(g)
          PROVE  UNCHANGED <<req, closed, tid>>
      BY <2>3, HttpEffect
    <2>4. ASSUME NEW r \in Asking, Process(r)
          PROVE  UNCHANGED <<req, closed, tid>>
      BY <2>4, ProcessEffect
    <2>5. CASE Tick \/ UNCHANGED vars
      BY <2>5 DEF Tick, vars
    <2> QED
      BY <2>1, <2>2, <2>3, <2>4, <2>5 DEF Next
  <1>3. PICK r \in closed \cap Streams : tid[r] = h
    BY DEF Tainted
  <1>4. Sent(r) /\ r \in Asking
    BY DEF HandlersInv, Streams
  <1>5. r \in closed' \cap Streams' /\ tid'[r] = h
    BY <1>2, <1>3, <1>4 DEF Streams, Asking
  <1> QED
    BY <1>5 DEF Tainted

(* The end of a request is the last in the queue of a thread that no       *)
(* client left.                                                            *)
LEMMA AllRead ==
    ASSUME CleanInv, NEW h \in Threads, process_task_results[h] # <<>>, ~Tainted(h),
           Head(process_task_results[h]).status # "continue" \/ serving[h] \notin Streams
    PROVE  /\ Tail(process_task_results[h]) = <<>>
           /\ task[serving[h]] = "destroyed"
  <1> DEFINE q == process_task_results[h]
  <1>1. /\ q \in Seq(Results) /\ Ordered(q)
        /\ \A i \in 1 .. Len(q) : q[i].of = serving[h] /\ Waits(q[i], h)
    BY DEF CleanInv, QueueInv, HandlersInv, Typed
  <1>2. /\ Len(q) \in Nat /\ Len(q) > 0 /\ Head(q) = q[1] /\ Head(q) \in Results
        /\ Tail(q) \in Seq(Results) /\ Len(Tail(q)) = Len(q) - 1
    BY <1>1, TailOf
  <1>3. /\ q[1].of = serving[h] /\ serving[h] \in Asking /\ Waits(q[1], h)
    BY <1>1, <1>2 DEF Results
  <1>4. q[1].status # "continue"
    BY <1>2, <1>3 DEF Waits
  <1>5. task[serving[h]] = "destroyed"
    <2>1. task[serving[h]] \in Tasks
      BY <1>3 DEF CleanInv, QueueInv, HandlersInv, Typed
    <2> QED
      BY <1>3, <1>4, <2>1 DEF Waits, Live, Sent, Tasks
  <1>6. Len(q) = 1
    <2> SUFFICES ~(Len(q) > 1)
      <3> DEFINE n == Len(q)
      <3>1. n \in Nat /\ n > 0
        BY <1>2
      <3> HIDE DEF n
      <3>2. n = 1 \/ n > 1
        BY <3>1
      <3> QED
        BY <3>2 DEF n
    <2>1. SUFFICES ASSUME Len(q) > 1
                   PROVE  FALSE
      OBVIOUS
    <2>2. 1 \in 1 .. Len(q) /\ 2 \in 1 .. Len(q)
      BY <1>2, <2>1
    <2>3. q[1].of = q[2].of
      BY <1>1, <2>2
    <2> QED
      BY <1>1, <1>4, <2>2, <2>3 DEF Ordered
  <1>7. Tail(q) = <<>>
    <2>1. Len(Tail(q)) = 0
      BY <1>2, <1>6
    <2> QED
      BY <1>2, <2>1, EmptySeq
  <1> QED
    BY <1>5, <1>7

(* A thread that leaves its request, or is about to write an end in pieces,*)
(* was left by a client or has read all that was posted to it.             *)
LEMMA CleanLeave ==
    ASSUME CleanInv, NEW h \in Threads, http_thread(h)
    PROVE  /\ serving'[h] = NoRequest =>
                  Tainted(h) \/ (process_task_results'[h] = <<>> /\ task[serving[h]] = "destroyed")
           /\ writing'[h] # <<>> /\ writing'[h][Len(writing'[h])].status \in {"ok", "error"} =>
                  Tainted(h) \/ (process_task_results'[h] = <<>> /\ task[serving[h]] = "destroyed")
  <1> DEFINE c == serving[h]
             q == process_task_results[h]
             Done == Tainted(h) \/ (process_task_results'[h] = <<>> /\ task[c] = "destroyed")
             Last(s) == s # <<>> /\ s[Len(s)].status \in {"ok", "error"}
  <1>0. HandlersInv /\ Typed
    BY DEF CleanInv, QueueInv, HandlersInv
  <1>1. /\ c \in Asking /\ c # NoRequest /\ tid[c] = h
        /\ writing \in [Threads -> Seq(Results)] /\ serving \in [Threads -> Asking \cup {NoRequest}]
    BY <1>0, HttpEffect, Asked DEF HandlersInv, Typed
  <1>2. c \in Streams /\ c \in closed => Tainted(h)
    BY <1>1 DEF Tainted
  <1>3. Return(h) => writing'[h] = <<>>
    BY <1>1 DEF Return
  <1>4. Takes(h) /\ (Head(q).status # "continue" \/ c \notin Streams) => Done
    <2> SUFFICES ASSUME Takes(h), Head(q).status # "continue" \/ c \notin Streams, ~Tainted(h)
                 PROVE  process_task_results'[h] = <<>> /\ task[c] = "destroyed"
      OBVIOUS
    <2>1. q # <<>> /\ process_task_results'[h] = Tail(q)
      BY <1>0 DEF Takes, Typed
    <2> QED
      BY <2>1, AllRead
  <1>5. Last(writing[h]) => Tainted(h) \/ (q = <<>> /\ task[c] = "destroyed")
    BY DEF CleanInv
  <1>6. writing[h] = <<>> \/ c \in Streams
    BY <1>0 DEF HandlersInv
  <1>7. CASE Answer(h)
    <2>1. Takes(h) /\ Return(h) /\ c \notin Streams
      BY <1>7 DEF Answer
    <2> QED
      BY <1>3, <1>4, <2>1
  <1>8. CASE PollStream(h)
    <2>1. /\ c \in Streams /\ writing[h] = <<>>
          /\ (c \in closed /\ Return(h)) \/ UNCHANGED <<serving, writing>>
      BY <1>8 DEF PollStream
    <2> QED
      BY <1>1, <1>2, <1>3, <2>1
  <1>9. CASE Chunk(h)
    <2>1. /\ Takes(h)
          /\ \/ Head(q).status # "continue" /\ Return(h)
             \/ Head(q).status = "continue" /\ UNCHANGED <<serving, writing>>
      BY <1>9 DEF Chunk, Poll
    <2>2. CASE Head(q).status # "continue" /\ Return(h)
      BY <1>3, <1>4, <2>1, <2>2
    <2>3. CASE Head(q).status = "continue" /\ UNCHANGED <<serving, writing>>
      <3>1. q # <<>>
        BY <2>1 DEF Takes
      <3> QED
        BY <1>1, <1>5, <2>3, <3>1
    <2> QED
      BY <2>1, <2>2, <2>3
  <1>10. CASE ChunkFails(h)
    BY <1>2, <1>10 DEF ChunkFails
  <1>11. CASE TakePieces(h)
    <2> DEFINE taken == Head(q)
               pieces == PiecesOf(taken, req[c].size)
    <2>1. /\ Takes(h) /\ req' = req /\ serving' = serving /\ writing'[h] = pieces
      BY <1>1, <1>11 DEF TakePieces
    <2>2. taken \in Results /\ req[c].size \in Nat
      BY <1>0, <1>1, <2>1, TakesType, Asked DEF Wishes
    <2>3. /\ pieces \in Seq(Results)
          /\ \A i \in 1 .. Len(pieces) : pieces[i].status \in {"continue", "throws"} \/ pieces[i] = taken
      BY <2>2, Pieces
    <2> HIDE DEF pieces, taken
    <2>4. Last(pieces) => taken.status # "continue"
      <3>1. pieces # <<>> => Len(pieces) \in 1 .. Len(pieces)
        BY <2>3, EmptySeq, LenProperties
      <3> QED
        BY <2>3, <3>1
    <2> QED
      BY <1>1, <1>4, <2>1, <2>4 DEF taken
  <1>12. CASE WritePiece(h)
    <2> DEFINE w == writing[h]
    <2>1. w \in Seq(Results) /\ w # <<>> /\ Head(w).status # "throws"
          /\ process_task_results' = process_task_results /\ c \in Streams
      BY <1>1, <1>6, <1>12 DEF WritePiece
    <2>2. /\ Tail(w) \in Seq(Results) /\ Len(Tail(w)) = Len(w) - 1 /\ Len(w) \in Nat /\ Len(w) > 0
          /\ \A i \in 1 .. Len(Tail(w)) : Tail(w)[i] = w[i + 1]
          /\ Head(w) = w[1] /\ Head(w) \in Results
      BY <2>1, TailOf
    <2>3. \/ c \in closed
          \/ Tail(w) # <<>> /\ serving' = serving /\ writing' = [writing EXCEPT ![h] = Tail(w)]
          \/ serving' = serving /\ writing' = [writing EXCEPT ![h] = <<>>]
          \/ Tail(w) = <<>> /\ Head(w).status # "continue" /\ Return(h)
      BY <1>12 DEF WritePiece
    <2>4. CASE c \in closed
      BY <1>2, <2>1, <2>4
    <2>5. CASE Tail(w) # <<>> /\ serving' = serving /\ writing' = [writing EXCEPT ![h] = Tail(w)]
      <3>1. writing'[h] = Tail(w) /\ serving'[h] # NoRequest
        BY <1>1, <2>5
      <3>2. Tail(w)[Len(Tail(w))] = w[Len(w)]
        <4>1. Len(Tail(w)) > 0
          BY <2>2, <2>5, EmptySeq
        <4>2. Len(Tail(w)) \in 1 .. Len(Tail(w)) /\ Len(Tail(w)) + 1 = Len(w)
          BY <2>2, <4>1
        <4> QED
          BY <2>2, <4>2
      <3> QED
        BY <1>5, <2>1, <3>1, <3>2
    <2>6. CASE serving' = serving /\ writing' = [writing EXCEPT ![h] = <<>>]
      <3>1. writing'[h] = <<>> /\ serving'[h] # NoRequest
        BY <1>1, <2>6
      <3> QED
        BY <3>1
    <2>7. CASE Tail(w) = <<>> /\ Head(w).status # "continue" /\ Return(h)
      <3>1. Len(w) = 1
        <4>1. Len(Tail(w)) = 0
          <5>1. Tail(w) = <<>>
            BY <2>7
          <5> HIDE DEF w
          <5> QED
            BY <2>2, <5>1, EmptySeq
        <4> QED
          BY <2>2, <4>1
      <3>2. w[Len(w)].status \in {"ok", "error"}
        <4>1. Head(w).status \in {"continue", "ok", "error", "throws"}
          BY <2>2 DEF Results
        <4> QED
          BY <2>1, <2>2, <2>7, <3>1, <4>1
      <3> QED
        BY <1>3, <1>5, <2>1, <2>7, <3>2
    <2> QED
      BY <2>3, <2>4, <2>5, <2>6, <2>7
  <1> QED
    BY <1>7, <1>8, <1>9, <1>10, <1>11, <1>12 DEF http_thread

LEMMA CleanInit ==
    ASSUME Init
    PROVE  CleanInv
  <1>1. QueueInv
    BY QueueInit
  <1>2. /\ process_task_results = [h \in Threads |-> <<>>] /\ writing = [h \in Threads |-> <<>>]
        /\ task = [r \in Asking |-> "unsent"] /\ \A i \in 1 .. Len(<<>>) : FALSE
    BY DEF Init
  <1> QED
    BY <1>1, <1>2 DEF CleanInv, Live

LEMMA CleanHttp ==
    ASSUME CleanInv, QueueInv', NEW h \in Threads, http_thread(h),
           \A g \in Threads : Tainted(g) => Tainted(g)'
    PROVE  CleanInv'
  <1>0. HandlersInv /\ Typed
    BY DEF CleanInv, QueueInv, HandlersInv
  <1>1. /\ serving[h] \in Asking /\ UNCHANGED <<req, tid, task>>
        /\ \A g \in Threads : serving'[g] = serving[g] \/ (g = h /\ serving'[g] = NoRequest)
        /\ \A g \in Threads \ {h} : writing'[g] = writing[g]
        /\ writing'[h] # <<>> => serving'[h] = serving[h]
    BY <1>0, HttpEffect
  <1>2. /\ \A g \in Threads \ {h} : process_task_results'[g] = process_task_results[g]
        /\ \/ process_task_results'[h] = process_task_results[h]
           \/ /\ process_task_results[h] # <<>>
              /\ process_task_results'[h] = Tail(process_task_results[h])
    BY <1>0, HttpTakes
  <1>3. /\ serving'[h] = NoRequest =>
               Tainted(h) \/ (process_task_results'[h] = <<>> /\ task[serving[h]] = "destroyed")
        /\ writing'[h] # <<>> /\ writing'[h][Len(writing'[h])].status \in {"ok", "error"} =>
               Tainted(h) \/ (process_task_results'[h] = <<>> /\ task[serving[h]] = "destroyed")
    BY CleanLeave
  <1>4. Asking' = Asking /\ \A r \in Asking : tid[r] \in Threads
    BY <1>0, <1>1 DEF Asking, Typed
  <1>5. ASSUME NEW r \in Asking, task[r] \in {"queued", "sampled"}, ~Tainted(tid[r])'
        PROVE  serving'[tid[r]] = r
    <2>1. ~Tainted(tid[r])
      BY <1>1, <1>4, <1>5 DEF Tainted
    <2>2. serving[tid[r]] = r
      BY <1>5, <2>1 DEF CleanInv, Live
    <2>3. tid[r] = h => task[serving[h]] # "destroyed"
      BY <1>5, <2>2
    <2> QED
      BY <1>1, <1>3, <1>4, <2>1, <2>2, <2>3
  <1>6. \A g \in Threads :
           writing'[g] # <<>> /\ writing'[g][Len(writing'[g])].status \in {"ok", "error"} =>
               Tainted(g) \/ (process_task_results'[g] = <<>> /\ task'[serving'[g]] = "destroyed")
    <2> TAKE g \in Threads
    <2>1. CASE g = h
      BY <1>1, <1>3, <2>1
    <2>2. CASE g # h
      BY <1>1, <1>2, <2>2 DEF CleanInv
    <2> QED
      BY <2>1, <2>2
  <1>7. \A g \in Threads : \A i \in 1 .. Len(process_task_results'[g]) :
           process_task_results'[g][i].of = serving'[g] \/ Tainted(g)
    <2> TAKE g \in Threads
    <2>1. CASE g # h
      BY <1>1, <1>2, <2>1 DEF CleanInv
    <2>2. CASE g = h /\ serving'[h] = NoRequest
      <3>1. \A i \in 1 .. Len(<<>>) : FALSE
        OBVIOUS
      <3> QED
        BY <1>3, <2>2, <3>1
    <2>3. CASE g = h /\ serving'[h] = serving[h]
      <3>1. \A i \in 1 .. Len(process_task_results[h]) :
                process_task_results[h][i].of = serving[h] \/ Tainted(h)
        BY DEF CleanInv
      <3>2. process_task_results[h] # <<>> =>
               \A i \in 1 .. Len(Tail(process_task_results[h])) :
                   /\ Tail(process_task_results[h])[i] = process_task_results[h][i + 1]
                   /\ i + 1 \in 1 .. Len(process_task_results[h])
        BY <1>0, TailOf DEF Typed
      <3> QED
        <4>1. CASE process_task_results'[h] = process_task_results[h]
          BY <2>3, <3>1, <4>1
        <4>2. CASE /\ process_task_results[h] # <<>>
                   /\ process_task_results'[h] = Tail(process_task_results[h])
          <5>1. \A i \in 1 .. Len(Tail(process_task_results[h])) :
                    Tail(process_task_results[h])[i].of = serving[h] \/ Tainted(h)
            BY <3>1, <3>2, <4>2
          <5> QED
            BY <2>3, <4>2, <5>1
        <4> QED
          BY <1>2, <4>1, <4>2
    <2> QED
      BY <1>1, <2>1, <2>2, <2>3
  <1>8. \A r \in Asking : Live(r)' => serving'[tid'[r]] = r \/ Tainted(tid[r])'
    BY <1>1, <1>5 DEF Live
  <1> QED
    BY <1>4, <1>6, <1>7, <1>8 DEF CleanInv

LEMMA CleanProcess ==
    ASSUME CleanInv, QueueInv', NEW r \in Asking, Process(r),
           \A g \in Threads : Tainted(g) => Tainted(g)'
    PROVE  CleanInv'
  <1>0. HandlersInv /\ Typed /\ tid[r] \in Threads
    BY DEF CleanInv, QueueInv, HandlersInv, Typed
  <1>1. /\ UNCHANGED <<req, serving, writing, tid, closed>> /\ Live(r)
        /\ \A q \in Asking \ {r} : task'[q] = task[q]
    BY <1>0, ProcessEffect DEF Typed, Live, http_vars
  <1>2. PICK new \in Seq(Results) : Posts(r, new) /\ \A i \in 1 .. Len(new) : new[i].of = r
    BY <1>0, ProcessPosts
  <1>3. /\ Asking' = Asking /\ Streams' = Streams /\ \A g : Tainted(g)' <=> Tainted(g)
    BY <1>1 DEF Asking, Streams, Tainted
  <1>4. serving[tid[r]] = r \/ Tainted(tid[r])
    BY <1>1 DEF CleanInv
  <1>5. /\ process_task_results'[tid[r]] = process_task_results[tid[r]] \o new
        /\ \A g \in Threads \ {tid[r]} : process_task_results'[g] = process_task_results[g]
    BY <1>0, <1>2 DEF Posts, Typed
  <1>6. \A q \in Asking : Live(q)' => serving[tid[q]] = q \/ Tainted(tid[q])
    BY <1>1, <1>4 DEF CleanInv, Live
  <1>7. \A g \in Threads :
           writing[g] # <<>> /\ writing[g][Len(writing[g])].status \in {"ok", "error"} =>
               Tainted(g) \/ (process_task_results'[g] = <<>> /\ task'[serving[g]] = "destroyed")
    <2> SUFFICES ASSUME NEW g \in Threads, ~Tainted(g),
                        writing[g] # <<>> /\ writing[g][Len(writing[g])].status \in {"ok", "error"}
                 PROVE  process_task_results'[g] = <<>> /\ task'[serving[g]] = "destroyed"
      OBVIOUS
    <2>1. process_task_results[g] = <<>> /\ task[serving[g]] = "destroyed"
      BY DEF CleanInv
    <2>2. serving[g] # r /\ serving[g] \in Asking
      <3>1. serving[g] \in Streams
        BY <1>0 DEF HandlersInv
      <3> QED
        BY <1>1, <2>1, <3>1 DEF Live, Streams
    <2>3. g # tid[r]
      BY <1>4, <2>2
    <2> QED
      BY <1>1, <1>5, <2>1, <2>2, <2>3
  <1>8. \A g \in Threads : \A i \in 1 .. Len(process_task_results'[g]) :
           process_task_results'[g][i].of = serving[g] \/ Tainted(g)
    <2> TAKE g \in Threads
    <2>1. CASE g # tid[r]
      BY <1>5, <2>1 DEF CleanInv
    <2>2. CASE g = tid[r]
      <3> DEFINE q == process_task_results[g]
      <3>1. /\ q \in Seq(Results) /\ process_task_results'[g] = q \o new
            /\ \A i \in 1 .. Len(q) : q[i].of = serving[g] \/ Tainted(g)
        BY <1>0, <1>5, <2>2 DEF CleanInv, Typed
      <3> HIDE DEF q
      <3>2. /\ Len(q \o new) = Len(q) + Len(new) /\ Len(q) \in Nat /\ Len(new) \in Nat
            /\ \A i \in 1 .. Len(q) + Len(new) : (q \o new)[i] = IF i <= Len(q) THEN q[i] ELSE new[i - Len(q)]
        BY <3>1, ConcatProperties, LenProperties
      <3>3. \A i \in 1 .. Len(q) + Len(new) : (q \o new)[i].of = serving[g] \/ Tainted(g)
        <4> TAKE i \in 1 .. Len(q) + Len(new)
        <4>1. CASE i <= Len(q)
          <5>1. i \in 1 .. Len(q)
            BY <3>2, <4>1
          <5> QED
            BY <3>1, <3>2, <4>1, <5>1
        <4>2. CASE i > Len(q)
          <5>1. i - Len(q) \in 1 .. Len(new) /\ (q \o new)[i] = new[i - Len(q)]
            BY <3>2, <4>2
          <5> QED
            BY <1>2, <1>4, <2>2, <5>1
        <4> QED
          BY <3>2, <4>1, <4>2
      <3> QED
        BY <3>1, <3>2, <3>3
    <2> QED
      BY <2>1, <2>2
  <1> QED
    BY <1>1, <1>3, <1>6, <1>7, <1>8 DEF CleanInv

LEMMA CleanEnqueue ==
    ASSUME CleanInv, QueueInv', NEW h \in Threads, NEW r \in Asking, Refuse(h, r) \/ Enqueue(h, r),
           \A g \in Threads : Tainted(g) => Tainted(g)'
    PROVE  CleanInv'
  <1>0. HandlersInv /\ Typed
    BY DEF CleanInv, QueueInv, HandlersInv
  <1>1. /\ serving[h] = NoRequest /\ task[r] = "unsent"
        /\ UNCHANGED <<req, writing, process_task_results>>
        /\ \A q \in Asking \ {r} : tid'[q] = tid[q] /\ task'[q] = task[q]
        /\ \A g \in Threads \ {h} : serving'[g] = serving[g]
        /\ \/ task'[r] = "refused" /\ serving'[h] = NoRequest
           \/ tid'[r] = h /\ serving'[h] = r
    BY <1>0 DEF Refuse, Enqueue, Typed
  <1>2. Asking' = Asking /\ \A g \in Threads : serving[g] # r
    BY <1>0, <1>1, Asked DEF Asking, HandlersInv, Sent
  <1>3. ASSUME NEW q \in Asking, Live(q)'
        PROVE  serving'[tid'[q]] = q \/ Tainted(tid[q])'
    <2>1. CASE q = r
      BY <1>1, <1>3, <2>1 DEF Live
    <2>2. CASE q # r
      <3>1. /\ Live(q) /\ tid'[q] = tid[q] /\ tid[q] \in Threads /\ q # NoRequest
        BY <1>0, <1>1, <1>3, <2>2, Asked DEF Live, Typed
      <3>2. serving[tid[q]] = q \/ Tainted(tid[q])
        BY <3>1 DEF CleanInv
      <3>3. CASE Tainted(tid[q])
        <4>1. \A g \in Threads : Tainted(g) => \E p \in closed' \cap Streams' : tid'[p] = g
          BY DEF Tainted
        <4> QED
          BY <3>1, <3>3, <4>1 DEF Tainted
      <3>4. CASE serving[tid[q]] = q
        BY <1>1, <3>1, <3>4
      <3> QED
        BY <3>2, <3>3, <3>4
    <2> QED
      BY <2>1, <2>2
  <1>4. \A g \in Threads :
           writing'[g] # <<>> /\ writing'[g][Len(writing'[g])].status \in {"ok", "error"} =>
               Tainted(g)' \/ (process_task_results'[g] = <<>> /\ task'[serving'[g]] = "destroyed")
    <2> SUFFICES ASSUME NEW g \in Threads, ~Tainted(g),
                        writing[g] # <<>> /\ writing[g][Len(writing[g])].status \in {"ok", "error"}
                 PROVE  process_task_results'[g] = <<>> /\ task'[serving'[g]] = "destroyed"
      BY <1>1
    <2>1. serving[g] \in Asking
      BY <1>0 DEF HandlersInv, Streams
    <2>2. g # h
      BY <1>0, <1>1, <2>1, Asked
    <2> QED
      BY <1>1, <1>2, <2>1, <2>2 DEF CleanInv
  <1>5. ASSUME NEW g \in Threads, NEW i \in 1 .. Len(process_task_results[g])
        PROVE  process_task_results[g][i].of = serving'[g] \/ Tainted(g)'
    <2>1. process_task_results[g][i] \in Results
      BY <1>0, ElementOfSeq DEF Typed
    <2>2. process_task_results[g][i].of # NoRequest
      BY <1>0, <2>1, Asked DEF Results
    <2>3. process_task_results[g][i].of = serving[g] \/ Tainted(g)
      BY DEF CleanInv
    <2> QED
      BY <1>1, <2>2, <2>3
  <1> QED
    BY <1>1, <1>2, <1>3, <1>4, <1>5 DEF CleanInv

LEMMA CleanStep ==
    ASSUME CleanInv, [Next]_vars
    PROVE  CleanInv'
  <1>0. QueueInv /\ QueueInv' /\ HandlersInv /\ \A g \in Threads : Tainted(g) => Tainted(g)'
    BY QueueStep, TaintKept DEF CleanInv, QueueInv
  <1>1. CASE (\E r \in Asking : Disconnect(r)) \/ Tick \/ UNCHANGED vars
    <2>1. UNCHANGED <<req, tid, task, serving, writing, process_task_results>>
      BY <1>1 DEF Disconnect, Tick, vars, http_vars
    <2>2. /\ Asking' = Asking /\ \A r \in Asking : tid[r] \in Threads
      BY <1>0, <2>1 DEF Asking, HandlersInv, Typed
    <2>3. \A r \in Asking : Live(r)' => serving'[tid'[r]] = r \/ Tainted(tid[r])'
      <3> SUFFICES ASSUME NEW r \in Asking, Live(r)', serving'[tid'[r]] # r
                   PROVE  Tainted(tid[r])'
        OBVIOUS
      <3>1. Tainted(tid[r]) /\ tid[r] \in Threads
        BY <2>1, <2>2 DEF CleanInv, Live
      <3>2. \A g \in Threads : Tainted(g) => \E p \in closed' \cap Streams' : tid'[p] = g
        BY <1>0 DEF Tainted
      <3> QED
        BY <2>1, <3>1, <3>2 DEF Tainted
    <2> QED
      BY <1>0, <2>1, <2>2, <2>3 DEF CleanInv
  <1> QED
    BY <1>0, <1>1, CleanEnqueue, CleanHttp, CleanProcess DEF Next

(***************************************************************************)
(* A thread finds in its result queue only what belongs to the request it  *)
(* serves, unless the client of a stream left that very thread.            *)
(***************************************************************************)
THEOREM QueuesClean == Spec => []CleanUnlessAbandoned
  <1>1. CleanInv => CleanUnlessAbandoned
    <2> SUFFICES ASSUME CleanInv
                 PROVE  CleanUnlessAbandoned
      OBVIOUS
    <2>1. \A h \in Threads : DOMAIN process_task_results[h] = 1 .. Len(process_task_results[h])
      BY LenProperties DEF CleanInv, QueueInv, HandlersInv, Typed
    <2> QED
      BY <2>1 DEF CleanUnlessAbandoned, CleanInv
  <1>2. Spec => []CleanInv
    BY CleanInit, CleanStep, PTL DEF Spec
  <1> QED
    BY <1>1, <1>2, PTL

-----------------------------------------------------------------------------
(***************************************************************************)
(* The images of a request.                                                *)
(***************************************************************************)

Ends == {"ok", "error"}

(* The numbers of the results that image n is sent with.                   *)
Due(r, n) ==
    IF r \in Streams THEN (IF req[r].preview THEN {2 * n - 1, 2 * n} ELSE {2 * n})
    ELSE {2 * req[r].n}

(* What the images of a request are held against.                          *)
Account(r) ==
    [of |-> r, n |-> req[r].n, due |-> [n \in Nat |-> Due(r, n)],
     made |-> generated[r], failed |-> images[r].failed, task |-> task[r]]

Accounts ==
    [of : Requests, n : Nat, due : [Nat -> SUBSET Int], made : Nat, failed : SUBSET Nat, task : Tasks]

(* The images made so far, and the highest number posted with them.        *)
Rendering(a) == (1 .. a.made) \ a.failed
Highest(a) == IF a.made < a.n THEN 2 * a.made ELSE 2 * a.made - 1

(* What a result of request a.of says is true of it.                       *)
Genuine(a, x) ==
    /\ \A n \in x.b64 : n \in Rendering(a) /\ x.number \in a.due[n]
    /\ a.task = "queued" => x.number <= Highest(a)
    /\ x.status \in Ends =>
           /\ a.task = "destroyed" /\ a.made = a.n
           /\ x.status = "ok" <=> a.failed = {}

(* In a line of results, of this and of other requests, an image comes     *)
(* once under a number, and nothing comes after the end.                   *)
Fine(a, s) ==
    /\ \A i \in 1 .. Len(s) : s[i].of = a.of => Genuine(a, s[i])
    /\ \A i, j \in 1 .. Len(s) :
           i < j /\ s[i].of = a.of /\ s[j].of = a.of =>
               /\ s[i].status \notin Ends
               /\ s[i].b64 # {} /\ s[j].b64 # {} => s[i].number < s[j].number

(* Every image is in the line as often as it was posted.                   *)
Whole(a, s) ==
    \A n \in Rendering(a) : \A k \in a.due[n] :
        k < 2 * a.n \/ a.task = "destroyed" =>
            \E i \in 1 .. Len(s) : s[i].of = a.of /\ s[i].number = k /\ n \in s[i].b64

Ended(a, s) == \E i \in 1 .. Len(s) : s[i].of = a.of /\ s[i].status \in Ends

(* What the client of thread h was sent, is being sent, and will be.       *)
Line(h) == received[serving[h]] \o (writing[h] \o process_task_results[h])

Held(r) ==
    /\ task[r] # "sampled"
    /\ task[r] = "unsent" => generated[r] = 0
    /\ generated[r] <= req[r].n
    /\ images[r].failed \subseteq 1 .. generated[r]
    /\ images[r].b64 = {n \in Rendering(Account(r)) : r \in Streams => n = req[r].n}

(* What is cut off beyond the last piece is thrown, never sent.            *)
NothingThrown ==
    /\ \A h \in Threads : \A i \in 1 .. Len(process_task_results[h]) :
           process_task_results[h][i].status # "throws"
    /\ \A r \in Asking : \A i \in 1 .. Len(received[r]) : received[r][i].status # "throws"

ImagesInv ==
    /\ QueueInv
    /\ NothingThrown
    /\ \A h \in blocked : writing[h] = <<>>
    /\ \A r \in Asking : req[r].type = "images" =>
           /\ Held(r)
           /\ Fine(Account(r), received[r])
           /\ Ended(Account(r), received[r]) => Whole(Account(r), received[r])
    /\ \A h \in Threads : serving[h] # NoRequest /\ req[serving[h]].type = "images" =>
           Fine(Account(serving[h]), Line(h)) /\ Whole(Account(serving[h]), Line(h))

LEMMA AccountType ==
    ASSUME Typed, NEW r \in Asking
    PROVE  Account(r) \in Accounts
  <1>1. /\ r \in Requests /\ req[r].n \in Nat /\ generated[r] \in Nat
        /\ images[r].failed \in SUBSET Nat /\ task[r] \in Tasks
    BY Asked DEF Typed, Wishes
  <1>2. \A n \in Nat : Due(r, n) \in SUBSET Int
    <2> TAKE n \in Nat
    <2>1. 2 * n - 1 \in Int /\ 2 * n \in Int /\ 2 * req[r].n \in Int
      BY <1>1
    <2> QED
      BY <2>1 DEF Due
  <1>3. [n \in Nat |-> Due(r, n)] \in [Nat -> SUBSET Int]
    BY <1>2
  <1> QED
    BY <1>1, <1>3 DEF Account, Accounts

(***************************************************************************)
(* Lines of results.                                                       *)
(***************************************************************************)

(* What was sent so far of a line; if it holds the end, it is whole.       *)
LEMMA Prefix ==
    ASSUME NEW a, NEW p \in Seq(Results), NEW q \in Seq(Results), Fine(a, p \o q)
    PROVE  /\ Fine(a, p)
           /\ Whole(a, p \o q) /\ Ended(a, p) => Whole(a, p)
  <1> DEFINE s == p \o q
  <1>1. /\ Len(s) = Len(p) + Len(q) /\ Len(p) \in Nat /\ Len(q) \in Nat
        /\ \A i \in 1 .. Len(s) : s[i] = IF i <= Len(p) THEN p[i] ELSE q[i - Len(p)]
    BY ConcatProperties, LenProperties
  <1> HIDE DEF s
  <1>2. \A i \in 1 .. Len(p) : i \in 1 .. Len(s) /\ s[i] = p[i]
    BY <1>1
  <1>3. Fine(a, s)
    BY DEF s
  <1>4. Fine(a, p)
    BY <1>2, <1>3 DEF Fine
  <1>5. ASSUME Whole(a, s), Ended(a, p)
        PROVE  Whole(a, p)
    <2>1. PICK e \in 1 .. Len(p) : p[e].of = a.of /\ p[e].status \in Ends
      BY <1>5 DEF Ended
    <2>2. ASSUME NEW i \in 1 .. Len(s), s[i].of = a.of
          PROVE  i \in 1 .. Len(p)
      <3>1. ~(e < i)
        BY <1>2, <1>3, <2>1, <2>2 DEF Fine
      <3> QED
        BY <1>1, <3>1
    <2> SUFFICES ASSUME NEW n \in Rendering(a), NEW k \in a.due[n], k < 2 * a.n \/ a.task = "destroyed"
                 PROVE  \E i \in 1 .. Len(p) : p[i].of = a.of /\ p[i].number = k /\ n \in p[i].b64
      BY DEF Whole
    <2>3. PICK i \in 1 .. Len(s) : s[i].of = a.of /\ s[i].number = k /\ n \in s[i].b64
      BY <1>5 DEF Whole
    <2> QED
      BY <1>2, <2>2, <2>3
  <1> QED
    BY <1>4, <1>5 DEF s

(* A line whose results were cut into pieces: t[i] is a piece of s[f[i]].  *)
LEMMA Cut ==
    ASSUME NEW a, NEW s \in Seq(Results), NEW t \in Seq(Results), NEW f \in [1 .. Len(t) -> 1 .. Len(s)],
           \A i \in 1 .. Len(t) :
               /\ t[i].of = s[f[i]].of /\ t[i].number = s[f[i]].number
               /\ t[i].b64 \in {{}, s[f[i]].b64}
               /\ t[i].status \in Ends => t[i].status = s[f[i]].status,
           \A i, j \in 1 .. Len(t) :
               i < j => \/ f[i] < f[j]
                        \/ f[i] = f[j] /\ t[i].status \notin Ends /\ t[i].b64 = {},
           \A k \in 1 .. Len(s) : \E i \in 1 .. Len(t) : f[i] = k /\ t[i].b64 = s[k].b64,
           Fine(a, s)
    PROVE  Fine(a, t) /\ (Whole(a, s) => Whole(a, t))
  <1>1. ASSUME NEW i \in 1 .. Len(t), t[i].of = a.of
        PROVE  Genuine(a, t[i])
    <2>1. f[i] \in 1 .. Len(s)
      OBVIOUS
    <2>2. Genuine(a, s[f[i]])
      BY <1>1, <2>1 DEF Fine
    <2> DEFINE x == s[f[i]]
               y == t[i]
    <2>3. y.number = x.number /\ y.b64 \subseteq x.b64 /\ (y.status \in Ends => y.status = x.status)
      OBVIOUS
    <2>4. Genuine(a, x)
      BY <2>2
    <2> HIDE DEF x, y
    <2>5. Genuine(a, y)
      BY <2>3, <2>4 DEF Genuine
    <2> QED
      BY <2>5 DEF y
  <1>2. ASSUME NEW i \in 1 .. Len(t), NEW j \in 1 .. Len(t), i < j, t[i].of = a.of, t[j].of = a.of
        PROVE  /\ t[i].status \notin Ends
               /\ t[i].b64 # {} /\ t[j].b64 # {} => t[i].number < t[j].number
    <2>1. CASE f[i] < f[j]
      <3>1. /\ f[i] \in 1 .. Len(s) /\ f[j] \in 1 .. Len(s)
            /\ s[f[i]].of = a.of /\ s[f[j]].of = a.of
        BY <1>2
      <3>2. /\ s[f[i]].status \notin Ends
            /\ s[f[i]].b64 # {} /\ s[f[j]].b64 # {} => s[f[i]].number < s[f[j]].number
        BY <2>1, <3>1 DEF Fine
      <3> QED
        BY <3>2
    <2>2. CASE f[i] = f[j] /\ t[i].status \notin Ends /\ t[i].b64 = {}
      BY <2>2
    <2> QED
      BY <1>2, <2>1, <2>2
  <1>3. ASSUME Whole(a, s), NEW n \in Rendering(a), NEW k \in a.due[n], k < 2 * a.n \/ a.task = "destroyed"
        PROVE  \E i \in 1 .. Len(t) : t[i].of = a.of /\ t[i].number = k /\ n \in t[i].b64
    <2>1. PICK m \in 1 .. Len(s) : s[m].of = a.of /\ s[m].number = k /\ n \in s[m].b64
      BY <1>3 DEF Whole
    <2> QED
      BY <2>1
  <1> QED
    BY <1>1, <1>2, <1>3 DEF Fine, Whole

(* What one step of the reconcile thread makes of an account.              *)
Later(a, b) ==
    /\ b.of = a.of /\ b.n = a.n /\ b.due = a.due
    /\ Rendering(a) \subseteq Rendering(b)
    /\ a.task = "queued" /\ b.task \in {"queued", "destroyed"}
    /\ Highest(a) <= Highest(b)

LEMMA FinePosts ==
    ASSUME NEW a \in Accounts, NEW b \in Accounts, Later(a, b),
           NEW s \in Seq(Results), NEW new \in Seq(Results), Fine(a, s), Ordered(new),
           \A i \in 1 .. Len(new) :
               new[i].of = a.of /\ Genuine(b, new[i]) /\ new[i].number > Highest(a)
    PROVE  Fine(b, s \o new)
  <1> DEFINE t == s \o new
  <1>1. /\ Len(t) = Len(s) + Len(new) /\ Len(s) \in Nat /\ Len(new) \in Nat
        /\ \A i \in 1 .. Len(t) : t[i] = IF i <= Len(s) THEN s[i] ELSE new[i - Len(s)]
    BY ConcatProperties, LenProperties
  <1>2. /\ \A i \in 1 .. Len(s) : s[i] \in Results
        /\ \A i \in 1 .. Len(new) : new[i] \in Results
    BY ElementOfSeq
  <1>3. Highest(a) \in Int /\ Highest(b) \in Int
    BY DEF Highest, Accounts
  <1>4. ASSUME NEW x \in Results, Genuine(a, x)
        PROVE  Genuine(b, x) /\ x.status \notin Ends /\ x.number <= Highest(a)
    <2>1. x.status \notin Ends /\ x.number <= Highest(a)
      BY <1>4 DEF Genuine, Later
    <2>2. x.number <= Highest(b)
      BY <1>3, <2>1 DEF Later, Results
    <2>3. \A n \in x.b64 : n \in Rendering(b) /\ x.number \in b.due[n]
      BY <1>4 DEF Genuine, Later
    <2> QED
      BY <2>1, <2>2, <2>3 DEF Genuine
  <1>5. \A i \in 1 .. Len(s) : s[i].of = a.of =>
            Genuine(b, s[i]) /\ s[i].status \notin Ends /\ s[i].number <= Highest(a)
    BY <1>2, <1>4 DEF Fine
  <1> HIDE DEF t
  <1>6. ASSUME NEW i \in 1 .. Len(t), t[i].of = b.of
        PROVE  Genuine(b, t[i])
    <2>1. CASE i <= Len(s)
      <3>1. i \in 1 .. Len(s) /\ t[i] = s[i] /\ s[i].of = a.of
        BY <1>1, <1>6, <2>1 DEF Later
      <3> QED
        BY <1>5, <3>1
    <2>2. CASE i > Len(s)
      <3>1. i - Len(s) \in 1 .. Len(new) /\ t[i] = new[i - Len(s)]
        BY <1>1, <2>2
      <3> QED
        BY <3>1
    <2> QED
      BY <1>1, <2>1, <2>2
  <1>7. ASSUME NEW i \in 1 .. Len(t), NEW j \in 1 .. Len(t), i < j, t[i].of = b.of, t[j].of = b.of
        PROVE  /\ t[i].status \notin Ends
               /\ t[i].b64 # {} /\ t[j].b64 # {} => t[i].number < t[j].number
    <2>0. b.of = a.of
      BY DEF Later
    <2>1. CASE j <= Len(s)
      <3>1. i \in 1 .. Len(s) /\ j \in 1 .. Len(s) /\ t[i] = s[i] /\ t[j] = s[j]
        BY <1>1, <1>7, <2>1
      <3> QED
        BY <1>7, <2>0, <3>1 DEF Fine
    <2>2. CASE i <= Len(s) /\ j > Len(s)
      <3>1. i \in 1 .. Len(s) /\ j - Len(s) \in 1 .. Len(new) /\ t[i] = s[i] /\ t[j] = new[j - Len(s)]
        BY <1>1, <1>7, <2>2
      <3>2. s[i].status \notin Ends /\ s[i].number <= Highest(a) /\ new[j - Len(s)].number > Highest(a)
        BY <1>5, <1>7, <2>0, <3>1
      <3>3. s[i].number \in Nat /\ new[j - Len(s)].number \in Nat
        BY <1>2, <3>1 DEF Results
      <3> QED
        BY <1>3, <3>1, <3>2, <3>3
    <2>3. CASE i > Len(s)
      <3>1. /\ i - Len(s) \in 1 .. Len(new) /\ j - Len(s) \in 1 .. Len(new) /\ i - Len(s) < j - Len(s)
            /\ t[i] = new[i - Len(s)] /\ t[j] = new[j - Len(s)]
        BY <1>1, <1>7, <2>3
      <3>2. t[i].number < t[j].number /\ t[i].status = "continue"
        BY <1>7, <3>1 DEF Ordered
      <3> QED
        BY <3>2 DEF Ends
    <2> QED
      BY <1>1, <1>7, <2>1, <2>2, <2>3
  <1> QED
    BY <1>6, <1>7 DEF Fine, t

(* What is posted completes the line.                                      *)
LEMMA WholePosts ==
    ASSUME NEW a \in Accounts, NEW b \in Accounts, Later(a, b),
           NEW s \in Seq(Results), NEW new \in Seq(Results), Whole(a, s),
           \A n \in Rendering(b) : \A k \in b.due[n] :
               k < 2 * b.n \/ b.task = "destroyed" =>
                   \/ n \in Rendering(a) /\ k < 2 * a.n
                   \/ \E i \in 1 .. Len(new) : new[i].of = a.of /\ new[i].number = k /\ n \in new[i].b64
    PROVE  Whole(b, s \o new)
  <1> DEFINE t == s \o new
  <1>1. /\ Len(t) = Len(s) + Len(new) /\ Len(s) \in Nat /\ Len(new) \in Nat
        /\ \A i \in 1 .. Len(t) : t[i] = IF i <= Len(s) THEN s[i] ELSE new[i - Len(s)]
    BY ConcatProperties, LenProperties
  <1> HIDE DEF t
  <1>2. /\ \A i \in 1 .. Len(s) : i \in 1 .. Len(t) /\ t[i] = s[i]
        /\ \A i \in 1 .. Len(new) : i + Len(s) \in 1 .. Len(t) /\ t[i + Len(s)] = new[i]
    BY <1>1
  <1> SUFFICES ASSUME NEW n \in Rendering(b), NEW k \in b.due[n], k < 2 * b.n \/ b.task = "destroyed"
               PROVE  \E i \in 1 .. Len(t) : t[i].of = b.of /\ t[i].number = k /\ n \in t[i].b64
    BY DEF Whole, t
  <1>3. b.of = a.of /\ b.n = a.n /\ b.due = a.due
    BY DEF Later
  <1>4. CASE n \in Rendering(a) /\ k < 2 * a.n
    <2>1. PICK i \in 1 .. Len(s) : s[i].of = a.of /\ s[i].number = k /\ n \in s[i].b64
      BY <1>3, <1>4 DEF Whole
    <2> QED
      BY <1>2, <1>3, <2>1
  <1>5. CASE \E i \in 1 .. Len(new) : new[i].of = a.of /\ new[i].number = k /\ n \in new[i].b64
    <2>1. PICK i \in 1 .. Len(new) : new[i].of = a.of /\ new[i].number = k /\ n \in new[i].b64
      BY <1>5
    <2>2. i + Len(s) \in 1 .. Len(t) /\ t[i + Len(s)] = new[i]
      BY <1>2
    <2> QED
      BY <1>3, <2>1, <2>2
  <1> QED
    BY <1>4, <1>5

(* Results of others change nothing.                                       *)
LEMMA OthersPost ==
    ASSUME NEW a, NEW s \in Seq(Results), NEW new \in Seq(Results),
           \A i \in 1 .. Len(new) : new[i].of # a.of
    PROVE  /\ Fine(a, s) => Fine(a, s \o new)
           /\ Whole(a, s) => Whole(a, s \o new)
  <1> DEFINE t == s \o new
  <1>1. /\ Len(t) = Len(s) + Len(new) /\ Len(s) \in Nat /\ Len(new) \in Nat
        /\ \A i \in 1 .. Len(t) : t[i] = IF i <= Len(s) THEN s[i] ELSE new[i - Len(s)]
    BY ConcatProperties, LenProperties
  <1> HIDE DEF t
  <1>2. \A i \in 1 .. Len(t) : t[i].of = a.of => i \in 1 .. Len(s) /\ t[i] = s[i]
    <2> SUFFICES ASSUME NEW i \in 1 .. Len(t), t[i].of = a.of PROVE i <= Len(s)
      BY <1>1
    <2>1. i > Len(s) => i - Len(s) \in 1 .. Len(new) /\ t[i] = new[i - Len(s)]
      BY <1>1
    <2> QED
      BY <1>1, <2>1
  <1>3. \A i \in 1 .. Len(s) : i \in 1 .. Len(t) /\ t[i] = s[i]
    BY <1>1
  <1>4. Fine(a, s) => Fine(a, t)
    BY <1>2 DEF Fine
  <1>5. Whole(a, s) => Whole(a, t)
    BY <1>3 DEF Whole
  <1> QED
    BY <1>4, <1>5 DEF t

LEMMA AppendHead ==
    ASSUME NEW p \in Seq(Results), NEW q \in Seq(Results), q # <<>>
    PROVE  /\ Append(p, Head(q)) \in Seq(Results) /\ Tail(q) \in Seq(Results)
           /\ Append(p, Head(q)) \o Tail(q) = p \o q
  <1>1. /\ Head(q) \in Results /\ Head(q) = q[1] /\ Tail(q) \in Seq(Results)
        /\ Len(Tail(q)) = Len(q) - 1 /\ Len(q) \in Nat /\ Len(q) > 0
        /\ \A i \in 1 .. Len(Tail(q)) : Tail(q)[i] = q[i + 1] /\ i + 1 \in 1 .. Len(q)
    BY TailOf
  <1> DEFINE e == Append(p, Head(q))
             t == Tail(q)
             left == e \o t
             right == p \o q
  <1>2. /\ e \in Seq(Results) /\ Len(e) = Len(p) + 1 /\ Len(p) \in Nat
        /\ \A i \in 1 .. Len(p) : e[i] = p[i]
        /\ e[Len(p) + 1] = q[1]
    BY <1>1, AppendProperties, LenProperties
  <1>3. /\ right \in Seq(Results) /\ Len(right) = Len(p) + Len(q)
        /\ \A i \in 1 .. Len(p) + Len(q) : right[i] = IF i <= Len(p) THEN p[i] ELSE q[i - Len(p)]
    BY ConcatProperties
  <1>4. t \in Seq(Results)
    BY <1>1
  <1> HIDE DEF e, t
  <1>5. /\ left \in Seq(Results) /\ Len(left) = Len(e) + Len(t)
        /\ \A i \in 1 .. Len(e) + Len(t) : left[i] = IF i <= Len(e) THEN e[i] ELSE t[i - Len(e)]
    BY <1>2, <1>4, ConcatProperties
  <1>6. /\ Len(t) = Len(q) - 1 /\ Len(q) \in Nat /\ Len(q) > 0
        /\ \A i \in 1 .. Len(t) : t[i] = q[i + 1]
    BY <1>1 DEF t
  <1> HIDE DEF left, right
  <1>7. Len(left) = Len(right)
    BY <1>2, <1>3, <1>5, <1>6
  <1>8. ASSUME NEW i \in 1 .. Len(left)
        PROVE  left[i] = right[i]
    <2>1. CASE i <= Len(p)
      <3>1. i \in 1 .. Len(p) /\ i <= Len(e) /\ i \in 1 .. Len(p) + Len(q) /\ i \in 1 .. Len(e) + Len(t)
        BY <1>2, <1>5, <1>6, <2>1
      <3> QED
        BY <1>2, <1>3, <1>5, <2>1, <3>1
    <2>2. CASE i = Len(p) + 1
      BY <1>2, <1>3, <1>5, <1>6, <1>7, <2>2
    <2>3. CASE i > Len(p) + 1
      <3>1. i - Len(e) \in 1 .. Len(t) /\ left[i] = t[i - Len(e)]
        BY <1>2, <1>5, <2>3
      <3>2. t[i - Len(e)] = q[i - Len(e) + 1]
        BY <1>6, <3>1
      <3>3. right[i] = q[i - Len(p)] /\ i - Len(e) + 1 = i - Len(p)
        BY <1>2, <1>3, <1>7, <2>3
      <3> QED
        BY <3>1, <3>2, <3>3
    <2> QED
      BY <1>2, <2>1, <2>2, <2>3
  <1>9. left = right
    BY <1>3, <1>5, <1>7, <1>8, SeqEqual
  <1> QED
    BY <1>1, <1>2, <1>9 DEF left, right, e, t

(* The head of what is being written, or of what waits, is sent.           *)
LEMMA LineMoves ==
    ASSUME NEW p \in Seq(Results), NEW w \in Seq(Results), NEW q \in Seq(Results)
    PROVE  /\ w # <<>> => Append(p, Head(w)) \o (Tail(w) \o q) = p \o (w \o q)
           /\ w = <<>> /\ q # <<>> => Append(p, Head(q)) \o Tail(q) = p \o (w \o q)
  <1>1. ASSUME w # <<>>
        PROVE  Append(p, Head(w)) \o (Tail(w) \o q) = p \o (w \o q)
    <2>1. /\ Append(p, Head(w)) \in Seq(Results) /\ Tail(w) \in Seq(Results)
          /\ Append(p, Head(w)) \o Tail(w) = p \o w
      BY <1>1, AppendHead
    <2> DEFINE e == Append(p, Head(w))
               t == Tail(w)
    <2>4. e \in Seq(Results) /\ t \in Seq(Results)
      BY <2>1
    <2> HIDE DEF e, t
    <2>2. (e \o t) \o q = e \o (t \o q)
      BY <2>4, ConcatAssociative
    <2>3. (p \o w) \o q = p \o (w \o q)
      BY ConcatAssociative
    <2> QED
      BY <2>1, <2>2, <2>3 DEF e, t
  <1>2. ASSUME w = <<>>, q # <<>>
        PROVE  Append(p, Head(q)) \o Tail(q) = p \o (w \o q)
    <2>1. w \o q = q
      BY <1>2, ConcatEmptySeq
    <2> QED
      BY <1>2, <2>1, AppendHead
  <1> QED
    BY <1>1, <1>2

(* The first result that waits is cut into pieces.                         *)
LEMMA LineCut ==
    ASSUME NEW a, NEW p \in Seq(Results), NEW q \in Seq(Results), q # <<>>,
           NEW size \in Nat, size >= 1, Fine(a, p \o q)
    PROVE  LET t == p \o (PiecesOf(Head(q), size) \o Tail(q))
           IN  Fine(a, t) /\ (Whole(a, p \o q) => Whole(a, t))
  <1> DEFINE x  == Head(q)
             ps == PiecesOf(x, size)
             r  == Tail(q)
             s  == p \o q
             u  == ps \o r
             t  == p \o u
  <1>1. /\ x \in Results /\ x = q[1] /\ r \in Seq(Results)
        /\ Len(r) = Len(q) - 1 /\ Len(q) \in Nat /\ Len(q) > 0
        /\ \A i \in 1 .. Len(r) : r[i] = q[i + 1] /\ i + 1 \in 1 .. Len(q)
    BY TailOf
  <1> HIDE DEF x, r
  <1>2. /\ ps \in Seq(Results)
        /\ \A i \in 1 .. Len(ps) :
               /\ ps[i].of = x.of /\ ps[i].number = x.number /\ ps[i].b64 \in {{}, x.b64}
               /\ ps[i].status \in {"continue", "throws"} \/ ps[i] = x
               /\ i < Len(ps) => ps[i].status = "continue" /\ ps[i].b64 = {}
        /\ Len(ps) >= 1 /\ ps[Len(ps)].b64 = x.b64
    BY <1>1, Pieces
  <1> HIDE DEF ps
  <1>3. /\ s \in Seq(Results) /\ Len(s) = Len(p) + Len(q) /\ Len(p) \in Nat
        /\ \A i \in 1 .. Len(p) + Len(q) : s[i] = IF i <= Len(p) THEN p[i] ELSE q[i - Len(p)]
    BY ConcatProperties, LenProperties
  <1>4. /\ u \in Seq(Results) /\ Len(u) = Len(ps) + Len(r) /\ Len(ps) \in Nat
        /\ \A i \in 1 .. Len(ps) + Len(r) : u[i] = IF i <= Len(ps) THEN ps[i] ELSE r[i - Len(ps)]
    <2>1. ps \in Seq(Results) /\ r \in Seq(Results) /\ Len(ps) \in Nat
      BY <1>1, <1>2, LenProperties
    <2> QED
      BY <2>1, ConcatProperties
  <1> HIDE DEF s, u
  <1>5. /\ t \in Seq(Results) /\ Len(t) = Len(p) + Len(u)
        /\ \A i \in 1 .. Len(p) + Len(u) : t[i] = IF i <= Len(p) THEN p[i] ELSE u[i - Len(p)]
    BY <1>4, ConcatProperties
  <1> HIDE DEF t
  <1> DEFINE m == Len(ps)
             l == Len(p)
             f == [i \in 1 .. Len(t) |-> IF i <= l THEN i ELSE IF i <= l + m THEN l + 1 ELSE i - m + 1]
  <1>0. \A i \in 1 .. Len(t) :
            f[i] = IF i <= l THEN i ELSE IF i <= l + m THEN l + 1 ELSE i - m + 1
    OBVIOUS
  <1>11. DOMAIN f = 1 .. Len(t) /\ f = [i \in 1 .. Len(t) |-> f[i]]
    OBVIOUS
  <1> HIDE DEF f
  <1>6. /\ l \in Nat /\ m \in Nat /\ m >= 1 /\ Len(q) \in Nat /\ Len(q) >= 1
        /\ Len(t) = l + m + Len(q) - 1 /\ Len(s) = l + Len(q) /\ Len(r) = Len(q) - 1
        /\ Len(u) = m + Len(r)
    BY <1>1, <1>2, <1>3, <1>4, <1>5
  <1>7. ASSUME NEW i \in 1 .. l
        PROVE  t[i] = s[i] /\ f[i] = i
    <2>1. /\ i \in 1 .. Len(p) + Len(q) /\ i \in 1 .. Len(p) + Len(u) /\ i <= Len(p)
          /\ i \in 1 .. Len(t)
      BY <1>6
    <2> QED
      BY <1>0, <1>3, <1>5, <1>6, <2>1
  <1>8. ASSUME NEW i \in l + 1 .. l + m
        PROVE  /\ t[i] = ps[i - l] /\ i - l \in 1 .. m /\ f[i] = l + 1
               /\ s[l + 1] = x
    <2>1. i - l \in 1 .. Len(u) /\ i \in 1 .. Len(t) /\ ~(i <= l) /\ i - l \in 1 .. m
      BY <1>6
    <2>2. t[i] = u[i - l]
      <3>1. i \in 1 .. Len(p) + Len(u)
        BY <1>6, <2>1
      <3> QED
        BY <1>5, <2>1, <3>1
    <2>3. u[i - l] = ps[i - l]
      <3> DEFINE j == i - l
      <3>1. j \in 1 .. Len(ps) + Len(r) /\ j <= Len(ps)
        BY <1>6, <2>1
      <3> HIDE DEF j
      <3>2. u[j] = ps[j]
        BY <1>4, <3>1
      <3> QED
        BY <3>2 DEF j
    <2>4. s[l + 1] = q[1]
      <3> DEFINE j == l + 1
      <3>1. j \in 1 .. Len(p) + Len(q) /\ ~(j <= Len(p)) /\ j - Len(p) = 1
        BY <1>6
      <3> HIDE DEF j
      <3>2. s[j] = q[j - Len(p)]
        BY <1>3, <3>1
      <3> QED
        BY <3>1, <3>2 DEF j
    <2> QED
      BY <1>0, <1>1, <1>6, <2>1, <2>2, <2>3, <2>4
  <1>9. ASSUME NEW i \in l + m + 1 .. Len(t)
        PROVE  t[i] = s[i - m + 1] /\ f[i] = i - m + 1
    <2> DEFINE j == i - l - m
    <2>1. j \in 1 .. Len(r) /\ i - l \in 1 .. Len(u) /\ i \in 1 .. Len(t) /\ ~(i <= l) /\ ~(i <= l + m)
      BY <1>6
    <2>2. t[i] = u[i - l]
      <3>1. i \in 1 .. Len(p) + Len(u)
        BY <1>6, <2>1
      <3> QED
        BY <1>5, <2>1, <3>1
    <2>3. u[i - l] = r[j]
      <3> DEFINE k == i - l
      <3>1. k \in 1 .. Len(ps) + Len(r) /\ ~(k <= Len(ps)) /\ k - Len(ps) = j
        BY <1>6, <2>1
      <3> HIDE DEF k, j
      <3>2. u[k] = r[k - Len(ps)]
        BY <1>4, <3>1
      <3> QED
        BY <3>1, <3>2 DEF k
    <2>4. r[j] = q[j + 1]
      BY <1>1, <2>1
    <2>5. s[i - m + 1] = q[j + 1]
      <3> DEFINE k == i - m + 1
      <3>1. k \in 1 .. Len(p) + Len(q) /\ ~(k <= Len(p)) /\ k - Len(p) = j + 1
        BY <1>6, <2>1
      <3> HIDE DEF k, j
      <3>2. s[k] = q[k - Len(p)]
        BY <1>3, <3>1
      <3> QED
        BY <3>1, <3>2 DEF k
    <2>6. f[i] = i - m + 1
      BY <1>0, <1>6, <2>1
    <2> QED
      BY <2>2, <2>3, <2>4, <2>5, <2>6
  <1> HIDE DEF m, l
  <1>10. ASSUME NEW i \in 1 .. Len(t)
         PROVE  f[i] \in 1 .. Len(s)
    <2>1. f[i] = IF i <= l THEN i ELSE IF i <= l + m THEN l + 1 ELSE i - m + 1
      BY <1>0
    <2> DEFINE x1 == IF i <= l THEN i ELSE IF i <= l + m THEN l + 1 ELSE i - m + 1
    <2>2. x1 \in 1 .. Len(s)
      BY <1>6
    <2> QED
      BY <2>1, <2>2
  <1>12. \A i \in 1 .. Len(t) : i \in 1 .. l \/ i \in l + 1 .. l + m \/ i \in l + m + 1 .. Len(t)
    BY <1>6
  <1>13. ASSUME NEW i \in 1 .. Len(t)
         PROVE  /\ t[i].of = s[f[i]].of /\ t[i].number = s[f[i]].number
                /\ t[i].b64 \in {{}, s[f[i]].b64}
                /\ t[i].status \in Ends => t[i].status = s[f[i]].status
    <2>1. CASE i \in 1 .. l
      BY <1>7, <2>1
    <2>2. CASE i \in l + 1 .. l + m
      <3>1. t[i] = ps[i - l] /\ i - l \in 1 .. Len(ps) /\ s[f[i]] = x
        BY <1>8, <2>2 DEF m
      <3>2. /\ ps[i - l].of = x.of /\ ps[i - l].number = x.number /\ ps[i - l].b64 \in {{}, x.b64}
            /\ ps[i - l].status \in {"continue", "throws"} \/ ps[i - l] = x
        BY <1>2, <3>1
      <3> QED
        BY <3>1, <3>2 DEF Ends
    <2>3. CASE i \in l + m + 1 .. Len(t)
      BY <1>9, <2>3
    <2> QED
      BY <1>12, <2>1, <2>2, <2>3
  <1>14. ASSUME NEW i \in 1 .. Len(t), NEW j \in 1 .. Len(t), i < j
         PROVE  \/ f[i] < f[j]
                \/ f[i] = f[j] /\ t[i].status \notin Ends /\ t[i].b64 = {}
    <2>1. CASE i \in l + 1 .. l + m /\ j \in l + 1 .. l + m
      <3>1. t[i] = ps[i - l] /\ i - l \in 1 .. Len(ps) /\ f[i] = f[j]
        BY <1>8, <2>1 DEF m
      <3>2. i - l < Len(ps)
        BY <1>6, <1>14, <2>1 DEF m
      <3>3. ps[i - l].status = "continue" /\ ps[i - l].b64 = {}
        BY <1>2, <3>1, <3>2
      <3> QED
        BY <3>1, <3>3 DEF Ends
    <2>2. CASE ~(i \in l + 1 .. l + m /\ j \in l + 1 .. l + m)
      <3>1. f[i] < f[j]
        BY <1>0, <1>6, <1>14, <2>2
      <3> QED
        BY <3>1
    <2> QED
      BY <2>1, <2>2
  <1>15. ASSUME NEW k \in 1 .. Len(s)
         PROVE  \E i \in 1 .. Len(t) : f[i] = k /\ t[i].b64 = s[k].b64
    <2>1. CASE k <= l
      <3>1. k \in 1 .. l /\ k \in 1 .. Len(t)
        BY <1>6, <2>1
      <3> QED
        BY <1>7, <3>1
    <2>2. CASE k = l + 1
      <3> DEFINE i == l + m
      <3>1. i \in l + 1 .. l + m /\ i \in 1 .. Len(t) /\ i - l = Len(ps)
        BY <1>6 DEF m
      <3>2. t[i] = ps[i - l] /\ f[i] = l + 1 /\ s[l + 1] = x
        BY <1>8, <3>1
      <3>3. t[i].b64 = x.b64
        BY <1>2, <3>1, <3>2
      <3> QED
        BY <2>2, <3>1, <3>2, <3>3
    <2>3. CASE k > l + 1
      <3> DEFINE i == k + m - 1
      <3>1. i \in l + m + 1 .. Len(t) /\ i \in 1 .. Len(t) /\ i - m + 1 = k
        BY <1>6, <2>3
      <3> QED
        BY <1>9, <3>1
    <2> QED
      BY <1>6, <2>1, <2>2, <2>3
  <1>16. Fine(a, s)
    BY DEF s
  <1>17. Fine(a, t) /\ (Whole(a, s) => Whole(a, t))
    <2>1. s \in Seq(Results) /\ t \in Seq(Results) /\ f \in [1 .. Len(t) -> 1 .. Len(s)]
      BY <1>3, <1>5, <1>10, <1>11
    <2>2. \A i \in 1 .. Len(t) :
              /\ t[i].of = s[f[i]].of /\ t[i].number = s[f[i]].number
              /\ t[i].b64 \in {{}, s[f[i]].b64}
              /\ t[i].status \in Ends => t[i].status = s[f[i]].status
      BY <1>13
    <2>3. \A i, j \in 1 .. Len(t) :
              i < j => \/ f[i] < f[j]
                       \/ f[i] = f[j] /\ t[i].status \notin Ends /\ t[i].b64 = {}
      BY <1>14
    <2>4. \A k \in 1 .. Len(s) : \E i \in 1 .. Len(t) : f[i] = k /\ t[i].b64 = s[k].b64
      BY <1>15
    <2> QED
      BY <1>16, <2>1, <2>2, <2>3, <2>4, Cut
  <1> QED
    BY <1>17 DEF s, t, u, ps, r, x

(***************************************************************************)
(* The HTTP threads.                                                       *)
(***************************************************************************)

(* What thread h sends comes from its queue, or is a piece that is not cut *)
(* off.                                                                    *)
LEMMA HttpSent ==
    ASSUME Typed, NothingThrown, NEW h \in Threads, http_thread(h), serving[h] \in Asking
    PROVE  \/ received' = received
           \/ \E x \in Results :
                  /\ x.status # "throws"
                  /\ received' = [received EXCEPT ![serving[h]] = Append(received[serving[h]], x)]
  <1> DEFINE q == process_task_results[h]
  <1>1. ASSUME Takes(h)
        PROVE  Head(q) \in Results /\ Head(q).status # "throws"
    <2>1. q \in Seq(Results) /\ q # <<>>
      BY <1>1 DEF Takes, Typed
    <2>2. Head(q) = q[1] /\ Head(q) \in Results /\ 1 \in 1 .. Len(q)
      BY <2>1, TailOf
    <2> QED
      BY <2>2 DEF NothingThrown
  <1>2. ASSUME NEW x, Sends(h, x)
        PROVE  received' = [received EXCEPT ![serving[h]] = Append(received[serving[h]], x)]
    BY <1>2 DEF Sends
  <1>3. CASE Answer(h) \/ Chunk(h)
    <2>1. Takes(h) /\ (received' = received \/ Sends(h, Head(q)))
      BY <1>3 DEF Answer, Chunk
    <2> QED
      BY <1>1, <1>2, <2>1
  <1>4. CASE PollStream(h) \/ ChunkFails(h) \/ TakePieces(h)
    BY <1>4 DEF PollStream, ChunkFails, TakePieces
  <1>5. CASE WritePiece(h)
    <2> DEFINE w == writing[h]
    <2>1. /\ w # <<>> /\ Head(w).status # "throws"
          /\ received' = received \/ Sends(h, Head(w))
      BY <1>5 DEF WritePiece
    <2>2. Head(w) \in Results
      BY <2>1, TailOf DEF Typed
    <2> QED
      BY <1>2, <2>1, <2>2
  <1> QED
    BY <1>3, <1>4, <1>5 DEF http_thread

LEMMA ThrownStep ==
    ASSUME HandlersInv, NothingThrown, [Next]_vars
    PROVE  NothingThrown'
  <1>0. Typed
    BY DEF HandlersInv
  <1>1. CASE /\ UNCHANGED <<req, received>>
             /\ \/ UNCHANGED process_task_results
                \/ \E r \in Asking : Process(r)
    <2>1. Asking' = Asking
      BY <1>1 DEF Asking
    <2>2. CASE UNCHANGED process_task_results
      BY <1>1, <2>1, <2>2 DEF NothingThrown
    <2>3. CASE \E r \in Asking : Process(r)
      <3>1. PICK r \in Asking : Process(r)
        BY <2>3
      <3>2. PICK new \in Seq(Results) :
                Posts(r, new) /\ \A i \in 1 .. Len(new) : new[i].of = r /\ new[i].status # "throws"
        BY <1>0, <3>1, ProcessPosts
      <3> SUFFICES ASSUME NEW h \in Threads, NEW i \in 1 .. Len(process_task_results'[h])
                   PROVE  process_task_results'[h][i].status # "throws"
        BY <1>1, <2>1 DEF NothingThrown
      <3> DEFINE q == process_task_results[h]
                 t == q \o new
      <3>3. process_task_results'[h] = q \/ process_task_results'[h] = t
        BY <1>0, <3>2 DEF Posts, Typed
      <3>4. /\ q \in Seq(Results) /\ Len(t) = Len(q) + Len(new) /\ Len(q) \in Nat /\ Len(new) \in Nat
            /\ \A k \in 1 .. Len(q) + Len(new) : t[k] = IF k <= Len(q) THEN q[k] ELSE new[k - Len(q)]
        BY <1>0, ConcatProperties, LenProperties DEF Typed
      <3>5. \A k \in 1 .. Len(q) : q[k].status # "throws"
        BY DEF NothingThrown
      <3> HIDE DEF q, t
      <3>6. \A k \in 1 .. Len(t) : t[k].status # "throws"
        <4> TAKE k \in 1 .. Len(t)
        <4>1. CASE k <= Len(q)
          BY <3>4, <3>5, <4>1
        <4>2. CASE k > Len(q)
          BY <3>2, <3>4, <4>2
        <4> QED
          BY <3>4, <4>1, <4>2
      <3> QED
        BY <3>3, <3>5, <3>6
    <2> QED
      BY <1>1, <2>2, <2>3
  <1>2. ASSUME NEW h \in Threads, http_thread(h)
        PROVE  NothingThrown'
    <2>1. serving[h] \in Asking /\ Asking' = Asking
      BY <1>2, HttpEffect DEF Asking
    <2>2. ASSUME NEW r \in Asking, NEW i \in 1 .. Len(received'[r])
          PROVE  received'[r][i].status # "throws"
      <3>1. received[r] \in Seq(Results) /\ \A k \in 1 .. Len(received[r]) : received[r][k].status # "throws"
        BY <1>0 DEF Typed, NothingThrown
      <3>2. CASE received'[r] = received[r]
        BY <2>2, <3>1, <3>2
      <3>3. CASE \E x \in Results : x.status # "throws" /\ received'[r] = Append(received[r], x)
        <4>1. PICK x \in Results : x.status # "throws" /\ received'[r] = Append(received[r], x)
          BY <3>3
        <4>2. /\ Len(received'[r]) = Len(received[r]) + 1 /\ Len(received[r]) \in Nat
              /\ \A k \in 1 .. Len(received[r]) : received'[r][k] = received[r][k]
              /\ received'[r][Len(received[r]) + 1] = x
          BY <3>1, <4>1, AppendProperties, LenProperties
        <4>3. i \in 1 .. Len(received[r]) \/ i = Len(received[r]) + 1
          BY <2>2, <4>2
        <4> QED
          BY <3>1, <4>1, <4>2, <4>3
      <3>4. received' = received \/ \E x \in Results :
                /\ x.status # "throws"
                /\ received' = [received EXCEPT ![serving[h]] = Append(received[serving[h]], x)]
        BY <1>0, <1>2, <2>1, HttpSent
      <3>5. received \in [Asking -> Seq(Results)] /\ r \in Asking
        BY <1>0, <2>1, <2>2 DEF Typed
      <3>6. ASSUME NEW x \in Results, x.status # "throws",
                   received' = [received EXCEPT ![serving[h]] = Append(received[serving[h]], x)]
            PROVE  received'[r] = received[r] \/ received'[r] = Append(received[r], x)
        BY <3>5, <3>6
      <3> QED
        BY <3>2, <3>3, <3>4, <3>6
    <2>3. ASSUME NEW g \in Threads, NEW i \in 1 .. Len(process_task_results'[g])
          PROVE  process_task_results'[g][i].status # "throws"
      <3> DEFINE q == process_task_results[g]
      <3>1. q \in Seq(Results) /\ \A k \in 1 .. Len(q) : q[k].status # "throws"
        BY <1>0 DEF Typed, NothingThrown
      <3>2. process_task_results'[g] = q \/ (q # <<>> /\ process_task_results'[g] = Tail(q))
        BY <1>0, <1>2, HttpTakes
      <3> HIDE DEF q
      <3>3. q # <<>> => \A k \in 1 .. Len(Tail(q)) : Tail(q)[k].status # "throws"
        BY <3>1, TailOf
      <3> QED
        BY <2>3, <3>1, <3>2, <3>3
    <2> QED
      BY <2>1, <2>2, <2>3 DEF NothingThrown
  <1>3. ASSUME NEW r \in Asking, Process(r)
        PROVE  UNCHANGED <<req, received>>
    BY <1>3, ProcessEffect DEF http_vars
  <1>4. ASSUME (\E h \in Threads, r \in Asking : Refuse(h, r) \/ Enqueue(h, r))
                 \/ (\E r \in Asking : Disconnect(r)) \/ Tick \/ UNCHANGED vars
        PROVE  UNCHANGED <<req, received, process_task_results>>
    BY <1>4 DEF Refuse, Enqueue, Disconnect, Tick, vars, http_vars
  <1> QED
    BY <1>1, <1>2, <1>3, <1>4 DEF Next

(* The line of a thread only moves on: what is sent is taken from its      *)
(* front, or cut into pieces there; when the thread leaves, the rest is    *)
(* never sent.                                                             *)
LEMMA HttpLine ==
    ASSUME ImagesInv, NEW h \in Threads, http_thread(h), req[serving[h]].type = "images",
           NEW a, Fine(a, Line(h)), Whole(a, Line(h))
    PROVE  \E rest \in Seq(Results) :
               /\ Fine(a, received'[serving[h]] \o rest)
               /\ Whole(a, received'[serving[h]] \o rest)
               /\ serving'[h] # NoRequest => rest = writing'[h] \o process_task_results'[h]
  <1> DEFINE c == serving[h]
             p == received[c]
             w == writing[h]
             q == process_task_results[h]
  <1>1. /\ Typed /\ c \in Asking /\ c # NoRequest
        /\ p \in Seq(Results) /\ w \in Seq(Results) /\ q \in Seq(Results)
    BY HttpEffect, Asked DEF ImagesInv, QueueInv, HandlersInv, Typed
  <1>2. /\ w \o q \in Seq(Results)
        /\ w # <<>> => Tail(w) \o q \in Seq(Results)
    <2>1. w # <<>> => Tail(w) \in Seq(Results)
      BY <1>1, TailOf
    <2> QED
      BY <1>1, <2>1, ConcatProperties
  <1>3. Fine(a, p \o (w \o q)) /\ Whole(a, p \o (w \o q))
    BY DEF Line
  <1>4. Return(h) => serving'[h] = NoRequest
    BY <1>1 DEF Return, Typed
  <1>5. ASSUME Takes(h)
        PROVE  /\ w = <<>> /\ q # <<>> /\ process_task_results'[h] = Tail(q)
               /\ Tail(q) \in Seq(Results) /\ <<>> \o Tail(q) = Tail(q) /\ w \o q = q
    <2>1. w = <<>> /\ q # <<>>
      BY <1>5 DEF Takes, ImagesInv
    <2>2. process_task_results'[h] = Tail(q)
      BY <1>1, <1>5 DEF Takes, Typed
    <2>3. Tail(q) \in Seq(Results)
      BY <1>1, <2>1, TailOf
    <2> QED
      BY <1>1, <2>1, <2>2, <2>3, ConcatEmptySeq
  <1>6. \A x : Sends(h, x) => received'[c] = Append(p, x)
    BY <1>1 DEF Sends, Typed
  <1>7. ASSUME received'[c] = p, serving'[h] = NoRequest
        PROVE  \E rest \in Seq(Results) :
                   /\ Fine(a, received'[c] \o rest) /\ Whole(a, received'[c] \o rest)
                   /\ serving'[h] # NoRequest => rest = writing'[h] \o process_task_results'[h]
    <2> DEFINE rest == w \o q
    <2>1. /\ rest \in Seq(Results)
          /\ Fine(a, received'[c] \o rest) /\ Whole(a, received'[c] \o rest)
      BY <1>2, <1>3, <1>7
    <2> HIDE DEF rest
    <2> QED
      BY <1>7, <2>1
  <1>14. ASSUME NEW rest \in Seq(Results), received'[c] \o rest = p \o (w \o q),
                serving'[h] # NoRequest => rest = writing'[h] \o process_task_results'[h]
         PROVE  \E s \in Seq(Results) :
                   /\ Fine(a, received'[c] \o s) /\ Whole(a, received'[c] \o s)
                   /\ serving'[h] # NoRequest => s = writing'[h] \o process_task_results'[h]
    <2>1. Fine(a, received'[c] \o rest) /\ Whole(a, received'[c] \o rest)
      BY <1>3, <1>14, Zenon
    <2> QED
      BY <1>14, <2>1
  <1>8. CASE Answer(h)
    <2>1. /\ Takes(h) /\ Return(h)
          /\ received' = received \/ Sends(h, Head(q))
      BY <1>8 DEF Answer
    <2>2. CASE received' = received
      BY <1>4, <1>7, <2>1, <2>2
    <2>3. CASE Sends(h, Head(q))
      <3>1. received'[c] = Append(p, Head(q)) /\ w = <<>> /\ q # <<>> /\ Tail(q) \in Seq(Results)
        BY <1>5, <1>6, <2>1, <2>3
      <3>2. Append(p, Head(q)) \o Tail(q) = p \o (w \o q)
        BY <1>1, <3>1, LineMoves
      <3>3. serving'[h] = NoRequest
        BY <1>4, <2>1
      <3>4. received'[c] \o Tail(q) = p \o (w \o q)
        BY <3>1, <3>2, Zenon
      <3> QED
        BY <1>14, <3>1, <3>3, <3>4
    <2> QED
      BY <2>1, <2>2, <2>3
  <1>9. CASE PollStream(h)
    <2>1. /\ received' = received /\ process_task_results' = process_task_results
          /\ Return(h) \/ writing' = writing
      BY <1>9 DEF PollStream
    <2>2. CASE Return(h)
      BY <1>4, <1>7, <2>1, <2>2
    <2>3. CASE writing' = writing
      BY <1>2, <1>14, <2>1, <2>3
    <2> QED
      BY <2>1, <2>2, <2>3
  <1>10. CASE Chunk(h)
    <2>1. /\ Takes(h) /\ Sends(h, Head(q))
          /\ Return(h) \/ writing' = writing
      BY <1>10 DEF Chunk, Poll
    <2>4. received'[c] = Append(p, Head(q)) /\ w = <<>> /\ q # <<>> /\ Tail(q) \in Seq(Results)
      BY <1>5, <1>6, <2>1
    <2>5. Append(p, Head(q)) \o Tail(q) = p \o (w \o q)
      BY <1>1, <2>4, LineMoves
    <2>2. received'[c] \o Tail(q) = p \o (w \o q)
      BY <2>4, <2>5, Zenon
    <2>3. serving'[h] # NoRequest => Tail(q) = writing'[h] \o process_task_results'[h]
      BY <1>4, <1>5, <2>1
    <2> QED
      BY <1>14, <2>2, <2>3, <2>4
  <1>11. CASE ChunkFails(h)
    BY <1>4, <1>7, <1>11 DEF ChunkFails
  <1>12. CASE TakePieces(h)
    <2> DEFINE ps == PiecesOf(Head(q), req[c].size)
    <2>1. /\ Takes(h) /\ received' = received /\ writing' = [writing EXCEPT ![h] = ps]
      BY <1>12 DEF TakePieces
    <2>2. writing'[h] = ps
      BY <1>1, <2>1 DEF Typed
    <2>3. req[c].size \in Nat /\ req[c].size >= 1
      BY <1>1, Asked DEF Wishes
    <2>4. Fine(a, p \o q) /\ Whole(a, p \o q)
      BY <1>3, <1>5, <2>1
    <2>5. Fine(a, p \o (ps \o Tail(q))) /\ Whole(a, p \o (ps \o Tail(q)))
      BY <1>1, <1>5, <2>1, <2>3, <2>4, LineCut
    <2>6. ps \o Tail(q) \in Seq(Results)
      <3>1. Head(q) \in Results
        BY <1>1, <1>5, <2>1, TailOf
      <3>2. ps \in Seq(Results)
        BY <2>3, <3>1, Pieces
      <3> HIDE DEF ps
      <3> QED
        BY <1>5, <2>1, <3>2, ConcatProperties
    <2> HIDE DEF ps
    <2> QED
      BY <1>5, <2>1, <2>2, <2>5, <2>6
  <1>13. CASE WritePiece(h)
    <2>1. /\ w # <<>> /\ process_task_results' = process_task_results
          /\ \/ Return(h) /\ received' = received
             \/ /\ Sends(h, Head(w))
                /\ \/ writing' = [writing EXCEPT ![h] = Tail(w)]
                   \/ Tail(w) = <<>> /\ writing' = [writing EXCEPT ![h] = <<>>]
                   \/ Return(h)
      BY <1>13 DEF WritePiece
    <2>2. CASE Return(h) /\ received' = received
      BY <1>4, <1>7, <2>2
    <2>3. CASE /\ Sends(h, Head(w))
               /\ \/ writing' = [writing EXCEPT ![h] = Tail(w)]
                  \/ Tail(w) = <<>> /\ writing' = [writing EXCEPT ![h] = <<>>]
                  \/ Return(h)
      <3>3. received'[c] = Append(p, Head(w)) /\ w # <<>> /\ Tail(w) \o q \in Seq(Results)
        BY <1>2, <1>6, <2>1, <2>3
      <3>4. Append(p, Head(w)) \o (Tail(w) \o q) = p \o (w \o q)
        BY <1>1, <3>3, LineMoves
      <3>1. received'[c] \o (Tail(w) \o q) = p \o (w \o q)
        BY <3>3, <3>4, Zenon
      <3>2. serving'[h] # NoRequest => writing'[h] = Tail(w)
        BY <1>1, <1>4, <2>3 DEF Typed
      <3>5. serving'[h] # NoRequest => Tail(w) \o q = writing'[h] \o process_task_results'[h]
        BY <2>1, <3>2
      <3> QED
        BY <1>14, <3>1, <3>3, <3>5
    <2> QED
      BY <2>1, <2>2, <2>3
  <1> QED
    BY <1>8, <1>9, <1>10, <1>11, <1>12, <1>13 DEF http_thread

-----------------------------------------------------------------------------
(***************************************************************************)
(* Every step keeps ImagesInv.                                             *)
(***************************************************************************)

LEMMA ImagesInit ==
    ASSUME Init
    PROVE  ImagesInv
  <1>1. /\ QueueInv /\ Typed
        /\ task = [r \in Asking |-> "unsent"] /\ generated = [r \in Asking |-> 0]
        /\ images = [r \in Asking |-> [b64 |-> {}, failed |-> {}]]
        /\ received = [r \in Asking |-> <<>>] /\ blocked = {}
        /\ serving = [h \in Threads |-> NoRequest]
        /\ process_task_results = [h \in Threads |-> <<>>]
    BY QueueInit DEF Init, QueueInv, HandlersInv
  <1>2. \A i \in 1 .. Len(<<>>) : FALSE
    OBVIOUS
  <1>3. NothingThrown
    BY <1>1, <1>2 DEF NothingThrown
  <1>4. ASSUME NEW r \in Asking
        PROVE  Held(r) /\ Fine(Account(r), received[r]) /\ ~Ended(Account(r), received[r])
    <2>1. req[r].n \in Nat
      BY <1>1, Asked DEF Wishes
    <2>2. Rendering(Account(r)) = {}
      BY <1>1 DEF Rendering, Account
    <2>3. Held(r)
      BY <1>1, <2>1, <2>2 DEF Held
    <2> QED
      BY <1>1, <1>2, <2>3 DEF Fine, Ended
  <1> QED
    BY <1>1, <1>3, <1>4 DEF ImagesInv

(* What the account of a request depends on.                               *)
LEMMA AccountKept ==
    ASSUME NEW r \in Asking, req' = req,
           task'[r] = task[r], generated'[r] = generated[r], images'[r] = images[r]
    PROVE  /\ Account(r)' = Account(r)
           /\ Held(r)' <=> Held(r)
  <1>1. \A n : Due(r, n)' = Due(r, n)
    BY DEF Due, Streams, Asking
  <1>2. Account(r)' = Account(r)
    BY <1>1 DEF Account
  <1>3. Streams' = Streams
    BY DEF Streams, Asking
  <1>4. Rendering(Account(r))' = Rendering(Account(r))
    BY <1>2 DEF Rendering
  <1> QED
    BY <1>2, <1>3, <1>4 DEF Held

LEMMA ImagesHttp ==
    ASSUME ImagesInv, QueueInv', NothingThrown', NEW h \in Threads, http_thread(h)
    PROVE  ImagesInv'
  <1> DEFINE c == serving[h]
  <1>1. /\ HandlersInv /\ Typed /\ c \in Asking /\ c # NoRequest
        /\ UNCHANGED <<req, task, generated, images>> /\ Asking' = Asking
        /\ tid[c] = h
    BY HttpEffect, Asked DEF ImagesInv, QueueInv, HandlersInv, Asking
  <1>2. \A r \in Asking : Account(r)' = Account(r) /\ (Held(r)' <=> Held(r))
    BY <1>1, AccountKept
  <1>3. /\ \A g \in Threads : serving'[g] = serving[g] \/ (g = h /\ serving'[g] = NoRequest)
        /\ \A g \in Threads \ {h} : writing'[g] = writing[g]
        /\ \A g \in Threads \ {h} : process_task_results'[g] = process_task_results[g]
        /\ \A r \in Asking \ {c} : received'[r] = received[r]
    BY <1>1, HttpEffect, HttpTakes
  <1>4. \A g \in blocked' : writing'[g] = <<>>
    <2>1. \A g \in blocked' \ {h} : g \in blocked
      BY DEF http_thread, Answer, PollStream, Chunk, ChunkFails, TakePieces, WritePiece, Poll, Return
    <2>2. h \in blocked => writing[h] = <<>>
      BY DEF ImagesInv
    <2>3. h \in blocked' => writing'[h] = <<>>
      BY <1>1, <2>2 DEF http_thread, Answer, PollStream, Chunk, ChunkFails, TakePieces, WritePiece,
                        Takes, Poll, Return, Typed
    <2> QED
      BY <1>1, <1>3, <2>1, <2>3 DEF ImagesInv, Typed
  <1>5. ASSUME req[c].type = "images"
        PROVE  /\ Fine(Account(c), received'[c])
               /\ Ended(Account(c), received'[c]) => Whole(Account(c), received'[c])
               /\ serving'[h] # NoRequest =>
                      LET line == received'[c] \o (writing'[h] \o process_task_results'[h])
                      IN  Fine(Account(c), line) /\ Whole(Account(c), line)
    <2> DEFINE a == Account(c)
    <2>1. Fine(a, Line(h)) /\ Whole(a, Line(h))
      BY <1>1, <1>5 DEF ImagesInv
    <2> HIDE DEF a
    <2>2. PICK rest \in Seq(Results) :
              /\ Fine(a, received'[c] \o rest)
              /\ Whole(a, received'[c] \o rest)
              /\ serving'[h] # NoRequest => rest = writing'[h] \o process_task_results'[h]
      BY <1>5, <2>1, HttpLine
    <2>3. received'[c] \in Seq(Results)
      <3>1. Typed' /\ Results' = Results
        BY <1>1 DEF QueueInv, HandlersInv, Results
      <3> QED
        BY <1>1, <3>1 DEF Typed
    <2>4. Fine(a, received'[c]) /\ (Ended(a, received'[c]) => Whole(a, received'[c]))
      BY <2>2, <2>3, Prefix
    <2> QED
      BY <2>2, <2>4 DEF a
  <1>6. ASSUME NEW r \in Asking, req[r].type = "images"
        PROVE  /\ Held(r)' /\ Fine(Account(r), received[r])'
               /\ Ended(Account(r), received[r])' => Whole(Account(r), received[r])'
    <2>1. /\ Held(r)
          /\ Fine(Account(r), received[r])
          /\ Ended(Account(r), received[r]) => Whole(Account(r), received[r])
      BY <1>6 DEF ImagesInv
    <2>2. /\ Fine(Account(r), received'[r])
          /\ Ended(Account(r), received'[r]) => Whole(Account(r), received'[r])
      <3>1. CASE r = c
        BY <1>5, <1>6, <3>1
      <3>2. CASE r # c
        BY <1>3, <2>1, <3>2
      <3> QED
        BY <3>1, <3>2
    <2>3. Account(r)' = Account(r) /\ Held(r)'
      BY <1>2, <2>1
    <2> QED
      BY <2>2, <2>3 DEF Fine, Ended, Whole, Genuine, Rendering, Highest
  <1>7. ASSUME NEW g \in Threads, serving'[g] # NoRequest, req[serving'[g]].type = "images"
        PROVE  Fine(Account(serving[g]), Line(g))' /\ Whole(Account(serving[g]), Line(g))'
    <2>0. serving'[g] = serving[g] /\ serving[g] \in Asking
      BY <1>1, <1>3, <1>7 DEF Typed
    <2> DEFINE r == serving[g]
               line == received'[r] \o (writing'[g] \o process_task_results'[g])
    <2>1. Fine(Account(r), line) /\ Whole(Account(r), line)
      <3>1. CASE g = h
        BY <1>5, <1>7, <2>0, <3>1
      <3>2. CASE g # h
        <4>1. r # c
          BY <1>1, <1>7, <2>0, <3>2 DEF HandlersInv
        <4>2. line = Line(g)
          BY <1>3, <2>0, <3>2, <4>1 DEF Line
        <4> QED
          BY <1>7, <2>0, <4>2 DEF ImagesInv
      <3> QED
        BY <3>1, <3>2
    <2>2. Account(r)' = Account(r)
      BY <1>2, <2>0
    <2>3. Line(g)' = line /\ Account(serving[g])' = Account(r)
      BY <2>0, <2>2 DEF Line, Account, Due, Streams, Asking
    <2> HIDE DEF line, r
    <2> QED
      BY <2>1, <2>3 DEF Fine, Whole, Genuine, Rendering, Highest
  <1> QED
    BY <1>1, <1>4, <1>6, <1>7 DEF ImagesInv

LEMMA ImagesEnqueue ==
    ASSUME ImagesInv, QueueInv', NothingThrown',
           NEW h \in Threads, NEW r \in Asking, Refuse(h, r) \/ Enqueue(h, r)
    PROVE  ImagesInv'
  <1>1. /\ HandlersInv /\ Typed /\ Asking' = Asking
        /\ UNCHANGED <<req, generated, images, writing, process_task_results, received>>
        /\ serving[h] = NoRequest /\ task[r] = "unsent"
        /\ \A q \in Asking \ {r} : task'[q] = task[q]
        /\ \A g \in Threads \ {h} : serving'[g] = serving[g]
        /\ blocked' \subseteq blocked \cup {h}
    BY DEF ImagesInv, QueueInv, HandlersInv, Refuse, Enqueue, Typed, Asking
  <1>2. /\ req[r].type = "images" => task'[r] = "queued" /\ serving'[h] = r
        /\ serving'[h] \in {NoRequest, r}
    BY <1>1 DEF Refuse, Enqueue, Typed
  <1>3. \A q \in Asking \ {r} : Account(q)' = Account(q) /\ (Held(q)' <=> Held(q))
    BY <1>1, AccountKept
  <1>4. received[r] = <<>> /\ writing[h] = <<>> /\ \A g \in Threads : serving[g] # r
    BY <1>1, Asked DEF HandlersInv, Streams, Sent
  <1>5. ASSUME req[r].type = "images"
        PROVE  Held(r)' /\ Rendering(Account(r))' = {}
    <2>1. Held(r) /\ generated[r] = 0 /\ images[r].failed \subseteq 1 .. 0
      BY <1>1, <1>5 DEF ImagesInv, Held
    <2>2. Rendering(Account(r)) = {} /\ Rendering(Account(r))' = {} /\ Streams' = Streams
      BY <1>1, <2>1 DEF Rendering, Account, Streams, Asking
    <2> QED
      BY <1>1, <1>2, <1>5, <2>1, <2>2 DEF Held
  <1>6. ASSUME NEW q \in Asking, req[q].type = "images"
        PROVE  /\ Held(q)' /\ Fine(Account(q), received[q])'
               /\ Ended(Account(q), received[q])' => Whole(Account(q), received[q])'
    <2>1. CASE q = r
      <3>1. received'[q] = <<>> /\ \A i \in 1 .. Len(<<>>) : FALSE
        BY <1>1, <1>4, <2>1
      <3> QED
        BY <1>5, <1>6, <2>1, <3>1 DEF Fine, Ended
    <2>2. CASE q # r
      <3>1. /\ Held(q)
            /\ Fine(Account(q), received[q])
            /\ Ended(Account(q), received[q]) => Whole(Account(q), received[q])
        BY <1>6 DEF ImagesInv
      <3>2. received'[q] = received[q] /\ Account(q)' = Account(q) /\ Held(q)'
        BY <1>1, <1>3, <2>2, <3>1
      <3> QED
        BY <3>1, <3>2 DEF Fine, Ended, Whole, Genuine, Rendering, Highest
    <2> QED
      BY <2>1, <2>2
  <1>7. ASSUME NEW g \in Threads, serving'[g] # NoRequest, req[serving'[g]].type = "images"
        PROVE  Fine(Account(serving[g]), Line(g))' /\ Whole(Account(serving[g]), Line(g))'
    <2>1. CASE g = h
      <3>1. serving'[g] = r /\ req[r].type = "images"
        BY <1>2, <1>7, <2>1
      <3> DEFINE q == process_task_results[h]
      <3>2. q \in Seq(Results) /\ Line(g)' = q
        <4>1. q \in Seq(Results) /\ Line(g)' = <<>> \o (<<>> \o q)
          BY <1>1, <1>4, <2>1, <3>1 DEF Line, Typed
        <4> HIDE DEF q
        <4> QED
          BY <4>1, ConcatEmptySeq
      <3>3. \A i \in 1 .. Len(q) : q[i].of # r
        BY <1>1 DEF ImagesInv, QueueInv, Waits, Sent
      <3>4. Account(serving[g])'.of = r /\ Rendering(Account(serving[g]))' = {}
        BY <1>5, <3>1 DEF Account, Rendering
      <3> HIDE DEF q
      <3> QED
        BY <3>2, <3>3, <3>4 DEF Fine, Whole
    <2>2. CASE g # h
      <3>1. serving'[g] = serving[g] /\ serving[g] \in Asking /\ serving[g] # r
        BY <1>1, <1>4, <1>7, <2>2 DEF Typed
      <3>2. Line(g)' = Line(g)
        BY <1>1, <3>1 DEF Line
      <3>3. Account(serving[g])' = Account(serving[g])
        BY <1>1, <1>3, <3>1 DEF Account, Due, Streams, Asking
      <3>4. Fine(Account(serving[g]), Line(g)) /\ Whole(Account(serving[g]), Line(g))
        BY <1>7, <3>1 DEF ImagesInv
      <3> QED
        BY <3>2, <3>3, <3>4 DEF Fine, Whole, Genuine, Rendering, Highest
    <2> QED
      BY <2>1, <2>2
  <1>8. \A g \in blocked' : writing'[g] = <<>>
    BY <1>1, <1>4 DEF ImagesInv
  <1> QED
    BY <1>1, <1>6, <1>7, <1>8 DEF ImagesInv

(* What is posted is appended to the line of the thread it is posted to.   *)
LEMMA PostsLine ==
    ASSUME Typed, NEW r \in Asking, NEW new \in Seq(Results), Posts(r, new), UNCHANGED http_vars,
           NEW g \in Threads, serving[g] \in Asking
    PROVE  /\ Line(g) \in Seq(Results)
           /\ Line(g)' = IF g = tid[r] THEN Line(g) \o new ELSE Line(g)
  <1> DEFINE p == received[serving[g]]
             w == writing[g]
             q == process_task_results[g]
  <1>1. p \in Seq(Results) /\ w \in Seq(Results) /\ q \in Seq(Results)
    BY DEF Typed
  <1>2. /\ Line(g) = p \o (w \o q)
        /\ Line(g)' = p \o (w \o process_task_results'[g])
        /\ process_task_results'[g] = IF g = tid[r] THEN q \o new ELSE q
    BY DEF Line, Posts, Typed, http_vars
  <1> HIDE DEF p, w, q
  <1>3. w \o q \in Seq(Results) /\ p \o (w \o q) \in Seq(Results)
    BY <1>1, ConcatProperties
  <1>4. w \o (q \o new) = (w \o q) \o new
    BY <1>1, ConcatAssociative
  <1> DEFINE u == w \o q
  <1>6. u \in Seq(Results)
    BY <1>3
  <1> HIDE DEF u
  <1>5. (p \o u) \o new = p \o (u \o new)
    BY <1>1, <1>6, ConcatAssociative
  <1> QED
    BY <1>2, <1>3, <1>4, <1>5 DEF u

(* What the images step of request r makes of its account, and posts.      *)
Reported(a, b, new) ==
    /\ a \in Accounts /\ b \in Accounts /\ Later(a, b) /\ Ordered(new)
    /\ \A i \in 1 .. Len(new) : new[i].of = a.of /\ Genuine(b, new[i]) /\ new[i].number > Highest(a)
    /\ \A n \in Rendering(b) : \A k \in b.due[n] :
           k < 2 * b.n \/ b.task = "destroyed" =>
               \/ n \in Rendering(a) /\ k < 2 * a.n
               \/ \E i \in 1 .. Len(new) : new[i].of = a.of /\ new[i].number = k /\ n \in new[i].b64

LEMMA OneOrdered ==
    ASSUME NEW x \in Results
    PROVE  <<x>> \in Seq(Results) /\ Len(<<x>>) = 1 /\ <<x>>[1] = x /\ Ordered(<<x>>)
  <1> DEFINE s == <<x>>
  <1>1. s \in Seq(Results) /\ Len(s) = 1 /\ s[1] = x
    BY Single
  <1> HIDE DEF s
  <1>2. Ordered(s)
    BY <1>1 DEF Ordered
  <1> QED
    BY <1>1, <1>2 DEF s

LEMMA RenderReports ==
    ASSUME Typed, Typed', NEW r \in Asking, Held(r), Render(r)
    PROVE  /\ Held(r)'
           /\ \E new \in Seq(Results) : Posts(r, new) /\ Reported(Account(r), Account(r)', new)
  <1> DEFINE n == generated[r] + 1
             a == Account(r)
             b == Account(r)'
  <1>1. /\ n \in Nat /\ n >= 1 /\ n <= req[r].n /\ req[r].n \in Nat
        /\ task[r] = "queued" /\ task'[r] = "queued" /\ generated'[r] = n
        /\ req' = req /\ Asking' = Asking /\ Streams' = Streams
        /\ generated[r] = n - 1 /\ images[r].failed \subseteq 1 .. n - 1
        /\ images'[r].failed \in SUBSET Nat
    <2>1. generated[r] \in Nat /\ req[r].n \in Nat /\ generated[r] < req[r].n
      BY Asked DEF Render, Typed, Wishes
    <2>2. images[r].failed \subseteq 1 .. generated[r]
      BY DEF Held
    <2>3. req' = req /\ task' = task /\ task[r] = "queued" /\ generated'[r] = n
      BY DEF Render, Typed
    <2>4. images'[r].failed \in SUBSET Nat
      BY <2>3 DEF Typed, Asking
    <2> QED
      BY <2>1, <2>2, <2>3, <2>4 DEF Asking, Streams
  <1>11. /\ \/ /\ images' = [images EXCEPT ![r].failed = @ \cup {n}]
               /\ UNCHANGED process_task_results
            \/ /\ images' = [images EXCEPT ![r].b64 = IF r \in Streams /\ n < req[r].n THEN @ ELSE @ \cup {n}]
               /\ IF r \in Streams THEN Posts(r, ToJson(r, n)) ELSE UNCHANGED process_task_results
    BY DEF Render
  <1> HIDE DEF n
  <1>12. /\ a = [of |-> r, n |-> req[r].n, due |-> [k \in Nat |-> Due(r, k)],
                 made |-> n - 1, failed |-> images[r].failed, task |-> "queued"]
         /\ b = [of |-> r, n |-> req[r].n, due |-> [k \in Nat |-> Due(r, k)],
                 made |-> n, failed |-> images'[r].failed, task |-> "queued"]
    <2>1. /\ \A k : Due(r, k)' = Due(r, k)
      BY <1>1 DEF Due
    <2> QED
      BY <1>1, <2>1 DEF Account
  <1>2. a \in Accounts /\ b \in Accounts
    <2>1. a \in Accounts
      BY AccountType
    <2>2. /\ r \in Requests /\ [k \in Nat |-> Due(r, k)] \in [Nat -> SUBSET Int]
      BY <1>12, <2>1 DEF Accounts
    <2> QED
      BY <1>1, <1>12, <2>1, <2>2 DEF Accounts, Tasks
  <1>3. /\ a.of = r /\ b.of = r /\ a.n = req[r].n /\ b.n = req[r].n
        /\ a.made = n - 1 /\ b.made = n /\ a.task = "queued" /\ b.task = "queued"
        /\ a.failed = images[r].failed /\ b.failed = images'[r].failed
        /\ b.due = a.due /\ a.due = [k \in Nat |-> Due(r, k)]
    BY <1>12
  <1>13. /\ Held(r)' <=> /\ images'[r].failed \subseteq 1 .. n
                         /\ images'[r].b64 = {k \in Rendering(b) : r \in Streams => k = req[r].n}
    BY <1>1 DEF Held
  <1>6. images[r].b64 = {k \in Rendering(a) : r \in Streams => k = req[r].n}
    BY DEF Held
  <1> HIDE DEF a, b
  <1>4. Highest(a) = 2 * (n - 1) /\ Highest(b) = IF n < req[r].n THEN 2 * n ELSE 2 * n - 1
    BY <1>1, <1>3 DEF Highest
  <1>5. /\ n \notin images[r].failed
        /\ Rendering(a) = (1 .. n - 1) \ images[r].failed
        /\ Rendering(b) = (1 .. n) \ images'[r].failed
    BY <1>1, <1>3 DEF Rendering
  <1>7. CASE images' = [images EXCEPT ![r].failed = @ \cup {n}] /\ UNCHANGED process_task_results
    <2>1. images'[r].failed = images[r].failed \cup {n} /\ images'[r].b64 = images[r].b64
      BY <1>7 DEF Typed
    <2>2. Rendering(b) = Rendering(a)
      BY <1>1, <1>5, <2>1
    <2>3. Held(r)'
      <3>1. images'[r].failed \subseteq 1 .. n
        BY <1>1, <2>1
      <3>2. images'[r].b64 = {k \in Rendering(b) : r \in Streams => k = req[r].n}
        BY <1>6, <2>1, <2>2
      <3> QED
        BY <1>13, <3>1, <3>2
    <2>4. Later(a, b)
      BY <1>1, <1>3, <1>4, <2>2 DEF Later
    <2>5. Posts(r, <<>>) /\ Ordered(<<>>) /\ <<>> \in Seq(Results) /\ \A i \in 1 .. Len(<<>>) : FALSE
      BY <1>7, NothingPosted
    <2>6. Reported(a, b, <<>>)
      BY <1>2, <1>3, <2>2, <2>4, <2>5 DEF Reported
    <2> QED
      BY <2>3, <2>5, <2>6 DEF a, b
  <1>8. ASSUME images' = [images EXCEPT ![r].b64 = IF r \in Streams /\ n < req[r].n THEN @ ELSE @ \cup {n}]
        PROVE  Held(r)' /\ Later(a, b) /\ Rendering(b) = Rendering(a) \cup {n}
    <2>1. /\ images'[r].failed = images[r].failed
          /\ images'[r].b64 = IF r \in Streams /\ n < req[r].n THEN images[r].b64 ELSE images[r].b64 \cup {n}
      BY <1>8 DEF Typed
    <2>2. Rendering(b) = Rendering(a) \cup {n}
      BY <1>1, <1>5, <2>1
    <2>3. Held(r)'
      <3>1. images'[r].failed \subseteq 1 .. n
        BY <1>1, <2>1
      <3>2. images'[r].b64 = {k \in Rendering(b) : r \in Streams => k = req[r].n}
        BY <1>1, <1>5, <1>6, <2>1, <2>2
      <3> QED
        BY <1>13, <3>1, <3>2
    <2>4. Later(a, b)
      BY <1>1, <1>3, <1>4, <2>2 DEF Later
    <2> QED
      BY <2>2, <2>3, <2>4
  <1>9. CASE /\ images' = [images EXCEPT ![r].b64 = IF r \in Streams /\ n < req[r].n THEN @ ELSE @ \cup {n}]
             /\ r \notin Streams /\ UNCHANGED process_task_results
    <2>1. Held(r)' /\ Later(a, b)
      BY <1>8, <1>9
    <2>2. Posts(r, <<>>) /\ Ordered(<<>>) /\ <<>> \in Seq(Results) /\ \A i \in 1 .. Len(<<>>) : FALSE
      BY <1>9, NothingPosted
    <2>3. \A m \in Rendering(b) : b.due[m] = {2 * b.n}
      <3>1. Rendering(b) \subseteq Nat
        BY <1>1, <1>5
      <3> QED
        BY <1>3, <1>9, <3>1 DEF Due
    <2>4. \A m \in Rendering(b) : \A k \in b.due[m] : ~(k < 2 * b.n \/ b.task = "destroyed")
      BY <1>1, <1>3, <2>3
    <2>5. Reported(a, b, <<>>)
      BY <1>2, <2>1, <2>2, <2>4 DEF Reported
    <2> QED
      BY <2>1, <2>2, <2>5 DEF a, b
  <1>10. CASE /\ images' = [images EXCEPT ![r].b64 = IF r \in Streams /\ n < req[r].n THEN @ ELSE @ \cup {n}]
              /\ r \in Streams /\ Posts(r, ToJson(r, n))
    <2> DEFINE new == ToJson(r, n)
    <2>1. Held(r)' /\ Later(a, b) /\ Rendering(b) = Rendering(a) \cup {n}
      BY <1>8, <1>10
    <2>2. /\ new \in Seq(Results)
          /\ \A i \in 1 .. Len(new) :
                 /\ new[i].of = r /\ new[i].status = "continue" /\ new[i].b64 = {n}
                 /\ new[i].number >= 2 * n - 1
                 /\ new[i].number <= IF n < req[r].n THEN 2 * n ELSE 2 * n - 1
                 /\ new[i].number = 2 * n - 1 => req[r].preview
          /\ \A i, j \in 1 .. Len(new) : i < j => new[i].number < new[j].number
      BY <1>1, Rendered
    <2>3. /\ req[r].preview => \E i \in 1 .. Len(new) : new[i].number = 2 * n - 1
          /\ n < req[r].n => \E i \in 1 .. Len(new) : new[i].number = 2 * n
      <3>1. n \in Nat /\ n >= 1
        BY <1>1
      <3>2. /\ req[r].preview => \E i \in 1 .. Len(ToJson(r, n)) : ToJson(r, n)[i].number = 2 * n - 1
            /\ n < req[r].n => \E i \in 1 .. Len(ToJson(r, n)) : ToJson(r, n)[i].number = 2 * n
        BY <3>1, Rendered
      <3> QED
        BY <3>2
    <2>4. Posts(r, new)
      BY <1>10
    <2> HIDE DEF new
    <2>5. Ordered(new)
      BY <2>2 DEF Ordered
    <2>6. /\ a.due[n] = IF req[r].preview THEN {2 * n - 1, 2 * n} ELSE {2 * n}
          /\ n \in Rendering(b) /\ b.due = a.due
      BY <1>1, <1>3, <1>10, <2>1 DEF Due
    <2>7. ASSUME NEW i \in 1 .. Len(new)
          PROVE  new[i].of = a.of /\ Genuine(b, new[i]) /\ new[i].number > Highest(a)
      <3> DEFINE x == new[i]
      <3>1. /\ x.of = r /\ x.status = "continue" /\ x.b64 = {n}
            /\ x.number >= 2 * n - 1
            /\ x.number <= IF n < req[r].n THEN 2 * n ELSE 2 * n - 1
            /\ x.number = 2 * n - 1 => req[r].preview
        BY <2>2
      <3>5. x.number \in Nat
        <4>1. x \in Results
          BY <2>2, ElementOfSeq
        <4> QED
          BY <4>1 DEF Results
      <3> HIDE DEF x
      <3>2. x.number \in a.due[n]
        BY <1>1, <2>6, <3>1, <3>5
      <3>3. x.number > Highest(a) /\ x.number <= Highest(b)
        BY <1>1, <1>4, <3>1, <3>5
      <3>4. Genuine(b, x)
        BY <2>6, <3>1, <3>2, <3>3 DEF Genuine, Ends
      <3> QED
        BY <1>3, <3>1, <3>3, <3>4 DEF x
    <2>8. ASSUME NEW m \in Rendering(b), NEW k \in b.due[m], k < 2 * b.n \/ b.task = "destroyed"
          PROVE  \/ m \in Rendering(a) /\ k < 2 * a.n
                 \/ \E i \in 1 .. Len(new) : new[i].of = a.of /\ new[i].number = k /\ m \in new[i].b64
      <3>1. k < 2 * a.n
        BY <1>3, <2>8
      <3>2. CASE m \in Rendering(a)
        BY <3>1, <3>2
      <3>3. CASE m = n
        <4>1. (k = 2 * n - 1 /\ req[r].preview) \/ k = 2 * n
          BY <2>6, <2>8, <3>3
        <4>2. k = 2 * n => n < req[r].n
          BY <1>1, <1>3, <3>1
        <4>3. PICK i \in 1 .. Len(new) : new[i].number = k
          BY <2>3, <4>1, <4>2
        <4> QED
          BY <1>3, <2>2, <3>3, <4>3
      <3> QED
        BY <2>1, <3>2, <3>3
    <2>9. Reported(a, b, new)
      <3> QED
        BY <1>2, <2>1, <2>5, <2>7, <2>8 DEF Reported
    <2> QED
      BY <2>1, <2>2, <2>4, <2>9 DEF a, b
  <1> QED
    BY <1>7, <1>9, <1>10, <1>11

LEMMA FinishReports ==
    ASSUME Typed, Typed', NEW r \in Asking, Held(r), FinishImages(r)
    PROVE  /\ Held(r)'
           /\ \E new \in Seq(Results) : Posts(r, new) /\ Reported(Account(r), Account(r)', new)
  <1> DEFINE n == req[r].n
             status == IF images[r].failed = {} THEN "ok" ELSE "error"
             x == result(r, 2 * n, status, images[r].b64)
             a == Account(r)
             b == Account(r)'
  <1>1. /\ n \in Nat /\ n >= 1 /\ generated[r] = n
        /\ req' = req /\ generated' = generated /\ images' = images
        /\ task[r] = "queued" /\ task'[r] = "destroyed"
        /\ Streams' = Streams /\ images[r].b64 \in SUBSET Nat /\ images[r].failed \in SUBSET Nat
    <2>1. req[r].type = "images" /\ req[r].n \in Nat /\ req[r].n >= 1
      BY Asked DEF FinishImages, Wishes
    <2>2. req' = req /\ generated' = generated /\ images' = images /\ generated[r] = n
      BY DEF FinishImages
    <2>3. task[r] = "queued" /\ task'[r] = "destroyed"
      BY DEF FinishImages, Typed
    <2> QED
      BY <2>1, <2>2, <2>3 DEF Typed, Streams, Asking
  <1>2. Posts(r, <<x>>) /\ x \in Results
    <2>1. Posts(r, <<x>>)
      BY DEF FinishImages
    <2>2. 2 * n \in Nat /\ status \in {"continue", "ok", "error", "throws"}
      BY <1>1
    <2> HIDE DEF status
    <2> QED
      BY <1>1, <2>1, <2>2, ResultType
  <1>3. x.of = r /\ x.number = 2 * n /\ x.status = status /\ x.b64 = images[r].b64
    BY DEF result
  <1>4. /\ a = [of |-> r, n |-> n, due |-> [k \in Nat |-> Due(r, k)],
                made |-> n, failed |-> images[r].failed, task |-> "queued"]
        /\ b = [of |-> r, n |-> n, due |-> [k \in Nat |-> Due(r, k)],
                made |-> n, failed |-> images[r].failed, task |-> "destroyed"]
    <2>1. /\ \A k : Due(r, k)' = Due(r, k)
      BY <1>1 DEF Due
    <2> QED
      BY <1>1, <2>1 DEF Account
  <1>5. a \in Accounts /\ b \in Accounts
    <2>1. a \in Accounts
      BY AccountType
    <2>2. /\ r \in Requests /\ [k \in Nat |-> Due(r, k)] \in [Nat -> SUBSET Int]
      BY <1>4, <2>1 DEF Accounts
    <2> QED
      BY <1>1, <1>4, <2>1, <2>2 DEF Accounts, Tasks
  <1>6. images[r].b64 = {k \in Rendering(a) : r \in Streams => k = n}
    BY DEF Held
  <1>7. /\ a.of = r /\ b.of = r /\ a.n = n /\ b.n = n /\ a.made = n /\ b.made = n
        /\ a.task = "queued" /\ b.task = "destroyed"
        /\ a.failed = images[r].failed /\ b.failed = images[r].failed
        /\ b.due = a.due /\ a.due = [k \in Nat |-> Due(r, k)]
    BY <1>4
  <1>8. Held(r)'
    <2>1. Rendering(Account(r))' = Rendering(Account(r))
      BY <1>4 DEF Rendering
    <2> QED
      BY <1>1, <2>1 DEF Held
  <1> HIDE DEF a, b, x, n
  <1>9. /\ Rendering(b) = Rendering(a) /\ Rendering(a) \subseteq 1 .. n
        /\ Highest(a) = 2 * n - 1 /\ Highest(b) = 2 * n - 1
    BY <1>1, <1>7 DEF Rendering, Highest
  <1>10. Later(a, b)
    BY <1>1, <1>7, <1>9 DEF Later
  <1>11. \A k \in Nat : a.due[k] = IF r \in Streams
                                   THEN (IF req[r].preview THEN {2 * k - 1, 2 * k} ELSE {2 * k})
                                   ELSE {2 * n}
    BY <1>7 DEF Due, n
  <1>12. Genuine(b, x)
    <2>1. \A k \in x.b64 : k \in Rendering(b) /\ 2 * n \in b.due[k]
      <3> TAKE k \in x.b64
      <3>1. k \in Rendering(a) /\ k \in Nat /\ (r \in Streams => k = n)
        BY <1>1, <1>3, <1>6, <1>9
      <3>2. 2 * n \in a.due[k]
        BY <1>11, <3>1
      <3> QED
        BY <1>7, <1>9, <3>1, <3>2
    <2>2. x.status = "ok" <=> b.failed = {}
      BY <1>3, <1>7
    <2> HIDE DEF status
    <2> QED
      BY <1>3, <1>7, <2>1, <2>2 DEF Genuine
  <1>13. ASSUME NEW m \in Rendering(b), NEW k \in b.due[m]
         PROVE  \/ m \in Rendering(a) /\ k < 2 * a.n
                \/ x.number = k /\ m \in x.b64
    <2>1. m \in Rendering(a) /\ m \in 1 .. n /\ k \in a.due[m] /\ m \in Nat
      BY <1>1, <1>7, <1>9, <1>13
    <2>2. CASE r \in Streams
      <3>1. k = 2 * m - 1 \/ k = 2 * m
        BY <1>11, <2>1, <2>2
      <3>2. CASE k < 2 * n
        BY <1>7, <2>1, <3>2
      <3>3. CASE ~(k < 2 * n)
        <4>1. m = n /\ k = 2 * n
          BY <1>1, <2>1, <3>1, <3>3
        <4> QED
          BY <1>3, <1>6, <2>1, <4>1
      <3> QED
        BY <3>2, <3>3
    <2>3. CASE r \notin Streams
      BY <1>3, <1>6, <1>11, <2>1, <2>3
    <2> QED
      BY <2>2, <2>3
  <1> DEFINE new == <<x>>
  <1>14. new \in Seq(Results) /\ Len(new) = 1 /\ new[1] = x /\ Ordered(new)
    BY <1>2, OneOrdered
  <1>15. Posts(r, new)
    BY <1>2
  <1> HIDE DEF new
  <1>16. x.number > Highest(a) /\ x.of = a.of
    BY <1>1, <1>3, <1>7, <1>9
  <1>17. Reported(a, b, new)
    <2>1. \A i \in 1 .. Len(new) : new[i] = x
      BY <1>14
    <2>2. 1 \in 1 .. Len(new)
      BY <1>14
    <2>3. \A i \in 1 .. Len(new) : new[i].of = a.of /\ Genuine(b, new[i]) /\ new[i].number > Highest(a)
      BY <1>12, <1>16, <2>1
    <2>4. ASSUME NEW m \in Rendering(b), NEW k \in b.due[m]
          PROVE  \/ m \in Rendering(a) /\ k < 2 * a.n
                 \/ \E i \in 1 .. Len(new) : new[i].of = a.of /\ new[i].number = k /\ m \in new[i].b64
      BY <1>13, <1>16, <2>1, <2>2, <2>4
    <2> QED
      BY <1>5, <1>10, <1>14, <2>3, <2>4 DEF Reported
  <1> QED
    BY <1>8, <1>14, <1>15, <1>17 DEF a, b

(* An images step is reported; a completion's step concerns no account.    *)
LEMMA ProcessReports ==
    ASSUME ImagesInv, Typed', NEW r \in Asking, Process(r)
    PROVE  \E new \in Seq(Results) :
               /\ Posts(r, new)
               /\ \A i \in 1 .. Len(new) : new[i].of = r
               /\ req[r].type = "images" => Held(r)' /\ Reported(Account(r), Account(r)', new)
  <1>1. Typed
    BY DEF ImagesInv, QueueInv, HandlersInv
  <1>2. CASE req[r].type = "images"
    <2>1. Held(r)
      BY <1>2 DEF ImagesInv
    <2>2. Render(r) \/ FinishImages(r)
      BY <1>2, <2>1 DEF Process, Sample, Requeue, Drop, Finish, Held
    <2>3. PICK new \in Seq(Results) : Posts(r, new) /\ Reported(Account(r), Account(r)', new)
      BY <1>1, <2>1, <2>2, RenderReports, FinishReports
    <2>4. Held(r)'
      BY <1>1, <2>1, <2>2, RenderReports, FinishReports
    <2>5. \A i \in 1 .. Len(new) : new[i].of = r
      BY <2>3 DEF Reported, Account
    <2> QED
      BY <2>3, <2>4, <2>5
  <1>3. CASE req[r].type # "images"
    BY <1>1, <1>3, ProcessPosts
  <1> QED
    BY <1>2, <1>3

(* What a request was sent so far stays right while its images are made.   *)
LEMMA SentStays ==
    ASSUME NEW a \in Accounts, NEW b \in Accounts, Later(a, b),
           NEW s \in Seq(Results), Fine(a, s)
    PROVE  Fine(b, s) /\ ~Ended(b, s)
  <1>1. <<>> \in Seq(Results) /\ Ordered(<<>>) /\ \A i \in 1 .. Len(<<>>) : FALSE
    BY EmptySeq DEF Ordered
  <1>2. Fine(b, s \o <<>>) /\ s \o <<>> = s
    <2>1. s \o <<>> = s
      BY ConcatEmptySeq
    <2>2. Fine(b, s \o <<>>)
      BY <1>1, FinePosts
    <2> QED
      BY <2>1, <2>2
  <1>3. ~Ended(b, s)
    BY DEF Ended, Later, Fine, Genuine
  <1> QED
    BY <1>2, <1>3

LEMMA ImagesProcess ==
    ASSUME ImagesInv, QueueInv', NothingThrown', NEW r \in Asking, Process(r)
    PROVE  ImagesInv'
  <1>1. /\ HandlersInv /\ Typed /\ Typed' /\ UNCHANGED http_vars /\ req' = req /\ Asking' = Asking
        /\ \A q \in Asking \ {r} : task'[q] = task[q]
    <2>1. HandlersInv /\ Typed /\ Typed'
      BY DEF ImagesInv, QueueInv, HandlersInv
    <2>2. UNCHANGED http_vars /\ req' = req
      BY ProcessEffect
    <2>3. \A q \in Asking \ {r} : task'[q] = task[q]
      BY <2>1, ProcessEffect DEF Typed
    <2> QED
      BY <2>1, <2>2, <2>3 DEF Asking
  <1>2. \A q \in Asking \ {r} : generated'[q] = generated[q] /\ images'[q] = images[q]
    BY <1>1 DEF Process, Sample, Requeue, Drop, Finish, Render, FinishImages, Typed
  <1>3. \A q \in Asking \ {r} : Account(q)' = Account(q) /\ (Held(q)' <=> Held(q))
    BY <1>1, <1>2, AccountKept
  <1>4. PICK new \in Seq(Results) :
            /\ Posts(r, new)
            /\ \A i \in 1 .. Len(new) : new[i].of = r
            /\ req[r].type = "images" => Held(r)' /\ Reported(Account(r), Account(r)', new)
    BY <1>1, ProcessReports
  <1>5. ASSUME NEW q \in Asking, req[q].type = "images"
        PROVE  /\ Held(q)' /\ Fine(Account(q), received[q])'
               /\ Ended(Account(q), received[q])' => Whole(Account(q), received[q])'
    <2>1. /\ Held(q)
          /\ Fine(Account(q), received[q])
          /\ Ended(Account(q), received[q]) => Whole(Account(q), received[q])
      BY <1>5 DEF ImagesInv
    <2>2. received'[q] = received[q] /\ received[q] \in Seq(Results)
      BY <1>1 DEF http_vars, Typed
    <2> DEFINE b == Account(q)'
    <2>3. /\ Held(q)' /\ Fine(b, received[q])
          /\ Ended(b, received[q]) => Whole(b, received[q])
      <3>1. CASE q = r
        <4>1. Account(q) \in Accounts /\ b \in Accounts /\ Later(Account(q), b) /\ Held(q)'
          BY <1>4, <1>5, <3>1 DEF Reported
        <4> HIDE DEF b
        <4> QED
          BY <2>1, <2>2, <4>1, SentStays
      <3>2. CASE q # r
        BY <1>3, <2>1, <3>2
      <3> QED
        BY <3>1, <3>2
    <2> QED
      BY <2>2, <2>3 DEF Fine, Ended, Whole, Genuine, Rendering, Highest
  <1>6. ASSUME NEW g \in Threads, serving'[g] # NoRequest, req[serving'[g]].type = "images"
        PROVE  Fine(Account(serving[g]), Line(g))' /\ Whole(Account(serving[g]), Line(g))'
    <2> DEFINE q == serving[g]
               b == Account(q)'
    <2>0. serving' = serving /\ q \in Asking /\ q # NoRequest /\ req[q].type = "images" /\ tid[q] = g
      BY <1>1, <1>6 DEF Typed, HandlersInv, http_vars
    <2>1. /\ Line(g) \in Seq(Results)
          /\ Line(g)' = IF g = tid[r] THEN Line(g) \o new ELSE Line(g)
      BY <1>1, <1>4, <2>0, PostsLine
    <2>2. Fine(Account(q), Line(g)) /\ Whole(Account(q), Line(g))
      BY <2>0 DEF ImagesInv
    <2>3. Fine(b, Line(g)') /\ Whole(b, Line(g)')
      <3>1. CASE q = r
        <4>1. /\ Account(q) \in Accounts /\ b \in Accounts /\ Later(Account(q), b) /\ Ordered(new)
              /\ \A i \in 1 .. Len(new) :
                     new[i].of = Account(q).of /\ Genuine(b, new[i]) /\ new[i].number > Highest(Account(q))
              /\ \A n \in Rendering(b) : \A k \in b.due[n] :
                     k < 2 * b.n \/ b.task = "destroyed" =>
                         \/ n \in Rendering(Account(q)) /\ k < 2 * Account(q).n
                         \/ \E i \in 1 .. Len(new) :
                                new[i].of = Account(q).of /\ new[i].number = k /\ n \in new[i].b64
          BY <1>4, <2>0, <3>1 DEF Reported
        <4>2. Line(g)' = Line(g) \o new
          BY <2>0, <2>1, <3>1
        <4> DEFINE a == Account(q)
                   s == Line(g)
        <4> HIDE DEF a, b, s, q
        <4>3. Fine(b, s \o new)
          BY <2>1, <2>2, <4>1, FinePosts DEF a, s
        <4>4. Whole(b, s \o new)
          BY <2>1, <2>2, <4>1, WholePosts DEF a, s
        <4> QED
          BY <4>2, <4>3, <4>4 DEF s
      <3>2. CASE q # r
        <4>1. b = Account(q)
          BY <1>3, <2>0, <3>2
        <4>2. \A i \in 1 .. Len(new) : new[i].of # Account(q).of
          BY <1>4, <3>2 DEF Account
        <4> DEFINE a == Account(q)
                   s == Line(g)
        <4> HIDE DEF a, b, s, q
        <4>3. Fine(a, s \o new) /\ Whole(a, s \o new)
          BY <2>1, <2>2, <4>2, OthersPost DEF a, s
        <4> QED
          BY <2>1, <2>2, <4>1, <4>3 DEF a, s
      <3> QED
        BY <3>1, <3>2
    <2>4. Account(serving[g])' = b
      BY <2>0 DEF Account, Due
    <2> HIDE DEF b, q
    <2> QED
      BY <2>3, <2>4 DEF Fine, Whole, Genuine, Rendering, Highest
  <1>7. \A g \in blocked' : writing'[g] = <<>>
    BY <1>1 DEF ImagesInv, http_vars
  <1> QED
    BY <1>1, <1>5, <1>6, <1>7 DEF ImagesInv

LEMMA ImagesStep ==
    ASSUME ImagesInv, [Next]_vars
    PROVE  ImagesInv'
  <1>1. QueueInv' /\ NothingThrown' /\ HandlersInv
    BY QueueStep, ThrownStep DEF ImagesInv, QueueInv
  <1>2. CASE (\E r \in Asking : Disconnect(r)) \/ Tick \/ UNCHANGED vars
    <2>1. UNCHANGED <<req, task, generated, images, serving, blocked, writing, process_task_results, received>>
      BY <1>2 DEF Disconnect, Tick, vars, http_vars
    <2>2. Asking' = Asking /\ \A h \in Threads : serving[h] # NoRequest => serving[h] \in Asking
      BY <1>1, <2>1 DEF Asking, HandlersInv, Typed
    <2>3. \A r \in Asking : Account(r)' = Account(r) /\ (Held(r)' <=> Held(r))
      BY <2>1, AccountKept
    <2>4. ASSUME NEW r \in Asking, req[r].type = "images"
          PROVE  /\ Held(r)' /\ Fine(Account(r), received[r])'
                 /\ Ended(Account(r), received[r])' => Whole(Account(r), received[r])'
      <3>1. /\ Held(r)
            /\ Fine(Account(r), received[r])
            /\ Ended(Account(r), received[r]) => Whole(Account(r), received[r])
        BY <2>4 DEF ImagesInv
      <3>2. Held(r)' /\ Account(r)' = Account(r) /\ received' = received
        BY <2>1, <2>3, <3>1
      <3> QED
        BY <3>1, <3>2 DEF Fine, Ended, Whole, Genuine, Rendering, Highest
    <2>5. ASSUME NEW h \in Threads, serving[h] # NoRequest, req[serving[h]].type = "images"
          PROVE  Fine(Account(serving[h]), Line(h))' /\ Whole(Account(serving[h]), Line(h))'
      <3>1. Account(serving[h])' = Account(serving[h])
        BY <2>1 DEF Account, Due, Streams, Asking
      <3>2. Line(h)' = Line(h)
        BY <2>1 DEF Line
      <3>3. Fine(Account(serving[h]), Line(h)) /\ Whole(Account(serving[h]), Line(h))
        BY <2>5 DEF ImagesInv
      <3> QED
        BY <3>1, <3>2, <3>3 DEF Fine, Whole, Genuine, Rendering, Highest
    <2>6. \A g \in blocked' : writing'[g] = <<>>
      BY <2>1 DEF ImagesInv
    <2> QED
      BY <1>1, <2>1, <2>2, <2>4, <2>5, <2>6 DEF ImagesInv
  <1> QED
    BY <1>1, <1>2, ImagesEnqueue, ImagesHttp, ImagesProcess DEF Next

(* The images of number n in a line are counted by their numbers.          *)
LEMMA Counted ==
    ASSUME NEW a, NEW s \in Seq(Results), Fine(a, s), NEW n, n \in Rendering(a), IsFiniteSet(a.due[n])
    PROVE  LET shown == {i \in 1 .. Len(s) : s[i].of = a.of /\ n \in s[i].b64}
           IN  /\ Cardinality(shown) <= Cardinality(a.due[n])
               /\ Whole(a, s) /\ a.task = "destroyed" => Cardinality(shown) = Cardinality(a.due[n])
  <1> DEFINE shown == {i \in 1 .. Len(s) : s[i].of = a.of /\ n \in s[i].b64}
             f == [i \in shown |-> s[i].number]
  <1>1. \A i \in 1 .. Len(s) : s[i].number \in Nat
    <2>1. \A i \in 1 .. Len(s) : s[i] \in Results
      BY ElementOfSeq
    <2> QED
      BY <2>1 DEF Results
  <1>2. \A i \in shown : s[i].number \in a.due[n]
    BY DEF Fine, Genuine
  <1>3. \A i, j \in shown : i < j => s[i].number < s[j].number
    BY DEF Fine
  <1>4. \A i, j \in shown : s[i].number = s[j].number => i = j
    <2> SUFFICES ASSUME NEW i \in shown, NEW j \in shown, s[i].number = s[j].number, i # j
                 PROVE  FALSE
      OBVIOUS
    <2>1. i \in Int /\ j \in Int /\ s[i].number \in Nat /\ s[j].number \in Nat
      BY <1>1
    <2>2. i < j \/ j < i
      BY <2>1
    <2> QED
      BY <1>3, <2>1, <2>2
  <1> HIDE DEF shown
  <1>5. f \in Injection(shown, a.due[n])
    BY <1>2, <1>4 DEF Injection, IsInjective
  <1> HIDE DEF f
  <1>6. /\ Cardinality(shown) <= Cardinality(a.due[n])
        /\ f \in Surjection(shown, a.due[n]) => Cardinality(shown) = Cardinality(a.due[n])
    BY <1>5, FS_Injection
  <1>7. ASSUME Whole(a, s), a.task = "destroyed"
        PROVE  f \in Surjection(shown, a.due[n])
    <2>1. \A k \in a.due[n] : \E i \in shown : f[i] = k
      BY <1>7 DEF Whole, shown, f
    <2>2. f \in [shown -> a.due[n]]
      BY <1>5 DEF Injection
    <2> QED
      BY <2>1, <2>2 DEF Surjection
  <1> QED
    BY <1>6, <1>7 DEF shown

(* What is due of an image is finite: itself, and its preview.             *)
LEMMA DueCount ==
    ASSUME NEW r \in Asking, NEW n \in Nat
    PROVE  /\ IsFiniteSet(Due(r, n))
           /\ Cardinality(Due(r, n)) = IF r \in Streams /\ req[r].preview THEN 2 ELSE 1
  <1>1. CASE r \in Streams /\ req[r].preview
    <2> DEFINE k == 2 * n - 1
               m == 2 * n
    <2>1. Due(r, n) = {k} \cup {m} /\ k # m
      BY <1>1 DEF Due
    <2> HIDE DEF k, m
    <2>2. IsFiniteSet({k}) /\ Cardinality({k}) = 1 /\ m \notin {k}
      BY <2>1, FS_Singleton
    <2>3. IsFiniteSet({k} \cup {m}) /\ Cardinality({k} \cup {m}) = 2
      BY <2>2, FS_AddElement
    <2> QED
      BY <1>1, <2>1, <2>3
  <1>2. CASE ~(r \in Streams /\ req[r].preview)
    <2>1. PICK k : Due(r, n) = {k}
      BY <1>2 DEF Due
    <2> QED
      BY <1>2, <2>1, FS_Singleton
  <1> QED
    BY <1>1, <1>2

(***************************************************************************)
(* However many images are asked for, by however many clients, whichever   *)
(* fail: each one that was made is sent once, or once more as its preview, *)
(* and all of them before the end, which is an error if one failed.        *)
(***************************************************************************)
THEOREM AllImagesSent == Spec => []ImagesSent
  <1>1. ImagesInv => ImagesSent
    <2> SUFFICES ASSUME ImagesInv, NEW r \in Asking, req[r].type = "images"
                 PROVE  LET own       == {i \in DOMAIN received[r] : received[r][i].of = r}
                            shown(n)  == Cardinality({i \in own : n \in received[r][i].b64})
                            wanted(n) == IF n \in images[r].failed THEN 0
                                         ELSE IF r \in Streams /\ req[r].preview THEN 2 ELSE 1
                        IN  \A n \in 1 .. req[r].n :
                                /\ shown(n) <= wanted(n)
                                /\ \A i \in own : received[r][i].status # "continue" =>
                                    /\ shown(n) = wanted(n)
                                    /\ received[r][i].status = "ok" <=> images[r].failed = {}
      BY DEF ImagesSent
    <2> DEFINE s == received[r]
               a == Account(r)
               count(n) == Cardinality({i \in {k \in 1 .. Len(s) : s[k].of = r} : n \in s[i].b64})
               wanted(n) == IF n \in images[r].failed THEN 0
                            ELSE IF r \in Streams /\ req[r].preview THEN 2 ELSE 1
    <2>1. /\ Typed /\ s \in Seq(Results) /\ DOMAIN s = 1 .. Len(s) /\ Fine(a, s) /\ Held(r)
          /\ Ended(a, s) => Whole(a, s)
          /\ \A i \in 1 .. Len(s) : s[i].status # "throws"
      BY LenProperties DEF ImagesInv, QueueInv, HandlersInv, Typed, NothingThrown
    <2>2. /\ a.of = r /\ a.made = generated[r] /\ a.n = req[r].n /\ a.failed = images[r].failed
          /\ a.due = [n \in Nat |-> Due(r, n)]
      BY DEF Account
    <2>3. req[r].n \in Nat
      BY <2>1, Asked DEF Wishes
    <2> HIDE DEF a, s
    <2>4. ASSUME NEW i \in 1 .. Len(s), s[i].of = r, s[i].status # "continue"
          PROVE  /\ a.task = "destroyed" /\ a.made = a.n /\ Whole(a, s)
                 /\ s[i].status = "ok" <=> images[r].failed = {}
      <3>1. s[i].status \in Ends
        <4>1. s[i] \in Results
          BY <2>1, ElementOfSeq
        <4> QED
          BY <2>1, <2>4, <4>1 DEF Results, Ends
      <3>2. Genuine(a, s[i]) /\ Ended(a, s)
        BY <2>1, <2>2, <2>4, <3>1 DEF Fine, Ended
      <3> QED
        BY <2>1, <2>2, <3>1, <3>2 DEF Genuine
    <2>5. ASSUME NEW n \in 1 .. req[r].n
          PROVE  /\ count(n) <= wanted(n)
                 /\ \A i \in 1 .. Len(s) : s[i].of = r /\ s[i].status # "continue" => count(n) = wanted(n)
      <3> DEFINE shown == {i \in 1 .. Len(s) : s[i].of = a.of /\ n \in s[i].b64}
      <3>1. count(n) = Cardinality(shown) /\ n \in Nat
        <4>1. {i \in {k \in 1 .. Len(s) : s[k].of = r} : n \in s[i].b64} = shown
          BY <2>2
        <4>2. count(n) = Cardinality(shown)
          BY <4>1, Zenon
        <4>3. n \in Nat
          BY <2>3
        <4> QED
          BY <4>2, <4>3
      <3> HIDE DEF count
      <3>2. CASE n \in Rendering(a)
        <4>1. IsFiniteSet(a.due[n]) /\ Cardinality(a.due[n]) = wanted(n)
          <5>1. a.due[n] = Due(r, n) /\ n \notin images[r].failed
            BY <2>2, <3>1, <3>2 DEF Rendering
          <5> QED
            BY <3>1, <5>1, DueCount
        <4> HIDE DEF wanted
        <4>2. /\ Cardinality(shown) <= Cardinality(a.due[n])
              /\ Whole(a, s) /\ a.task = "destroyed" => Cardinality(shown) = Cardinality(a.due[n])
          BY <2>1, <3>2, <4>1, Counted
        <4> HIDE DEF shown
        <4>3. count(n) <= wanted(n)
          BY <3>1, <4>1, <4>2
        <4>4. ASSUME NEW i \in 1 .. Len(s), s[i].of = r, s[i].status # "continue"
              PROVE  count(n) = wanted(n)
          BY <2>4, <3>1, <4>1, <4>2, <4>4
        <4> QED
          BY <4>3, <4>4
      <3>3. CASE n \notin Rendering(a)
        <4>1. shown = {}
          BY <2>1, <3>3 DEF Fine, Genuine
        <4>2. count(n) = 0
          BY <3>1, <4>1, FS_EmptySet
        <4>3. ASSUME NEW i \in 1 .. Len(s), s[i].of = r, s[i].status # "continue"
              PROVE  wanted(n) = 0
          <5>1. a.made = a.n
            BY <2>4, <4>3
          <5>2. n \in images[r].failed
            BY <2>2, <3>3, <5>1 DEF Rendering
          <5> QED
            BY <5>2
        <4>4. wanted(n) >= 0
          OBVIOUS
        <4> HIDE DEF wanted
        <4> QED
          BY <4>2, <4>3, <4>4
      <3> QED
        BY <3>2, <3>3
    <2>6. \A n \in 1 .. req[r].n : \A i \in 1 .. Len(s) : s[i].of = r /\ s[i].status # "continue" =>
              (s[i].status = "ok" <=> images[r].failed = {})
      BY <2>4
    <2>7. DOMAIN s = 1 .. Len(s)
      BY <2>1
    <2> QED
      BY <2>5, <2>6, <2>7 DEF s
  <1>2. Spec => []ImagesInv
    BY ImagesInit, ImagesStep, PTL DEF Spec
  <1> QED
    BY <1>1, <1>2, PTL
=============================================================================
