------------------------ MODULE GeneratedTextProofs ------------------------
(***************************************************************************)
(* What a client is sent of a generated text, for every vocabulary, every  *)
(* number of tokens that a draft brings along, and every budget.           *)
(***************************************************************************)
EXTENDS GeneratedText, SharedFacts

Words == DOMAIN Piece

Txt == Seq(Symbols)

Finishes == {"", "stop", "length", "tool_calls"}

Task ==
    [todo : Seq(Words), round : Nat, budget : Int, text : Txt, offsets : Seq(Int), keep : Int,
     reasoning_text : Txt, started : BOOLEAN, ended : BOOLEAN, reasoned : BOOLEAN, pending : BOOLEAN,
     end_round : Int, tool_started : BOOLEAN, calls : Nat, finish : Finishes, new : Txt, eog : BOOLEAN,
     halted : BOOLEAN, send : BOOLEAN]

Client == [content : Txt, reasoning : Txt, calls : Nat, finish : Finishes, chunks : Seq(Txt)]

LEMMA PieceTyped ==
    ASSUME NEW p \in Words
    PROVE  Piece[p] \in Txt
  <1>1. Piece[p] \in Seq(ToSet(Piece[p]))
    BY TextAssumption DEF IsText, Words
  <1> DEFINE A == ToSet(Piece[p])
  <1>2. A \subseteq Symbols
    BY DEF ToSet, Symbols, Words
  <1> HIDE DEF A
  <1> QED
    BY <1>1, <1>2, SeqMonotonic DEF A, Txt

LEMMA TextJoins ==
    ASSUME NEW a \in Txt, NEW b \in Txt
    PROVE  a \o b \in Txt /\ Len(a \o b) = Len(a) + Len(b) /\ Len(a) \in Nat /\ Len(b) \in Nat
  BY DEF Txt

LEMMA TextAssociative ==
    ASSUME NEW a \in Txt, NEW b \in Txt, NEW c \in Txt
    PROVE  (a \o b) \o c = a \o (b \o c)
  BY ConcatAssociative DEF Txt

LEMMA WordsAssociative ==
    ASSUME NEW a \in Seq(Words), NEW b \in Seq(Words), NEW c \in Seq(Words)
    PROVE  (a \o b) \o c = a \o (b \o c)
  BY ConcatAssociative

LEMMA NoText == <<>> \in Txt
  BY DEF Txt

LEMMA NotNpos == \A n \in Nat : n # Npos /\ n \in Int /\ n >= n
  BY DEF Npos

LEMMA TaskParts ==
    ASSUME NEW t \in Task
    PROVE  /\ t.text \in Txt /\ t.new \in Txt /\ t.reasoning_text \in Txt
           /\ Len(t.text) \in Nat /\ Len(t.new) \in Nat /\ t.finish \in Finishes
  <1>1. t.text \in Txt /\ t.new \in Txt /\ t.reasoning_text \in Txt /\ t.finish \in Finishes
    BY DEF Task
  <1>2. \A x \in Txt : Len(x) \in Nat
    BY DEF Txt
  <1> QED
    BY <1>1, <1>2

LEMMA ClientParts ==
    ASSUME NEW c \in Client
    PROVE  c.content \in Txt /\ c.reasoning \in Txt /\ c.chunks \in Seq(Txt)
  BY DEF Client

-----------------------------------------------------------------------------
(* Tokens become text.                                                     *)

LEMMA EmitIs ==
    ASSUME NEW t \in Task, NEW piece \in Txt
    PROVE  /\ Emit(t, piece) \in Task
           /\ \E offsets \in Seq(Int) :
                  Emit(t, piece) = [t EXCEPT !.text = t.text \o piece, !.new = t.new \o piece, !.offsets = offsets]
  <1>1. t.text \in Txt /\ t.new \in Txt /\ t.offsets \in Seq(Int)
    BY DEF Task
  <1>2. t.text \o piece \in Txt /\ t.new \o piece \in Txt /\ Len(t.text) + Len(piece) \in Int
    <2>1. t.text \o piece \in Txt /\ Len(t.text) \in Nat /\ Len(piece) \in Nat
      BY <1>1, TextJoins
    <2>2. t.new \o piece \in Txt
      BY <1>1, TextJoins
    <2> QED
      BY <2>1, <2>2
  <1>3. CASE piece = <<>>
    <2>1. t.text \o piece = t.text /\ t.new \o piece = t.new
      BY <1>1, <1>3, ConcatEmptySeq DEF Txt
    <2>2. t = [t EXCEPT !.text = t.text, !.new = t.new, !.offsets = t.offsets]
      BY DEF Task
    <2> QED
      BY <1>1, <1>3, <2>1, <2>2 DEF Emit
  <1>4. CASE piece # <<>>
    <2> DEFINE offsets == Append(t.offsets, Len(t.text) + Len(piece))
    <2>1. offsets \in Seq(Int)
      BY <1>1, <1>2
    <2>2. Emit(t, piece) = [t EXCEPT !.text = t.text \o piece, !.new = t.new \o piece, !.offsets = offsets]
      BY <1>4 DEF Emit
    <2> HIDE DEF offsets
    <2>3. Emit(t, piece) \in Task
      BY <1>2, <2>1, <2>2 DEF Task
    <2> QED
      BY <2>1, <2>2, <2>3
  <1> QED
    BY <1>3, <1>4

LEMMA DetokenizeTyped ==
    ASSUME mode \in Modes, NEW t \in Task, NEW tok \in Words
    PROVE  Detokenize(t, tok) \in Task
  <1> DEFINE piece == Piece[tok]
  <1>1. piece \in Txt
    BY PieceTyped
  <1> HIDE DEF piece
  <1>2. [t EXCEPT !.todo = Append(@, tok)] \in Task /\ [t EXCEPT !.eog = TRUE] \in Task
        /\ [t EXCEPT !.halted = TRUE, !.todo = Append(@, tok)] \in Task
    <2>1. Append(t.todo, tok) \in Seq(Words)
      BY DEF Task
    <2> DEFINE todo == Append(t.todo, tok)
    <2> HIDE DEF todo
    <2>2. [t EXCEPT !.todo = todo] \in Task
      BY <2>1 DEF Task, todo
    <2>3. [t EXCEPT !.halted = TRUE, !.todo = todo] \in Task
      BY <2>1 DEF Task, todo
    <2>4. [t EXCEPT !.eog = TRUE] \in Task
      BY DEF Task
    <2> QED
      BY <2>2, <2>3, <2>4 DEF todo
  <1>3. AfterReasoning(t, tok) \in Task
    <2> DEFINE keeps == ~mode.stream /\ ~mode.in_content
               u == [Cleared(t) EXCEPT !.pending = FALSE, !.reasoned = TRUE,
                                       !.reasoning_text = IF keeps THEN t.text ELSE @]
    <2> DEFINE kept == IF keeps THEN t.text ELSE t.reasoning_text
    <2>1. u \in Task
      <3>1. kept \in Txt
        BY DEF Task
      <3>2. u = [t EXCEPT !.text = <<>>, !.offsets = <<>>, !.pending = FALSE, !.reasoned = TRUE,
                          !.reasoning_text = kept]
        BY DEF Cleared, Task
      <3>3. <<>> \in Seq(Int)
        OBVIOUS
      <3> HIDE DEF u, kept
      <3> QED
        BY <3>1, <3>2, <3>3, NoText DEF Task
    <2> HIDE DEF u
    <2>2. Emit(u, piece) \in Task
      BY <1>1, <2>1, EmitIs
    <2> QED
      BY <1>2, <2>2 DEF AfterReasoning, u, piece
  <1>4. EndsByToken(t, tok) \in Task
    <2> DEFINE u == [t EXCEPT !.ended = TRUE]
    <2>1. u \in Task
      BY DEF Task
    <2>3. [t EXCEPT !.ended = TRUE, !.pending = TRUE, !.end_round = t.round] \in Task
      <3> DEFINE round == t.round
      <3>1. round \in Int
        BY DEF Task
      <3> HIDE DEF round
      <3>2. [t EXCEPT !.ended = TRUE, !.pending = TRUE, !.end_round = round] \in Task
        BY <3>1 DEF Task
      <3> QED
        BY <3>2 DEF round
    <2> HIDE DEF u
    <2>2. Emit(u, piece) \in Task /\ Emit(t, piece) \in Task
      BY <1>1, <2>1, EmitIs
    <2> QED
      BY <2>1, <2>2, <2>3 DEF EndsByToken, u, piece
  <1>5. StartsByToken(t, tok) \in Task
    <2> DEFINE u == [t EXCEPT !.started = TRUE]
               v == [t EXCEPT !.reasoned = TRUE]
    <2>1. u \in Task /\ v \in Task
      BY DEF Task
    <2> HIDE DEF u, v
    <2>2. Emit(u, piece) \in Task /\ Emit(v, piece) \in Task
      BY <1>1, <2>1, EmitIs
    <2> QED
      BY <2>1, <2>2 DEF StartsByToken, u, v, piece
  <1>6. Emit(t, piece) \in Task
    BY <1>1, EmitIs
  <1> QED
    BY <1>2, <1>3, <1>4, <1>5, <1>6 DEF Detokenize, piece

(* f[k] is the task after k of the tokens.                                 *)
Detokenizes(tokens, begun, f) ==
    f \in [0 .. Len(tokens) -> Task] /\ f[0] = begun /\ \A k \in 1 .. Len(tokens) : f[k] = Detokenize(f[k - 1], tokens[k])

IsDetokenized(tokens, begun, f) ==
    f = [k \in 0 .. Len(tokens) |-> IF k = 0 THEN begun ELSE Detokenize(f[k - 1], tokens[k])]

LEMMA SomeDetokenizes ==
    ASSUME mode \in Modes, NEW tokens \in Seq(Words), NEW begun \in Task
    PROVE  \E f : IsDetokenized(tokens, begun, f) /\ Detokenizes(tokens, begun, f)
  <1> DEFINE N == Len(tokens)
             step == [x \in (1 .. N) \X Task |-> Detokenize(x[2], tokens[x[1]])]
  <1>1. N \in Nat /\ \A k \in 1 .. N : tokens[k] \in Words
    OBVIOUS
  <1>2. AreSteps(N, Task, step)
    <2>1. ASSUME NEW x \in (1 .. N) \X Task PROVE Detokenize(x[2], tokens[x[1]]) \in Task
      <3>1. x[2] \in Task /\ tokens[x[1]] \in Words
        BY <1>1
      <3> QED
        BY <3>1, DetokenizeTyped
    <2> HIDE DEF N
    <2> QED
      BY <2>1 DEF AreSteps
  <1> HIDE DEF N, step
  <1>3. PICK f : Follows(N, Task, begun, step, f)
    BY <1>1, <1>2, Recursion
  <1>4. f \in [0 .. N -> Task] /\ f[0] = begun /\ \A k \in 1 .. N : f[k] = step[<<k, f[k - 1]>>]
    BY <1>3 DEF Follows
  <1>5. ASSUME NEW k \in 1 .. N PROVE f[k] = Detokenize(f[k - 1], tokens[k])
    <2> DEFINE t == f[k - 1]
    <2>1. k - 1 \in 0 .. N
      BY <1>1
    <2>2. t \in Task /\ f[k] = step[<<k, t>>]
      BY <1>4, <2>1
    <2> HIDE DEF t
    <2>3. <<k, t>> \in (1 .. N) \X Task
      BY <2>2
    <2>4. step[<<k, t>>] = Detokenize(t, tokens[k])
      BY <2>3 DEF step
    <2> QED
      BY <2>2, <2>4 DEF t
  <1>6. Detokenizes(tokens, begun, f)
    BY <1>4, <1>5 DEF Detokenizes, N
  <1>7. f = [k \in 0 .. N |-> f[k]]
    BY <1>4
  <1>8. \A k \in 0 .. N : f[k] = IF k = 0 THEN begun ELSE Detokenize(f[k - 1], tokens[k])
    BY <1>1, <1>4, <1>5
  <1>9. IsDetokenized(tokens, begun, f)
    BY <1>7, <1>8 DEF IsDetokenized, N
  <1> QED
    BY <1>6, <1>9

Begun(t, batch) ==
    [t EXCEPT !.round = @ + 1, !.budget = @ - Len(batch), !.todo = <<>>, !.new = <<>>, !.halted = FALSE]

LEMMA DetokenizedIs ==
    ASSUME mode \in Modes, NEW t \in Task, NEW batch \in Seq(Words)
    PROVE  /\ Begun(t, batch) \in Task
           /\ \E f : /\ Detokenizes(t.todo \o batch, Begun(t, batch), f)
                     /\ Detokenized(t, batch) = [f[Len(t.todo \o batch)] EXCEPT !.send = Whole(f[Len(t.todo \o batch)].text)]
  <1> DEFINE tokens == t.todo \o batch
             begun == Begun(t, batch)
             f == CHOOSE g : IsDetokenized(tokens, begun, g)
  <1>1. t.todo \in Seq(Words) /\ Len(batch) \in Nat
    BY DEF Task
  <1>2. tokens \in Seq(Words) /\ Len(tokens) \in Nat
    BY <1>1
  <1>3. begun \in Task
    <2> DEFINE round == t.round + 1
               budget == t.budget - Len(batch)
    <2>1. round \in Nat /\ budget \in Int
      BY <1>1 DEF Task
    <2>2. begun = [t EXCEPT !.round = round, !.budget = budget, !.todo = <<>>, !.new = <<>>, !.halted = FALSE]
      BY DEF Begun, Task
    <2>3. <<>> \in Seq(Words)
      OBVIOUS
    <2> HIDE DEF round, budget, begun
    <2> QED
      BY <2>1, <2>2, <2>3, NoText DEF Task
  <1>4. Detokenized(t, batch) = [f[Len(tokens)] EXCEPT !.send = Whole(f[Len(tokens)].text)]
    BY DEF Detokenized, IsDetokenized, Begun
  <1> HIDE DEF tokens, begun
  <1>5. IsDetokenized(tokens, begun, f)
    BY <1>2, <1>3, SomeDetokenizes
  <1> HIDE DEF f
  <1>6. Detokenizes(tokens, begun, f)
    <2>1. PICK g : IsDetokenized(tokens, begun, g) /\ Detokenizes(tokens, begun, g)
      BY <1>2, <1>3, SomeDetokenizes
    <2> DEFINE Same == {k \in Nat : k <= Len(tokens) => f[k] = g[k]}
    <2>2. \A k \in 0 .. Len(tokens) : /\ f[k] = IF k = 0 THEN begun ELSE Detokenize(f[k - 1], tokens[k])
                                      /\ g[k] = IF k = 0 THEN begun ELSE Detokenize(g[k - 1], tokens[k])
      BY <1>5, <2>1 DEF IsDetokenized
    <2>3. 0 \in Same
      BY <1>2, <2>2
    <2>4. ASSUME NEW k \in Nat, k \in Same PROVE k + 1 \in Same
      <3> SUFFICES ASSUME k + 1 <= Len(tokens) PROVE f[k + 1] = g[k + 1]
        OBVIOUS
      <3>1. f[k] = g[k] /\ k + 1 \in 0 .. Len(tokens) /\ k + 1 # 0 /\ (k + 1) - 1 = k
        BY <1>2, <2>4
      <3> QED
        BY <2>2, <3>1
    <2>5. \A k \in Nat : k \in Same
      <3> HIDE DEF Same
      <3> QED
        BY <2>3, <2>4, EveryNumber
    <2>6. f = [k \in 0 .. Len(tokens) |-> f[k]] /\ g = [k \in 0 .. Len(tokens) |-> g[k]]
      BY <1>5, <2>1 DEF IsDetokenized
    <2>7. \A k \in 0 .. Len(tokens) : f[k] = g[k]
      BY <1>2, <2>5
    <2>8. f = g
      BY <2>6, <2>7
    <2> QED
      BY <2>1, <2>8
  <1> QED
    BY <1>3, <1>4, <1>6 DEF tokens, begun

-----------------------------------------------------------------------------
(* What tokens say.                                                        *)

Pieces(tokens) == [k \in DOMAIN tokens |-> Piece[tokens[k]]]

LEMMA PiecesTyped ==
    ASSUME NEW tokens \in Seq(Words)
    PROVE  /\ Pieces(tokens) \in Seq(Txt) /\ Len(Pieces(tokens)) = Len(tokens) /\ Len(tokens) \in Nat
           /\ \A k \in 1 .. Len(tokens) : Pieces(tokens)[k] = Piece[tokens[k]]
  <1>1. DOMAIN tokens = 1 .. Len(tokens) /\ Len(tokens) \in Nat /\ \A k \in 1 .. Len(tokens) : tokens[k] \in Words
    OBVIOUS
  <1>2. \A k \in 1 .. Len(tokens) : Piece[tokens[k]] \in Txt
    BY <1>1, PieceTyped
  <1>3. Pieces(tokens) = [k \in 1 .. Len(tokens) |-> Piece[tokens[k]]]
    BY <1>1 DEF Pieces
  <1> QED
    BY <1>1, <1>2, <1>3

LEMMA TextIs ==
    ASSUME NEW tokens \in Seq(Words)
    PROVE  Text(tokens) \in Txt /\ Text(tokens) = FlattenSeq(Pieces(tokens)) /\ Text(<<>>) = <<>>
  <1>1. Text(tokens) = FlattenSeq(Pieces(tokens))
    BY DEF Text, Pieces
  <1>2. FlattenSeq(Pieces(tokens)) \in Txt
    BY PiecesTyped, FlattenTyped DEF Txt
  <1>3. Pieces(<<>>) = <<>>
    <2>1. <<>> \in Seq(Words) /\ Len(<<>>) = 0
      OBVIOUS
    <2>2. Pieces(<<>>) \in Seq(Txt) /\ Len(Pieces(<<>>)) = 0
      BY <2>1, PiecesTyped
    <2> QED
      BY <2>2
  <1>4. Text(<<>>) = <<>>
    BY <1>3, FlattenNone DEF Text, Pieces
  <1> QED
    BY <1>1, <1>2, <1>4

LEMMA TextConcat ==
    ASSUME NEW a \in Seq(Words), NEW b \in Seq(Words)
    PROVE  Text(a \o b) = Text(a) \o Text(b)
  <1> DEFINE q == a \o b
             p == Pieces(a)
             r == Pieces(b)
             s == Pieces(q)
  <1>1. /\ q \in Seq(Words) /\ Len(q) = Len(a) + Len(b) /\ Len(a) \in Nat /\ Len(b) \in Nat
        /\ \A i \in 1 .. Len(a) : q[i] = a[i]
        /\ \A i \in 1 .. Len(b) : q[Len(a) + i] = b[i]
    BY ConcatIs
  <1> HIDE DEF q
  <1>2. /\ p \in Seq(Txt) /\ Len(p) = Len(a) /\ \A k \in 1 .. Len(a) : p[k] = Piece[a[k]]
        /\ r \in Seq(Txt) /\ Len(r) = Len(b) /\ \A k \in 1 .. Len(b) : r[k] = Piece[b[k]]
    BY PiecesTyped
  <1>3. s \in Seq(Txt) /\ Len(s) = Len(q) /\ \A k \in 1 .. Len(q) : s[k] = Piece[q[k]]
    BY <1>1, PiecesTyped
  <1> HIDE DEF p, r, s
  <1>4. /\ p \o r \in Seq(Txt) /\ Len(p \o r) = Len(p) + Len(r)
        /\ \A i \in 1 .. Len(p) : (p \o r)[i] = p[i]
        /\ \A i \in 1 .. Len(r) : (p \o r)[Len(p) + i] = r[i]
    <2>1. p \in Seq(Txt) /\ r \in Seq(Txt)
      BY <1>2
    <2> QED
      BY <2>1, ConcatIs
  <1>5. s = p \o r
    <2>1. ASSUME NEW i \in 1 .. Len(s) PROVE s[i] = (p \o r)[i]
      <3>1. CASE i <= Len(a)
        <4>1. i \in 1 .. Len(a) /\ i \in 1 .. Len(q)
          BY <1>1, <1>3, <3>1
        <4>2. s[i] = Piece[q[i]] /\ q[i] = a[i]
          BY <1>1, <1>3, <4>1
        <4>3. p[i] = Piece[a[i]] /\ (p \o r)[i] = p[i]
          BY <1>2, <1>4, <4>1
        <4> QED
          BY <4>2, <4>3
      <3>2. CASE ~ (i <= Len(a))
        <4> DEFINE j == i - Len(a)
        <4>1. j \in 1 .. Len(b) /\ i = Len(a) + j /\ i \in 1 .. Len(q)
          BY <1>1, <1>3, <3>2
        <4> HIDE DEF j
        <4>2. s[i] = Piece[q[i]] /\ q[i] = b[j] /\ r[j] = Piece[b[j]] /\ (p \o r)[i] = r[j]
          BY <1>1, <1>2, <1>3, <1>4, <4>1
        <4> QED
          BY <4>2
      <3> QED
        BY <3>1, <3>2
    <2>2. Len(s) = Len(p \o r)
      BY <1>1, <1>2, <1>3, <1>4
    <2> QED
      BY <1>3, <1>4, <2>1, <2>2, SeqEqual
  <1>6. FlattenSeq(p \o r) = FlattenSeq(p) \o FlattenSeq(r)
    BY <1>2, FlattenConcat DEF Txt
  <1>7. Text(q) = FlattenSeq(s) /\ Text(a) = FlattenSeq(p) /\ Text(b) = FlattenSeq(r)
    BY <1>1, TextIs DEF p, r, s
  <1> QED
    BY <1>5, <1>6, <1>7 DEF q

LEMMA TextOfOne ==
    ASSUME NEW tok \in Words
    PROVE  Text(<<tok>>) = Piece[tok] /\ <<tok>> \in Seq(Words)
  <1> DEFINE one == <<tok>>
  <1>1. one \in Seq(Words) /\ Len(one) = 1 /\ one[1] = tok
    OBVIOUS
  <1> HIDE DEF one
  <1>2. Pieces(one) \in Seq(Txt) /\ Len(Pieces(one)) = 1 /\ Pieces(one)[1] = Piece[tok]
    BY <1>1, PiecesTyped
  <1>3. Pieces(one) = <<Piece[tok]>>
    BY <1>2
  <1>4. FlattenSeq(<<Piece[tok]>>) = Piece[tok]
    BY PieceTyped, FlattenOne DEF Txt
  <1> QED
    BY <1>1, <1>3, <1>4, TextIs DEF one

LEMMA TextAppend ==
    ASSUME NEW tokens \in Seq(Words), NEW tok \in Words
    PROVE  /\ Append(tokens, tok) \in Seq(Words)
           /\ Text(Append(tokens, tok)) = Text(tokens) \o Piece[tok]
  <1>1. Append(tokens, tok) = tokens \o <<tok>> /\ Append(tokens, tok) \in Seq(Words)
    BY AppendIsConcat, AppendProperties
  <1>2. <<tok>> \in Seq(Words) /\ Text(<<tok>>) = Piece[tok]
    BY TextOfOne
  <1> DEFINE one == <<tok>>
  <1> HIDE DEF one
  <1>3. Text(tokens \o one) = Text(tokens) \o Text(one)
    BY <1>2, TextConcat DEF one
  <1> QED
    BY <1>1, <1>2, <1>3 DEF one

LEMMA BeforeNone ==
    ASSUME NEW S, NEW tokens \in Seq(Words \ S)
    PROVE  Before(tokens, S) = tokens
  BY DEF Before, Words

LEMMA BeforeSome ==
    ASSUME NEW S, NEW tokens \in Seq(Words \ S), NEW x \in S \cap Words, NEW rest \in Seq(Words)
    PROVE  /\ tokens \o (<<x>> \o rest) \in Seq(Words) /\ tokens \o (<<x>> \o rest) \notin Seq(Words \ S)
           /\ Before(tokens \o (<<x>> \o rest), S) = tokens
  <1> DEFINE tail == <<x>> \o rest
             q == tokens \o tail
             n == Len(tokens)
             A == {k \in DOMAIN q : q[k] \in S}
  <1>1. <<x>> \in Seq(Words) /\ Len(<<x>>) = 1 /\ tokens \in Seq(Words) /\ n \in Nat
    OBVIOUS
  <1>2. tail \in Seq(Words) /\ Len(tail) = 1 + Len(rest) /\ Len(rest) \in Nat /\ tail[1] = x
    BY <1>1, ConcatIs
  <1> HIDE DEF tail
  <1>3. /\ q \in Seq(Words) /\ Len(q) = n + Len(tail)
        /\ (\A i \in 1 .. n : q[i] = tokens[i]) /\ \A i \in 1 .. Len(tail) : q[n + i] = tail[i]
    <2>1. tokens \in Seq(Words) /\ tail \in Seq(Words)
      BY <1>1, <1>2
    <2> QED
      BY <2>1, ConcatIs
  <1> HIDE DEF q, n
  <1>4. q[n + 1] = x /\ n + 1 \in 1 .. Len(q) /\ DOMAIN q = 1 .. Len(q)
    BY <1>1, <1>2, <1>3
  <1>5. q \notin Seq(Words \ S)
    BY <1>4
  <1>6. \A i \in 1 .. n : q[i] \notin S
    BY <1>3 DEF n
  <1>7. Min(A) = n + 1
    <2>1. n + 1 \in A /\ A \subseteq Nat
      BY <1>4
    <2>2. Min(A) \in A /\ Min(A) <= n + 1
      <3> HIDE DEF A
      <3> QED
        BY <2>1, LeastOf
    <2>3. \A k \in A : ~ (k <= n)
      BY <1>4, <1>6
    <2> QED
      BY <1>1, <2>1, <2>2, <2>3
  <1>8. SubSeq(q, 1, n) = tokens
    <2>1. SubSeq(q, 1, n) \in Seq(Words) /\ Len(SubSeq(q, 1, n)) = n /\ \A i \in 1 .. n : SubSeq(q, 1, n)[i] = q[i]
      BY <1>1, <1>2, <1>3
    <2> QED
      BY <1>1, <1>3, <2>1, SeqEqual DEF n
  <1>9. Before(q, S) = SubSeq(q, 1, Min(A) - 1)
    BY <1>5 DEF Before, Words
  <1>10. Before(q, S) = tokens
    <2>1. (n + 1) - 1 = n
      BY <1>1
    <2> HIDE DEF A
    <2> QED
      BY <1>7, <1>8, <1>9, <2>1
  <1> QED
    BY <1>3, <1>5, <1>10 DEF q, tail

-----------------------------------------------------------------------------
(* Parts of a text.                                                        *)

LEMMA FirstPart ==
    ASSUME NEW T, NEW s \in Seq(T), NEW n \in 0 .. Len(s)
    PROVE  /\ SubSeq(s, 1, n) \in Seq(T) /\ Len(SubSeq(s, 1, n)) = n
           /\ \A i \in 1 .. n : SubSeq(s, 1, n)[i] = s[i]
  OBVIOUS

LEMMA RestPart ==
    ASSUME NEW T, NEW s \in Seq(T), NEW n \in 0 .. Len(s)
    PROVE  /\ SubSeq(s, n + 1, Len(s)) \in Seq(T) /\ Len(SubSeq(s, n + 1, Len(s))) = Len(s) - n
           /\ \A i \in 1 .. Len(s) - n : SubSeq(s, n + 1, Len(s))[i] = s[n + i]
           /\ SubSeq(s, 1, n) \o SubSeq(s, n + 1, Len(s)) = s
  <1> DEFINE m == Len(s)
             a == SubSeq(s, 1, n)
             b == SubSeq(s, n + 1, m)
  <1>1. m \in Nat /\ n \in Nat /\ n <= m /\ \A i \in 1 .. m : s[i] \in T
    OBVIOUS
  <1>2. a \in Seq(T) /\ Len(a) = n /\ \A i \in 1 .. n : a[i] = s[i]
    BY FirstPart
  <1>3. b \in Seq(T) /\ Len(b) = m - n /\ \A i \in 1 .. m - n : b[i] = s[n + i]
    <2>1. \A i \in n + 1 .. m : s[i] \in T
      BY <1>1
    <2>2. /\ b \in Seq(T) /\ Len(b) = (IF n + 1 <= m THEN m - (n + 1) + 1 ELSE 0)
          /\ \A i \in 1 .. m - (n + 1) + 1 : b[i] = s[n + 1 + i - 1]
      <3> HIDE DEF m
      <3> QED
        BY <1>1, <2>1, SubSeqProperties
    <2> HIDE DEF b, m
    <2>3. \A i \in 1 .. m - n : i \in 1 .. m - (n + 1) + 1 /\ n + 1 + i - 1 = n + i
      BY <1>1
    <2> QED
      BY <1>1, <2>2, <2>3
  <1> HIDE DEF a, b, m
  <1>4. /\ a \o b \in Seq(T) /\ Len(a \o b) = m
        /\ \A i \in 1 .. n : (a \o b)[i] = a[i]
        /\ \A i \in 1 .. m - n : (a \o b)[n + i] = b[i]
    <2>1. a \in Seq(T) /\ b \in Seq(T)
      BY <1>2, <1>3
    <2>2. /\ a \o b \in Seq(T) /\ Len(a \o b) = Len(a) + Len(b)
          /\ \A i \in 1 .. Len(a) : (a \o b)[i] = a[i]
          /\ \A i \in 1 .. Len(b) : (a \o b)[Len(a) + i] = b[i]
      BY <2>1, ConcatIs
    <2> QED
      BY <1>1, <1>2, <1>3, <2>2
  <1>5. a \o b = s
    <2>1. ASSUME NEW i \in 1 .. m PROVE (a \o b)[i] = s[i]
      <3>1. CASE i <= n
        BY <1>1, <1>2, <1>4, <3>1
      <3>2. CASE ~ (i <= n)
        <4> DEFINE j == i - n
        <4>1. j \in 1 .. m - n /\ n + j = i
          BY <1>1, <3>2
        <4> HIDE DEF j
        <4>2. (a \o b)[n + j] = b[j] /\ b[j] = s[n + j]
          BY <1>3, <1>4, <4>1
        <4> QED
          BY <4>1, <4>2
      <3> QED
        BY <3>1, <3>2
    <2> QED
      BY <1>1, <1>4, <2>1, SeqEqual DEF m
  <1> QED
    BY <1>3, <1>5 DEF a, b, m

LEMMA MinOf ==
    ASSUME NEW a \in Int, NEW b \in Int
    PROVE  Min({a, b}) = IF a <= b THEN a ELSE b
  BY SmallerOf

(* substr and what is behind it.                                           *)
LEMMA SubStrIs ==
    ASSUME NEW T, NEW s \in Seq(T), NEW n \in Nat
    PROVE  /\ SubStr(s, 0, n) = SubSeq(s, 1, IF n <= Len(s) THEN n ELSE Len(s))
           /\ SubStr(s, 0, n) \in Seq(T)
           /\ n >= Len(s) => SubStr(s, 0, n) = s
           /\ n <= Len(s) => SubStr(s, n, Len(s)) = SubSeq(s, n + 1, Len(s))
  <1>1. Len(s) \in Nat /\ 0 + n = n /\ 0 + 1 = 1
    OBVIOUS
  <1>2. Min({0 + n, Len(s)}) = IF n <= Len(s) THEN n ELSE Len(s)
    BY <1>1, MinOf
  <1>3. SubStr(s, 0, n) = SubSeq(s, 1, IF n <= Len(s) THEN n ELSE Len(s))
    BY <1>1, <1>2 DEF SubStr
  <1>4. SubStr(s, 0, n) \in Seq(T)
    BY <1>1, <1>3
  <1>5. n >= Len(s) => SubStr(s, 0, n) = s
    BY <1>1, <1>3
  <1>6. ASSUME n <= Len(s) PROVE SubStr(s, n, Len(s)) = SubSeq(s, n + 1, Len(s))
    <2>1. n + Len(s) \in Int /\ Len(s) <= n + Len(s)
      BY <1>1
    <2>2. Min({n + Len(s), Len(s)}) = Len(s)
      BY <1>1, <2>1, MinOf
    <2> QED
      BY <2>2 DEF SubStr
  <1> QED
    BY <1>3, <1>4, <1>5, <1>6

-----------------------------------------------------------------------------
(* A response takes a beginning of the text, and leaves the rest.          *)

Reasons(t) == mode.chat /\ ~mode.in_content /\ ~t.reasoned

Takes(t, c, keep, r, sends, left) ==
    /\ t.text = sends \o left
    /\ keep = Npos => left = <<>>
    /\ keep # Npos => keep \in Nat /\ sends = SubStr(t.text, 0, keep)
    /\ r.task = [t EXCEPT !.text = IF mode.stream THEN left ELSE t.text,
                          !.calls = IF mode.stream THEN 0 ELSE t.calls, !.keep = Npos]
    /\ r.task \in Task
    /\ r.client = [content |-> c.content \o (IF Reasons(t) THEN <<>> ELSE sends),
                   reasoning |-> c.reasoning \o (IF Reasons(t) THEN sends
                                                 ELSE IF mode.chat THEN t.reasoning_text ELSE <<>>),
                   calls |-> c.calls + t.calls, finish |-> t.finish, chunks |-> Append(c.chunks, sends)]
    /\ r.client \in Client
    /\ r = [task |-> r.task, client |-> r.client]

(* What a response changes and keeps.                                      *)
SameTask(t, u) ==
    /\ u.keep = Npos /\ u.finish = t.finish /\ u.eog = t.eog /\ u.reasoned = t.reasoned /\ u.todo = t.todo
    /\ u.started = t.started /\ u.ended = t.ended /\ u.pending = t.pending /\ u.end_round = t.end_round
    /\ u.round = t.round /\ u.reasoning_text = t.reasoning_text /\ u.halted = t.halted

Taken(t, c, r, sends, left) ==
    /\ r.client.content = c.content \o (IF Reasons(t) THEN <<>> ELSE sends)
    /\ r.client.reasoning = c.reasoning \o (IF Reasons(t) THEN sends ELSE IF mode.chat THEN t.reasoning_text ELSE <<>>)
    /\ r.task.text = (IF mode.stream THEN left ELSE t.text) /\ SameTask(t, r.task)

LEMMA TakesIs ==
    ASSUME NEW t \in Task, NEW c, NEW keep, NEW r, NEW sends, NEW left, Takes(t, c, keep, r, sends, left)
    PROVE  Taken(t, c, r, sends, left)
  <1> DEFINE x == c.content \o (IF Reasons(t) THEN <<>> ELSE sends)
             y == c.reasoning \o (IF Reasons(t) THEN sends ELSE IF mode.chat THEN t.reasoning_text ELSE <<>>)
             z == Append(c.chunks, sends)
             text == IF mode.stream THEN left ELSE t.text
             n == IF mode.stream THEN 0 ELSE t.calls
  <1>1. r.client = [content |-> x, reasoning |-> y, calls |-> c.calls + t.calls, finish |-> t.finish, chunks |-> z]
    BY DEF Takes
  <1>2. r.task = [t EXCEPT !.text = text, !.calls = n, !.keep = Npos]
    BY DEF Takes
  <1> HIDE DEF x, y, z, text, n
  <1>3. r.client.content = x /\ r.client.reasoning = y
    <2> DEFINE d == r.client
    <2>1. d = [content |-> x, reasoning |-> y, calls |-> c.calls + t.calls, finish |-> t.finish, chunks |-> z]
      BY <1>1
    <2> HIDE DEF d
    <2>2. d.content = x /\ d.reasoning = y
      BY <2>1
    <2> QED
      BY <2>2 DEF d
  <1>4. r.task.text = text /\ SameTask(t, r.task)
    <2> DEFINE u == r.task
    <2>1. u = [t EXCEPT !.text = text, !.calls = n, !.keep = Npos]
      BY <1>2
    <2> HIDE DEF u
    <2>2. u.text = text /\ SameTask(t, u)
      BY <2>1 DEF Task, SameTask
    <2> QED
      BY <2>2 DEF u
  <1> QED
    BY <1>3, <1>4 DEF x, y, text, Taken

LEMMA JsonIs ==
    ASSUME mode \in Modes, NEW t \in Task, NEW c \in Client, NEW length \in Int, t.keep = Npos \/ t.keep \in Nat
    PROVE  \E sends \in Txt, left \in Txt :
               Takes(t, c, KeptBy(t, length), to_json([task |-> t, client |-> c], length), sends, left)
  <1> DEFINE s == [task |-> t, client |-> c]
             text == t.text
             keep == KeptBy(t, length)
             sends == IF keep = Npos THEN text ELSE SubStr(text, 0, keep)
             left == IF keep = Npos THEN <<>> ELSE SubStr(text, Len(sends), Len(text))
  <1>1. /\ text \in Txt /\ Len(text) \in Nat /\ t.reasoning_text \in Txt /\ t.calls \in Nat /\ t.finish \in Finishes
        /\ c.content \in Txt /\ c.reasoning \in Txt /\ c.calls \in Nat /\ c.chunks \in Seq(Txt)
    BY DEF Task, Client, Txt
  <1>2. keep = Npos \/ keep \in Nat
    <2>1. Min({length, Len(text)}) = IF length <= Len(text) THEN length ELSE Len(text)
      BY <1>1, MinOf
    <2> DEFINE end == Min({length, Len(text)})
    <2>2. length > 0 => end \in Nat
      BY <1>1, <2>1
    <2>3. keep = IF length > 0 /\ (t.keep = Npos \/ end < t.keep) THEN end ELSE t.keep
      BY DEF KeptBy
    <2> HIDE DEF end, keep
    <2> QED
      BY <2>2, <2>3
  <1>3. sends \in Txt /\ left \in Txt /\ text = sends \o left
    <2>1. CASE keep = Npos
      <3>1. text \o <<>> = text
        BY <1>1, ConcatEmptySeq DEF Txt
      <3> QED
        BY <1>1, <2>1, <3>1, NoText
    <2>2. CASE keep # Npos
      <3> DEFINE n == IF keep <= Len(text) THEN keep ELSE Len(text)
      <3>1. keep \in Nat /\ n \in 0 .. Len(text) /\ n \in Nat /\ n <= Len(text)
        BY <1>1, <1>2, <2>2
      <3> HIDE DEF keep
      <3>2. sends = SubSeq(text, 1, n)
        BY <1>1, <2>2, <3>1, SubStrIs DEF Txt
      <3> HIDE DEF n, text
      <3>3. sends \in Txt /\ Len(sends) = n
        BY <1>1, <3>1, <3>2, FirstPart DEF Txt
      <3>4. left = SubSeq(text, n + 1, Len(text))
        <4>1. left = SubStr(text, Len(sends), Len(text))
          BY <2>2
        <4>2. left = SubStr(text, n, Len(text))
          BY <3>3, <4>1
        <4> HIDE DEF left, sends
        <4> QED
          BY <1>1, <3>1, <4>2, SubStrIs DEF Txt
      <3>5. left \in Txt /\ sends \o left = text
        <4> HIDE DEF left, sends
        <4> QED
          BY <1>1, <3>1, <3>2, <3>4, RestPart DEF Txt
      <3> QED
        BY <3>3, <3>5
    <2> QED
      BY <2>1, <2>2
  <1> DEFINE u == [t EXCEPT !.text = IF mode.stream THEN left ELSE text,
                            !.calls = IF mode.stream THEN 0 ELSE t.calls, !.keep = Npos]
             d == [content |-> c.content \o (IF Reasons(t) THEN <<>> ELSE sends),
                   reasoning |-> c.reasoning \o (IF Reasons(t) THEN sends
                                                 ELSE IF mode.chat THEN t.reasoning_text ELSE <<>>),
                   calls |-> c.calls + t.calls, finish |-> t.finish, chunks |-> Append(c.chunks, sends)]
  <1>4. to_json(s, length) = [task |-> u, client |-> d]
    <2>1. t = s.task /\ c = s.client
      OBVIOUS
    <2> HIDE DEF s
    <2>2. to_json(s, length) = [task |-> [t EXCEPT !.text = IF mode.stream THEN left ELSE @,
                                          !.calls = IF mode.stream THEN 0 ELSE @, !.keep = Npos], client |-> d]
      BY <2>1 DEF to_json, Reasons
    <2>3. [t EXCEPT !.text = IF mode.stream THEN left ELSE @, !.calls = IF mode.stream THEN 0 ELSE @, !.keep = Npos] = u
      BY DEF Task
    <2> QED
      BY <2>2, <2>3
  <1>5. u \in Task
    <2> DEFINE x == IF mode.stream THEN left ELSE text
               n == IF mode.stream THEN 0 ELSE t.calls
    <2>1. x \in Txt /\ n \in Nat /\ Npos \in Int
      BY <1>1, <1>3 DEF Npos
    <2>2. u = [t EXCEPT !.text = x, !.calls = n, !.keep = Npos]
      OBVIOUS
    <2> HIDE DEF x, n, u
    <2> QED
      BY <2>1, <2>2 DEF Task
  <1>6. d \in Client
    <2> DEFINE x == IF Reasons(t) THEN <<>> ELSE sends
               y == IF Reasons(t) THEN sends ELSE IF mode.chat THEN t.reasoning_text ELSE <<>>
    <2>1. x \in Txt /\ y \in Txt /\ sends \in Txt
      BY <1>1, <1>3, NoText
    <2>2. d = [content |-> c.content \o x, reasoning |-> c.reasoning \o y, calls |-> c.calls + t.calls,
               finish |-> t.finish, chunks |-> Append(c.chunks, sends)]
      OBVIOUS
    <2> HIDE DEF x, y, d, sends
    <2>3. c.content \o x \in Txt
      BY <1>1, <2>1, TextJoins
    <2>4. c.reasoning \o y \in Txt
      BY <1>1, <2>1, TextJoins
    <2>5. Append(c.chunks, sends) \in Seq(Txt) /\ c.calls + t.calls \in Nat
      BY <1>1, <2>1
    <2> QED
      BY <1>1, <2>2, <2>3, <2>4, <2>5 DEF Client
  <1>7. /\ keep = Npos => left = <<>>
        /\ keep # Npos => keep \in Nat /\ sends = SubStr(text, 0, keep)
    BY <1>2
  <1> DEFINE r == to_json(s, length)
  <1>8. r.task = u /\ r.client = d /\ r = [task |-> u, client |-> d]
    <2> HIDE DEF u, d, s
    <2> QED
      BY <1>4
  <1>9. r.task = u /\ r.task \in Task /\ r.client = d /\ r.client \in Client /\ r = [task |-> r.task, client |-> r.client]
    <2> HIDE DEF u, d, r
    <2> QED
      BY <1>5, <1>6, <1>8
  <1>10. Takes(t, c, keep, r, sends, left)
    <2> HIDE DEF sends, left, keep, r
    <2> QED
      BY <1>3, <1>7, <1>9 DEF Takes
  <1> HIDE DEF sends, left
  <1> QED
    BY <1>3, <1>10


-----------------------------------------------------------------------------
(* A round in which every piece is emitted: outside of reasoning, or when  *)
(* words and not tokens would end it.                                      *)

Emits(t) == t.reasoned \/ (~t.ended /\ mode.reasoning = "word")

(* h is what comes before the end of the generation, if that is reached.   *)
Ends(tokens, h, e) ==
    /\ h \in Seq(Words \ {"eog"}) /\ e \in BOOLEAN
    /\ IF e THEN "eog" \in Words /\ \E rest \in Seq(Words) : tokens = h \o (<<"eog">> \o rest) ELSE tokens = h

LEMMA EndsTyped ==
    ASSUME NEW tokens, NEW h, NEW e, Ends(tokens, h, e)
    PROVE  h \in Seq(Words) /\ Text(h) \in Txt
  <1>1. h \in Seq(Words)
    <2>1. h \in Seq(Words \ {"eog"}) /\ Words \ {"eog"} \subseteq Words
      BY DEF Ends
    <2> QED
      BY <2>1, SeqMonotonic
  <1> QED
    BY <1>1, TextIs

Emitted(t, g, h, e, offsets) ==
    g = [t EXCEPT !.text = t.text \o Text(h), !.new = Text(h), !.offsets = offsets, !.eog = e]

Heard(t, g, tokens) ==
    \E h, e : \E offsets \in Seq(Int) : Ends(tokens, h, e) /\ Emitted(t, g, h, e, offsets)

LEMMA HeardMore ==
    ASSUME mode \in Modes, NEW t \in Task, ~t.halted, Emits(t), NEW g \in Task, NEW tokens \in Seq(Words),
           Heard(t, g, tokens), NEW tok \in Words
    PROVE  Heard(t, Detokenize(g, tok), Append(tokens, tok))
  <1>1. PICK h, e : \E offsets \in Seq(Int) : Ends(tokens, h, e) /\ Emitted(t, g, h, e, offsets)
    BY DEF Heard
  <1>2. PICK offsets \in Seq(Int) : Ends(tokens, h, e) /\ Emitted(t, g, h, e, offsets)
    BY <1>1
  <1>3. h \in Seq(Words) /\ Text(h) \in Txt /\ e \in BOOLEAN /\ t.text \in Txt
    BY <1>2, EndsTyped DEF Ends, Task
  <1>4. g.eog = e /\ ~g.halted /\ g.text = t.text \o Text(h) /\ g.new = Text(h) /\ Emits(g)
    <2>1. g.eog = e /\ g.halted = t.halted /\ g.text = t.text \o Text(h) /\ g.new = Text(h)
          /\ g.reasoned = t.reasoned /\ g.ended = t.ended
      BY <1>2 DEF Emitted, Task
    <2> QED
      BY <2>1 DEF Emits
  <1>5. CASE e
    <2>1. Detokenize(g, tok) = g
      BY <1>4, <1>5 DEF Detokenize
    <2>2. PICK rest \in Seq(Words) : tokens = h \o (<<"eog">> \o rest)
      BY <1>2, <1>5 DEF Ends
    <2>3. "eog" \in Words
      BY <1>2, <1>5 DEF Ends
    <2> DEFINE one == <<"eog">>
               new == <<tok>>
               more == rest \o new
    <2>4. one \in Seq(Words) /\ new \in Seq(Words) /\ Append(tokens, tok) = tokens \o new
      BY <2>3, AppendIsConcat
    <2> HIDE DEF one, new
    <2>5. one \o rest \in Seq(Words) /\ more \in Seq(Words) /\ (one \o rest) \o new = one \o more
      <3>1. one \o rest \in Seq(Words)
        BY <2>4, ConcatIs
      <3>2. more \in Seq(Words)
        BY <2>4, ConcatIs
      <3>3. (one \o rest) \o new = one \o (rest \o new)
        BY <2>4, WordsAssociative, ZenonT(60)
      <3> QED
        BY <3>1, <3>2, <3>3
    <2>6. (h \o (one \o rest)) \o new = h \o ((one \o rest) \o new)
      <3> DEFINE m == one \o rest
      <3>1. m \in Seq(Words) /\ h \in Seq(Words) /\ new \in Seq(Words)
        BY <1>3, <2>4, <2>5
      <3> HIDE DEF m
      <3>2. (h \o m) \o new = h \o (m \o new)
        BY <3>1, WordsAssociative, ZenonT(60)
      <3> QED
        BY <3>2 DEF m
    <2> HIDE DEF more
    <2>7. Append(tokens, tok) = h \o (one \o more)
      BY <2>2, <2>4, <2>5, <2>6 DEF one
    <2>8. Ends(Append(tokens, tok), h, e)
      BY <1>2, <1>5, <2>3, <2>5, <2>7 DEF Ends, one
    <2> QED
      BY <1>2, <2>1, <2>8 DEF Heard
  <1>6. CASE ~e /\ tok = "eog"
    <2>1. Detokenize(g, tok) = [g EXCEPT !.eog = TRUE]
      BY <1>4, <1>6 DEF Detokenize
    <2>2. Emitted(t, [g EXCEPT !.eog = TRUE], h, TRUE, offsets)
      BY <1>2 DEF Emitted, Task
    <2>3. tokens = h
      BY <1>2, <1>6 DEF Ends
    <2>4. Append(h, tok) = h \o (<<"eog">> \o <<>>)
      <3> DEFINE one == <<"eog">>
      <3>1. one \in Seq(Words)
        BY <1>6
      <3>2. Append(h, tok) = h \o one
        BY <1>3, <1>6, AppendIsConcat
      <3> HIDE DEF one
      <3>3. one \o <<>> = one
        BY <3>1, ConcatEmptySeq
      <3> QED
        BY <3>2, <3>3 DEF one
    <2>5. <<>> \in Seq(Words) /\ "eog" \in Words
      BY <1>6
    <2>6. Ends(Append(tokens, tok), h, TRUE)
      BY <1>2, <2>3, <2>4, <2>5 DEF Ends
    <2> QED
      BY <2>1, <2>2, <2>6, ZenonT(60) DEF Heard
  <1>7. CASE ~e /\ tok # "eog"
    <2> DEFINE piece == Piece[tok]
               m == Append(h, tok)
    <2>1. Detokenize(g, tok) = Emit(g, piece)
      BY <1>4, <1>7 DEF Detokenize, Emits
    <2>2. piece \in Txt
      BY PieceTyped
    <2>3. Text(m) = Text(h) \o piece /\ m \in Seq(Words)
      BY <1>3, TextAppend
    <2>4. m \in Seq(Words \ {"eog"})
      BY <1>2, <1>7 DEF Ends
    <2>5. tokens = h
      BY <1>2, <1>7 DEF Ends
    <2> HIDE DEF piece, m
    <2>6. PICK o \in Seq(Int) :
              Emit(g, piece) = [g EXCEPT !.text = g.text \o piece, !.new = g.new \o piece, !.offsets = o]
      BY <2>2, EmitIs
    <2>7. g.text \o piece = t.text \o Text(m) /\ g.new \o piece = Text(m)
      <3>1. (t.text \o Text(h)) \o piece = t.text \o (Text(h) \o piece)
        <4> DEFINE x == t.text
                   y == Text(h)
        <4>1. x \in Txt /\ y \in Txt /\ piece \in Txt
          BY <1>3, <2>2
        <4> HIDE DEF x, y
        <4>2. (x \o y) \o piece = x \o (y \o piece)
          BY <4>1, TextAssociative
        <4> QED
          BY <4>2 DEF x, y
      <3> QED
        BY <1>4, <2>3, <3>1
    <2>8. Emitted(t, Emit(g, piece), m, FALSE, o)
      <3> DEFINE x == t.text \o Text(m)
                 y == Text(m)
                 x0 == t.text \o Text(h)
                 y0 == Text(h)
      <3>1. Emit(g, piece) = [g EXCEPT !.text = x, !.new = y, !.offsets = o]
        BY <2>6, <2>7
      <3>2. g = [t EXCEPT !.text = x0, !.new = y0, !.offsets = offsets, !.eog = FALSE]
        BY <1>2, <1>3, <1>7 DEF Emitted
      <3> HIDE DEF x, y, x0, y0
      <3>3. Emit(g, piece) = [t EXCEPT !.text = x, !.new = y, !.offsets = o, !.eog = FALSE]
        BY <3>1, <3>2 DEF Task
      <3> QED
        BY <3>3 DEF Emitted, x, y
    <2>9. Ends(Append(tokens, tok), m, FALSE)
      BY <2>4, <2>5 DEF Ends, m
    <2> QED
      BY <2>1, <2>8, <2>9 DEF Heard
  <1> QED
    BY <1>3, <1>5, <1>6, <1>7

(* The task of a round before its tool calls and stop words.               *)
RoundOf(t, batch, h, e, offsets) ==
    [t EXCEPT !.round = t.round + 1, !.budget = t.budget - Len(batch), !.todo = <<>>, !.halted = FALSE,
              !.text = t.text \o Text(h), !.new = Text(h), !.offsets = offsets, !.eog = e,
              !.send = Whole(t.text \o Text(h))]

LEMMA RoundTyped ==
    ASSUME NEW t \in Task, NEW batch \in Seq(Words), NEW h, NEW e, Ends(batch, h, e), NEW offsets \in Seq(Int)
    PROVE  RoundOf(t, batch, h, e, offsets) \in Task
  <1> DEFINE round == t.round + 1
             budget == t.budget - Len(batch)
             text == t.text \o Text(h)
             send == Whole(text)
             new == Text(h)
  <1>1. t.text \in Txt /\ t.round \in Nat /\ t.budget \in Int /\ Len(batch) \in Nat
    BY DEF Task
  <1>2. new \in Txt /\ e \in BOOLEAN
    BY EndsTyped DEF Ends
  <1>3. text \in Txt
    BY <1>1, <1>2, TextJoins
  <1>4. round \in Nat /\ budget \in Int /\ send \in BOOLEAN
    BY <1>1 DEF Whole
  <1>5. <<>> \in Seq(Words)
    OBVIOUS
  <1> DEFINE u == [t EXCEPT !.round = round, !.budget = budget, !.todo = <<>>, !.halted = FALSE, !.text = text,
                            !.new = new, !.offsets = offsets, !.eog = e, !.send = send]
  <1> HIDE DEF round, budget, text, send, new
  <1>6. u \in Task
    BY <1>2, <1>3, <1>4, <1>5 DEF Task
  <1> QED
    BY <1>6 DEF RoundOf, round, budget, text, send, new

LEMMA DetokenizedAll ==
    ASSUME mode \in Modes, NEW t \in Task, NEW batch \in Seq(Words), t.todo = <<>>, ~t.eog, Emits(t)
    PROVE  \E h, e : \E offsets \in Seq(Int) :
               Ends(batch, h, e) /\ Detokenized(t, batch) = RoundOf(t, batch, h, e, offsets)
  <1> DEFINE b == Begun(t, batch)
             n == Len(batch)
  <1>1. t.todo \o batch = batch /\ n \in Nat
    <2>1. <<>> \o batch = batch
      BY ConcatEmptySeq
    <2> QED
      BY <2>1
  <1>2. b \in Task
    BY DetokenizedIs
  <1>3. PICK f : Detokenizes(batch, b, f) /\ Detokenized(t, batch) = [f[n] EXCEPT !.send = Whole(f[n].text)]
    BY <1>1, DetokenizedIs
  <1>4. f \in [0 .. n -> Task] /\ f[0] = b /\ \A k \in 1 .. n : f[k] = Detokenize(f[k - 1], batch[k])
    BY <1>3 DEF Detokenizes
  <1>5. ~b.halted /\ Emits(b) /\ b.text = t.text /\ b.new = <<>> /\ ~b.eog /\ b.offsets = t.offsets
    BY DEF Begun, Task, Emits
  <1> DEFINE Good == {k \in Nat : k <= n => Heard(b, f[k], SubSeq(batch, 1, k))}
  <1> HIDE DEF b
  <1>6. 0 \in Good
    <2>1. SubSeq(batch, 1, 0) = <<>>
      OBVIOUS
    <2>2. Ends(<<>>, <<>>, FALSE)
      BY DEF Ends
    <2>3. Emitted(b, b, <<>>, FALSE, b.offsets) /\ b.offsets \in Seq(Int)
      <3> DEFINE x == b.text \o Text(<<>>)
      <3>1. Text(<<>>) = <<>>
        <4>1. <<>> \in Seq(Words)
          OBVIOUS
        <4> QED
          BY <4>1, TextIs
      <3>2. x = b.text
        <4>1. b.text \in Txt
          BY <1>2 DEF Task
        <4> QED
          BY <3>1, <4>1, ConcatEmptySeq DEF Txt
      <3> HIDE DEF x
      <3>3. b.offsets \in Seq(Int)
        BY <1>2 DEF Task
      <3>4. b = [b EXCEPT !.text = x, !.new = <<>>, !.offsets = b.offsets, !.eog = FALSE]
        BY <1>2, <1>5, <3>2 DEF Task
      <3> QED
        BY <3>1, <3>3, <3>4 DEF Emitted, x
    <2> QED
      BY <1>1, <1>4, <2>1, <2>2, <2>3 DEF Heard
  <1>7. ASSUME NEW k \in Nat, k \in Good PROVE k + 1 \in Good
    <2> SUFFICES ASSUME k + 1 <= n PROVE Heard(b, f[k + 1], SubSeq(batch, 1, k + 1))
      OBVIOUS
    <2>1. k \in 0 .. n /\ k + 1 \in 1 .. n /\ (k + 1) - 1 = k
      BY <1>1
    <2>2. f[k] \in Task /\ f[k + 1] = Detokenize(f[k], batch[k + 1]) /\ Heard(b, f[k], SubSeq(batch, 1, k))
      BY <1>4, <1>7, <2>1
    <2>3. batch[k + 1] \in Words /\ SubSeq(batch, 1, k) \in Seq(Words)
      BY <2>1
    <2>4. SubSeq(batch, 1, k + 1) = Append(SubSeq(batch, 1, k), batch[k + 1])
      BY <2>1
    <2> DEFINE first == SubSeq(batch, 1, k)
               g == f[k]
               tok == batch[k + 1]
    <2>5. first \in Seq(Words) /\ g \in Task /\ tok \in Words /\ Heard(b, g, first)
      BY <2>2, <2>3
    <2> HIDE DEF first, g, tok, Good
    <2>6. Heard(b, Detokenize(g, tok), Append(first, tok))
      BY <1>2, <1>5, <2>5, HeardMore
    <2> QED
      BY <2>2, <2>4, <2>6 DEF first, g, tok
  <1>8. n \in Good
    <2> HIDE DEF Good
    <2> QED
      BY <1>1, <1>6, <1>7, EveryNumber
  <1>9. SubSeq(batch, 1, n) = batch
    OBVIOUS
  <1> HIDE DEF n
  <1>13. Heard(b, f[n], batch)
    <2>1. n <= n /\ SubSeq(batch, 1, n) = batch
      BY <1>1, <1>9 DEF n
    <2>2. n <= n => Heard(b, f[n], SubSeq(batch, 1, n))
      BY <1>8
    <2> QED
      BY <2>1, <2>2
  <1>10. PICK h, e : \E offsets \in Seq(Int) : Ends(batch, h, e) /\ Emitted(b, f[n], h, e, offsets)
    BY <1>13 DEF Heard
  <1>11. PICK offsets \in Seq(Int) : Ends(batch, h, e) /\ Emitted(b, f[n], h, e, offsets)
    BY <1>10
  <1>12. Detokenized(t, batch) = RoundOf(t, batch, h, e, offsets)
    <2> DEFINE round == t.round + 1
               budget == t.budget - Len(batch)
               text == t.text \o Text(h)
               send == Whole(text)
               new == Text(h)
    <2>1. b = [t EXCEPT !.round = round, !.budget = budget, !.todo = <<>>, !.new = <<>>, !.halted = FALSE]
      BY DEF b, Begun, Task
    <2>2. f[n] = [b EXCEPT !.text = text, !.new = new, !.offsets = offsets, !.eog = e]
      BY <1>5, <1>11 DEF Emitted
    <2> DEFINE g == f[n]
    <2>3. g = [b EXCEPT !.text = text, !.new = new, !.offsets = offsets, !.eog = e]
      BY <2>2
    <2> HIDE DEF round, budget, new, text, g
    <2>4. g.text = text
      BY <1>2, <2>3 DEF Task
    <2>5. Detokenized(t, batch) = [g EXCEPT !.send = send]
      BY <1>3, <2>4 DEF g, n
    <2> HIDE DEF send
    <2>6. [g EXCEPT !.send = send] = [t EXCEPT !.round = round, !.budget = budget, !.todo = <<>>, !.halted = FALSE,
              !.text = text, !.new = new, !.offsets = offsets, !.eog = e, !.send = send]
      BY <2>1, <2>3 DEF Task
    <2> QED
      BY <2>5, <2>6 DEF RoundOf, round, budget, text, send, new
  <1> QED
    BY <1>11, <1>12

-----------------------------------------------------------------------------
(* What a stop word leaves.                                                *)

LEMMA PrefixIs ==
    ASSUME NEW T, NEW s \in Seq(T), NEW t \in Seq(T)
    PROVE  IsPrefix(s, s \o t)
  <1> DEFINE u == s \o t
  <1>1. u \in Seq(T) /\ Len(u) = Len(s) + Len(t) /\ Len(s) \in Nat /\ Len(t) \in Nat
        /\ \A i \in 1 .. Len(s) : u[i] = s[i]
    BY ConcatIs
  <1> HIDE DEF u
  <1>2. SubSeq(s, 1, Len(s)) = s
    OBVIOUS
  <1>3. SubSeq(u, 1, Len(s)) \in Seq(T) /\ Len(SubSeq(u, 1, Len(s))) = Len(s)
        /\ \A i \in 1 .. Len(s) : SubSeq(u, 1, Len(s))[i] = u[i]
    BY <1>1, FirstPart
  <1>4. SubSeq(u, 1, Len(s)) = s
    BY <1>1, <1>3, SeqEqual
  <1> QED
    BY <1>1, <1>2, <1>4 DEF IsPrefix, u

(* A word is found at place p of a text, counted from 0.                   *)
Found(s, word, p) ==
    /\ p \in Nat /\ Len(word) \in Nat /\ Len(s) \in Nat /\ p + Len(word) <= Len(s) /\ p <= Len(s)
    /\ SubSeq(s, 1, p) \o word = SubSeq(s, 1, p + Len(word))
    /\ SubStr(s, 0, p) = SubSeq(s, 1, p) /\ SubSeq(s, 1, p) \in Txt
    /\ s = (SubSeq(s, 1, p) \o word) \o SubSeq(s, p + Len(word) + 1, Len(s))
    /\ SubSeq(s, p + Len(word) + 1, Len(s)) \in Txt

LEMMA FoundIs ==
    ASSUME NEW s \in Txt, NEW word \in Txt, NEW p, p \in Starts(s, word)
    PROVE  Found(s, word, p)
  <1> DEFINE n == Len(word)
  <1>0. s \in Seq(Symbols) /\ word \in Seq(Symbols)
    BY DEF Txt
  <1>1. p \in Nat /\ n \in Nat /\ Len(s) \in Nat /\ p + n <= Len(s) /\ SubSeq(s, p + 1, p + n) = word
    BY <1>0 DEF Starts
  <1>2. SubSeq(s, 1, p) \o SubSeq(s, p + 1, p + n) = SubSeq(s, 1, p + n)
    <2>1. 1 \in 1 .. Len(s) + 1 /\ p \in 1 - 1 .. Len(s) /\ p + n \in p .. Len(s)
      BY <1>1
    <2> QED
      BY <1>0, <2>1, ConcatAdjacentSubSeq
  <1> DEFINE m == p + n
  <1>3. SubSeq(s, 1, m) \o SubSeq(s, m + 1, Len(s)) = s /\ SubSeq(s, m + 1, Len(s)) \in Seq(Symbols)
    <2>1. m \in 0 .. Len(s)
      BY <1>1
    <2> HIDE DEF m
    <2> QED
      BY <1>0, <2>1, RestPart
  <1>4. p <= Len(s) /\ p \in 0 .. Len(s)
    BY <1>1
  <1>5. SubStr(s, 0, p) = SubSeq(s, 1, p) /\ SubSeq(s, 1, p) \in Seq(Symbols)
    <2>1. SubStr(s, 0, p) = SubSeq(s, 1, IF p <= Len(s) THEN p ELSE Len(s))
      BY <1>0, <1>1, SubStrIs
    <2>2. SubSeq(s, 1, p) \in Seq(Symbols)
      BY <1>0, <1>4, FirstPart
    <2> QED
      BY <1>4, <2>1, <2>2
  <1>6. SubSeq(s, m + 1, Len(s)) \in Txt /\ SubSeq(s, 1, p) \in Txt
    BY <1>3, <1>5 DEF Txt
  <1>7. SubSeq(s, 1, p) \o word = SubSeq(s, 1, m)
    BY <1>1, <1>2
  <1> QED
    BY <1>1, <1>3, <1>4, <1>5, <1>6, <1>7 DEF Found

LEMMA StoppedIs ==
    ASSUME mode \in Modes, NEW t \in Task
    PROVE  \/ StopsAt(t) = {} /\ Stopped(t) = t
           \/ \E k \in DOMAIN mode.stop : \E p \in Starts(t.text, mode.stop[k]) :
                  /\ StopsAt(t) # {} /\ mode.stop[k] \in Txt /\ p \in Nat
                  /\ Stopped(t) = [t EXCEPT !.finish = "stop", !.keep = p]
  <1> DEFINE A == StopsAt(t)
             k == Min(A)
             word == mode.stop[k]
             p == StopAt(t, word)
  <1>1. CASE A = {}
    BY <1>1 DEF Stopped
  <1>2. CASE A # {}
    <2>1. DOMAIN mode.stop \subseteq Nat
      <3>1. mode.stop \in Seq(ToSet(mode.stop))
        BY TextAssumption DEF IsText
      <3> DEFINE S == ToSet(mode.stop)
      <3> HIDE DEF S
      <3>2. mode.stop \in Seq(S)
        BY <3>1 DEF S
      <3> QED
        BY <3>2
    <2>2. k \in A
      <3>1. A \subseteq Nat
        BY <2>1 DEF StopsAt
      <3> HIDE DEF A
      <3> QED
        BY <1>2, <3>1, LeastOf
    <2>3. k \in DOMAIN mode.stop /\ p # Npos
      BY <2>2 DEF StopsAt
    <2> DEFINE from == Len(t.text) - Len(t.new)
               found == {q \in Starts(t.text, word) : q >= from}
    <2>4. p = IF from < 0 \/ found = {} THEN Npos ELSE Min(found)
      BY DEF StopAt, FindFrom
    <2>5. found # {} /\ p = Min(found)
      BY <2>3, <2>4
    <2>6. found \subseteq Nat
      <3>1. t.text \in Txt
        BY DEF Task
      <3>2. Len(t.text) \in Nat
        BY <3>1 DEF Txt
      <3>3. word \in Seq(ToSet(word))
        BY <2>3, TextAssumption DEF IsText
      <3> DEFINE S == ToSet(word)
                 w == word
      <3>4. w \in Seq(S)
        BY <3>3
      <3> HIDE DEF S, w
      <3>5. Len(w) \in Nat
        BY <3>4
      <3>6. Starts(t.text, w) \subseteq Nat
        BY <3>2, <3>5 DEF Starts
      <3> QED
        BY <3>6 DEF w
    <2>7. p \in found
      <3> HIDE DEF found, p
      <3> QED
        BY <2>5, <2>6, LeastOf
    <2>8. p \in Starts(t.text, word) /\ p \in Nat
      BY <2>6, <2>7
    <2>9. word \in Txt
      <3> HIDE DEF word, p
      <3>1. SubSeq(t.text, p + 1, p + Len(word)) = word /\ t.text \in Txt
        BY <2>8 DEF Starts, Task
      <3>2. p \in 0 .. Len(t.text) - Len(word)
        BY <2>8 DEF Starts
      <3>3. word \in Seq(ToSet(word))
        BY <2>3, TextAssumption DEF IsText, word
      <3> DEFINE S == ToSet(word)
                 text == t.text
                 n == Len(word)
      <3>4. word \in Seq(S) /\ text \in Txt /\ SubSeq(text, p + 1, p + n) = word /\ p \in 0 .. Len(text) - n
        BY <3>1, <3>2, <3>3
      <3> HIDE DEF S
      <3>5. n \in Nat
        BY <3>4
      <3> HIDE DEF text, n
      <3>6. Len(text) \in Nat /\ text \in Seq(Symbols)
        BY <3>4 DEF Txt
      <3>7. \A i \in p + 1 .. p + n : text[i] \in Symbols
        BY <3>4, <3>5, <3>6
      <3>8. SubSeq(text, p + 1, p + n) \in Seq(Symbols)
        BY <3>4, <3>5, <3>6, <3>7, SubSeqProperties
      <3> QED
        BY <3>4, <3>8 DEF Txt
    <2>10. Stopped(t) = [t EXCEPT !.finish = "stop", !.keep = p]
      BY <1>2 DEF Stopped
    <2> HIDE DEF A, k, p
    <2> QED
      BY <1>2, <2>3, <2>8, <2>9, <2>10 DEF A
  <1> QED
    BY <1>1, <1>2

-----------------------------------------------------------------------------
(* The chunks of a round.                                                  *)

States == {s \in [task : Task, client : Client] : s.task.keep = Npos \/ s.task.keep \in Nat}

LEMMA JsonKeeps ==
    ASSUME mode \in Modes, NEW s \in States, NEW length \in Int
    PROVE  /\ to_json(s, length) \in States
           /\ \E sends \in Txt, left \in Txt :
                  Takes(s.task, s.client, KeptBy(s.task, length), to_json(s, length), sends, left)
  <1>1. s = [task |-> s.task, client |-> s.client] /\ s.task \in Task /\ s.client \in Client
        /\ (s.task.keep = Npos \/ s.task.keep \in Nat)
    BY DEF States
  <1>2. PICK sends \in Txt, left \in Txt :
            Takes(s.task, s.client, KeptBy(s.task, length), to_json(s, length), sends, left)
    BY <1>1, JsonIs
  <1> DEFINE r == to_json(s, length)
  <1>3. r.task \in Task /\ r.client \in Client /\ r = [task |-> r.task, client |-> r.client] /\ r.task.keep = Npos
    <2> HIDE DEF r
    <2>1. Takes(s.task, s.client, KeptBy(s.task, length), r, sends, left)
      BY <1>2 DEF r
    <2>2. r.task.keep = Npos
      BY <1>1, <2>1 DEF Takes, Task
    <2> QED
      BY <2>1, <2>2 DEF Takes
  <1>4. r \in States
    <2> HIDE DEF r
    <2> QED
      BY <1>3 DEF States
  <1> QED
    BY <1>2, <1>4

(* What a client has of a text, and what is left of it, in a stream.       *)
StreamedBy(s, r, sends, left, n) ==
    /\ s.task.text = sends \o left
    /\ r.task = [s.task EXCEPT !.text = left, !.calls = n, !.keep = Npos]
    /\ r.client.finish = s.task.finish
    /\ r.client.content = s.client.content \o (IF Reasons(s.task) THEN <<>> ELSE sends)
    /\ s.task.reasoning_text = <<>> =>
           r.client.reasoning = s.client.reasoning \o (IF Reasons(s.task) THEN sends ELSE <<>>)

Streamed(s, r) == \E sends \in Txt, left \in Txt : \E n \in Nat : StreamedBy(s, r, sends, left, n)

LEMMA JsonStreams ==
    ASSUME mode \in Modes, mode.stream, NEW s \in States, NEW length \in Int
    PROVE  Streamed(s, to_json(s, length)) /\ to_json(s, length) \in States
  <1> DEFINE r == to_json(s, length)
  <1>1. PICK sends \in Txt, left \in Txt : Takes(s.task, s.client, KeptBy(s.task, length), r, sends, left)
    BY JsonKeeps
  <1>2. r \in States
    BY JsonKeeps
  <1>3. s.task \in Task /\ s.client \in Client
    BY DEF States
  <1> HIDE DEF r
  <1> DEFINE t == s.task
             c == s.client
  <1> HIDE DEF t, c
  <1>4. Takes(t, c, KeptBy(t, length), r, sends, left) /\ t \in Task /\ c \in Client
    BY <1>1, <1>3 DEF t, c
  <1>5. t.text = sends \o left /\ r.client.finish = t.finish
        /\ r.client.content = c.content \o (IF Reasons(t) THEN <<>> ELSE sends)
        /\ r.client.reasoning = c.reasoning \o (IF Reasons(t) THEN sends ELSE IF mode.chat THEN t.reasoning_text ELSE <<>>)
    <2> DEFINE x == c.content \o (IF Reasons(t) THEN <<>> ELSE sends)
               y == c.reasoning \o (IF Reasons(t) THEN sends ELSE IF mode.chat THEN t.reasoning_text ELSE <<>>)
               z == Append(c.chunks, sends)
    <2>1. t.text = sends \o left
          /\ r.client = [content |-> x, reasoning |-> y, calls |-> c.calls + t.calls, finish |-> t.finish, chunks |-> z]
      BY <1>4 DEF Takes
    <2> HIDE DEF x, y, z
    <2>2. r.client.finish = t.finish /\ r.client.content = x /\ r.client.reasoning = y
      BY <2>1
    <2> QED
      BY <2>1, <2>2 DEF x, y
  <1>6. r.task = [t EXCEPT !.text = left, !.calls = 0, !.keep = Npos]
    BY <1>4 DEF Takes
  <1>7. t.reasoning_text = <<>> => r.client.reasoning = c.reasoning \o (IF Reasons(t) THEN sends ELSE <<>>)
    BY <1>5
  <1>8. Streamed(s, r)
    <2>1. StreamedBy(s, r, sends, left, 0)
      BY <1>5, <1>6, <1>7 DEF StreamedBy, t, c
    <2> QED
      BY <2>1 DEF Streamed
  <1> QED
    BY <1>2, <1>8 DEF r

LEMMA StreamedMore ==
    ASSUME NEW s \in States, NEW q \in States, NEW r \in States, Streamed(s, q), Streamed(q, r)
    PROVE  Streamed(s, r)
  <1>1. PICK a \in Txt, x \in Txt : \E n \in Nat : StreamedBy(s, q, a, x, n)
    BY DEF Streamed
  <1>2a. PICK n \in Nat : StreamedBy(s, q, a, x, n)
    BY <1>1
  <1>2. /\ s.task.text = a \o x
        /\ q.task = [s.task EXCEPT !.text = x, !.calls = n, !.keep = Npos]
        /\ q.client.content = s.client.content \o (IF Reasons(s.task) THEN <<>> ELSE a)
        /\ s.task.reasoning_text = <<>> =>
               q.client.reasoning = s.client.reasoning \o (IF Reasons(s.task) THEN a ELSE <<>>)
    BY <1>2a DEF StreamedBy
  <1>3. PICK b \in Txt, y \in Txt : \E m \in Nat : StreamedBy(q, r, b, y, m)
    BY DEF Streamed
  <1>4a. PICK m \in Nat : StreamedBy(q, r, b, y, m)
    BY <1>3
  <1>4. /\ q.task.text = b \o y
        /\ r.task = [q.task EXCEPT !.text = y, !.calls = m, !.keep = Npos]
        /\ r.client.finish = q.task.finish
        /\ r.client.content = q.client.content \o (IF Reasons(q.task) THEN <<>> ELSE b)
        /\ q.task.reasoning_text = <<>> =>
               r.client.reasoning = q.client.reasoning \o (IF Reasons(q.task) THEN b ELSE <<>>)
    BY <1>4a DEF StreamedBy
  <1> DEFINE t == s.task
             u == q.task
  <1>5. t \in Task /\ u \in Task /\ s.client.content \in Txt /\ s.client.reasoning \in Txt
    BY DEF States, Client
  <1>6. x = b \o y /\ Reasons(u) = Reasons(t) /\ u.reasoning_text = t.reasoning_text /\ u.finish = t.finish
    <2> HIDE DEF t, u
    <2>1. u = [t EXCEPT !.text = x, !.calls = n, !.keep = Npos] /\ u.text = b \o y
      BY <1>2, <1>4 DEF t, u
    <2> QED
      BY <1>5, <2>1 DEF Task, Reasons
  <1>7. a \o b \in Txt /\ t.text = (a \o b) \o y
    <2>1. a \o b \in Txt
      BY TextJoins
    <2>2. (a \o b) \o y = a \o (b \o y)
      BY TextAssociative, ZenonT(60)
    <2> QED
      BY <1>2, <1>6, <2>1, <2>2
  <1>8. r.task = [t EXCEPT !.text = y, !.calls = m, !.keep = Npos]
    <2> HIDE DEF t, u
    <2>1. u = [t EXCEPT !.text = x, !.calls = n, !.keep = Npos]
          /\ r.task = [u EXCEPT !.text = y, !.calls = m, !.keep = Npos]
      BY <1>2, <1>4 DEF t, u
    <2> QED
      BY <1>5, <2>1 DEF Task
  <1>10. r.client.content = s.client.content \o (IF Reasons(t) THEN <<>> ELSE a \o b)
    <2> DEFINE f == s.client.content
    <2>1. f \in Txt
      BY <1>5
    <2>2. CASE Reasons(t)
      <3>1. q.client.content = f \o <<>> /\ r.client.content = q.client.content \o <<>>
        BY <1>2, <1>4, <1>6, <2>2
      <3> HIDE DEF f
      <3>2. f \o <<>> = f
        BY <2>1, ConcatEmptySeq DEF Txt
      <3> QED
        BY <2>2, <3>1, <3>2 DEF f
    <2>3. CASE ~Reasons(t)
      <3>1. q.client.content = f \o a /\ r.client.content = q.client.content \o b
        BY <1>2, <1>4, <1>6, <2>3
      <3> HIDE DEF f
      <3>2. (f \o a) \o b = f \o (a \o b)
        BY <2>1, TextAssociative
      <3> QED
        BY <2>3, <3>1, <3>2 DEF f
    <2> QED
      BY <2>2, <2>3
  <1>11. ASSUME t.reasoning_text = <<>>
         PROVE  r.client.reasoning = s.client.reasoning \o (IF Reasons(t) THEN a \o b ELSE <<>>)
    <2> DEFINE f == s.client.reasoning
    <2>1. f \in Txt
      BY <1>5
    <2>2. CASE ~Reasons(t)
      <3>1. q.client.reasoning = f \o <<>> /\ r.client.reasoning = q.client.reasoning \o <<>>
        BY <1>2, <1>4, <1>6, <1>11, <2>2
      <3> HIDE DEF f
      <3>2. f \o <<>> = f
        BY <2>1, ConcatEmptySeq DEF Txt
      <3> QED
        BY <2>2, <3>1, <3>2 DEF f
    <2>3. CASE Reasons(t)
      <3>1. q.client.reasoning = f \o a /\ r.client.reasoning = q.client.reasoning \o b
        BY <1>2, <1>4, <1>6, <1>11, <2>3
      <3> HIDE DEF f
      <3>2. (f \o a) \o b = f \o (a \o b)
        BY <2>1, TextAssociative
      <3> QED
        BY <2>3, <3>1, <3>2 DEF f
    <2> QED
      BY <2>2, <2>3
  <1>12. r.client.finish = t.finish
    BY <1>4, <1>6
  <1> DEFINE ab == a \o b
  <1>13. StreamedBy(s, r, ab, y, m)
    BY <1>7, <1>8, <1>10, <1>11, <1>12 DEF StreamedBy
  <1>14. ab \in Txt
    BY <1>7
  <1> HIDE DEF ab
  <1> QED
    BY <1>13, <1>14 DEF Streamed

ChunkLength(offsets, k) == offsets[k] - (IF k = 1 THEN 0 ELSE offsets[k - 1])

IsChunked(s, offsets, f) ==
    f = [k \in 0 .. Len(offsets) |-> IF k = 0 THEN s ELSE to_json(f[k - 1], ChunkLength(offsets, k))]

LEMMA LengthTyped ==
    ASSUME NEW offsets \in Seq(Int), NEW k \in 1 .. Len(offsets)
    PROVE  ChunkLength(offsets, k) \in Int
  <1>1. offsets[k] \in Int /\ (k # 1 => offsets[k - 1] \in Int)
    OBVIOUS
  <1> QED
    BY <1>1 DEF ChunkLength

LEMMA SomeChunked ==
    ASSUME mode \in Modes, NEW s \in States, NEW offsets \in Seq(Int)
    PROVE  \E f : IsChunked(s, offsets, f)
  <1> DEFINE N == Len(offsets)
             step == [x \in (1 .. N) \X States |-> to_json(x[2], ChunkLength(offsets, x[1]))]
  <1>1. N \in Nat
    OBVIOUS
  <1>2. AreSteps(N, States, step)
    <2>1. ASSUME NEW x \in (1 .. N) \X States PROVE to_json(x[2], ChunkLength(offsets, x[1])) \in States
      <3>1. x[2] \in States /\ x[1] \in 1 .. Len(offsets)
        OBVIOUS
      <3>2. ChunkLength(offsets, x[1]) \in Int
        BY <3>1, LengthTyped
      <3> QED
        BY <3>1, <3>2, JsonKeeps
    <2> HIDE DEF N
    <2> QED
      BY <2>1 DEF AreSteps
  <1> HIDE DEF N, step
  <1>3. PICK f : Follows(N, States, s, step, f)
    BY <1>1, <1>2, Recursion
  <1>4. f \in [0 .. N -> States] /\ f[0] = s /\ \A k \in 1 .. N : f[k] = step[<<k, f[k - 1]>>]
    BY <1>3 DEF Follows
  <1>5. ASSUME NEW k \in 1 .. N PROVE f[k] = to_json(f[k - 1], ChunkLength(offsets, k))
    <2> DEFINE r == f[k - 1]
    <2>1. k - 1 \in 0 .. N
      BY <1>1
    <2>2. r \in States /\ f[k] = step[<<k, r>>]
      BY <1>4, <2>1
    <2> HIDE DEF r
    <2>3. <<k, r>> \in (1 .. N) \X States
      BY <2>2
    <2>4. step[<<k, r>>] = to_json(r, ChunkLength(offsets, k))
      BY <2>3 DEF step
    <2> QED
      BY <2>2, <2>4 DEF r
  <1>6. f = [k \in 0 .. N |-> f[k]]
    BY <1>4
  <1>7. \A k \in 0 .. N : f[k] = IF k = 0 THEN s ELSE to_json(f[k - 1], ChunkLength(offsets, k))
    BY <1>1, <1>4, <1>5
  <1> QED
    BY <1>6, <1>7 DEF IsChunked, N

ChunkedBy(s, r, sends, left, n) ==
    /\ s.task.text = sends \o left
    /\ r.task = [s.task EXCEPT !.text = left, !.offsets = <<>>, !.calls = n, !.keep = Npos]
    /\ r.client.finish = s.task.finish
    /\ r.client.content = s.client.content \o (IF Reasons(s.task) THEN <<>> ELSE sends)
    /\ s.task.reasoning_text = <<>> =>
           r.client.reasoning = s.client.reasoning \o (IF Reasons(s.task) THEN sends ELSE <<>>)

ChunksTaken(s, r, sends, left) ==
    /\ s.task.text = sends \o left /\ r.task.text = left
    /\ r.client.content = s.client.content \o (IF Reasons(s.task) THEN <<>> ELSE sends)
    /\ s.task.reasoning_text = <<>> =>
           r.client.reasoning = s.client.reasoning \o (IF Reasons(s.task) THEN sends ELSE <<>>)
    /\ SameTask(s.task, r.task)

LEMMA ChunkedIs ==
    ASSUME NEW s, s.task \in Task, NEW r, NEW sends, NEW left, NEW n, ChunkedBy(s, r, sends, left, n)
    PROVE  ChunksTaken(s, r, sends, left)
  <1> DEFINE t == s.task
             u == r.task
             o == <<>>
  <1>1. u = [t EXCEPT !.text = left, !.offsets = o, !.calls = n, !.keep = Npos] /\ t \in Task
    BY DEF ChunkedBy
  <1> HIDE DEF t, u, o
  <1>2. u.text = left /\ SameTask(t, u)
    BY <1>1 DEF Task, SameTask
  <1> QED
    BY <1>2 DEF t, u, ChunkedBy, ChunksTaken

LEMMA ChunksIs ==
    ASSUME mode \in Modes, mode.stream, NEW s \in States
    PROVE  /\ \E sends \in Txt, left \in Txt : \E n \in Nat : ChunkedBy(s, Chunks(s), sends, left, n)
           /\ Chunks(s) \in States
  <1> DEFINE offsets == s.task.offsets
             N == Len(offsets)
             f == CHOOSE g : IsChunked(s, offsets, g)
  <1>1. offsets \in Seq(Int) /\ N \in Nat /\ s.task \in Task
    BY DEF States, Task
  <1>2. CASE offsets = <<>>
    <2> DEFINE r == to_json(s, 0)
    <2>1. Chunks(s) = r
      BY <1>2 DEF Chunks
    <2>2. Streamed(s, r) /\ r \in States
      BY JsonStreams
    <2> HIDE DEF r
    <2>3. PICK sends \in Txt, left \in Txt : \E n \in Nat : StreamedBy(s, r, sends, left, n)
      BY <2>2 DEF Streamed
    <2>4. PICK n \in Nat : StreamedBy(s, r, sends, left, n)
      BY <2>3
    <2>5. r.task = [s.task EXCEPT !.text = left, !.offsets = <<>>, !.calls = n, !.keep = Npos]
      <3> DEFINE t == s.task
      <3>1. r.task = [t EXCEPT !.text = left, !.calls = n, !.keep = Npos] /\ t.offsets = <<>>
        BY <1>2, <2>4 DEF StreamedBy
      <3> HIDE DEF t
      <3>2. t \in Task
        BY <1>1 DEF t
      <3>3. r.task = [t EXCEPT !.text = left, !.offsets = <<>>, !.calls = n, !.keep = Npos]
        <4> DEFINE o == t.offsets
                   v == r.task
                   w == [t EXCEPT !.text = left, !.offsets = o, !.calls = n, !.keep = Npos]
        <4>1. o = t.offsets /\ v = [t EXCEPT !.text = left, !.calls = n, !.keep = Npos]
          BY <3>1
        <4> HIDE DEF o, v
        <4>2. v = w
          BY <3>2, <4>1 DEF Task
        <4>3. r.task = w
          BY <4>2 DEF v
        <4> QED
          BY <3>1, <4>3 DEF o
      <3> QED
        BY <3>3 DEF t
    <2>6. ChunkedBy(s, r, sends, left, n)
      BY <2>4, <2>5 DEF StreamedBy, ChunkedBy
    <2> QED
      BY <2>1, <2>2, <2>6
  <1>3. CASE offsets # <<>>
    <2>1. N > 0
      BY <1>1, <1>3
    <2>2. Chunks(s) = [f[N] EXCEPT !.task.offsets = <<>>]
      BY <1>3 DEF Chunks, IsChunked, ChunkLength
    <2> HIDE DEF f, offsets, N
    <2>3. IsChunked(s, offsets, f)
      <3>1. \E g : IsChunked(s, offsets, g)
        BY <1>1, SomeChunked
      <3> QED
        BY <3>1 DEF f
    <2>4. \A k \in 0 .. N : f[k] = IF k = 0 THEN s ELSE to_json(f[k - 1], ChunkLength(offsets, k))
      BY <2>3 DEF IsChunked, N
    <2> DEFINE Good == {k \in Nat : 1 <= k /\ k <= N => f[k] \in States /\ Streamed(s, f[k])}
    <2>5. 0 \in Good
      OBVIOUS
    <2>6. ASSUME NEW k \in Nat, k \in Good PROVE k + 1 \in Good
      <3> SUFFICES ASSUME k + 1 <= N PROVE f[k + 1] \in States /\ Streamed(s, f[k + 1])
        OBVIOUS
      <3> DEFINE length == ChunkLength(offsets, k + 1)
                 q == f[k]
                 r == f[k + 1]
      <3>1. k \in 0 .. N /\ k + 1 \in 0 .. N /\ k + 1 # 0 /\ (k + 1) - 1 = k /\ k + 1 \in 1 .. N
        BY <1>1
      <3>2. length \in Int
        BY <1>1, <3>1, LengthTyped DEF N
      <3>3. r = to_json(q, length)
        BY <2>4, <3>1
      <3>4. CASE k = 0
        <4>1. q = s
          BY <2>4, <3>1, <3>4
        <4> HIDE DEF length, q, r
        <4>2. Streamed(s, to_json(s, length)) /\ to_json(s, length) \in States
          BY <3>2, JsonStreams
        <4> QED
          BY <3>3, <4>1, <4>2 DEF r
      <3>5. CASE k # 0
        <4>1. q \in States /\ Streamed(s, q)
          BY <2>6, <3>1, <3>5
        <4> HIDE DEF length, q, r
        <4>2. Streamed(q, to_json(q, length)) /\ to_json(q, length) \in States
          BY <3>2, <4>1, JsonStreams
        <4>3. Streamed(s, r)
          BY <3>3, <4>1, <4>2, StreamedMore
        <4> QED
          BY <3>3, <4>2, <4>3 DEF r
      <3> QED
        BY <3>4, <3>5
    <2>7. N \in Good
      <3> HIDE DEF Good
      <3> QED
        BY <1>1, <2>5, <2>6, EveryNumber
    <2> DEFINE r == f[N]
    <2>8. r \in States /\ Streamed(s, r)
      <3>1. 1 <= N /\ N <= N
        BY <1>1, <2>1
      <3> QED
        BY <2>7, <3>1
    <2> HIDE DEF r
    <2>9. PICK sends \in Txt, left \in Txt : \E n \in Nat : StreamedBy(s, r, sends, left, n)
      BY <2>8 DEF Streamed
    <2>10. PICK n \in Nat : StreamedBy(s, r, sends, left, n)
      BY <2>9
    <2> DEFINE u == [r.task EXCEPT !.offsets = <<>>]
               x == [r EXCEPT !.task.offsets = <<>>]
    <2>11. x = [task |-> u, client |-> r.client] /\ r.task \in Task /\ r.client \in Client
           /\ (r.task.keep = Npos \/ r.task.keep \in Nat)
      BY <2>8 DEF States
    <2>12. u \in Task /\ u.keep = r.task.keep
      <3> DEFINE t == r.task
      <3>1. t \in Task
        BY <2>11
      <3> HIDE DEF t
      <3>2. <<>> \in Seq(Int)
        OBVIOUS
      <3>3. [t EXCEPT !.offsets = <<>>] \in Task /\ [t EXCEPT !.offsets = <<>>].keep = t.keep
        BY <3>1, <3>2 DEF Task
      <3> QED
        BY <3>3 DEF t
    <2> HIDE DEF u, x
    <2>13. x \in States /\ x.task = u /\ x.client = r.client
      BY <2>11, <2>12 DEF States
    <2>14. u = [s.task EXCEPT !.text = left, !.offsets = <<>>, !.calls = n, !.keep = Npos]
      <3> DEFINE t == s.task
                 v == r.task
      <3>1. v = [t EXCEPT !.text = left, !.calls = n, !.keep = Npos] /\ u = [v EXCEPT !.offsets = <<>>] /\ t \in Task
        BY <1>1, <2>10 DEF StreamedBy, u
      <3> HIDE DEF t, v
      <3>2. u = [t EXCEPT !.text = left, !.offsets = <<>>, !.calls = n, !.keep = Npos]
        BY <3>1 DEF Task
      <3> QED
        BY <3>2 DEF t
    <2>15. ChunkedBy(s, x, sends, left, n)
      BY <2>10, <2>13, <2>14 DEF StreamedBy, ChunkedBy
    <2>16. Chunks(s) = x
      BY <2>2 DEF x, r
    <2> QED
      BY <2>13, <2>15, <2>16
  <1> QED
    BY <1>2, <1>3

-----------------------------------------------------------------------------
(* The end of a round.                                                     *)

Ended(t, u) ==
    \E f \in {"stop", "tool_calls", "length"} :
        u = [t EXCEPT !.keep = Len(t.text), !.finish = f] /\ (t.eog \/ f = "length")

LEMMA FinishedIs ==
    ASSUME NEW t \in Task
    PROVE  /\ Finished(t) = t \/ (t.finish = "" /\ Ended(t, Finished(t)))
           /\ Finished(t).finish = "" => ~t.eog /\ Finished(t) = t
  <1>1. CASE t.finish # ""
    BY <1>1 DEF Finished
  <1>2. CASE t.finish = "" /\ t.eog
    <2> DEFINE f == IF t.calls = 0 THEN "stop" ELSE "tool_calls"
               n == Len(t.text)
    <2>1. Finished(t) = [[t EXCEPT !.keep = n] EXCEPT !.finish = f]
      BY <1>2 DEF Finished
    <2>2. f \in {"stop", "tool_calls"}
      OBVIOUS
    <2> HIDE DEF f, n
    <2>3. Finished(t) = [t EXCEPT !.keep = n, !.finish = f] /\ [t EXCEPT !.keep = n, !.finish = f].finish = f
      BY <2>1 DEF Task
    <2> QED
      BY <1>2, <2>2, <2>3 DEF Ended, n
  <1>3. CASE t.finish = "" /\ ~t.eog /\ t.budget <= 0
    <2> DEFINE n == Len(t.text)
    <2>1. Finished(t) = [[t EXCEPT !.keep = n] EXCEPT !.finish = "length"]
      BY <1>3 DEF Finished
    <2> HIDE DEF n
    <2>2. Finished(t) = [t EXCEPT !.keep = n, !.finish = "length"]
          /\ [t EXCEPT !.keep = n, !.finish = "length"].finish = "length"
      BY <2>1 DEF Task
    <2> QED
      BY <1>3, <2>2 DEF Ended, n
  <1>4. CASE t.finish = "" /\ ~t.eog /\ ~(t.budget <= 0)
    BY <1>4 DEF Finished
  <1> QED
    BY <1>1, <1>2, <1>3, <1>4

Quiet(c) == [c EXCEPT !.chunks = <<>>]

LEMMA SentIs ==
    ASSUME mode \in Modes, NEW t \in Task, client \in Client, t.keep = Npos \/ t.keep \in Nat
    PROVE  /\ Quiet(client) \in Client /\ Quiet(client).content = client.content
           /\ Quiet(client).reasoning = client.reasoning
           /\ Sent(t) \in States
           /\ t.finish # "" =>
                  \E sends \in Txt, left \in Txt : Takes(t, Quiet(client), t.keep, Sent(t), sends, left)
           /\ t.finish = "" /\ t.send /\ mode.stream =>
                  \E sends \in Txt, left \in Txt : \E n \in Nat :
                      ChunkedBy([task |-> t, client |-> Quiet(client)], Sent(t), sends, left, n)
           /\ t.finish = "" /\ ~(t.send /\ mode.stream) => Sent(t) = [task |-> t, client |-> Quiet(client)]
  <1> DEFINE c == Quiet(client)
             s == [task |-> t, client |-> c]
  <1>1. c \in Client /\ c.content = client.content /\ c.reasoning = client.reasoning
    <2>1. <<>> \in Seq(Txt)
      OBVIOUS
    <2> QED
      BY <2>1 DEF Client, Quiet
  <1>2. Sent(t) = IF t.finish # "" THEN to_json(s, 0) ELSE IF t.send /\ mode.stream THEN Chunks(s) ELSE s
    BY DEF Sent, Quiet
  <1> HIDE DEF c
  <1>3. s \in States /\ s.task = t /\ s.client = c
    BY <1>1 DEF States
  <1> HIDE DEF s
  <1>4. KeptBy(t, 0) = t.keep
    BY DEF KeptBy
  <1>5. to_json(s, 0) \in States /\ \E sends \in Txt, left \in Txt : Takes(t, c, t.keep, to_json(s, 0), sends, left)
    <2>1. 0 \in Int
      OBVIOUS
    <2>2. /\ to_json(s, 0) \in States
          /\ \E sends \in Txt, left \in Txt :
                 Takes(s.task, s.client, KeptBy(s.task, 0), to_json(s, 0), sends, left)
      BY <1>3, <2>1, JsonKeeps
    <2> QED
      BY <1>3, <1>4, <2>2
  <1>6. mode.stream => /\ \E sends \in Txt, left \in Txt : \E n \in Nat : ChunkedBy(s, Chunks(s), sends, left, n)
                       /\ Chunks(s) \in States
    BY <1>3, ChunksIs
  <1>7. t.finish # "" => Sent(t) = to_json(s, 0)
    BY <1>2
  <1>8. t.finish = "" /\ t.send /\ mode.stream => Sent(t) = Chunks(s)
    BY <1>2
  <1>9. t.finish = "" /\ ~(t.send /\ mode.stream) => Sent(t) = s
    BY <1>2
  <1>10. Sent(t) \in States
    BY <1>3, <1>5, <1>6, <1>7, <1>8, <1>9
  <1> QED
    BY <1>1, <1>5, <1>6, <1>7, <1>8, <1>9, <1>10 DEF s, c

HeardUpTo(s, batch, h, e) ==
    /\ Before(s \o batch, {"eog"}) = s \o h /\ s \o h \in Seq(Words \ {"eog"})
    /\ Text(s \o h) = Text(s) \o Text(h)
    /\ ~e => s \o batch \in Seq(Words \ {"eog"})

LEMMA BeforeEnds ==
    ASSUME NEW s \in Seq(Words \ {"eog"}), NEW batch \in Seq(Words), NEW h, NEW e, Ends(batch, h, e)
    PROVE  HeardUpTo(s, batch, h, e)
  <1>1. s \in Seq(Words) /\ h \in Seq(Words) /\ h \in Seq(Words \ {"eog"})
    <2>1. Seq(Words \ {"eog"}) \subseteq Seq(Words)
      <3>1. Words \ {"eog"} \subseteq Words
        OBVIOUS
      <3> QED
        BY <3>1, SeqMonotonic
    <2> QED
      BY <2>1 DEF Ends
  <1>2. s \o h \in Seq(Words \ {"eog"})
    BY <1>1, ConcatIs
  <1>3. Text(s \o h) = Text(s) \o Text(h)
    BY <1>1, TextConcat
  <1>4. CASE ~e
    <2>1. batch = h
      BY <1>4 DEF Ends
    <2> DEFINE q == s \o h
    <2> HIDE DEF q
    <2>2. Before(q, {"eog"}) = q
      BY <1>2, BeforeNone DEF q
    <2> QED
      BY <1>2, <1>3, <2>1, <2>2 DEF q, HeardUpTo
  <1>5. CASE e
    <2>1. PICK rest \in Seq(Words) : batch = h \o (<<"eog">> \o rest)
      BY <1>5 DEF Ends
    <2>2. "eog" \in {"eog"} \cap Words
      BY <1>5 DEF Ends
    <2> DEFINE one == <<"eog">>
               tail == one \o rest
               q == s \o h
    <2>3. tail \in Seq(Words)
      <3>1. one \in Seq(Words)
        BY <2>2
      <3> HIDE DEF one
      <3> QED
        BY <3>1, ConcatIs
    <2> HIDE DEF tail
    <2>4. s \o (h \o tail) = (s \o h) \o tail
      BY <1>1, <2>3, WordsAssociative, ZenonT(60)
    <2> HIDE DEF q
    <2>5. Before(q \o tail, {"eog"}) = q
      <3>1. q \in Seq(Words \ {"eog"})
        BY <1>2 DEF q
      <3>2. Before(q \o (<<"eog">> \o rest), {"eog"}) = q
        BY <2>2, <3>1, BeforeSome
      <3> QED
        BY <3>2 DEF tail
    <2>6. s \o batch = q \o tail
      BY <2>1, <2>4 DEF tail, q
    <2> QED
      BY <1>2, <1>3, <1>5, <2>5, <2>6 DEF q, HeardUpTo
  <1>6. e \in BOOLEAN
    BY DEF Ends
  <1> QED
    BY <1>4, <1>5, <1>6

-----------------------------------------------------------------------------
(* Without reasoning and tools.                                            *)

Plain == mode.reasoning = "none" /\ mode.tools = "none"

(* What is sent, when the generation has ended.                            *)
AllSent(t, c, out) ==
    \/ c.content = out /\ (t.eog \/ t.finish = "length")
    \/ /\ t.finish = "stop"
       /\ \E k \in DOMAIN mode.stop : IsPrefix(c.content \o mode.stop[k], out)

PlainTyped ==
    /\ task \in Task /\ client \in Client /\ sampled \in Seq(Words)
    /\ task.reasoned /\ task.todo = <<>> /\ task.keep = Npos

PlainSent ==
    IF task.finish = ""
    THEN /\ ~task.eog /\ sampled \in Seq(Words \ {"eog"})
         /\ client.content \o task.text = Text(sampled)
    ELSE AllSent(task, client, Text(Before(sampled, {"eog"})))

PlainInv == mode \in Modes /\ (Plain => PlainTyped /\ PlainSent)

LEMMA NewTaskTyped ==
    ASSUME NEW m \in Modes
    PROVE  /\ NewTask(m) \in Task /\ NewTask(m).todo = <<>> /\ NewTask(m).keep = Npos /\ NewTask(m).finish = ""
           /\ ~NewTask(m).eog /\ NewTask(m).text = <<>> /\ NewTask(m).reasoned = (m.reasoning = "none")
  <1>1. m.prefilled \in BOOLEAN /\ Budget \in Int /\ Npos \in Int /\ -1 \in Int
    BY TextAssumption DEF Npos
  <1>2. <<>> \in Seq(Words) /\ <<>> \in Txt /\ <<>> \in Seq(Int)
    BY NoText
  <1> QED
    BY <1>1, <1>2 DEF NewTask, Task, Finishes

LEMMA PlainInit == Init => PlainInv
  <1> SUFFICES ASSUME Init PROVE PlainInv
    OBVIOUS
  <1> SUFFICES ASSUME Plain PROVE PlainTyped /\ PlainSent
    BY DEF PlainInv, Init
  <1>1. mode \in Modes /\ task = NewTask(mode) /\ sampled = <<>>
        /\ client = [content |-> <<>>, reasoning |-> <<>>, calls |-> 0, finish |-> "", chunks |-> <<>>]
    BY DEF Init
  <1>2. task \in Task /\ task.todo = <<>> /\ task.keep = Npos /\ task.finish = "" /\ ~task.eog /\ task.text = <<>>
        /\ task.reasoned
    BY <1>1, NewTaskTyped DEF Plain
  <1>3. client \in Client /\ client.content = <<>>
    <2>1. <<>> \in Seq(Txt)
      OBVIOUS
    <2> QED
      BY <1>1, <2>1, NoText DEF Client, Finishes
  <1>4. sampled \in Seq(Words) /\ sampled \in Seq(Words \ {"eog"})
    <2>1. <<>> \in Seq(Words) /\ <<>> \in Seq(Words \ {"eog"})
      OBVIOUS
    <2> QED
      BY <1>1, <2>1
  <1>5. client.content \o task.text = Text(sampled)
    <2>1. <<>> \o <<>> = <<>>
      BY ConcatEmptySeq
    <2>2. Text(<<>>) = <<>>
      <3>1. <<>> \in Seq(Words)
        OBVIOUS
      <3> QED
        BY <3>1, TextIs
    <2> QED
      BY <1>1, <1>2, <1>3, <2>1, <2>2
  <1> QED
    BY <1>2, <1>3, <1>4, <1>5 DEF PlainTyped, PlainSent

LEMMA ByWordTyped ==
    ASSUME mode \in Modes, NEW n, n \in Nat, NEW batch \in [1 .. n -> mode.tokens]
    PROVE  batch \in Seq(Words) /\ Len(batch) = n
  <1>1. mode.tokens \subseteq Words
    BY TextAssumption DEF Words
  <1> QED
    BY <1>1

(* The end of a round whose task has all of the text that is unsent.       *)
LEMMA PlainEnd ==
    ASSUME mode \in Modes, NEW t \in Task, client \in Client, t.reasoned, t.finish = "", t.keep = Npos,
           NEW u, u = t \/ u = Stopped(t), NEW out, out = client.content \o t.text
    PROVE  LET s == Sent(Finished(u))
           IN  /\ s \in States /\ s.task.reasoned /\ s.task.todo = t.todo /\ s.task.keep = Npos
               /\ s.task.finish = "" => ~s.task.eog /\ ~t.eog /\ s.client.content \o s.task.text = out
               /\ s.task.finish # "" => AllSent(s.task, s.client, out)
  <1> DEFINE v == Finished(u)
             s == Sent(v)
             c == Quiet(client)
             f == client.content
  <1>1. f \in Txt /\ t.text \in Txt /\ Len(t.text) \in Nat
    BY TaskParts, ClientParts
  <1>2. u = t \/ \E k \in DOMAIN mode.stop : \E p \in Starts(t.text, mode.stop[k]) :
                     mode.stop[k] \in Txt /\ p \in Nat /\ u = [t EXCEPT !.finish = "stop", !.keep = p]
    BY StoppedIs
  <1>3. CASE u # t
    <2>1. PICK k \in DOMAIN mode.stop : \E p \in Starts(t.text, mode.stop[k]) :
                     mode.stop[k] \in Txt /\ p \in Nat /\ u = [t EXCEPT !.finish = "stop", !.keep = p]
      BY <1>2, <1>3
    <2>2. PICK p \in Starts(t.text, mode.stop[k]) :
                     mode.stop[k] \in Txt /\ p \in Nat /\ u = [t EXCEPT !.finish = "stop", !.keep = p]
      BY <2>1
    <2> DEFINE word == mode.stop[k]
    <2>3. u \in Task /\ u.finish = "stop" /\ u.keep = p /\ u.text = t.text /\ u.reasoned /\ u.todo = t.todo /\ u.keep \in Nat
      <3>1. "stop" \in Finishes /\ p \in Int
        BY <2>2, NotNpos DEF Finishes
      <3> QED
        BY <2>2, <3>1 DEF Task
    <2>4. v = u
      BY <2>3, FinishedIs
    <2> HIDE DEF v, s, c, word
    <2>5. s \in States /\ c.content = f /\ \E sends \in Txt, left \in Txt : Takes(u, c, p, s, sends, left)
      BY <2>3, <2>4, SentIs DEF s, c
    <2>6. PICK sends \in Txt, left \in Txt : Takes(u, c, p, s, sends, left)
      BY <2>5
    <2>7. p # Npos /\ sends = SubStr(u.text, 0, p) /\ s.client.content = f \o sends
      <3>1. ~Reasons(u)
        BY <2>3 DEF Reasons
      <3>2. p # Npos
        BY <2>2, NotNpos
      <3>3. sends = SubStr(u.text, 0, p)
        BY <2>6, <3>2 DEF Takes
      <3>4. Taken(u, c, s, sends, left)
        BY <2>3, <2>6, TakesIs
      <3> QED
        BY <2>5, <3>1, <3>2, <3>3, <3>4 DEF Taken
    <2>8. s.task.finish = "stop" /\ s.task.reasoned /\ s.task.todo = t.todo /\ s.task.keep = Npos
      <3>1. Taken(u, c, s, sends, left)
        BY <2>3, <2>6, TakesIs
      <3> QED
        BY <2>3, <3>1 DEF Taken, SameTask
    <2>9. word \in Txt /\ p \in Starts(t.text, word)
      BY <2>2 DEF word
    <2>10. SubStr(t.text, 0, p) = SubSeq(t.text, 1, p) /\ \E rest \in Txt : t.text = (SubSeq(t.text, 1, p) \o word) \o rest
      <3> DEFINE text == t.text
      <3>1. text \in Txt /\ word \in Txt /\ p \in Starts(text, word)
        BY <1>1, <2>9
      <3> HIDE DEF text
      <3>2. Found(text, word, p)
        BY <3>1, FoundIs
      <3> QED
        BY <3>2 DEF Found, text
    <2>11. sends = SubSeq(t.text, 1, p)
      BY <2>3, <2>7, <2>10
    <2>12. PICK rest \in Txt : t.text = (sends \o word) \o rest
      BY <2>10, <2>11
    <2>13. IsPrefix((f \o sends) \o word, out)
      <3>1. sends \o word \in Txt /\ f \o sends \in Txt /\ sends \in Txt
        <4>1. sends \o word \in Txt
          BY <2>9, TextJoins
        <4> HIDE DEF f
        <4>2. f \o sends \in Txt
          BY <1>1, TextJoins
        <4> QED
          BY <4>1, <4>2
      <3>2. (f \o sends) \o word = f \o (sends \o word)
        <4> HIDE DEF f
        <4> QED
          BY <1>1, <2>9, TextAssociative, ZenonT(60)
      <3> DEFINE m == sends \o word
      <3>3. m \in Txt
        BY <3>1
      <3> HIDE DEF m, f
      <3>4. f \o (m \o rest) = (f \o m) \o rest
        <4>1. f \in Txt /\ m \in Txt /\ rest \in Txt
          BY <1>1, <3>3
        <4> QED
          BY <4>1, TextAssociative, ZenonT(60)
      <3>5. f \o m \in Txt
        BY <1>1, <3>3, TextJoins
      <3> DEFINE a == f \o m
      <3> HIDE DEF a
      <3>6. IsPrefix(a, a \o rest)
        <4>1. a \in Seq(Symbols) /\ rest \in Seq(Symbols)
          BY <3>5 DEF Txt, a
        <4> QED
          BY <4>1, PrefixIs
      <3>7. out = f \o (m \o rest)
        BY <2>12 DEF m, f
      <3> QED
        BY <3>2, <3>4, <3>6, <3>7 DEF a, m
    <2>14. AllSent(s.task, s.client, out)
      BY <2>7, <2>8, <2>13 DEF AllSent, word
    <2> QED
      BY <2>4, <2>5, <2>8, <2>14 DEF s, v
  <1>4. CASE u = t /\ Finished(t) # t
    <2>1. PICK g \in {"stop", "tool_calls", "length"} :
              Finished(t) = [t EXCEPT !.keep = Len(t.text), !.finish = g] /\ (t.eog \/ g = "length")
      BY <1>4, FinishedIs DEF Ended
    <2> DEFINE n == Len(t.text)
    <2>2. v \in Task /\ v.finish = g /\ v.keep = n /\ v.text = t.text /\ v.reasoned /\ v.todo = t.todo /\ v.eog = t.eog
          /\ n \in Nat /\ g # ""
      <3>1. g \in Finishes /\ n \in Int /\ v = [t EXCEPT !.keep = n, !.finish = g] /\ n \in Nat
        BY <1>1, <1>4, <2>1, NotNpos DEF Finishes
      <3> HIDE DEF n, v
      <3> QED
        BY <2>1, <3>1 DEF Task
    <2> HIDE DEF v, s, c, n
    <2>3. s \in States /\ c.content = f /\ \E sends \in Txt, left \in Txt : Takes(v, c, n, s, sends, left)
      BY <2>2, SentIs DEF s, c
    <2>4. PICK sends \in Txt, left \in Txt : Takes(v, c, n, s, sends, left)
      BY <2>3
    <2>5. sends = SubStr(t.text, 0, n) /\ s.client.content = f \o sends
      <3>1. ~Reasons(v)
        BY <2>2 DEF Reasons
      <3>2. n # Npos
        BY <2>2, NotNpos
      <3>3. sends = SubStr(v.text, 0, n)
        BY <2>4, <3>2 DEF Takes
      <3>4. Taken(v, c, s, sends, left)
        BY <2>2, <2>4, TakesIs
      <3> QED
        BY <2>2, <2>3, <3>1, <3>3, <3>4 DEF Taken
    <2>6. s.task.finish = g /\ s.task.reasoned /\ s.task.todo = t.todo /\ s.task.keep = Npos /\ s.task.eog = t.eog
      <3>1. Taken(v, c, s, sends, left)
        BY <2>2, <2>4, TakesIs
      <3> QED
        BY <2>2, <3>1 DEF Taken, SameTask
    <2>7. SubStr(t.text, 0, n) = t.text
      <3> DEFINE text == t.text
      <3>1. text \in Seq(Symbols) /\ n \in Nat /\ n >= Len(text)
        <4>1. text \in Seq(Symbols)
          BY <1>1 DEF Txt
        <4>2. n \in Nat
          BY <2>2
        <4>3. n >= Len(text)
          BY <1>1, NotNpos DEF n
        <4> QED
          BY <4>1, <4>2, <4>3
      <3> HIDE DEF text
      <3>2. n >= Len(text) => SubStr(text, 0, n) = text
        BY <3>1, SubStrIs
      <3> QED
        BY <3>1, <3>2 DEF text
    <2>8. AllSent(s.task, s.client, out)
      BY <2>1, <2>5, <2>6, <2>7 DEF AllSent
    <2> QED
      BY <2>2, <2>3, <2>6, <2>8 DEF s, v
  <1>5. CASE u = t /\ Finished(t) = t
    <2>1. v = t /\ ~t.eog
      BY <1>5, FinishedIs
    <2> HIDE DEF v, c
    <2>2. s \in States /\ c.content = f
      BY <2>1, SentIs DEF s, c
    <2>3. CASE t.send /\ mode.stream
      <3> DEFINE q == [task |-> t, client |-> c]
      <3>1. q.task = t /\ q.client = c
        OBVIOUS
      <3> HIDE DEF q, s
      <3>2. \E sends \in Txt, left \in Txt : \E n \in Nat : ChunkedBy(q, s, sends, left, n)
        BY <2>1, <2>3, SentIs DEF s, c, q
      <3>3. PICK sends \in Txt, left \in Txt : \E n \in Nat : ChunkedBy(q, s, sends, left, n)
        BY <3>2
      <3>4. PICK n \in Nat : ChunkedBy(q, s, sends, left, n)
        BY <3>3
      <3>5. s.task.text = left /\ s.task.reasoned /\ s.task.todo = t.todo /\ s.task.keep = Npos
            /\ s.task.finish = "" /\ ~s.task.eog
        <4>1. ChunksTaken(q, s, sends, left)
          BY <3>1, <3>4, ChunkedIs
        <4> QED
          BY <2>1, <3>1, <4>1 DEF ChunksTaken, SameTask
      <3>6. t.text = sends \o left /\ s.client.content = f \o sends
        BY <2>2, <3>1, <3>4 DEF ChunkedBy, Reasons
      <3>7. (f \o sends) \o left = f \o (sends \o left)
        <4> HIDE DEF f
        <4> QED
          BY <1>1, TextAssociative, ZenonT(60)
      <3>8. s.client.content \o s.task.text = out
        BY <3>5, <3>6, <3>7
      <3> QED
        BY <2>1, <2>2, <3>5, <3>8 DEF s, v
    <2>4. CASE ~(t.send /\ mode.stream)
      <3>1. s = [task |-> t, client |-> c]
        BY <2>1, <2>4, SentIs DEF s, c
      <3> HIDE DEF s
      <3>2. s.task = t /\ s.client = c
        BY <3>1
      <3> QED
        BY <2>1, <2>2, <3>2 DEF s, v
    <2> QED
      BY <2>3, <2>4
  <1> QED
    BY <1>3, <1>4, <1>5

(* A round, with the task of the round before.                             *)
LEMMA RoundIs ==
    ASSUME mode \in Modes, task \in Task, Next
    PROVE  /\ mode' = mode /\ task.finish = ""
           /\ \E n \in Nat : \E batch \in [1 .. n -> mode.tokens] :
                  LET t == Detokenized(task, batch)
                  IN  /\ n > 0 /\ n <= 1 + mode.drafted /\ sampled' = sampled \o batch
                      /\ \E u \in IF t.send THEN ToolCalls(ReasonedByWord(Stopped(t)), task.todo \o batch) ELSE {t} :
                             task' = Sent(Finished(u)).task /\ client' = Sent(Finished(u)).client
  <1>1. mode.drafted \in Nat
    BY TextAssumption
  <1>2. PICK n \in 1 .. 1 + mode.drafted : \E batch \in [1 .. n -> mode.tokens] : Round(batch)
    BY DEF Next
  <1>3. PICK batch \in [1 .. n -> mode.tokens] : Round(batch)
    BY <1>2
  <1>4. n \in Nat /\ n > 0 /\ n <= 1 + mode.drafted
    BY <1>1
  <1>5. /\ mode' = mode /\ task.finish = "" /\ sampled' = sampled \o batch
        /\ LET t == Detokenized(task, batch)
           IN  \E u \in IF t.send THEN ToolCalls(ReasonedByWord(Stopped(t)), task.todo \o batch) ELSE {t} :
                   task' = Sent(Finished(u)).task /\ client' = Sent(Finished(u)).client
    BY <1>3 DEF Round
  <1> QED
    BY <1>4, <1>5

LEMMA PlainStep == PlainInv /\ [Next]_vars => PlainInv'
  <1> SUFFICES ASSUME PlainInv, [Next]_vars PROVE PlainInv'
    OBVIOUS
  <1>1. CASE UNCHANGED vars
    BY <1>1 DEF vars, PlainInv, Plain, PlainTyped, PlainSent, AllSent
  <1>2. CASE Next
    <2>1. mode' = mode /\ mode \in Modes
      <3>1. mode \in Modes
        BY DEF PlainInv
      <3>2. mode' = mode
        BY <1>2 DEF Next, Round
      <3> QED
        BY <3>1, <3>2
    <2> SUFFICES ASSUME Plain PROVE PlainTyped' /\ PlainSent'
      BY <2>1 DEF PlainInv, Plain
    <2>2. task \in Task /\ client \in Client /\ sampled \in Seq(Words) /\ task.reasoned /\ task.todo = <<>>
          /\ task.keep = Npos /\ PlainSent
      BY DEF PlainInv, PlainTyped
    <2>3. task.finish = "" /\ \E n \in Nat : \E batch \in [1 .. n -> mode.tokens] :
              LET t == Detokenized(task, batch)
              IN  /\ n > 0 /\ n <= 1 + mode.drafted /\ sampled' = sampled \o batch
                  /\ \E u \in IF t.send THEN ToolCalls(ReasonedByWord(Stopped(t)), task.todo \o batch) ELSE {t} :
                         task' = Sent(Finished(u)).task /\ client' = Sent(Finished(u)).client
      BY <1>2, <2>1, <2>2, RoundIs
    <2>4. PICK n \in Nat : \E batch \in [1 .. n -> mode.tokens] :
              LET t == Detokenized(task, batch)
              IN  /\ n > 0 /\ n <= 1 + mode.drafted /\ sampled' = sampled \o batch
                  /\ \E u \in IF t.send THEN ToolCalls(ReasonedByWord(Stopped(t)), task.todo \o batch) ELSE {t} :
                         task' = Sent(Finished(u)).task /\ client' = Sent(Finished(u)).client
      BY <2>3
    <2>5. PICK batch \in [1 .. n -> mode.tokens] :
              LET t == Detokenized(task, batch)
              IN  /\ n > 0 /\ n <= 1 + mode.drafted /\ sampled' = sampled \o batch
                  /\ \E u \in IF t.send THEN ToolCalls(ReasonedByWord(Stopped(t)), task.todo \o batch) ELSE {t} :
                         task' = Sent(Finished(u)).task /\ client' = Sent(Finished(u)).client
      BY <2>4
    <2>6. batch \in Seq(Words)
      BY <2>1, ByWordTyped
    <2> DEFINE t == Detokenized(task, batch)
    <2>7. PICK u \in IF t.send THEN ToolCalls(ReasonedByWord(Stopped(t)), task.todo \o batch) ELSE {t} :
              task' = Sent(Finished(u)).task /\ client' = Sent(Finished(u)).client
      BY <2>5
    <2>8. sampled' = sampled \o batch
      BY <2>5
    <2>9. ~task.eog /\ sampled \in Seq(Words \ {"eog"}) /\ client.content \o task.text = Text(sampled)
      BY <2>2, <2>3 DEF PlainSent
    <2>10. PICK h, e : \E offsets \in Seq(Int) : Ends(batch, h, e) /\ t = RoundOf(task, batch, h, e, offsets)
      <3>1. Emits(task)
        BY <2>2 DEF Emits
      <3> QED
        BY <2>1, <2>2, <2>6, <2>9, <3>1, DetokenizedAll
    <2>11. PICK offsets \in Seq(Int) : Ends(batch, h, e) /\ t = RoundOf(task, batch, h, e, offsets)
      BY <2>10
    <2> HIDE DEF t
    <2>12. t \in Task
      BY <2>2, <2>6, <2>11, RoundTyped
    <2> DEFINE said == Text(h)
    <2>13. said \in Txt
      BY <2>11, EndsTyped
    <2>14. /\ t.reasoned /\ t.finish = "" /\ t.keep = Npos /\ t.todo = <<>> /\ t.eog = e
           /\ t.text = task.text \o said
      <3> DEFINE round == task.round + 1
                 budget == task.budget - Len(batch)
                 text == task.text \o said
                 send == Whole(text)
                 none == <<>>
      <3>1. t = [task EXCEPT !.round = round, !.budget = budget, !.todo = none, !.halted = FALSE, !.text = text,
                             !.new = said, !.offsets = offsets, !.eog = e, !.send = send]
        BY <2>11 DEF RoundOf
      <3> HIDE DEF round, budget, text, send, said, none
      <3>2. t.reasoned = task.reasoned /\ t.finish = task.finish /\ t.keep = task.keep /\ t.todo = none /\ t.eog = e
            /\ t.text = text
        BY <2>2, <3>1 DEF Task
      <3> QED
        BY <2>2, <2>3, <3>2 DEF text, none
    <2>15. u = t \/ u = Stopped(t)
      <3>1. CASE t.send
        <4>1. ReasonedByWord(Stopped(t)) = Stopped(t)
          BY DEF ReasonedByWord, Plain
        <4>2. ToolCalls(Stopped(t), task.todo \o batch) = {Stopped(t)}
          BY DEF ToolCalls, Plain
        <4> QED
          BY <2>7, <3>1, <4>1, <4>2
      <3>2. CASE ~t.send
        BY <2>7, <3>2
      <3> QED
        BY <3>1, <3>2
    <2> DEFINE out == Text(Before(sampled', {"eog"}))
               s == Sent(Finished(u))
    <2>16. out = client.content \o t.text
      <3>1. Before(sampled \o batch, {"eog"}) = sampled \o h /\ Text(sampled \o h) = Text(sampled) \o said
        <4>1. HeardUpTo(sampled, batch, h, e)
          BY <2>6, <2>9, <2>11, BeforeEnds
        <4> QED
          BY <4>1 DEF HeardUpTo
      <3>2. (client.content \o task.text) \o said = client.content \o (task.text \o said)
        <4> DEFINE a == client.content
                   b == task.text
        <4>1. a \in Txt /\ b \in Txt
          BY <2>2, TaskParts, ClientParts
        <4> HIDE DEF a, b, said
        <4>2. (a \o b) \o said = a \o (b \o said)
          BY <2>13, <4>1, TextAssociative
        <4> QED
          BY <4>2 DEF a, b
      <3>3. out = Text(sampled) \o said
        BY <2>8, <3>1
      <3> QED
        BY <2>9, <2>14, <3>2, <3>3
    <2> HIDE DEF out, s, said
    <2>17. /\ s \in States /\ s.task.reasoned /\ s.task.todo = t.todo /\ s.task.keep = Npos
           /\ s.task.finish = "" => ~s.task.eog /\ ~t.eog /\ s.client.content \o s.task.text = out
           /\ s.task.finish # "" => AllSent(s.task, s.client, out)
      BY <2>1, <2>2, <2>12, <2>14, <2>15, <2>16, PlainEnd, ZenonT(60) DEF s
    <2>18. task' = s.task /\ client' = s.client
      BY <2>7 DEF s
    <2>19. PlainTyped'
      <3>1. sampled' \in Seq(Words)
        BY <2>2, <2>6, <2>8, ConcatIs
      <3>2. s.task \in Task /\ s.client \in Client
        BY <2>17 DEF States
      <3> QED
        BY <2>14, <2>17, <2>18, <3>1, <3>2 DEF PlainTyped, Task, Client
    <2>20. PlainSent'
      <3>1. CASE s.task.finish = ""
        <4>1. ~e
          BY <2>14, <2>17, <3>1
        <4>2. sampled' \in Seq(Words \ {"eog"})
          <5>1. HeardUpTo(sampled, batch, h, e)
            BY <2>6, <2>9, <2>11, BeforeEnds
          <5> QED
            BY <2>8, <4>1, <5>1 DEF HeardUpTo
        <4>3. out = Text(sampled')
          <5> DEFINE q == sampled'
          <5> HIDE DEF q
          <5>1. q \in Seq(Words \ {"eog"})
            BY <4>2 DEF q
          <5>2. Before(q, {"eog"}) = q
            BY <5>1, BeforeNone
          <5> QED
            BY <5>2 DEF q, out
        <4> QED
          BY <2>17, <2>18, <3>1, <4>2, <4>3 DEF PlainSent
      <3>2. CASE s.task.finish # ""
        BY <2>1, <2>17, <2>18, <3>2 DEF PlainSent, AllSent, out
      <3> QED
        BY <3>1, <3>2
    <2> QED
      BY <2>19, <2>20
  <1> QED
    BY <1>1, <1>2

LEMMA PlainDelivers == PlainInv => Delivered
  <1> SUFFICES ASSUME PlainInv, Plain PROVE LET out == Text(Generated)
        IN  IF task.finish = "" THEN client.content \o task.text = out
            ELSE \/ client.content = out /\ (task.eog \/ task.finish = "length")
                 \/ /\ task.finish = "stop"
                    /\ \E k \in DOMAIN mode.stop : IsPrefix(client.content \o mode.stop[k], out)
    BY DEF Delivered, Plain
  <1>1. sampled \in Seq(Words) /\ task.todo = <<>> /\ PlainSent
    BY DEF PlainInv, PlainTyped
  <1>2. Generated = Before(sampled, {"eog"})
    <2>1. SubSeq(sampled, 1, Len(sampled) - Len(task.todo)) = sampled
      <3>1. Len(sampled) - Len(task.todo) = Len(sampled)
        BY <1>1
      <3>2. SubSeq(sampled, 1, Len(sampled)) = sampled
        BY <1>1
      <3> QED
        BY <3>1, <3>2
    <2> QED
      BY <2>1 DEF Generated
  <1>3. CASE task.finish = ""
    <2>1. sampled \in Seq(Words \ {"eog"}) /\ client.content \o task.text = Text(sampled)
      BY <1>1, <1>3 DEF PlainSent
    <2>2. Before(sampled, {"eog"}) = sampled
      BY <2>1, BeforeNone
    <2> QED
      BY <1>2, <1>3, <2>1, <2>2
  <1>4. CASE task.finish # ""
    BY <1>1, <1>2, <1>4 DEF PlainSent, AllSent
  <1> QED
    BY <1>3, <1>4

(***************************************************************************)
(* Without reasoning and tools, whatever the vocabulary, the budget, the   *)
(* stop words and the drafts, however rounds, cut characters and chunks    *)
(* fall: what was sent and what is held are what was generated, each       *)
(* symbol once, and at the end all of it was sent, up to a stop word.      *)
(***************************************************************************)
THEOREM TextDelivered == Spec => []Delivered
  <1>1. Init => PlainInv
    BY PlainInit
  <1>2. PlainInv /\ [Next]_vars => PlainInv'
    BY PlainStep
  <1>3. PlainInv => Delivered
    BY PlainDelivers
  <1> QED
    BY <1>1, <1>2, <1>3, PTL DEF Spec

-----------------------------------------------------------------------------
(* A text that ends inside a character, whatever is before its end.        *)

LEMMA WholeEnd ==
    ASSUME NEW T, NEW a \in Seq(T), NEW b \in Seq(T), b # <<>>, ~Whole(b)
    PROVE  ~Whole(a \o b)
  <1> DEFINE q == a \o b
             m == Len(a)
             n == Len(b)
  <1>1. /\ q \in Seq(T) /\ Len(q) = m + n /\ m \in Nat /\ n \in Nat /\ \A i \in 1 .. n : q[m + i] = b[i]
    BY ConcatIs
  <1>2. n > 0 /\ n \in 1 .. n
    BY <1>1
  <1>3. Last(b) = b[n] /\ Last(q) = q[Len(q)]
    BY DEF Last
  <1> HIDE DEF q, m, n
  <1>4. q # <<>> /\ Last(q) = Last(b)
    <2>1. q[Len(q)] = b[n]
      BY <1>1, <1>2
    <2> QED
      BY <1>1, <1>2, <1>3, <2>1
  <1> QED
    BY <1>4 DEF Whole, q

-----------------------------------------------------------------------------
(* What tokens say, with the end of the reasoning a token of its own: the  *)
(* phases of an answer, and the step that one more token makes.            *)

(* What ByTokens says of the generated tokens G.                           *)
TokensSay(m, G) ==
    LET begins == m.prefilled \/ (G # <<>> /\ G[1] = "think")
        inside == IF m.prefilled THEN G ELSE Tail(G)
        reason == Before(inside, {"/think"})
    IN  IF ~begins THEN [reasoning |-> <<>>, content |-> Text(G)]
        ELSE [reasoning |-> Text(reason), content |-> Text(AfterSpaces(SubSeq(inside, Len(reason) + 2, Len(inside))))]

(* What comes before the reasoning, and whitespace.                        *)
Pre(m) == IF m.prefilled THEN <<>> ELSE <<"think">>

AllSpaces(tokens) == \A k \in 1 .. Len(tokens) : IsSpace(Piece[tokens[k]])

(* The phases: of the tokens G, R is reasoning and C content. Nothing yet; *)
(* an answer without reasoning; inside the reasoning; whitespace behind it;*)
(* and the answer behind that.                                             *)
Silent(m, G, R, C) == ~m.prefilled /\ G = <<>> /\ R = <<>> /\ C = <<>>

Direct(m, G, R, C) == ~m.prefilled /\ G \in Seq(Words) /\ G # <<>> /\ G[1] # "think" /\ R = <<>> /\ C = Text(G)

Inside(m, G, R, C) ==
    /\ ~m.prefilled => "think" \in Words
    /\ \E inside \in Seq(Words \ {"/think"}) : G = Pre(m) \o inside /\ R = Text(inside) /\ C = <<>>

BehindBy(m, G, R, C, inside, spaces) ==
    G = Pre(m) \o (inside \o (<<"/think">> \o spaces)) /\ AllSpaces(spaces) /\ R = Text(inside) /\ C = <<>>

Behind(m, G, R, C) ==
    /\ "/think" \in Words /\ (~m.prefilled => "think" \in Words)
    /\ \E inside \in Seq(Words \ {"/think"}), spaces \in Seq(Words) : BehindBy(m, G, R, C, inside, spaces)

AnswersBy(m, G, R, C, inside, spaces, rest) ==
    /\ G = Pre(m) \o (inside \o (<<"/think">> \o (spaces \o rest)))
    /\ AllSpaces(spaces) /\ rest # <<>> /\ ~IsSpace(Piece[rest[1]]) /\ R = Text(inside) /\ C = Text(rest)

Answers(m, G, R, C) ==
    /\ "/think" \in Words /\ (~m.prefilled => "think" \in Words)
    /\ \E inside \in Seq(Words \ {"/think"}), spaces \in Seq(Words), rest \in Seq(Words) :
           AnswersBy(m, G, R, C, inside, spaces, rest)

(* One more token.                                                         *)
More(tokens, tok) == tokens \o <<tok>>

LEMMA MoreIs ==
    ASSUME NEW tokens \in Seq(Words), NEW tok \in Words
    PROVE  /\ More(tokens, tok) \in Seq(Words) /\ Text(More(tokens, tok)) = Text(tokens) \o Piece[tok]
           /\ Len(More(tokens, tok)) = Len(tokens) + 1 /\ Len(tokens) \in Nat
           /\ More(tokens, tok)[Len(tokens) + 1] = tok
           /\ \A i \in 1 .. Len(tokens) : More(tokens, tok)[i] = tokens[i]
           /\ More(tokens, tok) # <<>>
  <1> DEFINE one == <<tok>>
  <1>1. one \in Seq(Words) /\ Text(one) = Piece[tok] /\ Len(one) = 1 /\ one[1] = tok
    BY TextOfOne
  <1> HIDE DEF one
  <1>2. Text(tokens \o one) = Text(tokens) \o Text(one)
    BY <1>1, TextConcat
  <1>3. /\ tokens \o one \in Seq(Words) /\ Len(tokens \o one) = Len(tokens) + Len(one)
        /\ Len(tokens) \in Nat /\ Len(one) \in Nat
        /\ (\A i \in 1 .. Len(tokens) : (tokens \o one)[i] = tokens[i])
        /\ (\A i \in 1 .. Len(one) : (tokens \o one)[Len(tokens) + i] = one[i])
    <2>1. one \in Seq(Words)
      BY <1>1
    <2> QED
      BY <2>1, ConcatIs
  <1>4. More(tokens, tok) = tokens \o one
    BY DEF More, one
  <1> DEFINE m == tokens \o one
  <1>5. /\ m \in Seq(Words) /\ Len(m) = Len(tokens) + 1 /\ m[Len(tokens) + 1] = tok
        /\ \A i \in 1 .. Len(tokens) : m[i] = tokens[i]
    BY <1>1, <1>3
  <1> HIDE DEF m
  <1>6. m # <<>>
    BY <1>3, <1>5
  <1> QED
    BY <1>1, <1>2, <1>3, <1>4, <1>5, <1>6 DEF m

LEMMA MoreBehind ==
    ASSUME NEW a \in Seq(Words), NEW b \in Seq(Words), NEW tok \in Words
    PROVE  More(a \o b, tok) = a \o More(b, tok)
  <1>1. <<tok>> \in Seq(Words)
    BY TextOfOne
  <1> QED
    BY <1>1, WordsAssociative DEF More

(* Nothing of what comes before the first piece that is not space.         *)
LEMMA AfterSpacesIs ==
    ASSUME NEW spaces \in Seq(Words), NEW rest \in Seq(Words), AllSpaces(spaces),
           rest = <<>> \/ ~IsSpace(Piece[rest[1]])
    PROVE  AfterSpaces(spaces \o rest) = rest
  <1> DEFINE q == spaces \o rest
             n == Len(spaces)
             m == Len(rest)
             A == {k \in DOMAIN q : ~IsSpace(Piece[q[k]])}
  <1>1. /\ q \in Seq(Words) /\ Len(q) = n + m /\ n \in Nat /\ m \in Nat
        /\ (\A i \in 1 .. n : q[i] = spaces[i]) /\ (\A i \in 1 .. m : q[n + i] = rest[i])
    BY ConcatIs
  <1>2. DOMAIN q = 1 .. n + m /\ A \subseteq Nat
    <2> HIDE DEF q, n, m
    <2> QED
      BY <1>1
  <1>3. \A k \in A : ~ (k <= n)
    BY <1>1, <1>2 DEF AllSpaces
  <1>4. AfterSpaces(q) = IF A = {} THEN <<>> ELSE SubSeq(q, Min(A), Len(q))
    BY DEF AfterSpaces
  <1>5. CASE rest = <<>>
    <2>1. A = {}
      <3>1. m = 0
        BY <1>5
      <3>2. \A k \in A : k \in 1 .. n + m
        BY <1>2
      <3> HIDE DEF A, m, n
      <3> QED
        BY <1>1, <1>3, <3>1, <3>2
    <2> QED
      BY <1>4, <1>5, <2>1
  <1>6. CASE rest # <<>>
    <2>1. m # 0
      BY <1>6
    <2>2. n + 1 \in A
      <3>1. 1 \in 1 .. m /\ n + 1 \in 1 .. n + m
        BY <1>1, <2>1
      <3>2. q[n + 1] = rest[1]
        <4> HIDE DEF q, n, m
        <4> QED
          BY <1>1, <3>1
      <3> QED
        BY <1>2, <1>6, <3>1, <3>2
    <2>3. Min(A) = n + 1
      <3> HIDE DEF A, n
      <3>1. Min(A) \in A /\ Min(A) <= n + 1
        BY <1>2, <2>2, LeastOf
      <3>2. Min(A) \in Nat /\ ~ (Min(A) <= n)
        BY <1>2, <1>3, <3>1
      <3> QED
        BY <1>1, <3>1, <3>2
    <2>4. SubSeq(q, n + 1, Len(q)) = rest
      <3> DEFINE r == SubSeq(q, n + 1, Len(q))
      <3> HIDE DEF q, n, m, r
      <3>1. n \in 0 .. Len(q) /\ Len(q) - n = m
        BY <1>1
      <3>2. r \in Seq(Words) /\ Len(r) = m /\ \A i \in 1 .. m : r[i] = q[n + i]
        BY <1>1, <3>1, RestPart DEF r
      <3>3. \A i \in 1 .. Len(r) : r[i] = rest[i]
        BY <1>1, <3>2
      <3>4. Len(r) = Len(rest)
        BY <3>2 DEF m
      <3> QED
        BY <3>2, <3>3, <3>4, SeqEqual DEF r
    <2> QED
      BY <1>4, <2>2, <2>3, <2>4
  <1> QED
    BY <1>5, <1>6 DEF q

LEMMA PreIs ==
    ASSUME ~mode.prefilled => "think" \in Words, NEW x \in Seq(Words)
    PROVE  /\ Pre(mode) \in Seq(Words) /\ Pre(mode) \o x \in Seq(Words)
           /\ mode.prefilled \/ (Pre(mode) \o x # <<>> /\ (Pre(mode) \o x)[1] = "think")
           /\ (IF mode.prefilled THEN Pre(mode) \o x ELSE Tail(Pre(mode) \o x)) = x
  <1>1. CASE mode.prefilled
    <2>1. Pre(mode) = <<>> /\ <<>> \o x = x
      BY <1>1, ConcatEmptySeq DEF Pre
    <2> QED
      BY <1>1, <2>1
  <1>2. CASE ~mode.prefilled
    <2> DEFINE one == <<"think">>
               q == one \o x
               r == Tail(q)
    <2>1. one \in Seq(Words) /\ Len(one) = 1 /\ one[1] = "think"
      BY <1>2
    <2> HIDE DEF one
    <2>2. q \in Seq(Words) /\ Len(q) = 1 + Len(x) /\ Len(x) \in Nat
          /\ q[1] = one[1] /\ \A i \in 1 .. Len(x) : q[1 + i] = x[i]
      <3>1. /\ one \o x \in Seq(Words) /\ Len(one \o x) = Len(one) + Len(x) /\ Len(x) \in Nat
            /\ (\A i \in 1 .. Len(one) : (one \o x)[i] = one[i])
            /\ (\A i \in 1 .. Len(x) : (one \o x)[Len(one) + i] = x[i])
        <4>1. one \in Seq(Words)
          BY <2>1
        <4> QED
          BY <4>1, ConcatIs
      <3> QED
        BY <2>1, <3>1
    <2> HIDE DEF q
    <2>3. q # <<>> /\ q[1] = "think"
      BY <2>1, <2>2
    <2>4. r \in Seq(Words) /\ Len(r) = Len(x) /\ \A i \in 1 .. Len(r) : r[i] = q[1 + i]
      BY <2>2, <2>3
    <2> HIDE DEF r
    <2>5. \A i \in 1 .. Len(r) : r[i] = x[i]
      BY <2>2, <2>4
    <2>6. r = x
      BY <2>4, <2>5, SeqEqual
    <2>7. Pre(mode) = one
      BY <1>2 DEF Pre, one
    <2> QED
      BY <1>2, <2>1, <2>2, <2>3, <2>6, <2>7 DEF q, r
  <1> QED
    BY <1>1, <1>2

LEMMA Slashless == Seq(Words \ {"/think"}) \subseteq Seq(Words)
  <1>1. Words \ {"/think"} \subseteq Words
    OBVIOUS
  <1> QED
    BY <1>1, SeqMonotonic

LEMMA SilentSays ==
    ASSUME NEW G, NEW R, NEW C, Silent(mode, G, R, C)
    PROVE  TokensSay(mode, G) = [reasoning |-> R, content |-> C]
  <1>1. Text(<<>>) = <<>>
    <2>1. <<>> \in Seq(Words)
      OBVIOUS
    <2> QED
      BY <2>1, TextIs
  <1>2. ~ (mode.prefilled \/ (G # <<>> /\ G[1] = "think"))
    BY DEF Silent
  <1> QED
    BY <1>1, <1>2 DEF Silent, TokensSay

LEMMA DirectSays ==
    ASSUME NEW G, NEW R, NEW C, Direct(mode, G, R, C)
    PROVE  TokensSay(mode, G) = [reasoning |-> R, content |-> C]
  BY DEF Direct, TokensSay

LEMMA InsideSays ==
    ASSUME NEW G, NEW R, NEW C, Inside(mode, G, R, C)
    PROVE  TokensSay(mode, G) = [reasoning |-> R, content |-> C] /\ G \in Seq(Words) /\ R \in Txt
  <1>1. PICK x \in Seq(Words \ {"/think"}) : G = Pre(mode) \o x /\ R = Text(x) /\ C = <<>>
    BY DEF Inside
  <1>2. x \in Seq(Words) /\ Text(x) \in Txt
    BY Slashless, TextIs
  <1> DEFINE y == IF mode.prefilled THEN G ELSE Tail(G)
  <1>3. (mode.prefilled \/ (G # <<>> /\ G[1] = "think")) /\ y = x /\ G \in Seq(Words)
    BY <1>1, <1>2, PreIs DEF Inside
  <1>4. Before(x, {"/think"}) = x
    BY BeforeNone
  <1>5. Text(AfterSpaces(SubSeq(x, Len(x) + 2, Len(x)))) = <<>>
    <2>1. SubSeq(x, Len(x) + 2, Len(x)) = <<>>
      BY <1>2
    <2>2. AfterSpaces(<<>>) = <<>>
      BY DEF AfterSpaces
    <2>3. Text(<<>>) = <<>>
      <3>1. <<>> \in Seq(Words)
        OBVIOUS
      <3> QED
        BY <3>1, TextIs
    <2> QED
      BY <2>1, <2>2, <2>3
  <1>6. TokensSay(mode, G) = [reasoning |-> Text(Before(y, {"/think"})),
                        content |-> Text(AfterSpaces(SubSeq(y, Len(Before(y, {"/think"})) + 2, Len(y))))]
    BY <1>3 DEF TokensSay
  <1> HIDE DEF y
  <1> QED
    BY <1>1, <1>2, <1>3, <1>4, <1>5, <1>6

(* What is behind the end of the reasoning.                                *)
LEMMA TailSays ==
    ASSUME "/think" \in Words, ~mode.prefilled => "think" \in Words,
           NEW x \in Seq(Words \ {"/think"}), NEW tail \in Seq(Words), NEW G, G = Pre(mode) \o (x \o (<<"/think">> \o tail))
    PROVE  /\ TokensSay(mode, G) = [reasoning |-> Text(x), content |-> Text(AfterSpaces(tail))]
           /\ G \in Seq(Words) /\ Text(x) \in Txt
  <1>1. x \in Seq(Words) /\ Text(x) \in Txt
    BY Slashless, TextIs
  <1> DEFINE one == <<"/think">>
             z == one \o tail
             q == x \o z
             n == Len(x)
  <1>2. one \in Seq(Words) /\ Len(one) = 1
    OBVIOUS
  <1> HIDE DEF one
  <1>3. z \in Seq(Words) /\ Len(z) = 1 + Len(tail) /\ Len(tail) \in Nat /\ \A i \in 1 .. Len(tail) : z[1 + i] = tail[i]
    <2>1. /\ one \o tail \in Seq(Words) /\ Len(one \o tail) = Len(one) + Len(tail) /\ Len(tail) \in Nat
          /\ (\A i \in 1 .. Len(one) : (one \o tail)[i] = one[i])
          /\ (\A i \in 1 .. Len(tail) : (one \o tail)[Len(one) + i] = tail[i])
      <3>1. one \in Seq(Words)
        BY <1>2
      <3> QED
        BY <3>1, ConcatIs
    <2> QED
      BY <1>2, <2>1
  <1>4. q \in Seq(Words) /\ Before(q, {"/think"}) = x
    <2>1. "/think" \in {"/think"} \cap Words
      OBVIOUS
    <2>2. x \o (<<"/think">> \o tail) \in Seq(Words) /\ Before(x \o (<<"/think">> \o tail), {"/think"}) = x
      BY <2>1, BeforeSome
    <2> QED
      BY <2>2 DEF one
  <1> HIDE DEF z
  <1>5. Len(q) = n + Len(z) /\ n \in Nat /\ \A i \in 1 .. Len(z) : q[n + i] = z[i]
    <2>1. /\ x \o z \in Seq(Words) /\ Len(x \o z) = Len(x) + Len(z) /\ Len(x) \in Nat /\ Len(z) \in Nat
          /\ (\A i \in 1 .. Len(x) : (x \o z)[i] = x[i])
          /\ (\A i \in 1 .. Len(z) : (x \o z)[Len(x) + i] = z[i])
      <3>1. x \in Seq(Words) /\ z \in Seq(Words)
        BY <1>1, <1>3
      <3> QED
        BY <3>1, ConcatIs
    <2> QED
      BY <2>1
  <1> HIDE DEF q, n
  <1>6. SubSeq(q, n + 2, Len(q)) = tail
    <2> DEFINE m == n + 1
               r == SubSeq(q, m + 1, Len(q))
    <2>1. m \in 0 .. Len(q) /\ m + 1 = n + 2 /\ Len(q) - m = Len(tail)
      BY <1>3, <1>5
    <2>2. \A i \in 1 .. Len(tail) : q[m + i] = tail[i]
      <3>1. \A i \in 1 .. Len(tail) : 1 + i \in 1 .. Len(z) /\ m + i = n + (1 + i)
        BY <1>3, <1>5
      <3> HIDE DEF m
      <3> QED
        BY <1>3, <1>5, <3>1
    <2> HIDE DEF m
    <2>3. r \in Seq(Words) /\ Len(r) = Len(q) - m /\ \A i \in 1 .. Len(q) - m : r[i] = q[m + i]
      BY <1>4, <2>1, RestPart
    <2> HIDE DEF r
    <2>4. Len(r) = Len(tail) /\ \A i \in 1 .. Len(r) : r[i] = tail[i]
      BY <2>1, <2>2, <2>3
    <2>5. r = tail
      BY <2>3, <2>4, SeqEqual
    <2> QED
      BY <2>1, <2>5 DEF r
  <1> DEFINE y == IF mode.prefilled THEN G ELSE Tail(G)
  <1>7. G = Pre(mode) \o q
    BY DEF q, z, one
  <1>8. (mode.prefilled \/ (G # <<>> /\ G[1] = "think")) /\ y = q /\ G \in Seq(Words)
    BY <1>4, <1>7, PreIs
  <1>9. TokensSay(mode, G) = [reasoning |-> Text(Before(y, {"/think"})),
                        content |-> Text(AfterSpaces(SubSeq(y, Len(Before(y, {"/think"})) + 2, Len(y))))]
    BY <1>8 DEF TokensSay
  <1> HIDE DEF y
  <1> QED
    BY <1>1, <1>4, <1>6, <1>8, <1>9 DEF n

LEMMA BehindSays ==
    ASSUME NEW G, NEW R, NEW C, Behind(mode, G, R, C)
    PROVE  TokensSay(mode, G) = [reasoning |-> R, content |-> C] /\ G \in Seq(Words) /\ R \in Txt
  <1>1. PICK x \in Seq(Words \ {"/think"}), spaces \in Seq(Words) : BehindBy(mode, G, R, C, x, spaces)
    BY DEF Behind
  <1>2. /\ TokensSay(mode, G) = [reasoning |-> Text(x), content |-> Text(AfterSpaces(spaces))]
        /\ G \in Seq(Words) /\ Text(x) \in Txt
    BY <1>1, TailSays DEF Behind, BehindBy
  <1>3. AfterSpaces(spaces) = <<>>
    <2> DEFINE none == <<>>
    <2>1. none \in Seq(Words) /\ spaces \o none = spaces
      BY ConcatEmptySeq
    <2> HIDE DEF none
    <2>2. AfterSpaces(spaces \o none) = none
      BY <1>1, <2>1, AfterSpacesIs DEF BehindBy, none
    <2> QED
      BY <2>1, <2>2 DEF none
  <1>4. Text(<<>>) = <<>>
    <2>1. <<>> \in Seq(Words)
      OBVIOUS
    <2> QED
      BY <2>1, TextIs
  <1> QED
    BY <1>1, <1>2, <1>3, <1>4 DEF BehindBy

LEMMA AnswersSay ==
    ASSUME NEW G, NEW R, NEW C, Answers(mode, G, R, C)
    PROVE  TokensSay(mode, G) = [reasoning |-> R, content |-> C] /\ G \in Seq(Words) /\ R \in Txt /\ C \in Txt
  <1>1. PICK x \in Seq(Words \ {"/think"}), spaces \in Seq(Words), rest \in Seq(Words) :
            AnswersBy(mode, G, R, C, x, spaces, rest)
    BY DEF Answers
  <1> DEFINE tail == spaces \o rest
  <1>2. tail \in Seq(Words) /\ AfterSpaces(tail) = rest /\ Text(rest) \in Txt
    <2>1. tail \in Seq(Words)
      BY ConcatIs
    <2>2. AfterSpaces(tail) = rest
      BY <1>1, AfterSpacesIs DEF AnswersBy
    <2> QED
      BY <2>1, <2>2, TextIs
  <1>3. G = Pre(mode) \o (x \o (<<"/think">> \o tail))
    BY <1>1 DEF AnswersBy
  <1> HIDE DEF tail
  <1>4. /\ TokensSay(mode, G) = [reasoning |-> Text(x), content |-> Text(AfterSpaces(tail))]
        /\ G \in Seq(Words) /\ Text(x) \in Txt
    BY <1>2, <1>3, TailSays DEF Answers
  <1> QED
    BY <1>1, <1>2, <1>4 DEF AnswersBy

(* The steps that one more token makes.                                    *)
LEMMA MoreThanNone ==
    ASSUME NEW tok \in Words
    PROVE  More(<<>>, tok) = <<tok>> /\ <<tok>> \in Seq(Words) /\ Text(<<tok>>) = Piece[tok]
  <1>1. <<>> \o <<tok>> = <<tok>>
    <2>1. <<tok>> \in Seq(Words)
      BY TextOfOne
    <2> QED
      BY <2>1, ConcatEmptySeq
  <1> QED
    BY <1>1, TextOfOne DEF More

LEMMA SilentThinks ==
    ASSUME "think" \in Words, NEW G, NEW R, NEW C, Silent(mode, G, R, C)
    PROVE  Inside(mode, More(G, "think"), R, C)
  <1> DEFINE none == <<>>
             one == <<"think">>
  <1>1. More(none, "think") = one /\ none \in Seq(Words \ {"/think"}) /\ Text(none) = none
    <2>1. More(none, "think") = one
      BY MoreThanNone
    <2>2. none \in Seq(Words \ {"/think"}) /\ none \in Seq(Words)
      OBVIOUS
    <2> QED
      BY <2>1, <2>2, TextIs
  <1>2. Pre(mode) = one /\ one \o none = one
    <2>1. Pre(mode) = one
      BY DEF Silent, Pre
    <2>2. one \in Seq(Words)
      OBVIOUS
    <2> QED
      BY <2>1, <2>2, ConcatEmptySeq
  <1> QED
    BY <1>1, <1>2 DEF Silent, Inside

LEMMA SilentSpeaks ==
    ASSUME NEW G, NEW R, NEW C, Silent(mode, G, R, C), NEW tok \in Words, tok # "think"
    PROVE  Direct(mode, More(G, tok), R, Piece[tok])
  <1>1. More(G, tok) = <<tok>> /\ <<tok>> \in Seq(Words) /\ Text(<<tok>>) = Piece[tok]
    BY MoreThanNone DEF Silent
  <1>2. <<tok>> # <<>> /\ <<tok>>[1] = tok
    OBVIOUS
  <1> QED
    BY <1>1, <1>2 DEF Silent, Direct

LEMMA DirectSpeaks ==
    ASSUME NEW G, NEW R, NEW C, Direct(mode, G, R, C), NEW tok \in Words
    PROVE  Direct(mode, More(G, tok), R, C \o Piece[tok])
  <1>1. G \in Seq(Words) /\ G # <<>>
    BY DEF Direct
  <1>2. More(G, tok) \in Seq(Words) /\ Text(More(G, tok)) = Text(G) \o Piece[tok]
    BY <1>1, MoreIs
  <1>3. More(G, tok) # <<>> /\ More(G, tok)[1] = G[1]
    <2>1. 1 \in 1 .. Len(G)
      BY <1>1
    <2> QED
      BY <1>1, <2>1, MoreIs
  <1> QED
    BY <1>2, <1>3 DEF Direct

LEMMA InsideThinks ==
    ASSUME NEW G, NEW R, NEW C, Inside(mode, G, R, C), NEW tok \in Words, tok # "/think"
    PROVE  Inside(mode, More(G, tok), R \o Piece[tok], C)
  <1>1. PICK x \in Seq(Words \ {"/think"}) : G = Pre(mode) \o x /\ R = Text(x) /\ C = <<>>
    BY DEF Inside
  <1> DEFINE y == More(x, tok)
  <1>2. x \in Seq(Words) /\ y \in Seq(Words \ {"/think"})
    <2>1. <<tok>> \in Seq(Words \ {"/think"})
      OBVIOUS
    <2>2. y \in Seq(Words \ {"/think"})
      BY <2>1, ConcatIs DEF More
    <2> QED
      BY <2>2, Slashless
  <1>3. Text(y) = R \o Piece[tok]
    BY <1>1, <1>2, MoreIs
  <1>4. More(G, tok) = Pre(mode) \o y
    <2>1. Pre(mode) \in Seq(Words)
      BY <1>2, PreIs DEF Inside
    <2> QED
      BY <1>1, <1>2, <2>1, MoreBehind
  <1> HIDE DEF y
  <1> QED
    BY <1>1, <1>2, <1>3, <1>4 DEF Inside

LEMMA InsideEnds ==
    ASSUME "/think" \in Words, NEW G, NEW R, NEW C, Inside(mode, G, R, C)
    PROVE  Behind(mode, More(G, "/think"), R, C)
  <1>1. PICK x \in Seq(Words \ {"/think"}) : G = Pre(mode) \o x /\ R = Text(x) /\ C = <<>>
    BY DEF Inside
  <1> DEFINE one == <<"/think">>
             none == <<>>
  <1>2. x \in Seq(Words) /\ Pre(mode) \in Seq(Words) /\ More(x, "/think") \in Seq(Words)
    <2>1. x \in Seq(Words)
      BY Slashless
    <2> QED
      BY <2>1, PreIs, MoreIs DEF Inside
  <1>3. More(G, "/think") = Pre(mode) \o More(x, "/think")
    BY <1>1, <1>2, MoreBehind
  <1>4. More(x, "/think") = x \o (one \o none)
    <2>1. one \in Seq(Words) /\ More(x, "/think") = x \o one
      BY <1>2, TextOfOne DEF More
    <2>2. one \o none = one
      BY <2>1, ConcatEmptySeq
    <2> QED
      BY <2>1, <2>2
  <1>5. none \in Seq(Words) /\ AllSpaces(none)
    BY DEF AllSpaces
  <1>6. BehindBy(mode, More(G, "/think"), R, C, x, none)
    BY <1>1, <1>3, <1>4, <1>5 DEF BehindBy
  <1> HIDE DEF none
  <1> QED
    BY <1>5, <1>6 DEF Inside, Behind

(* One more token behind the end of the reasoning.                         *)
LEMMA TailMore ==
    ASSUME "/think" \in Words, ~mode.prefilled => "think" \in Words,
           NEW x \in Seq(Words \ {"/think"}), NEW tail \in Seq(Words), NEW tok \in Words
    PROVE  /\ More(Pre(mode) \o (x \o (<<"/think">> \o tail)), tok) = Pre(mode) \o (x \o (<<"/think">> \o More(tail, tok)))
           /\ More(tail, tok) \in Seq(Words)
  <1> DEFINE one == <<"/think">>
             z == one \o tail
             q == x \o z
  <1>1. one \in Seq(Words) /\ x \in Seq(Words)
    BY Slashless
  <1> HIDE DEF one
  <1>2. More(z, tok) = one \o More(tail, tok) /\ More(tail, tok) \in Seq(Words)
    <2>1. one \in Seq(Words)
      BY <1>1
    <2>2. More(one \o tail, tok) = one \o More(tail, tok)
      BY <2>1, MoreBehind
    <2>3. More(tail, tok) \in Seq(Words)
      BY MoreIs
    <2> QED
      BY <2>2, <2>3
  <1>3. z \in Seq(Words)
    BY <1>1, ConcatIs
  <1> HIDE DEF z
  <1>4. More(q, tok) = x \o More(z, tok)
    BY <1>1, <1>3, MoreBehind
  <1>5. q \in Seq(Words)
    BY <1>1, <1>3, ConcatIs
  <1> HIDE DEF q
  <1>6. Pre(mode) \in Seq(Words)
    BY <1>5, PreIs
  <1>7. More(Pre(mode) \o q, tok) = Pre(mode) \o More(q, tok)
    BY <1>5, <1>6, MoreBehind
  <1> QED
    BY <1>2, <1>4, <1>7 DEF q, z, one

LEMMA BehindDrops ==
    ASSUME NEW G, NEW R, NEW C, Behind(mode, G, R, C), NEW tok \in Words, IsSpace(Piece[tok])
    PROVE  Behind(mode, More(G, tok), R, C)
  <1>1. PICK x \in Seq(Words \ {"/think"}), spaces \in Seq(Words) : BehindBy(mode, G, R, C, x, spaces)
    BY DEF Behind
  <1> DEFINE more == More(spaces, tok)
  <1>2. More(G, tok) = Pre(mode) \o (x \o (<<"/think">> \o more)) /\ more \in Seq(Words)
    BY <1>1, TailMore DEF Behind, BehindBy
  <1>3. AllSpaces(more)
    <2>1. /\ Len(more) = Len(spaces) + 1 /\ more[Len(spaces) + 1] = tok /\ Len(spaces) \in Nat
          /\ \A i \in 1 .. Len(spaces) : more[i] = spaces[i]
      BY MoreIs
    <2> HIDE DEF more
    <2>2. \A i \in 1 .. Len(more) : i \in 1 .. Len(spaces) \/ i = Len(spaces) + 1
      BY <2>1
    <2> QED
      BY <1>1, <2>1, <2>2 DEF BehindBy, AllSpaces
  <1>4. BehindBy(mode, More(G, tok), R, C, x, more)
    BY <1>1, <1>2, <1>3 DEF BehindBy
  <1> HIDE DEF more
  <1> QED
    BY <1>2, <1>4 DEF Behind

LEMMA BehindAnswers ==
    ASSUME NEW G, NEW R, NEW C, Behind(mode, G, R, C), NEW tok \in Words, ~IsSpace(Piece[tok])
    PROVE  Answers(mode, More(G, tok), R, Piece[tok])
  <1>1. PICK x \in Seq(Words \ {"/think"}), spaces \in Seq(Words) : BehindBy(mode, G, R, C, x, spaces)
    BY DEF Behind
  <1> DEFINE rest == <<tok>>
  <1>2. More(G, tok) = Pre(mode) \o (x \o (<<"/think">> \o More(spaces, tok)))
    BY <1>1, TailMore DEF Behind, BehindBy
  <1>3. rest \in Seq(Words) /\ Text(rest) = Piece[tok] /\ rest # <<>> /\ rest[1] = tok
    BY TextOfOne
  <1>4. More(spaces, tok) = spaces \o rest
    BY DEF More
  <1> HIDE DEF rest
  <1>5. AnswersBy(mode, More(G, tok), R, Piece[tok], x, spaces, rest)
    BY <1>1, <1>2, <1>3, <1>4 DEF BehindBy, AnswersBy
  <1> QED
    BY <1>3, <1>5 DEF Behind, Answers

LEMMA AnswersMore ==
    ASSUME NEW G, NEW R, NEW C, Answers(mode, G, R, C), NEW tok \in Words
    PROVE  Answers(mode, More(G, tok), R, C \o Piece[tok])
  <1>1. PICK x \in Seq(Words \ {"/think"}), spaces \in Seq(Words), rest \in Seq(Words) :
            AnswersBy(mode, G, R, C, x, spaces, rest)
    BY DEF Answers
  <1> DEFINE tail == spaces \o rest
             more == More(rest, tok)
  <1>2. tail \in Seq(Words)
    BY ConcatIs
  <1>3. More(tail, tok) = spaces \o more /\ more \in Seq(Words)
    BY MoreBehind, MoreIs, ZenonT(60)
  <1>4. Text(more) = C \o Piece[tok]
    BY <1>1, MoreIs DEF AnswersBy
  <1>5. more # <<>> /\ more[1] = rest[1]
    <2>1. 1 \in 1 .. Len(rest)
      BY <1>1 DEF AnswersBy
    <2> QED
      BY <2>1, MoreIs
  <1> HIDE DEF tail, more
  <1>6. More(G, tok) = Pre(mode) \o (x \o (<<"/think">> \o More(tail, tok)))
    BY <1>1, <1>2, TailMore DEF Answers, AnswersBy, tail
  <1>7. AnswersBy(mode, More(G, tok), R, C \o Piece[tok], x, spaces, more)
    BY <1>1, <1>3, <1>4, <1>5, <1>6 DEF AnswersBy
  <1> QED
    BY <1>3, <1>7 DEF Answers

-----------------------------------------------------------------------------
(* What a task holds of an answer, and its client, in each phase.          *)

(* The requests whose reasoning ends with a token.                         *)
ByToken == mode.chat /\ mode.reasoning = "token" /\ ~mode.in_content /\ mode.tools = "none"

(* The phase that the task is in.                                          *)
Tells(m, t, G, R, C) ==
    \/ ~t.started /\ ~t.ended /\ ~t.reasoned /\ ~t.pending /\ Silent(m, G, R, C)
    \/ ~t.started /\ ~t.ended /\ t.reasoned /\ ~t.pending /\ Direct(m, G, R, C)
    \/ t.started /\ ~t.ended /\ ~t.reasoned /\ ~t.pending /\ Inside(m, G, R, C)
    \/ t.started /\ t.ended /\ ~t.reasoned /\ t.pending /\ Behind(m, G, R, C)
    \/ t.started /\ t.ended /\ t.reasoned /\ ~t.pending /\ Answers(m, G, R, C)

(* In a stream the reasoning's last character may have been cut.           *)
Reasoned(m, t, c, R) ==
    /\ IsPrefix(c.reasoning \o t.reasoning_text, R)
    /\ (m.stream => Whole(R)) => c.reasoning \o t.reasoning_text = R

(* What the client got and what the task holds are what was said.          *)
Holds(m, t, c, R, C) ==
    IF t.reasoned THEN c.content \o t.text = C /\ Reasoned(m, t, c, R)
    ELSE c.reasoning \o t.text = R /\ c.content = <<>> /\ t.reasoning_text = <<>>

(* Every token's text is told by its end.                                  *)
OffsetsOk(t) ==
    /\ \A k \in 1 .. Len(t.offsets) : ChunkLength(t.offsets, k) > 0
    /\ t.offsets = <<>> \/ t.offsets[Len(t.offsets)] = Len(t.text)

(* What is not sent is a cut character, or nothing.                        *)
Flushed(t) == t.text = <<>> \/ ~Whole(t.text)

(* While the generation goes on. In a stream the reasoning is sent before  *)
(* the answer begins, but for a cut character.                             *)
Kept(m, t, c) ==
    /\ t.keep = Npos /\ t.finish = "" /\ OffsetsOk(t)
    /\ m.stream => t.reasoning_text = <<>>
    /\ ~m.stream => c.content = <<>> /\ c.reasoning = <<>>
    /\ m.stream /\ t.pending /\ t.end_round # t.round => Flushed(t)

(* Of the tokens P, H were heard and the rest waits for the next round;    *)
(* G are those of H that come before the end of the generation.            *)
Waits(t, P, H, G) ==
    /\ P = H \o t.todo /\ H \in Seq(Words) /\ Ends(H, G, t.eog)
    /\ t.eog => ~t.halted
    /\ ~t.halted => t.todo = <<>>

(* The invariant of the rounds, and of the tokens within a round.          *)
Tracks(m, t, P, c, H, G, R, C) == Waits(t, P, H, G) /\ Tells(m, t, G, R, C) /\ Holds(m, t, c, R, C) /\ Kept(m, t, c)

LEMMA TellsTyped ==
    ASSUME NEW t, NEW G, NEW R, NEW C, Tells(mode, t, G, R, C)
    PROVE  /\ TokensSay(mode, G) = [reasoning |-> R, content |-> C]
           /\ G \in Seq(Words) /\ R \in Txt /\ C \in Txt
  <1>1. CASE Silent(mode, G, R, C)
    <2>1. <<>> \in Seq(Words) /\ <<>> \in Txt
      BY NoText
    <2> QED
      BY <1>1, <2>1, SilentSays DEF Silent
  <1>2. CASE Direct(mode, G, R, C)
    BY <1>2, DirectSays, NoText, TextIs DEF Direct
  <1>3. CASE Inside(mode, G, R, C)
    BY <1>3, InsideSays, NoText DEF Inside
  <1>4. CASE Behind(mode, G, R, C)
    BY <1>4, BehindSays, NoText DEF Behind, BehindBy
  <1>5. CASE Answers(mode, G, R, C)
    BY <1>5, AnswersSay
  <1> QED
    BY <1>1, <1>2, <1>3, <1>4, <1>5 DEF Tells

LEMMA OffsetsMore ==
    ASSUME NEW offsets \in Seq(Int), NEW n \in Nat, NEW m \in Nat, m > 0,
           \A k \in 1 .. Len(offsets) : ChunkLength(offsets, k) > 0,
           offsets = <<>> \/ offsets[Len(offsets)] = n
    PROVE  LET more == Append(offsets, n + m)
           IN  /\ \A k \in 1 .. Len(more) : ChunkLength(more, k) > 0
               /\ more # <<>> /\ more[Len(more)] = n + m
  <1> DEFINE more == Append(offsets, n + m)
             l == Len(offsets)
  <1>1. /\ more \in Seq(Int) /\ Len(more) = l + 1 /\ more[l + 1] = n + m /\ l \in Nat
        /\ \A i \in 1 .. l : more[i] = offsets[i] /\ offsets[i] \in Int
    OBVIOUS
  <1>2. offsets = <<>> \/ (l > 0 /\ offsets[l] = n)
    OBVIOUS
  <1>3. l = 0 \/ (l > 0 /\ offsets[l] = n)
    BY <1>2
  <1> HIDE DEF more, l
  <1>4. ASSUME NEW k \in 1 .. Len(more) PROVE ChunkLength(more, k) > 0
    <2>1. CASE k = l + 1
      <3>1. CASE l = 0
        BY <1>1, <2>1, <3>1 DEF ChunkLength
      <3>2. CASE l > 0
        <4>1. more[l] = n /\ k - 1 = l /\ k # 1
          BY <1>1, <1>3, <2>1, <3>2
        <4> QED
          BY <1>1, <2>1, <4>1 DEF ChunkLength
      <3> QED
        BY <1>3, <3>1, <3>2
    <2>2. CASE k # l + 1
      <3>1. k \in 1 .. l /\ more[k] = offsets[k] /\ (k # 1 => more[k - 1] = offsets[k - 1])
        BY <1>1, <2>2
      <3>2. ChunkLength(more, k) = ChunkLength(offsets, k)
        BY <3>1 DEF ChunkLength
      <3> QED
        BY <3>1, <3>2 DEF l
    <2> QED
      BY <2>1, <2>2
  <1>5. more # <<>> /\ more[Len(more)] = n + m
    BY <1>1
  <1> QED
    BY <1>4, <1>5 DEF more

Alike(t, u) ==
    /\ u.todo = t.todo /\ u.round = t.round /\ u.keep = t.keep /\ u.finish = t.finish
    /\ u.eog = t.eog /\ u.halted = t.halted /\ u.end_round = t.end_round

SameFlags(t, u) ==
    u.started = t.started /\ u.ended = t.ended /\ u.reasoned = t.reasoned /\ u.pending = t.pending

LEMMA EmitParts ==
    ASSUME NEW t \in Task, NEW piece \in Txt
    PROVE  LET u == Emit(t, piece)
           IN  /\ u \in Task /\ u.text = t.text \o piece /\ Alike(t, u) /\ SameFlags(t, u)
               /\ u.reasoning_text = t.reasoning_text
               /\ OffsetsOk(t) => OffsetsOk(u)
  <1> DEFINE u == Emit(t, piece)
  <1>1. u \in Task
    BY EmitIs
  <1>2. t.text \in Txt /\ t.offsets \in Seq(Int) /\ Len(t.text) \in Nat
    BY TaskParts DEF Task
  <1>3. CASE piece = <<>>
    <2>1. u = t
      BY <1>3 DEF Emit
    <2>2. t.text \o <<>> = t.text
      BY <1>2, ConcatEmptySeq
    <2> QED
      BY <1>1, <1>3, <2>1, <2>2 DEF Alike, SameFlags
  <1>4. CASE piece # <<>>
    <2>1. Len(piece) \in Nat /\ Len(piece) > 0 /\ Len(t.text \o piece) = Len(t.text) + Len(piece)
      BY <1>2, <1>4, TextJoins
    <2> DEFINE offsets == Append(t.offsets, Len(t.text) + Len(piece))
    <2>2. u = [t EXCEPT !.text = t.text \o piece, !.new = t.new \o piece, !.offsets = offsets]
      BY <1>4 DEF Emit, Txt
    <2> HIDE DEF offsets, u
    <2>3. /\ u.text = t.text \o piece /\ u.offsets = offsets /\ Alike(t, u) /\ SameFlags(t, u)
          /\ u.reasoning_text = t.reasoning_text
      BY <2>2 DEF Task, Alike, SameFlags
    <2>4. OffsetsOk(t) => OffsetsOk(u)
      <3> SUFFICES ASSUME OffsetsOk(t) PROVE OffsetsOk(u)
        OBVIOUS
      <3>1. /\ \A k \in 1 .. Len(offsets) : ChunkLength(offsets, k) > 0
            /\ offsets # <<>> /\ offsets[Len(offsets)] = Len(t.text) + Len(piece)
        BY <1>2, <2>1, OffsetsMore DEF OffsetsOk, offsets
      <3> QED
        BY <2>1, <2>3, <3>1 DEF OffsetsOk
    <2> QED
      BY <1>1, <2>3, <2>4 DEF u
  <1> QED
    BY <1>3, <1>4

-----------------------------------------------------------------------------
(* A token is heard, or waits for the next round.                          *)

(* What an action on a token leaves of the bookkeeping.                    *)
Heeded(t, u) == u.todo = t.todo /\ u.eog = t.eog /\ u.halted = t.halted

LEMMA HeedsOne ==
    ASSUME NEW t, NEW u, NEW P, NEW H, NEW G, Waits(t, P, H, G), ~t.eog, ~t.halted, Heeded(t, u),
           NEW tok \in Words, tok # "eog"
    PROVE  Waits(u, More(P, tok), More(H, tok), More(G, tok))
  <1>1. t.todo = <<>> /\ H = G /\ G \in Seq(Words \ {"eog"}) /\ H \in Seq(Words) /\ P = H
    <2>1. H \in Seq(Words) /\ H \o <<>> = H
      BY ConcatEmptySeq DEF Waits
    <2> QED
      BY <2>1 DEF Waits, Ends
  <1>2. More(H, tok) \in Seq(Words)
    BY <1>1, MoreIs
  <1>3. More(G, tok) \in Seq(Words \ {"eog"})
    <2>1. <<tok>> \in Seq(Words \ {"eog"})
      OBVIOUS
    <2> QED
      BY <1>1, <2>1, ConcatIs DEF More
  <1>4. More(H, tok) \o <<>> = More(H, tok)
    BY <1>2, ConcatEmptySeq
  <1> QED
    BY <1>1, <1>2, <1>3, <1>4 DEF Waits, Ends, Heeded

LEMMA LeavesOne ==
    ASSUME NEW t \in Task, NEW u, NEW P, NEW H, NEW G, Waits(t, P, H, G), ~t.eog, NEW tok \in Words,
           u = [t EXCEPT !.halted = TRUE, !.todo = Append(@, tok)]
    PROVE  Waits(u, More(P, tok), H, G)
  <1>1. t.todo \in Seq(Words)
    BY DEF Task
  <1>2. u.todo = More(t.todo, tok) /\ u.halted /\ u.eog = t.eog
    <2>1. u.todo = Append(t.todo, tok) /\ u.halted /\ u.eog = t.eog
      BY DEF Task
    <2>2. Append(t.todo, tok) = t.todo \o <<tok>>
      BY <1>1
    <2> QED
      BY <2>1, <2>2 DEF More
  <1>3. More(H \o t.todo, tok) = H \o More(t.todo, tok)
    BY <1>1, MoreBehind DEF Waits
  <1> QED
    BY <1>2, <1>3 DEF Waits

LEMMA EndsOne ==
    ASSUME NEW t \in Task, NEW u, NEW P, NEW H, NEW G, Waits(t, P, H, G), ~t.halted, NEW tok \in Words,
           u = [t EXCEPT !.eog = TRUE], t.eog \/ tok = "eog"
    PROVE  Waits(u, More(P, tok), More(H, tok), G)
  <1>1. u.todo = t.todo /\ u.halted = t.halted /\ u.eog = TRUE
    BY DEF Task
  <1>2. t.todo = <<>> /\ H \in Seq(Words) /\ P = H
    <2>1. H \in Seq(Words) /\ H \o <<>> = H
      BY ConcatEmptySeq DEF Waits
    <2> QED
      BY <2>1 DEF Waits
  <1>3. More(H, tok) \in Seq(Words) /\ More(H, tok) \o <<>> = More(H, tok)
    <2>1. More(H, tok) \in Seq(Words)
      BY <1>2, MoreIs
    <2> QED
      BY <2>1, ConcatEmptySeq
  <1>4. Ends(More(H, tok), G, TRUE)
    <2>1. G \in Seq(Words \ {"eog"}) /\ G \in Seq(Words)
      BY EndsTyped DEF Waits, Ends
    <2>2. CASE t.eog
      <3>1. PICK rest \in Seq(Words) : H = G \o (<<"eog">> \o rest)
        BY <2>2 DEF Waits, Ends
      <3>2. "eog" \in Words
        BY <2>2 DEF Waits, Ends
      <3> DEFINE one == <<"eog">>
      <3>3. one \in Seq(Words)
        BY <3>2
      <3> HIDE DEF one
      <3>4. one \o rest \in Seq(Words)
        BY <3>3, ConcatIs
      <3>5. More(one \o rest, tok) = one \o More(rest, tok)
        BY <3>3, MoreBehind
      <3>6. More(G \o (one \o rest), tok) = G \o More(one \o rest, tok)
        BY <2>1, <3>4, MoreBehind
      <3>7. More(rest, tok) \in Seq(Words)
        BY MoreIs
      <3>8. More(H, tok) = G \o (one \o More(rest, tok))
        BY <3>1, <3>5, <3>6 DEF one
      <3> QED
        BY <2>1, <3>2, <3>7, <3>8 DEF Ends, one
    <2>3. CASE ~t.eog
      <3>1. H = G /\ tok = "eog"
        BY <2>3 DEF Waits, Ends
      <3> DEFINE one == <<"eog">>
                 none == <<>>
      <3>2. one \in Seq(Words) /\ one \o none = one /\ none \in Seq(Words)
        <4>1. one \in Seq(Words)
          BY <3>1
        <4> QED
          BY <4>1, ConcatEmptySeq
      <3>3. More(H, tok) = G \o (one \o none)
        BY <3>1, <3>2 DEF More
      <3> HIDE DEF none
      <3> QED
        BY <2>1, <3>1, <3>2, <3>3 DEF Ends
    <2> QED
      BY <2>2, <2>3
  <1> QED
    BY <1>1, <1>2, <1>3, <1>4 DEF Waits

-----------------------------------------------------------------------------
(* A token in each phase.                                                  *)

Becomes(m, t, u, c, G) ==
    Heeded(t, u) /\ \E R, C : Tells(m, u, G, R, C) /\ Holds(m, u, c, R, C) /\ Kept(m, u, c)

(* What Emit leaves, of Kept.                                              *)
LEMMA KeptAlike ==
    ASSUME NEW t, NEW u, NEW c, Kept(mode, t, c), Alike(t, u), u.reasoning_text = t.reasoning_text, OffsetsOk(u),
           ~u.pending
    PROVE  Kept(mode, u, c) /\ Heeded(t, u)
  BY DEF Kept, Alike, Heeded

LEMMA PhaseSilent ==
    ASSUME mode \in Modes, ByToken, NEW t \in Task, NEW c \in Client, NEW G, NEW R, NEW C,
           ~t.started, ~t.ended, ~t.reasoned, ~t.pending, Silent(mode, G, R, C), Holds(mode, t, c, R, C), Kept(mode, t, c),
           NEW tok \in Words
    PROVE  Becomes(mode, t, StartsByToken(t, tok), c, More(G, tok))
  <1>1. t.text \in Txt /\ c.reasoning \in Txt
    BY TaskParts, ClientParts
  <1>2. c.reasoning = <<>> /\ t.text = <<>>
    <2>1. c.reasoning \o t.text = <<>>
      BY DEF Holds, Silent
    <2>2. Len(c.reasoning) + Len(t.text) = 0 /\ Len(c.reasoning) \in Nat /\ Len(t.text) \in Nat
      BY <1>1, <2>1, TextJoins
    <2>3. Len(c.reasoning) = 0 /\ Len(t.text) = 0
      <3> DEFINE m == Len(c.reasoning)
                 n == Len(t.text)
      <3>1. m + n = 0 /\ m \in Nat /\ n \in Nat
        BY <2>2
      <3> HIDE DEF m, n
      <3>2. m = 0 /\ n = 0
        BY <3>1
      <3> QED
        BY <3>2 DEF m, n
    <2> QED
      BY <1>1, <2>3 DEF Txt
  <1>3. CASE tok = "think"
    <2> DEFINE u == [t EXCEPT !.started = TRUE]
    <2>1. StartsByToken(t, tok) = u
      BY <1>3 DEF StartsByToken, ByToken
    <2>2. /\ u.started /\ ~u.ended /\ ~u.reasoned /\ ~u.pending /\ u.text = t.text /\ u.keep = t.keep
          /\ u.finish = t.finish /\ u.offsets = t.offsets /\ u.reasoning_text = t.reasoning_text /\ Heeded(t, u)
      BY DEF Task, Heeded
    <2> HIDE DEF u
    <2>3. Inside(mode, More(G, tok), R, C)
      BY <1>3, SilentThinks
    <2>4. Tells(mode, u, More(G, tok), R, C)
      BY <2>2, <2>3 DEF Tells
    <2>5. Holds(mode, u, c, R, C)
      BY <2>2 DEF Holds
    <2>6. Kept(mode, u, c)
      BY <2>2 DEF Kept, OffsetsOk
    <2> QED
      BY <2>1, <2>2, <2>4, <2>5, <2>6 DEF Becomes
  <1>4. CASE tok # "think"
    <2> DEFINE w == [t EXCEPT !.reasoned = TRUE]
               u == Emit(w, Piece[tok])
    <2>1. StartsByToken(t, tok) = u
      BY <1>4 DEF StartsByToken
    <2>2. w \in Task
      BY DEF Task
    <2>3. /\ ~w.started /\ ~w.ended /\ w.reasoned /\ ~w.pending /\ w.text = t.text /\ Alike(t, w)
          /\ w.offsets = t.offsets /\ w.reasoning_text = t.reasoning_text
      BY DEF Task, Alike
    <2> HIDE DEF w
    <2>4. /\ u.text = w.text \o Piece[tok] /\ Alike(w, u) /\ SameFlags(w, u)
          /\ u.reasoning_text = w.reasoning_text /\ (OffsetsOk(w) => OffsetsOk(u))
      BY <2>2, PieceTyped, EmitParts
    <2> HIDE DEF u
    <2>5. Alike(t, u) /\ OffsetsOk(w)
      BY <2>3, <2>4 DEF Alike, OffsetsOk, Kept
    <2>6. ~u.started /\ ~u.ended /\ u.reasoned /\ ~u.pending
      BY <2>3, <2>4 DEF SameFlags
    <2>7. Kept(mode, u, c) /\ Heeded(t, u)
      <3>1. u.reasoning_text = t.reasoning_text /\ OffsetsOk(u)
        BY <2>3, <2>4, <2>5
      <3> QED
        BY <2>5, <2>6, <3>1, KeptAlike
    <2>8. Direct(mode, More(G, tok), R, Piece[tok])
      BY <1>4, SilentSpeaks
    <2>9. Tells(mode, u, More(G, tok), R, Piece[tok])
      BY <2>6, <2>8 DEF Tells
    <2>10. u.text = Piece[tok] /\ <<>> \o Piece[tok] = Piece[tok]
      <3>1. Piece[tok] \in Seq(Symbols)
        BY PieceTyped DEF Txt
      <3>2. <<>> \o Piece[tok] = Piece[tok]
        BY <3>1, ConcatEmptySeq
      <3> QED
        BY <1>2, <2>3, <2>4, <3>2
    <2>11. Holds(mode, u, c, R, Piece[tok])
      <3>1. c.content = <<>> /\ u.reasoning_text = <<>> /\ R = <<>>
        BY <2>3, <2>4 DEF Holds, Silent
      <3>2. c.reasoning \o u.reasoning_text = <<>> /\ IsPrefix(<<>>, <<>>)
        <4> DEFINE none == <<>>
        <4>1. none \in Seq(Symbols) /\ c.reasoning \o u.reasoning_text = none \o none
          BY <1>2, <3>1
        <4> HIDE DEF none
        <4>2. none \o <<>> = none /\ <<>> \o none = none
          BY <4>1, ConcatEmptySeq
        <4>3. IsPrefix(none, none \o none)
          BY <4>1, PrefixIs
        <4> QED
          BY <4>1, <4>2, <4>3 DEF none
      <3> QED
        BY <2>6, <2>10, <3>1, <3>2 DEF Holds, Reasoned
    <2> QED
      BY <2>1, <2>7, <2>9, <2>11 DEF Becomes
  <1> QED
    BY <1>3, <1>4

(* Text that is content already.                                           *)
LEMMA PhaseContent ==
    ASSUME mode \in Modes, ByToken, NEW t \in Task, NEW c \in Client, NEW G, NEW R, NEW C,
           t.reasoned, ~t.pending, Tells(mode, t, G, R, C), Holds(mode, t, c, R, C), Kept(mode, t, c), NEW tok \in Words
    PROVE  Becomes(mode, t, Emit(t, Piece[tok]), c, More(G, tok))
  <1> DEFINE u == Emit(t, Piece[tok])
  <1>1. Piece[tok] \in Txt /\ t.text \in Txt /\ c.content \in Txt
    BY PieceTyped, TaskParts, ClientParts
  <1>2. /\ u.text = t.text \o Piece[tok] /\ Alike(t, u) /\ SameFlags(t, u)
        /\ u.reasoning_text = t.reasoning_text /\ (OffsetsOk(t) => OffsetsOk(u))
    BY <1>1, EmitParts
  <1> HIDE DEF u
  <1>3. Kept(mode, u, c) /\ Heeded(t, u)
    BY <1>2, KeptAlike DEF Kept, SameFlags
  <1>4. Tells(mode, u, More(G, tok), R, C \o Piece[tok])
    <2>1. CASE Direct(mode, G, R, C) /\ ~t.started /\ ~t.ended
      BY <1>2, <2>1, DirectSpeaks DEF Tells, SameFlags
    <2>2. CASE Answers(mode, G, R, C) /\ t.started /\ t.ended
      BY <1>2, <2>2, AnswersMore DEF Tells, SameFlags
    <2> QED
      BY <2>1, <2>2 DEF Tells
  <1>5. Holds(mode, u, c, R, C \o Piece[tok])
    <2>1. (c.content \o t.text) \o Piece[tok] = c.content \o u.text
      <3>1. (c.content \o t.text) \o Piece[tok] = c.content \o (t.text \o Piece[tok])
        BY <1>1, TextAssociative
      <3> QED
        BY <1>2, <3>1
    <2> QED
      BY <1>2, <2>1 DEF Holds, Reasoned, SameFlags
  <1> QED
    BY <1>3, <1>4, <1>5 DEF Becomes, u

LEMMA PhaseInside ==
    ASSUME mode \in Modes, ByToken, NEW t \in Task, NEW c \in Client, NEW G, NEW R, NEW C,
           t.started, ~t.ended, ~t.reasoned, ~t.pending, Inside(mode, G, R, C), Holds(mode, t, c, R, C), Kept(mode, t, c),
           NEW tok \in Words
    PROVE  Becomes(mode, t, EndsByToken(t, tok), c, More(G, tok))
  <1>1. Piece[tok] \in Txt /\ t.text \in Txt /\ c.reasoning \in Txt
    BY PieceTyped, TaskParts, ClientParts
  <1>2. CASE tok # "/think"
    <2> DEFINE u == Emit(t, Piece[tok])
    <2>1. EndsByToken(t, tok) = u
      BY <1>2 DEF EndsByToken
    <2>2. /\ u.text = t.text \o Piece[tok] /\ Alike(t, u) /\ SameFlags(t, u)
          /\ u.reasoning_text = t.reasoning_text /\ (OffsetsOk(t) => OffsetsOk(u))
      BY <1>1, EmitParts
    <2> HIDE DEF u
    <2>3. Kept(mode, u, c) /\ Heeded(t, u)
      BY <2>2, KeptAlike DEF Kept, SameFlags
    <2>4. Tells(mode, u, More(G, tok), R \o Piece[tok], C)
      BY <1>2, <2>2, InsideThinks DEF Tells, SameFlags
    <2>5. Holds(mode, u, c, R \o Piece[tok], C)
      <3>1. (c.reasoning \o t.text) \o Piece[tok] = c.reasoning \o u.text
        <4>1. (c.reasoning \o t.text) \o Piece[tok] = c.reasoning \o (t.text \o Piece[tok])
          BY <1>1, TextAssociative
        <4> QED
          BY <2>2, <4>1
      <3> QED
        BY <2>2, <3>1 DEF Holds, SameFlags
    <2> QED
      BY <2>1, <2>3, <2>4, <2>5 DEF Becomes
  <1>3. CASE tok = "/think"
    <2> DEFINE u == [t EXCEPT !.ended = TRUE, !.pending = TRUE, !.end_round = t.round]
    <2>1. EndsByToken(t, tok) = u
      BY <1>3 DEF EndsByToken, ByToken
    <2>2. /\ u.started /\ u.ended /\ ~u.reasoned /\ u.pending /\ u.end_round = u.round /\ u.text = t.text
          /\ u.keep = t.keep /\ u.finish = t.finish /\ u.offsets = t.offsets /\ u.reasoning_text = t.reasoning_text
          /\ Heeded(t, u)
      BY DEF Task, Heeded
    <2> HIDE DEF u
    <2>3. Tells(mode, u, More(G, tok), R, C)
      BY <1>3, <2>2, InsideEnds DEF Tells
    <2>4. Holds(mode, u, c, R, C) /\ Kept(mode, u, c)
      BY <2>2 DEF Holds, Kept, OffsetsOk
    <2> QED
      BY <2>1, <2>2, <2>3, <2>4 DEF Becomes
  <1> QED
    BY <1>2, <1>3

LEMMA PhaseBehind ==
    ASSUME mode \in Modes, ByToken, NEW t \in Task, NEW c \in Client, NEW G, NEW R, NEW C,
           t.started, t.ended, ~t.reasoned, t.pending, Behind(mode, G, R, C), Holds(mode, t, c, R, C), Kept(mode, t, c),
           NEW tok \in Words, IsSpace(Piece[tok]) \/ t.end_round # t.round
    PROVE  Becomes(mode, t, AfterReasoning(t, tok), c, More(G, tok))
  <1>1. Piece[tok] \in Txt /\ t.text \in Txt /\ c.reasoning \in Txt /\ t.reasoning_text \in Txt
    BY PieceTyped, TaskParts, ClientParts
  <1>2. CASE IsSpace(Piece[tok])
    <2>1. AfterReasoning(t, tok) = t
      BY <1>2 DEF AfterReasoning
    <2>2. Tells(mode, t, More(G, tok), R, C)
      BY <1>2, BehindDrops DEF Tells
    <2> QED
      BY <2>1, <2>2 DEF Becomes, Heeded
  <1>3. CASE ~IsSpace(Piece[tok])
    <2> DEFINE text == IF mode.stream THEN t.reasoning_text ELSE t.text
               w == [t EXCEPT !.text = <<>>, !.offsets = <<>>, !.pending = FALSE, !.reasoned = TRUE,
                              !.reasoning_text = text]
               u == Emit(w, Piece[tok])
    <2>1. AfterReasoning(t, tok) = u
      BY <1>3 DEF AfterReasoning, Cleared, ByToken, Task
    <2>2. text \in Txt
      BY <1>1
    <2>3. w \in Task
      <3>1. <<>> \in Txt /\ <<>> \in Seq(Int) /\ TRUE \in BOOLEAN /\ FALSE \in BOOLEAN
        BY NoText
      <3> HIDE DEF text
      <3> QED
        BY <2>2, <3>1 DEF Task
    <2>4. /\ w.started /\ w.ended /\ w.reasoned /\ ~w.pending /\ w.text = <<>> /\ w.offsets = <<>>
          /\ w.reasoning_text = text /\ Alike(t, w)
      BY DEF Task, Alike
    <2> HIDE DEF w
    <2>5. /\ u.text = w.text \o Piece[tok] /\ Alike(w, u) /\ SameFlags(w, u)
          /\ u.reasoning_text = w.reasoning_text /\ (OffsetsOk(w) => OffsetsOk(u))
      BY <1>1, <2>3, EmitParts
    <2> HIDE DEF u
    <2>6. u.started /\ u.ended /\ u.reasoned /\ ~u.pending /\ u.reasoning_text = text /\ Alike(t, u)
      BY <2>4, <2>5 DEF SameFlags, Alike
    <2>7. u.text = Piece[tok]
      BY <1>1, <2>4, <2>5, ConcatEmptySeq DEF Txt
    <2>8. OffsetsOk(u)
      BY <2>4, <2>5 DEF OffsetsOk
    <2>9. Kept(mode, u, c) /\ Heeded(t, u)
      BY <2>6, <2>8 DEF Kept, Alike, Heeded
    <2>10. Tells(mode, u, More(G, tok), R, Piece[tok])
      BY <1>3, <2>6, BehindAnswers DEF Tells
    <2>11. c.content \o u.text = Piece[tok]
      BY <1>1, <2>7, ConcatEmptySeq DEF Holds, Txt
    <2>12. Reasoned(mode, u, c, R)
      <3>1. c.reasoning \o t.text = R /\ t.reasoning_text = <<>> /\ R \in Txt
        BY <1>1, TextJoins DEF Holds
      <3>2. CASE mode.stream
        <4>1. u.reasoning_text = <<>> /\ c.reasoning \o <<>> = c.reasoning
          BY <1>1, <2>6, <3>1, <3>2, ConcatEmptySeq DEF Txt
        <4>2. IsPrefix(c.reasoning, R)
          BY <1>1, <3>1, PrefixIs DEF Txt
        <4>3. Whole(R) => c.reasoning = R
          <5>1. Flushed(t)
            BY <1>3, <3>2 DEF Kept
          <5>2. CASE t.text = <<>>
            BY <3>1, <4>1, <5>2
          <5>3. CASE t.text # <<>> /\ ~Whole(t.text)
            BY <1>1, <3>1, <5>3, WholeEnd DEF Txt
          <5> QED
            BY <5>1, <5>2, <5>3 DEF Flushed
        <4> QED
          BY <3>2, <4>1, <4>2, <4>3 DEF Reasoned
      <3>3. CASE ~mode.stream
        <4>1. u.reasoning_text = t.text
          BY <2>6, <3>3
        <4>2. R \o <<>> = R /\ IsPrefix(R, R \o <<>>)
          <5>1. <<>> \in Seq(Symbols)
            OBVIOUS
          <5> QED
            BY <3>1, <5>1, ConcatEmptySeq, PrefixIs DEF Txt
        <4> QED
          BY <3>1, <4>1, <4>2 DEF Reasoned
      <3> QED
        BY <3>2, <3>3
    <2>13. Holds(mode, u, c, R, Piece[tok])
      BY <2>6, <2>11, <2>12 DEF Holds
    <2> QED
      BY <2>1, <2>9, <2>10, <2>13 DEF Becomes
  <1> QED
    BY <1>2, <1>3

LEMMA TracksMore ==
    ASSUME mode \in Modes, ByToken, NEW t \in Task, NEW c \in Client, NEW P, NEW H, NEW G, NEW R, NEW C,
           Tracks(mode, t, P, c, H, G, R, C), NEW tok \in Words
    PROVE  \E h, g, r, d : Tracks(mode, Detokenize(t, tok), More(P, tok), c, h, g, r, d)
  <1> DEFINE u == Detokenize(t, tok)
  <1>1. Waits(t, P, H, G) /\ Tells(mode, t, G, R, C) /\ Holds(mode, t, c, R, C) /\ Kept(mode, t, c)
    BY DEF Tracks
  <1>2. CASE t.halted /\ ~t.eog
    <2>1. u = [t EXCEPT !.todo = Append(@, tok)]
      BY <1>2 DEF Detokenize
    <2>2. u = [t EXCEPT !.halted = TRUE, !.todo = Append(@, tok)]
      BY <1>2, <2>1 DEF Task
    <2>3. Waits(u, More(P, tok), H, G)
      BY <1>1, <1>2, <2>2, LeavesOne
    <2> HIDE DEF u
    <2>4. Tells(mode, u, G, R, C) /\ Holds(mode, u, c, R, C) /\ Kept(mode, u, c)
      BY <1>1, <2>1 DEF Task, Tells, Holds, Reasoned, Kept, OffsetsOk, Flushed
    <2> QED
      BY <2>3, <2>4 DEF Tracks, u
  <1>3. CASE t.eog \/ (~t.halted /\ tok = "eog")
    <2>1. ~t.halted
      BY <1>1, <1>3 DEF Waits
    <2>2. u = [t EXCEPT !.eog = TRUE]
      <3>1. CASE t.eog
        <4>1. u = t
          BY <3>1 DEF Detokenize
        <4> HIDE DEF u
        <4> QED
          BY <3>1, <4>1 DEF Task
      <3>2. CASE ~t.eog
        BY <1>3, <2>1, <3>2 DEF Detokenize
      <3> QED
        BY <3>1, <3>2
    <2>3. Waits(u, More(P, tok), More(H, tok), G)
      BY <1>1, <1>3, <2>1, <2>2, EndsOne
    <2> HIDE DEF u
    <2>4. Tells(mode, u, G, R, C) /\ Holds(mode, u, c, R, C) /\ Kept(mode, u, c)
      BY <1>1, <2>2 DEF Task, Tells, Holds, Reasoned, Kept, OffsetsOk, Flushed
    <2> QED
      BY <2>3, <2>4 DEF Tracks, u
  <1>4. CASE ~t.eog /\ ~t.halted /\ tok # "eog"
    <2>1. CASE t.pending /\ ~IsSpace(Piece[tok]) /\ t.end_round = t.round
      <3>1. ~t.reasoned /\ t.ended
        BY <1>1, <2>1 DEF Tells
      <3>2. u = [t EXCEPT !.halted = TRUE, !.todo = Append(@, tok)]
        BY <1>4, <2>1, <3>1 DEF Detokenize, AfterReasoning
      <3>3. Waits(u, More(P, tok), H, G)
        BY <1>1, <1>4, <3>2, LeavesOne
      <3> HIDE DEF u
      <3>4. Tells(mode, u, G, R, C) /\ Holds(mode, u, c, R, C) /\ Kept(mode, u, c)
        BY <1>1, <3>2 DEF Task, Tells, Holds, Reasoned, Kept, OffsetsOk, Flushed
      <3> QED
        BY <3>3, <3>4 DEF Tracks, u
    <2>2. CASE ~ (t.pending /\ ~IsSpace(Piece[tok]) /\ t.end_round = t.round)
      <3>1. Becomes(mode, t, u, c, More(G, tok))
        <4>1. CASE t.reasoned
          <5>1. u = Emit(t, Piece[tok]) /\ ~t.pending
            BY <1>1, <1>4, <4>1 DEF Detokenize, Tells
          <5> QED
            BY <1>1, <4>1, <5>1, PhaseContent
        <4>2. CASE ~t.reasoned /\ t.ended
          <5>1. u = AfterReasoning(t, tok)
            BY <1>4, <4>2 DEF Detokenize
          <5>2. t.started /\ t.pending /\ Behind(mode, G, R, C)
            BY <1>1, <4>2 DEF Tells
          <5> HIDE DEF u
          <5> QED
            BY <1>1, <2>2, <4>2, <5>1, <5>2, PhaseBehind
        <4>3. CASE ~t.reasoned /\ ~t.ended /\ t.started
          <5>1. u = EndsByToken(t, tok)
            BY <1>4, <4>3 DEF Detokenize, ByToken
          <5>2. ~t.pending /\ Inside(mode, G, R, C)
            BY <1>1, <4>3 DEF Tells
          <5> HIDE DEF u
          <5> QED
            BY <1>1, <4>3, <5>1, <5>2, PhaseInside
        <4>4. CASE ~t.reasoned /\ ~t.ended /\ ~t.started
          <5>1. u = StartsByToken(t, tok)
            BY <1>4, <4>4 DEF Detokenize, ByToken
          <5>2. ~t.pending /\ Silent(mode, G, R, C)
            BY <1>1, <4>4 DEF Tells
          <5> HIDE DEF u
          <5> QED
            BY <1>1, <4>4, <5>1, <5>2, PhaseSilent
        <4> QED
          BY <4>1, <4>2, <4>3, <4>4
      <3> HIDE DEF u
      <3>2. PICK r, d : Tells(mode, u, More(G, tok), r, d) /\ Holds(mode, u, c, r, d) /\ Kept(mode, u, c)
        BY <3>1 DEF Becomes
      <3>3. Waits(u, More(P, tok), More(H, tok), More(G, tok))
        BY <1>1, <1>4, <3>1, HeedsOne DEF Becomes
      <3> QED
        BY <3>2, <3>3 DEF Tracks, u
    <2> QED
      BY <2>1, <2>2
  <1> QED
    BY <1>2, <1>3, <1>4

(* The same, of some tokens.                                               *)
Tracked(m, t, P, c) == \E H, G, R, C : Tracks(m, t, P, c, H, G, R, C)

LEMMA TracksAll ==
    ASSUME mode \in Modes, ByToken, NEW t \in Task, NEW c \in Client, NEW batch \in Seq(Words), NEW s \in Seq(Words),
           Tracked(mode, Begun(t, batch), s, c)
    PROVE  LET u == Detokenized(t, batch)
           IN  u \in Task /\ Tracked(mode, u, s \o (t.todo \o batch), c) /\ u.send = Whole(u.text)
  <1> DEFINE b == Begun(t, batch)
             tokens == t.todo \o batch
             n == Len(tokens)
             u == Detokenized(t, batch)
  <1>1. tokens \in Seq(Words) /\ n \in Nat
    <2>1. t.todo \in Seq(Words)
      BY DEF Task
    <2> QED
      BY <2>1, ConcatIs
  <1>2. PICK f : Detokenizes(tokens, b, f) /\ u = [f[n] EXCEPT !.send = Whole(f[n].text)]
    BY DetokenizedIs
  <1>3. f \in [0 .. n -> Task] /\ f[0] = b /\ \A k \in 1 .. n : f[k] = Detokenize(f[k - 1], tokens[k])
    BY <1>2 DEF Detokenizes
  <1> DEFINE Good == {k \in Nat : k <= n => Tracked(mode, f[k], s \o SubSeq(tokens, 1, k), c)}
  <1> HIDE DEF b, tokens, n, u
  <1>4. 0 \in Good
    <2>1. SubSeq(tokens, 1, 0) = <<>> /\ s \o <<>> = s
      <3>1. s \o <<>> = s
        BY ConcatEmptySeq
      <3>2. SubSeq(tokens, 1, 0) = <<>>
        BY <1>1
      <3> QED
        BY <3>1, <3>2
    <2>2. Tracked(mode, f[0], s \o SubSeq(tokens, 1, 0), c)
      BY <1>3, <2>1 DEF b
    <2> QED
      BY <2>2
  <1>5. ASSUME NEW k \in Nat, k \in Good PROVE k + 1 \in Good
    <2> SUFFICES ASSUME k + 1 <= n PROVE Tracked(mode, f[k + 1], s \o SubSeq(tokens, 1, k + 1), c)
      OBVIOUS
    <2>1. k \in 0 .. n /\ k + 1 \in 1 .. n /\ (k + 1) - 1 = k /\ k <= n
      BY <1>1
    <2> DEFINE first == SubSeq(tokens, 1, k)
               g == f[k]
               tok == tokens[k + 1]
               P == s \o first
    <2>2. g \in Task /\ f[k + 1] = Detokenize(g, tok) /\ Tracked(mode, g, P, c)
      BY <1>3, <1>5, <2>1
    <2>3. tok \in Words /\ first \in Seq(Words) /\ SubSeq(tokens, 1, k + 1) = Append(first, tok)
      BY <1>1, <2>1 DEF n
    <2>4. SubSeq(tokens, 1, k + 1) = More(first, tok)
      <3>1. Append(first, tok) = first \o <<tok>>
        BY <2>3, AppendIsConcat
      <3> QED
        BY <2>3, <3>1 DEF More
    <2> HIDE DEF first, g, tok, Good
    <2>5. s \o More(first, tok) = More(P, tok)
      BY <2>3, MoreBehind
    <2> HIDE DEF P
    <2>6. Tracked(mode, Detokenize(g, tok), More(P, tok), c)
      <3>1. PICK H, G, R, C : Tracks(mode, g, P, c, H, G, R, C)
        BY <2>2 DEF Tracked
      <3> QED
        BY <2>2, <2>3, <3>1, TracksMore DEF Tracked
    <2> QED
      BY <2>2, <2>4, <2>5, <2>6
  <1>6. n \in Good
    <2> HIDE DEF Good
    <2> QED
      BY <1>1, <1>4, <1>5, EveryNumber
  <1>7. Tracked(mode, f[n], s \o tokens, c)
    <2>1. SubSeq(tokens, 1, n) = tokens
      BY <1>1 DEF n
    <2>2. n <= n
      BY <1>1
    <2> QED
      BY <1>6, <2>1, <2>2
  <1>8. f[n] \in Task
    <2>1. n \in 0 .. n
      BY <1>1
    <2> QED
      BY <1>3, <2>1
  <1> DEFINE g == f[n]
             send == Whole(g.text)
  <1>9. g \in Task /\ u = [g EXCEPT !.send = send] /\ send \in BOOLEAN /\ Tracked(mode, g, s \o tokens, c)
    BY <1>2, <1>7, <1>8 DEF Whole
  <1> HIDE DEF g, send
  <1>10. u \in Task /\ u.text = g.text /\ u.send = send
    BY <1>9 DEF Task
  <1>11. Tracked(mode, u, s \o tokens, c)
    <2>1. PICK H, G, R, C : Tracks(mode, g, s \o tokens, c, H, G, R, C)
      BY <1>9 DEF Tracked
    <2>2. Tracks(mode, u, s \o tokens, c, H, G, R, C)
      <3> DEFINE P == s \o tokens
      <3> HIDE DEF P
      <3>1. Waits(g, P, H, G) /\ Tells(mode, g, G, R, C) /\ Holds(mode, g, c, R, C) /\ Kept(mode, g, c)
        BY <2>1 DEF Tracks, P
      <3>2. /\ u.todo = g.todo /\ u.eog = g.eog /\ u.halted = g.halted /\ u.started = g.started /\ u.ended = g.ended
            /\ u.reasoned = g.reasoned /\ u.pending = g.pending /\ u.text = g.text /\ u.round = g.round
            /\ u.reasoning_text = g.reasoning_text /\ u.keep = g.keep /\ u.finish = g.finish
            /\ u.offsets = g.offsets /\ u.end_round = g.end_round
        BY <1>9 DEF Task
      <3>3. Waits(u, P, H, G)
        BY <3>1, <3>2 DEF Waits
      <3>4. Tells(mode, u, G, R, C)
        BY <3>1, <3>2 DEF Tells
      <3>5. Holds(mode, u, c, R, C)
        BY <3>1, <3>2 DEF Holds, Reasoned
      <3>6. Kept(mode, u, c)
        BY <3>1, <3>2 DEF Kept, OffsetsOk, Flushed
      <3> QED
        BY <3>3, <3>4, <3>5, <3>6 DEF Tracks, P
    <2> QED
      BY <2>2 DEF Tracked
  <1> QED
    BY <1>9, <1>10, <1>11 DEF u, tokens, send, g

-----------------------------------------------------------------------------
(* The chunks of a round leave nothing.                                    *)

LEMMA JsonFlushes ==
    ASSUME mode \in Modes, mode.stream, NEW q \in States, q.task.keep = Npos, NEW length \in Int
    PROVE  LET r == to_json(q, length)
           IN  /\ r \in States /\ r.task.keep = Npos /\ r.task.offsets = q.task.offsets
               /\ length <= 0 => r.task.text = <<>>
               /\ length > 0 => Len(r.task.text) = IF length <= Len(q.task.text) THEN Len(q.task.text) - length ELSE 0
  <1> DEFINE r == to_json(q, length)
             t == q.task
             text == t.text
             n == Len(text)
             end == IF length <= n THEN length ELSE n
             keep == KeptBy(t, length)
  <1>1. t \in Task /\ text \in Txt /\ n \in Nat
    BY TaskParts DEF States
  <1>2. PICK sends \in Txt, left \in Txt : Takes(t, q.client, keep, r, sends, left)
    BY JsonKeeps
  <1>3. r \in States
    BY JsonKeeps
  <1>4. keep = IF length > 0 THEN end ELSE Npos
    <2>1. Min({length, n}) = end
      BY <1>1, MinOf
    <2> QED
      BY <2>1 DEF KeptBy
  <1> HIDE DEF r, t, keep
  <1>5. r.task.text = left /\ r.task.keep = Npos /\ r.task.offsets = t.offsets
    <2>1. r.task = [t EXCEPT !.text = left, !.calls = 0, !.keep = Npos]
      BY <1>2 DEF Takes
    <2> QED
      BY <1>1, <2>1 DEF Task
  <1>6. text = sends \o left /\ (keep = Npos => left = <<>>)
        /\ (keep # Npos => keep \in Nat /\ sends = SubStr(text, 0, keep))
    BY <1>2 DEF Takes
  <1>7. CASE length <= 0
    <2>1. left = <<>>
      BY <1>4, <1>6, <1>7
    <2> QED
      BY <1>3, <1>5, <1>7, <2>1 DEF r, t
  <1>8. CASE length > 0
    <2>1. keep = end /\ end \in Nat /\ end # Npos /\ end <= n
      BY <1>1, <1>4, <1>8 DEF Npos
    <2>2. sends = SubStr(text, 0, end)
      BY <1>6, <2>1
    <2> HIDE DEF end, text, n
    <2>3. SubStr(text, 0, end) = SubSeq(text, 1, IF end <= Len(text) THEN end ELSE Len(text))
      BY <1>1, <2>1, SubStrIs DEF Txt
    <2>4. end \in 0 .. Len(text)
      BY <1>1, <2>1 DEF n
    <2>5. Len(SubSeq(text, 1, end)) = end
      BY <1>1, <2>4, FirstPart DEF Txt
    <2>6. Len(sends) = end
      BY <2>2, <2>3, <2>4, <2>5
    <2>7. n = Len(sends) + Len(left) /\ Len(left) \in Nat
      BY <1>6, TextJoins DEF n
    <2>8. Len(left) = n - end
      <3> DEFINE l == Len(left)
      <3>1. n = end + l /\ l \in Nat
        BY <2>6, <2>7
      <3> HIDE DEF l
      <3>2. l = n - end
        BY <1>1, <2>1, <3>1
      <3> QED
        BY <3>2 DEF l
    <2>9. Len(left) = IF length <= n THEN n - length ELSE 0
      BY <1>1, <2>8 DEF end
    <2> QED
      BY <1>3, <1>5, <1>8, <2>9 DEF r, t, n, text
  <1> QED
    BY <1>7, <1>8

LEMMA ChunksFlush ==
    ASSUME mode \in Modes, mode.stream, NEW s \in States, s.task.keep = Npos, OffsetsOk(s.task)
    PROVE  Chunks(s).task.text = <<>> /\ Chunks(s).task.offsets = <<>>
  <1> DEFINE offsets == s.task.offsets
             N == Len(offsets)
             L == Len(s.task.text)
             f == CHOOSE g : IsChunked(s, offsets, g)
  <1>1. offsets \in Seq(Int) /\ N \in Nat /\ s.task \in Task /\ L \in Nat
    BY TaskParts DEF States, Task
  <1>2. CASE offsets = <<>>
    <2>1. Chunks(s) = to_json(s, 0)
      BY <1>2 DEF Chunks
    <2>2. 0 \in Int /\ 0 <= 0
      OBVIOUS
    <2> QED
      BY <1>2, <2>1, <2>2, JsonFlushes
  <1>3. CASE offsets # <<>>
    <2>1. N > 0
      BY <1>1, <1>3
    <2>2. Chunks(s) = [f[N] EXCEPT !.task.offsets = <<>>]
      BY <1>3 DEF Chunks, IsChunked, ChunkLength
    <2>3. offsets[N] = L /\ \A k \in 1 .. N : ChunkLength(offsets, k) > 0
      BY <1>3 DEF OffsetsOk
    <2> HIDE DEF f, offsets, N, L
    <2>4. IsChunked(s, offsets, f)
      <3>1. \E g : IsChunked(s, offsets, g)
        BY <1>1, SomeChunked
      <3> QED
        BY <3>1 DEF f
    <2>5. \A k \in 0 .. N : f[k] = IF k = 0 THEN s ELSE to_json(f[k - 1], ChunkLength(offsets, k))
      BY <2>4 DEF IsChunked, N
    <2> DEFINE left(k) == Len(f[k].task.text)
               off(k) == IF k = 0 THEN 0 ELSE offsets[k]
               Good == {k \in Nat : k <= N => /\ f[k] \in States /\ f[k].task.keep = Npos /\ left(k) \in Nat
                                              /\ left(k) = 0 \/ left(k) + off(k) <= L}
    <2>6. 0 \in Good
      <3>1. f[0] = s
        BY <1>1, <2>5
      <3>2. left(0) = L
        BY <3>1 DEF L
      <3> HIDE DEF left
      <3> QED
        BY <1>1, <3>1, <3>2
    <2>7. ASSUME NEW k \in Nat, k \in Good PROVE k + 1 \in Good
      <3> DEFINE length == ChunkLength(offsets, k + 1)
                 q == f[k]
                 r == f[k + 1]
      <3> SUFFICES ASSUME k + 1 <= N
                   PROVE  /\ r \in States /\ r.task.keep = Npos /\ left(k + 1) \in Nat
                          /\ left(k + 1) = 0 \/ left(k + 1) + off(k + 1) <= L
        OBVIOUS
      <3>1. k \in 0 .. N /\ k + 1 \in 0 .. N /\ k + 1 # 0 /\ (k + 1) - 1 = k /\ k + 1 \in 1 .. N /\ k <= N
        BY <1>1
      <3>2. length \in Int /\ length > 0
        BY <1>1, <2>3, <3>1, LengthTyped DEF N
      <3>3. r = to_json(q, length)
        BY <2>5, <3>1
      <3>4. q \in States /\ q.task.keep = Npos /\ left(k) \in Nat /\ (left(k) = 0 \/ left(k) + off(k) <= L)
        BY <2>7, <3>1
      <3>5. length = offsets[k + 1] - off(k) /\ off(k + 1) = offsets[k + 1]
            /\ off(k) \in Int /\ offsets[k + 1] \in Int
        <4>1. k # 0 => k \in 1 .. N /\ k + 1 # 1
          BY <3>1
        <4>2. \A i \in 1 .. N : offsets[i] \in Int
          BY <1>1 DEF N
        <4>3. off(k) \in Int /\ offsets[k + 1] \in Int
          BY <3>1, <4>1, <4>2
        <4> QED
          BY <3>1, <4>1, <4>3 DEF ChunkLength
      <3> DEFINE o == offsets[k + 1]
                 p == off(k)
                 m == left(k)
                 w == left(k + 1)
      <3> HIDE DEF length, q
      <3>6. /\ r \in States /\ r.task.keep = Npos
            /\ Len(r.task.text) = IF length <= Len(q.task.text) THEN Len(q.task.text) - length ELSE 0
        BY <3>2, <3>3, <3>4, JsonFlushes
      <3>7. w = IF length <= m THEN m - length ELSE 0
        BY <3>6 DEF q
      <3>8. m \in Nat /\ (m = 0 \/ m + p <= L) /\ length = o - p /\ off(k + 1) = o /\ o \in Int /\ p \in Int
        BY <3>4, <3>5
      <3> HIDE DEF m, w, o, p, r, left, off
      <3>9. w \in Nat /\ (w = 0 \/ w + o <= L)
        BY <1>1, <3>2, <3>7, <3>8
      <3> QED
        BY <3>6, <3>8, <3>9 DEF w, r
    <2>8. N \in Good
      <3> HIDE DEF Good
      <3> QED
        BY <1>1, <2>6, <2>7, EveryNumber
    <2>9. f[N] \in States /\ left(N) \in Nat /\ (left(N) = 0 \/ left(N) + offsets[N] <= L)
      <3>1. N <= N /\ N # 0
        BY <1>1, <2>1
      <3> HIDE DEF left
      <3> QED
        BY <2>8, <3>1
    <2> DEFINE r == f[N]
               t == r.task
    <2>10. t \in Task /\ r \in States /\ Len(t.text) = 0 /\ t.text \in Txt
      <3>1. r \in States /\ t \in Task
        BY <2>9 DEF States
      <3> DEFINE l == left(N)
      <3>2. l \in Nat /\ (l = 0 \/ l + L <= L)
        BY <2>3, <2>9
      <3> HIDE DEF l
      <3>3. l = 0
        BY <1>1, <3>2
      <3> QED
        BY <3>1, <3>3, TaskParts DEF l
    <2> HIDE DEF r, t
    <2>11. t.text = <<>>
      BY <2>10 DEF Txt
    <2>12. Chunks(s).task = [t EXCEPT !.offsets = <<>>]
      BY <2>2, <2>10 DEF r, t, States
    <2> QED
      BY <2>10, <2>11, <2>12 DEF Task
  <1> QED
    BY <1>2, <1>3

-----------------------------------------------------------------------------
(* The end of a round, and of a generation.                                *)

(* What the client has at the end of the generation.                       *)
Told(m, c, R, C, all) ==
    /\ IsPrefix(c.reasoning, R) /\ IsPrefix(c.content, C)
    /\ all /\ (m.stream => Whole(R)) => c.reasoning = R /\ c.content = C

LEMMA PrefixOfAll ==
    ASSUME NEW a \in Txt, NEW sends \in Txt, NEW left \in Txt
    PROVE  /\ IsPrefix(a \o sends, a \o (sends \o left))
           /\ a \o <<>> = a /\ IsPrefix(a, a)
  <1> DEFINE b == a \o sends
             none == <<>>
  <1>1. b \in Txt
    BY TextJoins
  <1>2. b \o left = a \o (sends \o left)
    BY TextAssociative
  <1>3. none \in Txt /\ a \o none = a
    BY NoText, ConcatEmptySeq DEF Txt
  <1> HIDE DEF b, none
  <1>4. IsPrefix(b, b \o left)
    BY <1>1, PrefixIs DEF Txt
  <1>5. IsPrefix(a, a \o none)
    BY <1>3, PrefixIs DEF Txt
  <1> QED
    BY <1>2, <1>3, <1>4, <1>5 DEF b, none

Ending(t, p, f) == [t EXCEPT !.keep = p, !.finish = f]

(* How the client is told.                                                 *)
EndTold(v, s, R, C, all) ==
    /\ s \in States /\ s.task.keep = Npos /\ s.task.finish = v.finish /\ SameTask(v, s.task)
    /\ Told(mode, s.client, R, C, all)

LEMMA FinishTold ==
    ASSUME mode \in Modes, ByToken, NEW t \in Task, client \in Client, NEW G, NEW R, NEW C,
           Tells(mode, t, G, R, C), Holds(mode, t, client, R, C), NEW p \in Nat, NEW f \in Finishes, f # ""
    PROVE  Ending(t, p, f) \in Task
           /\ EndTold(Ending(t, p, f), Sent(Ending(t, p, f)), R, C, p = Len(t.text))
  <1> DEFINE v == Ending(t, p, f)
             s == Sent(v)
             c == Quiet(client)
             a == client.reasoning
             b == client.content
             text == t.text
             r == t.reasoning_text
  <1>1. a \in Txt /\ b \in Txt /\ text \in Txt /\ r \in Txt /\ Len(text) \in Nat
    BY TaskParts, ClientParts
  <1>2. /\ v \in Task /\ v.keep = p /\ v.finish = f /\ v.text = text /\ v.reasoned = t.reasoned
        /\ v.reasoning_text = r
    <2>1. p \in Int
      BY NotNpos
    <2> QED
      BY <2>1 DEF Task, Ending, v
  <1> HIDE DEF c, s, v
  <1>3. s \in States /\ c.content = b /\ c.reasoning = a /\ \E sends \in Txt, left \in Txt : Takes(v, c, p, s, sends, left)
    BY <1>2, SentIs DEF c, s
  <1>4. PICK sends \in Txt, left \in Txt : Takes(v, c, p, s, sends, left)
    BY <1>3
  <1>5. Taken(v, c, s, sends, left)
    BY <1>2, <1>4, TakesIs
  <1>6. text = sends \o left /\ sends = SubStr(text, 0, p)
    <2>1. p # Npos
      BY NotNpos
    <2> QED
      BY <1>2, <1>4, <2>1 DEF Takes
  <1>7. p = Len(text) => sends = text
    <2>1. p >= Len(text) => SubStr(text, 0, p) = text
      BY <1>1, SubStrIs DEF Txt
    <2>2. p = Len(text) => p >= Len(text)
      BY NotNpos
    <2> QED
      BY <1>6, <2>1, <2>2
  <1>8. SameTask(v, s.task) /\ s.task.keep = Npos /\ s.task.finish = f
    BY <1>2, <1>5 DEF Taken, SameTask
  <1> HIDE DEF a, b, text, r
  <1>9. Told(mode, s.client, R, C, p = Len(text))
    <2>1. CASE t.reasoned
      <3>1. s.client.content = b \o sends /\ s.client.reasoning = a \o r
        BY <1>2, <1>3, <1>5, <2>1 DEF Taken, Reasons, ByToken
      <3>2. b \o text = C /\ IsPrefix(a \o r, R) /\ ((mode.stream => Whole(R)) => a \o r = R)
        BY <2>1 DEF Holds, Reasoned, a, b, text, r
      <3>3. IsPrefix(b \o sends, C)
        BY <1>1, <1>6, <3>2, PrefixOfAll
      <3>4. p = Len(text) => b \o sends = C
        BY <1>7, <3>2
      <3> QED
        BY <3>1, <3>2, <3>3, <3>4 DEF Told
    <2>2. CASE ~t.reasoned
      <3>1. s.client.content = b \o <<>> /\ s.client.reasoning = a \o sends
        BY <1>2, <1>3, <1>5, <2>2 DEF Taken, Reasons, ByToken
      <3>2. a \o text = R /\ b = <<>> /\ C = <<>>
        <4>1. C = <<>>
          BY <2>2 DEF Tells, Silent, Inside, Behind, BehindBy
        <4> QED
          BY <2>2, <4>1 DEF Holds, a, b, text
      <3>3. IsPrefix(a \o sends, R)
        BY <1>1, <1>6, <3>2, PrefixOfAll
      <3>4. p = Len(text) => a \o sends = R
        BY <1>7, <3>2
      <3>5. s.client.content = C /\ IsPrefix(C, C)
        <4>1. b \o <<>> = b /\ IsPrefix(b, b)
          BY <1>1, PrefixOfAll
        <4> QED
          BY <3>1, <3>2, <4>1
      <3> QED
        BY <3>1, <3>3, <3>4, <3>5 DEF Told
    <2> QED
      BY <2>1, <2>2
  <1> QED
    BY <1>2, <1>3, <1>8, <1>9 DEF text, EndTold, s, v

(* The generation goes on.                                                 *)
LEMMA GoesOn ==
    ASSUME mode \in Modes, ByToken, NEW t \in Task, client \in Client, NEW P, NEW H, NEW G, NEW R, NEW C,
           Tracks(mode, t, P, client, H, G, R, C), t.send = Whole(t.text)
    PROVE  LET s == Sent(t)
           IN  /\ s \in States /\ s.task.keep = Npos /\ s.task.finish = "" /\ s.task.eog = t.eog
               /\ Tracks(mode, s.task, P, s.client, H, G, R, C)
               /\ mode.stream => Flushed(s.task)
  <1> DEFINE s == Sent(t)
             c == Quiet(client)
             q == [task |-> t, client |-> c]
  <1>1. Waits(t, P, H, G) /\ Tells(mode, t, G, R, C) /\ Holds(mode, t, client, R, C) /\ Kept(mode, t, client)
    BY DEF Tracks
  <1>2. t.keep = Npos /\ t.finish = ""
    BY <1>1 DEF Kept
  <1> HIDE DEF s
  <1>3. /\ c \in Client /\ c.content = client.content /\ c.reasoning = client.reasoning /\ s \in States
        /\ t.send /\ mode.stream =>
               \E sends \in Txt, left \in Txt : \E n \in Nat : ChunkedBy(q, s, sends, left, n)
        /\ ~(t.send /\ mode.stream) => s = q
    BY <1>2, SentIs DEF s
  <1> HIDE DEF c
  <1>4. q.task = t /\ q.client = c /\ q \in States
    BY <1>2, <1>3 DEF States
  <1>5. CASE ~(t.send /\ mode.stream)
    <2>1. s.task = t /\ s.client = c
      BY <1>3, <1>4, <1>5
    <2>2. Holds(mode, t, c, R, C) /\ Kept(mode, t, c)
      BY <1>1, <1>3 DEF Holds, Reasoned, Kept
    <2>3. mode.stream => Flushed(t)
      BY <1>5 DEF Flushed
    <2> QED
      BY <1>1, <1>2, <1>3, <2>1, <2>2, <2>3 DEF Tracks, s
  <1>6. CASE t.send /\ mode.stream
    <2>1. PICK sends \in Txt, left \in Txt : \E n \in Nat : ChunkedBy(q, s, sends, left, n)
      BY <1>3, <1>6
    <2>2. PICK n \in Nat : ChunkedBy(q, s, sends, left, n)
      BY <2>1
    <2>3. ChunksTaken(q, s, sends, left)
      BY <1>4, <2>2, ChunkedIs
    <2>4. s = Chunks(q)
      BY <1>2, <1>6 DEF s, Sent, q, c, Quiet
    <2>5. s.task.text = <<>> /\ s.task.offsets = <<>>
      BY <1>1, <1>2, <1>4, <1>6, <2>4, ChunksFlush DEF Kept
    <2> HIDE DEF q
    <2>6. /\ s.task.keep = Npos /\ s.task.finish = "" /\ s.task.eog = t.eog /\ s.task.reasoned = t.reasoned
          /\ s.task.todo = t.todo /\ s.task.started = t.started /\ s.task.ended = t.ended
          /\ s.task.pending = t.pending /\ s.task.reasoning_text = t.reasoning_text /\ s.task.halted = t.halted
      BY <1>2, <1>4, <2>3 DEF ChunksTaken, SameTask
    <2>7. t.reasoning_text = <<>>
      BY <1>1, <1>6 DEF Kept
    <2>8. /\ t.text = sends \o left /\ left = <<>>
          /\ s.client.content = client.content \o (IF Reasons(t) THEN <<>> ELSE sends)
          /\ s.client.reasoning = client.reasoning \o (IF Reasons(t) THEN sends ELSE <<>>)
      BY <1>3, <1>4, <2>3, <2>5, <2>7 DEF ChunksTaken
    <2>9. t.text = sends
      <3>1. sends \o <<>> = sends
        BY PrefixOfAll
      <3> QED
        BY <2>8, <3>1
    <2>10. /\ client.content \in Txt /\ client.reasoning \in Txt
           /\ s.client.content \in Txt /\ s.client.reasoning \in Txt
      <3>1. s.client \in Client
        BY <1>3 DEF States
      <3> QED
        BY <3>1, ClientParts
    <2>11. s.client.content \o s.task.text = s.client.content /\ s.client.reasoning \o s.task.text = s.client.reasoning
      BY <2>5, <2>10, PrefixOfAll
    <2>12. client.content \o <<>> = client.content /\ client.reasoning \o <<>> = client.reasoning
      BY <2>10, PrefixOfAll
    <2>13. Holds(mode, s.task, s.client, R, C)
      <3>1. CASE t.reasoned
        <4>1. s.client.content = client.content \o t.text /\ s.client.reasoning = client.reasoning
          BY <2>8, <2>9, <2>12, <3>1 DEF Reasons
        <4> QED
          BY <1>1, <2>6, <2>11, <3>1, <4>1 DEF Holds, Reasoned
      <3>2. CASE ~t.reasoned
        <4>1. s.client.content = client.content /\ s.client.reasoning = client.reasoning \o t.text
          BY <2>8, <2>9, <2>12, <3>2 DEF Reasons, ByToken
        <4> QED
          BY <1>1, <2>6, <2>7, <2>11, <3>2, <4>1 DEF Holds
      <3> QED
        BY <3>1, <3>2
    <2>14. Flushed(s.task) /\ OffsetsOk(s.task)
      BY <2>5 DEF Flushed, OffsetsOk
    <2>15. Kept(mode, s.task, s.client)
      BY <1>6, <2>6, <2>7, <2>14 DEF Kept
    <2>16. Waits(s.task, P, H, G) /\ Tells(mode, s.task, G, R, C)
      BY <1>1, <2>6 DEF Waits, Tells
    <2> QED
      BY <1>3, <2>6, <2>13, <2>14, <2>15, <2>16 DEF Tracks, s
  <1> QED
    BY <1>5, <1>6

(* The end of a generation, of whose tokens P some were heard.             *)
Finale(m, t, P, c) ==
    \E H, G, R, C : /\ Waits(t, P, H, G) /\ TokensSay(m, G) = [reasoning |-> R, content |-> C]
                    /\ Told(m, c, R, C, t.finish = "length" \/ m.stop = <<>>)

LEMMA EndingHeeds ==
    ASSUME NEW t \in Task, NEW p, NEW f
    PROVE  Heeded(t, Ending(t, p, f))
  BY DEF Task, Ending, Heeded

LEMMA WaitsOf ==
    ASSUME NEW t, NEW v, Heeded(t, v), NEW u, SameTask(v, u), NEW P, NEW H, NEW G, Waits(t, P, H, G)
    PROVE  Waits(u, P, H, G)
  BY DEF Waits, SameTask, Heeded

LEMMA TokenEnd ==
    ASSUME mode \in Modes, ByToken, NEW t \in Task, client \in Client, NEW P, Tracked(mode, t, P, client),
           t.send = Whole(t.text), NEW u, u = t \/ u = Stopped(t)
    PROVE  LET s == Sent(Finished(u))
           IN  /\ s \in States /\ s.task.keep = Npos
               /\ s.task.finish = "" => /\ ~s.task.eog /\ Tracked(mode, s.task, P, s.client)
                                        /\ mode.stream => Flushed(s.task)
               /\ s.task.finish # "" => Finale(mode, s.task, P, s.client)
  <1> DEFINE v == Finished(u)
             s == Sent(v)
  <1>1. PICK H, G, R, C : Tracks(mode, t, P, client, H, G, R, C)
    BY DEF Tracked
  <1>2. Waits(t, P, H, G) /\ Tells(mode, t, G, R, C) /\ Holds(mode, t, client, R, C) /\ t.keep = Npos /\ t.finish = ""
    BY <1>1 DEF Tracks, Kept
  <1>3. TokensSay(mode, G) = [reasoning |-> R, content |-> C]
    BY <1>2, TellsTyped, ZenonT(60)
  <1>4. CASE u # t
    <2>1. PICK k \in DOMAIN mode.stop : \E p \in Starts(t.text, mode.stop[k]) :
              StopsAt(t) # {} /\ mode.stop[k] \in Txt /\ p \in Nat /\ u = [t EXCEPT !.finish = "stop", !.keep = p]
      BY <1>4, StoppedIs
    <2>2. PICK p \in Starts(t.text, mode.stop[k]) :
              StopsAt(t) # {} /\ mode.stop[k] \in Txt /\ p \in Nat /\ u = [t EXCEPT !.finish = "stop", !.keep = p]
      BY <2>1
    <2>3. p \in Nat /\ u = Ending(t, p, "stop")
      BY <2>2 DEF Task, Ending
    <2>4. "stop" \in Finishes /\ "stop" # ""
      BY DEF Finishes
    <2>5. u \in Task /\ EndTold(u, Sent(u), R, C, p = Len(t.text))
      BY <1>2, <2>3, <2>4, FinishTold
    <2>10. u.finish = "stop"
      BY <2>3 DEF Task, Ending
    <2>11. v = u
      BY <2>4, <2>5, <2>10, FinishedIs
    <2> HIDE DEF v, s
    <2>6. /\ s \in States /\ s.task.keep = Npos /\ s.task.finish = "stop" /\ SameTask(u, s.task)
          /\ Told(mode, s.client, R, C, p = Len(t.text))
      BY <2>5, <2>10, <2>11 DEF s, EndTold
    <2>7. mode.stop # <<>>
      BY <2>1
    <2>8. Waits(s.task, P, H, G)
      <3>1. Heeded(t, u)
        BY <2>3, EndingHeeds
      <3> QED
        BY <1>2, <2>6, <3>1, WaitsOf
    <2>9. Told(mode, s.client, R, C, s.task.finish = "length" \/ mode.stop = <<>>)
      BY <2>6, <2>7 DEF Told
    <2> QED
      BY <1>3, <2>6, <2>8, <2>9 DEF Finale, s, v
  <1>5. CASE u = t /\ Finished(t) # t
    <2>1. PICK f \in {"stop", "tool_calls", "length"} : v = [t EXCEPT !.keep = Len(t.text), !.finish = f]
      BY <1>5, FinishedIs DEF Ended
    <2> DEFINE n == Len(t.text)
    <2>2. n \in Nat /\ f \in Finishes /\ f # "" /\ n \in Int
      BY TaskParts, NotNpos DEF Finishes
    <2> HIDE DEF v, s, n
    <2>3. v = Ending(t, n, f)
      BY <2>1 DEF n, Ending
    <2>4. EndTold(v, s, R, C, n = Len(t.text))
      BY <1>2, <2>2, <2>3, FinishTold DEF s
    <2>5. /\ s \in States /\ s.task.keep = Npos /\ s.task.finish = f /\ SameTask(v, s.task)
          /\ Told(mode, s.client, R, C, n = Len(t.text))
      <3>1. v.finish = f
        BY <2>3 DEF Task, Ending
      <3> QED
        BY <2>4, <3>1 DEF EndTold
    <2>6. Waits(s.task, P, H, G)
      <3>1. Heeded(t, v)
        BY <2>3, EndingHeeds
      <3> QED
        BY <1>2, <2>5, <3>1, WaitsOf
    <2>7. Told(mode, s.client, R, C, s.task.finish = "length" \/ mode.stop = <<>>)
      BY <2>5 DEF Told, n
    <2> QED
      BY <1>3, <2>2, <2>5, <2>6, <2>7 DEF Finale, s, v
  <1>6. CASE u = t /\ Finished(t) = t
    <2>1. v = t /\ ~t.eog
      BY <1>2, <1>6, FinishedIs
    <2> HIDE DEF v, s
    <2>2. /\ s \in States /\ s.task.keep = Npos /\ s.task.finish = "" /\ s.task.eog = t.eog
          /\ Tracks(mode, s.task, P, s.client, H, G, R, C)
          /\ mode.stream => Flushed(s.task)
      BY <1>1, <2>1, GoesOn DEF s
    <2> QED
      BY <2>1, <2>2 DEF Tracked, s, v
  <1> QED
    BY <1>4, <1>5, <1>6

(* The inductive invariant of the requests whose reasoning ends with a     *)
(* token.                                                                  *)
TokenTyped == task \in Task /\ client \in Client /\ sampled \in Seq(Words) /\ task.keep = Npos

TokenHolds ==
    IF task.finish = "" THEN ~task.eog /\ Tracked(mode, task, sampled, client) /\ (mode.stream => Flushed(task))
    ELSE Finale(mode, task, sampled, client)

TokenInv == mode \in Modes /\ (ByToken => TokenTyped /\ TokenHolds)

LEMMA FirstTyped ==
    ASSUME Init
    PROVE  /\ mode \in Modes /\ task \in Task /\ client \in Client /\ sampled \in Seq(Words)
           /\ task.keep = Npos /\ task.finish = "" /\ ~task.eog /\ ~task.halted /\ task.todo = <<>>
           /\ task.text = <<>> /\ task.offsets = <<>> /\ task.reasoning_text = <<>> /\ sampled = <<>>
           /\ client.content = <<>> /\ client.reasoning = <<>>
           /\ task.started = mode.prefilled /\ ~task.ended /\ task.reasoned = (mode.reasoning = "none")
           /\ ~task.pending
  <1>1. mode \in Modes /\ task = NewTask(mode) /\ sampled = <<>>
        /\ client = [content |-> <<>>, reasoning |-> <<>>, calls |-> 0, finish |-> "", chunks |-> <<>>]
    BY DEF Init
  <1>2. task \in Task
    BY <1>1, NewTaskTyped
  <1>3. client \in Client /\ client.content = <<>> /\ client.reasoning = <<>>
    <2>1. <<>> \in Seq(Txt)
      OBVIOUS
    <2> QED
      BY <1>1, <2>1, NoText DEF Client, Finishes
  <1>4. /\ task.keep = Npos /\ task.finish = "" /\ ~task.eog /\ ~task.halted /\ task.todo = <<>>
        /\ task.text = <<>> /\ task.offsets = <<>> /\ task.reasoning_text = <<>>
        /\ task.started = mode.prefilled /\ ~task.ended /\ task.reasoned = (mode.reasoning = "none")
        /\ ~task.pending
    BY <1>1 DEF NewTask
  <1>5. sampled \in Seq(Words)
    <2>1. <<>> \in Seq(Words)
      OBVIOUS
    <2> QED
      BY <1>1, <2>1
  <1> QED
    BY <1>1, <1>2, <1>3, <1>4, <1>5

LEMMA TokenInit == Init => TokenInv
  <1> SUFFICES ASSUME Init PROVE TokenInv
    OBVIOUS
  <1>1. /\ mode \in Modes /\ task \in Task /\ client \in Client /\ sampled \in Seq(Words)
        /\ task.keep = Npos /\ task.finish = "" /\ ~task.eog /\ ~task.halted /\ task.todo = <<>>
        /\ task.text = <<>> /\ task.offsets = <<>> /\ task.reasoning_text = <<>> /\ sampled = <<>>
        /\ client.content = <<>> /\ client.reasoning = <<>>
        /\ task.started = mode.prefilled /\ ~task.ended /\ task.reasoned = (mode.reasoning = "none")
        /\ ~task.pending
    BY FirstTyped
  <1> SUFFICES ASSUME ByToken PROVE TokenTyped /\ TokenHolds
    BY <1>1 DEF TokenInv
  <1> DEFINE none == <<>>
  <1>2. none \in Seq(Words) /\ none \in Txt /\ none \in Seq(Words \ {"eog"}) /\ none \in Seq(Words \ {"/think"})
        /\ Text(none) = none /\ none \o none = none
    <2>1. none \in Seq(Words) /\ none \in Txt /\ none \in Seq(Words \ {"eog"}) /\ none \in Seq(Words \ {"/think"})
      BY NoText
    <2> QED
      BY <2>1, TextIs, ConcatEmptySeq
  <1>3. Tells(mode, task, none, none, none)
    <2>1. CASE ~mode.prefilled
      BY <1>1, <2>1 DEF Tells, Silent, ByToken
    <2>2. CASE mode.prefilled
      <3>1. none = Pre(mode) \o none
        BY <1>2, <2>2 DEF Pre
      <3>2. Inside(mode, none, none, none)
        BY <1>2, <2>2, <3>1 DEF Inside
      <3> QED
        BY <1>1, <2>2, <3>2 DEF Tells, ByToken
    <2> QED
      BY <2>1, <2>2
  <1>4. Holds(mode, task, client, none, none)
    BY <1>1, <1>2 DEF Holds, ByToken
  <1>5. Kept(mode, task, client)
    <2>1. task.offsets = <<>>
      BY <1>1
    <2>2. OffsetsOk(task)
      BY <2>1 DEF OffsetsOk
    <2> QED
      BY <1>1, <2>2 DEF Kept
  <1>6. Waits(task, sampled, none, none)
    <2>1. Ends(none, none, FALSE)
      BY <1>2 DEF Ends
    <2>2. sampled = none \o task.todo
      BY <1>1, <1>2
    <2>3. task.eog = FALSE
      BY <1>1 DEF Task
    <2> HIDE DEF none
    <2> QED
      BY <1>1, <1>2, <2>1, <2>2, <2>3 DEF Waits
  <1>7. Tracked(mode, task, sampled, client) /\ Flushed(task)
    BY <1>1, <1>3, <1>4, <1>5, <1>6 DEF Tracked, Tracks, Flushed
  <1> QED
    BY <1>1, <1>7 DEF TokenTyped, TokenHolds

(* The first tokens of a round are those that waited.                      *)
LEMMA TokenBegins ==
    ASSUME mode \in Modes, ByToken, TokenTyped, TokenHolds, task.finish = "", NEW batch \in Seq(Words)
    PROVE  /\ Tracked(mode, Detokenized(task, batch), sampled \o batch, client) /\ Detokenized(task, batch) \in Task
           /\ Detokenized(task, batch).send = Whole(Detokenized(task, batch).text)
  <1> DEFINE b == Begun(task, batch)
  <1>1. task \in Task /\ client \in Client /\ ~task.eog /\ (mode.stream => Flushed(task))
    BY DEF TokenTyped, TokenHolds
  <1>2. PICK H, G, R, C : Tracks(mode, task, sampled, client, H, G, R, C)
    BY DEF TokenHolds, Tracked
  <1>3. Waits(task, sampled, H, G) /\ Tells(mode, task, G, R, C) /\ Holds(mode, task, client, R, C) /\ Kept(mode, task, client)
    BY <1>2 DEF Tracks
  <1>4. /\ b.todo = <<>> /\ ~b.halted /\ b.eog = task.eog /\ b.started = task.started /\ b.ended = task.ended
        /\ b.reasoned = task.reasoned /\ b.pending = task.pending /\ b.text = task.text
        /\ b.reasoning_text = task.reasoning_text /\ b.keep = task.keep /\ b.finish = task.finish
        /\ b.offsets = task.offsets
    BY <1>1 DEF Begun, Task
  <1> HIDE DEF b
  <1>5. H \in Seq(Words) /\ H \o <<>> = H
    <2>1. H \in Seq(Words)
      BY <1>3 DEF Waits
    <2> QED
      BY <2>1, ConcatEmptySeq
  <1>6. Waits(b, H, H, G)
    BY <1>1, <1>3, <1>4, <1>5 DEF Waits
  <1>7. Tells(mode, b, G, R, C)
    BY <1>3, <1>4 DEF Tells
  <1>8. Holds(mode, b, client, R, C)
    BY <1>3, <1>4 DEF Holds, Reasoned
  <1>9. Kept(mode, b, client)
    BY <1>1, <1>3, <1>4 DEF Kept, OffsetsOk, Flushed
  <1>10. Tracked(mode, b, H, client)
    BY <1>6, <1>7, <1>8, <1>9 DEF Tracked, Tracks
  <1> DEFINE t == Detokenized(task, batch)
  <1>11. t \in Task /\ Tracked(mode, t, H \o (task.todo \o batch), client) /\ t.send = Whole(t.text)
    BY <1>1, <1>5, <1>10, TracksAll DEF b
  <1>12. H \o (task.todo \o batch) = sampled \o batch
    <2> DEFINE todo == task.todo
    <2>1. todo \in Seq(Words) /\ sampled = H \o todo
      BY <1>1, <1>3 DEF Waits, Task
    <2> HIDE DEF todo
    <2>2. (H \o todo) \o batch = H \o (todo \o batch)
      BY <1>5, <2>1, WordsAssociative
    <2> QED
      BY <2>1, <2>2 DEF todo
  <1> QED
    BY <1>11, <1>12

LEMMA TokenStep == TokenInv /\ [Next]_vars => TokenInv'
  <1> SUFFICES ASSUME TokenInv, [Next]_vars PROVE TokenInv'
    OBVIOUS
  <1>1. CASE UNCHANGED vars
    BY <1>1 DEF vars, TokenInv, ByToken, TokenTyped, TokenHolds, Task, Client
  <1>2. CASE Next
    <2>1. mode \in Modes
      BY DEF TokenInv
    <2>2. mode' = mode
      BY <1>2 DEF Next, Round
    <2> SUFFICES ASSUME ByToken PROVE TokenTyped' /\ TokenHolds'
      BY <2>1, <2>2 DEF TokenInv, ByToken
    <2>3. TokenTyped /\ TokenHolds /\ task \in Task /\ client \in Client /\ sampled \in Seq(Words)
      BY DEF TokenInv, TokenTyped
    <2>4. PICK n \in 1 .. 1 + mode.drafted : \E batch \in [1 .. n -> mode.tokens] : Round(batch)
      BY <1>2 DEF Next
    <2>5. PICK batch \in [1 .. n -> mode.tokens] : Round(batch)
      BY <2>4
    <2>6. batch \in Seq(Words)
      <3>1. n \in Nat
        <4>1. mode.drafted \in Nat
          BY <2>1, TextAssumption
        <4> QED
          BY <4>1
      <3> QED
        BY <2>1, <3>1, ByWordTyped
    <2> DEFINE t == Detokenized(task, batch)
    <2>7. PICK u \in IF t.send THEN ToolCalls(ReasonedByWord(Stopped(t)), task.todo \o batch) ELSE {t} :
              task' = Sent(Finished(u)).task /\ client' = Sent(Finished(u)).client
      BY <2>5 DEF Round
    <2>8. sampled' = sampled \o batch /\ task.finish = ""
      BY <2>5 DEF Round
    <2> DEFINE P == sampled \o batch
    <2>9. Tracked(mode, t, P, client) /\ t \in Task /\ t.send = Whole(t.text)
      BY <2>1, <2>3, <2>6, <2>8, TokenBegins
    <2> HIDE DEF t, P
    <2>10. u = t \/ u = Stopped(t)
      <3>1. CASE t.send
        <4>1. ReasonedByWord(Stopped(t)) = Stopped(t)
          BY DEF ReasonedByWord, ByToken
        <4>2. ToolCalls(Stopped(t), task.todo \o batch) = {Stopped(t)}
          BY DEF ToolCalls, ByToken
        <4> QED
          BY <2>7, <3>1, <4>1, <4>2
      <3>2. CASE ~t.send
        BY <2>7, <3>2
      <3> QED
        BY <3>1, <3>2
    <2> DEFINE s == Sent(Finished(u))
    <2> HIDE DEF s
    <2>11. /\ s \in States /\ s.task.keep = Npos
           /\ s.task.finish = "" => /\ ~s.task.eog /\ Tracked(mode, s.task, P, s.client)
                                    /\ mode.stream => Flushed(s.task)
           /\ s.task.finish # "" => Finale(mode, s.task, P, s.client)
      BY <2>1, <2>3, <2>9, <2>10, TokenEnd DEF s
    <2>12. task' = s.task /\ client' = s.client /\ sampled' = P
      BY <2>7, <2>8 DEF s, P
    <2>13. P \in Seq(Words)
      BY <2>3, <2>6, ConcatIs DEF P
    <2>14. TokenTyped'
      BY <2>11, <2>12, <2>13 DEF States, TokenTyped, Task, Client
    <2>15. TokenHolds'
      BY <2>2, <2>11, <2>12 DEF TokenHolds
    <2> QED
      BY <2>14, <2>15
  <1> QED
    BY <1>1, <1>2

LEMMA EndsBefore ==
    ASSUME NEW P, NEW G, NEW e, Ends(P, G, e)
    PROVE  Before(P, {"eog"}) = G /\ P \in Seq(Words)
  <1>1. G \in Seq(Words \ {"eog"}) /\ G \in Seq(Words) /\ e \in BOOLEAN
    BY EndsTyped DEF Ends
  <1>2. CASE ~e
    <2>1. P = G
      BY <1>2 DEF Ends
    <2> QED
      BY <1>1, <2>1, BeforeNone
  <1>3. CASE e
    <2>1. PICK rest \in Seq(Words) : P = G \o (<<"eog">> \o rest)
      BY <1>3 DEF Ends
    <2>2. "eog" \in {"eog"} \cap Words
      BY <1>3 DEF Ends
    <2>3. Before(G \o (<<"eog">> \o rest), {"eog"}) = G /\ G \o (<<"eog">> \o rest) \in Seq(Words)
      BY <1>1, <2>2, BeforeSome
    <2> QED
      BY <2>1, <2>3
  <1> QED
    BY <1>1, <1>2, <1>3

LEMMA GeneratedIs ==
    ASSUME task \in Task, NEW H, NEW G, Waits(task, sampled, H, G)
    PROVE  Generated = G
  <1> DEFINE todo == task.todo
             n == Len(sampled) - Len(todo)
  <1>1. todo \in Seq(Words) /\ H \in Seq(Words) /\ sampled = H \o todo /\ Ends(H, G, task.eog)
    BY DEF Task, Waits
  <1> HIDE DEF todo, n
  <1>2. /\ H \o todo \in Seq(Words) /\ Len(H \o todo) = Len(H) + Len(todo) /\ Len(H) \in Nat /\ Len(todo) \in Nat
        /\ (\A i \in 1 .. Len(H) : (H \o todo)[i] = H[i])
        /\ (\A i \in 1 .. Len(todo) : (H \o todo)[Len(H) + i] = todo[i])
    <2>1. H \in Seq(Words) /\ todo \in Seq(Words)
      BY <1>1
    <2> QED
      BY <2>1, ConcatIs
  <1>3. n = Len(H)
    BY <1>1, <1>2 DEF n
  <1> DEFINE first == SubSeq(sampled, 1, n)
             q == H \o todo
             l == Len(H)
  <1>4. first = H
    <2>1. q \in Seq(Words) /\ Len(q) = l + Len(todo) /\ l \in Nat /\ Len(todo) \in Nat /\ \A i \in 1 .. l : q[i] = H[i]
      BY <1>2
    <2>2. first = SubSeq(q, 1, l)
      BY <1>1, <1>3
    <2> HIDE DEF q, l, first
    <2>3. l \in 0 .. Len(q)
      BY <2>1
    <2>4. SubSeq(q, 1, l) \in Seq(Words) /\ Len(SubSeq(q, 1, l)) = l /\ \A i \in 1 .. l : SubSeq(q, 1, l)[i] = q[i]
      BY <2>1, <2>3, FirstPart
    <2>5. first \in Seq(Words) /\ Len(first) = l /\ \A i \in 1 .. l : first[i] = H[i]
      BY <2>1, <2>2, <2>4
    <2>6. Len(first) = Len(H) /\ \A i \in 1 .. Len(first) : first[i] = H[i]
      BY <2>5 DEF l
    <2> QED
      BY <1>1, <2>5, <2>6, SeqEqual
  <1>5. Before(H, {"eog"}) = G
    BY <1>1, EndsBefore
  <1> QED
    BY <1>4, <1>5 DEF Generated, first, n, todo

(* What ReasoningSeparated says of a request it is about.                  *)
Separated ==
    /\ IsPrefix(client.reasoning, Said.reasoning) /\ IsPrefix(client.content, Said.content)
    /\ /\ task.finish = "length" \/ (task.finish # "" /\ mode.stop = <<>>)
       /\ mode.stream => Whole(Said.reasoning)
       => client.reasoning = Said.reasoning /\ client.content = Said.content

LEMMA TokenSeparates ==
    ASSUME TokenInv, ByToken
    PROVE  Separated
  <1>1. /\ mode \in Modes /\ task \in Task /\ client \in Client /\ TokenHolds
        /\ client.reasoning \in Txt /\ client.content \in Txt
    BY ClientParts DEF TokenInv, TokenTyped
  <1>2. Said = TokensSay(mode, Generated)
    BY DEF Said, ByTokens, TokensSay, ByToken
  <1>3. CASE task.finish # ""
    <2>1. PICK H, G, R, C : /\ Waits(task, sampled, H, G) /\ TokensSay(mode, G) = [reasoning |-> R, content |-> C]
                            /\ Told(mode, client, R, C, task.finish = "length" \/ mode.stop = <<>>)
      BY <1>1, <1>3 DEF TokenHolds, Finale
    <2>2. Generated = G
      BY <1>1, <2>1, GeneratedIs
    <2>3. Said.reasoning = R /\ Said.content = C
      BY <1>2, <2>1, <2>2
    <2> QED
      BY <2>1, <2>3 DEF Told, Separated
  <1>4. CASE task.finish = ""
    <2>1. PICK H, G, R, C : Tracks(mode, task, sampled, client, H, G, R, C)
      BY <1>1, <1>4 DEF TokenHolds, Tracked
    <2>2. /\ Waits(task, sampled, H, G) /\ Tells(mode, task, G, R, C) /\ Holds(mode, task, client, R, C)
          /\ Kept(mode, task, client)
      BY <2>1 DEF Tracks
    <2>3. Generated = G /\ TokensSay(mode, G) = [reasoning |-> R, content |-> C] /\ R \in Txt /\ C \in Txt
      BY <1>1, <2>2, GeneratedIs, TellsTyped
    <2>4. Said.reasoning = R /\ Said.content = C
      BY <1>2, <2>3
    <2> DEFINE a == client.reasoning
               b == client.content
               text == task.text
               none == <<>>
    <2>5. a \in Txt /\ b \in Txt /\ text \in Txt /\ none \in Txt
      BY <1>1, TaskParts, NoText
    <2>6. IsPrefix(b, C)
      <3>1. CASE task.reasoned
        <4>1. b \o text = C
          BY <2>2, <3>1 DEF Holds
        <4> HIDE DEF b, text
        <4> QED
          BY <2>5, <4>1, PrefixIs DEF Txt
      <3>2. CASE ~task.reasoned
        <4>1. b = none
          BY <2>2, <3>2 DEF Holds
        <4>2. none \o C = C
          BY <2>3, ConcatEmptySeq DEF Txt
        <4> HIDE DEF none
        <4>3. IsPrefix(none, none \o C)
          BY <2>3, <2>5, PrefixIs DEF Txt
        <4> QED
          BY <4>1, <4>2, <4>3
      <3> QED
        BY <3>1, <3>2
    <2>7. IsPrefix(a, R)
      <3>1. CASE task.reasoned /\ mode.stream
        <4>1. task.reasoning_text = <<>> /\ IsPrefix(a \o task.reasoning_text, R)
          BY <2>2, <3>1 DEF Holds, Reasoned, Kept
        <4>2. a \o <<>> = a
          BY <2>5, ConcatEmptySeq DEF Txt
        <4> QED
          BY <4>1, <4>2
      <3>2. CASE task.reasoned /\ ~mode.stream
        <4>1. a = none
          BY <2>2, <3>2 DEF Kept
        <4>2. none \o R = R
          BY <2>3, ConcatEmptySeq DEF Txt
        <4> HIDE DEF none
        <4>3. IsPrefix(none, none \o R)
          BY <2>3, <2>5, PrefixIs DEF Txt
        <4> QED
          BY <4>1, <4>2, <4>3
      <3>3. CASE ~task.reasoned
        <4>1. a \o text = R
          BY <2>2, <3>3 DEF Holds
        <4> HIDE DEF a, text
        <4> QED
          BY <2>5, <4>1, PrefixIs DEF Txt
      <3> QED
        BY <3>1, <3>2, <3>3
    <2> QED
      BY <1>4, <2>4, <2>6, <2>7 DEF Separated
  <1> QED
    BY <1>3, <1>4

-----------------------------------------------------------------------------
(* Where a word begins, and where a text ends.                             *)

Glyphs == Symbols \union ToSet(StartWord) \union ToSet(EndWord)
Gly == Seq(Glyphs)

LEMMA GlyIs ==
    /\ Txt \subseteq Gly /\ StartWord \in Gly /\ EndWord \in Gly
    /\ Len(StartWord) \in Nat /\ Len(StartWord) > 0 /\ Len(EndWord) \in Nat /\ Len(EndWord) > 0
    /\ Whole(StartWord) /\ Whole(EndWord) /\ StartWord # <<>> /\ EndWord # <<>>
  <1> DEFINE A == ToSet(StartWord)
             B == ToSet(EndWord)
  <1>1. StartWord \in Seq(A) /\ EndWord \in Seq(B) /\ StartWord # <<>> /\ EndWord # <<>>
        /\ Whole(StartWord) /\ Whole(EndWord)
    BY TextAssumption DEF IsText
  <1>2. Symbols \subseteq Glyphs /\ A \subseteq Glyphs /\ B \subseteq Glyphs
    BY DEF Glyphs
  <1> HIDE DEF A, B
  <1>3. Txt \subseteq Gly /\ Seq(A) \subseteq Gly /\ Seq(B) \subseteq Gly
    BY <1>2, SeqMonotonic DEF Txt, Gly
  <1>4. Len(StartWord) \in Nat /\ Len(StartWord) > 0 /\ Len(EndWord) \in Nat /\ Len(EndWord) > 0
    BY <1>1
  <1> QED
    BY <1>1, <1>3, <1>4

LEMMA StartsIs ==
    ASSUME NEW T, NEW s \in Seq(T), NEW w \in Seq(T), NEW p
    PROVE  p \in Starts(s, w) <=> /\ p \in Nat /\ p + Len(w) <= Len(s)
                                  /\ \A i \in 1 .. Len(w) : s[p + i] = w[i]
  <1> DEFINE n == Len(w)
             m == Len(s)
             part == SubSeq(s, p + 1, p + n)
  <1>1. n \in Nat /\ m \in Nat
    OBVIOUS
  <1>2. p \in Starts(s, w) <=> p \in 0 .. m - n /\ part = w
    BY DEF Starts
  <1>3. p \in 0 .. m - n <=> p \in Nat /\ p + n <= m
    <2> HIDE DEF m, n
    <2> QED
      BY <1>1
  <1>4. ASSUME p \in Nat, p + n <= m
        PROVE  part \in Seq(T) /\ Len(part) = n /\ \A i \in 1 .. n : part[i] = s[p + i]
    BY <1>4, SMTT(40)
  <1>5. ASSUME p \in Nat, p + n <= m
        PROVE  part = w <=> \A i \in 1 .. n : s[p + i] = w[i]
    <2>1. part \in Seq(T) /\ Len(part) = n /\ \A i \in 1 .. n : part[i] = s[p + i]
      BY <1>4, <1>5
    <2> HIDE DEF part
    <2>2. ASSUME \A i \in 1 .. n : s[p + i] = w[i] PROVE part = w
      <3>1. \A i \in 1 .. Len(part) : part[i] = w[i]
        BY <2>1, <2>2
      <3> QED
        BY <2>1, <3>1, SeqEqual
    <2> QED
      BY <2>1, <2>2
  <1> HIDE DEF part, m, n
  <1> QED
    BY <1>2, <1>3, <1>5 DEF m, n

LEMMA PrefixedBy ==
    ASSUME NEW T, NEW s \in Seq(T), NEW w \in Seq(T)
    PROVE  IsPrefix(w, s) <=> Len(w) <= Len(s) /\ \A i \in 1 .. Len(w) : s[i] = w[i]
  <1> DEFINE n == Len(w)
             part == SubSeq(s, 1, n)
  <1>1. n \in Nat /\ Len(s) \in Nat
    OBVIOUS
  <1>2. SubSeq(w, 1, Len(w)) = w
    OBVIOUS
  <1>3. IsPrefix(w, s) <=> n <= Len(s) /\ part = w
    BY <1>2 DEF IsPrefix
  <1>4. ASSUME n <= Len(s) PROVE part = w <=> \A i \in 1 .. n : s[i] = w[i]
    <2>1. n \in 0 .. Len(s)
      BY <1>1, <1>4
    <2> HIDE DEF n
    <2>2. part \in Seq(T) /\ Len(part) = n /\ \A i \in 1 .. n : part[i] = s[i]
      BY <2>1, FirstPart
    <2> HIDE DEF part
    <2>3. ASSUME \A i \in 1 .. n : s[i] = w[i] PROVE part = w
      <3>1. \A i \in 1 .. Len(part) : part[i] = w[i]
        BY <2>2, <2>3
      <3>2. Len(part) = Len(w)
        BY <2>2 DEF n
      <3> QED
        BY <2>2, <3>1, <3>2, SeqEqual
    <2> QED
      BY <2>2, <2>3
  <1> HIDE DEF part, n
  <1> QED
    BY <1>3, <1>4 DEF n

(* The first place of a word is the first place in any longer text.        *)
FirstAt(s, w, p) == p \in Starts(s, w) /\ \A q \in Starts(s, w) : p <= q

LEMMA FindIs ==
    ASSUME NEW T, NEW s \in Seq(T), NEW w \in Seq(T)
    PROVE  /\ Find(s, w) = Npos \/ FirstAt(s, w, Find(s, w))
           /\ \A p : FirstAt(s, w, p) => Find(s, w) = p /\ p \in Nat
  <1> DEFINE S == Starts(s, w)
             A == {p \in S : p >= 0}
  <1>1. S \subseteq Nat
    BY StartsIs
  <1>2. A = S
    BY <1>1
  <1>3. Find(s, w) = IF S = {} THEN Npos ELSE Min(S)
    <2>1. Find(s, w) = IF 0 < 0 \/ A = {} THEN Npos ELSE Min(A)
      BY DEF Find, FindFrom
    <2> HIDE DEF A, S
    <2> QED
      BY <1>2, <2>1
  <1> HIDE DEF S, A
  <1>4. S # {} => Min(S) \in S /\ \A q \in S : Min(S) <= q
    BY <1>1, LeastOf
  <1>5. ASSUME NEW p, p \in S, \A q \in S : p <= q PROVE Min(S) = p
    <2>1. Min(S) \in S /\ Min(S) <= p /\ p <= Min(S) /\ p \in Nat /\ Min(S) \in Nat
      BY <1>1, <1>4, <1>5
    <2> QED
      BY <2>1
  <1> QED
    BY <1>1, <1>3, <1>4, <1>5 DEF S, FirstAt

LEMMA FirstMore ==
    ASSUME NEW T, NEW s \in Seq(T), NEW x \in Seq(T), NEW w \in Seq(T), Len(w) > 0, NEW p, FirstAt(s, w, p)
    PROVE  FirstAt(s \o x, w, p)
  <1> DEFINE u == s \o x
             n == Len(w)
             m == Len(s)
             l == Len(x)
  <1>1. u \in Seq(T) /\ Len(u) = m + l /\ m \in Nat /\ l \in Nat /\ \A i \in 1 .. m : u[i] = s[i]
    BY ConcatIs
  <1>2. n \in Nat /\ n > 0
    OBVIOUS
  <1>3. \A q : q \in Starts(s, w) <=> q \in Nat /\ q + n <= m /\ \A i \in 1 .. n : s[q + i] = w[i]
    BY StartsIs
  <1> HIDE DEF u, m, l, n
  <1>4. \A q : q \in Starts(u, w) <=> q \in Nat /\ q + n <= Len(u) /\ \A i \in 1 .. n : u[q + i] = w[i]
    BY <1>1, StartsIs, SMTT(40) DEF n
  <1>5. \A q \in Nat : q + n <= m => \A i \in 1 .. n : u[q + i] = s[q + i]
    BY <1>1, <1>2
  <1>6. p \in Nat /\ p + n <= m /\ p \in Starts(s, w) /\ \A q \in Starts(s, w) : p <= q
    BY <1>3 DEF FirstAt
  <1>7. p \in Starts(u, w)
    <2>1. \A i \in 1 .. n : u[p + i] = s[p + i]
      BY <1>5, <1>6
    <2>2. \A i \in 1 .. n : s[p + i] = w[i]
      BY <1>3, <1>6
    <2>3. p \in Nat /\ p + n <= Len(u)
      BY <1>1, <1>2, <1>6
    <2> QED
      BY <1>4, <2>1, <2>2, <2>3
  <1>8. ASSUME NEW q \in Starts(u, w), ~ (p <= q) PROVE FALSE
    <2>1. q \in Nat /\ q + n <= m
      BY <1>2, <1>1, <1>4, <1>6, <1>8
    <2>2. q \in Starts(s, w)
      BY <1>3, <1>4, <1>5, <2>1
    <2> QED
      BY <1>6, <1>8, <2>2
  <1> QED
    BY <1>7, <1>8 DEF FirstAt, u

LEMMA PrefixMore ==
    ASSUME NEW T, NEW s \in Seq(T), NEW x \in Seq(T), NEW w \in Seq(T)
    PROVE  /\ IsPrefix(w, s) => IsPrefix(w, s \o x)
           /\ Len(s) >= Len(w) /\ IsPrefix(w, s \o x) => IsPrefix(w, s)
           /\ IsPrefix(w, s) /\ Len(s) <= Len(w) => s = w
           /\ IsPrefix(w, w)
  <1> DEFINE u == s \o x
             n == Len(w)
             m == Len(s)
             l == Len(x)
  <1>1. u \in Seq(T) /\ Len(u) = m + l /\ m \in Nat /\ l \in Nat /\ \A i \in 1 .. m : u[i] = s[i]
    BY ConcatIs
  <1>2. n \in Nat
    OBVIOUS
  <1>3. IsPrefix(w, s) <=> n <= m /\ \A i \in 1 .. n : s[i] = w[i]
    BY PrefixedBy
  <1>4. IsPrefix(w, w)
    BY <1>2 DEF IsPrefix
  <1>5. ASSUME IsPrefix(w, s), m <= n PROVE s = w
    <2>1. m = n /\ \A i \in 1 .. m : s[i] = w[i]
      <3> HIDE DEF m, n
      <3> QED
        BY <1>1, <1>2, <1>3, <1>5
    <2> QED
      BY <2>1, SeqEqual
  <1> HIDE DEF u, m, l, n
  <1>6. IsPrefix(w, u) <=> n <= Len(u) /\ \A i \in 1 .. n : u[i] = w[i]
    BY <1>1, PrefixedBy DEF n
  <1>7. IsPrefix(w, s) => IsPrefix(w, u)
    BY <1>1, <1>2, <1>3, <1>6
  <1>8. m >= n /\ IsPrefix(w, u) => IsPrefix(w, s)
    BY <1>1, <1>2, <1>3, <1>6
  <1> QED
    BY <1>4, <1>5, <1>7, <1>8 DEF u, m, n

(* What a cut at a place takes, and what it leaves.                        *)
LEMMA CutTwo ==
    ASSUME NEW T, NEW a \in Seq(T), NEW b \in Seq(T)
    PROVE  /\ SubStr(a \o b, 0, Len(a)) = a /\ SubStr(a \o b, Len(a), Len(a \o b)) = b
           /\ a \o b \in Seq(T)
  <1> DEFINE s == a \o b
             n == Len(a)
  <1>1. s \in Seq(T) /\ Len(s) = n + Len(b) /\ n \in Nat /\ Len(b) \in Nat
        /\ (\A i \in 1 .. n : s[i] = a[i]) /\ \A i \in 1 .. Len(b) : s[n + i] = b[i]
    BY ConcatIs
  <1> HIDE DEF s, n
  <1>2. n <= Len(s) /\ n \in 0 .. Len(s) /\ Len(s) - n = Len(b)
    BY <1>1
  <1>3. SubStr(s, 0, n) = SubSeq(s, 1, n) /\ SubStr(s, n, Len(s)) = SubSeq(s, n + 1, Len(s))
    BY <1>1, <1>2, SubStrIs
  <1>4. SubSeq(s, 1, n) = a
    <2>1. SubSeq(s, 1, n) \in Seq(T) /\ Len(SubSeq(s, 1, n)) = n /\ \A i \in 1 .. n : SubSeq(s, 1, n)[i] = s[i]
      BY <1>1, <1>2, FirstPart
    <2>2. \A i \in 1 .. Len(SubSeq(s, 1, n)) : SubSeq(s, 1, n)[i] = a[i]
      BY <1>1, <2>1
    <2>3. Len(SubSeq(s, 1, n)) = Len(a)
      BY <2>1 DEF n
    <2> QED
      BY <2>1, <2>2, <2>3, SeqEqual
  <1>5. SubSeq(s, n + 1, Len(s)) = b
    <2> DEFINE q == SubSeq(s, n + 1, Len(s))
    <2>1. q \in Seq(T) /\ Len(q) = Len(s) - n /\ \A i \in 1 .. Len(s) - n : q[i] = s[n + i]
      BY <1>1, <1>2, RestPart
    <2> HIDE DEF q
    <2>2. Len(q) = Len(b) /\ \A i \in 1 .. Len(q) : q[i] = b[i]
      BY <1>1, <1>2, <2>1
    <2>3. q = b
      BY <2>1, <2>2, SeqEqual
    <2> QED
      BY <2>3 DEF q
  <1> QED
    BY <1>1, <1>3, <1>4, <1>5 DEF s, n

LEMMA CutThree ==
    ASSUME NEW T, NEW a \in Seq(T), NEW b \in Seq(T), NEW c \in Seq(T)
    PROVE  LET s == a \o (b \o c)
           IN  /\ SubStr(s, 0, Len(a)) = a /\ SubStr(s, Len(a) + Len(b), Len(s)) = c
               /\ s \in Seq(T)
  <1> DEFINE x == a \o b
             y == b \o c
  <1>1. x \in Seq(T) /\ y \in Seq(T) /\ Len(x) = Len(a) + Len(b)
    BY ConcatIs
  <1>2. a \o y = x \o c
    BY ConcatAssociative, SMTT(40)
  <1> HIDE DEF x, y
  <1>3. SubStr(a \o y, 0, Len(a)) = a /\ a \o y \in Seq(T)
    BY <1>1, CutTwo
  <1>4. SubStr(x \o c, Len(x), Len(x \o c)) = c
    <2>1. x \in Seq(T)
      BY <1>1
    <2> QED
      BY ONLY <2>1, c \in Seq(T), CutTwo
  <1>5. SubStr(a \o y, Len(a) + Len(b), Len(a \o y)) = c
    BY <1>1, <1>2, <1>4
  <1> QED
    BY <1>3, <1>5 DEF y

LEMMA CutTyped ==
    ASSUME NEW T, NEW s \in Seq(T), NEW n \in 0 .. Len(s)
    PROVE  SubStr(s, 0, n) \in Seq(T) /\ SubStr(s, n, Len(s)) \in Seq(T) /\ Len(SubStr(s, 0, n)) = n
  <1>1. n \in Nat /\ n <= Len(s)
    OBVIOUS
  <1>2. SubStr(s, 0, n) = SubSeq(s, 1, n) /\ SubStr(s, n, Len(s)) = SubSeq(s, n + 1, Len(s))
    BY <1>1, SubStrIs
  <1> QED
    BY <1>2, FirstPart, RestPart, SMTT(40)

LEMMA CutAt ==
    ASSUME NEW T, NEW s \in Seq(T), NEW w \in Seq(T), NEW p, p \in Starts(s, w)
    PROVE  /\ s = SubStr(s, 0, p) \o (w \o SubStr(s, p + Len(w), Len(s)))
           /\ p \in 0 .. Len(s) /\ p + Len(w) \in 0 .. Len(s)
  <1> DEFINE n == Len(w)
             m == p + n
  <1>1. p \in Nat /\ n \in Nat /\ Len(s) \in Nat /\ p + n <= Len(s) /\ SubSeq(s, p + 1, p + n) = w
    BY DEF Starts
  <1> HIDE DEF n
  <1>2. p \in 0 .. Len(s) /\ m \in 0 .. Len(s) /\ m \in Nat /\ p <= Len(s) /\ m <= Len(s)
    BY <1>1
  <1>3. SubStr(s, 0, p) = SubSeq(s, 1, p)
    BY <1>1, <1>2, SubStrIs
  <1>4. SubSeq(s, 1, p) \o SubSeq(s, p + 1, p + n) = SubSeq(s, 1, p + n)
    <2>1. 1 \in 1 .. Len(s) + 1 /\ p \in 1 - 1 .. Len(s) /\ p + n \in p .. Len(s)
      BY <1>1
    <2> QED
      BY <2>1, ConcatAdjacentSubSeq
  <1> HIDE DEF m
  <1>5. SubStr(s, m, Len(s)) = SubSeq(s, m + 1, Len(s))
    BY <1>1, <1>2, SubStrIs
  <1>6. SubSeq(s, 1, m) \o SubSeq(s, m + 1, Len(s)) = s /\ SubSeq(s, m + 1, Len(s)) \in Seq(T)
    BY <1>2, RestPart
  <1>7. SubSeq(s, 1, p) \in Seq(T)
    BY <1>2, FirstPart
  <1>8. (SubSeq(s, 1, p) \o w) \o SubStr(s, m, Len(s)) = s
    BY <1>1, <1>4, <1>5, <1>6 DEF m
  <1>9. (SubSeq(s, 1, p) \o w) \o SubStr(s, m, Len(s)) = SubSeq(s, 1, p) \o (w \o SubStr(s, m, Len(s)))
    <2> DEFINE a == SubSeq(s, 1, p)
               b == SubStr(s, m, Len(s))
    <2>1. a \in Seq(T) /\ b \in Seq(T)
      BY <1>5, <1>6, <1>7
    <2> HIDE DEF a, b
    <2>2. (a \o w) \o b = a \o (w \o b)
      BY <2>1, ConcatAssociative
    <2> QED
      BY <2>2 DEF a, b
  <1> QED
    BY <1>2, <1>3, <1>8, <1>9 DEF m, n

-----------------------------------------------------------------------------
(* With words: reasoning is found in the text of each round.               *)

(* The requests whose reasoning is between words, and that are not         *)
(* streamed.                                                               *)
ByWord == mode.chat /\ mode.reasoning = "word" /\ ~mode.in_content /\ mode.tools = "none" /\ ~mode.stream /\ mode.drafted = 0

(* Some round ended right behind the word that begins the reasoning.       *)
Exact(G) == \E k \in 0 .. Len(G) : Text(SubSeq(G, 1, k)) = StartWord

LEMMA ExactMore ==
    ASSUME NEW G \in Seq(Words), NEW h \in Seq(Words), Len(h) <= 1
    PROVE  Exact(G \o h) <=> Exact(G) \/ Text(G \o h) = StartWord
  <1> DEFINE q == G \o h
             m == Len(G)
             n == Len(h)
  <1>1. q \in Seq(Words) /\ Len(q) = m + n /\ m \in Nat /\ n \in Nat /\ \A i \in 1 .. m : q[i] = G[i]
    BY ConcatIs
  <1>2. n <= 1
    OBVIOUS
  <1> HIDE DEF q, m, n
  <1>3. ASSUME NEW k \in 0 .. m PROVE SubSeq(q, 1, k) = SubSeq(G, 1, k)
    <2> DEFINE a == SubSeq(q, 1, k)
               b == SubSeq(G, 1, k)
    <2>1. k \in 0 .. Len(q) /\ k \in 0 .. Len(G)
      BY <1>1, <1>3 DEF m
    <2>2. a \in Seq(Words) /\ Len(a) = k /\ \A i \in 1 .. k : a[i] = q[i]
      BY <1>1, <2>1, FirstPart
    <2>3. b \in Seq(Words) /\ Len(b) = k /\ \A i \in 1 .. k : b[i] = G[i]
      BY <2>1, FirstPart
    <2> HIDE DEF a, b
    <2>4. \A i \in 1 .. Len(a) : a[i] = b[i]
      BY <1>1, <1>3, <2>2, <2>3
    <2>5. a = b
      BY <2>2, <2>3, <2>4, SeqEqual
    <2> QED
      BY <2>5 DEF a, b
  <1>4. SubSeq(q, 1, Len(q)) = q
    BY <1>1
  <1>5. ASSUME NEW k \in 0 .. Len(q) PROVE k \in 0 .. m \/ k = Len(q)
    BY <1>1, <1>2
  <1>6. 0 .. m \subseteq 0 .. Len(q) /\ Len(q) \in 0 .. Len(q)
    BY <1>1
  <1>7. Exact(q) <=> \E k \in 0 .. Len(q) : Text(SubSeq(q, 1, k)) = StartWord
    BY DEF Exact
  <1>8. Exact(G) <=> \E k \in 0 .. m : Text(SubSeq(G, 1, k)) = StartWord
    BY DEF Exact, m
  <1>9. Exact(q) <=> Exact(G) \/ Text(q) = StartWord
    BY <1>3, <1>4, <1>5, <1>6, <1>7, <1>8
  <1> QED
    BY <1>9 DEF q

(* What the words say of the tokens G.                                     *)
Begin(m) == IF m.prefilled THEN <<>> ELSE StartWord

WordsSay(m, G) ==
    LET out    == Text(G)
        begin  == IF m.prefilled THEN 0 ELSE Len(StartWord)
        inside == SubStr(out, begin, Len(out))
        end    == Find(inside, EndWord)
    IN  IF ~m.prefilled /\ ~IsPrefix(StartWord, out) THEN [reasoning |-> <<>>, content |-> out]
        ELSE IF end = Npos THEN [reasoning |-> inside, content |-> <<>>]
        ELSE [reasoning |-> SubStr(inside, 0, end), content |-> SubStr(inside, end + Len(EndWord), Len(inside))]

(* The cases in which that is kept apart.                                  *)
Apart(m, G) ==
    LET out == Text(G)
    IN  Whole(out) /\ (m.prefilled \/ Exact(G) \/ (~IsPrefix(StartWord, out) /\ Len(out) > Len(StartWord)))

LEMMA InsideIs ==
    ASSUME NEW G \in Seq(Words), NEW x \in Gly, Text(G) = Begin(mode) \o x
    PROVE  LET end == Find(x, EndWord)
           IN  WordsSay(mode, G) = IF end = Npos THEN [reasoning |-> x, content |-> <<>>]
                                   ELSE [reasoning |-> SubStr(x, 0, end), content |-> SubStr(x, end + Len(EndWord), Len(x))]
  <1> DEFINE out == Text(G)
             begin == IF mode.prefilled THEN 0 ELSE Len(StartWord)
  <1>1. StartWord \in Gly
    BY GlyIs
  <1>2. CASE mode.prefilled
    <2>1. out = x
      BY <1>2, ConcatEmptySeq DEF Begin, Gly
    <2>2. SubStr(x, 0, Len(x)) = x
      <3>1. Len(x) \in Nat /\ x \in Seq(Glyphs)
        BY DEF Gly
      <3>2. Len(x) >= Len(x)
        BY <3>1
      <3> QED
        BY <3>1, <3>2, SubStrIs
    <2>3. SubStr(out, begin, Len(out)) = x
      BY <1>2, <2>1, <2>2
    <2> HIDE DEF out, begin
    <2> QED
      BY <1>2, <2>3 DEF WordsSay, out, begin
  <1>3. CASE ~mode.prefilled
    <2>1. out = StartWord \o x
      BY <1>3 DEF Begin
    <2>2. SubStr(StartWord \o x, Len(StartWord), Len(StartWord \o x)) = x
      BY <1>1, CutTwo DEF Gly
    <2>3. IsPrefix(StartWord, StartWord \o x)
      BY <1>1, PrefixIs DEF Gly
    <2>4. SubStr(out, begin, Len(out)) = x /\ IsPrefix(StartWord, out)
      BY <1>3, <2>1, <2>2, <2>3
    <2> HIDE DEF out, begin
    <2> QED
      BY <1>3, <2>4 DEF WordsSay, out, begin
  <1> QED
    BY <1>2, <1>3

(* What a task has, and what the words say, after the tokens G.            *)
Unsure(m, t, G) ==
    /\ ~m.prefilled /\ ~t.started /\ ~t.ended /\ ~t.reasoned
    /\ t.text = Text(G) /\ t.reasoning_text = <<>>

Plainly(m, t, G) ==
    /\ ~m.prefilled /\ ~t.started /\ ~t.ended /\ t.reasoned
    /\ t.text = Text(G) /\ t.reasoning_text = <<>>
    /\ ~IsPrefix(StartWord, Text(G)) /\ Len(Text(G)) > Len(StartWord)

Within(m, t, G) ==
    /\ m.prefilled \/ Exact(G)
    /\ t.started /\ ~t.ended /\ ~t.reasoned
    /\ Text(G) = Begin(m) \o t.text /\ t.reasoning_text = <<>>

Joined(r, x) == r \o (EndWord \o x)

Past(m, t, G) ==
    /\ m.prefilled \/ Exact(G)
    /\ t.started /\ t.ended /\ t.reasoned
    /\ Text(G) = Begin(m) \o Joined(t.reasoning_text, t.text)
    /\ FirstAt(Joined(t.reasoning_text, t.text), EndWord, Len(t.reasoning_text))

Lost(m, t, G) ==
    /\ ~m.prefilled /\ ~Exact(G) /\ t.started /\ (t.ended => t.reasoned)
    /\ IsPrefix(StartWord, Text(G)) /\ Len(Text(G)) > Len(StartWord)

(* Behind a round, and behind the tokens of the next.                      *)
NotBegun(G) == ~Exact(G) /\ (Whole(Text(G)) => ~IsPrefix(StartWord, Text(G)) /\ Len(Text(G)) <= Len(StartWord))

WordTells(m, t, G) ==
    \/ Unsure(m, t, G) /\ NotBegun(G)
    \/ Plainly(m, t, G)
    \/ Within(m, t, G) /\ (Whole(t.text) => Find(t.text, EndWord) = Npos)
    \/ Past(m, t, G)
    \/ Lost(m, t, G)

WordHears(m, t, G) ==
    \/ Unsure(m, t, G) /\ (~Exact(G) \/ Text(G) = StartWord)
    \/ Plainly(m, t, G)
    \/ Within(m, t, G)
    \/ Past(m, t, G)
    \/ Lost(m, t, G)

LEMMA WordSays ==
    ASSUME NEW t \in Task, NEW G \in Seq(Words), WordTells(mode, t, G), Apart(mode, G)
    PROVE  WordsSay(mode, G) = IF t.reasoned THEN [reasoning |-> t.reasoning_text, content |-> t.text]
                               ELSE [reasoning |-> t.text, content |-> <<>>]
  <1> DEFINE out == Text(G)
             r == t.reasoning_text
             x == t.text
  <1>1. x \in Gly /\ r \in Gly /\ out \in Gly /\ EndWord \in Gly /\ StartWord \in Gly
        /\ Len(StartWord) \in Nat /\ Len(out) \in Nat
    BY TaskParts, GlyIs, TextIs DEF Gly
  <1>2. Whole(out) /\ (mode.prefilled \/ Exact(G) \/ (~IsPrefix(StartWord, out) /\ Len(out) > Len(StartWord)))
    BY DEF Apart
  <1> HIDE DEF out, r, x
  <1>3. ~ (Unsure(mode, t, G) /\ NotBegun(G)) /\ ~Lost(mode, t, G)
    <2>1. ASSUME Unsure(mode, t, G), NotBegun(G) PROVE FALSE
      <3>1. ~mode.prefilled /\ ~Exact(G) /\ Len(out) <= Len(StartWord)
        BY <1>2, <2>1 DEF Unsure, NotBegun, out
      <3> QED
        BY <1>1, <1>2, <3>1
    <2>2. ASSUME Lost(mode, t, G) PROVE FALSE
      BY <1>2, <2>2 DEF Lost, out
    <2> QED
      BY <2>1, <2>2
  <1>4. CASE Plainly(mode, t, G)
    <2>1. WordsSay(mode, G) = [reasoning |-> <<>>, content |-> Text(G)]
      BY <1>4 DEF Plainly, WordsSay
    <2> QED
      BY <1>4, <2>1 DEF Plainly
  <1>5. CASE Within(mode, t, G) /\ (Whole(t.text) => Find(t.text, EndWord) = Npos)
    <2>1. out = Begin(mode) \o x /\ ~t.reasoned
      BY <1>5 DEF Within, out, x
    <2>2. Whole(x)
      <3>1. CASE x = <<>>
        BY <3>1 DEF Whole
      <3>2. CASE x # <<>>
        <4>1. Begin(mode) \in Gly
          BY <1>1 DEF Begin, Gly
        <4> QED
          BY <1>1, <1>2, <2>1, <3>2, <4>1, WholeEnd DEF Gly
      <3> QED
        BY <3>1, <3>2
    <2>3. Find(x, EndWord) = Npos
      BY <1>5, <2>2 DEF x
    <2>4. Text(G) = Begin(mode) \o x
      BY <2>1 DEF out
    <2>5. WordsSay(mode, G) = [reasoning |-> x, content |-> <<>>]
      BY <1>1, <2>3, <2>4, InsideIs
    <2> QED
      BY <2>1, <2>5 DEF x
  <1>6. CASE Past(mode, t, G)
    <2> DEFINE s == Joined(r, x)
    <2>1. Text(G) = Begin(mode) \o s /\ FirstAt(s, EndWord, Len(r)) /\ t.reasoned
      BY <1>6 DEF Past, r, x
    <2>2. SubStr(s, 0, Len(r)) = r /\ SubStr(s, Len(r) + Len(EndWord), Len(s)) = x /\ s \in Gly
      BY <1>1, CutThree DEF Joined, Gly
    <2> HIDE DEF s
    <2>3. Find(s, EndWord) = Len(r) /\ Len(r) \in Nat
      BY <1>1, <2>1, <2>2, FindIs DEF Gly
    <2>4. Len(r) # Npos
      BY <2>3, NotNpos
    <2>5. WordsSay(mode, G) = [reasoning |-> r, content |-> x]
      BY <2>1, <2>2, <2>3, <2>4, InsideIs
    <2> QED
      BY <2>1, <2>5 DEF r, x
  <1> QED
    BY <1>3, <1>4, <1>5, <1>6 DEF WordTells

LEMMA GlyJoins ==
    ASSUME NEW a \in Gly, NEW b \in Gly, NEW c \in Gly
    PROVE  a \o b \in Gly /\ (a \o b) \o c = a \o (b \o c)
  <1>1. a \o b \in Gly
    BY ConcatIs DEF Gly
  <1>2. (a \o b) \o c = a \o (b \o c)
    BY ConcatAssociative DEF Gly
  <1> QED
    BY <1>1, <1>2

Adds(t, u, x) ==
    /\ u.started = t.started /\ u.ended = t.ended /\ u.reasoned = t.reasoned
    /\ u.reasoning_text = t.reasoning_text /\ u.text = t.text \o x

(* A token more, of one of which a round consists.                         *)
LEMMA WordHeard ==
    ASSUME NEW t \in Task, NEW G \in Seq(Words), WordTells(mode, t, G), NEW h \in Seq(Words), Len(h) <= 1,
           NEW u, Adds(t, u, Text(h))
    PROVE  WordHears(mode, u, G \o h)
  <1> DEFINE out == Text(G)
             r == t.reasoning_text
             x == t.text
             y == Text(h)
             H == G \o h
  <1>1. x \in Gly /\ r \in Gly /\ out \in Gly /\ y \in Gly /\ EndWord \in Gly /\ StartWord \in Gly
        /\ Len(StartWord) \in Nat /\ Len(out) \in Nat /\ Len(EndWord) > 0
    BY TaskParts, GlyIs, TextIs DEF Gly
  <1>2. Text(H) = out \o y
    BY TextConcat
  <1>3. Exact(H) <=> Exact(G) \/ Text(H) = StartWord
    BY ExactMore
  <1>4. /\ u.started = t.started /\ u.ended = t.ended /\ u.reasoned = t.reasoned
        /\ u.reasoning_text = r /\ u.text = x \o y
    BY DEF Adds
  <1>5. Len(out \o y) = Len(out) + Len(y) /\ Len(y) \in Nat
    BY <1>1, ConcatIs DEF Gly
  <1>6. /\ IsPrefix(StartWord, out) => IsPrefix(StartWord, out \o y)
        /\ Len(out) >= Len(StartWord) /\ IsPrefix(StartWord, out \o y) => IsPrefix(StartWord, out)
    BY <1>1, PrefixMore DEF Gly
  <1>b. Begin(mode) \in Gly
    BY <1>1, GlyIs DEF Begin, Gly
  <1> HIDE DEF out, r, x, y, H
  <1>7. CASE Unsure(mode, t, G) /\ NotBegun(G)
    <2>1. Unsure(mode, u, H)
      BY <1>2, <1>4, <1>7 DEF Unsure, out, r, x
    <2>2. ~Exact(H) \/ Text(H) = StartWord
      BY <1>3, <1>7 DEF NotBegun
    <2> QED
      BY <2>1, <2>2 DEF WordHears, H
  <1>8. ASSUME Len(out) > Len(StartWord) PROVE Len(Text(H)) > Len(StartWord) /\ Text(H) # StartWord
    <2>1. Len(Text(H)) > Len(StartWord)
      BY <1>1, <1>2, <1>5, <1>8
    <2> QED
      BY <1>1, <2>1
  <1>9. CASE Plainly(mode, t, G)
    <2>1. Len(out) > Len(StartWord) /\ ~IsPrefix(StartWord, out) /\ Len(out) >= Len(StartWord)
      BY <1>1, <1>9 DEF Plainly, out
    <2>2. ~IsPrefix(StartWord, Text(H)) /\ Len(Text(H)) > Len(StartWord)
      BY <1>2, <1>6, <1>8, <2>1
    <2>3. Plainly(mode, u, H)
      BY <1>2, <1>4, <1>9, <2>2 DEF Plainly, out, r, x
    <2> QED
      BY <2>3 DEF WordHears, H
  <1>10. CASE Within(mode, t, G)
    <2>1. out = Begin(mode) \o x
      BY <1>10 DEF Within, out, x
    <2>2. Text(H) = Begin(mode) \o (x \o y)
      <3>1. (Begin(mode) \o x) \o y = Begin(mode) \o (x \o y)
        BY <1>1, <1>b, GlyJoins
      <3> QED
        BY <1>2, <2>1, <3>1
    <2>3. Within(mode, u, H)
      BY <1>3, <1>4, <1>10, <2>2 DEF Within, r
    <2> QED
      BY <2>3 DEF WordHears, H
  <1>11. CASE Past(mode, t, G)
    <2> DEFINE a == Joined(r, x)
               b == Joined(r, x \o y)
    <2>1. out = Begin(mode) \o a /\ FirstAt(a, EndWord, Len(r))
      BY <1>11 DEF Past, out, r, x
    <2>2. a \in Gly /\ b = a \o y
      <3> DEFINE e == EndWord \o x
      <3>1. e \in Gly /\ EndWord \o (x \o y) = e \o y
        <4>1. e \in Gly
          BY <1>1, GlyJoins
        <4>2. (EndWord \o x) \o y = EndWord \o (x \o y)
          <5>1. EndWord \in Gly /\ x \in Gly /\ y \in Gly
            BY <1>1
          <5> QED
            BY <5>1, GlyJoins, ZenonT(60)
        <4> QED
          BY <4>1, <4>2
      <3> HIDE DEF e
      <3>2. r \o e \in Gly
        BY <1>1, <3>1, GlyJoins
      <3>3. (r \o e) \o y = r \o (e \o y)
        <4>1. r \in Gly /\ e \in Gly /\ y \in Gly
          BY <1>1, <3>1
        <4> QED
          BY <4>1, GlyJoins, ZenonT(60)
      <3>4. a = r \o e /\ b = r \o (e \o y)
        BY <3>1 DEF Joined, e
      <3> HIDE DEF a, b
      <3> QED
        BY <3>2, <3>3, <3>4
    <2> HIDE DEF a, b
    <2>3. FirstAt(a \o y, EndWord, Len(r))
      BY <1>1, <2>1, <2>2, FirstMore DEF Gly
    <2>4. Text(H) = Begin(mode) \o b
      <3>1. (Begin(mode) \o a) \o y = Begin(mode) \o (a \o y)
        <4>1. Begin(mode) \in Gly /\ a \in Gly /\ y \in Gly
          BY <1>1, <1>b, <2>2
        <4> QED
          BY <4>1, GlyJoins, ZenonT(60)
      <3> QED
        BY <1>2, <2>1, <2>2, <3>1
    <2>5. Past(mode, u, H)
      BY <1>3, <1>4, <1>11, <2>2, <2>3, <2>4 DEF Past, b
    <2> QED
      BY <2>5 DEF WordHears, H
  <1>12. CASE Lost(mode, t, G)
    <2>1. Len(out) > Len(StartWord) /\ IsPrefix(StartWord, out) /\ ~Exact(G)
      BY <1>12 DEF Lost, out
    <2>2. IsPrefix(StartWord, Text(H)) /\ Len(Text(H)) > Len(StartWord) /\ ~Exact(H)
      BY <1>2, <1>3, <1>6, <1>8, <2>1
    <2>3. Lost(mode, u, H)
      BY <1>4, <1>12, <2>2 DEF Lost
    <2> QED
      BY <2>3 DEF WordHears, H
  <1> QED
    BY <1>7, <1>9, <1>10, <1>11, <1>12 DEF WordTells

LEMMA WordEmits ==
    ASSUME mode.reasoning = "word", NEW t, NEW G, WordTells(mode, t, G)
    PROVE  Emits(t)
  BY DEF WordTells, Unsure, Plainly, Within, Past, Lost, Emits

(* What looking for the words of reasoning leaves alone.                   *)
Looked(w, u) == u \in Task /\ u.keep = w.keep /\ u.finish = w.finish /\ u.eog = w.eog /\ u.todo = w.todo

LEMMA FindNone == Find(<<>>, EndWord) = Npos
  <1> DEFINE p == Find(<<>>, EndWord)
  <1>1. <<>> \in Gly /\ EndWord \in Gly /\ Len(EndWord) > 0 /\ Len(EndWord) \in Nat
    BY GlyIs DEF Gly
  <1>2. p = Npos \/ FirstAt(<<>>, EndWord, p)
    BY <1>1, FindIs DEF Gly
  <1>3. ASSUME FirstAt(<<>>, EndWord, p) PROVE FALSE
    <2>1. p \in Starts(<<>>, EndWord)
      BY <1>3 DEF FirstAt
    <2> HIDE DEF p
    <2>2. p \in Nat /\ p + Len(EndWord) <= Len(<<>>)
      BY <1>1, <2>1, StartsIs DEF Gly
    <2> QED
      BY <1>1, <2>2
  <1> QED
    BY <1>2, <1>3

LEMMA WordBegins ==
    ASSUME mode \in Modes, ByWord, NEW w \in Task, NEW G \in Seq(Words), Unsure(mode, w, G), Whole(w.text),
           ~Exact(G) \/ Text(G) = StartWord
    PROVE  Looked(w, StartsByWord(w)) /\ WordTells(mode, StartsByWord(w), G)
  <1> DEFINE out == Text(G)
             u == StartsByWord(w)
  <1>1. out \in Gly /\ StartWord \in Gly /\ EndWord \in Gly /\ Len(out) \in Nat /\ Len(StartWord) \in Nat
        /\ Len(EndWord) > 0 /\ Len(EndWord) \in Nat
    BY GlyIs, TextIs DEF Gly
  <1>2. /\ w.text = out /\ w.reasoning_text = <<>> /\ ~w.started /\ ~w.ended /\ ~w.reasoned /\ ~mode.prefilled
        /\ ~mode.in_content
    BY DEF Unsure, ByWord
  <1>3. /\ IsPrefix(StartWord, out) /\ Len(out) <= Len(StartWord) => out = StartWord
        /\ IsPrefix(StartWord, StartWord)
    BY <1>1, PrefixMore DEF Gly
  <1>4. Exact(G) \/ ~Exact(G)
    OBVIOUS
  <1> HIDE DEF out
  <1>5. CASE IsPrefix(StartWord, out)
    <2>1. u = [Cleared(w) EXCEPT !.started = TRUE]
      BY <1>2, <1>5 DEF StartsByWord
    <2>2. /\ Looked(w, u) /\ u.started /\ ~u.ended /\ ~u.reasoned /\ u.text = <<>> /\ u.reasoning_text = <<>>
      <3>1. u = [w EXCEPT !.text = <<>>, !.offsets = <<>>, !.started = TRUE]
        BY <2>1 DEF Cleared
      <3>2. <<>> \in Txt /\ <<>> \in Seq(Int)
        BY NoText
      <3> HIDE DEF u
      <3> QED
        BY <1>2, <3>1, <3>2 DEF Task, Looked
    <2> HIDE DEF u
    <2>3. CASE out = StartWord
      <3>1. Exact(G)
        <4>1. Len(G) \in 0 .. Len(G) /\ SubSeq(G, 1, Len(G)) = G
          OBVIOUS
        <4> QED
          BY <2>3, <4>1 DEF Exact, out
      <3>2. Text(G) = Begin(mode) \o <<>>
        BY <1>1, <1>2, <2>3, ConcatEmptySeq DEF Begin, out, Gly
      <3>3. Find(<<>>, EndWord) = Npos
        BY FindNone
      <3>4. Within(mode, u, G) /\ Find(u.text, EndWord) = Npos
        BY <2>2, <3>1, <3>2, <3>3 DEF Within
      <3> QED
        BY <2>2, <3>4 DEF WordTells, u
    <2>4. CASE out # StartWord
      <3>1. ~Exact(G) /\ Len(out) > Len(StartWord)
        BY <1>1, <1>3, <1>5, <2>4 DEF out
      <3>2. Lost(mode, u, G)
        BY <1>2, <1>5, <2>2, <3>1 DEF Lost, out
      <3> QED
        BY <2>2, <3>2 DEF WordTells, u
    <2> QED
      BY <2>3, <2>4
  <1>6. CASE ~IsPrefix(StartWord, out) /\ Len(out) > Len(StartWord)
    <2>1. u = [w EXCEPT !.reasoned = TRUE]
      BY <1>2, <1>6 DEF StartsByWord
    <2>2. /\ Looked(w, u) /\ ~u.started /\ ~u.ended /\ u.reasoned /\ u.text = out /\ u.reasoning_text = <<>>
      BY <1>2, <2>1 DEF Task, Looked
    <2> HIDE DEF u
    <2>3. Plainly(mode, u, G)
      BY <1>2, <1>6, <2>2 DEF Plainly, out
    <2> QED
      BY <2>2, <2>3 DEF WordTells, u
  <1>7. CASE ~IsPrefix(StartWord, out) /\ ~ (Len(out) > Len(StartWord))
    <2>1. u = [w EXCEPT !.send = FALSE]
      BY <1>2, <1>7 DEF StartsByWord
    <2>2. /\ Looked(w, u) /\ ~u.started /\ ~u.ended /\ ~u.reasoned /\ u.text = out /\ u.reasoning_text = <<>>
      BY <1>2, <2>1 DEF Task, Looked
    <2> HIDE DEF u
    <2>3. ~Exact(G) /\ Len(out) <= Len(StartWord)
      BY <1>1, <1>3, <1>7 DEF out
    <2>4. Unsure(mode, u, G) /\ NotBegun(G)
      BY <1>2, <1>7, <2>2, <2>3 DEF Unsure, NotBegun, out
    <2> QED
      BY <2>2, <2>4 DEF WordTells, u
  <1> QED
    BY <1>5, <1>6, <1>7

LEMMA WordEnds ==
    ASSUME mode \in Modes, ByWord, NEW w \in Task, NEW G \in Seq(Words), Within(mode, w, G) \/ Lost(mode, w, G),
           ~w.ended, ~w.reasoned
    PROVE  Looked(w, EndsByWord(w)) /\ WordTells(mode, EndsByWord(w), G)
  <1> DEFINE x == w.text
             u == EndsByWord(w)
             p == Find(x, EndWord)
             r == SubStr(x, 0, p)
             after == SubStr(x, p + Len(EndWord), Len(x))
  <1>1. x \in Txt /\ x \in Gly /\ EndWord \in Gly /\ w.started /\ ~mode.in_content /\ ~mode.stream
    BY GlyIs, TaskParts DEF Within, Lost, ByWord
  <1>2. CASE p = Npos
    <2>1. u = [w EXCEPT !.send = Find(EndWord, w.new) = Npos]
      BY <1>2 DEF EndsByWord
    <2>2. /\ Looked(w, u) /\ u.started = w.started /\ u.ended = w.ended /\ u.reasoned = w.reasoned /\ u.text = x
          /\ u.reasoning_text = w.reasoning_text
      <3>1. (Find(EndWord, w.new) = Npos) \in BOOLEAN
        OBVIOUS
      <3> DEFINE z == Find(EndWord, w.new) = Npos
      <3>2. u = [w EXCEPT !.send = z] /\ z \in BOOLEAN
        BY <2>1, <3>1
      <3> HIDE DEF z, u
      <3> QED
        BY <3>2 DEF Task, Looked
    <2> HIDE DEF u
    <2>3. CASE Within(mode, w, G)
      <3>1. Within(mode, u, G) /\ Find(u.text, EndWord) = Npos
        BY <1>2, <2>2, <2>3 DEF Within
      <3> QED
        BY <2>2, <3>1 DEF WordTells, u
    <2>4. CASE Lost(mode, w, G)
      <3>1. Lost(mode, u, G)
        BY <2>2, <2>4 DEF Lost
      <3> QED
        BY <2>2, <3>1 DEF WordTells, u
    <2> QED
      BY <2>3, <2>4
  <1>3. CASE p # Npos
    <2>1. u = [w EXCEPT !.ended = TRUE, !.reasoned = TRUE, !.reasoning_text = r, !.text = after]
      BY <1>1, <1>3 DEF EndsByWord
    <2> HIDE DEF u
    <2>2. FirstAt(x, EndWord, p)
      <3>1. x \in Seq(Glyphs) /\ EndWord \in Seq(Glyphs)
        BY <1>1 DEF Gly
      <3> HIDE DEF x
      <3>2. Find(x, EndWord) = Npos \/ FirstAt(x, EndWord, Find(x, EndWord))
        BY <3>1, FindIs
      <3> QED
        BY <1>3, <3>2
    <2>3. p \in Starts(x, EndWord)
      BY <2>2 DEF FirstAt
    <2> HIDE DEF p, x
    <2>4. x = r \o (EndWord \o after) /\ p \in 0 .. Len(x) /\ p + Len(EndWord) \in 0 .. Len(x)
      BY <1>1, <2>3, CutAt DEF Gly
    <2>5. r \in Txt /\ after \in Txt /\ Len(r) = p
      <3>1. SubStr(x, 0, p) \in Seq(Symbols) /\ Len(SubStr(x, 0, p)) = p
        BY <1>1, <2>4, CutTyped DEF Txt
      <3> DEFINE m == p + Len(EndWord)
      <3>2. m \in 0 .. Len(x)
        BY <2>4
      <3> HIDE DEF m
      <3>3. SubStr(x, m, Len(x)) \in Seq(Symbols)
        BY <1>1, <3>2, CutTyped DEF Txt
      <3> QED
        BY <3>1, <3>3 DEF Txt, m
    <2> HIDE DEF r, after
    <2>6. /\ Looked(w, u) /\ u.started /\ u.ended /\ u.reasoned /\ u.text = after /\ u.reasoning_text = r
      BY <1>1, <2>1, <2>5 DEF Task, Looked
    <2>7. CASE Within(mode, w, G)
      <3>1. Text(G) = Begin(mode) \o Joined(r, after) /\ FirstAt(Joined(r, after), EndWord, Len(r))
        BY <2>2, <2>4, <2>5, <2>7 DEF Within, Joined, x
      <3>2. Past(mode, u, G)
        BY <2>6, <2>7, <3>1 DEF Past, Within
      <3> QED
        BY <2>6, <3>2 DEF WordTells, u
    <2>8. CASE Lost(mode, w, G)
      <3>1. Lost(mode, u, G)
        BY <2>6, <2>8 DEF Lost
      <3> QED
        BY <2>6, <3>1 DEF WordTells, u
    <2> QED
      BY <2>7, <2>8
  <1> QED
    BY <1>2, <1>3

LEMMA WordFound ==
    ASSUME mode \in Modes, ByWord, NEW w \in Task, NEW G \in Seq(Words), WordHears(mode, w, G), Whole(w.text)
    PROVE  Looked(w, ReasonedByWord(w)) /\ WordTells(mode, ReasonedByWord(w), G)
  <1>0. mode.reasoning = "word" /\ Looked(w, w)
    BY DEF ByWord, Looked
  <1>1. CASE w.reasoned
    <2>1. ReasonedByWord(w) = w
      BY <1>1 DEF ReasonedByWord
    <2>2. WordTells(mode, w, G)
      BY <1>1 DEF WordHears, WordTells, Unsure, Within
    <2> QED
      BY <1>0, <2>1, <2>2
  <1>2. CASE ~w.reasoned /\ ~w.started
    <2>1. ReasonedByWord(w) = StartsByWord(w)
      BY <1>0, <1>2 DEF ReasonedByWord
    <2>2. Unsure(mode, w, G) /\ (~Exact(G) \/ Text(G) = StartWord)
      BY <1>2 DEF WordHears, Plainly, Within, Past, Lost
    <2> QED
      BY <2>1, <2>2, WordBegins
  <1>3. CASE ~w.reasoned /\ w.started
    <2>1. (Within(mode, w, G) \/ Lost(mode, w, G)) /\ ~w.ended
      BY <1>3 DEF WordHears, Unsure, Plainly, Within, Past, Lost
    <2>2. ReasonedByWord(w) = EndsByWord(w)
      BY <1>0, <1>3, <2>1 DEF ReasonedByWord
    <2> QED
      BY <1>3, <2>1, <2>2, WordEnds
  <1> QED
    BY <1>1, <1>2, <1>3

LEMMA WordUnsent ==
    ASSUME NEW t, NEW G, WordHears(mode, t, G), ~Whole(t.text)
    PROVE  WordTells(mode, t, G)
  <1>1. ASSUME Unsure(mode, t, G), ~Exact(G) \/ Text(G) = StartWord PROVE NotBegun(G)
    <2>1. ~Whole(Text(G)) /\ Whole(StartWord)
      BY <1>1, GlyIs DEF Unsure
    <2> QED
      BY <1>1, <2>1 DEF NotBegun
  <1> QED
    BY <1>1 DEF WordHears, WordTells

(* What the client has of an answer that is not streamed.                  *)
Empty(c) == c.content = <<>> /\ c.reasoning = <<>>

AllTold(m, c, G, all) ==
    Apart(m, G) => Told(m, c, WordsSay(m, G).reasoning, WordsSay(m, G).content, all)

LEMMA WordSent ==
    ASSUME mode \in Modes, ByWord, NEW v \in Task, client \in Client, Empty(client), v.finish # "", v.keep \in Nat,
           NEW G \in Seq(Words), WordTells(mode, v, G)
    PROVE  LET s == Sent(v)
           IN  /\ s \in States /\ SameTask(v, s.task)
               /\ AllTold(mode, s.client, G, v.keep = Len(v.text))
  <1> DEFINE s == Sent(v)
             c == Quiet(client)
             text == v.text
             r == v.reasoning_text
             p == v.keep
             none == <<>>
  <1>1. text \in Txt /\ r \in Txt /\ none \in Txt /\ Len(text) \in Nat
    BY TaskParts, NoText
  <1> HIDE DEF c, s
  <1>2. /\ s \in States /\ c.content = none /\ c.reasoning = none
        /\ \E sends \in Txt, left \in Txt : Takes(v, c, p, s, sends, left)
    BY SentIs DEF c, s, Empty
  <1>3. PICK sends \in Txt, left \in Txt : Takes(v, c, p, s, sends, left)
    BY <1>2
  <1>4. Taken(v, c, s, sends, left)
    BY <1>3, TakesIs
  <1>5. text = sends \o left /\ sends = SubStr(text, 0, p)
    <2>1. p # Npos
      BY NotNpos
    <2> QED
      BY <1>3, <2>1 DEF Takes
  <1>6. SameTask(v, s.task)
    BY <1>4 DEF Taken
  <1> HIDE DEF text, r, p, none
  <1>7. p = Len(text) => sends = text
    <2>1. p \in Nat
      BY DEF p
    <2>2. p >= Len(text) => SubStr(text, 0, p) = text
      BY <1>1, <2>1, SubStrIs DEF Txt
    <2>3. p = Len(text) => p >= Len(text)
      BY <2>1, NotNpos
    <2> QED
      BY <1>5, <2>2, <2>3
  <1>8. none \o sends = sends /\ none \o none = none /\ none \o r = r /\ IsPrefix(none, none) /\ IsPrefix(r, r)
    <2>1. none \o sends = sends /\ none \o none = none /\ none \o r = r
      BY <1>1, ConcatEmptySeq DEF Txt, none
    <2> QED
      BY <1>1, <2>1, PrefixOfAll
  <1>9. IsPrefix(sends, text)
    BY <1>5, PrefixIs DEF Txt
  <1>10. ASSUME Apart(mode, G)
         PROVE  Told(mode, s.client, WordsSay(mode, G).reasoning, WordsSay(mode, G).content, p = Len(text))
    <2>1. WordsSay(mode, G) = IF v.reasoned THEN [reasoning |-> r, content |-> text] ELSE [reasoning |-> text, content |-> none]
      BY <1>10, WordSays DEF r, text, none
    <2>2. CASE v.reasoned
      <3>1. s.client.content = sends /\ s.client.reasoning = r
        BY <1>2, <1>4, <1>8, <2>2 DEF Taken, Reasons, ByWord, r
      <3>2. WordsSay(mode, G).reasoning = r /\ WordsSay(mode, G).content = text
        <4>1. WordsSay(mode, G) = [reasoning |-> r, content |-> text]
          BY <2>1, <2>2
        <4> QED
          BY ONLY <4>1
      <3> QED
        BY <1>7, <1>8, <1>9, <3>1, <3>2 DEF Told
    <2>3. CASE ~v.reasoned
      <3>1. s.client.content = none /\ s.client.reasoning = sends
        BY <1>2, <1>4, <1>8, <2>3 DEF Taken, Reasons, ByWord, none
      <3>2. WordsSay(mode, G).reasoning = text /\ WordsSay(mode, G).content = none
        <4>1. WordsSay(mode, G) = [reasoning |-> text, content |-> none]
          BY <2>1, <2>3
        <4> QED
          BY ONLY <4>1
      <3> QED
        BY <1>7, <1>8, <1>9, <3>1, <3>2 DEF Told
    <2> QED
      BY <2>2, <2>3
  <1> QED
    BY <1>2, <1>6, <1>10 DEF AllTold, s, p, text

LEMMA TellsAlike ==
    ASSUME NEW t, NEW u, SameFlags(t, u), u.text = t.text, u.reasoning_text = t.reasoning_text,
           NEW G, WordTells(mode, t, G)
    PROVE  WordTells(mode, u, G)
  BY DEF WordTells, Unsure, Plainly, Within, Past, Lost, SameFlags

LEMMA WordEnd ==
    ASSUME mode \in Modes, ByWord, NEW u \in Task, client \in Client, Empty(client),
           NEW G \in Seq(Words), WordTells(mode, u, G),
           (u.finish = "" /\ u.keep = Npos) \/ (u.finish = "stop" /\ u.keep \in Nat /\ mode.stop # <<>>)
    PROVE  LET s == Sent(Finished(u))
           IN  /\ s \in States /\ s.task.keep = Npos /\ s.task.todo = u.todo /\ s.task.eog = u.eog
               /\ s.task.finish = "" => ~s.task.eog /\ WordTells(mode, s.task, G) /\ Empty(s.client)
               /\ s.task.finish # "" => AllTold(mode, s.client, G, s.task.finish = "length" \/ mode.stop = <<>>)
  <1> DEFINE v == Finished(u)
             s == Sent(v)
  <1>1. CASE u.finish = "stop" /\ u.keep \in Nat /\ mode.stop # <<>>
    <2>1. u.finish # "" /\ v = u
      BY <1>1 DEF Finished
    <2> HIDE DEF v, s
    <2>2. s \in States /\ SameTask(u, s.task) /\ AllTold(mode, s.client, G, u.keep = Len(u.text))
      BY <1>1, <2>1, WordSent DEF s
    <2>3. s.task.keep = Npos /\ s.task.todo = u.todo /\ s.task.eog = u.eog /\ s.task.finish = "stop"
      BY <1>1, <2>2 DEF SameTask
    <2>4. AllTold(mode, s.client, G, s.task.finish = "length" \/ mode.stop = <<>>)
      BY <1>1, <2>2, <2>3 DEF AllTold, Told
    <2> QED
      BY <2>2, <2>3, <2>4 DEF s, v
  <1>2. CASE u.finish = "" /\ u.keep = Npos /\ v # u
    <2>1. PICK f \in {"stop", "tool_calls", "length"} : v = [u EXCEPT !.keep = Len(u.text), !.finish = f]
      BY <1>2, FinishedIs DEF Ended
    <2> DEFINE n == Len(u.text)
    <2>2. n \in Nat /\ n \in Int /\ f \in Finishes /\ f # ""
      BY TaskParts, NotNpos DEF Finishes
    <2> HIDE DEF v, s, n
    <2>3. v = [u EXCEPT !.keep = n, !.finish = f]
      BY <2>1 DEF n
    <2>4. /\ v \in Task /\ v.keep = n /\ v.finish = f /\ v.text = u.text /\ v.reasoning_text = u.reasoning_text
          /\ SameFlags(u, v) /\ v.todo = u.todo /\ v.eog = u.eog
      BY <2>2, <2>3 DEF Task, SameFlags
    <2>5. WordTells(mode, v, G)
      BY <2>4, TellsAlike
    <2>6. s \in States /\ SameTask(v, s.task) /\ AllTold(mode, s.client, G, v.keep = Len(v.text))
      BY <2>2, <2>4, <2>5, WordSent DEF s
    <2>7. s.task.keep = Npos /\ s.task.todo = u.todo /\ s.task.eog = u.eog /\ s.task.finish # ""
      BY <2>2, <2>4, <2>6 DEF SameTask
    <2>8. v.keep = Len(v.text)
      BY <2>4 DEF n
    <2>9. AllTold(mode, s.client, G, s.task.finish = "length" \/ mode.stop = <<>>)
      BY <2>6, <2>8 DEF AllTold, Told
    <2> QED
      BY <2>6, <2>7, <2>9 DEF s, v
  <1>3. CASE u.finish = "" /\ u.keep = Npos /\ v = u
    <2>1. ~u.eog
      BY <1>3, FinishedIs
    <2> HIDE DEF v, s
    <2>2. s \in States /\ s = [task |-> u, client |-> Quiet(client)]
      BY <1>3, SentIs DEF s, ByWord
    <2>3. Empty(Quiet(client))
      BY DEF Quiet, Empty, Client
    <2>4. s.task = u /\ s.client = Quiet(client)
      BY <2>2
    <2> QED
      BY <1>3, <2>1, <2>2, <2>3, <2>4 DEF s, v
  <1> QED
    BY <1>1, <1>2, <1>3

LEMMA RoundShort ==
    ASSUME NEW batch \in Seq(Words), Len(batch) <= 1, NEW h, NEW e, Ends(batch, h, e)
    PROVE  Len(h) <= 1
  <1>1. h \in Seq(Words) /\ e \in BOOLEAN
    BY EndsTyped DEF Ends
  <1>2. CASE ~e
    BY <1>1, <1>2 DEF Ends
  <1>3. CASE e
    <2>1. PICK rest \in Seq(Words) : batch = h \o (<<"eog">> \o rest)
      BY <1>3 DEF Ends
    <2> DEFINE x == <<"eog">> \o rest
    <2>2. x \in Seq(Words)
      <3>1. <<"eog">> \in Seq(Words)
        BY <1>3 DEF Ends
      <3> QED
        BY <3>1, ConcatIs
    <2> HIDE DEF x
    <2>3. Len(h \o x) = Len(h) + Len(x) /\ Len(h) \in Nat /\ Len(x) \in Nat
      BY <1>1, <2>2, ConcatIs
    <2> QED
      BY <1>1, <2>1, <2>3 DEF x
  <1> QED
    BY <1>1, <1>2, <1>3

LEMMA EndsMore ==
    ASSUME NEW G, Ends(G, G, FALSE), NEW batch \in Seq(Words), NEW h, NEW e, Ends(batch, h, e)
    PROVE  Ends(G \o batch, G \o h, e)
  <1>1. G \in Seq(Words \ {"eog"}) /\ h \in Seq(Words \ {"eog"}) /\ e \in BOOLEAN /\ G \in Seq(Words) /\ h \in Seq(Words)
    BY EndsTyped DEF Ends
  <1>2. G \o h \in Seq(Words \ {"eog"})
    BY <1>1, ConcatIs
  <1>3. CASE ~e
    <2>1. batch = h
      BY <1>3 DEF Ends
    <2> QED
      BY <1>1, <1>2, <1>3, <2>1 DEF Ends
  <1>4. CASE e
    <2>1. PICK rest \in Seq(Words) : batch = h \o (<<"eog">> \o rest)
      BY <1>4 DEF Ends
    <2> DEFINE x == <<"eog">> \o rest
    <2>2. x \in Seq(Words) /\ "eog" \in Words
      <3>1. <<"eog">> \in Seq(Words) /\ "eog" \in Words
        BY <1>4 DEF Ends
      <3> QED
        BY <3>1, ConcatIs
    <2> HIDE DEF x
    <2>3. (G \o h) \o x = G \o (h \o x)
      BY <1>1, <2>2, WordsAssociative, SMTT(40)
    <2>4. G \o batch = (G \o h) \o (<<"eog">> \o rest)
      BY <2>1, <2>3 DEF x
    <2> QED
      BY <1>1, <1>2, <1>4, <2>2, <2>4 DEF Ends
  <1> QED
    BY <1>1, <1>3, <1>4

(* The inductive invariant of those requests.                              *)
WordTyped ==
    /\ task \in Task /\ client \in Client /\ sampled \in Seq(Words)
    /\ task.keep = Npos /\ task.todo = <<>>

WordHolds ==
    \E G : /\ Ends(sampled, G, task.eog)
           /\ task.finish = "" => ~task.eog /\ WordTells(mode, task, G) /\ Empty(client)
           /\ task.finish # "" => AllTold(mode, client, G, task.finish = "length" \/ mode.stop = <<>>)

WordInv == mode \in Modes /\ (ByWord => WordTyped /\ WordHolds)

LEMMA WordInit == Init => WordInv
  <1> SUFFICES ASSUME Init PROVE WordInv
    OBVIOUS
  <1>1. /\ mode \in Modes /\ task \in Task /\ client \in Client /\ sampled \in Seq(Words)
        /\ task.keep = Npos /\ task.finish = "" /\ ~task.eog /\ task.todo = <<>>
        /\ task.text = <<>> /\ task.reasoning_text = <<>> /\ sampled = <<>>
        /\ client.content = <<>> /\ client.reasoning = <<>>
        /\ task.started = mode.prefilled /\ ~task.ended /\ task.reasoned = (mode.reasoning = "none")
    BY FirstTyped
  <1> SUFFICES ASSUME ByWord PROVE WordTyped /\ WordHolds
    BY <1>1 DEF WordInv
  <1> DEFINE none == <<>>
  <1>2. none \in Seq(Words) /\ none \in Gly /\ none \in Seq(Words \ {"eog"}) /\ Text(none) = none /\ none \o none = none
    <2>1. none \in Seq(Words) /\ none \in Gly /\ none \in Seq(Words \ {"eog"})
      BY DEF Gly
    <2> QED
      BY <2>1, TextIs, ConcatEmptySeq
  <1>3. StartWord \in Gly /\ EndWord \in Gly /\ Len(StartWord) > 0 /\ Len(EndWord) > 0 /\ StartWord # <<>>
        /\ Len(StartWord) \in Nat /\ Len(EndWord) \in Nat
    BY GlyIs
  <1>4. task.eog = FALSE /\ task.reasoned = FALSE
    BY <1>1 DEF Task, ByWord
  <1>5. Ends(none, none, FALSE)
    BY <1>2 DEF Ends
  <1>6. CASE mode.prefilled
    <2>1. Within(mode, task, none)
      BY <1>1, <1>2, <1>4, <1>6 DEF Within, Begin
    <2>2. Find(none, EndWord) = Npos
      BY <1>3, FindNone
    <2>3. WordTells(mode, task, none)
      BY <1>1, <2>1, <2>2 DEF WordTells
    <2> QED
      BY <1>1, <1>4, <1>5, <2>3 DEF WordTyped, WordHolds, Empty
  <1>7. CASE ~mode.prefilled
    <2>1. Unsure(mode, task, none)
      BY <1>1, <1>2, <1>4, <1>7 DEF Unsure
    <2>2. ~Exact(none)
      <3>1. \A k \in 0 .. Len(none) : SubSeq(none, 1, k) = none
        OBVIOUS
      <3> QED
        BY <1>2, <1>3, <3>1 DEF Exact
    <2>3. ~IsPrefix(StartWord, none) /\ Len(none) <= Len(StartWord)
      <3>1. Len(none) = 0
        OBVIOUS
      <3>2. IsPrefix(StartWord, none) => Len(StartWord) <= Len(none)
        BY <1>2, <1>3, PrefixedBy DEF Gly
      <3> QED
        BY <1>3, <3>1, <3>2
    <2>4. WordTells(mode, task, none)
      BY <1>2, <2>1, <2>2, <2>3 DEF WordTells, NotBegun
    <2> QED
      BY <1>1, <1>4, <1>5, <2>4 DEF WordTyped, WordHolds, Empty
  <1> QED
    BY <1>6, <1>7

(* What is detokenized and looked through in a round.                      *)
Searched(t, u, G) ==
    /\ u \in Task /\ u.todo = <<>> /\ u.eog = t.eog /\ WordTells(mode, u, G)
    /\ (u.finish = "" /\ u.keep = Npos) \/ (u.finish = "stop" /\ u.keep \in Nat /\ mode.stop # <<>>)

LEMMA WordSearched ==
    ASSUME mode \in Modes, ByWord, NEW t \in Task, NEW G \in Seq(Words), WordHears(mode, t, G), t.send = Whole(t.text),
           t.todo = <<>>, t.finish = "", t.keep = Npos,
           NEW tokens, NEW u \in IF t.send THEN ToolCalls(ReasonedByWord(Stopped(t)), tokens) ELSE {t}
    PROVE  Searched(t, u, G)
  <1>1. CASE ~t.send
    <2>1. u = t /\ ~Whole(t.text)
      BY <1>1
    <2> QED
      BY <2>1, WordUnsent DEF Searched
  <1>2. CASE t.send
    <2> DEFINE w == Stopped(t)
    <2>1. ToolCalls(ReasonedByWord(w), tokens) = {ReasonedByWord(w)}
      BY DEF ToolCalls, ByWord
    <2>2. u = ReasonedByWord(w)
      BY <1>2, <2>1
    <2>3. /\ w \in Task /\ SameFlags(t, w) /\ w.text = t.text /\ w.reasoning_text = t.reasoning_text
          /\ w.todo = <<>> /\ w.eog = t.eog
          /\ (w.finish = "" /\ w.keep = Npos) \/ (w.finish = "stop" /\ w.keep \in Nat /\ mode.stop # <<>>)
      <3>1. CASE w = t
        BY <3>1 DEF SameFlags
      <3>2. CASE w # t
        <4>1. PICK k \in DOMAIN mode.stop : \E p \in Starts(t.text, mode.stop[k]) :
                  StopsAt(t) # {} /\ mode.stop[k] \in Txt /\ p \in Nat /\ w = [t EXCEPT !.finish = "stop", !.keep = p]
          BY <3>2, StoppedIs
        <4>2. PICK p \in Starts(t.text, mode.stop[k]) :
                  StopsAt(t) # {} /\ mode.stop[k] \in Txt /\ p \in Nat /\ w = [t EXCEPT !.finish = "stop", !.keep = p]
          BY <4>1
        <4>3. p \in Nat /\ p \in Int /\ "stop" \in Finishes
          BY <4>2, NotNpos DEF Finishes
        <4> HIDE DEF w
        <4>4. mode.stop # <<>>
          <5>1. DOMAIN mode.stop # {}
            BY <4>1
          <5> QED
            BY ONLY <5>1
        <4> QED
          BY <4>2, <4>3, <4>4 DEF Task, SameFlags
      <3> QED
        BY <3>1, <3>2
    <2> HIDE DEF w
    <2>4. WordHears(mode, w, G)
      BY <2>3 DEF WordHears, Unsure, Plainly, Within, Past, Lost, SameFlags
    <2>5. Whole(w.text)
      BY <1>2, <2>3
    <2>6. Looked(w, u) /\ WordTells(mode, u, G)
      BY <2>2, <2>3, <2>4, <2>5, WordFound
    <2> QED
      BY <2>3, <2>6 DEF Looked, Searched
  <1> QED
    BY <1>1, <1>2

LEMMA WordBatch ==
    ASSUME mode \in Modes, ByWord, task \in Task, task.todo = <<>>, task.keep = Npos, task.finish = "", ~task.eog,
           NEW G, Ends(sampled, G, task.eog), WordTells(mode, task, G), NEW batch \in Seq(Words), Len(batch) <= 1
    PROVE  LET t == Detokenized(task, batch)
           IN  /\ t \in Task /\ t.todo = <<>> /\ t.finish = "" /\ t.keep = Npos /\ t.send = Whole(t.text)
               /\ \E H \in Seq(Words) : Ends(sampled \o batch, H, t.eog) /\ WordHears(mode, t, H)
  <1> DEFINE t == Detokenized(task, batch)
  <1>1. mode.reasoning = "word" /\ Emits(task)
    BY WordEmits DEF ByWord
  <1>2. PICK h, e : \E offsets \in Seq(Int) : Ends(batch, h, e) /\ t = RoundOf(task, batch, h, e, offsets)
    BY <1>1, DetokenizedAll
  <1>3. PICK offsets \in Seq(Int) : Ends(batch, h, e) /\ t = RoundOf(task, batch, h, e, offsets)
    BY <1>2
  <1> HIDE DEF t
  <1>4. t \in Task
    BY <1>3, RoundTyped
  <1> DEFINE said == Text(h)
  <1>5. said \in Txt /\ h \in Seq(Words) /\ Len(h) <= 1
    BY <1>3, EndsTyped, RoundShort
  <1>6. /\ t.todo = <<>> /\ t.finish = "" /\ t.keep = Npos /\ t.eog = e /\ t.send = Whole(t.text)
        /\ t.text = task.text \o said /\ SameFlags(task, t) /\ t.reasoning_text = task.reasoning_text
    <2> DEFINE round == task.round + 1
               budget == task.budget - Len(batch)
               text == task.text \o said
               send == Whole(text)
               none == <<>>
    <2>1. t = [task EXCEPT !.round = round, !.budget = budget, !.todo = none, !.halted = FALSE, !.text = text,
                           !.new = said, !.offsets = offsets, !.eog = e, !.send = send]
      BY <1>3 DEF RoundOf
    <2> HIDE DEF round, budget, text, send, said, none
    <2>2. /\ t.todo = none /\ t.finish = task.finish /\ t.keep = task.keep /\ t.eog = e /\ t.send = send
          /\ t.text = text /\ SameFlags(task, t) /\ t.reasoning_text = task.reasoning_text
      BY <2>1 DEF Task, SameFlags
    <2> QED
      BY <2>2 DEF text, none, send
  <1>7. G \in Seq(Words) /\ sampled = G /\ Ends(G, G, FALSE)
    <2>1. sampled = G /\ G \in Seq(Words)
      BY EndsTyped DEF Ends
    <2>2. task.eog = FALSE
      BY DEF Task
    <2> QED
      BY <2>1, <2>2
  <1>8. Ends(sampled \o batch, G \o h, t.eog)
    BY <1>3, <1>6, <1>7, EndsMore
  <1>9. WordHears(mode, t, G \o h)
    <2>1. Adds(task, t, Text(h))
      BY <1>6 DEF Adds, SameFlags
    <2> QED
      BY <1>5, <1>7, <2>1, WordHeard
  <1>10. G \o h \in Seq(Words)
    BY <1>5, <1>7, ConcatIs
  <1> QED
    BY <1>4, <1>6, <1>8, <1>9, <1>10 DEF t

LEMMA WordStep == WordInv /\ [Next]_vars => WordInv'
  <1> SUFFICES ASSUME WordInv, [Next]_vars PROVE WordInv'
    OBVIOUS
  <1>1. CASE UNCHANGED vars
    BY <1>1, ZenonT(60) DEF vars, WordInv, ByWord, WordTyped, WordHolds, Task, Client, Empty
  <1>2. CASE Next
    <2>1. mode \in Modes
      BY DEF WordInv
    <2>2. mode' = mode
      BY <1>2 DEF Next, Round
    <2> SUFFICES ASSUME ByWord PROVE WordTyped' /\ WordHolds'
      BY <2>1, <2>2 DEF WordInv, ByWord
    <2>3. /\ WordHolds /\ task \in Task /\ client \in Client /\ sampled \in Seq(Words)
          /\ task.keep = Npos /\ task.todo = <<>>
      BY DEF WordInv, WordTyped
    <2>4. PICK n \in 1 .. 1 + mode.drafted : \E batch \in [1 .. n -> mode.tokens] : Round(batch)
      BY <1>2 DEF Next
    <2>5. PICK batch \in [1 .. n -> mode.tokens] : Round(batch)
      BY <2>4
    <2>6. batch \in Seq(Words) /\ Len(batch) <= 1
      <3>1. n \in Nat /\ n <= 1
        <4>1. mode.drafted = 0
          BY DEF ByWord
        <4> QED
          BY <4>1
      <3>2. batch \in Seq(Words) /\ Len(batch) = n
        BY <2>1, <3>1, ByWordTyped
      <3> QED
        BY <3>1, <3>2
    <2> DEFINE t == Detokenized(task, batch)
               P == sampled \o batch
    <2>7. PICK u \in IF t.send THEN ToolCalls(ReasonedByWord(Stopped(t)), task.todo \o batch) ELSE {t} :
              task' = Sent(Finished(u)).task /\ client' = Sent(Finished(u)).client
      BY <2>5 DEF Round
    <2>8. sampled' = P /\ task.finish = ""
      BY <2>5 DEF Round
    <2>9. PICK G : Ends(sampled, G, task.eog) /\ ~task.eog /\ WordTells(mode, task, G) /\ Empty(client)
      BY <2>3, <2>8 DEF WordHolds
    <2>10. /\ t \in Task /\ t.todo = <<>> /\ t.finish = "" /\ t.keep = Npos /\ t.send = Whole(t.text)
           /\ \E H \in Seq(Words) : Ends(P, H, t.eog) /\ WordHears(mode, t, H)
      BY <2>1, <2>3, <2>6, <2>8, <2>9, WordBatch
    <2>11. PICK H \in Seq(Words) : Ends(P, H, t.eog) /\ WordHears(mode, t, H)
      BY <2>10
    <2> HIDE DEF t, P
    <2>12. Searched(t, u, H)
      BY <2>1, <2>7, <2>10, <2>11, WordSearched
    <2> DEFINE s == Sent(Finished(u))
    <2> HIDE DEF s
    <2>13. /\ s \in States /\ s.task.keep = Npos /\ s.task.todo = u.todo /\ s.task.eog = u.eog
           /\ s.task.finish = "" => ~s.task.eog /\ WordTells(mode, s.task, H) /\ Empty(s.client)
           /\ s.task.finish # "" => AllTold(mode, s.client, H, s.task.finish = "length" \/ mode.stop = <<>>)
      BY <2>1, <2>3, <2>9, <2>12, WordEnd DEF s, Searched
    <2>14. u.todo = <<>> /\ u.eog = t.eog
      BY <2>12 DEF Searched
    <2>15. task' = s.task /\ client' = s.client /\ sampled' = P
      BY <2>7, <2>8 DEF s
    <2>16. P \in Seq(Words)
      BY <2>3, <2>6, ConcatIs DEF P
    <2>17. WordTyped'
      BY <2>13, <2>14, <2>15, <2>16 DEF States, WordTyped, Task, Client
    <2>18. WordHolds'
      BY <2>2, <2>11, <2>13, <2>14, <2>15 DEF WordHolds, Empty
    <2> QED
      BY <2>17, <2>18
  <1> QED
    BY <1>1, <1>2

LEMMA WordSeparates ==
    ASSUME WordInv, ByWord, Separates
    PROVE  Separated
  <1>1. /\ mode \in Modes /\ task \in Task /\ client \in Client /\ WordHolds /\ task.todo = <<>> /\ sampled \in Seq(Words)
    BY DEF WordInv, WordTyped
  <1>2. PICK G : /\ Ends(sampled, G, task.eog)
                 /\ task.finish = "" => Empty(client)
                 /\ task.finish # "" => AllTold(mode, client, G, task.finish = "length" \/ mode.stop = <<>>)
                 /\ task.finish = "" => WordTells(mode, task, G)
    BY <1>1 DEF WordHolds
  <1>3. Generated = G /\ G \in Seq(Words)
    <2>1. SubSeq(sampled, 1, Len(sampled) - Len(task.todo)) = sampled
      <3>1. Len(sampled) - Len(<<>>) = Len(sampled)
        BY <1>1
      <3>2. SubSeq(sampled, 1, Len(sampled)) = sampled
        BY <1>1
      <3> QED
        BY <1>1, <3>1, <3>2
    <2>2. Before(sampled, {"eog"}) = G /\ G \in Seq(Words)
      BY <1>2, EndsBefore, EndsTyped
    <2> QED
      BY <2>1, <2>2 DEF Generated
  <1>4. Said = WordsSay(mode, G)
    BY <1>3 DEF Said, ByWords, WordsSay, ByWord
  <1>5. Apart(mode, G)
    BY <1>3 DEF Separates, ByWord, Apart, Exact
  <1>6. CASE task.finish # ""
    <2>1. Told(mode, client, Said.reasoning, Said.content, task.finish = "length" \/ mode.stop = <<>>)
      BY <1>2, <1>4, <1>5, <1>6 DEF AllTold
    <2> QED
      BY <2>1 DEF Told, Separated
  <1>7. CASE task.finish = ""
    <2>1. Empty(client) /\ WordTells(mode, task, G)
      BY <1>2, <1>7
    <2>2. Said = IF task.reasoned THEN [reasoning |-> task.reasoning_text, content |-> task.text]
                 ELSE [reasoning |-> task.text, content |-> <<>>]
      BY <1>1, <1>3, <1>4, <1>5, <2>1, WordSays
    <2>3. Said.reasoning \in Txt /\ Said.content \in Txt
      BY <1>1, <2>2, TaskParts, NoText
    <2>4. \A x \in Txt : IsPrefix(<<>>, x)
      <3> TAKE x \in Txt
      <3>1. <<>> \o x = x
        BY ConcatEmptySeq DEF Txt
      <3>2. IsPrefix(<<>>, <<>> \o x)
        BY NoText, PrefixIs DEF Txt
      <3> QED
        BY <3>1, <3>2
    <2> QED
      BY <1>7, <2>1, <2>3, <2>4 DEF Separated, Empty
  <1> QED
    BY <1>6, <1>7

(***************************************************************************)
(* Whatever the vocabulary, the words around reasoning, the budget, the    *)
(* stop words and the drafts: the client gets the reasoning as reasoning   *)
(* and the answer as content, each a beginning of what the tokens say, and *)
(* all of it unless a stop word cuts it.                                   *)
(***************************************************************************)
THEOREM ReasoningIsSeparated == Spec => []ReasoningSeparated
  <1> DEFINE Inv == TokenInv /\ WordInv
  <1>1. Init => Inv
    BY TokenInit, WordInit
  <1>2. Inv /\ [Next]_vars => Inv'
    BY TokenStep, WordStep
  <1>3. Inv => ReasoningSeparated
    <2> SUFFICES ASSUME Inv, Separates PROVE Separated
      BY DEF ReasoningSeparated, Separated
    <2>1. mode \in Modes
      BY DEF TokenInv
    <2>2. mode.reasoning \in {"none", "token", "word"}
      BY <2>1, TextAssumption
    <2>3. CASE mode.reasoning = "token"
      BY <2>3, TokenSeparates DEF Separates, ByToken
    <2>4. CASE mode.reasoning = "word"
      BY <2>4, WordSeparates DEF Separates, ByWord
    <2> QED
      BY <2>2, <2>3, <2>4 DEF Separates
  <1> HIDE DEF Inv
  <1> QED
    BY <1>1, <1>2, <1>3, PTL DEF Spec
=============================================================================
