------------------------ MODULE ChunkedPrefillProofs ------------------------
(***************************************************************************)
(* Prompts of several chunks, for every number of requests and sequences,  *)
(* whatever they say and whichever chunk fails.                            *)
(***************************************************************************)
EXTENDS ChunkedPrefill, SharedFacts

-----------------------------------------------------------------------------
(* Chunks.                                                                 *)

Chunk == {c \in [media : BOOLEAN, tokens : Seq(Int), contents : Seq(Int)] :
             Len(c.tokens) = Len(c.contents)}

LEMMA TextChunk ==
    ASSUME NEW tokens \in Seq(Nat)
    PROVE  /\ text_chunk(tokens) \in Chunk /\ ~ text_chunk(tokens).media
           /\ text_chunk(tokens).tokens = tokens /\ text_chunk(tokens).contents = tokens
  <1>1. tokens \in Seq(Int)
    OBVIOUS
  <1> QED
    BY <1>1 DEF text_chunk, Chunk

LEMMA Tokenized ==
    ASSUME NEW tokens \in Seq(Nat), NEW bos \in BOOLEAN
    PROVE  \E t \in Seq(Nat) : tokenize(tokens, bos) = text_chunk(t)
  <1>1. <<Bos>> \o tokens \in Seq(Nat)
    BY DEF Bos
  <1> QED
    BY <1>1 DEF tokenize

LEMMA Marked ==
    ASSUME NEW name \in DOMAIN Marker, NEW bos \in BOOLEAN
    PROVE  \E t \in Seq(Nat) : Mark(name, bos) = text_chunk(t)
  <1>1. Marker[name] \in Nat
    BY DEF Marker
  <1> DEFINE s == <<Marker[name]>>
  <1>2. s \in Seq(Nat)
    BY <1>1
  <1> HIDE DEF s
  <1>3. \E t \in Seq(Nat) : tokenize(s, bos) = text_chunk(t)
    BY <1>2, Tokenized
  <1> QED
    BY <1>3 DEF Mark, s

LEMMA MarkerNames == DOMAIN Marker = {"begin", "end", "slice", "slice_end", "row_end", "tile"}
  BY DEF Marker

TextChunks == {text_chunk(t) : t \in Seq(Nat)}

(* How many pieces a model gets of a medium, and how long they are.        *)
Count(f, m) ==
    IF m \in Audio THEN Grid[m][1]
    ELSE IF f \in {"minicpmv2", "minicpmv"} /\ Grid[m][1] * Grid[m][2] > 1 THEN 1 + Grid[m][1] * Grid[m][2]
    ELSE 1

Extent(f, m) ==
    IF m \notin Audio /\ f = "qwen2vl" THEN Max({Grid[m][1], Grid[m][2]}) ELSE Positions[m]

Projection(f, m, dummy) == [i \in 1 .. Count(f, m) |-> piece(m, i, Extent(f, m), dummy - (i - 1))]

LEMMA ProjectedIs ==
    ASSUME NEW f, NEW m
    PROVE  Projected(f, m) = Projection(f, m, multimodal_dummy_token_generator)
  <1>1. CASE m \in Audio
    BY <1>1 DEF Projected, Projection, tokenize_audio, Count, Extent
  <1>2. CASE m \notin Audio
    BY <1>2 DEF Projected, Projection, tokenize_image, Count, Extent
  <1> QED
    BY <1>1, <1>2

LEMMA GridTyped ==
    ASSUME NEW m \in Media
    PROVE  /\ Grid[m][1] \in Nat \ {0} /\ Grid[m][2] \in Nat \ {0}
           /\ Grid[m][1] * Grid[m][2] \in Nat \ {0}
           /\ m \in Nat \ {0} /\ Positions[m] \in Nat \ {0}
  <1>1. Grid[m] \in Seq(Nat \ {0}) /\ Len(Grid[m]) = 2
    BY PromptAssumption
  <1>2. Grid[m][1] \in Nat \ {0} /\ Grid[m][2] \in Nat \ {0}
    BY <1>1
  <1>3. \A a, b \in Nat \ {0} : a * b \in Nat \ {0}
    OBVIOUS
  <1> QED
    BY <1>2, <1>3, PromptAssumption

LEMMA CountTyped ==
    ASSUME NEW f, NEW m \in Media
    PROVE  Count(f, m) \in Nat \ {0} /\ Extent(f, m) \in Nat \ {0}
  <1>1. Count(f, m) \in Nat \ {0}
    BY GridTyped DEF Count
  <1>2. \A a, b \in Nat \ {0} : Max({a, b}) \in {a, b}
    BY DEF Max
  <1>3. Extent(f, m) \in Nat \ {0}
    BY <1>2, GridTyped DEF Extent
  <1> QED
    BY <1>1, <1>3

(* A piece is a chunk of one dummy token, repeated.                        *)
LEMMA PieceTyped ==
    ASSUME NEW m \in Nat, NEW i \in Nat, NEW n \in Nat, NEW dummy \in Int
    PROVE  /\ piece(m, i, n, dummy) \in Chunk /\ piece(m, i, n, dummy).media
           /\ Len(piece(m, i, n, dummy).tokens) = n
           /\ \A k \in 1 .. n : piece(m, i, n, dummy).tokens[k] = dummy
  <1> DEFINE t == [k \in 1 .. n |-> dummy]
             c == [k \in 1 .. n |-> 10000 * m + 100 * i + k]
  <1>1. t \in Seq(Int) /\ Len(t) = n /\ \A k \in 1 .. n : t[k] = dummy
    OBVIOUS
  <1>2. c \in Seq(Int) /\ Len(c) = n
    <2>1. \A k \in 1 .. n : 10000 * m + 100 * i + k \in Int
      OBVIOUS
    <2>2. c \in [1 .. n -> Int]
      BY <2>1
    <2> HIDE DEF c
    <2> QED
      BY <2>2
  <1> HIDE DEF t, c
  <1>3. piece(m, i, n, dummy) = [media |-> TRUE, tokens |-> t, contents |-> c]
    BY DEF piece, t, c
  <1> QED
    BY <1>1, <1>2, <1>3 DEF Chunk

-----------------------------------------------------------------------------
(* The chunks of a medium are its pieces and marks.                        *)

LEMMA TileIndex ==
    ASSUME NEW columns \in Nat \ {0}, NEW rows \in Nat \ {0}, NEW x \in 1 .. columns, NEW y \in 1 .. rows
    PROVE  1 + (y - 1) * columns + x \in 1 .. 1 + columns * rows
  <1>1. (y - 1) * columns \in Nat /\ columns * rows \in Nat
    <2>1. \A a, b \in Nat : a * b \in Nat
      OBVIOUS
    <2> QED
      BY <2>1
  <1>2. (y - 1) * columns + columns <= columns * rows
    <2>1. PICK d \in Nat : rows = y + d
      <3>1. rows - y \in Nat /\ rows = y + (rows - y)
        OBVIOUS
      <3> QED
        BY <3>1
    <2>2. columns * (y + d) = (y - 1) * columns + columns + columns * d
      OBVIOUS
    <2>3. columns * d \in Nat
      OBVIOUS
    <2> QED
      BY <1>1, <2>1, <2>2, <2>3
  <1> DEFINE p == (y - 1) * columns
             q == columns * rows
  <1>3. p \in Nat /\ q \in Nat /\ p + columns <= q
    BY <1>1, <1>2
  <1> HIDE DEF p, q
  <1>4. 1 + p + x \in 1 .. 1 + q
    BY <1>3
  <1> QED
    BY <1>4 DEF p, q

LEMMA SeqOfThree ==
    ASSUME NEW T, NEW a \in T, NEW b \in T, NEW c \in T
    PROVE  /\ <<a>> \in Seq(T) /\ <<a, b>> \in Seq(T) /\ <<a, b, c>> \in Seq(T)
           /\ <<a>> # <<>> /\ <<a, b>> # <<>> /\ <<a, b, c>> # <<>>
  OBVIOUS

LEMMA ConcatNotEmpty ==
    ASSUME NEW T, NEW a \in Seq(T), NEW b \in Seq(T), a # <<>> \/ b # <<>>
    PROVE  a \o b \in Seq(T) /\ a \o b # <<>>
  <1>1. Len(a) + Len(b) > 0
    OBVIOUS
  <1>2. Len(a \o b) = Len(a) + Len(b) /\ a \o b \in Seq(T)
    OBVIOUS
  <1> QED
    BY <1>1, <1>2

LEMMA MiniCpmVOf ==
    ASSUME NEW T, NEW f, NEW m \in Media, NEW bos \in BOOLEAN, TextChunks \subseteq T,
           NEW pieces \in Seq(T), Len(pieces) = 1 \/ Len(pieces) = 1 + Grid[m][1] * Grid[m][2]
    PROVE  MiniCpmV(f, pieces, Grid[m], bos) \in Seq(T) \ {<<>>}
  <1> DEFINE grid    == Grid[m]
             old     == f = "minicpmv2"
             open    == Mark(IF old THEN "begin" ELSE "slice", FALSE)
             close   == Mark(IF old THEN "end" ELSE "slice_end", FALSE)
             tiled(y) == [x \in 1 .. grid[1] |-> <<open, TileRow(pieces, grid[1], y)[x], close>>]
             broken(y) == IF y = grid[2] THEN <<>> ELSE <<Mark("row_end", FALSE)>>
             row(y)  == FlattenSeq(tiled(y)) \o broken(y)
             rows    == [y \in 1 .. grid[2] |-> row(y)]
             before  == IF old THEN <<Mark("slice", FALSE)>> ELSE <<>>
             behind  == IF old THEN <<Mark("slice_end", FALSE)>> ELSE <<>>
             tiles   == IF Len(pieces) = 1 THEN <<>> ELSE before \o FlattenSeq(rows) \o behind
             first   == <<Mark("begin", bos), pieces[1], Mark("end", FALSE)>>
  <1>1. \A name \in DOMAIN Marker, b \in BOOLEAN : Mark(name, b) \in T
    BY Marked DEF TextChunks
  <1>2. open \in T /\ close \in T
    BY <1>1, MarkerNames
  <1>3. before \in Seq(T) /\ behind \in Seq(T)
    <2>1. Mark("slice", FALSE) \in T /\ Mark("slice_end", FALSE) \in T
      BY <1>1, MarkerNames
    <2>2. <<Mark("slice", FALSE)>> \in Seq(T) /\ <<Mark("slice_end", FALSE)>> \in Seq(T)
      BY <2>1, SeqOfThree
    <2>3. <<>> \in Seq(T)
      OBVIOUS
    <2> QED
      BY <2>2, <2>3
  <1>4. pieces[1] \in T
    <2> DEFINE slices == Grid[m][1] * Grid[m][2]
    <2>1. slices \in Nat
      BY GridTyped
    <2>2. Len(pieces) = 1 \/ Len(pieces) = 1 + slices
      OBVIOUS
    <2> HIDE DEF slices
    <2> QED
      BY <2>1, <2>2
  <1>5. first \in Seq(T) /\ first # <<>>
    <2>1. Mark("begin", bos) \in T /\ Mark("end", FALSE) \in T
      BY <1>1, MarkerNames
    <2> QED
      BY <1>4, <2>1, SeqOfThree
  <1>6. ASSUME Len(pieces) # 1 PROVE FlattenSeq(rows) \in Seq(T)
    <2>1. ASSUME NEW y \in 1 .. grid[2] PROVE row(y) \in Seq(T)
      <3>1. ASSUME NEW x \in 1 .. grid[1] PROVE <<open, TileRow(pieces, grid[1], y)[x], close>> \in Seq(T)
        <4> DEFINE k == 1 + (y - 1) * grid[1] + x
        <4>1. k \in 1 .. 1 + grid[1] * grid[2]
          BY GridTyped, TileIndex
        <4>2. TileRow(pieces, grid[1], y)[x] = pieces[k]
          BY DEF TileRow
        <4> HIDE DEF k, open, close
        <4>3. pieces[k] \in T
          BY <1>6, <4>1
        <4> QED
          BY <1>2, <4>2, <4>3, SeqOfThree
      <3>2. tiled(y) \in Seq(Seq(T))
        <4>1. grid[1] \in Nat
          BY GridTyped
        <4> DEFINE S == Seq(T)
                   n == grid[1]
        <4>2. tiled(y) \in [1 .. n -> S]
          BY <3>1
        <4> HIDE DEF S, n, tiled
        <4>3. tiled(y) \in Seq(S)
          BY <4>1, <4>2 DEF n
        <4> QED
          BY <4>3 DEF S
      <3>3. FlattenSeq(tiled(y)) \in Seq(T)
        <4> HIDE DEF tiled
        <4> QED
          BY <3>2, FlattenTyped
      <3>4. broken(y) \in Seq(T)
        <4>1. Mark("row_end", FALSE) \in T
          BY <1>1, MarkerNames
        <4>2. <<Mark("row_end", FALSE)>> \in Seq(T)
          BY <4>1, SeqOfThree
        <4>3. <<>> \in Seq(T)
          OBVIOUS
        <4> QED
          BY <4>2, <4>3
      <3> HIDE DEF tiled, broken
      <3> QED
        BY <3>3, <3>4, ConcatTyped
    <2>2. grid[2] \in Nat
      BY GridTyped
    <2> DEFINE S == Seq(T)
               n == grid[2]
    <2>3. rows \in [1 .. n -> S]
      BY <2>1
    <2> HIDE DEF S, n, rows
    <2>4. rows \in Seq(S)
      BY <2>2, <2>3 DEF n
    <2> QED
      BY <2>4, FlattenTyped DEF S
  <1>7. tiles \in Seq(T)
    <2>1. CASE Len(pieces) = 1
      BY <2>1
    <2>2. CASE Len(pieces) # 1
      <3> HIDE DEF rows, before, behind
      <3>1. before \o FlattenSeq(rows) \in Seq(T)
        BY <1>3, <1>6, <2>2, ConcatTyped
      <3>2. before \o FlattenSeq(rows) \o behind \in Seq(T)
        BY <1>3, <3>1, ConcatTyped
      <3> QED
        BY <2>2, <3>2
    <2> QED
      BY <2>1, <2>2
  <1>8. MiniCpmV(f, pieces, Grid[m], bos) = first \o tiles
    BY DEF MiniCpmV
  <1> HIDE DEF first, tiles
  <1> QED
    BY <1>5, <1>7, <1>8, ConcatNotEmpty

(* Not empty either: what stands for a medium.                             *)
LEMMA WrappedOf ==
    ASSUME NEW T, NEW f \in Families, NEW m \in Media, NEW bos \in BOOLEAN, TextChunks \subseteq T,
           Hears(f) = (m \in Audio), NEW pieces \in Seq(T), Len(pieces) = Count(f, m)
    PROVE  Wrapped(f, m, pieces, bos) \in Seq(T) \ {<<>>}
  <1>1. Len(pieces) \in Nat \ {0} /\ pieces # <<>>
    <2>1. Len(pieces) \in Nat \ {0}
      BY CountTyped
    <2> QED
      BY <2>1
  <1>2. pieces[1] \in T
    <2>1. 1 \in 1 .. Len(pieces)
      BY <1>1
    <2> QED
      BY <2>1
  <1>3. \A name \in DOMAIN Marker, b \in BOOLEAN : Mark(name, b) \in T
    BY Marked DEF TextChunks
  <1>4. Mark("begin", bos) \in T /\ Mark("tile", bos) \in T /\ Mark("end", FALSE) \in T
    BY <1>3, MarkerNames
  <1>5. /\ <<Mark("begin", bos)>> \in Seq(T) /\ <<Mark("end", FALSE)>> \in Seq(T)
        /\ <<Mark("begin", bos)>> # <<>> /\ <<Mark("end", FALSE)>> # <<>>
    BY <1>4, SeqOfThree
  <1>6. CASE m \in Audio
    <2>1. <<Mark("begin", bos)>> \o pieces \in Seq(T) \ {<<>>}
      BY <1>5, ConcatNotEmpty
    <2>2. <<Mark("begin", bos)>> \o pieces \o <<Mark("end", FALSE)>> \in Seq(T) \ {<<>>}
      BY <1>5, <2>1, ConcatNotEmpty
    <2>3. Sound(f, pieces, bos) \in Seq(T) \ {<<>>}
      BY <1>1, <2>1, <2>2 DEF Sound
    <2> QED
      BY <1>6, <2>3 DEF Wrapped, Hears
  <1>7. CASE m \notin Audio /\ f \in {"minicpmv2", "minicpmv"}
    <2>1. Len(pieces) = 1 \/ Len(pieces) = 1 + Grid[m][1] * Grid[m][2]
      BY <1>7 DEF Count
    <2>2. MiniCpmV(f, pieces, Grid[m], bos) \in Seq(T) \ {<<>>}
      BY <2>1, MiniCpmVOf
    <2> QED
      BY <1>7, <2>2 DEF Wrapped
  <1>8. CASE m \notin Audio /\ f \notin {"minicpmv2", "minicpmv"}
    <2>1. Len(pieces) = 1
      BY <1>8 DEF Count
    <2>2. <<Mark("tile", bos), pieces[1], Mark("end", FALSE)>> \in Seq(T) \ {<<>>}
      BY <1>2, <1>4, SeqOfThree
    <2>3. <<Mark("begin", bos), pieces[1], Mark("end", FALSE)>> \in Seq(T) \ {<<>>}
      BY <1>2, <1>4, SeqOfThree
    <2>4. <<pieces[1], Mark("end", FALSE)>> \in Seq(T) \ {<<>>}
      BY <1>2, <1>4, SeqOfThree
    <2>5. Llama4(pieces, Grid[m], bos) \in Seq(T) \ {<<>>}
      <3> DEFINE one == <<Mark("begin", bos)>>
                 three == <<Mark("tile", bos), pieces[1], Mark("end", FALSE)>>
      <3>1. Llama4(pieces, Grid[m], bos) = one \o <<>> \o three
        BY <2>1 DEF Llama4
      <3>2. one \in Seq(T) /\ three \in Seq(T) \ {<<>>}
        BY <1>5, <2>2
      <3> HIDE DEF one, three
      <3>3. one \o <<>> \o three = one \o three
        BY <3>2
      <3>4. one \o three \in Seq(T) \ {<<>>}
        BY <3>2, ConcatNotEmpty
      <3> QED
        BY <3>1, <3>3, <3>4
    <2>6. Wrapped(f, m, pieces, bos) \in
              {Llama4(pieces, Grid[m], bos), Pixtral(pieces), pieces, Around(pieces, bos)}
      BY <1>8 DEF Wrapped
    <2> QED
      BY <1>1, <2>3, <2>4, <2>5, <2>6 DEF Pixtral, Around
  <1> QED
    BY <1>6, <1>7, <1>8

-----------------------------------------------------------------------------
(* Where a prompt begins.                                                  *)

LEMMA CommonPrefix ==
    ASSUME NEW a \in Seq(Int), NEW b \in Seq(Int)
    PROVE  /\ common_lcp(a, b) \in Nat /\ common_lcp(a, b) <= Len(a) /\ common_lcp(a, b) <= Len(b)
           /\ SubSeq(a, 1, common_lcp(a, b)) = SubSeq(b, 1, common_lcp(a, b))
  <1> DEFINE least == Min({Len(a), Len(b)})
             A == {n \in 0 .. least : SubSeq(a, 1, n) = SubSeq(b, 1, n)}
             lcp == Max(A)
  <1>1. least \in Nat /\ least <= Len(a) /\ least <= Len(b)
    BY SmallerOf, SMTT(40)
  <1> HIDE DEF least
  <1>2. 0 \in A
    <2>1. SubSeq(a, 1, 0) = <<>> /\ SubSeq(b, 1, 0) = <<>>
      OBVIOUS
    <2> QED
      BY <1>1, <2>1
  <1>3. A \subseteq 0 .. least
    OBVIOUS
  <1>4. lcp \in A
    <2> HIDE DEF A
    <2> QED
      BY <1>1, <1>2, <1>3, GreatestOf
  <1>5. lcp = common_lcp(a, b)
    BY DEF common_lcp, least
  <1> HIDE DEF lcp
  <1> QED
    BY <1>1, <1>4, <1>5

Entry == [used : BOOLEAN, tokens : Seq(Int), pos : Nat, clean : BOOLEAN]

LEMMA BestIdle ==
    ASSUME cache_prompts \in [Slots -> Entry], Idle # {}, NEW tokens \in Seq(Int)
    PROVE  Best(tokens) \in Idle
  <1> DEFINE lcp(s) == common_lcp(cache_prompts[s].tokens, tokens)
             A == {lcp(s) : s \in Idle}
             B == {s \in Idle : \A u \in Idle : lcp(u) <= lcp(s)}
             N == Len(tokens)
             top == Max(A)
  <1>1. \A s \in Idle : lcp(s) \in 0 .. N
    <2> SUFFICES ASSUME NEW s \in Idle PROVE lcp(s) \in 0 .. N
      OBVIOUS
    <2> DEFINE e == cache_prompts[s].tokens
    <2>1. e \in Seq(Int)
      BY DEF Idle, Entry
    <2> HIDE DEF e
    <2>2. common_lcp(e, tokens) \in Nat /\ common_lcp(e, tokens) <= N
      BY <2>1, CommonPrefix
    <2> QED
      BY <2>2 DEF e
  <1> HIDE DEF lcp
  <1>2. top \in A /\ \A x \in A : top >= x
    <2>1. A \subseteq 0 .. N /\ A # {} /\ N \in Nat
      BY <1>1
    <2> HIDE DEF A, N
    <2> QED
      BY <2>1, GreatestOf
  <1> HIDE DEF top
  <1>3. PICK s \in Idle : lcp(s) = top
    BY <1>2
  <1>4. s \in B
    BY <1>1, <1>2, <1>3
  <1>5. B \subseteq Nat
    BY PrefillAssumption DEF Idle
  <1>6. Min(B) \in B
    <2> HIDE DEF B
    <2> QED
      BY <1>4, <1>5, LeastOf
  <1>7. Best(tokens) = Min(B)
    BY DEF Best, lcp
  <1> QED
    BY <1>6, <1>7

EntryOf(e, held) == e.tokens # <<>> => e.pos \in Nat \ {0} /\ e.pos = Len(held)

LEMMA HitOf ==
    ASSUME NEW s, cache_prompts[s] \in Entry, EntryOf(cache_prompts[s], memory[s]), NEW tokens \in Seq(Int)
    PROVE  /\ Hit(s, tokens).cached \in Nat /\ Hit(s, tokens).pos \in Nat
           /\ Hit(s, tokens).pos <= Hit(s, tokens).cached
           /\ \/ Hit(s, tokens).cached = 0
              \/ /\ Hit(s, tokens).cached < Len(tokens)
                 /\ Hit(s, tokens).cached < Len(cache_prompts[s].tokens)
                 /\ Hit(s, tokens).pos < cache_prompts[s].pos /\ cache_prompts[s].tokens # <<>>
           /\ SubSeq(cache_prompts[s].tokens, 1, Hit(s, tokens).cached) = SubSeq(tokens, 1, Hit(s, tokens).cached)
  <1> DEFINE e == cache_prompts[s]
             t == e.tokens
             lcp == common_lcp(t, tokens)
             hit == Hit(s, tokens)
  <1>1. t \in Seq(Int) /\ e.pos \in Nat
    BY DEF Entry
  <1>2. /\ lcp \in Nat /\ lcp <= Len(t) /\ lcp <= Len(tokens)
        /\ SubSeq(t, 1, lcp) = SubSeq(tokens, 1, lcp)
    <2> HIDE DEF t
    <2> QED
      BY <1>1, CommonPrefix
  <1>3. hit = IF lcp = 0 THEN [cached |-> 0, pos |-> 0]
              ELSE [cached |-> lcp - 1, pos |-> Min({e.pos - 1, lcp - 1})]
    BY DEF Hit
  <1>4. lcp # 0 => t # <<>> /\ e.pos >= 1
    <2>1. lcp # 0 => t # <<>>
      <3> HIDE DEF lcp, t
      <3> QED
        BY <1>1, <1>2
    <2> QED
      BY <2>1 DEF EntryOf
  <1>5. SubSeq(t, 1, hit.cached) = SubSeq(tokens, 1, hit.cached)
    <2> HIDE DEF lcp, hit, t
    <2>1. CASE lcp = 0
      BY <1>1, <1>2, <1>3, <2>1
    <2>2. CASE lcp # 0
      <3>1. hit.cached = lcp - 1
        BY <1>3, <2>2
      <3>2. \A i \in 1 .. lcp : t[i] = tokens[i]
        <4>1. \A i \in 1 .. lcp : SubSeq(t, 1, lcp)[i] = t[i] /\ SubSeq(tokens, 1, lcp)[i] = tokens[i]
          BY <1>1, <1>2, SMTT(30)
        <4> QED
          BY <1>2, <4>1
      <3>3. \A i \in 1 .. lcp - 1 : t[i] = tokens[i]
        BY <1>2, <3>2
      <3> QED
        BY <1>1, <1>2, <3>1, <3>3
    <2> QED
      BY <2>1, <2>2
  <1>6. Min({e.pos - 1, lcp - 1}) = IF e.pos - 1 <= lcp - 1 THEN e.pos - 1 ELSE lcp - 1
    <2> DEFINE a == e.pos - 1
               b == lcp - 1
    <2>1. a \in Int /\ b \in Int
      <3> HIDE DEF lcp, e
      <3> QED
        BY <1>1, <1>2
    <2> HIDE DEF a, b
    <2>2. Min({a, b}) = IF a <= b THEN a ELSE b
      BY <2>1, SmallerOf
    <2> QED
      BY <2>2 DEF a, b
  <1>7. /\ hit.cached \in Nat /\ hit.pos \in Nat /\ hit.pos <= hit.cached
        /\ hit.cached = 0 \/ (hit.cached < Len(tokens) /\ hit.cached < Len(t) /\ hit.pos < e.pos /\ t # <<>>)
    <2> DEFINE least == Min({e.pos - 1, lcp - 1})
    <2>1. lcp # 0 => hit = [cached |-> lcp - 1, pos |-> least]
      BY <1>3
    <2>2. lcp # 0 => least \in Nat /\ least <= lcp - 1 /\ least < e.pos
      <3> HIDE DEF lcp, e, t
      <3> QED
        BY <1>1, <1>2, <1>4, <1>6
    <2> HIDE DEF lcp, hit, t, least
    <2>3. CASE lcp = 0
      BY <1>3, <2>3
    <2>4. CASE lcp # 0
      <3>1. hit.cached = lcp - 1 /\ hit.pos = least
        BY <2>1, <2>4
      <3> QED
        BY <1>1, <1>2, <1>4, <2>2, <2>4, <3>1
    <2> QED
      BY <2>3, <2>4
  <1> QED
    BY <1>5, <1>7

-----------------------------------------------------------------------------
(* Chunk by chunk.                                                         *)

(* What is skipped of a chunk is not below zero.                           *)
Progress ==
    {p \in [pos : Nat, n_prefilled : Nat, c_prefilled : Nat, used : Int, memory : Seq(Int),
            failed : BOOLEAN, batch : Seq(Int), skewed : BOOLEAN] : p.c_prefilled <= p.n_prefilled}

LEMMA StartOf ==
    ASSUME NEW s, memory[s] \in Seq(Int), cache_prompts[s].pos \in Nat, llm_kv_cache_used \in Int,
           NEW hit \in [cached : Nat, pos : Nat], hit.pos <= Len(memory[s])
    PROVE  /\ Start(s, hit) \in Progress /\ ~ Start(s, hit).failed /\ Start(s, hit).batch = <<>>
           /\ ~ Start(s, hit).skewed /\ Start(s, hit).c_prefilled = 0 /\ Start(s, hit).n_prefilled = hit.cached
           /\ Start(s, hit).memory = SubSeq(memory[s], 1, hit.pos) /\ Start(s, hit).pos = hit.pos
           /\ Len(Start(s, hit).memory) = Start(s, hit).pos
           /\ Start(s, hit).used - Start(s, hit).pos = llm_kv_cache_used - cache_prompts[s].pos
  <1> DEFINE m == SubSeq(memory[s], 1, hit.pos)
             used == llm_kv_cache_used - cache_prompts[s].pos + hit.pos
  <1>1. m \in Seq(Int) /\ Len(m) = hit.pos
    OBVIOUS
  <1>2. used \in Int /\ used - hit.pos = llm_kv_cache_used - cache_prompts[s].pos
    OBVIOUS
  <1>3. Start(s, hit) = [pos |-> hit.pos, n_prefilled |-> hit.cached, c_prefilled |-> 0, used |-> used,
                         memory |-> m, failed |-> FALSE, batch |-> <<>>, skewed |-> FALSE]
    BY DEF Start
  <1>4. <<>> \in Seq(Int)
    OBVIOUS
  <1> HIDE DEF m, used
  <1> QED
    BY <1>1, <1>2, <1>3, <1>4 DEF Progress, m

LEMMA ProgressIs ==
    ASSUME NEW pos \in Nat, NEW n \in Nat, NEW c \in Nat, c <= n, NEW used \in Int, NEW held \in Seq(Int),
           NEW failed \in BOOLEAN, NEW batch \in Seq(Int), NEW skips \in BOOLEAN
    PROVE  [pos |-> pos, n_prefilled |-> n, c_prefilled |-> c, used |-> used, memory |-> held,
            failed |-> failed, batch |-> batch, skewed |-> skips] \in Progress
  BY DEF Progress

(* A chunk of n tokens takes p to q.                                       *)
Decodes(p, n, q) ==
    /\ q \in Progress /\ q.batch = p.batch /\ q.skewed = p.skewed
    /\ q.used - q.pos = p.used - p.pos
    /\ ~ q.failed => ~ p.failed /\ q.c_prefilled = p.c_prefilled + n
    /\ ~ q.failed => (Len(p.memory) = p.pos => Len(q.memory) = q.pos)
    /\ q.failed => (p.failed /\ q = p) \/ (~ p.failed /\ q.c_prefilled = p.c_prefilled /\ n > 0)

LEMMA DecodedOf ==
    ASSUME NEW p \in Progress, NEW chunk \in Chunk, NEW ok \in BOOLEAN
    PROVE  Decodes(p, Len(chunk.tokens), Decoded(p, chunk, ok))
  <1> DEFINE q == Decoded(p, chunk, ok)
             n == Len(chunk.tokens)
             from == p.n_prefilled - p.c_prefilled
             skip == IF chunk.media THEN 0 ELSE from
             more == n - skip
             part == SubSeq(chunk.contents, skip + 1, n)
             added == [p EXCEPT !.pos = @ + n - skip, !.n_prefilled = @ + n - skip, !.used = @ + n - skip]
  <1> SUFFICES Decodes(p, n, q)
    OBVIOUS
  <1>1. /\ p.pos \in Nat /\ p.n_prefilled \in Nat /\ p.c_prefilled \in Nat /\ p.used \in Int
        /\ p.memory \in Seq(Int) /\ p.failed \in BOOLEAN /\ p.batch \in Seq(Int) /\ p.skewed \in BOOLEAN
        /\ p.c_prefilled <= p.n_prefilled
    BY DEF Progress
  <1>2. /\ chunk.media \in BOOLEAN /\ chunk.contents \in Seq(Int) /\ n = Len(chunk.contents) /\ n \in Nat
    BY DEF Chunk
  <1>3. from \in Nat /\ skip \in Nat /\ skip <= from
    BY <1>1, <1>2
  <1>4. ASSUME from < n PROVE part \in Seq(Int) /\ Len(part) = more /\ more \in Nat \ {0}
    <2> HIDE DEF skip, from, n
    <2>1. skip + 1 \in 1 .. n + 1 /\ skip < n
      BY <1>2, <1>3, <1>4
    <2> DEFINE c == chunk.contents
               k == skip + 1
    <2>2. c \in Seq(Int) /\ n = Len(c) /\ k \in 1 .. n /\ n \in Nat
      BY <1>2, <2>1, <1>3
    <2> HIDE DEF c, k
    <2>3. SubSeq(c, k, n) \in Seq(Int) /\ Len(SubSeq(c, k, n)) = n - k + 1
      BY <2>2
    <2> QED
      BY <1>2, <1>3, <2>1, <2>3 DEF c, k
  <1> DEFINE As(pos, prefilled, c, used, held, failed) ==
                 [pos |-> pos, n_prefilled |-> prefilled, c_prefilled |-> c, used |-> used, memory |-> held,
                  failed |-> failed, batch |-> p.batch, skewed |-> p.skewed]
  <1>5. added = [p EXCEPT !.pos = p.pos + more, !.n_prefilled = p.n_prefilled + more, !.used = p.used + more]
    <2> HIDE DEF skip, n
    <2> QED
      BY <1>1, <1>2, <1>3 DEF Progress
  <1>6. CASE p.failed
    <2>1. q = p
      BY <1>6 DEF Decoded
    <2>2. q \in Progress /\ q.batch = p.batch /\ q.skewed = p.skewed /\ q.used - q.pos = p.used - p.pos /\ q.failed
      BY <1>6, <2>1
    <2> HIDE DEF q, n
    <2> QED
      BY <1>6, <2>1, <2>2 DEF Decodes
  <1>7. CASE ~ p.failed /\ from >= n
    <2>1. q = [p EXCEPT !.c_prefilled = p.c_prefilled + n]
      BY <1>7 DEF Decoded
    <2>2. q = As(p.pos, p.n_prefilled, p.c_prefilled + n, p.used, p.memory, FALSE)
      <3> HIDE DEF q, n, from
      <3>1. p.failed = FALSE
        BY <1>1, <1>7
      <3> QED
        BY <2>1, <3>1 DEF Progress
    <2> HIDE DEF q, n, from
    <2>3. p.c_prefilled + n <= p.n_prefilled /\ p.c_prefilled + n \in Nat
      BY <1>1, <1>2, <1>7 DEF from
    <2>4. q \in Progress
      BY <1>1, <2>2, <2>3, ProgressIs
    <2>5. /\ q.pos = p.pos /\ q.c_prefilled = p.c_prefilled + n /\ q.used = p.used
          /\ q.memory = p.memory /\ ~ q.failed /\ q.batch = p.batch /\ q.skewed = p.skewed
      BY <2>2
    <2> QED
      BY <1>7, <2>4, <2>5 DEF Decodes
  <1>8. CASE ~ p.failed /\ from < n /\ ~ ok
    <2>1. q = [added EXCEPT !.failed = TRUE]
      <3>1. ~ (from >= n)
        <4> HIDE DEF from, n
        <4> QED
          BY <1>2, <1>3, <1>8
      <3> QED
        BY <1>8, <3>1, Zenon DEF Decoded
    <2> HIDE DEF q, n, from, more, added
    <2>2. q = As(p.pos + more, p.n_prefilled + more, p.c_prefilled, p.used + more, p.memory, TRUE)
      BY <1>5, <2>1 DEF Progress
    <2>3. q \in Progress
      <3>1. p.pos + more \in Nat /\ p.n_prefilled + more \in Nat /\ p.c_prefilled <= p.n_prefilled + more /\ p.used + more \in Int
        <4> DEFINE a == p.pos
                   b == p.n_prefilled
                   d == p.c_prefilled
                   u == p.used
        <4>1. more \in Nat \ {0}
          BY <1>4, <1>8
        <4>2. a \in Nat /\ b \in Nat /\ d \in Nat /\ d <= b /\ u \in Int
          BY <1>1
        <4> HIDE DEF a, b, d, u
        <4>3. a + more \in Nat /\ b + more \in Nat /\ d <= b + more /\ u + more \in Int
          BY <4>1, <4>2
        <4> QED
          BY <4>3 DEF a, b, d, u
      <3> QED
        BY <1>1, <2>2, <3>1, ProgressIs
    <2>4. /\ q.pos = p.pos + more /\ q.c_prefilled = p.c_prefilled /\ q.used = p.used + more
          /\ q.failed /\ q.batch = p.batch /\ q.skewed = p.skewed
      BY <2>2
    <2>5. n > 0
      BY <1>2, <1>3, <1>8
    <2>6. q.used - q.pos = p.used - p.pos
      BY <1>1, <1>4, <1>8, <2>4
    <2> QED
      BY <1>8, <2>3, <2>4, <2>5, <2>6 DEF Decodes
  <1>9. CASE ~ p.failed /\ from < n /\ ok
    <2>1. q = [added EXCEPT !.c_prefilled = @ + n, !.memory = @ \o part]
      <3>1. ~ (from >= n)
        <4> HIDE DEF from, n
        <4> QED
          BY <1>2, <1>3, <1>9
      <3> QED
        BY <1>9, <3>1, Zenon DEF Decoded
    <2> HIDE DEF q, n, from, more, added, part
    <2>2. q = As(p.pos + more, p.n_prefilled + more, p.c_prefilled + n, p.used + more, p.memory \o part, FALSE)
      <3>1. p.failed = FALSE
        BY <1>1, <1>9
      <3> QED
        BY <1>5, <2>1, <3>1 DEF Progress
    <2>3. p.memory \o part \in Seq(Int) /\ Len(p.memory \o part) = Len(p.memory) + more
      BY <1>1, <1>4, <1>9, ConcatTyped
    <2>4. p.c_prefilled + n <= p.n_prefilled + more
      <3>1. skip <= from /\ from = p.n_prefilled - p.c_prefilled
        BY <1>3 DEF from
      <3> HIDE DEF skip
      <3> QED
        BY <1>1, <1>2, <1>3, <3>1 DEF more
    <2>5. q \in Progress
      <3>1. p.pos + more \in Nat /\ p.n_prefilled + more \in Nat /\ p.c_prefilled + n \in Nat /\ p.used + more \in Int
        <4> DEFINE a == p.pos
                   b == p.n_prefilled
                   d == p.c_prefilled
                   u == p.used
        <4>1. more \in Nat \ {0} /\ n \in Nat
          BY <1>2, <1>4, <1>9
        <4>2. a \in Nat /\ b \in Nat /\ d \in Nat /\ u \in Int
          BY <1>1
        <4> HIDE DEF a, b, d, u
        <4>3. a + more \in Nat /\ b + more \in Nat /\ d + n \in Nat /\ u + more \in Int
          BY <4>1, <4>2
        <4> QED
          BY <4>3 DEF a, b, d, u
      <3> QED
        BY <1>1, <2>2, <2>3, <2>4, <3>1, ProgressIs
    <2>6. /\ q.pos = p.pos + more /\ q.c_prefilled = p.c_prefilled + n /\ q.used = p.used + more
          /\ q.memory = p.memory \o part /\ ~ q.failed /\ q.batch = p.batch /\ q.skewed = p.skewed
      BY <2>2
    <2>7. q.used - q.pos = p.used - p.pos /\ (Len(p.memory) = p.pos => Len(q.memory) = q.pos)
      BY <1>1, <1>4, <1>9, <2>3, <2>6
    <2> QED
      BY <1>9, <2>5, <2>6, <2>7 DEF Decodes
  <1> HIDE DEF q, n, from
  <1>10. \/ p.failed \/ (~ p.failed /\ from >= n) \/ (~ p.failed /\ from < n /\ ok) \/ (~ p.failed /\ from < n /\ ~ ok)
    BY <1>1, <1>2, <1>3
  <1> QED
    BY <1>6, <1>7, <1>8, <1>9, <1>10

-----------------------------------------------------------------------------
(* Tokens and contents of chunks, side by side.                            *)

Both(chunks, tokens, contents) ==
    /\ Tokens(chunks) = tokens /\ Contents(chunks) = contents
    /\ tokens \in Seq(Int) /\ contents \in Seq(Int) /\ Len(tokens) = Len(contents)

LEMMA NoChunks == Both(<<>>, <<>>, <<>>)
  <1>1. [k \in DOMAIN <<>> |-> <<>>[k].tokens] = <<>> /\ [k \in DOMAIN <<>> |-> <<>>[k].contents] = <<>>
    OBVIOUS
  <1>2. <<>> \in Seq(Int)
    OBVIOUS
  <1> QED
    BY <1>1, <1>2, FlattenNone DEF Both, Tokens, Contents

LEMMA AppendIs ==
    ASSUME NEW S, NEW s \in Seq(S), NEW x \in S
    PROVE  Append(s, x) = [k \in 1 .. Len(s) + 1 |-> IF k = Len(s) + 1 THEN x ELSE s[k]]
  <1> DEFINE f == Append(s, x)
             n == Len(s)
  <1>1. /\ f \in Seq(S) /\ Len(f) = n + 1 /\ n \in Nat
        /\ f[n + 1] = x /\ \A k \in 1 .. n : f[k] = s[k]
    OBVIOUS
  <1> HIDE DEF f, n
  <1>2. f = [k \in 1 .. n + 1 |-> f[k]]
    BY <1>1
  <1>3. \A k \in 1 .. n + 1 : f[k] = IF k = n + 1 THEN x ELSE s[k]
    BY <1>1
  <1> QED
    BY <1>2, <1>3 DEF f, n

LEMMA OneMore ==
    ASSUME NEW chunks \in Seq(Chunk), NEW c \in Chunk, Both(chunks, Tokens(chunks), Contents(chunks))
    PROVE  Both(Append(chunks, c), Tokens(chunks) \o c.tokens, Contents(chunks) \o c.contents)
  <1> DEFINE S == Seq(Int)
             n == Len(chunks)
             more == Append(chunks, c)
             ts == [k \in DOMAIN chunks |-> chunks[k].tokens]
             cs == [k \in DOMAIN chunks |-> chunks[k].contents]
             tokens == c.tokens
             contents == c.contents
  <1>1. tokens \in S /\ contents \in S /\ Len(tokens) = Len(contents)
    BY DEF Chunk
  <1>2. ts \in Seq(S) /\ cs \in Seq(S) /\ Len(ts) = n /\ Len(cs) = n
    <2>1. n \in Nat /\ DOMAIN chunks = 1 .. n
      OBVIOUS
    <2>2. \A k \in 1 .. n : chunks[k].tokens \in S /\ chunks[k].contents \in S
      BY DEF Chunk
    <2> HIDE DEF n, S
    <2>3. ts \in [1 .. n -> S] /\ cs \in [1 .. n -> S]
      BY <2>1, <2>2
    <2> HIDE DEF ts, cs
    <2> QED
      BY <2>1, <2>3
  <1>3. [k \in DOMAIN more |-> more[k].tokens] = Append(ts, tokens)
    <2> DEFINE f == [k \in DOMAIN more |-> more[k].tokens]
    <2>1. DOMAIN more = 1 .. n + 1 /\ more[n + 1] = c /\ \A k \in 1 .. n : more[k] = chunks[k]
      OBVIOUS
    <2>2. DOMAIN f = 1 .. n + 1 /\ f[n + 1] = tokens /\ \A k \in 1 .. n : f[k] = ts[k]
      BY <2>1
    <2>3. f = [k \in 1 .. n + 1 |-> IF k = n + 1 THEN tokens ELSE ts[k]]
      BY <2>1
    <2> HIDE DEF f, ts, tokens
    <2>4. Append(ts, tokens) = [k \in 1 .. n + 1 |-> IF k = n + 1 THEN tokens ELSE ts[k]]
      <3> HIDE DEF S, n
      <3> QED
        BY <1>1, <1>2, AppendIs
    <2> QED
      BY <2>3, <2>4 DEF f
  <1>4. [k \in DOMAIN more |-> more[k].contents] = Append(cs, contents)
    <2> DEFINE f == [k \in DOMAIN more |-> more[k].contents]
    <2>1. DOMAIN more = 1 .. n + 1 /\ more[n + 1] = c /\ \A k \in 1 .. n : more[k] = chunks[k]
      OBVIOUS
    <2>3. f = [k \in 1 .. n + 1 |-> IF k = n + 1 THEN contents ELSE cs[k]]
      BY <2>1
    <2> HIDE DEF f, cs, contents
    <2>4. Append(cs, contents) = [k \in 1 .. n + 1 |-> IF k = n + 1 THEN contents ELSE cs[k]]
      <3> HIDE DEF S, n
      <3> QED
        BY <1>1, <1>2, AppendIs
    <2> QED
      BY <2>3, <2>4 DEF f
  <1>5. Tokens(chunks) = FlattenSeq(ts) /\ Contents(chunks) = FlattenSeq(cs)
    BY DEF Tokens, Contents
  <1> DEFINE a == Tokens(chunks)
             b == Contents(chunks)
  <1>6. Tokens(more) = a \o tokens /\ Contents(more) = b \o contents
    <2> HIDE DEF ts, cs, tokens, contents
    <2>1. FlattenSeq(Append(ts, tokens)) = FlattenSeq(ts) \o tokens
      BY <1>1, <1>2, FlattenAppend
    <2>2. FlattenSeq(Append(cs, contents)) = FlattenSeq(cs) \o contents
      BY <1>1, <1>2, FlattenAppend
    <2> QED
      BY <1>3, <1>4, <1>5, <2>1, <2>2 DEF Tokens, Contents
  <1>7. a \in S /\ b \in S /\ Len(a) = Len(b)
    BY DEF Both
  <1> HIDE DEF a, b, tokens, contents, more
  <1>8. a \o tokens \in S /\ b \o contents \in S /\ Len(a \o tokens) = Len(b \o contents)
    <2>0. a \in Seq(Int) /\ tokens \in Seq(Int) /\ b \in Seq(Int) /\ contents \in Seq(Int)
      BY <1>1, <1>7
    <2>1. a \o tokens \in S /\ Len(a \o tokens) = Len(a) + Len(tokens)
      BY <2>0, ConcatTyped
    <2>2. b \o contents \in S /\ Len(b \o contents) = Len(b) + Len(contents)
      BY <2>0, ConcatTyped
    <2> QED
      BY <1>1, <1>7, <2>1, <2>2
  <1> QED
    BY <1>6, <1>8 DEF Both, a, b, tokens, contents, more

LEMMA BothOf ==
    ASSUME NEW chunks \in Seq(Chunk)
    PROVE  Both(chunks, Tokens(chunks), Contents(chunks))
  <1> DEFINE Good == {n \in Nat : \A q \in Seq(Chunk) : Len(q) = n => Both(q, Tokens(q), Contents(q))}
  <1>1. 0 \in Good
    <2>1. \A q \in Seq(Chunk) : Len(q) = 0 => q = <<>>
      OBVIOUS
    <2>2. Both(<<>>, Tokens(<<>>), Contents(<<>>))
      BY NoChunks DEF Both
    <2> QED
      BY <2>1, <2>2
  <1>2. ASSUME NEW n \in Nat, n \in Good PROVE n + 1 \in Good
    <2> SUFFICES ASSUME NEW q \in Seq(Chunk), Len(q) = n + 1 PROVE Both(q, Tokens(q), Contents(q))
      OBVIOUS
    <2> DEFINE front == SubSeq(q, 1, n)
               x == q[n + 1]
    <2>1. front \in Seq(Chunk) /\ x \in Chunk /\ Len(front) = n /\ q = Append(front, x)
      <3> HIDE DEF Good
      <3> QED
        BY FrontAndLast
    <2> HIDE DEF front, x
    <2>2. Both(front, Tokens(front), Contents(front))
      BY <1>2, <2>1
    <2>3. Both(q, Tokens(front) \o x.tokens, Contents(front) \o x.contents)
      BY <2>1, <2>2, OneMore
    <2> QED
      BY <2>3 DEF Both
  <1>3. \A n \in Nat : n \in Good
    <2> HIDE DEF Good
    <2> QED
      BY <1>1, <1>2, EveryNumber
  <1> QED
    BY <1>3

(* The first k chunks.                                                     *)
Upto(chunks, k) == SubSeq(chunks, 1, k)

LEMMA UptoNext ==
    ASSUME NEW chunks \in Seq(Chunk), NEW k \in 1 .. Len(chunks)
    PROVE  /\ Upto(chunks, k) \in Seq(Chunk) /\ Upto(chunks, k - 1) \in Seq(Chunk) /\ chunks[k] \in Chunk
           /\ Upto(chunks, k) = Append(Upto(chunks, k - 1), chunks[k])
           /\ Tokens(Upto(chunks, k)) = Tokens(Upto(chunks, k - 1)) \o chunks[k].tokens
           /\ Contents(Upto(chunks, k)) = Contents(Upto(chunks, k - 1)) \o chunks[k].contents
           /\ NumTokens(Upto(chunks, k - 1)) \in Nat
           /\ NumTokens(Upto(chunks, k)) = NumTokens(Upto(chunks, k - 1)) + Len(chunks[k].tokens)
  <1> DEFINE a == Upto(chunks, k - 1)
             b == Upto(chunks, k)
             c == chunks[k]
  <1>1. a \in Seq(Chunk) /\ b \in Seq(Chunk) /\ c \in Chunk
    <2>1. \A j \in 0 .. Len(chunks) : SubSeq(chunks, 1, j) \in Seq(Chunk)
      OBVIOUS
    <2>2. k - 1 \in 0 .. Len(chunks) /\ k \in 0 .. Len(chunks)
      OBVIOUS
    <2> QED
      BY <2>1, <2>2 DEF Upto
  <1>2. b = Append(a, c)
    <2>1. Len(a) = k - 1 /\ Len(b) = k /\ (\A i \in 1 .. k - 1 : a[i] = chunks[i] /\ b[i] = chunks[i]) /\ b[k] = c
      BY DEF Upto
    <2> HIDE DEF a, b, c
    <2> QED
      BY <1>1, <2>1
  <1> HIDE DEF a, b, c
  <1>3. Both(a, Tokens(a), Contents(a))
    BY <1>1, BothOf
  <1>4. Both(b, Tokens(a) \o c.tokens, Contents(a) \o c.contents)
    BY <1>1, <1>2, <1>3, OneMore
  <1>5. Len(Tokens(a) \o c.tokens) = Len(Tokens(a)) + Len(c.tokens) /\ Len(Tokens(a)) \in Nat
    <2> DEFINE s == Tokens(a)
               t == c.tokens
    <2>1. s \in Seq(Int) /\ t \in Seq(Int)
      BY <1>1, <1>3 DEF Both, Chunk
    <2> HIDE DEF s, t
    <2>2. Len(s \o t) = Len(s) + Len(t) /\ Len(s) \in Nat
      BY <2>1
    <2> QED
      BY <2>2 DEF s, t
  <1> QED
    BY <1>1, <1>2, <1>4, <1>5 DEF Both, NumTokens, a, b, c

LEMMA UptoEnds ==
    ASSUME NEW chunks \in Seq(Chunk)
    PROVE  /\ Upto(chunks, 0) = <<>> /\ NumTokens(Upto(chunks, 0)) = 0 /\ Upto(chunks, Len(chunks)) = chunks
  <1>1. Upto(chunks, 0) = <<>> /\ Upto(chunks, Len(chunks)) = chunks
    BY DEF Upto
  <1>2. Tokens(<<>>) = <<>>
    BY NoChunks DEF Both
  <1> QED
    BY <1>1, <1>2 DEF NumTokens

(* f[k] is where the prompt is after k chunks, if the one numbered bad     *)
(* fails.                                                                  *)
Prefills(chunks, start, bad, f) ==
    f[0] = start /\ \A k \in 1 .. Len(chunks) - 1 : f[k] = Decoded(f[k - 1], chunks[k], k # bad)

IsAfter(chunks, start, bad, f) ==
    f = [k \in 0 .. Len(chunks) - 1 |-> IF k = 0 THEN start ELSE Decoded(f[k - 1], chunks[k], k # bad)]

LEMMA SomePrefills ==
    ASSUME NEW chunks \in Seq(Chunk), chunks # <<>>, NEW start \in Progress, NEW bad
    PROVE  \E f : IsAfter(chunks, start, bad, f)
  <1> DEFINE N == Len(chunks) - 1
             step == [x \in (1 .. N) \X Progress |-> Decoded(x[2], chunks[x[1]], x[1] # bad)]
  <1>1. N \in Nat /\ \A k \in 1 .. N : chunks[k] \in Chunk
    OBVIOUS
  <1>2. AreSteps(N, Progress, step)
    <2>1. ASSUME NEW x \in (1 .. N) \X Progress PROVE Decoded(x[2], chunks[x[1]], x[1] # bad) \in Progress
      <3> DEFINE p == x[2]
                 c == chunks[x[1]]
                 ok == x[1] # bad
      <3>1. p \in Progress /\ c \in Chunk /\ ok \in BOOLEAN
        BY <1>1
      <3> HIDE DEF p, c, ok
      <3>2. Decoded(p, c, ok) \in Progress
        BY <3>1, DecodedOf DEF Decodes
      <3> QED
        BY <3>2 DEF p, c, ok
    <2> HIDE DEF N
    <2> QED
      BY <2>1 DEF AreSteps
  <1> HIDE DEF N, step
  <1>3. PICK f : Follows(N, Progress, start, step, f)
    BY <1>1, <1>2, Recursion
  <1>4. f \in [0 .. N -> Progress] /\ f[0] = start /\ \A k \in 1 .. N : f[k] = step[<<k, f[k - 1]>>]
    BY <1>3 DEF Follows
  <1>5. ASSUME NEW k \in 0 .. N
        PROVE  f[k] = IF k = 0 THEN start ELSE Decoded(f[k - 1], chunks[k], k # bad)
    <2>1. CASE k = 0
      BY <1>4, <2>1
    <2>2. CASE k # 0
      <3> DEFINE p == f[k - 1]
      <3>1. k \in 1 .. N /\ k - 1 \in 0 .. N
        BY <1>1, <2>2
      <3>2. p \in Progress
        BY <1>4, <3>1
      <3>3. f[k] = step[<<k, p>>]
        BY <1>4, <3>1
      <3> HIDE DEF p
      <3>4. <<k, p>> \in (1 .. N) \X Progress
        BY <3>1, <3>2
      <3>5. step[<<k, p>>] = Decoded(p, chunks[k], k # bad)
        BY <3>4 DEF step
      <3> QED
        BY <2>2, <3>3, <3>5 DEF p
    <2> QED
      BY <2>1, <2>2
  <1>6. f = [k \in 0 .. N |-> f[k]]
    BY <1>4
  <1>7. IsAfter(chunks, start, bad, f)
    BY <1>5, <1>6 DEF IsAfter, N
  <1> QED
    BY <1>7

LEMMA ChunkedFollows ==
    ASSUME NEW r, NEW s, NEW hit, NEW bad,
           request[r].chunks \in Seq(Chunk), request[r].chunks # <<>>, Start(s, hit) \in Progress
    PROVE  \E f : /\ Prefills(request[r].chunks, Start(s, hit), bad, f)
                  /\ Chunked(r, s, hit, bad) =
                         LastChunk(f[Len(request[r].chunks) - 1], request[r].chunks[Len(request[r].chunks)])
  <1> DEFINE chunks == request[r].chunks
             start == Start(s, hit)
             f == CHOOSE g : IsAfter(chunks, start, bad, g)
  <1>1. IsAfter(chunks, start, bad, f)
    <2> HIDE DEF chunks, start
    <2>1. chunks \in Seq(Chunk) /\ chunks # <<>> /\ start \in Progress
      BY DEF chunks, start
    <2> QED
      BY <2>1, SomePrefills
  <1>2. Chunked(r, s, hit, bad) = LastChunk(f[Len(chunks) - 1], chunks[Len(chunks)])
    BY DEF Chunked, IsAfter
  <1> HIDE DEF f
  <1>3. Prefills(chunks, start, bad, f)
    <2> HIDE DEF chunks, start
    <2>1. Len(chunks) \in Nat /\ Len(chunks) # 0
      BY DEF chunks
    <2> QED
      BY <1>1, <2>1 DEF IsAfter, Prefills
  <1> QED
    BY <1>2, <1>3

(* After k of the chunks.                                                  *)
Along(chunks, start, k, p) ==
    /\ p \in Progress /\ p.batch = <<>> /\ ~ p.skewed
    /\ p.used - p.pos = start.used - start.pos
    /\ ~ p.failed => p.c_prefilled = NumTokens(Upto(chunks, k)) /\ Len(p.memory) = p.pos
    /\ p.failed => p.c_prefilled < NumTokens(Upto(chunks, k))

Begins(start) ==
    /\ start \in Progress /\ start.batch = <<>> /\ ~ start.skewed /\ ~ start.failed
    /\ start.c_prefilled = 0 /\ Len(start.memory) = start.pos

LEMMA AlongKept ==
    ASSUME NEW chunks \in Seq(Chunk), chunks # <<>>, NEW start, Begins(start), NEW bad, NEW f,
           Prefills(chunks, start, bad, f)
    PROVE  \A k \in 0 .. Len(chunks) - 1 : Along(chunks, start, k, f[k])
  <1> DEFINE Good == {k \in Nat : k <= Len(chunks) - 1 => Along(chunks, start, k, f[k])}
  <1>1. 0 \in Good
    BY UptoEnds DEF Prefills, Along, Begins
  <1>2. ASSUME NEW j \in Nat, j \in Good PROVE j + 1 \in Good
    <2> SUFFICES ASSUME j + 1 <= Len(chunks) - 1 PROVE Along(chunks, start, j + 1, f[j + 1])
      OBVIOUS
    <2> DEFINE k == j + 1
               p == f[j]
               q == f[k]
               c == chunks[k]
               n == Len(c.tokens)
               a == NumTokens(Upto(chunks, j))
               b == NumTokens(Upto(chunks, k))
    <2>1. k \in 1 .. Len(chunks) - 1 /\ k \in 1 .. Len(chunks) /\ k - 1 = j
      OBVIOUS
    <2>2. Along(chunks, start, j, p)
      BY <1>2, <2>1
    <2>3. q = Decoded(p, c, k # bad)
      BY <2>1 DEF Prefills
    <2>4. c \in Chunk /\ a \in Nat /\ b = a + n
      <3> HIDE DEF k
      <3> QED
        BY <2>1, UptoNext
    <2>5. n \in Nat
      BY <2>4 DEF Chunk
    <2> HIDE DEF k, p, q, c, n, Good
    <2>6. Decodes(p, n, q)
      <3> DEFINE ok == k # bad
      <3>1. ok \in BOOLEAN /\ q = Decoded(p, c, ok) /\ p \in Progress
        BY <2>2, <2>3 DEF Along
      <3> HIDE DEF ok
      <3>2. Decodes(p, Len(c.tokens), Decoded(p, c, ok))
        BY <2>4, <3>1, DecodedOf
      <3> QED
        BY <3>1, <3>2 DEF n
    <2> HIDE DEF a, b
    <2>7. Along(chunks, start, k, q)
      <3>0. /\ p.pos \in Int /\ p.used \in Int /\ p.c_prefilled \in Int /\ q.pos \in Int /\ q.used \in Int
            /\ p.failed \in BOOLEAN /\ q.failed \in BOOLEAN /\ q.c_prefilled \in Int
        BY <2>2, <2>6 DEF Along, Decodes, Progress
      <3>1. q \in Progress /\ q.batch = <<>> /\ ~ q.skewed /\ q.used - q.pos = start.used - start.pos
        BY <2>2, <2>6 DEF Along, Decodes
      <3>2. ~ q.failed => q.c_prefilled = b /\ Len(q.memory) = q.pos
        BY <2>2, <2>4, <2>6 DEF Along, Decodes, a
      <3>3. q.failed => q.c_prefilled < b
        <4>1. CASE p.failed
          BY <2>2, <2>4, <2>5, <2>6, <3>0, <4>1 DEF Along, Decodes, a
        <4>2. CASE ~ p.failed
          BY <2>2, <2>4, <2>5, <2>6, <3>0, <4>2 DEF Along, Decodes, a
        <4> QED
          BY <4>1, <4>2
      <3> QED
        BY <3>1, <3>2, <3>3 DEF Along, b
    <2> QED
      BY <2>7 DEF k, q
  <1>3. \A k \in Nat : k \in Good
    <2> HIDE DEF Good
    <2> QED
      BY <1>1, <1>2, EveryNumber
  <1> QED
    BY <1>3

(* The last chunk of n tokens takes p to q.                                *)
Ends(p, n, q) ==
    /\ q.batch \in Seq(Int) /\ q.memory = p.memory /\ q.skewed \in BOOLEAN
    /\ q.pos = p.pos + Len(q.batch) /\ q.pos \in Nat /\ q.used \in Int
    /\ q.n_prefilled = p.c_prefilled + n /\ q.n_prefilled \in Nat
    /\ ~ q.skewed => q.used - q.pos = p.used - p.pos

LEMMA LastOf ==
    ASSUME NEW p \in Progress, NEW chunk \in Chunk
    PROVE  Ends(p, Len(chunk.tokens), LastChunk(p, chunk))
  <1> DEFINE q == LastChunk(p, chunk)
             n == Len(chunk.tokens)
             from == p.n_prefilled - p.c_prefilled
             batch == SubSeq(chunk.contents, from + 1, n)
  <1>1. /\ p.pos \in Nat /\ p.n_prefilled \in Nat /\ p.c_prefilled \in Nat /\ p.used \in Int
        /\ p.memory \in Seq(Int) /\ p.failed \in BOOLEAN /\ p.batch \in Seq(Int) /\ p.skewed \in BOOLEAN
        /\ p.c_prefilled <= p.n_prefilled
    BY DEF Progress
  <1>2. chunk.contents \in Seq(Int) /\ n = Len(chunk.contents) /\ n \in Nat
    BY DEF Chunk
  <1>3. from \in Nat /\ p.n_prefilled + n - from = p.c_prefilled + n
    BY <1>1, <1>2
  <1>4. batch \in Seq(Int) /\ Len(batch) \in Nat /\ (from <= n => Len(batch) = n - from)
    <2> DEFINE c == chunk.contents
    <2>1. c \in Seq(Int) /\ n = Len(c) /\ n \in Nat /\ from \in Nat
      BY <1>2, <1>3
    <2> HIDE DEF c, from, n
    <2>2. SubSeq(c, from + 1, n) \in Seq(Int)
      BY <2>1
    <2>3. from <= n => Len(SubSeq(c, from + 1, n)) = n - from
      BY <2>1
    <2> QED
      BY <2>2, <2>3 DEF c
  <1>5. q = [p EXCEPT !.pos = @ + Len(batch), !.n_prefilled = @ + n - from, !.used = @ + n - from,
                  !.batch = batch, !.skewed = from > n]
    BY DEF LastChunk
  <1> HIDE DEF q, n, batch, from
  <1>6. /\ q.pos = p.pos + Len(batch) /\ q.n_prefilled = p.n_prefilled + n - from /\ q.used = p.used + n - from
        /\ q.batch = batch /\ q.memory = p.memory /\ q.skewed = (from > n)
    BY <1>5 DEF Progress
  <1>7. q.skewed \in BOOLEAN
    <2>1. (from > n) \in BOOLEAN
      OBVIOUS
    <2> QED
      BY <1>6, <2>1, Zenon
  <1>8. /\ q.pos \in Nat /\ q.used \in Int /\ q.n_prefilled = p.c_prefilled + n /\ q.n_prefilled \in Nat
        /\ from <= n => q.used - q.pos = p.used - p.pos
    <2> DEFINE pos == p.pos
               used == p.used
               c == p.c_prefilled
               prefilled == p.n_prefilled
               more == Len(batch)
    <2>1. /\ pos \in Nat /\ used \in Int /\ c \in Nat /\ prefilled \in Nat /\ n \in Nat /\ from \in Nat /\ more \in Nat
          /\ prefilled + n - from = c + n /\ (from <= n => more = n - from)
      BY <1>1, <1>2, <1>3, <1>4
    <2>2. q.pos = pos + more /\ q.used = used + n - from /\ q.n_prefilled = prefilled + n - from
      BY <1>6
    <2> HIDE DEF pos, used, c, prefilled, more
    <2>3. /\ q.pos \in Nat /\ q.used \in Int /\ q.n_prefilled = c + n /\ q.n_prefilled \in Nat
          /\ from <= n => q.used - q.pos = used - pos
      BY <2>1, <2>2
    <2> QED
      BY <2>3 DEF pos, used, c
  <1>9. ASSUME ~ q.skewed PROVE q.used - q.pos = p.used - p.pos
    <2>1. ~ (from > n)
      BY <1>6, <1>9, Zenon
    <2>2. from <= n
      BY <1>2, <1>3, <2>1
    <2> QED
      BY <1>8, <2>2
  <1>10. Ends(p, n, q)
    <2>1. q.batch \in Seq(Int) /\ q.memory = p.memory /\ q.pos = p.pos + Len(q.batch)
      BY <1>4, <1>6
    <2> QED
      BY <1>7, <1>8, <1>9, <2>1 DEF Ends
  <1> QED
    BY <1>10 DEF q, n

(* What comes of all chunks.                                               *)
Outcome(chunks, start, p) ==
    /\ p.batch \in Seq(Int) /\ p.memory \in Seq(Int) /\ p.skewed \in BOOLEAN
    /\ p.pos \in Nat /\ p.used \in Int /\ p.n_prefilled \in Nat
    /\ ~ p.skewed => p.used - p.pos = start.used - start.pos
    /\ p.n_prefilled >= NumTokens(chunks) => Len(p.memory \o p.batch) = p.pos
    /\ p.batch # <<>> => p.pos >= 1

LEMMA ChunkedOf ==
    ASSUME NEW r, NEW s, NEW hit, NEW bad,
           request[r].chunks \in Seq(Chunk), request[r].chunks # <<>>, Begins(Start(s, hit))
    PROVE  Outcome(request[r].chunks, Start(s, hit), Chunked(r, s, hit, bad))
  <1> DEFINE chunks == request[r].chunks
             start == Start(s, hit)
             p == Chunked(r, s, hit, bad)
             last == Len(chunks)
             c == chunks[last]
             n == Len(c.tokens)
  <1>1. PICK f : Prefills(chunks, start, bad, f) /\ p = LastChunk(f[last - 1], c)
    BY ChunkedFollows DEF Begins
  <1> DEFINE q == f[last - 1]
  <1> HIDE DEF p, start
  <1>2. chunks \in Seq(Chunk) /\ chunks # <<>> /\ Begins(start)
    BY DEF start
  <1> HIDE DEF chunks
  <1>3. last \in 1 .. Len(chunks) /\ last - 1 \in 0 .. Len(chunks) - 1
    BY <1>2
  <1>4. Along(chunks, start, last - 1, q)
    BY <1>1, <1>2, <1>3, AlongKept
  <1>5. /\ c \in Chunk /\ NumTokens(Upto(chunks, last)) = NumTokens(Upto(chunks, last - 1)) + n
        /\ NumTokens(Upto(chunks, last - 1)) \in Nat
    <2> HIDE DEF last
    <2> QED
      BY <1>2, <1>3, UptoNext
  <1>6. Upto(chunks, last) = chunks
    BY <1>2, UptoEnds
  <1> DEFINE before == NumTokens(Upto(chunks, last - 1))
             all == NumTokens(chunks)
  <1>7. all = before + n /\ before \in Nat
    BY <1>5, <1>6
  <1> HIDE DEF q, c, last
  <1>8. q \in Progress
    BY <1>4 DEF Along
  <1>9. Ends(q, n, p)
    BY <1>1, <1>5, <1>8, LastOf DEF q
  <1> HIDE DEF before, all, n
  <1>10. /\ q.pos \in Nat /\ q.used \in Int /\ q.memory \in Seq(Int) /\ q.failed \in BOOLEAN /\ q.c_prefilled \in Nat
    BY <1>8 DEF Progress
  <1>11. /\ p.batch \in Seq(Int) /\ p.memory \in Seq(Int) /\ p.skewed \in BOOLEAN
         /\ p.pos \in Nat /\ p.used \in Int /\ p.n_prefilled \in Nat /\ p.pos = q.pos + Len(p.batch)
    BY <1>9, <1>10 DEF Ends
  <1>12. ~ p.skewed => p.used - p.pos = start.used - start.pos
    BY <1>4, <1>9 DEF Ends, Along
  <1>13. ASSUME p.n_prefilled >= all PROVE Len(p.memory \o p.batch) = p.pos
    <2>1. n \in Nat
      BY <1>5 DEF Chunk, n
    <2>2. q.c_prefilled >= before
      <3>1. p.n_prefilled = q.c_prefilled + n
        BY <1>9 DEF Ends
      <3> QED
        BY <1>7, <1>10, <1>13, <2>1, <3>1
    <2>3. ~ q.failed
      <3>1. q.failed => q.c_prefilled < before
        BY <1>4 DEF Along, before
      <3> QED
        BY <1>7, <1>10, <2>2, <3>1
    <2>4. Len(q.memory) = q.pos /\ p.memory = q.memory
      BY <1>4, <1>9, <2>3 DEF Along, Ends
    <2>5. Len(p.memory \o p.batch) = Len(p.memory) + Len(p.batch)
      BY <1>11
    <2> QED
      BY <1>11, <2>4, <2>5
  <1>14. p.batch # <<>> => p.pos >= 1
    <2>1. p.batch # <<>> => Len(p.batch) >= 1
      BY <1>11
    <2>2. Len(p.batch) \in Nat
      BY <1>11
    <2> QED
      BY <1>10, <1>11, <2>1, <2>2
  <1>15. Outcome(chunks, start, p)
    BY <1>11, <1>12, <1>13, <1>14 DEF Outcome, all
  <1> QED
    BY <1>15 DEF p, start, chunks

-----------------------------------------------------------------------------
(* The cache of projections.                                               *)

(* What comes of projecting m with dummy tokens above low.                 *)
Projections(f, m, low) == {Projection(f, m, d) : d \in {x \in Int : x < 0 /\ low <= x - Count(f, m)}}

CacheEntry == [hash : Media, pieces : Seq(Chunk)]

(* An entry holds nothing, or a projection for this model.                 *)
EntryTold(f, gen, e) ==
    e.pieces # <<>> => Hears(f) = (e.hash \in Audio) /\ e.pieces \in Projections(f, e.hash, gen)

MediaTold(f, cache, gen) ==
    /\ gen \in Int /\ gen < 0
    /\ cache \in Seq(CacheEntry) /\ Len(cache) <= Max({0, max_projected_cache})
    /\ \A k \in DOMAIN cache : EntryTold(f, gen, cache[k])

LEMMA ProjectionTyped ==
    ASSUME NEW f, NEW m \in Media, NEW d \in Int
    PROVE  /\ Projection(f, m, d) \in Seq(Chunk) /\ Len(Projection(f, m, d)) = Count(f, m)
           /\ Projection(f, m, d) # <<>>
           /\ \A i \in 1 .. Count(f, m) : Projection(f, m, d)[i] = piece(m, i, Extent(f, m), d - (i - 1))
  <1> DEFINE n == Count(f, m)
             p == Projection(f, m, d)
  <1>1. n \in Nat \ {0}
    BY CountTyped
  <1>2. ASSUME NEW i \in 1 .. n PROVE piece(m, i, Extent(f, m), d - (i - 1)) \in Chunk
    <2> DEFINE x == Extent(f, m)
               y == d - (i - 1)
    <2>1. m \in Nat /\ i \in Nat /\ x \in Nat /\ y \in Int
      BY <1>1, CountTyped, GridTyped
    <2> HIDE DEF x, y
    <2> QED
      BY <2>1, PieceTyped DEF x, y
  <1>3. p = [i \in 1 .. n |-> piece(m, i, Extent(f, m), d - (i - 1))]
    BY DEF Projection
  <1>4. p \in [1 .. n -> Chunk]
    BY <1>2, <1>3
  <1> HIDE DEF p, n
  <1>5. p \in Seq(Chunk) /\ Len(p) = n /\ p # <<>>
    BY <1>1, <1>4
  <1> QED
    BY <1>3, <1>5 DEF p, n

LEMMA LaterProjections ==
    ASSUME NEW f, NEW m \in Media, NEW low \in Int, NEW lower \in Int, lower <= low
    PROVE  Projections(f, m, low) \subseteq Projections(f, m, lower)
  <1>1. Count(f, m) \in Nat
    BY CountTyped
  <1>2. \A x \in Int : low <= x - Count(f, m) => lower <= x - Count(f, m)
    BY <1>1
  <1> QED
    BY <1>2 DEF Projections

(* What a use of m leaves in the cache, and gives.                         *)
Given(f, m, cache, gen, outcome) ==
    /\ outcome.made \in Nat /\ outcome.pieces \in Seq(Chunk)
    /\ \/ outcome.made = 0 /\ outcome.pieces = <<>>
       \/ outcome.made = 0 /\ \E k \in DOMAIN cache : cache[k].hash = m /\ outcome.pieces = cache[k].pieces
       \/ /\ outcome.made = Count(f, m) /\ outcome.pieces = Projection(f, m, gen)
          /\ Hears(f) = (m \in Audio)
    /\ outcome.cache \in Seq(CacheEntry) /\ Len(outcome.cache) <= Max({0, max_projected_cache})
    /\ \A j \in DOMAIN outcome.cache :
          \/ \E k \in DOMAIN cache : outcome.cache[j] = cache[k]
          \/ outcome.cache[j] = [hash |-> m, pieces |-> outcome.pieces]

LEMMA TouchedOf ==
    ASSUME NEW S, cache_multimodals \in Seq(S), NEW k \in DOMAIN cache_multimodals
    PROVE  /\ Touched(k) \in Seq(S) /\ Len(Touched(k)) = Len(cache_multimodals)
           /\ \A j \in 1 .. k - 1 : Touched(k)[j] = cache_multimodals[j]
           /\ \A j \in k .. Len(cache_multimodals) - 1 : Touched(k)[j] = cache_multimodals[j + 1]
           /\ Touched(k)[Len(cache_multimodals)] = cache_multimodals[k]
  <1> DEFINE s == cache_multimodals
             n == Len(s)
             a == SubSeq(s, 1, k - 1)
             b == SubSeq(s, k + 1, n)
             t == a \o b
  <1>1. n \in Nat /\ k \in 1 .. n /\ s \in Seq(S) /\ s[k] \in S
    OBVIOUS
  <1>2. a \in Seq(S) /\ Len(a) = k - 1 /\ \A j \in 1 .. k - 1 : a[j] = s[j]
    BY <1>1
  <1>3. b \in Seq(S) /\ Len(b) = n - k /\ \A j \in 1 .. n - k : b[j] = s[j + k]
    BY <1>1
  <1>4. Touched(k) = Append(t, s[k])
    BY DEF Touched, RemoveAt
  <1> HIDE DEF a, b
  <1>5. t \in Seq(S) /\ Len(t) = n - 1 /\ \A j \in 1 .. k - 1 : t[j] = s[j]
    <2>0. a \in Seq(S) /\ b \in Seq(S)
      BY <1>2, <1>3
    <2>1. t \in Seq(S) /\ Len(t) = Len(a) + Len(b)
      BY <2>0, ConcatTyped
    <2>2. \A j \in 1 .. k - 1 : t[j] = a[j]
      BY <1>1, <1>2, <1>3
    <2>3. Len(t) = n - 1
      <3>1. n \in Nat /\ k \in Nat /\ Len(a) = k - 1 /\ Len(b) = n - k
        BY <1>1, <1>2, <1>3
      <3> HIDE DEF t, n, s
      <3> QED
        BY <2>1, <3>1
    <2> HIDE DEF t, n, s
    <2> QED
      BY <1>2, <2>1, <2>2, <2>3
  <1>6. \A j \in k .. n - 1 : t[j] = s[j + 1]
    <2> SUFFICES ASSUME NEW j \in k .. n - 1 PROVE t[j] = s[j + 1]
      OBVIOUS
    <2>1. t[j] = b[j - (k - 1)]
      BY <1>1, <1>2, <1>3, SMTT(40)
    <2>2. j - (k - 1) \in 1 .. n - k /\ (j - (k - 1)) + k = j + 1
      BY <1>1
    <2> QED
      BY <1>3, <2>1, <2>2
  <1> HIDE DEF t, n, s
  <1>7. /\ Append(t, s[k]) \in Seq(S) /\ Len(Append(t, s[k])) = n
        /\ \A j \in 1 .. n - 1 : Append(t, s[k])[j] = t[j]
        /\ Append(t, s[k])[n] = s[k]
    BY <1>1, <1>5
  <1>8. /\ \A j \in 1 .. k - 1 : Append(t, s[k])[j] = s[j]
        /\ \A j \in k .. n - 1 : Append(t, s[k])[j] = s[j + 1]
    BY <1>1, <1>5, <1>6, <1>7
  <1> QED
    BY <1>4, <1>7, <1>8 DEF n, s

LEMMA EvictedOf ==
    ASSUME NEW S, cache_multimodals \in Seq(S), max_projected_cache > 0,
           Len(cache_multimodals) <= max_projected_cache
    PROVE  /\ Evicted \in Seq(S) /\ Len(Evicted) < max_projected_cache
           /\ \/ Evicted = cache_multimodals
              \/ /\ Len(cache_multimodals) = max_projected_cache /\ Len(Evicted) = Len(cache_multimodals) - 1
                 /\ \A j \in DOMAIN Evicted : Evicted[j] = cache_multimodals[j + 1]
  <1>1. max_projected_cache \in Int
    BY PromptAssumption
  <1>2. CASE Len(cache_multimodals) < max_projected_cache
    <2>1. Evicted = cache_multimodals
      BY <1>1, <1>2 DEF Evicted
    <2> QED
      BY <1>2, <2>1
  <1>3. CASE Len(cache_multimodals) >= max_projected_cache
    <2>1. Evicted = Tail(cache_multimodals)
      BY <1>3 DEF Evicted
    <2>2. Len(cache_multimodals) = max_projected_cache /\ cache_multimodals # <<>>
      BY <1>1, <1>3
    <2> DEFINE s == cache_multimodals
               n == Len(s)
    <2>3. /\ Tail(s) \in Seq(S) /\ Len(Tail(s)) = n - 1 /\ n \in Nat
          /\ \A j \in 1 .. n - 1 : Tail(s)[j] = s[j + 1]
      BY <2>2
    <2>4. DOMAIN Tail(s) = 1 .. n - 1
      BY <2>3
    <2> HIDE DEF s, n
    <2> QED
      BY <1>1, <2>1, <2>2, <2>3, <2>4 DEF s, n
  <1> QED
    BY <1>1, <1>2, <1>3

LEMMA CacheBound ==
    /\ Max({0, max_projected_cache}) \in Nat
    /\ max_projected_cache > 0 => Max({0, max_projected_cache}) = max_projected_cache
  <1> DEFINE n == max_projected_cache
  <1>1. n \in Int
    BY PromptAssumption
  <1> HIDE DEF n
  <1>2. \A x \in {0, n} : (\A y \in {0, n} : x >= y) => x = IF n > 0 THEN n ELSE 0
    BY <1>1
  <1>3. \E x \in {0, n} : \A y \in {0, n} : x >= y
    BY <1>1
  <1>4. Max({0, n}) = IF n > 0 THEN n ELSE 0
    BY <1>2, <1>3 DEF Max
  <1> QED
    BY <1>1, <1>4 DEF n

LEMMA OutcomesOf ==
    ASSUME NEW f, NEW m \in Media, MediaTold(f, cache_multimodals, multimodal_dummy_token_generator),
           NEW outcome \in cache_tokenize_multimedia(f, m)
    PROVE  Given(f, m, cache_multimodals, multimodal_dummy_token_generator, outcome)
  <1> DEFINE cache == cache_multimodals
             gen == multimodal_dummy_token_generator
             bound == Max({0, max_projected_cache})
             supported == Hears(f) = (m \in Audio)
             caches == max_projected_cache > 0
             results == IF supported THEN {Projected(f, m)} \cup {none \in {<<>>} : m \in Failing} ELSE {<<>>}
             stored(r) == IF supported THEN Append(Evicted, [hash |-> m, pieces |-> r]) ELSE Evicted
  <1>1. gen \in Int /\ gen < 0 /\ cache \in Seq(CacheEntry) /\ Len(cache) <= bound
    BY DEF MediaTold
  <1>2. \/ /\ caches /\ \E k \in Cached(m) : outcome = [pieces |-> cache[k].pieces, cache |-> Touched(k), made |-> 0]
        \/ \E r \in results : outcome = [pieces |-> r, cache |-> IF caches THEN stored(r) ELSE cache, made |-> Len(r)]
    BY DEF cache_tokenize_multimedia
  <1>3. ASSUME NEW k \in Cached(m), outcome = [pieces |-> cache[k].pieces, cache |-> Touched(k), made |-> 0]
        PROVE  Given(f, m, cache, gen, outcome)
    <2>1. k \in DOMAIN cache /\ k \in 1 .. Len(cache) /\ cache[k].hash = m /\ cache[k] \in CacheEntry
      BY <1>1 DEF Cached
    <2>2. cache[k].pieces \in Seq(Chunk)
      BY <2>1 DEF CacheEntry
    <2>3. /\ Touched(k) \in Seq(CacheEntry) /\ Len(Touched(k)) = Len(cache)
          /\ \A j \in 1 .. k - 1 : Touched(k)[j] = cache[j]
          /\ \A j \in k .. Len(cache) - 1 : Touched(k)[j] = cache[j + 1]
          /\ Touched(k)[Len(cache)] = cache[k]
      BY <1>1, <2>1, TouchedOf
    <2> DEFINE t == Touched(k)
               n == Len(cache)
    <2>4. \A j \in DOMAIN t : \E i \in DOMAIN cache : t[j] = cache[i]
      <3> HIDE DEF t, cache
      <3>1. DOMAIN t = 1 .. n /\ n \in Nat /\ DOMAIN cache = 1 .. n
        BY <1>1, <2>3 DEF t
      <3> HIDE DEF n
      <3> SUFFICES ASSUME NEW j \in 1 .. n PROVE \E i \in 1 .. n : t[j] = cache[i]
        BY <3>1
      <3>2. j \in 1 .. k - 1 \/ (j \in k .. n - 1 /\ j + 1 \in 1 .. n) \/ j = n
        <4>1. k \in 1 .. n
          BY <2>1 DEF cache, n
        <4> HIDE DEF n
        <4> QED
          BY <3>1, <4>1
      <3> QED
        BY <2>1, <2>3, <3>2 DEF t, n
    <2> HIDE DEF cache, bound
    <2>5. outcome.pieces = cache[k].pieces /\ outcome.cache = t /\ outcome.made = 0
      BY <1>3
    <2> HIDE DEF t
    <2> QED
      BY <1>1, <2>1, <2>2, <2>3, <2>4, <2>5 DEF Given, t, bound
  <1>4. ASSUME NEW r \in results,
               outcome = [pieces |-> r, cache |-> IF caches THEN stored(r) ELSE cache, made |-> Len(r)]
        PROVE  Given(f, m, cache, gen, outcome)
    <2>1. r = <<>> \/ (supported /\ r = Projection(f, m, gen))
      BY ProjectedIs
    <2>2. r \in Seq(Chunk) /\ (r = <<>> => Len(r) = 0) /\ (r = Projection(f, m, gen) => Len(r) = Count(f, m)) /\ Len(r) \in Nat
      <3>1. Projection(f, m, gen) \in Seq(Chunk) /\ Len(Projection(f, m, gen)) = Count(f, m)
        BY <1>1, ProjectionTyped
      <3>2. <<>> \in Seq(Chunk) /\ Len(<<>>) = 0
        OBVIOUS
      <3> HIDE DEF gen, results
      <3>3. r \in Seq(Chunk)
        BY <2>1, <3>1, <3>2
      <3> QED
        BY <3>1, <3>2, <3>3
    <2> DEFINE e == [hash |-> m, pieces |-> r]
    <2>3. e \in CacheEntry
      BY <2>2 DEF CacheEntry
    <2> DEFINE after == IF caches THEN stored(r) ELSE cache
    <2>4. /\ after \in Seq(CacheEntry) /\ Len(after) <= bound
          /\ \A j \in DOMAIN after : (\E k \in DOMAIN cache : after[j] = cache[k]) \/ after[j] = e
      <3>1. CASE ~ caches
        <4>1. after = cache
          BY <3>1
        <4> HIDE DEF after
        <4> QED
          BY <1>1, <4>1
      <3>2. CASE caches
        <4>1. Len(cache) <= max_projected_cache
          BY <1>1, <3>2, CacheBound
        <4>2. /\ Evicted \in Seq(CacheEntry) /\ Len(Evicted) < max_projected_cache
              /\ \/ Evicted = cache
                 \/ /\ Len(cache) = max_projected_cache /\ Len(Evicted) = Len(cache) - 1
                    /\ \A j \in DOMAIN Evicted : Evicted[j] = cache[j + 1]
          BY <1>1, <3>2, <4>1, EvictedOf
        <4> DEFINE v == Evicted
        <4> HIDE DEF v, cache
        <4>3. \A j \in DOMAIN v : \E k \in DOMAIN cache : v[j] = cache[k]
          <5>1. CASE v = cache
            BY <5>1
          <5>2. CASE Len(v) = Len(cache) - 1 /\ \A j \in DOMAIN v : v[j] = cache[j + 1]
            <6>1. \A j \in DOMAIN v : j + 1 \in DOMAIN cache
              BY <1>1, <4>2, <5>2 DEF v
            <6> QED
              BY <5>2, <6>1
          <5> QED
            BY <4>2, <5>1, <5>2 DEF v
        <4> HIDE DEF e
        <4>4. /\ Append(v, e) \in Seq(CacheEntry) /\ Len(Append(v, e)) = Len(v) + 1 /\ Len(v) \in Nat
              /\ DOMAIN Append(v, e) = 1 .. Len(v) + 1 /\ DOMAIN v = 1 .. Len(v)
              /\ Append(v, e)[Len(v) + 1] = e /\ \A j \in 1 .. Len(v) : Append(v, e)[j] = v[j]
          BY <2>3, <4>2 DEF v
        <4>5. after \in {Append(v, e), v}
          BY <3>2 DEF v, e
        <4> HIDE DEF after
        <4>6. bound = max_projected_cache /\ max_projected_cache \in Int
          BY <3>2, CacheBound, PromptAssumption
        <4>7. CASE after = v
          BY <4>2, <4>3, <4>4, <4>6, <4>7 DEF v
        <4>8. CASE after = Append(v, e)
          <5>1. Len(after) <= bound
            BY <4>2, <4>4, <4>6, <4>8 DEF v
          <5>2. \A j \in DOMAIN after : j \in DOMAIN v \/ j = Len(v) + 1
            BY <4>4, <4>8
          <5>3. \A j \in DOMAIN v : after[j] = v[j]
            BY <4>4, <4>8
          <5>4. after[Len(v) + 1] = e
            BY <4>4, <4>8
          <5> QED
            BY <4>3, <4>4, <4>8, <5>1, <5>2, <5>3, <5>4
        <4> QED
          BY <4>5, <4>7, <4>8
      <3> QED
        BY <3>1, <3>2
    <2>5. outcome.pieces = r /\ outcome.cache = after /\ outcome.made = Len(r)
      BY <1>4
    <2>6. outcome.cache \in Seq(CacheEntry) /\ Len(outcome.cache) <= bound
      BY <2>4, <2>5
    <2>7. \A j \in DOMAIN outcome.cache :
              (\E k \in DOMAIN cache : outcome.cache[j] = cache[k]) \/ outcome.cache[j] = [hash |-> m, pieces |-> outcome.pieces]
      BY <2>4, <2>5
    <2>8. \/ outcome.made = 0 /\ outcome.pieces = <<>>
          \/ outcome.made = Count(f, m) /\ outcome.pieces = Projection(f, m, gen) /\ Hears(f) = (m \in Audio)
      <3> HIDE DEF after, results
      <3> QED
        BY <2>1, <2>2, <2>5
    <2> HIDE DEF after, cache, results
    <2> QED
      BY <2>2, <2>5, <2>6, <2>7, <2>8 DEF Given
  <1> QED
    BY <1>2, <1>3, <1>4

-----------------------------------------------------------------------------
(* Prompts of plain text.                                                  *)

LEMMA Quotient ==
    ASSUME NEW x \in Nat, NEW b \in Nat \ {0}
    PROVE  x \div b \in Nat /\ b * (x \div b) <= x /\ x < b * (x \div b) + b
  <1>1. /\ x \div b \in Nat
        /\ (x \div b) * b <= x
        /\ x < (x \div b + 1) * b
    OBVIOUS
  <1> DEFINE q == x \div b
  <1> HIDE DEF q
  <1>2. q * b = b * q /\ (q + 1) * b = b * q + b
    BY <1>1 DEF q
  <1> QED
    BY <1>1, <1>2 DEF q

(* What is trimmed away is whole blocks behind the tokens to keep; what    *)
(* is left is shorter than two blocks.                                     *)
LEMMA TrimmedOf ==
    ASSUME NEW tokens \in Seq(Nat), TooLong(Len(tokens)), ~ Dynamic
    PROVE  \E cut \in Nat :
               /\ cut >= 1 /\ NKeep + cut <= Len(tokens)
               /\ Trimmed(tokens) = SubSeq(tokens, 1, NKeep) \o SubSeq(tokens, NKeep + cut + 1, Len(tokens))
               /\ Len(tokens) - cut < SlotSize /\ 2 * (Len(tokens) - cut) >= SlotSize + NKeep - 1
  <1> DEFINE n == Len(tokens)
             block == (SlotSize - NKeep) \div 2
             x == n - NKeep - block
             blocks == x \div block
             cut == block * blocks
  <1>1. n \in Nat /\ SlotSize \in Nat /\ NKeep \in Nat /\ NKeep <= SlotSize - 2 /\ n >= SlotSize
    BY PromptAssumption DEF TooLong, completion_context_limit
  <1>2. block \in Nat \ {0} /\ 2 * block <= SlotSize - NKeep /\ SlotSize - NKeep < 2 * block + 2
    <2> DEFINE y == SlotSize - NKeep
    <2>1. y \in Nat /\ y >= 2
      BY <1>1
    <2>2. block = y \div 2
      OBVIOUS
    <2> HIDE DEF y, block
    <2>3. block \in Nat /\ 2 * block <= y /\ y < 2 * block + 2
      BY <2>1, <2>2, Quotient
    <2>4. block # 0
      BY <2>1, <2>3
    <2> QED
      BY <2>3, <2>4 DEF y
  <1> HIDE DEF block
  <1>3. x \in Nat
    <2> HIDE DEF n
    <2> QED
      BY <1>1, <1>2
  <1>4. blocks \in Int /\ cut <= x /\ x < cut + block
    <2> HIDE DEF x
    <2> QED
      BY <1>2, <1>3, Quotient
  <1>5. cut \in Int
    <2> HIDE DEF blocks
    <2> QED
      BY <1>2, <1>4
  <1>6. cut > 0
    <2> HIDE DEF cut, n
    <2> QED
      BY <1>1, <1>2, <1>4, <1>5
  <1>7. blocks > 0
    <2> HIDE DEF blocks
    <2> SUFFICES ASSUME blocks <= 0 PROVE FALSE
      BY <1>4
    <2>1. block * blocks <= 0
      BY <1>2, <1>4
    <2> QED
      BY <1>5, <1>6, <2>1
  <1>8. Trimmed(tokens) = SubSeq(tokens, 1, NKeep) \o SubSeq(tokens, NKeep + cut + 1, n)
    <2>1. ~ (blocks <= 0)
      <3> HIDE DEF blocks
      <3> QED
        BY <1>4, <1>7
    <2> QED
      BY <2>1 DEF Trimmed, block
  <1>9. /\ cut \in Nat /\ cut >= 1 /\ NKeep + cut <= n
        /\ n - cut < SlotSize /\ 2 * (n - cut) >= SlotSize + NKeep - 1
    <2> HIDE DEF cut, n
    <2> QED
      BY <1>1, <1>2, <1>4, <1>5, <1>6 
  <1> HIDE DEF cut
  <1> QED
    BY <1>8, <1>9

Part == [media : Media \cup {0}, text : Seq(Nat)]

LEMMA TextsTyped ==
    ASSUME NEW message \in Seq(Part)
    PROVE  FlattenSeq([k \in DOMAIN message |-> message[k].text]) \in Seq(Nat)
  <1> DEFINE S == Seq(Nat)
             n == Len(message)
             texts == [k \in DOMAIN message |-> message[k].text]
  <1>1. n \in Nat /\ DOMAIN message = 1 .. n /\ \A k \in 1 .. n : message[k].text \in S
    <2>1. \A k \in 1 .. n : message[k] \in Part
      OBVIOUS
    <2>2. \A k \in 1 .. n : message[k].text \in S
      BY <2>1 DEF Part
    <2> QED
      BY <2>2
  <1> HIDE DEF S, n
  <1>2. texts \in [1 .. n -> S]
    BY <1>1
  <1> HIDE DEF texts
  <1>3. texts \in Seq(S)
    BY <1>1, <1>2
  <1> QED
    BY <1>3, FlattenTyped DEF S, texts

LEMMA PlainTyped ==
    ASSUME NEW tokens \in Seq(Nat)
    PROVE  PlainPrompt(tokens) \in Seq(Nat)
  <1> DEFINE all == <<Bos>> \o tokens
  <1>1. all \in Seq(Nat) /\ Len(all) \in Nat
    BY DEF Bos
  <1>2. tokenize(tokens, TRUE).tokens = all
    BY DEF tokenize, text_chunk
  <1> HIDE DEF all
  <1>3. CASE TooLong(Len(all)) /\ ~ Dynamic
    <2>1. PICK cut \in Nat :
              /\ cut >= 1 /\ NKeep + cut <= Len(all)
              /\ Trimmed(all) = SubSeq(all, 1, NKeep) \o SubSeq(all, NKeep + cut + 1, Len(all))
      BY <1>1, <1>3, TrimmedOf
    <2>2. SubSeq(all, 1, NKeep) \in Seq(Nat) /\ SubSeq(all, NKeep + cut + 1, Len(all)) \in Seq(Nat)
      <3>1. NKeep \in Nat
        BY PromptAssumption
      <3> QED
        BY <1>1, <2>1, <3>1
    <2>3. Trimmed(all) \in Seq(Nat)
      BY <2>1, <2>2, ConcatTyped
    <2>4. PlainPrompt(tokens) \in {Trimmed(all), <<>>}
      BY <1>2, <1>3 DEF PlainPrompt
    <2>5. <<>> \in Seq(Nat)
      OBVIOUS
    <2> QED
      BY <2>3, <2>4, <2>5
  <1>4. CASE ~ TooLong(Len(all)) \/ Dynamic
    <2>1. PlainPrompt(tokens) \in {all, <<>>}
      BY <1>2, <1>4 DEF PlainPrompt
    <2>2. <<>> \in Seq(Nat)
      OBVIOUS
    <2> QED
      BY <1>1, <2>1, <2>2
  <1> QED
    BY <1>3, <1>4

-----------------------------------------------------------------------------
(* The invariant.                                                          *)

States == {"new", "tokenizing", "queued", "refused", "running", "failed", "answered"}

Rec ==
    [state : States, asked : Seq(Part), message : Seq(Part), chunks : Seq(Chunk), pos : Nat, seq : Slots \cup {0},
     processed_tokens : Seq(Int), history : Seq(Int), answered : Nat, clean : BOOLEAN]

Types ==
    /\ setup \in Setups /\ uses \in Seq(Media)
    /\ request \in [Requests -> Rec] /\ cache_prompts \in [Slots -> Entry] /\ memory \in [Slots -> Seq(Int)]
    /\ llm_kv_cache_used \in Int /\ llm_kv_cache_inactive \in Int /\ skewed \in BOOLEAN /\ crashed \in BOOLEAN

(* What a state of a request promises.                                     *)
RequestWell(rec, entries, held, over) ==
    /\ rec.state = "queued" => rec.chunks # <<>>
    /\ rec.state = "tokenizing" => rec.message # <<>> \/ rec.chunks # <<>>
    /\ rec.state = "running" =>
           /\ rec.seq \in Slots /\ entries[rec.seq].used
           /\ Len(held[rec.seq]) = rec.pos /\ (~ over => rec.pos >= 1)
           /\ rec.history # <<>> /\ rec.processed_tokens # <<>>

EntryWell(e, held) == IF e.used THEN e.pos = 0 ELSE EntryOf(e, held)

(* No sequence is shared.                                                  *)
SlotsWell(requests, entries, held, over) ==
    /\ \A r \in Requests : RequestWell(requests[r], entries, held, over)
    /\ \A r, q \in Requests :
          requests[r].state = "running" /\ requests[q].state = "running" /\ requests[r].seq = requests[q].seq => r = q
    /\ \A s \in Slots : EntryWell(entries[s], held[s])

Inv ==
    /\ Types
    /\ SlotsWell(request, cache_prompts, memory, crashed)
    /\ MediaTold(setup.family, cache_multimodals, multimodal_dummy_token_generator)

(* A handler leaves alone what runs.                                       *)
Handled(r, before, after) ==
    before[r].state # "running" /\ \E new \in Rec : new.state # "running" /\ after = [before EXCEPT ![r] = new]

(* What a handler may do.                                                  *)
LEMMA HandlerStep ==
    ASSUME Inv, NEW r \in Requests, NEW rec \in Rec, request' = [request EXCEPT ![r] = rec],
           request[r].state # "running", rec.state # "running",
           rec.state = "queued" => rec.chunks # <<>>,
           rec.state = "tokenizing" => rec.message # <<>> \/ rec.chunks # <<>>,
           UNCHANGED setup, UNCHANGED kv_vars, uses' \in Seq(Media),
           MediaTold(setup.family, cache_multimodals', multimodal_dummy_token_generator')
    PROVE  Inv' /\ Handled(r, request, request')
  <1>1. Types'
    BY DEF Inv, Types, kv_vars
  <1>2. request'[r] = rec /\ \A q \in Requests \ {r} : request'[q] = request[q]
    BY DEF Inv, Types
  <1>3. SlotsWell(request', cache_prompts, memory, crashed)
    <2>1. \A q \in Requests : RequestWell(request'[q], cache_prompts, memory, crashed)
      <3>1. RequestWell(rec, cache_prompts, memory, crashed)
        BY DEF RequestWell
      <3> QED
        BY <1>2, <3>1 DEF Inv, SlotsWell
    <2> QED
      BY <1>2, <2>1 DEF Inv, SlotsWell
  <1>4. Handled(r, request, request')
    BY DEF Handled
  <1> QED
    BY <1>1, <1>3, <1>4 DEF Inv, kv_vars

LEMMA InitInv == Init => Inv
  <1> SUFFICES ASSUME Init PROVE Inv
    OBVIOUS
  <1> USE DEF Init
  <1>1. NewRequest \in Rec /\ EmptyEntry \in Entry
    BY DEF NewRequest, Rec, States, EmptyEntry, Entry
  <1>2. Types
    <2>1. request \in [Requests -> Rec] /\ cache_prompts \in [Slots -> Entry] /\ memory \in [Slots -> Seq(Int)]
      BY <1>1
    <2>2. uses \in Seq(Media)
      OBVIOUS
    <2>3. setup \in Setups /\ llm_kv_cache_used \in Int /\ llm_kv_cache_inactive \in Int
      OBVIOUS
    <2>4. skewed \in BOOLEAN /\ crashed \in BOOLEAN
      BY Zenon
    <2> QED
      BY <2>1, <2>2, <2>3, <2>4 DEF Types
  <1>3. SlotsWell(request, cache_prompts, memory, crashed)
    BY DEF SlotsWell, RequestWell, EntryWell, EntryOf, NewRequest, EmptyEntry
  <1>4. MediaTold(setup.family, cache_multimodals, multimodal_dummy_token_generator)
    BY CacheBound DEF MediaTold
  <1> QED
    BY <1>2, <1>3, <1>4 DEF Inv

LEMMA Joined ==
    ASSUME NEW s \in Seq(Chunk), NEW t \in Seq(Chunk), t # <<>>
    PROVE  s \o t \in Seq(Chunk) /\ s \o t # <<>>
  BY ConcatNotEmpty

LEMMA MessageTyped ==
    ASSUME Types, NEW message \in setup.messages
    PROVE  message \in Seq(Part) /\ message # <<>>
  BY PrefillAssumption DEF Types, Part

LEMMA TextsAreChunks == TextChunks \subseteq Chunk
  BY TextChunk DEF TextChunks

LEMMA ReceiveKeeps ==
    ASSUME Inv, NEW r \in Requests, NEW message \in setup.messages, Receive(r, message)
    PROVE  Inv' /\ Handled(r, request, request')
  <1> DEFINE texts == FlattenSeq([k \in DOMAIN message |-> message[k].text])
             prompt == PlainPrompt(texts)
             old == request[r]
             asked == [old EXCEPT !.asked = message]
             more == [asked EXCEPT !.state = "tokenizing", !.message = message]
             refused == [asked EXCEPT !.state = "refused"]
             queued == [asked EXCEPT !.state = "queued", !.chunks = <<text_chunk(prompt)>>]
             rec == request'[r]
  <1>1. message \in Seq(Part) /\ message # <<>>
    BY MessageTyped DEF Inv
  <1>2. prompt \in Seq(Nat)
    <2>1. texts \in Seq(Nat)
      BY <1>1, TextsTyped
    <2> HIDE DEF texts
    <2> QED
      BY <2>1, PlainTyped
  <1>3. \E new \in {more, refused, queued} : request' = [request EXCEPT ![r] = new]
    BY DEF Receive
  <1>4. old \in Rec /\ old.state = "new"
    BY DEF Inv, Types, Receive
  <1>5. text_chunk(prompt) \in Chunk
    <2> HIDE DEF prompt
    <2> QED
      BY <1>2, TextChunk
  <1> HIDE DEF prompt, old
  <1>6. asked \in Rec
    BY <1>1, <1>4 DEF Rec
  <1> HIDE DEF asked
  <1>7. /\ more \in Rec /\ more.state = "tokenizing" /\ more.message # <<>>
        /\ refused \in Rec /\ refused.state = "refused"
    BY <1>1, <1>6 DEF Rec, States
  <1>8. queued \in Rec /\ queued.state = "queued" /\ queued.chunks # <<>>
    <2> DEFINE one == <<text_chunk(prompt)>>
    <2>1. one \in Seq(Chunk) /\ one # <<>>
      BY <1>5
    <2> HIDE DEF one
    <2>2. [asked EXCEPT !.state = "queued", !.chunks = one] \in Rec
      BY <1>6, <2>1 DEF Rec, States
    <2>3. queued = [asked EXCEPT !.state = "queued", !.chunks = one]
      BY DEF one
    <2> QED
      BY <1>6, <2>1, <2>2, <2>3 DEF Rec
  <1>9. PICK new \in {more, refused, queued} : request' = [request EXCEPT ![r] = new]
    BY <1>3
  <1>10. /\ new \in Rec /\ new.state # "running" /\ (new.state = "queued" => new.chunks # <<>>)
         /\ new.state = "tokenizing" => new.message # <<>> \/ new.chunks # <<>>
    BY <1>7, <1>8
  <1>11. UNCHANGED setup /\ UNCHANGED kv_vars /\ UNCHANGED media_vars /\ UNCHANGED uses
    BY DEF Receive
  <1>12. /\ uses' \in Seq(Media)
         /\ MediaTold(setup.family, cache_multimodals', multimodal_dummy_token_generator')
    BY <1>11 DEF Inv, Types, media_vars
  <1> HIDE DEF more, refused, queued
  <1> QED
    BY <1>4, <1>9, <1>10, <1>11, <1>12, HandlerStep DEF old

LEMMA HeadTail ==
    ASSUME NEW S, NEW s \in Seq(S), s # <<>>
    PROVE  Head(s) \in S /\ Tail(s) \in Seq(S)
  OBVIOUS

LEMMA AppendTyped ==
    ASSUME NEW S, NEW s \in Seq(S), NEW x \in S
    PROVE  Append(s, x) \in Seq(S) /\ Append(s, x) # <<>>
  <1>1. Append(s, x) \in Seq(S) /\ Len(Append(s, x)) = Len(s) + 1 /\ Len(s) \in Nat
    OBVIOUS
  <1> QED
    BY <1>1

LEMMA AddTextKeeps ==
    ASSUME Inv, NEW r \in Requests, AddText(r)
    PROVE  Inv' /\ Handled(r, request, request')
  <1> DEFINE old == request[r]
             first == (old.chunks = <<>>)
             chunk == tokenize(Head(old.message).text, first)
             more == Append(old.chunks, chunk)
             rest == Tail(old.message)
             new == [old EXCEPT !.chunks = more, !.message = rest]
  <1>1. old \in Rec /\ old.state = "tokenizing" /\ old.message # <<>>
    BY DEF Inv, Types, AddText
  <1>2. old.message \in Seq(Part) /\ old.chunks \in Seq(Chunk)
    BY <1>1 DEF Rec
  <1>3. Head(old.message) \in Part /\ rest \in Seq(Part)
    <2> DEFINE m == old.message
    <2>1. m \in Seq(Part) /\ m # <<>>
      BY <1>1, <1>2
    <2> HIDE DEF m
    <2>2. Head(m) \in Part /\ Tail(m) \in Seq(Part)
      BY <2>1, HeadTail
    <2> QED
      BY <2>2 DEF m
  <1>4. chunk \in Chunk
    <2> DEFINE text == Head(old.message).text
    <2>1. text \in Seq(Nat) /\ first \in BOOLEAN
      BY <1>3 DEF Part
    <2> HIDE DEF text, first
    <2>2. \E t \in Seq(Nat) : tokenize(text, first) = text_chunk(t)
      BY <2>1, Tokenized
    <2> QED
      BY <2>2, TextChunk DEF text
  <1>5. request' = [request EXCEPT ![r] = new]
    BY DEF AddText
  <1> HIDE DEF chunk
  <1>6. more \in Seq(Chunk) /\ more # <<>>
    <2> DEFINE c == old.chunks
    <2>1. c \in Seq(Chunk)
      BY <1>2
    <2> HIDE DEF c
    <2>2. Append(c, chunk) \in Seq(Chunk) /\ Append(c, chunk) # <<>>
      BY <1>4, <2>1, AppendTyped
    <2> QED
      BY <2>2 DEF c
  <1> HIDE DEF more, rest, old
  <1>7. new \in Rec /\ new.state = "tokenizing" /\ new.chunks # <<>>
    BY <1>1, <1>3, <1>6 DEF Rec
  <1>8. UNCHANGED setup /\ UNCHANGED kv_vars /\ UNCHANGED media_vars /\ UNCHANGED uses
    BY DEF AddText
  <1>9. /\ uses' \in Seq(Media)
        /\ MediaTold(setup.family, cache_multimodals', multimodal_dummy_token_generator')
    BY <1>8 DEF Inv, Types, media_vars
  <1> HIDE DEF new
  <1> QED
    BY <1>1, <1>5, <1>7, <1>8, <1>9, HandlerStep DEF old

(* The cache keeps its promise.                                            *)
LEMMA GivenTold ==
    ASSUME NEW f, NEW m \in Media, NEW cache, NEW gen, MediaTold(f, cache, gen), NEW outcome,
           Given(f, m, cache, gen, outcome)
    PROVE  /\ MediaTold(f, outcome.cache, gen - outcome.made)
           /\ outcome.pieces # <<>> =>
                  Hears(f) = (m \in Audio) /\ outcome.pieces \in Projections(f, m, gen - outcome.made)
  <1> DEFINE low == gen - outcome.made
             pieces == outcome.pieces
  <1>1. low \in Int /\ low <= gen /\ low < 0 /\ gen \in Int /\ gen < 0
    BY DEF Given, MediaTold
  <1>2. \A k \in DOMAIN cache : cache[k] \in CacheEntry /\ EntryTold(f, gen, cache[k])
    BY DEF MediaTold
  <1>3. ASSUME NEW k \in DOMAIN cache PROVE EntryTold(f, low, cache[k])
    <2> DEFINE h == cache[k].hash
    <2>1. h \in Media
      BY <1>2 DEF CacheEntry
    <2> HIDE DEF h, low
    <2>2. Projections(f, h, gen) \subseteq Projections(f, h, low)
      BY <1>1, <2>1, LaterProjections
    <2> QED
      BY <1>2, <2>2 DEF EntryTold, h
  <1>4. pieces # <<>> => Hears(f) = (m \in Audio) /\ pieces \in Projections(f, m, low)
    <2>1. CASE outcome.made = Count(f, m) /\ pieces = Projection(f, m, gen) /\ Hears(f) = (m \in Audio)
      <3>1. gen - Count(f, m) = low
        BY <2>1
      <3>2. gen \in {x \in Int : x < 0 /\ low <= x - Count(f, m)}
        <4>1. Count(f, m) \in Nat
          BY CountTyped
        <4> QED
          BY <1>1, <3>1
      <3> HIDE DEF low
      <3>3. Projection(f, m, gen) \in Projections(f, m, low)
        BY <3>2 DEF Projections
      <3> QED
        BY <2>1, <3>3
    <2>2. CASE \E k \in DOMAIN cache : cache[k].hash = m /\ pieces = cache[k].pieces
      BY <1>3, <2>2 DEF EntryTold
    <2>3. CASE pieces = <<>>
      BY <2>3
    <2> QED
      BY <2>1, <2>2, <2>3 DEF Given
  <1>5. \A j \in DOMAIN outcome.cache : EntryTold(f, low, outcome.cache[j])
    <2> SUFFICES ASSUME NEW j \in DOMAIN outcome.cache PROVE EntryTold(f, low, outcome.cache[j])
      OBVIOUS
    <2>1. CASE \E k \in DOMAIN cache : outcome.cache[j] = cache[k]
      BY <1>3, <2>1
    <2>2. CASE outcome.cache[j] = [hash |-> m, pieces |-> outcome.pieces]
      <3> DEFINE e == outcome.cache[j]
      <3>1. e.hash = m /\ e.pieces = pieces
        BY <2>2
      <3> HIDE DEF e, low, pieces
      <3>2. EntryTold(f, low, e)
        BY <1>4, <3>1 DEF EntryTold
      <3> QED
        BY <3>2 DEF e
    <2> QED
      BY <2>1, <2>2 DEF Given
  <1>6. outcome.cache \in Seq(CacheEntry) /\ Len(outcome.cache) <= Max({0, max_projected_cache})
    BY DEF Given
  <1> HIDE DEF low
  <1>7. MediaTold(f, outcome.cache, low)
    BY <1>1, <1>5, <1>6 DEF MediaTold
  <1> QED
    BY <1>4, <1>7 DEF low

LEMMA AddMediaKeeps ==
    ASSUME Inv, NEW r \in Requests, AddMedia(r)
    PROVE  Inv' /\ Handled(r, request, request')
  <1> DEFINE old == request[r]
             m == Head(old.message).media
             rest == Tail(old.message)
             f == setup.family
             gen == multimodal_dummy_token_generator
             bos == (old.chunks = <<>>)
  <1>1. old \in Rec /\ old.state = "tokenizing" /\ old.message # <<>> /\ m # 0
    BY DEF Inv, Types, AddMedia
  <1>2. old.message \in Seq(Part) /\ old.chunks \in Seq(Chunk)
    BY <1>1 DEF Rec
  <1>3. Head(old.message) \in Part /\ rest \in Seq(Part)
    <2> DEFINE t == old.message
    <2>1. t \in Seq(Part) /\ t # <<>>
      BY <1>1, <1>2
    <2> HIDE DEF t
    <2>2. Head(t) \in Part /\ Tail(t) \in Seq(Part)
      BY <2>1, HeadTail
    <2> QED
      BY <2>2 DEF t
  <1>4. m \in Media /\ f \in Families
    BY <1>1, <1>3, PrefillAssumption DEF Part, Inv, Types
  <1> DEFINE wrapped(pieces) == Wrapped(f, m, pieces, bos)
             refused == [old EXCEPT !.state = "refused"]
             added(pieces) == [old EXCEPT !.message = Tail(@), !.chunks = @ \o Wrapped(f, m, pieces, bos)]
             more(pieces) == [old EXCEPT !.message = rest, !.chunks = old.chunks \o wrapped(pieces)]
  <1>5. PICK outcome \in cache_tokenize_multimedia(f, m) :
            /\ cache_multimodals' = outcome.cache /\ uses' = Append(uses, m)
            /\ multimodal_dummy_token_generator' = gen - outcome.made
            /\ request' = [request EXCEPT ![r] = IF outcome.pieces = <<>> THEN refused ELSE added(outcome.pieces)]
    BY DEF AddMedia
  <1>e. added(outcome.pieces) = more(outcome.pieces)
    <2> HIDE DEF old
    <2> QED
      BY <1>1 DEF Rec
  <1>6. MediaTold(f, cache_multimodals, gen)
    BY DEF Inv
  <1> HIDE DEF m, f
  <1>7. Given(f, m, cache_multimodals, gen, outcome)
    BY <1>4, <1>6, OutcomesOf
  <1>8. /\ MediaTold(f, outcome.cache, gen - outcome.made)
        /\ outcome.pieces # <<>> =>
               Hears(f) = (m \in Audio) /\ outcome.pieces \in Projections(f, m, gen - outcome.made)
    <2> HIDE DEF gen
    <2> QED
      BY <1>4, <1>6, <1>7, GivenTold
  <1> DEFINE pieces == outcome.pieces
             new == IF pieces = <<>> THEN refused ELSE more(pieces)
  <1>9. /\ new \in Rec /\ new.state # "running" /\ new.state # "queued"
        /\ new.state = "tokenizing" => new.message # <<>> \/ new.chunks # <<>>
    <2>1. CASE pieces = <<>>
      <3>1. new = refused
        BY <2>1
      <3> HIDE DEF new, old
      <3> QED
        BY <1>1, <3>1 DEF Rec, States
    <2>2. CASE pieces # <<>>
      <3>1. new = more(pieces)
        BY <2>2
      <3>2. pieces \in Seq(Chunk) /\ Len(pieces) = Count(f, m)
        <4>1. PICK d \in Int : pieces = Projection(f, m, d)
          BY <1>8, <2>2 DEF Projections
        <4> HIDE DEF pieces
        <4> QED
          BY <1>4, <4>1, ProjectionTyped
      <3> HIDE DEF pieces
      <3>3. wrapped(pieces) \in Seq(Chunk) \ {<<>>}
        <4>1. bos \in BOOLEAN /\ Hears(f) = (m \in Audio)
          BY <1>8, <2>2 DEF pieces
        <4> HIDE DEF bos
        <4> QED
          BY <1>4, <3>2, <4>1, WrappedOf, TextsAreChunks
      <3> DEFINE w == wrapped(pieces)
                 chunks == old.chunks \o w
      <3>4. chunks \in Seq(Chunk) /\ chunks # <<>>
        <4> HIDE DEF w
        <4> QED
          BY <1>2, <3>3, Joined DEF w
      <3> HIDE DEF w, new
      <3>5. new = [old EXCEPT !.message = rest, !.chunks = chunks]
        BY <3>1 DEF w
      <3> HIDE DEF chunks, rest, old
      <3> QED
        BY <1>1, <1>3, <3>4, <3>5 DEF Rec, States
    <2> QED
      BY <2>1, <2>2
  <1> HIDE DEF refused, more, added
  <1>10. request' = [request EXCEPT ![r] = new]
    BY <1>5, <1>e
  <1>11. UNCHANGED setup /\ UNCHANGED kv_vars
    BY DEF AddMedia
  <1>12. uses' \in Seq(Media)
    BY <1>4, <1>5 DEF Inv, Types
  <1>13. MediaTold(setup.family, cache_multimodals', multimodal_dummy_token_generator')
    BY <1>5, <1>8 DEF f
  <1> HIDE DEF new
  <1> QED
    BY <1>1, <1>9, <1>10, <1>11, <1>12, <1>13, HandlerStep

LEMMA EnqueueKeeps ==
    ASSUME Inv, NEW r \in Requests, Enqueue(r)
    PROVE  Inv' /\ Handled(r, request, request')
  <1> DEFINE old == request[r]
             new == [old EXCEPT !.state = IF TooLong(NumTokens(old.chunks)) THEN "refused" ELSE "queued"]
  <1>1. old \in Rec /\ old.state = "tokenizing" /\ old.chunks # <<>>
    BY DEF Inv, Types, Enqueue, SlotsWell, RequestWell
  <1>2. request' = [request EXCEPT ![r] = new]
    BY DEF Enqueue
  <1> HIDE DEF old
  <1>3. new \in Rec /\ new.state \in {"refused", "queued"} /\ new.chunks # <<>>
    BY <1>1 DEF Rec, States
  <1>4. UNCHANGED setup /\ UNCHANGED kv_vars /\ UNCHANGED media_vars /\ UNCHANGED uses
    BY DEF Enqueue
  <1>5. /\ uses' \in Seq(Media)
        /\ MediaTold(setup.family, cache_multimodals', multimodal_dummy_token_generator')
    BY <1>4 DEF Inv, Types, media_vars
  <1> HIDE DEF new
  <1> QED
    BY <1>1, <1>2, <1>3, <1>4, <1>5, HandlerStep DEF old

(* What the reconcile thread may do, to a request and its sequence.        *)
LEMMA SlotStep ==
    ASSUME Inv, NEW r \in Requests, NEW s \in Slots, NEW rec \in Rec, NEW e \in Entry, NEW held \in Seq(Int),
           request' = [request EXCEPT ![r] = rec], cache_prompts' = [cache_prompts EXCEPT ![s] = e],
           memory' = [memory EXCEPT ![s] = held],
           llm_kv_cache_used' \in Int, llm_kv_cache_inactive' \in Int, skewed' \in BOOLEAN, crashed' \in BOOLEAN,
           ~ crashed, rec.state \in {"running", "failed", "answered"}, EntryWell(e, held),
           rec.state = "running" => /\ rec.seq = s /\ e.used /\ Len(held) = rec.pos /\ (~ crashed' => rec.pos >= 1)
                                    /\ rec.history # <<>> /\ rec.processed_tokens # <<>>,
           \A q \in Requests \ {r} : request[q].state = "running" => request[q].seq # s,
           UNCHANGED <<setup, media_vars, uses>>
    PROVE  Inv'
  <1>1. Types'
    BY DEF Inv, Types
  <1>2. /\ request'[r] = rec /\ \A q \in Requests \ {r} : request'[q] = request[q]
        /\ cache_prompts'[s] = e /\ \A t \in Slots \ {s} : cache_prompts'[t] = cache_prompts[t]
        /\ memory'[s] = held /\ \A t \in Slots \ {s} : memory'[t] = memory[t]
    BY DEF Inv, Types
  <1>3. RequestWell(rec, cache_prompts', memory', crashed')
    BY <1>2 DEF RequestWell
  <1>4. \A q \in Requests \ {r} : RequestWell(request[q], cache_prompts', memory', crashed')
    <2> SUFFICES ASSUME NEW q \in Requests \ {r} PROVE RequestWell(request[q], cache_prompts', memory', crashed')
      OBVIOUS
    <2>1. RequestWell(request[q], cache_prompts, memory, crashed)
      BY DEF Inv, SlotsWell
    <2>2. request[q].state = "running" => request[q].seq \in Slots \ {s}
      BY <2>1 DEF RequestWell
    <2> QED
      BY <1>2, <2>1, <2>2 DEF RequestWell
  <1>5. SlotsWell(request', cache_prompts', memory', crashed')
    <2>1. \A q \in Requests : RequestWell(request'[q], cache_prompts', memory', crashed')
      BY <1>2, <1>3, <1>4, ZenonT(60)
    <2>2. \A t \in Slots : EntryWell(cache_prompts'[t], memory'[t])
      BY <1>2 DEF Inv, SlotsWell
    <2>3. ASSUME NEW x \in Requests, NEW y \in Requests, request'[x].state = "running", request'[y].state = "running",
                 request'[x].seq = request'[y].seq
          PROVE  x = y
      <3>1. CASE x = r
        BY <1>2, <2>3, <3>1
      <3>2. CASE y = r
        BY <1>2, <2>3, <3>2
      <3>3. CASE x # r /\ y # r
        BY <1>2, <2>3, <3>3 DEF Inv, SlotsWell
      <3> QED
        BY <3>1, <3>2, <3>3
    <2> QED
      BY <2>1, <2>2, <2>3 DEF SlotsWell
  <1>6. MediaTold(setup.family, cache_multimodals, multimodal_dummy_token_generator)'
    BY DEF Inv, media_vars
  <1> QED
    BY <1>1, <1>5, <1>6 DEF Inv

-----------------------------------------------------------------------------
(* The counters.                                                           *)

Idles(entries) == SumFunctionOnSet([s \in Slots |-> entries[s].pos], Slots)

Runs(requests) ==
    SumFunctionOnSet([r \in Requests |-> requests[r].pos], {r \in Requests : requests[r].state = "running"})

Counted == llm_kv_cache_inactive = Idles(cache_prompts) /\ (~ skewed => llm_kv_cache_used = Idles(cache_prompts) + Runs(request))

Held(rec) == IF rec.state = "running" THEN rec.pos ELSE 0

LEMMA CountedIs == KvAccounted <=> Counted
  BY DEF KvAccounted, Counted, Idles, Runs, In

LEMMA IdlesAre ==
    ASSUME NEW entries \in [Slots -> Entry], NEW s \in Slots, NEW e \in Entry
    PROVE  /\ Idles([entries EXCEPT ![s] = e]) = Idles(entries) + e.pos - entries[s].pos
           /\ Idles(entries) \in Int
  <1> DEFINE f == [t \in Slots |-> entries[t].pos]
             more == [entries EXCEPT ![s] = e]
             g == [t \in Slots |-> more[t].pos]
  <1>1. /\ \A t \in Slots : f[t] \in Int
        /\ g[s] = e.pos /\ g[s] \in Int /\ f[s] = entries[s].pos /\ \A t \in Slots \ {s} : g[t] = f[t]
    BY DEF Entry
  <1>2. Idles(more) = SumFunctionOnSet(g, Slots) /\ Idles(entries) = SumFunctionOnSet(f, Slots)
    BY DEF Idles
  <1>3. IsFiniteSet(Slots)
    BY PrefillAssumption
  <1> HIDE DEF f, g, more
  <1>4. SumFunctionOnSet(g, Slots) = SumFunctionOnSet(f, Slots) + g[s] - f[s]
    BY <1>1, <1>3, SumUpdate
  <1>5. SumFunctionOnSet(f, Slots) \in Int
    BY <1>1, <1>3, SumIsInt
  <1> QED
    BY <1>1, <1>2, <1>4, <1>5 DEF more

LEMMA RunsApart ==
    ASSUME NEW requests \in [Requests -> Rec], NEW r \in Requests
    PROVE  LET rest == {q \in Requests \ {r} : requests[q].state = "running"}
               total == SumFunctionOnSet([q \in Requests |-> requests[q].pos], rest)
           IN  Runs(requests) = Held(requests[r]) + total /\ total \in Int /\ Held(requests[r]) \in Int
  <1> DEFINE rest == {q \in Requests \ {r} : requests[q].state = "running"}
             f == [q \in Requests |-> requests[q].pos]
             all == {q \in Requests : requests[q].state = "running"}
             total == SumFunctionOnSet(f, rest)
  <1>1. IsFiniteSet(rest) /\ IsFiniteSet(all)
    <2>1. rest \subseteq Requests /\ all \subseteq Requests
      OBVIOUS
    <2> HIDE DEF rest, all
    <2> QED
      BY <2>1, PrefillAssumption, FS_Subset
  <1>2. (\A q \in Requests : f[q] \in Int) /\ f[r] = requests[r].pos /\ requests[r].pos \in Int
    BY DEF Rec
  <1>3. rest \subseteq Requests /\ all \subseteq Requests
    OBVIOUS
  <1>4. total \in Int
    <2> HIDE DEF f, rest
    <2> QED
      BY <1>1, <1>2, <1>3, SumIsInt
  <1>5. Runs(requests) = SumFunctionOnSet(f, all)
    BY DEF Runs
  <1>6. CASE requests[r].state = "running"
    <2>1. r \in all /\ all \ {r} = rest
      BY <1>6
    <2> HIDE DEF f, rest, all
    <2>2. SumFunctionOnSet(f, all) = f[r] + SumFunctionOnSet(f, all \ {r})
      BY <1>1, <1>2, <1>3, <2>1, SumRemove
    <2>3. SumFunctionOnSet(f, all) = f[r] + total
      BY <2>1, <2>2
    <2> QED
      BY <1>2, <1>4, <1>5, <1>6, <2>3 DEF Held, f, rest
  <1>7. CASE requests[r].state # "running"
    <2>1. all = rest
      BY <1>7
    <2>2. Runs(requests) = total
      <3> HIDE DEF f, rest, all
      <3> QED
        BY <1>5, <2>1
    <2>3. Held(requests[r]) = 0
      BY <1>7 DEF Held
    <2> HIDE DEF total
    <2> QED
      BY <1>4, <2>2, <2>3 DEF total
  <1> QED
    BY <1>6, <1>7

LEMMA RunsAre ==
    ASSUME NEW requests \in [Requests -> Rec], NEW r \in Requests, NEW rec \in Rec
    PROVE  /\ Runs([requests EXCEPT ![r] = rec]) = Runs(requests) + Held(rec) - Held(requests[r])
           /\ Runs(requests) \in Int
  <1> DEFINE more == [requests EXCEPT ![r] = rec]
             rest == {q \in Requests \ {r} : requests[q].state = "running"}
             f == [q \in Requests |-> requests[q].pos]
             g == [q \in Requests |-> more[q].pos]
  <1>1. more \in [Requests -> Rec] /\ more[r] = rec
    OBVIOUS
  <1>2. rest = {q \in Requests \ {r} : more[q].state = "running"}
    OBVIOUS
  <1>3. SumFunctionOnSet(f, rest) = SumFunctionOnSet(g, rest)
    <2>1. \A q \in rest : f[q] = g[q]
      OBVIOUS
    <2>2. IsFiniteSet(rest)
      <3>1. rest \subseteq Requests
        OBVIOUS
      <3> HIDE DEF rest
      <3> QED
        BY <3>1, PrefillAssumption, FS_Subset
    <2> HIDE DEF f, g, rest
    <2> QED
      BY <2>1, <2>2, SumSame
  <1>4. /\ Runs(requests) = Held(requests[r]) + SumFunctionOnSet(f, rest)
        /\ SumFunctionOnSet(f, rest) \in Int /\ Held(requests[r]) \in Int
    BY RunsApart
  <1>5. Runs(more) = Held(more[r]) + SumFunctionOnSet(g, rest) /\ Held(more[r]) \in Int
    <2> HIDE DEF more
    <2>1. /\ Runs(more) = Held(more[r]) + SumFunctionOnSet([q \in Requests |-> more[q].pos], {q \in Requests \ {r} : more[q].state = "running"})
          /\ Held(more[r]) \in Int
      BY <1>1, RunsApart
    <2> HIDE DEF rest
    <2> QED
      BY <1>2, <2>1
  <1> HIDE DEF f, g, rest
  <1> DEFINE x == SumFunctionOnSet(f, rest)
             a == Held(requests[r])
             b == Held(rec)
  <1>6. Runs(requests) = a + x /\ Runs(more) = b + x /\ x \in Int /\ a \in Int /\ b \in Int
    BY <1>1, <1>3, <1>4, <1>5
  <1> HIDE DEF x, a, b, more
  <1>7. Runs(more) = Runs(requests) + b - a /\ Runs(requests) \in Int
    BY <1>6
  <1> QED
    BY <1>7 DEF more, a, b

LEMMA CountStep ==
    ASSUME Inv, Counted, NEW r \in Requests, NEW s \in Slots, NEW rec \in Rec, NEW e \in Entry,
           request' = [request EXCEPT ![r] = rec], cache_prompts' = [cache_prompts EXCEPT ![s] = e],
           llm_kv_cache_inactive' = llm_kv_cache_inactive + e.pos - cache_prompts[s].pos,
           ~ skewed' => ~ skewed /\ llm_kv_cache_used' =
               llm_kv_cache_used + (e.pos + Held(rec)) - (cache_prompts[s].pos + Held(request[r]))
    PROVE  Counted'
  <1> DEFINE i == Idles(cache_prompts)
             j == Idles(cache_prompts')
             u == Runs(request)
             v == Runs(request')
             x == e.pos
             y == cache_prompts[s].pos
             a == Held(rec)
             b == Held(request[r])
  <1>1. j = i + x - y /\ i \in Int
    BY IdlesAre DEF Inv, Types
  <1>2. v = u + a - b /\ u \in Int
    BY RunsAre DEF Inv, Types
  <1>3. x \in Int /\ y \in Int /\ a \in Int /\ b \in Int
    <2>1. x \in Int /\ y \in Int
      BY DEF Inv, Types, Entry
    <2>2. \A one \in Rec : Held(one) \in Int
      BY DEF Rec, Held
    <2> QED
      BY <2>1, <2>2 DEF Inv, Types
  <1>4. llm_kv_cache_inactive = i /\ (~ skewed => llm_kv_cache_used = i + u)
    BY DEF Counted
  <1>5. llm_kv_cache_inactive' = llm_kv_cache_inactive + x - y
        /\ (~ skewed' => ~ skewed /\ llm_kv_cache_used' = llm_kv_cache_used + (x + a) - (y + b))
    OBVIOUS
  <1> HIDE DEF i, j, u, v, x, y, a, b
  <1>6. llm_kv_cache_inactive' = j
    BY <1>1, <1>3, <1>4, <1>5
  <1>7. ASSUME ~ skewed' PROVE llm_kv_cache_used' = j + v
    <2>1. llm_kv_cache_used = i + u /\ llm_kv_cache_used' = llm_kv_cache_used + (x + a) - (y + b)
      BY <1>4, <1>5, <1>7
    <2> QED
      BY <1>1, <1>2, <1>3, <2>1
  <1> QED
    BY <1>6, <1>7 DEF Counted, j, v

LEMMA HandlerCounts ==
    ASSUME Inv, Counted, NEW r \in Requests, NEW rec \in Rec, request' = [request EXCEPT ![r] = rec],
           request[r].state # "running", rec.state # "running", UNCHANGED kv_vars
    PROVE  Counted'
  <1>1. Runs(request') = Runs(request) + Held(rec) - Held(request[r]) /\ Runs(request) \in Int
    BY RunsAre DEF Inv, Types
  <1>2. Held(rec) = 0 /\ Held(request[r]) = 0
    BY DEF Held
  <1>3. Runs(request') = Runs(request)
    BY <1>1, <1>2
  <1> QED
    BY <1>3 DEF Counted, kv_vars

(* What is known of a running request.                                     *)
LEMMA RunningOf ==
    ASSUME Inv, NEW r \in Requests, request[r].state = "running"
    PROVE  /\ request[r] \in Rec /\ request[r].seq \in Slots
           /\ cache_prompts[request[r].seq] \in Entry /\ memory[request[r].seq] \in Seq(Int)
           /\ cache_prompts[request[r].seq].used /\ cache_prompts[request[r].seq].pos = 0
           /\ Len(memory[request[r].seq]) = request[r].pos /\ (~ crashed => request[r].pos >= 1)
           /\ request[r].history # <<>> /\ request[r].processed_tokens # <<>>
           /\ \A q \in Requests \ {r} : request[q].state = "running" => request[q].seq # request[r].seq
           /\ EntryWell(cache_prompts[request[r].seq], memory[request[r].seq])
  <1>1. RequestWell(request[r], cache_prompts, memory, crashed)
    BY DEF Inv, SlotsWell
  <1>2. request[r] \in Rec /\ request[r].seq \in Slots
    BY <1>1 DEF RequestWell, Inv, Types
  <1>3. EntryWell(cache_prompts[request[r].seq], memory[request[r].seq])
    BY <1>2 DEF Inv, SlotsWell
  <1>4. \A q \in Requests \ {r} : request[q].state = "running" => request[q].seq # request[r].seq
    BY DEF Inv, SlotsWell
  <1>5. cache_prompts[request[r].seq] \in Entry /\ memory[request[r].seq] \in Seq(Int)
    BY <1>2 DEF Inv, Types
  <1> QED
    BY <1>1, <1>2, <1>3, <1>4, <1>5 DEF RequestWell, EntryWell

LEMMA LastTyped ==
    ASSUME NEW S, NEW s \in Seq(S), s # <<>>
    PROVE  Last(s) \in S
  <1>1. Len(s) \in 1 .. Len(s)
    OBVIOUS
  <1> QED
    BY <1>1 DEF Last

(* A token is sampled.                                                     *)
LEMMA SampledOf ==
    ASSUME NEW rec \in Rec, NEW token \in Nat
    PROVE  /\ Sampled(rec, token) \in Rec
           /\ Sampled(rec, token) = [rec EXCEPT !.processed_tokens = Append(rec.processed_tokens, token),
                                         !.history = Append(rec.history, token), !.answered = rec.answered + 1]
           /\ Sampled(rec, token).state = rec.state /\ Sampled(rec, token).seq = rec.seq
           /\ Sampled(rec, token).pos = rec.pos /\ Sampled(rec, token).clean = rec.clean
           /\ Sampled(rec, token).processed_tokens = Append(rec.processed_tokens, token)
           /\ Sampled(rec, token).history = Append(rec.history, token)
           /\ Sampled(rec, token).history # <<>> /\ Sampled(rec, token).processed_tokens # <<>>
  <1> DEFINE p == rec.processed_tokens
             h == rec.history
             a == Append(p, token)
             b == Append(h, token)
             new == Sampled(rec, token)
  <1>1. p \in Seq(Int) /\ h \in Seq(Int) /\ rec.answered \in Nat /\ token \in Int
    BY DEF Rec
  <1>2. new = [rec EXCEPT !.processed_tokens = a, !.history = b, !.answered = rec.answered + 1]
    BY DEF Sampled, Rec
  <1> HIDE DEF p, h
  <1>3. a \in Seq(Int) /\ b \in Seq(Int) /\ a # <<>> /\ b # <<>>
    BY <1>1, AppendTyped
  <1> HIDE DEF a, b, new
  <1>4. /\ new.state = rec.state /\ new.seq = rec.seq /\ new.pos = rec.pos /\ new.clean = rec.clean
        /\ new.processed_tokens = a /\ new.history = b
    BY <1>2 DEF Rec
  <1>5. new \in Rec
    <2> DEFINE n == rec.answered + 1
    <2>1. n \in Nat
      BY <1>1
    <2>2. new = [rec EXCEPT !.processed_tokens = a, !.history = b, !.answered = n]
      BY <1>2
    <2> HIDE DEF n
    <2> QED
      BY <1>3, <2>1, <2>2 DEF Rec
  <1> QED
    BY <1>2, <1>3, <1>4, <1>5 DEF new, a, b, p, h

LEMMA DecodeKeeps ==
    ASSUME Inv, Counted, NEW r \in Requests, Decode(r)
    PROVE  Inv' /\ Counted'
  <1> DEFINE old == request[r]
             s == old.seq
             e == cache_prompts[s]
             x == Last(old.history)
             held == Append(memory[s], x)
  <1>0. old.state = "running" /\ ~ crashed
    BY DEF Decode
  <1>1. /\ old \in Rec /\ s \in Slots /\ e \in Entry /\ memory[s] \in Seq(Int) /\ e.used /\ e.pos = 0
        /\ Len(memory[s]) = old.pos /\ old.history # <<>> /\ old.processed_tokens # <<>>
        /\ \A q \in Requests \ {r} : request[q].state = "running" => request[q].seq # s
    BY <1>0, RunningOf
  <1>2. x \in Int
    <2> DEFINE h == old.history
    <2>1. h \in Seq(Int) /\ h # <<>>
      BY <1>1 DEF Rec
    <2> HIDE DEF h
    <2>2. Last(h) \in Int
      BY <2>1, LastTyped
    <2> QED
      BY <2>2 DEF h
  <1>3. PICK token \in Generated : request' = [request EXCEPT ![r] = [Sampled(old, token) EXCEPT !.pos = @ + 1]]
    BY DEF Decode
  <1> DEFINE y == Sampled(old, token)
             new == [y EXCEPT !.pos = @ + 1]
  <1>4. token \in Nat
    BY PrefillAssumption
  <1>5. /\ y \in Rec /\ y.state = "running" /\ y.seq = s /\ y.pos = old.pos
        /\ y.history # <<>> /\ y.processed_tokens # <<>>
    <2> HIDE DEF old
    <2> QED
      BY <1>0, <1>1, <1>4, SampledOf DEF s
  <1>6. held \in Seq(Int) /\ Len(held) = old.pos + 1 /\ old.pos \in Nat
    <2> DEFINE m == memory[s]
    <2>1. m \in Seq(Int) /\ Len(m) = old.pos /\ old.pos \in Nat
      BY <1>1 DEF Rec
    <2> HIDE DEF m, x
    <2>2. Append(m, x) \in Seq(Int) /\ Len(Append(m, x)) = Len(m) + 1
      BY <1>2, <2>1
    <2> QED
      BY <2>1, <2>2 DEF m
  <1> HIDE DEF y
  <1>7. /\ new \in Rec /\ new.state = "running" /\ new.seq = s /\ new.pos = old.pos + 1
        /\ new.history # <<>> /\ new.processed_tokens # <<>>
    <2> DEFINE n == old.pos
           k == n + 1
    <2>1. y.pos = n /\ k \in Nat
      BY <1>5, <1>6
    <2>2. new = [y EXCEPT !.pos = k]
      BY <2>1
    <2> HIDE DEF k, new, old, s
    <2>3. /\ new \in Rec /\ new.state = y.state /\ new.seq = y.seq /\ new.pos = k
          /\ new.history = y.history /\ new.processed_tokens = y.processed_tokens
      BY <1>5, <2>1, <2>2 DEF Rec
    <2> QED
      BY <1>5, <2>3 DEF k
  <1>8. /\ request' = [request EXCEPT ![r] = new]
        /\ memory' = [memory EXCEPT ![s] = held] /\ llm_kv_cache_used' = llm_kv_cache_used + 1
        /\ UNCHANGED <<setup, cache_prompts, llm_kv_cache_inactive, skewed, crashed, media_vars, uses>>
    BY <1>3 DEF Decode, y
  <1>9. cache_prompts' = [cache_prompts EXCEPT ![s] = e]
    BY <1>1, <1>8 DEF Inv, Types
  <1>10. llm_kv_cache_used \in Int /\ llm_kv_cache_inactive \in Int /\ skewed \in BOOLEAN /\ crashed \in BOOLEAN
    BY DEF Inv, Types
  <1> HIDE DEF new, held
  <1>11. Inv'
    <2>1. EntryWell(e, held)
      BY <1>1 DEF EntryWell
    <2>2. /\ llm_kv_cache_used' \in Int /\ llm_kv_cache_inactive' \in Int /\ skewed' \in BOOLEAN /\ crashed' \in BOOLEAN
          /\ UNCHANGED <<setup, media_vars, uses>>
      BY <1>8, <1>10
    <2>3. new.pos >= 1 /\ Len(held) = new.pos
      BY <1>6, <1>7
    <2> HIDE DEF s, e, old
    <2> QED
      BY <1>0, <1>1, <1>6, <1>7, <1>8, <1>9, <2>1, <2>2, <2>3, SlotStep
  <1>12. Counted'
    <2>1. llm_kv_cache_inactive' = llm_kv_cache_inactive + e.pos - e.pos
      BY <1>1, <1>8, <1>10
    <2>2. llm_kv_cache_used' = llm_kv_cache_used + (e.pos + Held(new)) - (e.pos + Held(old))
      <3> DEFINE n == old.pos
                 a == Held(new)
                 b == Held(old)
      <3>1. a = n + 1 /\ b = n
        BY <1>0, <1>7 DEF Held
      <3>2. n \in Nat /\ e.pos = 0 /\ llm_kv_cache_used \in Int /\ llm_kv_cache_used' = llm_kv_cache_used + 1
        BY <1>1, <1>6, <1>8, <1>10
      <3> HIDE DEF n, a, b, e
      <3>3. llm_kv_cache_used' = llm_kv_cache_used + (e.pos + a) - (e.pos + b)
        BY <3>1, <3>2
      <3> QED
        BY <3>3 DEF a, b, e
    <2>3. ~ skewed' => ~ skewed
      BY <1>8
    <2>4. ~ skewed' => ~ skewed /\ llm_kv_cache_used' = llm_kv_cache_used + (e.pos + Held(new)) - (e.pos + Held(old))
      BY <2>2, <2>3
    <2>5. s \in Slots /\ new \in Rec /\ e \in Entry
      BY <1>1, <1>7
    <2>6. request' = [request EXCEPT ![r] = new]
      BY <1>8
    <2> HIDE DEF s
    <2>7. e = cache_prompts[s]
      OBVIOUS
    <2>8. old = request[r]
      OBVIOUS
    <2> HIDE DEF e, old
    <2>9. llm_kv_cache_inactive' = llm_kv_cache_inactive + e.pos - cache_prompts[s].pos
      BY <2>1, <2>7
    <2>10. ~ skewed' => ~ skewed /\ llm_kv_cache_used' =
               llm_kv_cache_used + (e.pos + Held(new)) - (cache_prompts[s].pos + Held(request[r]))
      BY <2>4, <2>7, <2>8
    <2> QED
      BY <1>9, <2>5, <2>6, <2>9, <2>10, CountStep
  <1> QED
    BY <1>11, <1>12

LEMMA EmptyWell == EmptyEntry \in Entry /\ EmptyEntry.pos = 0 /\ \A held : EntryWell(EmptyEntry, held)
  BY DEF EmptyEntry, Entry, EntryWell, EntryOf

LEMMA RetireKeeps ==
    ASSUME Inv, Counted, NEW r \in Requests, Retire(r)
    PROVE  Inv' /\ Counted'
  <1> DEFINE old == request[r]
             s == old.seq
             e == cache_prompts[s]
             held == memory[s]
             new == [old EXCEPT !.state = "answered"]
             left == [used |-> FALSE, tokens |-> old.processed_tokens, pos |-> old.pos, clean |-> old.clean]
  <1>0. old.state = "running" /\ ~ crashed
    BY DEF Retire
  <1>1. /\ old \in Rec /\ s \in Slots /\ e \in Entry /\ held \in Seq(Int) /\ e.used /\ e.pos = 0
        /\ Len(held) = old.pos /\ old.pos >= 1
        /\ \A q \in Requests \ {r} : request[q].state = "running" => request[q].seq # s
    BY <1>0, RunningOf
  <1>2. /\ request' = [request EXCEPT ![r] = new] /\ cache_prompts' = [cache_prompts EXCEPT ![s] = left]
        /\ llm_kv_cache_inactive' = llm_kv_cache_inactive + old.pos
        /\ UNCHANGED <<setup, memory, llm_kv_cache_used, skewed, crashed, media_vars, uses>>
    BY DEF Retire
  <1>3. memory' = [memory EXCEPT ![s] = held]
    BY <1>1, <1>2 DEF Inv, Types
  <1>4. llm_kv_cache_used \in Int /\ llm_kv_cache_inactive \in Int /\ skewed \in BOOLEAN /\ crashed \in BOOLEAN
    BY DEF Inv, Types
  <1>5. old.pos \in Nat
    BY <1>1 DEF Rec
  <1>6. left \in Entry /\ EntryWell(left, held) /\ left.pos = old.pos
    <2> HIDE DEF s
    <2>1. left \in Entry
      BY <1>1 DEF Entry, Rec
    <2> QED
      BY <1>1, <1>5, <2>1 DEF EntryWell, EntryOf
  <1>7. new \in Rec /\ new.state = "answered"
    <2> HIDE DEF old
    <2> QED
      BY <1>1 DEF Rec, States
  <1> HIDE DEF left
  <1>8. Inv'
    <2>1. /\ llm_kv_cache_used' \in Int /\ llm_kv_cache_inactive' \in Int /\ skewed' \in BOOLEAN /\ crashed' \in BOOLEAN
          /\ UNCHANGED <<setup, media_vars, uses>>
      BY <1>2, <1>4, <1>5
    <2> HIDE DEF s, e, old, new, held
    <2> QED
      BY <1>0, <1>1, <1>2, <1>3, <1>6, <1>7, <2>1, SlotStep
  <1>9. Counted'
    <2>1. llm_kv_cache_inactive' = llm_kv_cache_inactive + left.pos - e.pos
      BY <1>1, <1>2, <1>4, <1>5, <1>6
    <2>2. llm_kv_cache_used' = llm_kv_cache_used + (left.pos + Held(new)) - (e.pos + Held(old))
      <3>1. Held(new) = 0 /\ Held(old) = old.pos
        <4> HIDE DEF new
        <4> QED
          BY <1>0, <1>7 DEF Held
      <3> HIDE DEF new, old
      <3> QED
        BY <1>1, <1>2, <1>4, <1>5, <1>6, <3>1
    <2>3. ~ skewed' => ~ skewed
      BY <1>2
    <2>4. s \in Slots /\ new \in Rec /\ left \in Entry
      BY <1>1, <1>6, <1>7
    <2>5. /\ request' = [request EXCEPT ![r] = new] /\ cache_prompts' = [cache_prompts EXCEPT ![s] = left]
      BY <1>2
    <2> HIDE DEF s, new
    <2>6. e = cache_prompts[s] /\ old = request[r]
      OBVIOUS
    <2> HIDE DEF e, old
    <2>7. llm_kv_cache_inactive' = llm_kv_cache_inactive + left.pos - cache_prompts[s].pos
      BY <2>1, <2>6
    <2>8. ~ skewed' => ~ skewed /\ llm_kv_cache_used' =
              llm_kv_cache_used + (left.pos + Held(new)) - (cache_prompts[s].pos + Held(request[r]))
      BY <2>2, <2>3, <2>6
    <2> QED
      BY <2>4, <2>5, <2>7, <2>8, CountStep
  <1> QED
    BY <1>8, <1>9

LEMMA DecodeFailsKeeps ==
    ASSUME Inv, Counted, NEW r \in Requests, DecodeFails(r)
    PROVE  Inv' /\ Counted'
  <1> DEFINE old == request[r]
             s == old.seq
             e == cache_prompts[s]
             new == [old EXCEPT !.state = "failed"]
             none == <<>>
  <1>0. old.state = "running" /\ ~ crashed
    BY DEF DecodeFails
  <1>1. /\ old \in Rec /\ s \in Slots /\ e \in Entry /\ e.used /\ e.pos = 0
        /\ \A q \in Requests \ {r} : request[q].state = "running" => request[q].seq # s
    BY <1>0, RunningOf
  <1>2. /\ request' = [request EXCEPT ![r].state = "failed"] /\ cache_prompts' = [cache_prompts EXCEPT ![s] = EmptyEntry]
        /\ memory' = [memory EXCEPT ![s] = none]
        /\ llm_kv_cache_used' = (llm_kv_cache_used + 1) - (old.pos + 1)
        /\ UNCHANGED <<setup, llm_kv_cache_inactive, skewed, crashed, media_vars, uses>>
    BY DEF DecodeFails, Aborted
  <1>3. request' = [request EXCEPT ![r] = new]
    BY <1>2
  <1>4. llm_kv_cache_used \in Int /\ llm_kv_cache_inactive \in Int /\ skewed \in BOOLEAN /\ crashed \in BOOLEAN
    BY DEF Inv, Types
  <1>5. old.pos \in Nat
    BY <1>1 DEF Rec
  <1>6. none \in Seq(Int)
    OBVIOUS
  <1>7. new \in Rec /\ new.state = "failed"
    <2> HIDE DEF old
    <2> QED
      BY <1>1 DEF Rec, States
  <1> HIDE DEF none
  <1>8. Inv'
    <2>1. /\ llm_kv_cache_used' \in Int /\ llm_kv_cache_inactive' \in Int /\ skewed' \in BOOLEAN /\ crashed' \in BOOLEAN
          /\ UNCHANGED <<setup, media_vars, uses>>
      BY <1>2, <1>4, <1>5
    <2> DEFINE left == EmptyEntry
    <2>2. left \in Entry /\ EntryWell(left, none) /\ cache_prompts' = [cache_prompts EXCEPT ![s] = left]
      BY <1>2, EmptyWell
    <2>3. memory' = [memory EXCEPT ![s] = none] /\ new.state # "running"
      BY <1>2, <1>7
    <2> HIDE DEF s, e, old, new, left
    <2> QED
      BY <1>0, <1>1, <1>3, <1>6, <1>7, <2>1, <2>2, <2>3, SlotStep
  <1>9. Counted'
    <2>1. llm_kv_cache_inactive' = llm_kv_cache_inactive + EmptyEntry.pos - e.pos
      BY <1>1, <1>2, <1>4, EmptyWell
    <2>2. llm_kv_cache_used' = llm_kv_cache_used + (EmptyEntry.pos + Held(new)) - (e.pos + Held(old))
      <3>1. Held(new) = 0 /\ Held(old) = old.pos
        <4> HIDE DEF new
        <4> QED
          BY <1>0, <1>7 DEF Held
      <3> HIDE DEF new, old
      <3> QED
        BY <1>1, <1>2, <1>4, <1>5, EmptyWell, <3>1
    <2>3. ~ skewed' => ~ skewed
      BY <1>2
    <2>4. s \in Slots /\ new \in Rec /\ EmptyEntry \in Entry
      BY <1>1, <1>7, EmptyWell
    <2>5. /\ request' = [request EXCEPT ![r] = new] /\ cache_prompts' = [cache_prompts EXCEPT ![s] = EmptyEntry]
      BY <1>2, <1>3
    <2> HIDE DEF s, new
    <2>6. e = cache_prompts[s] /\ old = request[r]
      OBVIOUS
    <2> HIDE DEF e, old
    <2>7. llm_kv_cache_inactive' = llm_kv_cache_inactive + EmptyEntry.pos - cache_prompts[s].pos
      BY <2>1, <2>6
    <2>8. ~ skewed' => ~ skewed /\ llm_kv_cache_used' =
              llm_kv_cache_used + (EmptyEntry.pos + Held(new)) - (cache_prompts[s].pos + Held(request[r]))
      BY <2>2, <2>3, <2>6
    <2> QED
      BY <2>4, <2>5, <2>7, <2>8, CountStep
  <1> QED
    BY <1>8, <1>9

(* Where a queued request begins, and what becomes of its chunks.          *)
LEMMA PrefillBegins ==
    ASSUME Inv, NEW r \in Requests, request[r].state = "queued", Idle # {}
    PROVE  LET tokens == Tokens(request[r].chunks)
               s      == Best(tokens)
               hit    == Hit(s, tokens)
           IN  /\ request[r] \in Rec /\ request[r].chunks \in Seq(Chunk) /\ request[r].chunks # <<>>
               /\ tokens \in Seq(Int) /\ s \in Slots /\ ~ cache_prompts[s].used
               /\ cache_prompts[s] \in Entry /\ memory[s] \in Seq(Int) /\ EntryOf(cache_prompts[s], memory[s])
               /\ hit \in [cached : Nat, pos : Nat] /\ hit.pos <= Len(memory[s]) /\ Begins(Start(s, hit))
               /\ Start(s, hit).used - Start(s, hit).pos = llm_kv_cache_used - cache_prompts[s].pos
  <1> DEFINE chunks == request[r].chunks
             tokens == Tokens(chunks)
             s == Best(tokens)
             hit == Hit(s, tokens)
  <1>1. request[r] \in Rec /\ chunks # <<>>
    BY DEF Inv, Types, SlotsWell, RequestWell
  <1>2. chunks \in Seq(Chunk)
    BY <1>1 DEF Rec
  <1>3. tokens \in Seq(Int)
    <2> HIDE DEF chunks
    <2> QED
      BY <1>2, BothOf DEF Both
  <1>4. s \in Idle
    <2> HIDE DEF tokens
    <2> QED
      BY <1>3, BestIdle DEF Inv, Types
  <1>5. s \in Slots /\ ~ cache_prompts[s].used
    BY <1>4 DEF Idle
  <1> HIDE DEF s, tokens
  <1>6. cache_prompts[s] \in Entry /\ memory[s] \in Seq(Int) /\ EntryOf(cache_prompts[s], memory[s])
    BY <1>5 DEF Inv, Types, SlotsWell, EntryWell
  <1>7. /\ hit.cached \in Nat /\ hit.pos \in Nat /\ hit.pos <= hit.cached
        /\ hit.cached = 0 \/ (hit.pos < cache_prompts[s].pos /\ cache_prompts[s].tokens # <<>>)
    BY <1>3, <1>6, HitOf
  <1>8. hit.pos <= Len(memory[s])
    <2> DEFINE n == Len(memory[s])
               m == cache_prompts[s].pos
               pos == hit.pos
    <2>1. n \in Nat /\ m \in Nat /\ (cache_prompts[s].tokens # <<>> => m = n)
      BY <1>6 DEF Entry, EntryOf
    <2>2. pos \in Nat /\ (pos < m \/ pos <= 0)
      BY <1>7
    <2>3. pos > 0 => m = n
      BY <1>7, <2>1
    <2> HIDE DEF n, m, pos
    <2>4. pos <= n
      BY <2>1, <2>2, <2>3
    <2> QED
      BY <2>4 DEF n, pos
  <1>9. hit \in [cached : Nat, pos : Nat]
    <2> DEFINE lcp == common_lcp(cache_prompts[s].tokens, tokens)
               low == Min({cache_prompts[s].pos - 1, lcp - 1})
    <2>1. hit = IF lcp = 0 THEN [cached |-> 0, pos |-> 0] ELSE [cached |-> lcp - 1, pos |-> low]
      BY DEF Hit
    <2> HIDE DEF hit, lcp, low
    <2> QED
      BY <1>7, <2>1
  <1> HIDE DEF hit
  <1>10. cache_prompts[s].pos \in Nat /\ llm_kv_cache_used \in Int
    BY <1>6 DEF Entry, Inv, Types
  <1>11. /\ Start(s, hit) \in Progress /\ ~ Start(s, hit).failed /\ Start(s, hit).batch = <<>>
         /\ ~ Start(s, hit).skewed /\ Start(s, hit).c_prefilled = 0
         /\ Len(Start(s, hit).memory) = Start(s, hit).pos
         /\ Start(s, hit).used - Start(s, hit).pos = llm_kv_cache_used - cache_prompts[s].pos
    BY <1>6, <1>8, <1>9, <1>10, StartOf
  <1>12. Begins(Start(s, hit))
    BY <1>11 DEF Begins
  <1> QED
    BY <1>1, <1>2, <1>3, <1>5, <1>6, <1>8, <1>9, <1>11, <1>12 DEF s, hit, tokens, chunks

(* The steps of Prefill, with what they share.                             *)
LEMMA PrefillOf ==
    ASSUME Inv, NEW r \in Requests, Prefill(r)
    PROVE  \E s \in Slots, hit \in [cached : Nat, pos : Nat], bad \in 0 .. Len(request[r].chunks) : \E p :
               /\ s = Best(Tokens(request[r].chunks)) /\ hit = Hit(s, Tokens(request[r].chunks))
               /\ p = Chunked(r, s, hit, bad)
               /\ Outcome(request[r].chunks, Start(s, hit), p)
               /\ ~ p.skewed => p.used - p.pos = llm_kv_cache_used - cache_prompts[s].pos
               /\ llm_kv_cache_inactive' = llm_kv_cache_inactive - cache_prompts[s].pos
               /\ skewed' = (skewed \/ p.skewed)
               /\ crashed' = (p.n_prefilled >= NumTokens(request[r].chunks) /\ p.batch = <<>>)
               /\ \/ \E held \in Seq(Int) : Aborted(r, s, p, held) /\ ~ crashed'
                  \/ p.n_prefilled >= NumTokens(request[r].chunks) /\ Prefilled(r, s, hit, p)
  <1> DEFINE chunks == request[r].chunks
             tokens == Tokens(chunks)
             s == Best(tokens)
             hit == Hit(s, tokens)
  <1>1. request[r].state = "queued" /\ Idle # {}
    BY DEF Prefill
  <1>2. /\ chunks \in Seq(Chunk) /\ chunks # <<>> /\ tokens \in Seq(Int) /\ s \in Slots
        /\ cache_prompts[s] \in Entry /\ hit \in [cached : Nat, pos : Nat] /\ Begins(Start(s, hit))
        /\ Start(s, hit).used - Start(s, hit).pos = llm_kv_cache_used - cache_prompts[s].pos
    BY <1>1, PrefillBegins
  <1>3. PICK bad \in 0 .. Len(chunks) :
            LET p == Chunked(r, s, hit, bad)
                short == p.n_prefilled < Len(tokens)
            IN  /\ llm_kv_cache_inactive' = llm_kv_cache_inactive - cache_prompts[s].pos
                /\ skewed' = (skewed \/ p.skewed)
                /\ crashed' = (~short /\ p.batch = <<>>)
                /\ IF short THEN Aborted(r, s, p, p.batch)
                   ELSE IF bad = Len(chunks) /\ p.batch # <<>> THEN Aborted(r, s, p, <<>>)
                   ELSE Prefilled(r, s, hit, p)
    BY DEF Prefill
  <1> DEFINE p == Chunked(r, s, hit, bad)
             start == Start(s, hit)
             short == p.n_prefilled < Len(tokens)
             none == <<>>
  <1> HIDE DEF s, hit, tokens
  <1>4. Outcome(chunks, start, p)
    BY <1>2, ChunkedOf
  <1>5. p.n_prefilled \in Nat /\ Len(tokens) \in Nat /\ p.batch \in Seq(Int)
    BY <1>2, <1>4 DEF Outcome
  <1>6. short <=> ~ (p.n_prefilled >= NumTokens(chunks))
    <2>1. NumTokens(chunks) = Len(tokens)
      BY DEF NumTokens, tokens
    <2> HIDE DEF p
    <2> QED
      BY <1>5, <2>1
  <1>7. ~ p.skewed => p.used - p.pos = llm_kv_cache_used - cache_prompts[s].pos
    BY <1>2, <1>4 DEF Outcome
  <1> HIDE DEF p, start, short
  <1>8. /\ llm_kv_cache_inactive' = llm_kv_cache_inactive - cache_prompts[s].pos
        /\ skewed' = (skewed \/ p.skewed) /\ crashed' = (~ short /\ p.batch = none)
        /\ IF short THEN Aborted(r, s, p, p.batch)
           ELSE IF bad = Len(chunks) /\ p.batch # none THEN Aborted(r, s, p, none)
           ELSE Prefilled(r, s, hit, p)
    BY <1>3 DEF p, short
  <1>9. none \in Seq(Int)
    OBVIOUS
  <1>10. \/ \E held \in Seq(Int) : Aborted(r, s, p, held) /\ ~ crashed'
         \/ ~ short /\ Prefilled(r, s, hit, p)
    <2> HIDE DEF none
    <2> QED
      BY <1>5, <1>8, <1>9
  <1>11. crashed' = (p.n_prefilled >= NumTokens(chunks) /\ p.batch = <<>>)
    BY <1>6, <1>8
  <1>12. \/ \E held \in Seq(Int) : Aborted(r, s, p, held) /\ ~ crashed'
         \/ p.n_prefilled >= NumTokens(chunks) /\ Prefilled(r, s, hit, p)
    BY <1>6, <1>10
  <1>13. /\ s = Best(Tokens(request[r].chunks)) /\ hit = Hit(s, Tokens(request[r].chunks))
         /\ p = Chunked(r, s, hit, bad) /\ Outcome(request[r].chunks, Start(s, hit), p)
    BY <1>4 DEF s, hit, tokens, p, start
  <1> QED
    BY <1>2, <1>7, <1>8, <1>11, <1>12, <1>13

(* Both ends of it, for what Prefill does to the counters.                 *)
LEMMA PrefillCounts ==
    ASSUME Inv, Counted, NEW r \in Requests, request[r].state = "queued", NEW s \in Slots, NEW p,
           NEW rec \in Rec, NEW e \in Entry, NEW held,
           request' = [request EXCEPT ![r] = rec], cache_prompts' = [cache_prompts EXCEPT ![s] = e],
           e.pos = 0, Held(rec) = held, p.used \in Int, p.pos \in Nat,
           llm_kv_cache_inactive' = llm_kv_cache_inactive - cache_prompts[s].pos,
           llm_kv_cache_used' = p.used - p.pos + held, skewed' = (skewed \/ p.skewed), p.skewed \in BOOLEAN,
           ~ p.skewed => p.used - p.pos = llm_kv_cache_used - cache_prompts[s].pos
    PROVE  Counted'
  <1> DEFINE x == cache_prompts[s].pos
             b == Held(request[r])
             d == p.used - p.pos
  <1>1. x \in Int /\ d \in Int
    BY DEF Inv, Types, Entry
  <1>2. b = 0
    BY DEF Held
  <1>3. llm_kv_cache_inactive \in Int /\ llm_kv_cache_used \in Int /\ skewed \in BOOLEAN /\ held \in Int
    <2>1. \A one \in Rec : Held(one) \in Int
      BY DEF Rec, Held
    <2> QED
      BY <2>1 DEF Inv, Types
  <1>4. ~ skewed' => ~ skewed /\ ~ p.skewed
    BY <1>3
  <1>5. llm_kv_cache_used' = d + held /\ (~ p.skewed => d = llm_kv_cache_used - x)
    OBVIOUS
  <1> HIDE DEF x, b, d
  <1>6. llm_kv_cache_inactive' = llm_kv_cache_inactive + e.pos - x
    BY <1>1, <1>3 DEF x
  <1>7. ~ skewed' => ~ skewed /\ llm_kv_cache_used' = llm_kv_cache_used + (e.pos + Held(rec)) - (x + b)
    BY <1>1, <1>2, <1>3, <1>4, <1>5
  <1> QED
    BY <1>6, <1>7, CountStep DEF x, b

LEMMA AbortedKeeps ==
    ASSUME Inv, NEW r \in Requests, NEW s \in Slots, ~ cache_prompts[s].used, NEW p, NEW held \in Seq(Int),
           Aborted(r, s, p, held), ~ crashed, ~ crashed', request[r].state = "queued", p.used \in Int, p.pos \in Nat,
           skewed' \in BOOLEAN, crashed' \in BOOLEAN, llm_kv_cache_inactive' \in Int, UNCHANGED <<setup, media_vars, uses>>
    PROVE  /\ Inv'
           /\ \E rec \in Rec, e \in Entry :
                  /\ request' = [request EXCEPT ![r] = rec] /\ cache_prompts' = [cache_prompts EXCEPT ![s] = e]
                  /\ e.pos = 0 /\ Held(rec) = 0 /\ llm_kv_cache_used' = p.used - p.pos + 0
                  /\ rec.state = "failed" /\ memory' = [memory EXCEPT ![s] = held]
  <1> DEFINE old == request[r]
             new == [old EXCEPT !.state = "failed"]
             left == EmptyEntry
  <1>1. /\ request' = [request EXCEPT ![r] = new] /\ memory' = [memory EXCEPT ![s] = held]
        /\ cache_prompts' = [cache_prompts EXCEPT ![s] = left] /\ llm_kv_cache_used' = p.used - p.pos
    BY DEF Aborted
  <1>2. old \in Rec
    BY DEF Inv, Types
  <1> HIDE DEF old
  <1>3. new \in Rec /\ new.state = "failed"
    BY <1>2 DEF Rec, States
  <1>4. left \in Entry /\ EntryWell(left, held) /\ left.pos = 0
    BY EmptyWell
  <1> HIDE DEF new, left
  <1>5. \A q \in Requests \ {r} : request[q].state = "running" => request[q].seq # s
    BY DEF Inv, SlotsWell, RequestWell
  <1>6. llm_kv_cache_used' \in Int
    BY <1>1
  <1>7. Inv'
    BY <1>1, <1>3, <1>4, <1>5, <1>6, SlotStep
  <1>8. Held(new) = 0 /\ llm_kv_cache_used' = p.used - p.pos + 0
    BY <1>1, <1>3 DEF Held
  <1> QED
    BY <1>1, <1>3, <1>4, <1>7, <1>8

(* What a request is when its prompt was prefilled.                        *)
Answers(rec, old, s, p, cleanly, token) ==
    /\ rec \in Rec /\ rec.state = "running" /\ rec.seq = s /\ rec.pos = p.pos
    /\ rec.processed_tokens = Append(Tokens(old.chunks), token)
    /\ rec.history = Append(Contents(old.chunks), token)
    /\ rec.processed_tokens # <<>> /\ rec.history # <<>> /\ rec.chunks = <<>> /\ rec.asked = old.asked
    /\ rec.clean <=> cleanly

AnsweredBy(old, s, p, cleanly, token) ==
    Sampled([old EXCEPT !.state = "running", !.seq = s, !.pos = p.pos, !.chunks = <<>>,
                 !.processed_tokens = Tokens(old.chunks), !.history = Contents(old.chunks), !.clean = cleanly], token)

LEMMA AnswersOf ==
    ASSUME NEW old \in Rec, NEW s \in Slots, NEW p, p.pos \in Nat, NEW cleanly \in BOOLEAN, NEW token \in Nat
    PROVE  Answers(AnsweredBy(old, s, p, cleanly, token), old, s, p, cleanly, token)
  <1> DEFINE chunks == old.chunks
             t == Tokens(chunks)
             c == Contents(chunks)
             n == p.pos
             none == <<>>
             more == [old EXCEPT !.state = "running", !.seq = s, !.pos = n, !.chunks = none,
                          !.processed_tokens = t, !.history = c, !.clean = cleanly]
             new == Sampled(more, token)
  <1>1. chunks \in Seq(Chunk)
    BY DEF Rec
  <1>2. t \in Seq(Int) /\ c \in Seq(Int)
    <2> HIDE DEF chunks
    <2> QED
      BY <1>1, BothOf DEF Both
  <1>3. none \in Seq(Chunk) /\ n \in Nat /\ s \in Slots \cup {0}
    OBVIOUS
  <1> HIDE DEF t, c, n, none
  <1>4. /\ more \in Rec /\ more.state = "running" /\ more.seq = s /\ more.pos = n /\ more.chunks = none
        /\ more.processed_tokens = t /\ more.history = c /\ more.clean = cleanly /\ more.asked = old.asked
    BY <1>2, <1>3 DEF Rec, States
  <1> HIDE DEF more
  <1>5. /\ new \in Rec /\ new.state = more.state /\ new.seq = more.seq /\ new.pos = more.pos
        /\ new.clean = more.clean /\ new.processed_tokens = Append(more.processed_tokens, token)
        /\ new.history = Append(more.history, token) /\ new.history # <<>> /\ new.processed_tokens # <<>>
    BY <1>4, SampledOf
  <1>6. new.chunks = more.chunks /\ new.asked = more.asked
    BY <1>4 DEF Sampled, Rec
  <1> HIDE DEF new
  <1>7. Answers(new, old, s, p, cleanly, token)
    BY <1>4, <1>5, <1>6 DEF Answers, n, t, c, none
  <1> QED
    BY <1>7 DEF AnsweredBy, new, more, t, c, n, none

LEMMA PrefilledKeeps ==
    ASSUME Inv, NEW r \in Requests, NEW s \in Slots, ~ cache_prompts[s].used, NEW hit, NEW p,
           Prefilled(r, s, hit, p), ~ crashed, request[r].state = "queued",
           Outcome(request[r].chunks, Start(s, hit), p), p.n_prefilled >= NumTokens(request[r].chunks),
           crashed' = (p.batch = <<>>),
           skewed' \in BOOLEAN, llm_kv_cache_inactive' \in Int, UNCHANGED <<setup, media_vars, uses>>
    PROVE  /\ Inv'
           /\ \E rec \in Rec, e \in Entry :
                  /\ request' = [request EXCEPT ![r] = rec] /\ cache_prompts' = [cache_prompts EXCEPT ![s] = e]
                  /\ e.pos = 0 /\ Held(rec) = p.pos /\ llm_kv_cache_used' = p.used - p.pos + p.pos
                  /\ memory' = [memory EXCEPT ![s] = p.memory \o p.batch]
                  /\ e.used /\ e.tokens = cache_prompts[s].tokens
                  /\ \E token \in Generated :
                         Answers(rec, request[r], s, p, CanCut(hit, request[r].chunks)
                                     /\ (hit.cached > 0 => cache_prompts[s].clean), token)
  <1> DEFINE old == request[r]
             was == cache_prompts[s]
             cleanly == CanCut(hit, old.chunks) /\ (hit.cached > 0 => was.clean)
             held == p.memory \o p.batch
             e == [was EXCEPT !.used = TRUE, !.pos = 0]
             rec(token) == AnsweredBy(old, s, p, cleanly, token)
  <1>1. PICK token \in Generated : request' = [request EXCEPT ![r] = rec(token)]
    BY DEF Prefilled, AnsweredBy
  <1>2. /\ cache_prompts' = [cache_prompts EXCEPT ![s].used = TRUE, ![s].pos = 0]
        /\ memory' = [memory EXCEPT ![s] = held] /\ llm_kv_cache_used' = p.used
    BY DEF Prefilled
  <1>3. old \in Rec /\ was \in Entry /\ token \in Nat /\ cleanly \in BOOLEAN
    BY PrefillAssumption DEF Inv, Types
  <1>4. p.pos \in Nat /\ p.used \in Int /\ p.memory \in Seq(Int) /\ p.batch \in Seq(Int) /\ Len(held) = p.pos
        /\ (p.batch # <<>> => p.pos >= 1)
    BY DEF Outcome
  <1>5. held \in Seq(Int)
    BY <1>4, ConcatTyped
  <1>6. e \in Entry /\ e.used /\ e.pos = 0 /\ e.tokens = was.tokens
    <2> HIDE DEF was
    <2> QED
      BY <1>3 DEF Entry
  <1>7. cache_prompts' = [cache_prompts EXCEPT ![s] = e]
    BY <1>2, <1>3 DEF Inv, Types, Entry
  <1> HIDE DEF cleanly, old, e, held
  <1>8. Answers(rec(token), old, s, p, cleanly, token)
    BY <1>3, <1>4, AnswersOf
  <1> DEFINE new == rec(token)
  <1>9. /\ new \in Rec /\ new.state = "running" /\ new.seq = s /\ new.pos = p.pos
        /\ new.history # <<>> /\ new.processed_tokens # <<>>
    BY <1>8 DEF Answers
  <1>10. request' = [request EXCEPT ![r] = new]
    BY <1>1
  <1> HIDE DEF new, rec
  <1>11. \A q \in Requests \ {r} : request[q].state = "running" => request[q].seq # s
    BY DEF Inv, SlotsWell, RequestWell
  <1>12. llm_kv_cache_used' \in Int /\ crashed' \in BOOLEAN
    BY <1>2, <1>4
  <1>13. EntryWell(e, held)
    BY <1>6 DEF EntryWell
  <1>14. Len(held) = new.pos /\ (~ crashed' => new.pos >= 1)
    BY <1>4, <1>9
  <1>15. memory' = [memory EXCEPT ![s] = held]
    BY <1>2
  <1>16. Inv'
    BY <1>5, <1>6, <1>7, <1>9, <1>10, <1>11, <1>12, <1>13, <1>14, <1>15, SlotStep
  <1>17. Held(new) = p.pos /\ llm_kv_cache_used' = p.used - p.pos + p.pos
    BY <1>2, <1>4, <1>9 DEF Held
  <1>18. Answers(new, old, s, p, cleanly, token)
    BY <1>8 DEF new
  <1> QED
    BY <1>6, <1>7, <1>9, <1>10, <1>15, <1>16, <1>17, <1>18 DEF held, old, cleanly

LEMMA PrefillKeeps ==
    ASSUME Inv, Counted, NEW r \in Requests, Prefill(r)
    PROVE  Inv' /\ Counted'
  <1> DEFINE chunks == request[r].chunks
             tokens == Tokens(chunks)
  <1>1. request[r].state = "queued" /\ ~ crashed /\ Idle # {} /\ UNCHANGED <<setup, media_vars, uses>>
    BY DEF Prefill
  <1>2. PICK s \in Slots, hit \in [cached : Nat, pos : Nat], bad \in 0 .. Len(chunks) : \E p :
            /\ s = Best(tokens) /\ hit = Hit(s, tokens) /\ p = Chunked(r, s, hit, bad)
            /\ Outcome(chunks, Start(s, hit), p)
            /\ ~ p.skewed => p.used - p.pos = llm_kv_cache_used - cache_prompts[s].pos
            /\ llm_kv_cache_inactive' = llm_kv_cache_inactive - cache_prompts[s].pos
            /\ skewed' = (skewed \/ p.skewed)
            /\ crashed' = (p.n_prefilled >= NumTokens(chunks) /\ p.batch = <<>>)
            /\ \/ \E held \in Seq(Int) : Aborted(r, s, p, held) /\ ~ crashed'
               \/ p.n_prefilled >= NumTokens(chunks) /\ Prefilled(r, s, hit, p)
    BY PrefillOf
  <1>3. PICK p :
            /\ Outcome(chunks, Start(s, hit), p)
            /\ ~ p.skewed => p.used - p.pos = llm_kv_cache_used - cache_prompts[s].pos
            /\ llm_kv_cache_inactive' = llm_kv_cache_inactive - cache_prompts[s].pos
            /\ skewed' = (skewed \/ p.skewed)
            /\ crashed' = (p.n_prefilled >= NumTokens(chunks) /\ p.batch = <<>>)
            /\ \/ \E held \in Seq(Int) : Aborted(r, s, p, held) /\ ~ crashed'
               \/ p.n_prefilled >= NumTokens(chunks) /\ Prefilled(r, s, hit, p)
    BY <1>2
  <1>4. ~ cache_prompts[s].used
    <2>1. s = Best(tokens)
      BY <1>2
    <2> QED
      BY <1>1, <2>1, PrefillBegins
  <1>5. p.used \in Int /\ p.pos \in Nat /\ p.skewed \in BOOLEAN
    BY <1>3 DEF Outcome
  <1>6. skewed' \in BOOLEAN /\ crashed' \in BOOLEAN
    BY <1>3, Zenon
  <1>7. llm_kv_cache_inactive' \in Int
    BY <1>3 DEF Inv, Types, Entry
  <1> HIDE DEF chunks, tokens
  <1>8. CASE \E held \in Seq(Int) : Aborted(r, s, p, held) /\ ~ crashed'
    <2>1. PICK held \in Seq(Int) : Aborted(r, s, p, held) /\ ~ crashed'
      BY <1>8
    <2>2. /\ Inv'
          /\ \E rec \in Rec, e \in Entry :
                 /\ request' = [request EXCEPT ![r] = rec] /\ cache_prompts' = [cache_prompts EXCEPT ![s] = e]
                 /\ e.pos = 0 /\ Held(rec) = 0 /\ llm_kv_cache_used' = p.used - p.pos + 0
      BY <1>1, <1>4, <1>5, <1>6, <1>7, <2>1, AbortedKeeps, SMTT(40)
    <2>3. PICK rec \in Rec, e \in Entry :
              /\ request' = [request EXCEPT ![r] = rec] /\ cache_prompts' = [cache_prompts EXCEPT ![s] = e]
              /\ e.pos = 0 /\ Held(rec) = 0 /\ llm_kv_cache_used' = p.used - p.pos + 0
      BY <2>2
    <2>4. Counted'
      BY <1>1, <1>3, <1>5, <2>3, PrefillCounts
    <2> QED
      BY <2>2, <2>4
  <1>9. CASE p.n_prefilled >= NumTokens(chunks) /\ Prefilled(r, s, hit, p)
    <2>1. crashed' = (p.batch = <<>>)
      BY <1>3, <1>9
    <2>2. /\ Outcome(request[r].chunks, Start(s, hit), p) /\ p.n_prefilled >= NumTokens(request[r].chunks)
          /\ Prefilled(r, s, hit, p)
      BY <1>3, <1>9 DEF chunks
    <2> DEFINE cleanly == CanCut(hit, request[r].chunks) /\ (hit.cached > 0 => cache_prompts[s].clean)
    <2>3. /\ Inv'
          /\ \E rec \in Rec, e \in Entry :
                 /\ request' = [request EXCEPT ![r] = rec] /\ cache_prompts' = [cache_prompts EXCEPT ![s] = e]
                 /\ e.pos = 0 /\ Held(rec) = p.pos /\ llm_kv_cache_used' = p.used - p.pos + p.pos
                 /\ memory' = [memory EXCEPT ![s] = p.memory \o p.batch]
                 /\ e.used /\ e.tokens = cache_prompts[s].tokens
                 /\ \E token \in Generated : Answers(rec, request[r], s, p, cleanly, token)
      BY <1>1, <1>4, <1>6, <1>7, <2>1, <2>2, PrefilledKeeps
    <2> HIDE DEF cleanly
    <2>4. PICK rec \in Rec, e \in Entry :
              /\ request' = [request EXCEPT ![r] = rec] /\ cache_prompts' = [cache_prompts EXCEPT ![s] = e]
              /\ e.pos = 0 /\ Held(rec) = p.pos /\ llm_kv_cache_used' = p.used - p.pos + p.pos
      BY <2>3
    <2>5. Counted'
      BY <1>1, <1>3, <1>5, <2>4, PrefillCounts
    <2> QED
      BY <2>3, <2>5
  <1> QED
    BY <1>3, <1>8, <1>9

LEMMA HandlerKeeps ==
    ASSUME Inv, Counted, NEW r \in Requests, handler(r)
    PROVE  Inv' /\ Counted'
  <1>1. Inv' /\ Handled(r, request, request')
    BY ReceiveKeeps, AddTextKeeps, AddMediaKeeps, EnqueueKeeps DEF handler
  <1>2. UNCHANGED kv_vars
    BY DEF handler, Receive, AddText, AddMedia, Enqueue
  <1>3. Counted'
    <2>1. PICK rec \in Rec : rec.state # "running" /\ request' = [request EXCEPT ![r] = rec]
      BY <1>1 DEF Handled
    <2>2. request[r].state # "running"
      BY <1>1 DEF Handled
    <2> QED
      BY <1>2, <2>1, <2>2, HandlerCounts
  <1> QED
    BY <1>1, <1>3

LEMMA InitCounted == Init => Counted
  <1> SUFFICES ASSUME Init PROVE Counted
    OBVIOUS
  <1> DEFINE f == [s \in Slots |-> cache_prompts[s].pos]
             g == [r \in Requests |-> request[r].pos]
             run == {r \in Requests : request[r].state = "running"}
  <1>1. \A s \in Slots : f[s] = 0
    BY DEF Init, EmptyEntry
  <1>2. run = {}
    BY DEF Init, NewRequest
  <1>3. Idles(cache_prompts) = 0
    <2>1. IsFiniteSet(Slots)
      BY PrefillAssumption
    <2>2. Idles(cache_prompts) = SumFunctionOnSet(f, Slots)
      BY DEF Idles
    <2> HIDE DEF f
    <2> QED
      BY <1>1, <2>1, <2>2, SumZero
  <1>4. Runs(request) = 0
    <2>1. Runs(request) = SumFunctionOnSet(g, run)
      BY DEF Runs
    <2> HIDE DEF g, run
    <2> QED
      BY <1>2, <2>1, SumEmpty
  <1> QED
    BY <1>3, <1>4 DEF Init, Counted

LEMMA NextKeeps ==
    ASSUME Inv, Counted, [Next]_vars
    PROVE  Inv' /\ Counted'
  <1>1. CASE Next
    <2>1. PICK r \in setup.requests : handler(r) \/ reconcile(r)
      BY <1>1 DEF Next
    <2>2. r \in Requests
      BY <2>1, PrefillAssumption DEF Inv, Types
    <2>3. CASE handler(r)
      BY <2>2, <2>3, HandlerKeeps
    <2>4. CASE reconcile(r)
      BY <2>2, <2>4, PrefillKeeps, DecodeKeeps, RetireKeeps, DecodeFailsKeeps DEF reconcile
    <2> QED
      BY <2>1, <2>3, <2>4
  <1>2. CASE UNCHANGED vars
    BY <1>2 DEF vars, kv_vars, media_vars, Inv, Types, Counted
  <1> QED
    BY <1>1, <1>2

(***************************************************************************)
(* Whatever the messages are and whichever chunk fails, no two requests    *)
(* run in one sequence, a running one holds an entry of the prompt cache,  *)
(* the memory is as long as its position says, and what the projection     *)
(* cache holds was projected for this model.                               *)
(***************************************************************************)
THEOREM InvHolds == Spec => [](Inv /\ Counted)
  <1>1. Init => Inv /\ Counted
    BY InitInv, InitCounted
  <1>2. Inv /\ Counted /\ [Next]_vars => (Inv /\ Counted)'
    BY NextKeeps
  <1> QED
    BY <1>1, <1>2, PTL DEF Spec

(***************************************************************************)
(* The counters are what the running requests and the idle entries hold,   *)
(* whichever chunk fails and whatever was cached.                          *)
(***************************************************************************)
THEOREM CountersAreExact == Spec => []KvAccounted
  <1>1. Inv /\ Counted => KvAccounted
    BY CountedIs
  <1> QED
    BY <1>1, InvHolds, PTL

(***************************************************************************)
(* States, positions and counters are what they are taken for: positions   *)
(* and what is inactive never fall below zero, and the cache of            *)
(* projections never holds more than it may.                               *)
(***************************************************************************)
THEOREM TypesHold == Spec => []TypeOK
  <1>1. Inv /\ Counted => TypeOK
    <2> SUFFICES ASSUME Inv, Counted PROVE TypeOK
      OBVIOUS
    <2>1. \A r \in Requests : request[r] \in Rec
      BY DEF Inv, Types
    <2>2. \A s \in Slots : cache_prompts[s] \in Entry
      BY DEF Inv, Types
    <2>3. Idles(cache_prompts) \in Nat
      <3> DEFINE f == [s \in Slots |-> cache_prompts[s].pos]
      <3>1. (\A s \in Slots : f[s] \in Nat) /\ IsFiniteSet(Slots)
        BY <2>2, PrefillAssumption DEF Entry
      <3>2. Idles(cache_prompts) = SumFunctionOnSet(f, Slots)
        BY DEF Idles
      <3> HIDE DEF f
      <3> QED
        BY <3>1, <3>2, SumIsNat
    <2>4. \A r \in Requests : request[r].state \in States /\ request[r].seq \in Slots \cup {0} /\ request[r].pos \in Nat
      BY <2>1 DEF Rec
    <2>5. \A s \in Slots : cache_prompts[s].used \in BOOLEAN /\ cache_prompts[s].pos \in Nat
      BY <2>2 DEF Entry
    <2> QED
      BY <2>3, <2>4, <2>5 DEF TypeOK, Inv, Types, Counted, MediaTold, States
  <1> QED
    BY <1>1, InvHolds, PTL

-----------------------------------------------------------------------------
(* What prompts look like when they are queued.                            *)

LEMMA TailEnds ==
    ASSUME NEW S, NEW s \in Seq(S), s # <<>>
    PROVE  /\ Tail(s) = <<>> => Head(s) = Last(s)
           /\ Tail(s) # <<>> => Last(Tail(s)) = Last(s)
  <1> DEFINE n == Len(s)
             t == Tail(s)
  <1>1. n \in Nat \ {0} /\ t \in Seq(S) /\ Len(t) = n - 1 /\ \A i \in 1 .. n - 1 : t[i] = s[i + 1]
    OBVIOUS
  <1>2. Head(s) = s[1] /\ Last(s) = s[n] /\ Last(t) = t[Len(t)]
    BY DEF Last
  <1>3. t # <<>> <=> Len(t) # 0
    BY <1>1, SMTT(40)
  <1> HIDE DEF n, t
  <1>4. ASSUME t # <<>> PROVE Last(t) = Last(s)
    <2>1. n - 1 \in 1 .. n - 1 /\ n - 1 + 1 = n
      BY <1>1, <1>3, <1>4
    <2> QED
      BY <1>1, <1>2, <2>1
  <1>5. ASSUME t = <<>> PROVE Head(s) = Last(s)
    <2>1. n = 1
      BY <1>1, <1>3, <1>5
    <2> QED
      BY <1>2, <2>1
  <1> QED
    BY <1>4, <1>5 DEF t

LEMMA AppendEnds ==
    ASSUME NEW S, NEW s \in Seq(S), NEW x \in S
    PROVE  Last(Append(s, x)) = x
  <1>1. Len(Append(s, x)) = Len(s) + 1 /\ Append(s, x)[Len(s) + 1] = x
    OBVIOUS
  <1> QED
    BY <1>1 DEF Last

LEMMA ConcatParts ==
    ASSUME NEW S, NEW a \in Seq(S), NEW b \in Seq(S)
    PROVE  SubSeq(a \o b, 1, Len(a)) = a /\ SubSeq(a \o b, Len(a) + 1, Len(a \o b)) = b
  <1> DEFINE m == Len(a)
             n == Len(b)
             x == a \o b
             first == SubSeq(x, 1, m)
             rest == SubSeq(x, m + 1, m + n)
  <1>1. /\ m \in Nat /\ n \in Nat /\ x \in Seq(S) /\ Len(x) = m + n
        /\ \A i \in 1 .. m + n : x[i] = IF i <= m THEN a[i] ELSE b[i - m]
    BY ConcatProperties, LenProperties
  <1>2. \A i \in 1 .. m + n : x[i] \in S
    BY <1>1, ElementOfSeq
  <1> HIDE DEF x, m, n
  <1>3. first \in Seq(S) /\ Len(first) = m /\ \A i \in 1 .. m : first[i] = x[i]
    <2>1. \A i \in 1 .. m : x[i] \in S
      BY <1>1, <1>2
    <2>2. /\ first \in Seq(S) /\ Len(first) = IF 1 <= m THEN m - 1 + 1 ELSE 0
          /\ \A i \in 1 .. m - 1 + 1 : first[i] = x[1 + i - 1]
      BY <1>1, <2>1, SubSeqProperties
    <2> HIDE DEF first
    <2> QED
      BY <1>1, <2>2
  <1>4. rest \in Seq(S) /\ Len(rest) = n /\ \A i \in 1 .. n : rest[i] = x[m + i]
    <2> DEFINE k == m + 1
               l == m + n
    <2>1. k \in Int /\ l \in Int /\ \A i \in k .. l : x[i] \in S
      BY <1>1, <1>2
    <2>2. /\ rest \in Seq(S) /\ Len(rest) = IF k <= l THEN l - k + 1 ELSE 0
          /\ \A i \in 1 .. l - k + 1 : rest[i] = x[k + i - 1]
      <3> HIDE DEF k, l
      <3> QED
        BY <2>1, SubSeqProperties DEF k, l
    <2> HIDE DEF rest
    <2>3. l - k + 1 = n /\ (k <= l <=> n >= 1) /\ \A i \in 1 .. n : k + i - 1 = m + i
      BY <1>1
    <2> QED
      BY <1>1, <2>2, <2>3
  <1> HIDE DEF first, rest
  <1>5. first = a
    <2>1. \A i \in 1 .. m : first[i] = a[i]
      BY <1>1, <1>3
    <2> QED
      BY <1>3, <2>1, SeqEqual DEF m
  <1>6. rest = b
    <2>1. \A i \in 1 .. n : rest[i] = b[i]
      <3> SUFFICES ASSUME NEW i \in 1 .. n PROVE rest[i] = b[i]
        OBVIOUS
      <3>1. m + i \in 1 .. m + n /\ ~ (m + i <= m) /\ m + i - m = i
        BY <1>1
      <3> QED
        BY <1>1, <1>4, <3>1
    <2> QED
      BY <1>4, <2>1, SeqEqual DEF n
  <1> QED
    BY <1>1, <1>5, <1>6 DEF first, rest, x, m

LEMMA SuffixOf ==
    ASSUME NEW S, NEW s \in Seq(S), NEW k \in Nat \ {0}
    PROVE  IsSuffix(SubSeq(s, k, Len(s)), s)
  <1> DEFINE n == Len(s)
             t == SubSeq(s, k, n)
             m == Len(t)
             a == Reverse(t)
             b == Reverse(s)
             c == SubSeq(a, 1, Len(a))
             d == SubSeq(b, 1, Len(a))
  <1>1. n \in Nat /\ t \in Seq(S) /\ m = IF k <= n THEN n - k + 1 ELSE 0
    OBVIOUS
  <1>2. \A i \in 1 .. m : t[i] = s[k + i - 1]
    OBVIOUS
  <1>3. m \in Nat /\ m <= n
    BY <1>1
  <1>4. /\ DOMAIN a = 1 .. m /\ \A i \in 1 .. m : a[i] = t[m - i + 1]
        /\ DOMAIN b = 1 .. n /\ \A i \in 1 .. n : b[i] = s[n - i + 1]
    BY DEF Reverse
  <1>5. a \in Seq(S) /\ b \in Seq(S) /\ Len(a) = m /\ Len(b) = n
    <2>1. \A i \in 1 .. m : t[m - i + 1] \in S
      <3>1. \A j \in 1 .. m : t[j] \in S
        BY <1>1
      <3>2. \A i \in 1 .. m : m - i + 1 \in 1 .. m
        BY <1>3
      <3> HIDE DEF t, m
      <3> QED
        BY <3>1, <3>2
    <2>2. \A i \in 1 .. n : s[n - i + 1] \in S
      <3>1. \A i \in 1 .. n : n - i + 1 \in 1 .. n
        BY <1>1
      <3> QED
        BY <3>1
    <2>3. a = [i \in 1 .. m |-> t[m - i + 1]] /\ b = [i \in 1 .. n |-> s[n - i + 1]]
      BY DEF Reverse
    <2> HIDE DEF a, b, t, m, n
    <2> QED
      BY <1>1, <1>3, <2>1, <2>2, <2>3
  <1>6. \A i \in 1 .. m : a[i] = b[i]
    <2> SUFFICES ASSUME NEW i \in 1 .. m PROVE a[i] = b[i]
      OBVIOUS
    <2>1. m = n - k + 1
      BY <1>1
    <2> HIDE DEF a, b, t, m, n
    <2>2. i \in 1 .. n /\ m - i + 1 \in 1 .. m /\ k + (m - i + 1) - 1 = n - i + 1
      BY <1>1, <1>3, <2>1
    <2> QED
      BY <1>2, <1>4, <2>2
  <1> HIDE DEF a, b, t, m, n
  <1>7. c = d
    <2>1. Len(a) <= Len(b)
      BY <1>3, <1>5
    <2>2. /\ c \in Seq(S) /\ d \in Seq(S) /\ Len(c) = m /\ Len(d) = m
          /\ \A i \in 1 .. m : c[i] = a[i] /\ d[i] = b[i]
      BY <1>1, <1>3, <1>5, <2>1
    <2> HIDE DEF c, d
    <2> QED
      BY <1>3, <1>6, <2>2
  <1>8. IsPrefix(a, b)
    BY <1>1, <1>3, <1>5, <1>7 DEF IsPrefix, c, d
  <1> QED
    BY <1>8 DEF IsSuffix, a, b, t, n

Texts(message) == FlattenSeq([k \in DOMAIN message |-> message[k].text])

LEMMA PlainSays ==
    ASSUME NEW message, IsPlain(message)
    PROVE  Says(message) = Texts(message)
  <1>1. [k \in DOMAIN message |-> IF message[k].media = 0 THEN message[k].text ELSE MediumSays(message[k].media)]
        = [k \in DOMAIN message |-> message[k].text]
    BY DEF IsPlain
  <1> QED
    BY <1>1 DEF Says, Texts

(* A prompt of what was asked has its room and its ends.                   *)
Fits(asked, prompt) ==
    /\ Len(prompt) < completion_context_limit
    /\ IsPlain(asked) =>
           LET all == <<Bos>> \o Texts(asked)
           IN  /\ SubSeq(prompt, 1, NKeep) = SubSeq(all, 1, NKeep)
               /\ IsSuffix(SubSeq(prompt, NKeep + 1, Len(prompt)), all)
               /\ Len(prompt) < Len(all) => 2 * Len(prompt) >= SlotSize + NKeep - 1

LEMMA PlainFits ==
    ASSUME NEW texts \in Seq(Nat), PlainPrompt(texts) # <<>>
    PROVE  LET prompt == PlainPrompt(texts)
               all    == <<Bos>> \o texts
           IN  /\ Len(prompt) < completion_context_limit
               /\ SubSeq(prompt, 1, NKeep) = SubSeq(all, 1, NKeep)
               /\ IsSuffix(SubSeq(prompt, NKeep + 1, Len(prompt)), all)
               /\ Len(prompt) < Len(all) => 2 * Len(prompt) >= SlotSize + NKeep - 1
  <1> DEFINE prompt == PlainPrompt(texts)
             all == <<Bos>> \o texts
             n == Len(all)
  <1>1. all \in Seq(Nat) /\ n \in Nat
    BY DEF Bos
  <1>2. tokenize(texts, TRUE).tokens = all
    BY DEF tokenize, text_chunk
  <1>3. /\ NKeep \in Nat /\ SlotSize \in Nat /\ NKeep + 1 \in Nat \ {0} /\ completion_context_limit \in Nat
        /\ (~ Dynamic => completion_context_limit = SlotSize)
    BY PromptAssumption DEF completion_context_limit
  <1> HIDE DEF all
  <1>4. CASE ~ TooLong(n)
    <2>1. prompt = all
      BY <1>2, <1>4 DEF PlainPrompt
    <2>2. n < completion_context_limit
      BY <1>1, <1>3, <1>4 DEF TooLong
    <2>3. IsSuffix(SubSeq(all, NKeep + 1, n), all)
      BY <1>1, <1>3, SuffixOf
    <2> HIDE DEF prompt, n
    <2>4. ~ (n < n)
      BY <1>1
    <2> QED
      BY <2>1, <2>2, <2>3, <2>4 DEF all, prompt, n
  <1>5. CASE TooLong(n)
    <2>1. prompt = Trimmed(all) /\ ~ Dynamic
      BY <1>2, <1>5 DEF PlainPrompt
    <2>2. PICK cut \in Nat :
              /\ cut >= 1 /\ NKeep + cut <= n
              /\ Trimmed(all) = SubSeq(all, 1, NKeep) \o SubSeq(all, NKeep + cut + 1, n)
              /\ n - cut < SlotSize /\ 2 * (n - cut) >= SlotSize + NKeep - 1
      BY <1>1, <1>5, <2>1, TrimmedOf
    <2> DEFINE a == SubSeq(all, 1, NKeep)
               b == SubSeq(all, NKeep + cut + 1, n)
               x == a \o b
               rest == SubSeq(x, NKeep + 1, Len(x))
    <2>3. a \in Seq(Nat) /\ Len(a) = NKeep /\ b \in Seq(Nat) /\ Len(b) = n - NKeep - cut /\ n - NKeep - cut \in Nat
      <3> DEFINE from == NKeep + cut + 1
      <3>1. /\ from \in Nat /\ from >= 1 /\ from <= n + 1 /\ n - from + 1 = n - NKeep - cut
            /\ n - NKeep - cut \in Nat /\ NKeep <= n
        BY <1>1, <1>3, <2>2
      <3>2. a \in Seq(Nat) /\ Len(a) = NKeep
        BY <1>1, <1>3, <3>1
      <3> HIDE DEF a, from
      <3>3. SubSeq(all, from, n) \in Seq(Nat) /\ Len(SubSeq(all, from, n)) = n - from + 1
        BY <1>1, <3>1
      <3>4. b = SubSeq(all, from, n)
        BY DEF from
      <3> HIDE DEF b
      <3> QED
        BY <3>1, <3>2, <3>3, <3>4
    <2> HIDE DEF a, b
    <2>4. x \in Seq(Nat) /\ Len(x) = n - cut /\ SubSeq(x, 1, NKeep) = a /\ rest = b
      <3>1. x \in Seq(Nat) /\ Len(x) = Len(a) + Len(b)
        BY <2>3
      <3>2. Len(a) + Len(b) = n - cut
        BY <1>1, <1>3, <2>2, <2>3
      <3>3. SubSeq(x, 1, Len(a)) = a /\ SubSeq(x, Len(a) + 1, Len(x)) = b
        BY <2>3, ConcatParts
      <3> QED
        BY <2>3, <3>1, <3>2, <3>3
    <2>5. IsSuffix(b, all)
      <3>1. NKeep + cut + 1 \in Nat \ {0}
        BY <1>3
      <3> QED
        BY <1>1, <3>1, SuffixOf DEF b
    <2> HIDE DEF x, n
    <2>6. prompt = x
      BY <2>1, <2>2 DEF x, a, b
    <2>7. Len(x) < completion_context_limit /\ 2 * Len(x) >= SlotSize + NKeep - 1
      BY <1>3, <2>1, <2>2, <2>4
    <2>8. SubSeq(x, 1, NKeep) = SubSeq(all, 1, NKeep)
      BY <2>4 DEF a
    <2>9. IsSuffix(rest, all)
      BY <2>4, <2>5
    <2> HIDE DEF prompt
    <2>10. /\ Len(prompt) < completion_context_limit
           /\ SubSeq(prompt, 1, NKeep) = SubSeq(all, 1, NKeep)
           /\ IsSuffix(SubSeq(prompt, NKeep + 1, Len(prompt)), all)
           /\ Len(prompt) < Len(all) => 2 * Len(prompt) >= SlotSize + NKeep - 1
      BY <2>6, <2>7, <2>8, <2>9
    <2> QED
      BY <2>10 DEF prompt, all
  <1> QED
    BY <1>4, <1>5

(* What the reconcile thread makes of a request.                           *)
Served(r, before, after) ==
    \E rec \in Rec : /\ after = [before EXCEPT ![r] = rec] /\ rec.state \in {"running", "failed", "answered"}
                     /\ rec.chunks = <<>> \/ rec.chunks = before[r].chunks

LEMMA ReconcileServes ==
    ASSUME Inv, NEW r \in Requests, reconcile(r)
    PROVE  Served(r, request, request') /\ UNCHANGED <<setup, media_vars, uses>>
  <1> DEFINE old == request[r]
  <1>1. old \in Rec
    BY DEF Inv, Types
  <1>2. \A state \in {"failed", "answered"} :
            LET rec == [old EXCEPT !.state = state]
            IN  rec \in Rec /\ rec.state = state /\ rec.chunks = old.chunks
    <2> HIDE DEF old
    <2> QED
      BY <1>1 DEF Rec, States
  <1>3. ASSUME NEW s, NEW p, NEW held, Aborted(r, s, p, held) PROVE Served(r, request, request')
    <2> DEFINE rec == [old EXCEPT !.state = "failed"]
    <2>1. request' = [request EXCEPT ![r] = rec]
      BY <1>3 DEF Aborted
    <2>2. rec \in Rec /\ rec.state = "failed" /\ rec.chunks = old.chunks
      BY <1>2
    <2> HIDE DEF rec
    <2> QED
      BY <2>1, <2>2 DEF Served
  <1>4. CASE Prefill(r)
    <2>1. PICK s \in Slots, hit \in [cached : Nat, pos : Nat], bad \in 0 .. Len(old.chunks) : \E p :
              /\ Outcome(old.chunks, Start(s, hit), p)
              /\ \/ \E held \in Seq(Int) : Aborted(r, s, p, held)
                 \/ Prefilled(r, s, hit, p)
      BY <1>4, PrefillOf
    <2>2. PICK p :
              /\ Outcome(old.chunks, Start(s, hit), p)
              /\ \/ \E held \in Seq(Int) : Aborted(r, s, p, held)
                 \/ Prefilled(r, s, hit, p)
      BY <2>1
    <2>3. UNCHANGED <<setup, media_vars, uses>>
      BY <1>4 DEF Prefill
    <2>4. CASE \E held \in Seq(Int) : Aborted(r, s, p, held)
      <3>1. PICK held \in Seq(Int) : Aborted(r, s, p, held)
        BY <2>4
      <3> QED
        BY <1>3, <2>3, <3>1
    <2>5. CASE Prefilled(r, s, hit, p)
      <3> DEFINE cleanly == CanCut(hit, old.chunks) /\ (hit.cached > 0 => cache_prompts[s].clean)
      <3>1. PICK token \in Generated : request' = [request EXCEPT ![r] = AnsweredBy(old, s, p, cleanly, token)]
        BY <2>5 DEF Prefilled, AnsweredBy
      <3>2. p.pos \in Nat /\ token \in Nat /\ cleanly \in BOOLEAN
        BY <2>2, PrefillAssumption DEF Outcome
      <3> HIDE DEF cleanly, old
      <3>3. Answers(AnsweredBy(old, s, p, cleanly, token), old, s, p, cleanly, token)
        BY <1>1, <3>2, AnswersOf
      <3> DEFINE rec == AnsweredBy(old, s, p, cleanly, token)
      <3>4. rec \in Rec /\ rec.state = "running" /\ rec.chunks = <<>>
        BY <3>3 DEF Answers
      <3>5. request' = [request EXCEPT ![r] = rec]
        BY <3>1
      <3> HIDE DEF rec
      <3> QED
        BY <2>3, <3>4, <3>5 DEF Served
    <2> QED
      BY <2>2, <2>4, <2>5
  <1>5. CASE Decode(r)
    <2>1. PICK token \in Generated : request' = [request EXCEPT ![r] = [Sampled(old, token) EXCEPT !.pos = @ + 1]]
      BY <1>5 DEF Decode
    <2> DEFINE y == Sampled(old, token)
               n == y.pos + 1
               rec == [y EXCEPT !.pos = n]
    <2>2. y \in Rec /\ y.state = "running" /\ y.chunks = old.chunks
      <3>1. token \in Nat /\ old.state = "running"
        BY <1>5, PrefillAssumption DEF Decode
      <3> HIDE DEF old
      <3>2. y \in Rec /\ y.state = old.state
        BY <1>1, <3>1, SampledOf
      <3>3. y.chunks = old.chunks
        BY <1>1 DEF Sampled, Rec
      <3> QED
        BY <3>1, <3>2, <3>3
    <2> HIDE DEF y
    <2>3. n \in Nat
      BY <2>2 DEF Rec
    <2>4. request' = [request EXCEPT ![r] = rec]
      BY <2>1 DEF y
    <2> HIDE DEF n
    <2>5. rec \in Rec /\ rec.state = "running" /\ rec.chunks = old.chunks
      <3> HIDE DEF old
      <3> QED
        BY <2>2, <2>3 DEF Rec
    <2> HIDE DEF rec
    <2>6. UNCHANGED <<setup, media_vars, uses>>
      BY <1>5 DEF Decode
    <2> QED
      BY <2>4, <2>5, <2>6 DEF Served
  <1>6. CASE Retire(r)
    <2> DEFINE rec == [old EXCEPT !.state = "answered"]
    <2>1. request' = [request EXCEPT ![r] = rec] /\ UNCHANGED <<setup, media_vars, uses>>
      BY <1>6 DEF Retire
    <2>2. rec \in Rec /\ rec.state = "answered" /\ rec.chunks = old.chunks
      BY <1>2
    <2> HIDE DEF rec
    <2> QED
      BY <2>1, <2>2 DEF Served
  <1>7. CASE DecodeFails(r)
    BY <1>3, <1>7 DEF DecodeFails
  <1> QED
    BY <1>4, <1>5, <1>6, <1>7 DEF reconcile

(* What is asked, and what becomes of it until it is queued.               *)
AskedWell(rec) ==
    /\ rec.state = "tokenizing" =>
           /\ ~ IsPlain(rec.asked)
           /\ rec.message # <<>> => Last(rec.message).media = 0 /\ Last(rec.message).text # <<>>
           /\ rec.message = <<>> => Last(rec.chunks).tokens # <<>>
    /\ rec.state = "queued" => Fits(rec.asked, Tokens(rec.chunks)) /\ Last(rec.chunks).tokens # <<>>

AskedInv == \A r \in Requests : AskedWell(request[r])

LEMMA AskedStep ==
    ASSUME Inv, AskedInv, NEW r \in Requests, NEW rec, request' = [request EXCEPT ![r] = rec], AskedWell(rec)
    PROVE  AskedInv'
  BY DEF AskedInv, Inv, Types

LEMMA ServedAsks ==
    ASSUME Inv, AskedInv, NEW r \in Requests, reconcile(r)
    PROVE  AskedInv'
  <1>1. PICK rec \in Rec : request' = [request EXCEPT ![r] = rec] /\ rec.state \in {"running", "failed", "answered"}
    BY ReconcileServes DEF Served
  <1>2. AskedWell(rec)
    BY <1>1 DEF AskedWell
  <1> QED
    BY <1>1, <1>2, AskedStep

LEMMA TokensOfOne ==
    ASSUME NEW c \in Chunk
    PROVE  Tokens(<<c>>) = c.tokens /\ Contents(<<c>>) = c.contents
  <1> DEFINE none == <<>>
             a == c.tokens
             b == c.contents
  <1>1. none \in Seq(Chunk) /\ Append(none, c) = <<c>>
    OBVIOUS
  <1>2. Both(none, <<>>, <<>>) /\ Tokens(none) = <<>> /\ Contents(none) = <<>>
    BY NoChunks DEF Both
  <1>3. a \in Seq(Int) /\ b \in Seq(Int)
    BY DEF Chunk
  <1> HIDE DEF none, a, b
  <1>4. Both(Append(none, c), <<>> \o a, <<>> \o b)
    BY <1>1, <1>2, OneMore DEF a, b
  <1>5. <<>> \o a = a /\ <<>> \o b = b
    BY <1>3, ConcatEmptySeq
  <1> QED
    BY <1>1, <1>4, <1>5 DEF Both, a, b

LEMMA ReceiveAsks ==
    ASSUME Inv, AskedInv, NEW r \in Requests, NEW message \in setup.messages, Receive(r, message)
    PROVE  AskedInv'
  <1> DEFINE texts == FlattenSeq([k \in DOMAIN message |-> message[k].text])
             prompt == PlainPrompt(texts)
             old == request[r]
             asked == [old EXCEPT !.asked = message]
             more == [asked EXCEPT !.state = "tokenizing", !.message = message]
             refused == [asked EXCEPT !.state = "refused"]
             one == <<text_chunk(prompt)>>
             queued == [asked EXCEPT !.state = "queued", !.chunks = one]
  <1>1. message \in Seq(Part) /\ message # <<>> /\ Last(message).media = 0 /\ Last(message).text # <<>>
    BY PrefillAssumption, MessageTyped DEF Inv, Types
  <1>2. texts \in Seq(Nat)
    BY <1>1, TextsTyped
  <1>3. prompt \in Seq(Nat)
    <2> HIDE DEF texts
    <2> QED
      BY <1>2, PlainTyped
  <1>4. \/ ~ IsPlain(message) /\ request' = [request EXCEPT ![r] = more]
        \/ request' = [request EXCEPT ![r] = refused]
        \/ IsPlain(message) /\ prompt # <<>> /\ request' = [request EXCEPT ![r] = queued]
    <2> DEFINE cases == CASE ~IsPlain(message) -> more [] IsPlain(message) /\ prompt = <<>> -> refused [] OTHER -> queued
    <2>1. request' = [request EXCEPT ![r] = cases]
      BY DEF Receive
    <2>2. \/ ~ IsPlain(message) /\ cases = more
          \/ cases = refused
          \/ IsPlain(message) /\ prompt # <<>> /\ cases = queued
      <3> HIDE DEF more, refused, queued, prompt
      <3> QED
        OBVIOUS
    <2> HIDE DEF cases
    <2> QED
      BY <2>1, <2>2
  <1>5. old \in Rec
    BY DEF Inv, Types
  <1>6. asked \in Rec /\ asked.asked = message
    <2> HIDE DEF old
    <2> QED
      BY <1>1, <1>5 DEF Rec
  <1> HIDE DEF asked
  <1>7. ASSUME ~ IsPlain(message) PROVE AskedWell(more)
    <2>1. more.state = "tokenizing" /\ more.message = message /\ more.asked = message
      BY <1>6 DEF Rec
    <2> HIDE DEF more
    <2> QED
      BY <1>1, <1>7, <2>1 DEF AskedWell
  <1>8. AskedWell(refused)
    BY <1>6 DEF AskedWell, Rec
  <1>9. ASSUME IsPlain(message), prompt # <<>> PROVE AskedWell(queued)
    <2>1. /\ text_chunk(prompt) \in Chunk /\ text_chunk(prompt).tokens = prompt
      <3> HIDE DEF prompt
      <3> QED
        BY <1>3, TextChunk
    <2>2. Fits(message, prompt)
      <3> HIDE DEF texts
      <3>1. LET all == <<Bos>> \o texts
            IN  /\ Len(prompt) < completion_context_limit
                /\ SubSeq(prompt, 1, NKeep) = SubSeq(all, 1, NKeep)
                /\ IsSuffix(SubSeq(prompt, NKeep + 1, Len(prompt)), all)
                /\ Len(prompt) < Len(all) => 2 * Len(prompt) >= SlotSize + NKeep - 1
        BY <1>2, <1>9, PlainFits
      <3>2. texts = Texts(message)
        BY DEF Texts, texts
      <3> HIDE DEF prompt
      <3> QED
        BY <3>1, <3>2 DEF Fits
    <2> HIDE DEF prompt
    <2>3. Tokens(one) = prompt /\ Last(one).tokens = prompt
      BY <2>1, TokensOfOne DEF Last
    <2> HIDE DEF one
    <2>4. queued.state = "queued" /\ queued.asked = message /\ queued.chunks = one
      BY <1>6 DEF Rec
    <2> HIDE DEF queued
    <2> QED
      BY <1>9, <2>2, <2>3, <2>4 DEF AskedWell
  <1> HIDE DEF more, refused, queued
  <1> QED
    BY <1>4, <1>7, <1>8, <1>9, AskedStep

LEMMA AddTextAsks ==
    ASSUME Inv, AskedInv, NEW r \in Requests, AddText(r)
    PROVE  AskedInv'
  <1> DEFINE old == request[r]
             text == Head(old.message).text
             first == (old.chunks = <<>>)
             chunk == tokenize(text, first)
             more == Append(old.chunks, chunk)
             rest == Tail(old.message)
             new == [old EXCEPT !.chunks = more, !.message = rest]
  <1>1. old \in Rec /\ old.state = "tokenizing" /\ old.message # <<>> /\ request' = [request EXCEPT ![r] = new]
    BY DEF Inv, Types, AddText
  <1>2. old.message \in Seq(Part) /\ old.chunks \in Seq(Chunk)
    BY <1>1 DEF Rec
  <1>3. ~ IsPlain(old.asked) /\ Last(old.message).media = 0 /\ Last(old.message).text # <<>>
    BY <1>1 DEF AskedInv, AskedWell
  <1>4. /\ rest = <<>> => Head(old.message) = Last(old.message)
        /\ rest # <<>> => Last(rest) = Last(old.message)
        /\ Head(old.message) \in Part
    <2> DEFINE m == old.message
    <2>1. m \in Seq(Part) /\ m # <<>>
      BY <1>1, <1>2
    <2> HIDE DEF m
    <2>2. /\ Tail(m) = <<>> => Head(m) = Last(m)
          /\ Tail(m) # <<>> => Last(Tail(m)) = Last(m)
          /\ Head(m) \in Part
      BY <2>1, TailEnds, HeadTail
    <2> QED
      BY <2>2 DEF m
  <1>5. chunk \in Chunk /\ (text # <<>> => chunk.tokens # <<>>)
    <2>1. text \in Seq(Nat) /\ first \in BOOLEAN
      BY <1>4 DEF Part
    <2> HIDE DEF text, first
    <2>2. \E t \in Seq(Nat) : tokenize(text, first) = text_chunk(t)
      BY <2>1, Tokenized
    <2>3. <<Bos>> \o text # <<>>
      <3>1. Len(<<Bos>> \o text) = 1 + Len(text)
        BY <2>1
      <3> QED
        BY <2>1, <3>1
    <2>4. text # <<>> => chunk.tokens # <<>>
      BY <2>3 DEF tokenize, text_chunk
    <2> QED
      BY <2>2, <2>4, TextChunk
  <1> HIDE DEF chunk
  <1>6. Last(more) = chunk
    <2> DEFINE c == old.chunks
    <2>1. c \in Seq(Chunk)
      BY <1>2
    <2> HIDE DEF c
    <2>2. Last(Append(c, chunk)) = chunk
      BY <1>5, <2>1, AppendEnds
    <2> QED
      BY <2>2 DEF c
  <1>7. rest = <<>> => text # <<>>
    BY <1>3, <1>4
  <1>8. rest # <<>> => Last(rest).media = 0 /\ Last(rest).text # <<>>
    BY <1>3, <1>4
  <1> HIDE DEF more, rest, old, text
  <1>9. new.state = "tokenizing" /\ new.asked = old.asked /\ new.message = rest /\ new.chunks = more
    BY <1>1 DEF Rec
  <1> HIDE DEF new
  <1>10. AskedWell(new)
    BY <1>3, <1>5, <1>6, <1>7, <1>8, <1>9 DEF AskedWell
  <1> QED
    BY <1>1, <1>10, AskedStep

(* What a medium adds to a message.                                        *)
MediaAdded(f, m, old, new, outcome) ==
    /\ new.asked = old.asked
    /\ outcome.pieces = <<>> => new.state = "refused" /\ new.chunks = old.chunks
    /\ outcome.pieces # <<>> =>
           /\ new.state = "tokenizing" /\ new.message = Tail(old.message)
           /\ new.chunks = old.chunks \o Wrapped(f, m, outcome.pieces, old.chunks = <<>>)

LEMMA MediaAdds ==
    ASSUME Inv, NEW r \in Requests, AddMedia(r)
    PROVE  LET f   == setup.family
               old == request[r]
               m   == Head(old.message).media
           IN  /\ old \in Rec /\ old.state = "tokenizing" /\ old.message # <<>> /\ m \in Media /\ f \in Families
               /\ \E outcome \in cache_tokenize_multimedia(f, m), new \in Rec :
                      /\ request' = [request EXCEPT ![r] = new] /\ MediaAdded(f, m, old, new, outcome)
                      /\ cache_multimodals' = outcome.cache /\ uses' = Append(uses, m)
                      /\ multimodal_dummy_token_generator' = multimodal_dummy_token_generator - outcome.made
                      /\ Given(f, m, cache_multimodals, multimodal_dummy_token_generator, outcome)
                      /\ UNCHANGED setup
  <1> DEFINE old == request[r]
             m == Head(old.message).media
             f == setup.family
             gen == multimodal_dummy_token_generator
             refused == [old EXCEPT !.state = "refused"]
             added(pieces) == [old EXCEPT !.message = Tail(@), !.chunks = @ \o Wrapped(f, m, pieces, old.chunks = <<>>)]
  <1>1. old \in Rec /\ old.state = "tokenizing" /\ old.message # <<>> /\ m # 0 /\ UNCHANGED setup
    BY DEF Inv, Types, AddMedia
  <1>2. m \in Media /\ f \in Families
    <2> DEFINE t == old.message
    <2>1. t \in Seq(Part) /\ t # <<>>
      BY <1>1 DEF Rec
    <2> HIDE DEF t
    <2>2. Head(t) \in Part
      BY <2>1, HeadTail
    <2>3. Head(t).media \in Media \cup {0}
      BY <2>2 DEF Part
    <2> QED
      BY <1>1, <2>3, PrefillAssumption DEF t, Inv, Types
  <1>3. PICK outcome \in cache_tokenize_multimedia(f, m) :
            /\ cache_multimodals' = outcome.cache /\ uses' = Append(uses, m)
            /\ multimodal_dummy_token_generator' = gen - outcome.made
            /\ request' = [request EXCEPT ![r] = IF outcome.pieces = <<>> THEN refused ELSE added(outcome.pieces)]
    BY DEF AddMedia
  <1> DEFINE pieces == outcome.pieces
             new == IF pieces = <<>> THEN refused ELSE added(pieces)
  <1>4. request' = [request EXCEPT ![r] = new]
    BY <1>3
  <1>5. new \in Rec
    <2>1. request'[r] = new
      <3> HIDE DEF new
      <3> QED
        BY <1>4 DEF Inv, Types
    <2>2. Inv'
      BY AddMediaKeeps
    <2> HIDE DEF new
    <2> QED
      BY <2>1, <2>2 DEF Inv, Types
  <1>6. MediaAdded(f, m, old, new, outcome)
    <2> HIDE DEF pieces
    <2>1. ASSUME pieces = <<>> PROVE new.state = "refused" /\ new.chunks = old.chunks /\ new.asked = old.asked
      <3>1. new = refused
        BY <2>1
      <3> HIDE DEF new, old
      <3> QED
        BY <1>1, <3>1 DEF Rec
    <2>2. ASSUME pieces # <<>>
          PROVE  /\ new.state = "tokenizing" /\ new.message = Tail(old.message) /\ new.asked = old.asked
                 /\ new.chunks = old.chunks \o Wrapped(f, m, pieces, old.chunks = <<>>)
      <3> DEFINE w == Wrapped(f, m, pieces, old.chunks = <<>>)
      <3>1. new = [old EXCEPT !.message = Tail(@), !.chunks = @ \o w]
        BY <2>2
      <3> HIDE DEF new, old, w
      <3>2. /\ new.state = old.state /\ new.message = Tail(old.message) /\ new.asked = old.asked
            /\ new.chunks = old.chunks \o w
        BY <1>1, <3>1 DEF Rec
      <3> QED
        BY <1>1, <3>2 DEF w, old
    <2> HIDE DEF new, old
    <2> QED
      BY <2>1, <2>2 DEF MediaAdded, pieces
  <1> HIDE DEF new
  <1>7. Given(f, m, cache_multimodals, gen, outcome)
    <2> HIDE DEF m, f
    <2>1. MediaTold(f, cache_multimodals, gen)
      BY DEF Inv, f
    <2> QED
      BY <1>2, <2>1, OutcomesOf
  <1> QED
    BY <1>1, <1>2, <1>3, <1>4, <1>5, <1>6, <1>7

LEMMA AddMediaAsks ==
    ASSUME Inv, AskedInv, NEW r \in Requests, AddMedia(r)
    PROVE  AskedInv'
  <1> DEFINE old == request[r]
             m == Head(old.message).media
  <1>1. /\ old \in Rec /\ old.state = "tokenizing" /\ old.message # <<>> /\ m \in Media
        /\ \E outcome, new : request' = [request EXCEPT ![r] = new] /\ MediaAdded(setup.family, m, old, new, outcome)
    BY MediaAdds
  <1>2. PICK new : \E outcome : request' = [request EXCEPT ![r] = new] /\ MediaAdded(setup.family, m, old, new, outcome)
    BY <1>1
  <1>3. /\ request' = [request EXCEPT ![r] = new] /\ new.asked = old.asked
        /\ new.state = "refused" \/ (new.state = "tokenizing" /\ new.message = Tail(old.message))
    BY <1>2 DEF MediaAdded
  <1>4. ~ IsPlain(old.asked) /\ Last(old.message).media = 0 /\ Last(old.message).text # <<>>
    BY <1>1 DEF AskedInv, AskedWell
  <1>5. Tail(old.message) # <<>> /\ Last(Tail(old.message)) = Last(old.message)
    <2> DEFINE t == old.message
    <2>1. t \in Seq(Part) /\ t # <<>> /\ Head(t).media # 0 /\ Last(t).media = 0
      BY <1>1, <1>4, PromptAssumption DEF Rec
    <2> HIDE DEF t
    <2>2. Tail(t) # <<>> /\ Last(Tail(t)) = Last(t)
      BY <2>1, TailEnds
    <2> QED
      BY <2>2 DEF t
  <1> HIDE DEF old
  <1>6. AskedWell(new)
    BY <1>3, <1>4, <1>5 DEF AskedWell
  <1> QED
    BY <1>3, <1>6, AskedStep

LEMMA EnqueueAsks ==
    ASSUME Inv, AskedInv, NEW r \in Requests, Enqueue(r)
    PROVE  AskedInv'
  <1> DEFINE old == request[r]
             n == NumTokens(old.chunks)
             new == [old EXCEPT !.state = IF TooLong(n) THEN "refused" ELSE "queued"]
  <1>1. old \in Rec /\ old.state = "tokenizing" /\ old.message = <<>> /\ request' = [request EXCEPT ![r] = new]
    BY DEF Inv, Types, Enqueue
  <1>2. ~ IsPlain(old.asked) /\ Last(old.chunks).tokens # <<>>
    BY <1>1 DEF AskedInv, AskedWell
  <1>3. n \in Nat /\ n = Len(Tokens(old.chunks))
    <2> DEFINE c == old.chunks
    <2>1. c \in Seq(Chunk)
      BY <1>1 DEF Rec
    <2> HIDE DEF c
    <2>2. Tokens(c) \in Seq(Int)
      BY <2>1, BothOf DEF Both
    <2>3. NumTokens(c) = Len(Tokens(c)) /\ Len(Tokens(c)) \in Nat
      BY <2>2 DEF NumTokens
    <2> QED
      BY <2>3 DEF c
  <1>4. completion_context_limit \in Nat
    BY PromptAssumption DEF completion_context_limit
  <1>5. /\ new.asked = old.asked /\ new.chunks = old.chunks
        /\ new.state = "refused" \/ (new.state = "queued" /\ ~ TooLong(n))
    <2> HIDE DEF old, n
    <2> QED
      BY <1>1 DEF Rec
  <1> HIDE DEF new, n
  <1>6. ~ TooLong(n) => Fits(old.asked, Tokens(old.chunks))
    BY <1>2, <1>3, <1>4 DEF TooLong, Fits
  <1> HIDE DEF old
  <1>7. AskedWell(new)
    BY <1>2, <1>5, <1>6 DEF AskedWell
  <1> QED
    BY <1>1, <1>7, AskedStep

LEMMA InitAsked == Init => AskedInv
  BY DEF Init, AskedInv, AskedWell, NewRequest

LEMMA NextAsks ==
    ASSUME Inv, AskedInv, [Next]_vars
    PROVE  AskedInv'
  <1>1. CASE Next
    <2>1. PICK r \in setup.requests : handler(r) \/ reconcile(r)
      BY <1>1 DEF Next
    <2>2. r \in Requests
      BY <2>1, PrefillAssumption DEF Inv, Types
    <2>3. CASE handler(r)
      BY <2>2, <2>3, ReceiveAsks, AddTextAsks, AddMediaAsks, EnqueueAsks DEF handler
    <2>4. CASE reconcile(r)
      BY <2>2, <2>4, ServedAsks
    <2> QED
      BY <2>1, <2>3, <2>4
  <1>2. CASE UNCHANGED vars
    BY <1>2 DEF vars, AskedInv
  <1> QED
    BY <1>1, <1>2

(* What is queued fits, and ends with something to decode.                 *)
LEMMA AskedHolds == Spec => []AskedInv
  <1>1. Init => AskedInv
    BY InitAsked
  <1>2. Inv /\ AskedInv /\ [Next]_vars => AskedInv'
    BY NextAsks
  <1>3. Inv /\ Counted => Inv
    OBVIOUS
  <1> QED
    BY <1>1, <1>2, <1>3, InvHolds, PTL DEF Spec

(***************************************************************************)
(* Whatever is asked and however long it is: a prompt that is queued       *)
(* leaves room to answer it, and a trimmed one has the tokens to keep,     *)
(* ends as it was asked, and is not cut further than it must be.           *)
(***************************************************************************)
THEOREM PromptsFit == Spec => []PromptFits
  <1>1. AskedInv => PromptFits
    <2> SUFFICES ASSUME AskedInv, NEW r \in In("queued")
                 PROVE  LET prompt == Tokens(request[r].chunks)
                            all    == <<Bos>> \o Says(request[r].asked)
                        IN  /\ Len(prompt) < completion_context_limit
                            /\ IsPlain(request[r].asked) =>
                                   /\ SubSeq(prompt, 1, NKeep) = SubSeq(all, 1, NKeep)
                                   /\ IsSuffix(SubSeq(prompt, NKeep + 1, Len(prompt)), all)
                                   /\ Len(prompt) < Len(all) => 2 * Len(prompt) >= SlotSize + NKeep - 1
      BY DEF PromptFits
    <2> DEFINE asked == request[r].asked
               prompt == Tokens(request[r].chunks)
    <2>1. Fits(asked, prompt)
      BY DEF AskedInv, AskedWell, In
    <2>2. IsPlain(asked) => Says(asked) = Texts(asked)
      BY PlainSays
    <2> HIDE DEF asked, prompt
    <2>3. /\ Len(prompt) < completion_context_limit
          /\ IsPlain(asked) =>
                 LET all == <<Bos>> \o Says(asked)
                 IN  /\ SubSeq(prompt, 1, NKeep) = SubSeq(all, 1, NKeep)
                     /\ IsSuffix(SubSeq(prompt, NKeep + 1, Len(prompt)), all)
                     /\ Len(prompt) < Len(all) => 2 * Len(prompt) >= SlotSize + NKeep - 1
      BY <2>1, <2>2 DEF Fits
    <2> QED
      BY <2>3 DEF asked, prompt
  <1> QED
    BY <1>1, AskedHolds, PTL

-----------------------------------------------------------------------------
(* The least recently used is evicted.                                     *)

Since(u, k) == {u[j] : j \in k .. Len(u)}

Supported(f, u) == \A k \in DOMAIN u : Hears(f) = (u[k] \in Audio)

(* What is behind an entry was used after it, however it was used before.  *)
Recent(u, cache) ==
    /\ \A i, j \in DOMAIN cache : cache[i].hash = cache[j].hash => i = j
    /\ \A j \in DOMAIN cache, k \in DOMAIN u :
          u[k] = cache[j].hash => \A i \in j .. Len(cache) : cache[i].hash \in Since(u, k)
    /\ \A k \in DOMAIN u :
          Cardinality(Since(u, k)) <= max_projected_cache => \E j \in DOMAIN cache : cache[j].hash = u[k]

LEMMA SinceIs ==
    ASSUME NEW u \in Seq(Media), NEW k \in DOMAIN u
    PROVE  ToSet(SubSeq(u, k, Len(u))) = Since(u, k)
  <1> DEFINE n == Len(u)
             t == SubSeq(u, k, n)
  <1>1. n \in Nat /\ k \in 1 .. n
    OBVIOUS
  <1>2. Len(t) = n - k + 1 /\ DOMAIN t = 1 .. Len(t) /\ \A i \in 1 .. n - k + 1 : t[i] = u[k + i - 1]
    BY <1>1
  <1>3. ToSet(t) = {t[i] : i \in 1 .. n - k + 1}
    BY <1>2 DEF ToSet
  <1> HIDE DEF t, n
  <1>4. \A j \in k .. n : j - k + 1 \in 1 .. n - k + 1 /\ k + (j - k + 1) - 1 = j
    BY <1>1
  <1>5. \A i \in 1 .. n - k + 1 : k + i - 1 \in k .. n
    BY <1>1
  <1>6. ToSet(t) = {u[j] : j \in k .. n}
    <2>1. ASSUME NEW x \in {t[i] : i \in 1 .. n - k + 1} PROVE x \in {u[j] : j \in k .. n}
      <3>1. PICK i \in 1 .. n - k + 1 : x = t[i]
        OBVIOUS
      <3>2. k + i - 1 \in k .. n /\ x = u[k + i - 1]
        BY <1>2, <1>5, <3>1
      <3> QED
        BY <3>2
    <2>2. ASSUME NEW x \in {u[j] : j \in k .. n} PROVE x \in {t[i] : i \in 1 .. n - k + 1}
      <3>1. PICK j \in k .. n : x = u[j]
        OBVIOUS
      <3>2. j - k + 1 \in 1 .. n - k + 1 /\ k + (j - k + 1) - 1 = j
        BY <1>4
      <3>3. x = t[j - k + 1]
        BY <1>2, <3>1, <3>2
      <3> QED
        BY <3>2, <3>3
    <2> QED
      BY <1>3, <2>1, <2>2
  <1> QED
    BY <1>6 DEF Since, t, n

(* One more use.                                                           *)
LEMMA UsedMore ==
    ASSUME NEW u \in Seq(Media), NEW m \in Media
    PROVE  LET n == Len(u)
               v == Append(u, m)
           IN  /\ n \in Nat /\ DOMAIN u = 1 .. n /\ DOMAIN v = 1 .. n + 1 /\ v \in Seq(Media)
               /\ v[n + 1] = m /\ \A k \in 1 .. n : v[k] = u[k]
               /\ \A k \in 1 .. n + 1 : m \in Since(v, k) /\ Since(v, k) \subseteq Media
               /\ \A k \in 1 .. n : Since(u, k) \subseteq Since(v, k)
  <1> DEFINE n == Len(u)
             v == Append(u, m)
  <1>1. /\ n \in Nat /\ DOMAIN u = 1 .. n /\ DOMAIN v = 1 .. n + 1 /\ v \in Seq(Media) /\ Len(v) = n + 1
        /\ v[n + 1] = m /\ \A k \in 1 .. n : v[k] = u[k]
    OBVIOUS
  <1>2. \A k \in 1 .. n + 1 : v[k] \in Media
    BY <1>1
  <1> HIDE DEF v, n
  <1>3. \A k \in 1 .. n + 1 : m \in Since(v, k) /\ Since(v, k) \subseteq Media
    <2> SUFFICES ASSUME NEW k \in 1 .. n + 1 PROVE m \in Since(v, k) /\ Since(v, k) \subseteq Media
      OBVIOUS
    <2>1. n + 1 \in k .. Len(v) /\ k .. Len(v) \subseteq 1 .. n + 1
      BY <1>1
    <2> QED
      BY <1>1, <1>2, <2>1 DEF Since
  <1>4. \A k \in 1 .. n : Since(u, k) \subseteq Since(v, k)
    <2> SUFFICES ASSUME NEW k \in 1 .. n PROVE Since(u, k) \subseteq Since(v, k)
      OBVIOUS
    <2>1. \A j \in k .. Len(u) : j \in k .. Len(v) /\ u[j] = v[j]
      BY <1>1 DEF n
    <2> QED
      BY <2>1 DEF Since
  <1> QED
    BY <1>1, <1>3, <1>4 DEF v, n

(* As many media were used as fit in the cache.                            *)
LEMMA StillFits ==
    ASSUME NEW u \in Seq(Media), NEW m \in Media, NEW k \in DOMAIN u,
           Cardinality(Since(Append(u, m), k)) <= max_projected_cache
    PROVE  Cardinality(Since(u, k)) <= max_projected_cache
  <1> DEFINE a == Since(u, k)
             b == Since(Append(u, m), k)
  <1>1. k \in 1 .. Len(u) /\ k \in 1 .. Len(u) + 1
    OBVIOUS
  <1>2. a \subseteq b /\ b \subseteq Media
    BY <1>1, UsedMore
  <1> HIDE DEF a, b
  <1>3. IsFiniteSet(a) /\ IsFiniteSet(b) /\ Cardinality(a) <= Cardinality(b)
    BY <1>2, PromptAssumption, FS_Subset
  <1>4. Cardinality(a) \in Nat /\ Cardinality(b) \in Nat /\ max_projected_cache \in Int
    BY <1>3, PromptAssumption, FS_CardinalityType
  <1> QED
    BY <1>3, <1>4 DEF a, b

(* A hit goes to the end.                                                  *)
LEMMA HitRecent ==
    ASSUME NEW u \in Seq(Media), NEW m \in Media, NEW c \in Seq(CacheEntry), NEW d \in Seq(CacheEntry), Recent(u, c),
           NEW h \in DOMAIN c, c[h].hash = m, Len(d) = Len(c), \A j \in 1 .. h - 1 : d[j] = c[j],
           \A j \in h .. Len(c) - 1 : d[j] = c[j + 1], d[Len(c)] = c[h]
    PROVE  Recent(Append(u, m), d)
  <1> DEFINE N == Len(c)
             n == Len(u)
             v == Append(u, m)
             at == [j \in 1 .. N |-> IF j < h THEN j ELSE IF j < N THEN j + 1 ELSE h]
  <1>1. N \in Nat /\ h \in 1 .. N /\ DOMAIN c = 1 .. N /\ DOMAIN d = 1 .. N /\ Len(d) = N
    OBVIOUS
  <1>2. \A j \in 1 .. N : d[j] = c[at[j]] /\ at[j] \in 1 .. N
    BY <1>1
  <1>3. /\ at[N] = h /\ \A j \in 1 .. N - 1 : at[j] # h
        /\ \A i, j \in 1 .. N : at[i] = at[j] => i = j
        /\ \A i, j \in 1 .. N - 1 : j <= i => at[j] <= at[i]
        /\ \A j \in 1 .. N : \E i \in 1 .. N : at[i] = j
    <2>0. \A j \in 1 .. N : /\ j < h => at[j] = j
                            /\ ~ (j < h) /\ j < N => at[j] = j + 1
                            /\ ~ (j < N) => at[j] = h
      BY <1>1
    <2> HIDE DEF at, N
    <2>1. at[N] = h /\ \A j \in 1 .. N - 1 : at[j] # h
      BY <1>1, <2>0
    <2>2. \A i, j \in 1 .. N : at[i] = at[j] => i = j
      <3> SUFFICES ASSUME NEW i \in 1 .. N, NEW j \in 1 .. N, at[i] = at[j] PROVE i = j
        OBVIOUS
      <3>1. /\ i < h => at[i] = i
            /\ ~ (i < h) /\ i < N => at[i] = i + 1
            /\ ~ (i < N) => at[i] = h
        BY <2>0
      <3>2. /\ j < h => at[j] = j
            /\ ~ (j < h) /\ j < N => at[j] = j + 1
            /\ ~ (j < N) => at[j] = h
        BY <2>0
      <3> DEFINE a == at[i]
                 b == at[j]
      <3>3. a = b
        OBVIOUS
      <3> HIDE DEF a, b
      <3> QED
        BY <1>1, <3>1, <3>2, <3>3 DEF a, b
    <2>3. \A i, j \in 1 .. N - 1 : j <= i => at[j] <= at[i]
      BY <1>1, <2>0
    <2>4. ASSUME NEW j \in 1 .. N PROVE \E i \in 1 .. N : at[i] = j
      <3>1. CASE j < h
        BY <2>0, <3>1
      <3>2. CASE j = h
        BY <1>1, <2>1, <3>2
      <3>3. CASE j > h
        <4>1. j - 1 \in 1 .. N /\ ~ (j - 1 < h) /\ j - 1 < N /\ (j - 1) + 1 = j
          BY <1>1, <3>3
        <4>2. at[j - 1] = (j - 1) + 1
          BY <2>0, <4>1
        <4> QED
          BY <4>1, <4>2
      <3> QED
        BY <1>1, <3>1, <3>2, <3>3
    <2> QED
      BY <2>1, <2>2, <2>3, <2>4
  <1>4. /\ n \in Nat /\ DOMAIN u = 1 .. n /\ DOMAIN v = 1 .. n + 1 /\ v[n + 1] = m
        /\ \A k \in 1 .. n : v[k] = u[k]
        /\ \A k \in 1 .. n + 1 : m \in Since(v, k)
        /\ \A k \in 1 .. n : Since(u, k) \subseteq Since(v, k)
    BY UsedMore
  <1> HIDE DEF N, n, v, at
  <1>5. \A i, j \in 1 .. N : d[i].hash = d[j].hash => i = j
    <2>1. \A x, y \in 1 .. N : c[x].hash = c[y].hash => x = y
      BY <1>1 DEF Recent
    <2> SUFFICES ASSUME NEW i \in 1 .. N, NEW j \in 1 .. N, d[i].hash = d[j].hash PROVE i = j
      OBVIOUS
    <2>2. at[i] \in 1 .. N /\ at[j] \in 1 .. N /\ c[at[i]].hash = c[at[j]].hash
      BY <1>2
    <2>3. at[i] = at[j]
      BY <2>1, <2>2
    <2> QED
      BY <1>3, <2>3
  <1>6. ASSUME NEW j \in 1 .. N, NEW k \in 1 .. n + 1, v[k] = d[j].hash, NEW i \in j .. N
        PROVE  d[i].hash \in Since(v, k)
    <2>1. CASE i = N
      <3>1. d[N].hash = m
        BY <1>1, <1>2, <1>3
      <3> QED
        BY <1>4, <2>1, <3>1
    <2>2. CASE i # N
      <3>1. i \in 1 .. N - 1 /\ j \in 1 .. N - 1 /\ j <= i /\ i \in 1 .. N
        BY <1>1, <1>6, <2>2
      <3>2. at[j] # h /\ at[j] \in 1 .. N /\ at[i] \in 1 .. N /\ at[j] <= at[i]
        BY <1>2, <1>3, <3>1
      <3>3. d[j].hash = c[at[j]].hash /\ d[i].hash = c[at[i]].hash
        BY <1>2, <3>1
      <3>4. c[at[j]].hash # m
        BY <1>1, <3>2 DEF Recent
      <3>5. k \in 1 .. n /\ u[k] = c[at[j]].hash
        <4>1. k # n + 1
          BY <1>4, <1>6, <3>3, <3>4
        <4>2. k \in 1 .. n
          BY <1>4, <4>1
        <4> QED
          BY <1>4, <1>6, <3>3, <4>2
      <3>6. at[i] \in at[j] .. N
        BY <1>1, <3>2
      <3>7. c[at[i]].hash \in Since(u, k)
        BY <1>1, <1>4, <3>2, <3>5, <3>6 DEF Recent, N
      <3> QED
        BY <1>4, <3>3, <3>5, <3>7
    <2> QED
      BY <2>1, <2>2
  <1>7. ASSUME NEW k \in 1 .. n + 1, Cardinality(Since(v, k)) <= max_projected_cache
        PROVE  \E j \in 1 .. N : d[j].hash = v[k]
    <2>1. CASE k = n + 1
      BY <1>1, <1>4, <2>1 DEF N
    <2>2. CASE k # n + 1
      <3>1. k \in 1 .. n
        BY <1>4, <2>2
      <3>2. Cardinality(Since(u, k)) <= max_projected_cache
        BY <1>4, <1>7, <3>1, StillFits DEF v
      <3>3. PICK j \in 1 .. N : c[j].hash = u[k]
        BY <1>1, <1>4, <3>1, <3>2 DEF Recent
      <3>4. PICK i \in 1 .. N : at[i] = j
        BY <1>3
      <3> QED
        BY <1>2, <1>4, <3>1, <3>3, <3>4
    <2> QED
      BY <2>1, <2>2
  <1>8. Recent(v, d)
    BY <1>1, <1>4, <1>5, <1>6, <1>7 DEF Recent
  <1> QED
    BY <1>8 DEF v

(* A miss is appended, to all of the cache or to all but the first.        *)
LEMMA MissRecent ==
    ASSUME NEW u \in Seq(Media), NEW m \in Media, NEW c \in Seq(CacheEntry), NEW d \in Seq(CacheEntry), Recent(u, c),
           \A j \in DOMAIN c : c[j].hash # m, NEW o \in {0, 1}, Len(d) = Len(c) - o + 1,
           o = 1 => Len(c) = max_projected_cache, max_projected_cache > 0,
           \A j \in 1 .. Len(c) - o : d[j] = c[j + o], d[Len(d)].hash = m
    PROVE  Recent(Append(u, m), d)
  <1> DEFINE N == Len(c)
             M == N - o + 1
             n == Len(u)
             v == Append(u, m)
  <1>1. /\ N \in Nat /\ DOMAIN c = 1 .. N /\ DOMAIN d = 1 .. M /\ Len(d) = M /\ M \in Nat
        /\ \A j \in 1 .. N - o : d[j] = c[j + o] /\ d[M].hash = m /\ max_projected_cache \in Int
        /\ o \in Nat /\ (o = 0 \/ o = 1)
    BY PromptAssumption
  <1>2. /\ n \in Nat /\ DOMAIN u = 1 .. n /\ DOMAIN v = 1 .. n + 1 /\ v[n + 1] = m
        /\ \A k \in 1 .. n : v[k] = u[k]
        /\ \A k \in 1 .. n + 1 : m \in Since(v, k) /\ Since(v, k) \subseteq Media
        /\ \A k \in 1 .. n : Since(u, k) \subseteq Since(v, k)
    BY UsedMore
  <1>0. d[M].hash = m
    OBVIOUS
  <1>3. ASSUME NEW j \in 1 .. M, j # M
        PROVE  j \in 1 .. N - o /\ j + o \in 1 .. N /\ d[j] = c[j + o] /\ d[j].hash # m
    <2>1. j \in 1 .. N - o /\ j + o \in 1 .. N
      BY <1>1, <1>3
    <2> QED
      BY <1>1, <2>1
  <1>4. \A i, j \in 1 .. M : d[i].hash = d[j].hash => i = j
    <2> SUFFICES ASSUME NEW i \in 1 .. M, NEW j \in 1 .. M, d[i].hash = d[j].hash PROVE i = j
      OBVIOUS
    <2>1. CASE i # M /\ j # M
      <3>0. \A x, y \in 1 .. N : c[x].hash = c[y].hash => x = y
        BY <1>1 DEF Recent
      <3>2. i + o \in 1 .. N /\ d[i] = c[i + o] /\ j + o \in 1 .. N /\ d[j] = c[j + o]
        BY <1>3, <2>1
      <3>1. i + o = j + o
        BY <3>0, <3>2
      <3> QED
        BY <1>1, <3>1
    <2> HIDE DEF M
    <2> QED
      BY <1>0, <1>3, <2>1
  <1> HIDE DEF n, v
  <1>5. ASSUME NEW j \in 1 .. M, NEW k \in 1 .. n + 1, v[k] = d[j].hash, NEW i \in j .. M
        PROVE  d[i].hash \in Since(v, k)
    <2>1. CASE i = M
      BY <1>0, <1>2, <2>1
    <2>2. CASE i # M
      <3>1. i \in 1 .. M /\ j # M
        BY <1>1, <1>5, <2>2
      <3>2. /\ j + o \in 1 .. N /\ d[j] = c[j + o] /\ d[j].hash # m
            /\ i + o \in 1 .. N /\ d[i] = c[i + o]
        BY <1>3, <2>2, <3>1
      <3>3. k \in 1 .. n /\ u[k] = c[j + o].hash
        <4>1. k # n + 1
          BY <1>2, <1>5, <3>2
        <4>2. k \in 1 .. n
          BY <1>2, <4>1
        <4> QED
          BY <1>2, <1>5, <3>2, <4>2
      <3>4. i + o \in j + o .. N
        BY <1>1, <1>5, <3>2
      <3>5. c[i + o].hash \in Since(u, k)
        BY <1>1, <1>2, <3>2, <3>3, <3>4 DEF Recent
      <3> QED
        BY <1>2, <3>2, <3>3, <3>5
    <2> QED
      BY <2>1, <2>2
  <1>6. ASSUME NEW k \in 1 .. n + 1, Cardinality(Since(v, k)) <= max_projected_cache
        PROVE  \E j \in 1 .. M : d[j].hash = v[k]
    <2>0. M \in 1 .. M
      <3>1. o = 1 => N > 0
        BY <1>1
      <3> QED
        BY <1>1, <3>1
    <2>1. CASE k = n + 1
      BY <1>0, <1>2, <2>0, <2>1
    <2>2. CASE k # n + 1
      <3>1. k \in 1 .. n
        BY <1>2, <2>2
      <3>2. Cardinality(Since(u, k)) <= max_projected_cache
        BY <1>2, <1>6, <3>1, StillFits DEF v
      <3>3. PICK j \in 1 .. N : c[j].hash = u[k]
        BY <1>1, <1>2, <3>1, <3>2 DEF Recent
      <3>4. CASE j > o
        <4>1. j - o \in 1 .. N - o /\ j - o + o = j /\ j - o \in 1 .. M
          BY <1>1, <3>4
        <4>2. d[j - o] = c[j]
          BY <1>1, <4>1
        <4> QED
          BY <1>2, <3>1, <3>3, <4>1, <4>2
      <3>5. CASE ~ (j > o)
        <4>1. o = 1 /\ j = 1 /\ N = max_projected_cache
          BY <1>1, <3>5
        <4> DEFINE S == Since(v, k)
                   f == [i \in 1 .. N + 1 |-> IF i = N + 1 THEN m ELSE c[i].hash]
        <4>2. f \in [1 .. N + 1 -> S]
          <5>1. \A i \in 1 .. N : c[i].hash \in Since(u, k)
            BY <1>1, <1>2, <3>1, <3>3, <4>1 DEF Recent
          <5>2. \A i \in 1 .. N + 1 : i # N + 1 => i \in 1 .. N
            BY <1>1
          <5>3. \A i \in 1 .. N + 1 : f[i] \in S
            BY <1>2, <3>1, <5>1, <5>2
          <5> QED
            BY <5>3
        <4>3. \A x, y \in 1 .. N + 1 : f[x] = f[y] => x = y
          <5>1. \A x, y \in 1 .. N : c[x].hash = c[y].hash => x = y
            BY <1>1 DEF Recent
          <5>2. \A x \in 1 .. N : c[x].hash # m
            BY <1>1
          <5>3. \A x \in 1 .. N + 1 : x # N + 1 => x \in 1 .. N
            BY <1>1
          <5> QED
            BY <5>1, <5>2, <5>3
        <4>4. IsFiniteSet(S) /\ Cardinality(S) \in Nat
          <5>1. S \subseteq Media
            BY <1>2
          <5> HIDE DEF S
          <5> QED
            BY <5>1, PromptAssumption, FS_Subset, FS_CardinalityType
        <4>5. IsFiniteSet(1 .. N + 1) /\ Cardinality(1 .. N + 1) = N + 1
          <5> DEFINE b == N + 1
          <5>1. b \in Int /\ ~ (1 > b) /\ b - 1 + 1 = N + 1
            BY <1>1
          <5> HIDE DEF b
          <5>2. IsFiniteSet(1 .. b) /\ Cardinality(1 .. b) = IF 1 > b THEN 0 ELSE b - 1 + 1
            BY <5>1, FS_Interval, 1 \in Int
          <5>3. IsFiniteSet(1 .. b) /\ Cardinality(1 .. b) = N + 1
            BY <5>1, <5>2
          <5> QED
            BY <5>3 DEF b
        <4>6. Cardinality(S) < Cardinality(1 .. N + 1)
          <5> DEFINE q == Cardinality(S)
          <5>1. q <= N /\ q \in Nat
            BY <1>6, <4>1, <4>4
          <5> HIDE DEF q, S
          <5>2. q < N + 1
            BY <1>1, <5>1
          <5> QED
            BY <4>5, <5>2 DEF q
        <4> DEFINE D == 1 .. N + 1
        <4> HIDE DEF S, f
        <4>7. f \in [D -> S] /\ IsFiniteSet(D) /\ Cardinality(S) < Cardinality(D)
              /\ \A x, y \in D : f[x] = f[y] => x = y
          BY <4>2, <4>3, <4>5, <4>6
        <4> HIDE DEF D
        <4>8. \E x, y \in D : x # y /\ f[x] = f[y]
          BY <4>4, <4>7, FS_PigeonHole, SMTT(40)
        <4> QED
          BY <4>7, <4>8
      <3> QED
        BY <3>4, <3>5
    <2> QED
      BY <2>1, <2>2
  <1>7. Recent(v, d)
    <2> HIDE DEF M
    <2> QED
      BY <1>1, <1>2, <1>4, <1>5, <1>6 DEF Recent
  <1> QED
    BY <1>7 DEF v

(* What a use does to the cache: a hit goes to the end, a miss is appended *)
(* behind what is not evicted.                                             *)
UsedAs(m, c, d) ==
    \/ \E h \in DOMAIN c : /\ c[h].hash = m /\ Len(d) = Len(c) /\ d[Len(c)] = c[h]
                           /\ \A j \in 1 .. h - 1 : d[j] = c[j]
                           /\ \A j \in h .. Len(c) - 1 : d[j] = c[j + 1]
    \/ /\ \A j \in DOMAIN c : c[j].hash # m
       /\ \E o \in {0, 1} : /\ Len(d) = Len(c) - o + 1 /\ (o = 1 => Len(c) = max_projected_cache)
                            /\ \A j \in 1 .. Len(c) - o : d[j] = c[j + o]
                            /\ d[Len(d)].hash = m

LEMMA UseRecent ==
    ASSUME NEW u \in Seq(Media), NEW m \in Media, NEW c \in Seq(CacheEntry), NEW d \in Seq(CacheEntry), Recent(u, c),
           max_projected_cache > 0, UsedAs(m, c, d)
    PROVE  Recent(Append(u, m), d)
  <1>1. CASE \E h \in DOMAIN c : /\ c[h].hash = m /\ Len(d) = Len(c) /\ d[Len(c)] = c[h]
                                 /\ \A j \in 1 .. h - 1 : d[j] = c[j]
                                 /\ \A j \in h .. Len(c) - 1 : d[j] = c[j + 1]
    BY <1>1, HitRecent
  <1>2. CASE /\ \A j \in DOMAIN c : c[j].hash # m
             /\ \E o \in {0, 1} : /\ Len(d) = Len(c) - o + 1 /\ (o = 1 => Len(c) = max_projected_cache)
                                  /\ \A j \in 1 .. Len(c) - o : d[j] = c[j + o]
                                  /\ d[Len(d)].hash = m
    <2>1. PICK o \in {0, 1} : /\ Len(d) = Len(c) - o + 1 /\ (o = 1 => Len(c) = max_projected_cache)
                             /\ \A j \in 1 .. Len(c) - o : d[j] = c[j + o]
                             /\ d[Len(d)].hash = m
      BY <1>2
    <2> QED
      BY <1>2, <2>1, MissRecent
  <1> QED
    BY <1>1, <1>2 DEF UsedAs

LEMMA CacheUsed ==
    ASSUME NEW f, NEW m \in Media, max_projected_cache > 0, Hears(f) = (m \in Audio),
           cache_multimodals \in Seq(CacheEntry), Len(cache_multimodals) <= max_projected_cache,
           NEW outcome \in cache_tokenize_multimedia(f, m)
    PROVE  UsedAs(m, cache_multimodals, outcome.cache)
  <1> DEFINE c == cache_multimodals
             added(p) == Append(Evicted, [hash |-> m, pieces |-> p])
  <1>1. \/ \E k \in Cached(m) : outcome.cache = Touched(k)
        \/ Cached(m) = {} /\ \E p : outcome.cache = added(p)
    <2> HIDE DEF added
    <2>1. CASE Cached(m) # {}
      <3>1. PICK k \in Cached(m) : outcome = [pieces |-> c[k].pieces, cache |-> Touched(k), made |-> 0]
        BY <2>1 DEF cache_tokenize_multimedia
      <3> QED
        BY <3>1
    <2>2. CASE Cached(m) = {}
      <3>1. \E p : outcome = [pieces |-> p, cache |-> added(p), made |-> Len(p)]
        BY <2>2 DEF cache_tokenize_multimedia, added
      <3>2. PICK p : outcome = [pieces |-> p, cache |-> added(p), made |-> Len(p)]
        BY <3>1
      <3>3. outcome.cache = added(p)
        BY <3>2
      <3> QED
        BY <2>2, <3>3
    <2> QED
      BY <2>1, <2>2
  <1>2. ASSUME NEW k \in Cached(m), outcome.cache = Touched(k) PROVE UsedAs(m, c, outcome.cache)
    <2>1. k \in DOMAIN c /\ c[k].hash = m
      BY DEF Cached
    <2>2. /\ Len(Touched(k)) = Len(c) /\ \A j \in 1 .. k - 1 : Touched(k)[j] = c[j]
          /\ \A j \in k .. Len(c) - 1 : Touched(k)[j] = c[j + 1]
          /\ Touched(k)[Len(c)] = c[k]
      BY <2>1, TouchedOf
    <2> QED
      BY <1>2, <2>1, <2>2 DEF UsedAs
  <1>3. ASSUME Cached(m) = {}, NEW p, outcome.cache = added(p) PROVE UsedAs(m, c, outcome.cache)
    <2> DEFINE e == [hash |-> m, pieces |-> p]
               s == Evicted
               d == Append(s, e)
               N == Len(c)
    <2>0. \A j \in DOMAIN c : c[j].hash # m
      BY <1>3 DEF Cached
    <2>1. /\ s \in Seq(CacheEntry)
          /\ \/ s = c
             \/ /\ N = max_projected_cache /\ Len(s) = N - 1
                /\ \A j \in DOMAIN s : s[j] = c[j + 1]
      BY EvictedOf
    <2>2. N \in Nat /\ outcome.cache = d /\ e.hash = m
      BY <1>3
    <2> HIDE DEF e, s, c, N
    <2>3. /\ Len(s) \in Nat /\ Len(d) = Len(s) + 1 /\ d[Len(d)] = e /\ DOMAIN s = 1 .. Len(s)
          /\ \A j \in 1 .. Len(s) : d[j] = s[j]
      BY <2>1
    <2> HIDE DEF d
    <2>4. CASE s = c
      <3>1. Len(d) = N - 0 + 1 /\ \A j \in 1 .. N - 0 : d[j] = c[j + 0]
        BY <2>2, <2>3, <2>4 DEF N
      <3> QED
        BY <2>0, <2>2, <2>3, <3>1 DEF UsedAs, N, c
    <2>5. CASE /\ N = max_projected_cache /\ Len(s) = N - 1
               /\ \A j \in DOMAIN s : s[j] = c[j + 1]
      <3>1. Len(d) = N - 1 + 1 /\ \A j \in 1 .. N - 1 : d[j] = c[j + 1]
        BY <2>2, <2>3, <2>5
      <3> QED
        BY <2>0, <2>2, <2>3, <2>5, <3>1 DEF UsedAs, N, c
    <2> QED
      BY <2>1, <2>4, <2>5
  <1> QED
    BY <1>1, <1>2, <1>3

LruInv ==
    max_projected_cache > 0 /\ Supported(setup.family, uses) => Recent(uses, cache_multimodals)

LEMMA AddMediaRecent ==
    ASSUME Inv, LruInv, NEW r \in Requests, AddMedia(r)
    PROVE  LruInv'
  <1> DEFINE f == setup.family
             m == Head(request[r].message).media
             u == uses
             c == cache_multimodals
             gen == multimodal_dummy_token_generator
  <1>1. m \in Media /\ f \in Families
        /\ \E outcome \in cache_tokenize_multimedia(f, m) :
               /\ cache_multimodals' = outcome.cache /\ uses' = Append(uses, m)
               /\ Given(f, m, c, gen, outcome) /\ UNCHANGED setup
    BY MediaAdds
  <1>2. PICK outcome \in cache_tokenize_multimedia(f, m) :
            /\ cache_multimodals' = outcome.cache /\ uses' = Append(u, m)
            /\ Given(f, m, c, gen, outcome) /\ UNCHANGED setup
    BY <1>1
  <1>3. /\ u \in Seq(Media) /\ c \in Seq(CacheEntry) /\ c' \in Seq(CacheEntry)
        /\ Len(c) <= Max({0, max_projected_cache})
    <2>1. Inv'
      BY AddMediaKeeps
    <2> QED
      BY <2>1 DEF Inv, Types, MediaTold
  <1> HIDE DEF m, f
  <1> SUFFICES ASSUME max_projected_cache > 0, Supported(f, Append(u, m))
               PROVE  Recent(Append(u, m), outcome.cache)
    BY <1>2 DEF LruInv, f
  <1>4. Supported(f, u) /\ Hears(f) = (m \in Audio)
    <2> DEFINE v == Append(u, m)
               n == Len(u)
    <2>1. n \in Nat /\ DOMAIN u = 1 .. n /\ DOMAIN v = 1 .. n + 1 /\ v[n + 1] = m /\ \A k \in 1 .. n : v[k] = u[k]
      BY <1>1, <1>3, UsedMore
    <2>2. \A k \in DOMAIN v : Hears(f) = (v[k] \in Audio)
      BY DEF Supported
    <2> HIDE DEF v, n, u
    <2>3. \A k \in DOMAIN u : Hears(f) = (u[k] \in Audio)
      <3> SUFFICES ASSUME NEW k \in DOMAIN u PROVE Hears(f) = (u[k] \in Audio)
        OBVIOUS
      <3>1. k \in DOMAIN v /\ v[k] = u[k]
        BY <2>1
      <3> QED
        BY <2>2, <3>1
    <2>4. n + 1 \in DOMAIN v
      BY <2>1
    <2> QED
      BY <2>1, <2>2, <2>3, <2>4 DEF Supported
  <1>5. Recent(u, c)
    BY <1>4 DEF LruInv, f
  <1>6. Len(c) <= max_projected_cache
    BY <1>3, CacheBound
  <1>7. UsedAs(m, c, outcome.cache)
    BY <1>1, <1>3, <1>4, <1>6, CacheUsed
  <1> HIDE DEF u, c
  <1>8. outcome.cache \in Seq(CacheEntry)
    BY <1>2, <1>3 DEF c
  <1> QED
    BY <1>1, <1>3, <1>5, <1>7, <1>8, UseRecent

LEMMA NextRecent ==
    ASSUME Inv, LruInv, [Next]_vars
    PROVE  LruInv'
  <1>1. ASSUME NEW r \in Requests, handler(r) PROVE LruInv'
    <2>1. CASE AddMedia(r)
      BY <2>1, AddMediaRecent
    <2>2. CASE (\E message \in setup.messages : Receive(r, message)) \/ AddText(r) \/ Enqueue(r)
      BY <2>2 DEF Receive, AddText, Enqueue, media_vars, LruInv
    <2> QED
      BY <1>1, <2>1, <2>2 DEF handler
  <1>2. ASSUME NEW r, reconcile(r) PROVE LruInv'
    <2>1. UNCHANGED <<media_vars, uses, setup>>
      BY <1>2 DEF reconcile, Prefill, Decode, Retire, DecodeFails
    <2> QED
      BY <2>1 DEF media_vars, LruInv
  <1>3. CASE UNCHANGED vars
    BY <1>3 DEF vars, media_vars, LruInv
  <1>4. CASE Next
    <2>1. PICK r \in setup.requests : handler(r) \/ reconcile(r)
      BY <1>4 DEF Next
    <2>2. r \in Requests
      BY <2>1, PrefillAssumption DEF Inv, Types
    <2> QED
      BY <1>1, <1>2, <2>1, <2>2
  <1> QED
    BY <1>3, <1>4

LEMMA LruHolds == Spec => []LruInv
  <1>1. Init => LruInv
    <2>1. ASSUME NEW u, u = <<>> PROVE DOMAIN u = {}
      BY <2>1
    <2> SUFFICES ASSUME Init PROVE LruInv
      OBVIOUS
    <2>2. uses = <<>> /\ cache_multimodals = <<>>
      BY DEF Init
    <2>3. DOMAIN uses = {} /\ DOMAIN cache_multimodals = {}
      BY <2>1, <2>2
    <2> QED
      BY <2>3 DEF LruInv, Recent
  <1>2. Inv /\ LruInv /\ [Next]_vars => LruInv'
    BY NextRecent
  <1>3. Inv /\ Counted => Inv
    OBVIOUS
  <1> QED
    BY <1>1, <1>2, <1>3, InvHolds, PTL DEF Spec

(***************************************************************************)
(* Whatever media are used and however many fit: where no more different   *)
(* media than the cache holds were used since a use of a medium, its       *)
(* pieces are still cached.                                                *)
(***************************************************************************)
THEOREM UsedStayCached == Spec => []RecentlyUsedCached
  <1>1. Inv /\ LruInv => RecentlyUsedCached
    <2> SUFFICES ASSUME Inv, LruInv, Supported(setup.family, uses), NEW k \in DOMAIN uses,
                        Cardinality(ToSet(SubSeq(uses, k, Len(uses)))) <= max_projected_cache
                 PROVE  Cached(uses[k]) # {}
      BY DEF RecentlyUsedCached, Supported
    <2> DEFINE S == Since(uses, k)
    <2>1. uses \in Seq(Media)
      BY DEF Inv, Types
    <2>2. Cardinality(S) <= max_projected_cache
      BY <2>1, SinceIs
    <2>3. uses[k] \in S /\ S \subseteq Media
      <3>1. /\ k \in k .. Len(uses)
            /\ \A j \in k .. Len(uses) : uses[j] \in Media
        BY <2>1
      <3> QED
        BY <3>1 DEF Since
    <2>4. max_projected_cache > 0
      <3> HIDE DEF S
      <3>1. IsFiniteSet(S) /\ Cardinality(S) \in Nat /\ Cardinality(S) # 0
        BY <2>3, PromptAssumption, FS_Subset, FS_CardinalityType, FS_EmptySet
      <3> DEFINE q == Cardinality(S)
      <3>2. max_projected_cache \in Int
        BY PromptAssumption
      <3> HIDE DEF q
      <3> QED
        BY <2>2, <3>1, <3>2 DEF q
    <2>5. \E j \in DOMAIN cache_multimodals : cache_multimodals[j].hash = uses[k]
      BY <2>2, <2>4 DEF LruInv, Recent
    <2> QED
      BY <2>5 DEF Cached
  <1>2. Inv /\ Counted => Inv
    OBVIOUS
  <1> QED
    BY <1>1, <1>2, LruHolds, InvHolds, PTL

-----------------------------------------------------------------------------
(* A prompt that begins where its chunks can be cut.                       *)

(* The k-th chunk, in what all chunks say.                                 *)
Lies(chunks, k) ==
    LET before == NumTokens(Upto(chunks, k - 1))
        n      == Len(chunks[k].tokens)
    IN  /\ before + n <= Len(Contents(chunks))
        /\ \A i \in 1 .. n : Contents(chunks)[before + i] = chunks[k].contents[i]

LEMMA UptoAppend ==
    ASSUME NEW front \in Seq(Chunk), NEW x \in Chunk, NEW k \in 0 .. Len(front)
    PROVE  Upto(Append(front, x), k) = Upto(front, k)
  <1> DEFINE q == Append(front, x)
             n == Len(front)
  <1>1. q \in Seq(Chunk) /\ Len(q) = n + 1 /\ n \in Nat /\ \A i \in 1 .. n : q[i] = front[i]
    OBVIOUS
  <1> DEFINE a == SubSeq(q, 1, k)
             b == SubSeq(front, 1, k)
  <1> HIDE DEF q
  <1>2. a \in Seq(Chunk) /\ Len(a) = k /\ \A i \in 1 .. k : a[i] = q[i]
    BY <1>1
  <1>3. b \in Seq(Chunk) /\ Len(b) = k /\ \A i \in 1 .. k : b[i] = front[i]
    OBVIOUS
  <1>4. \A i \in 1 .. k : i \in 1 .. n
    BY <1>1
  <1> HIDE DEF a, b
  <1>5. a = b
    BY <1>1, <1>2, <1>3, <1>4
  <1> QED
    BY <1>5 DEF Upto, a, b, q

LEMMA ChunkSizes ==
    ASSUME NEW chunks \in Seq(Chunk)
    PROVE  /\ Contents(chunks) \in Seq(Int) /\ Tokens(chunks) \in Seq(Int)
           /\ Len(Contents(chunks)) = NumTokens(chunks) /\ NumTokens(chunks) \in Nat
  <1> DEFINE a == Tokens(chunks)
             b == Contents(chunks)
  <1>1. a \in Seq(Int) /\ b \in Seq(Int) /\ Len(a) = Len(b)
    BY BothOf DEF Both
  <1> HIDE DEF a, b
  <1>2. Len(a) \in Nat
    BY <1>1
  <1> QED
    BY <1>1, <1>2 DEF a, b, NumTokens

LEMMA LaidOut ==
    ASSUME NEW chunks \in Seq(Chunk), NEW k \in 1 .. Len(chunks)
    PROVE  Lies(chunks, k)
  <1> DEFINE Good == {n \in Nat : \A q \in Seq(Chunk) : Len(q) = n => \A j \in 1 .. n : Lies(q, j)}
  <1>1. 0 \in Good
    OBVIOUS
  <1>2. ASSUME NEW n \in Nat, n \in Good PROVE n + 1 \in Good
    <2> SUFFICES ASSUME NEW q \in Seq(Chunk), Len(q) = n + 1, NEW j \in 1 .. n + 1 PROVE Lies(q, j)
      OBVIOUS
    <2> DEFINE front == SubSeq(q, 1, n)
               x == q[n + 1]
               a == Contents(front)
               b == x.contents
               before == NumTokens(Upto(q, j - 1))
               m == Len(q[j].tokens)
    <2>1. front \in Seq(Chunk) /\ x \in Chunk /\ Len(front) = n /\ q = Append(front, x)
      <3> HIDE DEF Good
      <3> QED
        BY FrontAndLast
    <2> HIDE DEF front, x
    <2>2. a \in Seq(Int) /\ b \in Seq(Int) /\ Len(b) = Len(x.tokens) /\ Len(a) = NumTokens(front)
      BY <2>1, ChunkSizes DEF Chunk
    <2>3. Contents(q) = a \o b
      BY <2>1, BothOf, OneMore DEF Both
    <2>4. CASE j = n + 1
      <3>1. Upto(q, j - 1) = front
        <4>1. n \in 0 .. Len(front) /\ j - 1 = n /\ Upto(front, Len(front)) = front
          BY <2>1, <2>4, UptoEnds
        <4> QED
          BY <2>1, <4>1, UptoAppend
      <3>2. q[j] = x
        BY <2>4 DEF x
      <3>3. before = Len(a) /\ m = Len(b) /\ q[j].contents = b
        BY <2>2, <3>1, <3>2
      <3> HIDE DEF a, b, before, m
      <3>4. /\ Len(a \o b) = Len(a) + Len(b) /\ Len(a) \in Nat /\ Len(b) \in Nat
            /\ \A i \in 1 .. Len(b) : (a \o b)[Len(a) + i] = b[i]
        <4>1. a \in Seq(Int) /\ b \in Seq(Int)
          BY <2>2
        <4> QED
          BY <4>1, ConcatIs
      <3>5. before + m <= Len(Contents(q)) /\ \A i \in 1 .. m : Contents(q)[before + i] = q[j].contents[i]
        <4>1. Len(a) + Len(b) <= Len(a) + Len(b)
          BY <3>4
        <4> QED
          BY <2>3, <3>3, <3>4, <4>1
      <3> QED
        BY <3>5 DEF Lies, before, m
    <2>5. CASE j # n + 1
      <3>1. j \in 1 .. n /\ j - 1 \in 0 .. n
        BY <2>5
      <3>2. Upto(q, j - 1) = Upto(front, j - 1) /\ q[j] = front[j]
        <4>1. Upto(q, j - 1) = Upto(front, j - 1)
          BY <2>1, <3>1, UptoAppend
        <4>2. q[j] = front[j]
          BY <2>1, <3>1
        <4> QED
          BY <4>1, <4>2
      <3>3. Lies(front, j)
        BY <1>2, <2>1, <3>1
      <3>4. before + m <= Len(a) /\ \A i \in 1 .. m : a[before + i] = q[j].contents[i]
        BY <3>2, <3>3 DEF Lies
      <3>5. before \in Nat /\ m \in Nat
        <4>1. Upto(q, j - 1) \in Seq(Chunk) /\ q[j] \in Chunk
          BY <3>1, UptoNext
        <4> QED
          BY <4>1, ChunkSizes DEF Chunk
      <3> HIDE DEF a, b, before, m
      <3>6. Len(a \o b) >= Len(a) /\ Len(a) \in Nat /\ \A i \in 1 .. Len(a) : (a \o b)[i] = a[i]
        BY <2>2
      <3>7. \A i \in 1 .. m : before + i \in 1 .. Len(a)
        BY <3>4, <3>5, <3>6
      <3>8. Len(Contents(q)) \in Nat
        BY <2>2, <2>3
      <3>9. before + m <= Len(Contents(q)) /\ \A i \in 1 .. m : Contents(q)[before + i] = q[j].contents[i]
        BY <2>3, <3>4, <3>5, <3>6, <3>7, <3>8
      <3> QED
        BY <3>9 DEF Lies, before, m
    <2> QED
      BY <2>4, <2>5
  <1>3. \A n \in Nat : n \in Good
    <2> HIDE DEF Good
    <2> QED
      BY <1>1, <1>2, EveryNumber
  <1> QED
    BY <1>3

(* A part of a chunk behind what is before it.                             *)
LEMMA PartOfChunk ==
    ASSUME NEW chunks \in Seq(Chunk), NEW k \in 1 .. Len(chunks), NEW from \in Nat, from < Len(chunks[k].tokens)
    PROVE  LET all    == Contents(chunks)
               before == NumTokens(Upto(chunks, k - 1))
               n      == Len(chunks[k].tokens)
           IN  SubSeq(all, 1, before + from) \o SubSeq(chunks[k].contents, from + 1, n) = SubSeq(all, 1, before + n)
  <1> DEFINE all == Contents(chunks)
             before == NumTokens(Upto(chunks, k - 1))
             c == chunks[k].contents
             n == Len(chunks[k].tokens)
  <1>1. all \in Seq(Int) /\ before \in Nat /\ c \in Seq(Int) /\ Len(c) = n /\ n \in Nat /\ from < n
    <2>1. chunks[k] \in Chunk /\ before \in Nat /\ all \in Seq(Int)
      BY ChunkSizes, UptoNext
    <2> DEFINE x == chunks[k]
    <2> HIDE DEF x
    <2>2. x \in Chunk => x.contents \in Seq(Int) /\ Len(x.contents) = Len(x.tokens) /\ Len(x.tokens) \in Nat
      BY DEF Chunk
    <2> QED
      BY <2>1, <2>2 DEF x
  <1>2. before + n <= Len(all) /\ \A i \in 1 .. n : all[before + i] = c[i]
    BY LaidOut DEF Lies
  <1> HIDE DEF all, before, c, n
  <1> DEFINE a == SubSeq(all, 1, before + from)
             b == SubSeq(c, from + 1, n)
             d == SubSeq(all, 1, before + n)
  <1>3. /\ a \in Seq(Int) /\ Len(a) = before + from /\ \A i \in 1 .. before + from : a[i] = all[i]
    BY <1>1, <1>2
  <1>4. /\ b \in Seq(Int) /\ Len(b) = n - from /\ \A i \in 1 .. n - from : b[i] = c[from + i]
    BY <1>1
  <1>5. /\ d \in Seq(Int) /\ Len(d) = before + n /\ \A i \in 1 .. before + n : d[i] = all[i]
    BY <1>1, <1>2
  <1> HIDE DEF a, b, d
  <1>6. /\ a \o b \in Seq(Int) /\ Len(a \o b) = Len(a) + Len(b) /\ \A i \in 1 .. Len(a) : (a \o b)[i] = a[i]
        /\ \A i \in 1 .. Len(b) : (a \o b)[Len(a) + i] = b[i]
    <2>1. a \in Seq(Int) /\ b \in Seq(Int)
      BY <1>3, <1>4
    <2> QED
      BY <2>1, ConcatIs
  <1>7. Len(a \o b) = before + n
    BY <1>1, <1>3, <1>4, <1>6
  <1>8. ASSUME NEW i \in 1 .. before + n PROVE (a \o b)[i] = d[i]
    <2>1. CASE i <= before + from
      <3>1. i \in 1 .. before + from
        BY <1>1, <2>1
      <3>2. (a \o b)[i] = a[i] /\ a[i] = all[i] /\ d[i] = all[i]
        BY <1>3, <1>5, <1>6, <3>1
      <3> QED
        BY <3>2
    <2>2. CASE ~ (i <= before + from)
      <3> DEFINE j == i - (before + from)
      <3>1. j \in 1 .. n - from /\ i = (before + from) + j /\ from + j \in 1 .. n /\ i = before + (from + j)
        BY <1>1, <2>2
      <3> HIDE DEF j
      <3>2. (a \o b)[(before + from) + j] = b[j]
        BY <1>3, <1>4, <1>6, <3>1
      <3>3. b[j] = c[from + j] /\ all[before + (from + j)] = c[from + j]
        BY <1>2, <1>4, <3>1
      <3> QED
        BY <1>5, <3>1, <3>2, <3>3
    <2> QED
      BY <2>1, <2>2
  <1>9. a \o b = d
    BY <1>5, <1>6, <1>7, <1>8, SeqEqual
  <1> QED
    BY <1>9 DEF a, b, d, all, before, c, n

(* What a chunk that does not fail leaves.                                 *)
LEMMA DecodedLeaves ==
    ASSUME NEW p \in Progress, NEW chunk \in Chunk, NEW ok \in BOOLEAN, ~ Decoded(p, chunk, ok).failed
    PROVE  LET q    == Decoded(p, chunk, ok)
               from == p.n_prefilled - p.c_prefilled
               n    == Len(chunk.tokens)
               skip == IF chunk.media THEN 0 ELSE from
           IN  /\ ~ p.failed
               /\ \/ from >= n /\ q.n_prefilled = p.n_prefilled /\ q.memory = p.memory
                  \/ /\ from < n /\ q.n_prefilled = p.n_prefilled + n - skip
                     /\ q.memory = p.memory \o SubSeq(chunk.contents, skip + 1, n)
  <1> DEFINE q == Decoded(p, chunk, ok)
             from == p.n_prefilled - p.c_prefilled
             n == Len(chunk.tokens)
             skip == IF chunk.media THEN 0 ELSE from
             part == SubSeq(chunk.contents, skip + 1, n)
             pos == p.pos + n - skip
             prefilled == p.n_prefilled + n - skip
             used == p.used + n - skip
             added == [p EXCEPT !.pos = @ + n - skip, !.n_prefilled = @ + n - skip, !.used = @ + n - skip]
  <1>1. p.n_prefilled \in Nat /\ p.c_prefilled \in Nat /\ n \in Nat
    BY DEF Progress, Chunk
  <1>2. added = [p EXCEPT !.pos = pos, !.n_prefilled = prefilled, !.used = used]
    BY DEF Progress
  <1>3. ~ p.failed
    <2>1. p.failed => q = p
      BY DEF Decoded
    <2> HIDE DEF q
    <2> QED
      BY <2>1 DEF q
  <1>4. CASE from >= n
    <2>1. q = [p EXCEPT !.c_prefilled = @ + n]
      BY <1>3, <1>4 DEF Decoded
    <2>2. q.n_prefilled = p.n_prefilled /\ q.memory = p.memory
      <3> HIDE DEF q, n
      <3> QED
        BY <2>1 DEF Progress
    <2> QED
      BY <1>3, <1>4, <2>2
  <1>5. CASE ~ (from >= n)
    <2>1. q = IF ~ ok THEN [added EXCEPT !.failed = TRUE] ELSE [added EXCEPT !.c_prefilled = @ + n, !.memory = @ \o part]
      BY <1>3, <1>5, Zenon DEF Decoded
    <2> HIDE DEF q, n, from, skip, part, added, pos, prefilled, used
    <2>2. ~ ok => q.failed
      BY <1>2, <2>1 DEF Progress
    <2>3. q = [added EXCEPT !.c_prefilled = @ + n, !.memory = @ \o part]
      BY <2>1, <2>2 DEF q
    <2>4. q.n_prefilled = prefilled /\ q.memory = p.memory \o part
      BY <1>2, <2>3 DEF Progress
    <2>5. from < n
      BY <1>1, <1>5 DEF from
    <2> QED
      BY <1>3, <2>4, <2>5 DEF q, n, from, skip, part, prefilled
  <1> QED
    BY <1>4, <1>5

(* How far a prompt of n cached tokens is after k chunks.                  *)
Reached(chunks, n, k) == IF n >= NumTokens(Upto(chunks, k)) THEN n ELSE NumTokens(Upto(chunks, k))

(* It holds what the chunks say, so far.                                   *)
HoldsUpto(chunks, n, k, p) ==
    ~ p.failed => /\ p.c_prefilled = NumTokens(Upto(chunks, k)) /\ p.n_prefilled = Reached(chunks, n, k)
                  /\ p.memory = SubSeq(Contents(chunks), 1, Reached(chunks, n, k))

(* The k-th chunk is not cut if it is a medium.                            *)
CutAt(chunks, n, k) ==
    LET before == NumTokens(Upto(chunks, k - 1))
    IN  chunks[k].media => n <= before \/ n >= before + Len(chunks[k].tokens)

LEMMA HoldsNext ==
    ASSUME NEW chunks \in Seq(Chunk), NEW k \in 1 .. Len(chunks), NEW n \in Nat, CutAt(chunks, n, k),
           NEW p \in Progress, HoldsUpto(chunks, n, k - 1, p), NEW ok \in BOOLEAN
    PROVE  HoldsUpto(chunks, n, k, Decoded(p, chunks[k], ok))
  <1> DEFINE c == chunks[k]
             q == Decoded(p, c, ok)
             m == Len(c.tokens)
             a == NumTokens(Upto(chunks, k - 1))
             b == NumTokens(Upto(chunks, k))
             from == p.n_prefilled - p.c_prefilled
             skip == IF c.media THEN 0 ELSE from
             all == Contents(chunks)
  <1> SUFFICES ASSUME ~ q.failed
               PROVE  /\ q.c_prefilled = b /\ q.n_prefilled = Reached(chunks, n, k)
                      /\ q.memory = SubSeq(all, 1, Reached(chunks, n, k))
    BY DEF HoldsUpto
  <1>1. c \in Chunk /\ a \in Nat /\ b = a + m
    BY UptoNext
  <1>2. m \in Nat
    BY <1>1 DEF Chunk
  <1>3. /\ ~ p.failed
        /\ \/ from >= m /\ q.n_prefilled = p.n_prefilled /\ q.memory = p.memory
           \/ /\ from < m /\ q.n_prefilled = p.n_prefilled + m - skip
              /\ q.memory = p.memory \o SubSeq(c.contents, skip + 1, m)
    <2> HIDE DEF c
    <2> QED
      BY <1>1, DecodedLeaves
  <1>4. /\ p.c_prefilled = a /\ p.n_prefilled = IF n >= a THEN n ELSE a
        /\ p.memory = SubSeq(all, 1, p.n_prefilled)
    BY <1>3 DEF HoldsUpto, Reached
  <1>5. q.c_prefilled = b
    <2> HIDE DEF c
    <2>1. Decodes(p, Len(c.tokens), q)
      BY <1>1, DecodedOf
    <2> QED
      BY <1>1, <1>4, <2>1 DEF Decodes
  <1>6. c.media => n <= a \/ n >= a + m
    BY DEF CutAt
  <1>7. Reached(chunks, n, k) = IF n >= b THEN n ELSE b
    BY DEF Reached
  <1>8. CASE from >= m /\ q.n_prefilled = p.n_prefilled /\ q.memory = p.memory
    <2> HIDE DEF a, b, m, c, q, all
    <2>1. p.n_prefilled = IF n >= b THEN n ELSE b
      BY <1>1, <1>2, <1>4, <1>8
    <2> QED
      BY <1>4, <1>5, <1>7, <1>8, <2>1
  <1>9. CASE /\ from < m /\ q.n_prefilled = p.n_prefilled + m - skip
             /\ q.memory = p.memory \o SubSeq(c.contents, skip + 1, m)
    <2>1. from \in Nat /\ p.n_prefilled = a + from /\ skip = from /\ b > n /\ p.n_prefilled + m - skip = b
      <3> DEFINE media == c.media
      <3> HIDE DEF a, b, m, c, q, all
      <3>1. from = (IF n >= a THEN n ELSE a) - a
        BY <1>4
      <3>2. from \in Nat /\ p.n_prefilled = a + from /\ b > n
        BY <1>1, <1>2, <1>4, <1>9, <3>1
      <3>3. c.media => from = 0
        BY <1>1, <1>2, <1>6, <1>9, <3>1
      <3>4. skip = from
        BY <3>3
      <3> HIDE DEF skip, from
      <3>5. p.n_prefilled + m - skip = b
        BY <1>1, <1>2, <3>2, <3>4
      <3> QED
        BY <3>2, <3>4, <3>5
    <2>2. SubSeq(all, 1, a + from) \o SubSeq(c.contents, from + 1, m) = SubSeq(all, 1, a + m)
      <3> HIDE DEF from
      <3> QED
        BY <1>9, <2>1, PartOfChunk DEF from
    <2> HIDE DEF a, b, m, c, q, all, from, skip
    <2>3. q.memory = SubSeq(all, 1, b)
      BY <1>1, <1>4, <1>9, <2>1, <2>2
    <2>4. Reached(chunks, n, k) = b
      BY <1>1, <1>2, <1>7, <2>1
    <2> QED
      BY <1>5, <1>9, <2>1, <2>3, <2>4
  <1> QED
    BY <1>3, <1>8, <1>9

LEMMA HoldsAlong ==
    ASSUME NEW chunks \in Seq(Chunk), chunks # <<>>, NEW start, Begins(start), NEW bad, NEW f,
           Prefills(chunks, start, bad, f), NEW n \in Nat, \A k \in 1 .. Len(chunks) : CutAt(chunks, n, k),
           start.n_prefilled = n, start.memory = SubSeq(Contents(chunks), 1, n)
    PROVE  \A k \in 0 .. Len(chunks) - 1 : HoldsUpto(chunks, n, k, f[k])
  <1> DEFINE Good == {k \in Nat : k <= Len(chunks) - 1 => HoldsUpto(chunks, n, k, f[k])}
  <1>0. \A k \in 0 .. Len(chunks) - 1 : f[k] \in Progress
    BY AlongKept DEF Along
  <1>1. 0 \in Good
    <2>1. f[0] = start /\ start.c_prefilled = 0
      BY DEF Prefills, Begins
    <2>2. NumTokens(Upto(chunks, 0)) = 0
      BY UptoEnds
    <2>3. Reached(chunks, n, 0) = n
      BY <2>2 DEF Reached
    <2> QED
      BY <2>1, <2>2, <2>3 DEF HoldsUpto
  <1>2. ASSUME NEW j \in Nat, j \in Good PROVE j + 1 \in Good
    <2> SUFFICES ASSUME j + 1 <= Len(chunks) - 1 PROVE HoldsUpto(chunks, n, j + 1, f[j + 1])
      OBVIOUS
    <2> DEFINE k == j + 1
               ok == k # bad
    <2>1. k \in 1 .. Len(chunks) - 1 /\ k \in 1 .. Len(chunks) /\ k - 1 = j /\ j \in 0 .. Len(chunks) - 1
      OBVIOUS
    <2>2. HoldsUpto(chunks, n, j, f[j])
      BY <1>2, <2>1
    <2>3. f[k] = Decoded(f[j], chunks[k], ok)
      BY <2>1 DEF Prefills
    <2>4. ok \in BOOLEAN /\ f[j] \in Progress /\ CutAt(chunks, n, k)
      BY <1>0, <2>1
    <2> HIDE DEF k, ok, Good
    <2>5. HoldsUpto(chunks, n, k, Decoded(f[j], chunks[k], ok))
      BY <2>1, <2>2, <2>4, HoldsNext
    <2> QED
      BY <2>3, <2>5 DEF k
  <1>3. \A k \in Nat : k \in Good
    <2> HIDE DEF Good
    <2> QED
      BY <1>1, <1>2, EveryNumber
  <1> QED
    BY <1>3

(* A prompt cut there is decoded once, all of it, with something left for  *)
(* the batch.                                                              *)
LEMMA PromptHeld ==
    ASSUME NEW r, NEW s, NEW hit \in [cached : Nat, pos : Nat], NEW bad,
           request[r].chunks \in Seq(Chunk), request[r].chunks # <<>>, Begins(Start(s, hit)),
           CanCut(hit, request[r].chunks), Last(request[r].chunks).tokens # <<>>,
           hit.cached = 0 \/ hit.cached < NumTokens(request[r].chunks),
           SubSeq(memory[s], 1, hit.pos) = SubSeq(Contents(request[r].chunks), 1, hit.cached),
           Chunked(r, s, hit, bad).n_prefilled >= NumTokens(request[r].chunks)
    PROVE  LET p == Chunked(r, s, hit, bad)
           IN  p.memory \o p.batch = Contents(request[r].chunks) /\ p.batch # <<>>
  <1> DEFINE chunks == request[r].chunks
             start == Start(s, hit)
             p == Chunked(r, s, hit, bad)
             last == Len(chunks)
             c == chunks[last]
             m == Len(c.tokens)
             n == hit.cached
             a == NumTokens(Upto(chunks, last - 1))
             all == Contents(chunks)
  <1>1. PICK f : Prefills(chunks, start, bad, f) /\ p = LastChunk(f[last - 1], c)
    BY ChunkedFollows DEF Begins
  <1> DEFINE q == f[last - 1]
             from == q.n_prefilled - q.c_prefilled
  <1>2. /\ chunks \in Seq(Chunk) /\ chunks # <<>> /\ Begins(start) /\ n \in Nat /\ (n = 0 \/ n < NumTokens(chunks))
        /\ p.n_prefilled >= NumTokens(chunks) /\ c.tokens # <<>>
    BY DEF Last
  <1>3. start.n_prefilled = n /\ start.memory = SubSeq(all, 1, n)
    BY DEF Start
  <1>4. \A k \in 1 .. Len(chunks) : CutAt(chunks, n, k)
    BY DEF CanCut, CutAt, Upto
  <1> HIDE DEF p, start, chunks, n
  <1>5. last \in 1 .. Len(chunks) /\ last - 1 \in 0 .. Len(chunks) - 1
    BY <1>2
  <1>6. HoldsUpto(chunks, n, last - 1, q) /\ Along(chunks, start, last - 1, q)
    BY <1>1, <1>2, <1>3, <1>4, <1>5, AlongKept, HoldsAlong
  <1>7. /\ c \in Chunk /\ NumTokens(Upto(chunks, last)) = a + m /\ a \in Nat
    <2> HIDE DEF last
    <2> QED
      BY <1>2, <1>5, UptoNext
  <1>8. NumTokens(chunks) = a + m
    BY <1>2, <1>7, UptoEnds
  <1>9. /\ c.tokens \in Seq(Int) /\ c.contents \in Seq(Int) /\ Len(c.contents) = m /\ m \in Nat /\ m > 0
    <2> HIDE DEF c
    <2>1. c.tokens \in Seq(Int) /\ c.contents \in Seq(Int) /\ Len(c.contents) = Len(c.tokens)
      BY <1>7 DEF Chunk
    <2>2. Len(c.tokens) \in Nat /\ Len(c.tokens) > 0
      BY <1>2, <2>1
    <2> QED
      BY <2>1, <2>2
  <1>10. q \in Progress
    BY <1>6 DEF Along
  <1>11. CutAt(chunks, n, last)
    BY <1>4, <1>5
  <1> HIDE DEF q
  <1>12. Ends(q, m, p)
    <2> HIDE DEF c
    <2> QED
      BY <1>1, <1>7, <1>10, LastOf DEF q
  <1>13. ~ q.failed
    <2>1. p.n_prefilled = q.c_prefilled + m /\ (q.failed => q.c_prefilled < a)
      BY <1>6, <1>12 DEF Ends, Along
    <2>2. q.c_prefilled \in Nat
      BY <1>10 DEF Progress
    <2> HIDE DEF a, m
    <2> QED
      BY <1>2, <1>7, <1>8, <1>9, <2>1, <2>2, SMTT(40)
  <1>14. /\ q.c_prefilled = a /\ q.n_prefilled = (IF n >= a THEN n ELSE a)
         /\ q.memory = SubSeq(all, 1, q.n_prefilled)
    BY <1>6, <1>13 DEF HoldsUpto, Reached
  <1>15. from \in Nat /\ from < m /\ q.n_prefilled = a + from
    <2> HIDE DEF a, m
    <2> QED
      BY <1>2, <1>7, <1>8, <1>9, <1>14
  <1>16. p.batch = SubSeq(c.contents, from + 1, m) /\ p.memory = q.memory
    <2>1. p.batch = SubSeq(c.contents, from + 1, m)
      BY <1>1, <1>10 DEF LastChunk, Progress, q
    <2> QED
      BY <1>12, <2>1 DEF Ends
  <1>17. SubSeq(all, 1, a + from) \o SubSeq(c.contents, from + 1, m) = SubSeq(all, 1, a + m)
    <2> HIDE DEF from, last
    <2> QED
      BY <1>2, <1>5, <1>15, PartOfChunk
  <1>18. SubSeq(all, 1, a + m) = all
    <2>1. all \in Seq(Int) /\ Len(all) = a + m
      BY <1>2, <1>8, ChunkSizes
    <2> HIDE DEF all
    <2> QED
      BY <2>1
  <1>19. p.batch # <<>>
    <2> DEFINE t == c.contents
    <2> HIDE DEF t, from, m
    <2>1. t \in Seq(Int) /\ Len(t) = m /\ m \in Nat /\ from \in Nat /\ from < m
      BY <1>9, <1>15 DEF t
    <2>2. Len(SubSeq(t, from + 1, m)) = m - from
      BY <2>1
    <2>3. m - from # 0
      BY <2>1
    <2>4. SubSeq(t, from + 1, m) # <<>>
      BY <2>2, <2>3
    <2> QED
      BY <1>16, <2>4 DEF t
  <1>20. p.memory \o p.batch = all
    BY <1>14, <1>15, <1>16, <1>17, <1>18
  <1> QED
    BY <1>19, <1>20 DEF p, chunks

-----------------------------------------------------------------------------
(* A dummy token stands for one piece.                                     *)

(* T: pieces of any media with the dummy tokens given out above gen.       *)
Told(f, gen, T) ==
    /\ \A c \in T : \E m \in Media, i \in Nat, d \in Int :
          gen < d /\ d < 0 /\ c = piece(m, i, Extent(f, m), d)
    /\ \A a, b \in T : a.tokens[1] = b.tokens[1] => a = b

(* All that is cached or in a prompt is told apart by T.                   *)
ToldBy(T, f, gen, cache, requests) ==
    /\ Told(f, gen, T)
    /\ \A k \in DOMAIN cache : cache[k].pieces \in Seq(T)
    /\ \A r \in Requests : requests[r].chunks \in Seq(TextChunks \cup T)

PieceInv == \E T : ToldBy(T, setup.family, multimodal_dummy_token_generator, cache_multimodals, request)

(* The same pieces, and new ones, tell apart what is there after a step.   *)
MoreTold(T) ==
    \E U : T \subseteq U /\ ToldBy(U, setup.family', multimodal_dummy_token_generator', cache_multimodals', request')

LEMMA SeqGrows ==
    ASSUME NEW S, NEW T, S \subseteq T, NEW s \in Seq(S)
    PROVE  s \in Seq(T)
  OBVIOUS

LEMMA FirstToken ==
    ASSUME NEW f, NEW m \in Media, NEW i \in Nat, NEW d \in Int
    PROVE  /\ piece(m, i, Extent(f, m), d).tokens[1] = d /\ piece(m, i, Extent(f, m), d).media
           /\ piece(m, i, Extent(f, m), d) \in Chunk
  <1> DEFINE n == Extent(f, m)
  <1>1. n \in Nat \ {0}
    BY CountTyped
  <1>2. m \in Nat
    BY GridTyped
  <1> HIDE DEF n
  <1>3. 1 \in 1 .. n
    BY <1>1
  <1>4. n \in Nat
    BY <1>1
  <1>5. piece(m, i, n, d) \in Chunk /\ piece(m, i, n, d).media
    BY <1>2, <1>4, PieceTyped
  <1>6. \A k \in 1 .. n : piece(m, i, n, d).tokens[k] = d
    BY <1>2, <1>4, PieceTyped
  <1> DEFINE c == piece(m, i, n, d)
  <1>7. c \in Chunk /\ c.media /\ \A k \in 1 .. n : c.tokens[k] = d
    BY <1>5, <1>6
  <1> HIDE DEF c
  <1>8. c.tokens[1] = d
    BY <1>3, <1>7
  <1> QED
    BY <1>7, <1>8 DEF n, c

(* The pieces of a new projection have tokens of their own.                *)
LEMMA NewlyTold ==
    ASSUME NEW f, NEW m \in Media, NEW gen \in Int, gen < 0, NEW T, Told(f, gen, T)
    PROVE  LET p == Projection(f, m, gen)
           IN  Told(f, gen - Count(f, m), T \cup ToSet(p)) /\ p \in Seq(T \cup ToSet(p))
  <1> DEFINE p == Projection(f, m, gen)
             n == Count(f, m)
             low == gen - n
             new(i) == piece(m, i, Extent(f, m), gen - (i - 1))
  <1>1. n \in Nat \ {0} /\ low \in Int
    BY CountTyped
  <1>2. p \in Seq(Chunk) /\ Len(p) = n /\ \A i \in 1 .. n : p[i] = new(i)
    BY ProjectionTyped
  <1>3. \A i \in 1 .. n : /\ i \in Nat /\ gen - (i - 1) \in Int /\ low < gen - (i - 1) /\ gen - (i - 1) < 0
                          /\ gen - (i - 1) <= gen
    BY <1>1
  <1>4. \A i \in 1 .. n : new(i).tokens[1] = gen - (i - 1)
    <2> SUFFICES ASSUME NEW i \in 1 .. n PROVE new(i).tokens[1] = gen - (i - 1)
      OBVIOUS
    <2> DEFINE d == gen - (i - 1)
    <2>1. i \in Nat /\ d \in Int
      BY <1>3
    <2> HIDE DEF d
    <2> QED
      BY <2>1, FirstToken DEF d
  <1>5. \A c \in ToSet(p) : \E i \in 1 .. n : c = new(i)
    BY <1>1, <1>2 DEF ToSet
  <1> HIDE DEF p, n, low
  <1>6. ASSUME NEW c \in T \cup ToSet(p)
        PROVE  \E x \in Media, i \in Nat, d \in Int : low < d /\ d < 0 /\ c = piece(x, i, Extent(f, x), d)
    <2>1. CASE c \in T
      <3>1. PICK x \in Media, i \in Nat, d \in Int : gen < d /\ d < 0 /\ c = piece(x, i, Extent(f, x), d)
        BY <2>1 DEF Told
      <3>2. low < d
        BY <1>1, <3>1 DEF low
      <3> QED
        BY <3>1, <3>2
    <2>2. CASE c \in ToSet(p)
      BY <1>3, <1>5, <2>2
    <2> QED
      BY <2>1, <2>2
  <1>7. \A c \in T : c.tokens[1] \in Int /\ gen < c.tokens[1]
    BY FirstToken DEF Told
  <1>8. ASSUME NEW a \in T \cup ToSet(p), NEW b \in T \cup ToSet(p), a.tokens[1] = b.tokens[1]
        PROVE  a = b
    <2>1. CASE a \in T /\ b \in T
      BY <1>8, <2>1 DEF Told
    <2>2. CASE a \in ToSet(p) /\ b \in ToSet(p)
      <3>1. PICK i \in 1 .. n : a = new(i)
        BY <1>5, <2>2
      <3>2. PICK j \in 1 .. n : b = new(j)
        BY <1>5, <2>2
      <3>3. gen - (i - 1) = gen - (j - 1)
        BY <1>4, <1>8, <3>1, <3>2
      <3>4. i = j
        BY <1>1, <3>3
      <3> QED
        BY <3>1, <3>2, <3>4
    <2>3. \A x \in T, y \in ToSet(p) : x.tokens[1] # y.tokens[1]
      <3> SUFFICES ASSUME NEW x \in T, NEW y \in ToSet(p), x.tokens[1] = y.tokens[1] PROVE FALSE
        OBVIOUS
      <3>1. PICK i \in 1 .. n : y = new(i)
        BY <1>5
      <3>2. x.tokens[1] = gen - (i - 1)
        BY <1>4, <3>1
      <3> DEFINE t == x.tokens[1]
      <3>3. t \in Int /\ gen < t /\ t = gen - (i - 1)
        BY <1>7, <3>2
      <3> HIDE DEF t
      <3> QED
        BY <1>3, <3>3
    <2> QED
      BY <1>8, <2>1, <2>2, <2>3
  <1>9. Told(f, low, T \cup ToSet(p))
    BY <1>6, <1>8 DEF Told
  <1>10. p \in Seq(T \cup ToSet(p))
    <2>1. \A i \in 1 .. Len(p) : p[i] \in ToSet(p)
      BY <1>2 DEF ToSet
    <2>2. p \in Seq(ToSet(p))
      BY <1>2, <2>1
    <2> QED
      BY <2>2, SeqGrows
  <1> QED
    BY <1>9, <1>10 DEF p, n, low

(* What a use gives and leaves is told apart.                              *)
GivesApart(f, T, gen, outcome) ==
    \E U : /\ T \subseteq U /\ Told(f, gen - outcome.made, U) /\ outcome.pieces \in Seq(U)
           /\ \A j \in DOMAIN outcome.cache : outcome.cache[j].pieces \in Seq(U)

LEMMA GivenApart ==
    ASSUME NEW f, NEW m \in Media, NEW cache, NEW gen \in Int, gen < 0, NEW outcome, Given(f, m, cache, gen, outcome),
           NEW T, Told(f, gen, T), \A k \in DOMAIN cache : cache[k].pieces \in Seq(T)
    PROVE  GivesApart(f, T, gen, outcome)
  <1>1. \E U : T \subseteq U /\ Told(f, gen - outcome.made, U) /\ outcome.pieces \in Seq(U)
    <2>1. CASE outcome.made = 0 /\ outcome.pieces \in Seq(T)
      <3>1. gen - outcome.made = gen
        BY <2>1
      <3> QED
        BY <2>1, <3>1
    <2>2. CASE outcome.made = Count(f, m) /\ outcome.pieces = Projection(f, m, gen)
      <3> DEFINE U == T \cup ToSet(Projection(f, m, gen))
      <3>1. Told(f, gen - Count(f, m), U) /\ Projection(f, m, gen) \in Seq(U)
        BY NewlyTold
      <3>2. T \subseteq U
        OBVIOUS
      <3> HIDE DEF U
      <3> QED
        BY <2>2, <3>1, <3>2
    <2>3. <<>> \in Seq(T)
      OBVIOUS
    <2>4. \/ outcome.made = 0 /\ outcome.pieces = <<>>
          \/ outcome.made = 0 /\ \E k \in DOMAIN cache : cache[k].hash = m /\ outcome.pieces = cache[k].pieces
          \/ outcome.made = Count(f, m) /\ outcome.pieces = Projection(f, m, gen)
      BY DEF Given
    <2> QED
      BY <2>1, <2>2, <2>3, <2>4
  <1>2. PICK U : T \subseteq U /\ Told(f, gen - outcome.made, U) /\ outcome.pieces \in Seq(U)
    BY <1>1
  <1>3. \A k \in DOMAIN cache : cache[k].pieces \in Seq(U)
    BY <1>2, SeqGrows
  <1>4. \A j \in DOMAIN outcome.cache : outcome.cache[j].pieces \in Seq(U)
    <2> SUFFICES ASSUME NEW j \in DOMAIN outcome.cache PROVE outcome.cache[j].pieces \in Seq(U)
      OBVIOUS
    <2>1. CASE \E k \in DOMAIN cache : outcome.cache[j] = cache[k]
      BY <1>3, <2>1
    <2>2. CASE outcome.cache[j] = [hash |-> m, pieces |-> outcome.pieces]
      <3> DEFINE e == outcome.cache[j]
      <3>1. e.pieces = outcome.pieces
        BY <2>2
      <3> HIDE DEF e
      <3> QED
        BY <1>2, <3>1 DEF e
    <2> QED
      BY <2>1, <2>2 DEF Given
  <1> QED
    BY <1>2, <1>4 DEF GivesApart

(* A step that gives one request chunks of the same pieces.                *)
LEMMA PieceStep ==
    ASSUME Inv, NEW T, ToldBy(T, setup.family, multimodal_dummy_token_generator, cache_multimodals, request),
           NEW r \in Requests, NEW new, request' = [request EXCEPT ![r] = new],
           new.chunks \in Seq(TextChunks \cup T), UNCHANGED <<setup, media_vars>>
    PROVE  MoreTold(T)
  <1>1. \A q \in Requests : request'[q] = IF q = r THEN new ELSE request[q]
    BY DEF Inv, Types
  <1>2. \A q \in Requests : request'[q].chunks \in Seq(TextChunks \cup T)
    BY <1>1 DEF ToldBy
  <1>3. ToldBy(T, setup.family, multimodal_dummy_token_generator, cache_multimodals, request')
    BY <1>2 DEF ToldBy
  <1> QED
    BY <1>3 DEF MoreTold, media_vars

LEMMA AddMediaTells ==
    ASSUME Inv, NEW T, ToldBy(T, setup.family, multimodal_dummy_token_generator, cache_multimodals, request),
           NEW r \in Requests, AddMedia(r)
    PROVE  MoreTold(T)
  <1> DEFINE f == setup.family
             m == Head(request[r].message).media
             cache == cache_multimodals
             gen == multimodal_dummy_token_generator
             old == request[r]
  <1>1. /\ m \in Media /\ f \in Families
        /\ \E outcome \in cache_tokenize_multimedia(f, m), new \in Rec :
               /\ request' = [request EXCEPT ![r] = new] /\ MediaAdded(f, m, old, new, outcome)
               /\ cache_multimodals' = outcome.cache /\ uses' = Append(uses, m)
               /\ multimodal_dummy_token_generator' = multimodal_dummy_token_generator - outcome.made
               /\ Given(f, m, cache_multimodals, multimodal_dummy_token_generator, outcome)
               /\ UNCHANGED setup
    BY MediaAdds
  <1>2. PICK outcome \in cache_tokenize_multimedia(f, m), new \in Rec :
               /\ request' = [request EXCEPT ![r] = new] /\ MediaAdded(f, m, old, new, outcome)
               /\ cache_multimodals' = outcome.cache
               /\ multimodal_dummy_token_generator' = gen - outcome.made
               /\ Given(f, m, cache, gen, outcome) /\ UNCHANGED setup
    BY <1>1
  <1>3. gen \in Int /\ gen < 0 /\ MediaTold(f, cache, gen) /\ request \in [Requests -> Rec]
    BY DEF Inv, MediaTold, Types
  <1>4. /\ ToldBy(T, f, gen, cache, request) /\ Told(f, gen, T)
        /\ \A k \in DOMAIN cache : cache[k].pieces \in Seq(T)
    BY DEF ToldBy
  <1> HIDE DEF f, m, cache, gen, old
  <1>5. PICK U : /\ T \subseteq U /\ Told(f, gen - outcome.made, U) /\ outcome.pieces \in Seq(U)
                 /\ \A j \in DOMAIN outcome.cache : outcome.cache[j].pieces \in Seq(U)
    <2>1. m \in Media /\ gen \in Int /\ gen < 0 /\ Given(f, m, cache, gen, outcome) /\ Told(f, gen, T)
      BY <1>1, <1>2, <1>3, <1>4
    <2>2. \A k \in DOMAIN cache : cache[k].pieces \in Seq(T)
      BY <1>4
    <2>3. GivesApart(f, T, gen, outcome)
      BY <2>1, <2>2, GivenApart
    <2> QED
      BY <2>3 DEF GivesApart
  <1> DEFINE C == TextChunks \cup U
  <1>6. \A q \in Requests : request[q].chunks \in Seq(C)
    <2>1. TextChunks \cup T \subseteq C
      BY <1>5
    <2> HIDE DEF C
    <2> QED
      BY <1>4, <2>1, SeqGrows DEF ToldBy
  <1>7. new.chunks \in Seq(C)
    <2>0. old.chunks \in Seq(C)
      BY <1>6 DEF old
    <2>1. CASE outcome.pieces = <<>>
      BY <1>2, <2>0, <2>1 DEF MediaAdded
    <2>2. CASE outcome.pieces # <<>>
      <3> DEFINE bos == old.chunks = <<>>
                 w == Wrapped(f, m, outcome.pieces, bos)
      <3>1. TextChunks \subseteq C /\ outcome.pieces \in Seq(C)
        <4>1. TextChunks \subseteq C /\ U \subseteq C
          OBVIOUS
        <4> HIDE DEF C
        <4> QED
          BY <1>5, <4>1, SeqGrows
      <3>2. Hears(f) = (m \in Audio) /\ outcome.pieces \in Projections(f, m, gen - outcome.made)
        BY <1>1, <1>2, <1>3, <2>2, GivenTold
      <3>3. Len(outcome.pieces) = Count(f, m)
        BY <1>1, <3>2, ProjectionTyped DEF Projections
      <3>4. bos \in BOOLEAN /\ new.chunks = old.chunks \o w
        BY <1>2, <2>2 DEF MediaAdded
      <3> HIDE DEF C, bos
      <3>5. w \in Seq(C)
        BY <1>1, <3>1, <3>2, <3>3, <3>4, WrappedOf
      <3> HIDE DEF w
      <3> QED
        BY <2>0, <3>4, <3>5, ConcatTyped
    <2> QED
      BY <2>1, <2>2
  <1>8. \A q \in Requests : request'[q].chunks \in Seq(C)
    <2>1. \A q \in Requests : request'[q] = IF q = r THEN new ELSE request[q]
      BY <1>2, <1>3
    <2> HIDE DEF C
    <2> QED
      BY <1>6, <1>7, <2>1
  <1>9. ToldBy(U, f, gen - outcome.made, outcome.cache, request')
    BY <1>5, <1>8 DEF ToldBy
  <1> QED
    BY <1>2, <1>5, <1>9 DEF MoreTold, f

LEMMA NextTells ==
    ASSUME Inv, NEW T, ToldBy(T, setup.family, multimodal_dummy_token_generator, cache_multimodals, request),
           [Next]_vars
    PROVE  MoreTold(T)
  <1>0. ToldBy(T, setup.family, multimodal_dummy_token_generator, cache_multimodals, request)
    OBVIOUS
  <1> DEFINE C == TextChunks \cup T
  <1>1. /\ \A q \in Requests : request[q] \in Rec /\ request[q].chunks \in Seq(C)
        /\ TextChunks \subseteq C /\ <<>> \in Seq(C)
    BY <1>0 DEF ToldBy, Inv, Types
  <1> HIDE DEF C
  <1>2. ASSUME NEW r \in Requests, NEW new, request' = [request EXCEPT ![r] = new], new.chunks \in Seq(C),
               UNCHANGED <<setup, media_vars>>
        PROVE  MoreTold(T)
    BY <1>0, <1>2, PieceStep DEF C
  <1>3. ASSUME NEW r \in Requests, NEW message, message \in setup.messages, Receive(r, message) PROVE MoreTold(T)
    <2> DEFINE old == request[r]
               texts == FlattenSeq([k \in DOMAIN message |-> message[k].text])
               prompt == PlainPrompt(texts)
               rec == [old EXCEPT !.asked = message]
               new == CASE ~IsPlain(message) -> [rec EXCEPT !.state = "tokenizing", !.message = message]
                        [] IsPlain(message) /\ prompt = <<>> -> [rec EXCEPT !.state = "refused"]
                        [] OTHER -> [rec EXCEPT !.state = "queued", !.chunks = <<text_chunk(prompt)>>]
    <2>1. request' = [request EXCEPT ![r] = new] /\ UNCHANGED <<setup, media_vars>>
      BY <1>3 DEF Receive
    <2>2. text_chunk(prompt) \in C
      <3>1. message \in Seq(Part)
        <4>1. Types /\ message \in setup.messages
          BY <1>3 DEF Inv
        <4> QED
          BY <4>1, MessageTyped
      <3>2. texts \in Seq(Nat)
        BY <3>1, TextsTyped
      <3> HIDE DEF texts
      <3>3. prompt \in Seq(Nat)
        BY <3>2, PlainTyped
      <3> QED
        BY <1>1, <3>3 DEF TextChunks
    <2> DEFINE c == <<text_chunk(prompt)>>
    <2>3. c \in Seq(C)
      BY <2>2
    <2>4. old \in Rec /\ old.chunks \in Seq(C)
      BY <1>1
    <2>5. new = [rec EXCEPT !.state = "tokenizing", !.message = message]
          \/ new = [rec EXCEPT !.state = "refused"]
          \/ new = [rec EXCEPT !.state = "queued", !.chunks = c]
      BY <2>3
    <2> HIDE DEF new, c, old
    <2>6. new.chunks = old.chunks \/ new.chunks = c
      BY <2>4, <2>5 DEF Rec
    <2> QED
      BY <1>2, <2>1, <2>3, <2>4, <2>6
  <1>4. ASSUME NEW r \in Requests, AddText(r) PROVE MoreTold(T)
    <2> DEFINE old == request[r]
               t == Head(old.message).text
               chunk == tokenize(t, old.chunks = <<>>)
               new == [old EXCEPT !.chunks = Append(@, chunk), !.message = Tail(@)]
    <2>1. request' = [request EXCEPT ![r] = new] /\ UNCHANGED <<setup, media_vars>> /\ old.message # <<>> /\ old \in Rec
      BY <1>1, <1>4 DEF AddText
    <2>2. t \in Seq(Nat)
      <3> DEFINE q == old.message
      <3>1. q \in Seq(Part) /\ q # <<>>
        BY <2>1 DEF Rec
      <3> HIDE DEF q
      <3>2. Head(q) \in Part
        BY <3>1, HeadTail
      <3> QED
        BY <3>2 DEF Part, q
    <2>3. chunk \in C
      <3> DEFINE bos == old.chunks = <<>>
      <3>1. bos \in BOOLEAN
        OBVIOUS
      <3> HIDE DEF t, bos
      <3>2. \E x \in Seq(Nat) : tokenize(t, bos) = text_chunk(x)
        BY <2>2, <3>1, Tokenized
      <3> QED
        BY <1>1, <3>2 DEF TextChunks, bos
    <2> HIDE DEF chunk
    <2>4. new.chunks = Append(old.chunks, chunk)
      <3> HIDE DEF old
      <3> QED
        BY <2>1 DEF Rec
    <2> HIDE DEF new, old
    <2>5. new.chunks \in Seq(C)
      BY <1>1, <2>3, <2>4, AppendTyped DEF old
    <2> QED
      BY <1>2, <2>1, <2>5
  <1>5. ASSUME NEW r \in Requests, Enqueue(r) PROVE MoreTold(T)
    <2> DEFINE old == request[r]
               state == IF TooLong(NumTokens(old.chunks)) THEN "refused" ELSE "queued"
               new == [old EXCEPT !.state = state]
    <2>1. request' = [request EXCEPT ![r] = new] /\ UNCHANGED <<setup, media_vars>> /\ old \in Rec
      BY <1>1, <1>5 DEF Enqueue
    <2> HIDE DEF state
    <2>2. new.chunks = old.chunks
      <3> HIDE DEF old
      <3> QED
        BY <2>1 DEF Rec
    <2> HIDE DEF new
    <2> QED
      BY <1>1, <1>2, <2>1, <2>2
  <1>6. ASSUME NEW r \in Requests, reconcile(r) PROVE MoreTold(T)
    <2>1. PICK rec \in Rec : /\ request' = [request EXCEPT ![r] = rec]
                             /\ rec.chunks = <<>> \/ rec.chunks = request[r].chunks
      BY <1>6, ReconcileServes DEF Served
    <2>2. UNCHANGED <<setup, media_vars>>
      BY <1>6, ReconcileServes
    <2> QED
      BY <1>1, <1>2, <2>1, <2>2
  <1>7. CASE UNCHANGED vars
    BY <1>7 DEF vars, media_vars, MoreTold
  <1>8. CASE Next
    <2>1. PICK r \in setup.requests : handler(r) \/ reconcile(r)
      BY <1>8 DEF Next
    <2>2. r \in Requests
      BY <2>1, PrefillAssumption DEF Inv, Types
    <2> QED
      BY <1>3, <1>4, <1>5, <1>6, <2>1, <2>2, AddMediaTells DEF handler
  <1> QED
    BY <1>7, <1>8

LEMMA PieceFrom ==
    ASSUME NEW a \in Pieces
    PROVE  \/ \E k \in DOMAIN cache_multimodals : a \in ToSet(cache_multimodals[k].pieces)
           \/ \E r \in In("queued") : a \in ToSet(request[r].chunks) /\ a.media
  <1> DEFINE A == {ToSet(cache_multimodals[k].pieces) : k \in DOMAIN cache_multimodals}
             B == {{c \in ToSet(request[r].chunks) : c.media} : r \in In("queued")}
  <1>1. Pieces = (UNION A) \cup (UNION B)
    BY DEF Pieces
  <1>2. \A x \in A : \E k \in DOMAIN cache_multimodals : x = ToSet(cache_multimodals[k].pieces)
    OBVIOUS
  <1>3. \A x \in B : \E r \in In("queued") : x = {c \in ToSet(request[r].chunks) : c.media}
    OBVIOUS
  <1> HIDE DEF A, B
  <1>4. CASE a \in UNION A
    BY <1>2, <1>4
  <1>5. CASE a \in UNION B
    <2>1. PICK r \in In("queued") : a \in {c \in ToSet(request[r].chunks) : c.media}
      BY <1>3, <1>5
    <2> QED
      BY <2>1
  <1> QED
    BY <1>1, <1>4, <1>5

LEMMA InitTold ==
    ASSUME Init
    PROVE  ToldBy({}, setup.family, multimodal_dummy_token_generator, cache_multimodals, request)
  <1>1. Told(setup.family, multimodal_dummy_token_generator, {})
    BY DEF Told
  <1>2. \A r \in Requests : request[r].chunks = <<>>
    BY DEF Init, NewRequest
  <1>3. <<>> \in Seq(TextChunks \cup {})
    OBVIOUS
  <1>4. \A k \in DOMAIN cache_multimodals : FALSE
    <2>1. cache_multimodals = <<>>
      BY DEF Init
    <2> QED
      BY <2>1
  <1> QED
    BY <1>1, <1>2, <1>3, <1>4 DEF ToldBy

LEMMA PiecesHold == Spec => []PieceInv
  <1>1. Init => PieceInv
    BY InitTold DEF PieceInv
  <1>2. Inv /\ PieceInv /\ [Next]_vars => PieceInv'
    BY NextTells DEF PieceInv, MoreTold
  <1>3. Inv /\ Counted => Inv
    OBVIOUS
  <1> QED
    BY <1>1, <1>2, <1>3, InvHolds, PTL DEF Spec

(***************************************************************************)
(* However often media are projected, cached and evicted: what the prompt  *)
(* cache takes for equal, two pieces with the same dummy token, is equal.  *)
(***************************************************************************)
THEOREM PiecesApart == Spec => []PiecesTold
  <1>1. PieceInv => PiecesTold
    <2> SUFFICES ASSUME PieceInv, NEW a \in Pieces, NEW b \in Pieces, a.tokens[1] = b.tokens[1]
                 PROVE  a.contents = b.contents
      BY DEF PiecesTold
    <2>1. PICK T : ToldBy(T, setup.family, multimodal_dummy_token_generator, cache_multimodals, request)
      BY DEF PieceInv
    <2>2. Pieces \subseteq T
      <3> SUFFICES ASSUME NEW c \in Pieces PROVE c \in T
        OBVIOUS
      <3>1. CASE \E k \in DOMAIN cache_multimodals : c \in ToSet(cache_multimodals[k].pieces)
        <4>1. PICK k \in DOMAIN cache_multimodals : c \in ToSet(cache_multimodals[k].pieces)
          BY <3>1
        <4> DEFINE s == cache_multimodals[k].pieces
        <4>2. s \in Seq(T) /\ c \in ToSet(s)
          BY <2>1, <4>1 DEF ToldBy
        <4> HIDE DEF s
        <4> QED
          BY <4>2 DEF ToSet
      <3>2. CASE \E r \in Requests : c \in ToSet(request[r].chunks) /\ c.media
        <4>1. PICK r \in Requests : c \in ToSet(request[r].chunks) /\ c.media
          BY <3>2
        <4> DEFINE s == request[r].chunks
                   C == TextChunks \cup T
        <4>2. s \in Seq(C) /\ c \in ToSet(s) /\ c.media
          BY <2>1, <4>1 DEF ToldBy
        <4> HIDE DEF s, C
        <4>3. c \in C
          BY <4>2 DEF ToSet
        <4>4. c \notin TextChunks
          BY <4>2 DEF TextChunks, text_chunk
        <4> QED
          BY <4>3, <4>4 DEF C
      <3>3. \/ \E k \in DOMAIN cache_multimodals : c \in ToSet(cache_multimodals[k].pieces)
            \/ \E r \in In("queued") : c \in ToSet(request[r].chunks) /\ c.media
        BY PieceFrom
      <3> QED
        BY <3>1, <3>2, <3>3 DEF In
    <2>3. a = b
      BY <2>1, <2>2 DEF ToldBy, Told
    <2> QED
      BY <2>3
  <1> QED
    BY <1>1, PiecesHold, PTL

-----------------------------------------------------------------------------
(* What the tokens of a context stand for.                                 *)

(* A piece is its dummy token, repeated.                                   *)
Apart(T) ==
    /\ \A c \in T : /\ c \in Chunk /\ c.tokens[1] \in Int /\ c.tokens[1] < 0 /\ Len(c.tokens) \in Nat \ {0}
                    /\ \A k \in 1 .. Len(c.tokens) : c.tokens[k] = c.tokens[1]
    /\ \A a, b \in T : a.tokens[1] = b.tokens[1] => a = b

LEMMA ToldApart ==
    ASSUME NEW f, NEW gen \in Int, NEW T, Told(f, gen, T)
    PROVE  Apart(T)
  <1> SUFFICES ASSUME NEW c \in T
               PROVE  /\ c \in Chunk /\ c.tokens[1] \in Int /\ c.tokens[1] < 0 /\ Len(c.tokens) \in Nat \ {0}
                      /\ \A k \in 1 .. Len(c.tokens) : c.tokens[k] = c.tokens[1]
    BY DEF Apart, Told
  <1>1. PICK m \in Media, i \in Nat, d \in Int : gen < d /\ d < 0 /\ c = piece(m, i, Extent(f, m), d)
    BY DEF Told
  <1> DEFINE n == Extent(f, m)
  <1>2. n \in Nat \ {0} /\ n \in Nat /\ m \in Nat
    BY CountTyped, GridTyped
  <1>3. c = piece(m, i, n, d)
    BY <1>1
  <1> HIDE DEF n
  <1>4. c \in Chunk /\ Len(c.tokens) = n /\ \A k \in 1 .. n : c.tokens[k] = d
    <2>1. piece(m, i, n, d) \in Chunk /\ Len(piece(m, i, n, d).tokens) = n
      BY <1>2, PieceTyped
    <2>2. \A k \in 1 .. n : piece(m, i, n, d).tokens[k] = d
      BY <1>2, PieceTyped
    <2> QED
      BY <1>3, <2>1, <2>2
  <1>5. 1 \in 1 .. n
    BY <1>2
  <1>6. c.tokens[1] = d
    BY <1>4, <1>5
  <1> QED
    BY <1>1, <1>2, <1>4, <1>6

(* What a context says, if T tells its pieces.                             *)
Means(T, tokens, contents) ==
    \E chunks \in Seq(TextChunks \cup T) : Tokens(chunks) = tokens /\ Contents(chunks) = contents

(* Token by token: the p-th is the off[p]-th of its piece, which goes on   *)
(* as far as there is more of it.                                          *)
PartAt(T, t, a, off, p) ==
    IF t[p] >= 0 THEN a[p] = t[p]
    ELSE \E c \in T :
            /\ c.tokens[1] = t[p] /\ off[p] \in 1 .. Len(c.contents) /\ a[p] = c.contents[off[p]]
            /\ off[p] = IF p > 1 /\ t[p - 1] = t[p] /\ off[p - 1] < Len(c.contents) THEN off[p - 1] + 1 ELSE 1

Parts(T, t, a, off) ==
    /\ t \in Seq(Int) /\ a \in Seq(Int) /\ Len(a) = Len(t)
    /\ \A p \in 1 .. Len(t) : PartAt(T, t, a, off, p)

(* No piece is left open.                                                  *)
Whole(T, t, off) ==
    LET n == Len(t)
    IN  n = 0 \/ t[n] >= 0 \/ \E c \in T : c.tokens[1] = t[n] /\ off[n] = Len(c.contents)

LEMMA PartStays ==
    ASSUME NEW T, NEW t, NEW a, NEW off, NEW p, PartAt(T, t, a, off, p), NEW u, NEW b, NEW o,
           u[p] = t[p], b[p] = a[p], o[p] = off[p], p > 1 => u[p - 1] = t[p - 1] /\ o[p - 1] = off[p - 1]
    PROVE  PartAt(T, u, b, o, p)
  <1>1. CASE t[p] >= 0
    BY <1>1 DEF PartAt
  <1>2. CASE ~ (t[p] >= 0)
    <2>1. PICK c \in T :
            /\ c.tokens[1] = t[p] /\ off[p] \in 1 .. Len(c.contents) /\ a[p] = c.contents[off[p]]
            /\ off[p] = IF p > 1 /\ t[p - 1] = t[p] /\ off[p - 1] < Len(c.contents) THEN off[p - 1] + 1 ELSE 1
      BY <1>2 DEF PartAt
    <2>2. o[p] = IF p > 1 /\ u[p - 1] = u[p] /\ o[p - 1] < Len(c.contents) THEN o[p - 1] + 1 ELSE 1
      BY <2>1
    <2> QED
      BY <1>2, <2>1, <2>2 DEF PartAt
  <1> QED
    BY <1>1, <1>2

LEMMA PartsNext ==
    ASSUME NEW T, Apart(T), NEW t, NEW a, NEW off, Parts(T, t, a, off), Whole(T, t, off), NEW x \in TextChunks \cup T
    PROVE  \E o : Parts(T, t \o x.tokens, a \o x.contents, o) /\ Whole(T, t \o x.tokens, o)
  <1> DEFINE v == x.tokens
             w == x.contents
             u == t \o v
             b == a \o w
             n == Len(t)
             m == Len(v)
             o == [p \in 1 .. n + m |-> IF p <= n THEN off[p] ELSE p - n]
  <1>1. /\ x \in Chunk
        /\ x \in T \/ (\A i \in 1 .. m : v[i] \in Nat /\ w[i] = v[i])
    <2>1. CASE x \in T
      BY <2>1 DEF Apart
    <2>2. CASE x \in TextChunks
      <3>1. PICK s \in Seq(Nat) : x = text_chunk(s)
        BY <2>2 DEF TextChunks
      <3>2. x \in Chunk /\ v = s /\ w = s
        BY <3>1, TextChunk
      <3> HIDE DEF v, w
      <3> QED
        BY <3>2
    <2> QED
      BY <2>1, <2>2
  <1>2. v \in Seq(Int) /\ w \in Seq(Int) /\ Len(w) = m /\ m \in Nat /\ t \in Seq(Int) /\ a \in Seq(Int) /\ Len(a) = n /\ n \in Nat
    <2>1. v \in Seq(Int) /\ w \in Seq(Int) /\ Len(w) = m
      BY <1>1 DEF Chunk
    <2>2. t \in Seq(Int) /\ a \in Seq(Int) /\ Len(a) = n
      BY DEF Parts
    <2> HIDE DEF v, w
    <2> QED
      BY <2>1, <2>2
  <1> HIDE DEF v, w
  <1>3. /\ u \in Seq(Int) /\ Len(u) = n + m /\ (\A i \in 1 .. n : u[i] = t[i]) /\ \A i \in 1 .. m : u[n + i] = v[i]
    BY <1>2, ConcatIs
  <1>4. /\ b \in Seq(Int) /\ Len(b) = n + m /\ (\A i \in 1 .. n : b[i] = a[i]) /\ \A i \in 1 .. m : b[n + i] = w[i]
    <2>1. /\ b \in Seq(Int) /\ Len(b) = Len(a) + Len(w) /\ (\A i \in 1 .. Len(a) : b[i] = a[i])
          /\ \A i \in 1 .. Len(w) : b[Len(a) + i] = w[i]
      <3>1. a \in Seq(Int) /\ w \in Seq(Int)
        BY <1>2
      <3> HIDE DEF n, m
      <3> QED
        BY <3>1, ConcatIs
    <2> HIDE DEF b
    <2> QED
      BY <1>2, <2>1
  <1>5. (\A p \in 1 .. n : o[p] = off[p]) /\ \A i \in 1 .. m : o[n + i] = i
    <2>1. \A p \in 1 .. n : p \in 1 .. n + m /\ p <= n
      BY <1>2
    <2>2. \A i \in 1 .. m : n + i \in 1 .. n + m /\ ~ (n + i <= n) /\ (n + i) - n = i
      BY <1>2
    <2> HIDE DEF n, m
    <2> QED
      BY <2>1, <2>2
  <1> HIDE DEF u, b, o, n, m
  <1>6. \A p \in 1 .. n : PartAt(T, t, a, off, p)
    BY DEF Parts, n
  <1>7. ASSUME NEW p \in 1 .. n PROVE PartAt(T, u, b, o, p)
    <2>1. p > 1 => p - 1 \in 1 .. n
      BY <1>2
    <2> QED
      BY <1>3, <1>4, <1>5, <1>6, <2>1, PartStays
  <1>8. n = 0 \/ t[n] >= 0 \/ \E c \in T : c.tokens[1] = t[n] /\ off[n] = Len(c.contents)
    BY DEF Whole, n
  <1>9. n > 0 => n \in 1 .. n
    BY <1>2
  <1>10. CASE x \in T
    <2> DEFINE d == v[1]
    <2>1. d \in Int /\ d < 0 /\ m > 0 /\ (\A k \in 1 .. m : v[k] = d)
      BY <1>10 DEF Apart, v, m
    <2>2. \A c \in T : c.tokens[1] = d => c = x
      BY <1>10 DEF Apart, v
    <2>3. x.tokens[1] = d /\ x.contents = w
      BY DEF v, w
    <2> HIDE DEF d
    <2>4. ASSUME NEW i \in 1 .. m PROVE PartAt(T, u, b, o, n + i)
      <3> DEFINE p == n + i
      <3>1. u[p] = d /\ b[p] = w[i] /\ o[p] = i /\ i \in 1 .. Len(w)
        BY <1>2, <1>3, <1>4, <1>5, <2>1
      <3>2. ~ (u[p] >= 0)
        BY <2>1, <3>1
      <3>3. o[p] = IF p > 1 /\ u[p - 1] = u[p] /\ o[p - 1] < Len(w) THEN o[p - 1] + 1 ELSE 1
        <4>1. CASE i = 1
          <5>1. p - 1 = n /\ (p > 1 => n > 0)
            BY <1>2, <4>1
          <5>2. ASSUME n > 0, t[n] = d PROVE ~ (off[n] < Len(w))
            <6>1. ~ (t[n] >= 0) /\ n # 0
              BY <1>2, <2>1, <5>2
            <6>2. PICK c \in T : c.tokens[1] = t[n] /\ off[n] = Len(c.contents)
              BY <1>8, <6>1
            <6>3. off[n] = m
              BY <1>2, <2>2, <2>3, <5>2, <6>2
            <6> QED
              BY <1>2, <6>3
          <5>3. n > 0 => u[n] = t[n] /\ o[n] = off[n]
            BY <1>3, <1>5, <1>9
          <5> HIDE DEF p
          <5> QED
            BY <3>1, <4>1, <5>1, <5>2, <5>3
        <4>2. CASE i # 1
          <5>1. i - 1 \in 1 .. m /\ p - 1 = n + (i - 1) /\ p > 1 /\ i - 1 < m /\ (i - 1) + 1 = i
            BY <1>2, <4>2
          <5>2. u[n + (i - 1)] = d /\ o[n + (i - 1)] = i - 1
            BY <1>3, <1>5, <2>1, <5>1
          <5> HIDE DEF p
          <5> QED
            BY <1>2, <3>1, <5>1, <5>2
        <4> QED
          BY <4>1, <4>2
      <3> HIDE DEF p
      <3> QED
        BY <1>10, <2>3, <3>1, <3>2, <3>3 DEF PartAt, p
    <2>5. Whole(T, u, o)
      <3>1. m \in 1 .. m
        BY <1>2, <2>1
      <3>2. u[n + m] = d /\ o[n + m] = Len(w)
        BY <1>2, <1>3, <1>5, <2>1, <3>1
      <3> QED
        BY <1>3, <1>10, <2>3, <3>2 DEF Whole
    <2>6. \A p \in 1 .. n + m : p \in 1 .. n \/ \E i \in 1 .. m : p = n + i
      <3> SUFFICES ASSUME NEW p \in 1 .. n + m, ~ (p <= n) PROVE \E i \in 1 .. m : p = n + i
        BY <1>2
      <3>1. p - n \in 1 .. m /\ p = n + (p - n)
        BY <1>2
      <3> QED
        BY <3>1
    <2>7. Parts(T, u, b, o)
      BY <1>3, <1>4, <1>7, <2>4, <2>6 DEF Parts
    <2> QED
      BY <2>5, <2>7 DEF u, b, v, w
  <1>11. CASE \A i \in 1 .. m : v[i] \in Nat /\ w[i] = v[i]
    <2>1. ASSUME NEW i \in 1 .. m PROVE PartAt(T, u, b, o, n + i)
      <3> DEFINE p == n + i
      <3>1. u[p] = v[i] /\ b[p] = w[i]
        BY <1>3, <1>4
      <3>2. u[p] >= 0 /\ b[p] = u[p]
        BY <1>11, <3>1
      <3> HIDE DEF p
      <3> QED
        BY <3>2 DEF PartAt, p
    <2>2. Whole(T, u, o)
      <3>1. CASE m = 0
        <4>1. n + m = n
          BY <1>2, <3>1
        <4>2. n # 0 => u[n] = t[n] /\ o[n] = off[n]
          BY <1>2, <1>3, <1>5, <1>9
        <4> QED
          BY <1>3, <1>8, <4>1, <4>2 DEF Whole
      <3>2. CASE m # 0
        <4>1. m \in 1 .. m
          BY <1>2, <3>2
        <4>2. u[n + m] >= 0
          BY <1>3, <1>11, <4>1
        <4> QED
          BY <1>3, <4>2 DEF Whole
      <3> QED
        BY <3>1, <3>2
    <2>3. \A p \in 1 .. n + m : p \in 1 .. n \/ \E i \in 1 .. m : p = n + i
      <3> SUFFICES ASSUME NEW p \in 1 .. n + m, ~ (p <= n) PROVE \E i \in 1 .. m : p = n + i
        BY <1>2
      <3>1. p - n \in 1 .. m /\ p = n + (p - n)
        BY <1>2
      <3> QED
        BY <3>1
    <2>4. Parts(T, u, b, o)
      BY <1>3, <1>4, <1>7, <2>1, <2>3 DEF Parts
    <2> QED
      BY <2>2, <2>4 DEF u, b, v, w
  <1> QED
    BY <1>1, <1>10, <1>11

LEMMA PartsOf ==
    ASSUME NEW T, Apart(T), NEW chunks \in Seq(TextChunks \cup T)
    PROVE  \E off : Parts(T, Tokens(chunks), Contents(chunks), off) /\ Whole(T, Tokens(chunks), off)
  <1> DEFINE C == TextChunks \cup T
             Good == {n \in Nat : \A q \in Seq(C) : Len(q) = n =>
                         \E off : Parts(T, Tokens(q), Contents(q), off) /\ Whole(T, Tokens(q), off)}
  <1>0. C \subseteq Chunk
    BY TextsAreChunks DEF Apart
  <1> HIDE DEF C
  <1>1. 0 \in Good
    <2>1. \A q \in Seq(C) : Len(q) = 0 => q = <<>>
      OBVIOUS
    <2>2. Tokens(<<>>) = <<>> /\ Contents(<<>>) = <<>>
      BY NoChunks DEF Both
    <2> DEFINE none == <<>>
    <2>3. none \in Seq(Int) /\ Len(none) = 0 /\ 1 .. Len(none) = {}
      OBVIOUS
    <2> HIDE DEF none
    <2>4. Parts(T, none, none, none) /\ Whole(T, none, none)
      BY <2>3 DEF Parts, Whole
    <2> QED
      BY <2>1, <2>2, <2>4 DEF none
  <1>2. ASSUME NEW n \in Nat, n \in Good PROVE n + 1 \in Good
    <2> SUFFICES ASSUME NEW q \in Seq(C), Len(q) = n + 1
                 PROVE  \E off : Parts(T, Tokens(q), Contents(q), off) /\ Whole(T, Tokens(q), off)
      OBVIOUS
    <2> DEFINE front == SubSeq(q, 1, n)
               x == q[n + 1]
    <2>1. front \in Seq(C) /\ x \in C /\ Len(front) = n /\ q = Append(front, x)
      <3> HIDE DEF Good
      <3> QED
        BY FrontAndLast
    <2> HIDE DEF front, x
    <2>2. PICK off : Parts(T, Tokens(front), Contents(front), off) /\ Whole(T, Tokens(front), off)
      BY <1>2, <2>1
    <2> HIDE DEF Good
    <2>3. Tokens(q) = Tokens(front) \o x.tokens /\ Contents(q) = Contents(front) \o x.contents
      <3>1. front \in Seq(Chunk) /\ x \in Chunk
        BY <1>0, <2>1, SeqGrows
      <3>2. Both(front, Tokens(front), Contents(front))
        BY <3>1, BothOf
      <3>3. Both(q, Tokens(front) \o x.tokens, Contents(front) \o x.contents)
        BY <2>1, <3>1, <3>2, OneMore
      <3> QED
        BY <3>3 DEF Both
    <2> DEFINE t == Tokens(front)
               a == Contents(front)
    <2>4. x \in TextChunks \cup T
      BY <2>1 DEF C
    <2>5. Parts(T, t, a, off) /\ Whole(T, t, off)
      BY <2>2
    <2> HIDE DEF t, a
    <2>6. \E o : Parts(T, t \o x.tokens, a \o x.contents, o) /\ Whole(T, t \o x.tokens, o)
      BY <2>4, <2>5, PartsNext
    <2> QED
      BY <2>3, <2>6 DEF t, a
  <1>3. \A n \in Nat : n \in Good
    <2> HIDE DEF Good
    <2> QED
      BY <1>1, <1>2, EveryNumber
  <1> QED
    BY <1>3 DEF C

(* What begins with the same tokens says the same.                         *)
LEMMA SameParts ==
    ASSUME NEW T, Apart(T), NEW t, NEW a, NEW o, Parts(T, t, a, o), NEW u, NEW b, NEW q, Parts(T, u, b, q),
           NEW n \in Nat, n <= Len(t), n <= Len(u), SubSeq(t, 1, n) = SubSeq(u, 1, n)
    PROVE  SubSeq(a, 1, n) = SubSeq(b, 1, n)
  <1>1. /\ t \in Seq(Int) /\ a \in Seq(Int) /\ Len(a) = Len(t)
        /\ u \in Seq(Int) /\ b \in Seq(Int) /\ Len(b) = Len(u)
    BY DEF Parts
  <1>2. \A p \in 1 .. n : t[p] = u[p]
    <2> SUFFICES ASSUME NEW p \in 1 .. n PROVE t[p] = u[p]
      OBVIOUS
    <2>1. SubSeq(t, 1, n)[p] = t[p] /\ SubSeq(u, 1, n)[p] = u[p]
      BY <1>1
    <2> QED
      BY <2>1
  <1>3. \A p \in 1 .. n : p \in 1 .. Len(t) /\ p \in 1 .. Len(u)
    BY <1>1
  <1> DEFINE Same(p) == p <= n => a[p] = b[p] /\ (~ (t[p] >= 0) => o[p] = q[p])
             Good == {k \in Nat : Same(k + 1)}
  <1>4. ASSUME NEW p \in 1 .. n, p > 1 => Same(p - 1) PROVE Same(p)
    <2>1. PartAt(T, t, a, o, p) /\ PartAt(T, u, b, q, p) /\ t[p] = u[p]
      BY <1>2, <1>3 DEF Parts
    <2>2. CASE t[p] >= 0
      BY <2>1, <2>2 DEF PartAt
    <2>3. CASE ~ (t[p] >= 0)
      <3>1. PICK c \in T :
              /\ c.tokens[1] = t[p] /\ o[p] \in 1 .. Len(c.contents) /\ a[p] = c.contents[o[p]]
              /\ o[p] = IF p > 1 /\ t[p - 1] = t[p] /\ o[p - 1] < Len(c.contents) THEN o[p - 1] + 1 ELSE 1
        BY <2>1, <2>3 DEF PartAt
      <3>2. PICK d \in T :
              /\ d.tokens[1] = u[p] /\ q[p] \in 1 .. Len(d.contents) /\ b[p] = d.contents[q[p]]
              /\ q[p] = IF p > 1 /\ u[p - 1] = u[p] /\ q[p - 1] < Len(d.contents) THEN q[p - 1] + 1 ELSE 1
        BY <2>1, <2>3 DEF PartAt
      <3>3. c = d
        BY <2>1, <3>1, <3>2 DEF Apart
      <3>4. p > 1 => t[p - 1] = u[p - 1] /\ (t[p - 1] = t[p] => o[p - 1] = q[p - 1])
        <4> SUFFICES ASSUME p > 1 PROVE t[p - 1] = u[p - 1] /\ (t[p - 1] = t[p] => o[p - 1] = q[p - 1])
          OBVIOUS
        <4>1. p - 1 \in 1 .. n /\ p - 1 <= n
          OBVIOUS
        <4>2. t[p - 1] = t[p] => ~ (t[p - 1] >= 0)
          BY <2>3
        <4>3. Same(p - 1)
          BY <1>4
        <4> QED
          BY <1>2, <4>1, <4>2, <4>3
      <3>5. o[p] = q[p]
        BY <2>1, <3>1, <3>2, <3>3, <3>4
      <3> QED
        BY <3>1, <3>2, <3>3, <3>5
    <2> QED
      BY <2>2, <2>3
  <1>5. 0 \in Good
    <2>1. CASE n = 0
      BY <2>1
    <2>2. CASE n # 0
      <3>1. 1 \in 1 .. n /\ ~ (1 > 1)
        BY <2>2
      <3> HIDE DEF Same
      <3>2. Same(1)
        BY <1>4, <3>1
      <3> QED
        BY <3>2
    <2> QED
      BY <2>1, <2>2
  <1>6. ASSUME NEW k \in Nat, k \in Good PROVE k + 1 \in Good
    <2> DEFINE p == (k + 1) + 1
    <2>1. CASE p <= n
      <3>1. p \in 1 .. n /\ p - 1 = k + 1
        BY <2>1
      <3>2. Same(k + 1)
        BY <1>6
      <3> HIDE DEF Same, p
      <3>3. Same(p)
        BY <1>4, <3>1, <3>2
      <3> QED
        BY <3>3 DEF p
    <2>2. CASE ~ (p <= n)
      BY <2>2
    <2> QED
      BY <2>1, <2>2
  <1>7. \A k \in Nat : k \in Good
    <2> HIDE DEF Good
    <2> QED
      BY <1>5, <1>6, EveryNumber
  <1>8. \A p \in 1 .. n : a[p] = b[p]
    <2> SUFFICES ASSUME NEW p \in 1 .. n PROVE a[p] = b[p]
      OBVIOUS
    <2>1. p - 1 \in Nat /\ (p - 1) + 1 = p /\ p <= n
      OBVIOUS
    <2>2. Same((p - 1) + 1)
      BY <1>7, <2>1
    <2> QED
      BY <2>1, <2>2
  <1> DEFINE x == SubSeq(a, 1, n)
             y == SubSeq(b, 1, n)
  <1>9. x \in Seq(Int) /\ Len(x) = n /\ \A p \in 1 .. n : x[p] = a[p]
    BY <1>1
  <1>10. y \in Seq(Int) /\ Len(y) = n /\ \A p \in 1 .. n : y[p] = b[p]
    BY <1>1
  <1> HIDE DEF x, y
  <1>11. x = y
    BY <1>8, <1>9, <1>10, SeqEqual
  <1> QED
    BY <1>11 DEF x, y

LEMMA MeansSame ==
    ASSUME NEW T, Apart(T), NEW t, NEW a, Means(T, t, a), NEW u, NEW b, Means(T, u, b),
           NEW n \in Nat, n <= Len(t), n <= Len(u), SubSeq(t, 1, n) = SubSeq(u, 1, n)
    PROVE  SubSeq(a, 1, n) = SubSeq(b, 1, n)
  <1>1. PICK o : Parts(T, t, a, o)
    BY PartsOf DEF Means
  <1>2. PICK q : Parts(T, u, b, q)
    BY PartsOf DEF Means
  <1> QED
    BY <1>1, <1>2, SameParts

LEMMA MeansTyped ==
    ASSUME NEW T, Apart(T), NEW t, NEW a, Means(T, t, a)
    PROVE  t \in Seq(Int) /\ a \in Seq(Int) /\ Len(a) = Len(t)
  <1>1. PICK chunks \in Seq(TextChunks \cup T) : Tokens(chunks) = t /\ Contents(chunks) = a
    BY DEF Means
  <1>2. PICK o : Parts(T, t, a, o)
    BY <1>1, PartsOf
  <1> QED
    BY <1>2 DEF Parts

LEMMA MeansMore ==
    ASSUME NEW T, NEW U, T \subseteq U, NEW t, NEW a, Means(T, t, a)
    PROVE  Means(U, t, a)
  <1>1. PICK chunks \in Seq(TextChunks \cup T) : Tokens(chunks) = t /\ Contents(chunks) = a
    BY DEF Means
  <1> DEFINE C == TextChunks \cup T
             D == TextChunks \cup U
  <1>2. C \subseteq D /\ chunks \in Seq(C)
    OBVIOUS
  <1> HIDE DEF C, D
  <1>3. chunks \in Seq(D)
    BY <1>2, SeqGrows
  <1> QED
    BY <1>1, <1>3 DEF Means, D

LEMMA OneAppended ==
    ASSUME NEW s \in Seq(Int), NEW x \in Int
    PROVE  s \o <<x>> = Append(s, x)
  OBVIOUS

(* A token that is sampled stands for itself.                              *)
LEMMA MeansToken ==
    ASSUME NEW T, Apart(T), NEW t, NEW a, Means(T, t, a), NEW token \in Nat
    PROVE  Means(T, Append(t, token), Append(a, token))
  <1>1. PICK chunks \in Seq(TextChunks \cup T) : Tokens(chunks) = t /\ Contents(chunks) = a
    BY DEF Means
  <1> DEFINE C == TextChunks \cup T
             one == <<token>>
             x == text_chunk(one)
             more == Append(chunks, x)
  <1>2. one \in Seq(Nat) /\ token \in Int
    OBVIOUS
  <1>3. x.tokens = one /\ x.contents = one /\ x \in Chunk /\ x \in C
    <2> HIDE DEF one
    <2> QED
      BY <1>2, TextChunk DEF TextChunks
  <1>4. C \subseteq Chunk /\ chunks \in Seq(C)
    BY TextsAreChunks DEF Apart
  <1> HIDE DEF C, x
  <1>5. chunks \in Seq(Chunk)
    BY <1>4, SeqGrows
  <1>6. Both(chunks, Tokens(chunks), Contents(chunks))
    BY <1>5, BothOf
  <1>7. Both(more, Tokens(chunks) \o x.tokens, Contents(chunks) \o x.contents)
    BY <1>3, <1>5, <1>6, OneMore
  <1>8. t \in Seq(Int) /\ a \in Seq(Int)
    BY <1>1, <1>6 DEF Both
  <1>9. t \o one = Append(t, token) /\ a \o one = Append(a, token)
    BY <1>2, <1>8, OneAppended
  <1>10. Tokens(more) = Append(t, token) /\ Contents(more) = Append(a, token)
    <2> HIDE DEF more, one
    <2> QED
      BY <1>1, <1>3, <1>7, <1>9 DEF Both
  <1>11. more \in Seq(C)
    BY <1>3, <1>4, AppendTyped
  <1> QED
    BY <1>10, <1>11 DEF Means, C

(* What a sequence holds, and what the running request says of it.         *)
ContextWell(T, rec, held) ==
    rec.state = "running" =>
        /\ Means(T, rec.processed_tokens, rec.history)
        /\ rec.clean => Append(held, Last(rec.history)) = rec.history

(* The same of an entry that is left, if it can be cut.                    *)
LeftWell(T, e, held) ==
    ~ e.used /\ e.clean /\ e.tokens # <<>> => \E x : Means(T, e.tokens, x) /\ Append(held, Last(x)) = x

ContextsWell(T, requests, entries, held) ==
    /\ \A r \in Requests : ContextWell(T, requests[r], held[requests[r].seq])
    /\ \A s \in Slots : LeftWell(T, entries[s], held[s])

Blamed(requests, over) == over => \E r \in Requests : requests[r].state = "running" /\ ~ requests[r].clean

ContextInv ==
    \E T : /\ ToldBy(T, setup.family, multimodal_dummy_token_generator, cache_multimodals, request)
           /\ ContextsWell(T, request, cache_prompts, memory)
           /\ Blamed(request, crashed)

LEMMA WellMore ==
    ASSUME NEW T, NEW U, T \subseteq U, NEW requests, NEW entries, NEW held, ContextsWell(T, requests, entries, held)
    PROVE  ContextsWell(U, requests, entries, held)
  <1>1. \A t, a : Means(T, t, a) => Means(U, t, a)
    BY MeansMore
  <1>2. \A r \in Requests : ContextWell(U, requests[r], held[requests[r].seq])
    BY <1>1 DEF ContextsWell, ContextWell
  <1>3. \A s \in Slots : LeftWell(U, entries[s], held[s])
    <2> SUFFICES ASSUME NEW s \in Slots PROVE LeftWell(U, entries[s], held[s])
      OBVIOUS
    <2>1. LeftWell(T, entries[s], held[s])
      BY DEF ContextsWell
    <2> QED
      BY <1>1, <2>1 DEF LeftWell
  <1> QED
    BY <1>2, <1>3 DEF ContextsWell

(* A step of one request in one sequence.                                  *)
LEMMA ContextStep ==
    ASSUME Inv, NEW T, ContextsWell(T, request, cache_prompts, memory),
           NEW r \in Requests, NEW s \in Slots, NEW rec, NEW e, NEW held,
           request' = [request EXCEPT ![r] = rec], cache_prompts' = [cache_prompts EXCEPT ![s] = e],
           memory' = [memory EXCEPT ![s] = held], rec.state = "running" => rec.seq = s,
           ContextWell(T, rec, held), LeftWell(T, e, held),
           \A q \in Requests \ {r} : request[q].state = "running" => request[q].seq # s
    PROVE  ContextsWell(T, request', cache_prompts', memory')
  <1>1. /\ request \in [Requests -> Rec] /\ cache_prompts \in [Slots -> Entry] /\ memory \in [Slots -> Seq(Int)]
        /\ \A q \in Requests : request[q].state = "running" => request[q].seq \in Slots
    BY DEF Inv, Types, SlotsWell, RequestWell
  <1>2. \A u \in Slots : /\ cache_prompts'[u] = IF u = s THEN e ELSE cache_prompts[u]
                         /\ memory'[u] = IF u = s THEN held ELSE memory[u]
    BY <1>1
  <1>3. \A q \in Requests : request'[q] = IF q = r THEN rec ELSE request[q]
    BY <1>1
  <1>4. \A u \in Slots : LeftWell(T, cache_prompts'[u], memory'[u])
    BY <1>2 DEF ContextsWell
  <1>5. ASSUME NEW q \in Requests PROVE ContextWell(T, request'[q], memory'[request'[q].seq])
    <2>1. CASE q = r
      <3>1. request'[q] = rec
        BY <1>3, <2>1
      <3>2. CASE rec.state = "running"
        <4>1. memory'[request'[q].seq] = held
          BY <1>2, <3>1, <3>2
        <4> QED
          BY <3>1, <4>1
      <3>3. CASE rec.state # "running"
        BY <3>1, <3>3 DEF ContextWell
      <3> QED
        BY <3>2, <3>3
    <2>2. CASE q # r
      <3>1. request'[q] = request[q]
        BY <1>3, <2>2
      <3>2. CASE request[q].state = "running"
        <4>1. memory'[request[q].seq] = memory[request[q].seq]
          BY <1>1, <1>2, <2>2, <3>2
        <4>2. ContextWell(T, request[q], memory[request[q].seq])
          BY DEF ContextsWell
        <4> QED
          BY <3>1, <4>1, <4>2
      <3>3. CASE request[q].state # "running"
        BY <3>1, <3>3 DEF ContextWell
      <3> QED
        BY <3>2, <3>3
    <2> QED
      BY <2>1, <2>2
  <1> QED
    BY <1>4, <1>5 DEF ContextsWell

LEMMA HandlerSays ==
    ASSUME Inv, NEW T, ContextsWell(T, request, cache_prompts, memory), Blamed(request, crashed),
           NEW r \in Requests, Handled(r, request, request'), UNCHANGED kv_vars
    PROVE  ContextsWell(T, request', cache_prompts', memory') /\ Blamed(request', crashed')
  <1>1. request[r].state # "running" /\ request \in [Requests -> Rec]
    BY DEF Handled, Inv, Types
  <1>2. PICK new \in Rec : new.state # "running" /\ request' = [request EXCEPT ![r] = new]
    BY DEF Handled
  <1>3. \A q \in Requests : request'[q] = IF q = r THEN new ELSE request[q]
    BY <1>1, <1>2
  <1>4. cache_prompts' = cache_prompts /\ memory' = memory /\ crashed' = crashed
    BY DEF kv_vars
  <1>5. \A q \in Requests : ContextWell(T, request'[q], memory[request'[q].seq])
    <2>1. \A q \in Requests : ContextWell(T, request[q], memory[request[q].seq])
      BY DEF ContextsWell
    <2>2. \A held : ContextWell(T, new, held)
      BY <1>2 DEF ContextWell
    <2> QED
      BY <1>3, <2>1, <2>2
  <1>6. Blamed(request', crashed)
    BY <1>1, <1>3 DEF Blamed
  <1> QED
    BY <1>4, <1>5, <1>6 DEF ContextsWell

LEMMA LastAppended ==
    ASSUME NEW s \in Seq(Int), NEW x \in Int
    PROVE  Last(Append(s, x)) = x
  BY DEF Last

LEMMA DecodeSays ==
    ASSUME Inv, NEW T, Apart(T), ContextsWell(T, request, cache_prompts, memory), NEW r \in Requests, Decode(r)
    PROVE  ContextsWell(T, request', cache_prompts', memory') /\ ~ crashed'
  <1> DEFINE old == request[r]
             s == old.seq
             e == cache_prompts[s]
             h == old.history
             t == old.processed_tokens
             held == Append(memory[s], Last(h))
  <1>0. old.state = "running" /\ ~ crashed' /\ cache_prompts' = cache_prompts
    BY DEF Decode
  <1>1. /\ old \in Rec /\ s \in Slots /\ e.used /\ cache_prompts \in [Slots -> Entry]
        /\ \A q \in Requests \ {r} : request[q].state = "running" => request[q].seq # s
    BY <1>0, RunningOf DEF Inv, Types
  <1>2. PICK token \in Generated : request' = [request EXCEPT ![r] = [Sampled(old, token) EXCEPT !.pos = @ + 1]]
    BY DEF Decode
  <1>3. memory' = [memory EXCEPT ![s] = held]
    <2>1. memory' = [memory EXCEPT ![s] = Append(@, Last(h))]
      BY DEF Decode
    <2>2. memory \in [Slots -> Seq(Int)]
      BY DEF Inv, Types
    <2> HIDE DEF s, h
    <2> QED
      BY <1>1, <2>1, <2>2
  <1> DEFINE y == Sampled(old, token)
             new == [y EXCEPT !.pos = @ + 1]
  <1>4. token \in Nat /\ token \in Int /\ h \in Seq(Int)
    <2>1. token \in Nat
      BY PrefillAssumption
    <2>2. h \in Seq(Int)
      <3> HIDE DEF old
      <3> QED
        BY <1>1 DEF Rec
    <2> QED
      BY <2>1, <2>2
  <1>5. /\ y \in Rec /\ y.state = "running" /\ y.seq = s /\ y.clean = old.clean
        /\ y.history = Append(h, token) /\ y.processed_tokens = Append(t, token)
    <2> HIDE DEF old
    <2> QED
      BY <1>0, <1>1, <1>4, SampledOf DEF s, h, t
  <1> HIDE DEF y
  <1>6. /\ new.state = "running" /\ new.seq = s /\ new.clean = old.clean
        /\ new.history = Append(h, token) /\ new.processed_tokens = Append(t, token)
    BY <1>5 DEF Rec
  <1>7. request' = [request EXCEPT ![r] = new]
    BY <1>2 DEF y
  <1>8. ContextWell(T, old, memory[s])
    BY DEF ContextsWell
  <1>9. Means(T, t, h) /\ (old.clean => held = h)
    BY <1>0, <1>8 DEF ContextWell
  <1> HIDE DEF new, held, h, t
  <1>10. ContextWell(T, new, held)
    <2>1. Means(T, Append(t, token), Append(h, token))
      BY <1>4, <1>9, MeansToken
    <2>2. Last(Append(h, token)) = token
      BY <1>4, LastAppended
    <2> HIDE DEF old
    <2> QED
      BY <1>6, <1>9, <2>1, <2>2 DEF ContextWell
  <1>11. LeftWell(T, e, held)
    BY <1>1 DEF LeftWell
  <1>12. cache_prompts' = [cache_prompts EXCEPT ![s] = e]
    BY <1>0, <1>1
  <1> HIDE DEF old, s, e
  <1>13. ContextsWell(T, request', cache_prompts', memory')
    BY <1>1, <1>3, <1>6, <1>7, <1>10, <1>11, <1>12, ContextStep
  <1> QED
    BY <1>0, <1>13

LEMMA RetireSays ==
    ASSUME Inv, NEW T, ContextsWell(T, request, cache_prompts, memory), NEW r \in Requests, Retire(r)
    PROVE  ContextsWell(T, request', cache_prompts', memory') /\ ~ crashed'
  <1> DEFINE old == request[r]
             s == old.seq
             held == memory[s]
             new == [old EXCEPT !.state = "answered"]
             left == [used |-> FALSE, tokens |-> old.processed_tokens, pos |-> old.pos, clean |-> old.clean]
  <1>0. old.state = "running" /\ ~ crashed' /\ memory' = memory
    BY DEF Retire
  <1>1. /\ old \in Rec /\ s \in Slots /\ memory \in [Slots -> Seq(Int)]
        /\ \A q \in Requests \ {r} : request[q].state = "running" => request[q].seq # s
    BY <1>0, RunningOf DEF Inv, Types
  <1>2. request' = [request EXCEPT ![r] = new] /\ cache_prompts' = [cache_prompts EXCEPT ![s] = left]
    BY DEF Retire
  <1>3. new.state # "running"
    <2> HIDE DEF old
    <2> QED
      BY <1>1 DEF Rec
  <1>4. ContextWell(T, old, held)
    BY DEF ContextsWell
  <1>5. LeftWell(T, left, held)
    BY <1>0, <1>4 DEF LeftWell, ContextWell
  <1>6. memory' = [memory EXCEPT ![s] = held]
    BY <1>0, <1>1
  <1> HIDE DEF new, left, old, s, held
  <1>7. ContextWell(T, new, held)
    BY <1>3 DEF ContextWell
  <1>8. ContextsWell(T, request', cache_prompts', memory')
    BY <1>1, <1>2, <1>3, <1>5, <1>6, <1>7, ContextStep
  <1> QED
    BY <1>0, <1>8

(* A request that fails leaves nothing to cut.                             *)
LEMMA AbortedSays ==
    ASSUME Inv, NEW T, ContextsWell(T, request, cache_prompts, memory), NEW r \in Requests, NEW s \in Slots,
           NEW p, NEW held, Aborted(r, s, p, held),
           \A q \in Requests \ {r} : request[q].state = "running" => request[q].seq # s
    PROVE  ContextsWell(T, request', cache_prompts', memory')
  <1> DEFINE old == request[r]
             new == [old EXCEPT !.state = "failed"]
             left == EmptyEntry
  <1>1. /\ request' = [request EXCEPT ![r] = new] /\ memory' = [memory EXCEPT ![s] = held]
        /\ cache_prompts' = [cache_prompts EXCEPT ![s] = left]
    BY DEF Aborted
  <1>2. old \in Rec
    BY DEF Inv, Types
  <1>3. LeftWell(T, left, held)
    BY DEF LeftWell, EmptyEntry
  <1> HIDE DEF old, left
  <1>4. new.state # "running"
    BY <1>2 DEF Rec
  <1> HIDE DEF new
  <1>5. ContextWell(T, new, held)
    BY <1>4 DEF ContextWell
  <1> QED
    BY <1>1, <1>3, <1>4, <1>5, ContextStep

LEMMA DecodeFailsSays ==
    ASSUME Inv, NEW T, ContextsWell(T, request, cache_prompts, memory), NEW r \in Requests, DecodeFails(r)
    PROVE  ContextsWell(T, request', cache_prompts', memory') /\ ~ crashed'
  <1> DEFINE s == request[r].seq
             p == [pos |-> request[r].pos + 1, used |-> llm_kv_cache_used + 1]
  <1>1. request[r].state = "running" /\ ~ crashed' /\ Aborted(r, s, p, <<>>)
    BY DEF DecodeFails
  <1>2. s \in Slots /\ \A q \in Requests \ {r} : request[q].state = "running" => request[q].seq # s
    BY <1>1, RunningOf
  <1> HIDE DEF s, p
  <1>3. ContextsWell(T, request', cache_prompts', memory')
    BY <1>1, <1>2, AbortedSays
  <1> QED
    BY <1>1, <1>3

(* What an idle entry has in common with a prompt is what its sequence     *)
(* holds.                                                                  *)
LEMMA HitSays ==
    ASSUME NEW T, Apart(T), NEW s, cache_prompts[s] \in Entry, ~ cache_prompts[s].used, memory[s] \in Seq(Int),
           EntryOf(cache_prompts[s], memory[s]), LeftWell(T, cache_prompts[s], memory[s]),
           NEW tokens, NEW contents, Means(T, tokens, contents),
           Hit(s, tokens).pos = Hit(s, tokens).cached, Hit(s, tokens).cached > 0 => cache_prompts[s].clean
    PROVE  SubSeq(memory[s], 1, Hit(s, tokens).pos) = SubSeq(contents, 1, Hit(s, tokens).cached)
  <1> DEFINE e == cache_prompts[s]
             t == e.tokens
             m == memory[s]
             n == Hit(s, tokens).cached
  <1>1. tokens \in Seq(Int) /\ contents \in Seq(Int) /\ Len(contents) = Len(tokens)
    BY MeansTyped
  <1>2. /\ n \in Nat /\ (n = 0 \/ (n < Len(tokens) /\ n < Len(t) /\ t # <<>>))
        /\ SubSeq(t, 1, n) = SubSeq(tokens, 1, n)
    BY <1>1, HitOf
  <1>3. Hit(s, tokens).pos = n /\ m \in Seq(Int) /\ t \in Seq(Int)
    BY DEF Entry
  <1>4. n > 0 => e.clean
    OBVIOUS
  <1>5. ~ e.used /\ e.clean /\ t # <<>> => \E x : Means(T, t, x) /\ Append(m, Last(x)) = x
    BY DEF LeftWell
  <1>6. ~ e.used
    OBVIOUS
  <1> HIDE DEF n, m, t, e
  <1>7. CASE n = 0
    <2>1. SubSeq(m, 1, n) = <<>> /\ SubSeq(contents, 1, n) = <<>>
      BY <1>1, <1>3, <1>7
    <2> QED
      BY <1>3, <2>1 DEF m, n
  <1>8. CASE n # 0
    <2>1. n < Len(tokens) /\ n < Len(t) /\ t # <<>> /\ e.clean
      BY <1>2, <1>4, <1>8
    <2>2. PICK x : Means(T, t, x) /\ Append(m, Last(x)) = x
      BY <1>5, <1>6, <2>1
    <2>3. x \in Seq(Int) /\ Len(x) = Len(t)
      BY <2>2, MeansTyped
    <2>4. SubSeq(x, 1, n) = SubSeq(contents, 1, n)
      <3>1. n <= Len(t) /\ n <= Len(tokens)
        BY <1>1, <1>2, <1>3, <2>1
      <3> QED
        BY <1>2, <2>2, <3>1, MeansSame
    <2> DEFINE y == Last(x)
    <2>5. y \in Int
      <3>1. x # <<>>
        BY <1>3, <2>1, <2>3
      <3> QED
        BY <2>3, <3>1, LastTyped
    <2> HIDE DEF y
    <2>6. x = Append(m, y)
      BY <2>2 DEF y
    <2>7. n <= Len(m)
      <3>1. Len(x) = Len(m) + 1
        BY <1>3, <2>5, <2>6
      <3> QED
        BY <1>2, <1>3, <2>1, <2>3, <3>1
    <2> DEFINE a == SubSeq(m, 1, n)
               b == SubSeq(x, 1, n)
    <2>8. a \in Seq(Int) /\ Len(a) = n /\ \A i \in 1 .. n : a[i] = m[i]
      BY <1>2, <1>3, <2>7
    <2>9. b \in Seq(Int) /\ Len(b) = n /\ \A i \in 1 .. n : b[i] = x[i]
      BY <1>2, <1>3, <2>1, <2>3
    <2>10. \A i \in 1 .. n : x[i] = m[i]
      BY <1>2, <1>3, <2>5, <2>6, <2>7
    <2> HIDE DEF a, b
    <2>11. a = b
      BY <2>8, <2>9, <2>10, SeqEqual, ZenonT(60)
    <2> QED
      BY <1>3, <2>4, <2>11 DEF a, b, m, n
  <1> QED
    BY <1>7, <1>8

(* A prompt that began where it can be cut is what its sequence holds, and *)
(* leaves something to sample from.                                        *)
LEMMA CutSays ==
    ASSUME Inv, AskedInv, NEW T, Apart(T), ContextsWell(T, request, cache_prompts, memory),
           NEW r \in Requests, request[r].state = "queued", Idle # {}, request[r].chunks \in Seq(TextChunks \cup T),
           NEW s, NEW hit, NEW bad, s = Best(Tokens(request[r].chunks)), hit = Hit(s, Tokens(request[r].chunks)),
           CanCut(hit, request[r].chunks), hit.cached > 0 => cache_prompts[s].clean,
           Chunked(r, s, hit, bad).n_prefilled >= NumTokens(request[r].chunks)
    PROVE  /\ Chunked(r, s, hit, bad).memory \o Chunked(r, s, hit, bad).batch = Contents(request[r].chunks)
           /\ Chunked(r, s, hit, bad).batch # <<>>
  <1> DEFINE chunks == request[r].chunks
             tokens == Tokens(chunks)
             contents == Contents(chunks)
  <1>1. /\ chunks \in Seq(Chunk) /\ chunks # <<>> /\ tokens \in Seq(Int) /\ s \in Slots /\ ~ cache_prompts[s].used
        /\ cache_prompts[s] \in Entry /\ memory[s] \in Seq(Int) /\ EntryOf(cache_prompts[s], memory[s])
        /\ hit \in [cached : Nat, pos : Nat] /\ Begins(Start(s, hit))
    BY PrefillBegins
  <1>2. Last(chunks).tokens # <<>>
    BY DEF AskedInv, AskedWell
  <1>3. Means(T, tokens, contents)
    BY DEF Means
  <1>4. hit.pos = hit.cached
    BY DEF CanCut
  <1>5. LeftWell(T, cache_prompts[s], memory[s])
    BY <1>1 DEF ContextsWell
  <1>6. hit = Hit(s, tokens) /\ (hit.cached > 0 => cache_prompts[s].clean)
    OBVIOUS
  <1>7. hit.cached = 0 \/ hit.cached < NumTokens(chunks)
    <2> HIDE DEF tokens
    <2>1. hit.cached = 0 \/ hit.cached < Len(tokens)
      BY <1>1, <1>6, HitOf
    <2> QED
      BY <2>1 DEF NumTokens, tokens
  <1>8. SubSeq(memory[s], 1, hit.pos) = SubSeq(contents, 1, hit.cached)
    <2> HIDE DEF tokens, contents
    <2> QED
      BY <1>1, <1>3, <1>4, <1>5, <1>6, HitSays, SMTT(40)
  <1> QED
    BY <1>1, <1>2, <1>7, <1>8, PromptHeld, ZenonT(60)

LEMMA PrefillSays ==
    ASSUME Inv, AskedInv, NEW T, Apart(T), ContextsWell(T, request, cache_prompts, memory),
           NEW r \in Requests, request[r].chunks \in Seq(TextChunks \cup T), Prefill(r)
    PROVE  ContextsWell(T, request', cache_prompts', memory') /\ Blamed(request', crashed')
  <1> DEFINE chunks == request[r].chunks
             tokens == Tokens(chunks)
  <1>1. request[r].state = "queued" /\ ~ crashed /\ Idle # {} /\ UNCHANGED <<setup, media_vars, uses>>
    BY DEF Prefill
  <1>2. PICK s \in Slots, hit \in [cached : Nat, pos : Nat], bad \in 0 .. Len(chunks) : \E p :
            /\ s = Best(tokens) /\ hit = Hit(s, tokens) /\ p = Chunked(r, s, hit, bad)
            /\ Outcome(chunks, Start(s, hit), p)
            /\ ~ p.skewed => p.used - p.pos = llm_kv_cache_used - cache_prompts[s].pos
            /\ llm_kv_cache_inactive' = llm_kv_cache_inactive - cache_prompts[s].pos
            /\ skewed' = (skewed \/ p.skewed)
            /\ crashed' = (p.n_prefilled >= NumTokens(chunks) /\ p.batch = <<>>)
            /\ \/ \E held \in Seq(Int) : Aborted(r, s, p, held) /\ ~ crashed'
               \/ p.n_prefilled >= NumTokens(chunks) /\ Prefilled(r, s, hit, p)
    BY PrefillOf
  <1> DEFINE p == Chunked(r, s, hit, bad)
  <1>3. /\ s = Best(tokens) /\ hit = Hit(s, tokens)
        /\ Outcome(chunks, Start(s, hit), p)
        /\ llm_kv_cache_inactive' = llm_kv_cache_inactive - cache_prompts[s].pos
        /\ skewed' = (skewed \/ p.skewed)
        /\ crashed' = (p.n_prefilled >= NumTokens(chunks) /\ p.batch = <<>>)
        /\ \/ \E held \in Seq(Int) : Aborted(r, s, p, held) /\ ~ crashed'
           \/ p.n_prefilled >= NumTokens(chunks) /\ Prefilled(r, s, hit, p)
    BY <1>2
  <1>4. ~ cache_prompts[s].used
    BY <1>1, <1>3, PrefillBegins
  <1>5. \A q \in Requests \ {r} : request[q].state = "running" => request[q].seq # s
    BY <1>4 DEF Inv, SlotsWell, RequestWell
  <1>6. CASE \E held \in Seq(Int) : Aborted(r, s, p, held) /\ ~ crashed'
    <2>1. PICK held \in Seq(Int) : Aborted(r, s, p, held) /\ ~ crashed'
      BY <1>6
    <2> HIDE DEF p
    <2>2. ContextsWell(T, request', cache_prompts', memory')
      BY <1>5, <2>1, AbortedSays
    <2> QED
      BY <2>1, <2>2 DEF Blamed
  <1>7. CASE p.n_prefilled >= NumTokens(chunks) /\ Prefilled(r, s, hit, p)
    <2> DEFINE cleanly == CanCut(hit, request[r].chunks) /\ (hit.cached > 0 => cache_prompts[s].clean)
               t == Tokens(request[r].chunks)
               a == Contents(request[r].chunks)
    <2>1. cleanly => p.memory \o p.batch = a /\ p.batch # <<>>
      <3> SUFFICES ASSUME cleanly PROVE p.memory \o p.batch = a /\ p.batch # <<>>
        OBVIOUS
      <3>1. p.n_prefilled >= NumTokens(request[r].chunks)
        BY <1>7
      <3>2. s = Best(Tokens(request[r].chunks)) /\ hit = Hit(s, Tokens(request[r].chunks))
        BY <1>3
      <3> QED
        BY <1>1, <3>1, <3>2, CutSays
    <2> HIDE DEF p
    <2>2. crashed' = (p.batch = <<>>)
      BY <1>3, <1>7
    <2>3. /\ Outcome(request[r].chunks, Start(s, hit), p) /\ p.n_prefilled >= NumTokens(request[r].chunks)
          /\ Prefilled(r, s, hit, p)
      BY <1>3, <1>7
    <2>4. skewed' \in BOOLEAN /\ llm_kv_cache_inactive' \in Int
      <3>1. llm_kv_cache_inactive' \in Int
        BY <1>3 DEF Inv, Types, Entry
      <3>2. skewed' \in BOOLEAN
        BY <1>3, Zenon
      <3> QED
        BY <3>1, <3>2
    <2>5. \E rec \in Rec, e \in Entry :
                 /\ request' = [request EXCEPT ![r] = rec] /\ cache_prompts' = [cache_prompts EXCEPT ![s] = e]
                 /\ e.pos = 0 /\ Held(rec) = p.pos /\ llm_kv_cache_used' = p.used - p.pos + p.pos
                 /\ memory' = [memory EXCEPT ![s] = p.memory \o p.batch]
                 /\ e.used /\ e.tokens = cache_prompts[s].tokens
                 /\ \E token \in Generated : Answers(rec, request[r], s, p, cleanly, token)
      BY <1>1, <1>4, <2>2, <2>3, <2>4, PrefilledKeeps
    <2> HIDE DEF cleanly
    <2>6. PICK rec \in Rec, e \in Entry, token \in Generated :
                 /\ request' = [request EXCEPT ![r] = rec] /\ cache_prompts' = [cache_prompts EXCEPT ![s] = e]
                 /\ memory' = [memory EXCEPT ![s] = p.memory \o p.batch]
                 /\ e.used /\ Answers(rec, request[r], s, p, cleanly, token)
      BY <2>5
    <2>7. /\ rec.state = "running" /\ rec.seq = s /\ rec.processed_tokens = Append(t, token)
          /\ rec.history = Append(a, token) /\ (rec.clean <=> cleanly)
      BY <2>6 DEF Answers
    <2>8. token \in Nat /\ token \in Int
      BY PrefillAssumption
    <2>9. Means(T, t, a)
      BY DEF Means
    <2> DEFINE held == p.memory \o p.batch
    <2> HIDE DEF t, a, held
    <2>10. ContextWell(T, rec, held)
      <3>1. Means(T, Append(t, token), Append(a, token))
        BY <2>8, <2>9, MeansToken
      <3>2. Last(Append(a, token)) = token
        BY <2>8, <2>9, MeansTyped, LastAppended
      <3>3. cleanly => held = a
        BY <2>1 DEF held
      <3> QED
        BY <2>7, <3>1, <3>2, <3>3 DEF ContextWell
    <2>11. LeftWell(T, e, held)
      BY <2>6 DEF LeftWell
    <2>12. /\ request' = [request EXCEPT ![r] = rec] /\ cache_prompts' = [cache_prompts EXCEPT ![s] = e]
           /\ memory' = [memory EXCEPT ![s] = held]
      BY <2>6 DEF held
    <2>13. ContextsWell(T, request', cache_prompts', memory')
      <3>1. rec.state = "running" => rec.seq = s
        BY <2>7
      <3>2. ContextsWell(T, request, cache_prompts, memory)
        OBVIOUS
      <3> HIDE DEF chunks, tokens
      <3> QED
        BY <1>5, <2>10, <2>11, <2>12, <3>1, <3>2, ContextStep, ZenonT(60)
    <2>14. Blamed(request', crashed')
      <3>1. request'[r] = rec
        BY <2>12 DEF Inv, Types
      <3>2. crashed' => ~ rec.clean
        BY <2>1, <2>2, <2>7
      <3> QED
        BY <2>7, <3>1, <3>2 DEF Blamed
    <2> QED
      BY <2>13, <2>14
  <1> QED
    BY <1>3, <1>6, <1>7

LEMMA NextSays ==
    ASSUME Inv, Counted, AskedInv, ContextInv, [Next]_vars
    PROVE  ContextInv'
  <1>1. PICK T : /\ ToldBy(T, setup.family, multimodal_dummy_token_generator, cache_multimodals, request)
                 /\ ContextsWell(T, request, cache_prompts, memory) /\ Blamed(request, crashed)
    BY DEF ContextInv
  <1>2. PICK U : /\ T \subseteq U
                 /\ ToldBy(U, setup.family', multimodal_dummy_token_generator', cache_multimodals', request')
    BY <1>1, NextTells DEF MoreTold
  <1>3. Apart(T)
    <2> DEFINE gen == multimodal_dummy_token_generator
    <2>1. gen \in Int /\ Told(setup.family, gen, T)
      BY <1>1 DEF Inv, MediaTold, ToldBy
    <2> HIDE DEF gen
    <2> QED
      BY <2>1, ToldApart
  <1>4. ContextsWell(T, request', cache_prompts', memory') /\ Blamed(request', crashed')
    <2>1. CASE Next
      <3>1. PICK r \in setup.requests : handler(r) \/ reconcile(r)
        BY <2>1 DEF Next
      <3>2. r \in Requests
        BY <3>1, PrefillAssumption DEF Inv, Types
      <3>3. CASE handler(r)
        <4>1. Handled(r, request, request')
          BY <3>2, <3>3, ReceiveKeeps, AddTextKeeps, AddMediaKeeps, EnqueueKeeps DEF handler
        <4>2. UNCHANGED kv_vars
          BY <3>3 DEF handler, Receive, AddText, AddMedia, Enqueue
        <4> QED
          BY <1>1, <3>2, <4>1, <4>2, HandlerSays
      <3>4. CASE Prefill(r)
        <4>1. request[r].chunks \in Seq(TextChunks \cup T)
          BY <1>1, <3>2 DEF ToldBy
        <4> QED
          BY <1>1, <1>3, <3>2, <3>4, <4>1, PrefillSays
      <3>5. CASE Decode(r)
        BY <1>1, <1>3, <3>2, <3>5, DecodeSays DEF Blamed
      <3>6. CASE Retire(r)
        BY <1>1, <3>2, <3>6, RetireSays DEF Blamed
      <3>7. CASE DecodeFails(r)
        BY <1>1, <3>2, <3>7, DecodeFailsSays DEF Blamed
      <3> QED
        BY <3>1, <3>3, <3>4, <3>5, <3>6, <3>7 DEF reconcile
    <2>2. CASE UNCHANGED vars
      BY <1>1, <2>2 DEF vars
    <2> QED
      BY <2>1, <2>2
  <1>5. ContextsWell(U, request', cache_prompts', memory')
    BY <1>2, <1>4, WellMore
  <1> QED
    BY <1>2, <1>4, <1>5 DEF ContextInv

LEMMA ContextHolds == Spec => []ContextInv
  <1>1. Init => ContextInv
    <2> SUFFICES ASSUME Init PROVE ContextInv
      OBVIOUS
    <2>1. ToldBy({}, setup.family, multimodal_dummy_token_generator, cache_multimodals, request)
      BY InitTold
    <2>2. \A r \in Requests : request[r].state = "new"
      BY DEF Init, NewRequest
    <2>3. \A s \in Slots : cache_prompts[s].tokens = <<>>
      BY DEF Init, EmptyEntry
    <2>4. ContextsWell({}, request, cache_prompts, memory)
      BY <2>2, <2>3 DEF ContextsWell, ContextWell, LeftWell
    <2>5. ~ crashed
      BY DEF Init
    <2> QED
      BY <2>1, <2>4, <2>5 DEF ContextInv, Blamed
  <1>2. Inv /\ Counted /\ AskedInv /\ ContextInv /\ [Next]_vars => ContextInv'
    BY NextSays
  <1> QED
    BY <1>1, <1>2, InvHolds, AskedHolds, PTL DEF Spec

(***************************************************************************)
(* Whatever is asked, cached, evicted and cut, and whichever chunk fails:  *)
(* a request whose prompt began where an entry can be cut is answered from *)
(* its own prompt and answer, each token and each part of a medium once    *)
(* and in order; and only one that did not may end the process.            *)
(***************************************************************************)
THEOREM ContextsKept == Spec => []ContextKept
  <1>1. ContextInv => ContextKept
    <2> SUFFICES ASSUME ContextInv PROVE ContextKept
      OBVIOUS
    <2>1. PICK T : ContextsWell(T, request, cache_prompts, memory) /\ Blamed(request, crashed)
      BY DEF ContextInv
    <2>2. ASSUME NEW r \in Requests, request[r].state = "running", request[r].clean PROVE HoldsHistory(r)
      <3>1. ContextWell(T, request[r], memory[request[r].seq])
        BY <2>1 DEF ContextsWell
      <3> QED
        BY <2>2, <3>1 DEF ContextWell, HoldsHistory
    <2> QED
      BY <2>1, <2>2 DEF ContextKept, Blamed, In
  <1> QED
    BY <1>1, ContextHolds, PTL

-----------------------------------------------------------------------------
(* A prompt says what was asked.                                           *)

(* What is said at a place of a prompt.                                    *)
SaidAt == [c \in Int |-> IF c \in Marks THEN <<>> ELSE <<c>>]

ContentsOf == [c \in Chunk |-> c.contents]

LEMMA SaidTyped == SaidAt \in [Int -> Seq(Int)]
  <1>1. ASSUME NEW c \in Int PROVE (IF c \in Marks THEN <<>> ELSE <<c>>) \in Seq(Int)
    <2>1. <<>> \in Seq(Int) /\ <<c>> \in Seq(Int)
      OBVIOUS
    <2> QED
      BY <2>1
  <1> QED
    BY <1>1 DEF SaidAt

LEMMA ContentsOfTyped == ContentsOf \in [Chunk -> Seq(Int)]
  BY DEF ContentsOf, Chunk

Mapped(g, s) == [k \in DOMAIN s |-> g[s[k]]]

IsMapped(S, g, s, f) == f \in Seq(S) /\ Len(f) = Len(s) /\ \A k \in 1 .. Len(s) : f[k] = g[s[k]]

LEMMA MappedTyped ==
    ASSUME NEW D, NEW S, NEW g \in [D -> S], NEW s \in Seq(D)
    PROVE  IsMapped(S, g, s, Mapped(g, s))
  <1> DEFINE n == Len(s)
             f == Mapped(g, s)
  <1>1. n \in Nat /\ DOMAIN s = 1 .. n /\ \A k \in 1 .. n : s[k] \in D
    OBVIOUS
  <1> HIDE DEF n
  <1>2. f \in [1 .. n -> S] /\ \A k \in 1 .. n : f[k] = g[s[k]]
    BY <1>1 DEF Mapped
  <1> HIDE DEF f
  <1>3. f \in Seq(S) /\ Len(f) = n
    BY <1>1, <1>2
  <1> QED
    BY <1>2, <1>3 DEF f, n, IsMapped

Joins(S, v, w) ==
    /\ v \o w \in Seq(S) /\ Len(v \o w) = Len(v) + Len(w)
    /\ \A i \in 1 .. Len(v) : (v \o w)[i] = v[i]
    /\ \A i \in 1 .. Len(w) : (v \o w)[Len(v) + i] = w[i]

LEMMA ConcatJoins ==
    ASSUME NEW S, NEW v \in Seq(S), NEW w \in Seq(S)
    PROVE  Joins(S, v, w)
  BY ConcatIs DEF Joins

Maps(g, a, b) == Mapped(g, a \o b) = Mapped(g, a) \o Mapped(g, b)

LEMMA MappedConcat ==
    ASSUME NEW D, NEW S, NEW g \in [D -> S], NEW a \in Seq(D), NEW b \in Seq(D)
    PROVE  Maps(g, a, b)
  <1> DEFINE m == Len(a)
             n == Len(b)
             u == a \o b
             f == Mapped(g, u)
             h == Mapped(g, a) \o Mapped(g, b)
  <1>1. /\ u \in Seq(D) /\ Len(u) = m + n /\ m \in Nat /\ n \in Nat
        /\ \A i \in 1 .. m : u[i] = a[i]
        /\ \A i \in 1 .. n : u[m + i] = b[i]
    BY ConcatIs
  <1> HIDE DEF u
  <1>2. f \in Seq(S) /\ Len(f) = m + n /\ \A k \in 1 .. m + n : f[k] = g[u[k]]
    <2>1. IsMapped(S, g, u, f)
      <3> HIDE DEF m, n
      <3> QED
        BY <1>1, MappedTyped
    <2> HIDE DEF f, m, n
    <2> QED
      BY <1>1, <2>1 DEF IsMapped
  <1>3. /\ Mapped(g, a) \in Seq(S) /\ Len(Mapped(g, a)) = m /\ \A k \in 1 .. m : Mapped(g, a)[k] = g[a[k]]
        /\ Mapped(g, b) \in Seq(S) /\ Len(Mapped(g, b)) = n /\ \A k \in 1 .. n : Mapped(g, b)[k] = g[b[k]]
    <2>1. IsMapped(S, g, a, Mapped(g, a)) /\ IsMapped(S, g, b, Mapped(g, b))
      BY MappedTyped
    <2> QED
      BY <2>1 DEF IsMapped
  <1>4. /\ h \in Seq(S) /\ Len(h) = m + n
        /\ \A i \in 1 .. m : h[i] = Mapped(g, a)[i]
        /\ \A i \in 1 .. n : h[m + i] = Mapped(g, b)[i]
    <2> DEFINE v == Mapped(g, a)
               w == Mapped(g, b)
    <2>1. v \in Seq(S) /\ w \in Seq(S) /\ Len(v) = m /\ Len(w) = n
      BY <1>3
    <2> HIDE DEF v, w, m, n
    <2>2. Joins(S, v, w)
      BY <2>1, ConcatJoins
    <2> QED
      BY <2>1, <2>2 DEF v, w, Joins
  <1> HIDE DEF f, h, m, n
  <1>5. ASSUME NEW k \in 1 .. m + n PROVE f[k] = h[k]
    <2>1. CASE k \in 1 .. m
      <3>1. f[k] = g[u[k]]
        BY <1>2
      <3>2. u[k] = a[k]
        BY <1>1, <2>1
      <3>3. h[k] = Mapped(g, a)[k]
        BY <1>4, <2>1
      <3>4. Mapped(g, a)[k] = g[a[k]]
        BY <1>3, <2>1
      <3> QED
        BY <3>1, <3>2, <3>3, <3>4
    <2>2. CASE k \notin 1 .. m
      <3>1. k - m \in 1 .. n /\ m + (k - m) = k
        BY <1>1, <2>2
      <3>2. u[k] = b[k - m] /\ h[k] = Mapped(g, b)[k - m]
        BY <1>1, <1>4, <3>1
      <3> QED
        BY <1>2, <1>3, <3>1, <3>2
    <2> QED
      BY <2>1, <2>2
  <1>6. f = h
    BY <1>1, <1>2, <1>4, <1>5
  <1> QED
    BY <1>6 DEF f, h, u, Maps

LEMMA UnmarkedIs ==
    ASSUME NEW s \in Seq(Int)
    PROVE  Unmarked(s) = FlattenSeq(Mapped(SaidAt, s))
  <1>1. \A k \in DOMAIN s : s[k] \in Int
    OBVIOUS
  <1>2. [k \in DOMAIN s |-> IF s[k] \in Marks THEN <<>> ELSE <<s[k]>>] = Mapped(SaidAt, s)
    BY <1>1 DEF Mapped, SaidAt
  <1> QED
    BY <1>2 DEF Unmarked

LEMMA UnmarkedTyped ==
    ASSUME NEW s \in Seq(Int)
    PROVE  Unmarked(s) \in Seq(Int)
  <1> DEFINE q == Mapped(SaidAt, s)
  <1>1. q \in Seq(Seq(Int))
    BY SaidTyped, MappedTyped DEF IsMapped
  <1> HIDE DEF q
  <1>2. FlattenSeq(q) \in Seq(Int)
    BY <1>1, FlattenTyped
  <1> QED
    BY <1>2, UnmarkedIs DEF q

LEMMA UnmarkedConcat ==
    ASSUME NEW a \in Seq(Int), NEW b \in Seq(Int)
    PROVE  Unmarked(a \o b) = Unmarked(a) \o Unmarked(b)
  <1> DEFINE p == Mapped(SaidAt, a)
             q == Mapped(SaidAt, b)
  <1>1. p \in Seq(Seq(Int)) /\ q \in Seq(Seq(Int))
    BY SaidTyped, MappedTyped DEF IsMapped
  <1>2. Mapped(SaidAt, a \o b) = p \o q
    <2> DEFINE g == SaidAt
    <2>1. g \in [Int -> Seq(Int)]
      BY SaidTyped
    <2> HIDE DEF g
    <2>2. Maps(g, a, b)
      BY <2>1, MappedConcat
    <2> QED
      BY <2>2 DEF Maps, g
  <1>3. a \o b \in Seq(Int)
    BY ConcatTyped
  <1> HIDE DEF p, q
  <1>4. FlattenSeq(p \o q) = FlattenSeq(p) \o FlattenSeq(q)
    BY <1>1, FlattenConcat
  <1> QED
    BY <1>2, <1>3, <1>4, UnmarkedIs DEF p, q

LEMMA MarksUnsaid ==
    ASSUME NEW c \in Marks, c \in Int
    PROVE  Unmarked(<<c>>) = <<>>
  <1>1. [k \in DOMAIN <<c>> |-> IF <<c>>[k] \in Marks THEN <<>> ELSE << <<c>>[k] >>] = << <<>> >>
    OBVIOUS
  <1>2. <<>> \in Seq(Int)
    OBVIOUS
  <1> QED
    BY <1>1, <1>2, FlattenOne DEF Unmarked

LEMMA UnmarkedNone == Unmarked(<<>>) = <<>>
  <1>1. [k \in DOMAIN <<>> |-> IF <<>>[k] \in Marks THEN <<>> ELSE << <<>>[k] >>] = <<>>
    OBVIOUS
  <1> QED
    BY <1>1, FlattenNone DEF Unmarked

(* What chunks say, and how it is put together.                            *)
Meaning(chunks) == Unmarked(Contents(chunks))

LEMMA ContentsIs ==
    ASSUME NEW chunks \in Seq(Chunk)
    PROVE  Contents(chunks) = FlattenSeq(Mapped(ContentsOf, chunks))
  <1>1. \A k \in DOMAIN chunks : chunks[k] \in Chunk
    OBVIOUS
  <1>2. [k \in DOMAIN chunks |-> chunks[k].contents] = Mapped(ContentsOf, chunks)
    BY <1>1 DEF Mapped, ContentsOf
  <1> QED
    BY <1>2 DEF Contents

LEMMA ContentsConcat ==
    ASSUME NEW a \in Seq(Chunk), NEW b \in Seq(Chunk)
    PROVE  Contents(a \o b) = Contents(a) \o Contents(b)
  <1> DEFINE p == Mapped(ContentsOf, a)
             q == Mapped(ContentsOf, b)
  <1>1. p \in Seq(Seq(Int)) /\ q \in Seq(Seq(Int))
    BY ContentsOfTyped, MappedTyped DEF IsMapped
  <1>2. Mapped(ContentsOf, a \o b) = p \o q
    <2> DEFINE g == ContentsOf
    <2>1. g \in [Chunk -> Seq(Int)]
      BY ContentsOfTyped
    <2> HIDE DEF g
    <2>2. Maps(g, a, b)
      BY <2>1, MappedConcat
    <2> QED
      BY <2>2 DEF Maps, g
  <1>3. a \o b \in Seq(Chunk)
    BY ConcatTyped
  <1> HIDE DEF p, q
  <1>4. FlattenSeq(p \o q) = FlattenSeq(p) \o FlattenSeq(q)
    BY <1>1, FlattenConcat
  <1> QED
    BY <1>2, <1>3, <1>4, ContentsIs DEF p, q

LEMMA MeaningTyped ==
    ASSUME NEW chunks \in Seq(Chunk)
    PROVE  Contents(chunks) \in Seq(Int) /\ Meaning(chunks) \in Seq(Int)
  <1>1. Contents(chunks) \in Seq(Int)
    BY BothOf DEF Both
  <1> QED
    BY <1>1, UnmarkedTyped DEF Meaning

LEMMA MeaningConcat ==
    ASSUME NEW a \in Seq(Chunk), NEW b \in Seq(Chunk)
    PROVE  /\ a \o b \in Seq(Chunk) /\ Meaning(a \o b) = Meaning(a) \o Meaning(b)
           /\ Meaning(a) \in Seq(Int) /\ Meaning(b) \in Seq(Int)
  <1>1. Contents(a \o b) = Contents(a) \o Contents(b)
    BY ContentsConcat
  <1>2. Contents(a) \in Seq(Int) /\ Contents(b) \in Seq(Int)
    BY MeaningTyped
  <1>3. Meaning(a \o b) = Meaning(a) \o Meaning(b)
    BY <1>1, <1>2, UnmarkedConcat DEF Meaning
  <1> QED
    BY <1>3, ConcatTyped, MeaningTyped

LEMMA MeaningNone == Meaning(<<>>) = <<>>
  BY NoChunks, UnmarkedNone DEF Both, Meaning

LEMMA MeaningOne ==
    ASSUME NEW c \in Chunk
    PROVE  Meaning(<<c>>) = Unmarked(c.contents)
  BY TokensOfOne DEF Meaning

-----------------------------------------------------------------------------
(* Markers say nothing.                                                    *)

Silent(c) == c \in Chunk /\ Unmarked(c.contents) = <<>>

LEMMA BosIsMark == Bos \in Marks /\ Bos \in Nat
  BY DEF Marks, Bos

LEMMA SpecialUnsaid ==
    ASSUME NEW tokens \in Seq(Nat), NEW bos \in BOOLEAN
    PROVE  /\ tokenize(tokens, bos) \in Chunk
           /\ Unmarked(tokenize(tokens, bos).contents) = Unmarked(tokens)
  <1>1. tokenize(tokens, bos) \in Chunk
    BY Tokenized, TextChunk
  <1>2. tokens \in Seq(Int) /\ <<Bos>> \in Seq(Int)
    BY BosIsMark
  <1>3. CASE bos
    <2>1. tokenize(tokens, bos).contents = <<Bos>> \o tokens
      BY <1>3 DEF tokenize, text_chunk
    <2>2. Unmarked(<<Bos>> \o tokens) = Unmarked(<<Bos>>) \o Unmarked(tokens)
      BY <1>2, UnmarkedConcat
    <2>3. Unmarked(<<Bos>>) = <<>> /\ Unmarked(tokens) \in Seq(Int)
      BY <1>2, BosIsMark, MarksUnsaid, UnmarkedTyped
    <2>4. <<>> \o Unmarked(tokens) = Unmarked(tokens)
      BY <2>3, ConcatEmptySeq
    <2> QED
      BY <1>1, <2>1, <2>2, <2>3, <2>4
  <1>4. CASE ~ bos
    <2>1. tokenize(tokens, bos).contents = tokens
      BY <1>4 DEF tokenize, text_chunk
    <2> QED
      BY <1>1, <2>1
  <1> QED
    BY <1>3, <1>4

LEMMA MarkSilent ==
    ASSUME NEW name \in DOMAIN Marker, NEW bos \in BOOLEAN
    PROVE  Silent(Mark(name, bos))
  <1> DEFINE s == <<Marker[name]>>
  <1>1. Marker[name] \in Nat /\ Marker[name] \in Marks
    <2>1. Marker[name] \in Nat
      BY DEF Marker
    <2>2. Marker[name] \in {Marker[n] : n \in DOMAIN Marker}
      OBVIOUS
    <2> QED
      BY <2>1, <2>2 DEF Marks
  <1>2. s \in Seq(Nat)
    BY <1>1
  <1>3. Unmarked(s) = <<>>
    <2> DEFINE c == Marker[name]
    <2>1. c \in Marks /\ c \in Int
      BY <1>1
    <2> HIDE DEF c
    <2>2. Unmarked(<<c>>) = <<>>
      BY <2>1, MarksUnsaid
    <2> QED
      BY <2>2 DEF c
  <1> HIDE DEF s
  <1>4. tokenize(s, bos) \in Chunk /\ Unmarked(tokenize(s, bos).contents) = <<>>
    BY <1>2, <1>3, SpecialUnsaid
  <1> QED
    BY <1>4 DEF Silent, Mark, s

LEMMA SilentMeans ==
    ASSUME NEW c, Silent(c)
    PROVE  <<c>> \in Seq(Chunk) /\ Meaning(<<c>>) = <<>>
  <1>1. c \in Chunk
    BY DEF Silent
  <1> QED
    BY <1>1, MeaningOne DEF Silent

LEMMA BeforeSilent ==
    ASSUME NEW c, Silent(c), NEW s \in Seq(Chunk)
    PROVE  /\ <<c>> \o s \in Seq(Chunk) /\ Meaning(<<c>> \o s) = Meaning(s)
           /\ s \o <<c>> \in Seq(Chunk) /\ Meaning(s \o <<c>>) = Meaning(s)
  <1> DEFINE t == <<c>>
  <1>1. t \in Seq(Chunk) /\ Meaning(t) = <<>>
    BY SilentMeans
  <1> HIDE DEF t
  <1>2. /\ t \o s \in Seq(Chunk) /\ Meaning(t \o s) = Meaning(t) \o Meaning(s)
        /\ s \o t \in Seq(Chunk) /\ Meaning(s \o t) = Meaning(s) \o Meaning(t)
        /\ Meaning(s) \in Seq(Int)
    BY <1>1, MeaningConcat
  <1>3. <<>> \o Meaning(s) = Meaning(s) /\ Meaning(s) \o <<>> = Meaning(s)
    BY <1>2, ConcatEmptySeq
  <1> QED
    BY <1>1, <1>2, <1>3 DEF t

LEMMA PairIs ==
    ASSUME NEW T, NEW x \in T, NEW y \in T
    PROVE  <<x>> \o <<y>> = <<x, y>>
  <1> DEFINE s == <<x>> \o <<y>>
  <1>1. s \in Seq(T) /\ Len(s) = 2 /\ s[1] = x /\ s[2] = y
    OBVIOUS
  <1> HIDE DEF s
  <1>2. s = <<x, y>>
    BY <1>1
  <1> QED
    BY <1>2 DEF s

LEMMA TripleIs ==
    ASSUME NEW T, NEW x \in T, NEW y \in T, NEW z \in T
    PROVE  <<x>> \o <<y, z>> = <<x, y, z>>
  <1> DEFINE s == <<x>> \o <<y, z>>
  <1>1. s \in Seq(T) /\ Len(s) = 3 /\ s[1] = x /\ s[2] = y /\ s[3] = z
    OBVIOUS
  <1> HIDE DEF s
  <1>2. s = <<x, y, z>>
    BY <1>1
  <1> QED
    BY <1>2 DEF s

LEMMA BetweenSilent ==
    ASSUME NEW a, Silent(a), NEW b, Silent(b), NEW x \in Chunk
    PROVE  /\ <<x, b>> \in Seq(Chunk) /\ Meaning(<<x, b>>) = Meaning(<<x>>)
           /\ <<a, x, b>> \in Seq(Chunk) /\ Meaning(<<a, x, b>>) = Meaning(<<x>>)
  <1> DEFINE one == <<x>>
             two == one \o <<b>>
  <1>1. one \in Seq(Chunk)
    OBVIOUS
  <1> HIDE DEF one
  <1>2. two \in Seq(Chunk) /\ Meaning(two) = Meaning(one)
    BY <1>1, BeforeSilent
  <1>3. two = <<x, b>> /\ <<a>> \o two = <<a, x, b>>
    <2>1. a \in Chunk /\ b \in Chunk
      BY DEF Silent
    <2> HIDE DEF Chunk
    <2>2. two = <<x, b>>
      BY <2>1, PairIs DEF one
    <2>3. <<a>> \o <<x, b>> = <<a, x, b>>
      BY <2>1, TripleIs
    <2> HIDE DEF two
    <2> QED
      BY <2>2, <2>3
  <1> HIDE DEF two
  <1>4. <<a>> \o two \in Seq(Chunk) /\ Meaning(<<a>> \o two) = Meaning(two)
    BY <1>2, BeforeSilent
  <1> QED
    BY <1>2, <1>3, <1>4 DEF one

LEMMA AppendMeans ==
    ASSUME NEW s \in Seq(Chunk), NEW x \in Chunk
    PROVE  Meaning(Append(s, x)) = Meaning(s) \o Meaning(<<x>>)
  <1>1. Append(s, x) = s \o <<x>> /\ <<x>> \in Seq(Chunk)
    BY AppendIsConcat
  <1> QED
    BY <1>1, MeaningConcat

(* Each of the chunks between two others.                                  *)
Fenced(a, p, b) == [x \in 1 .. Len(p) |-> <<a, p[x], b>>]

LEMMA FencedMeans ==
    ASSUME NEW a, Silent(a), NEW b, Silent(b), NEW p \in Seq(Chunk)
    PROVE  /\ Fenced(a, p, b) \in Seq(Seq(Chunk)) /\ FlattenSeq(Fenced(a, p, b)) \in Seq(Chunk)
           /\ Meaning(FlattenSeq(Fenced(a, p, b))) = Meaning(p)
  <1> DEFINE S == Seq(Chunk)
             Good(q) == Fenced(a, q, b) \in Seq(S) /\ Meaning(FlattenSeq(Fenced(a, q, b))) = Meaning(q)
             Some == {n \in Nat : \A q \in Seq(Chunk) : Len(q) = n => Good(q)}
  <1>1. 0 \in Some
    <2>1. \A q \in Seq(Chunk) : Len(q) = 0 => q = <<>>
      OBVIOUS
    <2>2. Fenced(a, <<>>, b) = <<>> /\ <<>> \in Seq(S)
      BY DEF Fenced
    <2>3. Good(<<>>)
      BY <2>2, FlattenNone
    <2> HIDE DEF Good
    <2> QED
      BY <2>1, <2>3
  <1>2. ASSUME NEW n \in Nat, n \in Some PROVE n + 1 \in Some
    <2> HIDE DEF Good
    <2> SUFFICES ASSUME NEW q \in Seq(Chunk), Len(q) = n + 1 PROVE Good(q)
      OBVIOUS
    <2> DEFINE front == SubSeq(q, 1, n)
               x == q[n + 1]
               f == Fenced(a, front, b)
               t == <<a, x, b>>
    <2>1. front \in Seq(Chunk) /\ x \in Chunk /\ Len(front) = n /\ q = Append(front, x)
      <3> HIDE DEF Some
      <3> QED
        BY FrontAndLast
    <2> HIDE DEF front, x
    <2>2. Good(front)
      BY <1>2, <2>1
    <2>3. f \in Seq(S) /\ Meaning(FlattenSeq(f)) = Meaning(front)
      BY <2>2 DEF Good
    <2>4. t \in S /\ Meaning(t) = Meaning(<<x>>)
      BY <2>1, BetweenSilent
    <2>5. Fenced(a, q, b) = Append(f, t)
      <3>1. Len(f) = n /\ f = [k \in 1 .. n |-> <<a, front[k], b>>]
        BY <2>1 DEF Fenced
      <3>2. q = [k \in 1 .. n + 1 |-> IF k = n + 1 THEN x ELSE front[k]] /\ Len(q) = n + 1
        BY <2>1, AppendIs, SMTT(40)
      <3>3. Fenced(a, q, b) = [k \in 1 .. n + 1 |-> IF k = n + 1 THEN t ELSE f[k]]
        <4>1. \A k \in 1 .. n + 1 : <<a, q[k], b>> = IF k = n + 1 THEN t ELSE f[k]
          <5> HIDE DEF f
          <5>1. ASSUME NEW k \in 1 .. n + 1 PROVE <<a, q[k], b>> = IF k = n + 1 THEN t ELSE f[k]
            <6>1. CASE k = n + 1
              <7>1. q[k] = x
                BY <3>2, <6>1
              <7> QED
                BY <6>1, <7>1
            <6>2. CASE k # n + 1
              <7>1. k \in 1 .. n
                BY <6>2
              <7>2. q[k] = front[k]
                BY <3>2, <6>2
              <7>3. f[k] = <<a, front[k], b>>
                BY <3>1, <7>1
              <7> HIDE DEF t
              <7> QED
                BY <6>2, <7>2, <7>3
            <6> QED
              BY <6>1, <6>2
          <5> QED
            BY <5>1
        <4>2. Fenced(a, q, b) = [k \in 1 .. n + 1 |-> <<a, q[k], b>>]
          BY <3>2 DEF Fenced
        <4> HIDE DEF f, t
        <4> QED
          BY <4>1, <4>2
      <3> HIDE DEF f, t, S
      <3>4. Append(f, t) = [k \in 1 .. Len(f) + 1 |-> IF k = Len(f) + 1 THEN t ELSE f[k]]
        BY <2>3, <2>4, AppendIs
      <3> QED
        BY <3>1, <3>3, <3>4
    <2> HIDE DEF f, t
    <2>6. /\ Append(f, t) \in Seq(S) /\ FlattenSeq(Append(f, t)) = FlattenSeq(f) \o t /\ FlattenSeq(f) \in S
      <3>1. Append(f, t) \in Seq(S)
        <4> HIDE DEF S
        <4> QED
          BY <2>3, <2>4
      <3> QED
        BY <2>3, <2>4, <3>1, FlattenAppend, FlattenTyped
    <2>7. Meaning(FlattenSeq(f) \o t) = Meaning(FlattenSeq(f)) \o Meaning(t)
      BY <2>4, <2>6, MeaningConcat
    <2>8. Meaning(q) = Meaning(front) \o Meaning(<<x>>)
      BY <2>1, AppendMeans
    <2>9. Meaning(FlattenSeq(Fenced(a, q, b))) = Meaning(q)
      BY <2>3, <2>4, <2>5, <2>6, <2>7, <2>8
    <2> QED
      BY <2>5, <2>6, <2>9 DEF Good
  <1>3. \A n \in Nat : n \in Some
    <2> HIDE DEF Some
    <2> QED
      BY <1>1, <1>2, EveryNumber
  <1>4. Good(p)
    <2>1. Len(p) \in Nat
      OBVIOUS
    <2> HIDE DEF Good
    <2> QED
      BY <1>3, <2>1
  <1>5. FlattenSeq(Fenced(a, p, b)) \in Seq(Chunk)
    BY <1>4, FlattenTyped
  <1> QED
    BY <1>4, <1>5

(* Row after row, the tiles are all of the pieces but the first.           *)
TilesJoin(S, pieces, p, columns) ==
    LET more == [x \in 1 .. columns |-> pieces[1 + p + x]]
    IN  /\ SubSeq(pieces, 2, 1 + p) \in Seq(S) /\ more \in Seq(S)
        /\ SubSeq(pieces, 2, 1 + p + columns) = SubSeq(pieces, 2, 1 + p) \o more

LEMMA NextTiles ==
    ASSUME NEW S, NEW pieces \in Seq(S), NEW p \in Nat, NEW columns \in Nat, 1 + p + columns <= Len(pieces)
    PROVE  TilesJoin(S, pieces, p, columns)
  <1> DEFINE a == SubSeq(pieces, 2, 1 + p)
             b == [x \in 1 .. columns |-> pieces[1 + p + x]]
             c == SubSeq(pieces, 2, 1 + p + columns)
             n == Len(pieces)
  <1>1. n \in Nat /\ \A i \in 1 .. n : pieces[i] \in S
    OBVIOUS
  <1>2. a \in Seq(S) /\ Len(a) = p /\ \A i \in 1 .. p : a[i] = pieces[1 + i]
    OBVIOUS
  <1>3. b \in Seq(S) /\ Len(b) = columns /\ \A i \in 1 .. columns : b[i] = pieces[1 + p + i]
    <2>1. \A i \in 1 .. columns : 1 + p + i \in 1 .. n
      BY <1>1
    <2>2. b \in [1 .. columns -> S] /\ \A i \in 1 .. columns : b[i] = pieces[1 + p + i]
      BY <1>1, <2>1
    <2> HIDE DEF b
    <2> QED
      BY <2>2
  <1>4. c \in Seq(S) /\ Len(c) = p + columns /\ \A i \in 1 .. p + columns : c[i] = pieces[1 + i]
    OBVIOUS
  <1> HIDE DEF a, b, c, n
  <1>5. Joins(S, a, b)
    BY <1>2, <1>3, ConcatJoins
  <1>6. /\ a \o b \in Seq(S) /\ Len(a \o b) = p + columns
        /\ \A i \in 1 .. p : (a \o b)[i] = a[i]
        /\ \A i \in 1 .. columns : (a \o b)[p + i] = b[i]
    BY <1>2, <1>3, <1>5 DEF Joins
  <1>7. ASSUME NEW i \in 1 .. p + columns PROVE c[i] = (a \o b)[i]
    <2>1. CASE i \in 1 .. p
      BY <1>2, <1>4, <1>6, <2>1
    <2>2. CASE i \notin 1 .. p
      <3>1. i - p \in 1 .. columns /\ p + (i - p) = i /\ 1 + p + (i - p) = 1 + i
        BY <2>2
      <3>2. (a \o b)[i] = b[i - p] /\ b[i - p] = pieces[1 + i]
        BY <1>3, <1>6, <3>1
      <3> QED
        BY <1>4, <3>2
    <2> QED
      BY <2>1, <2>2
  <1>8. c = a \o b
    <2> DEFINE d == a \o b
    <2>1. d \in Seq(S) /\ Len(d) = p + columns /\ \A i \in 1 .. p + columns : c[i] = d[i]
      BY <1>6, <1>7
    <2> HIDE DEF d
    <2>2. c = d
      BY <1>4, <2>1
    <2> QED
      BY <2>2 DEF d
  <1> QED
    BY <1>2, <1>3, <1>8 DEF a, b, c, TilesJoin

LEMMA RestIs ==
    ASSUME NEW T, NEW s \in Seq(T), s # <<>>
    PROVE  /\ SubSeq(s, 2, Len(s)) \in Seq(T) /\ Len(SubSeq(s, 2, Len(s))) = Len(s) - 1
           /\ \A i \in 1 .. Len(s) - 1 : SubSeq(s, 2, Len(s))[i] = s[1 + i]
  OBVIOUS

RowsTell(pieces, rows) == Meaning(<<pieces[1]>> \o FlattenSeq(rows)) = Meaning(pieces)

LEMMA RowsMean ==
    ASSUME NEW pieces \in Seq(Chunk), NEW columns \in Nat \ {0}, NEW n \in Nat,
           Len(pieces) = 1 + columns * n, NEW rows \in Seq(Seq(Chunk)), Len(rows) = n,
           \A y \in 1 .. n : Meaning(rows[y]) = Meaning(TileRow(pieces, columns, y))
    PROVE  RowsTell(pieces, rows)
  <1> DEFINE S == Seq(Chunk)
             first(k) == SubSeq(rows, 1, k)
             tiles(p) == SubSeq(pieces, 2, 1 + p)
             Good == {k \in Nat : k <= n => Meaning(FlattenSeq(first(k))) = Meaning(tiles(k * columns))}
  <1>1. 0 \in Good
    <2>1. 0 * columns = 0
      BY SMT
    <2>2. first(0) = <<>> /\ tiles(0) = <<>>
      OBVIOUS
    <2> HIDE DEF first, tiles
    <2> QED
      BY <2>1, <2>2, FlattenNone
  <1>2. ASSUME NEW k \in Nat, k \in Good PROVE k + 1 \in Good
    <2> SUFFICES ASSUME k + 1 <= n PROVE Meaning(FlattenSeq(first(k + 1))) = Meaning(tiles((k + 1) * columns))
      OBVIOUS
    <2> DEFINE p == k * columns
               row == rows[k + 1]
               tile == TileRow(pieces, columns, k + 1)
    <2>1. p \in Nat /\ (k + 1) * columns = p + columns /\ 1 + p + columns <= Len(pieces)
      <3>1. PICK d \in Nat : n = (k + 1) + d
        <4>1. n - (k + 1) \in Nat /\ n = (k + 1) + (n - (k + 1))
          OBVIOUS
        <4> QED
          BY <4>1
      <3>2. columns * n = columns * k + columns + columns * d
        <4>1. columns * ((k + 1) + d) = columns * k + columns + columns * d
          BY SMT
        <4> QED
          BY <3>1, <4>1
      <3>3. columns * d \in Nat /\ columns * k \in Nat /\ columns * k = k * columns
        BY SMT
      <3>4. (k + 1) * columns = k * columns + columns
        BY SMT
      <3> DEFINE u == columns * d
                 v == columns * k
                 w == columns * n
      <3>5. u \in Nat /\ v \in Nat /\ w = v + columns + u /\ p = v /\ (k + 1) * columns = v + columns
        BY <3>2, <3>3, <3>4
      <3> HIDE DEF u, v, p
      <3>6. Len(pieces) = 1 + w
        OBVIOUS
      <3> HIDE DEF w
      <3> QED
        BY <3>5, <3>6
    <2>2. k + 1 \in 1 .. n
      OBVIOUS
    <2>3. first(k) \in Seq(S) /\ row \in S /\ first(k + 1) = Append(first(k), row)
      <3> DEFINE q == first(k + 1)
      <3>1. q \in Seq(S) /\ Len(q) = k + 1 /\ q[k + 1] = row /\ SubSeq(q, 1, k) = first(k)
        <4>1. \A i \in 1 .. n : rows[i] \in S
          OBVIOUS
        <4>2. q \in Seq(S) /\ Len(q) = k + 1 /\ \A i \in 1 .. k + 1 : q[i] = rows[i]
          OBVIOUS
        <4>3. /\ first(k) \in Seq(S) /\ Len(first(k)) = k
              /\ \A i \in 1 .. k : first(k)[i] = rows[i]
          OBVIOUS
        <4> HIDE DEF S, q, first
        <4>4. /\ SubSeq(q, 1, k) \in Seq(S) /\ Len(SubSeq(q, 1, k)) = k
              /\ \A i \in 1 .. k : SubSeq(q, 1, k)[i] = q[i]
          BY <4>2
        <4>5. SubSeq(q, 1, k) = first(k)
          <5> DEFINE a == SubSeq(q, 1, k)
                     b == first(k)
          <5>1. /\ a \in Seq(S) /\ b \in Seq(S) /\ Len(a) = k /\ Len(b) = k /\ \A i \in 1 .. k : a[i] = b[i]
            BY <4>2, <4>3, <4>4
          <5> HIDE DEF a, b
          <5>2. a = b
            BY <5>1
          <5> QED
            BY <5>2 DEF a, b
        <4> QED
          BY <4>2, <4>5
      <3> HIDE DEF q, row, S, first
      <3>2. /\ SubSeq(q, 1, k) \in Seq(S) /\ q[k + 1] \in S
            /\ q = Append(SubSeq(q, 1, k), q[k + 1])
        BY <3>1, FrontAndLast
      <3> QED
        BY <3>1, <3>2 DEF q
    <2>4. Meaning(row) = Meaning(tile)
      BY <2>2
    <2>5. Meaning(FlattenSeq(first(k))) = Meaning(tiles(p))
      BY <1>2
    <2>6. /\ tiles(p) \in S /\ tile \in S /\ tiles(p + columns) = tiles(p) \o tile
      <3>1. tile = [x \in 1 .. columns |-> pieces[1 + p + x]]
        <4>1. (k + 1) - 1 = k
          OBVIOUS
        <4> QED
          BY <4>1 DEF TileRow
      <3> HIDE DEF p, tile
      <3>2. TilesJoin(Chunk, pieces, p, columns)
        BY <2>1, NextTiles
      <3>3. 1 + (p + columns) = 1 + p + columns
        BY <2>1
      <3> QED
        BY <3>1, <3>2, <3>3 DEF TilesJoin
    <2> HIDE DEF row, tile, first, tiles, p, S
    <2>7. FlattenSeq(first(k + 1)) = FlattenSeq(first(k)) \o row /\ FlattenSeq(first(k)) \in S
      BY <2>3, FlattenAppend, FlattenTyped DEF S
    <2>8. Meaning(FlattenSeq(first(k)) \o row) = Meaning(FlattenSeq(first(k))) \o Meaning(row)
      BY <2>3, <2>7, MeaningConcat DEF S
    <2>9. Meaning(tiles(p) \o tile) = Meaning(tiles(p)) \o Meaning(tile)
      BY <2>6, MeaningConcat DEF S
    <2> QED
      BY <2>1, <2>4, <2>5, <2>6, <2>7, <2>8, <2>9
  <1>3. n \in Good
    <2>1. \A k \in Nat : k \in Good
      <3> HIDE DEF Good
      <3> QED
        BY <1>1, <1>2, EveryNumber
    <2> QED
      BY <2>1
  <1> DEFINE all == FlattenSeq(rows)
             one == <<pieces[1]>>
             rest == SubSeq(pieces, 2, Len(pieces))
  <1>4. first(n) = rows /\ tiles(n * columns) = rest
    <2>1. n * columns = columns * n
      BY SMT
    <2> DEFINE w == columns * n
    <2>2. tiles(n * columns) = SubSeq(pieces, 2, 1 + w) /\ Len(pieces) = 1 + w
      BY <2>1
    <2>3. first(n) = rows
      OBVIOUS
    <2> HIDE DEF w, tiles, first
    <2> QED
      BY <2>2, <2>3
  <1>5. Meaning(all) = Meaning(rest)
    <2> HIDE DEF first, tiles, rest
    <2>1. Meaning(FlattenSeq(first(n))) = Meaning(tiles(n * columns))
      BY <1>3
    <2> QED
      BY <1>4, <2>1
  <1>6. one \in S /\ rest \in S /\ pieces = one \o rest
    <2>1. Len(pieces) \in Nat \ {0}
      <3> DEFINE w == columns * n
      <3>1. w \in Nat /\ Len(pieces) = 1 + w
        OBVIOUS
      <3> HIDE DEF w
      <3> QED
        BY <3>1
    <2> DEFINE l == Len(pieces)
    <2>2. l \in Nat \ {0} /\ \A i \in 1 .. l : pieces[i] \in Chunk
      BY <2>1
    <2>3. rest \in S /\ Len(rest) = l - 1 /\ \A i \in 1 .. l - 1 : rest[i] = pieces[1 + i]
      <3> HIDE DEF S, Good, first, tiles
      <3>1. pieces # <<>>
        BY <2>1
      <3> QED
        BY <3>1, RestIs DEF S
    <2>4. one \in S /\ Len(one) = 1 /\ one[1] = pieces[1]
      BY <2>2
    <2> HIDE DEF one, rest
    <2>5. Joins(Chunk, one, rest)
      BY <2>3, <2>4, ConcatJoins DEF S
    <2> DEFINE d == one \o rest
    <2>6. d \in S /\ Len(d) = l /\ \A i \in 1 .. l : pieces[i] = d[i]
      <3>1. d \in S /\ Len(d) = 1 + (l - 1) /\ d[1] = one[1] /\ \A i \in 1 .. l - 1 : d[1 + i] = rest[i]
        <4> HIDE DEF l, S
        <4> QED
          BY <2>2, <2>3, <2>4, <2>5 DEF Joins, S
      <3> HIDE DEF d, l
      <3>2. ASSUME NEW i \in 1 .. l PROVE pieces[i] = d[i]
        <4>1. CASE i = 1
          BY <2>4, <3>1, <4>1
        <4>2. CASE i # 1
          <5>1. i - 1 \in 1 .. l - 1 /\ 1 + (i - 1) = i
            BY <2>2, <4>2
          <5> QED
            BY <2>3, <3>1, <5>1
        <4> QED
          BY <4>1, <4>2
      <3> QED
        BY <2>2, <3>1, <3>2
    <2> HIDE DEF d
    <2>7. pieces = d
      BY <2>6
    <2> QED
      BY <2>3, <2>4, <2>7 DEF d
  <1>7. all \in S
    BY FlattenTyped
  <1> HIDE DEF all, one, rest, S, Good, first, tiles
  <1>8. Meaning(one \o all) = Meaning(one) \o Meaning(all) /\ Meaning(one \o rest) = Meaning(one) \o Meaning(rest)
    BY <1>6, <1>7, MeaningConcat DEF S
  <1> QED
    BY <1>5, <1>6, <1>8 DEF all, one, RowsTell

(* Overview and tiles, whatever is put around them.                        *)
LEMMA MiniCpmVMeans ==
    ASSUME NEW f, NEW m \in Media, NEW bos \in BOOLEAN, NEW pieces \in Seq(Chunk),
           Len(pieces) = 1 \/ Len(pieces) = 1 + Grid[m][1] * Grid[m][2]
    PROVE  Meaning(MiniCpmV(f, pieces, Grid[m], bos)) = Meaning(pieces)
  <1> DEFINE columns == Grid[m][1]
             n       == Grid[m][2]
             old     == f = "minicpmv2"
             open    == Mark(IF old THEN "begin" ELSE "slice", FALSE)
             close   == Mark(IF old THEN "end" ELSE "slice_end", FALSE)
             tile(y) == TileRow(pieces, columns, y)
             fenced(y) == [x \in 1 .. columns |-> <<open, tile(y)[x], close>>]
             broken(y) == IF y = n THEN <<>> ELSE <<Mark("row_end", FALSE)>>
             row(y)  == FlattenSeq(fenced(y)) \o broken(y)
             rows    == [y \in 1 .. n |-> row(y)]
             before  == IF old THEN <<Mark("slice", FALSE)>> ELSE <<>>
             behind  == IF old THEN <<Mark("slice_end", FALSE)>> ELSE <<>>
             all     == FlattenSeq(rows)
             tiles   == IF Len(pieces) = 1 THEN <<>> ELSE before \o all \o behind
             one     == <<pieces[1]>>
             first   == <<Mark("begin", bos), pieces[1], Mark("end", FALSE)>>
             S       == Seq(Chunk)
  <1>1. \A name \in DOMAIN Marker, b \in BOOLEAN : Silent(Mark(name, b))
    BY MarkSilent
  <1>2. Silent(open) /\ Silent(close) /\ Silent(Mark("begin", bos)) /\ Silent(Mark("end", FALSE))
        /\ Silent(Mark("row_end", FALSE)) /\ Silent(Mark("slice", FALSE)) /\ Silent(Mark("slice_end", FALSE))
    BY <1>1, MarkerNames
  <1>3. columns \in Nat \ {0} /\ n \in Nat \ {0} /\ columns * n \in Nat \ {0}
    BY GridTyped
  <1>4. pieces[1] \in Chunk /\ one \in S
    <2> DEFINE slices == columns * n
    <2>1. slices \in Nat /\ (Len(pieces) = 1 \/ Len(pieces) = 1 + slices)
      BY <1>3
    <2> HIDE DEF slices
    <2>2. pieces[1] \in Chunk
      BY <2>1
    <2> QED
      BY <2>2
  <1>5. first \in S /\ Meaning(first) = Meaning(one)
    <2> HIDE DEF S
    <2> QED
      BY <1>2, <1>4, BetweenSilent DEF S
  <1>6. ASSUME NEW s \in S PROVE before \o s \in S /\ Meaning(before \o s) = Meaning(s)
    <2>1. CASE old
      <3> DEFINE c == Mark("slice", FALSE)
      <3>1. before = <<c>>
        BY <2>1
      <3> HIDE DEF c, before
      <3> QED
        BY <1>2, <3>1, BeforeSilent DEF c
    <2>2. CASE ~ old
      <3>1. before = <<>> /\ <<>> \o s = s
        BY <2>2, ConcatEmptySeq
      <3> HIDE DEF before
      <3> QED
        BY <3>1
    <2> QED
      BY <2>1, <2>2
  <1>7. ASSUME NEW s \in S PROVE s \o behind \in S /\ Meaning(s \o behind) = Meaning(s)
    <2>1. CASE old
      <3> DEFINE c == Mark("slice_end", FALSE)
      <3>1. behind = <<c>>
        BY <2>1
      <3> HIDE DEF c, behind
      <3> QED
        BY <1>2, <3>1, BeforeSilent DEF c
    <2>2. CASE ~ old
      <3>1. behind = <<>> /\ s \o <<>> = s
        BY <2>2, ConcatEmptySeq
      <3> HIDE DEF behind
      <3> QED
        BY <3>1
    <2> QED
      BY <2>1, <2>2
  <1>8. ASSUME NEW y \in 1 .. n, Len(pieces) # 1 PROVE row(y) \in S /\ Meaning(row(y)) = Meaning(tile(y))
    <2> DEFINE t == tile(y)
    <2>1. t \in Seq(Chunk) /\ Len(t) = columns
      <3>1. ASSUME NEW x \in 1 .. columns PROVE pieces[1 + (y - 1) * columns + x] \in Chunk
        <4> DEFINE k == 1 + (y - 1) * columns + x
        <4>1. k \in 1 .. 1 + columns * n
          BY <1>3, TileIndex
        <4>2. k \in 1 .. Len(pieces)
          BY <1>8, <4>1
        <4> HIDE DEF k
        <4>3. pieces[k] \in Chunk
          BY <4>2
        <4> QED
          BY <4>3 DEF k
      <3>2. t \in [1 .. columns -> Chunk]
        BY <3>1 DEF TileRow
      <3> HIDE DEF t, columns
      <3> QED
        BY <1>3, <3>2
    <2>2. fenced(y) = Fenced(open, t, close)
      BY <2>1 DEF Fenced
    <2> HIDE DEF t, open, close, S, fenced
    <2>3. FlattenSeq(Fenced(open, t, close)) \in Seq(Chunk) /\ Meaning(FlattenSeq(Fenced(open, t, close))) = Meaning(t)
      BY <1>2, <2>1, FencedMeans
    <2> DEFINE u == FlattenSeq(fenced(y))
    <2>4. u \in S /\ Meaning(u) = Meaning(t)
      BY <2>2, <2>3 DEF S
    <2> HIDE DEF u
    <2>5. u \o broken(y) \in S /\ Meaning(u \o broken(y)) = Meaning(u)
      <3>1. CASE y = n
        <4>1. broken(y) = <<>> /\ u \o <<>> = u
          BY <2>4, <3>1, ConcatEmptySeq DEF S
        <4> HIDE DEF broken
        <4> QED
          BY <2>4, <4>1
      <3>2. CASE y # n
        <4> DEFINE c == Mark("row_end", FALSE)
        <4>1. broken(y) = <<c>> /\ Silent(c)
          BY <1>2, <3>2
        <4> HIDE DEF c, broken
        <4>2. u \o <<c>> \in Seq(Chunk) /\ Meaning(u \o <<c>>) = Meaning(u)
          BY <2>4, <4>1, BeforeSilent DEF S
        <4> QED
          BY <4>1, <4>2 DEF S
      <3> QED
        BY <3>1, <3>2
    <2> QED
      BY <2>4, <2>5 DEF u, t
  <1>9. ASSUME Len(pieces) # 1 PROVE all \in S /\ Meaning(one \o all) = Meaning(pieces)
    <2>1. rows \in [1 .. n -> S] /\ \A y \in 1 .. n : rows[y] = row(y)
      <3> HIDE DEF row, S
      <3> QED
        BY <1>8, <1>9
    <2>2. \A y \in 1 .. n : Meaning(rows[y]) = Meaning(TileRow(pieces, columns, y))
      <3> HIDE DEF row, rows
      <3> QED
        BY <1>8, <1>9, <2>1
    <2>3. Len(pieces) = 1 + columns * n
      BY <1>9
    <2> HIDE DEF rows, S, columns, n
    <2>4. rows \in Seq(S) /\ Len(rows) = n
      BY <1>3, <2>1
    <2>5. RowsTell(pieces, rows)
      BY <1>3, <2>2, <2>3, <2>4, RowsMean DEF S
    <2> QED
      BY <2>4, <2>5, FlattenTyped DEF S, RowsTell
  <1>10. tiles \in S /\ Meaning(one \o tiles) = Meaning(pieces)
    <2>1. CASE Len(pieces) = 1
      <3>1. tiles = <<>> /\ pieces = one
        <4>1. pieces = <<pieces[1]>>
          BY <2>1
        <4> QED
          BY <2>1, <4>1
      <3>2. one \o <<>> = one
        BY <1>4, ConcatEmptySeq
      <3>3. <<>> \in S
        OBVIOUS
      <3> HIDE DEF tiles, one
      <3> QED
        BY <3>1, <3>2, <3>3
    <2>2. CASE Len(pieces) # 1
      <3> DEFINE a == before \o all
                 b == a \o behind
      <3> HIDE DEF all, before, behind, S, one
      <3>1. a \in S /\ Meaning(a) = Meaning(all)
        BY <1>6, <1>9, <2>2
      <3> HIDE DEF a
      <3>2. b \in S /\ Meaning(b) = Meaning(a)
        BY <1>7, <3>1
      <3>3. tiles = b
        BY <2>2 DEF a
      <3> HIDE DEF b, tiles
      <3>4. Meaning(one \o tiles) = Meaning(one) \o Meaning(tiles) /\ Meaning(one \o all) = Meaning(one) \o Meaning(all)
        BY <1>4, <1>9, <2>2, <3>2, <3>3, MeaningConcat DEF S
      <3> QED
        BY <1>9, <2>2, <3>1, <3>2, <3>3, <3>4
    <2> QED
      BY <2>1, <2>2
  <1>11. MiniCpmV(f, pieces, Grid[m], bos) = first \o tiles
    BY DEF MiniCpmV
  <1> HIDE DEF first, tiles, one, S
  <1>12. Meaning(first \o tiles) = Meaning(first) \o Meaning(tiles) /\ Meaning(one \o tiles) = Meaning(one) \o Meaning(tiles)
    BY <1>4, <1>5, <1>10, MeaningConcat DEF S
  <1> QED
    BY <1>5, <1>10, <1>11, <1>12

(***************************************************************************)
(* Whatever a family puts around and between the pieces of a medium, its   *)
(* chunks say what the pieces do, in their order.                          *)
(***************************************************************************)
LEMMA WrappedMeans ==
    ASSUME NEW f \in Families, NEW m \in Media, NEW bos \in BOOLEAN, Hears(f) = (m \in Audio),
           NEW pieces \in Seq(Chunk), Len(pieces) = Count(f, m)
    PROVE  Wrapped(f, m, pieces, bos) \in Seq(Chunk) /\ Meaning(Wrapped(f, m, pieces, bos)) = Meaning(pieces)
  <1>1. Wrapped(f, m, pieces, bos) \in Seq(Chunk)
    BY WrappedOf, TextsAreChunks
  <1>2. \A name \in DOMAIN Marker, b \in BOOLEAN : Silent(Mark(name, b))
    BY MarkSilent
  <1>3. Silent(Mark("begin", bos)) /\ Silent(Mark("tile", bos)) /\ Silent(Mark("end", FALSE))
    BY <1>2, MarkerNames
  <1>4. CASE m \in Audio
    <2> DEFINE a == Mark("begin", bos)
               b == Mark("end", FALSE)
    <2>1. Silent(a) /\ Silent(b)
      BY <1>3
    <2> HIDE DEF a, b
    <2>2. <<a>> \o pieces \in Seq(Chunk) /\ Meaning(<<a>> \o pieces) = Meaning(pieces)
      BY <2>1, BeforeSilent
    <2> DEFINE s == <<a>> \o pieces
    <2>3. s \in Seq(Chunk) /\ Meaning(s) = Meaning(pieces)
      BY <2>2
    <2> HIDE DEF s
    <2>4. Meaning(s \o <<b>>) = Meaning(pieces)
      BY <2>1, <2>3, BeforeSilent
    <2>5. Sound(f, pieces, bos) \in {s \o <<b>>, s, pieces}
      BY DEF Sound, a, b, s
    <2>6. Wrapped(f, m, pieces, bos) = Sound(f, pieces, bos)
      BY <1>4 DEF Wrapped, Hears
    <2> QED
      BY <1>1, <2>3, <2>4, <2>5, <2>6
  <1>5. CASE m \notin Audio /\ f \in {"minicpmv2", "minicpmv"}
    <2>1. Len(pieces) = 1 \/ Len(pieces) = 1 + Grid[m][1] * Grid[m][2]
      BY <1>5 DEF Count
    <2>2. Meaning(MiniCpmV(f, pieces, Grid[m], bos)) = Meaning(pieces)
      BY <2>1, MiniCpmVMeans
    <2>3. Wrapped(f, m, pieces, bos) = MiniCpmV(f, pieces, Grid[m], bos)
      BY <1>5 DEF Wrapped
    <2> QED
      BY <1>1, <2>2, <2>3
  <1>6. CASE m \notin Audio /\ f \notin {"minicpmv2", "minicpmv"}
    <2> DEFINE x == pieces[1]
               a == Mark("begin", bos)
               t == Mark("tile", bos)
               b == Mark("end", FALSE)
    <2>1. Len(pieces) = 1
      BY <1>6 DEF Count
    <2>2. x \in Chunk /\ pieces = <<x>>
      BY <2>1
    <2>3. Silent(a) /\ Silent(t) /\ Silent(b)
      BY <1>3
    <2>4. Llama4(pieces, Grid[m], bos) = <<a>> \o <<>> \o <<t, x, b>>
      BY <2>1 DEF Llama4
    <2>5. Wrapped(f, m, pieces, bos) \in {Llama4(pieces, Grid[m], bos), <<x, b>>, <<x>>, <<a, x, b>>}
      BY <1>6, <2>2 DEF Wrapped, Pixtral, Around
    <2> HIDE DEF x, a, t, b
    <2>6. /\ Meaning(<<x, b>>) = Meaning(<<x>>) /\ Meaning(<<a, x, b>>) = Meaning(<<x>>)
          /\ Meaning(<<t, x, b>>) = Meaning(<<x>>) /\ <<t, x, b>> \in Seq(Chunk)
      BY <2>2, <2>3, BetweenSilent
    <2> DEFINE three == <<t, x, b>>
    <2>7. three \in Seq(Chunk) /\ <<a>> \in Seq(Chunk) /\ Meaning(three) = Meaning(<<x>>)
      BY <2>3, <2>6, SilentMeans
    <2>8. Llama4(pieces, Grid[m], bos) = <<a>> \o <<>> \o three
      BY <2>4
    <2> HIDE DEF three
    <2>9. <<a>> \o <<>> = <<a>>
      BY <2>7, ConcatEmptySeq
    <2>10. Meaning(<<a>> \o three) = Meaning(three)
      BY <2>3, <2>7, BeforeSilent
    <2>11. Meaning(Llama4(pieces, Grid[m], bos)) = Meaning(<<x>>)
      BY <2>7, <2>8, <2>9, <2>10
    <2> QED
      BY <1>1, <2>2, <2>5, <2>6, <2>11
  <1> QED
    BY <1>4, <1>5, <1>6

-----------------------------------------------------------------------------
(* What a message says to a model of family f.                             *)

MediumSaysTo(f, m) ==
    LET grid  == Grid[m][1] * Grid[m][2]
        n     == CASE m \in Audio -> Grid[m][1]
                   [] f \in {"minicpmv", "minicpmv2"} /\ grid > 1 -> grid + 1
                   [] OTHER -> 1
        n_pos == IF f = "qwen2vl" THEN Max(ToSet(Grid[m])) ELSE Positions[m]
    IN  FlattenSeq([i \in 1 .. n |-> [k \in 1 .. n_pos |-> 10000 * m + 100 * i + k]])

PartSays(f) == [p \in Part |-> IF p.media = 0 THEN p.text ELSE MediumSaysTo(f, p.media)]

SaysTo(f, message) == FlattenSeq(Mapped(PartSays(f), message))

LEMMA SaysIs ==
    ASSUME NEW message \in Seq(Part)
    PROVE  Says(message) = SaysTo(setup.family, message)
  <1>1. \A m : MediumSays(m) = MediumSaysTo(setup.family, m)
    BY DEF MediumSays, MediumSaysTo
  <1>2. \A k \in DOMAIN message : message[k] \in Part
    OBVIOUS
  <1>3. [k \in DOMAIN message |-> IF message[k].media = 0 THEN message[k].text ELSE MediumSays(message[k].media)]
        = Mapped(PartSays(setup.family), message)
    BY <1>1, <1>2 DEF Mapped, PartSays
  <1> QED
    BY <1>3 DEF Says, SaysTo

(* The parts of a medium, n of them, of n_pos positions.                   *)
Shown(m, n, n_pos) == [i \in 1 .. n |-> [k \in 1 .. n_pos |-> 10000 * m + 100 * i + k]]

LEMMA ShownTyped ==
    ASSUME NEW m \in Nat, NEW n \in Nat, NEW n_pos \in Nat
    PROVE  Shown(m, n, n_pos) \in Seq(Seq(Int))
  <1> DEFINE S == Seq(Int)
             c(i) == [k \in 1 .. n_pos |-> 10000 * m + 100 * i + k]
  <1>1. ASSUME NEW i \in 1 .. n PROVE c(i) \in S
    <2>1. \A k \in 1 .. n_pos : 10000 * m + 100 * i + k \in Int
      OBVIOUS
    <2>2. c(i) \in [1 .. n_pos -> Int]
      BY <2>1
    <2> HIDE DEF c
    <2> QED
      BY <2>2
  <1> HIDE DEF c, S
  <1>2. [i \in 1 .. n |-> c(i)] \in Seq(S)
    BY <1>1
  <1> QED
    BY <1>2 DEF Shown, S, c

LEMMA LongerSide ==
    ASSUME NEW m \in Media
    PROVE  ToSet(Grid[m]) = {Grid[m][1], Grid[m][2]} /\ Max({Grid[m][1], Grid[m][2]}) \in Nat \ {0}
  <1>1. Grid[m] \in Seq(Nat \ {0}) /\ Len(Grid[m]) = 2
    BY PromptAssumption
  <1>2. DOMAIN Grid[m] = {1, 2}
    BY <1>1
  <1>3. ToSet(Grid[m]) = {Grid[m][1], Grid[m][2]}
    BY <1>2 DEF ToSet
  <1>4. \A a, b \in Nat \ {0} : Max({a, b}) \in {a, b}
    BY DEF Max
  <1> QED
    BY <1>3, <1>4, GridTyped

LEMMA MediumTyped ==
    ASSUME NEW f, NEW m \in Media
    PROVE  MediumSaysTo(f, m) \in Seq(Int)
  <1> DEFINE grid  == Grid[m][1] * Grid[m][2]
             n     == CASE m \in Audio -> Grid[m][1]
                        [] f \in {"minicpmv", "minicpmv2"} /\ grid > 1 -> grid + 1
                        [] OTHER -> 1
             n_pos == IF f = "qwen2vl" THEN Max(ToSet(Grid[m])) ELSE Positions[m]
  <1>1. n \in Nat
    <2>1. grid \in Nat /\ Grid[m][1] \in Nat
      BY GridTyped
    <2> HIDE DEF grid
    <2> QED
      BY <2>1
  <1>2. n_pos \in Nat
    BY LongerSide, GridTyped
  <1>3. m \in Nat
    BY GridTyped
  <1>4. MediumSaysTo(f, m) = FlattenSeq(Shown(m, n, n_pos))
    BY DEF MediumSaysTo, Shown
  <1> HIDE DEF n, n_pos
  <1>5. Shown(m, n, n_pos) \in Seq(Seq(Int))
    BY <1>1, <1>2, <1>3, ShownTyped
  <1> QED
    BY <1>4, <1>5, FlattenTyped

(* The pieces of a medium, whenever they were projected, say what it does. *)
LEMMA PiecesSay ==
    ASSUME NEW f \in Families, NEW m \in Media, Hears(f) = (m \in Audio), NEW d \in Int
    PROVE  Meaning(Projection(f, m, d)) = Unmarked(MediumSaysTo(f, m))
  <1> DEFINE grid  == Grid[m][1] * Grid[m][2]
             n     == CASE m \in Audio -> Grid[m][1]
                        [] f \in {"minicpmv", "minicpmv2"} /\ grid > 1 -> grid + 1
                        [] OTHER -> 1
             n_pos == IF f = "qwen2vl" THEN Max(ToSet(Grid[m])) ELSE Positions[m]
             p     == Projection(f, m, d)
  <1>1. n = Count(f, m)
    <2>1. grid \in Nat
      BY GridTyped
    <2>2. CASE m \in Audio
      <3>1. f \notin {"minicpmv", "minicpmv2"}
        BY <2>2 DEF Hears
      <3> QED
        BY <2>2, <3>1 DEF Count
    <2>3. CASE m \notin Audio /\ f \in {"minicpmv", "minicpmv2"} /\ grid > 1
      <3>1. n = grid + 1
        <4> HIDE DEF grid
        <4> QED
          BY <2>3
      <3>2. Count(f, m) = 1 + grid
        BY <2>3 DEF Count
      <3> HIDE DEF n, grid
      <3> QED
        BY <2>1, <3>1, <3>2
    <2>4. CASE m \notin Audio /\ ~ (f \in {"minicpmv", "minicpmv2"} /\ grid > 1)
      <3>1. Count(f, m) = 1
        BY <2>4 DEF Count
      <3> HIDE DEF grid
      <3> QED
        BY <2>4, <3>1
    <2> QED
      BY <2>2, <2>3, <2>4
  <1>2. n_pos = Extent(f, m)
    <2>1. f = "qwen2vl" => m \notin Audio
      BY DEF Hears
    <2> QED
      BY <2>1, LongerSide DEF Extent
  <1>3. MediumSaysTo(f, m) = FlattenSeq(Shown(m, n, n_pos))
    BY DEF MediumSaysTo, Shown
  <1> HIDE DEF n, n_pos
  <1>4. /\ DOMAIN p = 1 .. n
        /\ \A i \in 1 .. n : p[i] = piece(m, i, n_pos, d - (i - 1))
    <2>1. /\ p \in Seq(Chunk) /\ Len(p) = Count(f, m)
          /\ \A i \in 1 .. Count(f, m) : p[i] = piece(m, i, Extent(f, m), d - (i - 1))
      BY ProjectionTyped
    <2> HIDE DEF p
    <2>2. DOMAIN p = 1 .. Count(f, m)
      BY <2>1
    <2> QED
      BY <1>1, <1>2, <2>1, <2>2
  <1> HIDE DEF p
  <1>5. \A i \in 1 .. n : p[i].contents = [k \in 1 .. n_pos |-> 10000 * m + 100 * i + k]
    <2> DEFINE c(i) == [k \in 1 .. n_pos |-> 10000 * m + 100 * i + k]
               t(i) == [k \in 1 .. n_pos |-> d - (i - 1)]
    <2>1. \A i : piece(m, i, n_pos, d - (i - 1)) = [media |-> TRUE, tokens |-> t(i), contents |-> c(i)]
      BY DEF piece
    <2> HIDE DEF c, t
    <2>2. ASSUME NEW i \in 1 .. n PROVE p[i].contents = c(i)
      <3>1. p[i] = [media |-> TRUE, tokens |-> t(i), contents |-> c(i)]
        BY <1>4, <2>1
      <3> QED
        BY <3>1
    <2> QED
      BY <2>2 DEF c
  <1>6. [i \in DOMAIN p |-> p[i].contents] = Shown(m, n, n_pos)
    BY <1>4, <1>5 DEF Shown
  <1> QED
    BY <1>3, <1>6 DEF Meaning, Contents, p

LEMMA PartSaysTyped ==
    ASSUME NEW f
    PROVE  PartSays(f) \in [Part -> Seq(Int)]
  <1>1. ASSUME NEW p \in Part PROVE (IF p.media = 0 THEN p.text ELSE MediumSaysTo(f, p.media)) \in Seq(Int)
    <2>1. p.media \in Media \cup {0} /\ p.text \in Seq(Nat)
      BY DEF Part
    <2>2. p.text \in Seq(Int)
      BY <2>1
    <2>3. p.media # 0 => MediumSaysTo(f, p.media) \in Seq(Int)
      BY <2>1, MediumTyped
    <2> QED
      BY <2>2, <2>3
  <1> QED
    BY <1>1 DEF PartSays

LEMMA SaysTyped ==
    ASSUME NEW f, NEW message \in Seq(Part)
    PROVE  SaysTo(f, message) \in Seq(Int)
  <1> DEFINE g == PartSays(f)
             q == Mapped(g, message)
  <1>1. g \in [Part -> Seq(Int)]
    BY PartSaysTyped
  <1> HIDE DEF g
  <1>2. IsMapped(Seq(Int), g, message, q)
    BY <1>1, MappedTyped
  <1> HIDE DEF q
  <1>3. q \in Seq(Seq(Int))
    BY <1>2 DEF IsMapped
  <1> QED
    BY <1>3, FlattenTyped DEF SaysTo, g, q

LEMMA SaysNone == \A f : SaysTo(f, <<>>) = <<>>
  <1>1. \A g : Mapped(g, <<>>) = <<>>
    BY DEF Mapped
  <1> QED
    BY <1>1, FlattenNone DEF SaysTo

LEMMA HeadAndTail ==
    ASSUME NEW T, NEW s \in Seq(T), s # <<>>
    PROVE  s = <<Head(s)>> \o Tail(s)
  <1> DEFINE h == Head(s)
             t == Tail(s)
             one == <<h>>
             l == Len(s)
  <1>1. l \in Nat \ {0} /\ h = s[1] /\ h \in T
    OBVIOUS
  <1>2. t \in Seq(T) /\ Len(t) = l - 1 /\ \A i \in 1 .. l - 1 : t[i] = s[1 + i]
    OBVIOUS
  <1> HIDE DEF h, t
  <1>3. one \in Seq(T) /\ Len(one) = 1 /\ one[1] = h
    BY <1>1
  <1> HIDE DEF one
  <1>4. Joins(T, one, t)
    BY <1>2, <1>3, ConcatJoins
  <1> DEFINE d == one \o t
  <1>5. d \in Seq(T) /\ Len(d) = 1 + (l - 1) /\ d[1] = one[1] /\ \A i \in 1 .. l - 1 : d[1 + i] = t[i]
    <2> HIDE DEF l
    <2> QED
      BY <1>1, <1>2, <1>3, <1>4 DEF Joins
  <1> HIDE DEF d
  <1>6. ASSUME NEW i \in 1 .. l PROVE s[i] = d[i]
    <2>1. CASE i = 1
      BY <1>1, <1>3, <1>5, <2>1
    <2>2. CASE i # 1
      <3>1. i - 1 \in 1 .. l - 1 /\ 1 + (i - 1) = i
        BY <1>1, <2>2
      <3> QED
        BY <1>2, <1>5, <3>1
    <2> QED
      BY <2>1, <2>2
  <1>7. s = d
    BY <1>1, <1>5, <1>6
  <1> QED
    BY <1>7 DEF d, one, h, t

LEMMA SaysFirst ==
    ASSUME NEW f, NEW message \in Seq(Part), message # <<>>
    PROVE  /\ SaysTo(f, message) = PartSays(f)[Head(message)] \o SaysTo(f, Tail(message))
           /\ PartSays(f)[Head(message)] \in Seq(Int) /\ SaysTo(f, Tail(message)) \in Seq(Int)
  <1> DEFINE g == PartSays(f)
             h == Head(message)
             t == Tail(message)
             one == <<h>>
             x == g[h]
  <1>1. g \in [Part -> Seq(Int)]
    BY PartSaysTyped
  <1>2. h \in Part /\ t \in Seq(Part)
    BY HeadTail
  <1>3. message = one \o t
    BY HeadAndTail
  <1> HIDE DEF g, h, t
  <1>4. one \in Seq(Part) /\ x \in Seq(Int)
    BY <1>1, <1>2
  <1>5. Mapped(g, one) = <<x>>
    BY DEF Mapped
  <1> HIDE DEF one, x
  <1>6. Maps(g, one, t)
    BY <1>1, <1>2, <1>4, MappedConcat
  <1> DEFINE q == Mapped(g, t)
             w == <<x>>
  <1>7. q \in Seq(Seq(Int))
    <2>1. IsMapped(Seq(Int), g, t, q)
      BY <1>1, <1>2, MappedTyped
    <2> QED
      BY <2>1 DEF IsMapped
  <1>8. w \in Seq(Seq(Int)) /\ FlattenSeq(w) = x
    BY <1>4, FlattenOne
  <1>9. Mapped(g, message) = w \o q
    BY <1>3, <1>5, <1>6 DEF Maps
  <1> HIDE DEF q, w
  <1>10. FlattenSeq(w \o q) = FlattenSeq(w) \o FlattenSeq(q)
    BY <1>7, <1>8, FlattenConcat
  <1>11. SaysTo(f, message) = x \o SaysTo(f, t)
    BY <1>8, <1>9, <1>10 DEF SaysTo, g, q
  <1>12. SaysTo(f, t) \in Seq(Int)
    BY <1>2, SaysTyped
  <1> QED
    BY <1>4, <1>11, <1>12 DEF x, g, h, t

-----------------------------------------------------------------------------
(* What was taken of a message so far, and what is left of it.             *)

SayWell(f, rec) ==
    /\ rec.state = "new" => rec.chunks = <<>>
    /\ rec.state = "tokenizing" =>
           Meaning(rec.chunks) \o Unmarked(SaysTo(f, rec.message)) = Unmarked(SaysTo(f, rec.asked))
    /\ rec.state = "queued" /\ ~ IsPlain(rec.asked) => Meaning(rec.chunks) = Unmarked(SaysTo(f, rec.asked))

SayInv == \A r \in Requests : SayWell(setup.family, request[r])

LEMMA SayStep ==
    ASSUME Inv, SayInv, UNCHANGED setup, NEW r \in Requests, NEW rec, request' = [request EXCEPT ![r] = rec],
           SayWell(setup.family, rec)
    PROVE  SayInv'
  BY DEF SayInv, Inv, Types

LEMMA ReceiveSays ==
    ASSUME Inv, SayInv, NEW r \in Requests, NEW message \in setup.messages, Receive(r, message)
    PROVE  SayInv'
  <1> DEFINE prompt == PlainPrompt(FlattenSeq([k \in DOMAIN message |-> message[k].text]))
             f == setup.family
             old == request[r]
             asked == [old EXCEPT !.asked = message]
             more == [asked EXCEPT !.state = "tokenizing", !.message = message]
             refused == [asked EXCEPT !.state = "refused"]
             queued == [asked EXCEPT !.state = "queued", !.chunks = <<text_chunk(prompt)>>]
  <1>1. message \in Seq(Part)
    BY MessageTyped DEF Inv, Types
  <1>2. old \in Rec /\ old.state = "new" /\ UNCHANGED setup
    BY DEF Inv, Types, Receive
  <1>3. old.chunks = <<>>
    BY <1>2 DEF SayInv, SayWell
  <1>4. \/ request' = [request EXCEPT ![r] = more]
        \/ request' = [request EXCEPT ![r] = refused]
        \/ IsPlain(message) /\ request' = [request EXCEPT ![r] = queued]
    <2> DEFINE cases == CASE ~IsPlain(message) -> more [] IsPlain(message) /\ prompt = <<>> -> refused [] OTHER -> queued
    <2>1. request' = [request EXCEPT ![r] = cases]
      BY DEF Receive
    <2>2. cases = more \/ cases = refused \/ (IsPlain(message) /\ cases = queued)
      <3> HIDE DEF more, refused, queued, prompt
      <3> QED
        OBVIOUS
    <2> HIDE DEF cases
    <2> QED
      BY <2>1, <2>2
  <1>5. asked \in Rec /\ asked.asked = message /\ asked.chunks = <<>>
    <2> HIDE DEF old
    <2> QED
      BY <1>1, <1>2, <1>3 DEF Rec
  <1> HIDE DEF asked, prompt
  <1>6. SayWell(f, more)
    <2>1. more.state = "tokenizing" /\ more.message = message /\ more.asked = message /\ more.chunks = <<>>
      BY <1>5 DEF Rec
    <2> HIDE DEF more
    <2> DEFINE u == Unmarked(SaysTo(f, message))
    <2>2. u \in Seq(Int)
      BY <1>1, SaysTyped, UnmarkedTyped
    <2> HIDE DEF u
    <2>3. <<>> \o u = u
      BY <2>2, ConcatEmptySeq
    <2>4. Meaning(more.chunks) \o Unmarked(SaysTo(f, more.message)) = Unmarked(SaysTo(f, more.asked))
      BY <2>1, <2>3, MeaningNone DEF u
    <2> QED
      BY <2>1, <2>4 DEF SayWell
  <1>7. SayWell(f, refused)
    BY <1>5 DEF SayWell, Rec
  <1>8. ASSUME IsPlain(message) PROVE SayWell(f, queued)
    <2>1. queued.state = "queued" /\ queued.asked = message
      BY <1>5 DEF Rec
    <2> HIDE DEF queued
    <2> QED
      BY <1>8, <2>1 DEF SayWell
  <1> HIDE DEF more, refused, queued
  <1> QED
    BY <1>2, <1>4, <1>6, <1>7, <1>8, SayStep

LEMMA IntsAssociate ==
    ASSUME NEW a \in Seq(Int), NEW b \in Seq(Int), NEW c \in Seq(Int)
    PROVE  (a \o b) \o c = a \o (b \o c)
  BY ConcatAssociative

(* A part is taken: what it says is said by the chunks it becomes.         *)
LEMMA PartTaken ==
    ASSUME NEW f, NEW chunks \in Seq(Chunk), NEW message \in Seq(Part), message # <<>>, NEW added \in Seq(Chunk),
           Meaning(added) = Unmarked(PartSays(f)[Head(message)])
    PROVE  Meaning(chunks \o added) \o Unmarked(SaysTo(f, Tail(message)))
               = Meaning(chunks) \o Unmarked(SaysTo(f, message))
  <1> DEFINE x == PartSays(f)[Head(message)]
             y == SaysTo(f, Tail(message))
             a == Meaning(chunks)
             b == Unmarked(x)
             c == Unmarked(y)
  <1>1. SaysTo(f, message) = x \o y /\ x \in Seq(Int) /\ y \in Seq(Int)
    BY SaysFirst
  <1> HIDE DEF x, y
  <1>2. Unmarked(SaysTo(f, message)) = b \o c
    BY <1>1, UnmarkedConcat
  <1>3. Meaning(chunks \o added) = a \o b /\ a \in Seq(Int)
    BY MeaningConcat DEF x
  <1>4. b \in Seq(Int) /\ c \in Seq(Int)
    BY <1>1, UnmarkedTyped
  <1> HIDE DEF a, b, c
  <1>5. (a \o b) \o c = a \o (b \o c)
    BY <1>3, <1>4, IntsAssociate
  <1> QED
    BY <1>2, <1>3, <1>5 DEF a, c, y

LEMMA AddTextSays ==
    ASSUME Inv, SayInv, NEW r \in Requests, AddText(r)
    PROVE  SayInv'
  <1> DEFINE f == setup.family
             old == request[r]
             message == old.message
             text == Head(message).text
             first == (old.chunks = <<>>)
             chunk == tokenize(text, first)
             chunks == old.chunks
             more == Append(chunks, chunk)
             rest == Tail(message)
             new == [old EXCEPT !.chunks = more, !.message = rest]
  <1>1. /\ old \in Rec /\ old.state = "tokenizing" /\ message # <<>> /\ Head(message).media = 0
        /\ request' = [request EXCEPT ![r] = new] /\ UNCHANGED setup
    BY DEF Inv, Types, AddText
  <1>2. message \in Seq(Part) /\ chunks \in Seq(Chunk)
    BY <1>1 DEF Rec
  <1>3. Meaning(chunks) \o Unmarked(SaysTo(f, message)) = Unmarked(SaysTo(f, old.asked))
    BY <1>1 DEF SayInv, SayWell
  <1> HIDE DEF old
  <1>4. Head(message) \in Part /\ text \in Seq(Nat) /\ PartSays(f)[Head(message)] = text
    <2> HIDE DEF message
    <2>1. Head(message) \in Part
      BY <1>1, <1>2, HeadTail
    <2> QED
      BY <1>1, <2>1 DEF Part, PartSays
  <1>5. chunk \in Chunk /\ Unmarked(chunk.contents) = Unmarked(text)
    <2> HIDE DEF text, first
    <2>1. first \in BOOLEAN
      BY DEF first
    <2> QED
      BY <1>4, <2>1, SpecialUnsaid
  <1> HIDE DEF message, chunks, chunk, text
  <1>6. <<chunk>> \in Seq(Chunk) /\ Meaning(<<chunk>>) = Unmarked(PartSays(f)[Head(message)])
    BY <1>4, <1>5, MeaningOne
  <1> DEFINE added == <<chunk>>
  <1>7. more = chunks \o added /\ added \in Seq(Chunk) /\ Meaning(added) = Unmarked(PartSays(f)[Head(message)])
    BY <1>2, <1>5, <1>6, AppendIsConcat
  <1> HIDE DEF added, more, f
  <1>8. Meaning(more) \o Unmarked(SaysTo(f, Tail(message))) = Meaning(chunks) \o Unmarked(SaysTo(f, message))
    <2>1. /\ Meaning(chunks \o added) \o Unmarked(SaysTo(f, Tail(message)))
                 = Meaning(chunks) \o Unmarked(SaysTo(f, message))
      BY <1>1, <1>2, <1>7, PartTaken
    <2> QED
      BY <1>7, <2>1
  <1>9. new.state = "tokenizing" /\ new.asked = old.asked /\ new.message = rest /\ new.chunks = more
    <2> HIDE DEF rest
    <2> QED
      BY <1>1 DEF Rec
  <1> HIDE DEF new
  <1>10. SayWell(f, new)
    BY <1>3, <1>8, <1>9 DEF SayWell
  <1> QED
    BY <1>1, <1>10, SayStep DEF f

LEMMA AddMediaSays ==
    ASSUME Inv, SayInv, NEW r \in Requests, AddMedia(r)
    PROVE  SayInv'
  <1> DEFINE f == setup.family
             old == request[r]
             message == old.message
             m == Head(message).media
             gen == multimodal_dummy_token_generator
             chunks == old.chunks
             first == (chunks = <<>>)
  <1>1. /\ old \in Rec /\ old.state = "tokenizing" /\ message # <<>> /\ m \in Media /\ f \in Families
        /\ \E outcome \in cache_tokenize_multimedia(f, m), new \in Rec :
               /\ request' = [request EXCEPT ![r] = new] /\ MediaAdded(f, m, old, new, outcome)
               /\ Given(f, m, cache_multimodals, gen, outcome) /\ UNCHANGED setup
    BY MediaAdds
  <1>2. PICK new \in Rec : \E outcome \in cache_tokenize_multimedia(f, m) :
               /\ request' = [request EXCEPT ![r] = new] /\ MediaAdded(f, m, old, new, outcome)
               /\ Given(f, m, cache_multimodals, gen, outcome) /\ UNCHANGED setup
    BY <1>1
  <1>3. PICK outcome \in cache_tokenize_multimedia(f, m) :
               /\ request' = [request EXCEPT ![r] = new] /\ MediaAdded(f, m, old, new, outcome)
               /\ Given(f, m, cache_multimodals, gen, outcome) /\ UNCHANGED setup
    BY <1>2
  <1>4. message \in Seq(Part) /\ chunks \in Seq(Chunk)
    BY <1>1 DEF Rec
  <1>5. Meaning(chunks) \o Unmarked(SaysTo(f, message)) = Unmarked(SaysTo(f, old.asked))
    BY <1>1 DEF SayInv, SayWell
  <1> DEFINE pieces == outcome.pieces
             added == Wrapped(f, m, pieces, first)
  <1>6. MediaTold(f, cache_multimodals, gen)
    BY DEF Inv
  <1>7. CASE pieces = <<>>
    <2>1. new.state = "refused"
      BY <1>3, <1>7 DEF MediaAdded
    <2>2. SayWell(f, new)
      BY <2>1 DEF SayWell
    <2> QED
      BY <1>3, <2>2, SayStep
  <1>8. CASE pieces # <<>>
    <2>1. PICK d \in Int : pieces = Projection(f, m, d) /\ Hears(f) = (m \in Audio)
      <3> HIDE DEF m, f, gen
      <3>1. pieces # <<>> => Hears(f) = (m \in Audio) /\ pieces \in Projections(f, m, gen - outcome.made)
        BY <1>1, <1>3, <1>6, GivenTold
      <3> QED
        BY <1>8, <3>1 DEF Projections
    <2>2. /\ new.asked = old.asked /\ new.state = "tokenizing" /\ new.message = Tail(message)
          /\ new.chunks = chunks \o added
      BY <1>3, <1>8 DEF MediaAdded
    <2>3. PartSays(f)[Head(message)] = MediumSaysTo(f, m)
      <3> HIDE DEF message
      <3>1. Head(message) \in Part
        BY <1>1, <1>4, HeadTail
      <3>2. m # 0
        BY <1>1, PromptAssumption
      <3> QED
        BY <3>1, <3>2 DEF PartSays
    <2>4. added \in Seq(Chunk) /\ Meaning(added) = Unmarked(MediumSaysTo(f, m))
      <3> HIDE DEF m, f, first
      <3>1. first \in BOOLEAN
        BY DEF first
      <3>2. pieces \in Seq(Chunk) /\ Len(pieces) = Count(f, m)
        BY <1>1, <2>1, ProjectionTyped
      <3>3. Meaning(pieces) = Unmarked(MediumSaysTo(f, m))
        BY <1>1, <2>1, PiecesSay
      <3> HIDE DEF pieces
      <3>4. Wrapped(f, m, pieces, first) \in Seq(Chunk) /\ Meaning(Wrapped(f, m, pieces, first)) = Meaning(pieces)
        BY <1>1, <2>1, <3>1, <3>2, WrappedMeans
      <3> QED
        BY <3>3, <3>4
    <2> HIDE DEF added, f, message, chunks
    <2>5. /\ Meaning(chunks \o added) \o Unmarked(SaysTo(f, Tail(message)))
                 = Meaning(chunks) \o Unmarked(SaysTo(f, message))
      BY <1>1, <1>4, <2>3, <2>4, PartTaken, SMTT(40)
    <2>6. SayWell(f, new)
      BY <1>5, <2>2, <2>5 DEF SayWell
    <2> QED
      BY <1>3, <2>6, SayStep DEF f
  <1> QED
    BY <1>7, <1>8

LEMMA EnqueueSays ==
    ASSUME Inv, SayInv, NEW r \in Requests, Enqueue(r)
    PROVE  SayInv'
  <1> DEFINE f == setup.family
             old == request[r]
             chunks == old.chunks
             state == IF TooLong(NumTokens(chunks)) THEN "refused" ELSE "queued"
             new == [old EXCEPT !.state = state]
  <1>1. /\ old \in Rec /\ old.state = "tokenizing" /\ old.message = <<>> /\ UNCHANGED setup
        /\ request' = [request EXCEPT ![r] = new]
    BY DEF Inv, Types, Enqueue
  <1>2. Meaning(chunks) \o Unmarked(SaysTo(f, <<>>)) = Unmarked(SaysTo(f, old.asked))
    BY <1>1 DEF SayInv, SayWell
  <1> HIDE DEF old
  <1>3. Meaning(chunks) = Unmarked(SaysTo(f, old.asked))
    <2>1. chunks \in Seq(Chunk)
      BY <1>1 DEF Rec
    <2> HIDE DEF chunks
    <2>2. Meaning(chunks) \in Seq(Int) /\ Unmarked(SaysTo(f, <<>>)) = <<>>
      BY <2>1, MeaningTyped, SaysNone, UnmarkedNone
    <2>3. Meaning(chunks) \o <<>> = Meaning(chunks)
      BY <2>2, ConcatEmptySeq
    <2> QED
      BY <1>2, <2>2, <2>3
  <1>4. new.state \in {"refused", "queued"} /\ new.asked = old.asked /\ new.chunks = chunks
    <2>1. state \in {"refused", "queued"}
      OBVIOUS
    <2> HIDE DEF state
    <2> QED
      BY <1>1, <2>1 DEF Rec
  <1> HIDE DEF new
  <1>5. SayWell(f, new)
    BY <1>3, <1>4 DEF SayWell
  <1> QED
    BY <1>1, <1>5, SayStep

LEMMA ServedSays ==
    ASSUME Inv, SayInv, NEW r \in Requests, reconcile(r)
    PROVE  SayInv'
  <1>1. PICK rec \in Rec : request' = [request EXCEPT ![r] = rec] /\ rec.state \in {"running", "failed", "answered"}
    BY ReconcileServes DEF Served
  <1>2. UNCHANGED setup
    BY ReconcileServes
  <1>3. SayWell(setup.family, rec)
    BY <1>1 DEF SayWell
  <1> QED
    BY <1>1, <1>2, <1>3, SayStep

LEMMA InitSays == Init => SayInv
  BY DEF Init, SayInv, SayWell, NewRequest

LEMMA MessagesSay ==
    ASSUME Inv, SayInv, [Next]_vars
    PROVE  SayInv'
  <1>1. CASE Next
    <2>1. PICK r \in setup.requests : handler(r) \/ reconcile(r)
      BY <1>1 DEF Next
    <2>2. r \in Requests
      BY <2>1, PrefillAssumption DEF Inv, Types
    <2>3. CASE handler(r)
      BY <2>2, <2>3, ReceiveSays, AddTextSays, AddMediaSays, EnqueueSays DEF handler
    <2>4. CASE reconcile(r)
      BY <2>2, <2>4, ServedSays
    <2> QED
      BY <2>1, <2>3, <2>4
  <1>2. CASE UNCHANGED vars
    BY <1>2 DEF vars, SayInv
  <1> QED
    BY <1>1, <1>2

LEMMA SayHolds == Spec => []SayInv
  <1>1. Init => SayInv
    BY InitSays
  <1>2. Inv /\ SayInv /\ [Next]_vars => SayInv'
    BY MessagesSay
  <1>3. Inv /\ Counted => Inv
    OBVIOUS
  <1> QED
    BY <1>1, <1>2, <1>3, InvHolds, PTL DEF Spec

(***************************************************************************)
(* For every family, message, grid of slices and size of the cache: a      *)
(* prompt that is queued says what was asked, each text and each part of a *)
(* medium once and in its order, whether the medium was projected for this *)
(* prompt or found in the cache, and whatever was evicted in between.      *)
(***************************************************************************)
THEOREM PromptsSayMessages == Spec => []PromptSaysMessage
  <1>1. Inv /\ SayInv => PromptSaysMessage
    <2> SUFFICES ASSUME Inv, SayInv, NEW r \in In("queued"), ~ IsPlain(request[r].asked)
                 PROVE  Unmarked(Contents(request[r].chunks)) = Unmarked(Says(request[r].asked))
      BY DEF PromptSaysMessage
    <2> DEFINE asked == request[r].asked
    <2>1. r \in Requests /\ request[r].state = "queued"
      BY DEF In
    <2>2. asked \in Seq(Part)
      BY <2>1 DEF Inv, Types, Rec
    <2>3. Meaning(request[r].chunks) = Unmarked(SaysTo(setup.family, asked))
      BY <2>1 DEF SayInv, SayWell
    <2> HIDE DEF asked
    <2>4. Says(asked) = SaysTo(setup.family, asked)
      BY <2>2, SaysIs
    <2> QED
      BY <2>3, <2>4 DEF Meaning, asked
  <1>2. Inv /\ Counted => Inv
    OBVIOUS
  <1> QED
    BY <1>1, <1>2, InvHolds, SayHolds, PTL
=============================================================================
