-------------------------- MODULE MultimodalPrompt --------------------------
(***************************************************************************)
(* How a handler of chat or legacy completions turns a message into the    *)
(* chunks of tokens the reconcile thread prefills: trimming of plain text, *)
(* the markers each family of models puts around images and sounds, and    *)
(* the cache of projected media that all HTTP threads share.               *)
(*                                                                         *)
(* A token is a number.  What a model computes from it is its content: the *)
(* token itself, or a part of an image or a sound, for which the prompt    *)
(* cache sees a dummy token, below zero and never given twice.             *)
(***************************************************************************)
EXTENDS Integers, Sequences, FiniteSets, SequencesExt, FiniteSetsExt

CONSTANTS
    Media,                \* the images and sounds of the messages
    Audio,                \* those that are sounds
    Grid,                 \* the columns and rows an image is sliced into
    Positions,            \* n_pos of a slice, or of a whole sound
    Failing,              \* media that the projector may fail to encode
    max_projected_cache,  \* 0 disables the cache
    CtxSize,              \* llm_ctx_size
    SlotSize,             \* llm_slot_ctx_size
    NKeep,                \* params.llm_params.n_keep
    ShiftContext,         \* shift_context
    Dynamic               \* dynamic_context_enabled

Families == {"minicpmv2", "minicpmv", "llama4", "qwen2vl", "gemma3", "smolvlm", "internvl", "pixtral",
             "vision", "qwen2a", "ultravox", "audio"}

Hears(f) == f \in {"qwen2a", "ultravox", "audio"}

ASSUME PromptAssumption ==
    /\ IsFiniteSet(Media) /\ Media \subseteq Nat \ {0} /\ Audio \subseteq Media /\ Failing \subseteq Media
    /\ Grid \in [Media -> Seq(Nat \ {0})] /\ \A m \in Media : Len(Grid[m]) = 2
    /\ Positions \in [Media -> Nat \ {0}]
    /\ max_projected_cache \in Int /\ CtxSize \in Nat /\ SlotSize \in 1 .. CtxSize
    /\ NKeep \in 0 .. SlotSize - 2      \* or trimming divides by zero
    /\ ShiftContext \in BOOLEAN /\ Dynamic \in BOOLEAN

VARIABLES
    cache_multimodals,   \* [hash, pieces], the least recently used first
    multimodal_dummy_token_generator

media_vars == <<cache_multimodals, multimodal_dummy_token_generator>>

Bos == 0

text_chunk(tokens) == [media |-> FALSE, tokens |-> tokens, contents |-> tokens]

(* add_special: the first chunk of a prompt begins with Bos.               *)
tokenize(tokens, add_special) == text_chunk(IF add_special THEN <<Bos>> \o tokens ELSE tokens)

Marker == [begin |-> 101, end |-> 102, slice |-> 103, slice_end |-> 104, row_end |-> 105, tile |-> 106]

Mark(name, add_special) == tokenize(<<Marker[name]>>, add_special)

Tokens(chunks) == FlattenSeq([k \in DOMAIN chunks |-> chunks[k].tokens])

NumTokens(chunks) == Len(Tokens(chunks))

-----------------------------------------------------------------------------
(* Projection: tokenize_image and tokenize_audio.                          *)

piece(m, i, n_pos, dummy_token) ==
    [media    |-> TRUE,
     tokens   |-> [k \in 1 .. n_pos |-> dummy_token],
     contents |-> [k \in 1 .. n_pos |-> 10000 * m + 100 * i + k]]

(* Mutant: a dummy token for a medium, not for each of its pieces.         *)
tokenize_image_OneDummy(f, m, dummy) ==
    LET slices == Grid[m][1] * Grid[m][2]
        n      == IF f \in {"minicpmv2", "minicpmv"} /\ slices > 1 THEN 1 + slices ELSE 1
        n_pos  == IF f = "qwen2vl" THEN Max({Grid[m][1], Grid[m][2]}) ELSE Positions[m]
    IN  [i \in 1 .. n |-> piece(m, i, n_pos, dummy - m)]

(* Only MiniCPM-V gets slices, after an overview; M-RoPE counts a grid by  *)
(* its longer side.                                                        *)
tokenize_image(f, m, dummy) ==
    LET slices == Grid[m][1] * Grid[m][2]
        n      == IF f \in {"minicpmv2", "minicpmv"} /\ slices > 1 THEN 1 + slices ELSE 1
        n_pos  == IF f = "qwen2vl" THEN Max({Grid[m][1], Grid[m][2]}) ELSE Positions[m]
    IN  [i \in 1 .. n |-> piece(m, i, n_pos, dummy - (i - 1))]

tokenize_audio(m, dummy) ==
    [i \in 1 .. Grid[m][1] |-> piece(m, i, Positions[m], dummy - (i - 1))]

Projected(f, m) ==
    IF m \in Audio THEN tokenize_audio(m, multimodal_dummy_token_generator)
    ELSE tokenize_image(f, m, multimodal_dummy_token_generator)

Cached(m) == {k \in DOMAIN cache_multimodals : cache_multimodals[k].hash = m}

(* Mutant: a hit does not count as a use.                                  *)
Touched_NoUse(k) == cache_multimodals

Touched(k) == Append(RemoveAt(cache_multimodals, k), cache_multimodals[k])

(* Mutant: room is made after the entry was added, and only once.          *)
Evicted_Late ==
    IF Len(cache_multimodals) > max_projected_cache THEN Tail(cache_multimodals) ELSE cache_multimodals

Evicted ==
    IF Len(cache_multimodals) >= max_projected_cache THEN Tail(cache_multimodals) ELSE cache_multimodals

(* The pieces of m and what is cached then, under the mutex of the         *)
(* projectors.  What the projector refuses is <<>>, and is cached too,     *)
(* unless the projector is missing.                                        *)
cache_tokenize_multimedia(f, m) ==
    LET supported == Hears(f) = (m \in Audio)
        caches    == max_projected_cache > 0
        results   == IF supported THEN {Projected(f, m)} \cup {none \in {<<>>} : m \in Failing} ELSE {<<>>}
        stored(r) == IF supported THEN Append(Evicted, [hash |-> m, pieces |-> r]) ELSE Evicted
    IN  IF caches /\ Cached(m) # {}
        THEN {[pieces |-> cache_multimodals[k].pieces, cache |-> Touched(k), made |-> 0] : k \in Cached(m)}
        ELSE {[pieces |-> r, cache |-> IF caches THEN stored(r) ELSE cache_multimodals, made |-> Len(r)] : r \in results}

-----------------------------------------------------------------------------
(* The chunks of a medium: its pieces between the markers of a family.     *)

(* Mutant: the overview is taken for the first tile.                       *)
TileRow_WithOverview(pieces, columns, y) == [x \in 1 .. columns |-> pieces[(y - 1) * columns + x]]

(* Row after row, of the pieces behind the overview.                       *)
TileRow(pieces, columns, y) == [x \in 1 .. columns |-> pieces[1 + (y - 1) * columns + x]]

MiniCpmV(f, pieces, grid, bos) ==
    LET old     == f = "minicpmv2"
        open    == Mark(IF old THEN "begin" ELSE "slice", FALSE)
        close   == Mark(IF old THEN "end" ELSE "slice_end", FALSE)
        row(y)  == FlattenSeq([x \in 1 .. grid[1] |-> <<open, TileRow(pieces, grid[1], y)[x], close>>])
                   \o (IF y = grid[2] THEN <<>> ELSE <<Mark("row_end", FALSE)>>)
        tiles   == IF Len(pieces) = 1 THEN <<>>
                   ELSE (IF old THEN <<Mark("slice", FALSE)>> ELSE <<>>)
                        \o FlattenSeq([y \in 1 .. grid[2] |-> row(y)])
                        \o (IF old THEN <<Mark("slice_end", FALSE)>> ELSE <<>>)
    IN  <<Mark("begin", bos), pieces[1], Mark("end", FALSE)>> \o tiles

(* bos is asked for twice.                                                 *)
Llama4(pieces, grid, bos) ==
    LET between(y, x) == IF x = grid[1] THEN "row_end" ELSE "slice_end"
        row(y) == FlattenSeq([x \in 1 .. grid[1] |-> <<TileRow(pieces, grid[1], y)[x], Mark(between(y, x), FALSE)>>])
        tiles  == IF Len(pieces) = 1 THEN <<>> ELSE FlattenSeq([y \in 1 .. grid[2] |-> row(y)])
    IN  <<Mark("begin", bos)>> \o tiles \o <<Mark("tile", bos), pieces[1], Mark("end", FALSE)>>

(* qwen2vl, gemma3, smolvlm and internvl.                                  *)
Around(pieces, bos) == <<Mark("begin", bos), pieces[1], Mark("end", FALSE)>>

Pixtral(pieces) == <<pieces[1], Mark("end", FALSE)>>

Sound(f, pieces, bos) ==
    CASE f = "qwen2a"   -> <<Mark("begin", bos)>> \o pieces \o <<Mark("end", FALSE)>>
      [] f = "ultravox" -> <<Mark("begin", bos)>> \o pieces
      [] OTHER          -> pieces

Wrapped(f, m, pieces, bos) ==
    CASE m \in Audio                     -> Sound(f, pieces, bos)
      [] f \in {"minicpmv2", "minicpmv"} -> MiniCpmV(f, pieces, Grid[m], bos)
      [] f = "llama4"                    -> Llama4(pieces, Grid[m], bos)
      [] f = "pixtral"                   -> Pixtral(pieces)
      [] f = "vision"                    -> pieces
      [] OTHER                           -> Around(pieces, bos)

-----------------------------------------------------------------------------
(* Prompts that do not fit are refused, or trimmed behind n_keep tokens.   *)

completion_context_limit == IF Dynamic THEN CtxSize ELSE SlotSize

TooLong(n) == n >= completion_context_limit

(* Mutant: a block too few is erased.                                      *)
Trimmed_OneBlockLess(tokens) ==
    LET block  == (SlotSize - NKeep) \div 2
        blocks == (Len(tokens) - NKeep - block) \div block - 1
    IN  SubSeq(tokens, 1, NKeep) \o SubSeq(tokens, NKeep + block * blocks + 1, Len(tokens))

Trimmed(tokens) ==
    LET block  == (SlotSize - NKeep) \div 2
        blocks == (Len(tokens) - NKeep - block) \div block
    IN  IF blocks <= 0 THEN tokens
        ELSE SubSeq(tokens, 1, NKeep) \o SubSeq(tokens, NKeep + block * blocks + 1, Len(tokens))

(* The prompt of plain text, or <<>> if it is refused.                     *)
PlainPrompt(tokens) ==
    LET all == tokenize(tokens, TRUE).tokens
    IN  IF ~TooLong(Len(all)) THEN all
        ELSE IF Dynamic \/ ~ShiftContext THEN <<>>
        ELSE Trimmed(all)
=============================================================================
