------------------------- MODULE MCEmbeddingsBatch -------------------------
(***************************************************************************)
(* EmbeddingsBatch on small instances: token counts chosen so that some    *)
(* inputs fit a batch together and some do not, and that an input is       *)
(* shorter than the number of sequences.                                   *)
(***************************************************************************)
EXTENDS EmbeddingsBatch

TextCounts == {<<0, 2>>}

DocumentCounts == {<<1>>}
=============================================================================
