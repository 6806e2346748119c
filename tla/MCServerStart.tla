--------------------------- MODULE MCServerStart ---------------------------
(***************************************************************************)
(* ServerStart on small instances: command lines of up to three options    *)
(* that concern templates, of up to two that concern threads and caches,   *)
(* and the others alone.                                                   *)
(***************************************************************************)
EXTENDS ServerStart

(* Whose order matters, or that decide what is served.                     *)
Templates == {<<Word("--jinja")>>, <<Word("--chat-template"), Word("llama3")>>,
              <<Word("--chat-template-file"), Word("file")>>}

Numbering == {<<Word("--threads-http"), Number(9)>>, <<Word("--threads-http"), Number(-1)>>,
              <<Word("--parallel"), Number(1)>>, <<Word("--threads"), Number(2)>>}

Caching == {<<Word("--no-cache-prompt")>>, <<Word("--cache-reuse"), Number(1)>>, <<Word("--context-shift")>>}

Ordered == Templates \cup Numbering \cup Caching

Alone == {<<Word("word")>>, <<Word("--help")>>, <<Word("--port")>>, <<Word("--port"), Huge>>,
          <<Word("--port"), Number(70000)>>, <<Word("--split-mode"), Word("row")>>, <<Word("--split-mode"), Word("none!")>>,
          <<Word("--cache-type-k"), Word("q3")>>, <<Word("--device"), Word("gpu")>>,
          <<Word("--lora"), Word("file")>>, <<Word("--lora-scaled"), Word("file"), Number(2), Word("--lora-init-without-apply")>>,
          <<Word("--lora-scaled"), Word("file")>>, <<Word("--chat-template"), Word("template")>>,
          <<Word("--jinja"), Word("--chat-template-kwargs"), Word("json")>>, <<Word("--chat-template-kwargs"), Word("json")>>,
          <<Word("--dry-base"), Number(1)>>, <<Word("--n-cpu-moe"), Number(5), Word("--metrics"), Word("--port")>>,
          <<Word("--defrag-thold"), Number(1)>>, <<Word("--rpc-server-port"), Number(1)>>,
          <<Word("--rerank")>>, <<Word("--embeddings"), Word("--metrics")>>, <<Word("--images")>>,
          <<Word("--mmproj"), Word("file"), Word("--kv-unified")>>, <<Word("--mtp")>>,
          <<Word("--model-draft"), Word("file")>>, <<Word("--ctx-size"), Number(0)>>, <<Word("--ctx-size"), Number(-5)>>,
          <<Word("--no-enable-reasoning")>>, <<Word("--reasoning-in-content")>>}

SmallLines ==
    {<<>>} \cup Ordered \cup Alone
    \cup {a \o b : a, b \in Templates} \cup {a \o b : a, b \in Numbering \cup Caching}
    \cup {a \o b \o c : a, b, c \in Templates}

(* A model that completes, one whose memory cannot shift, an encoder, and  *)
(* files that do not load or do not fit each other.                        *)
Chat == [sd_loads |-> TRUE, loads |-> TRUE, draft_loads |-> TRUE, draft_matches |-> TRUE, mtp_works |-> TRUE,
         clip_loads |-> TRUE, clip_fits |-> TRUE, pools |-> TRUE, causal |-> TRUE, can_shift |-> TRUE,
         memory |-> TRUE, n_ctx_train |-> 6, alias |-> "deepseek3", qwen3 |-> FALSE, end_tag |-> TRUE]

SmallModels ==
    {Chat,
     [Chat EXCEPT !.can_shift = FALSE, !.qwen3 = TRUE, !.alias = "none"],
     [Chat EXCEPT !.causal = FALSE, !.can_shift = FALSE, !.memory = FALSE],
     [Chat EXCEPT !.sd_loads = FALSE, !.draft_matches = FALSE, !.mtp_works = FALSE, !.clip_fits = FALSE],
     [Chat EXCEPT !.loads = FALSE]}

SmallBuiltins == {"llama3", "chatml"}
=============================================================================
