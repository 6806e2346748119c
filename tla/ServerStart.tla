---------------------------- MODULE ServerStart ----------------------------
(***************************************************************************)
(* From the command line to a serving process, and to its end: main,       *)
(* start_httpserver, httpserver::load and httpserver::start.               *)
(*                                                                         *)
(* What the model files hold is a record of Models.  The HTTP server of    *)
(* cpp-httplib is modelled by what start() makes of it: connections wait   *)
(* for a thread of the pool, reconcile_loop keeps one of the threads while *)
(* the server runs, stop() ends the loop and the acceptance of requests,   *)
(* and start() returns when the threads of the pool have ended.            *)
(***************************************************************************)
EXTENDS EngineParams

CONSTANTS
    Models,      \* what the files of the command line may hold
    DefaultCtx,  \* the context size if none is given: 4096
    ClipCtx,     \* the least context size with a projector: 2048
    CtxPad,      \* llama.cpp rounds a context size up to a multiple of it
    Requests,    \* bound on the requests that are sent
    Signals      \* bound on the signals that are sent

Endpoints == {"/health", "/metrics", "/lora-adapters", "/v1/models", "/v1/images", "/tokenize", "/detokenize",
              "/v1/completions", "/v1/embeddings", "/v1/rerank"}

(* Their handlers put a task into process_tasks and wait for its result.   *)
Inference == {"/v1/images", "/v1/completions", "/v1/embeddings", "/v1/rerank"}

ASSUME StartAssumption ==
    /\ DefaultCtx \in Nat \ {0} /\ ClipCtx \in Nat \ {0} /\ CtxPad \in Nat \ {0}
    /\ MaxThreads <= CtxPad
    /\ Requests \in Nat /\ Signals \in Nat
    /\ \A m \in Models :
        /\ DOMAIN m = {"sd_loads", "loads", "draft_loads", "draft_matches", "mtp_works", "clip_loads", "clip_fits",
                       "pools", "causal", "can_shift", "memory", "n_ctx_train", "alias", "qwen3", "end_tag"}
        /\ m.n_ctx_train \in Nat /\ m.n_ctx_train >= MaxThreads

VARIABLES
    settings,    \* what load() computes
    routes,      \* the endpoints that are registered
    ids,         \* get_task_id of each thread of the pool, -1 before its first request
    serving,     \* what each thread of the pool runs
    waiting,     \* connections that wait for a thread
    sent,        \* requests sent so far
    running,     \* server->is_running()
    signals,     \* signals received so far
    terminating  \* httpserver_is_terminating

process == <<settings, routes, ids, serving, waiting, sent, running, signals, terminating>>
allVars == <<vars, process>>

Threads == 0 .. n_threads_http

-----------------------------------------------------------------------------
(* load().                                                                 *)

Images  == Given("--images")
Pooling == IF Given("--pooling") THEN given["--pooling"].text ELSE "unspecified"
Mtp     == Given("--mtp") \/ (Given("--spec-type") /\ given["--spec-type"] = Word("draft-mtp"))
Drafts  == ~Mtp /\ Given("--model-draft") /\ (Given("--draft-max") => given["--draft-max"].num > 0)

n_ctx ==
    LET asked == IF Given("--ctx-size") THEN given["--ctx-size"].num ELSE DefaultCtx
    IN  IF Given("--mmproj") /\ asked < ClipCtx THEN ClipCtx ELSE asked

(* The context that llama.cpp makes of n_ctx.                              *)
llm_ctx_size(m) == IF n_ctx = 0 THEN m.n_ctx_train ELSE CtxPad * ((n_ctx + CtxPad - 1) \div CtxPad)

(* A negative context size is one of nearly 2^32 to llama.cpp, which it    *)
(* does not get the memory for.                                            *)
LoadFails(m) ==
    IF Images THEN ~m.sd_loads
    ELSE \/ Given("--mmproj") /\ ~m.clip_loads
         \/ Drafts /\ ~(m.draft_loads /\ m.draft_matches)
         \/ ~m.loads \/ n_ctx < 0
         \/ Mtp /\ ~m.mtp_works
         \/ ~m.pools

support_completion(m) == ~Images /\ m.causal /\ Pooling # "rank"
support_embedding     == ~Images /\ Given("--embeddings")
support_reranking(m)  == ~Images /\ ~m.causal /\ Pooling = "rank"

(* Mutant: also for a memory that cannot shift.                            *)
cache_prompt_Unchecked(m) == support_completion(m) /\ (Given("cache_prompt") => given["cache_prompt"] = Word("true"))

cache_prompt(m) ==
    /\ support_completion(m)
    /\ Given("cache_prompt") => given["cache_prompt"] = Word("true")
    /\ m.can_shift /\ m.memory

shift_context(m) ==
    /\ Given("--context-shift") /\ given["--context-shift"] = Word("true")
    /\ support_completion(m) => m.can_shift

(* Which templates have words that begin a tool call, other than jinja's.  *)
ToolAliases == {"chatml", "chatglm4", "mistral", "llama3", "llama4", "granite", "deepseek3"}

support_tool_calls(m) == IF UseJinja THEN m.alias # "none" ELSE m.alias \in ToolAliases

(* By a token or by a word; a template without the end tag does not count. *)
support_reasoning(m) ==
    /\ ~(m.qwen3 /\ Given("reasoning") /\ given["reasoning"] = Word("false"))
    /\ \/ (m.qwen3 \/ m.alias \in {"deepseek3", "granite", "command-r"}) /\ m.end_tag
       \/ m.alias \in {"gpt-oss", "gemma4"}

reasoning_in_content(m) ==
    support_reasoning(m) /\ Given("reasoning_format") /\ given["reasoning_format"] = Word("none")

Nothing == [ctx |-> 0, slot |-> 0, kv_limit |-> 0, n_cache_prompts |-> 0, cache_prompt |-> FALSE,
            shift_context |-> FALSE, can_shift |-> FALSE, clip |-> FALSE, tool_calls |-> FALSE,
            reasoning |-> FALSE, in_content |-> FALSE]

Settings(m) ==
    IF Images THEN Nothing
    ELSE LET slot == llm_ctx_size(m) \div n_threads_http
             completes == support_completion(m)
         IN  [ctx             |-> llm_ctx_size(m),
              slot            |-> slot,
              kv_limit        |-> (IF Given("--kv-unified") THEN llm_ctx_size(m) ELSE slot) - 1,
              n_cache_prompts |-> IF cache_prompt(m) THEN n_threads_http ELSE 0,
              cache_prompt    |-> cache_prompt(m),
              shift_context   |-> shift_context(m),
              can_shift       |-> m.can_shift,
              clip            |-> Given("--mmproj") /\ m.clip_fits,
              tool_calls      |-> completes /\ support_tool_calls(m),
              reasoning       |-> completes /\ support_reasoning(m),
              in_content      |-> completes /\ reasoning_in_content(m)]

(* The routes that start() registers.                                      *)
Routes(m) ==
    {"/health", "/v1/models"}
    \cup (IF Given("--metrics") THEN {"/metrics"} ELSE {})
    \cup (IF lora_scales # <<>> THEN {"/lora-adapters"} ELSE {})
    \cup (IF Images THEN {"/v1/images"}
          ELSE {"/tokenize", "/detokenize"}
               \cup (IF support_completion(m) THEN {"/v1/completions"} ELSE {})
               \cup (IF support_embedding THEN {"/v1/embeddings"} ELSE {})
               \cup (IF support_reranking(m) THEN {"/v1/rerank"} ELSE {}))

-----------------------------------------------------------------------------

InitAll ==
    /\ Init
    /\ settings = Nothing /\ routes = {}
    /\ ids = <<>> /\ serving = <<>> /\ waiting = {}
    /\ sent = 0
    /\ running = FALSE
    /\ signals = 0 /\ terminating = FALSE

Load(m) ==
    /\ stage = "http server"
    /\ IF LoadFails(m)
       THEN stage' = "load failed" /\ UNCHANGED <<settings, routes>>
       ELSE stage' = "starting" /\ settings' = Settings(m) /\ routes' = Routes(m)
    /\ UNCHANGED <<argv, position, params, ids, serving, waiting, sent, running, signals, terminating>>

(* Mutant: the pool has a thread to spare.                                 *)
Start_OneMore ==
    /\ stage = "starting"
    /\ serving' = [t \in 0 .. n_threads_http + 1 |-> IF t = 0 THEN "reconcile" ELSE "idle"]
    /\ ids' = [t \in 0 .. n_threads_http + 1 |-> -1]
    /\ running' = TRUE
    /\ stage' = "serving"
    /\ UNCHANGED <<argv, position, params, settings, routes, waiting, sent, signals, terminating>>

(* reconcile_loop is the first that the pool is given.                     *)
Start ==
    /\ stage = "starting"
    /\ serving' = [t \in Threads |-> IF t = 0 THEN "reconcile" ELSE "idle"]
    /\ ids' = [t \in Threads |-> -1]
    /\ running' = TRUE
    /\ stage' = "serving"
    /\ UNCHANGED <<argv, position, params, settings, routes, waiting, sent, signals, terminating>>

(* The address is taken, or the host is unknown.                           *)
ListenFails ==
    /\ stage = "starting"
    /\ stage' = "returned"
    /\ UNCHANGED <<argv, position, params, process>>

Request(e) ==
    /\ stage = "serving" /\ running
    /\ e \in routes
    /\ sent < Requests
    /\ sent' = sent + 1
    /\ waiting' = waiting \cup {<<sent, e>>}
    /\ UNCHANGED <<vars, settings, routes, ids, serving, running, signals, terminating>>

Used == {ids[t] : t \in DOMAIN ids} \ {-1}

(* A thread takes its number with its first request.                       *)
Handle(t, c) ==
    /\ stage = "serving" /\ running
    /\ t \in DOMAIN serving /\ serving[t] = "idle"
    /\ c \in waiting
    /\ waiting' = waiting \ {c}
    /\ serving' = [serving EXCEPT ![t] = c[2]]
    /\ ids' = [ids EXCEPT ![t] = IF c[2] \in Inference /\ @ = -1 THEN Cardinality(Used) ELSE @]
    /\ UNCHANGED <<vars, settings, routes, sent, running, signals, terminating>>

(* A result is posted only by the reconcile thread.                        *)
Return(t) ==
    /\ stage = "serving"
    /\ t \in DOMAIN serving /\ serving[t] \in Endpoints
    /\ serving[t] \in Inference => \E u \in DOMAIN serving : serving[u] = "reconcile"
    /\ serving' = [serving EXCEPT ![t] = "idle"]
    /\ UNCHANGED <<vars, settings, routes, ids, waiting, sent, running, signals, terminating>>

(* The first signal stops the server, the second one ends the process.     *)
Signal ==
    /\ stage = "serving"
    /\ signals < Signals
    /\ signals' = signals + 1
    /\ terminating' = TRUE
    /\ IF terminating THEN stage' = "killed" /\ UNCHANGED running ELSE running' = FALSE /\ UNCHANGED stage
    /\ UNCHANGED <<argv, position, params, settings, routes, ids, serving, waiting, sent>>

(* Mutant: the loop goes on while connections wait.                        *)
LoopEnds_WhenDrained(t) ==
    /\ stage = "serving"
    /\ t \in DOMAIN serving /\ serving[t] = "reconcile"
    /\ ~running /\ waiting = {}
    /\ serving' = [serving EXCEPT ![t] = "ended"]
    /\ UNCHANGED <<vars, settings, routes, ids, waiting, sent, running, signals, terminating>>

(* reconcile_loop looks at is_running() between rounds.                    *)
LoopEnds(t) ==
    /\ stage = "serving"
    /\ t \in DOMAIN serving /\ serving[t] = "reconcile"
    /\ ~running
    /\ serving' = [serving EXCEPT ![t] = "ended"]
    /\ UNCHANGED <<vars, settings, routes, ids, waiting, sent, running, signals, terminating>>

(* The threads of the pool are joined.                                     *)
JoinPool ==
    /\ stage = "serving" /\ ~running
    /\ \A t \in DOMAIN serving : serving[t] \in {"idle", "ended"}
    /\ stage' = "returned"
    /\ UNCHANGED <<argv, position, params, process>>

Next ==
    \/ Parse /\ UNCHANGED process
    \/ \E m \in Models : Load(m)
    \/ Start \/ ListenFails \/ Signal \/ JoinPool
    \/ \E e \in Endpoints : Request(e)
    \/ \E t \in DOMAIN serving : Return(t) \/ LoopEnds(t) \/ \E c \in waiting : Handle(t, c)

Spec == InitAll /\ [][Next]_allVars

(* Threads that can run do.                                                *)
FairSpec ==
    /\ Spec
    /\ WF_allVars(Parse /\ UNCHANGED process)
    /\ WF_allVars(\E m \in Models : Load(m)) /\ WF_allVars(Start) /\ WF_allVars(JoinPool)
    /\ WF_allVars(\E t \in DOMAIN serving : Return(t)) /\ WF_allVars(\E t \in DOMAIN serving : LoopEnds(t))

-----------------------------------------------------------------------------
(***************************************************************************)
(* Whatever the order of --jinja, --chat-template and --chat-template-file,*)
(* a template that is not built in is only ever rendered by jinja.         *)
(***************************************************************************)
CustomTemplateNeedsJinja == Template \in Builtins \cup {""} \/ UseJinja

(***************************************************************************)
(* Once the options are read in whatever order, and whatever model they    *)
(* load, the settings that completions run with are those the scheduler    *)
(* relies on: no slot is without context, the KV limit leaves room for a   *)
(* token, a prompt cache has an entry for each thread and a memory that    *)
(* can shift, and no context is shifted that cannot be.                    *)
(***************************************************************************)
SettingsSound ==
    "/v1/completions" \in routes =>
        /\ n_threads_http \in 1 .. MaxThreads
        /\ settings.slot >= 1 /\ settings.slot * n_threads_http <= settings.ctx
        /\ settings.kv_limit < settings.ctx
        /\ settings.cache_prompt => settings.can_shift /\ settings.n_cache_prompts = n_threads_http
        /\ settings.shift_context => settings.can_shift

(***************************************************************************)
(* Each handler that puts a task into the queue has a number of its own    *)
(* below n_threads_http, the size of process_task_results and the number   *)
(* of sequences: the pool has a thread more, but reconcile_loop keeps one. *)
(***************************************************************************)
ThreadsNumbered ==
    \A t \in DOMAIN ids :
        /\ ids[t] < n_threads_http
        /\ \A u \in DOMAIN ids \ {t} : ids[t] = ids[u] => ids[t] = -1

Blocked == \E t \in DOMAIN serving : serving[t] \in Inference

(***************************************************************************)
(* A signal ends the process, unless a handler still waits for a result    *)
(* that reconcile_loop, which ended, will not post.                        *)
(***************************************************************************)
SignalEnds == terminating ~> (stage \in {"returned", "killed"} \/ Blocked)
=============================================================================
