---------------------------- MODULE EngineParams ----------------------------
(***************************************************************************)
(* The command line of llama-box: llama_box_params_parse in                *)
(* llama-box/engine_param.hpp, and main in engine.cpp.                     *)
(*                                                                         *)
(* The parser goes from left to right.  What an option sets is kept as the *)
(* token it was last given (also where the code keeps a list); the tables  *)
(* below say which options there are, what they take and what they refuse. *)
(* An option with several spellings appears under its long one.  The text  *)
(* of help and error messages, and the devices, buffer types and samplers  *)
(* of the system are left out.                                             *)
(***************************************************************************)
EXTENDS Integers, Sequences, FiniteSets, FiniteSetsExt, Functions, TLC

CONSTANTS
    CommandLines,  \* the command lines of a run
    MathCpus,      \* common_cpu_get_num_math()
    MaxDevices,    \* llama_max_devices()
    Builtins,      \* the names of the templates built into llama.cpp
    MaxThreads     \* 64, the most threads that serve requests

ASSUME ParamsAssumption ==
    /\ MathCpus \in Nat \ {0} /\ MaxDevices \in Nat \ {0} /\ MaxThreads \in Nat \ {0}
    /\ Builtins \subseteq STRING
    /\ \A line \in CommandLines : line \in Seq([text : STRING, num : Int])

VARIABLES
    argv,           \* what is left of the command line
    position,       \* i, the index of its first token in the command line
    given,          \* what each option was last given
    lora_scales,    \* the scale of each of lora_adapters
    cpu_layers,     \* the layers kept in the CPU, of the model and of the draft model
    n_threads_http,
    stage

params == <<given, lora_scales, cpu_layers, n_threads_http>>
vars   == <<argv, position, params, stage>>

(* Tokens.  std::stoi refuses words and throws for numbers out of range.   *)
Word(w)   == [text |-> w, num |-> 0]
Number(n) == [text |-> "number", num |-> n]
Huge      == [text |-> "number out of range", num |-> 0]

IsNumber(t) == t.text = "number"

-----------------------------------------------------------------------------
(* The options: <<option, what it sets, to what>> for those that take no   *)
(* value, and those that take a number, or any word.                       *)

Exits == {"--help", "--version", "--system-info", "--list-devices", "--list-buffer-types"}

On(options) == {<<o, o, "true">> : o \in options}

ConnectionOptions ==
    [switches |-> On({"--log-colors"}) \cup {<<"--verbose", "--verbosity", "max">>},
     numbers  |-> {"--verbosity", "--port", "--timeout", "--threads-http", "--conn-idle", "--conn-keepalive"},
     words    |-> {"--host", "--model", "--alias"}]

LoadingOptions ==
    [switches |-> On({"--lora-init-without-apply", "--swa-full", "--kv-unified", "--metrics", "--embeddings", "--images"})
                  \cup {<<"--no-flash-attn", "--flash-attn", "false">>, <<"--flash-attn", "--flash-attn", "true">>,
                        <<"--no-warmup", "--warmup", "false">>, <<"--warmup", "--warmup", "true">>},
     numbers  |-> {"--seed", "--gpu-layers"},
     words    |-> {"--rpc", "--tensor-split", "--override-tensor", "--override-tensor-draft"}]

CompletionOptions ==
    [switches |-> {},
     numbers  |-> {"--main-gpu"},
     words    |-> {"--device-draft", "--split-mode", "--override-kv", "--slot-save-path"}]

ThreadOptions ==
    [switches |-> {},
     numbers  |-> {"--tokens-per-second", "--threads", "--prio", "--cpu-strict", "--poll", "--threads-batch",
                   "--prio-batch", "--cpu-strict-batch", "--poll-batch", "--ctx-size"},
     words    |-> {"--cpu-mask", "--cpu-range", "--cpu-mask-batch", "--cpu-range-batch"}]

BatchOptions ==
    [switches |-> {<<"--no-context-shift", "--context-shift", "false">>, <<"--context-shift", "--context-shift", "true">>,
                   <<"--escape", "--escape", "true">>, <<"--no-escape", "--escape", "false">>},
     numbers  |-> {"--batch-size", "--ubatch-size", "--keep"},
     words    |-> {}]

SamplingOptions ==
    [switches |-> {},
     numbers  |-> {"--temp", "--top-k", "--top-p", "--min-p", "--top-nsigma", "--xtc-probability",
                   "--xtc-threshold", "--typical", "--repeat-last-n", "--repeat-penalty", "--presence-penalty",
                   "--frequency-penalty"},
     words    |-> {"--samplers"}]

DryOptions ==
    [switches |-> {},
     numbers  |-> {"--dry-multiplier", "--dry-allowed-length", "--dry-penalty-last-n"},
     words    |-> {"--dry-sequence-breaker"}]

GrammarOptions ==
    [switches |-> {},
     numbers  |-> {"--dynatemp-range", "--dynatemp-exp", "--mirostat", "--mirostat-lr", "--mirostat-ent"},
     words    |-> {"--logit-bias", "--grammar", "--grammar-file", "--json-schema"}]

ContextOptions ==
    [switches |-> On({"--no-kv-offload", "--cpu-moe"}) \cup {<<"--no-cache-prompt", "cache_prompt", "false">>},
     numbers  |-> {"--rope-scale", "--rope-freq-base", "--rope-freq-scale", "--yarn-orig-ctx", "--yarn-ext-factor",
                   "--yarn-attn-factor", "--yarn-beta-fast", "--yarn-beta-slow"},
     words    |-> {"--rope-scaling"}]

CacheOptions ==
    [switches |-> On({"--cpu-moe-draft", "--no-repack"}),
     numbers  |-> {},
     words    |-> {"--cache-type-k", "--cache-type-v"}]

ModelOptions ==
    [switches |-> On({"--special"})
                  \cup {<<"--mlock", "load_mode", "mlock">>, <<"--no-mmap", "load_mode", "none">>,
                        <<"--mmap", "load_mode", "mmap">>,
                        <<"--enable-reasoning", "reasoning", "true">>,
                        <<"--no-enable-reasoning", "reasoning", "false">>,
                        <<"--reasoning-in-content", "reasoning_format", "none">>,
                        <<"--no-reasoning-in-content", "reasoning_format", "auto">>},
     numbers  |-> {},
     words    |-> {"--mmproj", "--numa", "--control-vector", "--reverse-prompt"}]

SpeculativeOptions ==
    [switches |-> On({"--mtp"}),
     numbers  |-> {"--draft-max", "--draft-min", "--draft-p-min", "--gpu-layers-draft", "--lookup-ngram-min"},
     words    |-> {"--spec-type", "--model-draft", "--device"}]

EmbeddingOptions ==
    [switches |-> {},
     numbers  |-> {"--visual-max-image-size", "--max-projected-cache"},
     words    |-> {"--pooling", "--attention"}]

ImageSamplingOptions ==
    [switches |-> {},
     numbers  |-> {"--image-max-batch", "--image-max-height", "--image-max-width", "--image-guidance",
                   "--image-strength", "--image-sample-steps", "--image-cfg-scale", "--image-slg-scale"},
     words    |-> {"--image-sampler"}]

ImageModelOptions ==
    [switches |-> On({"--image-no-text-encoder-model-offload", "--qwen-image-zero-cond-t"}),
     numbers  |-> {"--image-skip-layer", "--image-slg-start", "--image-slg-end", "--image-flow-shift"},
     words    |-> {"--image-schedule", "--image-clip-l-model", "--image-clip-g-model", "--image-t5xxl-model",
                   "--image-llm-model", "--image-llm-vision-model"}]

ImageVaeOptions ==
    [switches |-> On({"--image-no-vae-model-offload", "--image-no-control-net-model-offload",
                      "--image-control-canny", "--image-free-compute-memory-immediately"})
                  \cup {<<"--image-vae-tiling", "--image-vae-tiling", "true">>,
                        <<"--image-no-vae-tiling", "--image-vae-tiling", "false">>},
     numbers  |-> {"--image-upscale-repeats", "--image-control-strength"},
     words    |-> {"--image-vae-model", "--image-taesd-model", "--image-upscale-model", "--image-control-net-model"}]

RpcOptions ==
    [switches |-> On({"--rpc-server-cache"}),
     numbers  |-> {"--rpc-server-port", "--rpc-server-main-gpu", "--rpc-server-reserve-memory", "--rpc-server-threads"},
     words    |-> {"--rpc-server-host", "--rpc-server-cache-dir"}]

Options == {ConnectionOptions, LoadingOptions, CompletionOptions, ThreadOptions, BatchOptions, SamplingOptions,
            DryOptions, GrammarOptions, ContextOptions, CacheOptions, ModelOptions, SpeculativeOptions,
            EmbeddingOptions, ImageSamplingOptions, ImageModelOptions, ImageVaeOptions, RpcOptions}

(* Those with an effect of their own; CpuMoe and Scaled take more tokens.  *)
CpuMoe   == {"--n-cpu-moe", "--n-cpu-moe-draft"}
Scaled   == {"--lora-scaled", "--control-vector-scaled", "--control-vector-layer-range"}
Specials == {"--rerank", "--jinja"}
Valued   == CpuMoe \cup Scaled \cup
            {"--lora", "--chat-template", "--chat-template-file", "--chat-template-kwargs", "--parallel",
             "--dry-base", "--cache-reuse", "--defrag-thold"}

Switches == UNION {o.switches : o \in Options}
Numbers  == UNION {o.numbers : o \in Options}
Words    == UNION {o.words : o \in Options}

-----------------------------------------------------------------------------
(* The numbers an option accepts; most accept all.                         *)

MultipleOf(k, n) == n % k = 0

Accepts(option, n) ==
    /\ option \in {"--port", "--rpc-server-port"} => n \in 0 .. 65535
    /\ option = "--main-gpu" => n \in 0 .. MaxDevices - 1
    /\ option = "--rpc-server-main-gpu" => n < MaxDevices
    /\ option = "--keep" => n >= 0
    /\ option \in {"--repeat-last-n", "--dry-penalty-last-n"} => n >= -1
    /\ option = "--lookup-ngram-min" => n \in 1 .. 4
    /\ option = "--visual-max-image-size" => n = 0 \/ (n >= 224 /\ MultipleOf(14, n))
    /\ option \in {"--image-max-height", "--image-max-width"} => n >= 256 /\ MultipleOf(64, n)
    /\ option \in {"--image-max-batch", "--image-guidance", "--image-sample-steps", "--image-cfg-scale",
                   "--image-upscale-repeats"} => n >= 1
    /\ option \in {"--image-slg-scale", "--image-skip-layer", "--image-slg-start", "--image-slg-end"} => n >= 0
    /\ option \in {"--image-strength", "--image-control-strength"} => n \in 0 .. 1

(* The words it accepts; devices, files and the like may be refused too.   *)
Accepted ==
    ("--split-mode"   :> {"none", "layer", "row"}) @@
    ("--rope-scaling" :> {"none", "linear", "yarn"}) @@
    ("--numa"         :> {"distribute", "isolate", "numactl"}) @@
    ("--pooling"      :> {"none", "mean", "cls", "last", "rank"}) @@
    ("--attention"    :> {"causal", "non-causal"})

(* Parsed by other code, that may refuse them with an invalid_argument.    *)
Checked == {"--rpc", "--tensor-split", "--override-tensor", "--override-tensor-draft", "--device", "--device-draft",
            "--override-kv", "--slot-save-path", "--cpu-mask", "--cpu-range", "--cpu-mask-batch", "--cpu-range-batch",
            "--logit-bias", "--grammar-file", "--image-sampler", "--image-schedule"}

(* Or with an exception of another kind, that nothing catches.             *)
Throwing == {"--cache-type-k", "--cache-type-v", "--json-schema", "--tensor-split"}

-----------------------------------------------------------------------------

Given(option) == option \in DOMAIN given
UseJinja == Given("--jinja") /\ given["--jinja"] = Word("true")
Template == IF Given("--chat-template") THEN given["--chat-template"].text ELSE ""

Init ==
    /\ argv \in CommandLines
    /\ position = 1
    /\ given = <<>>
    /\ lora_scales = <<>>
    /\ cpu_layers = [o \in CpuMoe |-> <<>>]
    /\ n_threads_http = -1
    /\ stage = "parsing"

Parses(option) == stage = "parsing" /\ argv # <<>> /\ argv[1].text = option

Reads(n) ==
    /\ argv' = SubSeq(argv, n + 1, Len(argv))
    /\ position' = position + n

(* What was given before, and an option more.                              *)
With(before, option, value) ==
    [o \in DOMAIN before \cup {option} |-> IF o = option THEN value ELSE before[o]]

Sets(option, value) == given' = With(given, option, value)

Fails(how) ==
    /\ stage' = how
    /\ argv' = <<>>
    /\ position' = 0
    /\ UNCHANGED params

(* Words that are no option, and options that are not known.               *)
Skip ==
    /\ stage = "parsing" /\ argv # <<>>
    /\ argv[1].text \notin Exits \cup {s[1] : s \in Switches} \cup Numbers \cup Words \cup Specials \cup Valued
    /\ Reads(1)
    /\ UNCHANGED <<params, stage>>

(* Prints and exits.                                                       *)
Exit == \E option \in Exits : Parses(option) /\ Fails("exited")

Switch(s) ==
    /\ Parses(s[1])
    /\ Sets(s[2], Word(s[3]))
    /\ Reads(1)
    /\ UNCHANGED <<lora_scales, cpu_layers, n_threads_http, stage>>

(* The last token of the line is an option that takes a value.             *)
Missing(option) == Parses(option) /\ Len(argv) = 1 /\ Fails("usage")

Takes(option) == Parses(option) /\ Len(argv) > 1

Value == argv[2]

TakeNumber(option) ==
    /\ Takes(option)
    /\ IsNumber(Value) /\ Accepts(option, Value.num)
    /\ Sets(option, Value)
    /\ Reads(2)
    /\ UNCHANGED <<lora_scales, cpu_layers, n_threads_http, stage>>

(* invalid(), or the invalid_argument of std::stoi, is caught: usage.  Its *)
(* out_of_range is not.                                                    *)
RefuseNumber(option) ==
    /\ Takes(option)
    /\ ~(IsNumber(Value) /\ Accepts(option, Value.num))
    /\ Fails(IF Value = Huge THEN "aborted" ELSE "usage")

TakeWord(option) ==
    /\ Takes(option)
    /\ option \in DOMAIN Accepted => Value.text \in Accepted[option]
    /\ Sets(option, Value)
    /\ Reads(2)
    /\ UNCHANGED <<lora_scales, cpu_layers, n_threads_http, stage>>

RefuseWord(option) ==
    /\ Takes(option)
    /\ \/ option \in Checked /\ Fails("usage")
       \/ option \in Throwing /\ Fails("aborted")
       \/ option \in DOMAIN Accepted /\ Value.text \notin Accepted[option] /\ Fails("usage")

-----------------------------------------------------------------------------
(* Options with an effect of their own.                                    *)

Rerank ==
    /\ Parses("--rerank")
    /\ given' = With(With(given, "--embeddings", Word("true")), "--pooling", Word("rank"))
    /\ Reads(1)
    /\ UNCHANGED <<lora_scales, cpu_layers, n_threads_http, stage>>

Lora ==
    /\ Takes("--lora")
    /\ lora_scales' = Append(lora_scales, 1)
    /\ Reads(2)
    /\ UNCHANGED <<given, cpu_layers, n_threads_http, stage>>

(* A name and a scale, or the first and the last layer.                    *)
FitsTwo(option) ==
    /\ option = "--control-vector-layer-range" => IsNumber(Value)
    /\ Len(argv) > 2 /\ IsNumber(argv[3])

TakeTwo(option) ==
    /\ Takes(option)
    /\ FitsTwo(option)
    /\ lora_scales' = IF option = "--lora-scaled" THEN Append(lora_scales, argv[3].num) ELSE lora_scales
    /\ IF option = "--lora-scaled" THEN UNCHANGED given ELSE Sets(option, argv[3])
    /\ Reads(3)
    /\ UNCHANGED <<cpu_layers, n_threads_http, stage>>

RefuseTwo(option) ==
    /\ Takes(option)
    /\ ~FitsTwo(option)
    /\ Fails(IF \E k \in 2 .. Min({3, Len(argv)}) : argv[k] = Huge THEN "aborted" ELSE "usage")

(* Each resets what the other sets.                                        *)
ChatTemplate ==
    /\ Takes("--chat-template")
    /\ IF Value.text \in Builtins
       THEN /\ given' = With(With(given, "--chat-template", Value), "--jinja", Word("false"))
            /\ Reads(2)
            /\ UNCHANGED <<lora_scales, cpu_layers, n_threads_http, stage>>
       ELSE Fails("usage")

Jinja ==
    /\ Parses("--jinja")
    /\ given' = With(With(given, "--chat-template", Word("")), "--jinja", Word("true"))
    /\ Reads(1)
    /\ UNCHANGED <<lora_scales, cpu_layers, n_threads_http, stage>>

(* Mutant: a file is taken before --jinja as well.                         *)
ChatTemplateFile_AnyOrder ==
    /\ Takes("--chat-template-file")
    /\ \/ /\ Sets("--chat-template", Word("contents of a file"))
          /\ Reads(2)
          /\ UNCHANGED <<lora_scales, cpu_layers, n_threads_http, stage>>
       \/ Fails("usage")

(* The file is read; its contents may be the name of a builtin template,   *)
(* which is refused.                                                       *)
ChatTemplateFile ==
    /\ Takes("--chat-template-file")
    /\ \/ /\ UseJinja
          /\ Sets("--chat-template", Word("contents of a file"))
          /\ Reads(2)
          /\ UNCHANGED <<lora_scales, cpu_layers, n_threads_http, stage>>
       \/ Fails("usage")

ChatTemplateKwargs ==
    /\ Takes("--chat-template-kwargs")
    /\ \/ /\ UseJinja
          /\ Sets("--chat-template-kwargs", Value)
          /\ Reads(2)
          /\ UNCHANGED <<lora_scales, cpu_layers, n_threads_http, stage>>
       \/ UseJinja /\ Fails("aborted")
       \/ ~UseJinja /\ Fails("usage")

(* Another name of --threads-http, but it refuses what that accepts.       *)
Parallel ==
    /\ Takes("--parallel")
    /\ IF IsNumber(Value) /\ Value.num > 0
       THEN /\ Sets("--threads-http", Value)
            /\ Reads(2)
            /\ UNCHANGED <<lora_scales, cpu_layers, n_threads_http, stage>>
       ELSE Fails(IF Value = Huge THEN "aborted" ELSE "usage")

(* What it sets is the multiplier.                                         *)
DryBase ==
    /\ Takes("--dry-base")
    /\ IF IsNumber(Value)
       THEN /\ IF Value.num >= 1 THEN Sets("--dry-multiplier", Value) ELSE UNCHANGED given
            /\ Reads(2)
            /\ UNCHANGED <<lora_scales, cpu_layers, n_threads_http, stage>>
       ELSE Fails(IF Value = Huge THEN "aborted" ELSE "usage")

CacheReuse ==
    /\ Takes("--cache-reuse")
    /\ IF IsNumber(Value)
       THEN /\ given' = LET reuse == With(given, "--cache-reuse", Value)
                       IN  IF Value.num > 0 THEN With(reuse, "cache_prompt", Word("true")) ELSE reuse
            /\ Reads(2)
            /\ UNCHANGED <<lora_scales, cpu_layers, n_threads_http, stage>>
       ELSE Fails(IF Value = Huge THEN "aborted" ELSE "usage")

(* The loop counts with i, the position in the command line, and pushes    *)
(* layer 0 each time: as many tokens are passed over as it runs.           *)
NCpuMoe(option) ==
    /\ Takes(option)
    /\ IF IsNumber(Value) /\ Value.num >= 0
       THEN LET i     == position + 2
                times == Max({0, Value.num - i})
            IN  /\ cpu_layers' = [cpu_layers EXCEPT ![option] = @ \o [k \in 1 .. times |-> 0]]
                /\ Reads(2 + times)
                /\ UNCHANGED <<given, lora_scales, n_threads_http, stage>>
       ELSE Fails(IF Value = Huge THEN "aborted" ELSE "usage")

DefragThold ==
    /\ Takes("--defrag-thold")
    /\ Reads(2)
    /\ UNCHANGED <<params, stage>>

Special ==
    \/ Rerank \/ Lora \/ Jinja \/ ChatTemplate \/ ChatTemplateFile \/ ChatTemplateKwargs
    \/ Parallel \/ DryBase \/ CacheReuse \/ DefragThold
    \/ \E o \in Scaled : TakeTwo(o) \/ RefuseTwo(o)
    \/ \E o \in CpuMoe : NCpuMoe(o)

-----------------------------------------------------------------------------
(* When the line is read.                                                  *)

ThreadsHttp ==
    LET cpus   == IF Given("--threads") /\ given["--threads"].num > 0 THEN given["--threads"].num ELSE MathCpus
        asked  == IF Given("--threads-http") THEN given["--threads-http"].num ELSE -1
    IN  Min({MaxThreads, IF asked <= 0 THEN cpus ELSE asked})

Postprocess ==
    /\ stage = "parsing" /\ argv = <<>>
    /\ n_threads_http' = ThreadsHttp
    /\ lora_scales' = IF Given("--lora-init-without-apply") THEN [k \in DOMAIN lora_scales |-> 0] ELSE lora_scales
    /\ given' = IF Given("--device") /\ ~Given("--device-draft") THEN With(given, "--device-draft", given["--device"])
                ELSE given
    /\ stage' = IF Given("--rpc-server-port") /\ given["--rpc-server-port"].num > 0 THEN "rpc server" ELSE "http server"
    /\ position' = 0
    /\ UNCHANGED <<argv, cpu_layers>>

(* The template of a file is refused, outside of what catches it.          *)
BadTemplate ==
    /\ stage = "parsing" /\ argv = <<>>
    /\ Template \notin Builtins \cup {""}
    /\ Fails("aborted")

Parse ==
    \/ Skip \/ Exit
    \/ \E s \in Switches : Switch(s)
    \/ \E o \in Numbers : Missing(o) \/ TakeNumber(o) \/ RefuseNumber(o)
    \/ \E o \in Words : Missing(o) \/ TakeWord(o) \/ RefuseWord(o)
    \/ Special
    \/ \E o \in Valued : Missing(o)
    \/ Postprocess \/ BadTemplate

=============================================================================
