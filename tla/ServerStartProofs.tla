------------------------- MODULE ServerStartProofs -------------------------
(***************************************************************************)
(* What ServerStart keeps to for every command line, model, pool of        *)
(* threads and number of requests: the templates that are rendered, the    *)
(* settings that completions run with, and the numbers of the threads.     *)
(***************************************************************************)
EXTENDS ServerStart, FiniteSetTheorems, SequenceTheorems, TLAPS

Tokens == [text : STRING, num : Int]

(* The options that a template depends on.                                 *)
TemplateOptions == {"--chat-template", "--jinja"}

Ended == {"exited", "usage", "aborted"}

ParamsInv ==
    /\ argv \in Seq(Tokens)
    /\ position \in Int
    /\ \A o \in DOMAIN given : given[o].num \in Int
    /\ n_threads_http \in Int
    /\ stage \notin {"parsing"} \cup Ended => n_threads_http \in 1 .. MaxThreads
    /\ CustomTemplateNeedsJinja

-----------------------------------------------------------------------------
(***************************************************************************)
(* The tables and the helpers of the parser.                               *)
(***************************************************************************)

LEMMA MinMaxOfTwo ==
    ASSUME NEW a \in Int, NEW b \in Int
    PROVE  /\ Min({a, b}) = IF a <= b THEN a ELSE b
           /\ Max({a, b}) = IF a >= b THEN a ELSE b
  <1> DEFINE m == IF a <= b THEN a ELSE b
             n == IF a >= b THEN a ELSE b
  <1>1. /\ m \in {a, b} /\ \A y \in {a, b} : m <= y
        /\ \A x \in {a, b} : (\A y \in {a, b} : x <= y) => x = m
    OBVIOUS
  <1>2. /\ n \in {a, b} /\ \A y \in {a, b} : n >= y
        /\ \A x \in {a, b} : (\A y \in {a, b} : x >= y) => x = n
    OBVIOUS
  <1> HIDE DEF m, n
  <1>3. Min({a, b}) = m
    BY <1>1 DEF Min
  <1>4. Max({a, b}) = n
    BY <1>2 DEF Max
  <1> QED
    BY <1>3, <1>4 DEF m, n

(* No option of the tables sets a template.                                *)
LEMMA Unrelated ==
    /\ \A s \in Switches : s[2] \notin TemplateOptions
    /\ \A o \in Numbers : o \notin TemplateOptions
    /\ \A o \in Words : o \notin TemplateOptions
    /\ \A o \in Scaled : o \notin TemplateOptions
  <1>1. \A t \in Options :
            /\ \A s \in t.switches : s[2] \notin TemplateOptions
            /\ \A o \in t.numbers : o \notin TemplateOptions
            /\ \A o \in t.words : o \notin TemplateOptions
    <2> DEFINE Fit(t) ==
                   /\ \A s \in t.switches : s[2] \notin TemplateOptions
                   /\ \A o \in t.numbers : o \notin TemplateOptions
                   /\ \A o \in t.words : o \notin TemplateOptions
    <2>1. Fit(ConnectionOptions)
      BY DEF ConnectionOptions, On, TemplateOptions
    <2>2. Fit(LoadingOptions)
      BY DEF LoadingOptions, On, TemplateOptions
    <2>3. Fit(CompletionOptions)
      BY DEF CompletionOptions, On, TemplateOptions
    <2>4. Fit(ThreadOptions)
      BY DEF ThreadOptions, On, TemplateOptions
    <2>5. Fit(BatchOptions)
      BY DEF BatchOptions, On, TemplateOptions
    <2>6. Fit(SamplingOptions)
      BY DEF SamplingOptions, On, TemplateOptions
    <2>7. Fit(DryOptions)
      BY DEF DryOptions, On, TemplateOptions
    <2>8. Fit(GrammarOptions)
      BY DEF GrammarOptions, On, TemplateOptions
    <2>9. Fit(ContextOptions)
      BY DEF ContextOptions, On, TemplateOptions
    <2>10. Fit(CacheOptions)
      BY DEF CacheOptions, On, TemplateOptions
    <2>11. Fit(ModelOptions)
      BY DEF ModelOptions, On, TemplateOptions
    <2>12. Fit(SpeculativeOptions)
      BY DEF SpeculativeOptions, On, TemplateOptions
    <2>13. Fit(EmbeddingOptions)
      BY DEF EmbeddingOptions, On, TemplateOptions
    <2>14. Fit(ImageSamplingOptions)
      BY DEF ImageSamplingOptions, On, TemplateOptions
    <2>15. Fit(ImageModelOptions)
      BY DEF ImageModelOptions, On, TemplateOptions
    <2>16. Fit(ImageVaeOptions)
      BY DEF ImageVaeOptions, On, TemplateOptions
    <2>17. Fit(RpcOptions)
      BY DEF RpcOptions, On, TemplateOptions
    <2> HIDE DEF Fit
    <2>18. \A t \in Options : Fit(t)
      BY <2>1, <2>2, <2>3, <2>4, <2>5, <2>6, <2>7, <2>8, <2>9, <2>10, <2>11, <2>12, <2>13, <2>14,
         <2>15, <2>16, <2>17 DEF Options
    <2> QED
      BY <2>18 DEF Fit
  <1>2. \A o \in Scaled : o \notin TemplateOptions
    BY DEF Scaled, TemplateOptions
  <1> QED
    BY <1>1, <1>2 DEF Switches, Numbers, Words

(* What is left of the command line.                                       *)
LEMMA ReadsType ==
    ASSUME argv \in Seq(Tokens), position \in Int, NEW n \in Nat, Reads(n)
    PROVE  argv' \in Seq(Tokens) /\ position' \in Int
  <1>1. Len(argv) \in Nat /\ n + 1 \in Int
    BY LenProperties
  <1>2. \A i \in n + 1 .. Len(argv) : argv[i] \in Tokens
    <2> TAKE i \in n + 1 .. Len(argv)
    <2>1. i \in 1 .. Len(argv)
      BY <1>1
    <2> QED
      BY <2>1, ElementOfSeq
  <1>3. SubSeq(argv, n + 1, Len(argv)) \in Seq(Tokens)
    BY <1>1, <1>2, SubSeqProperties
  <1> QED
    BY <1>3 DEF Reads

LEMMA TokenOf ==
    ASSUME argv \in Seq(Tokens)
    PROVE  /\ Len(argv) \in Nat
           /\ Len(argv) > 1 => Value \in Tokens /\ Value.num \in Int
           /\ Len(argv) > 2 => argv[3] \in Tokens /\ argv[3].num \in Int
  <1>1. Len(argv) \in Nat
    BY LenProperties
  <1>2. \A i \in 1 .. Len(argv) : argv[i] \in Tokens
    BY ElementOfSeq
  <1> QED
    BY <1>1, <1>2 DEF Value, Tokens

LEMMA WithGiven ==
    ASSUME NEW f, NEW o, NEW v, v.num \in Int, \A p \in DOMAIN f : f[p].num \in Int
    PROVE  /\ \A p \in DOMAIN With(f, o, v) : With(f, o, v)[p].num \in Int
           /\ o \in DOMAIN With(f, o, v) /\ With(f, o, v)[o] = v
           /\ \A p \in DOMAIN f : p \in DOMAIN With(f, o, v) /\ (p # o => With(f, o, v)[p] = f[p])
  BY DEF With

LEMMA WordTyped == \A w : Word(w).num \in Int
  BY DEF Word

(* A setting that has nothing to do with templates.                        *)
LEMMA WithOther ==
    ASSUME NEW f, NEW o, NEW v, v.num \in Int, o \notin TemplateOptions,
           \A p \in DOMAIN f : f[p].num \in Int
    PROVE  /\ \A p \in DOMAIN With(f, o, v) : With(f, o, v)[p].num \in Int
           /\ \A p \in TemplateOptions :
                  /\ p \in DOMAIN With(f, o, v) <=> p \in DOMAIN f
                  /\ p \in DOMAIN f => With(f, o, v)[p] = f[p]
  BY DEF With

(* A template that is not built in stays one that jinja renders.           *)
LEMMA TemplateKept ==
    ASSUME CustomTemplateNeedsJinja,
           \A p \in TemplateOptions :
               /\ p \in DOMAIN given' <=> p \in DOMAIN given
               /\ p \in DOMAIN given => given'[p] = given[p]
    PROVE  CustomTemplateNeedsJinja'
  BY DEF CustomTemplateNeedsJinja, Template, UseJinja, Given, TemplateOptions

-----------------------------------------------------------------------------
(***************************************************************************)
(* The parser.                                                             *)
(***************************************************************************)

(* What a step of the parser has to do with what was given.                *)
GivenKept ==
    /\ \A o \in DOMAIN given : given[o].num \in Int
    /\ CustomTemplateNeedsJinja

LEMMA ParseKeeps ==
    ASSUME ParamsInv, stage = "parsing", argv' \in Seq(Tokens), position' \in Int,
           n_threads_http' = n_threads_http, stage' \in {"parsing"} \cup Ended, GivenKept'
    PROVE  ParamsInv'
  BY DEF ParamsInv, GivenKept

LEMMA FailsKeeps ==
    ASSUME ParamsInv, stage = "parsing", NEW how \in Ended, Fails(how)
    PROVE  ParamsInv'
  <1>1. /\ argv' = <<>> /\ position' = 0 /\ stage' = how
        /\ UNCHANGED <<given, n_threads_http>>
    BY DEF Fails, params
  <1>2. GivenKept'
    BY <1>1 DEF ParamsInv, GivenKept, CustomTemplateNeedsJinja, Template, UseJinja, Given
  <1> QED
    BY <1>1, <1>2, ParseKeeps, EmptySeq

(* An option that has nothing to do with templates is read.                *)
LEMMA SetsKeeps ==
    ASSUME ParamsInv, stage = "parsing", NEW o, NEW v, v.num \in Int, o \notin TemplateOptions,
           Sets(o, v) \/ given' = given, NEW n \in Nat, Reads(n),
           UNCHANGED <<n_threads_http, stage>>
    PROVE  ParamsInv'
  <1>1. argv' \in Seq(Tokens) /\ position' \in Int
    BY ReadsType DEF ParamsInv
  <1>2. \A p \in DOMAIN given : given[p].num \in Int
    BY DEF ParamsInv
  <1>3. GivenKept'
    <2>1. CASE Sets(o, v)
      <3>1. /\ \A p \in DOMAIN given' : given'[p].num \in Int
            /\ \A p \in TemplateOptions :
                   /\ p \in DOMAIN given' <=> p \in DOMAIN given
                   /\ p \in DOMAIN given => given'[p] = given[p]
        BY <1>2, <2>1, WithOther DEF Sets
      <3> QED
        BY <3>1, TemplateKept DEF GivenKept, ParamsInv
    <2>2. CASE given' = given
      BY <1>2, <2>2, TemplateKept DEF GivenKept, ParamsInv
    <2> QED
      BY <2>1, <2>2
  <1> QED
    BY <1>1, <1>3, ParseKeeps

(* A template of a file, or arguments for it, come after --jinja; a        *)
(* builtin one ends it.                                                    *)
LEMMA TemplateSteps ==
    ASSUME ParamsInv, stage = "parsing", ChatTemplate \/ Jinja \/ ChatTemplateFile \/ ChatTemplateKwargs
    PROVE  ParamsInv'
  <1>0. argv \in Seq(Tokens) /\ position \in Int /\ \A p \in DOMAIN given : given[p].num \in Int
    BY DEF ParamsInv
  <1>1. (\E how \in Ended : Fails(how)) => ParamsInv'
    BY FailsKeeps
  <1>2. ASSUME NEW n \in Nat, Reads(n), UNCHANGED <<n_threads_http, stage>>, GivenKept'
        PROVE  ParamsInv'
    BY <1>0, <1>2, ReadsType, ParseKeeps
  <1>3. CASE ChatTemplate
    <2>1. CASE /\ Value.text \in Builtins /\ Value.num \in Int
               /\ given' = With(With(given, "--chat-template", Value), "--jinja", Word("false"))
               /\ Reads(2) /\ UNCHANGED <<n_threads_http, stage>>
      <3>1. /\ \A p \in DOMAIN given' : given'[p].num \in Int
            /\ "--chat-template" \in DOMAIN given' /\ given'["--chat-template"] = Value
        BY <1>0, <2>1 DEF With, Word
      <3>2. GivenKept'
        BY <2>1, <3>1 DEF GivenKept, CustomTemplateNeedsJinja, Template, Given
      <3> QED
        BY <1>2, <2>1, <3>2
    <2>2. CASE Fails("usage")
      BY <1>1, <2>2 DEF Ended
    <2>3. Value.num \in Int
      BY <1>0, <1>3, TokenOf DEF ChatTemplate, Takes
    <2> QED
      BY <1>3, <2>1, <2>2, <2>3 DEF ChatTemplate
  <1>4. CASE Jinja
    <2>1. /\ given' = With(With(given, "--chat-template", Word("")), "--jinja", Word("true"))
          /\ Reads(1) /\ UNCHANGED <<n_threads_http, stage>>
      BY <1>4 DEF Jinja
    <2>2. /\ \A p \in DOMAIN given' : given'[p].num \in Int
          /\ "--jinja" \in DOMAIN given' /\ given'["--jinja"] = Word("true")
      <3> DEFINE f == With(given, "--chat-template", Word(""))
      <3>1. \A p \in DOMAIN f : f[p].num \in Int
        BY <1>0, WithGiven, WordTyped
      <3>2. given' = With(f, "--jinja", Word("true"))
        BY <2>1
      <3> HIDE DEF f
      <3> QED
        BY <3>1, <3>2, WithGiven, WordTyped
    <2>3. GivenKept'
      BY <2>2 DEF GivenKept, CustomTemplateNeedsJinja, UseJinja, Given
    <2> QED
      BY <1>2, <2>1, <2>3
  <1>5. CASE ChatTemplateFile
    <2>1. CASE /\ UseJinja /\ Sets("--chat-template", Word("contents of a file"))
               /\ Reads(2) /\ UNCHANGED <<n_threads_http, stage>>
      <3>1. /\ \A p \in DOMAIN given' : given'[p].num \in Int
            /\ "--jinja" \in DOMAIN given' /\ given'["--jinja"] = Word("true")
        <4>1. given' = With(given, "--chat-template", Word("contents of a file"))
          BY <2>1 DEF Sets
        <4>2. "--jinja" \in DOMAIN given /\ given["--jinja"] = Word("true")
          BY <2>1 DEF UseJinja, Given
        <4> DEFINE f == With(given, "--chat-template", Word("contents of a file"))
        <4>3. /\ \A p \in DOMAIN f : f[p].num \in Int
              /\ \A p \in DOMAIN given : p \in DOMAIN f /\ (p # "--chat-template" => f[p] = given[p])
          <5> DEFINE w == Word("contents of a file")
          <5>1. w.num \in Int
            BY WordTyped
          <5> HIDE DEF w
          <5>2. /\ \A p \in DOMAIN With(given, "--chat-template", w) : With(given, "--chat-template", w)[p].num \in Int
                /\ \A p \in DOMAIN given :
                       /\ p \in DOMAIN With(given, "--chat-template", w)
                       /\ p # "--chat-template" => With(given, "--chat-template", w)[p] = given[p]
            BY <1>0, <5>1, WithGiven
          <5> QED
            BY <5>2 DEF w
        <4>4. "--jinja" # "--chat-template"
          OBVIOUS
        <4> HIDE DEF f
        <4> QED
          BY <4>1, <4>2, <4>3, <4>4 DEF f
      <3>2. GivenKept'
        BY <3>1 DEF GivenKept, CustomTemplateNeedsJinja, UseJinja, Given
      <3> QED
        BY <1>2, <2>1, <3>2
    <2>2. CASE Fails("usage")
      BY <1>1, <2>2 DEF Ended
    <2> QED
      BY <1>5, <2>1, <2>2 DEF ChatTemplateFile
  <1>6. CASE ChatTemplateKwargs
    <2>1. CASE /\ Sets("--chat-template-kwargs", Value) /\ Value.num \in Int
               /\ Reads(2) /\ UNCHANGED <<n_threads_http, stage>>
      BY <2>1, SetsKeeps DEF TemplateOptions
    <2>2. CASE Fails("usage") \/ Fails("aborted")
      BY <1>1, <2>2 DEF Ended
    <2>3. Value.num \in Int
      BY <1>0, <1>6, TokenOf DEF ChatTemplateKwargs, Takes
    <2> QED
      BY <1>6, <2>1, <2>2, <2>3 DEF ChatTemplateKwargs
  <1> QED
    BY <1>3, <1>4, <1>5, <1>6

(* The other options with an effect of their own.                          *)
LEMMA SpecialSteps ==
    ASSUME ParamsInv, stage = "parsing",
           \/ Rerank \/ Lora \/ Parallel \/ DryBase \/ CacheReuse \/ DefragThold
           \/ \E o \in Scaled : TakeTwo(o) \/ RefuseTwo(o)
           \/ \E o \in CpuMoe : NCpuMoe(o)
    PROVE  ParamsInv'
  <1>0. argv \in Seq(Tokens) /\ position \in Int /\ \A p \in DOMAIN given : given[p].num \in Int
    BY DEF ParamsInv
  <1>1. (\E how \in Ended : Fails(how)) => ParamsInv'
    BY FailsKeeps
  <1>2. Fails("usage") \/ Fails("aborted") => ParamsInv'
    BY <1>1 DEF Ended
  <1>3. ASSUME NEW n \in Nat, Reads(n), UNCHANGED <<given, n_threads_http, stage>>
        PROVE  ParamsInv'
    <2>1. Word("").num \in Int /\ "" \notin TemplateOptions
      BY DEF Word, TemplateOptions
    <2> QED
      BY <1>3, <2>1, SetsKeeps
  <1>4. Value.num \in Int \/ ~(Len(argv) > 1)
    BY <1>0, TokenOf
  <1>5. ASSUME NEW o, NEW p, NEW v, NEW w, v.num \in Int, w.num \in Int,
               o \notin TemplateOptions, p \notin TemplateOptions,
               given' = With(With(given, p, w), o, v), NEW n \in Nat, Reads(n),
               UNCHANGED <<n_threads_http, stage>>
        PROVE  ParamsInv'
    <2>1. /\ \A q \in DOMAIN With(given, p, w) : With(given, p, w)[q].num \in Int
          /\ \A q \in TemplateOptions :
                 /\ q \in DOMAIN With(given, p, w) <=> q \in DOMAIN given
                 /\ q \in DOMAIN given => With(given, p, w)[q] = given[q]
      BY <1>0, <1>5, WithOther
    <2>2. /\ \A q \in DOMAIN given' : given'[q].num \in Int
          /\ \A q \in TemplateOptions :
                 /\ q \in DOMAIN given' <=> q \in DOMAIN With(given, p, w)
                 /\ q \in DOMAIN With(given, p, w) => given'[q] = With(given, p, w)[q]
      BY <1>5, <2>1, WithOther
    <2>3. GivenKept'
      BY <2>1, <2>2, TemplateKept DEF GivenKept, ParamsInv
    <2> QED
      BY <1>0, <1>5, <2>3, ReadsType, ParseKeeps
  <1>6. CASE Rerank
    <2>1. /\ given' = With(With(given, "--embeddings", Word("true")), "--pooling", Word("rank"))
          /\ Reads(1) /\ UNCHANGED <<n_threads_http, stage>>
      BY <1>6 DEF Rerank
    <2>2. /\ Word("true").num \in Int /\ Word("rank").num \in Int
          /\ "--embeddings" \notin TemplateOptions /\ "--pooling" \notin TemplateOptions
      BY DEF Word, TemplateOptions
    <2> QED
      BY <1>5, <2>1, <2>2
  <1>7. CASE Lora \/ DefragThold
    BY <1>3, <1>7 DEF Lora, DefragThold, params
  <1>8. CASE Parallel
    <2>1. Value.num \in Int /\ "--threads-http" \notin TemplateOptions
      BY <1>4, <1>8 DEF Parallel, Takes, TemplateOptions
    <2>2. \/ Sets("--threads-http", Value) /\ Reads(2) /\ UNCHANGED <<n_threads_http, stage>>
          \/ Fails("usage") \/ Fails("aborted")
      BY <1>8 DEF Parallel
    <2> QED
      BY <1>2, <2>1, <2>2, SetsKeeps
  <1>9. CASE DryBase
    <2>1. Value.num \in Int /\ "--dry-multiplier" \notin TemplateOptions
      BY <1>4, <1>9 DEF DryBase, Takes, TemplateOptions
    <2>2. \/ /\ Sets("--dry-multiplier", Value) \/ given' = given
             /\ Reads(2) /\ UNCHANGED <<n_threads_http, stage>>
          \/ Fails("usage") \/ Fails("aborted")
      BY <1>9 DEF DryBase
    <2> QED
      BY <1>2, <2>1, <2>2, SetsKeeps
  <1>10. CASE CacheReuse
    <2>1. /\ Value.num \in Int /\ Word("true").num \in Int
          /\ "--cache-reuse" \notin TemplateOptions /\ "cache_prompt" \notin TemplateOptions
      BY <1>4, <1>10 DEF CacheReuse, Takes, TemplateOptions, Word
    <2>2. \/ /\ \/ given' = With(With(given, "--cache-reuse", Value), "cache_prompt", Word("true"))
                \/ Sets("--cache-reuse", Value)
             /\ Reads(2) /\ UNCHANGED <<n_threads_http, stage>>
          \/ Fails("usage") \/ Fails("aborted")
      BY <1>10 DEF CacheReuse, Sets
    <2> QED
      BY <1>2, <1>5, <2>1, <2>2, SetsKeeps
  <1>11. ASSUME NEW o \in Scaled, TakeTwo(o) \/ RefuseTwo(o)
         PROVE  ParamsInv'
    <2>1. CASE TakeTwo(o)
      <3>1. /\ Len(argv) > 2 /\ Reads(3) /\ UNCHANGED <<n_threads_http, stage>>
            /\ given' = given \/ Sets(o, argv[3])
        BY <2>1 DEF TakeTwo, FitsTwo
      <3>2. argv[3].num \in Int /\ o \notin TemplateOptions
        BY <1>0, <3>1, TokenOf, Unrelated
      <3> QED
        BY <3>1, <3>2, SetsKeeps
    <2>2. CASE RefuseTwo(o)
      BY <1>2, <2>2 DEF RefuseTwo
    <2> QED
      BY <1>11, <2>1, <2>2
  <1>12. ASSUME NEW o \in CpuMoe, NCpuMoe(o)
         PROVE  ParamsInv'
    <2> DEFINE times == Max({0, Value.num - (position + 2)})
    <2>1. \/ Reads(2 + times) /\ UNCHANGED <<given, n_threads_http, stage>>
          \/ Fails("usage") \/ Fails("aborted")
      BY <1>12 DEF NCpuMoe
    <2>2. 2 + times \in Nat
      <3>1. Value.num \in Int
        BY <1>4, <1>12 DEF NCpuMoe, Takes
      <3>2. Value.num - (position + 2) \in Int
        BY <1>0, <3>1
      <3>3. times \in Nat
        <4> DEFINE d == Value.num - (position + 2)
        <4>1. d \in Int
          BY <3>2
        <4> HIDE DEF d
        <4>2. Max({0, d}) \in Nat
          <5>1. Max({0, d}) = IF 0 >= d THEN 0 ELSE d
            BY <4>1, MinMaxOfTwo
          <5> QED
            BY <4>1, <5>1
        <4> QED
          BY <4>2 DEF d
      <3> QED
        BY <3>3
    <2> HIDE DEF times
    <2> QED
      BY <1>2, <1>3, <2>1, <2>2
  <1> QED
    BY <1>6, <1>7, <1>8, <1>9, <1>10, <1>11, <1>12

(* At least one thread serves requests, and at most as many as may.        *)
LEMMA ThreadsHttpBound ==
    ASSUME \A o \in DOMAIN given : given[o].num \in Int
    PROVE  ThreadsHttp \in 1 .. MaxThreads
  <1> DEFINE cpus  == IF Given("--threads") /\ given["--threads"].num > 0 THEN given["--threads"].num ELSE MathCpus
             asked == IF Given("--threads-http") THEN given["--threads-http"].num ELSE -1
             some  == IF asked <= 0 THEN cpus ELSE asked
  <1>1. MathCpus \in Nat \ {0} /\ MaxThreads \in Nat \ {0}
    BY ParamsAssumption
  <1>2. cpus \in Int /\ cpus >= 1 /\ asked \in Int
    BY <1>1 DEF Given
  <1> HIDE DEF cpus, asked
  <1>3. some \in Int /\ some >= 1
    BY <1>2
  <1> HIDE DEF some
  <1>4. Min({MaxThreads, some}) = IF MaxThreads <= some THEN MaxThreads ELSE some
    BY <1>1, <1>3, MinMaxOfTwo
  <1>5. ThreadsHttp = Min({MaxThreads, some})
    BY DEF ThreadsHttp, some, asked, cpus
  <1> QED
    BY <1>1, <1>3, <1>4, <1>5

LEMMA PostprocessKeeps ==
    ASSUME ParamsInv, Postprocess
    PROVE  ParamsInv'
  <1>0. argv \in Seq(Tokens) /\ \A p \in DOMAIN given : given[p].num \in Int
    BY DEF ParamsInv
  <1>1. /\ n_threads_http' = ThreadsHttp /\ position' = 0 /\ argv' = argv
        /\ \/ /\ "--device" \in DOMAIN given
              /\ given' = With(given, "--device-draft", given["--device"])
           \/ given' = given
    BY DEF Postprocess, Given
  <1>2. n_threads_http' \in 1 .. MaxThreads
    BY <1>0, <1>1, ThreadsHttpBound
  <1>3. n_threads_http' \in Int
    BY <1>2
  <1>4. GivenKept'
    <2>1. CASE /\ "--device" \in DOMAIN given
               /\ given' = With(given, "--device-draft", given["--device"])
      <3>1. given["--device"].num \in Int /\ "--device-draft" \notin TemplateOptions
        BY <1>0, <2>1 DEF TemplateOptions
      <3>2. /\ \A p \in DOMAIN given' : given'[p].num \in Int
            /\ \A p \in TemplateOptions :
                   /\ p \in DOMAIN given' <=> p \in DOMAIN given
                   /\ p \in DOMAIN given => given'[p] = given[p]
        BY <1>0, <2>1, <3>1, WithOther
      <3> QED
        BY <3>2, TemplateKept DEF GivenKept, ParamsInv
    <2>2. CASE given' = given
      BY <1>0, <2>2, TemplateKept DEF GivenKept, ParamsInv
    <2> QED
      BY <1>1, <2>1, <2>2
  <1> QED
    BY <1>0, <1>1, <1>2, <1>3, <1>4 DEF ParamsInv, GivenKept

LEMMA ParseStep ==
    ASSUME ParamsInv, Parse
    PROVE  ParamsInv' /\ stage = "parsing"
  <1>0. stage = "parsing"
    BY DEF Parse, Skip, Exit, Switch, Missing, TakeNumber, RefuseNumber, TakeWord, RefuseWord, Special,
           Rerank, Lora, Jinja, ChatTemplate, ChatTemplateFile, ChatTemplateKwargs, Parallel, DryBase,
           CacheReuse, DefragThold, TakeTwo, RefuseTwo, NCpuMoe, Postprocess, BadTemplate, Takes, Parses
  <1>1. argv \in Seq(Tokens) /\ position \in Int /\ \A p \in DOMAIN given : given[p].num \in Int
    BY DEF ParamsInv
  <1>2. (\E how \in Ended : Fails(how)) => ParamsInv'
    BY <1>0, FailsKeeps
  <1>3. Fails("usage") \/ Fails("aborted") \/ Fails("exited") => ParamsInv'
    BY <1>2 DEF Ended
  <1>4. CASE Skip
    <2>1. Reads(1) /\ UNCHANGED <<given, n_threads_http, stage>>
      BY <1>4 DEF Skip, params
    <2>2. Word("").num \in Int /\ "" \notin TemplateOptions
      BY DEF Word, TemplateOptions
    <2> QED
      BY <1>0, <2>1, <2>2, SetsKeeps
  <1>5. CASE Exit
    BY <1>0, <1>3, <1>5 DEF Exit
  <1>6. ASSUME NEW s \in Switches, Switch(s)
        PROVE  ParamsInv'
    <2>1. Sets(s[2], Word(s[3])) /\ Reads(1) /\ UNCHANGED <<n_threads_http, stage>>
      BY <1>6 DEF Switch
    <2>2. Word(s[3]).num \in Int /\ s[2] \notin TemplateOptions
      BY Unrelated, WordTyped
    <2> QED
      BY <1>0, <2>1, <2>2, SetsKeeps
  <1>7. ASSUME NEW o, Missing(o)
        PROVE  ParamsInv'
    BY <1>3, <1>7 DEF Missing
  <1>8. ASSUME NEW o \in Numbers \cup Words, TakeNumber(o) \/ TakeWord(o)
        PROVE  ParamsInv'
    <2>1. Sets(o, Value) /\ Reads(2) /\ UNCHANGED <<n_threads_http, stage>> /\ Len(argv) > 1
      BY <1>8 DEF TakeNumber, TakeWord, Takes
    <2>2. Value.num \in Int /\ o \notin TemplateOptions
      BY <1>1, <2>1, TokenOf, Unrelated
    <2> QED
      BY <1>0, <2>1, <2>2, SetsKeeps
  <1>9. ASSUME NEW o, RefuseNumber(o) \/ RefuseWord(o)
        PROVE  ParamsInv'
    BY <1>3, <1>9 DEF RefuseNumber, RefuseWord
  <1>10. CASE Special
    BY <1>0, <1>10, TemplateSteps, SpecialSteps DEF Special
  <1>11. CASE Postprocess
    BY <1>0, <1>11, PostprocessKeeps
  <1>12. CASE BadTemplate
    BY <1>3, <1>12 DEF BadTemplate
  <1> QED
    BY <1>0, <1>4, <1>5, <1>6, <1>7, <1>8, <1>9, <1>10, <1>11, <1>12 DEF Parse

LEMMA ParamsInit ==
    ASSUME InitAll
    PROVE  ParamsInv
  <1>1. /\ argv \in CommandLines /\ position = 1 /\ given = <<>> /\ n_threads_http = -1
        /\ stage = "parsing"
    BY DEF InitAll, Init
  <1>2. argv \in Seq(Tokens)
    BY <1>1, ParamsAssumption DEF Tokens
  <1>3. DOMAIN given = {}
    BY <1>1
  <1>4. CustomTemplateNeedsJinja
    BY <1>3 DEF CustomTemplateNeedsJinja, Template, Given
  <1> QED
    BY <1>1, <1>2, <1>3, <1>4 DEF ParamsInv, Ended

(* Beyond the parser nothing is given any more.                            *)
LEMMA BeyondParse ==
    ASSUME [Next]_allVars, ~Parse
    PROVE  /\ UNCHANGED <<argv, position, params>>
           /\ stage' = stage \/ (stage \in {"http server", "starting", "serving"}
                                 /\ stage' \notin {"parsing", "http server"} \cup Ended)
  BY DEF Next, allVars, vars, process, Load, Start, ListenFails, Signal, JoinPool, Request, Return, LoopEnds,
         Handle, Ended

LEMMA ParamsStep ==
    ASSUME ParamsInv, [Next]_allVars
    PROVE  ParamsInv'
  <1>1. CASE Parse
    BY <1>1, ParseStep
  <1>2. CASE ~Parse
    <2>1. /\ UNCHANGED <<argv, position, given, n_threads_http>>
          /\ stage' = stage \/ stage \in {"http server", "starting", "serving"}
      BY <1>2, BeyondParse DEF params
    <2>2. CustomTemplateNeedsJinja'
      BY <2>1, TemplateKept DEF ParamsInv
    <2> QED
      BY <2>1, <2>2 DEF ParamsInv, Ended
  <1> QED
    BY <1>1, <1>2

(***************************************************************************)
(* Whatever the order of the options on a command line of any length, a    *)
(* template that is not built in is only ever rendered by jinja.           *)
(***************************************************************************)
THEOREM TemplatesRendered == Spec => []CustomTemplateNeedsJinja
  <1>1. ParamsInv => CustomTemplateNeedsJinja
    BY DEF ParamsInv
  <1>2. Spec => []ParamsInv
    BY ParamsInit, ParamsStep, PTL DEF Spec
  <1> QED
    BY <1>1, <1>2, PTL

-----------------------------------------------------------------------------
(***************************************************************************)
(* The settings that load() computes.                                      *)
(***************************************************************************)

SettingsInv ==
    /\ ParamsInv
    /\ stage = "parsing" => routes = {}
    /\ SettingsSound

LEMMA DivMod ==
    ASSUME NEW x \in Int, NEW y \in Nat \ {0}
    PROVE  x \div y \in Int /\ x % y \in 0 .. y - 1 /\ x = (y * (x \div y)) + (x % y)
  OBVIOUS

(* The slots divide the context, and none is empty.                        *)
LEMMA SlotsFit ==
    ASSUME NEW ctx \in Nat, NEW n \in Nat \ {0}, n <= ctx
    PROVE  ctx \div n \in Nat /\ ctx \div n >= 1 /\ (ctx \div n) * n <= ctx
  <1> DEFINE d == ctx \div n
             m == ctx % n
  <1>1. d \in Int /\ m \in 0 .. n - 1 /\ ctx = (n * d) + m
    BY DivMod
  <1>2. d \in Nat /\ d >= 1
    <2>1. d >= 1
      BY SMT
    <2> QED
      BY <1>1, <2>1
  <1> HIDE DEF d, m
  <1>3. d * n <= ctx
    BY <1>1, <1>2
  <1> QED
    BY <1>2, <1>3 DEF d

(* A context is a whole number of blocks of CtxPad cells.                  *)
LEMMA ContextSize ==
    ASSUME NEW m \in Models, \A o \in DOMAIN given : given[o].num \in Int, n_ctx >= 0
    PROVE  llm_ctx_size(m) \in Nat /\ llm_ctx_size(m) >= MaxThreads
  <1>1. /\ DefaultCtx \in Nat \ {0} /\ ClipCtx \in Nat \ {0} /\ CtxPad \in Nat \ {0}
        /\ MaxThreads <= CtxPad /\ MaxThreads \in Nat
        /\ m.n_ctx_train \in Nat /\ m.n_ctx_train >= MaxThreads
    BY StartAssumption, ParamsAssumption
  <1>2. n_ctx \in Nat
    BY <1>1 DEF n_ctx, Given
  <1> DEFINE c == n_ctx
             blocks == (c + CtxPad - 1) \div CtxPad
  <1>3. CASE c = 0
    BY <1>1, <1>3 DEF llm_ctx_size
  <1>4. CASE c # 0
    <2> HIDE DEF c
    <2>1. c + CtxPad - 1 \in Nat /\ CtxPad <= c + CtxPad - 1
      BY <1>1, <1>2, <1>4 DEF c
    <2> DEFINE x == c + CtxPad - 1
    <2>2. x \div CtxPad \in Nat /\ x \div CtxPad >= 1
      <3> HIDE DEF x
      <3> QED
        BY <1>1, <2>1, SlotsFit DEF x
    <2>3. blocks \in Nat /\ blocks >= 1
      BY <2>2
    <2> HIDE DEF blocks, x
    <2>4. CtxPad * blocks \in Nat /\ CtxPad * blocks >= CtxPad
      BY <1>1, <2>3
    <2>5. llm_ctx_size(m) = CtxPad * blocks
      BY <1>4 DEF llm_ctx_size, c, blocks
    <2> QED
      BY <1>1, <2>4, <2>5
  <1> QED
    BY <1>3, <1>4

(* What a completion runs with, once its model is loaded.                  *)
LEMMA LoadSound ==
    ASSUME ParamsInv, NEW m \in Models, Load(m)
    PROVE  SettingsSound' \/ UNCHANGED <<settings, routes, n_threads_http>>
  <1>0. /\ \A o \in DOMAIN given : given[o].num \in Int
        /\ stage = "http server" /\ n_threads_http' = n_threads_http
        /\ n_threads_http \in 1 .. MaxThreads /\ MaxThreads \in Nat
    BY ParamsAssumption DEF ParamsInv, Load, params, Ended
  <1>4. n_threads_http \in Nat \ {0} /\ n_threads_http <= MaxThreads /\ MaxThreads \in Nat
    <2>1. n_threads_http \in 1 .. MaxThreads /\ MaxThreads \in Nat
      BY <1>0, Zenon
    <2> QED
      BY <2>1
  <1>5. DefaultCtx \in Int /\ ClipCtx \in Int
    BY StartAssumption
  <1>1. CASE LoadFails(m)
    BY <1>0, <1>1 DEF Load
  <1>2. CASE ~LoadFails(m) /\ (Images \/ ~support_completion(m))
    <2>1. routes' = Routes(m)
      BY <1>2 DEF Load
    <2>2. "/v1/completions" \notin Routes(m)
      BY <1>2 DEF Routes
    <2> QED
      BY <2>1, <2>2 DEF SettingsSound
  <1>3. CASE ~LoadFails(m) /\ ~Images /\ support_completion(m)
    <2> DEFINE ctx  == llm_ctx_size(m)
               slot == ctx \div n_threads_http
    <2>1. /\ settings' = Settings(m)
          /\ settings'.ctx = ctx /\ settings'.slot = slot
          /\ settings'.kv_limit = (IF Given("--kv-unified") THEN ctx ELSE slot) - 1
          /\ settings'.cache_prompt = cache_prompt(m)
          /\ settings'.n_cache_prompts = IF cache_prompt(m) THEN n_threads_http ELSE 0
          /\ settings'.shift_context = shift_context(m)
          /\ settings'.can_shift = m.can_shift
      <3> DEFINE tools  == support_completion(m) /\ support_tool_calls(m)
                 thinks == support_completion(m) /\ support_reasoning(m)
                 shown  == support_completion(m) /\ reasoning_in_content(m)
                 clips  == Given("--mmproj") /\ m.clip_fits
                 caches == cache_prompt(m)
                 shifts == shift_context(m)
                 limit  == (IF Given("--kv-unified") THEN ctx ELSE slot) - 1
      <3>1. settings' = Settings(m)
        BY <1>3 DEF Load
      <3>2. Settings(m) =
                [ctx |-> ctx, slot |-> slot, kv_limit |-> limit,
                 n_cache_prompts |-> IF caches THEN n_threads_http ELSE 0, cache_prompt |-> caches,
                 shift_context |-> shifts, can_shift |-> m.can_shift, clip |-> clips, tool_calls |-> tools,
                 reasoning |-> thinks, in_content |-> shown]
        BY <1>3 DEF Settings
      <3>3. settings' =
                [ctx |-> ctx, slot |-> slot, kv_limit |-> limit,
                 n_cache_prompts |-> IF caches THEN n_threads_http ELSE 0, cache_prompt |-> caches,
                 shift_context |-> shifts, can_shift |-> m.can_shift, clip |-> clips, tool_calls |-> tools,
                 reasoning |-> thinks, in_content |-> shown]
        BY <3>1, <3>2
      <3> DEFINE entries == IF caches THEN n_threads_http ELSE 0
                 moves   == m.can_shift
      <3>4. /\ settings'.ctx = ctx /\ settings'.slot = slot
            /\ settings'.kv_limit = limit
            /\ settings'.cache_prompt = caches
            /\ settings'.n_cache_prompts = entries
            /\ settings'.shift_context = shifts
            /\ settings'.can_shift = moves
        <4> HIDE DEF tools, thinks, shown, clips, caches, shifts, limit, ctx, slot, entries, moves
        <4> QED
          BY <3>3, Zenon DEF entries, moves
      <3> QED
        BY <3>1, <3>4
    <2>2. n_ctx \in Int /\ n_ctx >= 0
      <3> DEFINE asked == IF Given("--ctx-size") THEN given["--ctx-size"].num ELSE DefaultCtx
      <3>1. asked \in Int
        BY <1>0, <1>5 DEF Given
      <3>2. n_ctx = IF Given("--mmproj") /\ asked < ClipCtx THEN ClipCtx ELSE asked
        BY DEF n_ctx
      <3>3. n_ctx \in Int
        <4> HIDE DEF asked
        <4> QED
          BY <1>5, <3>1, <3>2
      <3> QED
        BY <1>3, <3>3 DEF LoadFails
    <2>3. ctx \in Nat /\ ctx >= MaxThreads
      BY <1>0, <2>2, ContextSize
    <2>4. slot \in Nat /\ slot >= 1 /\ slot * n_threads_http <= ctx
      <3> HIDE DEF ctx
      <3>1. n_threads_http \in Nat \ {0} /\ n_threads_http <= ctx
        BY <1>4, <2>3
      <3> QED
        BY <2>3, <3>1, SlotsFit
    <2>5. slot <= ctx
      <3> HIDE DEF ctx, slot
      <3> QED
        BY <1>4, <2>3, <2>4
    <2>6. settings'.kv_limit < settings'.ctx
      <3> HIDE DEF ctx, slot
      <3> QED
        BY <2>1, <2>3, <2>4, <2>5
    <2>7. (cache_prompt(m) => m.can_shift) /\ (shift_context(m) => m.can_shift)
      BY <1>3 DEF cache_prompt, shift_context
    <2> HIDE DEF ctx, slot
    <2> QED
      BY <1>0, <2>1, <2>4, <2>6, <2>7 DEF SettingsSound
  <1> QED
    BY <1>1, <1>2, <1>3

LEMMA SettingsStep ==
    ASSUME SettingsInv, [Next]_allVars
    PROVE  SettingsInv'
  <1>0. ParamsInv /\ ParamsInv'
    BY ParamsStep DEF SettingsInv
  <1>1. CASE Parse
    <2>1. routes = {} /\ routes' = routes
      BY <1>0, <1>1, ParseStep DEF SettingsInv, Next, Load, Start, ListenFails, Signal, JoinPool, Request,
             Return, LoopEnds, Handle, process, allVars
    <2> QED
      BY <1>0, <2>1 DEF SettingsInv, SettingsSound
  <1>2. CASE ~Parse
    <2>1. /\ n_threads_http' = n_threads_http
          /\ stage' = "parsing" => stage = "parsing"
      BY <1>2, BeyondParse DEF params
    <2>2. CASE UNCHANGED <<settings, routes>>
      BY <1>0, <2>1, <2>2 DEF SettingsInv, SettingsSound
    <2>3. ASSUME NEW m \in Models, Load(m), ~UNCHANGED <<settings, routes>>
          PROVE  SettingsInv'
      <3>1. SettingsSound'
        BY <1>0, <2>3, LoadSound
      <3>2. stage # "parsing"
        BY <2>3 DEF Load
      <3> QED
        BY <1>0, <2>1, <3>1, <3>2 DEF SettingsInv
    <2> QED
      BY <1>2, <2>2, <2>3 DEF Next, allVars, process, Start, ListenFails, Signal, JoinPool, Request, Return,
             LoopEnds, Handle
  <1> QED
    BY <1>1, <1>2

(***************************************************************************)
(* Whatever the options, their order and the model, completions run with   *)
(* settings that the scheduler can rely on.                                *)
(***************************************************************************)
THEOREM SettingsAreSound == Spec => []SettingsSound
  <1>1. InitAll => SettingsInv
    BY ParamsInit DEF InitAll, SettingsInv, SettingsSound
  <1>2. SettingsInv => SettingsSound
    BY DEF SettingsInv
  <1>3. Spec => []SettingsInv
    BY <1>1, SettingsStep, PTL DEF Spec
  <1> QED
    BY <1>2, <1>3, PTL

-----------------------------------------------------------------------------
(***************************************************************************)
(* The threads of the pool.                                                *)
(***************************************************************************)

Numbered == {t \in DOMAIN ids : ids[t] # -1}

(* The numbers are given out from 0, each once, and not to the thread that *)
(* reconcile_loop keeps.                                                   *)
Pool ==
    /\ ids \in [Threads -> Int] /\ DOMAIN serving = Threads
    /\ \A t \in Threads : ids[t] < n_threads_http
    /\ ids[0] = -1 /\ serving[0] \in {"reconcile", "ended"}
    /\ \A t, u \in Numbered : ids[t] = ids[u] => t = u
    /\ \E k \in Nat : Used = 0 .. k - 1

PoolInv ==
    /\ ParamsInv
    /\ \/ ids = <<>> /\ serving = <<>>
       \/ stage \notin {"parsing"} \cup Ended /\ Pool

(* One thread is left to reconcile_loop and one is asking: the numbers     *)
(* that are taken are fewer than n_threads_http.                           *)
LEMMA NextNumber ==
    ASSUME Pool, n_threads_http \in Nat \ {0}, NEW t \in Threads, t # 0, ids[t] = -1
    PROVE  /\ Cardinality(Used) \in Nat /\ Cardinality(Used) < n_threads_http
           /\ Used = 0 .. Cardinality(Used) - 1
  <1>1. PICK k \in Nat : Used = 0 .. k - 1
    BY DEF Pool
  <1>2. IsFiniteSet(Used) /\ Cardinality(Used) = k
    BY <1>1, FS_Interval
  <1> DEFINE others == (1 .. n_threads_http) \ {t}
  <1>3. IsFiniteSet(others) /\ Cardinality(others) = n_threads_http - 1
    <2>1. IsFiniteSet(1 .. n_threads_http) /\ Cardinality(1 .. n_threads_http) = n_threads_http
      BY FS_Interval
    <2>2. t \in 1 .. n_threads_http
      BY DEF Threads
    <2> QED
      BY <2>1, <2>2, FS_RemoveElement
  <1>4. Numbered \subseteq others
    BY DEF Numbered, Pool, Threads
  <1>5. IsFiniteSet(Numbered) /\ Cardinality(Numbered) <= n_threads_http - 1
    <2> HIDE DEF others
    <2> QED
      BY <1>3, <1>4, FS_Subset
  <1> DEFINE number == [u \in Numbered |-> ids[u]]
  <1>6. number \in Surjection(Numbered, Used)
    BY DEF Numbered, Used, Surjection
  <1>7. Cardinality(Used) <= Cardinality(Numbered)
    <2> HIDE DEF number
    <2> QED
      BY <1>5, <1>6, FS_Surjection
  <1>8. Cardinality(Numbered) \in Nat
    BY <1>5, FS_CardinalityType
  <1> QED
    BY <1>1, <1>2, <1>5, <1>7, <1>8

(* The threads that already have a number keep it.                         *)
LEMMA HandleKeeps ==
    ASSUME Pool, n_threads_http \in Nat \ {0}, NEW t, NEW c, Handle(t, c)
    PROVE  Pool'
  <1> DEFINE new == IF c[2] \in Inference /\ ids[t] = -1 THEN Cardinality(Used) ELSE ids[t]
  <1>1. /\ DOMAIN ids = Threads /\ DOMAIN serving = Threads
        /\ ids \in [Threads -> Int] /\ \A u \in Threads : ids[u] \in Int /\ ids[u] < n_threads_http
        /\ ids[0] = -1 /\ serving[0] \in {"reconcile", "ended"}
        /\ 0 \in Threads
    BY DEF Pool, Threads
  <1>2. /\ t \in Threads /\ t # 0
        /\ serving' = [serving EXCEPT ![t] = c[2]]
        /\ ids' = [ids EXCEPT ![t] = new]
        /\ n_threads_http' = n_threads_http /\ Threads' = Threads
    BY <1>1 DEF Handle, vars, params, Threads
  <1>3. CASE new = ids[t]
    <2>1. ids' = ids
      <3> HIDE DEF new
      <3> QED
        BY <1>1, <1>2, <1>3
    <2>2. Used' = Used /\ Numbered' = Numbered
      BY <2>1 DEF Used, Numbered
    <2>3. DOMAIN serving' = Threads /\ serving'[0] = serving[0]
      BY <1>1, <1>2
    <2> QED
      BY <1>1, <1>2, <2>1, <2>2, <2>3 DEF Pool
  <1>4. CASE new # ids[t]
    <2>1. ids[t] = -1 /\ new = Cardinality(Used)
      BY <1>4
    <2>2. new \in Nat /\ new < n_threads_http /\ Used = 0 .. new - 1
      BY <1>2, <2>1, NextNumber
    <2> HIDE DEF new
    <2>3. /\ ids' \in [Threads -> Int] /\ DOMAIN ids' = Threads /\ ids'[t] = new
          /\ \A u \in Threads \ {t} : ids'[u] = ids[u]
          /\ DOMAIN serving' = Threads /\ serving'[0] = serving[0]
      BY <1>1, <1>2, <2>2
    <2>4. \A u \in Threads : ids'[u] \in Int /\ ids'[u] < n_threads_http
      BY <1>1, <2>2, <2>3
    <2>5. Numbered' = Numbered \cup {t}
      BY <1>1, <1>2, <2>2, <2>3 DEF Numbered
    <2>6. \A u \in Numbered : u # t /\ ids'[u] = ids[u] /\ ids[u] \in Used
      BY <1>1, <2>1, <2>3 DEF Numbered, Used
    <2>7. new \notin Used
      BY <2>2
    <2>8. \A u, v \in Numbered' : ids'[u] = ids'[v] => u = v
      BY <2>3, <2>5, <2>6, <2>7 DEF Pool
    <2>9. Used' = 0 .. (new + 1) - 1
      <3>1. Used' = Used \cup {new}
        <4>1. ASSUME NEW i \in Used'
              PROVE  i \in Used \cup {new}
          <5>1. PICK u \in Threads : i = ids'[u] /\ i # -1
            BY <2>3 DEF Used
          <5> QED
            BY <1>1, <2>3, <5>1 DEF Used
        <4>2. ASSUME NEW i \in Used
              PROVE  i \in Used'
          <5>1. PICK u \in Threads : i = ids[u] /\ i # -1
            BY <1>1 DEF Used
          <5>2. u # t
            BY <2>1, <5>1
          <5> QED
            BY <2>3, <5>1, <5>2 DEF Used
        <4>3. new \in Used'
          BY <1>2, <2>2, <2>3 DEF Used
        <4> QED
          BY <4>1, <4>2, <4>3
      <3> QED
        BY <2>2, <3>1
    <2>10. \E k \in Nat : Used' = 0 .. k - 1
      BY <2>2, <2>9
    <2> QED
      BY <1>1, <1>2, <2>3, <2>4, <2>8, <2>10 DEF Pool
  <1> QED
    BY <1>3, <1>4

LEMMA PoolStep ==
    ASSUME PoolInv, [Next]_allVars
    PROVE  PoolInv'
  <1>0. ParamsInv /\ ParamsInv'
    BY ParamsStep DEF PoolInv
  <1>1. CASE Parse
    <2>1. ids = <<>> /\ serving = <<>>
      BY <1>0, <1>1, ParseStep DEF PoolInv
    <2>2. UNCHANGED <<ids, serving>>
      BY <1>0, <1>1, ParseStep DEF Next, Load, Start, ListenFails, Signal, JoinPool, Request, Return, LoopEnds,
             Handle, process, allVars
    <2> QED
      BY <1>0, <2>1, <2>2 DEF PoolInv
  <1>2. CASE ~Parse
    <2>1. /\ n_threads_http' = n_threads_http
          /\ stage \notin {"parsing"} \cup Ended => stage' \notin {"parsing"} \cup Ended
      BY <1>2, BeyondParse DEF params, Ended
    <2>2. CASE UNCHANGED <<ids, serving>>
      <3>1. Threads' = Threads /\ Used' = Used /\ Numbered' = Numbered
        BY <2>1, <2>2 DEF Threads, Used, Numbered
      <3>2. Pool => Pool'
        BY <2>1, <2>2, <3>1 DEF Pool
      <3> QED
        BY <1>0, <2>1, <2>2, <3>2 DEF PoolInv
    <2>3. CASE Start
      <3>1. stage' \notin {"parsing"} \cup Ended
        BY <2>3 DEF Start, Ended
      <3>2. n_threads_http \in Nat \ {0}
        <4>1. n_threads_http' \in 1 .. MaxThreads
          BY <1>0, <3>1 DEF ParamsInv
        <4> QED
          BY <2>1, <4>1, ParamsAssumption
      <3>3. /\ Threads' = Threads /\ 0 \in Threads
            /\ serving' = [t \in Threads |-> IF t = 0 THEN "reconcile" ELSE "idle"]
            /\ ids' = [t \in Threads |-> -1]
        BY <2>1, <2>3, <3>2 DEF Start, Threads
      <3>4. Used' = 0 .. 0 - 1 /\ Numbered' = {}
        BY <3>3 DEF Used, Numbered
      <3>5. \E k \in Nat : Used' = 0 .. k - 1
        BY <3>4
      <3>6. Pool'
        BY <2>1, <3>2, <3>3, <3>4, <3>5 DEF Pool
      <3> QED
        BY <1>0, <3>1, <3>6 DEF PoolInv
    <2>4. ASSUME NEW t \in DOMAIN serving, Return(t) \/ LoopEnds(t) \/ \E c \in waiting : Handle(t, c)
          PROVE  PoolInv'
      <3>1. stage \notin {"parsing"} \cup Ended /\ Pool
        <4>1. t \in DOMAIN serving
          BY <2>4
        <4>2. DOMAIN <<>> = {}
          OBVIOUS
        <4> QED
          BY <4>1, <4>2 DEF PoolInv
      <3>2. n_threads_http \in Nat \ {0}
        <4>1. n_threads_http \in 1 .. MaxThreads
          BY <1>0, <3>1 DEF ParamsInv
        <4> QED
          BY <4>1, ParamsAssumption
      <3>3. CASE Return(t) \/ LoopEnds(t)
        <4>1. ids' = ids /\ Threads' = Threads /\ Used' = Used /\ Numbered' = Numbered
          BY <2>1, <3>3 DEF Return, LoopEnds, Threads, Used, Numbered
        <4>2. DOMAIN serving' = DOMAIN serving /\ serving'[0] \in {"reconcile", "ended"}
          <5>1. PICK how \in {"idle", "ended"} :
                    /\ serving' = [serving EXCEPT ![t] = how]
                    /\ how = "idle" => serving[t] \in Endpoints
            BY <3>3 DEF Return, LoopEnds
          <5>2. how = "idle" => t # 0
            BY <3>1, <5>1 DEF Pool, Endpoints
          <5>3. 0 \in DOMAIN serving /\ serving[0] \in {"reconcile", "ended"}
            BY <3>1, <3>2 DEF Pool, Threads
          <5> QED
            BY <5>1, <5>2, <5>3
        <4>3. Pool'
          BY <2>1, <3>1, <4>1, <4>2 DEF Pool
        <4> QED
          BY <1>0, <2>1, <3>1, <4>3 DEF PoolInv
      <3>4. ASSUME NEW c \in waiting, Handle(t, c)
            PROVE  PoolInv'
        <4>1. Pool'
          BY <3>1, <3>2, <3>4, HandleKeeps
        <4> QED
          BY <1>0, <2>1, <3>1, <4>1 DEF PoolInv
      <3> QED
        BY <2>4, <3>3, <3>4
    <2> QED
      BY <1>2, <2>2, <2>3, <2>4 DEF Next, allVars, process, Load, ListenFails, Signal, JoinPool, Request
  <1> QED
    BY <1>1, <1>2

(***************************************************************************)
(* However large the pool is made, and whichever threads take the          *)
(* requests, each handler that asks for a number gets one of its own that  *)
(* process_task_results has a place for.                                   *)
(***************************************************************************)
THEOREM NumbersAreOwn == Spec => []ThreadsNumbered
  <1>1. InitAll => PoolInv
    BY ParamsInit DEF InitAll, PoolInv
  <1>2. PoolInv => ThreadsNumbered
    <2>1. CASE ids = <<>>
      BY <2>1 DEF ThreadsNumbered
    <2>2. CASE Pool
      BY <2>2 DEF Pool, ThreadsNumbered, Numbered
    <2> QED
      BY <2>1, <2>2 DEF PoolInv
  <1>3. Spec => []PoolInv
    BY <1>1, PoolStep, PTL DEF Spec
  <1> QED
    BY <1>2, <1>3, PTL
=============================================================================
