-------------------------- MODULE MCGeneratedText --------------------------
(***************************************************************************)
(* GeneratedText on small instances: plain text with a stop word and a     *)
(* character of two bytes, reasoning by token and by word, and the ways to *)
(* find tool calls.                                                        *)
(***************************************************************************)
EXTENDS GeneratedText, TLC

SmallPieces ==
    ("a" :> <<"a">>) @@ ("lead" :> <<"lead">>) @@ ("cont" :> <<"cont">>) @@ ("sp" :> <<"sp">>) @@
    ("s" :> <<"s">>) @@ ("st" :> <<"s", "t">>) @@ ("ta" :> <<"t", "a">>) @@ ("eog" :> <<>>) @@
    ("think" :> <<"<think>">>) @@ ("/think" :> <<"</think>">>) @@
    ("(" :> <<"(">>) @@ ("[" :> <<"[">>) @@ ("([" :> <<"(", "[">>) @@ ("([a" :> <<"(", "[", "a">>) @@ ("]" :> <<"]">>) @@ (")" :> <<")">>) @@
    ("<tool_call>" :> <<"<tool_call>">>) @@ ("</tool_call>" :> <<"</tool_call>">>) @@
    ("<function=f" :> <<"<function=", "f">>) @@ ("</function>" :> <<"</function>">>) @@
    ("<|tool_call>" :> <<"<|tool_call>">>) @@ ("<tool_call|>" :> <<"<tool_call|>">>) @@ ("ctl" :> <<>>) @@
    ("<tool>" :> <<"<tool>">>) @@ ("f" :> <<"f">>) @@ ("</tool>" :> <<"</tool>">>)

SmallStart == <<"(", "[">>
SmallEnd   == <<"]", ")">>
SmallCall  == <<"f">>
SmallSpaces == {"sp"}

Answer == [chat |-> TRUE, stream |-> TRUE, reasoning |-> "none", prefilled |-> FALSE, in_content |-> FALSE,
           tools |-> "none", start |-> "word", end |-> "word", fast |-> TRUE, stop |-> <<>>, drafted |-> 1,
           tokens |-> {"a", "lead", "cont", "s", "st", "ta", "eog"}]

PlainModes ==
    {[Answer EXCEPT !.chat = c, !.stream = s, !.stop = <<<<"s", "t">>>>] : c, s \in BOOLEAN}

TokenModes ==
    {[Answer EXCEPT !.stream = s, !.reasoning = "token", !.prefilled = p, !.drafted = 2, !.tokens = {"a", "sp", "think", "/think", "eog"}]
        : s, p \in BOOLEAN}

(* A control token, whose piece is empty, behind the reasoning.            *)
ControlModes ==
    {[Answer EXCEPT !.stream = s, !.reasoning = "token", !.prefilled = TRUE, !.drafted = 2, !.tokens = {"a", "sp", "ctl", "/think"}]
        : s \in BOOLEAN}

WordModes ==
    {[Answer EXCEPT !.stream = s, !.reasoning = "word", !.drafted = d, !.tokens = {"a", "(", "([", "]", ")", "eog"}]
        : s \in BOOLEAN, d \in 0 .. 1}

(* Reasoning that may be cut inside a character or by a stop word.         *)
CutModes ==
    {[Answer EXCEPT !.stream = s, !.reasoning = "token", !.prefilled = TRUE, !.stop = <<<<"cont", "a">>>>,
                    !.tokens = {"a", "lead", "cont", "/think", "sp"}] : s \in BOOLEAN}
    \cup {[Answer EXCEPT !.stream = FALSE, !.reasoning = "word", !.prefilled = p, !.stop = w, !.drafted = 0,
                         !.tokens = {"a", "lead", "([", "([a", "]", ")"}] : p \in BOOLEAN, w \in {<<>>, <<<<"a", "]">>>>}}

InContentModes == {[m EXCEPT !.in_content = TRUE, !.drafted = Min({@, 1})] : m \in TokenModes \cup WordModes}

CallTokens ==
    [xml   |-> {"<tool_call>", "<function=f", "</function>", "</tool_call>"},
     json  |-> {"<tool_call>", "f", "</tool_call>"},
     gemma |-> {"<|tool_call>", "f", "<tool_call|>"}]

(* Models with templates of their own.                                     *)
JinjaModes ==
    LET calls(w) == [Answer EXCEPT !.tools = w, !.tokens = {"a", "eog"} \cup CallTokens[w]]
    IN  {[calls(w) EXCEPT !.stream = s, !.fast = f, !.drafted = d]
            : w \in DOMAIN Envelopes, s, f \in BOOLEAN, d \in 0 .. 1}
        \cup {[calls("gemma") EXCEPT !.stream = s, !.reasoning = "token", !.prefilled = TRUE, !.drafted = 0,
                                     !.tokens = @ \cup {"/think"}] : s \in BOOLEAN}

(* The known templates, their markers being tokens or not.                 *)
FormatModes ==
    LET calls == [Answer EXCEPT !.tokens = {"a", "<tool>", "f", "</tool>", "eog"}]
    IN  {[calls EXCEPT !.tools = w, !.stream = s, !.start = b, !.end = e, !.drafted = d]
            : w \in DOMAIN Formats \ {"llama3"}, s \in BOOLEAN, b, e \in {"token", "word"}, d \in 0 .. 1}
        \cup {[calls EXCEPT !.tools = "llama3", !.stream = s, !.drafted = d] : s \in BOOLEAN, d \in 0 .. 1}

ToolModes == JinjaModes \cup FormatModes

SmallModes == PlainModes \cup CutModes \cup TokenModes \cup ControlModes \cup WordModes \cup InContentModes \cup ToolModes
=============================================================================
