--------------------------- MODULE GeneratedText ---------------------------
(***************************************************************************)
(* From sampled tokens to what a client is sent: the "postprocess" part of *)
(* a decode round in httpserver::reconcile and completions_task::to_json,  *)
(* for one request.                                                        *)
(*                                                                         *)
(* A text is a sequence of symbols.  "lead" is the first byte of a         *)
(* character of two bytes, a marker that the vocabulary holds as one token *)
(* is one symbol, and a call that can be parsed is Call.  A round samples  *)
(* one token, or several that a draft brought along.                       *)
(***************************************************************************)
EXTENDS Integers, Sequences, FiniteSets, SequencesExt, FiniteSetsExt

CONSTANTS
    Modes,      \* the requests, and the models that serve them
    Piece,      \* the text of each token
    StartWord,  \* the words around reasoning, of models without tokens for them
    EndWord,
    Spaces,     \* the symbols that are whitespace
    Call,       \* the inside of a tool call that can be parsed
    Budget      \* n_decoding_budget of a request

Npos == -1
Symbols == UNION {{Piece[p][k] : k \in DOMAIN Piece[p]} : p \in DOMAIN Piece}

(* get_position_of_utf8: the last character is not cut.                    *)
Whole(text) == text = <<>> \/ Last(text) # "lead"

(* A string, or a list of strings.                                         *)
IsText(text) == text \in Seq(ToSet(text))

(* What models with a template of their own (jinja) write for a call; in   *)
(* XML more may come before it.                                            *)
Envelopes ==
    [xml   |-> <<"<function=">> \o Call \o <<"</function>", "</tool_call>">>,
     json  |-> <<"<tool_call>">> \o Call \o <<"</tool_call>">>,
     gemma |-> <<"<|tool_call>">> \o Call \o <<"<tool_call|>">>]

(* What the others write, and for each known template whether the markers  *)
(* are trimmed, and the text its parser takes; the closing marker of some  *)
(* is the end of the JSON itself.                                          *)
Marked == <<"<tool>">> \o Call \o <<"</tool>">>

Formats ==
    [chatml    |-> [trim |-> TRUE,  trim_end |-> TRUE,  json |-> TRUE,  parsed |-> Call],
     mistral   |-> [trim |-> TRUE,  trim_end |-> TRUE,  json |-> TRUE,  parsed |-> Call \o <<"</tool>">>],
     llama3    |-> [trim |-> FALSE, trim_end |-> FALSE, json |-> TRUE,  parsed |-> Marked],
     granite   |-> [trim |-> TRUE,  trim_end |-> FALSE, json |-> TRUE,  parsed |-> Call \o <<"</tool>">>],
     deepseek3 |-> [trim |-> TRUE,  trim_end |-> TRUE,  json |-> FALSE, parsed |-> Call]]

ASSUME TextAssumption ==
    /\ \A p \in DOMAIN Piece : IsText(Piece[p])
    /\ Budget \in Nat
    /\ \A word \in {StartWord, EndWord} : IsText(word) /\ word # <<>> /\ Whole(word)
    /\ \A m \in Modes :
        /\ DOMAIN m = {"chat", "stream", "reasoning", "prefilled", "in_content", "tools", "start", "end",
                       "fast", "stop", "drafted", "tokens"}
        /\ m.reasoning \in {"none", "token", "word"} /\ m.tools \in {"none"} \cup DOMAIN Envelopes \cup DOMAIN Formats
        /\ {m.start, m.end} \subseteq {"token", "word"} /\ (m.tools = "llama3" => m.start = "word" /\ m.end = "word")
        /\ m.in_content \/ m.prefilled => m.reasoning # "none"
        /\ ~m.chat => m.tools = "none" /\ ~m.prefilled
        /\ m.tools \in DOMAIN Formats => m.fast
        /\ {m.chat, m.stream, m.prefilled, m.in_content, m.fast} \subseteq BOOLEAN
        /\ m.drafted \in Nat /\ m.tokens \subseteq DOMAIN Piece
        /\ IsText(m.stop) /\ \A k \in DOMAIN m.stop : IsText(m.stop[k])

VARIABLES
    mode,     \* of the request
    task,     \* what completions_task keeps of its text
    client,   \* what the client was sent, and the pieces of the last round
    sampled   \* every token so far

vars == <<mode, task, client, sampled>>

(* Positions count from 0, as those of std::string.                        *)
Starts(text, word) == {p \in 0 .. Len(text) - Len(word) : SubSeq(text, p + 1, p + Len(word)) = word}

FindFrom(text, word, from) ==
    LET found == {p \in Starts(text, word) : p >= from} IN IF from < 0 \/ found = {} THEN Npos ELSE Min(found)

Find(text, word)  == FindFrom(text, word, 0)
RFind(text, word) == IF Starts(text, word) = {} THEN Npos ELSE Max(Starts(text, word))

SubStr(text, pos, n) == SubSeq(text, pos + 1, Min({pos + n, Len(text)}))
Erase(text, pos, n)  == SubSeq(text, 1, pos) \o SubStr(text, pos + n, Len(text))

IsSpace(piece) == piece # <<>> /\ ToSet(piece) \subseteq Spaces

-----------------------------------------------------------------------------
NewTask(m) ==
    [todo           |-> <<>>,   \* processed_tokens from n_processed_detokenized on
     round          |-> 0,      \* n_decoded, of which only changes matter
     budget         |-> Budget,
     text           |-> <<>>,   \* generated_text
     offsets        |-> <<>>,   \* stream_token_offsets
     keep           |-> Npos,   \* generated_text_keep_pos
     reasoning_text |-> <<>>,
     started        |-> m.prefilled, ended |-> FALSE, reasoned |-> m.reasoning = "none",
     pending        |-> FALSE, end_round |-> -1,   \* reasoning_transition_filter
     tool_started   |-> FALSE,
     calls          |-> 0,      \* generated_tool_calls
     finish         |-> "",     \* generated_finish_reason
     \* the locals of a round
     new            |-> <<>>, eog |-> FALSE, halted |-> FALSE, send |-> FALSE]

Init ==
    /\ mode \in Modes
    /\ task = NewTask(mode)
    /\ client = [content |-> <<>>, reasoning |-> <<>>, calls |-> 0, finish |-> "", chunks |-> <<>>]
    /\ sampled = <<>>

-----------------------------------------------------------------------------
(* Tokens become text.                                                     *)

Cleared(t) == [t EXCEPT !.text = <<>>, !.offsets = <<>>]

(* A piece that is empty, as that of a control token, has no offset.       *)
Emit(t, piece) ==
    IF piece = <<>> THEN t
    ELSE [t EXCEPT !.text = @ \o piece, !.new = @ \o piece, !.offsets = Append(@, Len(t.text) + Len(piece))]

(* Mutant: what follows is taken at once.                                  *)
AfterReasoning_SameRound(t, tok) ==
    IF t.pending /\ IsSpace(Piece[tok]) THEN t
    ELSE LET keeps == ~mode.stream /\ ~mode.in_content
         IN  Emit([Cleared(t) EXCEPT !.pending = FALSE, !.reasoned = TRUE,
                                     !.reasoning_text = IF keeps THEN t.text ELSE @], Piece[tok])

(* Whitespace after the reasoning is dropped, and what follows waits for   *)
(* the next round, so that it is not sent as reasoning.                    *)
AfterReasoning(t, tok) ==
    IF t.pending /\ IsSpace(Piece[tok]) THEN t
    ELSE IF t.pending /\ t.end_round = t.round THEN [t EXCEPT !.halted = TRUE, !.todo = Append(@, tok)]
    ELSE LET keeps == ~mode.stream /\ ~mode.in_content
         IN  Emit([Cleared(t) EXCEPT !.pending = FALSE, !.reasoned = TRUE,
                                     !.reasoning_text = IF keeps THEN t.text ELSE @], Piece[tok])

StartsByToken(t, tok) ==
    IF tok # "think" THEN Emit([t EXCEPT !.reasoned = TRUE], Piece[tok])
    ELSE IF mode.in_content THEN Emit([t EXCEPT !.started = TRUE], Piece[tok])
    ELSE [t EXCEPT !.started = TRUE]

EndsByToken(t, tok) ==
    IF tok # "/think" THEN Emit(t, Piece[tok])
    ELSE IF mode.in_content THEN Emit([t EXCEPT !.ended = TRUE], Piece[tok])
    ELSE [t EXCEPT !.ended = TRUE, !.pending = TRUE, !.end_round = t.round]

(* Nothing after the end of the generation counts.                         *)
Detokenize(t, tok) ==
    IF t.eog THEN t
    ELSE IF t.halted THEN [t EXCEPT !.todo = Append(@, tok)]
    ELSE IF tok = "eog" THEN [t EXCEPT !.eog = TRUE]
    ELSE IF t.reasoned THEN Emit(t, Piece[tok])
    ELSE IF t.ended THEN AfterReasoning(t, tok)
    ELSE IF mode.reasoning = "word" THEN Emit(t, Piece[tok])
    ELSE IF t.started THEN EndsByToken(t, tok)
    ELSE StartsByToken(t, tok)

Detokenized(t, batch) ==
    LET tokens == t.todo \o batch
        begun  == [t EXCEPT !.round = @ + 1, !.budget = @ - Len(batch), !.todo = <<>>, !.new = <<>>, !.halted = FALSE]
        after[k \in 0 .. Len(tokens)] == IF k = 0 THEN begun ELSE Detokenize(after[k - 1], tokens[k])
        done   == after[Len(tokens)]
    IN  [done EXCEPT !.send = Whole(done.text)]

-----------------------------------------------------------------------------
(* Stop words, reasoning between words, tool calls: only looked for when   *)
(* the last character is whole.                                            *)

(* From where this round's text begins; size_t wraps if it was cleared.    *)
StopAt(t, word) == FindFrom(t.text, word, Len(t.text) - Len(t.new))

(* The stop words that are found, by their place in the list.              *)
StopsAt(t) == {k \in DOMAIN mode.stop : StopAt(t, mode.stop[k]) # Npos}

(* Mutant: the whole text is kept.                                         *)
Stopped_KeepsWord(t) ==
    IF StopsAt(t) = {} THEN t ELSE [t EXCEPT !.finish = "stop", !.keep = Len(t.text)]

(* The first of the list counts, not the first of the text.                *)
Stopped(t) ==
    IF StopsAt(t) = {} THEN t
    ELSE [t EXCEPT !.finish = "stop", !.keep = StopAt(t, mode.stop[Min(StopsAt(t))])]

StartsByWord(t) ==
    IF IsPrefix(StartWord, t.text)
    THEN [(IF mode.in_content THEN t ELSE Cleared(t)) EXCEPT !.started = TRUE]
    ELSE IF Len(t.text) > Len(StartWord) THEN [t EXCEPT !.reasoned = TRUE]
    ELSE [t EXCEPT !.send = FALSE]

EndsByWord(t) ==
    LET end   == Find(t.text, EndWord)
        after == SubStr(t.text, end + Len(EndWord), Len(t.text))
    IN  IF end = Npos THEN [t EXCEPT !.send = Find(EndWord, t.new) = Npos]
        ELSE IF mode.in_content THEN [t EXCEPT !.ended = TRUE]
        ELSE IF mode.stream
        THEN [t EXCEPT !.ended = TRUE, !.reasoned = TRUE, !.keep = 0, !.text = after, !.offsets = <<>>]
        ELSE [t EXCEPT !.ended = TRUE, !.reasoned = TRUE, !.reasoning_text = SubStr(t.text, 0, end), !.text = after]

ReasonedByWord(t) ==
    IF mode.reasoning # "word" \/ t.reasoned THEN t
    ELSE IF ~t.started THEN StartsByWord(t)
    ELSE IF ~t.ended THEN EndsByWord(t)
    ELSE t

Has(text, symbol) == symbol \in ToSet(text)

(* Mutant: the text is parsed again in the next round.                     *)
Called_Kept(t, n) ==
    [t EXCEPT !.calls = @ + n, !.keep = Npos, !.finish = IF mode.fast THEN "tool_calls" ELSE @]

(* The calls are reported, and the rest of the text is eaten.              *)
Called(t, n) ==
    [Cleared(t) EXCEPT !.calls = @ + n, !.keep = Npos, !.finish = IF mode.fast THEN "tool_calls" ELSE @]

Opening == {"<tool_call>", "<function=", "<|tool_call>"}

(* An XML call is closed by both of its tags, the opening of the outer one *)
(* may be missing; so one of JSON never counts as complete.                *)
Complete(text) ==
    \/ Has(text, "<tool_call|>")
    \/ {"</tool_call>", "<function=", "</function>"} \subseteq ToSet(text)

(* Mutant: only a complete envelope is held back.                          *)
ByJinja_Complete(t) ==
    LET held  == [t EXCEPT !.send = FALSE]
        calls == Cardinality(Starts(t.text, Envelopes[mode.tools]))
    IN  IF ToSet(t.text) \cap Opening = {} \/ ~Complete(t.text) THEN {t}
        ELSE IF calls > 0 THEN {Called(held, calls)}
        ELSE {held, [t EXCEPT !.keep = 0]}

(* From an opening tag on the text is held back, and parsed once it is     *)
(* complete; the parser may find nothing or throw.                         *)
ByJinja(t) ==
    LET held  == [t EXCEPT !.send = FALSE]
        calls == Cardinality(Starts(t.text, Envelopes[mode.tools]))
    IN  IF ToSet(t.text) \cap Opening = {} THEN {t}
        ELSE IF ~Complete(t.text) THEN {held}
        ELSE IF calls > 0 THEN {Called(held, calls)}
        ELSE {held, [t EXCEPT !.keep = 0]}

(* The start word is erased with as many more symbols as come before it.   *)
Trimmed(t, at) == [t EXCEPT !.keep = at, !.text = Erase(@, at, at + 1), !.offsets = <<>>]

(* Where the start words are tokens, only these count, of all that were    *)
(* sampled; the text is searched for the word only to trim it.             *)
StartsCall(t, tokens) ==
    LET at    == Find(t.text, <<"<tool>">>)
        begun == [t EXCEPT !.tool_started = TRUE]
        trim  == Formats[mode.tools].trim
    IN  IF mode.start = "token"
        THEN IF ~Has(tokens, "<tool>") THEN t
             ELSE IF trim /\ t.new # <<>> /\ at # Npos THEN Trimmed(begun, at)
             ELSE begun
        ELSE IF Len(t.text) <= 2 THEN [t EXCEPT !.send = FALSE]
        ELSE IF at = Npos THEN t
        ELSE IF trim THEN Trimmed(begun, at)
        ELSE [begun EXCEPT !.keep = at]

(* Between the markers; with words, as many symbols as come before the     *)
(* closing one, wherever the call begins.                                  *)
Functions(t, tokens) ==
    LET from == IF t.keep = Npos THEN 0 ELSE t.keep
        trim == Formats[mode.tools].trim_end
        end  == RFind(t.text, <<"</tool>">>)
        body == SubStr(t.text, from, Len(t.text))
        last == RFind(body, <<"</tool>">>)
    IN  IF mode.end = "token"
        THEN IF ~Has(tokens, "</tool>") THEN <<>>
             ELSE IF trim /\ last # Npos THEN SubStr(body, 0, last)
             ELSE body
        ELSE IF end = Npos THEN <<>>
        ELSE SubStr(t.text, from, IF trim THEN end ELSE end + 1)

(* A JSON that does not parse is shown; of other text the calls are taken  *)
(* that are there, and if there is none nothing changes.                   *)
EndsCall(t, tokens) ==
    LET held   == [t EXCEPT !.send = FALSE]
        body   == Functions(t, tokens)
        format == Formats[mode.tools]
        calls  == IF format.json THEN 1 ELSE Cardinality(Starts(body, format.parsed))
    IN  IF body = <<>> THEN held
        ELSE IF format.json /\ body # format.parsed THEN [held EXCEPT !.keep = 0]
        ELSE IF t.calls + calls > 0 THEN Called(held, calls)
        ELSE held

(* The outcomes of a round's tool calls.                                   *)
ToolCalls(t, tokens) ==
    IF mode.tools = "none" \/ ~t.reasoned THEN {t}
    ELSE IF mode.tools \in DOMAIN Envelopes THEN ByJinja(t)
    ELSE IF t.tool_started THEN {EndsCall(t, tokens)}
    ELSE {StartsCall(t, tokens)}

Finished(t) ==
    LET kept == [t EXCEPT !.keep = Len(t.text)]
    IN  IF t.finish # "" THEN t
        ELSE IF t.eog THEN [kept EXCEPT !.finish = IF t.calls = 0 THEN "stop" ELSE "tool_calls"]
        ELSE IF t.budget <= 0 THEN [kept EXCEPT !.finish = "length"]
        ELSE t

-----------------------------------------------------------------------------
(* What is sent; a response is made of the task, and changes it.           *)

(* A length is given for the text of one token.                            *)
KeptBy(t, length) ==
    LET end == Min({length, Len(t.text)})
    IN  IF length > 0 /\ (t.keep = Npos \/ end < t.keep) THEN end ELSE t.keep

to_json(s, length) ==
    LET t       == s.task
        keep    == KeptBy(t, length)
        sends   == IF keep = Npos THEN t.text ELSE SubStr(t.text, 0, keep)
        reasons == mode.chat /\ ~mode.in_content /\ ~t.reasoned
        left    == IF keep = Npos THEN <<>> ELSE SubStr(t.text, Len(sends), Len(t.text))
    IN  [task   |-> [t EXCEPT !.text = IF mode.stream THEN left ELSE @,
                              !.calls = IF mode.stream THEN 0 ELSE @,
                              !.keep = Npos],
         client |-> [content   |-> s.client.content \o (IF reasons THEN <<>> ELSE sends),
                     reasoning |-> s.client.reasoning \o (IF reasons THEN sends
                                                          ELSE IF mode.chat THEN t.reasoning_text ELSE <<>>),
                     calls     |-> s.client.calls + t.calls,
                     finish    |-> t.finish,
                     chunks    |-> Append(s.client.chunks, sends)]]

(* A chunk for each token, unless the offsets are gone.                    *)
Chunks(s) ==
    LET offsets == s.task.offsets
        length(k) == offsets[k] - (IF k = 1 THEN 0 ELSE offsets[k - 1])
        sent[k \in 0 .. Len(offsets)] == IF k = 0 THEN s ELSE to_json(sent[k - 1], length(k))
    IN  IF offsets = <<>> THEN to_json(s, 0) ELSE [sent[Len(offsets)] EXCEPT !.task.offsets = <<>>]

Sent(t) ==
    LET s == [task |-> t, client |-> [client EXCEPT !.chunks = <<>>]]
    IN  IF t.finish # "" THEN to_json(s, 0)
        ELSE IF t.send /\ mode.stream THEN Chunks(s)
        ELSE s

Round(batch) ==
    /\ task.finish = ""
    /\ sampled' = sampled \o batch
    /\ LET t == Detokenized(task, batch)
       IN  \E u \in IF t.send THEN ToolCalls(ReasonedByWord(Stopped(t)), task.todo \o batch) ELSE {t} :
               LET s == Sent(Finished(u)) IN task' = s.task /\ client' = s.client
    /\ UNCHANGED mode

Next == \E n \in 1 .. 1 + mode.drafted : \E batch \in [1 .. n -> mode.tokens] : Round(batch)

Spec == Init /\ [][Next]_vars

-----------------------------------------------------------------------------
(* What the tokens say, told without rounds, drafts or chunks.             *)

Text(tokens) == FlattenSeq([k \in DOMAIN tokens |-> Piece[tokens[k]]])

Before(tokens, S) == IF tokens \notin Seq(DOMAIN Piece \ S)
                     THEN SubSeq(tokens, 1, Min({k \in DOMAIN tokens : tokens[k] \in S}) - 1) ELSE tokens

Generated == Before(SubSeq(sampled, 1, Len(sampled) - Len(task.todo)), {"eog"})

AfterSpaces(tokens) ==
    LET words == {k \in DOMAIN tokens : ~IsSpace(Piece[tokens[k]])}
    IN  IF words = {} THEN <<>> ELSE SubSeq(tokens, Min(words), Len(tokens))

ByTokens ==
    LET begins == mode.prefilled \/ (Generated # <<>> /\ Generated[1] = "think")
        inside == IF mode.prefilled THEN Generated ELSE Tail(Generated)
        reason == Before(inside, {"/think"})
    IN  IF ~begins THEN [reasoning |-> <<>>, content |-> Text(Generated)]
        ELSE [reasoning |-> Text(reason), content |-> Text(AfterSpaces(SubSeq(inside, Len(reason) + 2, Len(inside))))]

ByWords ==
    LET out    == Text(Generated)
        begin  == IF mode.prefilled THEN 0 ELSE Len(StartWord)
        inside == SubStr(out, begin, Len(out))
        end    == Find(inside, EndWord)
    IN  IF ~mode.prefilled /\ ~IsPrefix(StartWord, out) THEN [reasoning |-> <<>>, content |-> out]
        ELSE IF end = Npos THEN [reasoning |-> inside, content |-> <<>>]
        ELSE [reasoning |-> SubStr(inside, 0, end), content |-> SubStr(inside, end + Len(EndWord), Len(inside))]

Said == IF mode.reasoning = "word" THEN ByWords ELSE ByTokens

FullCall == IF mode.tools \in DOMAIN Envelopes THEN Envelopes[mode.tools] ELSE Marked

(* Every marker belongs to a call that can be parsed, the last perhaps not *)
(* complete yet.                                                           *)
WellFormed(out) ==
    \A k \in DOMAIN out : out[k] \in ToSet(FullCall) =>
        \E p \in 0 .. k - 1 : /\ p > k - 1 - Len(FullCall)
                              /\ IsPrefix(SubStr(out, p, Len(FullCall)), FullCall)

NumCalls(out) == Cardinality(Starts(out, FullCall))

-----------------------------------------------------------------------------
(***************************************************************************)
(* Without reasoning and tools, however rounds, cut characters and chunks  *)
(* fall, what was sent and what is held are what was generated, each       *)
(* symbol once; at the end all of it was sent, up to a stop word.          *)
(***************************************************************************)
Delivered ==
    mode.reasoning = "none" /\ mode.tools = "none" =>
        LET out == Text(Generated)
        IN  IF task.finish = "" THEN client.content \o task.text = out
            ELSE \/ client.content = out /\ (task.eog \/ task.finish = "length")
                 \/ /\ task.finish = "stop"
                    /\ \E k \in DOMAIN mode.stop : IsPrefix(client.content \o mode.stop[k], out)

(* Words are found in whole characters, and the text is lost that is       *)
(* unsent when a word ends the reasoning, follows the word that begins it  *)
(* in the same round, or is shorter than that word: see the README.        *)
Separates ==
    LET out == Text(Generated)
    IN  /\ mode.chat /\ mode.reasoning # "none" /\ ~mode.in_content /\ mode.tools = "none"
        /\ mode.reasoning = "word" =>
            /\ ~mode.stream /\ mode.drafted = 0 /\ Whole(out)
            /\ \/ mode.prefilled
               \/ \E k \in 0 .. Len(Generated) : Text(SubSeq(Generated, 1, k)) = StartWord
               \/ ~IsPrefix(StartWord, out) /\ Len(out) > Len(StartWord)

(***************************************************************************)
(* Whatever a draft brings into one round - the end of the reasoning, the  *)
(* whitespace behind it, the answer - the client gets the reasoning as     *)
(* reasoning and the answer as content, without markers, and completely    *)
(* unless a stop word cuts it, or in a stream the reasoning ends inside a  *)
(* character.                                                              *)
(***************************************************************************)
ReasoningSeparated ==
    Separates =>
        /\ IsPrefix(client.reasoning, Said.reasoning) /\ IsPrefix(client.content, Said.content)
        /\ /\ task.finish = "length" \/ (task.finish # "" /\ mode.stop = <<>>)
           /\ mode.stream => Whole(Said.reasoning)
           => client.reasoning = Said.reasoning /\ client.content = Said.content

(* A start word is looked for when more text follows it than its length.   *)
StartIsWord == mode.tools \in DOMAIN Formats /\ mode.start = "word"

(* What the ways to find calls can tell apart: see the README.             *)
FindsCalls ==
    /\ mode.tools \notin {"none", "json", "mistral"}
    /\ mode.tools \in DOMAIN Envelopes => mode.fast \/ mode.drafted = 0
    /\ mode.tools \in DOMAIN Formats => mode.drafted = 0 /\ (mode.start = "word" => mode.end = "word")
    /\ mode.tools = "chatml" /\ mode.start = "token" /\ mode.end = "word" => mode.stream
    /\ mode.tools = "llama3" => ~mode.stream

(***************************************************************************)
(* Each call that the model completes is reported once, in the round that  *)
(* completes it or the next, and never again, except those a format cannot *)
(* find: JSON of a model with its own template, and streamed calls whose   *)
(* end is trimmed though it belongs to the JSON, are never reported.  The  *)
(* reason of the end tells of calls only if there were any, and of any     *)
(* calls if it is told after them and the budget did not end the answer.   *)
(***************************************************************************)
CallsReported ==
    LET complete == NumCalls(Said.content)
        reported == client.calls + IF task.finish = "" THEN task.calls ELSE 0
    IN  /\ WellFormed(Said.content) =>
            /\ FindsCalls => reported <= complete
            /\ FindsCalls /\ (StartIsWord => task.finish \in {"stop", "tool_calls"}) =>
                   reported = IF mode.fast THEN Min({1, complete}) ELSE complete
            /\ mode.tools = "json" \/ (mode.tools = "mistral" /\ mode.stream) => reported = 0
        /\ task.finish = "tool_calls" => client.calls > 0
        /\ task.finish = "stop" /\ client.calls > 0 => mode.stream /\ ~mode.fast

(***************************************************************************)
(* The markers of a call are not sent as content while the answer goes on, *)
(* whether the call is ever parsed or not, and where calls are found they  *)
(* are not sent at the end either, unless it comes before the call's own.  *)
(* (A stream cuts the start word of llama3 off its call, and shows it.)    *)
(***************************************************************************)
MarkersHidden ==
    mode.tools # "none" /\ WellFormed(Said.content) /\ ToSet(client.content) \cap (ToSet(FullCall) \ ToSet(Call)) # {} =>
        /\ (mode.tools = "llama3" /\ mode.stream) \/ (task.finish # "" /\ (task.finish = "tool_calls" => ~mode.fast))
        /\ FindsCalls /\ ~StartIsWord => Last(Said.content) # Last(FullCall)
=============================================================================
