--------------------------- MODULE ProviderStream ---------------------------
(***************************************************************************)
(* What the adapters of the model backends make of a reply: the OpenAI     *)
(* protocol (providers/openai_compat.py, LM Studio) and Ollama's           *)
(* (providers/ollama.py), for a streamed answer, a whole one and a batch   *)
(* of vectors, and the embedder that joins the batches (rag/embedder.py).  *)
(*                                                                         *)
(* A text, a piece of reasoning and a piece of a call's arguments are      *)
(* tokens; "" is what was not sent.  A reply may stop anywhere.            *)
(***************************************************************************)
EXTENDS Naturals, Sequences, FiniteSets, SequencesExt

CONSTANTS
    Lines,          \* per dialect: the lines a backend may stream
    MaxLines,       \* bound: lines of one reply
    Replies,        \* per dialect: the messages of a whole answer
    Texts,          \* how many texts are embedded
    BatchSize       \* Embedder.batch_size

Dialects == {"openai", "ollama"}

\* A line is [kind, text, reasoning, finish, fragments, calls], a fragment of a call
\* [index, name, arguments].  One of kind "noise" or "no_choices" brings nothing,
\* nor does the end mark of the OpenAI protocol.
ASSUME LinesAreRead ==
    /\ Texts \in Nat /\ BatchSize \in Nat
    /\ \A d \in Dialects : \A line \in Lines[d] \cup Replies[d] :
         /\ line.fragments \in Seq(ToSet(line.fragments))
         /\ line.calls \in Seq(ToSet(line.calls))
         /\ \A f \in ToSet(line.fragments) : f.index \in Nat
         /\ line.kind # "delta" /\ (line.kind = "end" => d = "openai") =>
              line.text = "" /\ line.reasoning = "" /\ line.calls = <<>>

VARIABLES
    dialect,
    request,    \* "none", "stream", "generate", "embed"
    replied,    \* history: the lines of the reply so far
    yielded,    \* what the caller has been handed
    partial,    \* openai: per index, the call put together so far
    calls,      \* ollama: the calls received
    finish,     \* finish_reason
    vectors,    \* what has been embedded
    ended       \* "no", "done" or the error raised

providerVars == <<dialect, request, replied, yielded, partial, calls, finish, vectors, ended>>

Errors == {"timeout", "unavailable", "not_found", "too_long", "response"}

ProviderInit ==
    /\ dialect \in Dialects
    /\ request = "none" /\ replied = <<>> /\ yielded = <<>>
    /\ partial = <<>> /\ calls = <<>> /\ finish = "stop"
    /\ vectors = <<>> /\ ended = "no"

Idle == request = "none"

\* _raise_for_status, by the code and the words of the body.
StatusErrors == {"not_found", "too_long", "response"}

\* The request gets no answer, or one that is an error.
Fails(kind) ==
    /\ Idle
    /\ request' = kind
    /\ ended' \in {"timeout", "unavailable"} \cup StatusErrors
    /\ UNCHANGED <<dialect, replied, yielded, partial, calls, finish, vectors>>

-----------------------------------------------------------------------------
(***************************************************************************)
(* stream.                                                                 *)
(***************************************************************************)

Opens ==
    /\ Idle
    /\ request' = "stream"
    /\ UNCHANGED <<dialect, replied, yielded, partial, calls, finish, vectors, ended>>

Streaming == request = "stream" /\ ended = "no"

Passed(line, list) ==
    LET thought == IF line.reasoning = "" THEN list
                   ELSE Append(list, [kind |-> "reasoning", what |-> line.reasoning])
    IN  IF line.text = "" THEN thought
        ELSE Append(thought, [kind |-> "text", what |-> line.text])

NoSlot == [name |-> "", arguments |-> <<>>]

Or(new, old) == IF new = "" THEN old ELSE new

\* A fault: the last fragment of the arguments is taken for all of them.
Overwrite(slots, f) ==
    LET slot == IF f.index \in DOMAIN slots THEN slots[f.index] ELSE NoSlot
    IN  [i \in DOMAIN slots \cup {f.index} |->
            IF i # f.index THEN slots[i]
            ELSE [name |-> Or(f.name, slot.name),
                  arguments |-> IF f.arguments = "" THEN slot.arguments ELSE <<f.arguments>>]]

\* _accumulate_tool_calls, for one fragment ...
Accumulate(slots, f) ==
    LET slot == IF f.index \in DOMAIN slots THEN slots[f.index] ELSE NoSlot
    IN  [i \in DOMAIN slots \cup {f.index} |->
            IF i # f.index THEN slots[i]
            ELSE [name |-> Or(f.name, slot.name),
                  arguments |-> IF f.arguments = "" THEN slot.arguments
                                ELSE Append(slot.arguments, f.arguments)]]

\* ... and for those of a line.
Accumulated(slots, fragments) ==
    LET F[i \in 0..Len(fragments)] ==
            IF i = 0 THEN slots ELSE Accumulate(F[i - 1], fragments[i])
    IN  F[Len(fragments)]

\* The n-th of a set of numbers, in their order.
Nth(n, numbers) ==
    CHOOSE i \in numbers : Cardinality({j \in numbers : j <= i}) = n

\* _finalise_tool_calls: in the order of the indices, without those never named.
Finalised(slots) ==
    LET named == {i \in DOMAIN slots : slots[i].name # ""}
    IN  [k \in 1..Cardinality(named) |-> slots[Nth(k, named)]]

Final(theCalls, reason) ==
    /\ yielded' = Append(yielded, [kind |-> "done", what |-> theCalls, finish |-> reason])
    /\ ended' = "done"

Hears(line) ==
    /\ Streaming /\ Len(replied) < MaxLines
    /\ replied' = Append(replied, line)
    /\ UNCHANGED <<dialect, request, vectors>>

\* A line of the event stream.  The end mark ends it; a line that is no data, that
\* does not parse or that has no choices (an error object) gives nothing.
ReadOpenAI(line) ==
    /\ dialect = "openai" /\ Hears(line)
    /\ \/ /\ line.kind = "end"
          /\ Final(Finalised(partial), finish)
          /\ UNCHANGED <<partial, finish>>
       \/ /\ line.kind = "delta"
          /\ finish' = Or(line.finish, finish)
          /\ partial' = Accumulated(partial, line.fragments)
          /\ yielded' = Passed(line, yielded)
          /\ UNCHANGED ended
       \/ /\ line.kind \in {"noise", "no_choices"}
          /\ UNCHANGED <<partial, finish, yielded, ended>>
    /\ UNCHANGED calls

\* A line of Ollama's: calls come whole, and its last one does not end the reading.
ReadOllama(line) ==
    /\ dialect = "ollama" /\ Hears(line)
    /\ \/ /\ line.kind \in {"delta", "end"}
          /\ calls' = calls \o line.calls
          /\ yielded' = Passed(line, yielded)
          /\ finish' = IF line.kind = "end" THEN Or(line.finish, "stop") ELSE finish
       \/ line.kind = "noise" /\ UNCHANGED <<calls, yielded, finish>>
    /\ UNCHANGED <<partial, ended>>

\* The backend closes the connection, at the end of its answer or before.
Closes ==
    /\ Streaming
    /\ Final(IF dialect = "openai" THEN Finalised(partial) ELSE calls, finish)
    /\ UNCHANGED <<dialect, request, replied, partial, calls, finish, vectors>>

\* It breaks off, or goes silent for longer than the timeout.
Breaks ==
    /\ Streaming
    /\ ended' \in {"timeout", "unavailable"}
    /\ UNCHANGED <<dialect, request, replied, yielded, partial, calls, finish, vectors>>

-----------------------------------------------------------------------------
(***************************************************************************)
(* generate.                                                               *)
(***************************************************************************)

Whole(reply) ==
    /\ replied' = <<reply>>
    /\ yielded' = Append(Passed(reply, <<>>), [kind |-> "done", what |-> reply.calls,
                                             finish |-> Or(reply.finish, "stop")])
    /\ ended' = "done"

\* One reply; without choices, or unreadable, it is an error.
GenerateOpenAI(reply) ==
    /\ dialect = "openai" /\ Idle
    /\ request' = "generate"
    /\ IF reply.kind \in {"noise", "no_choices"}
       THEN ended' = "response" /\ UNCHANGED <<replied, yielded>>
       ELSE Whole(reply)
    /\ UNCHANGED <<dialect, partial, calls, finish, vectors>>

\* Here a reply without a message is an empty answer.
GenerateOllama(reply) ==
    /\ dialect = "ollama" /\ Idle
    /\ request' = "generate"
    /\ IF reply.kind = "noise"
       THEN ended' = "response" /\ UNCHANGED <<replied, yielded>>
       ELSE Whole(reply)
    /\ UNCHANGED <<dialect, partial, calls, finish, vectors>>

-----------------------------------------------------------------------------
(***************************************************************************)
(* Embedder.embed.  A vector is [of, fits]: the text it is the vector of,  *)
(* and whether it has the dimensions of the manifest.                      *)
(***************************************************************************)

StartEmbedding ==
    /\ Idle
    /\ request' = "embed"
    /\ UNCHANGED <<dialect, replied, yielded, partial, calls, finish, vectors, ended>>

Embedding == request = "embed" /\ ended = "no"

NextBatch ==
    LET first == Len(replied) * BatchSize + 1
    IN  {n \in first..(first + BatchSize - 1) : n <= Texts}

Embeds(rows) ==
    /\ replied' = Append(replied, "batch")
    /\ vectors' = vectors \o rows
    /\ UNCHANGED <<dialect, request, yielded, partial, calls, finish, ended>>

VectorOf(n, bad) == [of |-> n, fits |-> n \notin bad]

\* OpenAICompatProvider.embed: rows come in any order, and are put in that of their
\* indices.
BatchOpenAI ==
    /\ dialect = "openai" /\ Embedding /\ NextBatch # {}
    /\ \E there, bad \in SUBSET NextBatch : \E rows \in SetToSeqs(there) :
         Embeds([k \in DOMAIN rows |-> VectorOf(Nth(k, ToSet(rows)), bad)])

\* OllamaProvider.embed: they come in the order kind; some may be missing.
BatchOllama ==
    /\ dialect = "ollama" /\ Embedding /\ NextBatch # {}
    /\ \E there, bad \in SUBSET NextBatch :
         Embeds([k \in 1..Cardinality(there) |-> VectorOf(Nth(k, there), bad)])

\* A batch is not answered, or is an error: what was embedded is thrown away.
BatchFails ==
    /\ Embedding /\ NextBatch # {}
    /\ ended' \in Errors
    /\ UNCHANGED <<dialect, request, replied, yielded, partial, calls, finish, vectors>>

\* One vector per text, all of the same width and of the manifest's.
Joined ==
    /\ Embedding /\ NextBatch = {}
    /\ ended' = IF Len(vectors) = Texts /\ \A k \in DOMAIN vectors : vectors[k].fits
                THEN "done" ELSE "refused"
    /\ UNCHANGED <<dialect, request, replied, yielded, partial, calls, finish, vectors>>

ProviderNext ==
    \/ \E kind \in {"stream", "generate"} : Fails(kind)
    \/ Opens \/ Closes \/ Breaks
    \/ \E line \in Lines["openai"] : ReadOpenAI(line)
    \/ \E line \in Lines["ollama"] : ReadOllama(line)
    \/ \E reply \in Replies["openai"] : GenerateOpenAI(reply)
    \/ \E reply \in Replies["ollama"] : GenerateOllama(reply)
    \/ StartEmbedding \/ BatchOpenAI \/ BatchOllama \/ BatchFails \/ Joined

ProviderSpec == ProviderInit /\ [][ProviderNext]_providerVars

-----------------------------------------------------------------------------
(***************************************************************************)
(* Properties.                                                             *)
(***************************************************************************)

ProviderTypeOK ==
    /\ dialect \in Dialects /\ request \in {"none", "stream", "generate", "embed"}
    /\ ended \in {"no", "done", "refused"} \cup Errors

\* What there is of one kind in what was handed over, in its order.
Pieces(handed, kind) ==
    FlattenSeq([k \in DOMAIN handed |-> IF handed[k].kind = kind THEN <<handed[k].what>> ELSE <<>>])

\* What there is in the lines of a reply.
Sent(piece) == IF piece = "" THEN <<>> ELSE <<piece>>
TextOf(list) == FlattenSeq([k \in DOMAIN list |-> Sent(list[k].text)])
ReasoningOf(list) == FlattenSeq([k \in DOMAIN list |-> Sent(list[k].reasoning)])
CallsOf(list) == FlattenSeq([k \in DOMAIN list |-> list[k].calls])
FragmentsOf(list) ==
    FlattenSeq([k \in DOMAIN list |-> IF list[k].kind = "delta" THEN list[k].fragments ELSE <<>>])

\* What there is in its fragments of the arguments and of the names of one call.
Arguments(fragments, i) ==
    FlattenSeq([k \in DOMAIN fragments |->
        IF fragments[k].index = i THEN Sent(fragments[k].arguments) ELSE <<>>])
NamesGiven(fragments, i) ==
    FlattenSeq([k \in DOMAIN fragments |->
        IF fragments[k].index = i THEN Sent(fragments[k].name) ELSE <<>>])

\* Every call that was named, in the order of the indices, each with the last name it
\* was given and exactly its own arguments.
PutTogether(handed, fragments) ==
    LET named == {i \in {f.index : f \in ToSet(fragments)} : NamesGiven(fragments, i) # <<>>}
    IN  /\ Len(handed) = Cardinality(named)
        /\ \A i \in named :
             handed[Cardinality({j \in named : j <= i})] =
               [name |-> Last(NamesGiven(fragments, i)), arguments |-> Arguments(fragments, i)]

\* What a caller is handed of a streamed or a whole answer is what was sent: all of
\* the text and all of the reasoning, in order, never one as the other; the calls
\* last, once, each with exactly its own arguments however the fragments of several
\* were mixed; and after an error no end.
AnswerAsSent ==
    request \in {"stream", "generate"} =>
        /\ Pieces(yielded, "text") = TextOf(replied)
        /\ Pieces(yielded, "reasoning") = ReasoningOf(replied)
        /\ \A k \in DOMAIN yielded : yielded[k].kind = "done" <=> (ended = "done" /\ k = Len(yielded))
        /\ ended = "done" =>
             IF request = "stream" /\ dialect = "openai"
             THEN PutTogether(Last(yielded).what, FragmentsOf(replied))
             ELSE Last(yielded).what = CallsOf(replied)

\* Every vector handed to the index belongs to the text in its place, and all texts
\* have one, over all the batches and whatever order the rows came in.
VectorsAsAsked ==
    (request = "embed" /\ ended = "done") =>
        vectors = [n \in 1..Texts |-> [of |-> n, fits |-> TRUE]]

\* What the backends send reaches its caller whole and in place (stream, generate,
\* _accumulate_tool_calls, _finalise_tool_calls, Embedder.embed).
BackendIsQuoted == ProviderTypeOK /\ AnswerAsSent /\ VectorsAsAsked
=============================================================================
