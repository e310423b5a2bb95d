---------------------------- MODULE ModelStream ----------------------------
(***************************************************************************)
(* One call of the model, from the messages of the turn to what the turn   *)
(* hears (src/providers, stream_turn): the request is prepared and sent,   *)
(* with Copilot perhaps more than once; the response comes in chunks that  *)
(* end anywhere, is cut into lines or blocks, and becomes events.          *)
(*                                                                         *)
(* A line is what it says and arrives in parts: "head" without which it    *)
(* makes no sense, "body" with which it does, and its end, which for       *)
(* ChatGPT's blocks is two line breaks.                                    *)
(***************************************************************************)
EXTENDS Naturals, Sequences, FiniteSets, Functions, Compaction

CONSTANTS
    Providers,      \* the providers looked at
    Transcripts,    \* transcripts a call starts with
    Window,         \* tokens of the context window
    Reserve,        \* tokens of it that are kept free
    Keeps,          \* settings of the budget for recent messages
    MaxLines,       \* bound: lines of a response
    MaxCalls,       \* bound: tool calls in a response
    MaxAhead        \* bound: parts on the wire

ASSUME StreamAssumption ==
    /\ Providers \subseteq {"openai_compat", "ollama", "account", "copilot"}
    /\ {Window, Reserve, MaxLines, MaxCalls, MaxAhead} \subseteq Nat
    /\ Keeps \subseteq Nat
    /\ Transcripts \subseteq Seq(Messages) \ {<<>>}

VARIABLES
    provider,    \* who is asked
    pc,          \* "preparing", "sending", "reading" or "done"
    request,     \* what is going to be asked, till the response starts
    attempts,    \* the requests sent, till the response starts
    said,        \* history: what the server has said
    connection,  \* "open", "closed" or "broken"
    wire,        \* parts on their way
    buffer,      \* parts received and not yet read
    calls,       \* the accumulators of tool calls, by index
    events       \* what the turn is told

streamVars == <<provider, pc, request, attempts, said, connection,
                wire, buffer, calls, events>>

Event(kind) == [kind |-> kind]
Done  == Event("done")
Error == Event("error")
Nothing == [kind |-> "nothing"]

Init ==
    /\ provider \in Providers
    /\ pc = "preparing"
    /\ \E t \in Transcripts, k \in Keeps :
          request = [kind |-> "request", transcript |-> t, messages |-> t, keep |-> k]
    /\ attempts = <<>>
    /\ said = [text |-> 0, calls |-> <<>>, lines |-> 0, last |-> "nothing", cut |-> FALSE]
    /\ connection = "open"
    /\ wire = <<>>
    /\ buffer = <<>>
    /\ calls = <<>>
    /\ events = <<>>

-----------------------------------------------------------------------------
(* The request.                                                            *)

Prepare ==
    /\ pc = "preparing"
    /\ \E summarised \in BOOLEAN :
          LET all == request.transcript
              compacted == IF NeedsCompaction(all, Window, Reserve)
                           THEN CompactMessages(all, request.keep, summarised)
                           ELSE all
          IN  request' = [request EXCEPT !.messages = Conversation(provider, compacted)]
    /\ pc' = "sending"
    /\ UNCHANGED <<provider, attempts, said, connection, wire, buffer, calls, events>>

\* An error becomes the one event of the call.
Fail ==
    /\ pc' = "done"
    /\ request' = Nothing
    /\ attempts' = <<>>
    /\ events' = Append(events, Error)
    /\ UNCHANGED <<provider, said, connection, wire, buffer, calls>>

Open ==
    /\ pc' = "reading"
    /\ request' = Nothing
    /\ attempts' = <<>>
    /\ UNCHANGED <<provider, said, connection, wire, buffer, calls, events>>

SendOnce ==
    /\ pc = "sending"
    /\ provider # "copilot"
    /\ Open \/ Fail

\* What Copilot says to a request.
Outcomes == {"ok", "unauthorized", "unsupported_api", "model_not_supported", "other"}
Apis     == {"chat", "responses", "messages"}

OtherApi(api) == IF api = "chat" THEN "responses" ELSE "chat"

Attempt(session, model, api) ==
    /\ \E o \in Outcomes :
          attempts' = Append(attempts, [session |-> session, model |-> model,
                                        api |-> api, outcome |-> o])
    /\ UNCHANGED <<provider, pc, request, said, connection, wire, buffer, calls, events>>

Copilot == pc = "sending" /\ provider = "copilot"
Latest  == attempts[Len(attempts)]

\* The first request, or none for want of a session.
SendFirst ==
    /\ Copilot
    /\ attempts = <<>>
    /\ \/ \E api \in Apis : Attempt(1, "active", api)
       \/ Fail

\* Chat completions and responses stand in for each other.
\* (with a mistake: as often as the server asks for it)
MayFallBackAlways ==
    /\ Latest.outcome = "unsupported_api"
    /\ Latest.api # "messages"
    /\ Latest.model = "active"

MayFallBack ==
    /\ Latest.outcome = "unsupported_api"
    /\ Latest.api # "messages"
    /\ Latest.model = "active"
    /\ Cardinality({i \in DOMAIN attempts : attempts[i].session = Latest.session}) = 1

FallBack ==
    /\ Copilot /\ attempts # <<>>
    /\ MayFallBack
    /\ Attempt(Latest.session, "active", OtherApi(Latest.api))

FirstTry(outcome) ==
    /\ ~MayFallBack
    /\ Latest.session = 1
    /\ Latest.model = "active"
    /\ Latest.outcome = outcome

\* A new session, whose model may be served by another API.
Refresh ==
    /\ Copilot /\ attempts # <<>>
    /\ FirstTry("unauthorized")
    /\ \/ \E api \in Apis : Attempt(2, "active", api)
       \/ Fail

\* The first model of a fresh list, by its own API and no other.
SendListed ==
    /\ Copilot /\ attempts # <<>>
    /\ FirstTry("model_not_supported")
    /\ \/ \E api \in Apis : Attempt(1, "listed", api)
       \/ Fail

Conclude ==
    /\ Copilot /\ attempts # <<>>
    /\ IF Latest.outcome = "ok" THEN Open
       ELSE /\ ~MayFallBack
            /\ ~FirstTry("unauthorized")
            /\ ~FirstTry("model_not_supported")
            /\ Fail

-----------------------------------------------------------------------------
(* The server.                                                             *)

Line(kind) == [kind |-> kind]
Fragment(index, first, args) ==
    [kind |-> "call", index |-> index, first |-> first, args |-> args]

Parts == IF provider = "account" THEN <<"head", "body", "break", "end">>
                                 ELSE <<"head", "body", "end">>

\* Copilot takes reasoning for text, so that is text here.
\* A call is opened by its id and name; arguments may come with them or later.
\* <<>> is a fragment without arguments, <<n>> one with a piece of them, be it the
\* empty string.  Only requests for chat completions carry tools.
Opening(args) == Fragment(Len(said.calls) + 1, TRUE, args)

Lines ==
    {Line(k) : k \in {"text", "end", "failed"}}
    \union {Line(k) : k \in IF provider = "ollama" THEN {} ELSE {"comment"}}
    \union {Line(k) : k \in IF provider = "copilot" THEN {} ELSE {"reasoning"}}
    \union (IF provider # "openai_compat" THEN {}
            ELSE {Line("usage"), Line("finish")}
                 \union {Opening(a) : a \in IF Len(said.calls) < MaxCalls
                                            THEN {<<>>, <<said.lines>>} ELSE {}}
                 \union {Fragment(i, FALSE, <<said.lines>>) : i \in DOMAIN said.calls})

Saying(line) ==
    [said EXCEPT !.text  = IF line.kind = "text" THEN @ + 1 ELSE @,
                 !.calls = IF line.kind # "call" THEN @
                           ELSE IF line.first THEN Append(@, line.args)
                           ELSE [said.calls EXCEPT ![line.index] = @ \o line.args]]

\* A line, of which the end may be missing if it is the last.
Say ==
    /\ pc = "reading"
    /\ connection = "open"
    /\ said.lines < MaxLines
    /\ said.last \notin {"end", "failed"}
    /\ Len(wire) + Len(Parts) <= MaxAhead
    /\ \E line \in Lines, n \in 1..Len(Parts) :
          LET now == IF n > 1 THEN Saying(line) ELSE said IN
          /\ said.last = "finish" => line.kind \in {"usage", "end", "comment"}
          /\ said' = [now EXCEPT !.lines = @ + 1,
                                 !.last = IF @ = "finish" /\ line.kind # "end"
                                          THEN @ ELSE line.kind,
                                 !.cut = n < Len(Parts)]
          /\ wire' = wire \o [i \in 1..n |-> [line |-> line, part |-> Parts[i],
                                              number |-> said.text]]
          /\ connection' = IF n < Len(Parts) THEN "closed" ELSE "open"
    /\ UNCHANGED <<provider, pc, request, attempts, buffer, calls, events>>

Close ==
    /\ pc = "reading"
    /\ connection = "open"
    /\ connection' \in {"closed", "broken"}
    /\ UNCHANGED <<provider, pc, request, attempts, said, wire, buffer, calls, events>>

-----------------------------------------------------------------------------
(* Reading.                                                                *)

\* Where the first line of the buffer ends, 0 if its end has not arrived.
FirstLine ==
    LET ends == {i \in DOMAIN buffer : buffer[i].part = "end"}
    IN  IF ends = {} THEN 0 ELSE CHOOSE i \in ends : \A j \in ends : i <= j

Receive ==
    /\ pc = "reading"
    /\ FirstLine = 0
    /\ \E n \in 1..Len(wire) :
          /\ buffer' = buffer \o SubSeq(wire, 1, n)
          /\ wire' = SubSeq(wire, n + 1, Len(wire))
    /\ UNCHANGED <<provider, pc, request, attempts, said, connection, calls, events>>

NewCall == [named |-> FALSE, args |-> <<>>, started |-> FALSE]

\* The arguments may come before the name is known: a call starts with the first
\* piece of them, even an empty one, that finds it.
Accumulated(line) ==
    LET known == IF line.index \in DOMAIN calls THEN calls[line.index] ELSE NewCall
        named == known.named \/ line.first
    IN  [named   |-> named,
         args    |-> known.args \o line.args,
         started |-> known.started \/ (named /\ line.args # <<>>)]

\* (with a mistake: one accumulator for all calls)
AccumulateInOne(line) ==
    LET one == [line EXCEPT !.index = 1]
        call == Accumulated(one)
    IN  /\ calls' = (1 :> call) @@ calls
        /\ events' = events \o
             IF line.first /\ call.started
             THEN <<[kind |-> "call_start", id |-> line.index]>> ELSE <<>>

Accumulate(line) ==
    LET call    == Accumulated(line)
        starts  == call.started /\ ~(line.index \in DOMAIN calls /\ calls[line.index].started)
    IN  /\ calls' = [i \in DOMAIN calls \union {line.index} |->
                        IF i = line.index THEN call ELSE calls[i]]
        /\ events' = events
             \o (IF starts THEN <<[kind |-> "call_start", id |-> line.index]>> ELSE <<>>)
             \o (IF call.started /\ line.args # <<>>
                 THEN <<[kind |-> "call_args", id |-> line.index, args |-> line.args]>>
                 ELSE <<>>)

\* The accumulators are drained in any order; what has not started is dropped.
EmitPendingToolEnds(then) ==
    /\ \E order \in SetToSeqs({i \in DOMAIN calls : calls[i].started}) :
          events' = events
            \o [k \in DOMAIN order |-> [kind |-> "call_end", id |-> order[k],
                                        args |-> calls[order[k]].args]]
            \o then
    /\ calls' = <<>>

Emit(new) == events' = events \o new /\ UNCHANGED calls

\* What a line that makes sense does, and what becomes of the response: there is
\* "more", or this was its "end", or the provider will "fail".
HandleLine(line, number, then) ==
    CASE line.kind = "text" ->
            then = "more" /\ Emit(<<[kind |-> "text", number |-> number]>>)
      [] line.kind = "usage"  -> then = "more" /\ Emit(<<Event("usage")>>)
      [] line.kind = "call"   -> then = "more" /\ Accumulate(line)
      [] line.kind = "finish" -> then = "more" /\ EmitPendingToolEnds(<<>>)
      [] line.kind = "end"    -> then = "end" /\ EmitPendingToolEnds(<<Done>>)
      [] line.kind = "failed" /\ provider = "ollama" -> then = "fail" /\ Emit(<<Error>>)
      [] OTHER -> then = "more" /\ Emit(<<>>)

\* A block of ChatGPT.
HandleBlock(line, number, then) ==
    CASE line.kind = "text" ->
            then = "more" /\ Emit(<<[kind |-> "text", number |-> number]>>)
      [] line.kind = "reasoning" -> then = "more" /\ Emit(<<Event("reasoning")>>)
      [] line.kind = "end"       -> then = "end" /\ Emit(<<Event("usage"), Done>>)
      [] line.kind = "failed"    -> then = "end" /\ Emit(<<Error>>)
      [] OTHER                   -> then = "more" /\ Emit(<<>>)

\* What makes no sense is an error, but ChatGPT's blocks, and lines cut off
\* before their "data:", are ignored.
HandleGarbage(then) ==
    \/ provider # "ollama" /\ then = "more" /\ Emit(<<>>)
    \/ provider # "account" /\ then = "fail" /\ Emit(<<Error>>)

HandleParts(parts, then) ==
    IF \A i \in DOMAIN parts : parts[i].part # "body" THEN HandleGarbage(then)
    ELSE IF provider = "account"
    THEN HandleBlock(parts[1].line, parts[1].number, then)
    ELSE HandleLine(parts[1].line, parts[1].number, then)

Outcome == {"more", "end", "fail"}

ReadLine ==
    /\ pc = "reading"
    /\ FirstLine # 0
    /\ \E then \in Outcome :
          /\ HandleParts(SubSeq(buffer, 1, FirstLine), then)
          /\ pc' = IF then = "more" THEN "reading" ELSE "done"
    /\ buffer' = SubSeq(buffer, FirstLine + 1, Len(buffer))
    /\ UNCHANGED <<provider, request, attempts, said, connection, wire>>

EndOfStream ==
    /\ pc = "reading"
    /\ connection = "closed"
    /\ wire = <<>>
    /\ FirstLine = 0

\* Two of the four look whether what was left has ended the response.
\* (with a mistake: nobody notices that it has failed)
IsOverNever(then) == FALSE

IsOver(then) ==
    \/ then = "fail"
    \/ then = "end" /\ provider \in {"ollama", "copilot"}

\* What is left is a line without its end.
ReadRest ==
    /\ EndOfStream
    /\ buffer # <<>>
    /\ \E then \in Outcome :
          /\ HandleParts(buffer, then)
          /\ pc' = IF IsOver(then) THEN "done" ELSE "finishing"
    /\ buffer' = <<>>
    /\ UNCHANGED <<provider, request, attempts, said, connection, wire>>

Finish ==
    /\ \/ EndOfStream /\ buffer = <<>>
       \/ pc = "finishing"
    /\ EmitPendingToolEnds(<<Done>>)
    /\ pc' = "done"
    /\ UNCHANGED <<provider, request, attempts, said, connection, wire, buffer>>

ReadFails ==
    /\ pc = "reading"
    /\ connection = "broken"
    /\ wire = <<>>
    /\ FirstLine = 0
    /\ Fail

Next ==
    \/ Prepare
    \/ SendOnce \/ SendFirst \/ FallBack \/ Refresh \/ SendListed \/ Conclude
    \/ Say \/ Close
    \/ Receive \/ ReadLine \/ ReadRest \/ Finish \/ ReadFails

Spec == Init /\ [][Next]_streamVars

-----------------------------------------------------------------------------
(* What the turn hears.                                                    *)

IsEnd(event) == event.kind \in {"done", "error"}

FirstEnd ==
    CHOOSE i \in DOMAIN events :
        IsEnd(events[i]) /\ \A j \in 1..(i - 1) : ~IsEnd(events[j])

\* The turn listens up to the first end, and runs the calls it has heard the start
\* and the end of.
Hearing == SubSeq(events, 1, FirstEnd)

Dispatched ==
    {[id |-> Hearing[j].id, args |-> Hearing[j].args] :
        j \in {j \in DOMAIN Hearing :
                 /\ Hearing[j].kind = "call_end"
                 /\ \E i \in 1..(j - 1) : /\ Hearing[i].kind = "call_start"
                                        /\ Hearing[i].id = Hearing[j].id}}

TextHeard == {i \in DOMAIN Hearing : Hearing[i].kind = "text"}

\* However the chunks fall, a turn that hears Done has heard the text as far as it
\* was said, in order, and every call with its own arguments, put together in
\* order, also when several calls are told at once.  Calls of which no arguments
\* are ever said, not even an empty string, are lost: openai_compat waits for them
\* before it tells the start.
HeardAsSaid ==
    pc = "done" /\ events[FirstEnd] = Done =>
        /\ {Hearing[i].number : i \in TextHeard} = 0..(said.text - 1)
        /\ \A i, j \in TextHeard : i < j => Hearing[i].number < Hearing[j].number
        /\ Dispatched = {[id |-> i, args |-> said.calls[i]] :
                            i \in {i \in DOMAIN said.calls : said.calls[i] # <<>>}}

\* A call ends in exactly one Done or Error, the last event it sends.  The two
\* providers that do not look at what a last line without its end has done may
\* send Done behind it.
EndsOnce ==
    pc = "done" =>
        /\ \E i \in DOMAIN events : IsEnd(events[i])
        /\ FirstEnd # Len(events) =>
              /\ said.cut /\ provider \in {"openai_compat", "account"}
              /\ FirstEnd = Len(events) - 1 /\ events[Len(events)] = Done

\* No request is sent again unless the session or the model behind it is new: the
\* fallbacks between APIs, sessions and models do not chase each other.
EachAttemptOnce ==
    \A i, j \in DOMAIN attempts :
        i # j => <<attempts[i].session, attempts[i].model, attempts[i].api>>
                   # <<attempts[j].session, attempts[j].model, attempts[j].api>>

\* What is sent is the end of the transcript, in order and with the newest
\* message, but for messages without text; and before it the summary of what is
\* missing.  Something is missing only if the transcript has outgrown the window,
\* and then no more than was asked for: what stays reaches the budget (which may be
\* nothing, but the newest message stays), or all would have stayed and 60 % go.
NewestAreSent ==
    pc = "sending" =>
        LET all     == request.transcript
            Rest(k) == TokensOf(SubSeq(all, k, Len(all)))
        IN  \E k \in DOMAIN all :
              /\ request.messages =
                    Conversation(provider, (IF k = 1 THEN <<>> ELSE <<Summary>>)
                                             \o SubSeq(all, k, Len(all)))
              /\ k > 1 => /\ k > 2
                          /\ EstimateTokens(all) >= UsableTokens(Window, Reserve)
                          /\ \/ /\ Rest(k) >= request.keep
                                /\ k < Len(all) => Rest(k + 1) < request.keep
                             \/ /\ Rest(2) < request.keep
                                /\ TokensOf(SubSeq(all, 1, k - 2)) * 10 < EstimateTokens(all) * 6

=============================================================================
