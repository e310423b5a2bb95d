------------------------------ MODULE TurnLoop ------------------------------
(***************************************************************************)
(* The agent loop, run_turn of src/agent/loop.rs, as spawn_app_request     *)
(* (src/lib.rs) starts it: one task per submitted message.  Several may    *)
(* run at once; they share the event channel and the permission engine.    *)
(*                                                                         *)
(* An action is what a task does between two points where it can be        *)
(* suspended: a send on the channel, a lock, a receive.  Local computation *)
(* before an await is merged with it.  Snapshots, hooks and the tools      *)
(* themselves are awaited in place and send no event modelled here.        *)
(*                                                                         *)
(* A definition whose name extends that of the next one (CloseTurnSilently *)
(* before CloseTurn) is that definition with a plausible mistake; no       *)
(* specification uses it.  README.md says which property notices which.    *)
(***************************************************************************)
EXTENDS EventChannel

CONSTANTS
    ModelCalls,     \* bound: the tool calls the model may ask for
    MaxNudges,      \* max_nudges_per_turn
    MayCompact,     \* can the transcript outgrow the context window?
    Sayings,        \* what the model's text may read like
    EndTurnFlags,   \* end_turn of the provider's Done; every provider in
                    \* src/providers sends TRUE
    MayVanish,      \* can a response end with neither Done nor Error?
    WideOutput,     \* can byte 200 of a tool result fall inside a character?
    EngineAtStart   \* the engine App::new builds

ASSUME LoopAssumption ==
    /\ ModelCalls \subseteq Calls
    /\ MaxNudges \in Nat
    /\ {MayCompact, MayVanish, WideOutput} \subseteq BOOLEAN
    /\ Sayings \subseteq {"plain", "promise"}
    /\ EndTurnFlags \subseteq BOOLEAN
    /\ EngineAtStart \in Engines
    /\ EngineAtStart.session = {}

VARIABLES
    pc,         \* where each turn is suspended
    loc,        \* the locals of each turn
    engine,     \* the shared PermissionEngine
    cancelled   \* the turns whose CancellationToken has fired

loopVars == <<pc, loc, engine, cancelled>>

Live  == {"top", "limit", "compacting", "streaming", "dispatch", "refused",
          "asking", "waiting", "running", "reporting", "closing"}
Over  == {"ended", "limited", "failed", "stopped", "crashed"}
Active(t) == pc[t] \in Live

Locals == [steps   : 0..(MaxSteps + 1),
           nudges  : 0..MaxNudges,
           said    : {"silent", "plain", "promise"},
           calls   : Seq(ModelCalls),
           endTurn : BOOLEAN,
           next    : 1..(MaxCalls + 1),
           unread  : Nat]   \* tool results no request has carried yet

LoopInit ==
    /\ pc  = [t \in Turns |-> "idle"]
    /\ loc = [t \in Turns |-> [steps |-> 0, nudges |-> 0, said |-> "silent", calls |-> <<>>,
                               endTurn |-> FALSE, next |-> 1, unread |-> 0]]
    /\ engine = EngineAtStart
    /\ cancelled = {}

Goto(t, to) == pc' = [pc EXCEPT ![t] = to]

CurrentCall(t)   == loc[t].calls[loc[t].next]
CurrentPrompt(t) == [turn |-> t, step |-> loc[t].steps, idx |-> loc[t].next,
                     tool |-> CurrentCall(t).name]

-----------------------------------------------------------------------------
(* Starting a turn, and the top of its loop. *)

Spawn(t) ==
    /\ pc[t] = "idle"
    /\ Goto(t, "top")
    /\ UNCHANGED <<events, answers, loc, engine, cancelled>>

\* A turn cancelled between two steps breaks out without telling anybody.
StopAtTop(t) ==
    /\ pc[t] = "top" /\ t \in cancelled
    /\ Goto(t, "stopped")
    /\ UNCHANGED <<events, answers, loc, engine, cancelled>>

NewStep(t) == [loc EXCEPT ![t].steps = @ + 1]

WithinLimitLate(t) == loc[t].steps <= MaxSteps
WithinLimit(t) == loc[t].steps + 1 <= MaxSteps

ReachLimit(t) ==
    /\ pc[t] = "top" /\ t \notin cancelled
    /\ ~WithinLimit(t)
    /\ loc' = NewStep(t)
    /\ Send(Event("text", t))
    /\ Goto(t, "limit")
    /\ UNCHANGED <<answers, engine, cancelled>>

LimitDone(t) ==
    /\ pc[t] = "limit"
    /\ Send(Event("done", t))
    /\ Goto(t, "limited")
    /\ UNCHANGED <<answers, loc, engine, cancelled>>

StartCompaction(t) ==
    /\ MayCompact
    /\ pc[t] = "top" /\ t \notin cancelled
    /\ WithinLimit(t)
    /\ loc' = NewStep(t)
    /\ Send(Event("status", t))
    /\ Goto(t, "compacting")
    /\ UNCHANGED <<answers, engine, cancelled>>

\* A request carries every tool result pushed so far.
Request(now, t) ==
    [now EXCEPT ![t].said = "silent", ![t].calls = <<>>,
                ![t].endTurn = FALSE, ![t].unread = 0]

FinishCompaction(t) ==
    /\ pc[t] = "compacting"
    /\ Send(Event("status", t))
    /\ loc' = Request(loc, t)
    /\ Goto(t, "streaming")
    /\ UNCHANGED <<answers, engine, cancelled>>

OpenStream(t) ==
    /\ pc[t] = "top" /\ t \notin cancelled
    /\ WithinLimit(t)
    /\ loc' = Request(NewStep(t), t)
    /\ Goto(t, "streaming")
    /\ UNCHANGED <<events, answers, engine, cancelled>>

-----------------------------------------------------------------------------
(* Receiving one response of the model. *)

CancelStream(t) ==
    /\ pc[t] = "streaming" /\ t \in cancelled
    /\ Send(Event("done", t))
    /\ Goto(t, "stopped")
    /\ UNCHANGED <<answers, loc, engine, cancelled>>

StreamText(t) ==
    /\ pc[t] = "streaming"
    /\ \E said \in Sayings : loc' = [loc EXCEPT ![t].said = said]
    /\ Send(Event("text", t))
    /\ UNCHANGED <<answers, pc, engine, cancelled>>

\* ToolCallStart and the fragments of its arguments stay inside the loop; a
\* call counts once its ToolCallEnd arrives, so they are one step.
CollectCall(t) ==
    /\ pc[t] = "streaming"
    /\ Len(loc[t].calls) < MaxCalls
    /\ \E call \in ModelCalls : loc' = [loc EXCEPT ![t].calls = Append(@, call)]
    /\ UNCHANGED <<events, answers, pc, engine, cancelled>>

\* The text promises to act, and the model has not been nudged too often.
MayNudge(t) == loc[t].said = "promise" /\ loc[t].nudges < MaxNudges

\* What the loop does with a response that is complete.
AfterStream(t, endTurn) ==
    IF loc[t].calls # <<>>
    THEN /\ loc' = [loc EXCEPT ![t].nudges = 0, ![t].next = 1, ![t].endTurn = endTurn]
         /\ Goto(t, "dispatch")
    ELSE IF MayNudge(t)
    THEN /\ loc' = [loc EXCEPT ![t].nudges = @ + 1]
         /\ Goto(t, "top")
    ELSE /\ Goto(t, "ended")
         /\ UNCHANGED loc

StreamDoneAlwaysForwarded(t) ==
    /\ pc[t] = "streaming"
    /\ \E endTurn \in EndTurnFlags : AfterStream(t, endTurn)
    /\ Send(Event("done", t))
    /\ UNCHANGED <<answers, engine, cancelled>>

\* The provider's Done is forwarded at once when there is no call to make,
\* before the loop decides whether to nudge the model.
StreamDone(t) ==
    /\ pc[t] = "streaming"
    /\ \E endTurn \in EndTurnFlags : AfterStream(t, endTurn)
    /\ IF loc[t].calls = <<>> THEN Send(Event("done", t)) ELSE UNCHANGED events
    /\ UNCHANGED <<answers, engine, cancelled>>

StreamError(t) ==
    /\ pc[t] = "streaming"
    /\ Send(Event("error", t))
    /\ Goto(t, "failed")
    /\ UNCHANGED <<answers, loc, engine, cancelled>>

\* The stream task drops its Sender without Done or Error: the provider
\* broke off, or the task has seen the cancellation first.
StreamClosed(t) ==
    /\ pc[t] = "streaming"
    /\ MayVanish \/ t \in cancelled
    /\ AfterStream(t, FALSE)
    /\ UNCHANGED <<events, answers, engine, cancelled>>

-----------------------------------------------------------------------------
(* Dispatching the calls of a response, in order. *)

CancelDispatch(t) ==
    /\ pc[t] = "dispatch" /\ t \in cancelled
    /\ Send(Event("done", t))
    /\ Goto(t, "stopped")
    /\ UNCHANGED <<answers, loc, engine, cancelled>>

Gate(t) ==
    /\ pc[t] = "dispatch" /\ t \notin cancelled
    /\ LET decision == Classify(engine, CurrentCall(t))
       IN  Goto(t, IF decision = "allow" THEN "running"
                   ELSE IF decision = "ask" THEN "asking" ELSE "refused")
    /\ UNCHANGED <<events, answers, loc, engine, cancelled>>

TellRefusal(t) ==
    /\ pc[t] = "refused"
    /\ Send(Event("text", t))
    /\ Goto(t, "reporting")
    /\ UNCHANGED <<answers, loc, engine, cancelled>>

AskUser(t) ==
    /\ pc[t] = "asking"
    /\ Send(ApprovalRequest(CurrentPrompt(t)))
    /\ Goto(t, "waiting")
    /\ UNCHANGED <<answers, loc, engine, cancelled>>

\* A dropped Sender reads as Deny.
ConsentsUnlessDenied(reply) == reply # "deny"
Consents(reply) == reply \in {"once", "session"}

\* What the engine learns from an answer about a tool.
LearnFromAnyYes(reply, tool) ==
    IF Consents(reply) THEN ApproveForSession(engine, tool) ELSE engine
Learn(reply, tool) ==
    IF reply = "session" THEN ApproveForSession(engine, tool) ELSE engine

\* A session approval is recorded in the engine before the tool runs.
HearAnswer(t) ==
    /\ pc[t] = "waiting"
    /\ \E a \in answers :
         /\ a.prompt = CurrentPrompt(t)
         /\ Goto(t, IF Consents(a.reply) THEN "running" ELSE "reporting")
         /\ engine' = Learn(a.reply, CurrentCall(t).name)
    /\ UNCHANGED <<events, answers, loc, cancelled>>

CancelWaitTimeout(t) ==
    /\ pc[t] = "waiting"
    /\ Goto(t, "reporting")
    /\ UNCHANGED <<events, answers, loc, engine, cancelled>>

\* The turn stops listening; its prompt stays where it is.
CancelWait(t) ==
    /\ pc[t] = "waiting" /\ t \in cancelled
    /\ Goto(t, "reporting")
    /\ UNCHANGED <<events, answers, loc, engine, cancelled>>

RunTool(t) ==
    /\ pc[t] = "running"
    /\ Goto(t, "reporting")
    /\ UNCHANGED <<events, answers, loc, engine, cancelled>>

\* format_tool_result cuts the result at byte 200: inside a character that
\* panics, and the task is gone without a word.
PreviewPanics(t) ==
    /\ WideOutput
    /\ pc[t] = "running"
    /\ Goto(t, "crashed")
    /\ UNCHANGED <<events, answers, loc, engine, cancelled>>

\* Show the result, push it on the request, go on to the next call.
Report(t) ==
    /\ pc[t] = "reporting"
    /\ Send(Event("text", t))
    /\ loc' = [loc EXCEPT ![t].next = @ + 1, ![t].unread = @ + 1]
    /\ Goto(t, IF loc[t].next < Len(loc[t].calls) THEN "dispatch"
               ELSE IF loc[t].endTurn THEN "closing" ELSE "top")
    /\ UNCHANGED <<answers, engine, cancelled>>

CloseTurnSilently(t) ==
    /\ pc[t] = "closing"
    /\ Goto(t, "ended")
    /\ UNCHANGED <<events, answers, loc, engine, cancelled>>

CloseTurn(t) ==
    /\ pc[t] = "closing"
    /\ Send(Event("done", t))
    /\ Goto(t, "ended")
    /\ UNCHANGED <<answers, loc, engine, cancelled>>

-----------------------------------------------------------------------------
StreamEnds(t) == StreamDone(t) \/ StreamError(t) \/ StreamClosed(t)

\* The steps a turn takes by itself, whatever the model, the user or the
\* tool does.
Advance(t) ==
    \/ StopAtTop(t) \/ ReachLimit(t) \/ LimitDone(t)
    \/ StartCompaction(t) \/ FinishCompaction(t) \/ OpenStream(t)
    \/ CancelStream(t) \/ CancelDispatch(t) \/ Gate(t)
    \/ TellRefusal(t) \/ AskUser(t) \/ HearAnswer(t) \/ CancelWait(t)
    \/ RunTool(t) \/ PreviewPanics(t) \/ Report(t) \/ CloseTurn(t)

Run(t) == Advance(t) \/ StreamText(t) \/ CollectCall(t) \/ StreamEnds(t)

LoopTypeOK ==
    /\ ChannelTypeOK
    /\ pc \in [Turns -> Live \union Over \union {"idle"}]
    /\ loc \in [Turns -> Locals]
    /\ engine \in Engines
    /\ cancelled \subseteq Turns
=============================================================================
