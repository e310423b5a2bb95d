-------------------------------- MODULE ArtUi --------------------------------
(***************************************************************************)
(* The running program: the user interface and the turns it starts, around *)
(* one event channel.  main (src/lib.rs) runs the user interface on its    *)
(* own thread; turns are tokio tasks.  No key reaches a CancellationToken  *)
(* and no task outlives the program.                                       *)
(***************************************************************************)
EXTENDS TurnLoop, AppUi

vars == <<events, answers, loopVars, uiVars>>

\* The main loop drains the events of the start-up before it reads a key.
Init ==
    /\ events = <<>>
    /\ answers = {}
    /\ LoopInit
    /\ UiInit

Submit(t) == SubmitMessage(t) /\ Spawn(t)

TurnStep(t) == Run(t) /\ UNCHANGED uiVars

Next ==
    /\ ~quit
    /\ \/ UiStep /\ UNCHANGED loopVars
       \/ \E t \in Turns : Submit(t) \/ TurnStep(t)

Spec == Init /\ [][Next]_vars

\* The runtime polls every task, the user interface drains the channel, the
\* user answers a prompt some day (not otherwise obliged to do anything),
\* every response ends and every tool returns.  Senders waiting for room
\* are served in turn.
Fairness ==
    /\ \A t \in Turns : /\ SF_vars(~quit /\ Advance(t) /\ UNCHANGED uiVars)
                        /\ SF_vars(~quit /\ StreamEnds(t) /\ UNCHANGED uiVars)
    /\ WF_vars(~quit /\ HandleEvent /\ UNCHANGED loopVars)
    /\ WF_vars(~quit /\ AnswerKey /\ UNCHANGED loopVars)

FairSpec == Spec /\ Fairness

-----------------------------------------------------------------------------
(* The user interface as the host of turns *)

Held == IF pending = NoPrompt THEN {} ELSE {pending}

Host == INSTANCE TurnHost
            WITH open <- Held, MayCancel <- FALSE,
                 HostNews <- {"status", "message", "models", "no_models"}

\* Whatever the user and the login tasks do, the program is a host as
\* TurnHost describes it: it takes events in order, answers a prompt only
\* while it holds it, and never loses one silently.
IsHost == Host!Spec

-----------------------------------------------------------------------------
(* Safety *)

\* The prompt on display belongs to the call its turn is waiting on: an
\* answer key never decides about a call that is settled already.  The approval
\* mode shows a prompt (the converse fails: a status line of another task leaves
\* the mode while the prompt stays).
PromptIsLive ==
    /\ pending # NoPrompt => /\ pc[pending.turn] = "waiting"
                             /\ pending = CurrentPrompt(pending.turn)
    /\ mode = "approval" => pending # NoPrompt

\* The streaming mode, which locks the input line, has an end: some turn is
\* alive, or the event that unlocks it is in the channel.
StreamingHasEnd ==
    mode = "streaming" =>
        \/ \E t \in Turns : Active(t)
        \/ \E i \in DOMAIN events : events[i].kind \in {"done", "error", "status", "message"}

-----------------------------------------------------------------------------
(* What holds while nothing ends the streaming mode early: no compaction, no
   nudge, no login task and no command completed from a paste. *)

ActiveTurns == {t \in Turns : Active(t)}

\* The mode works as a lock: two turns are never alive at once, so edits of
\* one cannot mix with those of another.
OneTurnAtATime == \A t, u \in ActiveTurns : t = u

\* The text of a turn lands in that turn's message, unless the user cleared
\* the transcript meanwhile.
TextInOwnMessage ==
    [][ShowText => tail \in {Head(events).from, "none"}]_vars

\* What src/permissions/mod.rs:3-4 says of Plan: no tool runs that the engine
\* would deny under the agent on display.  It fails, for the engine stays with
\* the agent of the start-up.
AgentIsObeyed ==
    \A t \in Turns : pc[t] = "running" =>
        Classify([engine EXCEPT !.agent = agent], CurrentCall(t)) # "deny"

-----------------------------------------------------------------------------
(* Liveness, as long as the user does not quit *)

\* A turn that asks gets on, and every turn ends: there is always a time ahead when
\* none is alive.
TurnsEnd == []<>(ActiveTurns = {})

\* The input line comes back.
InputReturns == mode = "streaming" ~> mode # "streaming"
=============================================================================
