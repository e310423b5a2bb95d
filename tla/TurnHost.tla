------------------------------ MODULE TurnHost ------------------------------
(***************************************************************************)
(* What a turn of the agent loop may expect of whoever starts it and holds *)
(* the receiving end of its channel, and what it promises in return.  The  *)
(* host takes events in order, keeps the prompts it has taken until it     *)
(* answers them or lets go of them, starts turns and may cancel them.      *)
(* ArtUi shows that the terminal user interface is such a host; the tests  *)
(* of the loop and the task tool are others, and they do cancel.           *)
(***************************************************************************)
EXTENDS TurnLoop

CONSTANTS
    MayCancel,      \* does this host ever fire a CancellationToken?
    HostNews        \* the kinds of event its other tasks send

ASSUME HostAssumption ==
    /\ MayCancel \in BOOLEAN
    /\ HostNews \subseteq {"status", "message", "models", "no_models"}

VARIABLE open           \* the prompts in the host's hands

vars == <<events, answers, loopVars, open>>

Init ==
    /\ events = <<>>
    /\ answers = {}
    /\ LoopInit
    /\ open = {}

\* What destroying a prompt tells its turn (with a mistake: nothing).
LetGoSilently(lost) == {}
LetGo(lost) == {[prompt |-> p, reply |-> "dropped"] : p \in lost}

\* The host takes the oldest event.  It may let go of prompts it held.
HostTakes ==
    /\ events # <<>>
    /\ events' = Tail(events)
    /\ LET e   == Head(events)
           new == IF e.kind = "approval" THEN {e.prompt} ELSE {}
       IN  \E lost \in SUBSET open :
             /\ open' = (open \ lost) \union new
             /\ answers' = answers \union LetGo(lost)
    /\ UNCHANGED loopVars

HostAnswersAndKeeps ==
    /\ \E p \in open, reply \in Replies :
         answers' = answers \union {[prompt |-> p, reply |-> reply]}
    /\ UNCHANGED <<events, loopVars, open>>

HostAnswers ==
    /\ \E p \in open, reply \in Replies :
         /\ open' = open \ {p}
         /\ answers' = answers \union {[prompt |-> p, reply |-> reply]}
    /\ UNCHANGED <<events, loopVars>>

\* Logins and model refreshes share the channel with the turns.
HostInforms ==
    /\ \E kind \in HostNews : Send(Event(kind, NoTurn))
    /\ UNCHANGED <<answers, loopVars, open>>

Cancel(t) ==
    /\ MayCancel
    /\ Active(t) /\ t \notin cancelled
    /\ cancelled' = cancelled \union {t}
    /\ UNCHANGED <<events, answers, pc, loc, engine, open>>

TurnStep(t) == /\ Spawn(t) \/ Run(t)
               /\ UNCHANGED open

Next == \/ HostTakes \/ HostAnswers \/ HostInforms
        \/ \E t \in Turns : TurnStep(t) \/ Cancel(t)

Spec == Init /\ [][Next]_vars

-----------------------------------------------------------------------------
(* Safety *)

TypeOK == LoopTypeOK /\ open \subseteq Prompts

Waiting(t) == pc[t] = "waiting"

\* A reply Sender is moved along, never copied: every prompt is in one place
\* at most, the channel, the host's hands or an answer, and is answered once.
DistinctPrompts(s) ==
    \A i, j \in DOMAIN s :
        (s[i].kind = "approval" /\ s[j].kind = "approval" /\ s[i].prompt = s[j].prompt) => i = j

OneOwner ==
    /\ DistinctPrompts(events)
    /\ \A p \in Queued : p \notin open /\ ~Answered(p)
    /\ \A p \in open : ~Answered(p)
    /\ \A a, b \in answers : a.prompt = b.prompt => a = b

\* A turn that waits for the user can be answered: its prompt is still on
\* its way, in the host's hands, or answered already (loop.rs, the select on
\* rx_answer, which has no timeout).
NoLostPrompt ==
    \A t \in Turns : Waiting(t) =>
        \/ CurrentPrompt(t) \in Queued \union open
        \/ Answered(CurrentPrompt(t))

\* A tool runs only when the engine allows the call or the user said yes to
\* this very call, also when another turn changed the engine in between.
Consent ==
    \A t \in Turns : pc[t] = "running" =>
        \/ Classify(engine, CurrentCall(t)) = "allow"
        \/ \E a \in answers : /\ a.prompt = CurrentPrompt(t)
                              /\ a.reply \in {"once", "session"}

\* A tool is on the session list only because the user answered "session" to
\* a prompt about that tool.
SessionGrounded ==
    \A tool \in engine.session :
        \E a \in answers : a.reply = "session" /\ a.prompt.tool = tool

-----------------------------------------------------------------------------
(* What makes the properties above inductive; see TurnHostProofs. *)

Dispatch == {"dispatch", "refused", "asking", "waiting", "running", "reporting"}

\* Where a turn is tells how far its counters have come.
Fits(at, l) ==
    /\ Len(l.calls) <= MaxCalls
    /\ at \notin {"limit", "limited"} => l.steps <= MaxSteps
    /\ at \in Dispatch \union {"compacting", "streaming"} => l.steps >= 1
    /\ at \in Dispatch => l.next <= Len(l.calls)

Positions == \A t \in Turns : Fits(pc[t], loc[t])

\* A prompt about a call the turn has put to the user: one of an earlier step,
\* or a call of this step up to the one at hand.
Issued(p) ==
    LET t == p.turn
    IN  \/ p.step < loc[t].steps
        \/ /\ p.step = loc[t].steps
           /\ \/ pc[t] \in Over \union {"top", "closing"}
              \/ pc[t] \in Dispatch /\ p.idx < loc[t].next
              \/ pc[t] \in {"waiting", "running", "reporting"} /\ p.idx = loc[t].next

PromptsAreIssued ==
    /\ \A p \in Queued \union open : Issued(p)
    /\ \A a \in answers : Issued(a.prompt)

=============================================================================
