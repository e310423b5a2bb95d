---------------------------- MODULE EventChannel ----------------------------
(***************************************************************************)
(* What the tasks of artui share with the terminal loop: the bounded mpsc  *)
(* channel of AppEvents (lib.rs creates it, every task holds a Sender, the *)
(* main loop the Receiver), and the oneshot reply channels that approval   *)
(* prompts carry inside those events.                                      *)
(*                                                                         *)
(* Events that only change the status line, the token counters or a cached *)
(* label (Usage, Quote, SnapshotSaved, ...) are left out.                  *)
(***************************************************************************)
EXTENDS Permissions, Naturals, Sequences

CONSTANTS
    Turns,      \* the run_turn tasks a session may start
    NoTurn,     \* "from" of an event no turn sent
    MaxSteps,   \* max_steps_per_turn
    MaxCalls,   \* bound: tool calls in one response of the model
    ChanCap     \* capacity of the channel (64 in lib.rs)

ASSUME ChannelAssumption ==
    /\ NoTurn \notin Turns
    /\ MaxSteps \in Nat \ {0}
    /\ MaxCalls \in Nat \ {0}
    /\ ChanCap \in Nat \ {0}

VARIABLES
    events,     \* the channel, oldest event first
    answers     \* what each oneshot delivered: a reply, or "dropped" when its
                \* Sender was destroyed unused

\* step and idx stand for the call id; a prompt is its reply Sender.
Prompts == [turn : Turns, step : 1..MaxSteps, idx : 1..MaxCalls, tool : Tools]
Replies == {"once", "session", "deny"}
Answers == [prompt : Prompts, reply : Replies \union {"dropped"}]

AppEvents ==
    [kind : {"text", "done", "error"}, from : Turns]
      \union [kind : {"status"}, from : Turns \union {NoTurn}]
      \union [kind : {"message", "models", "no_models"}, from : {NoTurn}]
      \union [kind : {"approval"}, prompt : Prompts]

Event(kind, from)  == [kind |-> kind, from |-> from]
ApprovalRequest(p) == [kind |-> "approval", prompt |-> p]

\* event_tx.send(e).await: the sender waits until there is room.
Send(e) == /\ Len(events) < ChanCap
           /\ events' = Append(events, e)

\* The prompts whose Sender sits in a channel with contents s.
PromptsIn(s) == {s[i].prompt : i \in {j \in DOMAIN s : s[j].kind = "approval"}}
Queued == PromptsIn(events)

Answered(p) == \E a \in answers : a.prompt = p

ChannelTypeOK ==
    /\ events \in Seq(AppEvents)
    /\ Len(events) <= ChanCap
    /\ answers \subseteq Answers
=============================================================================
