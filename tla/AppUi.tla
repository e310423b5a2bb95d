-------------------------------- MODULE AppUi --------------------------------
(***************************************************************************)
(* The terminal user interface: the App state machine of src/app.rs, the   *)
(* key handling of src/lib.rs that drives it and the login and refresh     *)
(* tasks it starts besides turns.  One thread runs all of it: an action    *)
(* handles one event of the channel or one key, to the end.                *)
(*                                                                         *)
(* As in TurnLoop, a definition named like the next one and then some is   *)
(* that definition with a plausible mistake.                               *)
(***************************************************************************)
EXTENDS EventChannel

CONSTANTS
    Keys,       \* what the user does in this instance, see KeyKinds
    Pickers,    \* the modal pickers the user opens
    MaxTasks,   \* bound: login and refresh tasks alive at a time
    NoPrompt

KeyKinds == {"type", "paste", "complete", "submit", "notice", "status", "cycle",
             "agent", "login", "clear", "escape", "quit"}

ASSUME UiAssumption ==
    /\ Keys \subseteq KeyKinds
    /\ Pickers \subseteq {"theme", "statusline", "agent", "model", "login"}
    /\ MaxTasks \in Nat
    /\ NoPrompt \notin Prompts

VARIABLES
    mode,       \* UiMode; also what keeps the user from submitting again
    picker,     \* the open picker, or "none"
    agent,      \* active_agent: what the user sees and the prompt tells the model
    pending,    \* pending_approval: the prompt whose Sender the UI holds
    typed,      \* the input line: nothing, prose or a slash command
    tail,       \* whose the last assistant message of the transcript is: the
                \* turn that appends to it, a "notice", or there is "none"
    tasks,      \* login and model refresh tasks alive, as two counters
    quit

uiVars == <<mode, picker, agent, pending, typed, tail, tasks, quit>>

Modes == {"normal", "input", "streaming", "approval"}

UiInit ==
    /\ mode = "input" /\ picker = "none" /\ agent = "build"
    /\ pending = NoPrompt /\ typed = "nothing" /\ tail = "none"
    /\ tasks = [login |-> 0, refresh |-> 0]
    /\ quit = FALSE

-----------------------------------------------------------------------------
(* App::handle_event *)

Take(kinds) == /\ events # <<>>
               /\ Head(events).kind \in kinds
               /\ events' = Tail(events)

\* A token goes to the last assistant message, whosever it is; without one
\* it is dropped.
ShowText ==
    /\ Take({"text"})
    /\ UNCHANGED <<answers, uiVars>>

\* Done, Error and every status line of a login end the streaming mode,
\* without asking which task sent them.
BackToInput ==
    /\ Take({"done", "error", "status"})
    /\ mode' = "input"
    /\ UNCHANGED <<answers, picker, agent, pending, typed, tail, tasks, quit>>

ShowMessage ==
    /\ Take({"message"})
    /\ mode' = "input" /\ tail' = "notice"
    /\ UNCHANGED <<answers, picker, agent, pending, typed, tasks, quit>>

ModelsRefreshed ==
    /\ Take({"models", "no_models"})
    /\ mode' = IF picker = "model" THEN "normal" ELSE "input"
    /\ tail' = IF Head(events).kind = "no_models" THEN "notice" ELSE tail
    /\ UNCHANGED <<answers, picker, agent, pending, typed, tasks, quit>>

OpenApprovalParked ==
    /\ Take({"approval"})
    /\ pending' = Head(events).prompt
    /\ mode' = "approval"
    /\ UNCHANGED <<answers, picker, agent, typed, tail, tasks, quit>>

\* The new prompt replaces the one on display; its Sender goes with it.
OpenApproval ==
    /\ Take({"approval"})
    /\ pending' = Head(events).prompt
    /\ answers' = IF pending = NoPrompt THEN answers
                  ELSE answers \union {[prompt |-> pending, reply |-> "dropped"]}
    /\ mode' = "approval"
    /\ UNCHANGED <<picker, agent, typed, tail, tasks, quit>>

HandleEvent ==
    ShowText \/ BackToInput \/ ShowMessage \/ ModelsRefreshed \/ OpenApproval

-----------------------------------------------------------------------------
(* Keys *)

\* While a prompt is on display every other key is ignored, Ctrl-C included.
AnswerKey ==
    /\ pending # NoPrompt
    /\ \E reply \in Replies :
         answers' = answers \union {[prompt |-> pending, reply |-> reply]}
    /\ pending' = NoPrompt
    /\ mode' = "streaming"
    /\ UNCHANGED <<events, picker, agent, typed, tail, tasks, quit>>

Free(key) == key \in Keys /\ pending = NoPrompt

QuitKey ==
    /\ Free("quit")
    /\ quit' = TRUE
    /\ UNCHANGED <<events, answers, mode, picker, agent, pending, typed, tail, tasks>>

ClearKey ==
    /\ Free("clear")
    /\ tail' = "none"
    /\ UNCHANGED <<events, answers, mode, picker, agent, pending, typed, tasks, quit>>

\* Every picker ends like this, also those of themes and status lines, whose choice
\* and cursor are left out.
ClosePicker == picker' = "none" /\ mode' = "input"

\* The cursor can be moved to any agent.
SelectAgent == agent' \in Agents

\* cancel_input: closes the picker, else clears the line; not while streaming.
EscapeKey ==
    /\ Free("escape")
    /\ \/ picker # "none" /\ ClosePicker /\ UNCHANGED typed
       \/ /\ picker = "none" /\ mode # "streaming"
          /\ typed' = "nothing" /\ mode' = "normal" /\ UNCHANGED picker
    /\ UNCHANGED <<events, answers, agent, pending, tail, tasks, quit>>

TypeKey ==
    /\ Free("type")
    /\ mode # "streaming" /\ picker = "none"
    /\ typed' \in {"nothing", "prose", "command"}
    /\ mode' = "input"
    /\ UNCHANGED <<events, answers, picker, agent, pending, tail, tasks, quit>>

\* A bracketed paste goes straight to the line, whatever the mode.
Paste ==
    /\ "paste" \in Keys
    /\ typed' \in IF typed = "prose" THEN {"prose"} ELSE {"prose", "command"}
    /\ UNCHANGED <<events, answers, mode, picker, agent, pending, tail, tasks, quit>>

\* Tab completes a command name in any mode.
CompleteKey ==
    /\ Free("complete")
    /\ typed = "command"
    /\ mode' = "input"
    /\ UNCHANGED <<events, answers, picker, agent, pending, typed, tail, tasks, quit>>

CycleKey ==
    /\ Free("cycle")
    /\ mode # "streaming" /\ picker = "none" /\ typed = "nothing"
    /\ agent' \in Agents \ {agent}
    /\ UNCHANGED <<events, answers, mode, picker, pending, typed, tail, tasks, quit>>

Start(task) == /\ tasks[task] < MaxTasks
               /\ tasks' = [tasks EXCEPT ![task] = @ + 1]

\* login_provider: a status line only, a message, or a message and a task.
LoginProvider ==
    \/ UNCHANGED <<tail, tasks>>
    \/ tail' = "notice" /\ (UNCHANGED tasks \/ Start("login"))

\* Enter in a picker.  select_login_provider posts a message of its own.
SelectKey ==
    /\ pending = NoPrompt /\ picker # "none"
    /\ ClosePicker
    /\ IF picker = "agent" THEN SelectAgent ELSE UNCHANGED agent
    /\ IF picker = "login"
       THEN tail' = "notice" /\ (UNCHANGED tasks \/ Start("login"))
       ELSE UNCHANGED <<tail, tasks>>
    /\ UNCHANGED <<events, answers, pending, typed, quit>>

\* The key l in the model picker.
LoginFromModelPicker ==
    /\ pending = NoPrompt /\ picker = "model"
    /\ ClosePicker
    /\ LoginProvider
    /\ UNCHANGED <<events, answers, agent, pending, typed, quit>>

-----------------------------------------------------------------------------
(* Enter on the input line: submit_input and run_slash_command *)

EnterAnytime(line) == /\ pending = NoPrompt /\ picker = "none"
                      /\ typed = line /\ typed' = "nothing"

Enter(line) == /\ pending = NoPrompt /\ picker = "none"
               /\ mode # "streaming"
               /\ typed = line /\ typed' = "nothing"

\* The message of turn t: the user's text, then the answer it will fill.
SubmitMessage(t) ==
    /\ "submit" \in Keys
    /\ Enter("prose")
    /\ tail' = t
    /\ mode' = "streaming"
    /\ UNCHANGED <<picker, agent, pending, tasks, quit>>

\* /help, /mcp, /permissions, /snapshot ... post a message; /clear; /skill clear.
NoticeCommand ==
    /\ "notice" \in Keys
    /\ Enter("command")
    /\ tail' \in {"notice", "none", tail}
    /\ mode' = "input"
    /\ UNCHANGED <<events, answers, picker, agent, pending, tasks, quit>>

\* /theme, /statusline, /agent, /model, /login.  Opening the model picker
\* refreshes the models when Copilot is connected.
OpenPicker ==
    /\ Enter("command")
    /\ picker' \in Pickers
    /\ mode' = "normal"
    /\ \/ UNCHANGED tasks
       \/ picker' = "model" /\ Start("refresh")
    /\ UNCHANGED <<events, answers, agent, pending, tail, quit>>

AgentCommand ==
    /\ "agent" \in Keys
    /\ Enter("command")
    /\ agent' \in Agents
    /\ UNCHANGED <<events, answers, mode, picker, pending, tail, tasks, quit>>

\* /login <provider>, which leaves the mode alone; /model refresh.
AccountCommand ==
    /\ "login" \in Keys
    /\ Enter("command")
    /\ LoginProvider \/ (Start("refresh") /\ UNCHANGED tail)
    /\ UNCHANGED <<events, answers, mode, picker, agent, pending, quit>>

\* /model <name>, /logout, an unknown command: a status line, no mode.
StatusCommand ==
    /\ "status" \in Keys
    /\ Enter("command")
    /\ UNCHANGED <<events, answers, mode, picker, agent, pending, tail, tasks, quit>>

UserKey ==
    \/ QuitKey \/ ClearKey \/ EscapeKey \/ TypeKey \/ Paste \/ CompleteKey
    \/ CycleKey \/ SelectKey \/ LoginFromModelPicker
    \/ NoticeCommand \/ OpenPicker \/ AgentCommand \/ AccountCommand \/ StatusCommand

-----------------------------------------------------------------------------
(* The tasks besides turns, as seen from the channel *)

LoginReports ==
    /\ tasks.login > 0
    /\ \E kind \in {"status", "message", "models"} : Send(Event(kind, NoTurn))
    /\ \/ UNCHANGED tasks
       \/ tasks' = [tasks EXCEPT !.login = @ - 1]
    /\ UNCHANGED <<answers, mode, picker, agent, pending, typed, tail, quit>>

RefreshEnds ==
    /\ tasks.refresh > 0
    /\ \E kind \in {"models", "no_models"} : Send(Event(kind, NoTurn))
    /\ tasks' = [tasks EXCEPT !.refresh = @ - 1]
    /\ UNCHANGED <<answers, mode, picker, agent, pending, typed, tail, quit>>

UiStep == HandleEvent \/ AnswerKey \/ UserKey \/ LoginReports \/ RefreshEnds
=============================================================================
