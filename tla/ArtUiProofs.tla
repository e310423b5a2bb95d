---------------------------- MODULE ArtUiProofs ----------------------------
(***************************************************************************)
(* Proofs about ArtUi, for any number of turns, any keys and pickers, any  *)
(* capacity of the channel.  The program is a host of its turns as         *)
(* TurnHost describes one, so that what TurnHostProofs proves of hosts     *)
(* holds of it; the prompt on display is about a call that is still        *)
(* waiting; and the mode that locks the input line has an end.             *)
(***************************************************************************)
EXTENDS ArtUi, TLAPS

HostProofs == INSTANCE TurnHostProofs
                  WITH open <- Held, MayCancel <- FALSE,
                       HostNews <- {"status", "message", "models", "no_models"}

\* The vocabulary of the instances is that of the program.
LEMMA SameWords ==
    /\ HostProofs!Calls = Calls /\ HostProofs!Engines = Engines /\ HostProofs!Tools = Tools
    /\ HostProofs!Prompts = Prompts /\ HostProofs!Replies = Replies
    /\ HostProofs!AppEvents = AppEvents
BY DEF Tools, HostProofs!Tools, Calls, Engines, HostProofs!Calls, HostProofs!Engines,
       LspActions, HostProofs!LspActions, Agents, HostProofs!Agents,
       Decisions, HostProofs!Decisions, Prompts, HostProofs!Prompts,
       Replies, HostProofs!Replies, AppEvents, HostProofs!AppEvents

\* What TurnHost assumes of its constants.
LEMMA HostAssumptions ==
    /\ HostProofs!ToolsAssumption /\ HostProofs!ChannelAssumption
    /\ HostProofs!LoopAssumption /\ HostProofs!HostAssumption
BY SameWords, ToolsAssumption, ChannelAssumption, LoopAssumption
   DEF HostProofs!ToolsAssumption, HostProofs!ChannelAssumption,
       HostProofs!LoopAssumption, HostProofs!HostAssumption

\* A turn takes the same steps in the program and in TurnHost.
LEMMA SameClassify ==
    \A eng, call : HostProofs!Classify(eng, call) = Classify(eng, call)
BY DEF HostProofs!Classify, Classify, HostProofs!DefaultDecision, DefaultDecision,
       HostProofs!LspDecision, LspDecision

LEMMA SameSend == \A e : HostProofs!Send(e) <=> Send(e)
BY DEF HostProofs!Send, Send

LEMMA SameSteps ==
    ASSUME NEW t
    PROVE  (HostProofs!Spawn(t) <=> Spawn(t)) /\ (HostProofs!Run(t) <=> Run(t))
<1>1. /\ HostProofs!StopAtTop(t) <=> StopAtTop(t)
      /\ HostProofs!CancelWait(t) <=> CancelWait(t)
      /\ HostProofs!RunTool(t) <=> RunTool(t)
      /\ HostProofs!PreviewPanics(t) <=> PreviewPanics(t)
      /\ HostProofs!Spawn(t) <=> Spawn(t)
      /\ HostProofs!CollectCall(t) <=> CollectCall(t)
  BY DEF HostProofs!StopAtTop, StopAtTop, HostProofs!CancelWait, CancelWait,
         HostProofs!RunTool, RunTool, HostProofs!PreviewPanics, PreviewPanics,
         HostProofs!Spawn, Spawn, HostProofs!CollectCall, CollectCall,
         HostProofs!Goto, Goto
<1>2. /\ HostProofs!LimitDone(t) <=> LimitDone(t)
      /\ HostProofs!CancelStream(t) <=> CancelStream(t)
      /\ HostProofs!CancelDispatch(t) <=> CancelDispatch(t)
      /\ HostProofs!TellRefusal(t) <=> TellRefusal(t)
      /\ HostProofs!CloseTurn(t) <=> CloseTurn(t)
      /\ HostProofs!StreamError(t) <=> StreamError(t)
      /\ HostProofs!StreamText(t) <=> StreamText(t)
      /\ HostProofs!Report(t) <=> Report(t)
  BY SameSend
     DEF HostProofs!LimitDone, LimitDone, HostProofs!Event, Event,
         HostProofs!CancelStream, CancelStream, HostProofs!CancelDispatch,
         CancelDispatch, HostProofs!TellRefusal, TellRefusal, HostProofs!CloseTurn,
         CloseTurn, HostProofs!StreamError, StreamError, HostProofs!StreamText,
         StreamText, HostProofs!Report, Report, HostProofs!Goto, Goto
<1>3. /\ HostProofs!ReachLimit(t) <=> ReachLimit(t)
      /\ HostProofs!StartCompaction(t) <=> StartCompaction(t)
      /\ HostProofs!FinishCompaction(t) <=> FinishCompaction(t)
      /\ HostProofs!OpenStream(t) <=> OpenStream(t)
  BY SameSend
     DEF HostProofs!ReachLimit, ReachLimit, HostProofs!WithinLimit, WithinLimit,
         HostProofs!NewStep, NewStep, HostProofs!Event, Event,
         HostProofs!StartCompaction, StartCompaction, HostProofs!FinishCompaction,
         FinishCompaction, HostProofs!Request, Request, HostProofs!OpenStream,
         OpenStream, HostProofs!Goto, Goto
<1>4. /\ HostProofs!Gate(t) <=> Gate(t)
      /\ HostProofs!AskUser(t) <=> AskUser(t)
      /\ HostProofs!HearAnswer(t) <=> HearAnswer(t)
  BY SameSend, SameClassify
     DEF HostProofs!Gate, Gate, HostProofs!CurrentCall, CurrentCall,
         HostProofs!AskUser, AskUser, HostProofs!ApprovalRequest, ApprovalRequest,
         HostProofs!CurrentPrompt, CurrentPrompt, HostProofs!HearAnswer, HearAnswer,
         HostProofs!Consents, Consents, HostProofs!Learn, Learn,
         HostProofs!ApproveForSession, ApproveForSession, HostProofs!Goto, Goto
<1>5. /\ HostProofs!StreamDone(t) <=> StreamDone(t)
      /\ HostProofs!StreamClosed(t) <=> StreamClosed(t)
  BY SameSend
     DEF HostProofs!StreamDone, StreamDone, HostProofs!AfterStream, AfterStream,
         HostProofs!MayNudge, MayNudge, HostProofs!Event, Event,
         HostProofs!StreamClosed, StreamClosed, HostProofs!Goto, Goto
<1> QED BY <1>1, <1>2, <1>3, <1>4, <1>5
         DEF HostProofs!Run, Run, HostProofs!Advance, Advance, HostProofs!StreamEnds, StreamEnds

-----------------------------------------------------------------------------
(* Every step of the program is one of a host.                             *)

TakesEvent ==
    /\ events # <<>> /\ events' = Tail(events)
    /\ \E lost \in SUBSET Held :
          /\ Held' = (Held \ lost) \union
                        IF Head(events).kind = "approval" THEN {Head(events).prompt} ELSE {}
          /\ answers' = answers \union {[prompt |-> p, reply |-> "dropped"] : p \in lost}
    /\ UNCHANGED loopVars

AnswersPrompt ==
    /\ \E p \in Held, reply \in Replies :
          /\ Held' = Held \ {p}
          /\ answers' = answers \union {[prompt |-> p, reply |-> reply]}
    /\ UNCHANGED <<events, loopVars>>

Informs ==
    /\ \E kind \in {"status", "message", "models", "no_models"} : Send(Event(kind, NoTurn))
    /\ Held' = Held
    /\ UNCHANGED <<answers, loopVars>>

RunsTurn == \E t \in Turns : (Spawn(t) \/ Run(t)) /\ Held' = Held

Idles == Held' = Held /\ UNCHANGED <<events, answers, loopVars>>

HostStep == TakesEvent \/ AnswersPrompt \/ Informs \/ RunsTurn \/ Idles

LEMMA PendingIsHeld ==
    /\ pending' = pending => Held' = Held
    /\ pending # NoPrompt => Held = {pending}
BY DEF Held

\* The channel carries well-formed events, and a prompt is not NoPrompt.
Vocabulary == events \in Seq(AppEvents) /\ Held \subseteq Prompts

LEMMA HandlingTakes ==
    ASSUME Vocabulary, HandleEvent, UNCHANGED loopVars PROVE TakesEvent
<1>1. events # <<>> /\ events' = Tail(events)
  BY DEF HandleEvent, ShowText, BackToInput, ShowMessage, ModelsRefreshed, OpenApproval, Take
<1>2. Head(events) \in AppEvents
  BY <1>1 DEF Vocabulary
<1>3. CASE OpenApproval
  <2>1. Head(events).kind = "approval" /\ pending' = Head(events).prompt
    BY <1>3 DEF OpenApproval, Take
  <2>2. Head(events).prompt \in Prompts
    BY <1>2, <2>1 DEF AppEvents
  <2>3. Held' = {Head(events).prompt}
    BY <2>1, <2>2, UiAssumption DEF Held
  <2>4. answers' = answers \union {[prompt |-> p, reply |-> "dropped"] : p \in Held}
    BY <1>3 DEF OpenApproval, Held
  <2> QED BY <1>1, <2>1, <2>3, <2>4 DEF TakesEvent
<1>4. CASE ShowText \/ BackToInput \/ ShowMessage \/ ModelsRefreshed
  <2>1. /\ Head(events).kind # "approval" /\ answers' = answers /\ pending' = pending
    BY <1>4 DEF ShowText, BackToInput, ShowMessage, ModelsRefreshed, Take, uiVars
  <2>2. Held' = (Held \ {}) \union {}
    BY <2>1, PendingIsHeld
  <2>3. answers' = answers \union {[prompt |-> p, reply |-> "dropped"] : p \in {}}
    BY <2>1
  <2> QED BY <1>1, <2>1, <2>2, <2>3 DEF TakesEvent
<1> QED BY <1>3, <1>4 DEF HandleEvent

LEMMA KeyAnswers ==
    ASSUME AnswerKey, UNCHANGED loopVars PROVE AnswersPrompt
<1>1. Held = {pending} /\ Held' = {}
  BY DEF AnswerKey, Held
<1>2. PICK reply \in Replies : answers' = answers \union {[prompt |-> pending, reply |-> reply]}
  BY DEF AnswerKey
<1>3. Held' = Held \ {pending} /\ pending \in Held
  BY <1>1
<1> QED BY <1>2, <1>3 DEF AnswersPrompt, AnswerKey

LEMMA KeysIdle ==
    ASSUME UserKey PROVE UNCHANGED <<events, answers, pending>>
BY DEF UserKey, QuitKey, ClearKey, EscapeKey, TypeKey, Paste, CompleteKey, CycleKey,
       SelectKey, LoginFromModelPicker, NoticeCommand, OpenPicker, AgentCommand,
       AccountCommand, StatusCommand

LEMMA TasksInform ==
    ASSUME LoginReports \/ RefreshEnds, UNCHANGED loopVars PROVE Informs
<1>1. UNCHANGED <<answers, pending>>
  BY DEF LoginReports, RefreshEnds
<1>2. \E kind \in {"status", "message", "models", "no_models"} : Send(Event(kind, NoTurn))
  BY DEF LoginReports, RefreshEnds
<1> QED BY <1>1, <1>2, PendingIsHeld DEF Informs

LEMMA ProgramSteps == ASSUME Vocabulary, [Next]_vars PROVE HostStep
<1>1. ASSUME NEW t \in Turns, Submit(t) PROVE HostStep
  <2>1. pending' = pending
    BY <1>1 DEF Submit, SubmitMessage
  <2> QED BY <1>1, <2>1, PendingIsHeld DEF Submit, HostStep, RunsTurn
<1>2. ASSUME NEW t \in Turns, TurnStep(t) PROVE HostStep
  <2>1. pending' = pending
    BY <1>2 DEF TurnStep, uiVars
  <2> QED BY <1>2, <2>1, PendingIsHeld DEF TurnStep, HostStep, RunsTurn
<1>3. ASSUME UiStep, UNCHANGED loopVars PROVE HostStep
  <2>1. CASE UserKey
    <3>1. Held' = Held /\ UNCHANGED <<events, answers>>
      BY <2>1, KeysIdle, PendingIsHeld
    <3> QED BY <1>3, <3>1 DEF HostStep, Idles
  <2> QED BY <1>3, <2>1, HandlingTakes, KeyAnswers, TasksInform DEF UiStep, HostStep
<1>4. ASSUME UNCHANGED vars PROVE HostStep
  <2>1. pending' = pending /\ UNCHANGED <<events, answers, loopVars>>
    BY <1>4 DEF vars, uiVars
  <2> QED BY <2>1, PendingIsHeld DEF HostStep, Idles
<1> QED BY <1>1, <1>2, <1>3, <1>4 DEF Next

-----------------------------------------------------------------------------
(* The refinement.                                                         *)

LEMMA MapsStep == ASSUME HostStep PROVE [HostProofs!Next]_HostProofs!vars
<1>1. CASE TakesEvent
  BY <1>1 DEF TakesEvent, HostProofs!Next, HostProofs!HostTakes, HostProofs!LetGo, loopVars, HostProofs!loopVars
<1>2. CASE AnswersPrompt
  BY <1>2 DEF AnswersPrompt, HostProofs!Next, HostProofs!HostAnswers, Replies, HostProofs!Replies,
              loopVars, HostProofs!loopVars
<1>3. CASE Informs
  BY <1>3, SameSend
     DEF Informs, HostProofs!Next, HostProofs!HostInforms, Event, HostProofs!Event, loopVars, HostProofs!loopVars
<1>4. CASE RunsTurn
  BY <1>4, SameSteps DEF RunsTurn, HostProofs!Next, HostProofs!TurnStep
<1>5. CASE Idles
  BY <1>5 DEF Idles, HostProofs!vars, loopVars, HostProofs!loopVars
<1> QED BY <1>1, <1>2, <1>3, <1>4, <1>5 DEF HostStep

LEMMA MapsInit == Init => HostProofs!Init
BY DEF Init, LoopInit, UiInit, Held, HostProofs!Init, HostProofs!LoopInit

LEMMA TypeGivesVocabulary == HostProofs!TypeInv => Vocabulary
BY SameWords DEF Vocabulary, HostProofs!TypeInv, HostProofs!TypeOK, HostProofs!LoopTypeOK,
                 HostProofs!ChannelTypeOK

LEMMA InitIsTyped == Init => HostProofs!TypeInv
BY MapsInit, HostProofs!InitType, HostAssumptions

LEMMA StepIsTyped == HostProofs!TypeInv /\ [Next]_vars => HostProofs!TypeInv'
<1>1. HostProofs!TypeInv /\ [Next]_vars => [HostProofs!Next]_HostProofs!vars
  BY TypeGivesVocabulary, ProgramSteps, MapsStep
<1> QED BY <1>1, HostProofs!NextType, HostAssumptions

LEMMA ProgramRefines == Spec => HostProofs!Spec
<1>1. Init => HostProofs!Init /\ HostProofs!TypeInv
  BY MapsInit, InitIsTyped
<1>2. HostProofs!TypeInv /\ [Next]_vars => [HostProofs!Next]_HostProofs!vars
  BY TypeGivesVocabulary, ProgramSteps, MapsStep
<1>3. HostProofs!TypeInv /\ [Next]_vars => HostProofs!TypeInv'
  BY StepIsTyped
<1> QED BY <1>1, <1>2, <1>3, PTL DEF Spec, HostProofs!Spec

\* A tool runs in the program only if the engine allows the call or the user said
\* yes to this very call at the prompt (execute_tool in loop.rs, the keys of lib.rs).
THEOREM ProgramAsksConsent == Spec => []HostProofs!Consent
BY ProgramRefines, HostProofs!ConsentHolds, HostAssumptions, PTL

\* No turn of the program waits for an answer nobody can give: its prompt is in the
\* channel, on display, or answered (handle_event in app.rs drops a prompt it
\* replaces, which answers it).
THEOREM ProgramLosesNoPrompt == Spec => []HostProofs!NoLostPrompt
BY ProgramRefines, HostProofs!NoLostPromptHolds, HostAssumptions, PTL

LEMMA ProgramKeepsCustody == Spec => [](HostProofs!TypeInv /\ HostProofs!CustodyInv)
BY ProgramRefines, HostProofs!CustodyInvariant, HostAssumptions, PTL

-----------------------------------------------------------------------------
(* The instance that ArtUi names Host is the same.                          *)

LEMMA SameClassifyOfHost ==
    \A eng, call : Host!Classify(eng, call) = Classify(eng, call)
BY DEF Host!Classify, Classify, Host!DefaultDecision, DefaultDecision,
       Host!LspDecision, LspDecision

LEMMA SameSendOfHost == \A e : Host!Send(e) <=> Send(e)
BY DEF Host!Send, Send

LEMMA SameStepsOfHost ==
    ASSUME NEW t
    PROVE  (Host!Spawn(t) <=> Spawn(t)) /\ (Host!Run(t) <=> Run(t))
<1>1. /\ Host!StopAtTop(t) <=> StopAtTop(t)
      /\ Host!CancelWait(t) <=> CancelWait(t)
      /\ Host!RunTool(t) <=> RunTool(t)
      /\ Host!PreviewPanics(t) <=> PreviewPanics(t)
      /\ Host!Spawn(t) <=> Spawn(t)
      /\ Host!CollectCall(t) <=> CollectCall(t)
  BY DEF Host!StopAtTop, StopAtTop, Host!CancelWait, CancelWait, Host!RunTool,
         RunTool, Host!PreviewPanics, PreviewPanics, Host!Spawn, Spawn,
         Host!CollectCall, CollectCall, Host!Goto, Goto
<1>2. /\ Host!LimitDone(t) <=> LimitDone(t)
      /\ Host!CancelStream(t) <=> CancelStream(t)
      /\ Host!CancelDispatch(t) <=> CancelDispatch(t)
      /\ Host!TellRefusal(t) <=> TellRefusal(t)
      /\ Host!CloseTurn(t) <=> CloseTurn(t)
      /\ Host!StreamError(t) <=> StreamError(t)
      /\ Host!StreamText(t) <=> StreamText(t)
      /\ Host!Report(t) <=> Report(t)
  BY SameSendOfHost
     DEF Host!LimitDone, LimitDone, Host!Event, Event, Host!CancelStream,
         CancelStream, Host!CancelDispatch, CancelDispatch, Host!TellRefusal,
         TellRefusal, Host!CloseTurn, CloseTurn, Host!StreamError, StreamError,
         Host!StreamText, StreamText, Host!Report, Report, Host!Goto, Goto
<1>3. /\ Host!ReachLimit(t) <=> ReachLimit(t)
      /\ Host!StartCompaction(t) <=> StartCompaction(t)
      /\ Host!FinishCompaction(t) <=> FinishCompaction(t)
      /\ Host!OpenStream(t) <=> OpenStream(t)
  BY SameSendOfHost
     DEF Host!ReachLimit, ReachLimit, Host!WithinLimit, WithinLimit, Host!NewStep,
         NewStep, Host!Event, Event, Host!StartCompaction, StartCompaction,
         Host!FinishCompaction, FinishCompaction, Host!Request, Request,
         Host!OpenStream, OpenStream, Host!Goto, Goto
<1>4. /\ Host!Gate(t) <=> Gate(t)
      /\ Host!AskUser(t) <=> AskUser(t)
      /\ Host!HearAnswer(t) <=> HearAnswer(t)
  BY SameSendOfHost, SameClassifyOfHost
     DEF Host!Gate, Gate, Host!CurrentCall, CurrentCall, Host!AskUser, AskUser,
         Host!ApprovalRequest, ApprovalRequest, Host!CurrentPrompt, CurrentPrompt,
         Host!HearAnswer, HearAnswer, Host!Consents, Consents, Host!Learn, Learn,
         Host!ApproveForSession, ApproveForSession, Host!Goto, Goto
<1>5. /\ Host!StreamDone(t) <=> StreamDone(t)
      /\ Host!StreamClosed(t) <=> StreamClosed(t)
  BY SameSendOfHost
     DEF Host!StreamDone, StreamDone, Host!AfterStream, AfterStream, Host!MayNudge,
         MayNudge, Host!Event, Event, Host!StreamClosed, StreamClosed, Host!Goto,
         Goto
<1> QED BY <1>1, <1>2, <1>3, <1>4, <1>5
         DEF Host!Run, Run, Host!Advance, Advance, Host!StreamEnds, StreamEnds

LEMMA MapsStepOfHost == ASSUME HostStep PROVE [Host!Next]_Host!vars
<1>1. CASE TakesEvent
  BY <1>1 DEF TakesEvent, Host!Next, Host!HostTakes, Host!LetGo, loopVars, Host!loopVars
<1>2. CASE AnswersPrompt
  BY <1>2 DEF AnswersPrompt, Host!Next, Host!HostAnswers, Replies, Host!Replies,
              loopVars, Host!loopVars
<1>3. CASE Informs
  BY <1>3, SameSendOfHost
     DEF Informs, Host!Next, Host!HostInforms, Event, Host!Event, loopVars, Host!loopVars
<1>4. CASE RunsTurn
  BY <1>4, SameStepsOfHost DEF RunsTurn, Host!Next, Host!TurnStep
<1>5. CASE Idles
  BY <1>5 DEF Idles, Host!vars, loopVars, Host!loopVars
<1> QED BY <1>1, <1>2, <1>3, <1>4, <1>5 DEF HostStep

LEMMA MapsInitOfHost == Init => Host!Init
BY DEF Init, LoopInit, UiInit, Held, Host!Init, Host!LoopInit

\* The terminal user interface, with its login and refresh tasks, is a host as
\* TurnHost describes it (App::handle_event, handle_key).
THEOREM ProgramIsHost == Spec => IsHost
<1>1. Init => Host!Init /\ HostProofs!TypeInv
  BY MapsInitOfHost, InitIsTyped
<1>2. HostProofs!TypeInv /\ [Next]_vars => [Host!Next]_Host!vars
  BY TypeGivesVocabulary, ProgramSteps, MapsStepOfHost
<1>3. HostProofs!TypeInv /\ [Next]_vars => HostProofs!TypeInv'
  BY StepIsTyped
<1>4. Spec => Host!Spec
  BY <1>1, <1>2, <1>3, PTL DEF Spec, Host!Spec
<1> QED BY <1>4 DEF IsHost

-----------------------------------------------------------------------------
(* The prompt on display.                                                   *)

LEMMA SameQueued == HostProofs!Queued = Queued /\ HostProofs!Queued' = Queued'
BY DEF HostProofs!Queued, Queued, HostProofs!PromptsIn, PromptsIn

LEMMA SameAsk == \A t : HostProofs!AskUser(t) <=> AskUser(t)
BY SameSend DEF HostProofs!AskUser, AskUser, HostProofs!ApprovalRequest, ApprovalRequest,
   HostProofs!CurrentPrompt, CurrentPrompt, HostProofs!CurrentCall, CurrentCall,
   HostProofs!Goto, Goto

\* No turn is cancelled, and every prompt under way or on display is about the
\* call its turn waits on.
PromptsAreCurrent ==
    /\ cancelled = {}
    /\ \A p \in Queued \union Held : pc[p.turn] = "waiting" /\ p = CurrentPrompt(p.turn)

ApprovalShowsPrompt == mode = "approval" => pending # NoPrompt

\* A turn that waits goes on only when it hears an answer, as none is cancelled.
LEMMA WaitingHears ==
    ASSUME NEW t, Spawn(t) \/ Run(t), pc[t] = "waiting", cancelled = {}
    PROVE  Answered(CurrentPrompt(t))
<1>1. HearAnswer(t)
  BY DEF Run, Advance, StreamEnds, Spawn, StopAtTop, ReachLimit, LimitDone,
         StartCompaction, FinishCompaction, OpenStream, CancelStream, StreamText,
         CollectCall, StreamDone, StreamError, StreamClosed, CancelDispatch, Gate,
         TellRefusal, CancelWait, RunTool, PreviewPanics, Report, CloseTurn, AskUser
<1> QED BY <1>1 DEF HearAnswer, Answered

LEMMA TurnKeepsCurrent ==
    ASSUME HostProofs!TypeInv, HostProofs!OneOwner, PromptsAreCurrent, RunsTurn
    PROVE  PromptsAreCurrent'
<1>1. PICK t \in Turns : (Spawn(t) \/ Run(t)) /\ Held' = Held
  BY DEF RunsTurn
<1>2. HostProofs!TurnStep(t)
  BY <1>1, SameSteps DEF HostProofs!TurnStep
<1>3. cancelled' = {}
  BY <1>2, HostProofs!TurnsAnswerNothing, HostAssumptions DEF PromptsAreCurrent
<1>4. \A u \in Turns : u # t => pc'[u] = pc[u] /\ loc'[u] = loc[u]
  BY <1>2, HostProofs!Elsewhere, HostAssumptions
<1>5. \A p \in Queued \union Held : p \in Prompts /\ ~Answered(p)
  <2>1. Held \subseteq Prompts
    BY TypeGivesVocabulary DEF Vocabulary
  <2>2. Queued \subseteq Prompts
    BY TypeGivesVocabulary DEF Vocabulary, Queued, PromptsIn, AppEvents
  <2> QED BY <2>1, <2>2, SameQueued
           DEF HostProofs!OneOwner, HostProofs!Answered, Answered
<1>6. \A p \in Queued \union Held : (p.turn # t) => (pc[p.turn] = "waiting" /\ p = CurrentPrompt(p.turn))'
  <2> SUFFICES ASSUME NEW p \in Queued \union Held, p.turn # t
               PROVE  pc'[p.turn] = "waiting" /\ p = CurrentPrompt(p.turn)'
    OBVIOUS
  <2>1. pc'[p.turn] = pc[p.turn] /\ loc'[p.turn] = loc[p.turn]
    BY <1>4, <1>5 DEF Prompts
  <2> QED BY <2>1 DEF PromptsAreCurrent, CurrentPrompt, CurrentCall
<1>7. CASE AskUser(t)
  <2> DEFINE own == CurrentPrompt(t)
  <2>1. /\ pc[t] = "asking" /\ pc' = [pc EXCEPT ![t] = "waiting"] /\ loc' = loc
        /\ events' = Append(events, ApprovalRequest(own))
    BY <1>7 DEF AskUser, Goto, Send
  <2>2. pc'[t] = "waiting" /\ own' = own /\ own.turn = t
    BY <2>1 DEF CurrentPrompt, CurrentCall, HostProofs!TypeInv, HostProofs!TypeOK, HostProofs!LoopTypeOK
  <2>3. own \in Prompts
    BY <2>1, HostProofs!CurrentPromptType, HostAssumptions, SameWords
       DEF HostProofs!Dispatch, HostProofs!CurrentPrompt, HostProofs!CurrentCall, CurrentPrompt, CurrentCall
  <2> HIDE DEF own
  <2>4. Queued' = Queued \union {own}
    <3>1. events \in Seq(AppEvents) /\ ApprovalRequest(own) \in AppEvents
      BY <2>3, TypeGivesVocabulary DEF Vocabulary, ApprovalRequest, AppEvents
    <3>2. ApprovalRequest(own).kind = "approval" /\ ApprovalRequest(own).prompt = own
      BY DEF ApprovalRequest
    <3>3. HostProofs!PromptsIn(Append(events, ApprovalRequest(own)))
            = HostProofs!PromptsIn(events) \union {own}
      BY <3>1, <3>2, HostProofs!PromptsInAppend, HostAssumptions, SameWords
    <3> QED BY <2>1, <3>3 DEF Queued, HostProofs!PromptsIn, PromptsIn
  <2>5. \A p \in Queued \union Held : p.turn # t
    BY <2>1 DEF PromptsAreCurrent
  <2> QED BY <1>1, <1>3, <1>6, <2>2, <2>4, <2>5 DEF PromptsAreCurrent, own
<1>8. CASE ~AskUser(t)
  <2>1. Queued' = Queued
    BY <1>2, <1>8, SameQueued, HostProofs!OtherStepsAskNothing, HostAssumptions, SameAsk
  <2>2. \A p \in Queued \union Held : p.turn # t
    BY <1>1, <1>5, WaitingHears DEF PromptsAreCurrent
  <2> QED BY <1>1, <1>3, <1>6, <2>1, <2>2 DEF PromptsAreCurrent
<1> QED BY <1>7, <1>8

LEMMA HostKeepsCurrent ==
    ASSUME HostProofs!TypeInv, HostProofs!OneOwner, PromptsAreCurrent, HostStep
    PROVE  PromptsAreCurrent'
<1>0. events \in Seq(AppEvents)
  BY TypeGivesVocabulary DEF Vocabulary
<1>1. ASSUME UNCHANGED loopVars, Queued' \union Held' \subseteq Queued \union Held
      PROVE  PromptsAreCurrent'
  BY <1>1 DEF PromptsAreCurrent, loopVars, CurrentPrompt, CurrentCall
<1>2. CASE TakesEvent
  <2>1. Queued = Queued' \union (IF Head(events).kind = "approval" THEN {Head(events).prompt} ELSE {})
    <3>1. events # <<>> /\ events' = Tail(events)
      BY <1>2 DEF TakesEvent
    <3>2. HostProofs!PromptsIn(events)
            = HostProofs!PromptsIn(Tail(events))
                \union (IF Head(events).kind = "approval" THEN {Head(events).prompt} ELSE {})
      BY <1>0, <3>1, HostProofs!PromptsInTail, HostAssumptions, SameWords
    <3> QED BY <3>1, <3>2 DEF Queued, HostProofs!PromptsIn, PromptsIn
  <2> QED BY <1>1, <1>2, <2>1 DEF TakesEvent
<1>3. CASE AnswersPrompt
  BY <1>1, <1>3 DEF AnswersPrompt, Queued
<1>4. CASE Informs
  <2>1. PICK kind \in {"status", "message", "models", "no_models"} : Send(Event(kind, NoTurn))
    BY <1>4 DEF Informs
  <2>2. /\ Event(kind, NoTurn) \in AppEvents /\ Event(kind, NoTurn).kind # "approval"
    BY DEF Event, AppEvents
  <2>3. Queued' = Queued
    BY <2>1, <2>2, SameWords, SameSend, SameQueued, HostProofs!PlainSend, HostAssumptions
  <2> QED BY <1>1, <1>4, <2>3 DEF Informs
<1>5. CASE RunsTurn
  BY <1>5, TurnKeepsCurrent
<1>6. CASE Idles
  BY <1>1, <1>6 DEF Idles, Queued
<1> QED BY <1>2, <1>3, <1>4, <1>5, <1>6 DEF HostStep

LEMMA StepShowsPrompt ==
    ASSUME Vocabulary, ApprovalShowsPrompt, [Next]_vars PROVE ApprovalShowsPrompt'
<1> USE DEF ApprovalShowsPrompt
<1>1. CASE OpenApproval
  <2>1. Head(events) \in AppEvents /\ Head(events).kind = "approval" /\ pending' = Head(events).prompt
    BY <1>1 DEF OpenApproval, Take, Vocabulary
  <2> QED BY <2>1, UiAssumption DEF AppEvents
<1>2. CASE ShowText \/ BackToInput \/ ShowMessage \/ ModelsRefreshed \/ AnswerKey
  BY <1>2 DEF ShowText, BackToInput, ShowMessage, ModelsRefreshed, AnswerKey, uiVars
<1>3. CASE UserKey
  BY <1>3 DEF UserKey, QuitKey, ClearKey, EscapeKey, TypeKey, Paste, CompleteKey, CycleKey,
       SelectKey, ClosePicker, LoginFromModelPicker, NoticeCommand, OpenPicker, AgentCommand,
       AccountCommand, StatusCommand
<1>4. CASE LoginReports \/ RefreshEnds
  BY <1>4 DEF LoginReports, RefreshEnds
<1>5. CASE UNCHANGED uiVars
  BY <1>5 DEF uiVars
<1>6. ASSUME NEW t \in Turns, Submit(t) PROVE ApprovalShowsPrompt'
  BY <1>6 DEF Submit, SubmitMessage
<1> QED BY <1>1, <1>2, <1>3, <1>4, <1>5, <1>6 DEF Next, vars, UiStep, HandleEvent, TurnStep

PromptInv == PromptsAreCurrent /\ ApprovalShowsPrompt

LEMMA InitPrompt == Init => PromptInv
BY DEF Init, LoopInit, UiInit, Held, Queued, PromptsIn, PromptInv, PromptsAreCurrent, ApprovalShowsPrompt

LEMMA PromptInvariant == Spec => [](HostProofs!TypeInv /\ PromptInv)
<1>1. (HostProofs!TypeInv /\ HostProofs!CustodyInv) /\ PromptInv /\ [Next]_vars => PromptInv'
  BY TypeGivesVocabulary, ProgramSteps, HostKeepsCurrent, StepShowsPrompt
     DEF PromptInv, HostProofs!CustodyInv
<1> QED BY <1>1, InitPrompt, ProgramKeepsCustody, PTL DEF Spec

\* The prompt on display is about the call its turn waits on, so that the answer
\* keys of lib.rs never decide about a call that is settled, and the approval mode
\* shows a prompt.
THEOREM PromptIsLiveHolds == Spec => []PromptIsLive
<1>1. PromptInv => PromptIsLive
  BY DEF PromptInv, PromptsAreCurrent, ApprovalShowsPrompt, PromptIsLive, Held
<1> QED BY <1>1, PromptInvariant, PTL

-----------------------------------------------------------------------------
(* The streaming mode has an end.                                           *)

Unlocking == \E i \in DOMAIN events : events[i].kind \in {"done", "error", "status", "message"}

LEMMA UnlockingStays ==
    ASSUME events \in Seq(AppEvents)
    PROVE  /\ \A e : Send(e) /\ (Unlocking \/ e.kind \in {"done", "error"}) => Unlocking'
           /\ ShowText /\ Unlocking => Unlocking'
<1>1. ASSUME NEW e, Send(e), Unlocking \/ e.kind \in {"done", "error"} PROVE Unlocking'
  <2> DEFINE r == Append(events, e)
  <2>1. /\ \A i \in DOMAIN events : i \in DOMAIN r /\ r[i] = events[i]
        /\ Len(events) + 1 \in DOMAIN r /\ r[Len(events) + 1] = e
    OBVIOUS
  <2>2. events' = r
    BY <1>1 DEF Send
  <2> HIDE DEF r
  <2> QED BY <1>1, <2>1, <2>2 DEF Unlocking
<1>2. ASSUME ShowText, Unlocking PROVE Unlocking'
  <2>1. events # <<>> /\ events[1].kind = "text" /\ events' = Tail(events)
    BY <1>2 DEF ShowText, Take
  <2>2. PICK i \in DOMAIN events : events[i].kind \in {"done", "error", "status", "message"}
    BY <1>2 DEF Unlocking
  <2>3. i - 1 \in DOMAIN Tail(events) /\ Tail(events)[i - 1] = events[i]
    <3>1. i # 1
      BY <2>1, <2>2
    <3> QED BY <2>1, <3>1
  <2> QED BY <2>1, <2>2, <2>3 DEF Unlocking
<1> QED BY <1>1, <1>2

\* A turn that ends says so, unless it is cancelled, its response vanishes or the
\* preview of a result panics.
LEMMA TurnSaysEnd ==
    ASSUME ~MayVanish, ~WideOutput, HostProofs!TypeInv, cancelled = {},
           NEW t \in Turns, Run(t), Active(t)
    PROVE  \/ Active(t)' /\ (events' = events \/ \E e : Send(e))
           \/ \E e : Send(e) /\ e.kind \in {"done", "error"}
<1> USE DEF Goto, Active, Live, Event
<1>0. pc \in [Turns -> Live \union Over \union {"idle"}]
  BY DEF HostProofs!TypeInv, HostProofs!TypeOK, HostProofs!LoopTypeOK, HostProofs!Live, HostProofs!Over, Over
<1>1. CASE StopAtTop(t) \/ ReachLimit(t) \/ LimitDone(t) \/ StartCompaction(t)
           \/ FinishCompaction(t) \/ OpenStream(t)
  BY <1>0, <1>1 DEF StopAtTop, ReachLimit, LimitDone, StartCompaction, FinishCompaction, OpenStream
<1>2. CASE CancelStream(t) \/ StreamText(t) \/ CollectCall(t) \/ StreamError(t) \/ StreamClosed(t)
  <2>1. CASE StreamText(t) \/ CollectCall(t)
    BY <2>1 DEF StreamText, CollectCall
  <2>2. CASE StreamError(t)
    BY <2>2 DEF StreamError
  <2>3. ~StreamClosed(t) /\ ~CancelStream(t)
    BY DEF StreamClosed, CancelStream
  <2> QED BY <1>2, <2>1, <2>2, <2>3
<1>3. CASE StreamDone(t)
  BY <1>0, <1>3 DEF StreamDone, AfterStream
<1>4. CASE CancelDispatch(t) \/ Gate(t) \/ TellRefusal(t) \/ AskUser(t) \/ HearAnswer(t)
  BY <1>0, <1>4 DEF CancelDispatch, Gate, TellRefusal, AskUser, HearAnswer
<1>5. CASE CancelWait(t) \/ RunTool(t) \/ PreviewPanics(t) \/ Report(t) \/ CloseTurn(t)
  BY <1>0, <1>5 DEF CancelWait, RunTool, PreviewPanics, Report, CloseTurn
<1> QED BY <1>1, <1>2, <1>3, <1>4, <1>5 DEF Run, Advance, StreamEnds

LEMMA SendsOrNot ==
    ASSUME NEW t, Run(t) PROVE events' = events \/ \E e : Send(e)
BY DEF Run, Advance, StreamEnds, StopAtTop, ReachLimit, LimitDone, StartCompaction,
       FinishCompaction, OpenStream, CancelStream, StreamText, CollectCall, StreamDone,
       StreamError, StreamClosed, CancelDispatch, Gate, TellRefusal, AskUser, HearAnswer,
       CancelWait, RunTool, PreviewPanics, Report, CloseTurn

LEMMA StreamingStep ==
    ASSUME ~MayVanish, ~WideOutput,
           HostProofs!TypeInv, PromptsAreCurrent, StreamingHasEnd, [Next]_vars
    PROVE  StreamingHasEnd'
<1> DEFINE Alive == \E t \in Turns : Active(t)
<1>0. /\ events \in Seq(AppEvents) /\ Held \subseteq Prompts
      /\ StreamingHasEnd <=> (mode = "streaming" => Alive \/ Unlocking)
      /\ StreamingHasEnd' <=> (mode' = "streaming" => Alive' \/ Unlocking')
  BY TypeGivesVocabulary DEF Vocabulary, StreamingHasEnd, Unlocking
<1>1. ASSUME UNCHANGED loopVars, Alive PROVE Alive'
  BY <1>1 DEF loopVars, Active
<1>2. ASSUME UNCHANGED <<events, loopVars>>, mode' = "streaming" => mode = "streaming"
      PROVE  StreamingHasEnd'
  BY <1>0, <1>1, <1>2 DEF Unlocking, loopVars
<1>3. CASE ShowText /\ UNCHANGED loopVars
  BY <1>0, <1>1, <1>3, UnlockingStays DEF ShowText, uiVars
<1>4. CASE (LoginReports \/ RefreshEnds) /\ UNCHANGED loopVars
  <2>1. mode' = mode /\ \E e : Send(e)
    BY <1>4 DEF LoginReports, RefreshEnds
  <2> QED BY <1>0, <1>1, <1>4, <2>1, UnlockingStays
<1>5. CASE BackToInput \/ ShowMessage \/ ModelsRefreshed \/ OpenApproval
  <2>1. mode' # "streaming"
    BY <1>5 DEF BackToInput, ShowMessage, ModelsRefreshed, OpenApproval
  <2> QED BY <1>0, <2>1
<1>6. CASE AnswerKey /\ UNCHANGED loopVars
  <2>1. pending \in Held
    BY <1>6 DEF AnswerKey, Held
  <2>2. pending.turn \in Turns /\ Active(pending.turn)
    BY <1>0, <2>1 DEF Prompts, PromptsAreCurrent, Active, Live
  <2> QED BY <1>0, <1>1, <1>6, <2>2
<1>7. CASE UserKey /\ UNCHANGED loopVars
  <2>1. events' = events /\ (mode' = "streaming" => mode = "streaming")
    BY <1>7 DEF UserKey, QuitKey, ClearKey, EscapeKey, TypeKey, Paste, CompleteKey, CycleKey,
         SelectKey, ClosePicker, LoginFromModelPicker, NoticeCommand, OpenPicker, AgentCommand,
         AccountCommand, StatusCommand
  <2> QED BY <1>2, <1>7, <2>1
<1>8. ASSUME NEW t \in Turns, Submit(t) PROVE StreamingHasEnd'
  <2>1. pc'[t] = "top"
    BY <1>8 DEF Submit, Spawn, Goto, HostProofs!TypeInv, HostProofs!TypeOK, HostProofs!LoopTypeOK
  <2> QED BY <1>0, <2>1 DEF Active, Live
<1>9. ASSUME NEW t \in Turns, TurnStep(t) PROVE StreamingHasEnd'
  <2>1. mode' = mode /\ Run(t)
    BY <1>9 DEF TurnStep, uiVars
  <2>2. ASSUME Unlocking PROVE Unlocking'
    <3>1. events' = events => Unlocking'
      BY <2>2 DEF Unlocking
    <3> QED BY <1>0, <2>1, <2>2, <3>1, SendsOrNot, UnlockingStays
  <2>3. ASSUME NEW u \in Turns, u # t, Active(u) PROVE Alive'
    <3>1. pending' = pending
      BY <1>9 DEF TurnStep, uiVars
    <3>2. HostProofs!TurnStep(t)
      BY <2>1, <3>1, PendingIsHeld, SameSteps DEF HostProofs!TurnStep
    <3>3. pc'[u] = pc[u]
      BY <2>3, <3>2, HostProofs!Elsewhere, HostAssumptions
    <3> QED BY <2>3, <3>3 DEF Active
  <2>4. ASSUME Active(t) PROVE Alive' \/ Unlocking'
    <3>1. cancelled = {}
      BY DEF PromptsAreCurrent
    <3>2. \/ Active(t)'
          \/ \E e : Send(e) /\ e.kind \in {"done", "error"}
      BY <2>1, <2>4, <3>1, TurnSaysEnd
    <3> QED BY <1>0, <3>2, UnlockingStays
  <2> QED BY <1>0, <2>1, <2>2, <2>3, <2>4
<1>10. CASE UNCHANGED vars
  BY <1>2, <1>10 DEF vars, uiVars
<1> QED BY <1>3, <1>4, <1>5, <1>6, <1>7, <1>8, <1>9, <1>10 DEF Next, UiStep, HandleEvent

\* The input line never stays locked for nothing: while the streaming mode lasts, a
\* turn is alive or an event that ends the mode is in the channel.  That takes a
\* provider whose responses end with Done or Error, and results that
\* format_tool_result (loop.rs) can cut.
THEOREM StreamingHasEndHolds ==
    ASSUME ~MayVanish, ~WideOutput
    PROVE  Spec => []StreamingHasEnd
<1>1. Init => StreamingHasEnd
  BY DEF Init, UiInit, StreamingHasEnd
<1>2. HostProofs!TypeInv /\ PromptInv /\ StreamingHasEnd /\ [Next]_vars => StreamingHasEnd'
  BY StreamingStep DEF PromptInv
<1> QED BY <1>1, <1>2, PromptInvariant, PTL DEF Spec

-----------------------------------------------------------------------------
(* One turn at a time.                                                      *)

\* What ends the streaming mode before its turn ends: a nudge after Done was forwarded,
\* a status line of a compaction, a login or refresh task, a command completed from a paste.
NothingEndsEarly == MaxNudges = 0 /\ ~MayCompact /\ MaxTasks = 0 /\ "complete" \notin Keys

Busy == ActiveTurns # {} \/ events # <<>>

\* What is in the channel comes from one turn, and its last word at the end of it.
OneVoice ==
    \A i \in DOMAIN events :
        /\ events[i].kind \in {"text", "approval", "done", "error"}
        /\ events[i].kind \in {"done", "error"} => i = Len(events) /\ ActiveTurns = {}
        /\ events[i].kind = "text" => tail \in {events[i].from, "none"}

\* The mode is a lock: it is held as long as a turn is alive or heard, no picker opens
\* meanwhile, and nobody else writes to the transcript.
SoloInv ==
    /\ \A t \in Turns : pc[t] # "compacting"
    /\ tasks = [login |-> 0, refresh |-> 0]
    /\ OneTurnAtATime
    /\ OneVoice
    /\ \A t \in ActiveTurns : tail \in {t, "none"}
    /\ Busy => mode \in {"streaming", "approval"}
    /\ mode \in {"streaming", "approval"} => picker = "none"

\* A turn that runs stays alive, with at most some text or a prompt sent, or says its
\* last word, if any.
LEMMA RunSays ==
    ASSUME NothingEndsEarly, HostProofs!TypeInv, cancelled = {},
           NEW t \in Turns, Run(t), pc[t] # "compacting"
    PROVE  /\ Active(t) /\ pc'[t] # "compacting"
           /\ \/ events' = events
              \/ Active(t)' /\ Send(Event("text", t))
              \/ Active(t)' /\ \E p : Send(ApprovalRequest(p))
              \/ ~Active(t)' /\ \E kind \in {"done", "error"} : Send(Event(kind, t))
<1> USE DEF Goto, Active, Live, NothingEndsEarly
<1>0. pc \in [Turns -> Live \union Over \union {"idle"}]
  BY DEF HostProofs!TypeInv, HostProofs!TypeOK, HostProofs!LoopTypeOK, HostProofs!Live, HostProofs!Over, Over
<1>1. CASE StopAtTop(t) \/ ReachLimit(t) \/ LimitDone(t) \/ OpenStream(t)
  BY <1>0, <1>1 DEF StopAtTop, ReachLimit, LimitDone, OpenStream
<1>2. ~StartCompaction(t) /\ ~FinishCompaction(t) /\ ~CancelStream(t) /\ ~CancelDispatch(t) /\ ~CancelWait(t)
  BY DEF StartCompaction, FinishCompaction, CancelStream, CancelDispatch, CancelWait
<1>3. CASE StreamText(t) \/ CollectCall(t) \/ StreamError(t)
  BY <1>0, <1>3 DEF StreamText, CollectCall, StreamError
<1>4. ASSUME NEW endTurn, AfterStream(t, endTurn), pc[t] = "streaming"
      PROVE  /\ loc[t].calls # <<>> => pc'[t] = "dispatch"
             /\ loc[t].calls = <<>> => pc'[t] = "ended"
  <2>1. ~MayNudge(t)
    <3>1. loc[t].nudges \in 0..MaxNudges
      BY DEF HostProofs!TypeInv, HostProofs!TypeOK, HostProofs!LoopTypeOK, HostProofs!Locals
    <3> QED BY <3>1 DEF MayNudge
  <2> QED BY <1>0, <1>4, <2>1 DEF AfterStream
<1>5. CASE StreamDone(t)
  <2>1. PICK endTurn \in EndTurnFlags : AfterStream(t, endTurn)
    BY <1>5 DEF StreamDone
  <2>2. /\ pc[t] = "streaming"
        /\ loc[t].calls = <<>> => Send(Event("done", t))
        /\ loc[t].calls # <<>> => events' = events
    BY <1>5 DEF StreamDone
  <2> QED BY <1>4, <2>1, <2>2
<1>6. CASE StreamClosed(t)
  <2>1. AfterStream(t, FALSE) /\ pc[t] = "streaming" /\ events' = events
    BY <1>6 DEF StreamClosed
  <2> QED BY <1>4, <2>1
<1>7. CASE Gate(t) \/ TellRefusal(t) \/ AskUser(t) \/ HearAnswer(t)
  BY <1>0, <1>7 DEF Gate, TellRefusal, AskUser, HearAnswer
<1>8. CASE RunTool(t) \/ PreviewPanics(t) \/ Report(t) \/ CloseTurn(t)
  BY <1>0, <1>8 DEF RunTool, PreviewPanics, Report, CloseTurn
<1> QED BY <1>1, <1>2, <1>3, <1>5, <1>6, <1>7, <1>8 DEF Run, Advance, StreamEnds

\* The lock is held while a prompt is on display.
LEMMA HeldIsBusy ==
    ASSUME Vocabulary, PromptsAreCurrent, pending # NoPrompt
    PROVE  pending.turn \in ActiveTurns
<1>1. pending \in Held /\ pending \in Prompts
  BY DEF Held, Vocabulary
<1> QED BY <1>1 DEF PromptsAreCurrent, ActiveTurns, Active, Live, Prompts

LEMMA HandlingKeepsSolo ==
    ASSUME Vocabulary, SoloInv, HandleEvent, UNCHANGED loopVars
    PROVE  SoloInv'
<1>1. /\ events # <<>> /\ events' = Tail(events) /\ tasks' = tasks /\ picker' = picker
      /\ Head(events) = events[1] /\ 1 \in DOMAIN events /\ events \in Seq(AppEvents)
  BY DEF HandleEvent, ShowText, BackToInput, ShowMessage, ModelsRefreshed, OpenApproval, Take,
         Vocabulary, uiVars
<1>2. ActiveTurns' = ActiveTurns /\ pc' = pc
  BY DEF loopVars, ActiveTurns, Active
<1>3. Busy /\ mode \in {"streaming", "approval"} /\ picker = "none"
  BY <1>1 DEF Busy, SoloInv
<1>4. tail' = tail
  BY <1>1 DEF HandleEvent, ShowText, BackToInput, ShowMessage, ModelsRefreshed, OpenApproval, Take,
              uiVars, SoloInv, OneVoice
<1>5. OneVoice'
  <2> SUFFICES ASSUME NEW i \in DOMAIN Tail(events)
               PROVE  /\ Tail(events)[i].kind \in {"text", "approval", "done", "error"}
                      /\ Tail(events)[i].kind \in {"done", "error"} =>
                            i = Len(Tail(events)) /\ ActiveTurns = {}
                      /\ Tail(events)[i].kind = "text" => tail \in {Tail(events)[i].from, "none"}
    BY <1>1, <1>2, <1>4 DEF OneVoice
  <2>1. /\ i + 1 \in DOMAIN events /\ Tail(events)[i] = events[i + 1]
        /\ Len(Tail(events)) = Len(events) - 1 /\ Len(events) \in Nat /\ i \in Nat
    BY <1>1
  <2>2. i + 1 = Len(events) => i = Len(Tail(events))
    BY <2>1
  <2> QED BY <2>1, <2>2 DEF SoloInv, OneVoice
<1>6. Busy' => mode' \in {"streaming", "approval"}
  <2>1. CASE ShowText
    BY <1>3, <2>1 DEF ShowText, uiVars
  <2>2. CASE OpenApproval
    BY <2>2 DEF OpenApproval
  <2>3. CASE BackToInput
    <3>1. events[1].kind \in {"done", "error"}
      BY <1>1, <2>3 DEF BackToInput, Take, SoloInv, OneVoice
    <3>2. Len(events) = 1 /\ ActiveTurns = {}
      BY <1>1, <3>1 DEF SoloInv, OneVoice
    <3>3. Tail(events) = <<>>
      BY <1>1, <3>2
    <3> QED BY <1>1, <1>2, <3>2, <3>3 DEF Busy
  <2>4. ~ShowMessage /\ ~ModelsRefreshed
    BY <1>1 DEF ShowMessage, ModelsRefreshed, Take, SoloInv, OneVoice
  <2> QED BY <2>1, <2>2, <2>3, <2>4 DEF HandleEvent
<1> QED BY <1>1, <1>2, <1>3, <1>4, <1>5, <1>6 DEF SoloInv, OneTurnAtATime

LEMMA KeysKeepSolo ==
    ASSUME NothingEndsEarly, Vocabulary, PromptsAreCurrent, ApprovalShowsPrompt, SoloInv,
           UserKey \/ AnswerKey, UNCHANGED loopVars
    PROVE  SoloInv'
<1>1. ActiveTurns' = ActiveTurns /\ pc' = pc /\ events' = events /\ Busy' = Busy
  BY KeysIdle DEF AnswerKey, loopVars, ActiveTurns, Active, Busy
<1>2. CASE AnswerKey
  <2>1. Busy
    BY <1>2, HeldIsBusy DEF AnswerKey, Busy
  <2>2. mode \in {"streaming", "approval"} /\ picker = "none"
    BY <2>1 DEF SoloInv
  <2>3. mode' = "streaming" /\ UNCHANGED <<picker, tail, tasks>>
    BY <1>2 DEF AnswerKey
  <2> QED BY <1>1, <2>2, <2>3 DEF SoloInv, OneVoice, OneTurnAtATime
<1>3. CASE QuitKey \/ Paste \/ CycleKey
  <2>1. UNCHANGED <<mode, picker, tail, tasks>>
    BY <1>3 DEF QuitKey, Paste, CycleKey
  <2> QED BY <1>1, <2>1 DEF SoloInv, OneVoice, OneTurnAtATime
<1>4. CASE ClearKey
  <2>1. UNCHANGED <<mode, picker, tasks>> /\ tail' = "none"
    BY <1>4 DEF ClearKey
  <2> QED BY <1>1, <2>1 DEF SoloInv, OneVoice, OneTurnAtATime
<1>5. ~CompleteKey
  BY DEF CompleteKey, Free, NothingEndsEarly
<1>6. CASE EscapeKey \/ TypeKey \/ SelectKey \/ LoginFromModelPicker \/ NoticeCommand \/ OpenPicker
           \/ AgentCommand \/ AccountCommand \/ StatusCommand
  <2>1. pending = NoPrompt /\ (picker # "none" \/ mode # "streaming")
    BY <1>6 DEF EscapeKey, TypeKey, SelectKey, LoginFromModelPicker, NoticeCommand, OpenPicker,
                AgentCommand, AccountCommand, StatusCommand, Free, Enter
  <2>2. ~Busy
    BY <2>1 DEF SoloInv, ApprovalShowsPrompt
  <2>3. tasks' = tasks
    <3>1. \A task \in {"login", "refresh"} : ~Start(task)
      BY DEF Start, SoloInv, NothingEndsEarly
    <3> QED BY <1>6, <3>1 DEF EscapeKey, TypeKey, SelectKey, LoginFromModelPicker, LoginProvider,
            NoticeCommand, OpenPicker, AgentCommand, AccountCommand, StatusCommand
  <2>4. mode' \in {"streaming", "approval"} => picker' = "none"
    BY <1>6, <2>1 DEF EscapeKey, TypeKey, SelectKey, LoginFromModelPicker, ClosePicker,
       NoticeCommand, OpenPicker, AgentCommand, AccountCommand, StatusCommand, SoloInv, Enter
  <2>5. events = <<>> /\ ActiveTurns = {}
    BY <2>2 DEF Busy
  <2> QED BY <1>1, <2>2, <2>3, <2>4, <2>5 DEF SoloInv, OneVoice, OneTurnAtATime
<1> QED BY <1>2, <1>3, <1>4, <1>5, <1>6 DEF UserKey

LEMMA SubmitKeepsSolo ==
    ASSUME HostProofs!TypeInv, ApprovalShowsPrompt, SoloInv, NEW t \in Turns, Submit(t)
    PROVE  SoloInv'
<1>1. /\ pending = NoPrompt /\ picker = "none" /\ mode # "streaming"
      /\ tail' = t /\ mode' = "streaming" /\ picker' = picker /\ tasks' = tasks
      /\ events' = events /\ pc' = [pc EXCEPT ![t] = "top"]
  BY DEF Submit, SubmitMessage, Enter, Spawn, Goto
<1>2. ~Busy
  BY <1>1 DEF SoloInv, ApprovalShowsPrompt
<1>3. events = <<>> /\ ActiveTurns = {}
  BY <1>2 DEF Busy
<1>4. pc \in [Turns -> Live \union Over \union {"idle"}]
  BY DEF HostProofs!TypeInv, HostProofs!TypeOK, HostProofs!LoopTypeOK, HostProofs!Live, HostProofs!Over,
         Live, Over
<1>5. pc'[t] = "top" /\ \A u \in Turns \ {t} : pc'[u] = pc[u]
  BY <1>1, <1>4
<1>6. ActiveTurns' = {t}
  BY <1>3, <1>5 DEF ActiveTurns, Active, Live
<1>7. \A u \in Turns : pc'[u] # "compacting"
  BY <1>5 DEF SoloInv
<1> QED BY <1>1, <1>3, <1>6, <1>7 DEF SoloInv, OneVoice, OneTurnAtATime

LEMMA TurnKeepsSolo ==
    ASSUME NothingEndsEarly, HostProofs!TypeInv, PromptsAreCurrent, SoloInv,
           NEW t \in Turns, TurnStep(t)
    PROVE  SoloInv'
<1>1. Run(t) /\ UNCHANGED <<mode, picker, pending, tail, tasks>> /\ cancelled = {}
  BY DEF TurnStep, uiVars, PromptsAreCurrent
<1>2. /\ Active(t) /\ pc'[t] # "compacting"
      /\ \/ events' = events
         \/ Active(t)' /\ Send(Event("text", t))
         \/ Active(t)' /\ \E p : Send(ApprovalRequest(p))
         \/ ~Active(t)' /\ \E kind \in {"done", "error"} : Send(Event(kind, t))
  BY <1>1, RunSays DEF SoloInv
<1>3. \A u \in Turns : u # t => pc'[u] = pc[u]
  <2>1. HostProofs!TurnStep(t)
    BY <1>1, PendingIsHeld, SameSteps DEF HostProofs!TurnStep
  <2> QED BY <2>1, HostProofs!Elsewhere, HostAssumptions
<1>4. /\ ActiveTurns = {t} /\ ActiveTurns' \subseteq {t}
      /\ t \in ActiveTurns' <=> Active(t)'
  BY <1>2, <1>3 DEF SoloInv, OneTurnAtATime, ActiveTurns, Active
<1>5. mode \in {"streaming", "approval"} /\ tail \in {t, "none"} /\ events \in Seq(AppEvents)
  BY <1>4, TypeGivesVocabulary DEF SoloInv, Busy, Vocabulary
<1>6. \A i \in DOMAIN events : /\ events[i].kind \in {"text", "approval"}
                               /\ events[i].kind = "text" => tail \in {events[i].from, "none"}
  BY <1>4 DEF SoloInv, OneVoice
<1>7. OneVoice'
  <2>1. CASE events' = events
    BY <1>1, <1>6, <2>1 DEF OneVoice
  <2>2. ASSUME NEW e, Send(e), e.kind \in {"text", "approval", "done", "error"},
               e.kind \in {"done", "error"} => ~Active(t)',
               e.kind = "text" => e.from = t
        PROVE  OneVoice'
    <3> DEFINE r == Append(events, e)
    <3>1. /\ DOMAIN r = 1..(Len(events) + 1) /\ Len(r) = Len(events) + 1 /\ Len(events) \in Nat
          /\ \A i \in 1..Len(events) : r[i] = events[i] /\ i \in DOMAIN events
          /\ r[Len(events) + 1] = e
      BY <1>5
    <3>2. events' = r
      BY <2>2 DEF Send
    <3> HIDE DEF r
    <3> SUFFICES ASSUME NEW i \in DOMAIN r
                 PROVE  /\ r[i].kind \in {"text", "approval", "done", "error"}
                        /\ r[i].kind \in {"done", "error"} => i = Len(r) /\ ActiveTurns' = {}
                        /\ r[i].kind = "text" => tail \in {r[i].from, "none"}
      BY <1>1, <3>2 DEF OneVoice
    <3>3. i = Len(events) + 1 \/ i \in 1..Len(events)
      BY <3>1
    <3>4. CASE i \in 1..Len(events)
      BY <1>6, <3>1, <3>4
    <3>5. CASE i = Len(events) + 1
      BY <1>4, <1>5, <2>2, <3>1, <3>5
    <3> QED BY <3>3, <3>4, <3>5
  <2>3. /\ Event("text", t).kind = "text" /\ Event("text", t).from = t
        /\ \A p : ApprovalRequest(p).kind = "approval"
        /\ \A kind : Event(kind, t).kind = kind
    BY DEF Event, ApprovalRequest
  <2> QED BY <1>2, <2>1, <2>2, <2>3
<1>8. \A u \in Turns : pc'[u] # "compacting"
  BY <1>2, <1>3 DEF SoloInv
<1> QED BY <1>1, <1>4, <1>5, <1>7, <1>8 DEF SoloInv, OneTurnAtATime

LEMMA SoloStep ==
    ASSUME NothingEndsEarly, HostProofs!TypeInv, PromptInv, SoloInv, [Next]_vars
    PROVE  SoloInv'
<1>1. Vocabulary /\ PromptsAreCurrent /\ ApprovalShowsPrompt
  BY TypeGivesVocabulary DEF PromptInv
<1>2. CASE HandleEvent /\ UNCHANGED loopVars
  BY <1>1, <1>2, HandlingKeepsSolo
<1>3. CASE (UserKey \/ AnswerKey) /\ UNCHANGED loopVars
  BY <1>1, <1>3, KeysKeepSolo
<1>4. ~LoginReports /\ ~RefreshEnds
  BY DEF LoginReports, RefreshEnds, SoloInv
<1>5. ASSUME NEW t \in Turns, Submit(t) PROVE SoloInv'
  BY <1>1, <1>5, SubmitKeepsSolo
<1>6. ASSUME NEW t \in Turns, TurnStep(t) PROVE SoloInv'
  BY <1>1, <1>6, TurnKeepsSolo
<1>7. CASE UNCHANGED vars
  BY <1>7 DEF vars, loopVars, uiVars, SoloInv, OneVoice, OneTurnAtATime, ActiveTurns, Active, Busy
<1> QED BY <1>2, <1>3, <1>4, <1>5, <1>6, <1>7 DEF Next, UiStep

LEMMA SoloInvariant == ASSUME NothingEndsEarly PROVE Spec => []SoloInv
<1>1. Init => SoloInv
  BY DEF Init, LoopInit, UiInit, SoloInv, OneVoice, OneTurnAtATime, ActiveTurns, Active, Live, Busy
<1>2. (HostProofs!TypeInv /\ PromptInv) /\ SoloInv /\ [Next]_vars => SoloInv'
  BY SoloStep
<1> QED BY <1>1, <1>2, PromptInvariant, PTL DEF Spec

\* The streaming mode of app.rs keeps the user from submitting while a turn is alive: two turns
\* are never alive at once, if no nudge, compaction, login task or completed command
\* ends the mode early.  A response may vanish and a preview panic.
THEOREM OneTurnAtATimeHolds ==
    ASSUME NothingEndsEarly
    PROVE  Spec => []OneTurnAtATime
<1>1. SoloInv => OneTurnAtATime
  BY DEF SoloInv
<1> QED BY <1>1, SoloInvariant, PTL

\* Then what a turn says is appended to its own message (handle_event appends to the last one,
\* whosever it is), unless the user cleared the transcript meanwhile.
THEOREM TextInOwnMessageHolds ==
    ASSUME NothingEndsEarly
    PROVE  Spec => TextInOwnMessage
<1>1. SoloInv /\ HostProofs!TypeInv => [ShowText => tail \in {Head(events).from, "none"}]_vars
  <2> SUFFICES ASSUME SoloInv, HostProofs!TypeInv, ShowText
               PROVE  tail \in {Head(events).from, "none"}
    OBVIOUS
  <2>1. events # <<>> /\ Head(events).kind = "text" /\ events \in Seq(AppEvents)
    BY TypeGivesVocabulary DEF ShowText, Take, Vocabulary
  <2>2. 1 \in DOMAIN events /\ Head(events) = events[1]
    BY <2>1
  <2> QED BY <2>1, <2>2 DEF SoloInv, OneVoice
<1> QED BY <1>1, SoloInvariant, PromptInvariant, PTL DEF TextInOwnMessage
=============================================================================
