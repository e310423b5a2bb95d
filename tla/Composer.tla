------------------------------ MODULE Composer ------------------------------
(***************************************************************************)
(* Writing a message and choosing who gets it: the input line and the      *)
(* model choice of the App under the keys of src/lib.rs, with the login    *)
(* and refresh tasks running meanwhile.  What is left of a turn is that it *)
(* locks the line until it ends.                                           *)
(***************************************************************************)
EXTENDS InputLine, ModelChoice

VARIABLE streaming  \* mode = UiMode::Streaming

vars == <<lineVars, choiceVars, streaming>>

ComposerInit ==
    /\ LineInit
    /\ ChoiceInit
    /\ streaming = FALSE

NoPicker == picker.open = "none"

-----------------------------------------------------------------------------
(* Keys for the line.                                                      *)

EditInput ==
    /\ ~streaming
    /\ NoPicker
    /\ Insert \/ Backspace
    /\ UNCHANGED <<choiceVars, streaming>>

\* The terminal pastes at any time.
PasteEvent == Paste /\ UNCHANGED <<choiceVars, streaming>>

\* Tab completes at any time, too, and with a command ends the streaming mode.
CompleteKey ==
    /\ \/ CompleteSlashCommand /\ streaming' = FALSE
       \/ CompleteFileMention /\ UNCHANGED streaming
    /\ UNCHANGED choiceVars

EscapeKey ==
    IF NoPicker
    THEN ~streaming /\ Clear /\ UNCHANGED <<choiceVars, streaming>>
    ELSE ClosePicker /\ UNCHANGED <<lineVars, streaming>>

Enter == NoPicker /\ ~streaming

\* A mention that could be completed is, unless no file begins like it.
EnterMessage ==
    /\ Enter
    /\ ~Blank
    /\ ~IsCommand
    /\ SubmitMessage
    /\ streaming' = TRUE
    /\ UNCHANGED choiceVars

BareCommand(c) ==
    \/ c = "model" /\ OpenModelPicker
    \/ c = "login" /\ OpenLoginPicker
    \/ c \notin {"model", "login"} /\ UNCHANGED choiceVars

CommandWithArgument(c) ==
    \/ c = "model" /\ (SwitchTyped \/ RefreshCommand)
    \/ c = "login" /\ (LoginCommand \/ LoginFromEnv)
    \/ c = "logout" /\ LogoutCommand
    \/ c \notin {"model", "login", "logout"} /\ UNCHANGED choiceVars

\* With a list of commands on display Enter takes the selected one.
EnterCommand ==
    /\ Enter
    /\ \/ \E c \in SlashCommandMatches : BareCommand(c)
       \/ /\ SlashCommandMatches = {}
          /\ IsCommand
          /\ IF Argument THEN CommandWithArgument(Named) ELSE BareCommand(Named)
    /\ RunCommand
    /\ UNCHANGED streaming

-----------------------------------------------------------------------------
(* Keys for the choice.                                                    *)

PickerKey ==
    /\ MoveCursor \/ MoveLoginCursor \/ SelectModel \/ SelectLogin \/ LogoutCurrent
    /\ UNCHANGED <<lineVars, streaming>>

\* The key that is left with a picker open, but not in the streaming mode.
EffortKey ==
    /\ ~streaming
    /\ CycleEffort
    /\ UNCHANGED <<lineVars, streaming>>

-----------------------------------------------------------------------------
(* Events.                                                                 *)

TurnEnds ==
    /\ streaming
    /\ streaming' = FALSE
    /\ UNCHANGED <<lineVars, choiceVars>>

\* A new list ends the streaming mode, whether or not a turn is alive.
ModelsEvent ==
    /\ HearModels
    /\ streaming' = FALSE
    /\ UNCHANGED lineVars

Task ==
    /\ \/ \E t \in Tasks : TaskStep(t)
       \/ SaveInTurn /\ streaming
    /\ UNCHANGED <<lineVars, streaming>>

ComposerNext ==
    \/ EditInput \/ PasteEvent \/ CompleteKey \/ EscapeKey \/ EnterMessage \/ EnterCommand
    \/ PickerKey \/ EffortKey
    \/ TurnEnds \/ ModelsEvent \/ Task

ComposerSpec == ComposerInit /\ [][ComposerNext]_vars
=============================================================================
