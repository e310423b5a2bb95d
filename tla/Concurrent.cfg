\* Two turns that a nudge, a status line of a login or a completed command lets
\* overlap; the pickers that start tasks.  The program stops when the user quits:
\* deadlock is allowed.
CONSTANTS
    t1 = t1
    t2 = t2
    read_file = read_file
    shell = shell
    lsp = lsp
    todo_write = todo_write
    ReadOnlyTools = {read_file}
    WriteTools = {shell}
    Lsp = lsp
    OtherTools = {todo_write}
    Turns = {t1, t2}
    NoTurn = NoTurn
    MaxSteps = 1
    MaxCalls = 1
    ChanCap = 1
    ModelCalls <- AskOnly
    MaxNudges = 1
    MayCompact = FALSE
    Sayings = {"promise"}
    EndTurnFlags = {TRUE}
    MayVanish = FALSE
    WideOutput = FALSE
    EngineAtStart <- DefaultEngine
    NoPrompt = NoPrompt
    Keys = {"type", "complete", "submit", "login", "quit"}
    Pickers = {"login", "model"}
    MaxTasks = 1
SYMMETRY Symmetry
SPECIFICATION Spec
INVARIANTS PromptIsLive StreamingHasEnd
PROPERTIES IsHost
CHECK_DEADLOCK FALSE
