\* Two turns that a nudge and a completed command let overlap, under a user who
\* answers prompts and need not do anything else; every response ends in Done or
\* Error.  When both are over nothing need happen: deadlock is allowed.
CONSTANTS
    t1 = t1
    t2 = t2
    read_file = read_file
    shell = shell
    lsp = lsp
    todo_write = todo_write
    ReadOnlyTools = {read_file}
    WriteTools = {shell}
    Lsp = lsp
    OtherTools = {todo_write}
    Turns = {t1, t2}
    NoTurn = NoTurn
    MaxSteps = 1
    MaxCalls = 1
    ChanCap = 1
    ModelCalls <- AskOnly
    MaxNudges = 1
    MayCompact = FALSE
    Sayings = {"promise"}
    EndTurnFlags = {TRUE, FALSE}
    MayVanish = FALSE
    WideOutput = FALSE
    EngineAtStart <- DefaultEngine
    NoPrompt = NoPrompt
    Keys = {"type", "complete", "paste", "submit"}
    Pickers = {}
    MaxTasks = 0
SPECIFICATION FairSpec
PROPERTIES InputReturns TurnsEnd
CHECK_DEADLOCK FALSE
