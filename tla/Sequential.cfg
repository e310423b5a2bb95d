\* Two turns of up to two steps without compaction, nudges, login tasks and
\* completed commands, but with responses that vanish and previews that panic: what
\* keeps turns apart then.  The program stops when the user quits: deadlock is allowed.
CONSTANTS
    t1 = t1
    t2 = t2
    read_file = read_file
    shell = shell
    lsp = lsp
    todo_write = todo_write
    ReadOnlyTools = {read_file}
    WriteTools = {shell}
    Lsp = lsp
    OtherTools = {todo_write}
    Turns = {t1, t2}
    NoTurn = NoTurn
    MaxSteps = 2
    MaxCalls = 1
    ChanCap = 2
    ModelCalls <- AskAndAllow
    MaxNudges = 0
    MayCompact = FALSE
    Sayings = {"promise"}
    EndTurnFlags = {TRUE, FALSE}
    MayVanish = TRUE
    WideOutput = TRUE
    EngineAtStart <- DefaultEngine
    NoPrompt = NoPrompt
    Keys = {"type", "paste", "submit", "notice", "status", "cycle", "agent", "clear", "escape", "quit"}
    Pickers = {"agent", "theme"}
    MaxTasks = 0
SYMMETRY Symmetry
SPECIFICATION Spec
INVARIANTS OneTurnAtATime
PROPERTIES TextInOwnMessage
CHECK_DEADLOCK FALSE
