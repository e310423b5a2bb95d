\* Two concurrent turns, one step of up to two calls each, a channel with one slot;
\* either may be cancelled at any point.  A session ends: deadlock is allowed.
CONSTANTS
    t1 = t1
    t2 = t2
    read_file = read_file
    shell = shell
    lsp = lsp
    todo_write = todo_write
    ReadOnlyTools = {read_file}
    WriteTools = {shell}
    Lsp = lsp
    OtherTools = {todo_write}
    Turns = {t1, t2}
    NoTurn = NoTurn
    MaxSteps = 1
    MaxCalls = 2
    ChanCap = 1
    ModelCalls <- EachDecision
    MaxNudges = 1
    MayCompact = TRUE
    Sayings = {"promise"}
    EndTurnFlags = {TRUE}
    MayVanish = FALSE
    WideOutput = TRUE
    EngineAtStart <- StrictEngine
    HostNews = {"status"}
    MayCancel = TRUE
SYMMETRY Symmetry
SPECIFICATION Spec
INVARIANTS TypeOK OneOwner NoLostPrompt Consent SessionGrounded
CHECK_DEADLOCK FALSE
