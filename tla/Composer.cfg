CONSTANTS
    t1 = t1
    c1 = c1
    c2 = c2
    c3 = c3
    local = local
    codex = codex
    remote = remote
    Things = {"a", "b"}
    Commands = {"model", "login", "logout"}
    Files = {"f"}
    MaxTexts = 2
    MaxImages = 2
    MaxItems = 3
    Discovered <- MCDiscovered
    Configured <- MCConfigured
    CopilotLists <- MCCopilotLists
    Typable <- MCTypable
    Defaults = {"ollama", "copilot"}
    Served <- MCServed
    Known <- MCKnown
    HasKey = FALSE
    Tasks = {t1}
    MaxLists = 2
    MaxNews = 1
    Held = {"copilot", "openai_account"}
SPECIFICATION ComposerSpec
CONSTRAINT Aside
INVARIANTS AttachmentsAsTagged AskedIsShown PointsAtModel
