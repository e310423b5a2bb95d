\* One turn of two calls and the user; a list of one snapshot; two edits,
\* commands or crashes.
CONSTANTS
    t1 = t1
    ui = ui
    ignoreFile = ignoreFile
    build = build
    src = src
    new = new
    outside = outside
    Files = {ignoreFile, build, src, new}
    Texts <- MCTexts
    Lines <- MCLines
    Absent = Absent
    NoText = NoText
    Torn = Torn
    IgnoreFile = ignoreFile
    IgnoredBy <- MCIgnoredBy
    Excludes = {}
    SizeOf <- MCSizeOf
    Budget = 10
    Retain = 1
    Backends = {"git", "tar"}
    StartTrees <- MCStartTrees
    Actors = {t1, ui}
    Turns = {t1}
    Ui = ui
    MaxSnaps = 2
    MaxFaults = 1
    Patches <- MCPatches
    Edits <- MCEdits
    AutoPrePatch = TRUE
    AutoPreShell = TRUE
    MaxCalls = 2
    MaxEvents = 2
SPECIFICATION Spec
INVARIANTS NewestRestorable CallHasNet  AllOrNothing PatchMeansWhatItSays
CHECK_DEADLOCK FALSE
