\* Two tasks and the user, three starts and two logins, one fault.
CONSTANTS
    k1 = k1
    k2 = k2
    ui = ui
    Actors = {k1, k2, ui}
    Ui = ui
    Providers = {"copilot", "openai_account"}
    MaxGrants = 2
    HasEnv = TRUE
    MaxStarts = 3
    MaxFaults = 1
SPECIFICATION Spec
SYMMETRY Symmetry
INVARIANTS ReadableUnlessOverlap CurrentUnlessRaced SessionOfAccount RefreshTokenIsLive
CHECK_DEADLOCK FALSE
CONSTRAINT OverlapBound
