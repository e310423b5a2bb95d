SPECIFICATION Spec
CONSTANTS
    Providers = {"openai_compat", "ollama", "account", "copilot"}
    Transcripts <- MCTranscripts
    Window = 20
    Reserve = 8
    Keeps = {0, 8, 12}
    MaxLines = 5
    MaxCalls = 2
    MaxAhead = 8
INVARIANTS
    HeardAsSaid
    EndsOnce
    
    NewestAreSent
CHECK_DEADLOCK FALSE
