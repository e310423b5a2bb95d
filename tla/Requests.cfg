\* Two turns that call tools of one server after its start-up.  Nothing is left to
\* do when the requests are used up: deadlock is allowed.
CONSTANTS
    t1 = t1
    t2 = t2
    main = main
    Callers = {t1, t2}
    Main = main
    PipeCap = 1
    MaxRequests = 4
    MaxNoise = 1
    Configs = {"disabled", "empty", "enabled"}
SPECIFICATION FairSpec
INVARIANTS TypeOK ReplyIsOwn
PROPERTIES CallsReturn
CHECK_DEADLOCK FALSE
