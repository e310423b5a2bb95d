\* Two tasks with three calls, two servers, one list of diagnostics each.
\* When all calls are used nothing is left to do: deadlock is allowed.
CONSTANTS
    k1 = k1
    k2 = k2
    Tasks = {k1, k2}
    Kinds = {"patch", "query", "rename", "status", "edit"}
    MaxCalls = 3
    MaxClients = 2
    MaxPublishes = 1
SPECIFICATION Spec
INVARIANTS OneServer DocumentInOrder ServerSeesDisk
PROPERTIES CallsReturn
CHECK_DEADLOCK FALSE
