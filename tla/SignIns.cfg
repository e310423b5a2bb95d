\* Two browser logins, or a device login.  When all are over nothing is left to
\* do: deadlock is allowed.
CONSTANTS
    b1 = b1
    b2 = b2
    d1 = d1
    preferred = preferred
    fallback = fallback
    BrowserLogins = {b1, b2}
    DeviceLogins = {d1}
    Ports <- BothPorts
    MaxVisitors = 2
    DefaultWait = 2
    MaxWait = 4
    MaxLimit = 3
SPECIFICATION FairSpec
INVARIANTS CodeIsOwn CallbacksFindTheirLogin
PROPERTIES PollsAsAsked LoginEnds
CHECK_DEADLOCK FALSE
