\* One server that is started twice, may be killed once and fail once, and two clients
\* with commands of one and of two bytes, which is the limit.
CONSTANTS
    Servers = {s1}
    Clients = {c1, c2}
    NoClient = NoClient
    kMaximumCommandLength = 2
    MaxStarts = 2
    MaxCrashes = 1
    MaxFailures = 1
SPECIFICATION FairSpec
INVARIANTS ThreadHasListener NoDeadSocket RestartNotBlocked WholeCommands
PROPERTIES StopReturns ConnectionsEnd
\* Servers and clients end.
CHECK_DEADLOCK FALSE
