\* Two slots for six servers, everything may fail.
CONSTANTS
    r1 = r1
    r2 = r2
    r3 = r3
    a = a
    b = b
    c = c
    d = d
    e = e
    f = f
    n1 = n1
    NoRequest = NoRequest
    Request <- ThreeRequests
    Server <- SixServers
    RequestOf <- LargeOwner
    Turn <- LargeTurn
    Net <- OneNet
    NetsOf <- LargeInterfaces
    MaxVms = 2
    Faults = {"build", "delete", "poll", "refuse"}
SPECIFICATION FairSpec
INVARIANTS
    QuotaRespected
    ReturnedWhole
    NetworksOutliveServers
    DeletedLeavesNothing
PROPERTIES
    ImplementsPoolContract
    AnsweredOrLost
\* Every request is made once.
CHECK_DEADLOCK FALSE
