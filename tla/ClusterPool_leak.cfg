\* Two slots for four servers, and get_cluster may raise.
CONSTANTS
    r1 = r1
    r2 = r2
    r3 = r3
    a = a
    b = b
    c = c
    d = d
    e = e
    f = f
    n1 = n1
    NoRequest = NoRequest
    Request <- ThreeRequests
    Server <- FourServers
    RequestOf <- Owner
    Turn <- Place
    Net <- OneNet
    NetsOf <- Interfaces
    MaxVms = 2
    Faults = {"build"}
SPECIFICATION FairSpec
PROPERTIES
    Answered
CHECK_DEADLOCK FALSE
