\* Two callers, a token that expires two ticks after its renewal is due.
CONSTANTS
    job1 = job1
    job2 = job2
    Call <- TwoCalls
    Lifetime = 5
    RenewDelay = 3
    Latency = 1
    PollDelay = 2
    Retries = 3
SPECIFICATION ClientFairSpec
INVARIANTS
    TokenAccepted
    DeletedMeansGone
PROPERTIES
    PollsEnd
