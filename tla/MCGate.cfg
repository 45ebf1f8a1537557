CONSTANTS
    client = client
    proxy = proxy
    IPs <- MCIPs
    Callers = {r1, r2}
    Sweeper = sweeper
    None = None
    MaxAttempts = 2
    BanDuration = 2
    AuthWindow = 2
    MaxTracked = 1
    MaxTime = 3
    Deployments <- MCDeployments
    TrustedProxies <- MCProxies
    Calls <- MCCalls

SPECIFICATION LiveSpec

INVARIANTS
    AttemptsBounded
    BansConsistent
    GuessesBounded
    HandledIsAuthorised

PROPERTIES
    OnlySuccessEndsBan
    BansOutliveLaterRequests
    EveryRequestAnswered
    AuthSpec
