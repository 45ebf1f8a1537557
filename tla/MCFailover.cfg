CONSTANTS
    oa = oa
    ob = ob
    an = an
    auto = auto
    m1 = m1
    m2 = m2
    m3 = m3
    Names <- MCNames
    Models <- MCModels
    Namespaced = {}
    Config <- MCConfig
    Snapshots <- MCSnapshots
    Gateway = gateway
    RetryAttempts = 1
    MaxAttempts = 2

SPECIFICATION LiveSpec

INVARIANTS
    SentAgainOnlyAfterFailure
    FailureExhaustsCandidates
    ConfigRouteFirst
    ForwardedBodiesFit

PROPERTY EveryRequestAnswered
