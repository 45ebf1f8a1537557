CONSTANTS
    default = default
    conf = conf
    auto = auto
    junk = junk
    m1 = m1
    m2 = m2
    Names <- MCNames
    Models <- MCModels
    Namespaced = {}
    Config <- MCConfig
    Default = default
    Junk = junk
    Main = main
    Task = task
    Admins = {admin}
    Droppable = {admin}
    None = None
    Gateways <- MCGateways
    Attempts = 2
    MaxModels = 3

SPECIFICATION LiveSpec

INVARIANTS
    OnlyReported
    UndisturbedRefresh

PROPERTY Converges
