CONSTANTS
    s1 = s1
    s2 = s2
    off = off
    a = a
    b = b
    m1 = m1
    m2 = m2
    m3 = m3
    Names <- MCNames
    Models <- MCModels
    Namespaced <- MCNamespaced
    Config <- MCConfig
    Snapshots <- MCSnapshots

SPECIFICATION Spec

INVARIANTS
    ConfigurationWins
    RoutesMatchProviders

PROPERTY RoutesSticky
