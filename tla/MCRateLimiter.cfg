CONSTANTS
    IPs = {ip1, ip2, ip3}
    Burst = 2
    Rps = 1
    MaxTracked = 2
    MaxTime = 5

SPECIFICATION Spec

INVARIANTS
    TrackedBounded
    WindowQuota
    NoGrantForgotten

SYMMETRY Symmetry
