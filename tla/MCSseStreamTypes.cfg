CONSTANTS
    None = None
    Streams <- MCStreams
    MaxLineBuffer = 8
    MaxSizes = {16, 32}

SPECIFICATION Spec

CHECK_DEADLOCK FALSE

INVARIANT TypesPreserved
