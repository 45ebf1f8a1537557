CONSTANTS
    Processes = {p1, p2}
    Providers = {v1}
    Urls = {u1, u2}
    Sound = {u1}
    Url = u1
    None = None
    MaxEdits = 1

SPECIFICATION ExportSpec
SYMMETRY MCSymmetry

CHECK_DEADLOCK FALSE

INVARIANTS
    CrashSafe
    SaveUndisturbed
    SettingsKept
    TornOnlyByAccident
