SPECIFICATION Spec
CONSTANTS
    p1 = p1
    p2 = p2
    r1 = r1
    r2 = r2
    Procs = {p1, p2}
    Repos = {r1, r2}
    Chosen = Chosen
    Host = Host
    None = None
    Unset = Unset
    MaxStarts = 4
    MaxFaults = 1
SYMMETRY Symmetric
CHECK_DEADLOCK FALSE
INVARIANTS OneIdentity InstallSticks
PROPERTY NoThrowawayId
