SPECIFICATION FairSpec
CONSTANTS
    p1 = p1  p2 = p2  p3 = p3  na = na  nb = nb
    Procs = {p1, p2}
    N = 5
    Names = {na, nb}
    Dots = Dots
    Scenarios <- MCScenarios
    MAXSYMLINKS = 1
    Refusals = {"ESTALE"}
    None = None
INVARIANTS TypeOK TreeWhole NoWaitCycle WaitsUnlocked
PROPERTIES Atomic GoneForever ReadOnlyKept Returns
CHECK_DEADLOCK FALSE
