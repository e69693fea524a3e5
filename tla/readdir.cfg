SPECIFICATION Spec
CONSTANTS
    r1 = r1  r2 = r2
    Readers = {r1, r2}
    MaxCells = 2
    NB = 1
    NBig = 2
    NS = 2
    MaxChanges = 1
    Nobody = Nobody
SYMMETRY Perms
INVARIANTS  SecondCallEmpty
CHECK_DEADLOCK FALSE
