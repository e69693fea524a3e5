SPECIFICATION Spec
CONSTANTS
    d1 = d1  d2 = d2  d3 = d3
    Dirs = {d1, d2, d3}
    N = 2
    MaxMeetings = 2
    None = None
INVARIANTS TypeOK OwnTable CountExact LockReleased
CHECK_DEADLOCK FALSE
