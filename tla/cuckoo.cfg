SPECIFICATION Spec
CONSTANTS
    k1 = k1  k2 = k2  k3 = k3  k4 = k4  k5 = k5  k6 = k6
    Keys = {k1, k2, k3, k4, k5, k6}
    Values <- MCValues
    Hashes <- MCHashes
    CUCKOO_HASH_ASSOC_NUM = 2
    MAX_EVICTION = 3
    RESIZE_FACTOR = 2
    Capacity = 3
    MaxCapacity = 6
    INVALID = INVALID
    NoValue = NoValue
INVARIANTS InPlace ResizeSucceeds
PROPERTIES IsMap
CHECK_DEADLOCK FALSE
