SPECIFICATION MCSpec
CONSTANTS
    n1 = n1  n2 = n2  n3 = n3
    i1 = i1  i2 = i2  i3 = i3
    Dirs = {2, 4}
    Names = {n1, n2, n3}
    Inodes = {i1, i2}
    Pages <- MCPages
    Strings <- MCStrings
    Overlay <- MCOverlay
    BKDRHash <- MCHash
    NB = 2
    NS = 1
    NBig = 2
    BUCKETS_PER_BIG_DIR = 8
    MetaLba <- MCMetaLba
    SMP = FALSE
    BPrivate = TRUE
    StaleBig = {TRUE, FALSE}
    MaxCalls = 4
    NoName = NoName
    Negative = Negative
    Unhashed = Unhashed
SYMMETRY Perms
INVARIANTS TypeOK IndexInv SlotExclusive 
PROPERTY SmallOnlyShrinks
CHECK_DEADLOCK FALSE
