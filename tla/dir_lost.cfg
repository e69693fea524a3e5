SPECIFICATION Spec
CONSTANTS
    root = root  o1 = o1  o2 = o2  o3 = o3
    m1 = m1  m2 = m2
    c1 = c1  c2 = c2  c3 = c3
    Objs = {root, o1, o2, o3}
    Root = root
    NIds = 6
    Names = {m1, m2}
    Cells = {c1, c2, c3}
    NoObj = NoObj
    NoName = NoName
    Null = Null
SYMMETRY Perms
INVARIANT LookupComplete
CHECK_DEADLOCK FALSE
