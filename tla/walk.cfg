SPECIFICATION FairSpec
CONSTANTS
    dr = dr  dx = dx  dy = dy  dz = dz  dq = dq  df = df  m0 = m0  m1 = m1  n1 = n1  n2 = n2
    Dentries = {dr, dx, dy, dz, dq, df}
    Mounts = {m0, m1}
    Names = {n1, n2}
    Inos = {0, 1, 2, 3, 4, 5, 6}
    Dirs = {0, 1, 5, 6}
    Body <- MCBody
    DotDot = DotDot
    Starts <- MCStarts
    Managed = {dz}
    EMBEDDED_LEVELS = 1
    MAXSYMLINKS = 3
    MaxLookups = 1
    Null = Null
INVARIANTS Balanced InodeAgrees FoundThere StackFits
PROPERTIES Terminates
CHECK_DEADLOCK FALSE
