SPECIFICATION Spec
CONSTANTS
    o1 = o1  o2 = o2  c1 = c1  c2 = c2
    Width = 3
    Owners = {o1, o2}
    Clients = {c1, c2}
    ClientOf <- MCClientOf
    Threads = {t1}
    Ranges <- MCToEof
    MaxLocks = 3
    MaxKey = 3
    MaxSid = 2
    MaxRestart = 0
    MaxCrash = 0
SYMMETRY MCSymmetry
CONSTRAINT MCBound
CHECK_DEADLOCK FALSE
INVARIANT HeldAsTold
