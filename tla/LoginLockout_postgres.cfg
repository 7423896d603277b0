SPECIFICATION Spec
CONSTANTS
    t1 = t1  t2 = t2  t3 = t3
    Threads = {t1, t2, t3}
    MaxFailed = 3
    Lockout = 2
    NaiveTimes = FALSE
    MaxNow = 6
SYMMETRY ThreadSymmetry
INVARIANT TypeOK
PROPERTY LockStands
