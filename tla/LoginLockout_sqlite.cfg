SPECIFICATION Spec
CONSTANTS
    t1 = t1  t2 = t2  t3 = t3
    Threads = {t1}
    MaxFailed = 3
    Lockout = 2
    NaiveTimes = TRUE
    MaxNow = 6
INVARIANT AttemptsAreAnswered
