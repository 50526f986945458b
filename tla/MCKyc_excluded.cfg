CONSTANTS
    u1 = u1
    u2 = u2
    d1 = d1
    Users = {u1, u2}
    Dnis = {d1}
    WebWorkers = {w1}
    w1 = w1
    TaskWorkers = {t1}
    t1 = t1
    Limits = {1, 2}
    Days = {0, 1}
    Cooldown = 1
    MaxFails = 2
    Offered <- MCPlayer
    MaxTime = 2
SPECIFICATION Spec
PROPERTY NoBetWhileExcluded
CHECK_DEADLOCK FALSE
