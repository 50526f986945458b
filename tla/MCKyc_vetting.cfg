CONSTANTS
    u1 = u1
    u2 = u2
    d1 = d1
    Users = {u1, u2}
    Dnis = {d1}
    WebWorkers = {w1, w2}
    w1 = w1
    w2 = w2
    TaskWorkers = {t1}
    t1 = t1
    Limits = {1, 2}
    Days = {0}
    Cooldown = 1
    MaxFails = 2
    Offered <- MCOffered
    MaxTime = 2
SPECIFICATION FairSpec
INVARIANTS TypeOK VerifiedAreVetted DepositorsAreVetted OneProfilePerDni
    PendingIsExplained
PROPERTIES BlockOutlivesLaterRequests RaisesWaitForCooldown QueuedIsProcessed
CHECK_DEADLOCK FALSE
