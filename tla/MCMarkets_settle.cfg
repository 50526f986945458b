CONSTANTS
    Markets = {m1, m2}
    m1 = m1
    m2 = m2
    Bets = {b1}
    b1 = b1
    BetMarket <- MCBetMarket
    Panels = {p1}
    p1 = p1
    Simulator = Simulator
    Tasks = {t1, t2}
    t1 = t1
    t2 = t2
    NoTask = NoTask
    Windows = {2}
    GoalWindow = 1
    StartsAt = 0
    EndsAt = 2
    MaxTime = 3
SPECIFICATION FairSpec
PROPERTY EventSettlesItsBets
