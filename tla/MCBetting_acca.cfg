CONSTANTS
    Users = {u1}
    u1 = u1
    Selections = {1, 2}
    MarketOf <- MCMarketOf
    OddsValues = {15}
    OddsScale = 10
    CashOutOdds = {10, 80}
    Keys = {}
    NoKey = NoKey
    Stakes = {2}
    MinStake = 1
    MaxPayout = 9
    HouseFactor = 9
    Opening <- MCOpening
    Offered <- CombinedPlacements
    Workers = {w1, w2}
    w1 = w1
    w2 = w2
    NoWorker = NoWorker
    MaxBets = 1
SPECIFICATION FairSpec
INVARIANTS MoneyFollowsBets NoWaitingCircle
PROPERTY EveryRequestEnds
