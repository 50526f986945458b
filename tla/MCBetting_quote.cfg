CONSTANTS
    Users = {u1}
    u1 = u1
    Selections = {1}
    MarketOf <- MCMarketOf
    OddsValues = {15, 20}
    OddsScale = 10
    CashOutOdds = {10}
    Keys = {}
    NoKey = NoKey
    Stakes = {2}
    MinStake = 1
    MaxPayout = 3
    HouseFactor = 9
    Opening <- MCOpening
    Offered <- SimplePlacements
    Workers = {w1, w2}
    w1 = w1
    w2 = w2
    NoWorker = NoWorker
    MaxBets = 1
SPECIFICATION Spec
INVARIANT AcceptedAtQuotedOdds
