CONSTANTS
    Users = {u1}
    u1 = u1
    Selections = {1, 2}
    MarketOf <- MCMarketOf
    OddsValues = {15}
    OddsScale = 10
    CashOutOdds = {10, 15, 54}
    Keys = {k1}
    k1 = k1
    NoKey = NoKey
    Stakes = {2}
    MinStake = 1
    MaxPayout = 9
    HouseFactor = 9
    Opening <- MCOpening
    Offered <- SimplePlacements
    Workers = {w1, w2}
    w1 = w1
    w2 = w2
    NoWorker = NoWorker
    MaxBets = 2
SPECIFICATION Spec
SYMMETRY Symmetry
INVARIANTS TypeOK NoOverdraft StakesHeld CashOutBelowWin OneBetPerKey
PROPERTIES FinalForever KeepsPromise
