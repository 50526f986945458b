CONSTANTS
    Users = {u1}
    u1 = u1
    Keys = {k1, k2}
    k1 = k1
    k2 = k2
    NoKey = NoKey
    Workers = {w1, w2}
    w1 = w1
    w2 = w2
    NoWorker = NoWorker
    NoJob = NoJob
    Amounts = {1, 2}
    Campaigns = {"JUEGO_RESPONSABLE"}
    CampaignAmount <- MCCampaignAmount
    CampaignType <- MCCampaignType
    Windows = {"daily"}
    Limit <- MCLimit
    MinDeposit = 1
    MaxDeposit = 2
    MinWithdraw = 1
    FirstDepositMin = 2
    MaxTx = 2
    Offered <- KeyedRequests
SPECIFICATION FairSpec
INVARIANT OneTransactionPerKey
PROPERTIES AtomicSpec AnswersOwnRequest EveryRequestEnds
