SPECIFICATION FairSpec
CHECK_DEADLOCK FALSE
CONSTANTS
    Users = {ana, luis}
    Players = {ana}
    Ips = {home}
    TaskWorkers = {w1, w2}
    Amounts = {4}
    MaxRows = 2
    MaxMoney = 8
INVARIANTS
    SharedAddressNoticed
    WithdrawalNoticedInTime
    AlertsAreOfCommitted
    TypeOK
PROPERTIES
    SharedAddressIsNoticedInTime
