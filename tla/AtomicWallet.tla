---------------------------- MODULE AtomicWallet ----------------------------
(***************************************************************************)
(* What apps/wallet promises to its callers: every service request takes   *)
(* effect at one instant, on funds that are there at that instant, and at  *)
(* most once per idempotency key.  Wallet.tla is the implementation with   *)
(* its row locks, separate statements and rollbacks, and implements this.  *)
(***************************************************************************)
EXTENDS Ledger, Sequences

CONSTANTS
    Keys,            \* values of the Idempotency-Key header
    NoKey,           \* no key: placements and redemptions carry none
    Amounts,         \* amounts after normalize_money
    Campaigns,       \* promotional codes
    CampaignAmount,  \* BonusCampaign.amount of each code
    Windows,         \* rolling windows with a deposit limit (1, 7, 30 days)
    Limit,           \* limits of each user: a function of some of Windows
    MinDeposit, MaxDeposit, MinWithdraw,
    Offered          \* the requests clients send in this instance

VARIABLES
    txs,        \* the committed Transaction rows, in commit order
    idem,       \* WalletIdempotencyRecord: the transaction of a key, or 0
    redeemed,   \* UserBonus: the <<user, campaign>> pairs
    deposited   \* sum of a user's deposits inside each rolling window

tables == <<balance, house, txs, idem, redeemed, deposited>>

Request ==
    [op: {"deposit", "withdraw"}, user: Users, key: Keys, amount: Amounts]
        \cup
    [op: {"transfer"}, user: Users, key: Keys \cup {NoKey}, amount: Amounts,
     source: Accounts, target: Accounts]
        \cup
    [op: {"place"}, user: Users, key: {NoKey}, amount: Amounts,
     useBonus: BOOLEAN]
        \cup
    [op: {"redeem"}, user: Users, key: {NoKey}, campaign: Campaigns]

ASSUME NoKeyAssumption == NoKey \notin Keys

ASSUME AmountAssumption ==
    /\ Amounts \subseteq Nat \ {0}
    /\ CampaignAmount \in [Campaigns -> Nat \ {0}]
    /\ MinDeposit \in Nat /\ MaxDeposit \in Nat /\ MinWithdraw \in Nat

ASSUME LimitAssumption ==
    \A u \in Users : /\ DOMAIN Limit[u] \subseteq Windows
                     /\ Limit[u] \in [DOMAIN Limit[u] -> Nat]

ASSUME OfferedAssumption == Offered \subseteq Request

(***************************************************************************)
(* The checks made under the user's row lock.                              *)
(***************************************************************************)
\* Fault: the window is compared without the deposit being made.
WithinLimitsBefore(u, amount) ==
    \A w \in DOMAIN Limit[u] : deposited[u][w] <= Limit[u][w]

WithinLimits(u, amount) ==
    \A w \in DOMAIN Limit[u] : deposited[u][w] + amount <= Limit[u][w]

Spendable(r) ==
    balance[r.user]["USER_WALLET"]
        + (IF r.useBonus THEN balance[r.user]["BONUS"] ELSE 0)

Funded(r) ==
    /\ r.op = "deposit" => WithinLimits(r.user, r.amount)
    /\ r.op = "withdraw" => balance[r.user]["USER_WALLET"] >= r.amount
    /\ r.op = "transfer" /\ r.source \in UserAccounts
           => balance[r.user][r.source] >= r.amount
    /\ r.op = "place" => Spendable(r) >= r.amount
    /\ r.op = "redeem" => <<r.user, r.campaign>> \notin redeemed

\* Bonus money is spent first: min(amount, bonus_balance).
FromBonus(r) ==
    IF ~r.useBonus THEN 0
    ELSE IF r.amount <= balance[r.user]["BONUS"]
         THEN r.amount
         ELSE balance[r.user]["BONUS"]

EntriesOf(r) ==
    CASE r.op = "deposit"  -> DepositEntries(r.amount)
      [] r.op = "withdraw" -> WithdrawEntries(r.amount)
      [] r.op = "transfer" -> TransferEntries(r.source, r.target, r.amount)
      [] r.op = "place"    -> PlacementEntries(r.amount - FromBonus(r),
                                               FromBonus(r))
      [] r.op = "redeem"   -> BonusEntries(CampaignAmount[r.campaign])

\* An idempotency record exists for the request's user and key.
Recorded(r) == r.key # NoKey /\ idem[r.user][r.key] # 0

\* Fault: the service of withdrawals forgets _record_idempotency.
RecordUnkeyedWithdrawal(r, entries) ==
    /\ Post(r.user, entries)
    /\ txs' = Append(txs, r)
    /\ idem' = IF r.key = NoKey \/ r.op = "withdraw"
               THEN idem
               ELSE [idem EXCEPT ![r.user][r.key] = Len(txs) + 1]
    /\ UNCHANGED redeemed
    /\ deposited' = IF r.op = "deposit"
                    THEN [deposited EXCEPT ![r.user] =
                              [w \in Windows |-> @[w] + r.amount]]
                    ELSE deposited

\* Fault: the UserBonus row is not created.
RecordWithoutUserBonus(r, entries) ==
    /\ Post(r.user, entries)
    /\ txs' = Append(txs, r)
    /\ UNCHANGED <<idem, redeemed>>
    /\ deposited' = IF r.op = "deposit"
                    THEN [deposited EXCEPT ![r.user] =
                              [w \in Windows |-> @[w] + r.amount]]
                    ELSE deposited

(***************************************************************************)
(* All rows of one transaction: entries, idempotency record, redemption.   *)
(***************************************************************************)
Record(r, entries) ==
    /\ Post(r.user, entries)
    /\ txs' = Append(txs, r)
    /\ idem' = IF r.key = NoKey
               THEN idem
               ELSE [idem EXCEPT ![r.user][r.key] = Len(txs) + 1]
    /\ redeemed' = IF r.op = "redeem"
                   THEN redeemed \cup {<<r.user, r.campaign>>}
                   ELSE redeemed
    /\ deposited' = IF r.op = "deposit"
                    THEN [deposited EXCEPT ![r.user] =
                              [w \in Windows |-> @[w] + r.amount]]
                    ELSE deposited

Apply(r) ==
    /\ ~Recorded(r)
    /\ Funded(r)
    /\ Record(r, EntriesOf(r))

\* Time passes: deposits of u leave a rolling window.
Elapse(u) ==
    /\ \E w \in Windows : \E remaining \in 0 .. deposited[u][w] :
           deposited' = [deposited EXCEPT ![u][w] = remaining]
    /\ UNCHANGED <<balance, house, txs, idem, redeemed>>

AtomicInit ==
    /\ EmptyLedger
    /\ txs = << >>
    /\ idem = [u \in Users |-> [k \in Keys |-> 0]]
    /\ redeemed = {}
    /\ deposited = [u \in Users |-> [w \in Windows |-> 0]]

AtomicNext ==
    \/ \E r \in Offered : Apply(r)
    \/ \E u \in Users : Elapse(u)

AtomicSpec == AtomicInit /\ [][AtomicNext]_tables

TablesTypeOK ==
    /\ LedgerTypeOK
    /\ txs \in Seq(Request)
    /\ idem \in [Users -> [Keys -> Nat]]
    /\ redeemed \subseteq Users \X Campaigns
    /\ deposited \in [Users -> [Windows -> Nat]]

=============================================================================
