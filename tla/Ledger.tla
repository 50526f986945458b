------------------------------- MODULE Ledger -------------------------------
(***************************************************************************)
(* The double-entry ledger of apps/wallet.                                 *)
(*                                                                         *)
(* A balance is never stored by the program: get_account_balance adds up   *)
(* the LedgerEntry rows of an (account, owner) pair.  The rows are         *)
(* append-only, so this module keeps the running sum of every pair:        *)
(* balance[u][a] for the three accounts a user owns, and house for HOUSE,  *)
(* the only account without an owner.                                      *)
(*                                                                         *)
(* The entries of one Transaction all concern one user and the house, so   *)
(* their joint effect is a vector over the accounts, built from Debit and  *)
(* Credit with the operator ++.  Money is counted in whole units.          *)
(***************************************************************************)
EXTENDS Integers, FiniteSets

CONSTANT Users

ASSUME UsersAssumption == IsFiniteSet(Users)

VARIABLES balance, house

UserAccounts == {"USER_WALLET", "PENDING_BETS", "BONUS"}

Accounts == UserAccounts \cup {"HOUSE"}

Effect == [Accounts -> Int]

Credit(account, amount) ==
    [a \in Accounts |-> IF a = account THEN amount ELSE 0]

Debit(account, amount) ==
    [a \in Accounts |-> IF a = account THEN -amount ELSE 0]

e ++ f == [a \in Accounts |-> e[a] + f[a]]

Balanced(e) ==
    e["USER_WALLET"] + e["PENDING_BETS"] + e["BONUS"] + e["HOUSE"] = 0

(***************************************************************************)
(* The entries each wallet service writes.                                 *)
(***************************************************************************)
DepositEntries(amount) ==
    Debit("HOUSE", amount) ++ Credit("USER_WALLET", amount)

WithdrawEntries(amount) ==
    Debit("USER_WALLET", amount) ++ Credit("HOUSE", amount)

TransferEntries(source, target, amount) ==
    Debit(source, amount) ++ Credit(target, amount)

BonusEntries(amount) ==
    Debit("HOUSE", amount) ++ Credit("BONUS", amount)

PlacementEntries(fromWallet, fromBonus) ==
    Debit("USER_WALLET", fromWallet) ++ Debit("BONUS", fromBonus)
        ++ Credit("PENDING_BETS", fromWallet + fromBonus)

LostEntries(stake) ==
    Debit("PENDING_BETS", stake) ++ Credit("HOUSE", stake)

WonEntries(stake, payout) ==
    LostEntries(stake)
        ++ (Debit("HOUSE", payout) ++ Credit("USER_WALLET", payout))

\* A cash-out pays as a won bet does, under a kind of its own.
CashoutEntries(stake, payout) == WonEntries(stake, payout)

VoidEntries(stake) ==
    Debit("PENDING_BETS", stake) ++ Credit("USER_WALLET", stake)

\* Fault: the leg of the house is never written.
PostWithoutHouse(u, e) ==
    /\ Balanced(e)
    /\ balance' = [balance EXCEPT ![u] = [a \in UserAccounts |-> @[a] + e[a]]]
    /\ house' = house

(***************************************************************************)
(* One committed Transaction.  An unbalanced set of entries raises in      *)
(* _validate_transaction_is_balanced, so it is never posted.               *)
(***************************************************************************)
Post(u, e) ==
    /\ Balanced(e)
    /\ balance' = [balance EXCEPT ![u] = [a \in UserAccounts |-> @[a] + e[a]]]
    /\ house' = house + e["HOUSE"]

EmptyLedger ==
    /\ balance = [u \in Users |-> [a \in UserAccounts |-> 0]]
    /\ house = 0

LedgerTypeOK ==
    /\ balance \in [Users -> [UserAccounts -> Int]]
    /\ house \in Int

=============================================================================
