---------------------------- MODULE WalletProofs ----------------------------
(***************************************************************************)
(* Proofs about Wallet for every set of users, workers, keys, amounts and  *)
(* campaigns.                                                              *)
(*                                                                         *)
(* The argument: a worker past LockUser holds its user's row (LockInv), so *)
(* no other transaction of that user commits between its check and its     *)
(* commit; what Accept found out about the funds and the key is therefore  *)
(* still true when Commit posts the planned entries (PlanStillValid).      *)
(***************************************************************************)
EXTENDS Wallet, ArithmeticProofs, TLAPS

LockInv ==
    \A w \in Workers :
        pc[w] \in {"check", "post"} => userLock[job[w].user] = w

JobInv == \A w \in Workers : pc[w] # "idle" => job[w] \in Offered

IInv == TypeOK /\ LockInv /\ JobInv /\ PlanStillValid

-----------------------------------------------------------------------------
(***************************************************************************)
(* Lemmas about requests and entries.                                      *)
(***************************************************************************)
\* Every request names a user, and the fields its service reads are typed.
LEMMA RequestFields ==
    ASSUME NEW r \in Request
    PROVE  /\ r.user \in Users
           /\ r.key \in Keys \cup {NoKey}
           /\ r.op \in {"deposit", "withdraw", "transfer", "place", "redeem"}
           /\ r.op # "redeem" => r.amount \in Nat \ {0}
           /\ r.op = "transfer" => r.source \in Accounts /\ r.target \in Accounts
           /\ r.op = "place" => r.useBonus \in BOOLEAN
           /\ r.op = "redeem" => r.campaign \in Campaigns
  BY AmountAssumption DEF Request

\* The building blocks of a transaction are integer vectors over the accounts.
LEMMA LegTypes ==
    ASSUME NEW account \in Accounts, NEW amount \in Int
    PROVE  Credit(account, amount) \in Effect /\ Debit(account, amount) \in Effect
  BY DEF Credit, Debit, Effect

LEMMA SumType ==
    ASSUME NEW e \in Effect, NEW f \in Effect
    PROVE  e ++ f \in Effect
  BY DEF Effect, ++

LEMMA FromBonusType ==
    ASSUME LedgerTypeOK, NEW r \in Request, r.op = "place"
    PROVE  FromBonus(r) \in Int
  <1>1. balance[r.user]["BONUS"] \in Int
    BY RequestFields DEF LedgerTypeOK, UserAccounts
  <1>2. QED
    BY <1>1, RequestFields DEF FromBonus

\* The entries of every service form an effect.
LEMMA EntriesType ==
    ASSUME LedgerTypeOK, NEW r \in Request
    PROVE  EntriesOf(r) \in Effect
  <1> DEFINE acc == {"USER_WALLET", "PENDING_BETS", "BONUS", "HOUSE"}
  <1>0. Accounts = acc
    BY DEF Accounts, UserAccounts
  <1>1. CASE r.op = "deposit"
    <2>1. r.amount \in Int  BY <1>1, RequestFields
    <2>2. QED BY <1>0, <1>1, <2>1, LegTypes, SumType DEF EntriesOf, DepositEntries
  <1>2. CASE r.op = "withdraw"
    <2>1. r.amount \in Int  BY <1>2, RequestFields
    <2>2. QED BY <1>0, <1>2, <2>1, LegTypes, SumType DEF EntriesOf, WithdrawEntries
  <1>3. CASE r.op = "transfer"
    <2>1. r.amount \in Int /\ r.source \in Accounts /\ r.target \in Accounts
      BY <1>3, RequestFields
    <2>2. QED BY <1>3, <2>1, LegTypes, SumType DEF EntriesOf, TransferEntries
  <1>4. CASE r.op = "place"
    <2>1. r.amount \in Int /\ FromBonus(r) \in Int
      BY <1>4, RequestFields, FromBonusType
    <2> DEFINE x == r.amount - FromBonus(r)
               y == FromBonus(r)
    <2>2. x \in Int /\ y \in Int /\ x + y \in Int  BY <2>1
    <2> HIDE DEF x, y
    <2>3. Debit("USER_WALLET", x) \in Effect /\ Debit("BONUS", y) \in Effect
            /\ Credit("PENDING_BETS", x + y) \in Effect
      BY <1>0, <2>2, LegTypes
    <2>4. PlacementEntries(x, y) \in Effect
      BY <2>3, SumType DEF PlacementEntries
    <2>5. EntriesOf(r) = PlacementEntries(x, y)
      BY <1>4 DEF EntriesOf, x, y
    <2>6. QED BY <2>4, <2>5
  <1>5. CASE r.op = "redeem"
    <2>1. CampaignAmount[r.campaign] \in Int
      BY <1>5, RequestFields, AmountAssumption
    <2>2. QED BY <1>0, <1>5, <2>1, LegTypes, SumType DEF EntriesOf, BonusEntries
  <1>6. QED
    BY <1>1, <1>2, <1>3, <1>4, <1>5, RequestFields

\* Entries computed from funds that suffice overdraw no account of the user.
LEMMA EntriesKeepFunds ==
    ASSUME LedgerTypeOK, NoOverdraft, NEW r \in Request, Funded(r),
           NEW a \in UserAccounts
    PROVE  balance[r.user][a] + EntriesOf(r)[a] >= 0
  <1> DEFINE b == balance[r.user]
  <1>1. /\ b["USER_WALLET"] \in Nat /\ b["PENDING_BETS"] \in Nat
        /\ b["BONUS"] \in Nat
    BY RequestFields DEF LedgerTypeOK, NoOverdraft, UserAccounts
  <1>2. a \in {"USER_WALLET", "PENDING_BETS", "BONUS"} /\ a \in Accounts
    BY DEF UserAccounts, Accounts
  <1>3. CASE r.op = "deposit"
    <2>1. r.amount \in Nat  BY <1>3, RequestFields
    <2>2. EntriesOf(r)[a] = (Debit("HOUSE", r.amount) ++ Credit("USER_WALLET", r.amount))[a]
      BY <1>3 DEF EntriesOf, DepositEntries
    <2>3. EntriesOf(r)[a] \in Nat
      BY <1>2, <2>1, <2>2 DEF Debit, Credit, ++
    <2>4. QED BY <1>1, <1>2, <2>3
  <1>4. CASE r.op = "withdraw"
    <2>1. r.amount \in Nat /\ b["USER_WALLET"] >= r.amount
      BY <1>4, RequestFields DEF Funded
    <2>2. EntriesOf(r)[a] = (Debit("USER_WALLET", r.amount) ++ Credit("HOUSE", r.amount))[a]
      BY <1>4 DEF EntriesOf, WithdrawEntries
    <2>3. EntriesOf(r)[a] = IF a = "USER_WALLET" THEN -r.amount ELSE 0
      BY <1>2, <2>1, <2>2 DEF Debit, Credit, ++
    <2>4. QED BY <1>1, <1>2, <2>1, <2>3
  <1>5. CASE r.op = "transfer"
    <2>1. r.amount \in Nat /\ (r.source \in UserAccounts => b[r.source] >= r.amount)
      BY <1>5, RequestFields DEF Funded
    <2>2. EntriesOf(r)[a] = (Debit(r.source, r.amount) ++ Credit(r.target, r.amount))[a]
      BY <1>5 DEF EntriesOf, TransferEntries
    <2>3. EntriesOf(r)[a] = (IF a = r.source THEN -r.amount ELSE 0)
                              + (IF a = r.target THEN r.amount ELSE 0)
      BY <1>2, <2>1, <2>2 DEF Debit, Credit, ++
    <2>4. b[a] \in Nat  BY <1>1, <1>2
    <2>5. CASE a = r.source
      BY <2>1, <2>3, <2>4, <2>5
    <2>6. CASE a # r.source
      BY <2>1, <2>3, <2>4, <2>6
    <2>7. QED BY <2>5, <2>6
  <1>6. CASE r.op = "place"
    <2> DEFINE y == FromBonus(r)
               x == r.amount - y
    <2>1. r.amount \in Nat /\ r.useBonus \in BOOLEAN  BY <1>6, RequestFields
    <2>2. y \in Nat /\ y <= b["BONUS"] /\ x \in Nat
      BY <1>1, <2>1 DEF FromBonus
    <2>3. x <= b["USER_WALLET"]
      <3>1. Spendable(r) >= r.amount  BY <1>6 DEF Funded
      <3>2. QED BY <1>1, <2>1, <3>1 DEF Spendable, FromBonus
    <2>4. EntriesOf(r) = PlacementEntries(x, y)
      BY <1>6 DEF EntriesOf
    <2> HIDE DEF x, y
    <2>5. EntriesOf(r)[a] = IF a = "USER_WALLET" THEN -x
                            ELSE IF a = "BONUS" THEN -y ELSE x + y
      BY <1>2, <2>2, <2>4 DEF PlacementEntries, Debit, Credit, ++
    <2>6. QED BY <1>1, <1>2, <2>2, <2>3, <2>5
  <1>7. CASE r.op = "redeem"
    <2> DEFINE c == CampaignAmount[r.campaign]
    <2>1. c \in Nat  BY <1>7, RequestFields, AmountAssumption
    <2> HIDE DEF c
    <2>2. EntriesOf(r)[a] = (Debit("HOUSE", c) ++ Credit("BONUS", c))[a]
      BY <1>7 DEF EntriesOf, BonusEntries, c
    <2>3. EntriesOf(r)[a] \in Nat
      BY <1>2, <2>1, <2>2 DEF Debit, Credit, ++
    <2>4. QED BY <1>1, <1>2, <2>3
  <1>8. QED
    BY <1>3, <1>4, <1>5, <1>6, <1>7, RequestFields

-----------------------------------------------------------------------------
(***************************************************************************)
(* The type invariant.                                                     *)
(***************************************************************************)
\* Posting an effect for a user keeps the balances typed.
LEMMA PostType ==
    ASSUME LedgerTypeOK, NEW u \in Users, NEW e \in Effect, Post(u, e)
    PROVE  LedgerTypeOK'
  <1>1. \A a \in UserAccounts : e[a] \in Int /\ balance[u][a] \in Int
    BY DEF Effect, Accounts, LedgerTypeOK
  <1>2. e["HOUSE"] \in Int
    BY DEF Effect, Accounts
  <1>3. house' \in Int
    BY <1>2 DEF Post, LedgerTypeOK
  <1>4. balance' \in [Users -> [UserAccounts -> Int]]
    BY <1>1 DEF Post, LedgerTypeOK
  <1>5. QED BY <1>3, <1>4 DEF LedgerTypeOK

LEMMA RecordType ==
    ASSUME TablesTypeOK, NEW r \in Request, NEW e \in Effect, Record(r, e)
    PROVE  TablesTypeOK'
  <1>1. LedgerTypeOK'
    BY PostType, RequestFields DEF TablesTypeOK, Record
  <1>2. txs' \in Seq(Request)
    BY DEF TablesTypeOK, Record
  <1>3. idem' \in [Users -> [Keys -> Nat]]
    <2>1. Len(txs) + 1 \in Nat  BY DEF TablesTypeOK
    <2>2. r.user \in Users /\ r.key \in Keys \cup {NoKey}  BY RequestFields
    <2>3. CASE r.key = NoKey
      BY <2>3 DEF TablesTypeOK, Record
    <2>4. CASE r.key \in Keys /\ r.key # NoKey
      BY <2>1, <2>2, <2>4 DEF TablesTypeOK, Record
    <2>5. QED BY <2>2, <2>3, <2>4
  <1>4. redeemed' \subseteq Users \X Campaigns
    BY RequestFields DEF TablesTypeOK, Record
  <1>5. deposited' \in [Users -> [Windows -> Nat]]
    <2>1. CASE r.op = "deposit"
      <3>1. r.amount \in Nat /\ r.user \in Users  BY <2>1, RequestFields
      <3>2. [w \in Windows |-> deposited[r.user][w] + r.amount] \in [Windows -> Nat]
        BY <3>1 DEF TablesTypeOK
      <3>3. deposited' = [deposited EXCEPT ![r.user] =
                            [w \in Windows |-> deposited[r.user][w] + r.amount]]
        BY <2>1 DEF Record
      <3>4. QED BY <3>1, <3>2, <3>3 DEF TablesTypeOK
    <2>2. CASE r.op # "deposit"
      BY <2>2 DEF TablesTypeOK, Record
    <2>3. QED BY <2>1, <2>2
  <1>6. QED
    BY <1>1, <1>2, <1>3, <1>4, <1>5 DEF TablesTypeOK

\* No step of the tables' clock breaks their types.
LEMMA ElapseType ==
    ASSUME TablesTypeOK, NEW u \in Users, Elapse(u)
    PROVE  TablesTypeOK'
  <1>1. deposited' \in [Users -> [Windows -> Nat]]
    <2>1. PICK w \in Windows : \E remaining \in 0 .. deposited[u][w] :
              deposited' = [deposited EXCEPT ![u][w] = remaining]
      BY DEF Elapse
    <2>2. PICK remaining \in 0 .. deposited[u][w] :
              deposited' = [deposited EXCEPT ![u][w] = remaining]
      BY <2>1
    <2>3. remaining \in Nat  BY <2>2 DEF TablesTypeOK
    <2>4. QED BY <2>2, <2>3 DEF TablesTypeOK
  <1>2. QED BY <1>1 DEF Elapse, TablesTypeOK, LedgerTypeOK

LEMMA InitType == Init => TypeOK
  <1> SUFFICES ASSUME Init PROVE TypeOK
    OBVIOUS
  <1>1. TablesTypeOK
    BY DEF Init, AtomicInit, EmptyLedger, TablesTypeOK, LedgerTypeOK
  <1>2. QED
    BY <1>1 DEF Init, TypeOK, KycStatus, NoEffect, Effect

LEMMA FinishType ==
    ASSUME TypeOK, NEW w \in Workers, NEW answer \in Nat, Finish(w, answer),
           TablesTypeOK', UNCHANGED profile
    PROVE  TypeOK'
  <1>1. userLock' \in [Users -> Workers \cup {NoWorker}]
    BY DEF Finish, TypeOK
  <1>2. /\ pc' \in [Workers -> {"idle", "begin", "check", "post"}]
        /\ job' \in [Workers -> Request \cup {NoJob}]
        /\ \A v \in Workers : pc'[v] # "idle" => job'[v] \in Request
    BY DEF Finish, TypeOK
  <1>3. plan' \in [Workers -> Effect] /\ reply' \in [Workers -> Nat]
    BY DEF Finish, TypeOK, NoEffect, Effect
  <1>4. QED
    BY <1>1, <1>2, <1>3 DEF TypeOK, profile

LEMMA NextType == ASSUME TypeOK, [Next]_vars PROVE TypeOK'
  <1>1. ASSUME NEW w \in Workers, Receive(w) PROVE TypeOK'
    <2>1. PICK r \in Offered : /\ job' = [job EXCEPT ![w] = r]
                               /\ active' \in {Campaigns, active}
      BY <1>1 DEF Receive
    <2>2. r \in Request  BY OfferedAssumption
    <2>3. TablesTypeOK'
      BY <1>1 DEF Receive, TypeOK, TablesTypeOK, LedgerTypeOK, tables
    <2>4. QED BY <1>1, <2>1, <2>2, <2>3 DEF Receive, TypeOK
  <1>2. ASSUME NEW w \in Workers, LockUser(w) PROVE TypeOK'
    BY <1>2 DEF LockUser, TypeOK, TablesTypeOK, LedgerTypeOK, tables, profile
  <1>3. ASSUME NEW w \in Workers, Replay(w) PROVE TypeOK'
    <2>1. idem[job[w].user][job[w].key] \in Nat
      BY <1>3, RequestFields DEF Replay, Recorded, TypeOK, TablesTypeOK
    <2>2. TablesTypeOK'
      BY <1>3 DEF Replay, TypeOK, TablesTypeOK, LedgerTypeOK, tables
    <2>3. PICK answer \in Nat : Finish(w, answer)
      BY <1>3, <2>1 DEF Replay
    <2>4. QED BY <1>3, <2>2, <2>3, FinishType DEF Replay
  <1>4. ASSUME NEW w \in Workers, Refuse(w) \/ Rollback(w) PROVE TypeOK'
    <2>1. TablesTypeOK'
      BY <1>4 DEF Refuse, Rollback, TypeOK, TablesTypeOK, LedgerTypeOK, tables
    <2>2. QED BY <1>4, <2>1, FinishType DEF Refuse, Rollback
  <1>5. ASSUME NEW w \in Workers, Accept(w) PROVE TypeOK'
    <2>1. EntriesOf(job[w]) \in Effect
      BY <1>5, EntriesType DEF Accept, TypeOK, TablesTypeOK
    <2>2. TablesTypeOK'
      BY <1>5 DEF Accept, TypeOK, TablesTypeOK, LedgerTypeOK, tables
    <2>3. QED BY <1>5, <2>1, <2>2 DEF Accept, TypeOK, profile
  <1>6. ASSUME NEW w \in Workers, Commit(w) PROVE TypeOK'
    <2>1. job[w] \in Request /\ plan[w] \in Effect
      BY <1>6 DEF Commit, TypeOK
    <2>2. TablesTypeOK'
      BY <1>6, <2>1, RecordType DEF Commit, TypeOK
    <2>3. Len(txs) + 1 \in Nat
      BY DEF TypeOK, TablesTypeOK
    <2>4. QED BY <1>6, <2>2, <2>3, FinishType DEF Commit
  <1>7. ASSUME NEW u \in Users, VerifyEmail(u) \/ ChangeKyc(u) PROVE TypeOK'
    BY <1>7 DEF VerifyEmail, ChangeKyc, TypeOK, TablesTypeOK, LedgerTypeOK,
                tables, session
  <1>8. ASSUME NEW u \in Users, PassTime(u) PROVE TypeOK'
    <2>1. TablesTypeOK'  BY <1>8, ElapseType DEF PassTime, TypeOK
    <2>2. QED BY <1>8, <2>1 DEF PassTime, TypeOK, profile, session
  <1>9. ASSUME NEW c \in Campaigns, DeactivateCampaign(c) PROVE TypeOK'
    BY <1>9 DEF DeactivateCampaign, TypeOK, TablesTypeOK, LedgerTypeOK,
                tables, session
  <1>10. CASE UNCHANGED vars
    BY <1>10 DEF vars, tables, profile, session, TypeOK, TablesTypeOK, LedgerTypeOK
  <1>11. QED
    BY <1>1, <1>2, <1>3, <1>4, <1>5, <1>6, <1>7, <1>8, <1>9, <1>10
    DEF Next, Serve

\* Type correctness: whatever the services do, in any interleaving, the
\* tables and the workers keep their types.
THEOREM TypeCorrect == Spec => []TypeOK
  BY InitType, NextType, PTL DEF Spec

-----------------------------------------------------------------------------
(***************************************************************************)
(* The inductive invariant.                                                *)
(***************************************************************************)
\* A transaction of one user changes nothing a check on another user reads.
LEMMA RecordOfOther ==
    ASSUME TypeOK, NEW r \in Request, NEW e, Record(r, e),
           NEW q \in Request, q.user # r.user
    PROVE  /\ Recorded(q)' <=> Recorded(q)
           /\ Funded(q)' <=> Funded(q)
           /\ EntriesOf(q)' = EntriesOf(q)
  <1>1. q.user \in Users /\ r.user \in Users /\ q.key \in Keys \cup {NoKey}
          /\ r.key \in Keys \cup {NoKey}
    BY RequestFields
  <1>2. balance'[q.user] = balance[q.user]
    BY <1>1 DEF Record, Post, TypeOK, TablesTypeOK, LedgerTypeOK
  <1>3. deposited'[q.user] = deposited[q.user]
    BY <1>1 DEF Record, TypeOK, TablesTypeOK
  <1>4. idem'[q.user] = idem[q.user]
    BY <1>1 DEF Record, TypeOK, TablesTypeOK
  <1>5. \A c : <<q.user, c>> \in redeemed' <=> <<q.user, c>> \in redeemed
    BY DEF Record
  <1>6. Recorded(q)' <=> Recorded(q)
    BY <1>4 DEF Recorded
  <1>7. Spendable(q)' = Spendable(q) /\ FromBonus(q)' = FromBonus(q)
    BY <1>2 DEF Spendable, FromBonus
  <1>8. \A x : WithinLimits(q.user, x)' <=> WithinLimits(q.user, x)
    BY <1>3 DEF WithinLimits
  <1>9. Funded(q)' <=> Funded(q)
    BY <1>2, <1>5, <1>7, <1>8 DEF Funded
  <1>10. EntriesOf(q)' = EntriesOf(q)
    BY <1>7 DEF EntriesOf
  <1>11. QED BY <1>6, <1>9, <1>10

\* Deposits leaving a window make a limit check no harder to pass.
LEMMA ElapseKeepsFunded ==
    ASSUME TypeOK, NEW u \in Users, Elapse(u), NEW q \in Request
    PROVE  /\ Recorded(q)' <=> Recorded(q)
           /\ Funded(q) => Funded(q)'
           /\ EntriesOf(q)' = EntriesOf(q)
  <1>1. \A v \in Users : \A w \in Windows : deposited'[v][w] <= deposited[v][w]
    <2>1. PICK w \in Windows : \E remaining \in 0 .. deposited[u][w] :
              deposited' = [deposited EXCEPT ![u][w] = remaining]
      BY DEF Elapse
    <2>2. PICK remaining \in 0 .. deposited[u][w] :
              deposited' = [deposited EXCEPT ![u][w] = remaining]
      BY <2>1
    <2>3. \A v \in Users : \A x \in Windows : deposited[v][x] \in Nat
      BY DEF TypeOK, TablesTypeOK
    <2>4. QED BY <2>2, <2>3 DEF TypeOK, TablesTypeOK
  <1>2. q.op = "deposit" /\ WithinLimits(q.user, q.amount)
          => WithinLimits(q.user, q.amount)'
    <2> SUFFICES ASSUME q.op = "deposit", WithinLimits(q.user, q.amount),
                        NEW w \in DOMAIN Limit[q.user]
                 PROVE  deposited'[q.user][w] + q.amount <= Limit[q.user][w]
      BY DEF WithinLimits
    <2>1. q.user \in Users /\ q.amount \in Nat
      BY RequestFields
    <2>2. w \in Windows /\ Limit[q.user][w] \in Nat
      BY <2>1, LimitAssumption
    <2>3. deposited[q.user][w] \in Nat
      BY <2>1, <2>2 DEF TypeOK, TablesTypeOK
    <2>4. deposited'[q.user][w] \in Nat
      BY <2>1, <2>2, ElapseType DEF TypeOK, TablesTypeOK
    <2>5. deposited[q.user][w] + q.amount <= Limit[q.user][w]
      BY DEF WithinLimits
    <2>6. QED BY <1>1, <2>1, <2>2, <2>3, <2>4, <2>5
  <1>3. Funded(q) => Funded(q)'
    BY <1>2 DEF Funded, Spendable, Elapse
  <1>4. QED
    BY <1>3 DEF Elapse, Recorded, EntriesOf, FromBonus

\* Steps that leave the tables alone leave every check alone.
LEMMA UnchangedTables ==
    ASSUME UNCHANGED tables, NEW q \in Request
    PROVE  /\ Recorded(q)' <=> Recorded(q)
           /\ Funded(q)' <=> Funded(q)
           /\ EntriesOf(q)' = EntriesOf(q)
  BY DEF tables, Recorded, Funded, Spendable, WithinLimits, EntriesOf, FromBonus

LEMMA FinishInv ==
    ASSUME TypeOK, LockInv, JobInv, NEW w \in Workers, NEW answer,
           Finish(w, answer)
    PROVE  LockInv' /\ JobInv'
  <1>1. LockInv'
    <2> SUFFICES ASSUME NEW v \in Workers, pc'[v] \in {"check", "post"}
                 PROVE  userLock'[job'[v].user] = v
      BY DEF LockInv
    <2>1. v # w /\ pc'[v] = pc[v] /\ job'[v] = job[v]
      BY DEF Finish, TypeOK
    <2>2. userLock[job[v].user] = v
      BY <2>1 DEF LockInv
    <2>3. job[v].user \in Users
      BY <2>1, RequestFields DEF TypeOK
    <2>4. QED BY <2>1, <2>2, <2>3 DEF Finish
  <1>2. JobInv'
    BY DEF Finish, JobInv, TypeOK
  <1>3. QED BY <1>1, <1>2

LEMMA NextInv == ASSUME IInv, [Next]_vars PROVE IInv'
  <1> USE DEF IInv
  <1>0. TypeOK'  BY NextType
  <1>1. ASSUME NEW w \in Workers, Receive(w) PROVE IInv'
    <2>1. PICK r \in Offered : job' = [job EXCEPT ![w] = r]
      BY <1>1 DEF Receive
    <2>2. \A v \in Workers : pc'[v] \in {"check", "post"}
              => v # w /\ pc'[v] = pc[v] /\ job'[v] = job[v] /\ plan'[v] = plan[v]
      BY <1>1, <2>1 DEF Receive, TypeOK
    <2>3. LockInv'
      BY <1>1, <2>2 DEF Receive, LockInv
    <2>4. JobInv'
      BY <1>1, <2>1 DEF Receive, JobInv, TypeOK
    <2>5. PlanStillValid'
      BY <1>1, <2>2, UnchangedTables DEF Receive, PlanStillValid, TypeOK
    <2>6. QED BY <1>0, <2>3, <2>4, <2>5
  <1>2. ASSUME NEW w \in Workers, LockUser(w) PROVE IInv'
    <2>1. job[w].user \in Users
      BY <1>2, RequestFields DEF LockUser, TypeOK
    <2>2. LockInv'
      <3> SUFFICES ASSUME NEW v \in Workers, pc'[v] \in {"check", "post"}
                   PROVE  userLock'[job[v].user] = v
        BY <1>2 DEF LockInv, LockUser
      <3>1. CASE v = w
        BY <1>2, <2>1, <3>1 DEF LockUser, TypeOK
      <3>2. CASE v # w
        <4>1. userLock[job[v].user] = v
          BY <1>2, <3>2 DEF LockUser, LockInv, TypeOK
        <4>2. job[v].user # job[w].user
          BY <1>2, <4>1, WorkerAssumption DEF LockUser
        <4>3. QED BY <1>2, <4>1, <4>2 DEF LockUser, TypeOK
      <3>3. QED BY <3>1, <3>2
    <2>3. JobInv'
      BY <1>2 DEF LockUser, JobInv, TypeOK
    <2>4. PlanStillValid'
      BY <1>2, UnchangedTables DEF LockUser, PlanStillValid, TypeOK
    <2>5. QED BY <1>0, <2>2, <2>3, <2>4
  <1>3. ASSUME NEW w \in Workers, Replay(w) \/ Refuse(w) \/ Rollback(w) PROVE IInv'
    <2>1. PICK answer : Finish(w, answer)
      BY <1>3 DEF Replay, Refuse, Rollback
    <2>2. \A v \in Workers : pc'[v] = "post"
              => pc[v] = "post" /\ job'[v] = job[v] /\ plan'[v] = plan[v]
      BY <2>1 DEF Finish, TypeOK
    <2>3. UNCHANGED tables
      BY <1>3 DEF Replay, Refuse, Rollback
    <2>4. PlanStillValid'
      BY <2>2, <2>3, UnchangedTables DEF PlanStillValid, TypeOK
    <2>5. QED BY <1>0, <2>1, <2>4, FinishInv
  <1>4. ASSUME NEW w \in Workers, Accept(w) PROVE IInv'
    <2>1. LockInv' /\ JobInv'
      BY <1>4 DEF Accept, LockInv, JobInv, TypeOK
    <2>2. ASSUME NEW v \in Workers, pc'[v] = "post"
          PROVE  ~Recorded(job[v]) /\ Funded(job[v]) /\ plan'[v] = EntriesOf(job[v])
      <3>1. CASE v = w
        BY <1>4, <3>1 DEF Accept, Granted, TypeOK
      <3>2. CASE v # w
        BY <1>4, <2>2, <3>2 DEF Accept, PlanStillValid, TypeOK
      <3>3. QED BY <3>1, <3>2
    <2>3. \A v \in Workers : pc'[v] = "post" => job[v] \in Request
      BY <1>4 DEF Accept, TypeOK
    <2>4. PlanStillValid'
      BY <1>4, <2>2, <2>3, UnchangedTables DEF Accept, PlanStillValid
    <2>5. QED BY <1>0, <2>1, <2>4
  <1>5. ASSUME NEW w \in Workers, Commit(w) PROVE IInv'
    <2>1. Finish(w, Len(txs) + 1) /\ Record(job[w], plan[w]) /\ job[w] \in Request
      BY <1>5 DEF Commit, TypeOK
    <2>2. LockInv' /\ JobInv'
      BY <2>1, FinishInv
    <2>3. ASSUME NEW v \in Workers, pc'[v] = "post"
          PROVE  /\ ~Recorded(job[v])' /\ Funded(job[v])'
                 /\ plan'[v] = EntriesOf(job[v])'
                 /\ job'[v] = job[v]
      <3>1. v # w /\ pc[v] = "post" /\ job'[v] = job[v] /\ plan'[v] = plan[v]
        BY <2>1, <2>3 DEF Finish, TypeOK
      <3>2. job[v] \in Request
        BY <3>1 DEF TypeOK
      <3>3. job[v].user # job[w].user
        BY <1>5, <3>1 DEF Commit, LockInv
      <3> DEFINE q == job[v]
      <3>4. ~Recorded(q) /\ Funded(q) /\ plan[v] = EntriesOf(q)
        BY <3>1 DEF PlanStillValid
      <3>5. PICK x \in Request : x = job[v]
        BY <3>2
      <3>6. /\ Recorded(x)' <=> Recorded(x)
            /\ Funded(x)' <=> Funded(x)
            /\ EntriesOf(x)' = EntriesOf(x)
        BY <2>1, <3>3, <3>5, RecordOfOther
      <3>7. QED BY <3>1, <3>4, <3>5, <3>6
    <2>4. PlanStillValid'
      BY <2>3 DEF PlanStillValid
    <2>5. QED BY <1>0, <2>2, <2>4
  <1>6. ASSUME NEW u \in Users, VerifyEmail(u) \/ ChangeKyc(u) PROVE IInv'
    <2>1. UNCHANGED tables /\ UNCHANGED session
      BY <1>6 DEF VerifyEmail, ChangeKyc
    <2>2. LockInv' /\ JobInv'
      BY <2>1 DEF session, LockInv, JobInv
    <2>3. PlanStillValid'
      BY <2>1, UnchangedTables DEF session, PlanStillValid, TypeOK
    <2>4. QED BY <1>0, <2>2, <2>3
  <1>7. ASSUME NEW u \in Users, PassTime(u) PROVE IInv'
    <2>1. LockInv' /\ JobInv'
      BY <1>7 DEF PassTime, session, LockInv, JobInv
    <2>2. PlanStillValid'
      BY <1>7, ElapseKeepsFunded DEF PassTime, session, PlanStillValid, TypeOK
    <2>3. QED BY <1>0, <2>1, <2>2
  <1>8. ASSUME NEW c \in Campaigns, DeactivateCampaign(c) PROVE IInv'
    <2>1. UNCHANGED tables /\ UNCHANGED session
      BY <1>8 DEF DeactivateCampaign
    <2>2. LockInv' /\ JobInv'
      BY <2>1 DEF session, LockInv, JobInv
    <2>3. PlanStillValid'
      BY <2>1, UnchangedTables DEF session, PlanStillValid, TypeOK
    <2>4. QED BY <1>0, <2>2, <2>3
  <1>9. CASE UNCHANGED vars
    <2>1. UNCHANGED tables /\ UNCHANGED session
      BY <1>9 DEF vars
    <2>2. LockInv' /\ JobInv'
      BY <2>1 DEF session, LockInv, JobInv
    <2>3. PlanStillValid'
      BY <2>1, UnchangedTables DEF session, PlanStillValid, TypeOK
    <2>4. QED BY <1>0, <2>2, <2>3
  <1>10. QED
    BY <1>1, <1>2, <1>3, <1>4, <1>5, <1>6, <1>7, <1>8, <1>9 DEF Next, Serve

LEMMA InitInv == Init => IInv
  BY InitType DEF Init, IInv, LockInv, JobInv, PlanStillValid

LEMMA Inductive == Spec => []IInv
  BY InitInv, NextInv, PTL DEF Spec

\* What a service checked under the lock still holds when it writes.
THEOREM PlansStayValid == Spec => []PlanStillValid
  BY Inductive, PTL DEF IInv

-----------------------------------------------------------------------------
(***************************************************************************)
(* The implementation keeps the promise.                                   *)
(***************************************************************************)
\* Every step of the concurrent services is one atomic step of the promise,
\* or changes no table at all.
LEMMA StepRefines == ASSUME IInv, [Next]_vars PROVE [AtomicNext]_tables
  <1>1. ASSUME NEW w \in Workers, Commit(w) PROVE AtomicNext
    <2>1. job[w] \in Offered /\ ~Recorded(job[w]) /\ Funded(job[w])
            /\ plan[w] = EntriesOf(job[w])
      BY <1>1 DEF IInv, JobInv, PlanStillValid, Commit
    <2>2. Apply(job[w])
      BY <1>1, <2>1 DEF Apply, Commit
    <2>3. QED BY <2>1, <2>2 DEF AtomicNext
  <1>2. ASSUME NEW u \in Users, PassTime(u) PROVE AtomicNext
    BY <1>2 DEF PassTime, AtomicNext
  <1>3. ASSUME NEW w \in Workers,
               \/ Receive(w) \/ LockUser(w) \/ Replay(w) \/ Refuse(w)
               \/ Accept(w) \/ Rollback(w)
        PROVE  UNCHANGED tables
    BY <1>3 DEF Receive, LockUser, Replay, Refuse, Accept, Rollback
  <1>4. ASSUME NEW u \in Users, VerifyEmail(u) \/ ChangeKyc(u)
        PROVE  UNCHANGED tables
    BY <1>4 DEF VerifyEmail, ChangeKyc
  <1>5. ASSUME NEW c \in Campaigns, DeactivateCampaign(c)
        PROVE  UNCHANGED tables
    BY <1>5 DEF DeactivateCampaign
  <1>6. CASE UNCHANGED vars
    BY <1>6 DEF vars
  <1>7. QED
    BY <1>1, <1>2, <1>3, <1>4, <1>5, <1>6 DEF Next, Serve

\* Wallet implements AtomicWallet: deposits, withdrawals, transfers,
\* placements and redemptions of any number of workers are serializable.
THEOREM KeepsPromise == Spec => AtomicSpec
  <1>1. Init => AtomicInit
    BY DEF Init
  <1>2. QED
    BY <1>1, Inductive, StepRefines, PTL DEF Spec, AtomicSpec

-----------------------------------------------------------------------------
(***************************************************************************)
(* Safety of the promise, hence of the services.  Each invariant is proved *)
(* of Apply and Elapse, the only steps that change a table.                *)
(***************************************************************************)
\* Case analysis over a step: a transaction that commits on valid checks, a
\* window that moves, or no change to the tables.
LEMMA TableSteps ==
    ASSUME IInv, [Next]_vars
    PROVE  \/ \E r \in Request : Apply(r)
           \/ \E u \in Users : Elapse(u)
           \/ UNCHANGED tables
  BY StepRefines, OfferedAssumption DEF AtomicNext

\* No account of a user is overdrawn, for any number of concurrent requests.
THEOREM Solvency == Spec => []NoOverdraft
  <1>1. Init => NoOverdraft
    BY DEF Init, AtomicInit, EmptyLedger, NoOverdraft
  <1>2. ASSUME IInv, NoOverdraft, [Next]_vars PROVE NoOverdraft'
    <2>1. ASSUME NEW r \in Request, Apply(r) PROVE NoOverdraft'
      <3> SUFFICES ASSUME NEW u \in Users, NEW a \in UserAccounts
                   PROVE  balance'[u][a] >= 0
        BY DEF NoOverdraft
      <3>1. LedgerTypeOK
        BY <1>2 DEF IInv, TypeOK, TablesTypeOK
      <3>2. CASE u = r.user
        <4>1. balance'[u][a] = balance[u][a] + EntriesOf(r)[a]
          BY <2>1, <3>1, <3>2 DEF Apply, Record, Post, LedgerTypeOK
        <4>2. balance[u][a] + EntriesOf(r)[a] >= 0
          BY <1>2, <2>1, <3>1, <3>2, EntriesKeepFunds DEF Apply
        <4>3. QED BY <4>1, <4>2
      <3>3. CASE u # r.user
        BY <1>2, <2>1, <3>1, <3>3
        DEF Apply, Record, Post, LedgerTypeOK, NoOverdraft
      <3>4. QED BY <3>2, <3>3
    <2>2. ASSUME NEW u \in Users, Elapse(u) PROVE NoOverdraft'
      BY <1>2, <2>2 DEF Elapse, NoOverdraft
    <2>3. ASSUME UNCHANGED tables PROVE NoOverdraft'
      BY <1>2, <2>3 DEF tables, NoOverdraft
    <2>4. QED BY <1>2, <2>1, <2>2, <2>3, TableSteps
  <1>3. QED
    BY <1>1, <1>2, Inductive, PTL DEF Spec

\* The idempotency record of a key points at the transaction of that key.
KeyInv ==
    /\ \A u \in Users, k \in Keys : idem[u][k] <= Len(txs)
    /\ \A i \in 1 .. Len(txs) :
           txs[i].key # NoKey => idem[txs[i].user][txs[i].key] = i

\* A key of a user leads to one transaction at most.
THEOREM KeysUsedOnce == Spec => []OneTransactionPerKey
  <1>1. Init => KeyInv
    BY DEF Init, AtomicInit, KeyInv
  <1>2. ASSUME IInv, KeyInv, [Next]_vars PROVE KeyInv'
    <2>1. ASSUME NEW r \in Request, Apply(r) PROVE KeyInv'
      <3>1. txs \in Seq(Request) /\ idem \in [Users -> [Keys -> Nat]]
        BY <1>2 DEF IInv, TypeOK, TablesTypeOK
      <3>2. txs' = Append(txs, r) /\ Len(txs') = Len(txs) + 1 /\ txs'[Len(txs) + 1] = r
            /\ \A i \in 1 .. Len(txs) : txs'[i] = txs[i]
        BY <2>1, <3>1 DEF Apply, Record
      <3>3. r.user \in Users /\ r.key \in Keys \cup {NoKey}
        BY RequestFields
      <3>4. \A u \in Users, k \in Keys :
                idem'[u][k] = IF u = r.user /\ k = r.key THEN Len(txs) + 1
                              ELSE idem[u][k]
        BY <2>1, <3>1, <3>3, NoKeyAssumption DEF Apply, Record
      <3>5. \A u \in Users, k \in Keys : idem'[u][k] <= Len(txs')
        <4>1. Len(txs) \in Nat /\ \A u \in Users, k \in Keys : idem[u][k] \in Nat
          BY <3>1
        <4>2. \A u \in Users, k \in Keys : idem[u][k] <= Len(txs)
          BY <1>2 DEF KeyInv
        <4>3. Len(txs') = Len(txs) + 1
          BY <3>2
        <4>4. QED BY <3>4, <4>1, <4>2, <4>3
      <3>6. ASSUME NEW i \in 1 .. Len(txs'), txs'[i].key # NoKey
            PROVE  idem'[txs'[i].user][txs'[i].key] = i
        <4>1. CASE i = Len(txs) + 1
          BY <3>2, <3>3, <3>4, <3>6, <4>1
        <4>2. CASE i \in 1 .. Len(txs)
          <5>1. txs[i] \in Request /\ txs'[i] = txs[i]
            BY <3>1, <3>2, <4>2
          <5>2. txs[i].user \in Users /\ txs[i].key \in Keys
            BY <3>6, <5>1, RequestFields
          <5>3. idem[txs[i].user][txs[i].key] = i
            BY <1>2, <3>6, <4>2, <5>1 DEF KeyInv
          <5>4. ~(txs[i].user = r.user /\ txs[i].key = r.key)
            BY <2>1, <3>6, <4>2, <5>1, <5>3 DEF Apply, Recorded
          <5>5. QED BY <3>4, <5>1, <5>2, <5>3, <5>4
        <4>3. i \in 1 .. Len(txs) \/ i = Len(txs) + 1
          BY <3>1, <3>2
        <4>4. QED BY <4>1, <4>2, <4>3
      <3>7. QED BY <3>5, <3>6 DEF KeyInv
    <2>2. ASSUME NEW u \in Users, Elapse(u) PROVE KeyInv'
      BY <1>2, <2>2 DEF Elapse, KeyInv
    <2>3. ASSUME UNCHANGED tables PROVE KeyInv'
      BY <1>2, <2>3 DEF tables, KeyInv
    <2>4. QED BY <1>2, <2>1, <2>2, <2>3, TableSteps
  <1>3. KeyInv => OneTransactionPerKey
    BY DEF KeyInv, OneTransactionPerKey
  <1>4. QED
    BY <1>1, <1>2, <1>3, Inductive, PTL DEF Spec

\* Every redemption transaction left its UserBonus row.
RedeemInv ==
    /\ \A i \in 1 .. Len(txs) :
           txs[i].op = "redeem" => <<txs[i].user, txs[i].campaign>> \in redeemed
    /\ OneRedemptionPerCode

\* A promotional code pays a user once, concurrent redemptions included.
THEOREM CodesPayOnce == Spec => []OneRedemptionPerCode
  <1>1. Init => RedeemInv
    BY DEF Init, AtomicInit, RedeemInv, OneRedemptionPerCode
  <1>2. ASSUME IInv, RedeemInv, [Next]_vars PROVE RedeemInv'
    <2>1. ASSUME NEW r \in Request, Apply(r) PROVE RedeemInv'
      <3>1. txs \in Seq(Request)
        BY <1>2 DEF IInv, TypeOK, TablesTypeOK
      <3>2. txs' = Append(txs, r) /\ Len(txs') = Len(txs) + 1 /\ txs'[Len(txs) + 1] = r
            /\ \A i \in 1 .. Len(txs) : txs'[i] = txs[i]
        BY <2>1, <3>1 DEF Apply, Record
      <3>3. \A i \in 1 .. Len(txs') : i \in 1 .. Len(txs) \/ i = Len(txs) + 1
        BY <3>1, <3>2
      <3>4. \A i \in 1 .. Len(txs') : txs'[i].op = "redeem"
                => <<txs'[i].user, txs'[i].campaign>> \in redeemed'
        BY <1>2, <2>1, <3>2, <3>3 DEF RedeemInv, Apply, Record
      <3>5. \A i \in 1 .. Len(txs) : r.op = "redeem" /\ txs[i].op = "redeem"
                => ~(txs[i].user = r.user /\ txs[i].campaign = r.campaign)
        BY <1>2, <2>1 DEF RedeemInv, Apply, Funded
      <3>6. OneRedemptionPerCode'
        BY <1>2, <3>2, <3>3, <3>5 DEF RedeemInv, OneRedemptionPerCode
      <3>7. QED BY <3>4, <3>6 DEF RedeemInv
    <2>2. ASSUME NEW u \in Users, Elapse(u) PROVE RedeemInv'
      BY <1>2, <2>2 DEF Elapse, RedeemInv, OneRedemptionPerCode
    <2>3. ASSUME UNCHANGED tables PROVE RedeemInv'
      BY <1>2, <2>3 DEF tables, RedeemInv, OneRedemptionPerCode
    <2>4. QED BY <1>2, <2>1, <2>2, <2>3, TableSteps
  <1>3. QED
    BY <1>1, <1>2, Inductive, PTL DEF Spec, RedeemInv

\* The deposits inside a window never exceed the user's limit.
THEOREM LimitsHold == Spec => []DepositsWithinLimits
  <1>0. \A u \in Users : \A w \in DOMAIN Limit[u] : w \in Windows /\ Limit[u][w] \in Nat
    BY LimitAssumption
  <1>1. Init => DepositsWithinLimits
    BY <1>0 DEF Init, AtomicInit, DepositsWithinLimits
  <1>2. ASSUME IInv, DepositsWithinLimits, [Next]_vars PROVE DepositsWithinLimits'
    <2>0. deposited \in [Users -> [Windows -> Nat]]
      BY <1>2 DEF IInv, TypeOK, TablesTypeOK
    <2>1. ASSUME NEW r \in Request, Apply(r) PROVE DepositsWithinLimits'
      <3> SUFFICES ASSUME NEW u \in Users, NEW w \in DOMAIN Limit[u]
                   PROVE  deposited'[u][w] <= Limit[u][w]
        BY DEF DepositsWithinLimits
      <3>1. deposited[u][w] <= Limit[u][w]
        BY <1>2 DEF DepositsWithinLimits
      <3>2. CASE r.op = "deposit" /\ u = r.user
        <4>1. deposited'[u][w] = deposited[u][w] + r.amount
          BY <1>0, <2>0, <2>1, <3>2 DEF Apply, Record
        <4>2. deposited[u][w] + r.amount <= Limit[u][w]
          BY <2>1, <3>2 DEF Apply, Funded, WithinLimits
        <4>3. QED BY <4>1, <4>2
      <3>3. CASE ~(r.op = "deposit" /\ u = r.user)
        BY <2>0, <2>1, <3>1, <3>3 DEF Apply, Record
      <3>4. QED BY <3>2, <3>3
    <2>2. ASSUME NEW u \in Users, Elapse(u) PROVE DepositsWithinLimits'
      <3>1. PICK w \in Windows : \E remaining \in 0 .. deposited[u][w] :
                deposited' = [deposited EXCEPT ![u][w] = remaining]
        BY <2>2 DEF Elapse
      <3>2. PICK remaining \in 0 .. deposited[u][w] :
                deposited' = [deposited EXCEPT ![u][w] = remaining]
        BY <3>1
      <3>3. remaining <= deposited[u][w] /\ remaining \in Nat /\ deposited[u][w] \in Nat
        BY <2>0, <3>2
      <3> SUFFICES ASSUME NEW v \in Users, NEW x \in DOMAIN Limit[v]
                   PROVE  deposited'[v][x] <= Limit[v][x]
        BY DEF DepositsWithinLimits
      <3>4. deposited[v][x] <= Limit[v][x] /\ x \in Windows /\ Limit[v][x] \in Nat
        BY <1>0, <1>2 DEF DepositsWithinLimits
      <3>5. deposited'[v][x] = IF v = u /\ x = w THEN remaining ELSE deposited[v][x]
        BY <2>0, <3>2, <3>4
      <3>6. QED BY <3>3, <3>4, <3>5
    <2>3. ASSUME UNCHANGED tables PROVE DepositsWithinLimits'
      BY <1>2, <2>3 DEF tables, DepositsWithinLimits
    <2>4. QED BY <1>2, <2>1, <2>2, <2>3, TableSteps
  <1>3. QED
    BY <1>1, <1>2, Inductive, PTL DEF Spec

\* The house has what the users have not: of a transaction that is balanced
\* every leg is posted, so the sum over all accounts stays zero.
THEOREM BooksBalance == Spec => []DoubleEntry
  <1> DEFINE own == [u \in Users |-> Owned(u)]
  <1>0. ASSUME LedgerTypeOK PROVE \A u \in Users : Owned(u) \in Int
    BY <1>0 DEF LedgerTypeOK, Owned, UserAccounts
  <1>1. Init => DoubleEntry
    <2> SUFFICES ASSUME Init PROVE DoubleEntry
      OBVIOUS
    <2>1. house = 0 /\ \A u \in Users : Owned(u) = 0
      BY DEF Init, AtomicInit, EmptyLedger, Owned, UserAccounts
    <2>2. SumFunctionOnSet(own, Users) = 0
      BY <2>1, UsersAssumption, SumZero
    <2>3. QED BY <2>1, <2>2 DEF DoubleEntry
  <1>2. ASSUME IInv, DoubleEntry, [Next]_vars PROVE DoubleEntry'
    <2>0. LedgerTypeOK /\ \A u \in Users : Owned(u) \in Int
      BY <1>0, <1>2 DEF IInv, TypeOK, TablesTypeOK
    <2>1. ASSUME NEW r \in Request, Apply(r) PROVE DoubleEntry'
      <3>0. /\ r.user \in Users /\ EntriesOf(r) \in Effect
            /\ Post(r.user, EntriesOf(r))
        BY <2>0, <2>1, EntriesType, RequestFields DEF Apply, Record
      <3>1. PICK u \in Users, e \in Effect : Post(u, e)
        BY <3>0
      <3>2. Post(u, e)
        BY <3>1
      <3>3. /\ e["USER_WALLET"] \in Int /\ e["PENDING_BETS"] \in Int
            /\ e["BONUS"] \in Int /\ e["HOUSE"] \in Int
        BY <3>1 DEF Effect, Accounts, UserAccounts
      <3>4. /\ house' = house + e["HOUSE"]
            /\ e["USER_WALLET"] + e["PENDING_BETS"] + e["BONUS"] + e["HOUSE"] = 0
        BY <3>2 DEF Post, Balanced
      <3>5. \A v \in Users \ {u} : Owned(v)' = Owned(v)
        BY <2>0, <3>2 DEF Post, Owned, LedgerTypeOK
      <3>6. Owned(u)' = Owned(u) - e["HOUSE"]
        <4>1. \A a \in UserAccounts :
                  balance'[u][a] = balance[u][a] + e[a] /\ balance[u][a] \in Int
          BY <2>0, <3>1, <3>2 DEF Post, LedgerTypeOK
        <4>2. /\ balance'[u]["USER_WALLET"] = balance[u]["USER_WALLET"] + e["USER_WALLET"]
              /\ balance'[u]["PENDING_BETS"] = balance[u]["PENDING_BETS"] + e["PENDING_BETS"]
              /\ balance'[u]["BONUS"] = balance[u]["BONUS"] + e["BONUS"]
              /\ balance[u]["USER_WALLET"] \in Int /\ balance[u]["BONUS"] \in Int
              /\ balance[u]["PENDING_BETS"] \in Int
          BY <4>1 DEF UserAccounts
        <4>3. Owned(u)' = (balance[u]["USER_WALLET"] + e["USER_WALLET"])
                              + (balance[u]["PENDING_BETS"] + e["PENDING_BETS"])
                              + (balance[u]["BONUS"] + e["BONUS"])
          BY <4>2 DEF Owned
        <4>4. \A p, q, b, x, y, z, h \in Int :
                  x + y + z + h = 0 => (p + x) + (q + y) + (b + z) = (p + q + b) - h
          OBVIOUS
        <4>5. Owned(u)' = (balance[u]["USER_WALLET"] + balance[u]["PENDING_BETS"]
                              + balance[u]["BONUS"]) - e["HOUSE"]
          <5>1. e["USER_WALLET"] + e["PENDING_BETS"] + e["BONUS"] + e["HOUSE"] = 0
            BY <3>4
          <5>2. QED BY <3>3, <4>2, <4>3, <4>4, <5>1
        <4>6. QED BY <4>5 DEF Owned
      <3> DEFINE f == own
                 g == [v \in Users |-> Owned(v)']
      <3>7. /\ \A v \in Users : f[v] \in Int
            /\ \A v \in Users \ {u} : g[v] = f[v]
            /\ f[u] = Owned(u) /\ g[u] = Owned(u) - e["HOUSE"] /\ g[u] \in Int
        BY <2>0, <3>1, <3>3, <3>5, <3>6
      <3>8. DoubleEntry' <=> house' + SumFunctionOnSet(g, Users) = 0
        BY DEF DoubleEntry
      <3>9. house + SumFunctionOnSet(f, Users) = 0
        BY <1>2 DEF DoubleEntry
      <3> HIDE DEF f, g
      <3>10. /\ SumFunctionOnSet(g, Users) = SumFunctionOnSet(f, Users) + (g[u] - f[u])
             /\ SumFunctionOnSet(f, Users) \in Int
        BY <3>1, <3>7, UsersAssumption, SumChange, SumInt
      <3>11. house \in Int /\ f[u] \in Int
        BY <2>0, <3>1, <3>7 DEF LedgerTypeOK
      <3>12. QED BY <3>3, <3>4, <3>7, <3>8, <3>9, <3>10, <3>11
    <2>2. ASSUME NEW u \in Users, Elapse(u) PROVE DoubleEntry'
      BY <1>2, <2>2 DEF Elapse, DoubleEntry, Owned
    <2>3. ASSUME UNCHANGED tables PROVE DoubleEntry'
      BY <1>2, <2>3 DEF tables, DoubleEntry, Owned
    <2>4. QED BY <1>2, <2>1, <2>2, <2>3, TableSteps
  <1>3. QED
    BY <1>1, <1>2, Inductive, PTL DEF Spec

\* An answer is the transaction of the worker's own request, the answer to a
\* repeated key included.
THEOREM AnswersAreOwn == Spec => AnswersOwnRequest
  <1>1. ASSUME IInv, [Next]_vars, NEW w \in Workers,
               reply'[w] # reply[w], reply'[w] # 0
        PROVE  txs'[reply'[w]] = job[w]
    <2>0. reply \in [Workers -> Nat] /\ txs \in Seq(Request)
      BY <1>1 DEF IInv, TypeOK, TablesTypeOK
    <2>1. ASSUME NEW v \in Workers, NEW answer, Finish(v, answer)
          PROVE  v = w /\ reply'[w] = answer
      BY <1>1, <2>0, <2>1 DEF Finish
    <2>2. ASSUME NEW v \in Workers, Replay(v)  PROVE  txs'[reply'[w]] = job[w]
      <3>1. PICK tx : /\ tx = idem[job[v].user][job[v].key]
                      /\ Finish(v, IF txs[tx] = job[v] THEN tx ELSE 0)
                      /\ txs' = txs
        BY <2>2 DEF Replay, tables
      <3>2. v = w /\ reply'[w] = IF txs[tx] = job[v] THEN tx ELSE 0
        BY <2>1, <3>1
      <3>3. QED  BY <1>1, <3>1, <3>2
    <2>3. ASSUME NEW v \in Workers, Commit(v)  PROVE  txs'[reply'[w]] = job[w]
      <3>1. Finish(v, Len(txs) + 1) /\ txs' = Append(txs, job[v])
        BY <2>3 DEF Commit, Record
      <3>2. v = w /\ reply'[w] = Len(txs) + 1
        BY <2>1, <3>1
      <3>3. job[w] \in Request
        BY <1>1, <2>3, <3>2 DEF IInv, TypeOK, Commit
      <3>4. QED  BY <2>0, <3>1, <3>2, <3>3
    <2>4. ASSUME NEW v \in Workers,
                 Receive(v) \/ LockUser(v) \/ Refuse(v) \/ Accept(v) \/ Rollback(v)
          PROVE  FALSE
      <3>1. CASE Receive(v)
        BY <1>1, <2>0, <3>1 DEF Receive
      <3>2. CASE LockUser(v) \/ Accept(v)
        BY <1>1, <3>2 DEF LockUser, Accept
      <3>3. CASE Refuse(v) \/ Rollback(v)
        BY <1>1, <2>1, <3>3 DEF Refuse, Rollback
      <3>4. QED  BY <2>4, <3>1, <3>2, <3>3
    <2>5. PICK v \in Workers : Receive(v) \/ Serve(v) \/ Rollback(v)
      BY <1>1 DEF Next, vars, session, VerifyEmail, ChangeKyc, PassTime,
                  DeactivateCampaign
    <2>6. QED  BY <2>2, <2>3, <2>4, <2>5 DEF Serve
  <1>2. IInv /\ [Next]_vars =>
            [\A w \in Workers :
                (reply'[w] # reply[w] /\ reply'[w] # 0)
                    => txs'[reply'[w]] = job[w]]_vars
    BY <1>1
  <1>3. QED  BY <1>2, Inductive, PTL DEF Spec, AnswersOwnRequest

\* A transfer with any source and target, a placement with any part from the
\* bonus, and the services that pay from or into the house add up to zero.
LEMMA EntriesAddUp ==
    ASSUME LedgerTypeOK, NEW r \in Request
    PROVE  Balanced(EntriesOf(r))
  <1>1. CASE r.op \in {"deposit", "withdraw"}
    <2>1. PICK x \in Int : x = r.amount
      BY <1>1, RequestFields
    <2>2. Balanced(DepositEntries(x)) /\ Balanced(WithdrawEntries(x))
      BY DEF Balanced, DepositEntries, WithdrawEntries, Debit, Credit, ++,
             Accounts, UserAccounts
    <2>3. QED  BY <1>1, <2>1, <2>2 DEF EntriesOf
  <1>2. CASE r.op = "transfer"
    <2>1. PICK x \in Int, a \in Accounts, b \in Accounts :
              x = r.amount /\ a = r.source /\ b = r.target
      BY <1>2, RequestFields
    <2>2. Balanced(TransferEntries(a, b, x))
      BY DEF Balanced, TransferEntries, Debit, Credit, ++, Accounts, UserAccounts
    <2>3. QED  BY <1>2, <2>1, <2>2 DEF EntriesOf
  <1>3. CASE r.op = "place"
    <2>1. PICK x \in Int, y \in Int : x = r.amount - FromBonus(r) /\ y = FromBonus(r)
      BY <1>3, RequestFields, FromBonusType
    <2>2. Balanced(PlacementEntries(x, y))
      BY DEF Balanced, PlacementEntries, Debit, Credit, ++, Accounts, UserAccounts
    <2>3. QED  BY <1>3, <2>1, <2>2 DEF EntriesOf
  <1>4. CASE r.op = "redeem"
    <2>1. PICK x \in Int : x = CampaignAmount[r.campaign]
      BY <1>4, RequestFields, AmountAssumption
    <2>2. Balanced(BonusEntries(x))
      BY DEF Balanced, BonusEntries, Debit, Credit, ++, Accounts, UserAccounts
    <2>3. QED  BY <1>4, <2>1, <2>2 DEF EntriesOf
  <1>5. QED  BY <1>1, <1>2, <1>3, <1>4, RequestFields

PlansBalanced == \A w \in Workers : pc[w] = "post" => Balanced(plan[w])

\* _validate_transaction_is_balanced never undoes a transaction: what a
\* service is about to post adds up to zero.
THEOREM PlansBalance == Spec => []PlansBalanced
  <1>1. IInv => PlansBalanced
    <2> SUFFICES ASSUME IInv, NEW w \in Workers, pc[w] = "post"
                 PROVE  Balanced(plan[w])
      BY DEF PlansBalanced
    <2>1. LedgerTypeOK /\ job[w] \in Request
      BY OfferedAssumption DEF IInv, TypeOK, TablesTypeOK, JobInv
    <2>2. plan[w] = EntriesOf(job[w])
      BY DEF IInv, PlanStillValid
    <2>3. QED  BY <2>1, <2>2, EntriesAddUp
  <1>2. QED  BY <1>1, Inductive, PTL

=============================================================================
