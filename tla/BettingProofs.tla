--------------------------- MODULE BettingProofs ----------------------------
(***************************************************************************)
(* Proofs about Betting for every set of users, selections, workers, odds, *)
(* keys and stakes: a closed bet is final, a key names one bet, the        *)
(* transactions implement AtomicBetting, and nobody waits in a circle.     *)
(*                                                                         *)
(* The argument: between its decision and its commit a settlement or       *)
(* cash-out holds the row of its bet (LockInv), so the bet is still PLACED *)
(* when it commits (PlacedInv), and a bet that is not PLACED is left alone.*)
(* What a worker carries to its commit is still what it decided on: the    *)
(* bet it inserts has the key, the owner and the stake of its request, and *)
(* nobody else has that key by then (KeyOK); the bet it closes is the row  *)
(* it locked, with the outcome it computed (DraftOK).  So each commit is a *)
(* purchase or a closing at one instant, and every other step leaves the   *)
(* tickets and the money as they are.                                      *)
(*                                                                         *)
(* Waiting: who holds a user's row waits for nobody, and who holds a bet   *)
(* or has inserted a key waits at most for a user's row.  Those who still  *)
(* collect selections take them in the order of their ids, so of the       *)
(* selections a circle of them would wait for, the greatest is held by     *)
(* somebody who waits for a greater one (Tidy, LegsInOrder).               *)
(***************************************************************************)
EXTENDS Betting, ArithmeticProofs, SequenceTheorems, TLAPS

Closing(w) ==
    pc[w] \in {"decide", "pay", "post"} /\ ~IsPlacement(job[w])

Rows ==
    /\ \E S : bets \in Seq(S)
    /\ Len(bets) <= MaxBets

Local ==
    /\ DOMAIN pc = Workers /\ DOMAIN job = Workers /\ DOMAIN draft = Workers
    /\ betLock \in [BetIds -> Workers \cup {NoWorker}]

JobInv ==
    \A w \in Workers :
        /\ pc[w] \in {"legs", "insert"} => IsPlacement(job[w])
        /\ pc[w] = "bet" => ~IsPlacement(job[w])
        /\ (pc[w] = "bet" \/ Closing(w)) => job[w].bet \in DOMAIN bets

LockInv == \A w \in Workers : Closing(w) => betLock[job[w].bet] = w

PlacedInv ==
    \A w \in Workers :
        Closing(w) /\ pc[w] # "decide" => bets[job[w].bet].status = "PLACED"

IInv == Rows /\ Local /\ JobInv /\ LockInv /\ PlacedInv

-----------------------------------------------------------------------------
(***************************************************************************)
(* Lemmas.                                                                 *)
(***************************************************************************)
\* The rows of the table, as a sequence.
LEMMA RowIds ==
    ASSUME Rows
    PROVE  /\ Len(bets) \in Nat
           /\ DOMAIN bets = 1 .. Len(bets)
           /\ DOMAIN bets \subseteq BetIds
  BY LenProperties, BoundAssumption DEF Rows, BetIds

\* A new row comes behind the others.
LEMMA NewRow ==
    ASSUME Rows, NEW row
    PROVE  /\ \E S : Append(bets, row) \in Seq(S)
           /\ Len(Append(bets, row)) = Len(bets) + 1
           /\ DOMAIN Append(bets, row) = DOMAIN bets \cup {Len(bets) + 1}
           /\ \A i \in DOMAIN bets : Append(bets, row)[i] = bets[i]
           /\ Append(bets, row)[Len(bets) + 1] = row
  <1>1. PICK S : bets \in Seq(S)
    BY DEF Rows
  <1>2. bets \in Seq(S \cup {row})
    BY <1>1, SeqMonotonic
  <1>3. Append(bets, row) \in Seq(S \cup {row})
    BY <1>2
  <1>4. Len(Append(bets, row)) = Len(bets) + 1 /\ Len(bets) \in Nat
    BY <1>2
  <1>5. DOMAIN Append(bets, row) = 1 .. (Len(bets) + 1)
          /\ DOMAIN bets = 1 .. Len(bets)
    BY <1>2, <1>3, <1>4, LenProperties
  <1>6. 1 .. (Len(bets) + 1) = 1 .. Len(bets) \cup {Len(bets) + 1}
    BY <1>4
  <1>7. \A i \in 1 .. Len(bets) : Append(bets, row)[i] = bets[i]
    BY <1>2
  <1>8. Append(bets, row)[Len(bets) + 1] = row
    BY <1>2
  <1>9. QED  BY <1>3, <1>4, <1>5, <1>6, <1>7, <1>8

\* The row of one bet is replaced.
LEMMA ReplacedRow ==
    ASSUME Rows, NEW b \in DOMAIN bets, NEW row
    PROVE  /\ \E S : [bets EXCEPT ![b] = row] \in Seq(S)
           /\ Len([bets EXCEPT ![b] = row]) = Len(bets)
           /\ DOMAIN [bets EXCEPT ![b] = row] = DOMAIN bets
           /\ \A i \in DOMAIN bets :
                  [bets EXCEPT ![b] = row][i] = IF i = b THEN row ELSE bets[i]
  <1>1. PICK S : bets \in Seq(S)
    BY DEF Rows
  <1>2. bets \in Seq(S \cup {row}) /\ DOMAIN bets = 1 .. Len(bets)
    BY <1>1, SeqMonotonic, LenProperties
  <1>3. [bets EXCEPT ![b] = row] \in Seq(S \cup {row})
          /\ Len([bets EXCEPT ![b] = row]) = Len(bets)
    BY <1>2, ExceptSeq
  <1>4. QED  BY <1>2, <1>3

\* The requests that close a bet name one that is there.
LEMMA RequestBets ==
    ASSUME NEW r \in Requests, ~IsPlacement(r)
    PROVE  r.bet \in DOMAIN bets
  <1>1. r \notin Placement
    BY DEF IsPlacement, Placement
  <1>2. PICK i \in DOMAIN bets : r \in SettlementsOf(i) \cup CashOutsOf(i)
    BY <1>1, OfferedAssumption DEF Requests
  <1>3. QED  BY <1>2 DEF SettlementsOf, CashOutsOf

LEMMA FinishFacts ==
    ASSUME Local, NEW w \in Workers, Finish(w)
    PROVE  /\ Local' /\ pc'[w] = "idle"
           /\ \A v \in Workers \ {w} : /\ pc'[v] = pc[v] /\ job'[v] = job[v]
                                       /\ draft'[v] = draft[v]
           /\ \A i \in BetIds : betLock'[i] = IF betLock[i] = w
                                              THEN NoWorker ELSE betLock[i]
  BY DEF Local, Finish, Free

LEMMA InitInv == Init => IInv
  <1> SUFFICES ASSUME Init PROVE IInv
    OBVIOUS
  <1>1. << >> \in Seq({}) /\ Len(<< >>) = 0
    BY EmptySeq
  <1>2. Rows
    BY <1>1, BoundAssumption DEF Init, Rows
  <1>3. QED
    BY <1>2 DEF Init, IInv, Local, JobInv, LockInv, PlacedInv, Closing

-----------------------------------------------------------------------------
(***************************************************************************)
(* Every step preserves IInv.                                              *)
(***************************************************************************)
\* The end of a transaction that leaves the bets as they are.
LEMMA RollbackStep ==
    ASSUME IInv, NEW w \in Workers, Finish(w), bets' = bets
    PROVE  IInv'
  <1>1. Rows /\ Local /\ JobInv /\ LockInv /\ PlacedInv
    BY DEF IInv
  <1>2. /\ Local' /\ pc'[w] = "idle"
        /\ \A v \in Workers \ {w} : pc'[v] = pc[v] /\ job'[v] = job[v]
        /\ \A i \in BetIds : betLock'[i] = IF betLock[i] = w
                                           THEN NoWorker ELSE betLock[i]
    BY <1>1, FinishFacts
  <1>3. Rows'
    BY <1>1 DEF Rows
  <1>4. JobInv'
    BY <1>1, <1>2 DEF JobInv, Closing, IsPlacement
  <1>5. LockInv'
    BY <1>1, <1>2, RowIds DEF LockInv, JobInv, Closing, IsPlacement
  <1>6. PlacedInv'
    BY <1>1, <1>2 DEF PlacedInv, Closing, IsPlacement
  <1>7. QED  BY <1>2, <1>3, <1>4, <1>5, <1>6 DEF IInv

LEMMA CommitPlacementStep ==
    ASSUME IInv, NEW w \in Workers, CommitPlacement(w)
    PROVE  IInv'
  <1>1. Rows /\ Local /\ JobInv /\ LockInv /\ PlacedInv
    BY DEF IInv
  <1>2. /\ Local' /\ pc'[w] = "idle"
        /\ \A v \in Workers \ {w} : pc'[v] = pc[v] /\ job'[v] = job[v]
        /\ \A i \in BetIds : betLock'[i] = IF betLock[i] = w
                                           THEN NoWorker ELSE betLock[i]
    BY <1>1, FinishFacts DEF CommitPlacement
  <1>3. /\ Rows' /\ DOMAIN bets \subseteq DOMAIN bets'
        /\ \A i \in DOMAIN bets : bets'[i] = bets[i]
    <2> DEFINE row == draft[w]
    <2>1. bets' = Append(bets, row) /\ Len(bets) < MaxBets
      BY DEF CommitPlacement
    <2> HIDE DEF row
    <2>2. /\ \E S : bets' \in Seq(S)
          /\ Len(bets') = Len(bets) + 1
          /\ DOMAIN bets' = DOMAIN bets \cup {Len(bets) + 1}
          /\ \A i \in DOMAIN bets : bets'[i] = bets[i]
      BY <1>1, <2>1, NewRow
    <2>3. Len(bets) \in Nat
      BY <1>1 DEF Rows
    <2>4. Len(bets') <= MaxBets
      BY <2>1, <2>2, <2>3, BoundAssumption
    <2>5. QED  BY <2>2, <2>4 DEF Rows
  <1>4. JobInv'
    BY <1>1, <1>2, <1>3 DEF JobInv, Closing, IsPlacement
  <1>5. LockInv'
    BY <1>1, <1>2, RowIds DEF LockInv, JobInv, Closing, IsPlacement
  <1>6. PlacedInv'
    BY <1>1, <1>2, <1>3 DEF PlacedInv, JobInv, Closing, IsPlacement
  <1>7. QED  BY <1>2, <1>3, <1>4, <1>5, <1>6 DEF IInv

LEMMA CommitOutcomeStep ==
    ASSUME IInv, NEW w \in Workers, CommitOutcome(w)
    PROVE  IInv'
  <1>1. Rows /\ Local /\ JobInv /\ LockInv /\ PlacedInv
    BY DEF IInv
  <1>2. /\ Local' /\ pc'[w] = "idle"
        /\ \A v \in Workers \ {w} : pc'[v] = pc[v] /\ job'[v] = job[v]
        /\ \A i \in BetIds : betLock'[i] = IF betLock[i] = w
                                           THEN NoWorker ELSE betLock[i]
    BY <1>1, FinishFacts DEF CommitOutcome
  <1> DEFINE b == job[w].bet
  <1>3. b \in DOMAIN bets /\ betLock[b] = w
    BY <1>1 DEF CommitOutcome, JobInv, LockInv, Closing
  <1> HIDE DEF b
  <1>4. /\ Rows' /\ DOMAIN bets' = DOMAIN bets
        /\ \A i \in DOMAIN bets : i # b => bets'[i] = bets[i]
    BY <1>1, <1>3, ReplacedRow DEF CommitOutcome, Rows, b
  <1>5. JobInv'
    BY <1>1, <1>2, <1>4 DEF JobInv, Closing, IsPlacement
  <1>6. LockInv'
    BY <1>1, <1>2, RowIds DEF LockInv, JobInv, Closing, IsPlacement
  <1>7. PlacedInv'
    <2> SUFFICES ASSUME NEW v \in Workers, Closing(v)', pc'[v] # "decide"
                 PROVE  bets'[job'[v].bet].status = "PLACED"
      BY DEF PlacedInv
    <2>1. v # w
      BY <1>2 DEF Closing
    <2>2. Closing(v) /\ pc[v] # "decide" /\ job'[v] = job[v]
      BY <1>2, <2>1 DEF Closing, IsPlacement
    <2>3. job[v].bet \in DOMAIN bets /\ job[v].bet # b
      BY <1>1, <1>3, <2>1, <2>2 DEF JobInv, LockInv
    <2>4. QED  BY <1>1, <1>4, <2>2, <2>3 DEF PlacedInv
  <1>8. QED  BY <1>2, <1>4, <1>5, <1>6, <1>7 DEF IInv

\* The other steps of a worker: it moves on, nothing is committed.
LEMMA LocalStep ==
    ASSUME IInv, NEW w \in Workers, bets' = bets, Local',
           \A v \in Workers \ {w} : pc'[v] = pc[v] /\ job'[v] = job[v],
           \A i \in BetIds : betLock'[i] # betLock[i] =>
               betLock[i] = NoWorker,
           \/ pc'[w] = "legs" /\ IsPlacement(job[w])'
           \/ pc'[w] = "insert" /\ IsPlacement(job[w])'
           \/ pc'[w] = "bet" /\ ~IsPlacement(job[w])'
                /\ job'[w].bet \in DOMAIN bets
           \/ pc'[w] = "decide" /\ job'[w].bet \in DOMAIN bets
                /\ betLock'[job'[w].bet] = w
           \/ pc'[w] \in {"pay", "post"} /\ IsPlacement(job[w])'
           \/ pc'[w] \in {"pay", "post"} /\ job'[w].bet \in DOMAIN bets
                /\ betLock'[job'[w].bet] = w
                /\ bets[job'[w].bet].status = "PLACED"
    PROVE  IInv'
  <1>1. Rows /\ Local /\ JobInv /\ LockInv /\ PlacedInv
    BY DEF IInv
  <1>2. Rows'
    BY <1>1 DEF Rows
  <1>3. JobInv'
    BY <1>1 DEF JobInv, Closing, IsPlacement
  <1>4. LockInv'
    <2> SUFFICES ASSUME NEW v \in Workers, Closing(v)'
                 PROVE  betLock'[job'[v].bet] = v
      BY DEF LockInv
    <2>1. CASE v = w
      BY <2>1 DEF Closing
    <2>2. CASE v # w
      <3>1. Closing(v) /\ job'[v] = job[v]
        BY <2>2 DEF Closing, IsPlacement
      <3>2. betLock[job[v].bet] = v /\ job[v].bet \in BetIds
        BY <1>1, <3>1, RowIds DEF LockInv, JobInv
      <3>3. QED  BY <3>1, <3>2, WorkerAssumption
    <2>3. QED  BY <2>1, <2>2
  <1>5. PlacedInv'
    BY <1>1 DEF PlacedInv, Closing, IsPlacement
  <1>6. QED  BY <1>2, <1>3, <1>4, <1>5 DEF IInv

LEMMA NextInv == IInv /\ [Next]_vars => IInv'
  <1> SUFFICES ASSUME IInv, [Next]_vars PROVE IInv'
    OBVIOUS
  <1>0. Rows /\ Local /\ JobInv /\ LockInv /\ PlacedInv
    BY DEF IInv
  <1>1. ASSUME UNCHANGED <<pc, job, draft, bets, betLock>> PROVE IInv'
    BY <1>0, <1>1 DEF IInv, Rows, Local, JobInv, LockInv, PlacedInv,
                      Closing, IsPlacement
  <1>2. ASSUME NEW w \in Workers, Receive(w) PROVE IInv'
    <2>1. PICK r \in Requests :
            /\ job' = [job EXCEPT ![w] = r]
            /\ pc' = [pc EXCEPT ![w] = IF IsPlacement(r) THEN "legs" ELSE "bet"]
      BY <1>2 DEF Receive
    <2>2. ~IsPlacement(r) => r.bet \in DOMAIN bets
      BY RequestBets
    <2>3. Local' /\ job'[w] = r
            /\ pc'[w] = (IF IsPlacement(r) THEN "legs" ELSE "bet")
            /\ \A v \in Workers \ {w} : pc'[v] = pc[v] /\ job'[v] = job[v]
      BY <1>0, <1>2, <2>1 DEF Local, Receive, locks
    <2>4. QED
      BY <1>2, <2>2, <2>3, LocalStep DEF Receive, locks, IsPlacement
  <1>3. ASSUME NEW w \in Workers, LockLeg(w) PROVE IInv'
    BY <1>1, <1>3 DEF LockLeg
  <1>4. ASSUME NEW w \in Workers, CheckLegs(w) PROVE IInv'
    <2>1. Local' /\ pc'[w] = "insert" /\ job' = job
            /\ \A v \in Workers \ {w} : pc'[v] = pc[v]
      BY <1>0, <1>4 DEF Local, CheckLegs, locks
    <2>2. IsPlacement(job[w])'
      BY <1>0, <1>4 DEF JobInv, CheckLegs, IsPlacement
    <2>3. QED  BY <1>4, <2>1, <2>2, LocalStep DEF CheckLegs, locks
  <1>5. ASSUME NEW w \in Workers, InsertBet(w) PROVE IInv'
    <2>1. Local' /\ pc'[w] = "pay" /\ job' = job
            /\ \A v \in Workers \ {w} : pc'[v] = pc[v]
      BY <1>0, <1>5 DEF Local, InsertBet, locks
    <2>2. IsPlacement(job[w])'
      BY <1>0, <1>5 DEF JobInv, InsertBet, IsPlacement
    <2>3. QED  BY <1>5, <2>1, <2>2, LocalStep DEF InsertBet, locks
  <1>6. ASSUME NEW w \in Workers, LockBet(w) PROVE IInv'
    <2>1. job[w].bet \in DOMAIN bets /\ job[w].bet \in BetIds
      BY <1>0, <1>6, RowIds DEF JobInv, LockBet
    <2>2. Local' /\ pc'[w] = "decide" /\ job' = job
            /\ \A v \in Workers \ {w} : pc'[v] = pc[v]
      BY <1>0, <1>6 DEF Local, LockBet
    <2>3. betLock'[job[w].bet] = w
            /\ \A i \in BetIds : betLock'[i] # betLock[i] => betLock[i] = NoWorker
      BY <1>0, <1>6, <2>1 DEF Local, LockBet
    <2>4. QED  BY <1>6, <2>1, <2>2, <2>3, LocalStep DEF LockBet
  <1>7. ASSUME NEW w \in Workers, Decide(w) PROVE IInv'
    <2>1. Local' /\ pc'[w] = "pay" /\ job' = job
            /\ \A v \in Workers \ {w} : pc'[v] = pc[v]
      BY <1>0, <1>7 DEF Local, Decide, locks
    <2>2. bets[job[w].bet].status = "PLACED"
      BY <1>7 DEF Decide, Decidable
    <2>3. \/ IsPlacement(job[w])
          \/ job[w].bet \in DOMAIN bets /\ betLock[job[w].bet] = w
      BY <1>0, <1>7 DEF JobInv, LockInv, Closing, Decide
    <2>4. QED  BY <1>7, <2>1, <2>2, <2>3, LocalStep DEF Decide, locks, IsPlacement
  <1>8. ASSUME NEW w \in Workers, LockUser(w) PROVE IInv'
    <2>1. Local' /\ pc'[w] = "post" /\ job' = job /\ betLock' = betLock
            /\ \A v \in Workers \ {w} : pc'[v] = pc[v]
      BY <1>0, <1>8 DEF Local, LockUser
    <2>2. \/ IsPlacement(job[w])
          \/ /\ job[w].bet \in DOMAIN bets /\ betLock[job[w].bet] = w
             /\ bets[job[w].bet].status = "PLACED"
      BY <1>0, <1>8 DEF JobInv, LockInv, PlacedInv, Closing, LockUser
    <2>3. QED  BY <1>8, <2>1, <2>2, LocalStep DEF LockUser, IsPlacement
  <1>9. ASSUME NEW w \in Workers, CommitPlacement(w) PROVE IInv'
    BY <1>9, CommitPlacementStep
  <1>10. ASSUME NEW w \in Workers, CommitOutcome(w) PROVE IInv'
    BY <1>10, CommitOutcomeStep
  <1>11. ASSUME NEW w \in Workers, Refuse(w) PROVE IInv'
    BY <1>11, RollbackStep DEF Refuse
  <1>12. ASSUME NEW w \in Workers, Fail(w) PROVE IInv'
    BY <1>12, RollbackStep DEF Fail
  <1>13. ASSUME NEW s \in Selections, Reprice(s) \/ OpenOrClose(s) \/ ClockPasses(s)
         PROVE  IInv'
    BY <1>1, <1>13 DEF Reprice, OpenOrClose, ClockPasses, session, locks
  <1>14. ASSUME NEW u \in Users, VerifyEmail(u) PROVE IInv'
    BY <1>1, <1>14 DEF VerifyEmail, session, locks
  <1>15. CASE UNCHANGED vars
    BY <1>1, <1>15 DEF vars, session, locks
  <1>16. QED
    BY <1>2, <1>3, <1>4, <1>5, <1>6, <1>7, <1>8, <1>9, <1>10, <1>11, <1>12,
       <1>13, <1>14, <1>15 DEF Next, Work, Acquire

-----------------------------------------------------------------------------
(***************************************************************************)
(* Closed bets.                                                            *)
(***************************************************************************)
\* A settlement or cash-out holds its row, and the row stays PLACED, from its
\* decision on the locked bet to its commit.
THEOREM Invariance == Spec => []IInv
  BY InitInv, NextInv, PTL DEF Spec

\* A closed bet never changes again, whatever settlements and cash-outs run
\* at once: the ticket is settled or cashed out once (ADR-0004).
THEOREM ClosedForEver == Spec => FinalForever
  <1> DEFINE A == \A i \in DOMAIN bets :
                     bets[i].status \in Terminal => /\ i \in DOMAIN bets'
                                                    /\ bets'[i] = bets[i]
  <1>1. IInv /\ [Next]_vars => [A]_bets
    <2> SUFFICES ASSUME IInv, [Next]_vars, bets' # bets PROVE A
      OBVIOUS
    <2>0. Rows /\ JobInv /\ PlacedInv
      BY DEF IInv
    <2>1. PICK w \in Workers : CommitPlacement(w) \/ CommitOutcome(w)
      BY DEF Next, Work, Acquire, vars, Receive, LockLeg, CheckLegs, InsertBet,
             LockBet, Decide, LockUser, Refuse, Fail, Reprice, OpenOrClose,
             ClockPasses, VerifyEmail
    <2>2. CASE CommitPlacement(w)
      BY <2>0, <2>2, NewRow DEF CommitPlacement
    <2>3. CASE CommitOutcome(w)
      <3>1. Closing(w) /\ pc[w] # "decide"
        BY <2>3 DEF CommitOutcome, Closing
      <3>2. job[w].bet \in DOMAIN bets /\ bets[job[w].bet].status = "PLACED"
        BY <2>0, <3>1 DEF JobInv, PlacedInv
      <3>3. \A i \in DOMAIN bets : i \in DOMAIN bets'
              /\ (i # job[w].bet => bets'[i] = bets[i])
        BY <2>0, <2>3, <3>2, ReplacedRow DEF CommitOutcome
      <3>4. QED  BY <3>2, <3>3 DEF Terminal
    <2>4. QED  BY <2>1, <2>2, <2>3
  <1>2. QED  BY <1>1, Invariance, PTL DEF Spec, FinalForever

-----------------------------------------------------------------------------
(***************************************************************************)
(* What a worker carries from its decision to its commit.                  *)
(***************************************************************************)
Fields == {"user", "key", "stake", "status", "payout"}

InFlight(w) == pc[w] \in {"pay", "post"} /\ IsPlacement(job[w])

ClosingRequest(r) ==
    \/ r.op = "settle_bet" /\ r.status \in {"WON", "LOST", "VOID"}
    \/ r.op = "settle_acca_bet"
    \/ r.op = "cash_out_bet"

JobOK(w) ==
    pc[w] # "idle" =>
        IF IsPlacement(job[w]) THEN job[w] \in Placement /\ pc[w] # "decide"
        ELSE ClosingRequest(job[w])

Sketches(row, r) ==
    /\ Fields \subseteq DOMAIN row
    /\ row.user = r.user /\ row.key = r.key /\ row.stake = r.stake
    /\ row.status = "PLACED" /\ row.payout = 0

Closes(row, bet) ==
    /\ Fields \subseteq DOMAIN row
    /\ row.user = bet.user /\ row.key = bet.key /\ row.stake = bet.stake
    /\ row.status \in Terminal
    /\ row.status = "LOST" => row.payout = 0
    /\ row.status = "VOID" => row.payout = bet.stake

DraftOK(w) ==
    /\ pc[w] \in {"insert", "pay", "post"} /\ IsPlacement(job[w]) =>
           Sketches(draft[w], job[w])
    /\ Closing(w) /\ pc[w] # "decide" =>
           Closes(draft[w], bets[job[w].bet])

KeyOK(w) ==
    InFlight(w) /\ job[w].key # NoKey =>
        /\ \A i \in DOMAIN bets : bets[i].key # job[w].key
        /\ \A v \in Workers \ {w} : InFlight(v) => job[v].key # job[w].key

RowOK(bet) ==
    /\ Fields \subseteq DOMAIN bet
    /\ bet.user \in Users /\ bet.stake \in Stakes /\ bet.key \in Keys \cup {NoKey}
    /\ bet.status = "PLACED" => bet.payout = 0

RInv ==
    /\ IInv
    /\ \A w \in Workers : JobOK(w)
    /\ \A w \in Workers : DraftOK(w)
    /\ \A w \in Workers : KeyOK(w)
    /\ \A i \in DOMAIN bets : RowOK(bets[i])
    /\ OneBetPerKey

LEMMA PlacementFacts ==
    ASSUME NEW r \in Placement
    PROVE  /\ r.user \in Users /\ r.stake \in Stakes
           /\ r.key \in Keys \cup {NoKey} /\ r.useBonus \in BOOLEAN
  BY DEF Placement

LEMMA RequestFacts ==
    ASSUME NEW r \in Requests
    PROVE  IF IsPlacement(r) THEN r \in Placement ELSE ClosingRequest(r)
  <1>1. CASE r \in Offered
    BY <1>1, OfferedAssumption DEF IsPlacement, Placement
  <1>2. CASE r \notin Offered
    <2>1. PICK i \in DOMAIN bets : r \in SettlementsOf(i) \cup CashOutsOf(i)
      BY <1>2 DEF Requests
    <2>2. CASE r \in CashOutsOf(i)
      BY <2>2 DEF CashOutsOf, ClosingRequest, IsPlacement
    <2>3. CASE r \in SettlementsOf(i)
      BY <2>3 DEF SettlementsOf, ClosingRequest, IsPlacement
    <2>4. QED  BY <2>1, <2>2, <2>3
  <1>3. QED  BY <1>1, <1>2

LEMMA AppendAsFunction ==
    ASSUME NEW S, NEW s \in Seq(S), NEW e
    PROVE  Append(s, e) = [i \in 1 .. (Len(s) + 1) |->
                              IF i = Len(s) + 1 THEN e ELSE s[i]]
  <1>1. s \in Seq(S \cup {e})
    BY SeqMonotonic
  <1>2. /\ Append(s, e) \in Seq(S \cup {e}) /\ Len(Append(s, e)) = Len(s) + 1
        /\ \A i \in 1 .. Len(s) : Append(s, e)[i] = s[i]
        /\ Append(s, e)[Len(s) + 1] = e
    BY <1>1, AppendProperties
  <1>3. Len(s) \in Nat
    BY <1>1, LenProperties
  <1>5. Append(s, e) \in [1 .. (Len(s) + 1) -> S \cup {e}]
    BY <1>2, LenProperties
  <1>6. \A i \in 1 .. (Len(s) + 1) : i # Len(s) + 1 => i \in 1 .. Len(s)
    BY <1>3
  <1>7. \A i \in 1 .. (Len(s) + 1) :
            Append(s, e)[i] = IF i = Len(s) + 1 THEN e ELSE s[i]
    BY <1>2, <1>6
  <1>8. QED  BY <1>5, <1>7

LEMMA NewBetFacts ==
    ASSUME NEW r PROVE Sketches(NewBet(r), r)
  BY DEF NewBet, Sketches, Fields

LEMMA OutcomeFacts ==
    ASSUME NEW r, NEW bet, ClosingRequest(r), RowOK(bet), bet.payout = 0
    PROVE  Closes(Outcome(r, bet), bet)
  <1>1. CASE r.op = "settle_bet"
    <2>1. Outcome(r, bet) = SettledSimple(bet, r.status)
      BY <1>1 DEF Outcome
    <2>2. r.status \in {"WON", "LOST", "VOID"}
      BY <1>1 DEF ClosingRequest
    <2>3. QED
      BY <2>1, <2>2 DEF SettledSimple, Closes, RowOK, Fields, Terminal
  <1>2. CASE r.op = "settle_acca_bet"
    <2>1. Outcome(r, bet) = SettledAcca(bet, r.results)
      BY <1>2 DEF Outcome
    <2>2. QED
      BY <2>1 DEF SettledAcca, Closes, RowOK, Fields, Terminal
  <1>3. CASE r.op = "cash_out_bet"
    <2>1. Outcome(r, bet) = CashedOutAt(bet, r.current)
      BY <1>3 DEF Outcome
    <2>2. QED
      BY <2>1 DEF CashedOutAt, Closes, RowOK, Fields, Terminal
  <1>4. QED  BY <1>1, <1>2, <1>3 DEF ClosingRequest

\* Whatever closes a bet moves the money of a bet that won its payout.
LEMMA ClosingEntries ==
    ASSUME NEW r, NEW row, row.stake \in Int, row.status \in Terminal,
           row.status = "LOST" => row.payout = 0,
           row.status = "VOID" => row.payout = row.stake
    PROVE  EntriesOf(r, row) = WonEntries(row.stake, row.payout)
  <1>1. CASE row.status = "WON"
    BY <1>1 DEF EntriesOf
  <1>2. CASE row.status = "CASHED_OUT"
    BY <1>2 DEF EntriesOf, CashoutEntries
  <1>3. CASE row.status = "LOST"
    <2>1. EntriesOf(r, row) = LostEntries(row.stake) /\ row.payout = 0
      BY <1>3 DEF EntriesOf
    <2>2. LostEntries(row.stake) = WonEntries(row.stake, 0)
      BY DEF WonEntries, LostEntries, ++, Debit, Credit, Accounts, UserAccounts
    <2>3. QED  BY <2>1, <2>2
  <1>4. CASE row.status = "VOID"
    <2>1. EntriesOf(r, row) = VoidEntries(row.stake) /\ row.payout = row.stake
      BY <1>4 DEF EntriesOf
    <2>2. VoidEntries(row.stake) = WonEntries(row.stake, row.stake)
      BY DEF VoidEntries, WonEntries, LostEntries, ++, Debit, Credit,
             Accounts, UserAccounts
    <2>3. QED  BY <2>1, <2>2
  <1>5. QED  BY <1>1, <1>2, <1>3, <1>4 DEF Terminal

LEMMA RInit == Init => RInv
  <1>1. Init => IInv
    BY InitInv
  <1>2. QED
    BY <1>1 DEF Init, RInv, JobOK, DraftOK, KeyOK, InFlight, Closing,
                OneBetPerKey

-----------------------------------------------------------------------------
(***************************************************************************)
(* Every step preserves RInv.                                              *)
(***************************************************************************)
\* A worker moves on and the bets stay as they are.
LEMMA LocalRStep ==
    ASSUME RInv, IInv', NEW w \in Workers, bets' = bets,
           \A v \in Workers \ {w} : /\ pc'[v] = pc[v] /\ job'[v] = job[v]
                                    /\ draft'[v] = draft[v],
           JobOK(w)', DraftOK(w)', KeyOK(w)'
    PROVE  RInv'
  <1>1. ASSUME NEW v \in Workers PROVE JobOK(v)'
    BY <1>1 DEF RInv, JobOK, IsPlacement
  <1>2. ASSUME NEW v \in Workers PROVE DraftOK(v)'
    BY <1>2 DEF RInv, DraftOK, Closing, IsPlacement
  <1>3. ASSUME NEW v \in Workers PROVE KeyOK(v)'
    <2>1. CASE v = w
      BY <2>1
    <2>2. CASE v # w
      <3> SUFFICES ASSUME InFlight(v)', job'[v].key # NoKey
                   PROVE  /\ \A i \in DOMAIN bets' : bets'[i].key # job'[v].key
                          /\ \A u \in Workers \ {v} :
                                 InFlight(u)' => job'[u].key # job'[v].key
        BY DEF KeyOK
      <3>1. InFlight(v) /\ job'[v] = job[v]
        BY <2>2 DEF InFlight, IsPlacement
      <3>2. /\ \A i \in DOMAIN bets : bets[i].key # job[v].key
            /\ \A u \in Workers \ {v} : InFlight(u) => job[u].key # job[v].key
        BY <3>1 DEF RInv, KeyOK
      <3>3. ASSUME NEW u \in Workers \ {v}, InFlight(u)'
            PROVE  job'[u].key # job'[v].key
        <4>1. CASE u = w
          BY <2>2, <3>1, <3>3, <4>1 DEF KeyOK
        <4>2. CASE u # w
          BY <3>1, <3>2, <3>3, <4>2 DEF InFlight, IsPlacement
        <4>3. QED  BY <4>1, <4>2
      <3>4. QED  BY <3>1, <3>2, <3>3
    <2>3. QED  BY <2>1, <2>2
  <1>4. QED  BY <1>1, <1>2, <1>3 DEF RInv, OneBetPerKey

\* A transaction ends without a trace.
LEMMA RollbackRStep ==
    ASSUME RInv, IInv', NEW w \in Workers, Finish(w), bets' = bets
    PROVE  RInv'
  <1>1. /\ pc'[w] = "idle"
        /\ \A v \in Workers \ {w} : /\ pc'[v] = pc[v] /\ job'[v] = job[v]
                                    /\ draft'[v] = draft[v]
    BY FinishFacts DEF RInv, IInv
  <1>2. JobOK(w)' /\ DraftOK(w)' /\ KeyOK(w)'
    BY <1>1 DEF JobOK, DraftOK, KeyOK, InFlight, Closing
  <1>3. QED  BY <1>1, <1>2, LocalRStep

\* What the commit of a placement does to the rows.
LEMMA Placed ==
    ASSUME RInv, NEW w \in Workers, CommitPlacement(w)
    PROVE  /\ job[w] \in Placement
           /\ Sketches(draft[w], job[w])
           /\ DOMAIN bets' = DOMAIN bets \cup {Len(bets) + 1}
           /\ Len(bets') = Len(bets) + 1
           /\ Len(bets) + 1 \notin DOMAIN bets
           /\ \A i \in DOMAIN bets : bets'[i] = bets[i]
           /\ bets'[Len(bets) + 1] = draft[w]
           /\ job[w].key # NoKey =>
                  \A i \in DOMAIN bets : bets[i].key # job[w].key
  <1>1. job[w] \in Placement
    BY DEF RInv, JobOK, CommitPlacement
  <1>2. Sketches(draft[w], job[w])
    BY DEF RInv, DraftOK, CommitPlacement
  <1>3. job[w].key # NoKey => \A i \in DOMAIN bets : bets[i].key # job[w].key
    BY DEF RInv, KeyOK, InFlight, CommitPlacement
  <1> DEFINE row == draft[w]
  <1>4. bets' = Append(bets, row)
    BY DEF CommitPlacement
  <1> HIDE DEF row
  <1>5. /\ Len(bets') = Len(bets) + 1
        /\ DOMAIN bets' = DOMAIN bets \cup {Len(bets) + 1}
        /\ \A i \in DOMAIN bets : bets'[i] = bets[i]
        /\ bets'[Len(bets) + 1] = row
    BY <1>4, NewRow DEF RInv, IInv
  <1>6. Len(bets) + 1 \notin DOMAIN bets
    BY RowIds DEF RInv, IInv
  <1>7. QED  BY <1>1, <1>2, <1>3, <1>5, <1>6 DEF row

LEMMA CommitPlacementRStep ==
    ASSUME RInv, IInv', NEW w \in Workers, CommitPlacement(w)
    PROVE  RInv'
  <1>1. /\ pc'[w] = "idle"
        /\ \A v \in Workers \ {w} : /\ pc'[v] = pc[v] /\ job'[v] = job[v]
                                    /\ draft'[v] = draft[v]
    BY FinishFacts DEF RInv, IInv, CommitPlacement
  <1> DEFINE n == Len(bets) + 1
  <1>2. /\ job[w] \in Placement /\ Sketches(draft[w], job[w])
        /\ DOMAIN bets' = DOMAIN bets \cup {n} /\ n \notin DOMAIN bets
        /\ \A i \in DOMAIN bets : bets'[i] = bets[i]
        /\ bets'[n] = draft[w]
        /\ job[w].key # NoKey => \A i \in DOMAIN bets : bets[i].key # job[w].key
    BY Placed
  <1> HIDE DEF n
  <1>3. bets'[n].key = job[w].key
    BY <1>2 DEF Sketches
  <1>4. ASSUME NEW v \in Workers PROVE JobOK(v)'
    BY <1>1, <1>4 DEF RInv, JobOK, IsPlacement
  <1>5. ASSUME NEW v \in Workers PROVE DraftOK(v)'
    <2>1. CASE v = w
      BY <1>1, <2>1 DEF DraftOK, Closing
    <2>2. CASE v # w
      <3>1. pc'[v] = pc[v] /\ job'[v] = job[v] /\ draft'[v] = draft[v]
        BY <1>1, <2>2
      <3>2. Closing(v) => bets'[job[v].bet] = bets[job[v].bet]
        BY <1>2 DEF RInv, IInv, JobInv
      <3>3. QED  BY <3>1, <3>2 DEF RInv, DraftOK, Closing, IsPlacement
    <2>3. QED  BY <2>1, <2>2
  <1>6. ASSUME NEW v \in Workers PROVE KeyOK(v)'
    <2> SUFFICES ASSUME InFlight(v)', job'[v].key # NoKey
                 PROVE  /\ \A i \in DOMAIN bets' : bets'[i].key # job'[v].key
                        /\ \A u \in Workers \ {v} :
                               InFlight(u)' => job'[u].key # job'[v].key
      BY DEF KeyOK
    <2>1. v # w
      BY <1>1 DEF InFlight
    <2>2. InFlight(v) /\ job'[v] = job[v]
      BY <1>1, <2>1 DEF InFlight, IsPlacement
    <2>3. InFlight(w)
      BY DEF CommitPlacement, InFlight
    <2>4. /\ \A i \in DOMAIN bets : bets[i].key # job[v].key
          /\ \A u \in Workers \ {v} : InFlight(u) => job[u].key # job[v].key
      BY <2>2 DEF RInv, KeyOK
    <2>5. bets'[n].key # job[v].key
      BY <1>3, <2>1, <2>3, <2>4
    <2>6. \A u \in Workers \ {v} : InFlight(u)' => job'[u].key # job'[v].key
      BY <1>1, <2>2, <2>4 DEF InFlight, IsPlacement
    <2>7. QED  BY <1>2, <2>2, <2>4, <2>5, <2>6
  <1>7. ASSUME NEW i \in DOMAIN bets' PROVE RowOK(bets'[i])
    <2>1. RowOK(draft[w])
      BY <1>2, PlacementFacts DEF Sketches, RowOK
    <2>2. QED  BY <1>2, <1>7, <2>1 DEF RInv
  <1>8. OneBetPerKey'
    BY <1>2, <1>3 DEF RInv, OneBetPerKey
  <1>9. QED  BY <1>4, <1>5, <1>6, <1>7, <1>8 DEF RInv

\* What the commit of a settlement or a cash-out does to the rows.
LEMMA Closed ==
    ASSUME RInv, NEW w \in Workers, CommitOutcome(w)
    PROVE  LET b == job[w].bet
           IN  /\ b \in DOMAIN bets /\ bets[b].status = "PLACED"
               /\ Closes(draft[w], bets[b])
               /\ DOMAIN bets' = DOMAIN bets /\ bets'[b] = draft[w]
               /\ \A i \in DOMAIN bets : i # b => bets'[i] = bets[i]
               /\ \A v \in Workers \ {w} : Closing(v) => job[v].bet # b
  <1> DEFINE b == job[w].bet
  <1>1. Closing(w) /\ pc[w] = "post"
    BY DEF CommitOutcome, Closing
  <1>2. b \in DOMAIN bets /\ bets[b].status = "PLACED" /\ betLock[b] = w
    BY <1>1 DEF RInv, IInv, JobInv, PlacedInv, LockInv
  <1>3. Closes(draft[w], bets[b])
    BY <1>1 DEF RInv, DraftOK
  <1>4. \A v \in Workers \ {w} : Closing(v) => job[v].bet # b
    BY <1>2 DEF RInv, IInv, LockInv
  <1>5. DOMAIN bets' = DOMAIN bets /\ bets'[b] = draft[w]
          /\ \A i \in DOMAIN bets : i # b => bets'[i] = bets[i]
    BY <1>2, ReplacedRow DEF RInv, IInv, CommitOutcome
  <1>6. QED  BY <1>2, <1>3, <1>4, <1>5

LEMMA CommitOutcomeRStep ==
    ASSUME RInv, IInv', NEW w \in Workers, CommitOutcome(w)
    PROVE  RInv'
  <1>1. /\ pc'[w] = "idle"
        /\ \A v \in Workers \ {w} : /\ pc'[v] = pc[v] /\ job'[v] = job[v]
                                    /\ draft'[v] = draft[v]
    BY FinishFacts DEF RInv, IInv, CommitOutcome
  <1> DEFINE b == job[w].bet
  <1>2. /\ b \in DOMAIN bets /\ Closes(draft[w], bets[b])
        /\ DOMAIN bets' = DOMAIN bets /\ bets'[b] = draft[w]
        /\ \A i \in DOMAIN bets : i # b => bets'[i] = bets[i]
        /\ \A v \in Workers \ {w} : Closing(v) => job[v].bet # b
    BY Closed
  <1> HIDE DEF b
  <1>3. \A i \in DOMAIN bets : bets'[i].key = bets[i].key
    BY <1>2 DEF Closes
  <1>4. ASSUME NEW v \in Workers PROVE JobOK(v)'
    BY <1>1, <1>4 DEF RInv, JobOK, IsPlacement
  <1>5. ASSUME NEW v \in Workers PROVE DraftOK(v)'
    <2>1. CASE v = w
      BY <1>1, <2>1 DEF DraftOK, Closing
    <2>2. CASE v # w
      <3>1. pc'[v] = pc[v] /\ job'[v] = job[v] /\ draft'[v] = draft[v]
        BY <1>1, <2>2
      <3>2. Closing(v) => bets'[job[v].bet] = bets[job[v].bet]
        BY <1>2, <2>2 DEF RInv, IInv, JobInv
      <3>3. QED  BY <3>1, <3>2 DEF RInv, DraftOK, Closing, IsPlacement
    <2>3. QED  BY <2>1, <2>2
  <1>6. ASSUME NEW v \in Workers PROVE KeyOK(v)'
    <2> SUFFICES ASSUME InFlight(v)', job'[v].key # NoKey
                 PROVE  /\ \A i \in DOMAIN bets' : bets'[i].key # job'[v].key
                        /\ \A u \in Workers \ {v} :
                               InFlight(u)' => job'[u].key # job'[v].key
      BY DEF KeyOK
    <2>1. v # w
      BY <1>1 DEF InFlight
    <2>2. InFlight(v) /\ job'[v] = job[v]
      BY <1>1, <2>1 DEF InFlight, IsPlacement
    <2>3. /\ \A i \in DOMAIN bets : bets[i].key # job[v].key
          /\ \A u \in Workers \ {v} : InFlight(u) => job[u].key # job[v].key
      BY <2>2 DEF RInv, KeyOK
    <2>4. \A u \in Workers \ {v} : InFlight(u)' => job'[u].key # job'[v].key
      BY <1>1, <2>2, <2>3 DEF InFlight, IsPlacement
    <2>5. QED  BY <1>2, <1>3, <2>2, <2>3, <2>4
  <1>7. ASSUME NEW i \in DOMAIN bets' PROVE RowOK(bets'[i])
    <2>1. RowOK(draft[w])
      BY <1>2 DEF RInv, Closes, RowOK, Terminal
    <2>2. QED  BY <1>2, <1>7, <2>1 DEF RInv
  <1>8. OneBetPerKey'
    BY <1>2, <1>3 DEF RInv, OneBetPerKey
  <1>9. QED  BY <1>4, <1>5, <1>6, <1>7, <1>8 DEF RInv

LEMMA NextRInv == RInv /\ [Next]_vars => RInv'
  <1> SUFFICES ASSUME RInv, [Next]_vars PROVE RInv'
    OBVIOUS
  <1>0. IInv' /\ Local /\ JobInv
    BY NextInv DEF RInv, IInv
  <1>1. ASSUME UNCHANGED <<pc, job, draft, bets>> PROVE RInv'
    <2>1. \A w \in Workers : JobOK(w)' /\ DraftOK(w)' /\ KeyOK(w)'
      BY <1>1 DEF RInv, JobOK, DraftOK, KeyOK, InFlight, Closing, IsPlacement
    <2>2. QED  BY <1>0, <1>1, <2>1 DEF RInv, OneBetPerKey
  <1>2. ASSUME NEW w \in Workers, Receive(w) PROVE RInv'
    <2>1. PICK r \in Requests :
            /\ job' = [job EXCEPT ![w] = r]
            /\ pc' = [pc EXCEPT ![w] = IF IsPlacement(r) THEN "legs" ELSE "bet"]
      BY <1>2 DEF Receive
    <2>2. /\ job'[w] = r /\ pc'[w] = (IF IsPlacement(r) THEN "legs" ELSE "bet")
          /\ draft' = draft /\ bets' = bets
          /\ \A v \in Workers \ {w} : pc'[v] = pc[v] /\ job'[v] = job[v]
      BY <1>0, <1>2, <2>1 DEF Local, Receive
    <2>3. JobOK(w)'
      BY <2>2, RequestFacts DEF JobOK, IsPlacement
    <2>4. DraftOK(w)' /\ KeyOK(w)'
      BY <2>2 DEF DraftOK, KeyOK, InFlight, Closing, IsPlacement
    <2>5. QED  BY <1>0, <2>2, <2>3, <2>4, LocalRStep
  <1>3. ASSUME NEW w \in Workers, LockLeg(w) PROVE RInv'
    BY <1>1, <1>3 DEF LockLeg
  <1>4. ASSUME NEW w \in Workers, CheckLegs(w) PROVE RInv'
    <2>1. /\ pc[w] = "legs" /\ pc'[w] = "insert" /\ job' = job /\ bets' = bets
          /\ draft'[w] = NewBet(job[w])
          /\ \A v \in Workers \ {w} : pc'[v] = pc[v] /\ draft'[v] = draft[v]
      BY <1>0, <1>4 DEF Local, CheckLegs
    <2>2. IsPlacement(job[w])
      BY <1>0, <2>1 DEF JobInv
    <2>3. JobOK(w)' /\ KeyOK(w)'
      BY <2>1, <2>2 DEF RInv, JobOK, KeyOK, InFlight, IsPlacement
    <2>4. DraftOK(w)'
      BY <2>1, <2>2, NewBetFacts DEF DraftOK, Closing, IsPlacement
    <2>5. QED  BY <1>0, <2>1, <2>3, <2>4, LocalRStep
  <1>5. ASSUME NEW w \in Workers, InsertBet(w) PROVE RInv'
    <2>1. /\ pc[w] = "insert" /\ pc'[w] = "pay" /\ job' = job /\ bets' = bets
          /\ draft' = draft
          /\ \A v \in Workers \ {w} : pc'[v] = pc[v]
      BY <1>0, <1>5 DEF Local, InsertBet
    <2>2. IsPlacement(job[w])
      BY <1>0, <2>1 DEF JobInv
    <2>3. JobOK(w)' /\ DraftOK(w)'
      BY <2>1, <2>2 DEF RInv, JobOK, DraftOK, Closing, IsPlacement
    <2>4. job[w].key # NoKey =>
             /\ \A i \in DOMAIN bets : bets[i].key # job[w].key
             /\ \A v \in Workers \ {w} : InFlight(v) => job[v].key # job[w].key
      BY <1>5 DEF InsertBet, KeyTaken, InFlight
    <2>5. KeyOK(w)'
      BY <2>1, <2>4 DEF KeyOK, InFlight, IsPlacement
    <2>6. QED  BY <1>0, <2>1, <2>3, <2>5, LocalRStep
  <1>6. ASSUME NEW w \in Workers, LockBet(w) PROVE RInv'
    <2>1. /\ pc[w] = "bet" /\ pc'[w] = "decide" /\ job' = job /\ bets' = bets
          /\ draft' = draft
          /\ \A v \in Workers \ {w} : pc'[v] = pc[v]
      BY <1>0, <1>6 DEF Local, LockBet
    <2>2. JobOK(w)' /\ DraftOK(w)' /\ KeyOK(w)'
      BY <1>0, <2>1 DEF RInv, JobInv, JobOK, DraftOK, KeyOK, InFlight, Closing,
                        IsPlacement
    <2>3. QED  BY <1>0, <2>1, <2>2, LocalRStep
  <1>7. ASSUME NEW w \in Workers, Decide(w) PROVE RInv'
    <2> DEFINE b == job[w].bet
    <2>1. /\ pc[w] = "decide" /\ pc'[w] = "pay" /\ job' = job /\ bets' = bets
          /\ draft'[w] = Outcome(job[w], bets[b])
          /\ bets[b].status = "PLACED"
          /\ \A v \in Workers \ {w} : pc'[v] = pc[v] /\ draft'[v] = draft[v]
      BY <1>0, <1>7 DEF Local, Decide, Decidable
    <2>2. ~IsPlacement(job[w])
      BY <2>1 DEF RInv, JobOK
    <2>3. b \in DOMAIN bets
      BY <1>0, <2>1, <2>2 DEF JobInv, Closing
    <2>4. ClosingRequest(job[w]) /\ RowOK(bets[b])
      BY <2>1, <2>2, <2>3 DEF RInv, JobOK
    <2>5. Closes(Outcome(job[w], bets[b]), bets[b])
      BY <2>1, <2>4, OutcomeFacts DEF RowOK
    <2>6. JobOK(w)' /\ KeyOK(w)'
      BY <2>1, <2>2 DEF RInv, JobOK, KeyOK, InFlight, IsPlacement
    <2>7. DraftOK(w)'
      BY <2>1, <2>2, <2>5 DEF DraftOK, Closing, IsPlacement
    <2>8. QED  BY <1>0, <2>1, <2>6, <2>7, LocalRStep
  <1>8. ASSUME NEW w \in Workers, LockUser(w) PROVE RInv'
    <2>1. /\ pc[w] = "pay" /\ pc'[w] = "post" /\ job' = job /\ bets' = bets
          /\ draft' = draft
          /\ \A v \in Workers \ {w} : pc'[v] = pc[v]
      BY <1>0, <1>8 DEF Local, LockUser
    <2>2. JobOK(w)' /\ DraftOK(w)'
      BY <2>1 DEF RInv, JobOK, DraftOK, Closing, IsPlacement
    <2>3. KeyOK(w)'
      BY <2>1 DEF RInv, KeyOK, InFlight, IsPlacement
    <2>4. QED  BY <1>0, <2>1, <2>2, <2>3, LocalRStep
  <1>9. ASSUME NEW w \in Workers, CommitPlacement(w) PROVE RInv'
    BY <1>0, <1>9, CommitPlacementRStep
  <1>10. ASSUME NEW w \in Workers, CommitOutcome(w) PROVE RInv'
    BY <1>0, <1>10, CommitOutcomeRStep
  <1>11. ASSUME NEW w \in Workers, Refuse(w) PROVE RInv'
    BY <1>0, <1>11, RollbackRStep DEF Refuse
  <1>12. ASSUME NEW w \in Workers, Fail(w) PROVE RInv'
    BY <1>0, <1>12, RollbackRStep DEF Fail
  <1>13. ASSUME NEW s \in Selections, Reprice(s) \/ OpenOrClose(s) \/ ClockPasses(s)
         PROVE  RInv'
    BY <1>1, <1>13 DEF Reprice, OpenOrClose, ClockPasses, session
  <1>14. ASSUME NEW u \in Users, VerifyEmail(u) PROVE RInv'
    BY <1>1, <1>14 DEF VerifyEmail, session
  <1>15. CASE UNCHANGED vars
    BY <1>1, <1>15 DEF vars, session
  <1>16. QED
    BY <1>2, <1>3, <1>4, <1>5, <1>6, <1>7, <1>8, <1>9, <1>10, <1>11, <1>12,
       <1>13, <1>14, <1>15 DEF Next, Work, Acquire

-----------------------------------------------------------------------------
(***************************************************************************)
(* Every step is a purchase, a closing or nothing to AtomicBetting.        *)
(***************************************************************************)
Slip(row) ==
    [owner |-> row.user, key |-> row.key, stake |-> row.stake,
     state |-> IF row.status = "PLACED" THEN "open" ELSE "closed",
     paid |-> row.payout]

\* The two modules read the ledger with the same operators.
LEMMA SamePost ==
    ASSUME NEW u, NEW e
    PROVE  Promise!Post(u, e) <=> Post(u, e)
  BY DEF Promise!Post, Post, Promise!Balanced, Balanced,
         Promise!UserAccounts, UserAccounts

LEMMA SameEntries ==
    ASSUME NEW n, NEW k
    PROVE  /\ Promise!PlacementEntries(n, k) = PlacementEntries(n, k)
           /\ Promise!WonEntries(n, k) = WonEntries(n, k)
  BY DEF Promise!PlacementEntries, PlacementEntries, Promise!WonEntries,
         WonEntries, Promise!LostEntries, LostEntries, Promise!Debit, Debit,
         Promise!Credit, Credit, Promise!Accounts, Accounts,
         Promise!UserAccounts, UserAccounts, Promise!++, ++

LEMMA SlipOf ==
    /\ DOMAIN Tickets = DOMAIN bets
    /\ \A i \in DOMAIN bets : Tickets[i] = Slip(bets[i])
  BY DEF Tickets, Slip

LEMMA SlipClosed ==
    ASSUME NEW old, NEW new, old.status = "PLACED", new.status # "PLACED",
           new.user = old.user, new.key = old.key, new.stake = old.stake
    PROVE  Slip(new) = [Slip(old) EXCEPT !.state = "closed", !.paid = new.payout]
  <1> DEFINE r == Slip(old)
             q == Slip(new)
  <1>1. /\ DOMAIN r = {"owner", "key", "stake", "state", "paid"}
        /\ DOMAIN q = {"owner", "key", "stake", "state", "paid"}
        /\ q = [i \in DOMAIN q |-> q[i]]
        /\ \A i \in DOMAIN q : q[i] = IF i = "state" THEN "closed"
                                      ELSE IF i = "paid" THEN new.payout
                                      ELSE r[i]
    BY DEF Slip
  <1> HIDE DEF r, q
  <1>2. [r EXCEPT !.state = "closed", !.paid = new.payout] =
           [i \in DOMAIN r |-> IF i = "state" THEN "closed"
                               ELSE IF i = "paid" THEN new.payout ELSE r[i]]
    OBVIOUS
  <1>3. q = [r EXCEPT !.state = "closed", !.paid = new.payout]
    BY <1>1, <1>2
  <1>4. QED  BY <1>3 DEF r, q

LEMMA PurchaseStep ==
    ASSUME RInv, NEW w \in Workers, CommitPlacement(w)
    PROVE  Promise!TNext
  <1> DEFINE r == job[w]
             n == Len(bets) + 1
  <1>1. /\ r \in Placement /\ Sketches(draft[w], r)
        /\ DOMAIN bets' = DOMAIN bets \cup {n} /\ Len(bets') = n
        /\ \A i \in DOMAIN bets : bets'[i] = bets[i]
        /\ bets'[n] = draft[w]
        /\ r.key # NoKey => \A i \in DOMAIN bets : bets[i].key # r.key
    BY Placed
  <1>2. /\ r.user \in Users /\ r.stake \in Stakes
        /\ r.key \in Keys \cup {NoKey} /\ r.useBonus \in BOOLEAN
    BY <1>1, PlacementFacts
  <1>3. Tickets' = Append(Tickets, [owner |-> r.user, key |-> r.key,
                                    stake |-> r.stake, state |-> "open", paid |-> 0])
    <2> DEFINE slip == [owner |-> r.user, key |-> r.key, stake |-> r.stake,
                        state |-> "open", paid |-> 0]
    <2>1. slip = Slip(draft[w])
      BY <1>1 DEF Slip, Sketches
    <2>2. Len(bets) \in Nat /\ DOMAIN bets = 1 .. Len(bets)
      BY RowIds DEF RInv, IInv
    <2>3. /\ DOMAIN Tickets = 1 .. Len(bets)
          /\ \A i \in 1 .. Len(bets) : Tickets[i] = Slip(bets[i])
      BY <2>2, SlipOf
    <2>4. Tickets' = [i \in DOMAIN bets' |-> Slip(bets'[i])]
      BY DEF Tickets, Slip
    <2>5. Tickets = [i \in 1 .. Len(bets) |-> Slip(bets[i])]
      BY <2>2 DEF Tickets, Slip
    <2> HIDE DEF slip, n, r
    <2>6. Append(Tickets, slip) =
             [i \in 1 .. (Len(bets) + 1) |->
                 IF i = Len(bets) + 1 THEN slip ELSE Slip(bets[i])]
      <3> DEFINE T == {Slip(bets[i]) : i \in 1 .. Len(bets)}
      <3>1. Tickets \in Seq(T)
        BY <2>2, <2>5
      <3>2. Len(Tickets) = Len(bets)
        BY <2>2, <2>5, <3>1
      <3>3. QED  BY <2>2, <2>3, <3>1, <3>2, AppendAsFunction
    <2>7. DOMAIN bets' = 1 .. (Len(bets) + 1)
      BY <1>1, <2>2 DEF n
    <2>8. \A i \in 1 .. (Len(bets) + 1) :
              Slip(bets'[i]) = IF i = Len(bets) + 1 THEN slip ELSE Slip(bets[i])
      <3>1. \A i \in 1 .. Len(bets) : bets'[i] = bets[i]
        BY <1>1, <2>2
      <3>2. bets'[Len(bets) + 1] = draft[w]
        BY <1>1 DEF n
      <3>3. \A i \in 1 .. (Len(bets) + 1) : i # Len(bets) + 1 => i \in 1 .. Len(bets)
        BY <2>2
      <3>4. QED  BY <2>1, <3>1, <3>2, <3>3
    <2>9. QED  BY <2>4, <2>6, <2>7, <2>8 DEF slip
  <1>4. r.key # NoKey => \A i \in DOMAIN Tickets : Tickets[i].key # r.key
    BY <1>1, SlipOf DEF Slip
  <1>5. Promise!Covered(r.user, r.stake, r.useBonus)
    BY DEF CommitPlacement, Funded, Promise!Covered
  <1>6. FromBonus(r) = Promise!BonusPart(r.user, r.stake, r.useBonus)
    BY DEF FromBonus, Promise!BonusPart, Min, Promise!Min
  <1>7. Post(r.user, PlacementEntries(r.stake - FromBonus(r), FromBonus(r)))
    <2>1. EntriesOf(r, draft[w]) =
             PlacementEntries(draft[w].stake - FromBonus(r), FromBonus(r))
      BY <1>1 DEF EntriesOf, Sketches
    <2>2. UserOf(w) = r.user /\ draft[w].stake = r.stake
      BY <1>1 DEF UserOf, Sketches
    <2>3. Post(UserOf(w), EntriesOf(r, draft[w]))
      BY DEF CommitPlacement
    <2>4. QED  BY <2>1, <2>2, <2>3
  <1>8. Promise!Buy(r.user, r.stake, r.key, r.useBonus)
    BY <1>3, <1>4, <1>5, <1>6, <1>7, SamePost, SameEntries DEF Promise!Buy
  <1>9. QED  BY <1>2, <1>8 DEF Promise!TNext

LEMMA ClosingStep ==
    ASSUME RInv, NEW w \in Workers, CommitOutcome(w)
    PROVE  Promise!TNext
  <1> DEFINE b == job[w].bet
  <1>1. /\ b \in DOMAIN bets /\ bets[b].status = "PLACED"
        /\ Closes(draft[w], bets[b])
        /\ DOMAIN bets' = DOMAIN bets /\ bets'[b] = draft[w]
        /\ \A i \in DOMAIN bets : i # b => bets'[i] = bets[i]
    BY Closed
  <1>2. bets[b].stake \in Int
    <2>1. RowOK(bets[b])
      BY <1>1 DEF RInv
    <2>2. bets[b].stake \in Stakes
      BY <2>1 DEF RowOK
    <2>3. bets[b].stake \in Nat
      BY <2>2, StakeAssumption, Zenon
    <2>4. QED  BY <2>3
  <1>3. Post(UserOf(w), EntriesOf(job[w], draft[w]))
    BY DEF CommitOutcome
  <1> HIDE DEF b
  <1>4. /\ b \in DOMAIN Tickets /\ Tickets[b].state = "open"
        /\ Tickets[b].owner = bets[b].user /\ Tickets[b].stake = bets[b].stake
    BY <1>1, SlipOf DEF Slip
  <1>5. Tickets'[b] = Slip(draft[w])
    BY <1>1 DEF Tickets, Slip
  <1>6. Slip(draft[w]) = [Slip(bets[b]) EXCEPT !.state = "closed",
                                               !.paid = draft[w].payout]
    <2>1. draft[w].status # "PLACED"
      BY <1>1 DEF Closes, Terminal
    <2>2. QED  BY <1>1, <2>1, SlipClosed DEF Closes
  <1>7. Tickets' = [Tickets EXCEPT ![b] =
                       [@ EXCEPT !.state = "closed", !.paid = Tickets'[b].paid]]
    <2>1. Tickets'[b].paid = draft[w].payout
      BY <1>5 DEF Slip
    <2>2. Tickets' = [i \in DOMAIN bets |-> Slip(bets'[i])]
      BY <1>1 DEF Tickets, Slip
    <2>3. Tickets = [i \in DOMAIN bets |-> Slip(bets[i])]
      BY DEF Tickets, Slip
    <2> HIDE DEF Slip
    <2> DEFINE p == Tickets'[b].paid
               t == [Slip(bets[b]) EXCEPT !.state = "closed", !.paid = p]
    <2>4. Slip(bets'[b]) = t
      BY <1>1, <1>6, <2>1
    <2>5. t = [Tickets[b] EXCEPT !.state = "closed", !.paid = p]
      BY <1>1, <2>3
    <2> HIDE DEF t
    <2>6. Tickets' = [Tickets EXCEPT ![b] = t]
      BY <1>1, <2>2, <2>3, <2>4
    <2>7. QED  BY <2>5, <2>6
  <1>8. Post(Tickets[b].owner, WonEntries(Tickets[b].stake, Tickets'[b].paid))
    <2>1. EntriesOf(job[w], draft[w]) = WonEntries(draft[w].stake, draft[w].payout)
      BY <1>1, <1>2, ClosingEntries DEF Closes
    <2>2. /\ UserOf(w) = Tickets[b].owner /\ draft[w].stake = Tickets[b].stake
          /\ draft[w].payout = Tickets'[b].paid
      BY <1>1, <1>4, <1>5 DEF Closes, UserOf, Slip
    <2>3. QED  BY <1>3, <2>1, <2>2
  <1>9. Promise!Close(b)
    BY <1>4, <1>7, <1>8, SamePost, SameEntries DEF Promise!Close
  <1>10. QED  BY <1>4, <1>9 DEF Promise!TNext

LEMMA StepRefines == RInv /\ [Next]_vars => [Promise!TNext]_(Promise!tvars)
  <1> SUFFICES ASSUME RInv, [Next]_vars
               PROVE  Promise!TNext \/ UNCHANGED Promise!tvars
    OBVIOUS
  <1>1. \/ \E w \in Workers : CommitPlacement(w) \/ CommitOutcome(w)
        \/ UNCHANGED <<balance, house, bets>>
    BY DEF Next, Work, Acquire, vars, Receive, LockLeg, CheckLegs, InsertBet,
           LockBet, Decide, LockUser, Refuse, Fail, Reprice, OpenOrClose,
           ClockPasses, VerifyEmail
  <1>2. CASE UNCHANGED <<balance, house, bets>>
    BY <1>2 DEF Promise!tvars, Tickets
  <1>3. QED  BY <1>1, <1>2, PurchaseStep, ClosingStep

-----------------------------------------------------------------------------
(***************************************************************************)
(* Keys and the refinement.                                                *)
(***************************************************************************)
\* What a worker carries still fits its request, its row and its key when it
\* commits, whatever the others have committed since it decided.
THEOREM Carried == Spec => []RInv
  BY RInit, NextRInv, PTL DEF Spec

\* A key names one bet, though services.py looks it up before the transaction
\* opens: the second insertion waits for the first and then finds its row.
THEOREM KeysNameOneBet == Spec => []OneBetPerKey
  <1>1. RInv => OneBetPerKey
    BY DEF RInv
  <1>2. QED  BY <1>1, Carried, PTL

\* The concurrent services of apps/betting sell and close tickets as if each
\* purchase and each closing happened at one instant.
THEOREM PromiseKept == Spec => KeepsPromise
  <1>1. Init => Promise!TInit
    <2>1. Init => Tickets = << >>
      BY DEF Init, Tickets
    <2>2. QED  BY <2>1 DEF Init, Promise!TInit
  <1>2. QED
    BY <1>1, Carried, StepRefines, PTL DEF Spec, KeepsPromise, Promise!TSpec

-----------------------------------------------------------------------------
(***************************************************************************)
(* Waiting.  Who holds a row is at a known place: a user's row just before *)
(* its commit, a bet's row while it closes the bet, and rows of selections *)
(* in their order, so that the next one to lock is above all it has.       *)
(***************************************************************************)
LocksTyped ==
    /\ selectionLock \in [Selections -> Workers \cup {NoWorker}]
    /\ userLock \in [Users -> Workers \cup {NoWorker}]

LegsInOrder(w) ==
    pc[w] = "legs" =>
        \A h \in Holds(w), s \in job[w].legs \ Holds(w) : h < s

Tidy(w) ==
    /\ Holds(w) # {} => /\ pc[w] \in {"legs", "insert", "pay", "post"}
                        /\ IsPlacement(job[w])
    /\ \A i \in BetIds : betLock[i] = w => Closing(w)
    /\ \A u \in Users : userLock[u] = w => pc[w] = "post"

WInv == LocksTyped /\ \A w \in Workers : LegsInOrder(w) /\ Tidy(w)

\* The smallest of some natural numbers is one of them.
LEMMA MinOf ==
    ASSUME NEW T \in SUBSET Nat, T # {}
    PROVE  Min(T) \in T /\ \A t \in T : Min(T) <= t
  <1>1. \E m \in T : \A t \in T : m <= t
    BY Least
  <1>2. QED  BY <1>1 DEF Min

LEMMA WInit == Init => WInv
  BY WorkerAssumption
     DEF Init, WInv, LocksTyped, LegsInOrder, Tidy, Holds

\* A worker moves on and the others keep what they have.
LEMMA WStep ==
    ASSUME WInv, NEW w \in Workers, LocksTyped',
           \A v \in Workers \ {w} : pc'[v] = pc[v] /\ job'[v] = job[v],
           \A v \in Workers \ {w} : Holds(v)' = Holds(v),
           \A v \in Workers \ {w}, i \in BetIds : betLock'[i] = v => betLock[i] = v,
           \A v \in Workers \ {w}, u \in Users : userLock'[u] = v => userLock[u] = v,
           LegsInOrder(w)', Tidy(w)'
    PROVE  WInv'
  <1>1. ASSUME NEW v \in Workers \ {w} PROVE LegsInOrder(v)' /\ Tidy(v)'
    <2>1. pc'[v] = pc[v] /\ job'[v] = job[v] /\ Holds(v)' = Holds(v)
      OBVIOUS
    <2>2. LegsInOrder(v) /\ Tidy(v)
      BY DEF WInv
    <2>3. LegsInOrder(v)'
      BY <2>1, <2>2 DEF LegsInOrder
    <2>4. Closing(v)' <=> Closing(v)
      BY <2>1 DEF Closing, IsPlacement
    <2>5. Tidy(v)'
      BY <2>1, <2>2, <2>4 DEF Tidy, IsPlacement
    <2>6. QED  BY <2>3, <2>5
  <1>2. QED  BY <1>1 DEF WInv

LEMMA FinishWStep ==
    ASSUME IInv, WInv, NEW w \in Workers, Finish(w)
    PROVE  WInv'
  <1>1. /\ pc'[w] = "idle"
        /\ \A v \in Workers \ {w} : pc'[v] = pc[v] /\ job'[v] = job[v]
        /\ \A i \in BetIds : betLock'[i] = IF betLock[i] = w
                                           THEN NoWorker ELSE betLock[i]
    BY FinishFacts DEF IInv
  <1>2. /\ LocksTyped'
        /\ \A s \in Selections : selectionLock'[s] =
               IF selectionLock[s] = w THEN NoWorker ELSE selectionLock[s]
        /\ \A u \in Users : userLock'[u] =
               IF userLock[u] = w THEN NoWorker ELSE userLock[u]
    BY DEF WInv, LocksTyped, Finish, Free
  <1>3. \A v \in Workers \ {w} : Holds(v)' = Holds(v)
    BY <1>2, WorkerAssumption DEF Holds
  <1>4. LegsInOrder(w)' /\ Tidy(w)'
    <2>1. Holds(w)' = {}
      BY <1>2, WorkerAssumption DEF Holds
    <2>2. QED  BY <1>1, <1>2, <2>1, WorkerAssumption DEF LegsInOrder, Tidy
  <1>5. \A v \in Workers \ {w} :
            /\ \A i \in BetIds : betLock'[i] = v => betLock[i] = v
            /\ \A u \in Users : userLock'[u] = v => userLock[u] = v
    BY <1>1, <1>2, WorkerAssumption
  <1>6. QED  BY <1>1, <1>2, <1>3, <1>4, <1>5, WStep

LEMMA LockLegWStep ==
    ASSUME RInv, WInv, NEW w \in Workers, LockLeg(w)
    PROVE  WInv'
  <1> DEFINE L == job[w].legs \ Holds(w)
  <1>1. job[w] \in Placement
    BY DEF RInv, IInv, JobInv, JobOK, LockLeg
  <1>2. job[w].legs \in SUBSET Selections
    BY <1>1 DEF Placement
  <1>3. L \in SUBSET Nat /\ L # {}
    BY <1>2, SelectionAssumption DEF LockLeg
  <1> HIDE DEF L
  <1>4. PICK s \in L : s = Min(L) /\ \A t \in L : s <= t
    BY <1>3, MinOf
  <1>5. /\ pc[w] = "legs" /\ selectionLock[s] = NoWorker
        /\ selectionLock' = [selectionLock EXCEPT ![s] = w]
        /\ UNCHANGED <<betLock, userLock, pc, job>>
    BY <1>4 DEF LockLeg, L
  <1>6. s \in Selections
    BY <1>2 DEF L
  <1>7. LocksTyped' /\ Holds(w)' = Holds(w) \cup {s}
          /\ \A v \in Workers \ {w} : Holds(v)' = Holds(v)
    BY <1>5, <1>6, WorkerAssumption DEF WInv, LocksTyped, Holds
  <1>8. LegsInOrder(w)'
    <2> SUFFICES ASSUME NEW h \in Holds(w) \cup {s},
                        NEW t \in job[w].legs \ (Holds(w) \cup {s})
                 PROVE  h < t
      BY <1>5, <1>7 DEF LegsInOrder
    <2>1. t \in L /\ t # s /\ s \in Nat /\ t \in Nat /\ s <= t
      BY <1>3, <1>4 DEF L
    <2>2. CASE h = s
      BY <2>1, <2>2
    <2>3. CASE h # s
      BY <1>5, <2>3 DEF WInv, LegsInOrder
    <2>4. QED  BY <2>2, <2>3
  <1>9. Tidy(w)'
    <2>1. IsPlacement(job[w])
      BY <1>5 DEF RInv, IInv, JobInv
    <2>2. QED  BY <1>5, <2>1 DEF WInv, Tidy, Closing, IsPlacement
  <1>10. QED  BY <1>5, <1>7, <1>8, <1>9, WStep

LEMMA NextWInv == RInv /\ WInv /\ [Next]_vars => WInv'
  <1> SUFFICES ASSUME RInv, WInv, [Next]_vars PROVE WInv'
    OBVIOUS
  <1>0. IInv /\ Rows /\ Local /\ JobInv
    BY DEF RInv, IInv
  <1>1. ASSUME UNCHANGED <<locks, pc, job>> PROVE WInv'
    BY <1>1 DEF WInv, LocksTyped, LegsInOrder, Tidy, Holds, Closing,
                IsPlacement, locks
  \* The locks on selections stay, and only w moves.
  <1>2. ASSUME NEW w \in Workers, UNCHANGED selectionLock, LocksTyped',
               \A v \in Workers \ {w} : pc'[v] = pc[v] /\ job'[v] = job[v],
               \A v \in Workers \ {w}, i \in BetIds :
                   betLock'[i] = v => betLock[i] = v,
               \A v \in Workers \ {w}, u \in Users :
                   userLock'[u] = v => userLock[u] = v,
               pc'[w] = "legs" => Holds(w) = {}, Tidy(w)'
        PROVE  WInv'
    <2>1. \A v \in Workers : Holds(v)' = Holds(v)
      BY <1>2 DEF Holds
    <2>2. LegsInOrder(w)'
      BY <1>2, <2>1 DEF LegsInOrder
    <2>3. QED  BY <1>2, <2>1, <2>2, WStep
  <1>3. ASSUME NEW w \in Workers, Receive(w) PROVE WInv'
    <2>1. /\ pc[w] = "idle" /\ pc'[w] \in {"legs", "bet"}
          /\ UNCHANGED locks
          /\ \A v \in Workers \ {w} : pc'[v] = pc[v] /\ job'[v] = job[v]
      BY <1>0, <1>3 DEF Receive, Local
    <2>2. /\ Holds(w) = {} /\ \A i \in BetIds : betLock[i] # w
          /\ \A u \in Users : userLock[u] # w
      BY <2>1 DEF WInv, Tidy, Closing
    <2>3. Tidy(w)'
      BY <2>1, <2>2 DEF Tidy, Holds, locks
    <2>4. QED  BY <1>2, <2>1, <2>2, <2>3 DEF WInv, LocksTyped, locks
  <1>4. ASSUME NEW w \in Workers, LockLeg(w) PROVE WInv'
    BY <1>4, LockLegWStep
  <1>5. ASSUME NEW w \in Workers, CheckLegs(w) PROVE WInv'
    <2>1. /\ pc[w] = "legs" /\ pc'[w] = "insert" /\ UNCHANGED <<locks, job>>
          /\ \A v \in Workers \ {w} : pc'[v] = pc[v]
      BY <1>0, <1>5 DEF CheckLegs, Local
    <2>2. Tidy(w)'
      BY <2>1 DEF WInv, Tidy, Holds, Closing, IsPlacement, locks
    <2>3. QED  BY <1>2, <2>1, <2>2 DEF WInv, LocksTyped, locks
  <1>6. ASSUME NEW w \in Workers, InsertBet(w) PROVE WInv'
    <2>1. /\ pc[w] = "insert" /\ pc'[w] = "pay" /\ UNCHANGED <<locks, job>>
          /\ \A v \in Workers \ {w} : pc'[v] = pc[v]
      BY <1>0, <1>6 DEF InsertBet, Local
    <2>2. Tidy(w)'
      BY <2>1 DEF WInv, Tidy, Holds, Closing, IsPlacement, locks
    <2>3. QED  BY <1>2, <2>1, <2>2 DEF WInv, LocksTyped, locks
  <1>7. ASSUME NEW w \in Workers, LockBet(w) PROVE WInv'
    <2>1. /\ pc[w] = "bet" /\ pc'[w] = "decide" /\ ~IsPlacement(job[w])
          /\ betLock' = [betLock EXCEPT ![job[w].bet] = w]
          /\ UNCHANGED <<selectionLock, userLock, job>>
          /\ \A v \in Workers \ {w} : pc'[v] = pc[v]
      BY <1>0, <1>7 DEF LockBet, Local, JobInv
    <2>2. Holds(w) = {} /\ \A u \in Users : userLock[u] # w
      BY <2>1 DEF WInv, Tidy
    <2>3. Tidy(w)'
      BY <2>1, <2>2 DEF Tidy, Holds, Closing, IsPlacement
    <2>4. \A v \in Workers \ {w}, i \in BetIds : betLock'[i] = v => betLock[i] = v
      BY <1>0, <2>1 DEF Local
    <2>5. QED  BY <1>2, <2>1, <2>3, <2>4 DEF WInv, LocksTyped
  <1>8. ASSUME NEW w \in Workers, Decide(w) PROVE WInv'
    <2>1. /\ pc[w] = "decide" /\ pc'[w] = "pay" /\ UNCHANGED <<locks, job>>
          /\ \A v \in Workers \ {w} : pc'[v] = pc[v]
      BY <1>0, <1>8 DEF Decide, Local
    <2>2. Tidy(w)'
      BY <2>1 DEF WInv, Tidy, Holds, Closing, IsPlacement, locks
    <2>3. QED  BY <1>2, <2>1, <2>2 DEF WInv, LocksTyped, locks
  <1>9. ASSUME NEW w \in Workers, LockUser(w) PROVE WInv'
    <2>1. /\ pc[w] = "pay" /\ pc'[w] = "post"
          /\ userLock' = [userLock EXCEPT ![UserOf(w)] = w]
          /\ UNCHANGED <<selectionLock, betLock, job>>
          /\ \A v \in Workers \ {w} : pc'[v] = pc[v]
      BY <1>0, <1>9 DEF LockUser, Local
    <2>2. Tidy(w)'
      BY <2>1 DEF WInv, Tidy, Holds, Closing, IsPlacement
    <2>3. /\ LocksTyped'
          /\ \A v \in Workers \ {w}, u \in Users :
                 userLock'[u] = v => userLock[u] = v
      BY <2>1 DEF WInv, LocksTyped
    <2>4. QED  BY <1>2, <2>1, <2>2, <2>3
  <1>10. ASSUME NEW w \in Workers, Finish(w) PROVE WInv'
    BY <1>0, <1>10, FinishWStep
  <1>11. ASSUME NEW w \in Workers,
                CommitPlacement(w) \/ CommitOutcome(w) \/ Refuse(w) \/ Fail(w)
         PROVE  WInv'
    BY <1>10, <1>11 DEF CommitPlacement, CommitOutcome, Refuse, Fail
  <1>12. ASSUME UNCHANGED session PROVE WInv'
    BY <1>1, <1>12 DEF session
  <1>13. QED
    BY <1>3, <1>4, <1>5, <1>6, <1>7, <1>8, <1>9, <1>11, <1>12
       DEF Next, Work, Acquire, vars, Reprice, OpenOrClose, ClockPasses,
           VerifyEmail

\* Whoever has the row of a user waits for nothing, and whoever has that of a
\* bet waits for a user's at most.  Those that wait for selections wait for
\* ever higher ones, and there is a highest.
LEMMA WaitingEnds == RInv /\ WInv => NoWaitingCircle
  <1> SUFFICES ASSUME RInv, WInv, NEW D \in SUBSET Workers, D # {},
                      \A w \in D : \E v \in D : WaitsFor(w, v)
               PROVE  FALSE
    BY DEF NoWaitingCircle
  <1>1. ASSUME NEW w \in D, NEW v \in D, WaitsFor(w, v), pc[w] = "pay"
        PROVE  pc[v] = "post"
    <2>1. userLock[UserOf(w)] = v
      BY <1>1 DEF WaitsFor
    <2>2. UserOf(w) \in Users
      <3>1. CASE IsPlacement(job[w])
        <4>1. job[w] \in Placement /\ Sketches(draft[w], job[w])
          BY <1>1, <3>1 DEF RInv, JobOK, DraftOK
        <4>2. QED  BY <4>1, PlacementFacts DEF Sketches, UserOf
      <3>2. CASE ~IsPlacement(job[w])
        <4>1. Closing(w) /\ job[w].bet \in DOMAIN bets
          BY <1>1, <3>2 DEF RInv, IInv, JobInv, Closing
        <4>2. Closes(draft[w], bets[job[w].bet]) /\ RowOK(bets[job[w].bet])
          BY <1>1, <4>1 DEF RInv, DraftOK
        <4>3. QED  BY <4>2 DEF Closes, RowOK, UserOf
      <3>3. QED  BY <3>1, <3>2
    <2>3. QED  BY <2>1, <2>2 DEF WInv, Tidy
  <1>2. \A w \in D : pc[w] \in {"legs", "insert", "bet"}
    <2>1. \A w \in D : pc[w] \in {"legs", "insert", "bet", "pay"}
      BY DEF WaitsFor
    <2>2. QED  BY <1>1, <2>1
  <1>3. \A w \in D : pc[w] # "insert"
    BY <1>2 DEF WaitsFor
  <1>4. \A w \in D : pc[w] # "bet"
    <2> SUFFICES ASSUME NEW w \in D, NEW v \in D, WaitsFor(w, v), pc[w] = "bet"
                 PROVE  FALSE
      OBVIOUS
    <2>1. betLock[job[w].bet] = v /\ job[w].bet \in BetIds
      BY RowIds DEF WaitsFor, RInv, IInv, JobInv
    <2>2. Closing(v)
      BY <2>1 DEF WInv, Tidy
    <2>3. QED  BY <1>2, <2>2 DEF Closing
  <1>5. \A w \in D : pc[w] = "legs"
    BY <1>2, <1>3, <1>4
  <1> DEFINE next(w) == Min(job[w].legs \ Holds(w))
             wanted == {next(w) : w \in D}
  <1>6. ASSUME NEW w \in D
        PROVE  /\ next(w) \in job[w].legs \ Holds(w) /\ next(w) \in Selections
               /\ \E v \in D : next(w) \in Holds(v)
    <2>1. PICK v \in D : WaitsFor(w, v)
      OBVIOUS
    <2>2. /\ job[w].legs \ Holds(w) # {}
          /\ selectionLock[Min(job[w].legs \ Holds(w))] = v
      BY <1>5, <2>1 DEF WaitsFor
    <2>3. job[w] \in Placement
      BY <1>5 DEF RInv, IInv, JobInv, JobOK
    <2>4. job[w].legs \in SUBSET Selections
      BY <2>3 DEF Placement
    <2>5. job[w].legs \ Holds(w) \in SUBSET Nat
      BY <2>4, SelectionAssumption
    <2>6. Min(job[w].legs \ Holds(w)) \in job[w].legs \ Holds(w)
      BY <2>2, <2>5, MinOf
    <2>7. QED  BY <2>2, <2>4, <2>6 DEF Holds
  <1>7. wanted \in SUBSET Nat /\ IsFiniteSet(wanted) /\ wanted # {}
    <2> HIDE DEF next
    <2>1. wanted \subseteq Selections
      BY <1>6
    <2>2. wanted # {}
      OBVIOUS
    <2> HIDE DEF wanted
    <2>3. QED  BY <2>1, <2>2, SelectionAssumption, FS_Subset
  <1> HIDE DEF next
  <1>8. PICK w \in D : \A t \in wanted : t <= next(w)
    <2>1. PICK m \in wanted : \A t \in wanted : t <= m
      <3> HIDE DEF wanted
      <3>1. QED  BY <1>7, Greatest
    <2>2. QED  BY <2>1
  <1>9. PICK v \in D : next(w) \in Holds(v)
    BY <1>6
  <1>10. next(w) < next(v)
    BY <1>5, <1>6, <1>9 DEF WInv, LegsInOrder
  <1>11. next(v) <= next(w) /\ next(v) \in Nat /\ next(w) \in Nat
    BY <1>7, <1>8
  <1>12. QED  BY <1>10, <1>11

\* No group of placements, settlements and cash-outs waits for one another
\* only, for any number of them and any combined bets: the rows are taken in
\* one order.
THEOREM NobodyWaitsInCircles == Spec => []NoWaitingCircle
  <1>1. Spec => []WInv
    BY WInit, NextWInv, Carried, PTL DEF Spec
  <1>2. QED  BY <1>1, Carried, WaitingEnds, PTL
=============================================================================
