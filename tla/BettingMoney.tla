---------------------------- MODULE BettingMoney -----------------------------
(***************************************************************************)
(* Types and money of Betting, for every set of users, selections,         *)
(* workers, odds, keys and stakes, and every opening balance.              *)
(*                                                                         *)
(* The argument: every row, draft and request keeps its legs with the odds *)
(* and results they had, so each total and payout is a rounded product of  *)
(* positive odds (TInv).  A commit changes one row of one user, and the    *)
(* sums over the rows of that user change by what it posts (MInv): a       *)
(* purchase adds a stake to the placed ones, a closing takes it out and    *)
(* adds the payout.  That the row was placed, and that nobody else closes  *)
(* it, comes from the locks and drafts of BettingProofs (RInv).            *)
(*                                                                         *)
(* A cash-out divides the win by odds of at least one and multiplies it by *)
(* a factor of at most one, and rounding is monotone (Capped).             *)
(***************************************************************************)
EXTENDS BettingProofs, ArithmeticProofs

-----------------------------------------------------------------------------
(***************************************************************************)
(* Types.  The total and the payout of a bet are rounded products of odds, *)
(* so they are natural numbers when the odds of its legs are known to be   *)
(* positive: every row, draft and request keeps its legs with their odds   *)
(* and results (Slipped, JobTyped, DraftTyped).                            *)
(***************************************************************************)
\* What a cash-out paid is less than the win.
Capped(row) ==
    row.status = "CASHED_OUT" => row.payout \in 1 .. Winnings(row.stake, row.total)

\* A complete row: its odds and its results are those of its own legs.
Slipped(row) ==
    /\ row \in Bet
    /\ row.at \in [row.legs -> OddsValues]
    /\ row.results \in [row.legs -> LegResult]
    /\ Capped(row)

\* The results a settlement carries are those of the legs of its bet.
JobTyped(w) ==
    pc[w] # "idle" /\ ~IsPlacement(job[w]) =>
        /\ job[w].op = "settle_acca_bet" =>
               job[w].results \in [bets[job[w].bet].legs -> LegResult]
        /\ job[w].op = "cash_out_bet" =>
               job[w].current \in CashOutOdds /\ job[w].current >= OddsScale

DraftTyped(w) ==
    pc[w] \in {"insert", "pay", "post"} => Slipped(draft[w])

\* The outcome that is carried has the legs of the row it replaces.
LegsKept(w) ==
    Closing(w) /\ pc[w] # "decide" => draft[w].legs = bets[job[w].bet].legs

MarketTyped ==
    /\ verified \subseteq Users
    /\ odds \in [Selections -> OddsValues]
    /\ open \subseteq Selections /\ starting \subseteq Selections

PcTyped(w) ==
    pc[w] \in {"idle", "legs", "insert", "bet", "decide", "pay", "post"}

TInv ==
    /\ LedgerTypeOK /\ MarketTyped /\ LocksTyped
    /\ \A i \in DOMAIN bets : Slipped(bets[i])
    /\ \A w \in Workers : PcTyped(w) /\ JobTyped(w) /\ DraftTyped(w) /\ LegsKept(w)

\* A product of positive odds, rounded, is a natural number.
LEMMA CombinedType ==
    ASSUME NEW legs \in SUBSET Selections, NEW at,
           \A s \in legs : at[s] \in OddsValues
    PROVE  Combined(at, legs) \in Nat
  <1> DEFINE ones == [s \in legs |-> OddsScale]
  <1>1. IsFiniteSet(legs)
    BY SelectionAssumption, FS_Subset
  <1>2. \A s \in legs : at[s] \in Nat \ {0} /\ ones[s] \in Nat \ {0}
    BY OddsAssumption
  <1> HIDE DEF ones
  <1>3. Product(at, legs) \in Nat \ {0} /\ Product(ones, legs) \in Nat \ {0}
    BY <1>1, <1>2, ProductPositive
  <1> DEFINE p == Product(at, legs)
             q == Product(ones, legs)
  <1>4. Combined(at, legs) = RoundHalfEven(OddsScale * p, q)
    BY DEF Combined, ones
  <1> HIDE DEF p, q
  <1>5. OddsScale * p \in Nat /\ q \in Nat \ {0}
    BY <1>3, OddsAssumption DEF p, q
  <1>6. QED  BY <1>4, <1>5, RoundsToNearest

LEMMA WinningsType ==
    ASSUME NEW stake \in Nat, NEW total \in Nat
    PROVE  Winnings(stake, total) \in Nat
  <1>1. stake * total \in Nat /\ OddsScale \in Nat \ {0}
    BY OddsAssumption
  <1>2. QED  BY <1>1, RoundsToNearest DEF Winnings

LEMMA CashOutType ==
    ASSUME NEW stake \in Nat, NEW total \in Nat, NEW current \in CashOutOdds,
           current >= OddsScale
    PROVE  CashOutValue(stake, total, current) \in Nat
  <1>1. stake * total * HouseFactor \in Nat
    BY OddsAssumption
  <1>2. current * OddsScale \in Nat \ {0}
    BY OddsAssumption
  <1>3. QED  BY <1>1, <1>2, RoundsToNearest DEF CashOutValue

\* Current odds of at least one and a house factor of at most one leave the
\* fraction a cash-out rounds at or below the one a win rounds.
LEMMA CashOutBelow ==
    ASSUME NEW stake \in Nat, NEW total \in Nat, NEW current \in Nat,
           current >= OddsScale
    PROVE  CashOutValue(stake, total, current) <= Winnings(stake, total)
  <1> DEFINE v == stake * total
  <1>1. v \in Nat /\ OddsScale \in Nat \ {0} /\ HouseFactor \in Nat
          /\ HouseFactor <= OddsScale
    BY OddsAssumption
  <1>2. /\ CashOutValue(stake, total, current)
              = RoundHalfEven(v * HouseFactor, current * OddsScale)
        /\ Winnings(stake, total) = RoundHalfEven(v, OddsScale)
    BY DEF CashOutValue, Winnings
  <1> HIDE DEF v
  <1>3. v * HouseFactor \in Nat /\ current * OddsScale \in Nat \ {0}
    BY <1>1
  <1>4. (v * HouseFactor) * OddsScale <= v * (current * OddsScale)
    <2>1. HouseFactor * OddsScale <= current * OddsScale
      <3>1. OddsScale * HouseFactor <= OddsScale * current
        BY <1>1, Cancel
      <3>2. QED  BY <1>1, <3>1
    <2>2. v * (HouseFactor * OddsScale) <= v * (current * OddsScale)
      <3>1. HouseFactor * OddsScale \in Int /\ current * OddsScale \in Int
        BY <1>1
      <3>2. CASE v = 0
        BY <3>1, <3>2
      <3>3. CASE v # 0
        BY <1>1, <2>1, <3>1, <3>3, Cancel
      <3>4. QED  BY <3>2, <3>3
    <2>3. v * (HouseFactor * OddsScale) = (v * HouseFactor) * OddsScale
      BY <1>1
    <2>4. QED  BY <2>2, <2>3
  <1>5. RoundHalfEven(v * HouseFactor, current * OddsScale)
            <= RoundHalfEven(v, OddsScale)
    BY <1>1, <1>3, <1>4, RoundingIsMonotone
  <1>6. QED  BY <1>2, <1>5

LEMMA PlacementLegs ==
    ASSUME NEW r \in Placement
    PROVE  r.legs \in SUBSET Selections /\ r.expected \in OddsValues
  BY DEF Placement

\* A placement makes a complete row, and a closing keeps it one.
LEMMA NewBetType ==
    ASSUME NEW r \in Placement, odds \in [Selections -> OddsValues]
    PROVE  Slipped(NewBet(r))
  <1> DEFINE t == Combined(odds, r.legs)
             a == [s \in r.legs |-> odds[s]]
             z == [s \in r.legs |-> "PENDING"]
  <1>1. t \in Nat
    BY PlacementLegs, CombinedType
  <1>2. a \in [r.legs -> OddsValues] /\ z \in [r.legs -> LegResult]
    BY PlacementLegs DEF LegResult
  <1>3. NewBet(r) = [user |-> r.user,
                     type |-> IF r.op = "place_simple_bet" THEN "SINGLE" ELSE "ACCA",
                     legs |-> r.legs, at |-> a, results |-> z,
                     key |-> r.key, stake |-> r.stake, expected |-> r.expected,
                     total |-> t, status |-> "PLACED", payout |-> 0]
    BY DEF NewBet
  <1> HIDE DEF t, a, z
  <1>4. /\ a \in UNION {[L -> OddsValues] : L \in SUBSET Selections}
        /\ z \in UNION {[L -> LegResult] : L \in SUBSET Selections}
    BY <1>2, PlacementLegs
  <1>5. NewBet(r) \in Bet
    BY <1>1, <1>3, <1>4, PlacementLegs, PlacementFacts DEF Bet
  <1>6. Capped(NewBet(r))
    BY <1>3 DEF Capped
  <1>7. QED  BY <1>2, <1>3, <1>5, <1>6 DEF Slipped

LEMMA SlippedFacts ==
    ASSUME NEW bet, Slipped(bet)
    PROVE  /\ bet.stake \in Nat /\ bet.total \in Nat
           /\ bet.legs \in SUBSET Selections
  <1>1. bet.stake \in Stakes /\ bet.total \in Nat /\ bet.legs \in SUBSET Selections
    BY DEF Slipped, Bet
  <1>2. QED  BY <1>1, StakeAssumption

LEMMA OutcomeType ==
    ASSUME NEW r, NEW bet, Slipped(bet), ClosingRequest(r),
           r.op = "settle_acca_bet" => r.results \in [bet.legs -> LegResult],
           r.op = "cash_out_bet" => r.current \in CashOutOdds /\ r.current >= OddsScale,
           Payable(Outcome(r, bet))
    PROVE  Slipped(Outcome(r, bet)) /\ Outcome(r, bet).legs = bet.legs
  <1>0. /\ bet.stake \in Nat /\ bet.total \in Nat
        /\ bet.legs \in SUBSET Selections
        /\ bet.results \in [bet.legs -> LegResult]
        /\ bet.at \in [bet.legs -> OddsValues]
    BY SlippedFacts DEF Slipped
  <1>1. CASE r.op = "settle_bet"
    <2>1. PICK status : status = r.status /\ status \in {"WON", "LOST", "VOID"}
      BY <1>1 DEF ClosingRequest
    <2>2. PICK payout \in Nat :
              payout = CASE status = "WON"  -> Winnings(bet.stake, bet.total)
                         [] status = "LOST" -> 0
                         [] status = "VOID" -> bet.stake
      BY <1>0, <2>1, WinningsType
    <2>3. Outcome(r, bet) = [bet EXCEPT !.status = status, !.payout = payout]
      BY <1>1, <2>1, <2>2 DEF Outcome, SettledSimple
    <2>4. status \in Terminal
      BY <2>1 DEF Terminal
    <2> DEFINE new == [bet EXCEPT !.status = status, !.payout = payout]
    <2>5. Slipped(new) /\ new.legs = bet.legs
      BY <2>1, <2>4 DEF Slipped, Bet, Capped
    <2> HIDE DEF new
    <2>6. Outcome(r, bet) = new
      BY <2>3 DEF new
    <2>7. QED  BY <2>5, <2>6
  <1>2. CASE r.op = "settle_acca_bet"
    <2>1. PICK results \in [bet.legs -> LegResult] : results = r.results
      BY <1>2
    <2>0. results \in UNION {[L -> LegResult] : L \in SUBSET Selections}
      BY <1>0, <2>1
    <2> DEFINE counted == {s \in bet.legs : results[s] # "VOID"}
    <2>2. PICK total \in Nat : total = Combined(bet.at, counted)
      <3>1. counted \in SUBSET Selections /\ \A s \in counted : bet.at[s] \in OddsValues
        BY <1>0
      <3> HIDE DEF counted
      <3>2. QED  BY <3>1, CombinedType
    <2>3. PICK payout \in Nat : payout = Winnings(bet.stake, total)
      BY <1>0, WinningsType
    <2>4. Outcome(r, bet) = SettledAcca(bet, results)
      BY <1>2, <2>1 DEF Outcome
    <2>5. SettledAcca(bet, results) =
              IF \E s \in bet.legs : results[s] = "LOST"
              THEN [bet EXCEPT !.status = "LOST", !.results = results]
              ELSE [bet EXCEPT !.status = "WON", !.results = results,
                               !.total = total, !.payout = payout]
      BY <2>2, <2>3 DEF SettledAcca
    <2>6. "LOST" \in Terminal /\ "WON" \in Terminal
      BY DEF Terminal
    <2> HIDE DEF counted
    <2>7. CASE \E s \in bet.legs : results[s] = "LOST"
      <3> DEFINE new == [bet EXCEPT !.status = "LOST", !.results = results]
      <3>1. Slipped(new) /\ new.legs = bet.legs
        BY <1>0, <2>0, <2>6 DEF Slipped, Bet, Capped
      <3> HIDE DEF new
      <3>2. Outcome(r, bet) = new
        BY <2>4, <2>5, <2>7 DEF new
      <3>3. QED  BY <3>1, <3>2
    <2>8. CASE ~\E s \in bet.legs : results[s] = "LOST"
      <3> DEFINE new == [bet EXCEPT !.status = "WON", !.results = results,
                                    !.total = total, !.payout = payout]
      <3>1. Slipped(new) /\ new.legs = bet.legs
        BY <1>0, <2>0, <2>6 DEF Slipped, Bet, Capped
      <3> HIDE DEF new
      <3>2. Outcome(r, bet) = new
        BY <2>4, <2>5, <2>8 DEF new
      <3>3. QED  BY <3>1, <3>2
    <2>9. QED  BY <2>7, <2>8
  <1>3. CASE r.op = "cash_out_bet"
    <2>1. PICK payout \in Nat :
              payout = CashOutValue(bet.stake, bet.total, r.current)
      BY <1>0, <1>3, CashOutType
    <2>2. Outcome(r, bet) = [bet EXCEPT !.status = "CASHED_OUT", !.payout = payout]
      BY <1>3, <2>1 DEF Outcome, CashedOutAt
    <2>3. "CASHED_OUT" \in Terminal
      BY DEF Terminal
    <2> DEFINE new == [bet EXCEPT !.status = "CASHED_OUT", !.payout = payout]
    <2>4. /\ new \in Bet /\ new.legs = bet.legs /\ new.at = bet.at
          /\ new.results = bet.results /\ new.payout = payout
          /\ new.status = "CASHED_OUT"
          /\ new.stake = bet.stake /\ new.total = bet.total
      BY <2>3 DEF Slipped, Bet
    <2> HIDE DEF new
    <2>5. Outcome(r, bet) = new
      BY <2>2 DEF new
    <2>6. payout <= Winnings(bet.stake, bet.total)
      BY <1>0, <1>3, <2>1, OddsAssumption, CashOutBelow
    <2>7. payout > 0
      BY <2>4, <2>5 DEF Payable
    <2>8. payout \in 1 .. Winnings(bet.stake, bet.total)
      BY <1>0, <2>1, <2>6, <2>7, WinningsType
    <2>9. Capped(new)
      BY <2>4, <2>8 DEF Capped
    <2>10. QED  BY <1>0, <2>4, <2>5, <2>9 DEF Slipped
  <1>4. QED  BY <1>1, <1>2, <1>3 DEF ClosingRequest

LEMMA RequestTypes ==
    ASSUME NEW r \in Requests
    PROVE  /\ ~IsPlacement(r) /\ r.op = "settle_acca_bet" =>
                  r.results \in [bets[r.bet].legs -> LegResult]
           /\ ~IsPlacement(r) /\ r.op = "cash_out_bet" =>
                  r.current \in CashOutOdds /\ r.current >= OddsScale
  <1> SUFFICES ASSUME ~IsPlacement(r)
               PROVE  /\ r.op = "settle_acca_bet" =>
                             r.results \in [bets[r.bet].legs -> LegResult]
                      /\ r.op = "cash_out_bet" =>
                             r.current \in CashOutOdds /\ r.current >= OddsScale
    OBVIOUS
  <1>1. r \notin Placement
    BY DEF IsPlacement, Placement
  <1>2. PICK i \in DOMAIN bets : r \in SettlementsOf(i) \cup CashOutsOf(i)
    BY <1>1, OfferedAssumption DEF Requests
  <1>3. CASE r \in SettlementsOf(i)
    BY <1>3 DEF SettlementsOf
  <1>4. CASE r \in CashOutsOf(i)
    BY <1>4 DEF CashOutsOf
  <1>5. QED  BY <1>2, <1>3, <1>4

-----------------------------------------------------------------------------
(***************************************************************************)
(* What the commits do to the accounts.                                    *)
(***************************************************************************)
\* A posting moves the accounts of one user by the vector of its entries.
LEMMA PostEffect ==
    ASSUME LedgerTypeOK, NEW u \in Users, NEW e \in Effect, Post(u, e)
    PROVE  /\ LedgerTypeOK'
           /\ \A a \in UserAccounts : balance'[u][a] = balance[u][a] + e[a]
           /\ \A v \in Users \ {u} : balance'[v] = balance[v]
  <1>1. e["HOUSE"] \in Int /\ \A a \in UserAccounts : e[a] \in Int
    BY DEF Effect, Accounts
  <1>2. house' = house + e["HOUSE"]
    BY DEF Post
  <1>3. balance' = [balance EXCEPT ![u] = [a \in UserAccounts |-> @[a] + e[a]]]
    BY DEF Post
  <1>4. balance \in [Users -> [UserAccounts -> Int]] /\ house \in Int
    BY DEF LedgerTypeOK
  <1>5. /\ \A a \in UserAccounts : balance'[u][a] = balance[u][a] + e[a]
        /\ \A v \in Users \ {u} : balance'[v] = balance[v]
    BY <1>3, <1>4
  <1>6. balance' \in [Users -> [UserAccounts -> Int]]
    <2> DEFINE new == [a \in UserAccounts |-> balance[u][a] + e[a]]
    <2>1. new \in [UserAccounts -> Int]
      BY <1>1, <1>4
    <2>2. balance' = [balance EXCEPT ![u] = new]
      BY <1>3
    <2> HIDE DEF new
    <2>3. QED  BY <1>4, <2>1, <2>2
  <1>7. house' \in Int
    BY <1>1, <1>2, <1>4
  <1>8. QED  BY <1>5, <1>6, <1>7 DEF LedgerTypeOK

LEMMA PlacementVector ==
    ASSUME NEW x \in Int, NEW y \in Int
    PROVE  /\ PlacementEntries(x, y) \in Effect
           /\ PlacementEntries(x, y)["USER_WALLET"] = -x
           /\ PlacementEntries(x, y)["BONUS"] = -y
           /\ PlacementEntries(x, y)["PENDING_BETS"] = x + y
           /\ Balanced(PlacementEntries(x, y))
  BY DEF Balanced, PlacementEntries, Debit, Credit, ++, Effect, Accounts, UserAccounts

LEMMA ClosingVector ==
    ASSUME NEW stake \in Int, NEW payout \in Int
    PROVE  /\ WonEntries(stake, payout) \in Effect
           /\ WonEntries(stake, payout)["USER_WALLET"] = payout
           /\ WonEntries(stake, payout)["BONUS"] = 0
           /\ WonEntries(stake, payout)["PENDING_BETS"] = -stake
           /\ Balanced(WonEntries(stake, payout))
  BY DEF Balanced, WonEntries, LostEntries, Debit, Credit, ++, Effect, Accounts, UserAccounts

\* The bonus pays the stake or all that it has, never more.
LEMMA FromBonusFacts ==
    ASSUME LedgerTypeOK, NEW r \in Placement
    PROVE  /\ r.stake \in Nat /\ FromBonus(r) \in Int /\ FromBonus(r) <= r.stake
           /\ r.useBonus => FromBonus(r) <= balance[r.user]["BONUS"]
           /\ ~r.useBonus => FromBonus(r) = 0
           /\ r.useBonus => \/ FromBonus(r) = r.stake
                            \/ FromBonus(r) = balance[r.user]["BONUS"]
  <1>1. r.user \in Users /\ r.stake \in Nat /\ r.useBonus \in BOOLEAN
    BY PlacementFacts, StakeAssumption
  <1>2. balance[r.user]["BONUS"] \in Int
    BY <1>1 DEF LedgerTypeOK, UserAccounts
  <1>3. CASE r.useBonus
    <2> DEFINE n == r.stake
               m == balance[r.user]["BONUS"]
               k == Min({n, m})
    <2>1. FromBonus(r) = k
      BY <1>3 DEF FromBonus
    <2>2. k = IF n <= m THEN n ELSE m
      <3>1. \E x \in {n, m} : \A y \in {n, m} : x <= y
        BY <1>1, <1>2
      <3>2. k \in {n, m} /\ \A y \in {n, m} : k <= y
        BY <3>1 DEF Min
      <3>3. QED  BY <1>1, <1>2, <3>2
    <2> HIDE DEF k
    <2>3. QED  BY <1>1, <1>2, <1>3, <2>1, <2>2
  <1>4. CASE ~r.useBonus
    BY <1>1, <1>4 DEF FromBonus
  <1>5. QED  BY <1>1, <1>3, <1>4

\* A purchase moves the stake into PENDING_BETS, part of it from the bonus.
LEMMA Bought ==
    ASSUME RInv, LedgerTypeOK, NEW w \in Workers, CommitPlacement(w)
    PROVE  LET r == job[w]
               u == r.user
               k == FromBonus(r)
           IN  /\ LedgerTypeOK' /\ r \in Placement /\ Funded(r)
               /\ balance'[u]["USER_WALLET"] = balance[u]["USER_WALLET"] - (r.stake - k)
               /\ balance'[u]["BONUS"] = balance[u]["BONUS"] - k
               /\ balance'[u]["PENDING_BETS"] = balance[u]["PENDING_BETS"] + r.stake
               /\ \A v \in Users \ {u} : balance'[v] = balance[v]
  <1>1. job[w] \in Placement /\ Sketches(draft[w], job[w])
    BY Placed
  <1>2. PICK r \in Placement : r = job[w]
    BY <1>1
  <1>3. PICK u \in Users, n \in Nat, k \in Int :
            u = r.user /\ n = r.stake /\ k = FromBonus(r)
    BY PlacementFacts, FromBonusFacts
  <1>4. Post(u, PlacementEntries(n - k, k)) /\ Funded(r)
    <2>1. EntriesOf(job[w], draft[w]) =
             PlacementEntries(draft[w].stake - FromBonus(r), FromBonus(r))
      BY <1>1, <1>2 DEF EntriesOf, Sketches
    <2>2. UserOf(w) = u /\ draft[w].stake = n
      BY <1>1, <1>2, <1>3 DEF UserOf, Sketches
    <2>3. Post(UserOf(w), EntriesOf(job[w], draft[w])) /\ Funded(job[w])
      BY DEF CommitPlacement
    <2>4. QED  BY <1>2, <1>3, <2>1, <2>2, <2>3
  <1>5. PICK e \in Effect : /\ e = PlacementEntries(n - k, k)
                            /\ e["USER_WALLET"] = -(n - k) /\ e["BONUS"] = -k
                            /\ e["PENDING_BETS"] = (n - k) + k
    <2>1. n - k \in Int
      OBVIOUS
    <2>2. QED  BY <2>1, PlacementVector
  <1>6. /\ LedgerTypeOK'
        /\ \A a \in UserAccounts : balance'[u][a] = balance[u][a] + e[a]
        /\ \A v \in Users \ {u} : balance'[v] = balance[v]
    BY <1>4, <1>5, PostEffect
  <1>7. \A a \in UserAccounts : balance[u][a] \in Int
    BY DEF LedgerTypeOK
  <1>8. /\ balance'[u]["USER_WALLET"] = balance[u]["USER_WALLET"] - (n - k)
        /\ balance'[u]["BONUS"] = balance[u]["BONUS"] - k
        /\ balance'[u]["PENDING_BETS"] = balance[u]["PENDING_BETS"] + n
    BY <1>5, <1>6, <1>7 DEF UserAccounts
  <1>9. QED  BY <1>2, <1>3, <1>4, <1>6, <1>8

\* A closing takes the stake out of PENDING_BETS and pays what is due.
LEMMA Paid ==
    ASSUME RInv, LedgerTypeOK, NEW w \in Workers, CommitOutcome(w),
           draft[w].payout \in Nat
    PROVE  LET u == bets[job[w].bet].user
               n == bets[job[w].bet].stake
           IN  /\ LedgerTypeOK' /\ u \in Users /\ n \in Nat
               /\ balance'[u]["USER_WALLET"] =
                      balance[u]["USER_WALLET"] + draft[w].payout
               /\ balance'[u]["BONUS"] = balance[u]["BONUS"]
               /\ balance'[u]["PENDING_BETS"] = balance[u]["PENDING_BETS"] - n
               /\ \A v \in Users \ {u} : balance'[v] = balance[v]
  <1> DEFINE b == job[w].bet
  <1>1. b \in DOMAIN bets /\ Closes(draft[w], bets[b])
    BY Closed
  <1>2. PICK u \in Users, n \in Nat, p \in Nat :
            u = bets[b].user /\ n = bets[b].stake /\ p = draft[w].payout
    <2>1. RowOK(bets[b])
      BY <1>1 DEF RInv
    <2>2. bets[b].user \in Users /\ bets[b].stake \in Stakes
      BY <2>1 DEF RowOK
    <2>3. QED  BY <2>2, StakeAssumption
  <1>3. Post(u, WonEntries(n, p))
    <2>1. draft[w].stake = n /\ UserOf(w) = u /\ n \in Int
      BY <1>1, <1>2 DEF Closes, UserOf
    <2>2. EntriesOf(job[w], draft[w]) = WonEntries(draft[w].stake, draft[w].payout)
      BY <1>1, <2>1, ClosingEntries DEF Closes
    <2>3. Post(UserOf(w), EntriesOf(job[w], draft[w]))
      BY DEF CommitOutcome
    <2>4. QED  BY <1>2, <2>1, <2>2, <2>3
  <1>4. PICK e \in Effect : /\ e = WonEntries(n, p) /\ e["USER_WALLET"] = p
                            /\ e["BONUS"] = 0 /\ e["PENDING_BETS"] = -n
    BY ClosingVector
  <1>5. /\ LedgerTypeOK'
        /\ \A a \in UserAccounts : balance'[u][a] = balance[u][a] + e[a]
        /\ \A v \in Users \ {u} : balance'[v] = balance[v]
    BY <1>3, <1>4, PostEffect
  <1>6. \A a \in UserAccounts : balance[u][a] \in Int
    BY DEF LedgerTypeOK
  <1>7. /\ balance'[u]["USER_WALLET"] = balance[u]["USER_WALLET"] + p
        /\ balance'[u]["BONUS"] = balance[u]["BONUS"]
        /\ balance'[u]["PENDING_BETS"] = balance[u]["PENDING_BETS"] - n
    BY <1>4, <1>5, <1>6 DEF UserAccounts
  <1>8. QED  BY <1>2, <1>5, <1>7

-----------------------------------------------------------------------------
(***************************************************************************)
(* Every step preserves the types.                                         *)
(***************************************************************************)
LEMMA TInvTypes == RInv /\ TInv => TypeOK
  <1> SUFFICES ASSUME RInv, TInv PROVE TypeOK
    OBVIOUS
  <1>1. bets \in Seq(Bet)
    <2>1. PICK S : bets \in Seq(S)
      BY DEF RInv, IInv, Rows
    <2>2. bets \in [1 .. Len(bets) -> S] /\ Len(bets) \in Nat
      BY <2>1, LenProperties
    <2>3. \A i \in 1 .. Len(bets) : bets[i] \in Bet
      BY <2>2 DEF TInv, Slipped
    <2>4. bets \in [1 .. Len(bets) -> Bet]
      BY <2>2, <2>3
    <2>5. QED  BY <2>2, <2>4
  <1>2. Len(bets) <= MaxBets /\ betLock \in [BetIds -> Workers \cup {NoWorker}]
    BY DEF RInv, IInv, Rows, Local
  <1>3. ASSUME NEW w \in Workers
        PROVE  /\ pc[w] \in {"idle", "legs", "insert", "bet", "decide", "pay", "post"}
               /\ pc[w] \in {"insert", "pay", "post"} => draft[w] \in Bet
    BY DEF TInv, PcTyped, DraftTyped, Slipped
  <1>4. QED  BY <1>1, <1>2, <1>3 DEF TInv, TypeOK, MarketTyped, LocksTyped

LEMMA TInit == Init => TInv
  <1> SUFFICES ASSUME Init PROVE TInv
    OBVIOUS
  <1>1. LedgerTypeOK
    <2>1. Opening \in [Users -> [UserAccounts -> Int]]
      BY OpeningAssumption
    <2>2. QED  BY <2>1 DEF Init, LedgerTypeOK
  <1>2. MarketTyped /\ LocksTyped
    BY DEF Init, MarketTyped, LocksTyped
  <1>3. DOMAIN bets = {}
    BY DEF Init
  <1>4. QED
    BY <1>1, <1>2, <1>3
       DEF Init, TInv, PcTyped, JobTyped, DraftTyped, LegsKept, Closing

\* A worker moves on; the bets that are there keep their legs.
LEMMA WorkerTStep ==
    ASSUME RInv, TInv, NEW w \in Workers, LedgerTypeOK', market' = market,
           LocksTyped', DOMAIN bets \subseteq DOMAIN bets',
           \A i \in DOMAIN bets : bets'[i].legs = bets[i].legs,
           \A i \in DOMAIN bets' : Slipped(bets'[i]),
           \A v \in Workers \ {w} : /\ pc'[v] = pc[v] /\ job'[v] = job[v]
                                    /\ draft'[v] = draft[v],
           PcTyped(w)', JobTyped(w)', DraftTyped(w)', LegsKept(w)'
    PROVE  TInv'
  <1>1. MarketTyped'
    BY DEF TInv, MarketTyped, market
  <1>2. ASSUME NEW v \in Workers \ {w}
        PROVE  PcTyped(v)' /\ JobTyped(v)' /\ DraftTyped(v)' /\ LegsKept(v)'
    <2>1. pc'[v] = pc[v] /\ job'[v] = job[v] /\ draft'[v] = draft[v]
      OBVIOUS
    <2>2. PcTyped(v) /\ JobTyped(v) /\ DraftTyped(v) /\ LegsKept(v)
      BY DEF TInv
    <2>3. pc[v] # "idle" /\ ~IsPlacement(job[v]) => job[v].bet \in DOMAIN bets
      BY <2>2 DEF RInv, IInv, JobInv, PcTyped, Closing
    <2>4. JobTyped(v)'
      BY <2>1, <2>2, <2>3 DEF JobTyped, IsPlacement
    <2>5. LegsKept(v)'
      BY <2>1, <2>2, <2>3 DEF LegsKept, Closing, IsPlacement
    <2>6. QED  BY <2>1, <2>2, <2>4, <2>5 DEF PcTyped, DraftTyped
  <1>3. QED  BY <1>1, <1>2 DEF TInv

LEMMA FinishTypes ==
    ASSUME RInv, TInv, NEW w \in Workers, Finish(w)
    PROVE  /\ LocksTyped'
           /\ PcTyped(w)' /\ JobTyped(w)' /\ DraftTyped(w)' /\ LegsKept(w)'
           /\ \A v \in Workers \ {w} : /\ pc'[v] = pc[v] /\ job'[v] = job[v]
                                       /\ draft'[v] = draft[v]
  <1>1. /\ pc'[w] = "idle"
        /\ \A v \in Workers \ {w} : /\ pc'[v] = pc[v] /\ job'[v] = job[v]
                                    /\ draft'[v] = draft[v]
    BY FinishFacts DEF RInv, IInv
  <1>2. LocksTyped'
    BY DEF TInv, LocksTyped, Finish, Free
  <1>3. QED
    BY <1>1, <1>2 DEF PcTyped, JobTyped, DraftTyped, LegsKept, Closing

LEMMA CommitPlacementTStep ==
    ASSUME RInv, TInv, NEW w \in Workers, CommitPlacement(w)
    PROVE  TInv'
  <1>1. Finish(w) /\ market' = market /\ pc[w] = "post"
    BY DEF CommitPlacement
  <1>2. LedgerTypeOK'
    BY Bought DEF TInv
  <1>3. /\ DOMAIN bets' = DOMAIN bets \cup {Len(bets) + 1}
        /\ \A i \in DOMAIN bets : bets'[i] = bets[i]
        /\ bets'[Len(bets) + 1] = draft[w]
    BY Placed
  <1>4. Slipped(draft[w])
    BY <1>1 DEF TInv, DraftTyped
  <1>5. \A i \in DOMAIN bets' : Slipped(bets'[i])
    BY <1>3, <1>4 DEF TInv
  <1>6. QED  BY <1>1, <1>2, <1>3, <1>5, FinishTypes, WorkerTStep

LEMMA CommitOutcomeTStep ==
    ASSUME RInv, TInv, NEW w \in Workers, CommitOutcome(w)
    PROVE  TInv'
  <1> DEFINE b == job[w].bet
  <1>1. Finish(w) /\ market' = market /\ pc[w] = "post" /\ Closing(w)
    BY DEF CommitOutcome, Closing
  <1>2. Slipped(draft[w]) /\ draft[w].legs = bets[b].legs
    BY <1>1 DEF TInv, DraftTyped, LegsKept
  <1>3. LedgerTypeOK'
    <2>1. draft[w].payout \in Nat
      BY <1>2 DEF Slipped, Bet
    <2>2. QED  BY <2>1, Paid DEF TInv
  <1>4. /\ DOMAIN bets' = DOMAIN bets /\ bets'[b] = draft[w]
        /\ \A i \in DOMAIN bets : i # b => bets'[i] = bets[i]
    BY Closed
  <1> HIDE DEF b
  <1>5. /\ \A i \in DOMAIN bets' : Slipped(bets'[i])
        /\ \A i \in DOMAIN bets : bets'[i].legs = bets[i].legs
    BY <1>2, <1>4 DEF TInv
  <1>6. QED  BY <1>1, <1>3, <1>4, <1>5, FinishTypes, WorkerTStep

LEMMA NextTInv == RInv /\ TInv /\ [Next]_vars => TInv'
  <1> SUFFICES ASSUME RInv, TInv, [Next]_vars PROVE TInv'
    OBVIOUS
  <1>0. Rows /\ Local /\ JobInv
    BY DEF RInv, IInv
  <1>1. ASSUME UNCHANGED <<balance, house, bets, session>>, MarketTyped'
        PROVE  TInv'
    BY <1>1 DEF TInv, LedgerTypeOK, LocksTyped, PcTyped, JobTyped, DraftTyped,
                LegsKept, Closing, IsPlacement, session, locks
  <1> DEFINE Others(w) ==
               \A v \in Workers \ {w} : /\ pc'[v] = pc[v] /\ job'[v] = job[v]
                                        /\ draft'[v] = draft[v]
  <1>2. ASSUME NEW w \in Workers, UNCHANGED <<balance, house, market, bets>>,
               LocksTyped', Others(w),
               PcTyped(w)', JobTyped(w)', DraftTyped(w)', LegsKept(w)'
        PROVE  TInv'
    <2>1. LedgerTypeOK' /\ \A i \in DOMAIN bets' : Slipped(bets'[i])
      BY <1>2 DEF TInv, LedgerTypeOK
    <2>2. QED  BY <1>2, <2>1, WorkerTStep
  <1>3. ASSUME NEW w \in Workers, Receive(w) PROVE TInv'
    <2>1. PICK r \in Requests :
            /\ job' = [job EXCEPT ![w] = r]
            /\ pc' = [pc EXCEPT ![w] = IF IsPlacement(r) THEN "legs" ELSE "bet"]
      BY <1>3 DEF Receive
    <2>2. /\ job'[w] = r /\ pc'[w] = (IF IsPlacement(r) THEN "legs" ELSE "bet")
          /\ UNCHANGED <<balance, house, market, bets, locks>> /\ Others(w)
      BY <1>0, <1>3, <2>1 DEF Receive, Local
    <2>3. PcTyped(w)' /\ DraftTyped(w)' /\ LegsKept(w)'
      BY <2>2 DEF PcTyped, DraftTyped, LegsKept, Closing
    <2>4. JobTyped(w)'
      BY <2>2, RequestTypes DEF JobTyped, IsPlacement
    <2>5. LocksTyped'
      BY <2>2 DEF TInv, LocksTyped, locks
    <2>6. QED  BY <1>2, <2>2, <2>3, <2>4, <2>5
  <1>4. ASSUME NEW w \in Workers, LockLeg(w) PROVE TInv'
    <2>1. PICK s : /\ s = Min(job[w].legs \ Holds(w))
                   /\ selectionLock' = [selectionLock EXCEPT ![s] = w]
      BY <1>4 DEF LockLeg
    <2>2. LocksTyped'
      BY <1>4, <2>1 DEF TInv, LocksTyped, LockLeg
    <2>3. PcTyped(w)' /\ JobTyped(w)' /\ DraftTyped(w)' /\ LegsKept(w)'
      BY <1>4 DEF TInv, LockLeg, PcTyped, JobTyped, DraftTyped, LegsKept,
                  Closing, IsPlacement
    <2>4. QED  BY <1>2, <1>4, <2>2, <2>3 DEF LockLeg
  <1>5. ASSUME NEW w \in Workers, CheckLegs(w) PROVE TInv'
    <2>1. /\ pc'[w] = "insert" /\ draft'[w] = NewBet(job[w]) /\ job' = job
          /\ Others(w) /\ UNCHANGED <<balance, house, market, bets, locks>>
      BY <1>0, <1>5 DEF CheckLegs, Local
    <2>2. job[w] \in Placement /\ IsPlacement(job[w])
      BY <1>5 DEF CheckLegs, RInv, IInv, JobInv, JobOK
    <2>3. Slipped(NewBet(job[w]))
      BY <2>2, NewBetType DEF TInv, MarketTyped
    <2>4. PcTyped(w)' /\ JobTyped(w)' /\ DraftTyped(w)' /\ LegsKept(w)'
      <3>1. DraftTyped(w)'
        BY <2>1, <2>3 DEF DraftTyped, Slipped
      <3>2. QED
        BY <2>1, <2>2, <3>1 DEF PcTyped, JobTyped, LegsKept, Closing, IsPlacement
    <2>5. LocksTyped'
      BY <2>1 DEF TInv, LocksTyped, locks
    <2>6. QED  BY <1>2, <2>1, <2>4, <2>5
  <1>6. ASSUME NEW w \in Workers, InsertBet(w) PROVE TInv'
    <2>1. /\ pc[w] = "insert" /\ pc'[w] = "pay" /\ job' = job /\ draft' = draft
          /\ Others(w) /\ UNCHANGED <<balance, house, market, bets, locks>>
      BY <1>0, <1>6 DEF InsertBet, Local
    <2>2. IsPlacement(job[w])
      BY <1>0, <2>1 DEF JobInv
    <2>3. PcTyped(w)' /\ JobTyped(w)' /\ DraftTyped(w)' /\ LegsKept(w)'
      BY <2>1, <2>2 DEF TInv, PcTyped, JobTyped, DraftTyped, LegsKept, Closing,
                        IsPlacement
    <2>4. LocksTyped'
      BY <2>1 DEF TInv, LocksTyped, locks
    <2>5. QED  BY <1>2, <2>1, <2>3, <2>4
  <1>7. ASSUME NEW w \in Workers, LockBet(w) PROVE TInv'
    <2>1. /\ pc[w] = "bet" /\ pc'[w] = "decide" /\ job' = job /\ draft' = draft
          /\ Others(w) /\ UNCHANGED <<balance, house, market, bets>>
          /\ UNCHANGED <<selectionLock, userLock>>
      BY <1>0, <1>7 DEF LockBet, Local
    <2>2. PcTyped(w)' /\ JobTyped(w)' /\ DraftTyped(w)' /\ LegsKept(w)'
      BY <2>1 DEF TInv, PcTyped, JobTyped, DraftTyped, LegsKept, Closing,
                  IsPlacement
    <2>3. LocksTyped'
      BY <2>1 DEF TInv, LocksTyped
    <2>4. QED  BY <1>2, <2>1, <2>2, <2>3
  <1>8. ASSUME NEW w \in Workers, Decide(w) PROVE TInv'
    <2> DEFINE b == job[w].bet
    <2>1. /\ pc[w] = "decide" /\ pc'[w] = "pay" /\ job' = job
          /\ draft'[w] = Outcome(job[w], bets[b])
          /\ Others(w) /\ UNCHANGED <<balance, house, market, bets, locks>>
      BY <1>0, <1>8 DEF Decide, Local
    <2>2. ClosingRequest(job[w]) /\ ~IsPlacement(job[w])
      BY <2>1 DEF RInv, JobOK
    <2>3. b \in DOMAIN bets
      BY <1>0, <2>1, <2>2 DEF JobInv, Closing
    <2>4. Slipped(bets[b]) /\ JobTyped(w)
      BY <2>3 DEF TInv
    <2>5. /\ Slipped(Outcome(job[w], bets[b]))
          /\ Outcome(job[w], bets[b]).legs = bets[b].legs
      <3>1. Payable(Outcome(job[w], bets[b]))
        BY <1>8 DEF Decide
      <3>2. QED  BY <2>1, <2>2, <2>4, <3>1, OutcomeType DEF JobTyped
    <2>6. DraftTyped(w)'
      BY <2>1, <2>5 DEF DraftTyped, Slipped
    <2>7. PcTyped(w)' /\ JobTyped(w)' /\ LegsKept(w)'
      BY <2>1, <2>4, <2>5 DEF PcTyped, JobTyped, LegsKept, Closing, IsPlacement
    <2>8. LocksTyped'
      BY <2>1 DEF TInv, LocksTyped, locks
    <2>9. QED  BY <1>2, <2>1, <2>6, <2>7, <2>8
  <1>9. ASSUME NEW w \in Workers, LockUser(w) PROVE TInv'
    <2>1. /\ pc[w] = "pay" /\ pc'[w] = "post" /\ job' = job /\ draft' = draft
          /\ Others(w) /\ UNCHANGED <<balance, house, market, bets>>
          /\ userLock' = [userLock EXCEPT ![UserOf(w)] = w]
          /\ selectionLock' = selectionLock
      BY <1>0, <1>9 DEF LockUser, Local
    <2>2. PcTyped(w)' /\ JobTyped(w)' /\ DraftTyped(w)' /\ LegsKept(w)'
      BY <2>1 DEF TInv, PcTyped, JobTyped, DraftTyped, LegsKept, Closing,
                  IsPlacement
    <2>3. LocksTyped'
      BY <2>1 DEF TInv, LocksTyped
    <2>4. QED  BY <1>2, <2>1, <2>2, <2>3
  <1>10. ASSUME NEW w \in Workers, CommitPlacement(w) PROVE TInv'
    BY <1>10, CommitPlacementTStep
  <1>11. ASSUME NEW w \in Workers, CommitOutcome(w) PROVE TInv'
    BY <1>11, CommitOutcomeTStep
  <1>12. ASSUME NEW w \in Workers, Refuse(w) \/ Fail(w) PROVE TInv'
    <2>1. Finish(w) /\ UNCHANGED <<balance, house, market, bets>>
      BY <1>12 DEF Refuse, Fail
    <2>2. QED  BY <1>2, <2>1, FinishTypes
  <1>13. ASSUME NEW s \in Selections, Reprice(s) \/ OpenOrClose(s) \/ ClockPasses(s)
         PROVE  TInv'
    <2>1. MarketTyped'
      BY <1>13 DEF TInv, MarketTyped, Reprice, OpenOrClose, ClockPasses
    <2>2. UNCHANGED <<balance, house, bets, session>>
      BY <1>13 DEF Reprice, OpenOrClose, ClockPasses
    <2>3. QED  BY <1>1, <2>1, <2>2
  <1>14. ASSUME NEW u \in Users, VerifyEmail(u) PROVE TInv'
    <2>1. MarketTyped' /\ UNCHANGED <<balance, house, bets, session>>
      BY <1>14 DEF TInv, MarketTyped, VerifyEmail
    <2>2. QED  BY <1>1, <2>1
  <1>15. CASE UNCHANGED vars
    <2>1. MarketTyped' /\ UNCHANGED <<balance, house, bets, session>>
      BY <1>15 DEF TInv, MarketTyped, vars, market
    <2>2. QED  BY <1>1, <2>1
  <1>16. QED
    BY <1>3, <1>4, <1>5, <1>6, <1>7, <1>8, <1>9, <1>10, <1>11, <1>12, <1>13,
       <1>14, <1>15 DEF Next, Work, Acquire

LEMMA Typed == Spec => []TInv
  BY TInit, NextTInv, Carried, PTL DEF Spec

\* Every row, draft, balance and lock keeps its type.  A total and a payout
\* are natural numbers, whatever the odds and their rounding.
THEOREM WellTyped == Spec => []TypeOK
  BY Typed, Carried, TInvTypes, PTL

\* A cash-out pays at least the smallest amount and at most the win, for
\* every stake, all odds, and every house factor up to one: rounding half to
\* even keeps the order of the two amounts.
THEOREM CashOutsStayBelow == Spec => []CashOutBelowWin
  <1>1. TInv => CashOutBelowWin
    BY DEF TInv, Slipped, Capped, CashOutBelowWin
  <1>2. QED  BY <1>1, Typed, PTL

-----------------------------------------------------------------------------
(***************************************************************************)
(* Money.  The sums over the rows of a user change with the one row that a *)
(* commit adds or replaces, as the balances of the user do.                *)
(***************************************************************************)
\* What the rows say of the money, and what a balance says of the rows.
StakeOf == [i \in DOMAIN bets |-> bets[i].stake]

NetOf == [i \in DOMAIN bets |-> bets[i].payout - bets[i].stake]

OpenOf(u) == {i \in BetsOf(u) : bets[i].status = "PLACED"}

Own(u) == balance[u]["USER_WALLET"] + balance[u]["BONUS"]

Held(u) ==
    balance[u]["PENDING_BETS"] =
        Opening[u]["PENDING_BETS"] + SumFunctionOnSet(StakeOf, OpenOf(u))

Settled(u) ==
    Own(u) = Opening[u]["USER_WALLET"] + Opening[u]["BONUS"]
                 + SumFunctionOnSet(NetOf, BetsOf(u))

Solvent(u) == \A a \in UserAccounts : balance[u][a] >= 0

MInv == \A u \in Users : Held(u) /\ Settled(u) /\ Solvent(u)

LEMMA OpeningFacts ==
    ASSUME NEW u \in Users
    PROVE  \A a \in UserAccounts : Opening[u][a] \in Nat
  BY OpeningAssumption

LEMMA BalanceFacts ==
    ASSUME LedgerTypeOK, NEW u \in Users
    PROVE  /\ balance[u]["USER_WALLET"] \in Int
           /\ balance[u]["BONUS"] \in Int
           /\ balance[u]["PENDING_BETS"] \in Int
  BY DEF LedgerTypeOK, UserAccounts

LEMMA RowFacts ==
    ASSUME RInv, TInv
    PROVE  \A i \in DOMAIN bets : /\ StakeOf[i] \in Nat /\ NetOf[i] \in Int
                                  /\ bets[i].payout \in Nat
  <1> SUFFICES ASSUME NEW i \in DOMAIN bets
               PROVE  bets[i].stake \in Nat /\ bets[i].payout \in Nat
    BY DEF StakeOf, NetOf
  <1>1. Slipped(bets[i])
    BY DEF TInv
  <1>2. bets[i].payout \in Nat
    BY <1>1 DEF Slipped, Bet
  <1>3. QED  BY <1>1, <1>2, SlippedFacts

LEMMA FiniteRows ==
    ASSUME Rows, NEW u
    PROVE  /\ IsFiniteSet(BetsOf(u)) /\ IsFiniteSet(OpenOf(u))
           /\ BetsOf(u) \subseteq DOMAIN bets /\ OpenOf(u) \subseteq BetsOf(u)
  <1>1. IsFiniteSet(DOMAIN bets)
    BY RowIds, FS_Interval
  <1>2. BetsOf(u) \subseteq DOMAIN bets /\ OpenOf(u) \subseteq BetsOf(u)
    BY DEF BetsOf, OpenOf
  <1>3. QED  BY <1>1, <1>2, FS_Subset

LEMMA MInit == Init => MInv
  <1> SUFFICES ASSUME Init, NEW u \in Users
               PROVE  Held(u) /\ Settled(u) /\ Solvent(u)
    BY DEF MInv
  <1>1. BetsOf(u) = {} /\ OpenOf(u) = {} /\ balance = Opening
    BY DEF Init, BetsOf, OpenOf
  <1>2. SumFunctionOnSet(StakeOf, {}) = 0 /\ SumFunctionOnSet(NetOf, {}) = 0
    BY SumEmpty
  <1>3. /\ Opening[u]["USER_WALLET"] \in Nat /\ Opening[u]["BONUS"] \in Nat
        /\ Opening[u]["PENDING_BETS"] \in Nat
    BY OpeningFacts DEF UserAccounts
  <1>4. Held(u) /\ Settled(u)
    BY <1>1, <1>2, <1>3 DEF Held, Settled, Own
  <1>5. QED  BY <1>1, <1>3, <1>4 DEF Solvent, UserAccounts

\* Nothing changes for a user whose rows and balances are left alone.
LEMMA Untouched ==
    ASSUME RInv, TInv, NEW v \in Users,
           Held(v), Settled(v), Solvent(v), balance'[v] = balance[v],
           BetsOf(v)' = BetsOf(v), OpenOf(v)' = OpenOf(v),
           \A i \in BetsOf(v) : StakeOf'[i] = StakeOf[i] /\ NetOf'[i] = NetOf[i]
    PROVE  Held(v)' /\ Settled(v)' /\ Solvent(v)'
  <1>1. /\ IsFiniteSet(BetsOf(v)) /\ IsFiniteSet(OpenOf(v))
        /\ BetsOf(v) \subseteq DOMAIN bets /\ OpenOf(v) \subseteq BetsOf(v)
    BY FiniteRows DEF RInv, IInv
  <1>2. SumFunctionOnSet(StakeOf', OpenOf(v)) = SumFunctionOnSet(StakeOf, OpenOf(v))
    <2>1. \A i \in OpenOf(v) : StakeOf[i] \in Int /\ StakeOf[i] = StakeOf'[i]
      BY <1>1, RowFacts
    <2>2. QED  BY <1>1, <2>1, SumSame
  <1>3. SumFunctionOnSet(NetOf', BetsOf(v)) = SumFunctionOnSet(NetOf, BetsOf(v))
    <2>1. \A i \in BetsOf(v) : NetOf[i] \in Int /\ NetOf[i] = NetOf'[i]
      BY <1>1, RowFacts
    <2>2. QED  BY <1>1, <2>1, SumSame
  <1>4. Held(v)'
    BY <1>2 DEF Held
  <1>5. Settled(v)'
    BY <1>3 DEF Settled, Own
  <1>6. QED  BY <1>4, <1>5 DEF Solvent

LEMMA CommitPlacementMStep ==
    ASSUME RInv, TInv, MInv, NEW w \in Workers, CommitPlacement(w)
    PROVE  MInv'
  <1>1. PICK r \in Placement : r = job[w]
    BY Placed
  <1>2. PICK u \in Users, n \in Nat, k \in Int :
            /\ u = r.user /\ n = r.stake /\ k = FromBonus(r) /\ k <= n
            /\ r.useBonus => k <= balance[u]["BONUS"]
            /\ ~r.useBonus => k = 0
            /\ r.useBonus => k = n \/ k = balance[u]["BONUS"]
    BY PlacementFacts, FromBonusFacts DEF TInv
  <1>3. /\ LedgerTypeOK' /\ Funded(r)
        /\ balance'[u]["USER_WALLET"] = balance[u]["USER_WALLET"] - (n - k)
        /\ balance'[u]["BONUS"] = balance[u]["BONUS"] - k
        /\ balance'[u]["PENDING_BETS"] = balance[u]["PENDING_BETS"] + n
        /\ \A v \in Users \ {u} : balance'[v] = balance[v]
    BY <1>1, <1>2, Bought DEF TInv
  <1>4. PICK new \in Nat :
            /\ new = Len(bets) + 1 /\ new \notin DOMAIN bets
            /\ DOMAIN bets' = DOMAIN bets \cup {new}
            /\ \A i \in DOMAIN bets : bets'[i] = bets[i]
            /\ bets'[new] = draft[w] /\ Sketches(draft[w], r)
    <2>1. Len(bets) + 1 \in Nat
      BY RowIds DEF RInv, IInv
    <2>2. QED  BY <1>1, <2>1, Placed
  <1>5. bets'[new].user = u /\ bets'[new].stake = n /\ bets'[new].status = "PLACED"
          /\ bets'[new].payout = 0
    BY <1>2, <1>4 DEF Sketches
  <1>6. /\ \A i \in DOMAIN bets : StakeOf'[i] = StakeOf[i] /\ NetOf'[i] = NetOf[i]
        /\ StakeOf'[new] = n /\ NetOf'[new] = -n
    <2>1. \A i \in DOMAIN bets : StakeOf'[i] = StakeOf[i] /\ NetOf'[i] = NetOf[i]
      BY <1>4 DEF StakeOf, NetOf
    <2>2. StakeOf'[new] = n /\ NetOf'[new] = 0 - n
      BY <1>4, <1>5 DEF StakeOf, NetOf
    <2>3. QED  BY <2>1, <2>2
  <1>7. ASSUME NEW v \in Users \ {u} PROVE Held(v)' /\ Settled(v)' /\ Solvent(v)'
    <2>1. BetsOf(v)' = BetsOf(v)
      BY <1>4, <1>5 DEF BetsOf
    <2>2. OpenOf(v)' = OpenOf(v)
      BY <1>4, <2>1 DEF OpenOf, BetsOf
    <2>3. balance'[v] = balance[v] /\ Held(v) /\ Settled(v) /\ Solvent(v)
      BY <1>3 DEF MInv
    <2>4. \A i \in BetsOf(v) : StakeOf'[i] = StakeOf[i] /\ NetOf'[i] = NetOf[i]
      BY <1>6 DEF BetsOf
    <2>5. QED  BY <2>1, <2>2, <2>3, <2>4, Untouched
  <1>8. /\ IsFiniteSet(BetsOf(u)) /\ IsFiniteSet(OpenOf(u))
        /\ BetsOf(u) \subseteq DOMAIN bets /\ OpenOf(u) \subseteq BetsOf(u)
    BY FiniteRows DEF RInv, IInv
  <1>9. BetsOf(u)' = BetsOf(u) \cup {new}
    BY <1>4, <1>5 DEF BetsOf
  <1>10. OpenOf(u)' = OpenOf(u) \cup {new}
    BY <1>4, <1>5, <1>8, <1>9 DEF OpenOf
  <1>11. new \notin BetsOf(u) /\ new \notin OpenOf(u)
    BY <1>4, <1>8
  <1>12. /\ balance[u]["USER_WALLET"] \in Int /\ balance[u]["BONUS"] \in Int
         /\ balance[u]["PENDING_BETS"] \in Int
    BY BalanceFacts DEF TInv
  <1>13. /\ Opening[u]["USER_WALLET"] \in Nat /\ Opening[u]["BONUS"] \in Nat
         /\ Opening[u]["PENDING_BETS"] \in Nat
    BY OpeningFacts DEF UserAccounts
  <1>14. Held(u)'
    <2>1. \A i \in OpenOf(u) : StakeOf[i] \in Int /\ StakeOf'[i] = StakeOf[i]
      BY <1>6, <1>8, RowFacts
    <2>2. /\ SumFunctionOnSet(StakeOf', OpenOf(u) \cup {new})
                 = SumFunctionOnSet(StakeOf, OpenOf(u)) + n
          /\ SumFunctionOnSet(StakeOf, OpenOf(u)) \in Int
      <3>1. StakeOf'[new] \in Int
        BY <1>6
      <3>2. SumFunctionOnSet(StakeOf', OpenOf(u) \cup {new})
                = SumFunctionOnSet(StakeOf, OpenOf(u)) + StakeOf'[new]
        <4>1. IsFiniteSet(OpenOf(u)) /\ new \notin OpenOf(u)
          BY <1>8, <1>11
        <4>2. QED  BY <2>1, <3>1, <4>1, SumAdd
      <3>3. SumFunctionOnSet(StakeOf, OpenOf(u)) \in Int
        BY <1>8, <2>1, SumInt
      <3>4. QED  BY <1>6, <3>2, <3>3
    <2>3. balance[u]["PENDING_BETS"] = Opening[u]["PENDING_BETS"]
                                         + SumFunctionOnSet(StakeOf, OpenOf(u))
      BY DEF MInv, Held
    <2> DEFINE s == SumFunctionOnSet(StakeOf, OpenOf(u))
    <2> HIDE DEF s
    <2>4. balance'[u]["PENDING_BETS"] = Opening[u]["PENDING_BETS"] + (s + n)
      BY <1>3, <1>12, <1>13, <2>2, <2>3 DEF s
    <2>5. QED  BY <1>10, <2>2, <2>4 DEF Held, s
  <1>15. Settled(u)'
    <2>1. \A i \in BetsOf(u) : NetOf[i] \in Int /\ NetOf'[i] = NetOf[i]
      BY <1>6, <1>8, RowFacts
    <2>2. /\ SumFunctionOnSet(NetOf', BetsOf(u) \cup {new})
                 = SumFunctionOnSet(NetOf, BetsOf(u)) + (-n)
          /\ SumFunctionOnSet(NetOf, BetsOf(u)) \in Int
      <3>1. NetOf'[new] \in Int
        BY <1>6
      <3>2. SumFunctionOnSet(NetOf', BetsOf(u) \cup {new})
                = SumFunctionOnSet(NetOf, BetsOf(u)) + NetOf'[new]
        BY <1>8, <1>11, <2>1, <3>1, SumAdd
      <3>3. SumFunctionOnSet(NetOf, BetsOf(u)) \in Int
        BY <1>8, <2>1, SumInt
      <3>4. QED  BY <1>6, <3>2, <3>3
    <2> DEFINE s == SumFunctionOnSet(NetOf, BetsOf(u))
    <2>3. balance[u]["USER_WALLET"] + balance[u]["BONUS"] =
             Opening[u]["USER_WALLET"] + Opening[u]["BONUS"] + s
      BY DEF MInv, Settled, Own
    <2>4. s \in Int
      BY <2>2
    <2> HIDE DEF s
    <2>5. balance'[u]["USER_WALLET"] + balance'[u]["BONUS"] =
             Opening[u]["USER_WALLET"] + Opening[u]["BONUS"] + (s + (-n))
      <3>1. balance'[u]["USER_WALLET"] + balance'[u]["BONUS"] =
               (balance[u]["USER_WALLET"] + balance[u]["BONUS"]) - n
        BY <1>3, <1>12
      <3>2. Opening[u]["USER_WALLET"] + Opening[u]["BONUS"] \in Int
        BY <1>13
      <3>3. \A x \in Int : (x + s) - n = x + (s + (-n))
        BY <2>4
      <3>4. QED  BY <2>3, <3>1, <3>2, <3>3
    <2>6. QED  BY <1>9, <2>2, <2>5 DEF Settled, Own, s
  <1>16. Solvent(u)'
    <2>1. /\ balance[u]["USER_WALLET"] >= 0 /\ balance[u]["BONUS"] >= 0
          /\ balance[u]["PENDING_BETS"] >= 0
      BY DEF MInv, Solvent, UserAccounts
    <2>2. n - k <= balance[u]["USER_WALLET"] /\ k <= balance[u]["BONUS"]
      <3>1. r.useBonus \in BOOLEAN
        BY PlacementFacts
      <3>2. CASE r.useBonus
        <4>1. n <= balance[u]["USER_WALLET"] + balance[u]["BONUS"]
          BY <1>2, <1>3, <3>2 DEF Funded
        <4>2. QED  BY <1>2, <1>12, <2>1, <3>2, <4>1
      <3>3. CASE ~r.useBonus
        <4>1. n <= balance[u]["USER_WALLET"] + 0
          BY <1>2, <1>3, <3>3 DEF Funded
        <4>2. QED  BY <1>2, <1>12, <2>1, <3>3, <4>1
      <3>4. QED  BY <3>2, <3>3
    <2>3. /\ balance'[u]["USER_WALLET"] >= 0 /\ balance'[u]["BONUS"] >= 0
          /\ balance'[u]["PENDING_BETS"] >= 0
      BY <1>2, <1>3, <1>12, <2>1, <2>2
    <2>4. QED  BY <2>3 DEF Solvent, UserAccounts
  <1>17. QED  BY <1>7, <1>14, <1>15, <1>16 DEF MInv

LEMMA CommitOutcomeMStep ==
    ASSUME RInv, TInv, MInv, NEW w \in Workers, CommitOutcome(w)
    PROVE  MInv'
  <1>1. PICK b \in DOMAIN bets :
            /\ b = job[w].bet /\ bets[b].status = "PLACED"
            /\ Closes(draft[w], bets[b])
            /\ DOMAIN bets' = DOMAIN bets /\ bets'[b] = draft[w]
            /\ \A i \in DOMAIN bets : i # b => bets'[i] = bets[i]
    BY Closed
  <1>2. draft[w].payout \in Nat
    <2>1. Slipped(draft[w])
      BY DEF TInv, DraftTyped, CommitOutcome
    <2>2. QED  BY <2>1 DEF Slipped, Bet
  <1>3. PICK u \in Users, n \in Nat, p \in Nat :
            u = bets[b].user /\ n = bets[b].stake /\ p = draft[w].payout
    BY <1>1, <1>2, Paid DEF TInv
  <1>4. /\ LedgerTypeOK'
        /\ balance'[u]["USER_WALLET"] = balance[u]["USER_WALLET"] + p
        /\ balance'[u]["BONUS"] = balance[u]["BONUS"]
        /\ balance'[u]["PENDING_BETS"] = balance[u]["PENDING_BETS"] - n
        /\ \A v \in Users \ {u} : balance'[v] = balance[v]
    BY <1>1, <1>2, <1>3, Paid DEF TInv
  <1>5. /\ bets'[b].user = u /\ bets'[b].stake = n /\ bets'[b].payout = p
        /\ bets'[b].status # "PLACED" /\ bets[b].payout = 0
    <2>1. bets[b].payout = 0
      BY <1>1 DEF RInv, RowOK
    <2>2. QED  BY <1>1, <1>3, <2>1 DEF Closes, Terminal
  <1>6. /\ \A i \in DOMAIN bets : StakeOf'[i] = StakeOf[i]
        /\ \A i \in DOMAIN bets : i # b => NetOf'[i] = NetOf[i]
        /\ StakeOf[b] = n /\ NetOf[b] = 0 - n /\ NetOf'[b] = p - n
    BY <1>1, <1>3, <1>5 DEF StakeOf, NetOf
  <1>7. \A v \in Users : BetsOf(v)' = BetsOf(v)
    BY <1>1, <1>3, <1>5 DEF BetsOf
  <1>8. b \in BetsOf(u) /\ b \in OpenOf(u) /\ OpenOf(u)' = OpenOf(u) \ {b}
    <2>1. b \in BetsOf(u) /\ b \in OpenOf(u)
      BY <1>1, <1>3 DEF BetsOf, OpenOf
    <2>2. OpenOf(u)' = {i \in BetsOf(u) : bets'[i].status = "PLACED"}
      BY <1>7 DEF OpenOf
    <2>3. QED  BY <1>1, <1>5, <2>1, <2>2 DEF OpenOf, BetsOf
  <1>9. ASSUME NEW v \in Users \ {u} PROVE Held(v)' /\ Settled(v)' /\ Solvent(v)'
    <2>1. BetsOf(v)' = BetsOf(v) /\ b \notin BetsOf(v)
      BY <1>3, <1>7 DEF BetsOf
    <2>2. OpenOf(v)' = OpenOf(v)
      BY <1>1, <2>1 DEF OpenOf, BetsOf
    <2>3. balance'[v] = balance[v] /\ Held(v) /\ Settled(v) /\ Solvent(v)
      BY <1>4 DEF MInv
    <2>4. \A i \in BetsOf(v) : StakeOf'[i] = StakeOf[i] /\ NetOf'[i] = NetOf[i]
      BY <1>6, <2>1 DEF BetsOf
    <2>5. QED  BY <2>1, <2>2, <2>3, <2>4, Untouched
  <1>10. /\ IsFiniteSet(BetsOf(u)) /\ IsFiniteSet(OpenOf(u))
         /\ BetsOf(u) \subseteq DOMAIN bets /\ OpenOf(u) \subseteq BetsOf(u)
    BY FiniteRows DEF RInv, IInv
  <1>11. /\ balance[u]["USER_WALLET"] \in Int /\ balance[u]["BONUS"] \in Int
         /\ balance[u]["PENDING_BETS"] \in Int
    BY BalanceFacts DEF TInv
  <1>12. /\ Opening[u]["USER_WALLET"] \in Nat /\ Opening[u]["BONUS"] \in Nat
         /\ Opening[u]["PENDING_BETS"] \in Nat
    BY OpeningFacts DEF UserAccounts
  <1> DEFINE before == SumFunctionOnSet(StakeOf, OpenOf(u))
             after == SumFunctionOnSet(StakeOf, OpenOf(u) \ {b})
  <1>13. before = n + after /\ after \in Nat
    <2>1. \A i \in OpenOf(u) : StakeOf[i] \in Nat /\ StakeOf[i] \in Int
      BY <1>10, RowFacts
    <2>2. IsFiniteSet(OpenOf(u) \ {b})
      BY <1>10, FS_RemoveElement
    <2>3. after \in Nat
      BY <2>1, <2>2, SumNat
    <2>4. before = StakeOf[b] + after
      BY <1>8, <1>10, <2>1, SumRemove
    <2>5. QED  BY <1>6, <2>3, <2>4
  <1>14. SumFunctionOnSet(StakeOf', OpenOf(u) \ {b}) = after
    <2>1. \A i \in OpenOf(u) \ {b} : StakeOf[i] \in Int /\ StakeOf[i] = StakeOf'[i]
      BY <1>6, <1>10, RowFacts
    <2>2. IsFiniteSet(OpenOf(u) \ {b})
      BY <1>10, FS_RemoveElement
    <2>3. QED  BY <2>1, <2>2, SumSame
  <1>15. balance[u]["PENDING_BETS"] = Opening[u]["PENDING_BETS"] + before
    BY DEF MInv, Held
  <1> HIDE DEF before, after
  <1>16. /\ balance'[u]["PENDING_BETS"] = Opening[u]["PENDING_BETS"] + after
         /\ balance'[u]["PENDING_BETS"] >= 0
    BY <1>4, <1>11, <1>12, <1>13, <1>15
  <1>17. Held(u)'
    BY <1>8, <1>14, <1>16 DEF Held
  <1>18. Settled(u)'
    <2>1. \A i \in BetsOf(u) : NetOf[i] \in Int
      BY <1>10, RowFacts
    <2> DEFINE s == SumFunctionOnSet(NetOf, BetsOf(u))
    <2>2. SumFunctionOnSet(NetOf', BetsOf(u)) = s + (NetOf'[b] - NetOf[b])
      <3>1. \A i \in BetsOf(u) \ {b} : NetOf'[i] = NetOf[i]
        BY <1>6, <1>10
      <3>2. NetOf'[b] \in Int
        BY <1>6
      <3>3. QED  BY <1>8, <1>10, <2>1, <3>1, <3>2, SumChange
    <2>3. s \in Int
      BY <1>10, <2>1, SumInt
    <2>4. balance[u]["USER_WALLET"] + balance[u]["BONUS"] =
             Opening[u]["USER_WALLET"] + Opening[u]["BONUS"] + s
      BY DEF MInv, Settled, Own
    <2> HIDE DEF s
    <2>5. SumFunctionOnSet(NetOf', BetsOf(u)) = s + p
      BY <1>6, <2>2, <2>3
    <2>6. balance'[u]["USER_WALLET"] + balance'[u]["BONUS"] =
             Opening[u]["USER_WALLET"] + Opening[u]["BONUS"] + (s + p)
      <3>1. balance'[u]["USER_WALLET"] + balance'[u]["BONUS"] =
               (balance[u]["USER_WALLET"] + balance[u]["BONUS"]) + p
        <4>1. \A x, y \in Int : (x + p) + y = (x + y) + p
          OBVIOUS
        <4>2. QED  BY <1>4, <1>11, <4>1
      <3>2. Opening[u]["USER_WALLET"] + Opening[u]["BONUS"] \in Int
        BY <1>12
      <3>3. \A x \in Int : (x + s) + p = x + (s + p)
        BY <2>3
      <3>4. QED  BY <2>4, <3>1, <3>2, <3>3
    <2>7. QED  BY <1>7, <2>5, <2>6 DEF Settled, Own
  <1>19. Solvent(u)'
    <2>1. balance[u]["USER_WALLET"] >= 0 /\ balance[u]["BONUS"] >= 0
      BY DEF MInv, Solvent, UserAccounts
    <2>2. balance'[u]["USER_WALLET"] >= 0 /\ balance'[u]["BONUS"] >= 0
      BY <1>4, <1>11, <2>1
    <2>3. QED  BY <1>16, <2>2 DEF Solvent, UserAccounts
  <1>20. QED  BY <1>9, <1>17, <1>18, <1>19 DEF MInv

LEMMA NextMInv == RInv /\ TInv /\ MInv /\ [Next]_vars => MInv'
  <1> SUFFICES ASSUME RInv, TInv, MInv, [Next]_vars PROVE MInv'
    OBVIOUS
  <1>1. \/ \E w \in Workers : CommitPlacement(w) \/ CommitOutcome(w)
        \/ UNCHANGED <<balance, bets>>
    BY DEF Next, Work, Acquire, vars, Receive, LockLeg, CheckLegs, InsertBet,
           LockBet, Decide, LockUser, Refuse, Fail, Reprice, OpenOrClose,
           ClockPasses, VerifyEmail
  <1>2. CASE UNCHANGED <<balance, bets>>
    BY <1>2 DEF MInv, Held, Settled, Solvent, Own, StakeOf, NetOf, OpenOf, BetsOf
  <1>3. QED  BY <1>1, <1>2, CommitPlacementMStep, CommitOutcomeMStep

LEMMA MoneyCarried == Spec => []MInv
  BY MInit, NextMInv, Typed, Carried, PTL DEF Spec

\* What the service is about to post adds up to zero.
EntriesBalance ==
    \A w \in Workers : pc[w] = "post" => Balanced(EntriesOf(job[w], draft[w]))

\* _validate_transaction_is_balanced never undoes a bet: whatever part of a
\* stake the bonus pays, and whatever a settlement, a void or a cash-out pays
\* out, the entries of the transaction add up to zero.
THEOREM PostingsBalance == Spec => []EntriesBalance
  <1>1. ASSUME RInv, TInv, NEW w \in Workers, pc[w] = "post"
        PROVE  Balanced(EntriesOf(job[w], draft[w]))
    <2>1. CASE IsPlacement(job[w])
      <3>1. job[w] \in Placement /\ Sketches(draft[w], job[w])
        BY <1>1, <2>1 DEF RInv, JobOK, DraftOK
      <3>2. PICK x \in Int, y \in Int :
                x = draft[w].stake - FromBonus(job[w]) /\ y = FromBonus(job[w])
        BY <1>1, <3>1, FromBonusFacts DEF TInv, Sketches
      <3>3. EntriesOf(job[w], draft[w]) = PlacementEntries(x, y)
        BY <3>1, <3>2 DEF EntriesOf, Sketches
      <3>4. QED  BY <3>2, <3>3, PlacementVector
    <2>2. CASE ~IsPlacement(job[w])
      <3>1. Closes(draft[w], bets[job[w].bet]) /\ Slipped(draft[w])
        BY <1>1, <2>2 DEF RInv, DraftOK, Closing, TInv, DraftTyped
      <3>2. PICK n \in Nat, p \in Nat : n = draft[w].stake /\ p = draft[w].payout
        BY <3>1, SlippedFacts DEF Slipped, Bet
      <3>3. EntriesOf(job[w], draft[w]) = WonEntries(n, p)
        BY <1>1, <3>1, <3>2, ClosingEntries DEF Closes
      <3>4. QED  BY <3>2, <3>3, ClosingVector
    <2>3. QED  BY <2>1, <2>2
  <1>2. RInv /\ TInv => EntriesBalance
    BY <1>1 DEF EntriesBalance
  <1>3. QED  BY <1>2, Typed, Carried, PTL

\* PENDING_BETS holds the stakes of exactly the bets that are still placed,
\* whoever places, settles and cashes out at once, and however often a
\* transaction is rolled back.
THEOREM StakesAreHeld == Spec => []StakesHeld
  <1>1. MInv => StakesHeld
    BY DEF MInv, Held, StakesHeld, StakeOf, OpenOf
  <1>2. QED  BY <1>1, MoneyCarried, PTL

\* Each stake is paid once and each payout of a settlement, a void or a
\* cash-out is received once.
THEOREM MoneyIsFollowed == Spec => []MoneyFollowsBets
  <1>1. MInv => MoneyFollowsBets
    BY DEF MInv, Settled, Own, MoneyFollowsBets, NetOf
  <1>2. QED  BY <1>1, MoneyCarried, PTL

\* A stake is covered when it is paid, with and without the bonus, and a
\* closing takes out of PENDING_BETS only what the bet put there.
THEOREM NobodyOverdraws == Spec => []NoOverdraft
  <1>1. MInv => NoOverdraft
    BY DEF MInv, Solvent, NoOverdraft
  <1>2. QED  BY <1>1, MoneyCarried, PTL
=============================================================================
