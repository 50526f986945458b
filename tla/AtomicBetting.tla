--------------------------- MODULE AtomicBetting ----------------------------
(***************************************************************************)
(* What apps/betting promises about money: a ticket is bought at one       *)
(* instant with funds that are there, at most once per idempotency key,    *)
(* and closed at one instant, once, its stake leaving PENDING_BETS for     *)
(* whatever is paid.  Betting.tla is the implementation, with its row      *)
(* locks, early look-ups and separate statements.                          *)
(***************************************************************************)
EXTENDS Ledger, FiniteSetsExt, Sequences

CONSTANTS Keys, NoKey, Stakes, Opening

VARIABLE tickets

tvars == <<balance, house, tickets>>

Covered(u, stake, useBonus) ==
    stake <= balance[u]["USER_WALLET"]
                 + (IF useBonus THEN balance[u]["BONUS"] ELSE 0)

\* Bonus money is spent first: min(amount, bonus_balance).
BonusPart(u, stake, useBonus) ==
    IF useBonus THEN Min({stake, balance[u]["BONUS"]}) ELSE 0

Buy(u, stake, key, useBonus) ==
    /\ key # NoKey => \A i \in DOMAIN tickets : tickets[i].key # key
    /\ Covered(u, stake, useBonus)
    /\ tickets' = Append(tickets, [owner |-> u, key |-> key, stake |-> stake,
                                   state |-> "open", paid |-> 0])
    /\ LET bonus == BonusPart(u, stake, useBonus)
       IN  Post(u, PlacementEntries(stake - bonus, bonus))

\* Lost, void, won and cashed out differ in what is paid only.
Close(i) ==
    /\ tickets[i].state = "open"
    /\ tickets' = [tickets EXCEPT ![i] =
                      [@ EXCEPT !.state = "closed", !.paid = tickets'[i].paid]]
    /\ Post(tickets[i].owner, WonEntries(tickets[i].stake, tickets'[i].paid))

TInit ==
    /\ balance = Opening
    /\ house = 0
    /\ tickets = << >>

TNext ==
    \/ \E u \in Users, stake \in Stakes, key \in Keys \cup {NoKey},
          useBonus \in BOOLEAN : Buy(u, stake, key, useBonus)
    \/ \E i \in DOMAIN tickets : Close(i)

TSpec == TInit /\ [][TNext]_tvars
=============================================================================
