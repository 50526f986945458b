----------------------------- MODULE MCBetting ------------------------------
(***************************************************************************)
(* Small instances of Betting for TLC.                                     *)
(***************************************************************************)
EXTENDS Betting, TLC

Symmetry == Permutations(Workers)

\* Every selection is the outcome of a market of its own.
MCMarketOf == [s \in Selections |-> s]

MCOpening ==
    [u \in Users |-> [a \in UserAccounts |->
        CASE a = "USER_WALLET" -> 2 [] a = "BONUS" -> 1 [] OTHER -> 0]]

\* Simple bets that share a key on either selection, and one without a key
\* that spends the bonus.
SimplePlacements ==
    {r \in Placement :
        /\ r.op = "place_simple_bet"
        /\ IF r.useBonus THEN r.key = NoKey /\ r.legs = {1} ELSE r.key # NoKey}

\* A combined bet on both legs, paid with the bonus and the wallet.
CombinedPlacements ==
    {r \in Placement : r.op = "place_acca_bet" /\ r.key = NoKey /\ r.useBonus}
=============================================================================
