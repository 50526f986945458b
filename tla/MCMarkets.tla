----------------------------- MODULE MCMarkets ------------------------------
(***************************************************************************)
(* Small instances of Markets for TLC.                                     *)
(***************************************************************************)
EXTENDS Markets

MCBetMarket == [b \in Bets |-> CHOOSE m \in Markets : TRUE]
=============================================================================
