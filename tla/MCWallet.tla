------------------------------ MODULE MCWallet ------------------------------
(***************************************************************************)
(* Small instances of Wallet for TLC.                                      *)
(***************************************************************************)
EXTENDS Wallet, TLC

Symmetry == Permutations(Workers) \cup Permutations(Keys)

MCCampaignAmount == [c \in Campaigns |-> 1]

MCCampaignType ==
    [c \in Campaigns |-> IF c = "PRIMERA_RECARGA" THEN "FIRST_DEPOSIT"
                         ELSE IF c = "BIENVENIDA" THEN "WELCOME"
                         ELSE "RESPONSIBLE_GAMING"]

MCLimit == [u \in Users |-> [w \in {"daily"} |-> 3]]

\* Money run: every kind of request, one key.
MoneyRequests ==
    {r \in Request : r.op = "transfer" => /\ r.source = "BONUS"
                                          /\ r.target = "USER_WALLET"
                                          /\ r.key = NoKey}

\* Idempotency run: the requests that carry a key, and a redemption.
KeyedRequests ==
    {r \in Request : r.op \in {"deposit", "withdraw", "redeem"}}
=============================================================================
