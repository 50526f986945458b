------------------------------- MODULE MCKyc --------------------------------
(***************************************************************************)
(* Small instances of Kyc for TLC.                                         *)
(***************************************************************************)
EXTENDS Kyc, TLC

CONSTANTS u1, u2, d1

\* Both users register with one DNI, so that one of them gets the profile:
\* u1 is verified, blocked and excluded, and deposits; u2 sets
\* limits and plays.
MCOffered ==
    {r \in Request :
        \/ r.op \in {"RegistroView", "VerificarEmailView"}
        \/ /\ r.user = u1
           /\ r.op \in {"VerificarKYCView", "login_view", "deposit_simulated",
                        "AutoexclusionView", "PerfilKYCAdmin"}
           /\ r.op = "PerfilKYCAdmin" =>
                  r.status = "PENDING" /\ r.until = 0 /\ r.limit = 0
        \/ /\ r.user = u2
           /\ r.op \in {"LimitesView", "place_simple_bet", "place_acca_bet"}}

\* One user who excludes himself and plays on.
MCPlayer ==
    {r \in Request :
        r.op \in {"RegistroView", "AutoexclusionView", "place_acca_bet"}}
=============================================================================
