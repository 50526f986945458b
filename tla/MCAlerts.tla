------------------------------ MODULE MCAlerts ------------------------------
(***************************************************************************)
(* A small instance of Alerts for TLC; the constants are in MCAlerts.cfg.  *)
(***************************************************************************)
EXTENDS Alerts, TLC
=============================================================================
