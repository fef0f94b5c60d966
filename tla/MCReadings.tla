----------------------------- MODULE MCReadings ------------------------------
(***************************************************************************)
(* One account in a pool that wants its members below 80 % of a session.   *)
(***************************************************************************)
EXTENDS Readings

MCGate == [members |-> {}, max_session_pct |-> 80, max_weekly_pct |-> 100]
=============================================================================
