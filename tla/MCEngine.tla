------------------------------- MODULE MCEngine ------------------------------
(***************************************************************************)
(* Engine on its own, for the one promise that needs its fairness.         *)
(***************************************************************************)
EXTENDS Engine

MCValid(c) == c.bind = "loop" \/ c.key # None
MCResolves(b) == b # "odd"
MCLoopback(b) == b = "loop"

Plain == [enabled |-> TRUE, bind |-> "loop", key |-> None, routing |-> FALSE, pools |-> 0, off |-> {}]

\* A file that opens the proxy wide behind a key, one whose address does not
\* resolve, and one that is not KDL.
MCEdits ==
  {Plain,
   [Plain EXCEPT !.bind = "wide", !.key = "k", !.pools = 1],
   [Plain EXCEPT !.bind = "odd", !.off = Key],
   Malformed}
=============================================================================
