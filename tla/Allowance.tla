----------------------------- MODULE Allowance -----------------------------
(***************************************************************************)
(* What the balancer reads out of one usage reading of a subscription:     *)
(* how full it is, whether it is used up, and until when a subscription    *)
(* quarantined on that reading stays out (balance/mod.rs).                 *)
(*                                                                         *)
(* A reading carries the provider's own verdict and two account-wide       *)
(* windows.  Percentages are integers and time is counted in steps of the  *)
(* clock of the module that uses these operators.                          *)
(***************************************************************************)
EXTENDS Integers, FiniteSetsExt

CONSTANTS
  None,             \* an absent value: no sub, no window, no reading, no reset
  BlindExhaustion   \* how long a sub sits out when no window says when

ASSUME NoneAssumption == None \notin Int
ASSUME BlindAssumption == BlindExhaustion \in Nat \ {0}

Pct == 0..100
Window == [pct : Pct, resets_at : Nat \cup {None}]
Usage == [limit_reached : {"reached", "clear", "unknown"},
          session : Window \cup {None},
          weekly  : Window \cup {None}]

ResetDropPct == 10

WindowPct(w) == IF w = None THEN 0 ELSE w.pct

MutantEffectivePct(u) == WindowPct(u.session) + WindowPct(u.weekly)

\* The worse of the two headline windows.
EffectivePct(u) == LET s == WindowPct(u.session)
                       w == WindowPct(u.weekly)
                   IN  IF s >= w THEN s ELSE w

\* The provider's verdict first, the percentage as fallback.
IsExhausted(u) == u.limit_reached = "reached" \/ EffectivePct(u) >= 100

\* The windows of a reading that say when they reset, at some later time.
Resetting(u, at) == {w \in {u.session, u.weekly} :
                       /\ w # None
                       /\ w.resets_at # None
                       /\ w.resets_at > at}

\* When a sub quarantined at `at` is reconsidered: the latest reset among the
\* full windows, else the earliest reset, else after the blind interval.
ExhaustUntil(at, u) ==
  LET windows == IF u = None THEN {} ELSE Resetting(u, at)
      full    == {w \in windows : w.pct >= 100}
  IN  CASE full # {}                   -> Max({w.resets_at : w \in full})
        [] full = {} /\ windows # {}   -> Min({w.resets_at : w \in windows})
        [] windows = {}                -> at + BlindExhaustion

\* Does the reading `u` prove that a quarantine entered at `at_pct` is over?
\* Either the provider says so or the percentage fell as only a reset makes it.
Recovered(u, at_pct) ==
  \/ u.limit_reached = "clear"
  \/ at_pct # None /\ EffectivePct(u) <= at_pct - ResetDropPct

\* A pool's ceiling against the last reading; an unknown percentage never excludes.
BelowCeiling(gate, u) ==
  \/ u = None
  \/ /\ u.session = None \/ u.session.pct < gate.max_session_pct
     /\ u.weekly = None \/ u.weekly.pct < gate.max_weekly_pct

HasCeiling(gate) == gate.max_session_pct < 100 \/ gate.max_weekly_pct < 100
=============================================================================
