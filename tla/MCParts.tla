------------------------------- MODULE MCParts -------------------------------
(***************************************************************************)
(* Small instances of the machines of Parts.                               *)
(***************************************************************************)
EXTENDS Parts

CONSTANTS alice, bob, first, second

\* The cells of Credentials, the attempts of Metrics and the requests of Catalog.
Symmetry == Permutations({first, second})

----------------------------------------------------------------------------
(* Engine: one account. *)

\* A strategy that is misspelt does not load; the menu may set a good one over it.
MCValid(c) == (c.bind = "loop" \/ c.key # None) /\ c.routing # "fastest"
MCResolves(b) == b # "odd"
MCLoopback(b) == b = "loop"

Plain == [enabled |-> TRUE, bind |-> "loop", key |-> None, routing |-> "robin", pools |-> 0, off |-> {}]

\* A file that opens the proxy wide behind a key, one whose address does not
\* resolve, one with a strategy that there is not, which is invalid (as a wide
\* one without a key would be), and one that is not KDL.
MCEdits ==
  {Plain,
   [Plain EXCEPT !.bind = "wide", !.key = "k", !.pools = 1, !.routing = "usage"],
   [Plain EXCEPT !.bind = "odd", !.key = "j", !.pools = 1, !.off = SubKey],
   [Plain EXCEPT !.bind = "wide", !.key = "k", !.pools = 1, !.routing = "fastest"],
   Malformed}

----------------------------------------------------------------------------
(* UsageCache: a request and a round, in units of a quarter of a minute. *)

MCBackoff == <<2, 4, 8>>

----------------------------------------------------------------------------
(* Rounds: one percentage that is a warning or critical, as the settings go. *)

MCThresholds == {[warn |-> 1, critical |-> 2], [warn |-> 1, critical |-> 1]}

----------------------------------------------------------------------------
(* Figures: three accounts that may all be called alike. *)

MCBrief(label) == IF label = <<"id-1">> THEN <<"id">> ELSE label
MCSpelt(p) == IF p = "Plus" THEN "plus" ELSE p

MCWindows == {[pct |-> 40, started_at |-> 0, resets_at |-> 4], [pct |-> 90, started_at |-> 0, resets_at |-> 2]}

MCReadings ==
  {[plan |-> "Plus", session |-> [pct |-> 40, started_at |-> 0, resets_at |-> 4],
    weekly |-> [pct |-> 90, started_at |-> None, resets_at |-> 1], scoped |-> MCWindows],
   [plan |-> "gold", session |-> None, weekly |-> [pct |-> 80, started_at |-> 0, resets_at |-> 6], scoped |-> {}],
   [plan |-> None, session |-> None, weekly |-> None, scoped |-> MCWindows]}

MCGates == {[provider |-> "codex", members |-> {1, 2}, session |-> 100, weekly |-> 80]}

MCLabels == {<<"x">>, <<"id-1">>}
MCNames == {<<"x", "Plus">>, <<"x", "(1)">>}
MCOverrides == {<<>>, (<<"codex", "plus">> :> 0) @@ (<<"claude", "unknown">> :> 3)}

----------------------------------------------------------------------------
(* Discovery: alice has an account id everywhere, bob only an address. *)

MCCodex(a) ==
  IF a = alice THEN [access |-> None, account_id |-> None, claims |-> [account_id |-> "id", email |-> None]]
  ELSE [access |-> None, account_id |-> None, claims |-> [account_id |-> None, email |-> "bob@ex"]]
MCProfile(a) ==
  IF a = alice THEN [email |-> "", name |-> "Alice & Co", organization |-> "id", uuid |-> "other"]
  ELSE [email |-> "bob@ex", name |-> "", organization |-> "", uuid |-> ""]
MCGrant(a) ==
  IF a = alice THEN [account_id |-> "id", email |-> "alice@ex"] ELSE [account_id |-> None, email |-> "bob@ex"]
MCLogins == {<<"claude", alice>>}
=============================================================================
