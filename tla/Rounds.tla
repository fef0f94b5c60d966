-------------------------------- MODULE Rounds --------------------------------
(***************************************************************************)
(* The engine's usage rounds (engine.rs): what a round makes of the        *)
(* answers it gets, which alerts it raises, when it reads the source of a  *)
(* signed-out account again, and what the snapshot then says of each       *)
(* account's health.  Rounds and commands run one at a time.               *)
(*                                                                         *)
(* A token is no more here than whether the vendor's source holds another  *)
(* one than ours: Credentials is about the tokens themselves, Router about *)
(* what a quarantine does.                                                 *)
(***************************************************************************)
EXTENDS Selections, SequencesExt

CONSTANTS
  Account,
  Window,           \* the kinds of window
  Percent,          \* the percentages a window may read
  Thresholds,       \* the ui.warn_pct and ui.critical_pct the user may set
  None,
  RecheckInterval,  \* RELOGIN_RECHECK_INTERVAL
  MaxEvents,        \* bound on what happens to one account
  MaxHour           \* bound on the clock

VARIABLES
  hour,
  record,       \* what the engine remembers about polling each account
  newer,        \* the account's source holds another credential than ours
  quarantined,  \* the router's quarantine, as health_of reads it
  ui,           \* warn_pct, critical_pct, notifications
  severities,   \* the band each window was last seen in
  snapshot,     \* of each account, its health and its figures
  raised,       \* history: the alerts of every snapshot
  events        \* history: the answers to each account's polls and its new credentials

vars == <<hour, record, newer, quarantined, ui, severities, snapshot, raised, events>>

Unpolled == [usage |-> None, error |-> FALSE, since |-> None, out |-> FALSE, checked |-> None]

Rank == [ok |-> 0, warn |-> 1, critical |-> 2]

\* severity_for: of two thresholds in the wrong order the lower one is both.
SeverityFor(pct, t) ==
  CASE pct >= t.critical -> "critical"
    [] pct < t.critical /\ pct >= t.warn -> "warn"
    [] OTHER -> "ok"

\* notification_transition: only a band above one that was witnessed.
Crossed(before, now) == before # None /\ Rank[now] > Rank[before]

\* windows_of: a reading need not have every window.
Readings == [Window -> Percent \cup {None}]
WindowsOf(usage) == SetToSeq({w \in Window : usage[w] # None})

BandsOf(usage) == [w \in Window |-> IF usage[w] = None THEN None ELSE SeverityFor(usage[w], ui)]

\* balance::is_exhausted, by the figures alone.
Exhausted(usage) == \E w \in Window : usage[w] # None /\ \A p \in Percent : p <= usage[w]

HealthOf(r, q) ==
  CASE r.out -> [is |-> "needs login"]
    [] ~ r.out /\ q -> [is |-> "exhausted"]
    [] ~ r.out /\ ~ q /\ r.usage # None /\ r.error -> [is |-> "stale", since |-> r.since]
    [] ~ r.out /\ ~ q /\ r.usage # None /\ ~ r.error -> [is |-> "ok"]
    [] OTHER -> [is |-> "unknown"]

\* publish, once the handler is through.
Publish ==
  snapshot' = [a \in Account |-> [health |-> HealthOf(record'[a], quarantined'[a]), usage |-> record'[a].usage]]

Happened(a, what) == events' = [events EXCEPT ![a] = @ \o what]

----------------------------------------------------------------------------
(* A round. *)

\* recheck_signed_out: one read per interval.
Due(a) == record[a].out /\ (record[a].checked = None \/ hour - record[a].checked >= RecheckInterval)

\* A new credential is adopted, and with it goes what was held against the old.
Adopts(a) == Due(a) /\ newer[a]

Rechecked(a) ==
  CASE Adopts(a) -> [Unpolled EXCEPT !.usage = record[a].usage]
    [] Due(a) /\ ~ newer[a] -> [record[a] EXCEPT !.checked = hour]
    [] OTHER -> record[a]

\* How it goes for an account that is polled: its refresh is refused for good,
\* the poll fails, a 401 leads to a refresh that is refused for good, or figures
\* come, at once or after a 401 and a retry.
Outcomes == [is : {"dead", "failed", "refused"}] \cup [is : {"ok"}, usage : Readings]

MarkNeedsLogin(r) == [r EXCEPT !.out = TRUE, !.checked = hour]

Failed(r) == [r EXCEPT !.error = TRUE, !.since = IF r.since = None THEN hour ELSE r.since]

MutantRecorded(r, outcome) ==   \* a success leaves the start of the failing run
  CASE outcome.is = "ok" -> [r EXCEPT !.usage = outcome.usage, !.error = FALSE]
    [] outcome.is = "dead" -> MarkNeedsLogin(r)
    [] outcome.is = "refused" -> Failed(MarkNeedsLogin(r))
    [] outcome.is = "failed" -> Failed(r)

\* The record after the round (record_usage, and the errors of poll_round).
Recorded(r, outcome) ==
  CASE outcome.is = "ok" -> [r EXCEPT !.usage = outcome.usage, !.error = FALSE, !.since = None]
    [] outcome.is = "dead" -> MarkNeedsLogin(r)
    [] outcome.is = "refused" -> Failed(MarkNeedsLogin(r))
    [] outcome.is = "failed" -> Failed(r)

MutantSeverityAfter(a, usage, w) ==   \* kept only when alerts are wanted
  IF usage[w] = None \/ ~ ui.notifications THEN severities[a][w] ELSE SeverityFor(usage[w], ui)

\* evaluate_alerts: the band is stored whether or not anything is announced.
SeverityAfter(a, usage, w) ==
  IF usage[w] = None THEN severities[a][w] ELSE SeverityFor(usage[w], ui)

AlertsOf(a, usage) ==
  LET severity(w) == SeverityFor(usage[w], ui)
      rising == {w \in Window : usage[w] # None /\ Crossed(severities[a][w], severity(w))}
      crossed == Selected(WindowsOf(usage), rising)
  IN  IF ~ ui.notifications THEN <<>>
      ELSE [i \in DOMAIN crossed |-> [account |-> a, window |-> crossed[i], severity |-> severity(crossed[i])]]

\* What record_usage does besides.  Whether figures that are not exhausted lift
\* a quarantine is for the router to say (lift_if_recovered).
Evaluate(a, usage) ==
  /\ \E q \in BOOLEAN : /\ Exhausted(usage) => q
                        /\ quarantined' = [quarantined EXCEPT ![a] = q]
  /\ severities' = [severities EXCEPT ![a] = [w \in Window |-> SeverityAfter(a, usage, w)]]
  /\ raised' = raised \o AlertsOf(a, usage)

Credential == [is |-> "credential"]

\* What happens to an account: an answer with figures, one without, a sign-in.
Bands == {"ok", "warn", "critical", None}

Happenings ==
  {Credential} \cup [is : {"failed"}, at : Nat]
  \cup [is : {"ok"}, usage : Readings, heard : BOOLEAN, bands : [Window -> Bands]]

\* poll_round as it goes for one account (those of a round do not touch each
\* other, so a round of several is several of these), and the publish after it.
\* A disabled account is one that is not polled for a while.
PollRound(a) ==
  LET before == Rechecked(a)
      adopted == IF Adopts(a) THEN <<Credential>> ELSE <<>>
  IN  /\ Len(events[a]) < MaxEvents
      /\ \/ /\ before.out
            /\ record' = [record EXCEPT ![a] = before]
            /\ UNCHANGED <<newer, quarantined, severities, raised, events>>
         \/ \E outcome \in Outcomes, recovered \in BOOLEAN :
            \* A refresh that is refused reads the source too (recover_adopted).
            /\ ~ before.out
            /\ newer' = [newer EXCEPT ![a] = @ /\ ~ Adopts(a) /\ ~ recovered]
            /\ outcome.is \in {"dead", "refused"} => ~ newer'[a] /\ ~ recovered
            /\ record' = [record EXCEPT ![a] = Recorded(before, outcome)]
            /\ IF outcome.is = "ok" THEN Evaluate(a, outcome.usage)
               ELSE UNCHANGED <<quarantined, severities, raised>>
            /\ Happened(a, adopted \o
                 CASE outcome.is = "dead" -> <<>>
                   [] outcome.is = "ok" -> <<[is |-> "ok", usage |-> outcome.usage, heard |-> ui.notifications,
                                               bands |-> BandsOf(outcome.usage)]>>
                   [] OTHER -> <<[is |-> "failed", at |-> hour]>>)
      /\ UNCHANGED <<hour, ui>>
      /\ Publish

----------------------------------------------------------------------------
(* What happens between rounds. *)

\* finish_login, for an account that is known.
FinishLogin(a) ==
  /\ Len(events[a]) < MaxEvents
  /\ record' = [record EXCEPT ![a] = [@ EXCEPT !.out = FALSE, !.error = FALSE, !.since = None]]
  /\ Happened(a, <<Credential>>)
  /\ UNCHANGED <<hour, newer, quarantined, ui, severities, raised>>
  /\ Publish

\* A reload of the configuration: the bands the figures are in are not looked
\* at again before the next answer.
SetUi(t, notifications) ==
  /\ ui' = [warn |-> t.warn, critical |-> t.critical, notifications |-> notifications]
  /\ UNCHANGED <<hour, record, newer, quarantined, severities, raised, events>>
  /\ Publish

\* The user signs in with the vendor's own program.
SourceChanges(a) ==
  /\ newer' = [newer EXCEPT ![a] = TRUE]
  /\ UNCHANGED <<hour, record, quarantined, ui, severities, snapshot, raised, events>>

\* The request path exhausts the account, or its quarantine ends.
Quarantine(a) ==
  /\ quarantined' = [quarantined EXCEPT ![a] = ~ @]
  /\ UNCHANGED <<hour, record, newer, ui, severities, snapshot, raised, events>>

Tick ==
  /\ hour < MaxHour
  /\ hour' = hour + 1
  /\ UNCHANGED <<record, newer, quarantined, ui, severities, snapshot, raised, events>>

Init ==
  /\ hour = 0
  /\ record = [a \in Account |-> Unpolled]
  /\ newer = [a \in Account |-> FALSE]
  /\ quarantined = [a \in Account |-> FALSE]
  /\ \E t \in Thresholds : ui = [warn |-> t.warn, critical |-> t.critical, notifications |-> TRUE]
  /\ severities = [a \in Account |-> [w \in Window |-> None]]
  /\ snapshot = [a \in Account |-> [health |-> HealthOf(Unpolled, FALSE), usage |-> None]]
  /\ raised = <<>>
  /\ events = [a \in Account |-> <<>>]

Next ==
  \/ Tick
  \/ \E t \in Thresholds, n \in BOOLEAN : SetUi(t, n)
  \/ \E a \in Account : PollRound(a) \/ FinishLogin(a) \/ SourceChanges(a) \/ Quarantine(a)

Spec == Init /\ [][Next]_vars

----------------------------------------------------------------------------
(* The promises. *)

\* The readings a window had, in order.
Readout(a, w) == Selected(events[a], {e \in ToSet(events[a]) : e.is = "ok" /\ e.usage[w] # None})

\* A window announces each band it rises into between two of its readings while
\* alerts are wanted, once, and nothing else: turning alerts off and on, moving
\* a threshold, a failing run, a reading without the window or a new sign-in
\* replay no crossing and swallow none.
AlertsAreCrossings ==
  \A a \in Account, w \in Window :
    LET seen == Readout(a, w)
        severity(i) == seen[i].bands[w]
        rising == {i \in DOMAIN seen : i > 1 /\ seen[i].heard /\ Rank[severity(i)] > Rank[severity(i - 1)]}
        rises == Selected([i \in DOMAIN seen |-> i], rising)
    IN  Selected(raised, {alert \in ToSet(raised) : alert.account = a /\ alert.window = w})
          = [k \in DOMAIN rises |-> [account |-> a, window |-> w, severity |-> severity(rises[k])]]

\* What a snapshot says of an account is what its polls came to: ok when nothing
\* failed since its last success or new credential, stale since the first that
\* did, unknown when none ever succeeded; and always with the last figures.
HealthIsHonest ==
  \A a \in Account :
    LET past == events[a]
        good == {i \in DOMAIN past : past[i].is = "ok"}
        clean == {i \in DOMAIN past : past[i].is # "failed"}
        failing == {i \in DOMAIN past : past[i].is = "failed" /\ \A j \in clean : j < i}
        health == snapshot[a].health
    IN  /\ snapshot[a].usage = IF good = {} THEN None ELSE past[CHOOSE i \in good : \A j \in good : j <= i].usage
        /\ health.is = "unknown" => good = {}
        /\ health.is = "ok" => good # {} /\ failing = {}
        /\ health.is = "stale" =>
             /\ good # {} /\ failing # {}
             /\ health.since = past[CHOOSE i \in failing : \A j \in failing : i <= j].at
=============================================================================
