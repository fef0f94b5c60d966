------------------------------ MODULE UsageCache -----------------------------
(***************************************************************************)
(* The usage cache (usage/mod.rs) for one account, and what its callers do *)
(* with it: requests that score candidates, requests that were refused and *)
(* ask again, the engine's rounds, and rate-limit headers seen on the way; *)
(* and the gate of a pool, which takes what is there, stale or not.        *)
(*                                                                         *)
(* A reading is the moment the provider computed it: no property here      *)
(* looks at a percentage.                                                  *)
(***************************************************************************)
EXTENDS Naturals, Sequences, FiniteSetsExt

CONSTANTS
  Caller,     \* requests and the engine's round, each with one poll at a time
  Round,      \* ... the round among them
  None,
  Interval,   \* the engine begins its rounds no further apart (it waits for each handler)
  TTL,        \* UsageCache::TTL
  Backoff,    \* UsageCache::BACKOFF, a sequence
  Deadline,   \* how long a round may take (usage_deadline)
  Floor,      \* a Retry-After that providers send
  MaxFailures,  \* bound on the failures in a row
  MaxNow        \* bound on the clock

VARIABLES
  clock,
  entry,      \* the account's entry, or None
  poll,       \* what each caller is doing
  nextRound,  \* when the engine asks for the account again, or None: it is left out
  settled,    \* history: a round has ended since the account was taken in
  failing,    \* history: how many answers failed in a row, and the last of them
  given,      \* history: the reading handed out just now: to whom, and how old it is
  began       \* history: of the poll begun just now, if unforced, the failures by then and the wait

rounds == <<nextRound, settled>>
vars == <<clock, entry, poll, rounds, failing, given, began>>

Idle == [pc |-> "idle"]

\* What CachedError keeps of a failure, as far as the backoff tells one from
\* another: whether it was a 429, and the Retry-After it brought.
Failures == {f \in [limited : BOOLEAN, after : {0, Floor}] : f.limited \/ f.after = 0}

Nobody == [to |-> "nobody", age |-> 0]

Healthy == [row |-> 0, last |-> None, at |-> 0]

\* An account's entry: figures or a failure, how many failed in a row, and how
\* long it is good for.
Entries ==
  [reading : Nat \cup {None}, error : Failures \cup {None}, at : Nat, failures : Nat, ttl : Nat]

Init ==
  /\ clock = 0
  /\ entry = None
  /\ poll = [c \in Caller |-> Idle]
  /\ nextRound = Interval
  /\ settled = TRUE
  /\ failing = Healthy
  /\ given = Nobody
  /\ began = None

MutantWait(n, failure) == Backoff[Min({n, Len(Backoff)})]   \* a 429 like any other

\* UsageCache::backoff: a 429 starts one rung higher, Retry-After is a floor.
Wait(n, failure) ==
  LET rung == IF failure.limited THEN n + 1 ELSE n
      computed == Backoff[Min({rung, Len(Backoff)})]
  IN  IF failure.after > computed THEN failure.after ELSE computed

EntryOk(reading) == [reading |-> reading, error |-> None, at |-> clock, failures |-> 0, ttl |-> TTL]

EntryFailed(failure) ==
  LET n == (IF entry = None THEN 0 ELSE entry.failures) + 1
  IN  [reading |-> None, error |-> failure, at |-> clock, failures |-> n, ttl |-> Wait(n, failure)]

\* UsageCache::fresh.
Fresh == entry # None /\ clock - entry.at < entry.ttl

Silent == given' = Nobody /\ began' = None

Given(to, reading) == [to |-> to, age |-> clock - reading]

Return(c, reading) ==
  /\ poll' = [poll EXCEPT ![c] = Idle]
  /\ settled' = (settled \/ c = Round)
  /\ began' = None
  /\ given' = IF reading = None THEN Nobody ELSE Given("caller", reading)

\* A round asks for the account, and another will within the interval.
Begin(c) ==
  IF c = Round THEN nextRound # None /\ nextRound' = clock + Interval ELSE UNCHANGED nextRound

----------------------------------------------------------------------------
MutantHit(c) ==   \* a hit keeps the entry alive
  /\ Fresh
  /\ entry' = [entry EXCEPT !.at = clock]
  /\ Return(c, entry.reading) /\ Begin(c)
  /\ UNCHANGED <<clock, failing>>

\* UsageCache::get, served from the entry, failures included.
Hit(c) ==
  /\ Fresh
  /\ Return(c, entry.reading) /\ Begin(c)
  /\ UNCHANGED <<clock, entry, failing>>

Send(c, force) ==
  /\ force \/ ~ Fresh
  /\ Begin(c)
  /\ poll' = [poll EXCEPT ![c] = [pc |-> "sent", since |-> clock]]
  /\ began' = IF force THEN None ELSE [row |-> failing.row, last |-> failing.last, wait |-> clock - failing.at]
  /\ given' = Nobody
  /\ UNCHANGED <<clock, entry, settled, failing>>

\* score_all (a request's candidates, a round of the engine) does not force;
\* refresh_all (RefreshUsage, a retry behind a 401) and usage_for_exhaustion do.
Get(c) ==
  /\ poll[c].pc = "idle"
  /\ Hit(c) \/ \E force \in BOOLEAN : Send(c, force)

\* fetch_usage_at answers before the deadline, with figures computed at some
\* moment since it was sent, or fails; at the deadline it fails (get_text).
Answer(c) ==
  /\ poll[c].pc = "sent"
  /\ \/ /\ clock < poll[c].since + Deadline
        /\ \E reading \in poll[c].since..clock :
             /\ entry' = EntryOk(reading)
             /\ failing' = Healthy
             /\ Return(c, reading)
     \/ \E failure \in Failures :
          /\ entry' = EntryFailed(failure)
          /\ failing.row < MaxFailures
          /\ failing' = [row |-> failing.row + 1, last |-> failure, at |-> clock]
          /\ Return(c, None)
  /\ UNCHANGED <<clock, nextRound>>

\* The request is dropped with its scoring: nothing is stored.
Cancel(c) ==
  /\ c # Round /\ poll[c].pc = "sent"
  /\ poll' = [poll EXCEPT ![c] = Idle]
  /\ Silent
  /\ UNCHANGED <<clock, entry, rounds, failing>>

\* UsageCache::peek, of an entry of any age, for the ceilings of a pool (SubEntry::status).
\* "anyone": the engine has left the account out, and has not polled it since.
Peek ==
  /\ entry # None /\ entry.reading # None
  /\ given' = Given(IF settled THEN "gate" ELSE "anyone", entry.reading) /\ began' = None
  /\ UNCHANGED <<clock, entry, poll, rounds, failing>>

\* Rate-limit headers of a proxied answer (observe_rate_limits).
Observe ==
  /\ entry' = EntryOk(clock)
  /\ failing' = Healthy
  /\ Silent
  /\ UNCHANGED <<clock, poll, rounds>>

\* The account is removed, and may be signed in again (remove_sub).
Invalidate ==
  /\ entry' = None
  /\ failing' = Healthy
  /\ Silent
  /\ UNCHANGED <<clock, poll, rounds>>

\* The account is disabled, or needs a login: its entry stays, and no round asks for it
\* (poll_round) until it is back.
LeaveOut ==
  /\ nextRound # None /\ poll[Round].pc = "idle"
  /\ nextRound' = None /\ settled' = FALSE
  /\ Silent
  /\ UNCHANGED <<clock, entry, poll, failing>>

TakeIn ==
  /\ nextRound = None
  /\ nextRound' = clock + Interval
  /\ Silent
  /\ UNCHANGED <<clock, entry, poll, settled, failing>>

\* Timers are on time: no poll outlives its deadline, and no round is late.
Tick ==
  /\ clock < MaxNow
  /\ nextRound # None => clock < nextRound
  /\ \A c \in Caller : poll[c].pc = "sent" => clock < poll[c].since + Deadline
  /\ clock' = clock + 1
  /\ Silent
  /\ UNCHANGED <<entry, poll, rounds, failing>>

Next ==
  \/ Tick \/ Observe \/ Invalidate \/ Peek \/ LeaveOut \/ TakeIn
  \/ \E c \in Caller : Get(c) \/ Answer(c) \/ Cancel(c)

Spec == Init /\ [][Next]_vars

----------------------------------------------------------------------------
(* The promises. *)

\* However polls overlap and whoever forces one in between, a poll that nobody
\* forces waits out the last failure: the rung its place in the row earns, the
\* Retry-After it brought, and after a 429 no less than a healthy account waits
\* ("being rate limited never buys a faster poll than health", usage/mod.rs:91).
PollsArePaced ==
  began # None /\ began.row > 0 =>
    /\ began.wait >= Backoff[Min({began.row, Len(Backoff)})]
    /\ began.wait >= began.last.after
    /\ began.last.limited => began.wait >= TTL

\* A reading that is handed to a caller was true at some moment within the TTL and one
\* deadline, though an answer that was slow may replace one that was newer.  The gate
\* of a pool takes an entry of any age: it is the rounds that keep it young, so its
\* reading may be an interval and another deadline older.  Of an account that was left
\* out, nothing is promised before its next round.
StalenessIsBounded ==
  /\ given.to = "caller" => given.age <= TTL + Deadline
  /\ given.to = "gate" => given.age <= TTL + Deadline + Interval + Deadline
=============================================================================
