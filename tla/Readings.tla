------------------------------- MODULE Readings ------------------------------
(***************************************************************************)
(* How the percentages of one account become a reading: the body of the    *)
(* usage endpoint (provider/claude.rs, provider/codex.rs), which a poll    *)
(* fetches (provider/mod.rs), and the rate-limit headers of every Messages *)
(* answer, which replace what the cache holds (usage/mod.rs, observe).     *)
(*                                                                         *)
(* The account's own figures are the state `account`; a body or a set of   *)
(* headers is what the provider may write down of them.  An instant is a   *)
(* number, an instant that does not parse is Junk.                         *)
(***************************************************************************)
EXTENDS Integers, Sequences

CONSTANTS
  None, Junk,
  Percent,       \* the percentages an account may be at
  Gate,          \* a pool's ceilings, as in Allowance
  Changes        \* bound on what happens to the account's figures

VARIABLES
  account,   \* the provider, its figures for the windows and its verdict
  entry,     \* the reading the usage cache holds, or None
  heard,     \* history: what brought the last reading, and what it said
  stated,    \* history: the last percentage stated for the session window since its last reset
  changes

vars == <<account, entry, heard, stated, changes>>

Allowance == INSTANCE Allowance WITH BlindExhaustion <- 1

\* SESSION_WINDOW, WEEKLY_WINDOW and SESSION_WINDOW_MAX_SECONDS, in hours.
SessionWidth == 5
WeeklyWidth == 168
SessionMax == 27

Now == 200
SessionReset == 203
WeeklyReset == 300

----------------------------------------------------------------------------
(* What both parsers share. *)

\* normalise_pct: missing or not finite is 0.
NormalisePct(raw) ==
  CASE raw \in {None, Junk} -> 0
    [] raw \notin {None, Junk} -> IF raw > 100 THEN 100 ELSE IF raw < 0 THEN 0 ELSE raw

\* parse_timestamp: a malformed instant costs one field.
Instant(raw) == IF raw = Junk THEN None ELSE raw

StartedAt(resets_at, width) ==
  IF resets_at = None \/ width = None THEN None ELSE resets_at - width

Window(pct, resets_at, width) ==
  [pct |-> pct, resets_at |-> resets_at, started_at |-> StartedAt(resets_at, width)]

NoUsage == [limit_reached |-> "unknown", session |-> None, weekly |-> None, scoped |-> <<>>]

----------------------------------------------------------------------------
(* Claude's body. *)

\* RawLimit::width: the group, and without one the kind.
LimitWidth(limit) ==
  LET hint == IF limit.group = None THEN limit.kind ELSE limit.group
  IN  CASE hint = "session" -> SessionWidth
        [] hint \in {"weekly", "weekly_all", "weekly_scoped"} -> WeeklyWidth
        [] OTHER -> None

LimitWindow(limit) ==
  Window(NormalisePct(limit.percent), Instant(limit.resets_at), LimitWidth(limit))

LimitName(limit) == IF limit.model = None THEN limit.kind ELSE limit.model

TopWindow(raw, width) ==
  IF raw = None THEN None
  ELSE Window(NormalisePct(raw.utilization), Instant(raw.resets_at), width)

WithLimit(usage, limit) ==
  CASE limit.kind = "session"    -> [usage EXCEPT !.session = LimitWindow(limit)]
    [] limit.kind = "weekly_all" -> [usage EXCEPT !.weekly = LimitWindow(limit)]
    [] OTHER -> [usage EXCEPT !.scoped = Append(@, [name |-> LimitName(limit), window |-> LimitWindow(limit)])]

WithLimits(limits) ==
  LET usage[i \in 0..Len(limits)] ==
        IF i = 0 THEN NoUsage ELSE WithLimit(usage[i - 1], limits[i])
  IN  usage[Len(limits)]

\* RawUsage::normalise: the list is preferred, the pair is the fallback.
ClaudeUsage(body) ==
  IF body.limits # <<>> THEN WithLimits(body.limits)
  ELSE [NoUsage EXCEPT !.session = TopWindow(body.five_hour, SessionWidth),
                       !.weekly = TopWindow(body.seven_day, WeeklyWidth)]

----------------------------------------------------------------------------
(* Claude's headers: a status and a reset for each window that has any. *)

MutantLimitReached(windows) ==   \* a status nobody knows is taken for a clean bill
  IF \E w \in windows : w.status = "rejected" THEN "reached" ELSE "clear"

\* UnifiedRateLimits::limit_reached.
LimitReached(windows) ==
  CASE \E w \in windows : w.status = "rejected" -> "reached"
    [] \A w \in windows : w.status = "other"    -> "unknown"
    [] OTHER -> "clear"

\* build: a percentage or a reset, else nothing; an allowed window claims 0.
Built(w) ==
  IF w.status # "rejected" /\ w.resets_at = None THEN None
  ELSE Window(IF w.status = "rejected" THEN 100 ELSE 0, w.resets_at,
              IF w.id = "5h" THEN SessionWidth ELSE WeeklyWidth)

BuiltFor(windows, id) ==
  LET of == {w \in windows : w.id = id}
  IN  IF of = {} THEN None ELSE Built(CHOOSE w \in of : TRUE)

\* UnifiedRateLimits::to_usage: None when the headers say nothing a snapshot
\* could carry; the overall verdict is no window.
HeaderUsage(windows) ==
  LET session == BuiltFor(windows, "5h")
      weekly == BuiltFor(windows, "7d")
      inference == BuiltFor(windows, "7d_oi")
  IN  IF session = None /\ weekly = None /\ inference = None THEN None
      ELSE [limit_reached |-> LimitReached(windows), session |-> session, weekly |-> weekly,
            scoped |-> IF inference = None THEN <<>>
                       ELSE <<[name |-> "7d_oi", window |-> inference]>>]

----------------------------------------------------------------------------
(* Codex' body. *)

\* RawWindow::resets_at: the absolute reset, else the relative one.
CodexReset(raw) ==
  CASE raw.reset_at # None /\ raw.reset_at > 0 -> raw.reset_at
    [] raw.reset_at = None \/ raw.reset_at <= 0 ->
         IF raw.reset_after = None \/ raw.reset_after <= 0 THEN None ELSE Now + raw.reset_after

CodexWidth(raw) == IF raw.width = None \/ raw.width <= 0 THEN None ELSE raw.width

CodexWindow(raw) == Window(NormalisePct(raw.used_percent), CodexReset(raw), CodexWidth(raw))

\* RawWindow::is_session: a width we were not told is weekly.
IsSession(raw) == CodexWidth(raw) # None /\ CodexWidth(raw) <= SessionMax

\* Primary first: of two windows of one class the secondary wins.
WithWindow(usage, raw) ==
  CASE raw = None -> usage
    [] raw # None /\ IsSession(raw) -> [usage EXCEPT !.session = CodexWindow(raw)]
    [] raw # None /\ ~ IsSession(raw) -> [usage EXCEPT !.weekly = CodexWindow(raw)]

\* scoped_windows: an entry without a name, or that is no window, is skipped.
ScopedWindows(entries) ==
  LET named == SelectSeq(entries, LAMBDA e : e.name # None /\ e.raw # Junk)
  IN  [i \in DOMAIN named |-> [name |-> named[i].name, window |-> CodexWindow(named[i].raw)]]

\* limit_reached, and `allowed` inverted where it is absent.
Verdict(rate) ==
  IF rate.limit_reached # None THEN rate.limit_reached
  ELSE IF rate.allowed = None THEN None ELSE ~ rate.allowed

\* RawUsage::normalise with RawRateLimit::normalise.
CodexUsage(body) ==
  LET rate == body.rate_limit
      windows == WithWindow(WithWindow(NoUsage, rate.primary), rate.secondary)
      inner == ScopedWindows(rate.additional)
  IN  [windows EXCEPT
         !.limit_reached = CASE Verdict(rate) = None -> "unknown"
                             [] Verdict(rate) = TRUE -> "reached"
                             [] Verdict(rate) = FALSE -> "clear",
         !.scoped = IF inner # <<>> THEN inner ELSE ScopedWindows(body.additional)]

----------------------------------------------------------------------------
(* What the providers write. *)

\* An instant as each of them may put it down.
Written(at) == {at, Junk, None}

Limit(kind, group, pct, at) ==
  [kind |-> kind, group |-> group, percent |-> pct, resets_at |-> at, model |-> None]

Extra(kind, model, pct) == [Limit(kind, "weekly", pct, WeeklyReset) EXCEPT !.model = model]

\* The list, with a model's own limit among its entries.
LimitList(groups, at) ==
  <<Limit("session", groups[1], account.session, at),
    Extra("weekly_scoped", "opus", 100),
    Limit("weekly_all", groups[2], account.weekly, WeeklyReset)>>

Groups == {<<None, None>>, <<"session", "weekly">>}
LimitLists == {LimitList(groups, at) : groups \in Groups, at \in Written(SessionReset)}

Pair(pct, at) == [utilization |-> pct, resets_at |-> at]

\* The list, the pair that older plans have, or both.
ClaudeBodies ==
  [limits : LimitLists, five_hour : {None, Pair(account.session, SessionReset)}, seven_day : {None}]
    \cup [limits : {<<>>}, five_hour : {Pair(account.session, at) : at \in Written(SessionReset)},
          seven_day : {Pair(account.weekly, WeeklyReset)}]

\* Absolute, relative, both, or neither.
Resets == {<<SessionReset, None>>, <<None, SessionReset - Now>>, <<0, SessionReset - Now>>, <<None, 0>>}

SessionWindows ==
  {[used_percent |-> account.session, width |-> SessionWidth, reset_at |-> r[1], reset_after |-> r[2]] :
     r \in Resets}
WeeklyWindows ==
  [used_percent : {account.weekly}, width : {WeeklyWidth, None, 0}, reset_at : {WeeklyReset},
   reset_after : {None}]

Extras ==
  LET opus == [used_percent |-> 100, width |-> WeeklyWidth, reset_at |-> WeeklyReset, reset_after |-> None]
  IN  {<<>>, <<[name |-> None, raw |-> opus], [name |-> "opus", raw |-> opus],
               [name |-> "junk", raw |-> Junk]>>}

\* limit_reached and allowed: of the two, either may be left out.
Verdicts ==
  IF account.cut THEN {<<TRUE, FALSE>>, <<None, FALSE>>, <<None, None>>}
  ELSE {<<FALSE, TRUE>>, <<None, TRUE>>, <<None, None>>}

CodexBody(p, v, inner, outer) ==
  [rate_limit |-> [primary |-> p[1], secondary |-> p[2], limit_reached |-> v[1], allowed |-> v[2],
                   additional |-> inner],
   additional |-> IF inner = <<>> THEN outer ELSE <<>>]

CodexBodies ==
  {CodexBody(p, v, inner, outer) :
     p \in (SessionWindows \X WeeklyWindows) \cup (WeeklyWindows \X SessionWindows),
     v \in Verdicts, inner \in Extras, outer \in Extras}

\* Statuses and resets: a window that is used up is rejected, another allowed,
\* and one that has only just been invented is anything.
HeaderSets ==
  LET status(pct) == IF pct >= 100 THEN {"rejected"} ELSE {"allowed"}
      window(id, pct, at) == [id : {id}, status : status(pct) \cup {"other"}, resets_at : {at, None}]
  IN  {{s, w} : s \in window("5h", account.session, SessionReset),
                w \in window("7d", account.weekly, WeeklyReset)}
      \cup {{s, [id |-> "overall", status |-> "rejected", resets_at |-> None]} :
              s \in window("5h", account.session, SessionReset)}
      \cup {{[id |-> "7d_oi", status |-> "rejected", resets_at |-> at]} : at \in {WeeklyReset, None}}

----------------------------------------------------------------------------
Init ==
  /\ account \in [provider : {"codex", "claude"}, session : Percent, weekly : Percent, cut : BOOLEAN]
  /\ entry = None
  /\ heard = None
  /\ stated = None
  /\ changes = 0

Stored(usage, kind, what) ==
  /\ entry' = usage
  /\ heard' = [kind |-> kind, account |-> account, said |-> what]
  /\ stated' = account.session
  /\ UNCHANGED <<account, changes>>

\* UsageCache::get with fetch_usage: the answer is a body that parses.
PollClaude ==
  /\ account.provider = "claude"
  /\ \E body \in ClaudeBodies :
       Stored(ClaudeUsage(body), "body", Instant(IF body.limits # <<>> THEN body.limits[1].resets_at
                                                 ELSE body.five_hour.resets_at))

PollCodex ==
  /\ account.provider = "codex"
  /\ \E body \in CodexBodies :
       LET w == IF body.rate_limit.primary.width = SessionWidth
                THEN body.rate_limit.primary ELSE body.rate_limit.secondary
       IN  Stored(CodexUsage(body), "body", CodexReset(w))

\* get_text: a challenge, a refusal, the deadline.  The cache keeps the error.
PollFails ==
  /\ entry' = None
  /\ heard' = None
  /\ UNCHANGED <<account, stated, changes>>

\* observe_rate_limits, on any Messages answer; only a rejection states a figure.
Observe ==
  /\ account.provider = "claude"
  /\ \E windows \in HeaderSets :
       /\ HeaderUsage(windows) # None
       /\ entry' = HeaderUsage(windows)
       /\ heard' = [kind |-> "headers", account |-> account, said |-> windows]
       /\ stated' = IF \E w \in windows : w.id = "5h" /\ w.status = "rejected" THEN 100 ELSE stated
  /\ UNCHANGED <<account, changes>>

\* The account is used, or its session window starts again.
Change ==
  /\ changes < Changes
  /\ changes' = changes + 1
  /\ \/ /\ \E pct \in Percent : pct > account.session /\ account' = [account EXCEPT !.session = pct]
        /\ UNCHANGED stated
     \/ /\ account' = [account EXCEPT !.session = 0]
        /\ stated' = None
  /\ UNCHANGED <<entry, heard>>

Next == PollClaude \/ PollCodex \/ PollFails \/ Observe \/ Change

Spec == Init /\ [][Next]_vars

----------------------------------------------------------------------------
(* The promises. *)

Exhausted(u) == Allowance!IsExhausted(u)

\* However a provider puts its figures down, a body is understood: the session
\* and the weekly percentage land in their own window, with the reset it named,
\* and the verdict is neither lost nor turned round.  Headers cut an account off
\* exactly when they reject a window, and a status nobody knows is no verdict.
ReadingIsHonest ==
  /\ entry # None /\ heard.kind = "body" =>
       /\ entry.session.pct = NormalisePct(heard.account.session)
       /\ entry.weekly.pct = NormalisePct(heard.account.weekly)
       /\ entry.session.resets_at = heard.said
       /\ heard.said # None => entry.session.started_at = heard.said - SessionWidth
       /\ entry.limit_reached = "reached" => heard.account.cut
       /\ entry.limit_reached = "clear" => heard.account.provider = "codex" /\ ~ heard.account.cut
  /\ entry # None /\ heard.kind = "headers" =>
       /\ Exhausted(entry) <=> \E w \in heard.said : w.status = "rejected"
       /\ entry.limit_reached = "clear" => \E w \in heard.said : w.status = "allowed"

\* PoolConfig: "Skip a member whose session allowance is at or above this
\* fraction": as long as the window has not started again, a member last stated
\* at or above the ceiling, and not cut off, is not admitted on a figure that
\* nobody stated.  (One that has no figure at all is: "an unknown percentage
\* never excludes", PoolGate.)
CeilingHolds ==
  /\ entry # None /\ entry.session # None /\ entry.limit_reached # "reached"
  /\ stated # None /\ stated >= Gate.max_session_pct
  => ~ Allowance!BelowCeiling(Gate, entry)
=============================================================================
