-------------------------------- MODULE Watch ---------------------------------
(***************************************************************************)
(* subbier watch (tui/): one task polls whoever owns the proxy, or follows *)
(* an engine of this process when nobody does; one reads state.db for the  *)
(* charts; keys change what is shown.  Their updates reach the event loop  *)
(* one at a time, a picture of the accounts, an answer from the database   *)
(* and the range on screen each of its own moment.                         *)
(***************************************************************************)
EXTENDS Charts

CONSTANTS
  Key,        \* the accounts, by their persisted identity
  Adopted,    \* who may be at the start, sequences
  Kinds,      \* the windows of each account, a sequence
  Pcts,       \* what a poll may read
  Tokens,     \* what a request may have cost
  Pools,      \* what config.kdl may list, lists of names, its first one first
  Keys,       \* those that are pressed
  Jumps,      \* how the clock moves
  Columns,    \* of a chart, two points each
  Height,     \* of the terminal
  Start, MaxNow, MaxMoves   \* bounds: the clock, and what else happens

VARIABLES
  own,        \* the engine is this process's
  server,     \* up, listening, its accounts in order, its pools
  app,        \* tui/app.rs
  mail,       \* the history task's answer on the way to the event loop, or None
  past,       \* history: every row there ever was
  moves

watchVars == <<now, queue, table, own, server, app, mail, past, moves>>

----------------------------------------------------------------------------
(* Ranges. *)

Span(hours, bucket, per) == [span |-> hours * 60, bucket |-> bucket, per |-> per]

H1 == Span(1, 1, 1)
H8 == Span(8, 8, 1)
D7 == Span(24 * 7, 120, 60)
Ladder == <<"mixed", H1, Span(6, 5, 1), Span(12, 10, 1), Span(24, 20, 1), D7>>

Metrics == {"tokens", "requests"}

Natural(chart) == CASE chart = "session" -> H8 [] chart \in Metrics -> H1 [] OTHER -> D7
WindowOf(n, chart) == IF n = 0 THEN Natural(chart) ELSE Ladder[n + 1]

AllowanceSpan(n) == Max({WindowOf(n, "session").span, WindowOf(n, "weekly").span})
ThroughputWindow(n) == WindowOf(n, "tokens")

----------------------------------------------------------------------------
(* App. *)

Default == [bucket |-> 0, allowance |-> <<>>, proxied |-> {}]

\* A snapshot of the engine: an endpoint is a live listener.
Snapshot == [subs |-> server.subs, endpoints |-> IF server.listening THEN <<"default">> \o server.pools ELSE <<>>]

NewApp ==
  [snap |-> Snapshot, cursor |-> 0, hidden |-> {}, endpoint |-> 0, page |-> "all", range |-> 0,
   error |-> FALSE, quit |-> FALSE, history |-> Default]

Clamped(index, seq) == Min({index, Max({Len(seq) - 1, 0})})

SetSnapshot ==
  [app EXCEPT !.snap = Snapshot, !.error = FALSE,
              !.cursor = Clamped(@, server.subs), !.endpoint = Clamped(@, Snapshot.endpoints)]

Subs == app.snap.subs
Endpoints == app.snap.endpoints
Shown == SelectSeq(Subs, LAMBDA sub : sub.id \notin app.hidden)

WindowsOf(sub) == IF sub.read THEN Kinds[sub.key] ELSE <<>>

\* One chart for each window a shown account has, and two of the endpoint.
ChartsOn(page) ==
  (IF page \in {"all", "subs"} THEN UNION {ToSet(WindowsOf(Shown[n])) : n \in DOMAIN Shown} ELSE {})
    \cup (IF page \in {"all", "proxy"} /\ Endpoints # <<>> THEN Metrics ELSE {})

MinChart == 5

\* A page that was chosen stays; the default gives way when rows are few.
PageFor(height) ==
  IF app.page # "all" THEN app.page
  ELSE LET n == Cardinality(ChartsOn("all"))
       IN  IF n = 0 \/ height \div n >= MinChart THEN "all" ELSE "subs"

Toggled ==
  IF Subs = <<>> THEN app
  ELSE LET id == Subs[app.cursor + 1].id
       IN  [app EXCEPT !.hidden = IF id \in @ THEN @ \ {id} ELSE @ \cup {id}]

ToggledAll == [app EXCEPT !.hidden = IF @ = {} THEN {Subs[n].id : n \in DOMAIN Subs} ELSE {}]

Stepped(index, seq, by) == IF seq = <<>> THEN index ELSE (index + by) % Len(seq)

NextPage == [all |-> "subs", subs |-> "proxy", proxy |-> "all"]

\* on_key; a digit is the range itself.
OnKey(key) ==
  CASE key = "j" -> [app EXCEPT !.cursor = Stepped(@, Subs, 1)]
    [] key = "k" -> [app EXCEPT !.cursor = Stepped(@, Subs, Len(Subs) - 1)]
    [] key = "space" -> Toggled
    [] key = "a" -> ToggledAll
    [] key = "p" -> [app EXCEPT !.endpoint = Stepped(@, Endpoints, 1)]
    [] key = "tab" -> [app EXCEPT !.page = NextPage[@]]
    [] key = "]" -> [app EXCEPT !.range = Min({@ + 1, Len(Ladder) - 1})]
    [] key = "[" -> [app EXCEPT !.range = Max({@ - 1, 0})]
    [] key = "0" -> [app EXCEPT !.range = 0]
    [] key = "5" -> [app EXCEPT !.range = 5]
    [] key = "q" -> [app EXCEPT !.quit = TRUE]

----------------------------------------------------------------------------
(* draw.rs and report.rs: what is on the screen. *)

Points == 2 * Columns

\* A line of an allowance chart, from the rows the last answer brought.
AllowanceLine(sub, kind) ==
  LET w == WindowOf(app.range, kind)
      rows == SelectSeq(app.history.allowance, LAMBDA row : row.of = <<sub.key, kind>>)
      series == [n \in DOMAIN rows |-> [ts |-> rows[n].ts, value |-> rows[n].amount]]
  IN  IF rows = <<>> THEN <<>> ELSE ResampleHeld(series, now - w.span, now, Points)

MutantThroughputLine(metric) ==   \* the range on screen, not the one the answer is for
  LET w == ThroughputWindow(app.range)
  IN  Rate(app.history.proxied, Endpoints[app.endpoint + 1], metric, w.bucket, now - w.span, now, Points, w.per)

ThroughputLine(metric) ==
  LET w == ThroughputWindow(app.range)
  IN  Rate(app.history.proxied, Endpoints[app.endpoint + 1], metric, app.history.bucket,
           now - w.span, now, Points, w.per)

\* The report, by the kind of its rows: an account's own with its meters,
\* and the endpoints'.
Row(kind, id) == [kind |-> kind, id |-> id]
Others(n) == [k \in 1..n |-> Row("other", 0)]

SubRows(n) ==
  Others(IF n > 1 THEN 1 ELSE 0) \o <<Row("sub", Subs[n].id)>> \o Others(Max({1, Len(WindowsOf(Subs[n]))}))

EndpointRows(members) == <<Row("endpoint", 0)>> \o Others(1 + members)

ProxyRows ==
  Others(1) \o FlattenSeq([n \in DOMAIN Endpoints |-> EndpointRows(IF n = 1 THEN 0 ELSE Len(Subs))])

Report ==
  Others(IF Subs = <<>> THEN 3 ELSE 1) \o FlattenSeq([n \in DOMAIN Subs |-> SubRows(n)]) \o Others(1) \o ProxyRows

Focus == SelectInSeq(Report, LAMBDA row : row = Row("sub", Subs[app.cursor + 1].id))

\* Where the report is cut: the cursor's block in view, its first row first.
LiveScroll(height) ==
  IF Subs = <<>> \/ Len(Report) <= height THEN 0
  ELSE LET after == {k \in Focus + 1..Len(Report) : Report[k].kind # "other"}
           end == IF after = {} THEN Len(Report) ELSE Min(after) - 1
       IN  Min({Max({end - height, 0}), Len(Report) - height, Focus - 1})

----------------------------------------------------------------------------
(* The engine, here or elsewhere. *)

Move == moves < MaxMoves /\ moves' = moves + 1

Record(rows) ==
  /\ queue' = Offered(rows)
  /\ past' = past \o rows

\* A usage poll, by whoever records the history.
Poll ==
  /\ Move /\ server.up
  /\ \E n \in DOMAIN server.subs, pct \in Pcts :
       /\ server' = [server EXCEPT !.subs[n].read = TRUE]
       /\ Record(Samples(server.subs[n].key, Kinds[server.subs[n].key], pct))
  /\ UNCHANGED <<now, table, own, app, mail>>

Serve ==
  /\ Move /\ server.up /\ server.listening
  /\ \E route \in DOMAIN EndpointOf, tokens \in Tokens :
       /\ EndpointOf[route] \in ToSet(<<"default">> \o server.pools)
       /\ Record(<<Request(route, tokens)>>)
  /\ UNCHANGED <<now, table, own, server, app, mail>>

\* An account is adopted, with the next id, or removed; the configuration
\* names other pools, or turns the listener on or off.
Change ==
  /\ Move /\ server.up
  /\ \/ \E key \in Key \ {server.subs[n].key : n \in DOMAIN server.subs} :
          server' = [server EXCEPT !.subs = Append(@, [id |-> server.next, key |-> key, read |-> FALSE]), !.next = @ + 1]
     \/ \E n \in DOMAIN server.subs : server' = [server EXCEPT !.subs = RemoveAt(@, n)]
     \/ \E pools \in ToSet(Pools) \ {server.pools} : server' = [server EXCEPT !.pools = pools]
     \/ ~own /\ server' = [server EXCEPT !.listening = ~ @]
  /\ UNCHANGED <<now, queue, table, own, app, mail, past>>

\* The writer thread dies with its process, and what was queued with it.
Die ==
  /\ Move /\ server.up
  /\ server' = [server EXCEPT !.up = FALSE, !.listening = FALSE] /\ queue' = <<>>
  /\ UNCHANGED <<now, table, own, app, mail, past>>

\* A new process numbers the accounts of subs.json afresh.
Restart ==
  /\ Move /\ ~server.up /\ ~own
  /\ server' = [server EXCEPT !.up = TRUE, !.listening = TRUE, !.next = Len(server.subs) + 1,
                              !.subs = [n \in DOMAIN @ |-> [id |-> n, key |-> @[n].key, read |-> FALSE]]]
  /\ UNCHANGED <<now, queue, table, own, app, mail, past>>

----------------------------------------------------------------------------
(* The tasks of the TUI. *)

\* spawn_live: an update of the engine of this process, which is never told
\* of its end; or GET /status, whose failure is.
Look ==
  /\ ~app.quit
  /\ \/ server.up /\ app' = SetSnapshot
     \/ ~server.up /\ ~own /\ app' = [app EXCEPT !.error = TRUE]
  /\ app' # app
  /\ UNCHANGED <<now, queue, table, own, server, mail, past, moves>>

\* spawn_history: two reads for the range of this pass; what fails is
\* empty.
Ask ==
  /\ ~app.quit /\ mail = None /\ Move
  /\ LET w == ThroughputWindow(app.range)
         answer == [bucket |-> w.bucket, allowance |-> AllowanceSince(now - AllowanceSpan(app.range)),
                    proxied |-> ProxiedSince(now - w.span, w.bucket)]
     IN  mail' \in {answer, Default}
  /\ UNCHANGED <<now, queue, table, own, server, app, past>>

Show ==
  /\ mail # None /\ ~app.quit
  /\ app' = [app EXCEPT !.history = mail] /\ mail' = None
  /\ UNCHANGED <<now, queue, table, own, server, past, moves>>

Press ==
  /\ ~app.quit /\ Move
  /\ \E key \in Keys : app' = OnKey(key)
  /\ UNCHANGED <<now, queue, table, own, server, mail, past>>

Write == (Land \/ Prune) /\ UNCHANGED <<own, server, app, mail, past, moves>>

Tick ==
  /\ \E jump \in Jumps : now + jump <= MaxNow /\ now' = now + jump
  /\ UNCHANGED <<queue, table, own, server, app, mail, past, moves>>

\* With an engine of its own, watch serves no proxy.
Init ==
  /\ own \in BOOLEAN /\ now = Start /\ queue = <<>> /\ table = <<>> /\ past = <<>>
  /\ \E keys \in Adopted :
       server = [up |-> TRUE, listening |-> ~own, pools |-> Head(Pools), next |-> Len(keys) + 1,
                 subs |-> [n \in DOMAIN keys |-> [id |-> n, key |-> keys[n], read |-> FALSE]]]
  /\ app = NewApp /\ mail = None /\ moves = 0

Next == Poll \/ Serve \/ Change \/ Die \/ Restart \/ Look \/ Ask \/ Show \/ Press \/ Write \/ Tick

Spec == Init /\ [][Next]_watchVars

----------------------------------------------------------------------------
\* What a line says of a point was read of that account and window, within
\* it or no longer before it than a line is held: between the least and the
\* most of those readings.
AllowanceIsMeasured ==
  \A kind \in ChartsOn("subs") : \A n \in DOMAIN Shown :
    LET w == WindowOf(app.range, kind)
        line == AllowanceLine(Shown[n], kind)
    IN  \A i \in DOMAIN line : line[i] # None =>
          LET from == now - w.span + ((i - 1) * w.span) \div Points - MaxHold
              to == now - w.span + (i * w.span) \div Points + 1
              near == {past[k].amount : k \in {k \in DOMAIN past : past[k].kind = "allowance" /\ past[k].of = <<Shown[n].key, kind>> /\ past[k].ts \in from..to}}
          IN  near # {} /\ Min(near) * line[i].n <= line[i].sum /\ line[i].sum <= Max(near) * line[i].n

\* A rate is of the endpoint the chart is named for, in the unit of the span
\* on screen, whatever range the figures were asked for: no point is above
\* the busiest bucket those were summed into, or below the smallest request.
RateIsMeasured ==
  "tokens" \in ChartsOn(PageFor(Height)) =>
    LET w == ThroughputWindow(app.range)
        bucket == app.history.bucket
        line == ThroughputLine("tokens")
        served == {k \in DOMAIN past : past[k].kind = "proxied" /\ EndpointOf[past[k].of] = Endpoints[app.endpoint + 1]}
        sums == {FoldSet(LAMBDA k, t : t + past[k].amount, 0, {k \in served : past[k].ts \div bucket = s}) :
                   s \in {past[k].ts \div bucket : k \in served}}
    IN  \A i \in DOMAIN line : line[i].num > 0 =>
          /\ sums # {} /\ line[i].num * bucket <= Max(sums) * w.per * line[i].den
          /\ line[i].num * bucket >= Min({past[k].amount : k \in served}) * w.per * line[i].den

\* "Neither index may point past the end" (set_snapshot), and the account
\* under the cursor is on the screen.
CursorIsSeen ==
  /\ Subs # <<>> => app.cursor < Len(Subs)
  /\ Endpoints # <<>> => app.endpoint < Len(Endpoints)
  /\ Subs # <<>> => LiveScroll(Height) < Focus /\ Focus <= LiveScroll(Height) + Height

ScreenIsTrue == AllowanceIsMeasured /\ RateIsMeasured /\ CursorIsSeen
=============================================================================
