---------------------------- MODULE Credentials -----------------------------
(***************************************************************************)
(* The tokens of one account: the copies subbier keeps of them, and the    *)
(* requests and the engine that refresh them (auth/mod.rs TokenManager,    *)
(* proxy/codex.rs attempt, engine.rs poll_round and handle_event).         *)
(*                                                                         *)
(* A credential is the number of refreshes behind it.  The provider        *)
(* rotates: it honours the refresh token of generation `live` only, and    *)
(* hands out the next generation for it.  Generations below `expired` are  *)
(* past their expiry (less the skew); those below `rejected` draw a 401,   *)
(* which may come long before the expiry.                                  *)
(*                                                                         *)
(* The copies: the registry the proxy serves from, the engine's record,    *)
(* subs.json on disk, and the vendor's own store if the account was        *)
(* adopted from one, which is read but never written.                      *)
(***************************************************************************)
EXTENDS Integers, SequencesExt

CONSTANTS
  None,           \* no cell, no outcome
  Permanent, Transient,   \* how a refresh fails
  Request,        \* the requests in flight at once
  Engine,         \* the engine, the other caller of ensure_fresh
  Cell,           \* the OnceCells that exist at once
  MaxGeneration,  \* bound on the refreshes of a behaviour, the vendor's included
  MaxEvents       \* bound on the events waiting for the engine

ASSUME NoneAssumption == None \notin Cell /\ None \notin Request \cup {Engine}
ASSUME OutcomeAssumption ==
  /\ {None, Permanent, Transient} \cap Int = {}
  /\ Permanent # Transient /\ None \notin {Permanent, Transient}
ASSUME BoundAssumption == MaxGeneration \in Nat
ASSUME EngineAssumption == Engine \notin Request

VARIABLES
  live, expired, rejected,     \* the provider
  adopted, vendor,             \* is there a vendor's store, and what it holds
  registry, record, disk,      \* our copies
  needsLogin, persistDue,
  events,                      \* the TokensRefreshed events not yet handled
  cached401,                   \* the usage cache still serves a 401 for the account
  unsaved,                     \* history: the last save of subs.json failed, and none is due since
  inflight,                    \* TokenManager's map entry for the account
  cell,                        \* each OnceCell: its callers in order of arrival, and its outcome
  caller                       \* where each request and the engine is

provider == <<live, expired, rejected>>
source == <<adopted, vendor>>
copies == <<registry, record, disk, needsLogin, persistDue, events, cached401, unsaved>>
vars == <<provider, source, copies, inflight, cell, caller>>

Caller == Request \cup {Engine}
Generation == 0..MaxGeneration

\* The outcome of a refresh: a generation, or how it failed.
Failure == {Permanent, Transient}
Empty == [queue |-> << >>, outcome |-> None]
Done == [pc |-> "idle"]

Init ==
  /\ live = 0 /\ expired = 0 /\ rejected = 0
  /\ adopted \in BOOLEAN /\ vendor = 0
  /\ registry = 0 /\ record = 0 /\ disk = 0
  /\ needsLogin = FALSE /\ persistDue = FALSE
  /\ events = << >> /\ cached401 = FALSE /\ unsaved = FALSE
  /\ inflight = None
  /\ cell = [k \in Cell |-> Empty]
  /\ caller = [c \in Caller |-> Done]

Expired(g) == g < expired
Rejected(g) == g < rejected

----------------------------------------------------------------------------
(* TokenManager::ensure_fresh. *)

Waiters(k) == {c \in Caller : caller[c].pc = "refreshing" /\ caller[c].cell = k}

\* cell_for, then get_or_init: join the refresh in flight or enter a new cell in
\* the map.  The first in the queue drives the cell; when it gives up, the permit
\* goes to the next (the OnceCell's semaphore is fair).  `then` is where the caller
\* goes on with the result.
CellFor(c, g, then) ==
  \E k \in Cell :
    /\ IF inflight = None THEN Waiters(k) = {} ELSE k = inflight
    /\ inflight' = k
    /\ cell' = [cell EXCEPT ![k].queue = Append(@, c)]
    /\ caller' = [caller EXCEPT ![c] = [pc |-> "refreshing", token |-> g, spends |-> g,
                                        cell |-> k, then |-> then]]

EnsureFresh(c, g, force, then) ==
  IF force \/ Expired(g)
  THEN CellFor(c, g, then)
  ELSE /\ caller' = [caller EXCEPT ![c] = [pc |-> then, token |-> g]]
       /\ UNCHANGED <<inflight, cell>>

Calling(c) ==
  /\ caller[c].pc = "refreshing"
  /\ Head(cell[caller[c].cell].queue) = c
  /\ cell[caller[c].cell].outcome = None

\* The provider takes the refresh token and rotates; the answer may be lost.
Granted(c) ==
  /\ caller[c].spends = live
  /\ live < MaxGeneration
  /\ live' = live + 1
  /\ \E outcome \in {live + 1, Transient} : cell' = [cell EXCEPT ![caller[c].cell].outcome = outcome]
  /\ UNCHANGED caller

\* The provider refuses a spent token.  recover_adopted then re-reads the vendor's
\* store, once: what it holds is taken if it is newer and fresh, and its refresh
\* token is spent if it is newer and expired.
Refused(c) ==
  LET reread  == adopted /\ caller[c].spends = caller[c].token /\ vendor # caller[c].token
      retried == reread /\ Expired(vendor)
  IN  /\ caller[c].spends # live
      /\ cell' = IF retried THEN cell
                 ELSE [cell EXCEPT ![caller[c].cell].outcome = IF reread THEN vendor ELSE Permanent]
      /\ caller' = IF retried THEN [caller EXCEPT ![c].spends = vendor] ELSE caller
      /\ UNCHANGED live

NoAnswer(c) ==
  /\ cell' = [cell EXCEPT ![caller[c].cell].outcome = Transient]
  /\ UNCHANGED <<live, caller>>

\* The driver's refresh_at returns.
Answer(c) ==
  /\ Calling(c)
  /\ Granted(c) \/ Refused(c) \/ NoAnswer(c)
  /\ UNCHANGED <<expired, rejected, source, copies, inflight>>

MutantRetire(k) == inflight' = None

\* retire: only the cell that was awaited, so a straggler cannot evict a later refresh.
Retire(k) == inflight' = IF inflight = k THEN None ELSE inflight

MutantResume(c) ==
  /\ caller[c].pc = "refreshing"
  /\ cell[caller[c].cell].outcome # None /\ inflight = caller[c].cell
  /\ Retire(caller[c].cell)
  /\ cell' = IF Waiters(caller[c].cell) = {c} THEN [cell EXCEPT ![caller[c].cell] = Empty] ELSE cell
  /\ caller' = [caller EXCEPT ![c] = [pc |-> "resumed", token |-> @.token, then |-> @.then,
                                      outcome |-> cell[@.cell].outcome]]
  /\ UNCHANGED <<provider, source, copies>>

\* A caller that waited wakes with the shared outcome and retires the cell.
Resume(c) ==
  /\ caller[c].pc = "refreshing"
  /\ cell[caller[c].cell].outcome # None
  /\ Retire(caller[c].cell)
  /\ cell' = IF Waiters(caller[c].cell) = {c} THEN [cell EXCEPT ![caller[c].cell] = Empty] ELSE cell
  /\ caller' = [caller EXCEPT ![c] = [pc |-> "resumed", token |-> @.token, then |-> @.then,
                                      outcome |-> cell[@.cell].outcome]]
  /\ UNCHANGED <<provider, source, copies>>

----------------------------------------------------------------------------
(* The request path. *)

\* The request clones the registry's entry and makes sure its token is fresh.
Attempt(r) ==
  /\ caller[r].pc = "idle"
  /\ ~needsLogin
  /\ EnsureFresh(r, registry, FALSE, "send")
  /\ UNCHANGED <<provider, source, copies>>

\* ProxyState::persist_tokens: into the registry, and an event for the engine.
StoreTokens(r) ==
  /\ registry' = caller[r].outcome
  /\ events' = Append(events, caller[r].outcome)

\* The refresh is over: a changed token is stored, a failure ends the attempt.
Refreshed(r) ==
  /\ caller[r].pc = "resumed"
  /\ Len(events) < MaxEvents
  /\ \/ /\ caller[r].outcome \in Failure
        /\ caller' = [caller EXCEPT ![r] = Done]
        /\ UNCHANGED <<registry, events>>
     \/ /\ caller[r].outcome \notin Failure
        /\ IF caller[r].outcome = caller[r].token THEN UNCHANGED <<registry, events>>
                                                   ELSE StoreTokens(r)
        /\ caller' = [caller EXCEPT ![r] = [pc |-> @.then, token |-> @.outcome]]
  /\ UNCHANGED <<provider, source, record, disk, needsLogin, persistDue, cached401, unsaved, inflight,
                 cell>>

MutantForceRefresh(r) == TRUE

\* ForceRefresh a refresh only if nobody has replaced the token we sent.
ForceRefresh(r) == registry = caller[r].token

\* The upstream answers: a first 401 re-reads the registry and tries to refresh.
Send(r) ==
  /\ caller[r].pc = "send"
  /\ IF Rejected(caller[r].token)
     THEN EnsureFresh(r, registry, ForceRefresh(r), "resend")
     ELSE caller' = [caller EXCEPT ![r] = Done] /\ UNCHANGED <<inflight, cell>>
  /\ UNCHANGED <<provider, source, copies>>

\* The retry ends the attempt whatever it brings, unless the body of a success
\* died on the way: then the exchange is repeated with the same token.
Resend(r) ==
  /\ caller[r].pc = "resend"
  /\ \/ caller' = [caller EXCEPT ![r] = Done]
     \/ /\ ~Rejected(caller[r].token)
        /\ caller' = [caller EXCEPT ![r].pc = "send"]
  /\ UNCHANGED <<provider, source, copies, inflight, cell>>

Others(k, c) == Waiters(k) \ {c}

\* c waits for the cell no longer.
Leave(k, c) ==
  \E i \in DOMAIN cell[k].queue :
    /\ cell[k].queue[i] = c
    /\ cell' = [cell EXCEPT ![k] = IF Others(k, c) = {} THEN Empty
                                   ELSE [queue |-> RemoveAt(@.queue, i), outcome |-> @.outcome]]

\* The client hangs up and the request's future is dropped.  If it was driving a
\* refresh, the next waiter drives, whether or not the provider has rotated; the
\* one that got the answer retires the cell in the same poll.
Cancel(r) ==
  /\ caller[r].pc = "refreshing"
  /\ caller' = [caller EXCEPT ![r] = Done]
  /\ Leave(caller[r].cell, r)
  /\ \/ Calling(r) /\ UNCHANGED live
     \/ Calling(r) /\ caller[r].spends = live /\ live < MaxGeneration /\ live' = live + 1
     \/ Head(cell[caller[r].cell].queue) # r /\ UNCHANGED live
  /\ UNCHANGED <<expired, rejected, source, copies, inflight>>

----------------------------------------------------------------------------
(* The engine: one loop, which does nothing else while a round awaits. *)

Looping == caller[Engine].pc = "idle"

MutantAdoptTokens(g) ==
  /\ record' = g
  /\ registry' = g
  /\ UNCHANGED <<persistDue, unsaved>>

\* adopt_tokens: into the record and the registry, to be saved soon.
AdoptTokens(g) ==
  /\ record' = g
  /\ registry' = g
  /\ persistDue' = TRUE /\ unsaved' = FALSE

\* A usage round: the record is cloned and refreshed if it is close to expiry.  Of a
\* sub declared signed out, the adopted source is read again (recheck_signed_out).
PollRound ==
  /\ Looping
  /\ \/ ~needsLogin /\ EnsureFresh(Engine, record, FALSE, "poll")
     \/ /\ needsLogin /\ adopted
        /\ caller' = [caller EXCEPT ![Engine] = [pc |-> "reread", token |-> vendor]]
        /\ UNCHANGED <<inflight, cell>>
  /\ UNCHANGED <<provider, source, copies>>

\* If the source holds another credential, it is taken and the sub polled.
Recheck ==
  /\ caller[Engine].pc = "reread"
  /\ LET found == caller[Engine].token
     IN  IF found = record
         THEN /\ caller' = [caller EXCEPT ![Engine] = Done]
              /\ UNCHANGED <<record, registry, needsLogin, persistDue, unsaved, inflight, cell>>
         ELSE /\ AdoptTokens(found)
              /\ needsLogin' = FALSE
              /\ EnsureFresh(Engine, found, FALSE, "poll")
  /\ UNCHANGED <<provider, source, disk, events, cached401>>

\* refresh_tokens and retry_unauthorized after their ensure_fresh.
RoundRefreshed ==
  /\ caller[Engine].pc = "resumed"
  /\ LET outcome == caller[Engine].outcome
         token   == caller[Engine].token
     IN  \/ /\ outcome \notin Failure
            /\ IF outcome = token THEN UNCHANGED <<record, registry, persistDue, unsaved>>
                                  ELSE AdoptTokens(outcome)
            /\ caller' = [caller EXCEPT ![Engine] =
                 IF @.then = "polled" /\ outcome = token THEN Done
                 ELSE [pc |-> @.then, token |-> outcome]]
            /\ UNCHANGED needsLogin
         \/ /\ outcome = Permanent
            /\ needsLogin' = TRUE
            /\ caller' = [caller EXCEPT ![Engine] = Done]
            /\ UNCHANGED <<record, registry, persistDue, unsaved>>
         \/ /\ outcome = Transient
            /\ caller' = [caller EXCEPT ![Engine] =
                 IF @.then = "poll" THEN [pc |-> "poll", token |-> token] ELSE Done]
            /\ UNCHANGED <<record, registry, persistDue, unsaved, needsLogin>>
  /\ UNCHANGED <<provider, source, disk, events, cached401, inflight, cell>>

\* The usage fetch answers, or the cache does with the failure of an earlier one.
\* A 401 is retried behind a forced refresh of the token the round started with.
Poll ==
  /\ caller[Engine].pc = "poll"
  /\ cached401' \in {Rejected(caller[Engine].token), cached401}
  /\ IF cached401'
     THEN EnsureFresh(Engine, caller[Engine].token, TRUE, "polled")
     ELSE caller' = [caller EXCEPT ![Engine] = Done] /\ UNCHANGED <<inflight, cell>>
  /\ UNCHANGED <<provider, source, registry, record, disk, needsLogin, persistDue, events, unsaved>>

\* The second poll, behind the forced refresh, never answers from the cache.
PollAgain ==
  /\ caller[Engine].pc = "polled"
  /\ cached401' = Rejected(caller[Engine].token)
  /\ caller' = [caller EXCEPT ![Engine] = Done]
  /\ UNCHANGED <<provider, source, registry, record, disk, needsLogin, persistDue, events, unsaved,
                 inflight, cell>>

\* The usage round of a request's selection refreshes no token; its 401 is cached.
ScoreUsage ==
  /\ ~needsLogin
  /\ cached401' = Rejected(registry)
  /\ UNCHANGED <<provider, source, registry, record, disk, needsLogin, persistDue, events, unsaved,
                 inflight, cell, caller>>

\* The TokensRefreshed event reaches the record, and only the record.
HandleTokensRefreshed ==
  /\ Looping
  /\ events # << >>
  /\ record' = Head(events)
  /\ events' = Tail(events)
  /\ persistDue' = TRUE /\ unsaved' = FALSE
  /\ UNCHANGED <<provider, source, registry, disk, needsLogin, cached401, inflight, cell, caller>>

\* sync_registry, on every reload of the config, rediscovery and sign-in.
SyncRegistry ==
  /\ Looping
  /\ registry # record
  /\ registry' = record
  /\ UNCHANGED <<provider, source, record, disk, needsLogin, persistDue, events, cached401, unsaved,
                 inflight, cell, caller>>

\* persist_subs, after the debounce or with another account's change: all share the
\* file.  A save that fails is noted, and not tried again for its own sake.
PersistSubs ==
  /\ Looping
  /\ persistDue \/ unsaved
  /\ persistDue' = FALSE
  /\ \/ disk' = record /\ unsaved' = FALSE
     \/ unsaved' = (record # disk) /\ UNCHANGED disk
  /\ UNCHANGED <<provider, source, registry, record, needsLogin, events, cached401, inflight, cell,
                 caller>>

\* The process dies and is started again from subs.json.
Restart ==
  /\ registry' = disk /\ record' = disk
  /\ needsLogin' = FALSE /\ persistDue' = FALSE
  /\ events' = << >> /\ cached401' = FALSE /\ unsaved' = FALSE
  /\ inflight' = None
  /\ cell' = [k \in Cell |-> Empty]
  /\ caller' = [c \in Caller |-> Done]
  /\ UNCHANGED <<provider, source, disk>>

----------------------------------------------------------------------------
(* The world: tokens age, and the vendor's client refreshes its own copy. *)

TokenExpires ==
  /\ live < MaxGeneration
  /\ expired <= live
  /\ expired' = live + 1
  /\ UNCHANGED <<live, rejected, source, copies, inflight, cell, caller>>

TokenRejected ==
  /\ live < MaxGeneration
  /\ rejected <= live
  /\ rejected' = live + 1
  /\ UNCHANGED <<live, expired, source, copies, inflight, cell, caller>>

VendorRefreshes ==
  /\ adopted /\ vendor = live /\ live < MaxGeneration
  /\ live' = live + 1
  /\ vendor' = live + 1
  /\ UNCHANGED <<expired, rejected, adopted, copies, inflight, cell, caller>>

RequestStep(r) ==
  \/ Attempt(r) \/ Refreshed(r) \/ Send(r) \/ Resend(r) \/ Cancel(r)

EngineStep ==
  \/ PollRound \/ Recheck \/ RoundRefreshed \/ Poll \/ PollAgain \/ HandleTokensRefreshed
  \/ SyncRegistry \/ PersistSubs

Next ==
  \/ \E r \in Request : RequestStep(r)
  \/ \E c \in Caller : Answer(c) \/ Resume(c)
  \/ EngineStep
  \/ ScoreUsage \/ Restart \/ TokenExpires \/ TokenRejected \/ VendorRefreshes

Spec == Init /\ [][Next]_vars

\* Token requests carry a timeout and the runtime polls every woken task.
Fairness == \A c \in Caller : WF_vars(Answer(c)) /\ WF_vars(Resume(c))

----------------------------------------------------------------------------
(* What the code promises of the account's tokens. *)

Then == {"send", "resend", "poll", "polled"}

Place ==
  {Done}
  \cup [pc : {"refreshing"}, token : Generation, spends : Generation, cell : Cell, then : Then]
  \cup [pc : {"resumed"}, token : Generation, then : Then, outcome : Generation \cup Failure]
  \cup [pc : Then \cup {"reread"}, token : Generation]

OnceCell == [queue : Seq(Caller), outcome : Generation \cup Failure \cup {None}]

\* Every variable has its type; a caller carries what its place needs.
TypeOK ==
  /\ {live, expired, rejected, vendor, registry, record, disk} \subseteq Generation
  /\ {adopted, needsLogin, persistDue, cached401, unsaved} \subseteq BOOLEAN
  /\ events \in Seq(Generation)
  /\ inflight \in Cell \cup {None}
  /\ cell \in [Cell -> OnceCell]
  /\ caller \in [Caller -> Place]

\* One refresh per account is on the wire at a time, however the callers join,
\* wake late, retire the cell or are dropped (TokenManager's promise).
OneRefreshInFlight ==
  \A c, d \in Caller : Calling(c) /\ Calling(d) => c = d

\* No request makes the provider rotate for nothing: the token that its refresh
\* replaces had expired or had drawn a 401 ("forcing another would rotate the
\* refresh token for nothing", attempt).  The usage poll does not promise as
\* much: it forces a refresh on a 401 the cache may have kept from an older token.
NoNeedlessRotation ==
  [][live' # live /\ vendor' = vendor /\ (\E r \in Request : Calling(r)) =>
       Expired(live) \/ Rejected(live)]_vars

\* What the record holds and the disk does not is due to be written, whichever
\* of the four paths changed the record, or was refused by the disk the last
\* time: a save that fails is not repeated (persist_subs), so that a restart
\* before the next one loses the tokens.
DiskCatchesUp == record # disk => persistDue \/ unsaved

\* Nobody waits for a refresh for ever: if the request that drives it hangs up,
\* another waiter takes it over.
WaiterReleased ==
  \A c \in Caller : caller[c].pc = "refreshing" ~> caller[c].pc # "refreshing"

\* "`Some` once a refresh has permanently failed and only a re-login fixes it"
\* (SubRecord::needs_login): the proxy then holds no token that still works.
NeedsLoginMeansDead == needsLogin => registry # live
=============================================================================
