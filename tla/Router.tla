------------------------------- MODULE Router -------------------------------
(***************************************************************************)
(* The load balancer's router (balance/mod.rs): settings, the pin, the     *)
(* current sub of each provider, round-robin's cursors and the quarantine  *)
(* map, shared under one lock by the requests of the proxy and by the      *)
(* engine.  A selection is two critical sections, Decide and Rank, with    *)
(* the usage round between them and the lock not held, over a snapshot of  *)
(* the registry (Ask) that was taken before either.                        *)
(*                                                                         *)
(* registry says whether a sub is registered, enabled and logged in        *)
(* ("usable"), registered only ("idle") or removed; cache is the reading   *)
(* UsageCache::peek yields for it (None after a failed fetch).  One step   *)
(* of the clock is one unit of the windows' resets_at.                     *)
(***************************************************************************)
EXTENDS Strategies, FiniteSets

CONSTANTS
  Sub,          \* SubIds, which are ordered
  Provider,
  ProviderOf,   \* the provider of each sub
  Request,      \* the requests in flight at once
  Settings,     \* the router settings the user may choose between
  Gate,         \* the pools a request may name
  Arrival,      \* what a request may come with: provider, pool and hints
  Reading,      \* the usage readings a provider may answer with
  MaxTime       \* bound on the clock

ASSUME SubAssumption == Sub \subseteq Nat /\ IsFiniteSet(Sub)
ASSUME ProviderAssumption == ProviderOf \in [Sub -> Provider]
ASSUME ReadingAssumption == Reading \subseteq Usage
ASSUME SettingsAssumption ==
  Settings \subseteq [strategy : StrategyKind, sticky : BOOLEAN \cup {None},
                      auto_switch : BOOLEAN, proxied : SUBSET Provider]
ASSUME GateAssumption ==
  Gate \subseteq [members : SUBSET Sub, max_session_pct : Pct, max_weekly_pct : Pct]
ASSUME ArrivalAssumption ==
  Arrival \subseteq [provider : Provider, pool : Gate \cup {None},
                     chain : Sub \cup {None}, key : Sub \cup {None}]

VARIABLES
  now,        \* Timestamp::now()
  registry,   \* what a snapshot of the registry would find of each sub
  cache,      \* the last reading of each sub, or None
  settings, pinned, current, cursor, exhausted,   \* the router's State
  call        \* where each request is, and what it carries across its waits

routerVars == <<settings, pinned, current, cursor, exhausted>>
vars == <<now, registry, cache, routerVars, call>>

Quarantine == [until : Nat, at_pct : Pct \cup {None}]

ASSUME AbsentAssumption == None \notin Usage \cup Quarantine

FailureClass == {"UsageLimit", "RequestScoped", "RateLimited", "AuthPermanent",
                 "RefreshTransient", "RefreshPermanent"}
MutantQuarantines(class) == class \in FailureClass \ {"RequestScoped"}

\* The classes that say something about the account itself.
Quarantines(class) == class \in {"UsageLimit", "AuthPermanent", "RefreshPermanent"}

\* The user's override, else the strategy's default.
Sticky(s) == IF s.sticky = None THEN NeedsUsage(s.strategy) ELSE s.sticky

Idle == [pc |-> "idle"]

Init ==
  /\ now = 0
  /\ registry = [s \in Sub |-> "usable"]
  /\ cache = [s \in Sub |-> None]
  /\ settings \in Settings
  /\ pinned = None
  /\ current = [p \in Provider |-> None]
  /\ cursor = [p \in Provider |-> None]
  /\ exhausted = [s \in Sub |-> None]
  /\ call = [r \in Request |-> Idle]

----------------------------------------------------------------------------
(* The quarantine map. *)

MutantSwept == [s \in Sub |-> IF exhausted[s] # None /\ exhausted[s].until > now + 1
                              THEN exhausted[s] ELSE None]

\* State::sweep: an entry whose end has come is dropped.
Swept == [s \in Sub |-> IF exhausted[s] # None /\ exhausted[s].until > now
                        THEN exhausted[s] ELSE None]

QuarantineOn(u) == [until  |-> ExhaustUntil(now, u),
                    at_pct |-> IF u = None THEN None ELSE EffectivePct(u)]

\* `current` with the slots that hold one of the subs in S emptied.
Released(S) == [p \in Provider |-> IF current[p] \in S THEN None ELSE current[p]]

MutantExhaust(s, u) ==
  /\ exhausted' = [exhausted EXCEPT ![s] = QuarantineOn(u)]
  /\ UNCHANGED current

\* State::exhaust: quarantine s and let go of it wherever it is current.
Exhaust(s, u) ==
  /\ exhausted' = [exhausted EXCEPT ![s] = QuarantineOn(u)]
  /\ current' = Released({s})

\* Router::lift_if_recovered, which sweeps first.
LiftIfRecovered(s, u) ==
  /\ exhausted' = [Swept EXCEPT ![s] = IF @ # None /\ Recovered(u, @.at_pct)
                                       THEN None ELSE @]
  /\ UNCHANGED current

\* Router::on_failure, short of the disposition it returns.
OnFailure(s, class, u) ==
  IF Quarantines(class) THEN Exhaust(s, u) ELSE UNCHANGED <<exhausted, current>>

----------------------------------------------------------------------------
(* One request: snapshot, first critical section, usage round, second. *)

InFlight(s) == Cardinality({r \in Request : call[r].pc = "sending" /\ call[r].sub = s})

Members(c) == IF c.pool = None THEN c.usable ELSE c.usable \cap c.pool.members

MutantAdmits(gate, s, u) == BelowCeiling(gate, u)

\* PoolGate::admits.
Admits(gate, s, u) == s \in gate.members /\ BelowCeiling(gate, u)

\* SubRegistry::statuses with the request's own hints and pool, and the
\* percentages its pool's ceiling is tested against.
Ask(r, a) ==
  LET usable == {s \in Sub : registry[s] = "usable" /\ ProviderOf[s] = a.provider}
  IN  call' = [call EXCEPT ![r] =
        [pc |-> "asked", provider |-> a.provider, pool |-> a.pool, chain |-> a.chain,
         key |-> a.key, usable |-> usable,
         admitted |-> {s \in usable : a.pool = None \/ Admits(a.pool, s, cache[s])},
         load |-> [s \in Sub |-> InFlight(s)]]]

Refuse(r, error) ==
  /\ call' = [call EXCEPT ![r] = [pc |-> "refused", error |-> error, provider |-> @.provider,
                                  pool |-> @.pool, usable |-> @.usable, admitted |-> @.admitted]]
  /\ UNCHANGED cursor

Choose(r, s, reason, candidates) ==
  call' = [call EXCEPT ![r] = [pc |-> "chosen", sub |-> s, reason |-> reason,
                               candidates |-> candidates, provider |-> @.provider,
                               pool |-> @.pool, usable |-> @.usable, admitted |-> @.admitted]]

\* Why the request cannot be served at all, tested in the order of the code.
Refusal(c) ==
  CASE c.provider \notin settings.proxied           -> "NotProxied"
    [] c.provider \in settings.proxied /\ c.usable = {}  -> "NoCandidates"
    [] c.provider \in settings.proxied /\ c.usable # {} /\ c.pool # None
         /\ Members(c) = {}                         -> "PoolEmpty"
    [] c.provider \in settings.proxied /\ Members(c) # {} /\ c.admitted = {} ->
         IF HasCeiling(c.pool) THEN "PoolOverCeiling" ELSE "PoolEmpty"
    [] OTHER                                        -> "AllExhausted"

\* The subs that may keep the request from being ranked, strongest first.
Holds(c) ==
  << [reason |-> "Pinned",    sub |-> pinned],
     [reason |-> "Frozen",    sub |-> IF settings.auto_switch THEN None ELSE current[c.provider]],
     [reason |-> "Affinity",  sub |-> c.chain],
     [reason |-> "Placement", sub |-> c.key],
     [reason |-> "Sticky",    sub |-> IF Sticky(settings) THEN current[c.provider] ELSE None] >>

\* The first critical section of select_in.
Decide(r) ==
  LET c    == call[r]
      live == IF c.provider \in settings.proxied
              THEN {s \in c.admitted : Swept[s] = None} ELSE {}
      held == {i \in 1..5 : Holds(c)[i].sub \in live}
  IN  /\ c.pc = "asked"
      /\ exhausted' = Swept
      /\ \/ /\ live = {}
            /\ Refuse(r, Refusal(c))
            /\ UNCHANGED current
         \/ \E i \in held :
              /\ \A j \in held : i <= j
              /\ Choose(r, Holds(c)[i].sub, Holds(c)[i].reason, Cardinality(live))
              /\ current' = [current EXCEPT ![c.provider] = Holds(c)[i].sub]
              /\ UNCHANGED cursor
         \/ /\ live # {}
            /\ held = {}
            /\ call' = [call EXCEPT ![r] =
                 [pc |-> "ranking", provider |-> @.provider, pool |-> @.pool,
                  usable |-> @.usable, admitted |-> @.admitted, load |-> @.load,
                  live |-> live, strategy |-> settings.strategy]]
            /\ UNCHANGED <<current, cursor>>
      /\ UNCHANGED <<now, registry, cache, settings, pinned>>

MutantRankCandidates(live, quarantined) == live

\* Whom the second critical section may pick: what was live before the usage
\* round and is not in the quarantine map, which is not swept again.
RankCandidates(live, quarantined) == {s \in live : quarantined[s] = None}

\* The usage round answers `scores` (None: that fetch failed, or no round was
\* needed), then the second critical section of select_in.
Rank(r, scores) ==
  LET c     == call[r]
      known == {s \in c.live : scores[s] # None}
      full  == {s \in known : IsExhausted(scores[s])}
      quarantined == [s \in Sub |-> IF s \in full THEN QuarantineOn(scores[s]) ELSE exhausted[s]]
      cands == RankCandidates(c.live, quarantined)
  IN  /\ exhausted' = quarantined
      /\ cache' = IF NeedsUsage(c.strategy)
                  THEN [s \in Sub |-> IF s \in c.live THEN scores[s] ELSE cache[s]] ELSE cache
      /\ \/ /\ cands = {}
            /\ Refuse(r, "AllExhausted")
            /\ current' = Released(full)
         \/ \E s \in cands :
              /\ IsPick(c.strategy, s, cands, scores, c.load, cursor[c.provider])
              /\ Choose(r, s, "Strategy", Cardinality(cands))
              /\ current' = [Released(full) EXCEPT ![c.provider] = s]
              /\ cursor' = IF c.strategy = "round-robin"
                           THEN [cursor EXCEPT ![c.provider] = s] ELSE cursor
      /\ UNCHANGED <<now, registry, settings, pinned>>

UsageRound(r) ==
  /\ call[r].pc = "ranking"
  /\ \E scores \in [call[r].live -> IF NeedsUsage(call[r].strategy)
                                    THEN Reading \cup {None} ELSE {None}] : Rank(r, scores)

\* The proxy looks the chosen sub up again and counts it in flight, or finds
\* that the engine has replaced the registry.
Start(r) ==
  /\ call[r].pc = "chosen"
  /\ call' = [call EXCEPT ![r] = IF registry[call[r].sub] # "removed"
                                 THEN [pc |-> "sending", sub |-> @.sub] ELSE Idle]
  /\ UNCHANGED <<now, registry, cache, routerVars>>

Finish(r) ==
  /\ call[r].pc = "sending"
  /\ call' = [call EXCEPT ![r] = Idle]
  /\ UNCHANGED <<now, registry, cache, routerVars>>

\* The attempt fails and the router is told.  Only a usage limit comes with a
\* reading, refetched for the purpose; None if that failed.
Fail(r, class, u) ==
  /\ call[r].pc = "sending"
  /\ class # "UsageLimit" => u = None
  /\ call' = [call EXCEPT ![r] = [pc |-> "failed", sub |-> @.sub, class |-> class]]
  /\ OnFailure(call[r].sub, class, u)
  /\ cache' = IF class = "UsageLimit" THEN [cache EXCEPT ![call[r].sub] = u] ELSE cache
  /\ UNCHANGED <<now, registry, settings, pinned, cursor>>

\* The rate-limit headers of a response (claude.rs observe_rate_limits).
Observe(r) ==
  /\ call[r].pc = "sending"
  /\ \E u \in Reading :
       /\ cache' = [cache EXCEPT ![call[r].sub] = u]
       /\ IF IsExhausted(u) THEN Exhaust(call[r].sub, u) ELSE UNCHANGED <<exhausted, current>>
  /\ UNCHANGED <<now, registry, settings, pinned, cursor, call>>

NewRequest(r) ==
  /\ call[r].pc \in {"idle", "refused", "failed"}
  /\ \E a \in Arrival : Ask(r, a)
  /\ UNCHANGED <<now, registry, cache, routerVars>>

----------------------------------------------------------------------------
(* The engine and the clock. *)

\* A poll of an enabled, logged-in sub answers (engine.rs record_usage) or fails.
RecordUsage(s) ==
  /\ registry[s] = "usable"
  /\ \/ \E u \in Reading :
          /\ cache' = [cache EXCEPT ![s] = u]
          /\ IF IsExhausted(u) THEN Exhaust(s, u) ELSE LiftIfRecovered(s, u)
     \/ cache' = [cache EXCEPT ![s] = None] /\ UNCHANGED <<exhausted, current>>
  /\ UNCHANGED <<now, registry, settings, pinned, cursor, call>>

\* Router::set_settings: only a change of strategy resets the cursors.
SetSettings(new) ==
  /\ new # settings
  /\ settings' = new
  /\ cursor' = IF new.strategy = settings.strategy THEN cursor
               ELSE [p \in Provider |-> None]
  /\ UNCHANGED <<now, registry, cache, pinned, current, exhausted, call>>

Pin(s) ==
  /\ pinned' = s
  /\ UNCHANGED <<now, registry, cache, settings, current, cursor, exhausted, call>>

ClearExhaustion(s) ==
  /\ exhausted' = [exhausted EXCEPT ![s] = None]
  /\ UNCHANGED <<now, registry, cache, settings, pinned, current, cursor, call>>

\* Enabled or disabled by the user, signed out or signed in again.
ToggleSub(s) ==
  /\ registry[s] # "removed"
  /\ registry' = [registry EXCEPT ![s] = IF @ = "usable" THEN "idle" ELSE "usable"]
  /\ UNCHANGED <<now, cache, routerVars, call>>

\* engine.rs remove_sub: everything the router holds about the sub goes too.
RemoveSub(s) ==
  /\ registry[s] # "removed"
  /\ registry' = [registry EXCEPT ![s] = "removed"]
  /\ cache' = [cache EXCEPT ![s] = None]
  /\ exhausted' = [exhausted EXCEPT ![s] = None]
  /\ pinned' = IF pinned = s THEN None ELSE pinned
  /\ current' = Released({s})
  /\ UNCHANGED <<now, settings, cursor, call>>

Tick ==
  /\ now < MaxTime
  /\ now' = now + 1
  /\ UNCHANGED <<registry, cache, routerVars, call>>

Step(r) ==
  \/ NewRequest(r) \/ Decide(r) \/ UsageRound(r) \/ Start(r) \/ Observe(r) \/ Finish(r)
  \/ \E class \in FailureClass, u \in Reading \cup {None} : Fail(r, class, u)

Engine ==
  \/ \E s \in Sub : RecordUsage(s) \/ ClearExhaustion(s) \/ ToggleSub(s) \/ RemoveSub(s)
  \/ \E s \in Sub \cup {None} : Pin(s)
  \/ \E new \in Settings : SetSettings(new)

Next == Tick \/ Engine \/ \E r \in Request : Step(r)

Spec == Init /\ [][Next]_vars

----------------------------------------------------------------------------
(* What the router promises. *)

Asking(c) ==
  /\ c.provider \in Provider
  /\ c.pool \in Gate \cup {None}
  /\ c.usable \subseteq Sub
  /\ c.admitted \subseteq Sub

CallOK(c) ==
  \/ c = Idle
  \/ c.pc = "asked" /\ Asking(c) /\ c.chain \in Sub \cup {None} /\ c.key \in Sub \cup {None}
  \/ c.pc = "ranking" /\ Asking(c) /\ c.live \subseteq Sub /\ c.strategy \in StrategyKind
  \/ c.pc = "chosen" /\ Asking(c) /\ c.sub \in Sub
  \/ c.pc = "refused" /\ Asking(c)
  \/ c.pc = "sending" /\ c.sub \in Sub
  \/ c.pc = "failed" /\ c.sub \in Sub /\ c.class \in FailureClass

\* Every variable has its type; a request carries what its place needs.
TypeOK ==
  /\ now \in Nat
  /\ registry \in [Sub -> {"usable", "idle", "removed"}]
  /\ cache \in [Sub -> Usage \cup {None}]
  /\ settings \in Settings
  /\ pinned \in Sub \cup {None}
  /\ current \in [Provider -> Sub \cup {None}]
  /\ cursor \in [Provider -> Sub \cup {None}]
  /\ exhausted \in [Sub -> Quarantine \cup {None}]
  /\ DOMAIN call = Request
  /\ \A r \in Request : CallOK(call[r])

\* The sub that stickiness and auto_switch hold on to is of that provider and
\* is not in the quarantine map, though it is set by requests that ranked on
\* a snapshot and cleared by polls, failures and response headers.
CurrentIsRoutable ==
  \A p \in Provider : current[p] # None =>
    ProviderOf[current[p]] = p /\ exhausted[current[p]] = None

\* A request is given a sub of its own provider, one the registry held usable
\* when it asked, and never one outside its pool: not the pinned sub, not the
\* conversation's, not the current one.
ServedWithinRequest ==
  \A r \in Request : call[r].pc = "chosen" =>
    /\ ProviderOf[call[r].sub] = call[r].provider
    /\ call[r].sub \in call[r].usable
    /\ call[r].pool # None => call[r].sub \in call[r].pool.members

\* No selection hands out a sub that is in the quarantine map as the selection
\* returns, also when it was put there during the request's own usage round.
NoQuarantinedSelection ==
  [][\A r \in Request : call[r].pc # "chosen" /\ call'[r].pc = "chosen" =>
       exhausted'[call'[r].sub] = None]_vars

\* A sub is quarantined only on a reading that shows it used up or after a
\* failure that is the account's own: never because a fetch failed, a request
\* was malformed, a rate was limited or a refresh did not get through.
QuarantineHasCause ==
  [][\A s \in Sub : exhausted[s] = None /\ exhausted'[s] # None =>
       \/ cache'[s] # None /\ IsExhausted(cache'[s])
       \/ \E r \in Request :
            /\ call'[r].pc = "failed" /\ call'[r].sub = s
            /\ call'[r].class \in {"UsageLimit", "AuthPermanent", "RefreshPermanent"}]_vars

\* A quarantine that has not run out ends early only when the user says so, the
\* sub is removed, or the last reading of the account shows it recovered.
QuarantineEndsForCause ==
  [][\A s \in Sub :
       exhausted[s] # None /\ exhausted[s].until > now /\ exhausted'[s] = None =>
         \/ ClearExhaustion(s)
         \/ RemoveSub(s)
         \/ cache'[s] # None /\ Recovered(cache'[s], exhausted[s].at_pct)]_vars

\* "`false` freezes the proxy onto one sub: a request never silently changes
\* identity" (RouterSettings::auto_switch): while auto_switch is off, the
\* current sub is not exchanged for another as long as it is routable.
FrozenIdentity ==
  [][\A p \in Provider :
       /\ ~settings.auto_switch
       /\ current[p] # None
       /\ current'[p] # current[p]
       => pinned # None \/ exhausted'[current[p]] # None
          \/ registry[current[p]] # "usable"]_vars

\* Every request that asks is given a sub or told why not, however long the
\* other requests' usage rounds take: every ranking is total.
EveryRequestAnswered ==
  \A r \in Request : call[r].pc = "asked" ~> call[r].pc \notin {"asked", "ranking"}
=============================================================================
