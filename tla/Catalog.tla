------------------------------- MODULE Catalog -------------------------------
(***************************************************************************)
(* GET /models (proxy/codex.rs): the model catalog, cached for a while and *)
(* fetched with the tokens of one account after another, and the version   *)
(* of codex that a fetch names.  Requests run side by side over one cache, *)
(* one router and one registry; the engine changes the last two meanwhile. *)
(*                                                                         *)
(* A catalog is known by the account that told it.  The path's pool plays  *)
(* no part: no route of /models asks for it.  Tokens are Credentials'.     *)
(***************************************************************************)
EXTENDS Naturals, Sequences, SequencesExt, Selections

CONSTANTS
  None,
  Account,
  Asker,         \* the requests
  CacheTtl,      \* MODEL_CACHE_TTL
  VersionTtl,    \* CLIENT_VERSION_TTL
  Fallback,      \* FALLBACK_CLIENT_VERSION
  MaxAsked, MaxChanges, MaxNow   \* bounds

VARIABLES
  now,
  cache,       \* ModelCatalog: the last catalog and when it came, or None
  version,     \* ClientVersion
  listed,      \* the registry: an id, enabled and needs_login, in order
  current,     \* Router::current of codex
  fetch,       \* where each request is
  begun, changed

shared == <<listed, current>>
vars == <<now, cache, version, shared, fetch, begun, changed>>

Idle == [pc |-> "idle"]

----------------------------------------------------------------------------
(* The caches. *)

\* ModelCatalog::fresh.
Fresh == cache # None /\ now - cache.at < CacheTtl

\* ClientVersion::resolved: configured, else what was discovered and is believed.
Resolved ==
  IF version.configured # None THEN version.configured
  ELSE IF version.discovered = None \/ now - version.discovered.at >= VersionTtl THEN None
  ELSE IF version.discovered.found = None THEN Fallback ELSE version.discovered.found

Entries(ids) == Selected(listed, {e \in ToSet(listed) : e.id \in ids})
Ids(entries) == [i \in DOMAIN entries |-> entries[i].id]

MutantOrdered ==   \* the current account is not left out of the others
  Ids(Entries({current})) \o Ids(Selected(listed, {e \in ToSet(listed) : e.enabled /\ ~ e.needs_login}))

\* The order accounts are asked in: the current one whatever its state, then the
\* rest of the registry.
Ordered ==
  Ids(Entries({current}))
    \o Ids(Selected(listed, {e \in ToSet(listed) : e.id # current /\ e.enabled /\ ~ e.needs_login}))

----------------------------------------------------------------------------
(* catalog and fetch_catalog. *)

\* An answer: a catalog, or the status of a failure.
Told(f, of, status) == [pc |-> "told", of |-> of, status |-> status, cached |-> f.cached, asked |-> f.asked]

\* A stale list beats a failure.
Failed(f, status) ==
  IF f.cached # None THEN Told(f, f.cached.of, 200) ELSE Told(f, None, status)

\* client_version, at the head of fetch_catalog: the lock is not held while codex
\* is asked for its version.
Entering(f) ==
  IF Resolved = None THEN [f EXCEPT !.pc = "discover"]
  ELSE [f EXCEPT !.pc = "refresh", !.sends = Resolved]

\* CatalogAttempt::Next: on to the next account, or the failure.
Moved(f, status) ==
  IF Len(f.todo) = 1 THEN Failed(f, status)
  ELSE Entering([f EXCEPT !.todo = Tail(@), !.forced = FALSE])

\* Router::exhaust without a reading: the account is out for five minutes, even if
\* it was out for longer, and is current no more.
Exhaust(a) ==
  /\ current' = IF current = a THEN None ELSE current
  /\ UNCHANGED listed

Kept == UNCHANGED shared

Begin(r) ==
  /\ fetch[r].pc \in {"idle", "told"}
  /\ begun < MaxAsked
  /\ begun' = begun + 1
  /\ LET f == [pc |-> "idle", todo |-> Ordered, forced |-> FALSE, sends |-> None,
               cached |-> cache, asked |-> [a \in Account |-> 0]]
     IN  fetch' = [fetch EXCEPT ![r] = CASE Fresh -> Told(f, cache.of, 200)
                                         [] ~ Fresh /\ Ordered = <<>> -> Failed(f, 503)
                                         [] OTHER -> Entering(f)]
  /\ Kept /\ UNCHANGED <<now, cache, version, changed>>

Discover(r) ==
  /\ fetch[r].pc = "discover"
  /\ \E found \in {None, "found"} :
       /\ version' = [version EXCEPT !.discovered = [at |-> now, found |-> found]]
       /\ fetch' = [fetch EXCEPT ![r].pc = "refresh",
                                 ![r].sends = IF found = None THEN Fallback ELSE found]
  /\ Kept /\ UNCHANGED <<now, cache, begun, changed>>

\* ensure_fresh.
Refresh(r) ==
  LET f == fetch[r]
      a == Head(f.todo)
      sent == [f EXCEPT !.pc = "sent", !.asked[a] = @ + 1]
  IN  /\ f.pc = "refresh"
      /\ \/ fetch' = [fetch EXCEPT ![r] = sent] /\ Kept
         \/ fetch' = [fetch EXCEPT ![r] = Moved(f, 503)] /\ Exhaust(a)   \* for good
         \/ fetch' = [fetch EXCEPT ![r] = Moved(f, 502)] /\ Kept         \* in passing
      /\ UNCHANGED <<now, cache, version, begun, changed>>

\* The answer of the upstream.  The first 401 is worth a forced refresh.
Answer(r) ==
  LET f == fetch[r]
      a == Head(f.todo)
      becomes(g) == fetch' = [fetch EXCEPT ![r] = g]
  IN  /\ f.pc = "sent"
      /\ \/ /\ becomes(Told(f, a, 200))                       \* a catalog
            /\ cache' = [at |-> now, of |-> a]
            /\ Kept
         \/ becomes(Moved(f, 502)) /\ Kept /\ UNCHANGED cache    \* no answer, or half of one
         \/ ~ f.forced /\ becomes([f EXCEPT !.pc = "refresh", !.forced = TRUE])   \* 401
            /\ Kept /\ UNCHANGED cache
         \/ f.forced /\ becomes(Moved(f, 503)) /\ Exhaust(a) /\ UNCHANGED cache   \* 401 again
         \/ becomes(Moved(f, 503)) /\ Exhaust(a) /\ UNCHANGED cache               \* 403
         \/ \E status \in {500, 502} :                           \* unhappy, or no catalog
              becomes(Failed(f, status)) /\ Kept /\ UNCHANGED cache
      /\ UNCHANGED <<now, version, begun, changed>>

----------------------------------------------------------------------------
(* The rest of the program. *)

HangUp(r) ==
  /\ fetch[r].pc \notin {"idle", "told"}
  /\ fetch' = [fetch EXCEPT ![r] = Idle]
  /\ Kept /\ UNCHANGED <<now, cache, version, begun, changed>>

\* The engine: an account goes, is switched off or signed out, a request is
\* served by another, the user names a version (set_configured).
Change ==
  /\ changed < MaxChanges
  /\ changed' = changed + 1
  /\ \/ /\ \E i \in DOMAIN listed :
             listed' \in {RemoveAt(listed, i), [listed EXCEPT ![i].enabled = ~ @],
                          [listed EXCEPT ![i].needs_login = ~ @]}
        /\ UNCHANGED <<current, version>>
     \/ /\ \E a \in Account : Entries({a}) # <<>> /\ current' = a
        /\ UNCHANGED <<listed, version>>
     \/ /\ version' = [version EXCEPT !.configured = IF @ = None THEN "named" ELSE None]
        /\ UNCHANGED shared
  /\ UNCHANGED <<now, cache, fetch, begun>>

Tick ==
  /\ now < MaxNow
  /\ now' = now + 1
  /\ UNCHANGED <<cache, version, shared, fetch, begun, changed>>

Init ==
  /\ now = 0
  /\ cache = None
  /\ version = [configured |-> None, discovered |-> None]
  /\ listed = [i \in DOMAIN SetToSeq(Account) |->
                 [id |-> SetToSeq(Account)[i], enabled |-> TRUE, needs_login |-> FALSE]]
  /\ current = None
  /\ fetch = [r \in Asker |-> Idle]
  /\ begun = 0 /\ changed = 0

Next ==
  \/ \E r \in Asker : Begin(r) \/ Discover(r) \/ Refresh(r) \/ Answer(r) \/ HangUp(r)
  \/ Change \/ Tick

Spec == Init /\ [][Next]_vars

----------------------------------------------------------------------------
\* However the registry, the current account and the cache change while a list
\* of accounts is gone through, one request asks an account for the catalog at
\* most twice, fails only if there was no list to fall back on, and tells the
\* list of an account it asked or the one it had.
CatalogIsSparing ==
  \A r \in Asker :
    /\ fetch[r].pc # "idle" => \A a \in Account : fetch[r].asked[a] <= 2
    /\ fetch[r].pc = "told" =>
         IF fetch[r].of = None THEN fetch[r].cached = None /\ fetch[r].status # 200
         ELSE \/ fetch[r].asked[fetch[r].of] > 0
              \/ fetch[r].cached # None /\ fetch[r].of = fetch[r].cached.of
=============================================================================
