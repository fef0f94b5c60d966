-------------------------------- MODULE Engine --------------------------------
(***************************************************************************)
(* The engine's hold on its configuration (engine.rs): the file, the copy  *)
(* in memory, and everything that caches a piece of it - the router's      *)
(* settings, the registry the proxy routes by, the listener and its pools, *)
(* the published snapshot.  The user edits the file whenever he likes; the *)
(* menu writes it key by key; the engine looks at its mtime once a second. *)
(*                                                                         *)
(* A mtime is only ever compared with the one last recorded, so it is kept *)
(* as one bit, unseen.  A write of the menu is three steps (read, rename,  *)
(* record the mtime) between which the file may be edited.                 *)
(***************************************************************************)
EXTENDS Naturals, FiniteSets

CONSTANTS
  Key,         \* the accounts (SubKeys)
  None,        \* an Option without a value
  Malformed,   \* a config.kdl that is not KDL
  Routings,     \* the router settings the menu offers
  Valid(_),    \* ... those that Config::validate accepts
  Resolves(_), \* the proxy.bind that resolve to an address
  Loopback(_),
  DefaultBind, \* 127.0.0.1:8787
  Edits,       \* what the user may save
  ServeProxy,  \* EngineBuilder::serve_proxy
  MaxId        \* bound on the ids handed out in one run

VARIABLES
  file,      \* config.kdl
  unseen,    \* its mtime is not the recorded one (config_seen)
  conf,      \* State::config
  bind,      \* configured_bind
  routing,   \* the settings the router was given
  subs,      \* the records, by SubId
  nextId,
  saved,     \* the accounts in subs.json
  vendor,    \* the accounts the vendors' own stores hold, for good
  registry,  \* what the proxy routes by, by SubId
  proxy,     \* Down, or what the listener was given
  shown,     \* the last snapshot
  command,   \* the command whose write is under way
  raced      \* history: since the last load an edit met a write or the start, a write
             \* failed, or it went to a file that does not load

files == <<file, unseen>>
accounts == <<subs, nextId, saved, vendor>>
vars == <<files, conf, bind, routing, accounts, registry, proxy, shown, command, raced>>

Down == [bind |-> None]
Idle == [at |-> "idle"]
Stopped == [at |-> "stopped"]

\* Config::load_from: a file that does not parse, or does not validate, is an error.
Loads(text) == text # Malformed /\ Valid(text)

\* Config::sub_enabled: an account the file does not mention is enabled.
SubEnabled(c, key) == key \notin c.off

Bound(c, old) == IF Resolves(c.bind) THEN c.bind ELSE old

\* sync_registry.
RegistryOf(records, c) ==
  [id \in DOMAIN records |->
     [key |-> records[id].key, enabled |-> SubEnabled(c, records[id].key),
      needsLogin |-> records[id].needsLogin]]

KeysOf(records) == {records[id].key : id \in DOMAIN records}

\* start_proxy: the address may be taken, and an open one needs a key (serve).
Started(c, b) ==
  IF ~ Loopback(b) /\ c.key = None THEN {Down}
  ELSE {Down, [bind |-> b, key |-> c.key, pools |-> c.pools]}

\* What sync_proxy makes of the listener p.
SyncProxy(p, c, b) ==
  CASE ~ (ServeProxy /\ c.enabled) -> {Down}
    [] ServeProxy /\ c.enabled /\ (p = Down \/ p.bind # b \/ p.key # c.key) -> Started(c, b)
    [] OTHER -> {p}

\* sync_pools: a running listener is handed the new ones.
SyncPools(p, c) == IF p = Down THEN Down ELSE [p EXCEPT !.pools = c.pools]

View(c, b, records, p) ==
  [settings |-> c, bind |-> b, subs |-> RegistryOf(records, c), proxy |-> p]

\* publish, at the end of every handler that changed something.
Publish == shown' = View(conf', bind', subs', proxy')

----------------------------------------------------------------------------
(* The user and his editor. *)

HandEdit ==
  /\ file' \in Edits \ {file}
  /\ unseen' = TRUE
  /\ raced' = (raced \/ command # Idle)
  /\ UNCHANGED <<conf, bind, routing, accounts, registry, proxy, shown, command>>

----------------------------------------------------------------------------
(* Reading the file. *)

MutantApplyConfig(c) ==   \* an address that does not resolve ends it
  /\ bind' = Bound(c, bind)
  /\ IF Resolves(c.bind)
     THEN /\ conf' = c /\ routing' = c.routing /\ registry' = RegistryOf(subs, c)
          /\ proxy' \in SyncProxy(SyncPools(proxy, c), c, bind')
     ELSE UNCHANGED <<conf, routing, registry, proxy>>

\* apply_config: everything that caches a piece of the configuration.
ApplyConfig(c) ==
  /\ conf' = c
  /\ bind' = Bound(c, bind)
  /\ routing' = c.routing
  /\ registry' = RegistryOf(subs, c)
  /\ proxy' \in SyncProxy(SyncPools(proxy, c), c, bind')

ReloadConfig ==
  /\ unseen' = FALSE
  /\ \/ /\ Loads(file)
        /\ ApplyConfig(file)
        /\ raced' = FALSE
     \/ /\ ~ Loads(file)
        /\ UNCHANGED <<conf, bind, routing, registry, proxy, raced>>
  /\ UNCHANGED <<file, accounts, command>>

MutantWatchConfig == command = Idle /\ unseen /\ ReloadConfig /\ UNCHANGED shown

\* The once-a-second look at the mtime (reload_config_if_edited).
WatchConfig == command = Idle /\ unseen /\ ReloadConfig /\ Publish

\* Command::ReloadConfig.
Reload == command = Idle /\ ReloadConfig /\ Publish

----------------------------------------------------------------------------
(* The menu's toggles: memory first, then the file, then whatever the key  *)
(* reaches.                                                                *)

\* One key of a configuration set, in memory or in the text (write::set).
Set(c, change) ==
  IF change.field = "off"
  THEN [c EXCEPT !.off = IF change.value THEN @ \ {change.key} ELSE @ \cup {change.key}]
  ELSE [c EXCEPT ![change.field] = change.value]

Toggle(change) ==
  /\ command = Idle
  /\ conf' = Set(conf, change)
  /\ command' = [at |-> "read", text |-> file, change |-> change]
  /\ raced' = (raced \/ unseen \/ ~ Loads(file))
  /\ UNCHANGED <<files, bind, routing, accounts, registry, proxy, shown>>

\* write::set goes back over the text it read.  It fails on a file that is not
\* KDL, and when the disk does.
Rename ==
  /\ command.at = "read"
  /\ \/ /\ command.text # Malformed
        /\ file' = Set(command.text, command.change)
        /\ unseen' = TRUE
        /\ command' = [command EXCEPT !.at = "written", !.text = None]
        /\ UNCHANGED raced
     \/ /\ command' = [command EXCEPT !.at = "failed", !.text = None]
        /\ raced' = TRUE
        /\ UNCHANGED files
  /\ UNCHANGED <<conf, bind, routing, accounts, registry, proxy, shown>>

\* write_config records the mtime the file has now, its own or not.
Recorded == IF command.at = "written" THEN FALSE ELSE unseen

\* The rest of the handler.
Effect ==
  /\ command.at \in {"written", "failed"}
  /\ unseen' = Recorded
  /\ command' = Idle
  /\ LET change == command.change
     IN  \/ /\ change.field = "enabled"
            /\ proxy' \in SyncProxy(proxy, conf, bind)
            /\ UNCHANGED <<routing, registry>>
         \/ /\ change.field = "routing"
            /\ routing' = conf.routing
            /\ UNCHANGED <<proxy, registry>>
         \/ /\ change.field = "off"
            /\ registry' = [registry EXCEPT ![change.id].enabled = change.value]
            /\ UNCHANGED <<proxy, routing>>
  /\ UNCHANGED <<file, conf, bind, accounts, raced>>
  /\ Publish

----------------------------------------------------------------------------
(* The accounts. *)

Adopted(records, first, keys) ==
  LET order == CHOOSE f \in [1..Cardinality(keys) -> keys] : \A i, j \in DOMAIN f : i # j => f[i] # f[j]
  IN  [id \in DOMAIN records \cup first..(first + Cardinality(keys) - 1) |->
         IF id \in DOMAIN records THEN records[id]
         ELSE [key |-> order[id - first + 1], needsLogin |-> FALSE]]

\* persist_subs: a save that fails is noted and forgotten.
PersistSubs(records) == saved' \in {saved, KeysOf(records)}

\* Command::Rediscover: only accounts that are not known are adopted.
Rediscover ==
  LET new == vendor \ KeysOf(subs)
  IN  /\ command = Idle /\ nextId + Cardinality(new) <= MaxId + 1
      /\ subs' = Adopted(subs, nextId, new) /\ nextId' = nextId + Cardinality(new)
      /\ IF new = {} THEN UNCHANGED saved ELSE PersistSubs(subs')
      /\ registry' = IF new = {} THEN registry ELSE RegistryOf(subs', conf)
      /\ UNCHANGED <<files, conf, bind, routing, vendor, proxy, command, raced>>
      /\ Publish

MutantFinishLogin(key) ==   \* the registry is left for the next round to sync
  LET known == {id \in DOMAIN subs : subs[id].key = key}
  IN  /\ command = Idle /\ (known = {} => nextId <= MaxId)
      /\ subs' = IF known = {} THEN Adopted(subs, nextId, {key})
                 ELSE [id \in DOMAIN subs |-> IF id \in known THEN [subs[id] EXCEPT !.needsLogin = FALSE] ELSE subs[id]]
      /\ nextId' = IF known = {} THEN nextId + 1 ELSE nextId
      /\ PersistSubs(subs')
      /\ UNCHANGED <<files, conf, bind, routing, vendor, registry, proxy, command, raced>>
      /\ Publish

\* finish_login: the account is signed in again, or new.
FinishLogin(key) ==
  LET known == {id \in DOMAIN subs : subs[id].key = key}
  IN  /\ command = Idle /\ (known = {} => nextId <= MaxId)
      /\ subs' = IF known = {} THEN Adopted(subs, nextId, {key})
                 ELSE [id \in DOMAIN subs |-> IF id \in known THEN [subs[id] EXCEPT !.needsLogin = FALSE] ELSE subs[id]]
      /\ nextId' = IF known = {} THEN nextId + 1 ELSE nextId
      /\ PersistSubs(subs')
      /\ registry' = RegistryOf(subs', conf)
      /\ UNCHANGED <<files, conf, bind, routing, vendor, proxy, command, raced>>
      /\ Publish

\* A usage round finds the account signed out (mark_needs_login), or its
\* source holding a new credential (recheck_signed_out).
SignedOut(id, out) ==
  /\ command = Idle /\ SubEnabled(conf, subs[id].key) /\ subs[id].needsLogin # out
  /\ subs' = [subs EXCEPT ![id].needsLogin = out]
  /\ registry' = [registry EXCEPT ![id].needsLogin = out]
  /\ UNCHANGED <<files, conf, bind, routing, nextId, saved, vendor, proxy, command, raced>>
  /\ Publish

RemoveSub(id) ==
  /\ command = Idle
  /\ subs' = [i \in DOMAIN subs \ {id} |-> subs[i]]
  /\ registry' = [i \in DOMAIN registry \ {id} |-> registry[i]]
  /\ PersistSubs(subs')
  /\ UNCHANGED <<files, conf, bind, routing, nextId, vendor, proxy, command, raced>>
  /\ Publish

----------------------------------------------------------------------------
(* The process. *)

\* EngineBuilder::build loads the file first: one that does not load is the end.
Start ==
  /\ command = Stopped /\ Loads(file)
  /\ command' = [at |-> "loaded", text |-> file]
  /\ raced' = FALSE
  /\ UNCHANGED <<files, conf, bind, routing, accounts, registry, proxy, shown>>

\* It then records the mtime the file has by now, adopts the stored accounts and
\* the discovered ones, and run begins.
Build ==
  /\ command.at = "loaded"
  /\ conf' = command.text /\ unseen' = FALSE
  /\ bind' = Bound(conf', DefaultBind)
  /\ routing' = conf'.routing
  /\ subs' = Adopted(Adopted(<<>>, 1, saved), Cardinality(saved) + 1, vendor \ saved)
  /\ nextId' = Cardinality(saved \cup vendor) + 1
  /\ IF vendor \subseteq saved THEN UNCHANGED saved ELSE PersistSubs(subs')
  /\ registry' = RegistryOf(subs', conf')
  /\ proxy' \in SyncProxy(Down, conf', bind')
  /\ command' = Idle
  /\ UNCHANGED <<file, vendor, raced>>
  /\ Publish

\* Command::Shutdown, a signal, or a crash in the middle of a write.  A start that
\* dies before it has built the engine leaves nothing behind: it is no start.
Stop ==
  /\ command.at \notin {"stopped", "loaded"}
  /\ command' = Stopped /\ proxy' = Down
  /\ conf' = None /\ bind' = None /\ routing' = None /\ shown' = None
  /\ subs' = <<>> /\ nextId' = 1 /\ registry' = <<>> /\ raced' = FALSE
  /\ UNCHANGED <<files, saved, vendor>>

Init ==
  /\ file \in {c \in Edits : Loads(c)} /\ conf = file
  /\ unseen = FALSE /\ raced = FALSE
  /\ bind = Bound(file, DefaultBind)
  /\ routing = file.routing
  /\ vendor \in SUBSET Key /\ saved = vendor
  /\ subs = Adopted(<<>>, 1, saved)
  /\ nextId = Cardinality(saved) + 1
  /\ registry = RegistryOf(subs, conf)
  /\ proxy \in SyncProxy(Down, conf, bind)
  /\ shown = View(conf, bind, subs, proxy)
  /\ command = Idle

\* What the engine does of its own accord.
Loop == WatchConfig \/ Rename \/ Effect \/ Build

Next ==
  \/ HandEdit \/ Loop \/ Reload \/ Rediscover \/ Start \/ Stop
  \/ \E on \in BOOLEAN : Toggle([field |-> "enabled", value |-> on])
  \/ \E new \in Routings : Toggle([field |-> "routing", value |-> new])
  \/ \E id \in DOMAIN subs, on \in BOOLEAN :
       Toggle([field |-> "off", id |-> id, key |-> subs[id].key, value |-> on])
  \/ \E key \in Key : FinishLogin(key)
  \/ \E id \in DOMAIN subs : SignedOut(id, TRUE) \/ SignedOut(id, FALSE) \/ RemoveSub(id)

Spec == Init /\ [][Next]_vars

\* The timer of the watch fires again and again, and no handler waits for ever.
FairSpec == Spec /\ WF_vars(Loop) /\ WF_vars(Start)

----------------------------------------------------------------------------
(* The promises. *)

\* What the proxy routes by is what the records and the configuration say:
\* no account it may not use, none it has forgotten, though each handler
\* patches its own part (set_enabled, set_needs_login, remove, replace).
RoutesByRecords == command = Idle => registry = RegistryOf(subs, conf)

\* A listener that runs is one the configuration in force asks for: at its
\* address, behind its key, with its pools; and never open without a key.
ListensAsAsked ==
  command = Idle /\ proxy # Down =>
    /\ ServeProxy /\ conf.enabled
    /\ proxy = [bind |-> bind, key |-> conf.key, pools |-> conf.pools]
    /\ Loopback(proxy.bind) \/ proxy.key # None
    /\ routing = conf.routing

\* Between two handlers the proxy is what the engine says it is.
ProxyAgrees == RoutesByRecords /\ ListensAsAsked

\* No handler forgets to publish what it changed.
SnapshotIsCurrent == command = Idle => shown = View(conf, bind, subs, proxy)

\* Unless an edit met a write of the menu or the start of the engine, or that write
\* failed, or mended a file that did not load, what the engine works by is what the
\* file says, as soon as it has looked.
MemoryFollowsFile == command = Idle /\ ~ unseen /\ ~ raced /\ Loads(file) => conf = file

\* "a hand edit has to take effect on its own" (CONFIG_WATCH_INTERVAL).
EditTakesEffect ==
  \A c \in Edits : Loads(c) => (file = c /\ unseen ~> conf = c \/ file # c)
=============================================================================
