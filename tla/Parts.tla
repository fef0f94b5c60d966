-------------------------------- MODULE Parts --------------------------------
(***************************************************************************)
(* The machines of the engine and of the accounts, which do not interact:  *)
(* one behaviour has one of them at work, its focus, and the variables of  *)
(* the others idle.  Each has its section: its constants, its instance,    *)
(* its properties.  Credentials is extended, the others are instances.     *)
(***************************************************************************)
EXTENDS Credentials

VARIABLES
  focus,
  file, unseen, conf, bind, routing, subs, nextId, saved, discoverable, routed, proxy, shown,
  command, raced,
  clock, entry, poll, nextRound, settled, failing, given, began,
  time, table, heap, guards, epoch, posts,
  hour, polled, newer, quarantined, ui, severities, snapshot, raised, happened,
  standing, known, pool, req, asked, arrived, changes,
  accounts, overrides, gate, date, figured,
  instant, cache, version, listed, serving, fetch, begun, changed,
  auth, wallet, profile, ours, stowed, writeDue, looking, minted, torn, lost,
  flows, handle, queue, login, port, stopping, overlapped

engineVars ==
  <<file, unseen, conf, bind, routing, subs, nextId, saved, discoverable, routed, proxy, shown,
    command, raced>>
usageVars == <<clock, entry, poll, nextRound, settled, failing, given, began>>
metricVars == <<time, table, heap, guards, epoch, posts>>
roundVars == <<hour, polled, newer, quarantined, ui, severities, snapshot, raised, happened>>
forwardingVars == <<standing, known, pool, req, asked, arrived, changes>>
figureVars == <<accounts, overrides, gate, date, figured>>
catalogVars == <<instant, cache, version, listed, serving, fetch, begun, changed>>
discoveryVars == <<auth, wallet, profile, ours, stowed, writeDue, looking, minted, torn, lost>>
signInVars == <<flows, handle, queue, login, port, stopping, overlapped>>

partsVars ==
  <<focus, engineVars, usageVars, metricVars, roundVars, forwardingVars, vars, figureVars,
    catalogVars, discoveryVars, signInVars>>

----------------------------------------------------------------------------
(* Engine. *)

CONSTANTS
  SubKey, Malformed, Routings, Valid(_), Resolves(_), Loopback(_), DefaultBind, Edits,
  ServeProxy, MaxId

\* What a configuration that parses is made of: enough to be read and set key by key.
Settings == {"enabled", "bind", "key", "routing", "pools", "off"}

IsConfig(c) == DOMAIN c = Settings /\ c.enabled \in BOOLEAN

ASSUME SubKeyAssumption == IsFiniteSet(SubKey)
ASSUME ServeProxyAssumption == ServeProxy \in BOOLEAN
ASSUME EditsAssumption == \A c \in Edits : c = Malformed \/ IsConfig(c)

E == INSTANCE Engine WITH Key <- SubKey, vendor <- discoverable, registry <- routed

IdleEngine ==
  /\ file = None /\ unseen = None /\ conf = None /\ bind = None /\ routing = None
  /\ subs = None /\ nextId = None /\ saved = None /\ discoverable = None /\ routed = None
  /\ proxy = None /\ shown = None /\ command = None /\ raced = None

\* The proxy routes by what the records and the configuration say, and
\* listens as they ask.
ProxyAgrees == focus = "engine" => E!ProxyAgrees

\* Between two handlers the published snapshot is the state.
SnapshotIsCurrent == focus = "engine" => E!SnapshotIsCurrent

\* What the engine works by is what the file says, once it has looked.
MemoryFollowsFile == focus = "engine" => E!MemoryFollowsFile

----------------------------------------------------------------------------
(* UsageCache. *)

CONSTANTS Poller, Round, Interval, TTL, Backoff, Deadline, Floor, MaxFailures, MaxClock

U == INSTANCE UsageCache WITH Caller <- Poller, MaxNow <- MaxClock

\* The ladder does not descend, and its second rung is a healthy account's wait.
ASSUME LadderAssumption ==
  /\ TTL \in Nat /\ Deadline \in Nat /\ Floor \in Nat
  /\ Backoff \in Seq(Nat) /\ Len(Backoff) > 1 /\ TTL <= Backoff[2]
  /\ \A i, j \in 1..Len(Backoff) : i <= j => Backoff[i] <= Backoff[j]
ASSUME EntryAssumption == None \notin Nat \cup U!Entries

\* The engine's rounds are among those who ask.
ASSUME RoundAssumption == Round \in Poller /\ Interval \in Nat

IdleUsage ==
  /\ clock = None /\ entry = None /\ poll = None /\ nextRound = None /\ settled = None
  /\ failing = None /\ given = None /\ began = None

\* An unforced poll waits out the failures before it.
PollsArePaced == focus = "usage" => U!PollsArePaced

\* No figure is handed out that is older than whoever takes it counts on.
StalenessIsBounded == focus = "usage" => U!StalenessIsBounded

----------------------------------------------------------------------------
(* Metrics. *)

CONSTANTS Sub, Pool, Tried, Hour, MaxTicks, MaxPosts, MaxForgets, MaxTime

M == INSTANCE Metrics

\* An account's key is not a pool's name: they are kept in two maps.
ASSUME AttemptAssumption ==
  /\ IsFiniteSet(Tried) /\ Sub \cap Pool = {} /\ None \notin Sub \cup Pool \cup M!Attempts
  /\ Hour \in Nat /\ MaxTicks \in Nat

IdleMetrics ==
  /\ time = None /\ table = None /\ heap = None /\ guards = None /\ epoch = None
  /\ posts = None

\* The in-flight gauges count the attempts at work, and the tokens of the
\* hour are those posted in it, removals or not.
CountersAgree == focus = "metrics" => M!CountersAgree

----------------------------------------------------------------------------
(* Rounds. *)

CONSTANTS Account, Kind, Percent, Thresholds, RecheckInterval, MaxHappened, MaxHour

R == INSTANCE Rounds WITH
       Window <- Kind, MaxEvents <- MaxHappened, record <- polled, events <- happened

ASSUME ReadingAssumption ==
  IsFiniteSet(Kind) /\ None \notin Nat \cup R!Readings \cup DOMAIN R!Rank

IdleRounds ==
  /\ hour = None /\ polled = None /\ newer = None /\ quarantined = None /\ ui = None
  /\ severities = None /\ snapshot = None /\ raised = None /\ happened = None

\* A window announces each band it rises into, once, and nothing else.
AlertsAreCrossings == focus = "rounds" => R!AlertsAreCrossings

\* The health a snapshot shows is what the polls of the account came to.
HealthIsHonest == focus = "rounds" => R!HealthIsHonest

----------------------------------------------------------------------------
(* Forwarding. *)

CONSTANTS Target, Resends, MaxChanges

F == INSTANCE Forwarding WITH live <- standing

ASSUME TargetAssumption == IsFiniteSet(Target) /\ Resends \in Nat
ASSUME RequestAssumption == None \notin Nat \cup F!Requests

IdleForwarding ==
  /\ standing = None /\ known = None /\ pool = None /\ req = None /\ asked = None
  /\ arrived = None /\ changes = None

\* A request is put to members of the pool it came in on, and no others.
StaysInPool == focus = "forwarding" => F!StaysInPool

\* The first selection settles how often a request can be paid for.
CostIsBounded == focus = "forwarding" => F!CostIsBounded

----------------------------------------------------------------------------
(* Credentials, which this module extends. *)

\* It has nothing to do while another is the focus.
IdleCredentials == Init /\ ~ adopted

----------------------------------------------------------------------------
(* Figures. *)

CONSTANTS
  MaxSubId, Labels, Brief(_), Names, Plans, Spelt(_), Overrides, SubReadings, Warn, Critical, Gates,
  MaxMoves, MaxDate

L == INSTANCE Figures WITH
       MaxId <- MaxSubId, Readings <- SubReadings, MaxNow <- MaxDate, now <- date, moves <- figured

IdleFigures ==
  /\ accounts = None /\ overrides = None /\ gate = None /\ date = None /\ figured = None

\* Labels tell accounts apart, and no figure says more than was read.
FiguresAreHonest == focus = "figures" => L!FiguresAreHonest

----------------------------------------------------------------------------
(* Catalog: of the accounts that requests are put to. *)

CONSTANTS Asker, CacheTtl, VersionTtl, Fallback, MaxAsked, MaxMoment

C == INSTANCE Catalog WITH Account <- Target, MaxNow <- MaxMoment, now <- instant, current <- serving

ASSUME TargetIsNotNone == None \notin Target

IdleCatalog ==
  /\ instant = None /\ cache = None /\ version = None /\ listed = None /\ serving = None
  /\ fetch = None /\ begun = None /\ changed = None

\* One request for the catalog asks an account at most twice, and fails only
\* if there was no list.
CatalogIsSparing == focus = "catalog" => C!CatalogIsSparing

----------------------------------------------------------------------------
(* Discovery. *)

CONSTANTS Person, Codex(_), Profile(_), Grant(_), Coder, Logins, WalletPlans, MaxMinted

D == INSTANCE Discovery WITH
       Account <- Person, Plans <- WalletPlans, MaxMoves <- MaxMinted,
       records <- ours, kept <- stowed, job <- looking

\* What a vendor's tool keeps of an account names it as its provider does.
ASSUME IdentityAssumption ==
  /\ Coder \subseteq Person /\ Logins \subseteq {"codex", "claude"} \X Person
  /\ \A a \in Coder : /\ DOMAIN Codex(a) = {"access", "account_id", "claims"}
                      /\ D!CodexKey(Codex(a)) = D!KeyOf("codex", a)
  /\ \A a \in Person : D!ClaudeKey(a) = D!KeyOf("claude", a)

IdleDiscovery ==
  /\ auth = None /\ wallet = None /\ profile = None /\ ours = None /\ stowed = None
  /\ writeDue = None /\ looking = None /\ minted = None /\ torn = None /\ lost = None

\* Every account has one record, with its own tokens, and subs.json catches
\* up.
RecordsAreTheirOwn == focus = "discovery" => D!RecordsAreTheirOwn

----------------------------------------------------------------------------
(* SignIn. *)

CONSTANTS Provider, MaxFlow

N == INSTANCE SignIn WITH crossed <- overlapped

ASSUME FlowAssumption == None \notin Nat \cup {"awaiting"}

IdleSignIn ==
  /\ flows = None /\ handle = None /\ queue = None /\ login = None /\ port = None
  /\ stopping = None /\ overlapped = None

\* The engine can abort every sign-in that it has not given up.
HandleReachesFlow == focus = "signin" => N!HandleReachesFlow

----------------------------------------------------------------------------
PartsInit ==
  \/ focus = "engine" /\ E!Init
     /\ IdleUsage /\ IdleMetrics /\ IdleRounds /\ IdleForwarding /\ IdleCredentials /\ IdleFigures
     /\ IdleCatalog /\ IdleDiscovery /\ IdleSignIn
  \/ focus = "usage" /\ U!Init
     /\ IdleEngine /\ IdleMetrics /\ IdleRounds /\ IdleForwarding /\ IdleCredentials
     /\ IdleFigures /\ IdleCatalog /\ IdleDiscovery /\ IdleSignIn
  \/ focus = "metrics" /\ M!Init
     /\ IdleEngine /\ IdleUsage /\ IdleRounds /\ IdleForwarding /\ IdleCredentials /\ IdleFigures
     /\ IdleCatalog /\ IdleDiscovery /\ IdleSignIn
  \/ focus = "rounds" /\ R!Init
     /\ IdleEngine /\ IdleUsage /\ IdleMetrics /\ IdleForwarding /\ IdleCredentials /\ IdleFigures
     /\ IdleCatalog /\ IdleDiscovery /\ IdleSignIn
  \/ focus = "forwarding" /\ F!Init
     /\ IdleEngine /\ IdleUsage /\ IdleMetrics /\ IdleRounds /\ IdleCredentials /\ IdleFigures
     /\ IdleCatalog /\ IdleDiscovery /\ IdleSignIn
  \/ focus = "credentials" /\ Init
     /\ IdleEngine /\ IdleUsage /\ IdleMetrics /\ IdleRounds /\ IdleForwarding /\ IdleFigures
     /\ IdleCatalog /\ IdleDiscovery /\ IdleSignIn
  \/ focus = "figures" /\ L!Init
     /\ IdleEngine /\ IdleUsage /\ IdleMetrics /\ IdleRounds /\ IdleForwarding /\ IdleCredentials
     /\ IdleCatalog /\ IdleDiscovery /\ IdleSignIn
  \/ focus = "catalog" /\ C!Init
     /\ IdleEngine /\ IdleUsage /\ IdleMetrics /\ IdleRounds /\ IdleForwarding /\ IdleCredentials
     /\ IdleFigures /\ IdleDiscovery /\ IdleSignIn
  \/ focus = "discovery" /\ D!Init
     /\ IdleEngine /\ IdleUsage /\ IdleMetrics /\ IdleRounds /\ IdleForwarding /\ IdleCredentials
     /\ IdleFigures /\ IdleCatalog /\ IdleSignIn
  \/ focus = "signin" /\ N!Init
     /\ IdleEngine /\ IdleUsage /\ IdleMetrics /\ IdleRounds /\ IdleForwarding /\ IdleCredentials
     /\ IdleFigures /\ IdleCatalog /\ IdleDiscovery

PartsNext ==
  \/ focus = "engine" /\ E!Next
     /\ UNCHANGED <<focus, usageVars, metricVars, roundVars, forwardingVars, vars, figureVars,
                    catalogVars, discoveryVars, signInVars>>
  \/ focus = "usage" /\ U!Next
     /\ UNCHANGED <<focus, engineVars, metricVars, roundVars, forwardingVars, vars, figureVars,
                    catalogVars, discoveryVars, signInVars>>
  \/ focus = "metrics" /\ M!Next
     /\ UNCHANGED <<focus, engineVars, usageVars, roundVars, forwardingVars, vars, figureVars,
                    catalogVars, discoveryVars, signInVars>>
  \/ focus = "rounds" /\ R!Next
     /\ UNCHANGED <<focus, engineVars, usageVars, metricVars, forwardingVars, vars, figureVars,
                    catalogVars, discoveryVars, signInVars>>
  \/ focus = "forwarding" /\ F!Next
     /\ UNCHANGED <<focus, engineVars, usageVars, metricVars, roundVars, vars, figureVars,
                    catalogVars, discoveryVars, signInVars>>
  \/ focus = "credentials" /\ Next
     /\ UNCHANGED <<focus, engineVars, usageVars, metricVars, roundVars, forwardingVars,
                    figureVars, catalogVars, discoveryVars, signInVars>>
  \/ focus = "figures" /\ L!Next
     /\ UNCHANGED <<focus, engineVars, usageVars, metricVars, roundVars, forwardingVars, vars,
                    catalogVars, discoveryVars, signInVars>>
  \/ focus = "catalog" /\ C!Next
     /\ UNCHANGED <<focus, engineVars, usageVars, metricVars, roundVars, forwardingVars, vars,
                    figureVars, discoveryVars, signInVars>>
  \/ focus = "discovery" /\ D!Next
     /\ UNCHANGED <<focus, engineVars, usageVars, metricVars, roundVars, forwardingVars, vars,
                    figureVars, catalogVars, signInVars>>
  \/ focus = "signin" /\ N!Next
     /\ UNCHANGED <<focus, engineVars, usageVars, metricVars, roundVars, forwardingVars, vars,
                    figureVars, catalogVars, discoveryVars>>

PartsSpec == PartsInit /\ [][PartsNext]_partsVars
=============================================================================
