-------------------------------- MODULE Texts --------------------------------
(***************************************************************************)
(* The machines that read, write and show, which do not interact: one      *)
(* behaviour has one of them at work, its focus, and the variables of the  *)
(* others idle, as in Parts.                                               *)
(***************************************************************************)
EXTENDS Integers, Sequences

CONSTANTS None, Junk

VARIABLES
  focus,
  mode, stream, pos, buf, scanFrom, agg, seen, told, stored, counts, recorded, posted, status, ended,
  account, reading, heard, stated, moves,
  doc, memory, refused,
  history, said, forwarded, wanted, turns,
  plist, setting, launchd, process, port, plan, spoken, acts, drift,
  now, queue, table, own, server, app, mail, past, steps

streamVars ==
  <<mode, stream, pos, buf, scanFrom, agg, seen, told, stored, counts, recorded, posted, status,
    ended>>
readingVars == <<account, reading, heard, stated, moves>>
configVars == <<doc, memory, refused>>
requestVars == <<history, said, forwarded, wanted, turns>>
serviceVars == <<plist, setting, launchd, process, port, plan, spoken, acts, drift>>
watchVars == <<now, queue, table, own, server, app, mail, past, steps>>

partsVars ==
  <<focus, streamVars, readingVars, configVars, requestVars, serviceVars, watchVars>>

----------------------------------------------------------------------------
(* Streams. *)

CONSTANTS CR, LF, Data(_), Event(_), WithId(_), Answers, NoData, Blank, Done, MaxChunk

S == INSTANCE Streams WITH Streams <- Answers

\* A byte other than CR and LF is a whole line, so no two stand side by side.
ASSUME StreamsAssumption ==
  /\ CR # LF /\ MaxChunk \in Nat
  /\ \A m \in {"chained", "plain", "buffer", "claude"} : \A s \in Answers[m] :
       /\ s \in Seq({s[i] : i \in DOMAIN s})
       /\ \A i \in 1..(Len(s) - 1) : s[i] \in {CR, LF} \/ s[i + 1] \in {CR, LF}

IdleStreams ==
  /\ mode = None /\ stream = None /\ pos = None /\ buf = None /\ scanFrom = None
  /\ agg = None /\ seen = None /\ told = None /\ stored = None /\ counts = None
  /\ recorded = None /\ posted = None /\ status = None /\ ended = None

\* However upstream cuts its bytes, the framer yields the events they hold.
ChunksDoNotMatter == focus = "streams" => S!ChunksDoNotMatter

\* A chained client reads every event, each response under its own id, and
\* none that ends a turn before the store has answered for it.
ClientSeesItsChain == focus = "streams" => S!ClientSeesItsChain

\* An aggregated answer has a terminal event and every finished item.
AnswerIsWhole == focus = "streams" => S!AnswerIsWhole

\* The tokens of a Claude stream are posted once, with the last totals.
CountedOnce == focus = "streams" => S!CountedOnce

----------------------------------------------------------------------------
(* Readings. *)

CONSTANTS Percent, Changes, Ceilings

D == INSTANCE Readings WITH Gate <- Ceilings, entry <- reading, changes <- moves

\* What is there to be read, or has been read, is not what stands for nothing.
Windows ==
  [pct : Int, resets_at : Int \cup {None}, started_at : Int \cup {None}]
RawWindows ==
  [utilization : Int, resets_at : Int \cup {None, Junk}]
    \cup [used_percent : Int, width : Int \cup {None}, reset_at : Int \cup {None},
          reset_after : Int \cup {None}]

ASSUME ReadingsAssumption ==
  /\ Percent \subseteq Int /\ None # Junk
  /\ None \notin Int \cup BOOLEAN \cup Windows \cup RawWindows /\ Junk \notin Int

IdleReadings ==
  /\ account = None /\ reading = None /\ heard = None /\ stated = None /\ moves = None

\* A body, or a set of headers, is understood as the provider meant it.
ReadingIsHonest == focus = "readings" => D!ReadingIsHonest

----------------------------------------------------------------------------
(* ConfigFile. *)

CONSTANTS
  Malformed, Documents, Writes, Providers, Lower(_), Unroutable, Fractions, Strategies,
  Loopback(_), Duration(_)

C == INSTANCE ConfigFile

IdleConfig ==
  /\ doc = None /\ memory = None /\ refused = None

\* A file the menu writes to loads as what the engine works with.
FileMeansMemory == focus = "config" => C!FileMeansMemory

----------------------------------------------------------------------------
(* Requests. *)

CONSTANTS
  Text, ProxyKey, Paths, PoolNames, Bodies, Objects, ObjectItem(_), Systems, Betas, MaxTurns

Q == INSTANCE Requests WITH
       Pools <- PoolNames, stored <- history, sent <- forwarded, asked <- wanted

\* What is said: the items of bodies, the answers, the blocks of a system prompt,
\* the tokens of a header and the segments of a path.
SaidItems ==
  UNION {{Q!Field(b, "input")[i] : i \in DOMAIN Q!Field(b, "input")} :
           b \in {c \in Bodies : Q!Field(c, "input") \notin {None, Text} \cup Objects}}
    \cup {ObjectItem(o) : o \in Objects}
PartTexts == Nat \cup {Text} \cup UNION {{i.parts[k].text : k \in DOMAIN i.parts} :
                                          i \in {j \in SaidItems : j.parts # None}}
ItemParts == Seq([text : PartTexts, mark : BOOLEAN])
Items ==
  [role : {"user", "assistant", "developer"} \cup {i.role : i \in SaidItems}, mark : BOOLEAN,
   parts : {None} \cup ItemParts]
SystemBlocks == {"identity"} \cup UNION {{s[i] : i \in DOMAIN s} : s \in Systems \ {None}}
BetaTokens == {"oauth"} \cup UNION {UNION {{h[i][j] : j \in DOMAIN h[i]} : i \in DOMAIN h} : h \in Betas}
Segments == {"pool"} \cup PoolNames \cup UNION {{p[i] : i \in DOMAIN p} : p \in Paths}

\* An array is neither null, a text nor an object.  No bare path begins with the prefix of
\* the pools, no pool has an empty name, and the key is not empty.
ASSUME RequestsAssumption ==
  /\ \A b \in Bodies : /\ b = [k \in DOMAIN b |-> b[k]]
                       /\ Q!Field(b, "input") \in {None, Text} \cup Objects \cup Seq(Items)
  /\ None # Text /\ None \notin ItemParts
  /\ ({None, Text} \cup Objects) \cap Seq(Items) = {} /\ {None, Text} \cap Objects = {}
  /\ \A o \in Objects : ObjectItem(o) \in Items
  /\ Systems \subseteq {None} \cup Seq(SystemBlocks) /\ None \notin Seq(SystemBlocks)
  /\ Betas \subseteq Seq(Seq(BetaTokens))
  /\ Paths \subseteq Seq(Segments) /\ \A p \in Paths : p # <<>> => p[1] # "pool"
  /\ PoolNames \cap {"", None} = {} /\ ProxyKey # None

IdleRequests ==
  /\ history = None /\ said = None /\ forwarded = None /\ wanted = None /\ turns = None

\* However a request is spelled, the upstream is sent what it accepts, and
\* all that was said.
RequestsAreUnderstood == focus = "requests" => Q!RequestsAreUnderstood

----------------------------------------------------------------------------
(* Service. *)

CONSTANTS Pid, MaxActs

V == INSTANCE Service WITH job <- launchd, told <- spoken

\* A running program, or one on its way up or out.
Processes ==
  [role : {V!App, V!Serve}, at : {"asking", "loading", "up", "unbound", "lingering", "exiting"},
   memory : BOOLEAN, shown : BOOLEAN, seen : BOOLEAN, due : BOOLEAN]

ASSUME ServiceAssumption == Pid # {} /\ None \notin Pid \cup Processes \cup {V!App, V!Serve}

IdleService ==
  /\ plist = None /\ setting = None /\ launchd = None /\ process = None /\ port = None
  /\ plan = None /\ spoken = None /\ acts = None /\ drift = None

\* The launch agent is installed when the setting says so, once everyone has
\* looked.
PlistFollowsSetting == focus = "service" => V!PlistFollowsSetting

----------------------------------------------------------------------------
(* Watch. *)

CONSTANTS
  EndpointOf, Capacity, Retain, MaxHold, Key, Adopted, Kinds, Pcts, Tokens, Tabs, Keys, Jumps,
  Columns, Height, Start, MaxNow, MaxMoves

W == INSTANCE Watch WITH Pools <- Tabs, moves <- steps

IdleWatch ==
  /\ now = None /\ queue = None /\ table = None /\ own = None /\ server = None
  /\ app = None /\ mail = None /\ past = None /\ steps = None

\* The screen shows what was read and served, of the account, endpoint and
\* range it names.
ScreenIsTrue == focus = "watch" => W!ScreenIsTrue

----------------------------------------------------------------------------
PartsInit ==
  \/ focus = "streams" /\ S!Init
     /\ IdleReadings /\ IdleConfig /\ IdleRequests /\ IdleService /\ IdleWatch
  \/ focus = "readings" /\ D!Init
     /\ IdleStreams /\ IdleConfig /\ IdleRequests /\ IdleService /\ IdleWatch
  \/ focus = "config" /\ C!Init
     /\ IdleStreams /\ IdleReadings /\ IdleRequests /\ IdleService /\ IdleWatch
  \/ focus = "requests" /\ Q!Init
     /\ IdleStreams /\ IdleReadings /\ IdleConfig /\ IdleService /\ IdleWatch
  \/ focus = "service" /\ V!Init
     /\ IdleStreams /\ IdleReadings /\ IdleConfig /\ IdleRequests /\ IdleWatch
  \/ focus = "watch" /\ W!Init
     /\ IdleStreams /\ IdleReadings /\ IdleConfig /\ IdleRequests /\ IdleService

PartsNext ==
  \/ focus = "streams" /\ S!Next
     /\ UNCHANGED <<focus, readingVars, configVars, requestVars, serviceVars, watchVars>>
  \/ focus = "readings" /\ D!Next
     /\ UNCHANGED <<focus, streamVars, configVars, requestVars, serviceVars, watchVars>>
  \/ focus = "config" /\ C!Next
     /\ UNCHANGED <<focus, streamVars, readingVars, requestVars, serviceVars, watchVars>>
  \/ focus = "requests" /\ Q!Next
     /\ UNCHANGED <<focus, streamVars, readingVars, configVars, serviceVars, watchVars>>
  \/ focus = "service" /\ V!Next
     /\ UNCHANGED <<focus, streamVars, readingVars, configVars, requestVars, watchVars>>
  \/ focus = "watch" /\ W!Next
     /\ UNCHANGED <<focus, streamVars, readingVars, configVars, requestVars, serviceVars>>

PartsSpec == PartsInit /\ [][PartsNext]_partsVars
=============================================================================
