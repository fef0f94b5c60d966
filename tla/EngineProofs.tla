---------------------------- MODULE EngineProofs ----------------------------
(***************************************************************************)
(* Proofs about the engine, for every set of accounts, every configuration *)
(* a user may save, every rule of what is valid, resolves or is loopback;  *)
(* about the sign-ins it starts (SignIn); and about the accounts it finds  *)
(* on the machine and the records it keeps of them (Discovery).            *)
(*                                                                         *)
(* What holds between two handlers is kept through a toggle only because   *)
(* of what is known in the middle of one: memory is a key ahead of the     *)
(* file, and one cache is a key behind memory.                             *)
(*                                                                         *)
(* About Credentials, for any number of requests, of OnceCells and of      *)
(* rotations.  That one refresh is on the wire at a time does not follow   *)
(* from itself: a caller that waits for a cell without an outcome must     *)
(* find that cell in the map, so that whoever comes next joins it.  That   *)
(* no rotation is needless needs that the reason a request had for its     *)
(* refresh still stands when it is answered.                               *)
(***************************************************************************)
EXTENDS Parts, Sums

IsText(text) == text = Malformed \/ IsConfig(text)

\* What is on disk, also when the engine is not there.
OnDisk ==
  /\ IsText(file)
  /\ saved \in SUBSET SubKey /\ discoverable \in SUBSET SubKey

SubRecord == [key : SubKey, needsLogin : BOOLEAN]

OneRecordEach(records) ==
  \A i, j \in DOMAIN records : records[i].key = records[j].key => i = j

Records ==
  /\ subs \in [DOMAIN subs -> SubRecord]
  /\ OneRecordEach(subs)
  /\ nextId \in Nat

IsChange(c) ==
  \/ c.field = "enabled" /\ c.value \in BOOLEAN
  \/ c.field = "routing"
  \/ /\ c.field = "off" /\ c.value \in BOOLEAN
     /\ c.id \in DOMAIN subs /\ c.key = subs[c.id].key

InToggle ==
  /\ command = [at |-> command.at, text |-> command.text, change |-> command.change]
  /\ command.at \in {"read", "written", "failed"}
  /\ command.at = "read" => IsText(command.text)
  /\ IsChange(command.change)

\* A handler is at work, and what it has still to do is about this key.
Pending(field) == command # E!Idle /\ command.change.field = field

Listener ==
  proxy # E!Down =>
    /\ ServeProxy
    /\ proxy = [bind |-> bind, key |-> conf.key, pools |-> conf.pools]
    /\ Loopback(bind) \/ conf.key # None
    /\ conf.enabled \/ Pending("enabled")

Routes ==
  IF Pending("off")
  THEN [routed EXCEPT ![command.change.id].enabled = command.change.value] = E!RegistryOf(subs, conf)
  ELSE routed = E!RegistryOf(subs, conf)

Memory ==
  ~ raced =>
    /\ command = E!Idle /\ ~ unseen /\ E!Loads(file) => conf = file
    /\ command # E!Idle => command.at # "failed"
    /\ command # E!Idle /\ command.at = "read" =>
         command.text = file /\ conf = E!Set(file, command.change)
    /\ command # E!Idle /\ command.at = "written" => conf = file

Published == command = E!Idle => shown = E!View(conf, bind, subs, proxy)

InForce ==
  /\ command = E!Idle \/ InToggle
  /\ IsConfig(conf)
  /\ Records
  /\ Listener
  /\ routing = conf.routing \/ Pending("routing")
  /\ Routes
  /\ Memory
  /\ Published

\* What the engine that starts has loaded is still in the file, or an edit met it.
AtStart ==
  /\ command.at = "loaded"
  /\ IsConfig(command.text)
  /\ ~ raced => command.text = file

EngineInv == OnDisk /\ (command = E!Stopped \/ AtStart \/ InForce)

----------------------------------------------------------------------------
(* Adopting accounts. *)

Order(keys) ==
  CHOOSE f \in [1..Cardinality(keys) -> keys] : \A i, j \in DOMAIN f : i # j => f[i] # f[j]

\* An instance has its own copy of what it extends.
LEMMA SameCardinality == \A S : E!Cardinality(S) = Cardinality(S)
BY DEF E!Cardinality, Cardinality

LEMMA OrderIsOne ==
  ASSUME NEW keys \in SUBSET SubKey
  PROVE  /\ Cardinality(keys) \in Nat
         /\ Order(keys) \in [1..Cardinality(keys) -> keys]
         /\ \A i, j \in 1..Cardinality(keys) : i # j => Order(keys)[i] # Order(keys)[j]
<1>1. IsFiniteSet(keys)  BY SubKeyAssumption, FS_Subset
<1>2. Cardinality(keys) \in Nat /\ ExistsBijection(1..Cardinality(keys), keys)
  BY <1>1, FS_CardinalityType
<1>3. PICK f \in [1..Cardinality(keys) -> keys] :
             \A i, j \in 1..Cardinality(keys) : i # j => f[i] # f[j]
  BY <1>2 DEF ExistsBijection, Bijection, Injection, IsInjective
<1> DEFINE P(g) == \A i, j \in DOMAIN g : i # j => g[i] # g[j]
<1>4. P(f)  BY <1>3
<1>5. \E g \in [1..Cardinality(keys) -> keys] : P(g)  BY <1>3, <1>4
<1>6. /\ Order(keys) \in [1..Cardinality(keys) -> keys]
      /\ P(Order(keys))
  <2> HIDE DEF P
  <2>1. Order(keys) = CHOOSE g \in [1..Cardinality(keys) -> keys] : P(g)
    BY DEF Order, P
  <2> QED BY <1>5, <2>1
<1> QED BY <1>2, <1>6

LEMMA AdoptedIs ==
  ASSUME NEW records, NEW first, NEW keys
  PROVE  E!Adopted(records, first, keys) =
           [id \in DOMAIN records \cup first..(first + Cardinality(keys) - 1) |->
              IF id \in DOMAIN records THEN records[id]
              ELSE [key |-> Order(keys)[id - first + 1], needsLogin |-> FALSE]]
BY SameCardinality DEF E!Adopted, Order

LEMMA AdoptedNone ==
  ASSUME NEW records, records \in [DOMAIN records -> SubRecord], NEW first \in Nat
  PROVE  E!Adopted(records, first, {}) = records
<1>1. Cardinality({}) = 0  BY FS_EmptySet
<1>2. first..(first + Cardinality({}) - 1) = {}  BY <1>1
<1>3. E!Adopted(records, first, {}) = [id \in DOMAIN records |-> records[id]]
  BY <1>2, AdoptedIs
<1> QED BY <1>3

\* Adopting accounts that are not known leaves every account one record.
LEMMA AdoptedRecords ==
  ASSUME NEW records, records \in [DOMAIN records -> SubRecord], OneRecordEach(records),
         NEW first \in Nat, NEW keys \in SUBSET SubKey, keys \cap E!KeysOf(records) = {}
  PROVE  LET all == E!Adopted(records, first, keys)
         IN  /\ all \in [DOMAIN all -> SubRecord]
             /\ OneRecordEach(all)
             /\ E!KeysOf(all) \subseteq E!KeysOf(records) \cup keys
<1> DEFINE n == Cardinality(keys)
           all == E!Adopted(records, first, keys)
           dom == DOMAIN records \cup first..(first + n - 1)
<1>0. n \in Nat  BY OrderIsOne
<1>1. DOMAIN all = dom  BY AdoptedIs
<1>2. \A id \in DOMAIN records : all[id] = records[id]  BY AdoptedIs
<1>3. \A id \in dom \ DOMAIN records :
        /\ id - first + 1 \in 1..n
        /\ all[id] = [key |-> Order(keys)[id - first + 1], needsLogin |-> FALSE]
  <2> TAKE id \in dom \ DOMAIN records
  <2>1. id \in first..(first + n - 1)  OBVIOUS
  <2>2. id - first + 1 \in 1..n  BY <2>1, <1>0
  <2>3. all[id] = [key |-> Order(keys)[id - first + 1], needsLogin |-> FALSE]  BY AdoptedIs
  <2> QED BY <2>2, <2>3
<1>4. \A id \in dom \ DOMAIN records : all[id] \in SubRecord /\ all[id].key \in keys
  <2> TAKE id \in dom \ DOMAIN records
  <2>1. Order(keys)[id - first + 1] \in keys  BY <1>0, <1>3, OrderIsOne
  <2>2. all[id] = [key |-> Order(keys)[id - first + 1], needsLogin |-> FALSE]  BY <1>3
  <2>3. Order(keys)[id - first + 1] \in SubKey  BY <2>1
  <2> HIDE DEF all
  <2> QED BY <2>1, <2>2, <2>3 DEF SubRecord
<1>5. all = [id \in dom |-> all[id]]  BY AdoptedIs
<1> HIDE DEF all
<1>6. all \in [DOMAIN all -> SubRecord]  BY <1>1, <1>2, <1>4, <1>5
<1>7. OneRecordEach(all)
  <2> SUFFICES ASSUME NEW i \in dom, NEW j \in dom, all[i].key = all[j].key, i # j
               PROVE  FALSE
    BY <1>1 DEF OneRecordEach
  <2>1. CASE i \in DOMAIN records /\ j \in DOMAIN records
    BY <2>1, <1>2 DEF OneRecordEach
  <2>2. CASE i \in DOMAIN records /\ j \notin DOMAIN records
    BY <2>2, <1>2, <1>4 DEF E!KeysOf
  <2>3. CASE i \notin DOMAIN records /\ j \in DOMAIN records
    BY <2>3, <1>2, <1>4 DEF E!KeysOf
  <2>4. CASE i \notin DOMAIN records /\ j \notin DOMAIN records
    <3>1. i \in first..(first + n - 1) /\ j \in first..(first + n - 1)  BY <2>4
    <3>2. i - first + 1 # j - first + 1  BY <3>1, <1>0
    <3>3. /\ all[i] = [key |-> Order(keys)[i - first + 1], needsLogin |-> FALSE]
          /\ all[j] = [key |-> Order(keys)[j - first + 1], needsLogin |-> FALSE]
          /\ i - first + 1 \in 1..n /\ j - first + 1 \in 1..n
      BY <2>4, <1>3
    <3>4. Order(keys)[i - first + 1] = Order(keys)[j - first + 1]  BY <3>3
    <3> QED BY <3>2, <3>3, <3>4, OrderIsOne
  <2> QED BY <2>1, <2>2, <2>3, <2>4
<1>8. E!KeysOf(all) \subseteq E!KeysOf(records) \cup keys
  BY <1>1, <1>2, <1>4 DEF E!KeysOf
<1> QED BY <1>6, <1>7, <1>8 DEF all

LEMMA FirstRecords ==
  ASSUME NEW keys \in SUBSET SubKey
  PROVE  LET all == E!Adopted(<<>>, 1, keys)
         IN  /\ all \in [DOMAIN all -> SubRecord]
             /\ OneRecordEach(all)
             /\ E!KeysOf(all) \subseteq keys
<1>1. DOMAIN <<>> = {}  OBVIOUS
<1>2. <<>> \in [DOMAIN <<>> -> SubRecord]  OBVIOUS
<1>3. OneRecordEach(<<>>) /\ E!KeysOf(<<>>) = {}  BY <1>1 DEF OneRecordEach, E!KeysOf
<1> DEFINE all == E!Adopted(<<>>, 1, keys)
<1>4. /\ all \in [DOMAIN all -> SubRecord] /\ OneRecordEach(all)
      /\ E!KeysOf(all) \subseteq E!KeysOf(<<>>) \cup keys
  <2>1. ASSUME NEW none, none = <<>>
        PROVE  LET some == E!Adopted(none, 1, keys)
               IN  /\ some \in [DOMAIN some -> SubRecord] /\ OneRecordEach(some)
                   /\ E!KeysOf(some) \subseteq E!KeysOf(none) \cup keys
    <3>1. none \in [DOMAIN none -> SubRecord]  BY <2>1, <1>2
    <3>2. OneRecordEach(none) /\ keys \cap E!KeysOf(none) = {}  BY <2>1, <1>3
    <3> QED BY <3>1, <3>2, AdoptedRecords
  <2> QED BY <2>1
<1> QED BY <1>3, <1>4

----------------------------------------------------------------------------
(* The listener. *)

\* p listens as it once was asked to, with the pools of c.
Listens(p, c) ==
  p = E!Down \/ \E b, k : /\ p = [bind |-> b, key |-> k, pools |-> c.pools]
                          /\ Loopback(b) \/ k # None

\* q listens as c asks, at b.
ListensFor(q, c, b) ==
  q # E!Down =>
    /\ ServeProxy /\ c.enabled
    /\ q = [bind |-> b, key |-> c.key, pools |-> c.pools]
    /\ Loopback(b) \/ c.key # None

LEMMA SyncedListener ==
  ASSUME NEW p, NEW c, NEW b, IsConfig(c), Listens(p, c), NEW q \in E!SyncProxy(p, c, b)
  PROVE  ListensFor(q, c, b)
<1>0. ServeProxy \in BOOLEAN /\ c.enabled \in BOOLEAN  BY ServeProxyAssumption DEF IsConfig
<1>1. CASE ~ (ServeProxy /\ c.enabled)
  BY <1>1 DEF E!SyncProxy, ListensFor
<1>2. CASE ServeProxy /\ c.enabled /\ (p = E!Down \/ p.bind # b \/ p.key # c.key)
  <2>1. q \in E!Started(c, b)  BY <1>2 DEF E!SyncProxy
  <2> QED BY <2>1, <1>2 DEF E!Started, ListensFor
<1>3. CASE ServeProxy /\ c.enabled /\ ~ (p = E!Down \/ p.bind # b \/ p.key # c.key)
  <2>1. q = p  BY <1>3 DEF E!SyncProxy
  <2> QED BY <2>1, <1>3 DEF Listens, ListensFor
<1> QED BY <1>0, <1>1, <1>2, <1>3

\* A running listener is handed the pools of c.
LEMMA HandedPools ==
  ASSUME NEW p, NEW old, Listens(p, old), NEW c
  PROVE  Listens(E!SyncPools(p, c), c)
<1>1. CASE p = E!Down  BY <1>1 DEF E!SyncPools, Listens
<1>2. CASE p # E!Down
  <2>1. PICK b, k : p = [bind |-> b, key |-> k, pools |-> old.pools] /\ (Loopback(b) \/ k # None)
    BY <1>2 DEF Listens
  <2>2. E!SyncPools(p, c) = [bind |-> b, key |-> k, pools |-> c.pools]
    BY <1>2, <2>1 DEF E!SyncPools
  <2> QED BY <2>1, <2>2 DEF Listens
<1> QED BY <1>1, <1>2

LEMMA ListenerListens ==
  ASSUME Listener
  PROVE  Listens(proxy, conf)
BY DEF Listener, Listens

LEMMA ListenerPrimed ==
  ASSUME ListensFor(proxy, conf, bind)'
  PROVE  Listener'
BY DEF ListensFor, Listener

----------------------------------------------------------------------------
(* One lemma for each action. *)

LEMMA AtRest ==
  ASSUME EngineInv, command = E!Idle
  PROVE  /\ InForce /\ OnDisk
         /\ routing = conf.routing /\ routed = E!RegistryOf(subs, conf)
BY DEF EngineInv, AtStart, E!Idle, E!Stopped, InForce, Pending, Routes

LEMMA EngineStarts ==
  ASSUME E!Init
  PROVE  EngineInv
<1> USE DEF E!Init
<1>1. OnDisk
  BY EditsAssumption DEF OnDisk, IsText
<1>2. IsConfig(conf)  BY EditsAssumption DEF E!Loads
<1>3. Records
  <2>1. saved \in SUBSET SubKey  OBVIOUS
  <2>2. nextId \in Nat  BY <2>1, OrderIsOne, SameCardinality
  <2> QED BY <2>1, <2>2, FirstRecords DEF Records
<1>4. Listener
  <2>1. Listens(E!Down, conf)  BY DEF Listens
  <2>2. ListensFor(proxy, conf, bind)  BY <2>1, <1>2, SyncedListener
  <2> QED BY <2>2 DEF ListensFor, Listener
<1>5. Routes  BY DEF Routes, Pending
<1>6. Memory  BY DEF Memory
<1>7. Published  BY DEF Published
<1> QED BY <1>1, <1>2, <1>3, <1>4, <1>5, <1>6, <1>7 DEF EngineInv, InForce

LEMMA HandEditKeeps ==
  ASSUME EngineInv, E!HandEdit
  PROVE  EngineInv'
<1> USE DEF E!HandEdit, E!accounts
<1>1. OnDisk'  BY EditsAssumption DEF EngineInv, OnDisk, IsText
<1>3. ASSUME AtStart  PROVE AtStart'
  <2>1. command # E!Idle /\ command' = command  BY <1>3 DEF AtStart, E!Idle
  <2> QED BY <1>3, <2>1 DEF AtStart, IsConfig
<1>2. ASSUME InForce  PROVE InForce'
  <2>0. InForce  BY <1>2
  <2>1. command' = E!Idle \/ InToggle'  BY <2>0 DEF InForce, InToggle, IsChange
  <2>2. IsConfig(conf)' /\ Records'  BY <2>0 DEF InForce, Records
  <2>3. Listener'  BY <2>0 DEF InForce, Listener, Pending
  <2>4. (routing = conf.routing \/ Pending("routing"))'  BY <2>0 DEF InForce, Pending
  <2>5. Routes'  BY <2>0 DEF InForce, Routes, Pending
  <2>6. Memory'  BY <2>0 DEF InForce, Memory
  <2>7. Published'  BY <2>0 DEF InForce, Published
  <2> QED BY <2>1, <2>2, <2>3, <2>4, <2>5, <2>6, <2>7 DEF InForce
<1> QED BY <1>1, <1>2, <1>3 DEF EngineInv

LEMMA ReloadKeeps ==
  ASSUME EngineInv, command = E!Idle, E!ReloadConfig, E!Publish
  PROVE  EngineInv'
<1> USE DEF E!ReloadConfig, E!accounts
<1>0. InForce /\ OnDisk /\ command' = E!Idle  BY AtRest
<1>1. OnDisk'  BY <1>0 DEF OnDisk
<1>2. Published'  BY DEF E!Publish, Published
<1>3. CASE E!Loads(file) /\ E!ApplyConfig(file) /\ raced' = FALSE
  <2> USE DEF E!ApplyConfig
  <2>1. IsConfig(conf')  BY <1>0, <1>3 DEF OnDisk, IsText, E!Loads
  <2>2. Records'  BY <1>0, <1>3 DEF InForce, Records
  <2>3. Listener'
    <3>1. Listens(E!SyncPools(proxy, conf'), conf')
      BY <1>0, ListenerListens, HandedPools DEF InForce
    <3>2. ListensFor(proxy', conf', bind')  BY <3>1, <2>1, <1>3, SyncedListener
    <3> QED BY <3>2 DEF ListensFor, Listener
  <2>4. routing' = conf'.routing  BY <1>3
  <2>5. Routes'  BY <1>0, <1>3 DEF Routes, Pending
  <2>6. Memory'  BY <1>0, <1>3 DEF Memory
  <2>7. IsConfig(conf)'  BY <2>1 DEF IsConfig
  <2> QED BY <1>0, <1>1, <1>2, <2>2, <2>3, <2>4, <2>5, <2>6, <2>7 DEF EngineInv, InForce
<1>4. CASE ~ E!Loads(file) /\ UNCHANGED <<conf, bind, routing, routed, proxy, raced>>
  <2>1. IsConfig(conf)' /\ Records'  BY <1>0, <1>4 DEF InForce, Records
  <2>2. Listener'  BY <1>0, <1>4, AtRest DEF InForce, Listener, Pending
  <2>3. routing' = conf'.routing  BY <1>4, AtRest
  <2>4. Routes'  BY <1>0, <1>4, AtRest DEF Routes, Pending
  <2>5. Memory'  BY <1>0, <1>4 DEF Memory, E!Loads
  <2> QED BY <1>0, <1>1, <1>2, <2>1, <2>2, <2>3, <2>4, <2>5 DEF EngineInv, InForce
<1> QED BY <1>3, <1>4

\* Setting a key of a configuration leaves one.
LEMMA SetIs ==
  ASSUME NEW c, IsConfig(c), NEW change, IsChange(change)
  PROVE  /\ IsConfig(E!Set(c, change))
         /\ change.field = "enabled" => E!Set(c, change) = [c EXCEPT !.enabled = change.value]
         /\ change.field = "routing" => E!Set(c, change) = [c EXCEPT !.routing = change.value]
         /\ change.field # "off" => E!Set(c, change).off = c.off
         /\ change.field # "routing" => E!Set(c, change).routing = c.routing
         /\ change.field # "enabled" => E!Set(c, change).enabled = c.enabled
         /\ E!Set(c, change).key = c.key /\ E!Set(c, change).pools = c.pools
         /\ change.field = "off" =>
              E!Set(c, change).off = IF change.value THEN c.off \ {change.key} ELSE c.off \cup {change.key}
<1> USE DEF IsConfig, Settings
<1>1. CASE change.field = "enabled"  BY <1>1 DEF E!Set, IsChange
<1>2. CASE change.field = "routing"  BY <1>2 DEF E!Set, IsChange
<1>3. CASE change.field = "off"  BY <1>3 DEF E!Set, IsChange
<1> QED BY <1>1, <1>2, <1>3 DEF IsChange

\* The one account whose setting a toggle writes, patched by hand.
LEMMA PatchedRoute ==
  ASSUME Records, IsConfig(conf), NEW change, IsChange(change), change.field = "off",
         routed = E!RegistryOf(subs, conf)
  PROVE  [routed EXCEPT ![change.id].enabled = change.value] = E!RegistryOf(subs, E!Set(conf, change))
<1> DEFINE new == E!Set(conf, change)
<1>1. new.off = IF change.value THEN conf.off \ {change.key} ELSE conf.off \cup {change.key}
  BY DEF E!Set, IsConfig, Settings
<1>2. change.id \in DOMAIN subs /\ change.key = subs[change.id].key /\ change.value \in BOOLEAN
  BY DEF IsChange
<1>3. \A id \in DOMAIN subs : id # change.id => subs[id].key # change.key
  BY <1>2 DEF Records, OneRecordEach
<1>4. E!SubEnabled(new, change.key) = change.value
  BY <1>1, <1>2 DEF E!SubEnabled
<1>5. \A id \in DOMAIN subs : id # change.id =>
        E!SubEnabled(new, subs[id].key) = E!SubEnabled(conf, subs[id].key)
  BY <1>1, <1>3 DEF E!SubEnabled
<1> HIDE DEF new
<1>6. [routed EXCEPT ![change.id].enabled = change.value] = E!RegistryOf(subs, new)
  <2> DEFINE patched == [routed EXCEPT ![change.id].enabled = change.value]
             wanted == E!RegistryOf(subs, new)
  <2>1. DOMAIN patched = DOMAIN subs /\ DOMAIN wanted = DOMAIN subs  BY DEF E!RegistryOf
  <2>2. ASSUME NEW id \in DOMAIN subs  PROVE patched[id] = wanted[id]
    <3>1. routed[id] = [key |-> subs[id].key, enabled |-> E!SubEnabled(conf, subs[id].key),
                        needsLogin |-> subs[id].needsLogin]
      BY DEF E!RegistryOf
    <3>2. wanted[id] = [key |-> subs[id].key, enabled |-> E!SubEnabled(new, subs[id].key),
                        needsLogin |-> subs[id].needsLogin]
      BY DEF E!RegistryOf
    <3>3. CASE id = change.id
      <4>1. patched[id] = [routed[id] EXCEPT !.enabled = change.value]
        BY <3>3 DEF E!RegistryOf
      <4> QED BY <4>1, <3>1, <3>2, <3>3, <1>2, <1>4
    <3>4. CASE id # change.id
      <4>1. patched[id] = routed[id]  BY <3>4 DEF E!RegistryOf
      <4> QED BY <4>1, <3>1, <3>2, <3>4, <1>5
    <3> QED BY <3>3, <3>4
  <2>3. patched = [id \in DOMAIN subs |-> patched[id]] /\ wanted = [id \in DOMAIN subs |-> wanted[id]]
    BY DEF E!RegistryOf
  <2> HIDE DEF patched, wanted
  <2>4. patched = wanted  BY <2>2, <2>3
  <2> QED BY <2>4 DEF patched, wanted
<1> QED BY <1>6 DEF new

LEMMA ToggleKeeps ==
  ASSUME EngineInv, NEW change, IsChange(change), E!Toggle(change)
  PROVE  EngineInv'
<1> USE DEF E!Toggle, E!accounts, E!files
<1>0. /\ InForce /\ OnDisk
      /\ command' # E!Idle /\ command'.at = "read"
      /\ command'.text = file /\ command'.change = change
  BY AtRest DEF E!Idle
<1>1. OnDisk'  BY <1>0 DEF OnDisk
<1>2. InToggle'
  BY <1>0 DEF InToggle, OnDisk, IsText, IsChange
<1>3. IsConfig(conf)'  BY <1>0, SetIs DEF InForce, IsConfig
<1>4. Records'  BY <1>0 DEF InForce, Records
<1>5. conf'.key = conf.key /\ conf'.pools = conf.pools
  BY <1>0, SetIs DEF InForce
<1>6. Listener'
  <2>1. change.field # "enabled" => conf'.enabled = conf.enabled
    BY <1>0, SetIs DEF InForce
  <2>2. change.field = "enabled" => Pending("enabled")'  BY <1>0 DEF Pending
  <2>3. proxy # E!Down => conf.enabled  BY <1>0, AtRest DEF InForce, Listener, Pending
  <2>4. proxy # E!Down =>
          /\ ServeProxy
          /\ proxy = [bind |-> bind, key |-> conf.key, pools |-> conf.pools]
          /\ Loopback(bind) \/ conf.key # None
    BY <1>0 DEF InForce, Listener
  <2> QED BY <2>1, <2>2, <2>3, <2>4, <1>5 DEF Listener
<1>7. (routing = conf.routing \/ Pending("routing"))'
  <2>1. change.field # "routing" => conf'.routing = conf.routing
    BY <1>0, SetIs DEF InForce
  <2> QED BY <2>1, <1>0, AtRest DEF Pending
<1>8. Routes'
  <2>1. CASE change.field = "off"
    <3>1. [routed EXCEPT ![change.id].enabled = change.value] = E!RegistryOf(subs, conf')
      BY <2>1, <1>0, AtRest, PatchedRoute DEF InForce
    <3>2. Pending("off")'  BY <2>1, <1>0 DEF Pending
    <3>3. E!RegistryOf(subs', conf') = E!RegistryOf(subs, conf')  OBVIOUS
    <3>4. [routed' EXCEPT ![command'.change.id].enabled = command'.change.value] =
            [routed EXCEPT ![change.id].enabled = change.value]
      BY <1>0
    <3> QED BY <3>1, <3>2, <3>3, <3>4 DEF Routes
  <2>2. CASE change.field # "off"
    <3>1. conf'.off = conf.off  BY <2>2, <1>0, SetIs DEF InForce
    <3>2. ~ Pending("off")'  BY <2>2, <1>0 DEF Pending
    <3>3. E!RegistryOf(subs, conf') = E!RegistryOf(subs, conf)
      BY <3>1 DEF E!RegistryOf, E!SubEnabled
    <3> QED BY <3>2, <3>3, AtRest DEF Routes
  <2> QED BY <2>1, <2>2
<1>9. Memory'
  BY <1>0 DEF InForce, Memory
<1>10. Published'  BY <1>0 DEF Published
<1> QED BY <1>1, <1>2, <1>3, <1>4, <1>6, <1>7, <1>8, <1>9, <1>10 DEF EngineInv, InForce

LEMMA RenameKeeps ==
  ASSUME EngineInv, E!Rename
  PROVE  EngineInv'
<1> USE DEF E!Rename, E!accounts, E!files
<1>0. /\ InForce /\ OnDisk /\ InToggle
  BY DEF EngineInv, AtStart, InForce, E!Stopped, E!Idle
<1>1. /\ command' = [command EXCEPT !.at = command'.at, !.text = None]
      /\ command'.at \in {"written", "failed"}
      /\ command' # E!Idle /\ command # E!Idle
      /\ command'.change = command.change
  BY <1>0 DEF InToggle, E!Idle
<1>2. InToggle'
  BY <1>0, <1>1 DEF InToggle, IsText, IsChange
<1>3. OnDisk'
  <2>1. command.text # Malformed => IsConfig(E!Set(command.text, command.change))
    BY <1>0, SetIs DEF InToggle, IsText
  <2>2. IsText(file')  BY <2>1, <1>0 DEF OnDisk, IsText
  <2>3. saved' = saved /\ discoverable' = discoverable  OBVIOUS
  <2> QED BY <2>2, <2>3, <1>0 DEF OnDisk, IsText, IsConfig
<1>4. IsConfig(conf)' /\ Records'  BY <1>0 DEF InForce, Records
<1>5. Listener'  BY <1>0, <1>1 DEF InForce, Listener, Pending
<1>6. (routing = conf.routing \/ Pending("routing"))'  BY <1>0, <1>1 DEF InForce, Pending
<1>7. Routes'  BY <1>0, <1>1 DEF InForce, Routes, Pending
<1>8. Memory'
  <2>1. CASE command.text # Malformed /\ file' = E!Set(command.text, command.change)
                /\ command' = [command EXCEPT !.at = "written", !.text = None] /\ UNCHANGED raced
    BY <2>1, <1>0, <1>1 DEF InForce, Memory, InToggle
  <2>2. CASE raced' = TRUE  BY <2>2 DEF Memory
  <2> QED BY <2>1, <2>2
<1>9. Published'  BY <1>1 DEF Published
<1> QED BY <1>2, <1>3, <1>4, <1>5, <1>6, <1>7, <1>8, <1>9 DEF EngineInv, InForce

LEMMA EffectKeeps ==
  ASSUME EngineInv, E!Effect
  PROVE  EngineInv'
<1> USE DEF E!Effect, E!accounts
<1> DEFINE change == command.change
<1>0. /\ InForce /\ OnDisk /\ InToggle /\ command' = E!Idle /\ command # E!Idle
  BY DEF EngineInv, AtStart, InForce, E!Stopped, E!Idle
<1>1. OnDisk'  BY <1>0 DEF OnDisk
<1>2. IsConfig(conf)' /\ Records'  BY <1>0 DEF InForce, Records
<1>3. Published'  BY DEF E!Publish, Published
<1>4. Memory'
  BY <1>0 DEF InForce, Memory, InToggle, E!Recorded
<1>5. CASE /\ change.field = "enabled" /\ proxy' \in E!SyncProxy(proxy, conf, bind)
           /\ UNCHANGED <<routing, routed>>
  <2>1. Listener'
    <3>1. ListensFor(proxy', conf, bind)
      BY <1>0, <1>5, ListenerListens, SyncedListener DEF InForce
    <3> QED BY <3>1 DEF ListensFor, Listener
  <2>2. routing' = conf'.routing /\ Routes'  BY <1>0, <1>5 DEF InForce, Routes, Pending
  <2> QED BY <1>0, <1>1, <1>2, <1>3, <1>4, <2>1, <2>2 DEF EngineInv, InForce
<1>6. CASE change.field = "routing" /\ routing' = conf.routing /\ UNCHANGED <<proxy, routed>>
  <2>1. Listener'  BY <1>0, <1>6 DEF InForce, Listener, Pending
  <2>2. routing' = conf'.routing /\ Routes'  BY <1>0, <1>6 DEF InForce, Routes, Pending
  <2> QED BY <1>0, <1>1, <1>2, <1>3, <1>4, <2>1, <2>2 DEF EngineInv, InForce
<1>7. CASE /\ change.field = "off" /\ routed' = [routed EXCEPT ![change.id].enabled = change.value]
           /\ UNCHANGED <<proxy, routing>>
  <2>1. Listener'  BY <1>0, <1>7 DEF InForce, Listener, Pending
  <2>2. routing' = conf'.routing  BY <1>0, <1>7 DEF InForce, Pending
  <2>3. Routes'
    <3>1. routed' = E!RegistryOf(subs, conf)  BY <1>0, <1>7 DEF InForce, Routes, Pending
    <3> QED BY <3>1, <1>0 DEF Routes, Pending
  <2> QED BY <1>0, <1>1, <1>2, <1>3, <1>4, <2>1, <2>2, <2>3 DEF EngineInv, InForce
<1> QED BY <1>5, <1>6, <1>7

\* The handlers that change the accounts, and nothing else the listener or
\* the settings depend on.
LEMMA AccountsChange ==
  ASSUME EngineInv, command = E!Idle, OnDisk', Records', E!Publish,
         routed' = E!RegistryOf(subs', conf),
         UNCHANGED <<file, unseen, conf, bind, routing, discoverable, proxy, command, raced>>
  PROVE  EngineInv'
<1>0. InForce /\ OnDisk  BY AtRest
<1>1. IsConfig(conf)'  BY <1>0 DEF InForce
<1>2. Published'  BY DEF E!Publish, Published
<1>3. Listener'  BY <1>0 DEF InForce, Listener, Pending
<1>4. routing' = conf'.routing  BY AtRest
<1>5. Routes'  BY <1>0 DEF Routes, Pending
<1>6. Memory'  BY <1>0 DEF InForce, Memory
<1> QED BY <1>0, <1>1, <1>2, <1>3, <1>4, <1>5, <1>6 DEF EngineInv, InForce

LEMMA KeysAreSubKeys ==
  ASSUME NEW records, records \in [DOMAIN records -> SubRecord]
  PROVE  E!KeysOf(records) \in SUBSET SubKey
BY DEF E!KeysOf, SubRecord

LEMMA RediscoverKeeps ==
  ASSUME EngineInv, E!Rediscover
  PROVE  EngineInv'
<1> USE DEF E!Rediscover, E!PersistSubs, E!files
<1> DEFINE new == discoverable \ E!KeysOf(subs)
<1>0. InForce /\ OnDisk /\ Records  BY AtRest DEF InForce
<1>1. new \in SUBSET SubKey /\ new \cap E!KeysOf(subs) = {}  BY <1>0 DEF OnDisk
<1>2. Records'
  <2>1. nextId' \in Nat  BY <1>0, <1>1, OrderIsOne, SameCardinality DEF Records
  <2>2. subs \in [DOMAIN subs -> SubRecord] /\ OneRecordEach(subs) /\ nextId \in Nat
    BY <1>0 DEF Records
  <2>3. LET all == E!Adopted(subs, nextId, new)
        IN  all \in [DOMAIN all -> SubRecord] /\ OneRecordEach(all)
    <3> HIDE DEF new
    <3> QED BY <2>2, <1>1, AdoptedRecords
  <2> QED BY <2>1, <2>3 DEF Records
<1>3. OnDisk'
  <2>1. E!KeysOf(subs') \in SUBSET SubKey
    BY <1>2, KeysAreSubKeys DEF Records
  <2> QED BY <2>1, <1>0 DEF OnDisk, IsText, IsConfig
<1>4. routed' = E!RegistryOf(subs', conf)
  <2>1. CASE new = {}
    <3>1. subs' = subs  BY <2>1, <1>0, AdoptedNone DEF Records
    <3> QED BY <3>1, <2>1, AtRest
  <2>2. CASE new # {}  BY <2>2
  <2> QED BY <2>1, <2>2
<1> QED BY <1>2, <1>3, <1>4, AccountsChange

LEMMA FinishLoginKeeps ==
  ASSUME EngineInv, NEW key \in SubKey, E!FinishLogin(key)
  PROVE  EngineInv'
<1> USE DEF E!FinishLogin, E!files
<1> DEFINE signed == {id \in DOMAIN subs : subs[id].key = key}
<1>0. InForce /\ OnDisk /\ Records  BY AtRest DEF InForce
<1>1. Records'
  <2>1. CASE signed = {}
    <3>1. LET all == E!Adopted(subs, nextId, {key})
          IN  all \in [DOMAIN all -> SubRecord] /\ OneRecordEach(all)
      <4>1. {key} \in SUBSET SubKey /\ {key} \cap E!KeysOf(subs) = {}  BY <2>1 DEF E!KeysOf
      <4> QED BY <4>1, <1>0, AdoptedRecords DEF Records
    <3>2. subs' = E!Adopted(subs, nextId, {key}) /\ nextId' = nextId + 1  BY <2>1
    <3>3. subs' \in [DOMAIN subs' -> SubRecord]  BY <3>1, <3>2
    <3>4. OneRecordEach(subs')  BY <3>1, <3>2
    <3>5. nextId' \in Nat  BY <3>2, <1>0 DEF Records
    <3> HIDE DEF E!FinishLogin
    <3> QED BY <3>3, <3>4, <3>5 DEF Records
  <2>2. CASE signed # {}
    <3>1. subs' = [id \in DOMAIN subs |->
                     IF id \in signed THEN [subs[id] EXCEPT !.needsLogin = FALSE] ELSE subs[id]]
      BY <2>2
    <3>2. nextId' = nextId  BY <2>2
    <3> HIDE DEF signed
    <3>3. \A id \in DOMAIN subs : subs'[id] \in SubRecord /\ subs'[id].key = subs[id].key
      BY <3>1, <1>0 DEF Records, SubRecord
    <3>4. DOMAIN subs' = DOMAIN subs  BY <3>1
    <3> QED BY <3>1, <3>2, <3>3, <3>4, <1>0 DEF Records, OneRecordEach
  <2> QED BY <2>1, <2>2
<1>2. OnDisk'
  <2>1. E!KeysOf(subs') \in SUBSET SubKey
    BY <1>1, KeysAreSubKeys DEF Records
  <2>2. saved' \in {saved, E!KeysOf(subs')}  BY DEF E!PersistSubs
  <2> QED BY <2>1, <2>2, <1>0 DEF OnDisk, IsText, IsConfig
<1> QED BY <1>1, <1>2, AccountsChange

LEMMA SignedOutKeeps ==
  ASSUME EngineInv, NEW id \in DOMAIN subs, NEW out \in BOOLEAN, E!SignedOut(id, out)
  PROVE  EngineInv'
<1> USE DEF E!SignedOut, E!files
<1>0. InForce /\ OnDisk /\ Records /\ routed = E!RegistryOf(subs, conf)  BY AtRest DEF InForce
<1>1. /\ DOMAIN subs' = DOMAIN subs
      /\ \A i \in DOMAIN subs : subs'[i] = [key |-> subs[i].key,
                                            needsLogin |-> IF i = id THEN out ELSE subs[i].needsLogin]
  BY <1>0 DEF Records, SubRecord
<1>2. Records'
  <2>1. subs' \in [DOMAIN subs' -> SubRecord]  BY <1>0 DEF Records, SubRecord
  <2> QED BY <2>1, <1>0, <1>1 DEF Records, OneRecordEach
<1>3. OnDisk'  BY <1>0 DEF OnDisk, IsText, IsConfig
<1>4. routed' = E!RegistryOf(subs', conf)
  <2>1. \A i \in DOMAIN subs :
          routed[i] = [key |-> subs[i].key, enabled |-> E!SubEnabled(conf, subs[i].key),
                       needsLogin |-> subs[i].needsLogin]
    BY <1>0 DEF E!RegistryOf
  <2>2. routed' = [i \in DOMAIN subs |->
                     IF i = id THEN [routed[i] EXCEPT !.needsLogin = out] ELSE routed[i]]
    BY <1>0 DEF E!RegistryOf
  <2>3. \A i \in DOMAIN subs : routed'[i] = E!RegistryOf(subs', conf)[i]
    BY <1>1, <2>1, <2>2 DEF E!RegistryOf
  <2>4. E!RegistryOf(subs', conf) = [i \in DOMAIN subs |-> E!RegistryOf(subs', conf)[i]]
    BY <1>1 DEF E!RegistryOf
  <2> QED BY <2>2, <2>3, <2>4
<1> QED BY <1>2, <1>3, <1>4, AccountsChange

LEMMA RemoveSubKeeps ==
  ASSUME EngineInv, NEW id \in DOMAIN subs, E!RemoveSub(id)
  PROVE  EngineInv'
<1> USE DEF E!RemoveSub, E!PersistSubs, E!files
<1>0. InForce /\ OnDisk /\ Records /\ routed = E!RegistryOf(subs, conf)  BY AtRest DEF InForce
<1>1. Records'  BY <1>0 DEF Records, OneRecordEach
<1>2. OnDisk'
  <2>1. E!KeysOf(subs') \in SUBSET SubKey
    BY <1>1, KeysAreSubKeys DEF Records
  <2> QED BY <2>1, <1>0 DEF OnDisk, IsText, IsConfig
<1>3. routed' = E!RegistryOf(subs', conf)  BY <1>0 DEF E!RegistryOf
<1> QED BY <1>1, <1>2, <1>3, AccountsChange

LEMMA StartKeeps ==
  ASSUME EngineInv, E!Start
  PROVE  EngineInv'
<1> USE DEF E!Start, E!files, E!accounts
<1>0. OnDisk  BY DEF EngineInv
<1>1. OnDisk'  BY <1>0 DEF OnDisk, IsText, IsConfig
<1>2. command'.at = "loaded" /\ command'.text = file /\ file' = file  OBVIOUS
<1>3. IsConfig(file)  BY <1>0 DEF OnDisk, IsText, E!Loads
<1>4. AtStart'  BY <1>2, <1>3 DEF AtStart, IsConfig
<1> QED BY <1>1, <1>4 DEF EngineInv

LEMMA BuildKeeps ==
  ASSUME EngineInv, E!Build
  PROVE  EngineInv'
<1> USE DEF E!Build
<1>0. OnDisk /\ AtStart
  BY DEF EngineInv, InForce, InToggle, E!Stopped, E!Idle
<1> DEFINE kept == E!Adopted(<<>>, 1, saved)
<1>2. IsConfig(conf')  BY <1>0 DEF AtStart
<1>3. Records'
  <2>1. /\ kept \in [DOMAIN kept -> SubRecord] /\ OneRecordEach(kept)
        /\ E!KeysOf(kept) \subseteq saved
    BY <1>0, FirstRecords DEF OnDisk
  <2>2. Cardinality(saved) + 1 \in Nat /\ Cardinality(saved \cup discoverable) \in Nat
    BY <1>0, OrderIsOne DEF OnDisk
  <2>3. LET all == E!Adopted(kept, Cardinality(saved) + 1, discoverable \ saved)
        IN  all \in [DOMAIN all -> SubRecord] /\ OneRecordEach(all)
    <3>1. discoverable \ saved \in SUBSET SubKey /\ (discoverable \ saved) \cap E!KeysOf(kept) = {}
      BY <2>1, <1>0 DEF OnDisk
    <3> HIDE DEF kept
    <3> QED BY <2>1, <2>2, <3>1, AdoptedRecords
  <2>4. /\ subs' = E!Adopted(kept, Cardinality(saved) + 1, discoverable \ saved)
        /\ nextId' = Cardinality(saved \cup discoverable) + 1
    BY SameCardinality
  <2> HIDE DEF kept, E!Build
  <2> QED BY <2>2, <2>3, <2>4 DEF Records
<1>1. OnDisk'
  <2>1. E!KeysOf(subs') \in SUBSET SubKey  BY <1>3, KeysAreSubKeys DEF Records
  <2>2. saved' \in {saved, E!KeysOf(subs')}  BY DEF E!PersistSubs
  <2> QED BY <1>0, <2>1, <2>2 DEF OnDisk, IsText, IsConfig
<1>4. Listener'
  <2>1. Listens(E!Down, conf')  BY DEF Listens
  <2>2. ListensFor(proxy', conf', bind')  BY <2>1, <1>2, SyncedListener
  <2> QED BY <2>2 DEF ListensFor, Listener
<1>5. routing' = conf'.routing /\ command' = E!Idle  OBVIOUS
<1>6. Routes'  BY DEF Routes, Pending
<1>7. Memory'
  <2>1. ~ raced' => conf' = file'  BY <1>0 DEF AtStart
  <2> QED BY <1>5, <2>1 DEF Memory
<1>8. Published'  BY DEF E!Publish, Published
<1>9. IsConfig(conf)'  BY <1>2 DEF IsConfig
<1> QED BY <1>1, <1>3, <1>4, <1>5, <1>6, <1>7, <1>8, <1>9 DEF EngineInv, InForce

LEMMA StopKeeps ==
  ASSUME EngineInv, E!Stop
  PROVE  EngineInv'
BY DEF E!Stop, E!files, EngineInv, OnDisk, IsText, IsConfig

LEMMA EngineStutters ==
  ASSUME EngineInv, UNCHANGED engineVars
  PROVE  EngineInv'
<1> USE DEF engineVars
<1>1. OnDisk'  BY DEF EngineInv, OnDisk, IsText, IsConfig
<1>3. ASSUME AtStart  PROVE AtStart'  BY <1>3 DEF AtStart, IsConfig
<1>2. ASSUME InForce  PROVE InForce'
  <2>0. InForce  BY <1>2
  <2>1. command' = E!Idle \/ InToggle'  BY <2>0 DEF InForce, InToggle, IsChange, IsText, IsConfig
  <2>2. IsConfig(conf)' /\ Records'  BY <2>0 DEF InForce, Records, IsConfig
  <2>3. Listener'  BY <2>0 DEF InForce, Listener, Pending
  <2>4. (routing = conf.routing \/ Pending("routing"))'  BY <2>0 DEF InForce, Pending
  <2>5. Routes'  BY <2>0 DEF InForce, Routes, Pending
  <2>6. Memory'  BY <2>0 DEF InForce, Memory
  <2>7. Published'  BY <2>0 DEF InForce, Published
  <2> QED BY <2>1, <2>2, <2>3, <2>4, <2>5, <2>6, <2>7 DEF InForce
<1> QED BY <1>1, <1>2, <1>3 DEF EngineInv

LEMMA EngineSteps ==
  ASSUME EngineInv, E!Next
  PROVE  EngineInv'
<1>1. CASE E!HandEdit  BY <1>1, HandEditKeeps
<1>2. CASE E!Loop
  <2>1. CASE E!WatchConfig  BY <2>1, ReloadKeeps DEF E!WatchConfig
  <2> QED BY <1>2, <2>1, RenameKeeps, EffectKeeps, BuildKeeps DEF E!Loop
<1>3. CASE E!Reload  BY <1>3, ReloadKeeps DEF E!Reload
<1>4. CASE E!Rediscover  BY <1>4, RediscoverKeeps
<1>5. CASE E!Start  BY <1>5, StartKeeps
<1>6. CASE E!Stop  BY <1>6, StopKeeps
<1>7. ASSUME NEW on \in BOOLEAN, E!Toggle([field |-> "enabled", value |-> on])
      PROVE  EngineInv'
  <2>1. IsChange([field |-> "enabled", value |-> on])  BY DEF IsChange
  <2> QED BY <1>7, <2>1, ToggleKeeps
<1>8. ASSUME NEW new \in Routings, E!Toggle([field |-> "routing", value |-> new])
      PROVE  EngineInv'
  <2>1. IsChange([field |-> "routing", value |-> new])  BY DEF IsChange
  <2> QED BY <1>8, <2>1, ToggleKeeps
<1>9. ASSUME NEW id \in DOMAIN subs, NEW on \in BOOLEAN,
             E!Toggle([field |-> "off", id |-> id, key |-> subs[id].key, value |-> on])
      PROVE  EngineInv'
  <2>1. IsChange([field |-> "off", id |-> id, key |-> subs[id].key, value |-> on])
    BY DEF IsChange
  <2> QED BY <1>9, <2>1, ToggleKeeps
<1>10. ASSUME NEW key \in SubKey, E!FinishLogin(key)  PROVE EngineInv'
  BY <1>10, FinishLoginKeeps
<1>11. ASSUME NEW id \in DOMAIN subs,
              E!SignedOut(id, TRUE) \/ E!SignedOut(id, FALSE) \/ E!RemoveSub(id)
       PROVE  EngineInv'
  BY <1>11, SignedOutKeeps, RemoveSubKeeps
<1> QED BY <1>1, <1>2, <1>3, <1>4, <1>5, <1>6, <1>7, <1>8, <1>9, <1>10, <1>11 DEF E!Next

----------------------------------------------------------------------------
(* The theorems. *)

EngineAtWork == focus = "engine" => EngineInv

\* Whenever the engine is at work its invariant holds.
LEMMA EngineInvariance == PartsSpec => []EngineAtWork
<1>1. PartsInit => EngineAtWork
  BY EngineStarts DEF PartsInit, EngineAtWork
<1>2. EngineAtWork /\ [PartsNext]_partsVars => EngineAtWork'
  <2> SUFFICES ASSUME EngineAtWork, [PartsNext]_partsVars, focus' = "engine"
               PROVE  EngineInv'
    BY DEF EngineAtWork
  <2>1. CASE focus = "engine" /\ E!Next  BY <2>1, EngineSteps DEF EngineAtWork
  <2>2. CASE focus = "engine" /\ UNCHANGED engineVars
    BY <2>2, EngineStutters DEF EngineAtWork
  <2>3. (focus = "engine" /\ E!Next) \/ (focus = "engine" /\ UNCHANGED engineVars)
    BY DEF PartsNext, partsVars
  <2> QED BY <2>1, <2>2, <2>3
<1> QED BY <1>1, <1>2, PTL DEF PartsSpec

\* Between two handlers the proxy routes by what the records and the settings
\* say and listens where, behind the key and with the pools the settings say,
\* never open without a key, whatever edits, toggles, sign-ins, restarts and
\* crashes came before.
THEOREM ProxyAlwaysAgrees == PartsSpec => []ProxyAgrees
<1>1. EngineAtWork => ProxyAgrees
  <2> SUFFICES ASSUME EngineInv, command = E!Idle  PROVE E!RoutesByRecords /\ E!ListensAsAsked
    BY DEF EngineAtWork, ProxyAgrees, E!ProxyAgrees, E!RoutesByRecords, E!ListensAsAsked
  <2>1. E!RoutesByRecords  BY AtRest DEF E!RoutesByRecords
  <2>2. E!ListensAsAsked
    BY AtRest DEF InForce, Listener, Pending, E!ListensAsAsked
  <2> QED BY <2>1, <2>2
<1> QED BY <1>1, EngineInvariance, PTL

\* Between two handlers the published snapshot shows the state: no handler,
\* and no step of one that was overtaken by an edit, leaves it behind.
THEOREM SnapshotAlwaysCurrent == PartsSpec => []SnapshotIsCurrent
<1>1. EngineAtWork => SnapshotIsCurrent
  BY AtRest DEF EngineAtWork, SnapshotIsCurrent, E!SnapshotIsCurrent, InForce, Published
<1> QED BY <1>1, EngineInvariance, PTL

\* The settings in memory are those of the file as soon as the engine has
\* looked at it, unless an edit met a write of the menu or the start of the
\* engine, such a write failed, or it mended a file that did not load.
THEOREM MemoryAlwaysFollows == PartsSpec => []MemoryFollowsFile
<1>1. EngineAtWork => MemoryFollowsFile
  BY AtRest DEF EngineAtWork, MemoryFollowsFile, E!MemoryFollowsFile, InForce, Memory
<1> QED BY <1>1, EngineInvariance, PTL

----------------------------------------------------------------------------
(* Sign-ins.  The handle is the newest flow that was not given up, and a    *)
(* flow that is over has said so in the queue, unless the engine knows.     *)

Steps == {"new", "waiting", "exchanging", "over", "aborted"}

FlowState == [provider : Provider, pc : Steps, aborting : BOOLEAN]

SignInType ==
  /\ flows \in Seq(FlowState)
  /\ handle = None \/ handle \in DOMAIN flows
  /\ queue \in Seq([type : {"url", "finished"}, flow : Nat, ok : BOOLEAN])
  /\ \A i \in DOMAIN queue : queue[i].flow \in DOMAIN flows

\* Whoever says that a flow is finished is not heard of again.
FinishedIsOver ==
  \A i \in DOMAIN queue : queue[i].type = "finished" => flows[queue[i].flow].pc = "over"

\* What is given up is not in hand, and nothing else is aborted.
GivenUp ==
  /\ handle # None => ~ flows[handle].aborting
  /\ \A f \in DOMAIN flows : flows[f].pc = "aborted" => flows[f].aborting

OverIsAnnounced ==
  handle # None /\ flows[handle].pc = "over" =>
    \E i \in DOMAIN queue : queue[i].type = "finished" /\ queue[i].flow = handle

InHand ==
  ~ overlapped =>
    /\ \A f \in DOMAIN flows : N!Live(f) /\ ~ flows[f].aborting => f = handle
    /\ login = "awaiting" => handle # None

SignInInv == SignInType /\ FinishedIsOver /\ GivenUp /\ OverIsAnnounced /\ InHand

LEMMA SignInStarts == ASSUME N!Init PROVE SignInInv
BY FlowAssumption
   DEF N!Init, SignInInv, SignInType, FinishedIsOver, GivenUp, OverIsAnnounced, InHand

LEMMA FlowChanged ==
  ASSUME flows \in Seq(FlowState), NEW f \in DOMAIN flows, NEW g \in FlowState
  PROVE  [flows EXCEPT ![f] = g] \in Seq(FlowState) /\ Len([flows EXCEPT ![f] = g]) = Len(flows)
OBVIOUS

\* Where the flow in hand was given up, nothing that was not is left.
LEMMA AbortedGivesUp ==
  ASSUME SignInInv
  PROVE  /\ N!Aborted(handle) \in Seq(FlowState) /\ Len(N!Aborted(handle)) = Len(flows)
         /\ \A f \in DOMAIN flows :
              /\ N!Aborted(handle)[f].pc = flows[f].pc
              /\ flows[f].aborting => N!Aborted(handle)[f].aborting
              /\ ~ overlapped /\ N!Live(f) => N!Aborted(handle)[f].aborting
<1>1. CASE handle # None /\ flows[handle].pc \notin {"over", "aborted"}
  <2> DEFINE spared == [flows EXCEPT ![handle].aborting = TRUE]
  <2>1. N!Aborted(handle) = spared  BY <1>1 DEF N!Aborted
  <2>2. handle \in DOMAIN flows /\ flows \in Seq(FlowState)  BY <1>1 DEF SignInInv, SignInType
  <2>3. spared \in Seq(FlowState) /\ Len(spared) = Len(flows)
    <3>1. [flows[handle] EXCEPT !.aborting = TRUE] \in FlowState
      <4>1. flows[handle] \in FlowState  BY <2>2
      <4> QED BY <4>1 DEF FlowState
    <3>2. spared = [flows EXCEPT ![handle] = [flows[handle] EXCEPT !.aborting = TRUE]]  OBVIOUS
    <3> QED BY <2>2, <3>1, <3>2, FlowChanged
  <2>4. \A f \in DOMAIN flows :
          /\ spared[f].pc = flows[f].pc /\ (flows[f].aborting => spared[f].aborting)
          /\ f = handle => spared[f].aborting
    BY <2>2 DEF FlowState
  <2>5. \A f \in DOMAIN flows : ~ overlapped /\ N!Live(f) => spared[f].aborting
    BY <2>4 DEF SignInInv, InHand
  <2> HIDE DEF spared
  <2> QED BY <2>1, <2>3, <2>4, <2>5
<1>2. CASE ~ (handle # None /\ flows[handle].pc \notin {"over", "aborted"})
  <2>1. N!Aborted(handle) = flows  BY <1>2 DEF N!Aborted
  <2>2. \A f \in DOMAIN flows : ~ overlapped /\ N!Live(f) => flows[f].aborting
    BY <1>2, FlowAssumption DEF SignInInv, InHand, N!Live, SignInType
  <2> QED BY <2>1, <2>2 DEF SignInInv, SignInType
<1> QED BY <1>1, <1>2

LEMMA LoginKeeps ==
  ASSUME SignInInv, NEW p \in Provider, N!Login(p)
  PROVE  SignInInv'
<1> DEFINE spared == N!Aborted(handle)
           new == [provider |-> p, pc |-> "new", aborting |-> FALSE]
<1>0. spared \in Seq(FlowState) /\ Len(spared) = Len(flows) /\ new \in FlowState
      /\ flows \in Seq(FlowState)
  BY AbortedGivesUp DEF FlowState, Steps, SignInInv, SignInType
<1>1. PICK last \in Nat : last = Len(spared) + 1  BY <1>0
<1>2. /\ \A f \in DOMAIN flows : spared[f].pc = flows[f].pc /\ (flows[f].aborting => spared[f].aborting)
      /\ \A f \in DOMAIN flows : ~ overlapped /\ N!Live(f) => spared[f].aborting
  BY AbortedGivesUp
<1>3. flows' = Append(spared, new) /\ handle' = Len(flows') /\ login' = None
      /\ UNCHANGED <<queue, overlapped>>
  BY DEF N!Login
<1> HIDE DEF spared
<1>4. /\ flows' \in Seq(FlowState) /\ Len(flows') = last /\ flows'[last] = new
      /\ \A f \in DOMAIN flows : f \in DOMAIN flows' /\ f # last /\ flows'[f] = spared[f]
      /\ \A f \in DOMAIN flows' : f # last => f \in DOMAIN flows
      /\ last \in DOMAIN flows'
  BY <1>0, <1>1, <1>3
<1>5. handle' = last /\ handle' # None /\ handle' \in DOMAIN flows' /\ login' # "awaiting"
  BY <1>3, <1>4, FlowAssumption
<1>6. SignInType'  BY <1>3, <1>4, <1>5 DEF SignInInv, SignInType
<1>7. FinishedIsOver'
  BY <1>2, <1>3, <1>4 DEF SignInInv, SignInType, FinishedIsOver
<1>8. GivenUp'  BY <1>2, <1>4, <1>5 DEF SignInInv, GivenUp
<1>9. OverIsAnnounced'  BY <1>4, <1>5 DEF OverIsAnnounced
<1>10. InHand'
  <2>1. \A f \in DOMAIN flows' : N!Live(f)' /\ ~ flows'[f].aborting /\ ~ overlapped => f = last
    BY <1>2, <1>4 DEF N!Live
  <2> QED BY <2>1, <1>3, <1>5 DEF InHand, N!Live
<1> QED BY <1>6, <1>7, <1>8, <1>9, <1>10 DEF SignInInv

LEMMA CancelLoginKeeps ==
  ASSUME SignInInv, N!CancelLogin
  PROVE  SignInInv'
<1> DEFINE spared == N!Aborted(handle)
<1>1. /\ flows' = spared /\ handle' = None /\ login' = None /\ login' # "awaiting"
      /\ UNCHANGED <<queue, overlapped>>
  BY FlowAssumption DEF N!CancelLogin
<1>2. /\ spared \in Seq(FlowState) /\ Len(spared) = Len(flows)
      /\ \A f \in DOMAIN flows : /\ spared[f].pc = flows[f].pc
                                 /\ flows[f].aborting => spared[f].aborting
                                 /\ ~ overlapped /\ N!Live(f) => spared[f].aborting
  BY AbortedGivesUp
<1> HIDE DEF spared
<1>3. DOMAIN spared = DOMAIN flows  BY <1>2 DEF SignInInv, SignInType
<1>4. SignInType'  BY <1>1, <1>2, <1>3 DEF SignInInv, SignInType
<1>5. FinishedIsOver' /\ GivenUp' /\ OverIsAnnounced'
  BY <1>1, <1>2, <1>3 DEF SignInInv, SignInType, FinishedIsOver, GivenUp, OverIsAnnounced
<1>6. InHand'
  <2>1. \A f \in DOMAIN flows' : ~ overlapped /\ flows'[f].pc \notin {"over", "aborted"} => flows'[f].aborting
    BY <1>1, <1>2, <1>3 DEF N!Live
  <2> QED BY <2>1, <1>1 DEF InHand, N!Live
<1> QED BY <1>4, <1>5, <1>6 DEF SignInInv

LEMMA HandleEventKeeps ==
  ASSUME SignInInv, N!HandleEvent
  PROVE  SignInInv'
<1> DEFINE e == Head(queue)
<1> USE DEF N!HandleEvent
<1>1. /\ queue \in Seq([type : {"url", "finished"}, flow : Nat, ok : BOOLEAN]) /\ queue # <<>>
      /\ queue' = Tail(queue) /\ UNCHANGED flows
      /\ overlapped' = (overlapped \/ e.flow # handle)
  BY DEF SignInInv, SignInType
<1>2. /\ 1 \in DOMAIN queue /\ e = queue[1]
      /\ e.flow \in DOMAIN flows /\ e.flow # None
      /\ \A i \in DOMAIN queue' : i + 1 \in DOMAIN queue /\ queue'[i] = queue[i + 1]
      /\ \A i \in DOMAIN queue : i # 1 => i - 1 \in DOMAIN queue' /\ queue'[i - 1] = queue[i]
      /\ queue' \in Seq([type : {"url", "finished"}, flow : Nat, ok : BOOLEAN])
  BY <1>1, FlowAssumption DEF SignInInv, SignInType
<1>3. CASE e.type = "url" /\ login' = "awaiting" /\ UNCHANGED handle
  <2>1. SignInType' /\ FinishedIsOver' /\ GivenUp'
    BY <1>1, <1>2, <1>3 DEF SignInInv, SignInType, FinishedIsOver, GivenUp
  <2>2. OverIsAnnounced'
    <3>1. ASSUME handle # None, flows[handle].pc = "over"
          PROVE  \E i \in DOMAIN queue' : queue'[i].type = "finished" /\ queue'[i].flow = handle
      <4>1. PICK i \in DOMAIN queue : queue[i].type = "finished" /\ queue[i].flow = handle
        BY <3>1 DEF SignInInv, OverIsAnnounced
      <4>2. i # 1  BY <4>1, <1>2, <1>3
      <4>3. i - 1 \in DOMAIN queue' /\ queue'[i - 1] = queue[i]  BY <4>2, <1>2
      <4> QED BY <4>1, <4>3
    <3> QED BY <3>1, <1>1, <1>3 DEF OverIsAnnounced
  <2>3. InHand'  BY <1>1, <1>2, <1>3 DEF SignInInv, InHand, N!Live
  <2> QED BY <2>1, <2>2, <2>3 DEF SignInInv
<1>4. CASE e.type = "finished" /\ handle' = None /\ login' = IF e.ok THEN None ELSE "failed"
  <2>1. login' # "awaiting"  BY <1>4, FlowAssumption
  <2>2. SignInType' /\ FinishedIsOver' /\ GivenUp' /\ OverIsAnnounced'
    BY <1>1, <1>2, <1>4 DEF SignInInv, SignInType, FinishedIsOver, GivenUp, OverIsAnnounced
  <2>3. InHand'
    <3>1. flows[e.flow].pc = "over"  BY <1>2, <1>4 DEF SignInInv, FinishedIsOver
    <3>2. ~ overlapped' => \A f \in DOMAIN flows : flows[f].pc \in {"over", "aborted"} \/ flows[f].aborting
      BY <1>1, <3>1 DEF SignInInv, InHand, N!Live
    <3> QED BY <1>1, <2>1, <3>2 DEF InHand, N!Live
  <2> QED BY <2>2, <2>3 DEF SignInInv
<1> QED BY <1>3, <1>4

\* A step of one flow, which may say something and is over only when it does.
LEMMA FlowKeeps ==
  ASSUME SignInInv, NEW f \in DOMAIN flows, N!Live(f), NEW pc \in Steps,
         flows' = [flows EXCEPT ![f].pc = pc],
         UNCHANGED <<handle, login, overlapped>>,
         pc = "aborted" => flows[f].aborting,
         \/ UNCHANGED queue /\ pc # "over"
         \/ \E type \in {"url", "finished"}, ok \in BOOLEAN :
              /\ queue' = Append(queue, [type |-> type, flow |-> f, ok |-> ok])
              /\ type = "finished" <=> pc = "over"
  PROVE  SignInInv'
<1> DEFINE Event == [type : {"url", "finished"}, flow : Nat, ok : BOOLEAN]
<1>1. /\ flows \in Seq(FlowState) /\ queue \in Seq(Event) /\ f \in Nat
      /\ flows' \in Seq(FlowState) /\ DOMAIN flows' = DOMAIN flows
      /\ flows'[f].pc = pc
      /\ \A g \in DOMAIN flows : /\ flows'[g].aborting = flows[g].aborting
                                 /\ g # f => flows'[g].pc = flows[g].pc
  <2>1. flows \in Seq(FlowState) /\ queue \in Seq(Event) /\ f \in Nat  BY DEF SignInInv, SignInType
  <2>2. [flows[f] EXCEPT !.pc = pc] \in FlowState
    <3>1. flows[f] \in FlowState  BY <2>1
    <3> QED BY <3>1 DEF FlowState
  <2>3. flows' = [flows EXCEPT ![f] = [flows[f] EXCEPT !.pc = pc]]  OBVIOUS
  <2>4. flows' \in Seq(FlowState) /\ Len(flows') = Len(flows)  BY <2>1, <2>2, <2>3, FlowChanged
  <2>5. \A g \in DOMAIN flows : flows[g] \in FlowState  BY <2>1
  <2>6. flows'[f] = [flows[f] EXCEPT !.pc = pc] /\ \A g \in DOMAIN flows : g # f => flows'[g] = flows[g]
    BY <2>3
  <2> QED BY <2>1, <2>2, <2>4, <2>5, <2>6 DEF FlowState
<1>2. /\ queue' \in Seq(Event)
      /\ \A i \in DOMAIN queue : i \in DOMAIN queue' /\ queue'[i] = queue[i]
      /\ \A i \in DOMAIN queue' : i \notin DOMAIN queue =>
           queue'[i].flow = f /\ (queue'[i].type = "finished" => pc = "over")
      /\ pc = "over" => \E i \in DOMAIN queue' : queue'[i].type = "finished" /\ queue'[i].flow = f
  <2>1. CASE UNCHANGED queue /\ pc # "over"  BY <2>1, <1>1
  <2>2. ASSUME NEW type \in {"url", "finished"}, NEW ok \in BOOLEAN,
               queue' = Append(queue, [type |-> type, flow |-> f, ok |-> ok]),
               type = "finished" <=> pc = "over"
        PROVE  <1>2
    <3> DEFINE event == [type |-> type, flow |-> f, ok |-> ok]
    <3>1. event \in Event /\ event.type = type /\ event.flow = f  BY <1>1
    <3>2. PICK last \in Nat : last = Len(queue) + 1  BY <1>1
    <3> HIDE DEF event
    <3>3. queue' = Append(queue, event)  BY <2>2 DEF event
    <3>4. /\ queue' \in Seq(Event) /\ queue'[last] = event /\ last \in DOMAIN queue'
          /\ \A i \in DOMAIN queue : i \in DOMAIN queue' /\ queue'[i] = queue[i]
          /\ \A i \in DOMAIN queue' : i \notin DOMAIN queue => i = last
      BY <3>1, <3>2, <3>3, <1>1
    <3> QED BY <3>1, <3>4, <2>2
  <2> QED BY <2>1, <2>2
<1>3. SignInType'  BY <1>1, <1>2 DEF SignInInv, SignInType
<1>4. FinishedIsOver'
  BY <1>1, <1>2 DEF SignInInv, SignInType, FinishedIsOver, N!Live
<1>5. GivenUp'  BY <1>1 DEF SignInInv, SignInType, GivenUp
<1>6. OverIsAnnounced'
  BY <1>1, <1>2 DEF SignInInv, SignInType, OverIsAnnounced
<1>7. InHand'  BY <1>1 DEF SignInInv, InHand, N!Live
<1> QED BY <1>3, <1>4, <1>5, <1>6, <1>7 DEF SignInInv

LEMMA StepKeeps ==
  ASSUME SignInInv, NEW f \in DOMAIN flows, N!Step(f)
  PROVE  SignInInv'
<1> USE DEF N!Goto, N!Send, Steps
<1>1. CASE N!Bind(f)  BY <1>1, FlowKeeps DEF N!Bind, N!Live
<1>2. CASE N!AbortLands(f)  BY <1>2, FlowKeeps DEF N!AbortLands
<1>3. ASSUME NEW ok \in BOOLEAN, N!Callback(f, ok)
      PROVE  SignInInv'
  BY <1>3, FlowKeeps DEF N!Callback, N!Live
<1>4. ASSUME NEW ok \in BOOLEAN, N!Exchange(f, ok)
      PROVE  SignInInv'
  BY <1>4, FlowKeeps DEF N!Exchange, N!Live
<1> QED BY <1>1, <1>2, <1>3, <1>4 DEF N!Step

LEMMA SignInStutters ==
  ASSUME SignInInv, UNCHANGED <<flows, handle, queue, login, overlapped>>
  PROVE  SignInInv'
BY DEF SignInInv, SignInType, FinishedIsOver, GivenUp, OverIsAnnounced, InHand, N!Live

LEMMA SignInSteps ==
  ASSUME SignInInv, N!Next
  PROVE  SignInInv'
<1>1. ASSUME NEW p \in Provider, N!Login(p)  PROVE SignInInv'  BY <1>1, LoginKeeps
<1>2. ASSUME NEW p \in Provider, N!ServerStops(p) \/ N!VendorSignsIn(p)  PROVE SignInInv'
  BY <1>2, SignInStutters DEF N!ServerStops, N!VendorSignsIn
<1>3. CASE N!CancelLogin  BY <1>3, CancelLoginKeeps
<1>4. CASE N!HandleEvent  BY <1>4, HandleEventKeeps
<1>5. ASSUME NEW f \in N!Flow, N!Step(f)  PROVE SignInInv'
  BY <1>5, StepKeeps DEF N!Flow
<1> QED BY <1>1, <1>2, <1>3, <1>4, <1>5 DEF N!Next

SignInAtWork == focus = "signin" => SignInInv

\* However sign-ins are started, given up, answered, refused and overtaken,
\* and however late an abort takes effect: as long as no word of a flow that was
\* given up is heard, the engine's handle is of the only one that may still act
\* for it, and "awaiting" is shown of a flow that waits or has said how it ended.
THEOREM HandleAlwaysReaches == PartsSpec => []HandleReachesFlow
<1>1. PartsInit => SignInAtWork
  BY SignInStarts DEF PartsInit, SignInAtWork
<1>2. SignInAtWork /\ [PartsNext]_partsVars => SignInAtWork'
  <2> SUFFICES ASSUME SignInAtWork, [PartsNext]_partsVars, focus' = "signin"
               PROVE  SignInInv'
    BY DEF SignInAtWork
  <2>1. CASE focus = "signin" /\ N!Next  BY <2>1, SignInSteps DEF SignInAtWork
  <2>2. CASE focus = "signin" /\ UNCHANGED signInVars
    BY <2>2, SignInStutters DEF SignInAtWork, signInVars
  <2>3. (focus = "signin" /\ N!Next) \/ (focus = "signin" /\ UNCHANGED signInVars)
    BY DEF PartsNext, partsVars
  <2> QED BY <2>1, <2>2, <2>3
<1>3. SignInAtWork => HandleReachesFlow
  <2> SUFFICES ASSUME SignInInv, ~ overlapped  PROVE N!HandleReachesFlow
    BY DEF SignInAtWork, HandleReachesFlow, N!HandleReachesFlow
  <2>1. \A f \in DOMAIN flows : N!Live(f) /\ ~ flows[f].aborting => f = handle
    BY DEF SignInInv, InHand
  <2>2. ASSUME login = "awaiting"
        PROVE  /\ handle # None
               /\ N!Live(handle) \/ \E i \in DOMAIN queue : queue[i].flow = handle
    <3>1. handle # None /\ handle \in DOMAIN flows  BY <2>2 DEF SignInInv, InHand, SignInType
    <3>2. flows[handle].pc # "aborted"  BY <3>1 DEF SignInInv, GivenUp
    <3> QED BY <3>1, <3>2 DEF SignInInv, OverIsAnnounced, N!Live
  <2> QED BY <2>1, <2>2 DEF N!HandleReachesFlow, N!Flow
<1> QED BY <1>1, <1>2, <1>3, PTL DEF PartsSpec

----------------------------------------------------------------------------
(* Discovery.  A key comes with the tokens of its account from wherever it  *)
(* is read: codex's file says both, claude's two agree while they are read  *)
(* or are known to have been torn.                                          *)

Fields == {"key", "label", "plan", "tokens", "source", "signedOut"}

IsList(rs) == rs \in Seq({rs[i] : i \in DOMAIN rs})

\* Of a record, or of what a source holds: mixed is whether claude's may be.
Owned(r, mixed) == r.key[1] = "codex" \/ ~ mixed => r.key = D!KeyOf(r.key[1], r.tokens.owner)

OwnedList(rs, mixed) ==
  /\ IsList(rs)
  /\ \A i, j \in DOMAIN rs : i # j => rs[i].key # rs[j].key
  /\ \A i \in DOMAIN rs : DOMAIN rs[i] = Fields /\ Owned(rs[i], mixed)

Stores(text, held) ==
  /\ held # None => held.access.owner \in Person
  /\ text # None /\ text.access # None => D!CodexKey(text) = D!KeyOf("codex", text.access.owner)

LooksAround(job, held, mixed) ==
  /\ job = [at |-> "discover", codex |-> job.codex, who |-> job.who]
  /\ job.codex # None => Owned(job.codex, mixed)
  /\ held # None /\ ~ mixed => job.who = held.access.owner

LooksAgain(job, rs, signedIn, mixed) ==
  /\ job = [at |-> "recheck", due |-> job.due, text |-> job.text, found |-> job.found]
  /\ job.due \in Seq(DOMAIN rs) /\ IsList(job.found)
  /\ Len(job.found) <= Len(job.due)
  /\ job.text # None =>
       /\ Len(job.found) < Len(job.due)
       /\ job.text.access.owner \in Person
       /\ ~ mixed => signedIn = job.text.access.owner
  /\ \A k \in DOMAIN job.found :
       job.found[k] # None =>
         /\ job.found[k].key = rs[job.due[k]].key
         /\ Owned(job.found[k], mixed)

AtJob(job, held, signedIn, rs, mixed) ==
  job = D!Idle \/ LooksAround(job, held, mixed) \/ LooksAgain(job, rs, signedIn, mixed)

DiscoveryInv ==
  /\ torn \in BOOLEAN
  /\ Stores(auth, wallet)
  /\ OwnedList(ours, torn) /\ OwnedList(stowed, torn)
  /\ stowed = D!Lasting(stowed)
  /\ stowed # D!Lasting(ours) => writeDue \/ lost
  /\ AtJob(looking, wallet, profile, ours, torn)

LEMMA OwnedStays ==
  ASSUME NEW r, NEW mixed, NEW more, mixed => more, Owned(r, mixed)
  PROVE  Owned(r, more)
BY DEF Owned

LEMMA OwnedListStays ==
  ASSUME NEW rs, NEW mixed, NEW more, mixed => more, OwnedList(rs, mixed)
  PROVE  OwnedList(rs, more)
BY OwnedStays DEF OwnedList

LEMMA IsListOf ==
  ASSUME NEW T, NEW list \in Seq(T)
  PROVE  IsList(list)
<1> DEFINE Values == {list[k] : k \in DOMAIN list}
<1>1. PICK n \in Nat : DOMAIN list = 1..n  OBVIOUS
<1>2. list = [k \in 1..n |-> list[k]]  BY <1>1
<1>3. \A k \in 1..n : list[k] \in Values  BY <1>1
<1> HIDE DEF Values
<1>4. list \in Seq(Values)  BY <1>2, <1>3
<1> QED BY <1>4 DEF IsList, Values

\* Records are changed in place and keep their keys.
LEMMA OwnedListChanged ==
  ASSUME NEW rs, NEW mixed, OwnedList(rs, mixed), NEW new, NEW more,
         new = [i \in DOMAIN rs |-> new[i]],
         \A i \in DOMAIN rs : /\ new[i].key = rs[i].key
                              /\ DOMAIN new[i] = Fields /\ Owned(new[i], more)
  PROVE  OwnedList(new, more)
<1>1. rs \in Seq({rs[i] : i \in DOMAIN rs})  BY DEF OwnedList, IsList
<1>2. PICK n \in Nat : DOMAIN rs = 1..n  BY <1>1
<1>3. DOMAIN new = 1..n  BY <1>2
<1>4. IsList(new)
  <2> DEFINE T == {new[i] : i \in DOMAIN new}
  <2>1. new = [i \in 1..n |-> new[i]]  BY <1>2
  <2>2. \A i \in 1..n : new[i] \in T  BY <1>3
  <2> HIDE DEF T
  <2>3. new \in Seq(T)  BY <2>1, <2>2
  <2> QED BY <2>3, IsListOf
<1> QED BY <1>3, <1>2, <1>4 DEF OwnedList

LEMMA OwnedListAppend ==
  ASSUME NEW rs, NEW mixed, OwnedList(rs, mixed), NEW r, DOMAIN r = Fields, Owned(r, mixed),
         \A i \in DOMAIN rs : rs[i].key # r.key
  PROVE  OwnedList(Append(rs, r), mixed)
<1> DEFINE T == {rs[i] : i \in DOMAIN rs} \cup {r}
           new == Append(rs, r)
<1>1. rs \in Seq({rs[i] : i \in DOMAIN rs})  BY DEF OwnedList, IsList
<1>2. rs \in Seq(T) /\ r \in T  BY <1>1
<1>3. PICK last \in Nat : last = Len(rs) + 1  BY <1>1
<1> HIDE DEF T
<1>4. /\ new \in Seq(T) /\ DOMAIN new = 1..last /\ new[last] = r
      /\ \A i \in DOMAIN rs : i \in DOMAIN new /\ i # last /\ new[i] = rs[i]
      /\ \A i \in DOMAIN new : i # last => i \in DOMAIN rs
      /\ Len(new) = last
  BY <1>2, <1>3
<1> HIDE DEF new
<1>5. IsList(new)  BY <1>4, IsListOf
<1>6. \A i \in DOMAIN new : DOMAIN new[i] = Fields /\ Owned(new[i], mixed)
  BY <1>4 DEF OwnedList
<1>7. \A i, j \in DOMAIN new : i # j => new[i].key # new[j].key
  BY <1>4 DEF OwnedList
<1> QED BY <1>5, <1>6, <1>7 DEF OwnedList, new

LEMMA RecordOf ==
  ASSUME NEW f, NEW mixed, Owned(f, mixed)
  PROVE  /\ D!Record(f).key = f.key /\ D!Record(f).tokens = f.tokens
         /\ DOMAIN D!Record(f) = Fields /\ Owned(D!Record(f), mixed)
BY DEF D!Record, Owned, Fields

LEMMA MergeKeeps ==
  ASSUME NEW rs, NEW mixed, OwnedList(rs, mixed), NEW f, f # None => Owned(f, mixed)
  PROVE  OwnedList(D!Merge(rs, f), mixed)
<1>1. CASE f = None  BY <1>1 DEF D!Merge
<1>2. CASE f # None /\ ~ D!Knows(rs, f.key)
  <2>1. D!Merge(rs, f) = Append(rs, D!Record(f))  BY <1>2 DEF D!Merge
  <2> QED BY <2>1, <1>2, RecordOf, OwnedListAppend DEF D!Knows
<1>3. CASE f # None /\ D!Knows(rs, f.key)
  <2> DEFINE new == D!Merge(rs, f)
  <2>1. new = [i \in DOMAIN rs |->
                 IF rs[i].key = f.key /\ f.plan # None THEN [rs[i] EXCEPT !.plan = f.plan] ELSE rs[i]]
    BY <1>3 DEF D!Merge
  <2> HIDE DEF new
  <2>2. \A i \in DOMAIN rs : new[i].key = rs[i].key /\ DOMAIN new[i] = Fields /\ Owned(new[i], mixed)
    BY <2>1 DEF OwnedList, Owned, Fields
  <2>3. new = [i \in DOMAIN rs |-> new[i]]  BY <2>1
  <2> QED BY <2>2, <2>3, OwnedListChanged DEF new
<1> QED BY <1>1, <1>2, <1>3

LEMMA KeyOfProvider == \A p, a : D!KeyOf(p, a)[1] = p
BY DEF D!KeyOf, D!AccountKey

\* codex's file says whose its tokens are.
LEMMA CodexIsOwned ==
  ASSUME Stores(auth, wallet), NEW mixed
  PROVE  D!ParseCodex(auth) # None => Owned(D!ParseCodex(auth), mixed)
BY KeyOfProvider DEF Stores, D!ParseCodex, Owned

\* What claude's two stores say while they agree is of one account.
LEMMA ClaudeIsOwned ==
  ASSUME NEW text, NEW who, NEW mixed,
         text # None /\ ~ mixed => who = text.access.owner /\ who \in Person
  PROVE  D!ParseClaude(text, who) # None => Owned(D!ParseClaude(text, who), mixed)
<1>1. CASE text = None  BY <1>1 DEF D!ParseClaude
<1>2. CASE text # None
  <2> DEFINE f == D!ParseClaude(text, who)
  <2>1. f.key = D!ClaudeKey(who) /\ f.tokens = text.access  BY <1>2 DEF D!ParseClaude
  <2>2. D!ClaudeKey(who)[1] = "claude"  BY DEF D!ClaudeKey, D!AccountKey
  <2>3. ~ mixed => D!ClaudeKey(who) = D!KeyOf("claude", text.access.owner)
    BY <1>2, IdentityAssumption
  <2> HIDE DEF f
  <2>4. Owned(f, mixed)  BY <2>1, <2>2, <2>3 DEF Owned
  <2> QED BY <2>4 DEF f
<1> QED BY <1>1, <1>2

\* The operators look at no variable but their arguments.
LEMMA Together ==
  ASSUME torn' \in BOOLEAN, Stores(auth', wallet'), OwnedList(ours', torn'), OwnedList(stowed', torn'),
         stowed' = D!Lasting(stowed'), stowed' # D!Lasting(ours') => writeDue' \/ lost',
         AtJob(looking', wallet', profile', ours', torn')
  PROVE  DiscoveryInv'
<1>1. Stores(auth, wallet)' /\ OwnedList(ours, torn)' /\ OwnedList(stowed, torn)'
      /\ AtJob(looking, wallet, profile, ours, torn)'
  BY DEF Stores, D!CodexKey, D!CodexId, D!Claims, AtJob, LooksAround, LooksAgain, D!Idle, OwnedList, IsList, Owned, D!KeyOf, D!AccountKey, D!First
<1>2. (stowed = D!Lasting(stowed) /\ (stowed # D!Lasting(ours) => writeDue \/ lost))'  BY DEF D!Lasting
<1> QED BY <1>1, <1>2 DEF DiscoveryInv

LEMMA JobStays ==
  ASSUME NEW job, NEW held, NEW signedIn, NEW rs, NEW mixed, AtJob(job, held, signedIn, rs, mixed),
         NEW more, mixed => more, NEW heldNow, NEW signedInNow,
         more \/ job = D!Idle \/ (heldNow = held /\ signedInNow = signedIn)
  PROVE  AtJob(job, heldNow, signedInNow, rs, more)
<1>1. CASE job = D!Idle  BY <1>1 DEF AtJob
<1>2. CASE job # D!Idle /\ LooksAround(job, held, mixed)
  <2>1. LooksAround(job, heldNow, more)  BY <1>2, OwnedStays DEF LooksAround
  <2> QED BY <2>1 DEF AtJob
<1>3. CASE job # D!Idle /\ LooksAgain(job, rs, signedIn, mixed)
  <2>1. LooksAgain(job, rs, signedInNow, more)  BY <1>3, OwnedStays DEF LooksAgain
  <2> QED BY <2>1 DEF AtJob
<1> QED BY <1>1, <1>2, <1>3 DEF AtJob

LEMMA DiscoveryStarts == ASSUME D!Init PROVE DiscoveryInv
<1> USE DEF D!Init
<1>1. Stores(auth, wallet)
  <2>1. wallet # None => wallet.access.owner \in Person  OBVIOUS
  <2>2. ASSUME auth # None  PROVE D!CodexKey(auth) = D!KeyOf("codex", auth.access.owner)
    <3>1. PICK a \in Coder : auth = [Codex(a) EXCEPT !.access = [owner |-> a, number |-> 0]]
      BY <2>2
    <3>2. auth.claims = Codex(a).claims /\ auth.account_id = Codex(a).account_id /\ auth.access.owner = a
      BY <3>1, IdentityAssumption
    <3>3. D!CodexKey(auth) = D!CodexKey(Codex(a))
      BY <3>2 DEF D!CodexKey, D!CodexId, D!Claims
    <3> QED BY <3>2, <3>3, IdentityAssumption
  <2> QED BY <2>1, <2>2 DEF Stores
<1>2. OwnedList(<<>>, torn)  BY DEF OwnedList, IsList
<1>3. D!Lasting(<<>>) = <<>>  BY DEF D!Lasting
<1> QED BY <1>1, <1>2, <1>3 DEF DiscoveryInv, AtJob

LEMMA CodexMovesKeeps ==
  ASSUME DiscoveryInv, D!CodexMoves
  PROVE  DiscoveryInv'
<1>1. UNCHANGED <<wallet, profile, ours, stowed, writeDue, looking, torn, lost>>
  BY DEF D!CodexMoves
<1>2. Stores(auth', wallet')
  <2>1. CASE auth' = None  BY <2>1, <1>1 DEF DiscoveryInv, Stores
  <2>2. ASSUME NEW a \in Coder, auth' = [Codex(a) EXCEPT !.access = D!Token(a)]
        PROVE  Stores(auth', wallet')
    <3>1. auth'.claims = Codex(a).claims /\ auth'.account_id = Codex(a).account_id /\ auth'.access.owner = a
      BY <2>2, IdentityAssumption DEF D!Token
    <3>2. D!CodexKey(auth') = D!CodexKey(Codex(a))
      BY <3>1 DEF D!CodexKey, D!CodexId, D!Claims
    <3>3. D!CodexKey(auth') = D!KeyOf("codex", auth'.access.owner)
      BY <3>1, <3>2, IdentityAssumption
    <3> QED BY <3>3, <1>1
            DEF DiscoveryInv, Stores
  <2>3. CASE auth' = [access |-> None, account_id |-> None, claims |-> None]
    BY <2>3, <1>1 DEF DiscoveryInv, Stores
  <2> QED BY <2>1, <2>2, <2>3 DEF D!CodexMoves
<1>3. AtJob(looking', wallet', profile', ours', torn')  BY <1>1 DEF DiscoveryInv
<1>4. OwnedList(ours', torn') /\ OwnedList(stowed', torn')
  BY <1>1 DEF DiscoveryInv
<1> QED BY <1>1, <1>2, <1>3, <1>4, Together DEF DiscoveryInv

LEMMA ClaudeMovesKeeps ==
  ASSUME DiscoveryInv, D!ClaudeMoves
  PROVE  DiscoveryInv'
<1>1. UNCHANGED <<auth, ours, stowed, writeDue, looking, lost>> /\ torn' = (torn \/ looking # D!Idle)
  BY DEF D!ClaudeMoves
<1>2. torn' \in BOOLEAN /\ (torn => torn')  BY <1>1 DEF DiscoveryInv
<1>3. wallet' # None => wallet'.access.owner \in Person
  <2>1. CASE UNCHANGED wallet  BY <2>1 DEF DiscoveryInv, Stores
  <2>2. CASE wallet' \in {None} \cup [access : {D!Token(a) : a \in Person}, plan : WalletPlans]
    BY <2>2 DEF D!Token
  <2> QED BY <2>1, <2>2 DEF D!ClaudeMoves
<1>4. Stores(auth', wallet')
  BY <1>1, <1>3 DEF DiscoveryInv, Stores
<1>5. AtJob(looking', wallet', profile', ours', torn')
  <2>1. (torn => torn') /\ (torn' \/ looking = D!Idle)  BY <1>1
  <2>2. AtJob(looking, wallet, profile, ours, torn)  BY DEF DiscoveryInv
  <2>3. AtJob(looking, wallet', profile', ours, torn')  BY <2>1, <2>2, JobStays
  <2> QED BY <1>1, <2>3
<1>6. OwnedList(ours', torn') /\ OwnedList(stowed', torn')
  BY <1>1, <1>2, OwnedListStays DEF DiscoveryInv
<1> QED BY <1>1, <1>2, <1>4, <1>5, <1>6, Together DEF DiscoveryInv

\* The mark of who is signed out is all that subs.json leaves out.
LEMMA LastingKeeps ==
  ASSUME NEW rs, NEW mixed, OwnedList(rs, mixed)
  PROVE  OwnedList(D!Lasting(rs), mixed) /\ D!Lasting(rs) = D!Lasting(D!Lasting(rs))
<1> DEFINE new == D!Lasting(rs)
<1>1. new = [i \in DOMAIN rs |-> [rs[i] EXCEPT !.signedOut = FALSE]]  BY DEF D!Lasting
<1> HIDE DEF new
<1>2. \A i \in DOMAIN rs : DOMAIN rs[i] = Fields /\ Owned(rs[i], mixed)  BY DEF OwnedList
<1>3. ASSUME NEW i \in DOMAIN rs
      PROVE  new[i].key = rs[i].key /\ DOMAIN new[i] = Fields /\ Owned(new[i], mixed)
             /\ new[i] = [new[i] EXCEPT !.signedOut = FALSE]
  <2>1. new[i] = [rs[i] EXCEPT !.signedOut = FALSE]  BY <1>1
  <2>2. new[i].key = rs[i].key /\ new[i].tokens = rs[i].tokens /\ DOMAIN new[i] = Fields
    BY <1>2, <2>1 DEF Fields
  <2> QED BY <1>2, <2>1, <2>2 DEF Owned
<1>4. new = [i \in DOMAIN rs |-> new[i]]  BY <1>1
<1>5. OwnedList(new, mixed)  BY <1>3, <1>4, OwnedListChanged
<1>6. D!Lasting(new) = [i \in DOMAIN rs |-> [new[i] EXCEPT !.signedOut = FALSE]]
  BY <1>4 DEF D!Lasting
<1>7. D!Lasting(new) = new  BY <1>3, <1>4, <1>6
<1> QED BY <1>5, <1>7 DEF new

LEMMA PersistKeeps ==
  ASSUME NEW mixed, OwnedList(stowed, mixed), stowed = D!Lasting(stowed),
         NEW rs, OwnedList(rs, mixed), D!Persist(rs)
  PROVE  /\ OwnedList(stowed', mixed) /\ stowed' = D!Lasting(stowed')
         /\ stowed' = D!Lasting(rs) \/ lost'
<1>1. CASE stowed' = D!Lasting(rs)
  <2>1. PICK new : new = D!Lasting(rs)  OBVIOUS
  <2>2. OwnedList(new, mixed) /\ new = D!Lasting(new)  BY <2>1, LastingKeeps
  <2> QED BY <1>1, <2>1, <2>2 DEF D!Lasting
<1>2. CASE stowed' = stowed /\ lost'
  BY <1>2 DEF D!Lasting
<1> QED BY <1>1, <1>2 DEF D!Persist

LEMMA PersistSubsKeeps ==
  ASSUME DiscoveryInv, D!PersistSubs
  PROVE  DiscoveryInv'
<1>1. UNCHANGED <<auth, wallet, profile, ours, looking, torn>> /\ D!Persist(ours)
  BY DEF D!PersistSubs, D!vendors
<1>2. /\ OwnedList(stowed', torn) /\ stowed' = D!Lasting(stowed')
      /\ stowed' = D!Lasting(ours) \/ lost'
  BY <1>1, PersistKeeps DEF DiscoveryInv
<1>3. Stores(auth', wallet')  BY <1>1 DEF DiscoveryInv
<1> QED BY <1>1, <1>2, <1>3, Together DEF DiscoveryInv

\* A look at the stores while nothing moves.
LEMMA LookKeeps ==
  ASSUME DiscoveryInv, D!Look, UNCHANGED <<auth, wallet, profile>>
  PROVE  /\ torn' \in BOOLEAN /\ (torn => torn')
         /\ \A rs : AtJob(looking', wallet', profile', rs, torn')
<1>1. torn' = (torn \/ ~ D!Settled) /\ torn' \in BOOLEAN  BY DEF D!Look, DiscoveryInv
<1>2. D!ParseCodex(auth) # None => Owned(D!ParseCodex(auth), torn')
  BY CodexIsOwned DEF DiscoveryInv
<1>3. looking' = [at |-> "discover", codex |-> D!ParseCodex(auth), who |-> profile]  BY DEF D!Look
<1>4. wallet # None /\ ~ torn' => profile = wallet.access.owner  BY <1>1 DEF D!Settled
<1>5. LooksAround(looking', wallet', torn')  BY <1>2, <1>3, <1>4 DEF LooksAround
<1> QED BY <1>1, <1>5 DEF AtJob

LEMMA StartedKeeps ==
  ASSUME DiscoveryInv, D!Start
  PROVE  DiscoveryInv'
<1>1. UNCHANGED <<auth, wallet, profile, stowed>> /\ D!Look  BY DEF D!Start, D!vendors
<1>2. torn' \in BOOLEAN /\ (torn => torn') /\ AtJob(looking', wallet', profile', ours', torn')
  BY <1>1, LookKeeps
<1>3. ours' = stowed  BY DEF D!Start
<1>4. OwnedList(stowed', torn') /\ OwnedList(ours', torn')
  BY <1>1, <1>2, <1>3, OwnedListStays DEF DiscoveryInv
<1>5. stowed' = D!Lasting(stowed') /\ stowed' = D!Lasting(ours')  BY <1>1, <1>3 DEF DiscoveryInv
<1>6. Stores(auth', wallet')  BY <1>1 DEF DiscoveryInv
<1> QED BY <1>1, <1>2, <1>4, <1>5, <1>6, Together

LEMMA RediscoveredKeeps ==
  ASSUME DiscoveryInv, D!Rediscover
  PROVE  DiscoveryInv'
<1>1. UNCHANGED <<auth, wallet, profile, ours, stowed, writeDue, lost>> /\ D!Look
  BY DEF D!Rediscover, D!vendors
<1>2. torn' \in BOOLEAN /\ (torn => torn') /\ AtJob(looking', wallet', profile', ours', torn')
  BY <1>1, LookKeeps
<1>3. OwnedList(ours', torn') /\ OwnedList(stowed', torn')
  BY <1>1, <1>2, OwnedListStays DEF DiscoveryInv
<1>4. Stores(auth', wallet')  BY <1>1 DEF DiscoveryInv
<1> QED BY <1>1, <1>2, <1>3, <1>4, Together DEF DiscoveryInv

\* The jobs tell themselves apart.
LEMMA JobAt ==
  ASSUME NEW job, NEW held, NEW signedIn, NEW rs, NEW mixed, AtJob(job, held, signedIn, rs, mixed)
  PROVE  /\ job.at = "discover" => LooksAround(job, held, mixed)
         /\ job.at = "recheck" => LooksAgain(job, rs, signedIn, mixed)
BY DEF AtJob, D!Idle, LooksAround, LooksAgain

LEMMA AdoptKeeps ==
  ASSUME DiscoveryInv, D!Adopt
  PROVE  DiscoveryInv'
<1>1. /\ looking.at = "discover" /\ looking' = D!Idle
      /\ UNCHANGED <<auth, wallet, profile, torn>>
  BY DEF D!Adopt, D!vendors
<1>2. LooksAround(looking, wallet, torn)  BY <1>1, JobAt DEF DiscoveryInv
<1>3. OwnedList(ours', torn)
  <2>1. PICK text \in {wallet, None} :
          ours' = D!Merge(D!Merge(ours, looking.codex), D!ParseClaude(text, looking.who))
    BY DEF D!Adopt
  <2>2. OwnedList(D!Merge(ours, looking.codex), torn)  BY <1>2, MergeKeeps DEF DiscoveryInv, LooksAround
  <2>3. text # None /\ ~ torn => looking.who = text.access.owner /\ looking.who \in Person
    BY <1>2 DEF DiscoveryInv, Stores, LooksAround
  <2>4. D!ParseClaude(text, looking.who) # None => Owned(D!ParseClaude(text, looking.who), torn)
    BY <2>3, ClaudeIsOwned
  <2> QED BY <2>1, <2>2, <2>4, MergeKeeps
<1>4. /\ OwnedList(stowed', torn) /\ stowed' = D!Lasting(stowed')
      /\ stowed' # D!Lasting(ours') => writeDue' \/ lost'
  <2>1. ASSUME D!Persist(ours')
        PROVE  /\ OwnedList(stowed', torn) /\ stowed' = D!Lasting(stowed')
               /\ stowed' # D!Lasting(ours') => writeDue' \/ lost'
    <3>1. OwnedList(stowed, torn) /\ stowed = D!Lasting(stowed)  BY DEF DiscoveryInv
    <3>2. PICK rs : rs = ours'  OBVIOUS
    <3>3. OwnedList(rs, torn) /\ D!Persist(rs)  BY <1>3, <2>1, <3>2
    <3>4. /\ OwnedList(stowed', torn) /\ stowed' = D!Lasting(stowed')
          /\ stowed' = D!Lasting(rs) \/ lost'
      BY <3>1, <3>3, PersistKeeps
    <3> QED BY <3>2, <3>4
  <2>2. CASE writeDue' = (writeDue \/ ours' # ours) /\ UNCHANGED <<stowed, lost>>
    BY <2>2 DEF DiscoveryInv
  <2> QED BY <2>1, <2>2 DEF D!Adopt
<1>5. AtJob(looking', wallet', profile', ours', torn')  BY <1>1 DEF AtJob
<1> QED BY <1>1, <1>3, <1>4, <1>5, Together DEF DiscoveryInv

LEMMA RecheckedKeeps ==
  ASSUME DiscoveryInv, D!Recheck
  PROVE  DiscoveryInv'
<1> DEFINE all == [i \in DOMAIN ours |-> i]
           out == {i \in DOMAIN ours : ours[i].signedOut}
           due == D!Selected(all, out)
<1>1. /\ looking' = [at |-> "recheck", due |-> due, text |-> None, found |-> <<>>]
      /\ UNCHANGED <<auth, wallet, profile, ours, stowed, writeDue, torn, lost>>
  BY DEF D!Recheck, D!vendors
<1>2. all \in Seq(DOMAIN ours)
  <2>1. PICK n \in Nat : DOMAIN ours = 1..n  BY DEF DiscoveryInv, OwnedList, IsList
  <2> QED BY <2>1
<1> HIDE DEF all, out
<1>3. due = Selected(all, out)  BY DEF Selected, D!Selected
<1>4. due \in Seq(DOMAIN ours)  BY <1>2, <1>3, SelectedType
<1> HIDE DEF due
<1>5. LooksAgain(looking', ours', profile', torn')  BY <1>1, <1>4 DEF LooksAgain, IsList
<1> QED BY <1>1, <1>5, Together DEF DiscoveryInv, AtJob

LEMMA RecheckFields ==
  ASSUME NEW job, NEW due, NEW text, NEW found,
         job = [at |-> "recheck", due |-> due, text |-> text, found |-> found]
  PROVE  job.due = due /\ job.text = text /\ job.found = found
OBVIOUS

\* One more of them has been answered for.
LEMMA AnswerOwned ==
  ASSUME NEW job, NEW rs, NEW signedIn, NEW mixed, LooksAgain(job, rs, signedIn, mixed),
         Len(job.found) < Len(job.due), NEW f, f # None => Owned(f, mixed), NEW i,
         i = job.due[Len(job.found) + 1], NEW next, NEW found,
         found = IF f = None \/ f.key # rs[i].key THEN None ELSE f,
         next = [job EXCEPT !.text = None, !.found = Append(@, found)]
  PROVE  LooksAgain(next, rs, signedIn, mixed)
<1> DEFINE T == {job.found[k] : k \in DOMAIN job.found} \cup {found}
<1>1. PICK due, text, old :
        /\ job = [at |-> "recheck", due |-> due, text |-> text, found |-> old]
        /\ due = job.due /\ old = job.found
  BY DEF LooksAgain
<1>2. PICK new : new = Append(old, found)  OBVIOUS
<1>3. next = [at |-> "recheck", due |-> due, text |-> None, found |-> new]  BY <1>1, <1>2
<1>4. old \in Seq(T) /\ found \in T  BY <1>1 DEF LooksAgain, IsList
<1> HIDE DEF T
<1>5. PICK last \in Nat : last = Len(old) + 1  BY <1>4
<1>6. /\ new \in Seq(T) /\ DOMAIN new = 1..last /\ Len(new) = last /\ new[last] = found
      /\ \A k \in DOMAIN new : k # last => k \in DOMAIN old /\ new[k] = old[k]
  BY <1>2, <1>4, <1>5
<1>7. IsList(new)  BY <1>6, IsListOf
<1>8. due \in Seq(DOMAIN rs) /\ last <= Len(due)  BY <1>1, <1>4, <1>5 DEF LooksAgain
<1>9. found # None => found.key = rs[due[last]].key /\ Owned(found, mixed)  BY <1>1, <1>5
<1>10. \A k \in DOMAIN new :
         new[k] # None => new[k].key = rs[due[k]].key /\ Owned(new[k], mixed)
  BY <1>1, <1>6, <1>9 DEF LooksAgain
<1>11. next.due = due /\ next.text = None /\ next.found = new
  BY ONLY <1>3, RecheckFields
<1>12. next = [at |-> "recheck", due |-> next.due, text |-> next.text, found |-> next.found]
  BY <1>3, <1>11
<1>13. \A k \in DOMAIN next.found :
         next.found[k] # None =>
           next.found[k].key = rs[next.due[k]].key /\ Owned(next.found[k], mixed)
  <2> HIDE DEF Owned
  <2> QED BY <1>10, <1>11
<1>14. IsList(next.found) /\ Len(next.found) <= Len(next.due) /\ next.due \in Seq(DOMAIN rs)
  BY <1>6, <1>7, <1>8, <1>11
<1> QED BY <1>11, <1>12, <1>13, <1>14 DEF LooksAgain

LEMMA SourceRead ==
  ASSUME D!RereadSource
  PROVE  \/ looking' = D!Answer(D!Turn, None) /\ UNCHANGED torn
         \/ looking' = D!Answer(D!Turn, D!ParseCodex(auth)) /\ UNCHANGED torn
         \/ /\ wallet # None /\ looking' = [looking EXCEPT !.text = wallet]
            /\ torn' = (torn \/ ~ D!Settled)
BY DEF D!RereadSource

LEMMA RereadSourceKeeps ==
  ASSUME DiscoveryInv, D!RereadSource
  PROVE  DiscoveryInv'
<1>1. /\ looking.at = "recheck" /\ Len(looking.found) < Len(looking.due) /\ looking.text = None
      /\ UNCHANGED <<auth, wallet, profile, ours, stowed, writeDue, lost>>
  BY DEF D!RereadSource, D!vendors, D!Left
<1>2. LooksAgain(looking, ours, profile, torn)  BY <1>1, JobAt DEF DiscoveryInv
<1>3. ASSUME NEW f, f # None => Owned(f, torn), looking' = D!Answer(D!Turn, f), UNCHANGED torn
      PROVE  DiscoveryInv'
  <2>1. LooksAgain(looking', ours, profile, torn)
    BY <1>1, <1>2, <1>3, AnswerOwned DEF D!Answer, D!Turn
  <2> QED BY <2>1, <1>1, <1>3, Together DEF DiscoveryInv, AtJob
<1>4. ASSUME looking' = D!Answer(D!Turn, None), UNCHANGED torn  PROVE DiscoveryInv'
  BY <1>3, <1>4
<1>5. ASSUME looking' = D!Answer(D!Turn, D!ParseCodex(auth)), UNCHANGED torn  PROVE DiscoveryInv'
  BY <1>3, <1>5, CodexIsOwned DEF DiscoveryInv
<1>6. ASSUME wallet # None, looking' = [looking EXCEPT !.text = wallet], torn' = (torn \/ ~ D!Settled)
      PROVE  DiscoveryInv'
  <2>1. torn' \in BOOLEAN /\ (torn => torn')  BY <1>6 DEF DiscoveryInv
  <2>2. ~ torn' => profile = wallet.access.owner  BY <1>6 DEF D!Settled
  <2>3. looking' = [at |-> "recheck", due |-> looking.due, text |-> wallet, found |-> looking.found]
    BY <1>2, <1>6 DEF LooksAgain
  <2>4. wallet.access.owner \in Person  BY <1>6 DEF DiscoveryInv, Stores
  <2>5. LooksAgain(looking', ours', profile', torn')
    BY <1>1, <1>2, <1>6, <2>1, <2>2, <2>3, <2>4, OwnedStays DEF LooksAgain
  <2>6. OwnedList(ours', torn') /\ OwnedList(stowed', torn')
    BY <1>1, <2>1, OwnedListStays DEF DiscoveryInv
  <2> QED BY <1>1, <2>1, <2>5, <2>6, Together DEF DiscoveryInv, AtJob
<1> QED BY <1>4, <1>5, <1>6, SourceRead DEF D!RereadSource

LEMMA RereadIdentityKeeps ==
  ASSUME DiscoveryInv, D!RereadIdentity
  PROVE  DiscoveryInv'
<1> DEFINE f == D!ParseClaude(looking.text, profile)
<1>1. /\ looking.at = "recheck" /\ looking.text # None
      /\ looking' = D!Answer(D!Turn, f)
      /\ UNCHANGED <<auth, wallet, profile, ours, stowed, writeDue, torn, lost>>
  BY DEF D!RereadIdentity, D!vendors
<1>2. LooksAgain(looking, ours, profile, torn)  BY <1>1, JobAt DEF DiscoveryInv
<1>3. f # None => Owned(f, torn)  BY <1>1, <1>2, ClaudeIsOwned DEF LooksAgain
<1>4. Len(looking.found) < Len(looking.due)  BY <1>1, <1>2 DEF LooksAgain
<1> HIDE DEF f
<1>5. LooksAgain(looking', ours, profile, torn)
  BY <1>1, <1>2, <1>3, <1>4, AnswerOwned DEF D!Answer, D!Turn
<1> QED BY <1>1, <1>5, Together DEF DiscoveryInv, AtJob

LEMMA ApplyRecheckKeeps ==
  ASSUME DiscoveryInv, D!ApplyRecheck
  PROVE  DiscoveryInv'
<1>1. /\ looking.at = "recheck" /\ ~ (Len(looking.found) < Len(looking.due))
      /\ looking' = D!Idle /\ ours' = D!Recovered /\ writeDue' = (writeDue \/ ours' # ours)
      /\ UNCHANGED <<auth, wallet, profile, stowed, torn, lost>>
  BY DEF D!ApplyRecheck, D!vendors, D!Left
<1>2. LooksAgain(looking, ours, profile, torn)  BY <1>1, JobAt DEF DiscoveryInv
<1>3. DOMAIN looking.found = DOMAIN looking.due
  <2>1. PICK n \in Nat : n = Len(looking.found)  BY <1>2 DEF LooksAgain, IsList
  <2>2. Len(looking.due) = n  BY <1>1, <1>2, <2>1 DEF LooksAgain
  <2>3. DOMAIN looking.found = 1..n  BY <1>2, <2>1 DEF LooksAgain, IsList
  <2>4. DOMAIN looking.due = 1..n  BY <1>2, <2>2 DEF LooksAgain
  <2> QED BY <2>3, <2>4
<1>4. ASSUME NEW i \in DOMAIN ours
      PROVE  ours'[i].key = ours[i].key /\ DOMAIN ours'[i] = Fields /\ Owned(ours'[i], torn)
  <2>1. DOMAIN ours[i] = Fields /\ Owned(ours[i], torn)  BY DEF DiscoveryInv, OwnedList
  <2>2. CASE ours'[i] = ours[i]  BY <2>1, <2>2
  <2>3. CASE ours'[i] # ours[i]
    <3>1. PICK k \in DOMAIN looking.due :
            LET found == looking.found[k]
            IN  /\ looking.due[k] = i /\ found # None
                /\ ours'[i] = [ours[i] EXCEPT !.tokens = found.tokens, !.plan = found.plan,
                                             !.source = found.source, !.signedOut = FALSE]
      BY <1>1, <2>3 DEF D!Recovered
    <3>2. PICK found : found = looking.found[k]  OBVIOUS
    <3>3. found.key = ours[i].key /\ Owned(found, torn)
      BY <1>2, <1>3, <3>1, <3>2 DEF LooksAgain
    <3>4. /\ ours'[i].key = ours[i].key /\ DOMAIN ours'[i] = Fields
          /\ ours'[i].tokens = found.tokens
      BY <2>1, <3>1, <3>2 DEF Fields
    <3> QED BY <3>3, <3>4 DEF Owned
  <2> QED BY <2>2, <2>3
<1>5. OwnedList(ours', torn')
  <2>1. ours' = [i \in DOMAIN ours |-> ours'[i]]  BY <1>1 DEF D!Recovered
  <2> QED BY <1>1, <1>4, <2>1, OwnedListChanged DEF DiscoveryInv
<1> QED BY <1>1, <1>5, Together DEF DiscoveryInv, AtJob

LEMMA RefreshedKeeps ==
  ASSUME DiscoveryInv, NEW i \in DOMAIN ours, D!Refreshed(i)
  PROVE  DiscoveryInv'
<1>1. /\ looking = D!Idle
      /\ UNCHANGED <<auth, wallet, profile, stowed, looking, torn, lost>>
  BY DEF D!Refreshed, D!vendors
<1>2. \A k \in DOMAIN ours : DOMAIN ours[k] = Fields /\ Owned(ours[k], torn)
  BY DEF DiscoveryInv, OwnedList
<1>3. ASSUME ours' = [ours EXCEPT ![i] = ours'[i]],
             ours'[i].key = ours[i].key, DOMAIN ours'[i] = Fields, Owned(ours'[i], torn)
      PROVE  OwnedList(ours', torn)
  <2>1. ours' = [k \in DOMAIN ours |-> ours'[k]]  BY <1>3
  <2>2. \A k \in DOMAIN ours : k # i => ours'[k] = ours[k]  BY <1>3
  <2>3. \A k \in DOMAIN ours : ours'[k].key = ours[k].key /\ DOMAIN ours'[k] = Fields /\ Owned(ours'[k], torn)
    BY <1>2, <1>3, <2>2
  <2> QED BY <2>1, <2>3, OwnedListChanged DEF DiscoveryInv
<1>4. CASE ours' = [ours EXCEPT ![i].tokens = D!Token(@.owner)] /\ writeDue' = TRUE
  <2>1. ours'[i] = [ours[i] EXCEPT !.tokens = D!Token(ours[i].tokens.owner)]  BY <1>4
  <2>2. /\ ours'[i].key = ours[i].key /\ DOMAIN ours'[i] = Fields
        /\ ours'[i].tokens.owner = ours[i].tokens.owner
    BY <1>2, <2>1 DEF D!Token, Fields
  <2>3. Owned(ours'[i], torn)  BY <1>2, <2>2 DEF Owned
  <2>4. ours' = [ours EXCEPT ![i] = ours'[i]]  BY <1>4, <2>1
  <2>5. OwnedList(ours', torn)  BY <1>3, <2>2, <2>3, <2>4
  <2> QED BY <1>1, <1>4, <2>5, Together DEF DiscoveryInv, AtJob
<1>5. CASE ours' = [ours EXCEPT ![i].signedOut = TRUE] /\ UNCHANGED writeDue
  <2>1. ours'[i] = [ours[i] EXCEPT !.signedOut = TRUE]  BY <1>5
  <2>2. /\ ours'[i].key = ours[i].key /\ DOMAIN ours'[i] = Fields
        /\ ours'[i].tokens = ours[i].tokens
    BY <1>2, <2>1 DEF Fields
  <2>3. Owned(ours'[i], torn)  BY <1>2, <2>2 DEF Owned
  <2>4. ours' = [ours EXCEPT ![i] = ours'[i]]  BY <1>5, <2>1
  <2>5. OwnedList(ours', torn)  BY <1>3, <2>2, <2>3, <2>4
  <2>6. D!Lasting(ours') = D!Lasting(ours)
    <3>1. DOMAIN ours' = DOMAIN ours  BY <1>5
    <3>2. \A k \in DOMAIN ours : [ours'[k] EXCEPT !.signedOut = FALSE] = [ours[k] EXCEPT !.signedOut = FALSE]
      BY <1>5, <2>1
    <3> QED BY <3>1, <3>2 DEF D!Lasting
  <2> QED BY <1>1, <1>5, <2>5, <2>6, Together DEF DiscoveryInv, AtJob
<1> QED BY <1>4, <1>5 DEF D!Refreshed

LEMMA SignedInKeeps ==
  ASSUME DiscoveryInv, NEW who \in Logins, D!FinishLogin(who[1], who[2])
  PROVE  DiscoveryInv'
<1> DEFINE p == who[1]
           a == who[2]
           f == [key |-> D!KeyOf(p, a), plan |-> None, tokens |-> D!Token(a),
                 label |-> D!DefaultLabel(p, Grant(a).account_id, Grant(a).email),
                 source |-> "subbier"]
<1>1. /\ looking = D!Idle /\ D!Persist(ours')
      /\ UNCHANGED <<auth, wallet, profile, looking, torn>>
      /\ ours' = IF ~ D!Knows(ours, f.key) THEN Append(ours, D!Record(f))
                 ELSE [i \in DOMAIN ours |->
                         IF ours[i].key # f.key THEN ours[i]
                         ELSE [D!Record(f) EXCEPT !.label = ours[i].label]]
  BY DEF D!FinishLogin, D!vendors
<1>2. Owned(f, torn)
  <2>1. f.key = D!KeyOf(p, a) /\ f.tokens.owner = a  BY DEF D!Token
  <2> QED BY <2>1, KeyOfProvider DEF Owned
<1> HIDE DEF f
<1>3. OwnedList(ours', torn)
  <2>1. CASE ~ D!Knows(ours, f.key)
    <3>1. PICK r : r = D!Record(f)  OBVIOUS
    <3>2. r.key = f.key /\ DOMAIN r = Fields /\ Owned(r, torn)  BY <1>2, <3>1, RecordOf
    <3>3. ours' = Append(ours, r)  BY <1>1, <2>1, <3>1
    <3>4. \A i \in DOMAIN ours : ours[i].key # r.key  BY <2>1, <3>2 DEF D!Knows
    <3>5. OwnedList(ours, torn)  BY DEF DiscoveryInv
    <3> QED BY <3>2, <3>3, <3>4, <3>5, OwnedListAppend
  <2>2. CASE D!Knows(ours, f.key)
    <3>1. ours' = [i \in DOMAIN ours |->
                     IF ours[i].key # f.key THEN ours[i]
                     ELSE [D!Record(f) EXCEPT !.label = ours[i].label]]
      BY <1>1, <2>2
    <3>2. ASSUME NEW i \in DOMAIN ours
          PROVE  ours'[i].key = ours[i].key /\ DOMAIN ours'[i] = Fields /\ Owned(ours'[i], torn)
      <4>1. CASE ours[i].key # f.key  BY <3>1, <4>1 DEF DiscoveryInv, OwnedList
      <4>2. CASE ours[i].key = f.key
        <5>1. PICK r : r = D!Record(f)  OBVIOUS
        <5>2. r.key = f.key /\ DOMAIN r = Fields /\ Owned(r, torn)  BY <1>2, <5>1, RecordOf
        <5>3. ours'[i] = [r EXCEPT !.label = ours[i].label]  BY <3>1, <4>2, <5>1
        <5>4. ours'[i].key = r.key /\ ours'[i].tokens = r.tokens /\ DOMAIN ours'[i] = Fields
          BY <5>2, <5>3 DEF Fields
        <5> QED BY <4>2, <5>2, <5>4 DEF Owned
      <4> QED BY <4>1, <4>2
    <3>3. ours' = [i \in DOMAIN ours |-> ours'[i]]  BY <3>1
    <3> QED BY <3>2, <3>3, OwnedListChanged DEF DiscoveryInv
  <2> QED BY <2>1, <2>2
<1>4. /\ OwnedList(stowed', torn) /\ stowed' = D!Lasting(stowed')
      /\ stowed' = D!Lasting(ours') \/ lost'
  <2>1. OwnedList(stowed, torn) /\ stowed = D!Lasting(stowed)  BY DEF DiscoveryInv
  <2>2. PICK rs : rs = ours'  OBVIOUS
  <2>3. OwnedList(rs, torn) /\ D!Persist(rs)  BY <1>1, <1>3, <2>2
  <2>4. /\ OwnedList(stowed', torn) /\ stowed' = D!Lasting(stowed')
        /\ stowed' = D!Lasting(rs) \/ lost'
    BY <2>1, <2>3, PersistKeeps
  <2> QED BY <2>2, <2>4
<1> QED BY <1>1, <1>3, <1>4, Together DEF DiscoveryInv, AtJob

LEMMA DiscoverySteps ==
  ASSUME DiscoveryInv, D!Next
  PROVE  DiscoveryInv'
<1>1. CASE D!CodexMoves \/ D!ClaudeMoves  BY <1>1, CodexMovesKeeps, ClaudeMovesKeeps
<1>2. CASE D!PersistSubs  BY <1>2, PersistSubsKeeps
<1>3. CASE D!Start \/ D!Rediscover \/ D!Adopt  BY <1>3, StartedKeeps, RediscoveredKeeps, AdoptKeeps
<1>4. CASE D!Recheck \/ D!RereadSource \/ D!RereadIdentity \/ D!ApplyRecheck
  BY <1>4, RecheckedKeeps, RereadSourceKeeps, RereadIdentityKeeps, ApplyRecheckKeeps
<1>5. ASSUME NEW i \in DOMAIN ours, D!Refreshed(i)  PROVE DiscoveryInv'  BY <1>5, RefreshedKeeps
<1>6. ASSUME NEW who \in Logins, D!FinishLogin(who[1], who[2])  PROVE DiscoveryInv'
  BY <1>6, SignedInKeeps
<1> QED BY <1>1, <1>2, <1>3, <1>4, <1>5, <1>6 DEF D!Next

LEMMA DiscoveryStutters ==
  ASSUME DiscoveryInv, UNCHANGED discoveryVars
  PROVE  DiscoveryInv'
<1>1. UNCHANGED <<auth, wallet, profile, ours, stowed, writeDue, looking, torn, lost>>
  BY DEF discoveryVars
<1> QED BY <1>1, Together DEF DiscoveryInv

DiscoveryAtWork == focus = "discovery" => DiscoveryInv

\* Whatever the vendors' tools do between two looks at their stores, and
\* however the engine's tasks and its records interleave: as long as the
\* wallet and the profile of claude were never read while they disagreed, every
\* account has one record and the record has that account's tokens; codex's
\* have them in any case.  And what subs.json lacks is due to be written, or a
\* write of it has failed.
THEOREM RecordsAlwaysTheirOwn == PartsSpec => []RecordsAreTheirOwn
<1>1. PartsInit => DiscoveryAtWork
  BY DiscoveryStarts DEF PartsInit, DiscoveryAtWork
<1>2. DiscoveryAtWork /\ [PartsNext]_partsVars => DiscoveryAtWork'
  <2> SUFFICES ASSUME DiscoveryAtWork, [PartsNext]_partsVars, focus' = "discovery"
               PROVE  DiscoveryInv'
    BY DEF DiscoveryAtWork
  <2>1. CASE focus = "discovery" /\ D!Next  BY <2>1, DiscoverySteps DEF DiscoveryAtWork
  <2>2. CASE focus = "discovery" /\ UNCHANGED discoveryVars
    BY <2>2, DiscoveryStutters DEF DiscoveryAtWork
  <2>3. (focus = "discovery" /\ D!Next) \/ (focus = "discovery" /\ UNCHANGED discoveryVars)
    BY DEF PartsNext, partsVars
  <2> QED BY <2>1, <2>2, <2>3
<1>3. DiscoveryAtWork => RecordsAreTheirOwn
  <2> SUFFICES ASSUME DiscoveryInv  PROVE D!RecordsAreTheirOwn
    BY DEF DiscoveryAtWork, RecordsAreTheirOwn
  <2>1. \A i \in DOMAIN ours : Owned(ours[i], torn)  BY DEF DiscoveryInv, OwnedList
  <2> QED BY <2>1 DEF DiscoveryInv, OwnedList, Owned, D!RecordsAreTheirOwn
<1> QED BY <1>1, <1>2, <1>3, PTL DEF PartsSpec

----------------------------------------------------------------------------
(* Credentials: the refreshes of one account.                              *)


Refreshing(c) == caller[c].pc = "refreshing"

Awaiting(c) == Refreshing(c) /\ cell[caller[c].cell].outcome = None

PendingInMap == \A c \in Caller : Awaiting(c) => inflight = caller[c].cell

Spendable(g) == Expired(g) \/ Rejected(g)

SpendsSpent == \A r \in Request : Refreshing(r) => Spendable(caller[r].spends)

IInv == TypeOK /\ PendingInMap /\ SpendsSpent /\ DiskCatchesUp

----------------------------------------------------------------------------
(* Types. *)

LEMMA CellForType ==
  ASSUME TypeOK, NEW c \in Caller, NEW g \in Generation, NEW then \in Then, CellFor(c, g, then)
  PROVE  inflight' \in Cell \cup {None} /\ cell' \in [Cell -> OnceCell] /\ caller' \in [Caller -> Place]
<1>1. PICK k \in Cell :
        /\ inflight' = k
        /\ cell' = [cell EXCEPT ![k].queue = Append(@, c)]
        /\ caller' = [caller EXCEPT ![c] = [pc |-> "refreshing", token |-> g, spends |-> g,
                                            cell |-> k, then |-> then]]
  BY DEF CellFor
<1>2. cell' \in [Cell -> OnceCell]
  <2>1. cell[k] \in OnceCell  BY DEF TypeOK
  <2>2. Append(cell[k].queue, c) \in Seq(Caller)  BY <2>1 DEF OnceCell
  <2>3. [cell[k] EXCEPT !.queue = Append(@, c)] \in OnceCell  BY <2>1, <2>2 DEF OnceCell
  <2> QED BY <1>1, <2>3 DEF TypeOK
<1>3. caller' \in [Caller -> Place]  BY <1>1 DEF TypeOK, Place
<1> QED BY <1>1, <1>2, <1>3

LEMMA EnsureFreshType ==
  ASSUME TypeOK, NEW c \in Caller, NEW g \in Generation, NEW force \in BOOLEAN, NEW then \in Then,
         EnsureFresh(c, g, force, then)
  PROVE  inflight' \in Cell \cup {None} /\ cell' \in [Cell -> OnceCell] /\ caller' \in [Caller -> Place]
<1>1. CASE force \/ Expired(g)  BY <1>1, CellForType DEF EnsureFresh
<1>2. CASE ~(force \/ Expired(g))  BY <1>2 DEF EnsureFresh, TypeOK, Place
<1> QED BY <1>1, <1>2

LEMMA LeaveType ==
  ASSUME TypeOK, NEW k \in Cell, NEW c \in Caller, Leave(k, c)
  PROVE  cell' \in [Cell -> OnceCell]
<1>1. PICK i \in DOMAIN cell[k].queue :
        cell' = [cell EXCEPT ![k] = IF Others(k, c) = {} THEN Empty
                                    ELSE [queue |-> RemoveAt(@.queue, i), outcome |-> @.outcome]]
  BY DEF Leave
<1>2. cell[k] \in OnceCell  BY DEF TypeOK
<1>3. RemoveAt(cell[k].queue, i) \in Seq(Caller)
  <2> DEFINE q == cell[k].queue
  <2>1. q \in Seq(Caller) /\ i \in 1..Len(q)  BY <1>1, <1>2 DEF OnceCell
  <2>2. SubSeq(q, 1, i - 1) \in Seq(Caller)  BY <2>1
  <2>3. SubSeq(q, i + 1, Len(q)) \in Seq(Caller)  BY <2>1
  <2> QED BY <2>2, <2>3 DEF RemoveAt
<1>4. [queue |-> RemoveAt(cell[k].queue, i), outcome |-> cell[k].outcome] \in OnceCell  BY <1>2, <1>3 DEF OnceCell
<1>5. Empty \in OnceCell  BY DEF Empty, OnceCell
<1> QED BY <1>1, <1>4, <1>5 DEF TypeOK

\* A caller that waits is where the types say it is.
LEMMA RefreshingType ==
  ASSUME TypeOK, NEW c \in Caller, Refreshing(c)
  PROVE  /\ caller[c] \in [pc : {"refreshing"}, token : Generation, spends : Generation,
                           cell : Cell, then : Then]
         /\ cell[caller[c].cell] \in OnceCell
BY DEF TypeOK, Refreshing, Place, Done, Then

\* A caller that has just been answered.
LEMMA ResumedType ==
  ASSUME TypeOK, NEW c \in Caller, caller[c].pc = "resumed"
  PROVE  caller[c] \in [pc : {"resumed"}, token : Generation, then : Then,
                        outcome : Generation \cup Failure]
BY DEF TypeOK, Place, Done, Then

LEMMA TokenType ==
  ASSUME TypeOK, NEW c \in Caller, caller[c].pc \in Then \cup {"reread"}
  PROVE  caller[c].token \in Generation
BY DEF TypeOK, Place, Done, Then

LEMMA AnswerType ==
  ASSUME TypeOK, NEW c \in Caller, Answer(c)
  PROVE  TypeOK'
<1> DEFINE k == caller[c].cell
<1>1. /\ caller[c] \in [pc : {"refreshing"}, token : Generation, spends : Generation,
                         cell : Cell, then : Then]
      /\ cell[k] \in OnceCell
  BY RefreshingType DEF Answer, Calling, Refreshing
<1>2. ASSUME NEW o \in Generation \cup Failure, cell' = [cell EXCEPT ![k].outcome = o]
      PROVE  cell' \in [Cell -> OnceCell]
  <2>1. [cell[k] EXCEPT !.outcome = o] \in OnceCell  BY <1>1 DEF OnceCell
  <2> QED BY <1>1, <1>2, <2>1 DEF TypeOK
<1>3. CASE Granted(c)
  <2>1. live' \in Generation /\ live' = live + 1
    BY <1>3, BoundAssumption DEF Granted, TypeOK, Generation
  <2>2. cell' \in [Cell -> OnceCell]
    BY <1>2, <1>3, <2>1 DEF Granted, Failure
  <2> QED BY <1>3, <2>1, <2>2 DEF Granted, Answer, TypeOK, source, copies
<1>4. CASE Refused(c)
  <2>1. cell' \in [Cell -> OnceCell]
    <3>1. vendor \in Generation /\ Permanent \in Failure  BY DEF TypeOK, Failure
    <3> QED BY <1>2, <1>4, <3>1 DEF Refused, TypeOK
  <2>2. caller' \in [Caller -> Place]
    <3>1. [caller[c] EXCEPT !.spends = vendor] \in Place
      BY <1>1 DEF TypeOK, Place
    <3> QED BY <1>4, <3>1 DEF Refused, TypeOK
  <2> QED BY <1>4, <2>1, <2>2 DEF Refused, Answer, TypeOK, source, copies
<1>5. CASE NoAnswer(c)
  <2>1. cell' \in [Cell -> OnceCell]  BY <1>2, <1>5 DEF NoAnswer, Failure
  <2> QED BY <1>5, <2>1 DEF NoAnswer, Answer, TypeOK, source, copies
<1> QED BY <1>3, <1>4, <1>5 DEF Answer

LEMMA ResumeType ==
  ASSUME TypeOK, NEW c \in Caller, Resume(c)
  PROVE  TypeOK'
<1> DEFINE k == caller[c].cell
<1>1. /\ caller[c] \in [pc : {"refreshing"}, token : Generation, spends : Generation,
                         cell : Cell, then : Then]
      /\ cell[k] \in OnceCell
  BY RefreshingType DEF Resume, Refreshing
<1>2. cell[k].outcome \in Generation \cup Failure  BY <1>1 DEF Resume, OnceCell
<1>3. caller' \in [Caller -> Place]
  <2>1. [pc |-> "resumed", token |-> caller[c].token, then |-> caller[c].then,
         outcome |-> cell[k].outcome] \in Place
    BY <1>1, <1>2 DEF Place
  <2> QED BY <2>1 DEF Resume, TypeOK
<1>4. cell' \in [Cell -> OnceCell]
  <2>1. Empty \in OnceCell  BY DEF Empty, OnceCell
  <2> QED BY <1>1, <2>1 DEF Resume, TypeOK
<1>5. inflight' \in Cell \cup {None}  BY DEF Resume, Retire, TypeOK
<1> QED BY <1>3, <1>4, <1>5 DEF Resume, TypeOK, provider, source, copies

LEMMA RequestType ==
  ASSUME TypeOK, NEW r \in Request, RequestStep(r)
  PROVE  TypeOK'
<1>1. r \in Caller /\ Done \in Place /\ FALSE \in BOOLEAN  BY DEF Caller, Place
<1>2. CASE Attempt(r)
  <2>1. "send" \in Then /\ registry \in Generation  BY DEF Then, TypeOK
  <2>2. EnsureFresh(r, registry, FALSE, "send")  BY <1>2 DEF Attempt
  <2>3. inflight' \in Cell \cup {None} /\ cell' \in [Cell -> OnceCell] /\ caller' \in [Caller -> Place]
    BY <1>1, <2>1, <2>2, EnsureFreshType
  <2> QED BY <1>2, <2>3 DEF Attempt, TypeOK, provider, source, copies
<1>3. CASE Refreshed(r)
  <2>1. caller[r] \in [pc : {"resumed"}, token : Generation, then : Then,
                       outcome : Generation \cup Failure]
    BY <1>1, <1>3, ResumedType DEF Refreshed
  <2>2. CASE caller[r].outcome \in Failure
    <3>1. caller' = [caller EXCEPT ![r] = Done] /\ UNCHANGED <<registry, events>>
      BY <1>3, <2>2 DEF Refreshed
    <3> QED BY <1>1, <1>3, <3>1 DEF Refreshed, TypeOK, provider, source
  <2>3. CASE caller[r].outcome \notin Failure
    <3>1. caller[r].outcome \in Generation  BY <2>1, <2>3
    <3>2. [pc |-> caller[r].then, token |-> caller[r].outcome] \in Place  BY <2>1, <3>1 DEF Place
    <3>3. caller' = [caller EXCEPT ![r] = [pc |-> @.then, token |-> @.outcome]]
      BY <1>3, <2>3 DEF Refreshed
    <3>4. registry' \in Generation /\ events' \in Seq(Generation)
      BY <1>3, <2>3, <3>1 DEF Refreshed, StoreTokens, TypeOK
    <3> QED BY <1>3, <3>2, <3>3, <3>4 DEF Refreshed, TypeOK, provider, source
  <2> QED BY <2>2, <2>3
<1>4. CASE Send(r)
  <2>1. "resend" \in Then /\ registry \in Generation /\ ForceRefresh(r) \in BOOLEAN
    BY DEF Then, TypeOK, ForceRefresh
  <2>2. inflight' \in Cell \cup {None} /\ cell' \in [Cell -> OnceCell] /\ caller' \in [Caller -> Place]
    <3>1. CASE Rejected(caller[r].token)
      <4>1. EnsureFresh(r, registry, ForceRefresh(r), "resend")  BY <1>4, <3>1 DEF Send
      <4> QED BY <1>1, <2>1, <4>1, EnsureFreshType
    <3>2. CASE ~Rejected(caller[r].token)  BY <1>1, <1>4, <3>2 DEF Send, TypeOK
    <3> QED BY <3>1, <3>2
  <2> QED BY <1>4, <2>2 DEF Send, TypeOK, provider, source, copies
<1>5. CASE Resend(r)
  <2>1. caller' \in [Caller -> Place]
    <3>1. caller[r] \in Place /\ caller[r].pc = "resend"  BY <1>1, <1>5 DEF TypeOK, Resend
    <3>2. [caller[r] EXCEPT !.pc = "send"] \in Place  BY <3>1 DEF Place, Done, Then
    <3> QED BY <1>1, <1>5, <3>2 DEF Resend, TypeOK
  <2> QED BY <1>5, <2>1 DEF Resend, TypeOK, provider, source, copies
<1>6. CASE Cancel(r)
  <2>1. caller[r].cell \in Cell  BY <1>1, <1>6, RefreshingType DEF Cancel, Refreshing
  <2>2. cell' \in [Cell -> OnceCell]  BY <1>1, <1>6, <2>1, LeaveType DEF Cancel
  <2>3. live' \in Generation  BY <1>6, BoundAssumption DEF Cancel, TypeOK, Generation
  <2> QED BY <1>1, <1>6, <2>2, <2>3 DEF Cancel, TypeOK, source, copies
<1> QED BY <1>2, <1>3, <1>4, <1>5, <1>6 DEF RequestStep

LEMMA EngineType ==
  ASSUME TypeOK, EngineStep
  PROVE  TypeOK'
<1>1. Engine \in Caller /\ Done \in Place  BY DEF Caller, Place
<1>2. CASE PollRound
  <2>1. CASE ~needsLogin /\ EnsureFresh(Engine, record, FALSE, "poll")
    <3>1. "poll" \in Then /\ record \in Generation /\ FALSE \in BOOLEAN  BY DEF Then, TypeOK
    <3>2. inflight' \in Cell \cup {None} /\ cell' \in [Cell -> OnceCell] /\ caller' \in [Caller -> Place]
      BY <1>1, <2>1, <3>1, EnsureFreshType
    <3> QED BY <1>2, <3>2 DEF PollRound, TypeOK, provider, source, copies
  <2>2. CASE /\ caller' = [caller EXCEPT ![Engine] = [pc |-> "reread", token |-> vendor]]
             /\ UNCHANGED <<inflight, cell>>
    <3>1. [pc |-> "reread", token |-> vendor] \in Place  BY DEF Place, TypeOK
    <3> QED BY <1>2, <2>2, <3>1 DEF PollRound, TypeOK, provider, source, copies
  <2> QED BY <1>2, <2>1, <2>2 DEF PollRound
<1>3. CASE Recheck
  <2>1. caller[Engine].token \in Generation  BY <1>1, <1>3, TokenType DEF Recheck
  <2>2. CASE caller[Engine].token = record
    BY <1>1, <1>3, <2>2 DEF Recheck, TypeOK, provider, source
  <2>3. CASE caller[Engine].token # record
    <3>1. "poll" \in Then /\ FALSE \in BOOLEAN  BY DEF Then
    <3>2. EnsureFresh(Engine, caller[Engine].token, FALSE, "poll")  BY <1>3, <2>3 DEF Recheck
    <3>3. inflight' \in Cell \cup {None} /\ cell' \in [Cell -> OnceCell] /\ caller' \in [Caller -> Place]
      BY <1>1, <2>1, <3>1, <3>2, EnsureFreshType
    <3> QED BY <1>3, <2>1, <2>3, <3>3 DEF Recheck, AdoptTokens, TypeOK, provider, source
  <2> QED BY <2>2, <2>3
<1>4. CASE RoundRefreshed
  <2>1. caller[Engine] \in [pc : {"resumed"}, token : Generation, then : Then,
                            outcome : Generation \cup Failure]
    BY <1>1, <1>4, ResumedType DEF RoundRefreshed
  <2> DEFINE outcome == caller[Engine].outcome
             token == caller[Engine].token
             then == caller[Engine].then
  <2>2. [pc |-> "poll", token |-> token] \in Place  BY <2>1 DEF Place, Then
  <2>3. CASE outcome \notin Failure
    <3>1. [pc |-> then, token |-> outcome] \in Place  BY <2>1, <2>3 DEF Place
    <3>2. caller' = [caller EXCEPT ![Engine] =
                       IF then = "polled" /\ outcome = token THEN Done
                       ELSE [pc |-> then, token |-> outcome]]
      BY <1>4, <2>3 DEF RoundRefreshed, Failure
    <3>3. caller' \in [Caller -> Place]  BY <1>1, <3>1, <3>2 DEF TypeOK
    <3>4. /\ record' \in Generation /\ registry' \in Generation /\ {persistDue', unsaved'} \subseteq BOOLEAN
          /\ UNCHANGED needsLogin
      BY <1>4, <2>1, <2>3 DEF RoundRefreshed, AdoptTokens, Failure, TypeOK
    <3> QED BY <1>4, <3>3, <3>4 DEF RoundRefreshed, TypeOK, provider, source
  <2>4. CASE outcome = Permanent
    <3>1. /\ caller' = [caller EXCEPT ![Engine] = Done] /\ needsLogin' = TRUE
          /\ UNCHANGED <<record, registry, persistDue, unsaved>>
      BY <1>4, <2>4, OutcomeAssumption DEF RoundRefreshed, Failure
    <3> QED BY <1>1, <1>4, <3>1 DEF RoundRefreshed, TypeOK, provider, source
  <2>5. CASE outcome = Transient
    <3>1. /\ caller' = [caller EXCEPT ![Engine] = IF then = "poll" THEN [pc |-> "poll", token |-> token]
                                                 ELSE Done]
          /\ UNCHANGED <<record, registry, persistDue, unsaved, needsLogin>>
      BY <1>4, <2>5, OutcomeAssumption DEF RoundRefreshed, Failure
    <3> QED BY <1>1, <1>4, <2>2, <3>1 DEF RoundRefreshed, TypeOK, provider, source
  <2> QED BY <2>3, <2>4, <2>5 DEF Failure
<1>5. CASE Poll
  <2>1. caller[Engine].token \in Generation  BY <1>1, <1>5, TokenType DEF Poll, Then
  <2>2. cached401' \in BOOLEAN
    <3>1. Rejected(caller[Engine].token) \in BOOLEAN  BY DEF Rejected
    <3>2. cached401 \in BOOLEAN  BY DEF TypeOK
    <3>3. cached401' \in {Rejected(caller[Engine].token), cached401}  BY <1>5 DEF Poll
    <3> QED BY <3>1, <3>2, <3>3, Zenon
  <2>3. inflight' \in Cell \cup {None} /\ cell' \in [Cell -> OnceCell] /\ caller' \in [Caller -> Place]
    <3>1. CASE cached401'
      <4>1. EnsureFresh(Engine, caller[Engine].token, TRUE, "polled")  BY <1>5, <3>1 DEF Poll
      <4>2. "polled" \in Then /\ TRUE \in BOOLEAN  BY DEF Then
      <4> QED BY <1>1, <2>1, <4>1, <4>2, EnsureFreshType
    <3>2. CASE ~cached401'  BY <1>1, <1>5, <3>2 DEF Poll, TypeOK
    <3> QED BY <3>1, <3>2
  <2> QED BY <1>5, <2>2, <2>3 DEF Poll, TypeOK, provider, source
<1>6. CASE PollAgain
  BY <1>1, <1>6 DEF PollAgain, Rejected, TypeOK, provider, source
<1>7. CASE HandleTokensRefreshed
  <2>1. Head(events) \in Generation /\ Tail(events) \in Seq(Generation)
    BY <1>7 DEF HandleTokensRefreshed, TypeOK
  <2> QED BY <1>7, <2>1 DEF HandleTokensRefreshed, TypeOK, provider, source
<1>8. CASE SyncRegistry
  BY <1>8 DEF SyncRegistry, TypeOK, provider, source
<1>9. CASE PersistSubs
  BY <1>9 DEF PersistSubs, TypeOK, provider, source
<1> QED BY <1>2, <1>3, <1>4, <1>5, <1>6, <1>7, <1>8, <1>9 DEF EngineStep

LEMMA WorldType ==
  ASSUME TypeOK, ScoreUsage \/ Restart \/ TokenExpires \/ TokenRejected \/ VendorRefreshes
  PROVE  TypeOK'
<1>1. CASE ScoreUsage  BY <1>1 DEF ScoreUsage, Rejected, TypeOK, provider, source
<1>2. CASE Restart
  <2>1. Empty \in OnceCell /\ Done \in Place  BY DEF Empty, OnceCell, Place
  <2>2. cell' \in [Cell -> OnceCell] /\ caller' \in [Caller -> Place]
    BY <1>2, <2>1 DEF Restart
  <2>3. events' \in Seq(Generation) /\ inflight' \in Cell \cup {None}
    BY <1>2 DEF Restart
  <2>4. /\ {live', expired', rejected', vendor', registry', record', disk'} \subseteq Generation
        /\ {adopted', needsLogin', persistDue', cached401', unsaved'} \subseteq BOOLEAN
    BY <1>2 DEF Restart, TypeOK, provider, source
  <2> QED BY <2>2, <2>3, <2>4 DEF TypeOK
<1>3. CASE TokenExpires
  BY <1>3, BoundAssumption DEF TokenExpires, TypeOK, Generation, source, copies
<1>4. CASE TokenRejected
  BY <1>4, BoundAssumption DEF TokenRejected, TypeOK, Generation, source, copies
<1>5. CASE VendorRefreshes
  BY <1>5, BoundAssumption DEF VendorRefreshes, TypeOK, Generation, copies
<1> QED BY <1>1, <1>2, <1>3, <1>4, <1>5

LEMMA TypeStep == TypeOK /\ [Next]_vars => TypeOK'
<1> SUFFICES ASSUME TypeOK, [Next]_vars PROVE TypeOK'
  OBVIOUS
<1>1. CASE UNCHANGED vars
  BY <1>1 DEF vars, provider, source, copies, TypeOK
<1>2. CASE Next
  BY <1>2, AnswerType, ResumeType, RequestType, EngineType, WorldType DEF Next
<1> QED BY <1>1, <1>2

----------------------------------------------------------------------------
(* Who waits, for which cell, and with what. *)

Inv == PendingInMap /\ SpendsSpent

\* No caller starts to wait, and no one that waits changes cell or token.
NobodyJoins ==
  \A d \in Caller : Refreshing(d)' =>
    /\ Refreshing(d)
    /\ caller'[d].cell = caller[d].cell
    /\ caller'[d].spends = caller[d].spends

LEMMA StillInv ==
  ASSUME TypeOK, Inv, NobodyJoins, UNCHANGED <<expired, rejected, inflight, cell>>
  PROVE  Inv'
<1>1. PendingInMap'  BY DEF Inv, PendingInMap, Awaiting, NobodyJoins
<1>2. SpendsSpent'
  BY DEF Inv, SpendsSpent, Spendable, Expired, Rejected, NobodyJoins, Caller
<1> QED BY <1>1, <1>2 DEF Inv

\* A caller that does not wait moves to a place where it does not wait either.
LEMMA MovesOn ==
  ASSUME TypeOK, NEW c \in Caller, NEW p, p.pc # "refreshing", caller' = [caller EXCEPT ![c] = p]
  PROVE  NobodyJoins
BY DEF NobodyJoins, Refreshing, TypeOK

LEMMA CellForInv ==
  ASSUME TypeOK, Inv, NEW c \in Caller, NEW g \in Generation, NEW then \in Then,
         c \in Request => Spendable(g), CellFor(c, g, then), UNCHANGED <<expired, rejected>>
  PROVE  Inv'
<1>1. PICK k \in Cell :
        /\ IF inflight = None THEN Waiters(k) = {} ELSE k = inflight
        /\ inflight' = k
        /\ cell' = [cell EXCEPT ![k].queue = Append(@, c)]
        /\ caller' = [caller EXCEPT ![c] = [pc |-> "refreshing", token |-> g, spends |-> g,
                                            cell |-> k, then |-> then]]
  BY DEF CellFor
<1>2. PendingInMap'
  <2> SUFFICES ASSUME NEW d \in Caller, Awaiting(d)'
               PROVE  inflight' = caller'[d].cell
    BY DEF PendingInMap
  <2>1. CASE caller'[d].cell = k  BY <1>1, <2>1
  <2>2. CASE caller'[d].cell # k
    <3>1. d # c /\ caller'[d] = caller[d]  BY <1>1, <2>2 DEF TypeOK
    <3>2. Refreshing(d)  BY <3>1 DEF Awaiting, Refreshing
    <3>3. caller[d].cell \in Cell  BY <3>2, RefreshingType
    <3>4. cell'[caller[d].cell] = cell[caller[d].cell]  BY <1>1, <2>2, <3>1, <3>3 DEF TypeOK
    <3>5. Awaiting(d)  BY <3>1, <3>2, <3>4 DEF Awaiting
    <3>6. inflight = caller[d].cell  BY <3>5 DEF Inv, PendingInMap
    <3>7. inflight # None  BY <3>3, <3>6, NoneAssumption
    <3> QED BY <1>1, <2>2, <3>1, <3>6, <3>7
  <2> QED BY <2>1, <2>2
<1>3. SpendsSpent'
  <2> SUFFICES ASSUME NEW r \in Request, Refreshing(r)'
               PROVE  Spendable(caller[r].spends)'
    BY DEF SpendsSpent
  <2>1. CASE r = c
    <3>1. caller'[r].spends = g  BY <1>1, <2>1 DEF TypeOK
    <3> QED BY <2>1, <3>1 DEF Spendable, Expired, Rejected
  <2>2. CASE r # c
    <3>1. caller'[r] = caller[r]  BY <1>1, <2>2 DEF TypeOK, Caller
    <3> QED BY <3>1 DEF Inv, SpendsSpent, Refreshing, Spendable, Expired, Rejected
  <2> QED BY <2>1, <2>2
<1> QED BY <1>2, <1>3 DEF Inv

LEMMA EnsureFreshInv ==
  ASSUME TypeOK, Inv, NEW c \in Caller, NEW g \in Generation, NEW force \in BOOLEAN, NEW then \in Then,
         c \in Request /\ force => Rejected(g), EnsureFresh(c, g, force, then),
         UNCHANGED <<expired, rejected>>
  PROVE  Inv'
<1>1. CASE force \/ Expired(g)
  BY <1>1, CellForInv DEF EnsureFresh, Spendable
<1>2. CASE ~(force \/ Expired(g))
  <2>1. [pc |-> then, token |-> g].pc # "refreshing"  BY DEF Then
  <2>2. NobodyJoins  BY <1>2, <2>1, MovesOn DEF EnsureFresh
  <2> QED BY <1>2, <2>2, StillInv DEF EnsureFresh
<1> QED BY <1>1, <1>2

LEMMA AnswerInv ==
  ASSUME TypeOK, Inv, NEW c \in Caller, Answer(c)
  PROVE  Inv'
<1> DEFINE k == caller[c].cell
<1>1. /\ caller[c] \in [pc : {"refreshing"}, token : Generation, spends : Generation,
                         cell : Cell, then : Then]
      /\ cell[k] \in OnceCell /\ cell[k].outcome = None /\ Refreshing(c)
  BY RefreshingType DEF Answer, Calling, Refreshing
<1>2. UNCHANGED <<expired, rejected, inflight>>  BY DEF Answer
<1>3. ASSUME NEW d \in Caller
      PROVE  /\ Refreshing(d)' => Refreshing(d) /\ caller'[d].cell = caller[d].cell
             /\ Refreshing(d)' => \/ caller'[d].spends = caller[d].spends
                                  \/ Expired(caller'[d].spends)
  <2>1. CASE UNCHANGED caller  BY <2>1 DEF Refreshing
  <2>2. CASE Refused(c) /\ caller' = [caller EXCEPT ![c].spends = vendor] /\ Expired(vendor)
    <3>1. /\ [caller[c] EXCEPT !.spends = vendor].pc = "refreshing"
          /\ [caller[c] EXCEPT !.spends = vendor].cell = caller[c].cell
          /\ [caller[c] EXCEPT !.spends = vendor].spends = vendor
      BY <1>1
    <3>2. CASE d = c  BY <1>1, <2>2, <3>1, <3>2 DEF TypeOK, Refreshing
    <3>3. CASE d # c  BY <2>2, <3>3 DEF TypeOK, Refreshing
    <3> QED BY <3>2, <3>3
  <2> QED BY <2>1, <2>2 DEF Answer, Granted, Refused, NoAnswer
<1>4. ASSUME NEW j \in Cell, cell'[j].outcome = None
      PROVE  cell[j].outcome = None
  <2>1. CASE j = k  BY <1>1, <2>1
  <2>2. CASE j # k
    <3>1. cell'[j] = cell[j]
      BY <1>1, <2>2 DEF Answer, Granted, Refused, NoAnswer, TypeOK
    <3> QED BY <1>4, <3>1
  <2> QED BY <2>1, <2>2
<1>5. PendingInMap'
  <2> SUFFICES ASSUME NEW d \in Caller, Awaiting(d)'
               PROVE  inflight' = caller'[d].cell
    BY DEF PendingInMap
  <2>1. Refreshing(d) /\ caller'[d].cell = caller[d].cell  BY <1>3 DEF Awaiting
  <2>2. caller[d].cell \in Cell  BY <2>1, RefreshingType
  <2>3. cell[caller[d].cell].outcome = None  BY <1>4, <2>1, <2>2 DEF Awaiting
  <2> QED BY <1>2, <2>1, <2>3 DEF Inv, PendingInMap, Awaiting
<1>6. SpendsSpent'
  <2> SUFFICES ASSUME NEW r \in Request, Refreshing(r)'
               PROVE  Spendable(caller[r].spends)'
    BY DEF SpendsSpent
  <2>1. r \in Caller  BY DEF Caller
  <2> QED BY <1>2, <1>3, <2>1 DEF Inv, SpendsSpent, Spendable, Expired, Rejected
<1> QED BY <1>5, <1>6 DEF Inv

LEMMA ResumeInv ==
  ASSUME TypeOK, Inv, NEW c \in Caller, Resume(c)
  PROVE  Inv'
<1> DEFINE k == caller[c].cell
<1>1. k \in Cell /\ cell[k].outcome # None  BY RefreshingType DEF Resume, Refreshing
<1>2. ASSUME NEW d \in Caller, Refreshing(d)'
      PROVE  d # c /\ caller'[d] = caller[d] /\ Refreshing(d)
  <2>1. d # c  BY <1>2 DEF Resume, Refreshing, TypeOK
  <2>2. caller'[d] = caller[d]  BY <2>1 DEF Resume, TypeOK
  <2> QED BY <1>2, <2>1, <2>2 DEF Refreshing
<1>3. PendingInMap'
  <2> SUFFICES ASSUME NEW d \in Caller, Awaiting(d)'
               PROVE  inflight' = caller'[d].cell
    BY DEF PendingInMap
  <2>1. d # c /\ caller'[d] = caller[d] /\ Refreshing(d)  BY <1>2 DEF Awaiting
  <2>2. caller[d].cell \in Cell  BY <2>1, RefreshingType
  <2>3. CASE caller[d].cell = k
    <3>1. d \in Waiters(k)  BY <2>1, <2>3 DEF Waiters, Refreshing
    <3>2. cell' = cell  BY <2>1, <3>1 DEF Resume
    <3> QED BY <1>1, <2>1, <2>3, <3>2 DEF Awaiting
  <2>4. CASE caller[d].cell # k
    <3>1. cell'[caller[d].cell] = cell[caller[d].cell]  BY <1>1, <2>2, <2>4 DEF Resume, TypeOK
    <3>2. inflight = caller[d].cell  BY <2>1, <3>1 DEF Inv, PendingInMap, Awaiting
    <3> QED BY <2>1, <2>4, <3>2 DEF Resume, Retire
  <2> QED BY <2>3, <2>4
<1>4. SpendsSpent'
  BY <1>2 DEF Inv, SpendsSpent, Spendable, Expired, Rejected, Resume, provider, Caller
<1> QED BY <1>3, <1>4 DEF Inv

LEMMA CancelInv ==
  ASSUME TypeOK, Inv, NEW r \in Request, Cancel(r)
  PROVE  Inv'
<1> DEFINE k == caller[r].cell
<1>1. r \in Caller  BY DEF Caller
<1>2. k \in Cell  BY <1>1, RefreshingType DEF Cancel, Refreshing
<1>3. ASSUME NEW d \in Caller, Refreshing(d)'
      PROVE  d # r /\ caller'[d] = caller[d] /\ Refreshing(d)
  <2>1. d # r  BY <1>1, <1>3 DEF Cancel, Refreshing, Done, TypeOK
  <2>2. caller'[d] = caller[d]  BY <2>1 DEF Cancel, TypeOK
  <2> QED BY <1>3, <2>1, <2>2 DEF Refreshing
<1>4. PendingInMap'
  <2> SUFFICES ASSUME NEW d \in Caller, Awaiting(d)'
               PROVE  inflight' = caller'[d].cell
    BY DEF PendingInMap
  <2>1. d # r /\ caller'[d] = caller[d] /\ Refreshing(d)  BY <1>3 DEF Awaiting
  <2>2. caller[d].cell \in Cell  BY <2>1, RefreshingType
  <2>3. PICK i \in DOMAIN cell[k].queue :
          cell' = [cell EXCEPT ![k] = IF Others(k, r) = {} THEN Empty
                                      ELSE [queue |-> RemoveAt(@.queue, i), outcome |-> @.outcome]]
    BY DEF Cancel, Leave
  <2>4. cell'[caller[d].cell].outcome = cell[caller[d].cell].outcome
    <3>1. CASE caller[d].cell = k
      <4>1. d \in Others(k, r)  BY <2>1, <3>1 DEF Others, Waiters, Refreshing
      <4> QED BY <1>2, <2>3, <3>1, <4>1 DEF TypeOK
    <3>2. CASE caller[d].cell # k  BY <1>2, <2>2, <2>3, <3>2 DEF TypeOK
    <3> QED BY <3>1, <3>2
  <2> QED BY <2>1, <2>4 DEF Inv, PendingInMap, Awaiting, Cancel
<1>5. SpendsSpent'
  BY <1>3 DEF Inv, SpendsSpent, Spendable, Expired, Rejected, Cancel, Caller
<1> QED BY <1>4, <1>5 DEF Inv

LEMMA RequestInv ==
  ASSUME TypeOK, Inv, NEW r \in Request, RequestStep(r)
  PROVE  Inv'
<1>1. r \in Caller  BY DEF Caller
<1>2. CASE Attempt(r)
  <2>1. "send" \in Then /\ registry \in Generation /\ FALSE \in BOOLEAN  BY DEF Then, TypeOK
  <2> QED BY <1>1, <1>2, <2>1, EnsureFreshInv DEF Attempt, provider
<1>3. CASE Refreshed(r)
  <2>1. caller[r].then \in Then  BY <1>1, <1>3, ResumedType DEF Refreshed
  <2>2. PICK p \in {Done, [pc |-> caller[r].then, token |-> caller[r].outcome]} :
          caller' = [caller EXCEPT ![r] = p]
    BY <1>3 DEF Refreshed
  <2>3. p.pc # "refreshing"  BY <2>1, <2>2 DEF Done, Then
  <2> QED BY <1>1, <1>3, <2>2, <2>3, MovesOn, StillInv DEF Refreshed, provider
<1>4. CASE Send(r)
  <2>1. CASE Rejected(caller[r].token)
    <3>1. "resend" \in Then /\ registry \in Generation /\ ForceRefresh(r) \in BOOLEAN
      BY DEF Then, TypeOK, ForceRefresh
    <3>2. ForceRefresh(r) => Rejected(registry)  BY <2>1 DEF ForceRefresh
    <3> QED BY <1>1, <1>4, <2>1, <3>1, <3>2, EnsureFreshInv DEF Send, provider
  <2>2. CASE ~Rejected(caller[r].token)
    <3>1. Done.pc # "refreshing"  BY DEF Done
    <3> QED BY <1>1, <1>4, <2>2, <3>1, MovesOn, StillInv DEF Send, provider
  <2> QED BY <2>1, <2>2
<1>5. CASE Resend(r)
  <2>1. caller[r] \in Place /\ caller[r].pc = "resend"  BY <1>1, <1>5 DEF Resend, TypeOK
  <2>2. [caller[r] EXCEPT !.pc = "send"].pc = "send"  BY <2>1 DEF Place, Done, Then
  <2>3. \/ caller' = [caller EXCEPT ![r] = Done]
        \/ caller' = [caller EXCEPT ![r] = [caller[r] EXCEPT !.pc = "send"]]
    BY <1>5 DEF Resend
  <2>4. NobodyJoins  BY <1>1, <2>2, <2>3, MovesOn DEF Done
  <2> QED BY <1>5, <2>4, StillInv DEF Resend, provider
<1>6. CASE Cancel(r)  BY <1>6, CancelInv
<1> QED BY <1>2, <1>3, <1>4, <1>5, <1>6 DEF RequestStep

LEMMA EngineKeeps ==
  ASSUME TypeOK, Inv, EngineStep
  PROVE  Inv'
<1>1. Engine \in Caller /\ Engine \notin Request  BY EngineAssumption DEF Caller
<1>2. UNCHANGED <<expired, rejected>>
  BY DEF EngineStep, PollRound, Recheck, RoundRefreshed, Poll, PollAgain, HandleTokensRefreshed,
         SyncRegistry, PersistSubs, provider
<1>3. ASSUME NEW g \in Generation, NEW force \in BOOLEAN, NEW then \in Then,
             EnsureFresh(Engine, g, force, then)
      PROVE  Inv'
  BY <1>1, <1>2, <1>3, EnsureFreshInv
<1>4. ASSUME NEW p, p.pc # "refreshing", caller' = [caller EXCEPT ![Engine] = p],
             UNCHANGED <<inflight, cell>>
      PROVE  Inv'
  BY <1>1, <1>2, <1>4, MovesOn, StillInv
<1>5. Done.pc # "refreshing" /\ {"poll", "polled"} \subseteq Then /\ {TRUE, FALSE} \subseteq BOOLEAN
  BY DEF Done, Then
<1>6. CASE PollRound
  <2>1. [pc |-> "reread", token |-> vendor].pc # "refreshing"  OBVIOUS
  <2>2. record \in Generation  BY DEF TypeOK
  <2> QED BY <1>3, <1>4, <1>5, <1>6, <2>1, <2>2 DEF PollRound
<1>7. CASE Recheck
  <2>1. caller[Engine].token \in Generation  BY <1>1, <1>7, TokenType DEF Recheck
  <2> QED BY <1>3, <1>4, <1>5, <1>7, <2>1 DEF Recheck
<1>8. CASE RoundRefreshed
  <2>1. caller[Engine].then \in Then  BY <1>1, <1>8, ResumedType DEF RoundRefreshed
  <2>2. PICK p \in {Done, [pc |-> caller[Engine].then, token |-> caller[Engine].outcome],
                    [pc |-> "poll", token |-> caller[Engine].token]} :
          caller' = [caller EXCEPT ![Engine] = p]
    BY <1>8 DEF RoundRefreshed
  <2>3. p.pc # "refreshing"  BY <2>1, <2>2 DEF Done, Then
  <2> QED BY <1>4, <1>8, <2>2, <2>3 DEF RoundRefreshed
<1>9. CASE Poll
  <2>1. caller[Engine].token \in Generation  BY <1>1, <1>9, TokenType DEF Poll, Then
  <2> QED BY <1>3, <1>4, <1>5, <1>9, <2>1 DEF Poll
<1>10. CASE PollAgain  BY <1>4, <1>5, <1>10 DEF PollAgain
<1>11. CASE HandleTokensRefreshed \/ SyncRegistry \/ PersistSubs
  <2>1. UNCHANGED <<caller, inflight, cell>>
    BY <1>11 DEF HandleTokensRefreshed, SyncRegistry, PersistSubs
  <2>2. NobodyJoins  BY <2>1 DEF NobodyJoins, Refreshing
  <2> QED BY <1>2, <2>1, <2>2, StillInv
<1> QED BY <1>6, <1>7, <1>8, <1>9, <1>10, <1>11 DEF EngineStep

LEMMA WorldInv ==
  ASSUME TypeOK, Inv, ScoreUsage \/ Restart \/ TokenExpires \/ TokenRejected \/ VendorRefreshes
  PROVE  Inv'
<1>1. CASE Restart
  BY <1>1 DEF Restart, Inv, PendingInMap, Awaiting, SpendsSpent, Refreshing, Done, Caller
<1>2. CASE ScoreUsage \/ VendorRefreshes
  <2>1. UNCHANGED <<caller, inflight, cell, expired, rejected>>
    BY <1>2 DEF ScoreUsage, VendorRefreshes, provider
  <2>2. NobodyJoins  BY <2>1 DEF NobodyJoins, Refreshing
  <2> QED BY <2>1, <2>2, StillInv
<1>3. CASE TokenExpires \/ TokenRejected
  <2>1. UNCHANGED <<caller, inflight, cell>>  BY <1>3 DEF TokenExpires, TokenRejected
  <2>2. PendingInMap'  BY <2>1 DEF Inv, PendingInMap, Awaiting, Refreshing
  <2>3. {live, expired, rejected} \subseteq Int  BY BoundAssumption DEF TypeOK, Generation
  <2>4. expired <= expired' /\ rejected <= rejected' /\ {expired', rejected'} \subseteq Int
    BY <1>3, <2>3 DEF TokenExpires, TokenRejected
  <2>5. ASSUME NEW r \in Request, Refreshing(r)
        PROVE  Spendable(caller[r].spends)'
    <3>1. caller[r].spends \in Int
      BY <2>5, RefreshingType, BoundAssumption DEF Caller, Generation
    <3>2. Spendable(caller[r].spends)  BY <2>5 DEF Inv, SpendsSpent
    <3> QED BY <2>1, <2>3, <2>4, <3>1, <3>2 DEF Spendable, Expired, Rejected
  <2>6. SpendsSpent'  BY <2>1, <2>5 DEF SpendsSpent, Refreshing
  <2> QED BY <2>2, <2>6 DEF Inv
<1> QED BY <1>1, <1>2, <1>3

LEMMA InvStep == TypeOK /\ Inv /\ [Next]_vars => Inv'
<1> SUFFICES ASSUME TypeOK, Inv, [Next]_vars PROVE Inv'
  OBVIOUS
<1>1. CASE UNCHANGED vars
  <2>1. UNCHANGED <<caller, inflight, cell, expired, rejected>>  BY <1>1 DEF vars, provider
  <2>2. NobodyJoins  BY <2>1 DEF NobodyJoins, Refreshing
  <2> QED BY <2>1, <2>2, StillInv
<1>2. CASE Next
  BY <1>2, AnswerInv, ResumeInv, RequestInv, EngineKeeps, WorldInv DEF Next
<1> QED BY <1>1, <1>2

----------------------------------------------------------------------------
(* The invariant holds. *)

LEMMA DiskStep == DiskCatchesUp /\ [Next]_vars => DiskCatchesUp'
<1> SUFFICES ASSUME DiskCatchesUp, [Next]_vars PROVE DiskCatchesUp'
  OBVIOUS
<1>1. CASE UNCHANGED vars  BY <1>1 DEF vars, copies, DiskCatchesUp
<1>2. ASSUME NEW r \in Request, RequestStep(r)  PROVE DiskCatchesUp'
  BY <1>2 DEF RequestStep, Attempt, Refreshed, Send, Resend, Cancel, copies, DiskCatchesUp
<1>3. ASSUME NEW c \in Caller, Answer(c) \/ Resume(c)  PROVE DiskCatchesUp'
  BY <1>3 DEF Answer, Resume, copies, DiskCatchesUp
<1>4. CASE EngineStep
  <2>1. CASE PollRound \/ Poll \/ PollAgain \/ SyncRegistry
    BY <2>1 DEF PollRound, Poll, PollAgain, SyncRegistry, copies, DiskCatchesUp
  <2>2. CASE Recheck \/ RoundRefreshed
    BY <2>2 DEF Recheck, RoundRefreshed, AdoptTokens, DiskCatchesUp
  <2>3. CASE HandleTokensRefreshed \/ PersistSubs
    BY <2>3 DEF HandleTokensRefreshed, PersistSubs, DiskCatchesUp
  <2> QED BY <1>4, <2>1, <2>2, <2>3 DEF EngineStep
<1>5. CASE ScoreUsage \/ Restart \/ TokenExpires \/ TokenRejected \/ VendorRefreshes
  BY <1>5 DEF ScoreUsage, Restart, TokenExpires, TokenRejected, VendorRefreshes, copies, DiskCatchesUp
<1> QED BY <1>1, <1>2, <1>3, <1>4, <1>5 DEF Next

\* The inductive invariant holds in every reachable state.
THEOREM Invariance == Spec => []IInv
<1>1. Init => IInv
  <2> SUFFICES ASSUME Init PROVE IInv
    OBVIOUS
  <2>1. TypeOK
    <3>1. 0 \in Generation  BY BoundAssumption DEF Generation
    <3>2. Empty \in OnceCell  BY DEF Empty, OnceCell
    <3>3. Done \in Place  BY DEF Place
    <3>4. cell \in [Cell -> OnceCell] /\ caller \in [Caller -> Place]
      BY <3>2, <3>3 DEF Init
    <3>5. << >> \in Seq(Generation)  OBVIOUS
    <3> QED BY <3>1, <3>4, <3>5 DEF Init, TypeOK
  <2>2. PendingInMap /\ SpendsSpent
    BY DEF Init, PendingInMap, Awaiting, SpendsSpent, Refreshing, Done, Caller
  <2>3. DiskCatchesUp  BY DEF Init, DiskCatchesUp
  <2> QED BY <2>1, <2>2, <2>3 DEF IInv
<1>2. IInv /\ [Next]_vars => IInv'
  BY TypeStep, InvStep, DiskStep DEF IInv, Inv
<1> QED BY <1>1, <1>2, PTL DEF Spec

----------------------------------------------------------------------------
(* What follows. *)

\* Every variable keeps its type: in particular a generation is never made up,
\* whoever refreshes, re-reads, stores or restarts.
THEOREM TypeCorrect == Spec => []TypeOK
<1>1. IInv => TypeOK  BY DEF IInv
<1> QED BY Invariance, <1>1, PTL

\* ensure_fresh never has two refreshes of the account on the wire, for any number
\* of callers that join, wake late, retire the cell or are dropped.
THEOREM OneRefresh == Spec => []OneRefreshInFlight
<1>1. IInv => OneRefreshInFlight
  <2> SUFFICES ASSUME IInv, NEW c \in Caller, NEW d \in Caller, Calling(c), Calling(d)
               PROVE  c = d
    BY DEF OneRefreshInFlight
  <2>1. Awaiting(c) /\ Awaiting(d)  BY DEF Calling, Awaiting, Refreshing
  <2>2. caller[c].cell = caller[d].cell  BY <2>1 DEF IInv, PendingInMap
  <2> QED BY <2>2 DEF Calling
<1> QED BY Invariance, <1>1, PTL

\* Whatever path changed the engine's record, a write of subs.json is due until
\* the disk holds the same tokens.
THEOREM DiskFollows == Spec => []DiskCatchesUp
<1>1. IInv => DiskCatchesUp  BY DEF IInv
<1> QED BY Invariance, <1>1, PTL

\* A request's refresh rotates only a token that had expired or had drawn a 401:
\* the re-read of the registry in attempt suffices, whoever else refreshes.
THEOREM NoneNeedless == Spec => NoNeedlessRotation
<1> DEFINE Needed == live' # live /\ vendor' = vendor /\ (\E r \in Request : Calling(r)) =>
                       Expired(live) \/ Rejected(live)
<1>1. ASSUME IInv, Next, live' # live, vendor' = vendor, NEW r \in Request, Calling(r)
      PROVE  Expired(live) \/ Rejected(live)
  <2>1. r \in Caller /\ live \in Int
    BY <1>1, BoundAssumption DEF Caller, IInv, TypeOK, Generation
  <2>2. Spendable(caller[r].spends)
    BY <1>1 DEF IInv, SpendsSpent, Refreshing, Calling
  <2>3. ASSUME NEW c \in Caller, Answer(c)  PROVE caller[r].spends = live
    <3>1. c = r
      <4>1. Awaiting(c) /\ Awaiting(r) /\ Calling(c)
        BY <1>1, <2>3 DEF Answer, Calling, Awaiting, Refreshing
      <4>2. caller[c].cell = caller[r].cell  BY <1>1, <2>1, <4>1 DEF IInv, PendingInMap
      <4> QED BY <1>1, <4>1, <4>2 DEF Calling
    <3> QED BY <1>1, <2>3, <3>1 DEF Answer, Granted, Refused, NoAnswer
  <2>4. ASSUME NEW q \in Request, Cancel(q)  PROVE caller[r].spends = live
    <3>1. q \in Caller /\ Calling(q) /\ caller[q].spends = live
      BY <1>1, <2>4 DEF Cancel, Caller
    <3>2. q = r
      <4>1. Awaiting(q) /\ Awaiting(r)  BY <1>1, <3>1 DEF Calling, Awaiting, Refreshing
      <4>2. caller[q].cell = caller[r].cell  BY <1>1, <2>1, <3>1, <4>1 DEF IInv, PendingInMap
      <4> QED BY <1>1, <3>1, <4>2 DEF Calling
    <3> QED BY <3>1, <3>2
  <2>5. ~VendorRefreshes
    BY <1>1, <2>1 DEF VendorRefreshes
  <2>6. \/ \E c \in Caller : Answer(c)
        \/ \E q \in Request : Cancel(q)
    <3>1. ASSUME NEW q \in Request, RequestStep(q)  PROVE Cancel(q)
      BY <1>1, <3>1 DEF RequestStep, Attempt, Refreshed, Send, Resend, provider
    <3>2. ~EngineStep
      BY <1>1 DEF EngineStep, PollRound, Recheck, RoundRefreshed, Poll, PollAgain,
         HandleTokensRefreshed, SyncRegistry, PersistSubs, provider
    <3>3. ~(ScoreUsage \/ Restart \/ TokenExpires \/ TokenRejected)
      BY <1>1 DEF ScoreUsage, Restart, TokenExpires, TokenRejected, provider
    <3>4. ASSUME NEW c \in Caller  PROVE ~Resume(c)
      BY <1>1 DEF Resume, provider
    <3> QED BY <1>1, <2>5, <3>1, <3>2, <3>3, <3>4 DEF Next
  <2> QED BY <2>2, <2>3, <2>4, <2>6 DEF Spendable
<1>2. IInv /\ [Next]_vars => [Needed]_vars
  BY <1>1
<1> QED BY Invariance, <1>2, PTL DEF Spec, NoNeedlessRotation
=============================================================================
