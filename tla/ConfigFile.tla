------------------------------ MODULE ConfigFile -----------------------------
(***************************************************************************)
(* config.kdl as text: what Config::parse makes of a document              *)
(* (config/mod.rs) and how the menu writes one key of it back              *)
(* (config/write.rs).  Engine takes both for granted: there the file is a  *)
(* configuration, and a write sets one field of it.                        *)
(*                                                                         *)
(* A document is a sequence of nodes with a name, positional arguments and *)
(* children (None without a block).  A flag is "true" or "false"; a SubKey *)
(* is the sequence of the parts between its dots.  No document names one   *)
(* setting, or one account, twice.                                         *)
(***************************************************************************)
EXTENDS Naturals, Sequences, SequencesExt, TLC

CONSTANTS
  None,
  Malformed,     \* what Config::parse refuses
  Documents,     \* the files the user may save
  Writes,        \* the dotted keys the menu writes, with their values
  Providers,     \* the provider ids
  Lower(_),      \* to_ascii_lowercase
  Unroutable,    \* pool names that are empty or cannot stand in a URL
  Fractions,     \* the ceilings between 0 and 1
  Strategies,    \* StrategyKind
  Loopback(_),   \* bind_is_loopback, None when it is no host:port
  Duration(_)    \* whether a text parses as a duration

VARIABLES
  doc,      \* config.kdl, or None
  memory,   \* State::config, the configuration the engine works with
  refused   \* history: the last file the user saved did not load

vars == <<doc, memory, refused>>

Node(name, args, kids) == [name |-> name, args |-> args, kids |-> kids]

----------------------------------------------------------------------------
(* Reading. *)

\* fill_in_bare_flags: a node in a block with nothing to it is switched on.
Filled(document) ==
  LET flag(kid) == IF kid.args = <<>> /\ kid.kids = None THEN [kid EXCEPT !.args = <<"true">>] ELSE kid
  IN  [i \in DOMAIN document |->
         [document[i] EXCEPT !.kids = IF @ = None THEN None ELSE [k \in DOMAIN @ |-> flag(@[k])]]]

\* The positions of the nodes of a name.
Named(nodes, name) == {i \in DOMAIN nodes : nodes[i].name = name}

\* The first argument of a child, or None where the child or its value is null.
Value(kids, name) ==
  LET at == Named(kids, name)
      i == CHOOSE i \in at : TRUE
  IN  IF at = {} \/ kids[i].args[1] = "null" THEN None ELSE kids[i].args[1]

OrElse(value, default) == IF value = None THEN default ELSE value

\* The settings with their defaults (ProxyConfig, PollConfig, UiConfig).
Defaults ==
  (<<"proxy", "enabled">> :> "true") @@ (<<"proxy", "bind">> :> "127.0.0.1:8787")
  @@ (<<"proxy", "key">> :> None) @@ (<<"proxy", "sticky">> :> None)
  @@ (<<"proxy", "strategy">> :> "round-robin") @@ (<<"poll", "interval">> :> "180s")
  @@ (<<"ui", "notifications">> :> "false")

\* RawConfig::resolve.
SettingsOf(document) ==
  [s \in DOMAIN Defaults |->
     LET block == Named(document, s[1])
     IN  IF block = {} THEN Defaults[s]
         ELSE OrElse(Value(document[CHOOSE i \in block : TRUE].kids, s[2]), Defaults[s])]

\* deserialize_subs: a map, so of two nodes with one key the later stands.
SubsOf(document) ==
  LET kids(node) == IF node.kids = None THEN <<>> ELSE node.kids
      override(node) == [enabled |-> OrElse(Value(kids(node), "enabled"), "true"),
                         label |-> Value(kids(node), "label")]
      with(subs, node) == IF node.name = "sub" THEN (node.args[1] :> override(node)) @@ subs ELSE subs
  IN  FoldLeft(with, <<>>, document)

\* PoolSubEntry::into_member: with two arguments the first is the provider.
Member(line) ==
  CASE Len(line.args) = 1 -> [provider |-> None, id |-> line.args[1]]
    [] Len(line.args) = 2 -> [provider |-> Lower(line.args[1]), id |-> line.args[2]]

\* One pool: `subs`, then the `sub` lines.
PoolOf(node) ==
  LET lists == SelectSeq(node.kids, LAMBDA k : k.name = "subs" /\ k.args # <<"true">>)
      listed == FlattenSeq([i \in DOMAIN lists |-> lists[i].args])
      lines == SelectSeq(node.kids, LAMBDA k : k.name = "sub")
  IN  [name |-> node.args[1],
       members |-> [i \in DOMAIN listed |-> [provider |-> None, id |-> listed[i]]]
                     \o [i \in DOMAIN lines |-> Member(lines[i])],
       session |-> OrElse(Value(node.kids, "max-sub-session-utilization"), "1.0"),
       weekly |-> OrElse(Value(node.kids, "max-sub-weekly-utilization"), "1.0")]

\* deserialize_pools: in file order, which is the order of the tabs.
PoolsOf(document) ==
  LET nodes == SelectSeq(document, LAMBDA n : n.name = "pool")
  IN  [i \in DOMAIN nodes |-> PoolOf(nodes[i])]

\* Config::validate, with the errors of resolve and into_member.
Valid(c) ==
  /\ Loopback(c.settings[<<"proxy", "bind">>]) # None
  /\ Loopback(c.settings[<<"proxy", "bind">>]) \/ c.settings[<<"proxy", "key">>] # None
  /\ Duration(c.settings[<<"poll", "interval">>])
  /\ c.settings[<<"proxy", "strategy">>] \in Strategies
  /\ \A i \in DOMAIN c.pools :
       /\ c.pools[i].name \notin Unroutable
       /\ \A j \in DOMAIN c.pools : i # j => Lower(c.pools[i].name) # Lower(c.pools[j].name)
       /\ {c.pools[i].session, c.pools[i].weekly} \subseteq Fractions
       /\ \A k \in DOMAIN c.pools[i].members : c.pools[i].members[k].provider \in Providers \cup {None}

\* Config::parse.
Parsed(document) ==
  LET filled == Filled(document)
      c == [settings |-> SettingsOf(filled), subs |-> SubsOf(filled), pools |-> PoolsOf(filled)]
  IN  IF Valid(c) THEN c ELSE Malformed

\* Config::load_from: no file is the defaults.
Loaded(file) == IF file = None THEN Parsed(<<>>) ELSE Parsed(file)

\* Config::pool, by the name in the URL.
PoolNamed(c, name) ==
  LET at == {i \in DOMAIN c.pools : Lower(c.pools[i].name) = Lower(name)}
  IN  IF at = {} THEN None ELSE c.pools[CHOOSE i \in at : \A j \in at : i <= j]

\* Config::sub_enabled.
SubEnabled(c, key) == key \notin DOMAIN c.subs \/ c.subs[key].enabled = "true"

----------------------------------------------------------------------------
(* Writing one key. *)

MutantSplitKey(key) ==   \* a sub key ends at its first dot
  IF key[1] = "sub" THEN [sub |-> <<key[2]>>, leaf |-> key[Len(key)]]
  ELSE [block |-> key[1], leaf |-> key[2]]

\* split_key: what stands between `sub.` and the last dot is the sub key.
SplitKey(key) ==
  IF key[1] = "sub" THEN [sub |-> SubSeq(key, 2, Len(key) - 1), leaf |-> key[Len(key)]]
  ELSE [block |-> key[1], leaf |-> key[2]]

\* find: a block by its name, a `sub` node by its first argument.
Addressed(document, step) ==
  IF "sub" \in DOMAIN step
  THEN {i \in Named(document, "sub") : document[i].args # <<>> /\ document[i].args[1] = step.sub}
  ELSE Named(document, step.block)

\* set_first_arg: the other arguments stay.
SetFirstArg(node, value) ==
  [node EXCEPT !.args = IF @ = <<>> THEN <<value>> ELSE [@ EXCEPT ![1] = value]]

\* The leaf, in its block or at its end.
WithLeaf(kids, leaf, value) ==
  LET at == Named(kids, leaf)
  IN  IF at = {} THEN Append(kids, Node(leaf, <<value>>, None))
      ELSE [i \in DOMAIN kids |-> IF i = CHOOSE j \in at : \A k \in at : j <= k
                                  THEN SetFirstArg(kids[i], value) ELSE kids[i]]

\* set_in: a node that is missing is created, and given a block.
SetIn(document, key, value) ==
  LET step == SplitKey(key)
      at == Addressed(document, step)
      new == IF "sub" \in DOMAIN step THEN Node("sub", <<step.sub>>, None) ELSE Node(step.block, <<>>, None)
      nodes == IF at = {} THEN Append(document, new) ELSE document
      target == IF at = {} THEN Len(nodes) ELSE CHOOSE i \in at : \A j \in at : i <= j
      kids == IF nodes[target].kids = None THEN <<>> ELSE nodes[target].kids
  IN  [nodes EXCEPT ![target].kids = WithLeaf(kids, step.leaf, value)]

\* set: a missing file is an empty document.
Written(file, key, value) == SetIn(IF file = None THEN <<>> ELSE file, key, value)

----------------------------------------------------------------------------
Init ==
  /\ doc \in Documents \cup {None}
  /\ memory = Loaded(doc)
  /\ memory # Malformed
  /\ refused = FALSE

\* The user saves a file, and the engine looks (reload_config).
Save ==
  /\ doc' \in Documents
  /\ refused' = (Loaded(doc') = Malformed)
  /\ memory' = IF refused' THEN memory ELSE Loaded(doc')

\* State::apply and set_sub_enabled: the field in memory, then the key on disk.
Command ==
  \E w \in Writes :
    /\ memory' = IF w.key[1] = "sub"
                 THEN LET key == SubSeq(w.key, 2, Len(w.key) - 1)
                          old == IF key \in DOMAIN memory.subs THEN memory.subs[key]
                                 ELSE [enabled |-> "true", label |-> None]
                      IN  [memory EXCEPT !.subs = (key :> [old EXCEPT !.enabled = w.value]) @@ @]
                 ELSE [memory EXCEPT !.settings[w.key] = OrElse(w.value, Defaults[w.key])]
    /\ doc' = Written(doc, w.key, IF w.value = None THEN "null" ELSE w.value)
    /\ UNCHANGED refused

Next == Save \/ Command

Spec == Init /\ [][Next]_vars

----------------------------------------------------------------------------
(* The promises. *)

\* However many keys the menu sets in a file that loaded, it loads as what the
\* engine works with: a write changes the setting it names and no other, and its
\* own null, the user's bare flags and sub keys with dots are read back as meant.
\* Every pool of the file answers to its own path.
FileMeansMemory ==
  ~ refused =>
    /\ Loaded(doc) = memory
    /\ \A i \in DOMAIN memory.pools : PoolNamed(memory, memory.pools[i].name) = memory.pools[i]
=============================================================================
