------------------------------- MODULE MCTexts -------------------------------
(***************************************************************************)
(* Small instances of the machines of Texts.                               *)
(***************************************************************************)
EXTENDS Texts, SequencesExt, TLC

CONSTANTS alice, bob, bare

----------------------------------------------------------------------------
(* Streams. *)

EventOf ==
  LET none == [type |-> "other", index |-> Junk, item |-> Junk, response |-> FALSE,
               output |-> <<>>, input |-> Junk, count |-> Junk]
  IN  [i0 |-> [none EXCEPT !.type = "item", !.index = 0, !.item = "A"],
       i1 |-> [none EXCEPT !.type = "item", !.index = 1, !.item = "B"],
       ix |-> [none EXCEPT !.type = "item", !.item = "C"],
       end |-> [none EXCEPT !.type = "terminal", !.response = TRUE, !.input = 1, !.count = 2],
       full |-> [none EXCEPT !.type = "terminal", !.response = TRUE, !.output = <<"Z">>],
       new |-> [none EXCEPT !.response = TRUE],
       err |-> [none EXCEPT !.type = "error"],
       start |-> [none EXCEPT !.type = "message_start", !.input = 3, !.count = 0],
       delta |-> [none EXCEPT !.type = "message_delta", !.count = 5],
       more |-> [none EXCEPT !.type = "message_delta", !.count = 7],
       stop |-> [none EXCEPT !.type = "message_stop"]]

\* A payload over two lines is the terminal event; a primed name is an event
\* with its previous_response_id put back.
MCEvent(p) ==
  CASE p = <<"h1", "h2">> -> EventOf.end
    [] Len(p) = 1 /\ p[1] \in DOMAIN EventOf -> EventOf[p[1]]
    [] Len(p) = 1 /\ p[1] \in {"end'", "new'", "full'"} -> EventOf.new
    [] OTHER -> Junk

MCData(line) == IF line = "note" THEN "nodata" ELSE line
MCWithId(p) == IF Len(p) = 2 THEN "end'" ELSE p[1] \o "'"

\* Every short mixture of line breaks, with no two texts side by side.
Raw ==
  {s \in UNION {[1..n -> {CR, LF, "end", "h1"}] : n \in 0..5} :
     \A i \in 1..(Len(s) - 1) : s[i] \in {CR, LF} \/ s[i + 1] \in {CR, LF}}

Framed(names) == FlattenSeq([k \in DOMAIN names |-> <<names[k], CR, LF, CR, LF>>])
Runs(some, n) == {Framed(names) : names \in UNION {[1..k -> some] : k \in 1..n}}

Odd ==
  {<<"h1", LF, "note", LF, "h2", LF, LF>> \o Framed(<<"err">>),
   <<"new", LF, LF, "[DONE]", LF, LF>>}

MCStreams ==
  [chained |-> Raw \cup Odd, plain |-> Raw \cup Odd,
   buffer |-> Odd \cup Runs({"i0", "i1", "ix", "end", "full"}, 3),
   claude |-> Runs({"start", "delta", "more", "stop"}, 3)]

----------------------------------------------------------------------------
(* Readings: percentages in range and beyond it. *)

MCCeilings == [members |-> {}, max_session_pct |-> 80, max_weekly_pct |-> 100]

----------------------------------------------------------------------------
(* ConfigFile: files with every kind of node, and two that do not load. *)

Leaf(name, value) == [name |-> name, args |-> <<value>>, kids |-> None]
Bare(name) == [name |-> name, args |-> <<>>, kids |-> None]
Block(name, args, kids) == [name |-> name, args |-> args, kids |-> kids]
Full ==
  <<Block("proxy", <<>>, <<Leaf("key", "k"), Bare("sticky"), Leaf("bind", "0.0.0.0:1")>>),
    Block("sub", << <<"codex:me@ex", "com">> >>, <<Leaf("label", "work")>>),
    Block("pool", <<"moon">>, <<Leaf("subs", "me"),
                                [Leaf("sub", "Codex") EXCEPT !.args = <<"Codex", "me">>]>>),
    Block("pool", <<"sun">>, <<Bare("subs"), Leaf("max-sub-weekly-utilization", "0.5")>>)>>

MCDocuments ==
  {Full,
   <<Block("ui", <<>>, <<Bare("notifications")>>), Block("sub", << <<"codex:me@ex", "org">> >>, None)>>,
   <<Block("proxy", <<>>, <<Leaf("strategy", "fastest")>>)>>,
   Append(Full, Block("pool", <<"Moon">>, <<>>))}

MCWrites ==
  [key : {<<"ui", "notifications">>, <<"sub", "codex:me@ex", "com", "enabled">>}, value : {"true", "false"}]
  \cup [key : {<<"sub", "codex:me@ex", "org", "enabled">>}, value : {"false"}]
  \cup [key : {<<"proxy", "sticky">>}, value : {None, "false"}]
  \cup [key : {<<"proxy", "strategy">>}, value : {"lowest-usage"}]

MCLower(name) == CASE name = "Moon" -> "moon" [] name = "Codex" -> "codex" [] OTHER -> name

IsLoopback(text) == text = "127.0.0.1:8787"
IsDuration(text) == text = "180s"

----------------------------------------------------------------------------
(* Requests: conversations of up to three turns, in every spelling. *)

Marked == [role |-> "system", mark |-> TRUE,
           parts |-> <<[text |-> Junk, mark |-> TRUE], [text |-> alice, mark |-> FALSE]>>]
Called == [role |-> None, mark |-> FALSE, parts |-> None]

\* A bare object of the system's, marked.
MCObjectItem(object) == Marked

MCBodies ==
  LET inputs == {None, Text, bare, <<Called>>, <<Marked, Called>>}
      plain == {("model" :> "m") @@ ("input" :> i) : i \in inputs}
      keyed == {b @@ ("prompt_cache_key" :> "k") @@ ("store" :> TRUE) @@ ("stream" :> FALSE) : b \in plain}
  IN  plain \cup {b @@ ("previous_response_id" :> "r") : b \in plain \cup keyed}
        \cup {b @@ ("previous_response_id" :> None) @@ ("max_output_tokens" :> "n") : b \in plain}

MCSystems ==
  {None, <<"identity">>, <<"mine">>, <<"mine", "bare identity", "yours">>,
   <<"identity", "mine", "identity">>, <<"mine", "yours">>}

MCBetas == {<<>>, <<<<"">>>>, <<<<"a", "b">>, <<"b", "oauth", "c">>>>, <<<<"oauth">>>>}

MCPaths ==
  {<<"v1", "responses">>, <<"messages">>, <<"v1", "models">>, <<"models", "gpt">>,
   <<"codex", "v1", "models", "vendor", "models", "gpt">>}

----------------------------------------------------------------------------
(* Watch: two accounts, one with two windows; two routes of one endpoint and *)
(* one of a pool; ranges from an hour to a week.                             *)

MCEndpointOf == [responses |-> "default", messages |-> "default", pooled |-> "pool"]

MCAdopted == {<<alice>>}
MCKinds == (alice :> <<"session", "weekly">>) @@ (bob :> <<"weekly">>)
MCTabs == <<<<"pool">>, <<>>>>
=============================================================================
