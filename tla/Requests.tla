------------------------------ MODULE Requests -------------------------------
(***************************************************************************)
(* What becomes of a request before it is forwarded: the gate on the key   *)
(* and the path (proxy/mod.rs), a Responses body rewritten for the Codex   *)
(* backend with its conversation spliced in (proxy/codex.rs, transcript.rs)*)
(* and a Messages body with the identity put first (proxy/claude.rs).      *)
(*                                                                         *)
(* A body is a function from some of its keys to values.  An item of its   *)
(* input has a role, a breakpoint mark and parts, or None where its content*)
(* is no array; an input may also be one bare object.  The store keeps a conversation as Transcripts has it: what*)
(* the client sent, as it was sent, and the answers.  A path is the        *)
(* sequence of its segments.                                               *)
(***************************************************************************)
EXTENDS Naturals, Sequences, SequencesExt, Selections

CONSTANTS
  None, Text,
  ProxyKey,       \* proxy.key
  Paths, Pools,   \* the paths of the bare proxy, and the names of pools
  Bodies,         \* the Responses bodies a client may send
  Objects,        \* the inputs that are neither an array, a text nor null
  ObjectItem(_),  \* the item such an input is
  Systems,        \* the `system` fields a client may send
  Betas,          \* the lists of anthropic-beta headers a client may send
  MaxTurns        \* bound on a conversation

VARIABLES
  stored,   \* the items of the conversation in the store
  said,     \* history: what was said in it, as it was said
  sent,     \* the body that was last forwarded, or None
  asked,    \* history: the request it was made of
  turns

vars == <<stored, said, sent, asked, turns>>

----------------------------------------------------------------------------
(* The gate. *)

\* presented_key: a bearer that is there is the key, whatever x-api-key says.
PresentedKey(headers) == IF headers.bearer # None THEN headers.bearer ELSE headers.x_api_key

\* require_key.
Admitted(headers) == PresentedKey(headers) = ProxyKey

\* pool_from_path, on the segments of a path.
PoolFromPath(path) ==
  IF Len(path) >= 2 /\ path[1] = "pool" /\ path[2] # "" THEN path[2] ELSE None

\* model_from_path: all that follows the first `models`.
ModelFromPath(path) ==
  LET at == {i \in DOMAIN path : path[i] = "models" /\ i < Len(path)}
      first == CHOOSE i \in at : \A j \in at : i <= j
  IN  IF at = {} THEN None ELSE SubSeq(path, first + 1, Len(path))

----------------------------------------------------------------------------
(* Codex. *)

\* Map::insert, Map::remove, Map::get.
Put(body, key, value) == [k \in DOMAIN body \cup {key} |-> IF k = key THEN value ELSE body[k]]
Without(body, keys) == [k \in DOMAIN body \ keys |-> body[k]]
Field(body, key) == IF key \in DOMAIN body THEN body[key] ELSE None

\* DROPPED_KEYS.
DroppedKeys == {"prompt_cache_key", "prompt_cache_retention", "prompt_cache_options", "max_output_tokens"}

\* response_input_items: a text is one message of the user, null is nothing, a
\* bare object is one item.
InputItems(input) ==
  CASE input = None -> <<>>
    [] input = Text -> <<[role |-> "user", mark |-> FALSE, parts |-> <<[text |-> Text, mark |-> FALSE]>>]>>
    [] input \in Objects -> <<ObjectItem(input)>>
    [] OTHER -> input

\* previous_response_id: null is none.
PreviousResponseId(body) == Field(body, "previous_response_id")

\* splice.
Spliced(body, chain) ==
  Put(Without(body, {"previous_response_id"}), "input", chain \o InputItems(Field(body, "input")))

NormalItem(item) ==
  [role |-> IF item.role = "system" THEN "developer" ELSE item.role,
   mark |-> FALSE,
   parts |-> IF item.parts = None THEN None
             ELSE [k \in DOMAIN item.parts |-> [text |-> item.parts[k].text, mark |-> FALSE]]]

\* normalize_for_codex_backend: an input that is no array is left as it is.
Normalized(body) ==
  LET rest == Without(body, DroppedKeys)
      input == Field(rest, "input")
  IN  IF input \in {None, Text} \cup Objects THEN rest
      ELSE Put(rest, "input", [i \in DOMAIN input |-> NormalItem(input[i])])

MutantDelta(body, chain) ==   \* what is stored is what was sent upstream
  InputItems(Field(IF chain = None THEN body ELSE Spliced(body, chain), "input"))

\* prepare: a turn is stored without the turns before it.
Delta(body, chain) == InputItems(Field(body, "input"))

\* prepare, from the chain that was found.
Prepared(body, chain) ==
  LET whole == IF chain = None THEN body ELSE Spliced(body, chain)
  IN  Put(Normalized(Put(whole, "store", FALSE)), "stream", TRUE)

\* What the client is answered with: a stream, or the whole of it.
ClientStream(body) == Field(body, "stream") = TRUE

----------------------------------------------------------------------------
(* Claude. *)

\* is_identity_block, of a block or a bare string that says the identity.
IsIdentityBlock(block) == block \in {"identity", "bare identity"}

\* The blocks of `system`: absent, null and empty are none, a text is one.
Blocks(system) == IF system = None THEN <<>> ELSE system

\* ensure_identity_first: moved, not duplicated.
IdentityFirst(system) ==
  LET blocks == Blocks(system)
      at == {i \in DOMAIN blocks : IsIdentityBlock(blocks[i])}
      i == CHOOSE i \in at : \A j \in at : i <= j
  IN  IF at = {} THEN <<"identity">> \o blocks ELSE <<blocks[i]>> \o RemoveAt(blocks, i)

\* merged_beta: ours, then each of theirs once.
MergedBeta(headers) ==
  LET tokens == FlattenSeq(headers)
      merged[i \in 0..Len(tokens)] ==
        IF i = 0 THEN <<"oauth">>
        ELSE IF tokens[i] \in {""} \cup ToSet(merged[i - 1]) THEN merged[i - 1]
        ELSE Append(merged[i - 1], tokens[i])
  IN  merged[Len(tokens)]

----------------------------------------------------------------------------
(* One client: a conversation with Codex, messages to Claude, and paths. *)

Init ==
  /\ stored = <<>> /\ said = <<>>
  /\ sent = [to |-> "nobody"] /\ asked = [body |-> None]
  /\ turns = 0

\* What the model answers with, as an item of the stored turn.
Reply == [role |-> "assistant", mark |-> FALSE, parts |-> <<[text |-> turns, mark |-> FALSE]>>]

Turn ==
  /\ turns < MaxTurns
  /\ turns' = turns + 1
  /\ \E body \in Bodies :
       LET chained == PreviousResponseId(body) # None
           chain == IF chained THEN stored ELSE None
           before(items) == IF chained THEN items ELSE <<>>
       IN  /\ chained => stored # <<>>
           /\ sent' = [to |-> "codex", body |-> Prepared(body, chain), streams |-> ClientStream(body)]
           /\ asked' = [body |-> body, chained |-> chained]
           /\ stored' = before(stored) \o Delta(body, chain) \o <<Reply>>
           /\ said' = before(said) \o InputItems(Field(body, "input")) \o <<Reply>>

\* Neither this nor Knock looks at a conversation.
Message ==
  /\ stored = <<>>
  /\ \E system \in Systems, headers \in Betas :
       /\ sent' = [to |-> "claude", system |-> IdentityFirst(system), beta |-> MergedBeta(headers)]
       /\ asked' = [body |-> system, betas |-> FlattenSeq(headers)]
  /\ UNCHANGED <<stored, said, turns>>

\* A request for a path, bare or under the base URL of a pool.
Knock ==
  /\ stored = <<>>
  /\ \E path \in Paths, pool \in Pools \cup {None},
        headers \in [bearer : {None, ProxyKey, Text}, x_api_key : {None, ProxyKey, Text}] :
       LET whole == IF pool = None THEN path ELSE <<"pool", pool>> \o path
       IN  /\ sent' = [to |-> "gate", admitted |-> Admitted(headers),
                       pool |-> PoolFromPath(whole), model |-> ModelFromPath(whole)]
           /\ asked' = [body |-> path, pool |-> pool, headers |-> headers]
  /\ UNCHANGED <<stored, said, turns>>

Next == Turn \/ Message \/ Knock

Spec == Init /\ [][Next]_vars

----------------------------------------------------------------------------
(* The promises. *)

\* An item without what the rewriting may take away.
Gist(item) ==
  [role |-> IF item.role = "developer" THEN "system" ELSE item.role,
   texts |-> IF item.parts = None THEN None ELSE [i \in DOMAIN item.parts |-> item.parts[i].text]]

Gists(items) == [i \in DOMAIN items |-> Gist(items[i])]

\* A body the Codex backend accepts, so far as the proxy sees to it: what a
\* bare object says, which is passed on as it came, is between the two.
Accepted(body) ==
  LET items == InputItems(Field(body, "input"))
  IN  /\ DOMAIN body \cap DroppedKeys = {}
      /\ body.store = FALSE /\ body.stream = TRUE
      /\ Field(body, "input") \notin Objects => \A i \in DOMAIN items :
           /\ items[i].role # "system" /\ items[i].mark = FALSE
           /\ items[i].parts # None => \A k \in DOMAIN items[i].parts : items[i].parts[k].mark = FALSE

\* The Codex backend is only sent what it accepts, and everything that was said:
\* however a conversation was spelled, turn by turn, each of its items arrives
\* once, in order, without the roles, marks and keys the backend refuses, those
\* of the turns put back in included, a bare object's as soon as a turn follows
\* it; and what was rewritten once stays as it is.
CodexIsTold ==
  sent.to = "codex" =>
    /\ Accepted(sent.body)
    /\ asked.chained => "previous_response_id" \notin DOMAIN sent.body
       \* the turn just stored ends with its reply
    /\ Gists(InputItems(Field(sent.body, "input"))) = Gists(SubSeq(said, 1, Len(said) - 1))
    /\ Prepared(sent.body, None) = sent.body
    /\ \A k \in DOMAIN asked.body \ (DroppedKeys \cup {"input", "stream", "store", "previous_response_id"}) :
         k \in DOMAIN sent.body /\ sent.body[k] = asked.body[k]

\* The blocks that do not say the identity.
Others(blocks) == Selected(blocks, {blocks[i] : i \in DOMAIN blocks} \ {"identity", "bare identity"})

\* Claude is told the identity first and then what the caller said, in order;
\* every beta of the caller's is asked for once, after ours.
ClaudeIsTold ==
  sent.to = "claude" =>
    /\ IsIdentityBlock(Head(sent.system))
    /\ Others(sent.system) = Others(Blocks(asked.body))
    /\ IdentityFirst(sent.system) = sent.system
    /\ Head(sent.beta) = "oauth" /\ IsInjective(sent.beta)
    /\ ToSet(sent.beta) = (ToSet(asked.betas) \cup {"oauth"}) \ {""}

\* "A pool is a base URL, so it has to accept everything the bare proxy does"
\* (router): a path names the same model under it - unless the pool is called
\* as the route is.  Either header opens the gate.
PathsAreRead ==
  sent.to = "gate" =>
    /\ sent.pool = asked.pool
    /\ asked.pool # "models" => sent.model = ModelFromPath(asked.body)
    /\ sent.admitted => ProxyKey \in {asked.headers.bearer, asked.headers.x_api_key}
    /\ asked.headers \in [bearer : {None}, x_api_key : {ProxyKey}] \cup [bearer : {ProxyKey}, x_api_key : {None}]
         => sent.admitted

RequestsAreUnderstood == CodexIsTold /\ ClaudeIsTold /\ PathsAreRead
=============================================================================
