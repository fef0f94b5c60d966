------------------------------ MODULE Discovery ------------------------------
(***************************************************************************)
(* The accounts that codex and claude are signed in to on this machine     *)
(* (auth/discovery.rs), how the engine adopts them and looks at them again *)
(* (merge_discovered, recheck_signed_out), and subs.json (store/creds.rs). *)
(*                                                                         *)
(* Codex keeps one file.  Claude Code keeps a wallet of tokens (a file, or *)
(* an item of the Keychain) and, elsewhere, a profile that says whose they *)
(* are; it writes one and then the other, while subbier reads one and then *)
(* the other.  A store that is missing, unreadable or not JSON is None.    *)
(***************************************************************************)
EXTENDS Naturals, Sequences, Selections

CONSTANTS
  Account,   \* the people's accounts, as the providers know them
  Codex(_),  \* what auth.json says of one: [access, account_id, claims]
  Profile(_),\* what ~/.claude.json says of one: [email, name, organization, uuid]
  Grant(_),  \* what the answer to a sign-in says of one: [account_id, email]
  Coder,     \* those of them that use codex
  Logins,    \* the sign-ins through subbier: a provider and an account
  Plans,     \* the plans the wallet may state
  None,
  MaxMoves   \* bound on the tokens made, and on what the vendors do

VARIABLES
  auth,      \* codex's auth.json: the tokens and what is said of them
  wallet,    \* claude's tokens and plan
  profile,   \* the account claude's identity file names
  records,   \* State::subs
  kept,      \* subs.json
  writeDue,  \* persist_at
  job,       \* the blocking task the engine waits for
  minted,    \* how many tokens there have been: each has a number
  torn,      \* history: claude's two stores were read while they disagreed
  lost       \* history: subs.json could not be written, and has not been since

vendors == <<auth, wallet, profile>>
discoveryVars == <<vendors, records, kept, writeDue, job, minted, torn, lost>>

Idle == [at |-> "idle"]

\* Some of the texts are empty, which counts as absent.
Trimmed(x) == IF x = "" THEN None ELSE x
First(xs) ==
  LET known == {i \in DOMAIN xs : xs[i] # None}
  IN  IF known = {} THEN None ELSE xs[CHOOSE i \in known : \A j \in known : i <= j]

----------------------------------------------------------------------------
(* Reading. *)

\* account_key, default_label.
AccountKey(p, id, email) == <<p, First(<<id, email, "unknown">>)>>
DefaultLabel(p, id, email) == First(<<email, id, p>>)

\* The key of an account by what its provider answers a sign-in.
KeyOf(p, a) == AccountKey(p, Grant(a).account_id, Grant(a).email)

\* parse_codex_auth: an API key alone is no account.
Claims(text) == IF text.claims = None THEN [account_id |-> None, email |-> None] ELSE text.claims
CodexId(text) == First(<<text.account_id, Claims(text).account_id>>)
CodexKey(text) == AccountKey("codex", CodexId(text), Claims(text).email)

ParseCodex(text) ==
  IF text = None \/ text.access = None THEN None
  ELSE [key |-> CodexKey(text), plan |-> None, tokens |-> text.access,
        label |-> DefaultLabel("codex", CodexId(text), Claims(text).email), source |-> "codex"]

\* parse_claude_identity: a subscription bills an organisation, if there is one.
ParseIdentity(who) ==
  IF who = None THEN [email |-> None, name |-> None, id |-> None]
  ELSE LET p == Profile(who)
       IN  [email |-> Trimmed(p.email), name |-> Trimmed(p.name), id |-> First(<<Trimmed(p.organization), Trimmed(p.uuid)>>)]

ClaudeKey(who) == AccountKey("claude", ParseIdentity(who).id, ParseIdentity(who).email)

\* parse_claude_credentials: the wallet does not say whose it is.
ParseClaude(text, who) ==
  IF text = None THEN None
  ELSE LET i == ParseIdentity(who)
       IN  [key |-> ClaudeKey(who), plan |-> text.plan, tokens |-> text.access,
            label |-> First(<<i.email, i.name, DefaultLabel("claude", i.id, i.email)>>),
            source |-> "claude"]

----------------------------------------------------------------------------
(* The vendors' tools. *)

\* Claude's two stores agree.
Settled == wallet = None \/ profile = wallet.access.owner

Token(a) == [owner |-> a, number |-> minted + 1]
Mint == minted < MaxMoves /\ minted' = minted + 1

CodexMoves ==
  /\ Mint
  /\ \/ auth' = None
     \/ \E a \in Coder : auth' = [Codex(a) EXCEPT !.access = Token(a)]
     \/ auth' = [access |-> None, account_id |-> None, claims |-> None]
  /\ UNCHANGED <<wallet, profile, records, kept, writeDue, job, torn, lost>>

ClaudeMoves ==
  /\ Mint
  /\ \/ /\ wallet' \in {None} \cup [access : {Token(a) : a \in Account}, plan : Plans]
        /\ UNCHANGED profile
     \/ /\ profile' \in Account \cup {None}
        /\ UNCHANGED wallet
  /\ torn' = (torn \/ job # Idle)
  /\ UNCHANGED <<auth, records, kept, writeDue, job, lost>>

----------------------------------------------------------------------------
(* subs.json. *)

\* What subs.json keeps of the records: that an account is signed out is learnt anew.
Lasting(rs) == [i \in DOMAIN rs |-> [rs[i] EXCEPT !.signedOut = FALSE]]

\* persist_subs: a write that fails is told to the user and not tried again.
Persist(rs) ==
  /\ writeDue' = FALSE
  /\ \/ kept' = Lasting(rs) /\ lost' = FALSE
     \/ kept' = kept /\ lost' = TRUE

PersistSubs ==
  /\ job = Idle /\ writeDue
  /\ Persist(records)
  /\ UNCHANGED <<vendors, records, job, minted, torn>>

----------------------------------------------------------------------------
(* Discovery. *)

\* The first half of discover(): auth.json, then claude's identity.
Look ==
  /\ job' = [at |-> "discover", codex |-> ParseCodex(auth), who |-> profile]
  /\ torn' = (torn \/ ~ Settled)

\* EngineBuilder::build reads subs.json first: our own copy is the fresher one.
Start ==
  /\ records' = kept
  /\ writeDue' = FALSE /\ lost' = FALSE
  /\ Look
  /\ UNCHANGED <<vendors, kept, minted>>

Rediscover ==
  /\ job = Idle
  /\ Look
  /\ UNCHANGED <<vendors, records, kept, writeDue, minted, lost>>

Record(found) ==
  [key |-> found.key, label |-> found.label, plan |-> found.plan, tokens |-> found.tokens,
   source |-> found.source, signedOut |-> FALSE]

Knows(rs, key) == \E i \in DOMAIN rs : rs[i].key = key

\* An account already known keeps our own tokens, and takes the plan.
Merge(rs, found) ==
  IF found = None THEN rs
  ELSE IF ~ Knows(rs, found.key) THEN Append(rs, Record(found))
  ELSE [i \in DOMAIN rs |->
          IF rs[i].key = found.key /\ found.plan # None THEN [rs[i] EXCEPT !.plan = found.plan] ELSE rs[i]]

\* The second half: the wallet, which the Keychain may refuse, and the merge.
Adopt ==
  /\ job.at = "discover" /\ job' = Idle
  /\ \E text \in {wallet, None} :
       records' = Merge(Merge(records, job.codex), ParseClaude(text, job.who))
  /\ IF Len(records') > Len(records) THEN Persist(records')
     ELSE /\ writeDue' = (writeDue \/ records' # records)
          /\ UNCHANGED <<kept, lost>>
  /\ UNCHANGED <<vendors, minted, torn>>

----------------------------------------------------------------------------
(* Looking again at the source of an account that is signed out. *)

\* Who is not due yet, or is disabled, is one whose source has nothing.
Recheck ==
  LET due == Selected([i \in DOMAIN records |-> i], {i \in DOMAIN records : records[i].signedOut})
  IN  /\ job = Idle /\ due # <<>>
      /\ job' = [at |-> "recheck", due |-> due, text |-> None, found |-> <<>>]
      /\ UNCHANGED <<vendors, records, kept, writeDue, minted, torn, lost>>

\* Who comes next, as long as the last one has not been answered for.
Left == Len(job.found) < Len(job.due)
Turn == job.due[Len(job.found) + 1]

MutantAnswer(i, found) ==   \* whoever the source holds now
  [job EXCEPT !.text = None, !.found = Append(@, found)]

\* reread: a source that now holds another account has nothing for this one.
Answer(i, found) ==
  [job EXCEPT !.text = None,
              !.found = Append(@, IF found = None \/ found.key # records[i].key THEN None ELSE found)]

\* Our own sign-ins have no source; codex's is one file; of claude's two, the
\* wallet comes first here.  A store that cannot be read has nothing.
RereadSource ==
  /\ job.at = "recheck" /\ Left /\ job.text = None
  /\ LET source == records[Turn].source
     IN  \/ job' = Answer(Turn, None) /\ UNCHANGED torn
         \/ source = "codex" /\ job' = Answer(Turn, ParseCodex(auth)) /\ UNCHANGED torn
         \/ /\ source = "claude" /\ wallet # None
            /\ job' = [job EXCEPT !.text = wallet]
            /\ torn' = (torn \/ ~ Settled)
  /\ UNCHANGED <<vendors, records, kept, writeDue, minted, lost>>

RereadIdentity ==
  /\ job.at = "recheck" /\ job.text # None
  /\ job' = Answer(Turn, ParseClaude(job.text, profile))
  /\ UNCHANGED <<vendors, records, kept, writeDue, minted, torn, lost>>

\* Tokens the record has already are no news.
Recovered ==
  [i \in DOMAIN records |->
     IF \A k \in DOMAIN job.due : job.due[k] # i THEN records[i]
     ELSE LET found == job.found[CHOOSE k \in DOMAIN job.due : job.due[k] = i]
          IN  IF found = None \/ found.tokens = records[i].tokens THEN records[i]
              ELSE [records[i] EXCEPT !.tokens = found.tokens, !.plan = found.plan,
                                      !.source = found.source, !.signedOut = FALSE]]

ApplyRecheck ==
  /\ job.at = "recheck" /\ ~ Left
  /\ job' = Idle
  /\ records' = Recovered
  /\ writeDue' = (writeDue \/ records' # records)
  /\ UNCHANGED <<vendors, kept, minted, torn, lost>>

----------------------------------------------------------------------------
(* What else becomes of a record (Engine has its removal). *)

\* A refresh grants new tokens, or fails for good.
Refreshed(i) ==
  /\ job = Idle
  /\ \/ /\ Mint
        /\ records' = [records EXCEPT ![i].tokens = Token(@.owner)]
        /\ writeDue' = TRUE
     \/ /\ records' = [records EXCEPT ![i].signedOut = TRUE]
        /\ UNCHANGED <<minted, writeDue>>
  /\ UNCHANGED <<vendors, kept, job, torn, lost>>

\* finish_login.
FinishLogin(p, a) ==
  LET g == Grant(a)
      found == [key |-> KeyOf(p, a), plan |-> None, tokens |-> Token(a),
                label |-> DefaultLabel(p, g.account_id, g.email), source |-> "subbier"]
  IN  /\ job = Idle /\ Mint
      /\ records' =
           IF ~ Knows(records, found.key) THEN Append(records, Record(found))
           ELSE [i \in DOMAIN records |->
                   IF records[i].key # found.key THEN records[i]
                   ELSE [Record(found) EXCEPT !.label = records[i].label]]
      /\ Persist(records')
      /\ UNCHANGED <<vendors, job, torn>>

\* The vendors' tools may be signed in, in agreement, before the first start.
Init ==
  /\ auth \in {None} \cup {[Codex(a) EXCEPT !.access = [owner |-> a, number |-> 0]] : a \in Coder}
  /\ profile \in Account \cup {None}
  /\ wallet \in {None} \cup [access : [owner : {profile} \cap Account, number : {0}], plan : Plans]
  /\ records = <<>> /\ kept = <<>> /\ writeDue = FALSE
  /\ job = Idle /\ minted = 0 /\ torn = FALSE /\ lost = FALSE

Next ==
  \/ CodexMoves \/ ClaudeMoves \/ PersistSubs \/ Start \/ Rediscover \/ Adopt
  \/ Recheck \/ RereadSource \/ RereadIdentity \/ ApplyRecheck
  \/ \E i \in DOMAIN records : Refreshed(i)
  \/ \E who \in Logins : FinishLogin(who[1], who[2])

Spec == Init /\ [][Next]_discoveryVars

----------------------------------------------------------------------------
\* Every account has one record, and its record has its own tokens, whoever
\* signs in where in the meantime; only claude's two stores, read while they
\* disagree, can mix accounts up.  And what subs.json does not hold yet is due
\* to be written, unless it could not be.
RecordsAreTheirOwn ==
  /\ \A i, j \in DOMAIN records : i # j => records[i].key # records[j].key
  /\ \A i \in DOMAIN records :
       LET p == records[i].key[1]
       IN  p = "codex" \/ ~ torn => records[i].key = KeyOf(p, records[i].tokens.owner)
  /\ kept # Lasting(records) => writeDue \/ lost
=============================================================================
