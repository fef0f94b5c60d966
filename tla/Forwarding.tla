------------------------------ MODULE Forwarding ------------------------------
(***************************************************************************)
(* What one request costs (forward_with_failover and attempt, twice: in    *)
(* proxy/codex.rs and proxy/claude.rs).  A request is tried on one account *)
(* after another, each try refreshes a token, resends when the transport   *)
(* dies, refreshes and sends again behind a 401, and has a buffered answer *)
(* again that died in its body - while the engine removes accounts, adds   *)
(* them and edits the pools.                                               *)
(*                                                                         *)
(* Which account a selection yields is the router's affair (Router): here  *)
(* it is any member of the gate that is live.                              *)
(***************************************************************************)
EXTENDS Naturals, Sequences, FiniteSets

CONSTANTS
  Target,      \* the accounts
  None,
  Resends,     \* Len(SEND_BACKOFF)
  MaxChanges   \* bound on what the engine does meanwhile

VARIABLES
  live,        \* the accounts a selection may yield
  known,       \* the accounts the registry holds
  pool,        \* the members of the pool the URL names, as configured
  req,         \* the request
  asked,       \* history: per attempt, its account, what was sent and what was paid for
  arrived,     \* history: the pool's members when the request came
  changes

engine == <<live, known, pool>>
vars == <<engine, req, asked, arrived, changes>>

\* Where the attempt is: choosing an account, refreshing its token, sending
\* (this many times already, behind a 401 or not), reading the answer.
Fresh == [at |-> "fresh", resent |-> FALSE, behind401 |-> FALSE]
Over(status) == [at |-> "over", status |-> status]
Answer(status) == req' = [req EXCEPT !.step = Over(status)]
Step(step) == req' = [req EXCEPT !.step = step]

\* What the client is told, at once or when no account is left to try.
Terminals == {"429", "503"}
Statuses == Terminals \cup {"200", "502", "upstream", "refused", "none"}

\* A request in any of its steps.
Steps ==
  [at : {"select"}] \cup [at : {"fresh"}, resent : BOOLEAN, behind401 : BOOLEAN]
  \cup [at : {"send", "answered"}, resent : BOOLEAN, behind401 : BOOLEAN, tries : Nat]
  \cup [at : {"over"}, status : Statuses]

Requests ==
  [gate : SUBSET Target, no : Nat, max : Nat \cup {None}, terminal : Terminals, step : Steps]

Last == Len(asked)
Counted(field) == asked' = [asked EXCEPT ![Last][field] = @ + 1]

----------------------------------------------------------------------------
\* pool_gate, resolved once: "failover must stay inside the pool the request
\* arrived on, whatever the registry does mid-failover".
Arrive ==
  /\ req = None
  /\ req' = [gate |-> pool \cap known, no |-> 0, max |-> None, terminal |-> "429", step |-> [at |-> "select"]]
  /\ arrived' = pool
  /\ UNCHANGED <<engine, asked, changes>>

MutantMembers == pool \cap known   \* the pool is looked up at each selection

\* The gate goes with the request.
Members == req.gate

CanTry == IF req.max = None THEN TRUE ELSE req.no < req.max

MutantAllowed(candidates) == IF candidates > 0 THEN req.no + candidates ELSE req.no + 1

\* At most one attempt per candidate of the first selection.
Allowed(candidates) == IF req.no = 0 THEN candidates ELSE req.max

\* select_in yields an account, which the registry may have lost since, or none.
Select ==
  LET candidates == Members \cap live
  IN  /\ req # None /\ req.step.at = "select"
      /\ \/ /\ ~ CanTry
            /\ Answer(req.terminal)
            /\ UNCHANGED asked
         \/ /\ CanTry
            /\ candidates = {}
            /\ Answer("refused")
            /\ UNCHANGED asked
         \/ /\ CanTry
            /\ \E target \in candidates :
                 LET found == target \in known
                     max == Allowed(Cardinality(candidates))
                 IN  /\ req' = [req EXCEPT !.no = @ + 1, !.max = max,
                                           !.step = IF found THEN Fresh ELSE [at |-> "select"]]
                     /\ asked' = IF found THEN Append(asked, [account |-> target, sent |-> 0, paid |-> 0])
                                 ELSE asked
      /\ UNCHANGED <<engine, arrived, changes>>

\* Outcome::Rotate; a used-up or unauthorized account is quarantined.
Rotate(terminal) ==
  /\ req' = [req EXCEPT !.terminal = terminal, !.step = [at |-> "select"]]
  /\ live' = live \ {asked[Last].account}
  /\ UNCHANGED <<known, pool>>

Sending(resent, behind401) == [at |-> "send", resent |-> resent, behind401 |-> behind401, tries |-> 0]

\* ensure_fresh, at the start of an attempt and behind a 401.
EnsureFresh ==
  /\ req # None /\ req.step.at = "fresh"
  /\ \/ Step(Sending(req.step.resent, req.step.behind401)) /\ UNCHANGED engine
     \/ Rotate("503")                            \* refused for good
     \/ Answer("502") /\ UNCHANGED engine        \* a flaky network disables no account
  /\ UNCHANGED <<asked, arrived, changes>>

\* send_retrying: a transport that dies before the headers is tried again on
\* the same account, a timeout is not; either ends in a 502.
SendRetrying ==
  /\ req # None /\ req.step.at = "send"
  /\ Counted("sent")
  /\ \/ Step([req.step EXCEPT !.at = "answered"])
     \/ req.step.tries < Resends /\ Step([req.step EXCEPT !.tries = @ + 1])
     \/ Answer("502")
  /\ UNCHANGED <<engine, arrived, changes>>

\* The first 401 of an exchange: refresh, and send once more.
RetryAuth ==
  /\ req # None /\ req.step.at = "answered" /\ ~ req.step.behind401
  /\ Step([at |-> "fresh", resent |-> req.step.resent, behind401 |-> TRUE])
  /\ UNCHANGED <<engine, asked, arrived, changes>>

\* A 401 again, a usage limit, or anything that is about the request itself.
Classify ==
  /\ req # None /\ req.step.at = "answered"
  /\ \/ req.step.behind401 /\ Rotate("503")
     \/ Rotate("429")
     \/ Answer("upstream") /\ UNCHANGED engine
  /\ UNCHANGED <<asked, arrived, changes>>

\* A success is streamed, or read whole; a body that dies while nothing has
\* reached the client is asked for again, once.
Succeed ==
  /\ req # None /\ req.step.at = "answered"
  /\ Counted("paid")
  /\ \/ Answer("200")
     \/ ~ req.step.resent /\ Step(Sending(TRUE, FALSE))
     \/ req.step.resent /\ Answer("502")
  /\ UNCHANGED <<engine, arrived, changes>>

----------------------------------------------------------------------------
\* The client hangs up, and the request is dropped where it is.
HangUp ==
  /\ req # None /\ req.step.at # "over"
  /\ Answer("none")
  /\ UNCHANGED <<engine, asked, arrived, changes>>

\* The engine enables, quarantines, adds, removes and regroups accounts.
Change ==
  /\ changes < MaxChanges
  /\ changes' = changes + 1
  /\ \/ \E t \in Target : live' = (live \ {t}) \cup ({t} \ live) /\ UNCHANGED <<known, pool>>
     \/ \E t \in Target : known' = (known \ {t}) \cup ({t} \ known) /\ UNCHANGED <<live, pool>>
     \/ \E t \in Target : pool' = (pool \ {t}) \cup ({t} \ pool) /\ UNCHANGED <<live, known>>
  /\ UNCHANGED <<req, asked, arrived>>

Init ==
  /\ live \in SUBSET Target /\ known = Target /\ pool \in SUBSET Target
  /\ req = None /\ asked = <<>> /\ arrived = None /\ changes = 0

Next ==
  \/ Arrive \/ Select \/ EnsureFresh \/ SendRetrying \/ RetryAuth \/ Classify \/ Succeed
  \/ HangUp \/ Change

Spec == Init /\ [][Next]_vars

----------------------------------------------------------------------------
(* The promises. *)

\* A request that came in on a pool is only ever put to accounts that were its
\* members on arrival, however the pools are edited while it fails over.
StaysInPool == \A i \in DOMAIN asked : asked[i].account \in arrived

\* What a request can cost is settled by its first selection: one attempt per
\* candidate though accounts recover and new ones come, on each at most two
\* answers that the provider bills ("Repeating the exchange re-bills the model
\* call, so it happens once", codex.rs:443), and at most that many sends.
CostIsBounded ==
  /\ req # None /\ req.max # None => Len(asked) <= req.max /\ req.max <= Cardinality(Target)
  /\ \A i \in DOMAIN asked :
       /\ asked[i].paid <= 2
       /\ asked[i].sent <= 4 * (Resends + 1)
=============================================================================
