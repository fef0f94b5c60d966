---------------------------- MODULE Transcripts -----------------------------
(***************************************************************************)
(* The transcript store (store/transcripts.rs) and the requests that read  *)
(* and write it (prepare, forward_with_failover, aggregate and             *)
(* stream_response in proxy/codex.rs).                                     *)
(*                                                                         *)
(* Every call of the store runs on a blocking thread: it takes the time,   *)
(* then the mutex.  So a call that was issued at `since` is stamped at any *)
(* time up to the one at which it runs, calls run in any order, and        *)
(* dropping a request does not stop the call it waits for.                 *)
(***************************************************************************)
EXTENDS Ancestry

CONSTANTS
  Request,   \* the requests in flight at once
  Key,       \* prompt_cache_keys
  Size,      \* the bytes of a text
  MaxBytes, Ttl,   \* Limits
  MaxNow     \* bound on the clock, in seconds

ASSUME SizeAssumption == Size \in [Text -> Nat \ {0}]
ASSUME LimitAssumption == {MaxBytes, Ttl, MaxNow} \subseteq Nat

VARIABLES
  rows,        \* the table of turns
  older,       \* which rows were inserted before which: the order of their rowids
  placement,   \* the table of placements
  bytes,       \* the running total that eviction goes by
  now,
  task,        \* each request
  said         \* history: the last turn accepted under each id

turns == <<rows, older, bytes>>
vars == <<turns, placement, now, task, said>>

Idle == [pc |-> "idle", head |-> None, key |-> None, since |-> 0, gone |-> FALSE, spliced |-> None,
         hint |-> None, sub |-> None, id |-> None, text |-> None, lost |-> FALSE]

Init ==
  /\ rows = [i \in Id |-> None] /\ older = {}
  /\ placement = [k \in Key |-> None]
  /\ bytes = 0
  /\ now = 0
  /\ task = [r \in Request |-> Idle]
  /\ said = [i \in Id |-> None]

----------------------------------------------------------------------------
(* The store. *)

Less(total, n) == IF total < n THEN 0 ELSE total - n

StoredBytes(table, ids) == MapThenSumSet(LAMBDA i : Size[table[i].text], ids)

\* ORDER BY touched_at, rowid: the ids that eviction takes first, for any number of them.
Oldest(table, order) ==
  LET before(i, j) == \/ table[i].touched < table[j].touched
                      \/ table[i].touched = table[j].touched /\ <<i, j>> \in order
  IN  {gone \in SUBSET Known(table) : \A i \in gone, j \in Known(table) \ gone : before(i, j)}

Without(table, ids) == [i \in Id |-> IF i \in ids THEN None ELSE table[i]]

Among(order, ids) == {pair \in order : pair[1] \in ids /\ pair[2] \in ids}

MutantExpired(table, at) == {i \in Known(table) : table[i].touched <= at}

Expired(table, at) == {i \in Known(table) : table[i].touched < at - Ttl}

\* The victims the loop has deleted when it ends, or when a statement fails.
Victims(table, order, total, failed) ==
  {gone \in Oldest(table, order) :
     /\ \A fewer \in Oldest(table, order) :
          fewer # gone /\ fewer \subseteq gone =>
            Less(total, StoredBytes(table, fewer)) > MaxBytes
     /\ \/ failed
        \/ Less(total, StoredBytes(table, gone)) <= MaxBytes
        \/ gone = Known(table)}

\* evict: placements, then turns past the ttl, then the least recently touched.  A
\* statement that fails ends it where it is, with the total brought up to date.
Evict(table, order, total, at, failed) ==
  LET old   == Expired(table, at)
      rest  == Without(table, old)
      left  == Less(total, StoredBytes(table, old))
      swept == [k \in Key |-> IF placement[k] # None /\ placement[k].touched < at - Ttl
                              THEN None ELSE placement[k]]
  IN  \/ \E gone \in Victims(rest, order, left, failed) :
           /\ rows' = Without(rest, gone)
           /\ older' = Among(order, Known(rest) \ gone)
           /\ bytes' = Less(left, StoredBytes(rest, gone))
           /\ placement' = swept
      \/ /\ failed
         /\ rows' = table /\ older' = order /\ bytes' = total
         /\ placement' \in {placement, swept}

MutantReplaced(total, turn, old) == total + Size[turn.text]

\* The total after a turn is written; what was under its id is given back.
Replaced(total, turn, old) == total + Size[turn.text] - old

\* INSERT OR REPLACE, then evict.
Insert(i, turn, at, failed) ==
  LET row   == [parent |-> turn.parent, sub |-> turn.sub, text |-> turn.text, touched |-> at]
      old   == IF rows[i] = None THEN 0 ELSE Size[rows[i].text]
      rest  == Known(rows) \ {i}
      order == Among(older, rest) \cup {<<j, i>> : j \in rest}
  IN  Evict([rows EXCEPT ![i] = row], order, Replaced(bytes, turn, old), at, failed)

\* touch: the first n turns of the walk.
Touch(w, n, at) ==
  rows' = [i \in Id |-> IF \E m \in 1..n : w[m] = i THEN [rows[i] EXCEPT !.touched = at] ELSE rows[i]]

----------------------------------------------------------------------------
(* A request. *)

\* When the call that request r waits for takes its time.
Stamp(r) == task[r].since..now

\* r goes on to a call of the store, or to something that is none.
Calls(job, pc) == [job EXCEPT !.pc = pc, !.since = now]
Goes(job, pc) == [job EXCEPT !.pc = pc, !.since = 0]

\* `responses` reads the body: the turn it continues and the key it carries.
NewRequest(r) ==
  /\ task[r].pc = "idle"
  /\ \E head \in Id \cup {None}, key \in Key \cup {None} :
       LET job == [Idle EXCEPT !.head = head, !.key = key]
       IN  task' = [task EXCEPT ![r] = IF head # None THEN Calls(job, "chain")
                                       ELSE IF key # None THEN Calls(job, "placement")
                                       ELSE Goes(job, "select")]
  /\ UNCHANGED <<turns, placement, now, said>>

\* After the lookups: a request whose chain cannot be assembled is shed.
Prepared(job) ==
  IF job.gone \/ (job.head # None /\ job.spliced = None) THEN Idle ELSE Goes(job, "select")

\* The placement is looked up in the same blocking call.
Resolved(job) == IF job.key # None THEN Calls(job, "placement") ELSE Prepared(job)

\* chain_at: walk, assemble, touch.  If a statement fails, the turns touched so far stay so.
Chain(r) ==
  /\ task[r].pc = "chain"
  /\ \/ /\ Conversations(rows, task[r].head) = {}
        /\ task' = [task EXCEPT ![r] = Resolved(@)]
        /\ UNCHANGED rows
     \/ \E w \in Walks(rows, task[r].head), at \in Stamp(r) :
          /\ Rooted(rows, w)
          /\ \E n \in 0..Len(w) :
               /\ Touch(w, n, at)
               /\ task' = [task EXCEPT ![r] =
                    Resolved(IF n = Len(w) THEN [@ EXCEPT !.spliced = Assembled(rows, w)] ELSE @)]
  /\ UNCHANGED <<older, bytes, placement, now, said>>

\* placement_at: an expired placement is not followed; one that is, is touched.
Placement(r) ==
  /\ task[r].pc = "placement"
  /\ LET placed == placement[task[r].key]
     IN  \/ \E at \in Stamp(r) :
              /\ placed # None /\ placed.touched >= at - Ttl
              /\ placement' = [placement EXCEPT ![task[r].key].touched = at]
              /\ task' = [task EXCEPT ![r] = Prepared([@ EXCEPT !.hint = placed.sub])]
         \/ /\ task' = [task EXCEPT ![r] = Prepared(@)]
            /\ UNCHANGED placement
  /\ UNCHANGED <<turns, now, said>>

\* The router picks an account, and a key that was not placed there is placed.
Select(r) ==
  /\ task[r].pc = "select"
  /\ \E s \in Sub :
       LET job == [task[r] EXCEPT !.sub = s, !.spliced = None]
       IN  task' = [task EXCEPT ![r] =
             IF job.key # None /\ job.hint # s THEN Calls(job, "place") ELSE Goes(job, "upstream")]
  /\ UNCHANGED <<turns, placement, now, said>>

Place(r) ==
  /\ task[r].pc = "place"
  /\ \/ \E at \in Stamp(r) :
          placement' = [placement EXCEPT ![task[r].key] = [sub |-> task[r].sub, touched |-> at]]
     \/ UNCHANGED placement
  /\ task' = [task EXCEPT ![r] = IF @.gone THEN Idle ELSE Goes(@, "upstream")]
  /\ UNCHANGED <<turns, now, said>>

\* No account can be picked, or the attempt fails: over to another account, or back to
\* the client.  An answer that names no turn (turn_of) ends the same way.
Fail(r) ==
  /\ task[r].pc \in {"select", "upstream"}
  /\ task' = [task EXCEPT ![r] = Idle] \/ task' = [task EXCEPT ![r].pc = "select"]
  /\ UNCHANGED <<turns, placement, now, said>>

\* The answer reaches the client, if it still listens.
Told(job, lost) ==
  IF job.gone THEN Idle ELSE [Idle EXCEPT !.pc = "tell", !.id = job.id, !.lost = lost]

MutantTerminal(r) ==
  /\ task[r].pc = "upstream"
  /\ \E i \in Id, text \in Text :
       task' = [task EXCEPT ![r] = Told([@ EXCEPT !.id = i, !.text = text], FALSE)]
  /\ UNCHANGED <<turns, placement, now, said>>

\* The terminal frame names the turn: it is remembered before it is passed on.
Terminal(r) ==
  /\ task[r].pc = "upstream"
  /\ \E i \in Id, text \in Text :
       task' = [task EXCEPT ![r] = Calls([@ EXCEPT !.id = i, !.text = text], "remember")]
  /\ UNCHANGED <<turns, placement, now, said>>

\* remember_at.  A turn larger than the whole store is skipped, and a failure is only
\* logged: the client is told of a turn that is lost.
Remember(r) ==
  /\ task[r].pc = "remember"
  /\ LET turn == [parent |-> task[r].head, sub |-> task[r].sub, text |-> task[r].text]
         i    == task[r].id
     IN  \/ \E at \in Stamp(r) :
              /\ Size[turn.text] <= MaxBytes
              /\ said' = [said EXCEPT ![i] = turn]
              /\ \E failed \in BOOLEAN :
                   /\ Insert(i, turn, at, failed)
                   /\ task' = [task EXCEPT ![r] = Told(@, failed)]
         \/ /\ task' = [task EXCEPT ![r] = Told(@, TRUE)]
            /\ UNCHANGED <<turns, placement, said>>
  /\ UNCHANGED now

\* The client has the id of its turn.
Tell(r) ==
  /\ task[r].pc = "tell"
  /\ task' = [task EXCEPT ![r] = Idle]
  /\ UNCHANGED <<turns, placement, now, said>>

\* The client hangs up.  A call of the store that has been issued runs all the same.
Drop(r) ==
  /\ task[r].pc # "idle" /\ ~task[r].gone
  /\ task' = [task EXCEPT ![r] = IF @.pc \in {"chain", "placement", "place", "remember"}
                                 THEN [@ EXCEPT !.gone = TRUE] ELSE Idle]
  /\ UNCHANGED <<turns, placement, now, said>>

Tick ==
  /\ now < MaxNow
  /\ now' = now + 1
  /\ UNCHANGED <<turns, placement, task, said>>

\* stored_bytes, as the store is opened again.
Reopened == StoredBytes(rows, Known(rows))

\* The process dies; the tables are on disk.
Restart ==
  /\ bytes' = Reopened
  /\ task' = [r \in Request |-> Idle]
  /\ UNCHANGED <<rows, older, placement, now, said>>

Step(r) ==
  \/ NewRequest(r) \/ Chain(r) \/ Placement(r) \/ Select(r) \/ Place(r)
  \/ Fail(r) \/ Terminal(r) \/ Remember(r) \/ Tell(r) \/ Drop(r)

Next == (\E r \in Request : Step(r)) \/ Tick \/ Restart

Spec == Init /\ [][Next]_vars

----------------------------------------------------------------------------
(* What the store and its callers promise. *)

Row == [parent : Id \cup {None}, sub : Sub, text : Text, touched : Nat]

ASSUME RowAssumption == None \notin Row

Placed == [sub : Sub, touched : Nat]
Spliced == [items : Seq(Text), sub : Sub]
Stage == {"idle", "chain", "placement", "select", "place", "upstream", "remember", "tell"}

Task ==
  [pc : Stage, head : Id \cup {None}, key : Key \cup {None}, since : Nat, gone : BOOLEAN,
   spliced : Spliced \cup {None}, hint : Sub \cup {None}, sub : Sub \cup {None},
   id : Id \cup {None}, text : Text \cup {None}, lost : BOOLEAN]

\* What a request carries at its stage: past its selection an account, past its answer
\* a turn, in a placement's call a key.
Carries(job) ==
  /\ job.pc = "chain" => job.head # None
  /\ job.pc \in {"placement", "place"} => job.key # None
  /\ job.pc \in {"place", "upstream", "remember"} => job.sub # None
  /\ job.pc = "remember" => job.text # None
  /\ job.pc \in {"remember", "tell"} => job.id # None

Typed ==
  /\ rows \in [Id -> Row \cup {None}] /\ older \subseteq Id \X Id
  /\ placement \in [Key -> Placed \cup {None}]
  /\ now \in Nat
  /\ task \in [Request -> Task]
  /\ said \in [Id -> Turn \cup {None}]
  /\ \A r \in Request : Carries(task[r])

\* Every variable has its type, and every request carries what its stage needs.
TypeOK == Typed /\ bytes \in Nat

\* The running total never drifts from the rows it counts ("a total that could drift
\* from the rows it counts is worse than the lock", Inner), through replacement, expiry,
\* eviction, statements that fail half-way and restarts.
BytesExact == bytes = StoredBytes(rows, Known(rows))

Remembers(r) == task[r].pc = "remember" /\ task'[r].pc = "tell" /\ ~task'[r].lost

\* A remember that succeeds leaves the store within its cap, and evicts its own turn
\* only for one that was stamped after the call was issued.
RememberHolds ==
  [][\A r \in Request :
       Remembers(r) =>
         /\ StoredBytes(rows', Known(rows')) <= MaxBytes
         /\ \/ rows'[task[r].id] # None
            \/ \E j \in Known(rows') : rows'[j].touched > task[r].since]_vars

\* "a client handed the id first could chain off it before the row lands" (remember):
\* a terminal frame is passed on only after its turn was written down, or was lost.
ToldIsRemembered ==
  \A r \in Request : task[r].pc = "tell" /\ ~task[r].lost => task[r].id \in Known(said)

Promise == INSTANCE Conversations WITH reply <- [r \in Request |-> task[r].spliced]

\* What is spliced into a request is a whole conversation as it was said, or nothing: "a
\* hole is never quietly stitched over" (TranscriptStore::chain).
ConversationsWhole == Promise!Spec
=============================================================================
