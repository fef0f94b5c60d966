------------------------------- MODULE Metrics -------------------------------
(***************************************************************************)
(* The proxy's counters (proxy/metrics.rs) and the records that hold them  *)
(* up (RequestRecord, proxy/mod.rs): one population per sub and per pool   *)
(* endpoint, on which attempts count in and out while the engine forgets a *)
(* removed sub and reads the rest for its snapshots.  (requests_total only *)
(* ever grows, and is left out.)                                           *)
(***************************************************************************)
EXTENDS Selections, SequencesExt, FiniteSets

CONSTANTS
  Sub, Pool,
  None,         \* the bare proxy, which has no population of its own
  Tried,      \* one per RequestRecord
  Hour,         \* TOKEN_WINDOW
  MaxTicks,     \* MAX_TICKS
  MaxPosts,     \* bound on the tokens posted
  MaxForgets,   \* bound on the removals
  MaxTime       \* bound on the clock

VARIABLES
  time,
  table,     \* the Counters of each population, by place in heap; 0 for none
  heap,      \* every Counters ever made: a guard outlives the table's entry
  guards,    \* the InFlightGuard of each live attempt
  epoch,     \* history: how often each sub was forgotten
  posts      \* history: the tokens posted, with the epoch they fell in

vars == <<time, table, heap, guards, epoch, posts>>

Population == Sub \cup Pool
Fresh == [inFlight |-> 0, ticks |-> <<>>]

\* A live attempt.
Attempts ==
  [sub : Sub, pool : Pool \cup {None}, held : SUBSET Nat, epoch : Nat, counted : BOOLEAN]

Epoch(p) == IF p \in Sub THEN epoch[p] ELSE 0

\* Against the sub, and against the pool whose URL the request came in on.
Counted(r) == {r.sub, r.pool} \ {None}

\* Metrics::entry and pool_entry: the population's counters, made when missing.
Entered(t, h, ps) ==
  LET missing == SetToSeq({p \in ps : t[p] = 0})
      place(p) == CHOOSE i \in DOMAIN missing : missing[i] = p
  IN  [table |-> [p \in Population |-> IF p \in ps /\ t[p] = 0 THEN Len(h) + place(p) ELSE t[p]],
       heap  |-> h \o [i \in DOMAIN missing |-> Fresh]]

\* Both cutoffs are exclusive: a tick an hour old is gone.
Recent(ticks, now) == Selected(ticks, {tick \in ToSet(ticks) : tick.at + Hour > now})

\* record_tokens on one ring.
Pushed(ticks, tick) ==
  LET all == Append(Recent(ticks, tick.at), tick)
  IN  SubSeq(all, 1 + (IF Len(all) > MaxTicks THEN Len(all) - MaxTicks ELSE 0), Len(all))

\* tokens_since: what the ring holds of the last hour.
TokensSince(i) ==
  LET recent == Recent(heap[i].ticks, time)
      live == Selected(recent, {tick \in ToSet(recent) : tick.at <= time})
  IN  FoldSeq(LAMBDA tick, sum : sum + tick.n, 0, live)

----------------------------------------------------------------------------
\* Metrics::in_flight finds the counters, then bumps them.
Open(a, s, pool) ==
  LET ps == {s, pool} \ {None}
      entered == Entered(table, heap, ps)
  IN  /\ guards[a] = None
      /\ table' = entered.table
      /\ heap' = entered.heap
      /\ guards' = [guards EXCEPT ![a] =
           [sub |-> s, pool |-> pool, held |-> {entered.table[p] : p \in ps},
            epoch |-> epoch[s], counted |-> FALSE]]
      /\ UNCHANGED <<time, epoch, posts>>

Count(a) ==
  /\ guards[a] # None /\ ~ guards[a].counted
  /\ heap' = [i \in DOMAIN heap |->
                IF i \in guards[a].held
                THEN [heap[i] EXCEPT !.inFlight = @ + 1] ELSE heap[i]]
  /\ guards' = [guards EXCEPT ![a].counted = TRUE]
  /\ UNCHANGED <<time, table, epoch, posts>>

\* RequestRecord::set_tokens, once per answer: the moment is read before the
\* lock is had, so another thread's later tick may go in first.
SetTokens(a) ==
  /\ guards[a] # None /\ guards[a].counted
  /\ Len(posts) < MaxPosts
  /\ \E at \in {time, time - 1} \cap Nat :
       LET tick == [at |-> at, n |-> Len(posts) + 1]
           ps == Counted(guards[a])
           entered == Entered(table, heap, ps)
       IN  /\ table' = entered.table
           /\ heap' = [i \in DOMAIN entered.heap |->
                IF i \in {entered.table[p] : p \in ps}
                THEN [entered.heap[i] EXCEPT !.ticks = Pushed(@, tick)] ELSE entered.heap[i]]
           /\ posts' = Append(posts, [at |-> at, n |-> tick.n, to |-> {<<p, Epoch(p)>> : p \in ps}])
  /\ UNCHANGED <<time, guards, epoch>>

MutantDropGuard(a) ==   \* looks its counters up again
  /\ guards[a] # None /\ guards[a].counted
  /\ heap' = [i \in DOMAIN heap |->
                IF i \in {table[p] : p \in Counted(guards[a])} /\ heap[i].inFlight > 0
                THEN [heap[i] EXCEPT !.inFlight = @ - 1] ELSE heap[i]]
  /\ guards' = [guards EXCEPT ![a] = None]
  /\ UNCHANGED <<time, table, epoch, posts>>

\* The end of the record, a hang-up or an unwind included.
DropGuard(a) ==
  /\ guards[a] # None /\ guards[a].counted
  /\ heap' = [i \in DOMAIN heap |->
                IF i \in guards[a].held /\ heap[i].inFlight > 0
                THEN [heap[i] EXCEPT !.inFlight = @ - 1] ELSE heap[i]]
  /\ guards' = [guards EXCEPT ![a] = None]
  /\ UNCHANGED <<time, table, epoch, posts>>

\* Metrics::forget, when the engine removes the sub; requests go on.
Forget(s) ==
  /\ epoch[s] < MaxForgets
  /\ table' = [table EXCEPT ![s] = 0]
  /\ epoch' = [epoch EXCEPT ![s] = @ + 1]
  /\ UNCHANGED <<time, heap, guards, posts>>

\* A snapshot reads every ring, which is when they expire.
Read ==
  /\ heap' = [i \in DOMAIN heap |->
                IF i \in {table[p] : p \in Population}
                THEN [heap[i] EXCEPT !.ticks = Recent(@, time)] ELSE heap[i]]
  /\ UNCHANGED <<time, table, guards, epoch, posts>>

Tick ==
  /\ time < MaxTime
  /\ time' = time + 1
  /\ UNCHANGED <<table, heap, guards, epoch, posts>>

Init ==
  /\ time = 0
  /\ table = [p \in Population |-> 0]
  /\ heap = <<>>
  /\ guards = [a \in Tried |-> None]
  /\ epoch = [s \in Sub |-> 0]
  /\ posts = <<>>

Next ==
  \/ Read \/ Tick
  \/ \E s \in Sub : Forget(s)
  \/ \E a \in Tried : \/ \E s \in Sub, pool \in Pool \cup {None} : Open(a, s, pool)
                        \/ Count(a) \/ SetTokens(a) \/ DropGuard(a)

Spec == Init /\ [][Next]_vars

----------------------------------------------------------------------------
(* The promises. *)

InFlight(p) == IF table[p] = 0 THEN 0 ELSE heap[table[p]].inFlight
TokensOf(p) == IF table[p] = 0 THEN 0 ELSE TokensSince(table[p])

\* The gauge the strategies rank by is the attempts at work, to the last one:
\* an attempt that outlives its sub's removal, or began before the sub was
\* counted anew, neither holds the new gauge up nor pulls it down.
GaugesAgree ==
  \A p \in Population :
    InFlight(p) = Cardinality({a \in Tried :
      /\ guards[a] # None /\ guards[a].counted
      /\ \/ p = guards[a].pool
         \/ p = guards[a].sub /\ guards[a].epoch = Epoch(p)})

\* The tokens of the hour are those posted in it since the sub was last
\* forgotten, whatever order they arrived in and whenever the ring was read, as
\* long as the ring never had to let one go.
TokensAgree ==
  Len(posts) <= MaxTicks =>
    \A p \in Population :
      TokensOf(p) = FoldSeq(LAMBDA post, sum :
                       IF <<p, Epoch(p)>> \in post.to /\ post.at + Hour > time THEN sum + post.n ELSE sum,
                     0, posts)

\* Both, for every account and pool.
CountersAgree == GaugesAgree /\ TokensAgree
=============================================================================
