------------------------- MODULE TranscriptsProofs --------------------------
(***************************************************************************)
(* Proofs about Transcripts, for every set of ids, requests, keys and      *)
(* texts, every size of a text, every limit and every depth.               *)
(*                                                                         *)
(* That only whole conversations are spliced needs two facts about every   *)
(* reachable state: a row says what was last said under its id (Agrees),   *)
(* and a request holds a conversation only between the lookup of its chain *)
(* and its selection (Holds).                                              *)
(***************************************************************************)
EXTENDS Transcripts, Sums

Agrees ==
  \A i \in Id : rows[i] # None =>
    said[i] = [parent |-> rows[i].parent, sub |-> rows[i].sub, text |-> rows[i].text]

Holds(job) == job.spliced # None => job.pc \in {"placement", "select"}

IInv ==
  /\ Typed
  /\ Agrees
  /\ ToldIsRemembered
  /\ \A r \in Request : Holds(task[r])

----------------------------------------------------------------------------
(* The store's operators. *)

\* A walk's texts in order are texts, and its account is one.
LEMMA AssembledType ==
  ASSUME NEW table, NEW head \in Id, NEW w \in Walks(table, head),
         table \in [Id -> Row \cup {None}]
  PROVE  /\ w \in Seq(Id) /\ w # << >> /\ Len(w) \in Nat \ {0} /\ DOMAIN w = 1..Len(w)
         /\ Assembled(table, w) \in Spliced
<1>1. PICK m \in 0..(MaxDepth + 1) : w \in [1..m -> Id]  BY DepthAssumption DEF Walks, SeqOf
<1>2. w # << >> /\ w[1] = head /\ \A i \in DOMAIN w : table[w[i]] # None  BY DEF Walks
<1>3. m \in Nat /\ w \in Seq(Id) /\ Len(w) = m /\ DOMAIN w = 1..m
  BY <1>1, DepthAssumption
<1>4. m # 0  BY <1>2, <1>3
<1> DEFINE texts == [i \in DOMAIN w |-> table[w[i]].text]
<1>5. texts \in [1..m -> Text]  BY <1>1, <1>2, <1>3 DEF Row
<1>6. Reverse(texts) \in [1..m -> Text]
  <2>1. texts \in Seq(Text) /\ Len(texts) = m  BY <1>3, <1>5
  <2> HIDE DEF texts
  <2> QED BY <2>1, <1>3, <1>5 DEF Reverse
<1>7. Reverse(texts) \in Seq(Text)  BY <1>3, <1>6
<1>8. table[w[1]].sub \in Sub  BY <1>2, <1>3 DEF Row
<1> QED BY <1>2, <1>3, <1>4, <1>7, <1>8 DEF Assembled, Spliced

\* Eviction only takes rows and placements away.
LEMMA EvictTakes ==
  ASSUME NEW table \in [Id -> Row \cup {None}], NEW order \in SUBSET (Id \X Id), NEW total, NEW at, NEW failed,
         placement \in [Key -> Placed \cup {None}],
         Evict(table, order, total, at, failed)
  PROVE  /\ rows' \in [Id -> Row \cup {None}]
         /\ \A i \in Id : rows'[i] \in {table[i], None}
         /\ placement' \in [Key -> Placed \cup {None}]
         /\ older' \subseteq Id \X Id
<1> DEFINE old   == Expired(table, at)
           rest  == Without(table, old)
           swept == [k \in Key |-> IF placement[k] # None /\ placement[k].touched < at - Ttl
                                   THEN None ELSE placement[k]]
<1>1. swept \in [Key -> Placed \cup {None}]  OBVIOUS
<1>2. ASSUME NEW gone, rows' = Without(rest, gone)
      PROVE  /\ rows' \in [Id -> Row \cup {None}]
             /\ \A i \in Id : rows'[i] \in {table[i], None}
  BY <1>2 DEF Without
<1>0. older' \subseteq Id \X Id  BY DEF Evict, Among
<1>3. CASE \E gone : rows' = Without(rest, gone) /\ placement' = swept
  BY <1>0, <1>1, <1>2, <1>3
<1>4. CASE rows' = table /\ placement' \in {placement, swept}
  BY <1>0, <1>1, <1>4
<1>5. \/ \E gone : rows' = Without(rest, gone) /\ placement' = swept
      \/ rows' = table /\ placement' \in {placement, swept}
  BY DEF Evict
<1> QED BY <1>3, <1>4, <1>5

----------------------------------------------------------------------------
(* The invariant. *)

LEMMA InitHolds == Init => IInv
BY NoneAssumption
   DEF Init, IInv, Typed, Agrees, ToldIsRemembered, Holds, Idle, Task, Stage, Carries

\* A step that writes no turn keeps the invariant if it only restamps rows and leaves
\* every request well formed.
LEMMA QuietStep ==
  ASSUME IInv, UNCHANGED said, now' \in Nat,
         rows' \in [Id -> Row \cup {None}],
         \A i \in Id : rows'[i] # None =>
           /\ rows[i] # None
           /\ rows'[i].parent = rows[i].parent
           /\ rows'[i].sub = rows[i].sub
           /\ rows'[i].text = rows[i].text,
         placement' \in [Key -> Placed \cup {None}],
         older' \subseteq Id \X Id,
         task' \in [Request -> Task],
         \A r \in Request :
           /\ Carries(task'[r])
           /\ Holds(task'[r])
           /\ task'[r].pc = "tell" => task'[r] = task[r]
  PROVE  IInv'
<1>1. Typed'  BY DEF IInv, Typed
<1>2. Agrees'  BY DEF IInv, Agrees
<1>3. ToldIsRemembered'  BY DEF IInv, ToldIsRemembered, Known
<1> QED BY <1>1, <1>2, <1>3 DEF IInv

\* What a request is and holds, at whatever stage.
Sound(job) == job \in Task /\ Carries(job) /\ Holds(job)

LEMMA IdleSound == Sound(Idle) /\ Idle.pc = "idle" /\ Idle.spliced = None
BY DEF Sound, Idle, Task, Stage, Carries, Holds

LEMMA ResolvedSound ==
  ASSUME now \in Nat, NEW job \in Task
  PROVE  \A next \in {Prepared(job), Resolved(job)} :
           Sound(next) /\ next.pc # "tell" /\ next.spliced \in {job.spliced, None}
<1>1. /\ Goes(job, "select") \in Task /\ Calls(job, "placement") \in Task
      /\ Goes(job, "select").pc = "select" /\ Calls(job, "placement").pc = "placement"
      /\ Calls(job, "placement").key = job.key
      /\ Goes(job, "select").spliced = job.spliced
      /\ Calls(job, "placement").spliced = job.spliced
  BY DEF Goes, Calls, Task, Stage
<1>2. Sound(Prepared(job)) /\ Prepared(job).pc # "tell" /\ Prepared(job).spliced \in {job.spliced, None}
  BY <1>1, IdleSound DEF Prepared, Sound, Carries, Holds
<1>3. CASE job.key # None
  BY <1>1, <1>2, <1>3 DEF Resolved, Sound, Carries, Holds
<1>4. CASE job.key = None
  BY <1>2, <1>4 DEF Resolved
<1> QED BY <1>3, <1>4

\* What every step of a request that writes no turn has to show.
LEMMA QuietRequest ==
  ASSUME IInv, UNCHANGED <<said, now>>, NEW r \in Request, NEW job,
         task' = [task EXCEPT ![r] = job], Sound(job), job.pc # "tell",
         UNCHANGED older,
         \/ UNCHANGED rows
         \/ /\ rows' \in [Id -> Row \cup {None}]
            /\ \A i \in Id : rows'[i] # None =>
                 /\ rows[i] # None
                 /\ rows'[i].parent = rows[i].parent
                 /\ rows'[i].sub = rows[i].sub
                 /\ rows'[i].text = rows[i].text,
         placement' \in [Key -> Placed \cup {None}]
  PROVE  IInv'
<1>1. rows \in [Id -> Row \cup {None}] /\ now \in Nat /\ older \subseteq Id \X Id
      /\ task \in [Request -> Task] /\ \A q \in Request : Carries(task[q]) /\ Holds(task[q])
  BY DEF IInv, Typed
<1>2. task' \in [Request -> Task] /\ \A q \in Request : task'[q] = IF q = r THEN job ELSE task[q]
  BY <1>1 DEF Sound
<1>3. \A q \in Request : /\ Carries(task'[q]) /\ Holds(task'[q])
                         /\ task'[q].pc = "tell" => task'[q] = task[q]
  BY <1>1, <1>2 DEF Sound
<1> QED BY <1>1, <1>2, <1>3, QuietStep

\* touch leaves what a turn says alone.
LEMMA TouchRestamps ==
  ASSUME rows \in [Id -> Row \cup {None}], NEW head, NEW w \in Walks(rows, head),
         NEW n \in 0..Len(w), NEW at \in Nat, w \in Seq(Id), Touch(w, n, at)
  PROVE  /\ rows' \in [Id -> Row \cup {None}]
         /\ \A i \in Id : rows'[i] # None =>
              /\ rows[i] # None
              /\ rows'[i].parent = rows[i].parent
              /\ rows'[i].sub = rows[i].sub
              /\ rows'[i].text = rows[i].text
<1> DEFINE hit(i) == \E m \in 1..n : w[m] = i
<1>1. \A i \in Id : hit(i) => rows[i] # None
  BY DEF Walks
<1>2. \A i \in Id : rows'[i] = IF hit(i) THEN [rows[i] EXCEPT !.touched = at] ELSE rows[i]
  BY DEF Touch
<1>3. rows' = [i \in Id |-> IF hit(i) THEN [rows[i] EXCEPT !.touched = at] ELSE rows[i]]
  BY DEF Touch
<1>4. \A i \in Id : rows'[i] # None =>
              /\ rows[i] # None
              /\ rows'[i].parent = rows[i].parent
              /\ rows'[i].sub = rows[i].sub
              /\ rows'[i].text = rows[i].text
  <2> HIDE DEF hit
  <2> QED BY <1>1, <1>2 DEF Row
<1>5. rows' \in [Id -> Row \cup {None}]
  <2> HIDE DEF hit
  <2> QED BY <1>1, <1>3 DEF Row
<1> QED BY <1>4, <1>5

LEMMA ChainKeeps ==
  ASSUME IInv, NEW r \in Request, Chain(r)
  PROVE  IInv'
<1> DEFINE job == task[r]
<1>1. /\ job \in Task /\ job.head \in Id /\ job.spliced = None /\ now \in Nat
      /\ rows \in [Id -> Row \cup {None}] /\ placement \in [Key -> Placed \cup {None}]
  BY DEF IInv, Typed, Carries, Holds, Chain, Task
<1>2. CASE UNCHANGED rows /\ task' = [task EXCEPT ![r] = Resolved(@)]
  <2>1. task' = [task EXCEPT ![r] = Resolved(job)]  BY <1>2
  <2>2. Sound(Resolved(job)) /\ Resolved(job).pc # "tell"  BY <1>1, ResolvedSound
  <2> QED BY <1>1, <1>2, <2>1, <2>2, QuietRequest DEF Chain
<1>3. ASSUME NEW w \in Walks(rows, job.head), NEW at \in Stamp(r), NEW n \in 0..Len(w),
             Touch(w, n, at),
             task' = [task EXCEPT ![r] =
               Resolved(IF n = Len(w) THEN [@ EXCEPT !.spliced = Assembled(rows, w)] ELSE @)]
      PROVE  IInv'
  <2> DEFINE next == IF n = Len(w) THEN [job EXCEPT !.spliced = Assembled(rows, w)] ELSE job
  <2>1. w \in Seq(Id) /\ Assembled(rows, w) \in Spliced  BY <1>1, AssembledType
  <2>2. at \in Nat  BY <1>1 DEF Stamp, Task
  <2>3. /\ rows' \in [Id -> Row \cup {None}]
        /\ \A i \in Id : rows'[i] # None =>
             /\ rows[i] # None
             /\ rows'[i].parent = rows[i].parent
             /\ rows'[i].sub = rows[i].sub
             /\ rows'[i].text = rows[i].text
    <3> HIDE DEF job
    <3> QED BY <1>1, <1>3, <2>1, <2>2, TouchRestamps
  <2>4. next \in Task  BY <1>1, <2>1 DEF Task
  <2>5. task' = [task EXCEPT ![r] = Resolved(next)]  BY <1>3
  <2>6. Sound(Resolved(next)) /\ Resolved(next).pc # "tell"
    <3> HIDE DEF next
    <3> QED BY <1>1, <2>4, ResolvedSound
  <2> HIDE DEF next
  <2> QED BY <1>1, <2>3, <2>5, <2>6, QuietRequest DEF Chain
<1> QED BY <1>2, <1>3 DEF Chain

LEMMA PlacementKeeps ==
  ASSUME IInv, NEW r \in Request, Placement(r)
  PROVE  IInv'
<1> DEFINE job == task[r]
<1>1. /\ job \in Task /\ job.key \in Key /\ now \in Nat
      /\ placement \in [Key -> Placed \cup {None}]
  BY DEF IInv, Typed, Carries, Placement, Task
<1>2. CASE UNCHANGED placement /\ task' = [task EXCEPT ![r] = Prepared(@)]
  <2>1. task' = [task EXCEPT ![r] = Prepared(job)]  BY <1>2
  <2>2. Sound(Prepared(job)) /\ Prepared(job).pc # "tell"  BY <1>1, ResolvedSound
  <2> QED BY <1>1, <1>2, <2>1, <2>2, QuietRequest DEF Placement, turns
<1>3. ASSUME NEW at \in Stamp(r), placement[job.key] # None,
             placement' = [placement EXCEPT ![job.key].touched = at],
             task' = [task EXCEPT ![r] = Prepared([@ EXCEPT !.hint = placement[job.key].sub])]
      PROVE  IInv'
  <2> DEFINE next == [job EXCEPT !.hint = placement[job.key].sub]
  <2>1. at \in Nat  BY <1>1 DEF Stamp, Task
  <2>2. placement[job.key] \in Placed  BY <1>1, <1>3
  <2>3. placement' \in [Key -> Placed \cup {None}]  BY <1>1, <1>3, <2>1, <2>2 DEF Placed
  <2>4. next \in Task  BY <1>1, <2>2 DEF Task, Placed
  <2>5. task' = [task EXCEPT ![r] = Prepared(next)]  BY <1>3
  <2>6. Sound(Prepared(next)) /\ Prepared(next).pc # "tell"
    <3> HIDE DEF next
    <3> QED BY <1>1, <2>4, ResolvedSound
  <2> HIDE DEF next
  <2> QED BY <2>3, <2>5, <2>6, QuietRequest DEF Placement, turns
<1> QED BY <1>2, <1>3 DEF Placement

\* The steps that move a request along and write at most a placement.
LEMMA RequestKeeps ==
  ASSUME IInv, NEW r \in Request,
         \/ NewRequest(r) \/ Select(r) \/ Place(r) \/ Fail(r) \/ Terminal(r)
  PROVE  IInv'
<1>1. /\ task[r] \in Task /\ Carries(task[r]) /\ Holds(task[r]) /\ now \in Nat
      /\ placement \in [Key -> Placed \cup {None}]
  BY DEF IInv, Typed
<1>2. CASE NewRequest(r)
  <2>1. PICK head \in Id \cup {None}, key \in Key \cup {None} :
          LET job == [Idle EXCEPT !.head = head, !.key = key]
          IN  task' = [task EXCEPT ![r] = IF head # None THEN Calls(job, "chain")
                                          ELSE IF key # None THEN Calls(job, "placement")
                                          ELSE Goes(job, "select")]
    BY <1>2 DEF NewRequest
  <2> DEFINE job == [Idle EXCEPT !.head = head, !.key = key]
             next == IF head # None THEN Calls(job, "chain")
                     ELSE IF key # None THEN Calls(job, "placement")
                     ELSE Goes(job, "select")
  <2>2. Sound(next) /\ next.pc # "tell"
    BY <1>1, ZenonT(90) DEF Sound, Task, Stage, Carries, Holds, Calls, Goes, Idle
  <2>3. task' = [task EXCEPT ![r] = next]  BY <2>1
  <2> HIDE DEF next
  <2> QED BY <1>1, <1>2, <2>2, <2>3, QuietRequest DEF NewRequest, turns
<1>3. CASE Select(r)
  <2>1. PICK s \in Sub :
          LET job == [task[r] EXCEPT !.sub = s, !.spliced = None]
          IN  task' = [task EXCEPT ![r] =
                IF job.key # None /\ job.hint # s THEN Calls(job, "place") ELSE Goes(job, "upstream")]
    BY <1>3 DEF Select
  <2> DEFINE job == [task[r] EXCEPT !.sub = s, !.spliced = None]
             next == IF job.key # None /\ job.hint # s THEN Calls(job, "place")
                     ELSE Goes(job, "upstream")
  <2>2. Sound(next) /\ next.pc # "tell"
    BY <1>1, NoneAssumption, ZenonT(90) DEF Sound, Task, Stage, Carries, Holds, Calls, Goes
  <2>3. task' = [task EXCEPT ![r] = next]  BY <2>1
  <2> HIDE DEF next
  <2> QED BY <1>1, <1>3, <2>2, <2>3, QuietRequest DEF Select, turns
<1>4. CASE Place(r)
  <2> DEFINE next == IF task[r].gone THEN Idle ELSE Goes(task[r], "upstream")
  <2>1. Sound(next) /\ next.pc # "tell"
    BY <1>1, <1>4, IdleSound, ZenonT(90) DEF Place, Sound, Task, Stage, Carries, Holds, Goes
  <2>2. task' = [task EXCEPT ![r] = next]  BY <1>4 DEF Place
  <2>3. placement' \in [Key -> Placed \cup {None}]
    <3>1. task[r].sub \in Sub  BY <1>1, <1>4 DEF Place, Task, Carries
    <3>2. ASSUME NEW at \in Stamp(r) PROVE [sub |-> task[r].sub, touched |-> at] \in Placed
      BY <1>1, <3>1 DEF Stamp, Task, Placed
    <3> QED BY <1>1, <1>4, <3>2 DEF Place
  <2> HIDE DEF next
  <2> QED BY <1>4, <2>1, <2>2, <2>3, QuietRequest DEF Place, turns
<1>5. CASE Fail(r)
  <2> DEFINE next == [task[r] EXCEPT !.pc = "select"]
  <2>1. Sound(next) /\ next.pc = "select"
    BY <1>1, <1>5 DEF Fail, Sound, Task, Stage, Carries, Holds
  <2>2. task' = [task EXCEPT ![r] = Idle] \/ task' = [task EXCEPT ![r] = next]
    BY <1>1, <1>5 DEF Fail
  <2> HIDE DEF next
  <2> QED BY <1>1, <1>5, <2>1, <2>2, IdleSound, QuietRequest DEF Fail, turns
<1>6. CASE Terminal(r)
  <2>1. PICK i \in Id, text \in Text :
          task' = [task EXCEPT ![r] = Calls([@ EXCEPT !.id = i, !.text = text], "remember")]
    BY <1>6 DEF Terminal
  <2> DEFINE next == Calls([task[r] EXCEPT !.id = i, !.text = text], "remember")
  <2>2. Sound(next) /\ next.pc # "tell"
    BY <1>1, <1>6, NoneAssumption, ZenonT(90) DEF Terminal, Sound, Task, Stage, Carries, Holds, Calls
  <2>3. task' = [task EXCEPT ![r] = next]  BY <2>1
  <2> HIDE DEF next
  <2> QED BY <1>1, <1>6, <2>2, <2>3, QuietRequest DEF Terminal, turns
<1> QED BY <1>2, <1>3, <1>4, <1>5, <1>6

LEMMA RememberKeeps ==
  ASSUME IInv, NEW r \in Request, Remember(r)
  PROVE  IInv'
<1> DEFINE job  == task[r]
           turn == [parent |-> job.head, sub |-> job.sub, text |-> job.text]
           i    == job.id
<1>1. /\ job \in Task /\ i \in Id /\ turn \in Turn /\ turn # None /\ now \in Nat
      /\ rows \in [Id -> Row \cup {None}] /\ said \in [Id -> Turn \cup {None}]
      /\ placement \in [Key -> Placed \cup {None}] /\ older \subseteq Id \X Id
      /\ task \in [Request -> Task]
      /\ \A q \in Request : Carries(task[q]) /\ Holds(task[q])
  <2>1. job \in Task /\ Carries(job)  BY DEF IInv, Typed
  <2>2. job.sub \in Sub /\ i \in Id /\ job.text \in Text
    BY <2>1 DEF Remember, Carries, Task
  <2>3. turn \in Turn  BY <2>1, <2>2 DEF Turn, Task
  <2>4. turn # None  BY <2>3, TurnAssumption
  <2> HIDE DEF job, turn, i
  <2>5. /\ now \in Nat /\ rows \in [Id -> Row \cup {None}] /\ said \in [Id -> Turn \cup {None}]
        /\ placement \in [Key -> Placed \cup {None}] /\ older \subseteq Id \X Id
        /\ task \in [Request -> Task]
        /\ \A q \in Request : Carries(task[q]) /\ Holds(task[q])
    BY DEF IInv, Typed
  <2> QED BY <2>1, <2>2, <2>3, <2>4, <2>5
<1>2. \A lost \in BOOLEAN : Sound(Told(job, lost)) /\ (Told(job, lost).pc = "tell" =>
                                 Told(job, lost).id = i /\ Told(job, lost).lost = lost)
  <2> TAKE lost \in BOOLEAN
  <2> DEFINE told == [Idle EXCEPT !.pc = "tell", !.id = i, !.lost = lost]
  <2>2. Told(job, lost) = Idle \/ Told(job, lost) = told  BY DEF Told
  <2>3. told \in Task /\ told.pc = "tell" /\ told.id = i /\ told.lost = lost /\ told.spliced = None
    BY <1>1 DEF Idle, Task, Stage
  <2>4. Sound(told)
    <3>1. i # None  BY <1>1, NoneAssumption
    <3> HIDE DEF told, i
    <3> QED BY <2>3, <3>1 DEF Sound, Carries, Holds
  <2> HIDE DEF told, i, job
  <2> QED BY <2>2, <2>3, <2>4, IdleSound
<1>3. ASSUME NEW lost \in BOOLEAN, task' = [task EXCEPT ![r] = Told(job, lost)],
             \A j \in Id : said'[j] = None => said[j] = None,
             lost \/ said'[i] # None
      PROVE  /\ task' \in [Request -> Task]
             /\ \A q \in Request : Carries(task'[q]) /\ Holds(task'[q])
             /\ ToldIsRemembered'
  <2> DEFINE next == Told(job, lost)
  <2>1. Sound(next) /\ (next.pc = "tell" => next.id = i /\ next.lost = lost)  BY <1>2
  <2>2. task' = [task EXCEPT ![r] = next]  BY <1>3
  <2> HIDE DEF next, job, i
  <2>3. task' \in [Request -> Task] /\ \A q \in Request : task'[q] = IF q = r THEN next ELSE task[q]
    BY <1>1, <2>1, <2>2 DEF Sound
  <2> QED BY <1>1, <1>3, <2>1, <2>3 DEF Sound, IInv, ToldIsRemembered, Known
<1>4. CASE UNCHANGED <<turns, placement, said>> /\ task' = [task EXCEPT ![r] = Told(@, TRUE)]
  <2>1. task' = [task EXCEPT ![r] = Told(job, TRUE)]  BY <1>4
  <2>2. UNCHANGED <<rows, older, placement, said, now>>  BY <1>4 DEF Remember, turns
  <2> HIDE DEF job
  <2>3. /\ task' \in [Request -> Task] /\ ToldIsRemembered'
        /\ \A q \in Request : Carries(task'[q]) /\ Holds(task'[q])
    BY <1>3, <2>1, <2>2
  <2>4. Agrees'  BY <2>2 DEF IInv, Agrees
  <2> QED BY <1>1, <2>2, <2>3, <2>4 DEF IInv, Typed
<1>5. ASSUME NEW at \in Stamp(r), NEW failed \in BOOLEAN,
             said' = [said EXCEPT ![i] = turn],
             Insert(i, turn, at, failed),
             task' = [task EXCEPT ![r] = Told(@, failed)]
      PROVE  IInv'
  <2> DEFINE row   == [parent |-> turn.parent, sub |-> turn.sub, text |-> turn.text, touched |-> at]
             table == [rows EXCEPT ![i] = row]
             rest  == Known(rows) \ {i}
             order == Among(older, rest) \cup {<<j, i>> : j \in rest}
             old   == IF rows[i] = None THEN 0 ELSE Size[rows[i].text]
  <2>1. row \in Row
    <3>1. at \in Nat  BY <1>1 DEF Stamp, Task
    <3> QED BY <1>1, <3>1 DEF Row, Turn
  <2>2. table \in [Id -> Row \cup {None}] /\ table[i] = row
        /\ \A j \in Id : j # i => table[j] = rows[j]
    BY <1>1, <2>1
  <2>3. order \in SUBSET (Id \X Id)  BY <1>1 DEF Among, Known
  <2>4. Evict(table, order, Replaced(bytes, turn, old), at, failed)  BY <1>5 DEF Insert
  <2>5. /\ rows' \in [Id -> Row \cup {None}]
        /\ \A j \in Id : rows'[j] \in {table[j], None}
        /\ placement' \in [Key -> Placed \cup {None}]
        /\ older' \subseteq Id \X Id
    <3> HIDE DEF table, order, old
    <3> QED BY <1>1, <2>2, <2>3, <2>4, EvictTakes
  <2>6. said' \in [Id -> Turn \cup {None}] /\ said'[i] = turn
        /\ \A j \in Id : j # i => said'[j] = said[j]
    BY <1>1, <1>5
  <2>7. Agrees'
    <3> SUFFICES ASSUME NEW j \in Id, rows'[j] # None
                 PROVE  said'[j] = [parent |-> rows'[j].parent, sub |-> rows'[j].sub,
                                    text |-> rows'[j].text]
      BY DEF Agrees
    <3>1. rows'[j] = table[j]  BY <2>5
    <3>2. CASE j = i
      <4>1. rows'[j] = row /\ said'[j] = turn  BY <2>2, <2>6, <3>1, <3>2
      <4> QED BY <4>1
    <3>3. CASE j # i
      <4>1. rows'[j] = rows[j] /\ said'[j] = said[j]  BY <2>2, <2>6, <3>1, <3>3
      <4> QED BY <4>1 DEF IInv, Agrees
    <3> QED BY <3>2, <3>3
  <2>8. task' = [task EXCEPT ![r] = Told(job, failed)]  BY <1>5
  <2>9. /\ task' \in [Request -> Task] /\ ToldIsRemembered'
        /\ \A q \in Request : Carries(task'[q]) /\ Holds(task'[q])
    <3>1. \A j \in Id : said'[j] = None => said[j] = None  BY <1>1, <2>6
    <3>2. said'[i] # None  BY <1>1, <2>6
    <3> HIDE DEF job, i, turn
    <3> QED BY <1>3, <2>8, <3>1, <3>2
  <2>10. now' = now  BY DEF Remember
  <2> HIDE DEF table, order, row, old, rest
  <2> QED BY <1>1, <2>5, <2>6, <2>7, <2>9, <2>10 DEF IInv, Typed
<1>6. \/ UNCHANGED <<turns, placement, said>> /\ task' = [task EXCEPT ![r] = Told(@, TRUE)]
      \/ \E at \in Stamp(r), failed \in BOOLEAN :
           /\ said' = [said EXCEPT ![i] = turn]
           /\ Insert(i, turn, at, failed)
           /\ task' = [task EXCEPT ![r] = Told(@, failed)]
  BY DEF Remember
<1> HIDE DEF turn, i
<1> QED BY <1>4, <1>5, <1>6

\* The client takes its answer or hangs up; the clock and the process.
LEMMA OutsideKeeps ==
  ASSUME IInv, (\E r \in Request : Tell(r) \/ Drop(r)) \/ Tick \/ Restart
  PROVE  IInv'
<1>1. /\ task \in [Request -> Task] /\ \A q \in Request : Carries(task[q]) /\ Holds(task[q])
      /\ rows \in [Id -> Row \cup {None}] /\ now \in Nat /\ older \subseteq Id \X Id
      /\ placement \in [Key -> Placed \cup {None}]
  BY DEF IInv, Typed
<1>2. ASSUME NEW r \in Request, Tell(r)  PROVE IInv'
  <2>1. task' = [task EXCEPT ![r] = Idle]  BY <1>2 DEF Tell
  <2> QED BY <1>1, <1>2, <2>1, IdleSound, QuietRequest DEF Tell, turns
<1>3. ASSUME NEW r \in Request, Drop(r)  PROVE IInv'
  <2> DEFINE next == [task[r] EXCEPT !.gone = TRUE]
  <2>1. CASE /\ task[r].pc \in {"chain", "placement", "place", "remember"}
             /\ task' = [task EXCEPT ![r] = next]
    <3>1. Sound(next) /\ next.pc # "tell"
      BY <1>1, <2>1, ZenonT(90) DEF Sound, Task, Carries, Holds
    <3> HIDE DEF next
    <3> QED BY <1>1, <1>3, <2>1, <3>1, QuietRequest DEF Drop, turns
  <2>2. CASE task' = [task EXCEPT ![r] = Idle]
    BY <1>1, <1>3, <2>2, IdleSound, QuietRequest DEF Drop, turns
  <2> QED BY <1>3, <2>1, <2>2 DEF Drop
<1>4. CASE Tick
  <2>1. now' \in Nat /\ UNCHANGED <<rows, older, placement, task, said>>
    BY <1>1, <1>4 DEF Tick, turns
  <2> QED BY <1>1, <2>1, QuietStep
<1>5. CASE Restart
  <2>1. /\ task' \in [Request -> Task]
        /\ \A q \in Request : Carries(task'[q]) /\ Holds(task'[q]) /\ task'[q].pc # "tell"
    BY <1>5, IdleSound DEF Restart, Sound
  <2> QED BY <1>1, <1>5, <2>1, QuietStep DEF Restart
<1> QED BY <1>2, <1>3, <1>4, <1>5

LEMMA StutterKeeps ==
  ASSUME IInv, UNCHANGED vars
  PROVE  IInv'
BY DEF IInv, Typed, Agrees, ToldIsRemembered, Known, vars, turns

LEMMA NextKeeps ==
  ASSUME IInv, [Next]_vars
  PROVE  IInv'
BY ChainKeeps, PlacementKeeps, RequestKeeps, RememberKeeps, OutsideKeeps, StutterKeeps
   DEF Next, Step

THEOREM Invariance == Spec => []IInv
<1>1. IInv /\ [Next]_vars => IInv'  BY NextKeeps
<1> QED BY InitHolds, <1>1, PTL DEF Spec

\* A client is told of a turn that was not lost only once it is in the store (remember,
\* aggregate and stream_response).
THEOREM ToldRemembered == Spec => []ToldIsRemembered
<1>1. IInv => ToldIsRemembered  BY DEF IInv
<1> QED BY Invariance, <1>1, PTL

----------------------------------------------------------------------------
(* The store implements Conversations. *)

\* A walk that ends at a root, read backwards, is a whole conversation as it was said.
LEMMA WalkDescends ==
  ASSUME IInv, NEW head \in Id, NEW w \in Walks(rows, head), Rooted(rows, w)
  PROVE  /\ Reverse(w) \in Promise!Descents(head)
         /\ Assembled(rows, w) =
              [items |-> [i \in DOMAIN Reverse(w) |-> said[Reverse(w)[i]].text],
               sub |-> said[head].sub]
<1> DEFINE m == Len(w)
           c == Reverse(w)
<1>1. PICK k \in 0..(MaxDepth + 1) : w \in [1..k -> Id]  BY DepthAssumption DEF Walks, SeqOf
<1>2. w # << >> /\ w[1] = head /\ (\A i \in DOMAIN w : rows[w[i]] # None)
      /\ \A i \in DOMAIN w : i > 1 => rows[w[i - 1]].parent = w[i]
  BY DEF Walks
<1>3. m \in Nat /\ m = k /\ DOMAIN w = 1..m /\ w \in Seq(Id) /\ w \in [1..m -> Id]
  BY <1>1, DepthAssumption
<1>4. m # 0  BY <1>2, <1>3
<1>5. /\ c \in [1..m -> Id] /\ DOMAIN c = 1..m /\ Len(c) = m
      /\ \A i \in 1..m : c[i] = w[m - i + 1]
  <2>1. c = [i \in 1..m |-> w[m - i + 1]]  BY DEF Reverse
  <2>2. \A i \in 1..m : m - i + 1 \in 1..m  BY <1>3
  <2>3. c \in [1..m -> Id]  BY <2>1, <2>2, <1>3
  <2> HIDE DEF c, m
  <2> QED BY <2>1, <2>3, <1>3
<1>6. \A i \in 1..m :
        /\ rows[w[i]] # None
        /\ w[i] \in Id
        /\ said[w[i]] # None
        /\ said[w[i]].parent = rows[w[i]].parent
        /\ said[w[i]].sub = rows[w[i]].sub
        /\ said[w[i]].text = rows[w[i]].text
  <2> TAKE i \in 1..m
  <2>1. rows[w[i]] # None /\ w[i] \in Id  BY <1>2, <1>3
  <2>2. said[w[i]] = [parent |-> rows[w[i]].parent, sub |-> rows[w[i]].sub, text |-> rows[w[i]].text]
    BY <2>1 DEF IInv, Agrees
  <2>3. rows[w[i]] \in Row  BY <2>1 DEF IInv, Typed
  <2>4. said[w[i]] \in Turn  BY <2>2, <2>3 DEF Row, Turn
  <2> QED BY <2>1, <2>2, <2>4, TurnAssumption
<1>7. rows[w[m]].parent = None  BY DEF Rooted, Last
<1>8. c # << >> /\ c[m] = head
  <2>1. c[m] = w[m - m + 1]  BY <1>3, <1>4, <1>5
  <2>2. m - m + 1 = 1  BY <1>3
  <2> HIDE DEF c, m
  <2> QED BY <1>2, <1>3, <1>4, <1>5, <2>1, <2>2
<1>9. \A i \in 1..m : said[c[i]].parent = IF i = 1 THEN None ELSE c[i - 1]
  <2> TAKE i \in 1..m
  <2> DEFINE j == m - i + 1
  <2>1. j \in 1..m /\ c[i] = w[j]  BY <1>3, <1>5
  <2>2. said[c[i]].parent = rows[w[j]].parent  BY <1>6, <2>1
  <2>3. CASE i = 1
    <3>1. j = m  BY <1>3, <2>3
    <3> QED BY <1>7, <2>2, <2>3, <3>1
  <2>4. CASE i # 1
    <3>1. i - 1 \in 1..m /\ m - (i - 1) + 1 = j + 1 /\ j + 1 \in 1..m /\ (j + 1) - 1 = j /\ j + 1 > 1
      BY <1>3, <2>4
    <3>2. c[i - 1] = w[j + 1]  BY <1>5, <3>1
    <3>3. rows[w[j]].parent = w[j + 1]  BY <1>2, <1>3, <3>1
    <3> QED BY <2>2, <2>4, <3>2, <3>3
  <2> QED BY <2>3, <2>4
<1>10. \A i \in 1..m : said[c[i]] # None
  <2> TAKE i \in 1..m
  <2>1. m - i + 1 \in 1..m  BY <1>3
  <2> QED BY <1>5, <1>6, <2>1
<1>11. c \in SeqOf(Id, MaxDepth + 1)
  <2> HIDE DEF c, m
  <2> QED BY <1>1, <1>3, <1>5 DEF SeqOf
<1>12. c \in Promise!Descents(head)
  <2> HIDE DEF c, m
  <2> QED BY <1>5, <1>8, <1>9, <1>10, <1>11 DEF Promise!Descents, Promise!SeqOf, SeqOf
<1>13. Reverse([i \in DOMAIN w |-> rows[w[i]].text]) = [i \in DOMAIN c |-> said[c[i]].text]
  <2> DEFINE texts == [i \in DOMAIN w |-> rows[w[i]].text]
  <2>1. texts \in [1..m -> Text]
    <3>1. \A i \in 1..m : rows[w[i]].text \in Text
      BY <1>6 DEF IInv, Typed, Row
    <3> QED BY <1>3, <3>1
  <2>2. Len(texts) = m
    <3> HIDE DEF texts, m
    <3> QED BY <1>3, <2>1
  <2>3. Reverse(texts) = [i \in 1..m |-> texts[m - i + 1]]
    <3> HIDE DEF texts
    <3> QED BY <2>2 DEF Reverse
  <2>4. \A i \in 1..m : texts[m - i + 1] = said[c[i]].text
    <3> TAKE i \in 1..m
    <3>1. m - i + 1 \in 1..m  BY <1>3
    <3>2. texts[m - i + 1] = rows[w[m - i + 1]].text  BY <1>3, <3>1
    <3>3. said[w[m - i + 1]].text = rows[w[m - i + 1]].text  BY <1>6, <3>1
    <3>4. c[i] = w[m - i + 1]  BY <1>5
    <3> HIDE DEF texts, c, m
    <3> QED BY <3>2, <3>3, <3>4
  <2> HIDE DEF texts, c, m
  <2>5. Reverse(texts) = [i \in DOMAIN c |-> said[c[i]].text]  BY <1>5, <2>3, <2>4
  <2> QED BY <2>5 DEF texts
<1>14. rows[w[1]].sub = said[head].sub
  <2>1. 1 \in 1..m  BY <1>3, <1>4
  <2> QED BY <1>2, <1>6, <2>1
<1> QED BY <1>12, <1>13, <1>14 DEF Assembled

\* A step that only takes conversations away from requests closes them.
LEMMA ClosingStep ==
  ASSUME UNCHANGED said,
         \A r \in Request : task'[r].spliced \in {task[r].spliced, None}
  PROVE  Promise!Next
<1> DEFINE closed == {r \in Request : task'[r].spliced = None}
<1>1. [r \in Request |-> task'[r].spliced]
        = [r \in Request |-> IF r \in closed THEN None ELSE [q \in Request |-> task[q].spliced][r]]
  OBVIOUS
<1>2. PICK ended \in SUBSET Request : ended = closed  OBVIOUS
<1>3. Promise!Close(ended)
  <2> HIDE DEF closed
  <2> QED BY <1>1, <1>2 DEF Promise!Close
<1> QED BY <1>2, <1>3 DEF Promise!Next

\* As above, when one request moves on.
LEMMA ClosingRequest ==
  ASSUME IInv, UNCHANGED said, NEW r \in Request, NEW job, task' = [task EXCEPT ![r] = job],
         job.spliced \in {task[r].spliced, None}
  PROVE  Promise!Next
<1>1. \A q \in Request : task'[q] = IF q = r THEN job ELSE task[q]
  BY DEF IInv, Typed
<1>2. \A q \in Request : task'[q].spliced \in {task[q].spliced, None}
  BY <1>1
<1> QED BY <1>2, ClosingStep

LEMMA InitImplements == Init => Promise!Init
BY DEF Init, Idle, Promise!Init

LEMMA ChainImplements ==
  ASSUME IInv, NEW r \in Request, Chain(r)
  PROVE  Promise!Next
<1> DEFINE job == task[r]
<1>1. /\ job \in Task /\ job.head \in Id /\ job.spliced = None /\ now \in Nat
      /\ rows \in [Id -> Row \cup {None}] /\ task \in [Request -> Task]
  BY DEF IInv, Typed, Carries, Holds, Chain, Task
<1>2. said' = said  BY DEF Chain
<1>3. CASE task' = [task EXCEPT ![r] = Resolved(@)]
  <2>1. task' = [task EXCEPT ![r] = Resolved(job)]  BY <1>3
  <2>2. Resolved(job).spliced \in {job.spliced, None}  BY <1>1, ResolvedSound
  <2> QED BY <1>2, <2>1, <2>2, ClosingRequest
<1>4. ASSUME NEW w \in Walks(rows, job.head), NEW n \in 0..Len(w), Rooted(rows, w),
             task' = [task EXCEPT ![r] =
               Resolved(IF n = Len(w) THEN [@ EXCEPT !.spliced = Assembled(rows, w)] ELSE @)]
      PROVE  Promise!Next
  <2> DEFINE whole == Assembled(rows, w)
             next  == [job EXCEPT !.spliced = whole]
  <2>1. CASE n # Len(w)
    <3>1. task' = [task EXCEPT ![r] = Resolved(job)]  BY <1>4, <2>1
    <3>2. Resolved(job).spliced \in {job.spliced, None}  BY <1>1, ResolvedSound
    <3> QED BY <1>2, <3>1, <3>2, ClosingRequest
  <2>2. CASE n = Len(w)
    <3>1. next \in Task /\ next.spliced = whole  BY <1>1, AssembledType DEF Task
    <3>2. task' = [task EXCEPT ![r] = Resolved(next)]  BY <1>4, <2>2
    <3> HIDE DEF next
    <3>3. Resolved(next).spliced \in {whole, None}  BY <1>1, <3>1, ResolvedSound
    <3>4. CASE Resolved(next).spliced = None
      BY <1>2, <3>2, <3>4, ClosingRequest
    <3>5. CASE Resolved(next).spliced = whole
      <4>1. /\ Reverse(w) \in Promise!Descents(job.head)
            /\ whole = [items |-> [i \in DOMAIN Reverse(w) |-> said[Reverse(w)[i]].text],
                        sub |-> said[job.head].sub]
        <5> HIDE DEF job
        <5> QED BY <1>1, <1>4, WalkDescends
      <4>2. \A q \in Request : task'[q] = IF q = r THEN Resolved(next) ELSE task[q]
        BY <1>1, <3>2
      <4>3. [q \in Request |-> task'[q].spliced]
              = [[q \in Request |-> task[q].spliced] EXCEPT ![r] = whole]
        <5> HIDE DEF whole
        <5> QED BY <3>5, <4>2
      <4>4. [q \in Request |-> task[q].spliced][r] = None  BY <1>1
      <4>5. PICK head \in Id : head = job.head  BY <1>1
      <4>6. Promise!Answer(r, head)
        <5> HIDE DEF whole, job
        <5> QED BY <1>2, <4>1, <4>3, <4>4, <4>5 DEF Promise!Answer
      <4> QED BY <4>6 DEF Promise!Next
    <3> QED BY <3>3, <3>4, <3>5
  <2> QED BY <2>1, <2>2
<1> QED BY <1>3, <1>4 DEF Chain

LEMMA RememberImplements ==
  ASSUME IInv, NEW r \in Request, Remember(r)
  PROVE  Promise!Next
<1> DEFINE turn == [parent |-> task[r].head, sub |-> task[r].sub, text |-> task[r].text]
           i    == task[r].id
<1>1. /\ task \in [Request -> Task] /\ task[r].spliced = None
      /\ task[r] \in Task /\ Carries(task[r])
  BY DEF IInv, Typed, Holds, Remember
<1>2. i \in Id /\ turn \in Turn
  BY <1>1 DEF Remember, Carries, Task, Turn
<1>3. PICK lost : task' = [task EXCEPT ![r] = Told(task[r], lost)]
  BY DEF Remember
<1>4. Told(task[r], lost).spliced = None
  BY DEF Told, Idle
<1>5. \A q \in Request : task'[q].spliced = task[q].spliced
  <2> DEFINE next == Told(task[r], lost)
  <2> HIDE DEF next
  <2>1. task' = [task EXCEPT ![r] = next]  BY <1>3 DEF next
  <2>2. next.spliced = None  BY <1>4 DEF next
  <2> QED BY <1>1, <2>1, <2>2
<1>6. CASE said' = said
  BY <1>5, <1>6, ClosingStep
<1>7. CASE said' = [said EXCEPT ![i] = turn]
  <2>1. Promise!Say(i, turn)
    <3> HIDE DEF i, turn
    <3> QED BY <1>5, <1>7 DEF Promise!Say
  <2> HIDE DEF i, turn
  <2> QED BY <1>2, <2>1 DEF Promise!Next, Promise!Turn, Turn
<1> QED BY <1>6, <1>7 DEF Remember

\* Every other step leaves what was said alone and gives no conversation out.
LEMMA OthersImplement ==
  ASSUME IInv,
         \/ \E r \in Request :
              \/ NewRequest(r) \/ Placement(r) \/ Select(r) \/ Place(r)
              \/ Fail(r) \/ Terminal(r) \/ Tell(r) \/ Drop(r)
         \/ Tick \/ Restart \/ UNCHANGED vars
  PROVE  Promise!Next
<1>1. task \in [Request -> Task] /\ now \in Nat /\ placement \in [Key -> Placed \cup {None}]
  BY DEF IInv, Typed
<1>2. CASE Tick \/ UNCHANGED vars
  BY <1>2, ClosingStep DEF Tick, vars
<1>3. CASE Restart
  BY <1>3, IdleSound, ClosingStep DEF Restart
<1>4. ASSUME NEW r \in Request, Placement(r)  PROVE Promise!Next
  <2>1. task[r] \in Task  BY <1>1
  <2>2. PICK next \in {task[r], [task[r] EXCEPT !.hint = placement[task[r].key].sub]} :
          task' = [task EXCEPT ![r] = Prepared(next)]
    BY <1>4 DEF Placement
  <2>3. next.spliced = task[r].spliced  BY <2>1, <2>2 DEF Task
  <2>4. Prepared(next).spliced \in {next.spliced, None}
    BY <2>1, <2>2 DEF Prepared, Goes, Idle, Task
  <2>5. said' = said  BY <1>4 DEF Placement
  <2> QED BY <2>2, <2>3, <2>4, <2>5, ClosingRequest
<1>5. ASSUME NEW r \in Request,
             NewRequest(r) \/ Select(r) \/ Place(r) \/ Fail(r) \/ Terminal(r) \/ Tell(r) \/ Drop(r)
      PROVE  Promise!Next
  <2>1. task[r] \in Task /\ said' = said
    BY <1>1, <1>5 DEF NewRequest, Select, Place, Fail, Terminal, Tell, Drop
  <2>2. CASE NewRequest(r)
    <3>1. PICK head, key :
            LET job == [Idle EXCEPT !.head = head, !.key = key]
            IN  task' = [task EXCEPT ![r] = IF head # None THEN Calls(job, "chain")
                                            ELSE IF key # None THEN Calls(job, "placement")
                                            ELSE Goes(job, "select")]
      BY <2>2 DEF NewRequest
    <3> DEFINE job  == [Idle EXCEPT !.head = head, !.key = key]
               next == IF head # None THEN Calls(job, "chain")
                       ELSE IF key # None THEN Calls(job, "placement")
                       ELSE Goes(job, "select")
    <3>2. next.spliced = None  BY DEF Calls, Goes, Idle
    <3>3. task' = [task EXCEPT ![r] = next]  BY <3>1
    <3> HIDE DEF next
    <3> QED BY <2>1, <3>2, <3>3, ClosingRequest
  <2>3. CASE Select(r)
    <3>1. PICK s :
            LET job == [task[r] EXCEPT !.sub = s, !.spliced = None]
            IN  task' = [task EXCEPT ![r] =
                  IF job.key # None /\ job.hint # s THEN Calls(job, "place") ELSE Goes(job, "upstream")]
      BY <2>3 DEF Select
    <3> DEFINE job  == [task[r] EXCEPT !.sub = s, !.spliced = None]
               next == IF job.key # None /\ job.hint # s THEN Calls(job, "place")
                       ELSE Goes(job, "upstream")
    <3>2. next.spliced = None  BY <2>1 DEF Calls, Goes, Task
    <3>3. task' = [task EXCEPT ![r] = next]  BY <3>1
    <3> HIDE DEF next
    <3> QED BY <2>1, <3>2, <3>3, ClosingRequest
  <2>4. CASE Terminal(r)
    <3>1. PICK i, text :
            task' = [task EXCEPT ![r] = Calls([@ EXCEPT !.id = i, !.text = text], "remember")]
      BY <2>4 DEF Terminal
    <3> DEFINE next == Calls([task[r] EXCEPT !.id = i, !.text = text], "remember")
    <3>2. next.spliced = task[r].spliced  BY <2>1 DEF Calls, Task
    <3>3. task' = [task EXCEPT ![r] = next]  BY <3>1
    <3> HIDE DEF next
    <3> QED BY <2>1, <3>2, <3>3, ClosingRequest
  <2>5. CASE Place(r) \/ Tell(r) \/ Fail(r) \/ Drop(r)
    <3>1. PICK next \in {Idle, Goes(task[r], "upstream"), [task[r] EXCEPT !.pc = "select"],
                        [task[r] EXCEPT !.gone = TRUE]} :
            task' = [task EXCEPT ![r] = next]
      BY <2>5 DEF Place, Tell, Fail, Drop
    <3>2. next.spliced \in {task[r].spliced, None}
      <4>1. Idle.spliced = None  BY DEF Idle
      <4>2. Goes(task[r], "upstream").spliced = task[r].spliced  BY <2>1 DEF Goes, Task
      <4>3. [task[r] EXCEPT !.pc = "select"].spliced = task[r].spliced  BY <2>1 DEF Task
      <4>4. [task[r] EXCEPT !.gone = TRUE].spliced = task[r].spliced  BY <2>1 DEF Task
      <4> QED BY <3>1, <4>1, <4>2, <4>3, <4>4
    <3> QED BY <2>1, <3>1, <3>2, ClosingRequest
  <2> QED BY <1>5, <2>2, <2>3, <2>4, <2>5
<1> QED BY <1>2, <1>3, <1>4, <1>5

LEMMA NextImplements ==
  ASSUME IInv, [Next]_vars
  PROVE  Promise!Next
BY ChainImplements, RememberImplements, OthersImplement DEF Next, Step

\* Nothing but whole conversations, as they were said, is spliced into a request
\* (TranscriptStore::chain and prepare), whatever is evicted, replaced or restarted.
THEOREM SplicedWhole == Spec => ConversationsWhole
<1>1. IInv /\ [Next]_vars => [Promise!Next]_<<said, [r \in Request |-> task[r].spliced]>>
  BY NextImplements
<1> QED BY InitImplements, Invariance, <1>1, PTL DEF Spec, ConversationsWhole, Promise!Spec

----------------------------------------------------------------------------
(* The running total of the store.  It is exact because every statement that *)
(* takes rows away takes their bytes with them (StoredIsSum and SumWithout); *)
(* that a remember keeps its own turn needs more: that no row alone is too   *)
(* large for the store, and that the rowids order the rows.                  *)

\* order is a strict total order of ids.
Ranked(order, ids) ==
  /\ order \subseteq ids \X ids
  /\ \A i \in ids : <<i, i>> \notin order
  /\ \A i, j \in ids : i = j \/ <<i, j>> \in order \/ <<j, i>> \in order
  /\ \A i, j, k \in ids : <<i, j>> \in order /\ <<j, k>> \in order => <<i, k>> \in order

Fits(table) == \A i \in Known(table) : Size[table[i].text] <= MaxBytes

StoreInv ==
  /\ IsFiniteSet(Known(rows))
  /\ BytesExact
  /\ Fits(rows)
  /\ Ranked(older, Known(rows))

----------------------------------------------------------------------------
(* Bytes of a table. *)

Weight(table) == [i \in Known(table) |-> Size[table[i].text]]

LEMMA WeightAt ==
  ASSUME NEW table, NEW i \in Known(table)
  PROVE  Weight(table)[i] = Size[table[i].text]
BY DEF Weight

LEMMA WeightType ==
  ASSUME NEW table \in [Id -> Row \cup {None}]
  PROVE  \A i \in Known(table) : /\ i \in Id /\ table[i] \in Row
                                 /\ Size[table[i].text] \in Nat \ {0}
                                 /\ Weight(table)[i] = Size[table[i].text]
BY SizeAssumption DEF Known, Row, Weight

\* The fold in StoredBytes is a sum.
LEMMA StoredIsSum ==
  ASSUME NEW table \in [Id -> Row \cup {None}], NEW ids \in SUBSET Known(table), IsFiniteSet(ids)
  PROVE  StoredBytes(table, ids) = Sum(Weight(table), ids)
<1> DEFINE w == [i \in ids |-> Size[table[i].text]]
<1>0. \A i \in ids : Size[table[i].text] \in Nat  BY WeightType
<1>1. PICK f : Sums(f, w, ids)  BY <1>0, SumsExist
<1>2. Sum(Weight(table), ids) = f[ids]
  <2>1. \A i \in ids : Weight(table)[i] = w[i]  BY DEF Weight
  <2> HIDE DEF w
  <2> QED BY <1>1, <2>1, SumIs
<1> DEFINE pick(s) == CHOOSE x \in s : TRUE
           P(g) == g = [s \in SUBSET ids |-> IF s = {} THEN 0
                                     ELSE Size[table[pick(s)].text] + g[s \ {pick(s)}]]
<1>3. \A g : P(g) <=> Folds(g, w, ids)
  <2>1. \A s \in SUBSET ids : s # {} => w[CHOOSE x \in s : TRUE] = Size[table[pick(s)].text]
    <3>1. \A s \in SUBSET ids : s # {} => (CHOOSE x \in s : TRUE) \in ids
      OBVIOUS
    <3> QED BY <3>1
  <2> HIDE DEF w
  <2> QED BY <2>1 DEF Folds
<1>4. P(CHOOSE g : P(g))
  <2>1. P(f)  BY <1>1, <1>3, SumsFold
  <2> HIDE DEF P
  <2> QED BY <2>1
<1>5. (CHOOSE g : P(g)) = f
  <2> HIDE DEF P, w
  <2> QED BY <1>1, <1>3, <1>4, SumsFold
<1>6. StoredBytes(table, ids) = (CHOOSE g : P(g))[ids]
  BY DEF StoredBytes, MapThenSumSet, MapThenFoldSet
<1> QED BY <1>2, <1>5, <1>6

\* All the rows of a table.
Bytes(table) == StoredBytes(table, Known(table))

LEMMA BytesType ==
  ASSUME NEW table \in [Id -> Row \cup {None}], NEW ids \in SUBSET Known(table),
         IsFiniteSet(ids)
  PROVE  StoredBytes(table, ids) \in Nat
<1>1. \A i \in ids : Weight(table)[i] \in Nat  BY WeightType
<1> QED BY <1>1, StoredIsSum, SumType

\* Rows that are taken away take their bytes with them.
LEMMA BytesWithout ==
  ASSUME NEW table \in [Id -> Row \cup {None}], IsFiniteSet(Known(table)),
         NEW gone \in SUBSET Known(table)
  PROVE  /\ Without(table, gone) \in [Id -> Row \cup {None}]
         /\ Known(Without(table, gone)) = Known(table) \ gone
         /\ IsFiniteSet(Known(table) \ gone)
         /\ Bytes(Without(table, gone)) = Less(Bytes(table), StoredBytes(table, gone))
<1> DEFINE rest == Without(table, gone)
           left == Known(table) \ gone
<1>1. rest \in [Id -> Row \cup {None}] /\ Known(rest) = left
      /\ \A i \in left : rest[i] = table[i]
  BY DEF Without, Known
<1>2. IsFiniteSet(left) /\ IsFiniteSet(gone)  BY FS_Subset
<1>3. \A i \in Known(table) : Weight(table)[i] \in Nat  BY WeightType
<1>4. Bytes(rest) = Sum(Weight(rest), left)
  <2> HIDE DEF rest, left
  <2> QED BY <1>1, <1>2, StoredIsSum DEF Bytes
<1>5. Sum(Weight(rest), left) = Sum(Weight(table), left)
  <2>1. \A i \in left : Weight(rest)[i] = Weight(table)[i]
    <3>1. \A i \in left : i \in Known(rest) /\ i \in Known(table)  BY <1>1
    <3> HIDE DEF rest, left
    <3> QED BY <1>1, <3>1 DEF Weight
  <2>2. \A i \in left : Weight(table)[i] \in Nat  BY <1>3
  <2> HIDE DEF rest, left
  <2> QED BY <1>2, <2>1, <2>2, SumSame
<1>6. /\ Sum(Weight(table), left) = Sum(Weight(table), Known(table)) - Sum(Weight(table), gone)
      /\ Sum(Weight(table), left) \in Nat /\ Sum(Weight(table), gone) \in Nat
      /\ Sum(Weight(table), Known(table)) \in Nat
  BY <1>3, SumWithout
<1>7. Bytes(table) = Sum(Weight(table), Known(table)) /\ StoredBytes(table, gone) = Sum(Weight(table), gone)
  BY <1>2, StoredIsSum DEF Bytes
<1> HIDE DEF rest, left
<1>8. Bytes(rest) = Less(Bytes(table), StoredBytes(table, gone))
  BY <1>4, <1>5, <1>6, <1>7 DEF Less
<1> QED BY <1>1, <1>2, <1>8 DEF rest, left

\* Tables whose rows say the same have the same bytes.
LEMMA BytesSame ==
  ASSUME NEW table, NEW other, Known(table) = Known(other),
         table \in [Id -> Row \cup {None}], other \in [Id -> Row \cup {None}],
         IsFiniteSet(Known(table)), \A i \in Known(table) : other[i].text = table[i].text
  PROVE  Bytes(other) = Bytes(table)
<1>1. Weight(other) = Weight(table)  BY DEF Weight
<1> QED BY <1>1, StoredIsSum DEF Bytes

\* What a turn adds, and what it replaces.
LEMMA BytesInsert ==
  ASSUME NEW table, table \in [Id -> Row \cup {None}], IsFiniteSet(Known(table)),
         NEW i \in Id, NEW other, other \in [Id -> Row \cup {None}], other[i] # None,
         \A j \in Id : j # i => other[j] = table[j]
  PROVE  /\ Known(other) = Known(table) \cup {i}
         /\ IsFiniteSet(Known(other))
         /\ Bytes(other) = Bytes(table) + Size[other[i].text]
                             - (IF table[i] = None THEN 0 ELSE Size[table[i].text])
<1> DEFINE rest == Known(table) \ {i}
<1>1. Known(other) = Known(table) \cup {i}
      /\ i \in Known(other) /\ \A j \in rest : other[j] = table[j]
  BY DEF Known
<1>2. IsFiniteSet(Known(other)) /\ IsFiniteSet(rest) /\ IsFiniteSet({i})
  BY <1>1, FS_AddElement, FS_Subset, FS_Singleton
<1>3. \A j \in rest : Weight(other)[j] = Weight(table)[j] /\ Weight(table)[j] \in Nat
  <2>1. \A j \in rest : j \in Known(other) /\ j \in Known(table)  BY <1>1
  <2>2. \A j \in rest : Weight(table)[j] \in Nat  BY WeightType
  <2> HIDE DEF rest
  <2>3. ASSUME NEW j \in rest  PROVE Weight(other)[j] = Weight(table)[j]
    <3>1. other[j] = table[j] /\ j \in Known(other) /\ j \in Known(table)  BY <1>1, <2>1
    <3>2. Weight(other)[j] = Size[other[j].text]  BY ONLY <3>1, WeightAt
    <3>3. Weight(table)[j] = Size[table[j].text]  BY ONLY <3>1, WeightAt
    <3> QED BY ONLY <3>1, <3>2, <3>3
  <2> QED BY <2>2, <2>3
<1>4. Sum(Weight(other), rest) = Sum(Weight(table), rest)
  <2> HIDE DEF rest
  <2> QED BY <1>2, <1>3, SumSame
<1>5. Weight(other)[i] = Size[other[i].text] /\ Size[other[i].text] \in Nat
  BY <1>1, WeightType
<1>6. \A j \in Known(other) : Weight(other)[j] \in Nat  BY <1>1, WeightType
<1>7. Bytes(other) = Sum(Weight(other), rest) + Sum(Weight(other), {i})
  <2>1. Known(other) = rest \cup {i} /\ rest \cap {i} = {}  BY <1>1
  <2>2. Bytes(other) = Sum(Weight(other), Known(other))
    BY <1>1, <1>2, StoredIsSum DEF Bytes
  <2>3. \A j \in rest \cup {i} : Weight(other)[j] \in Nat  BY <1>6, <2>1
  <2> HIDE DEF rest
  <2>4. Sum(Weight(other), rest \cup {i}) = Sum(Weight(other), rest) + Sum(Weight(other), {i})
    BY <1>2, <2>1, <2>3, SumApart
  <2> QED BY <2>1, <2>2, <2>4
<1>8. Sum(Weight(other), {i}) = Size[other[i].text]  BY <1>5, SumOne
<1>9. Bytes(table) = Sum(Weight(table), Known(table)) /\ Bytes(table) \in Nat
  BY StoredIsSum, BytesType DEF Bytes
<1>10. Sum(Weight(table), rest) \in Nat
  <2> HIDE DEF rest
  <2> QED BY <1>2, <1>3, SumType
<1>11. CASE table[i] = None
  <2>1. rest = Known(table)  BY <1>11 DEF Known
  <2> HIDE DEF rest
  <2>2. Bytes(other) = Bytes(table) + Size[other[i].text]
    BY <1>4, <1>7, <1>8, <1>9, <2>1
  <2>3. Bytes(table) + Size[other[i].text] \in Nat /\ Bytes(table) + Size[other[i].text] - 0 = Bytes(table) + Size[other[i].text]
    BY <1>5, <1>9
  <2> QED BY <1>1, <1>2, <1>11, <2>2, <2>3
<1>12. CASE table[i] # None
  <2>1. i \in Known(table)  BY <1>12 DEF Known
  <2>2. Known(table) = rest \cup {i} /\ rest \cap {i} = {}  BY <2>1
  <2>3. Weight(table)[i] = Size[table[i].text] /\ Size[table[i].text] \in Nat
    BY <2>1, WeightType
  <2>4. Sum(Weight(table), {i}) = Size[table[i].text]  BY <2>3, SumOne
  <2>5. \A j \in rest \cup {i} : Weight(table)[j] \in Nat  BY <1>3, <2>3
  <2> HIDE DEF rest
  <2>6. Sum(Weight(table), rest \cup {i}) = Sum(Weight(table), rest) + Sum(Weight(table), {i})
    BY <1>2, <2>2, <2>5, SumApart
  <2>7. Bytes(table) = Sum(Weight(table), rest) + Size[table[i].text]
    BY <1>9, <2>2, <2>4, <2>6
  <2>8. Bytes(other) = Sum(Weight(table), rest) + Size[other[i].text]
    BY <1>4, <1>7, <1>8
  <2>9. Bytes(other) = Bytes(table) + Size[other[i].text] - Size[table[i].text]
    BY <1>5, <1>10, <2>3, <2>7, <2>8
  <2> QED BY <1>1, <1>2, <1>12, <2>9
<1> QED BY <1>11, <1>12

----------------------------------------------------------------------------
(* Eviction. *)

LEMMA RankedAmong ==
  ASSUME NEW order, NEW ids, Ranked(order, ids), NEW some \in SUBSET ids
  PROVE  Ranked(Among(order, some), some)
BY DEF Ranked, Among

\* Whatever eviction takes, and wherever it fails, the total is that of the rows it leaves.
LEMMA EvictExact ==
  ASSUME NEW table, table \in [Id -> Row \cup {None}], IsFiniteSet(Known(table)),
         NEW order, Ranked(order, Known(table)), NEW total, total = Bytes(table),
         NEW at, NEW failed, Evict(table, order, total, at, failed)
  PROVE  /\ \E gone \in SUBSET Known(table) : rows' = Without(table, gone)
         /\ Ranked(older', Known(rows'))
         /\ bytes' = Bytes(rows')
<1> DEFINE old  == Expired(table, at)
           rest == Without(table, old)
           left == Less(total, StoredBytes(table, old))
<1>1. old \in SUBSET Known(table)  BY DEF Expired
<1>2. /\ rest \in [Id -> Row \cup {None}] /\ Known(rest) = Known(table) \ old
      /\ IsFiniteSet(Known(rest)) /\ Bytes(rest) = left
  <2> HIDE DEF old
  <2> QED BY <1>1, BytesWithout
<1>3. ASSUME NEW gone \in Victims(rest, order, left, failed),
             rows' = Without(rest, gone), older' = Among(order, Known(rest) \ gone),
             bytes' = Less(left, StoredBytes(rest, gone))
      PROVE  /\ \E away \in SUBSET Known(table) : rows' = Without(table, away)
             /\ Ranked(older', Known(rows'))
             /\ bytes' = Bytes(rows')
  <2>1. gone \in SUBSET Known(rest)  BY DEF Victims, Oldest
  <2> HIDE DEF left
  <2>2. Known(rows') = Known(rest) \ gone /\ bytes' = Bytes(rows')
    <3> HIDE DEF rest
    <3> QED BY <1>2, <1>3, <2>1, BytesWithout
  <2>3. rows' = Without(table, old \cup gone)
    <3> HIDE DEF old
    <3> QED BY <1>3 DEF Without
  <2>4. old \cup gone \in SUBSET Known(table)  BY <1>1, <1>2, <2>1
  <2>5. Ranked(older', Known(rows'))
    <3> HIDE DEF rest, old
    <3>1. Known(rest) \ gone \in SUBSET Known(table)  BY <1>2
    <3> QED BY <1>3, <2>2, <3>1, RankedAmong
  <2> QED BY <2>2, <2>3, <2>4, <2>5
<1>4. ASSUME rows' = table, older' = order, bytes' = total
      PROVE  /\ \E away \in SUBSET Known(table) : rows' = Without(table, away)
             /\ Ranked(older', Known(rows'))
             /\ bytes' = Bytes(rows')
  <2>1. rows' = Without(table, {})  BY <1>4 DEF Without
  <2> QED BY <1>4, <2>1
<1>5. \/ \E gone \in Victims(rest, order, left, failed) :
           /\ rows' = Without(rest, gone)
           /\ older' = Among(order, Known(rest) \ gone)
           /\ bytes' = Less(left, StoredBytes(rest, gone))
      \/ rows' = table /\ older' = order /\ bytes' = total
  BY DEF Evict
<1> HIDE DEF rest, left
<1> QED BY <1>3, <1>4, <1>5

\* The rowid of a turn that is written comes after all others.
LEMMA InsertRanked ==
  ASSUME NEW order, NEW ids, Ranked(order, ids), NEW i
  PROVE  Ranked(Among(order, ids \ {i}) \cup {<<j, i>> : j \in ids \ {i}}, ids \cup {i})
BY DEF Ranked, Among

----------------------------------------------------------------------------
(* The invariant. *)

LEMMA StoreInit == Init => StoreInv
<1> SUFFICES ASSUME Init PROVE StoreInv
  OBVIOUS
<1>1. Known(rows) = {}  BY DEF Init, Known
<1>2. IsFiniteSet({})  BY FS_EmptySet
<1>3. rows \in [Id -> Row \cup {None}]  BY DEF Init
<1>4. StoredBytes(rows, {}) = Sum(Weight(rows), {})
  BY <1>2, <1>3, StoredIsSum
<1>5. BytesExact  BY <1>1, <1>4, SumEmpty DEF Init, BytesExact
<1>6. Ranked(older, {})  BY DEF Init, Ranked
<1> QED BY <1>1, <1>2, <1>5, <1>6 DEF StoreInv, Fits

\* A step that writes no turn.
LEMMA StoreQuiet ==
  ASSUME IInv, StoreInv, UNCHANGED older, bytes' \in {bytes, Bytes(rows)},
         rows' \in [Id -> Row \cup {None}], Known(rows') = Known(rows),
         \A i \in Known(rows) : rows'[i].text = rows[i].text
  PROVE  StoreInv'
<1>1. rows \in [Id -> Row \cup {None}]  BY DEF IInv, Typed
<1>2. Bytes(rows') = Bytes(rows)
  BY <1>1, BytesSame DEF StoreInv
<1>3. bytes' = Bytes(rows)  BY DEF StoreInv, BytesExact, Bytes
<1>4. BytesExact'  BY <1>2, <1>3 DEF BytesExact, Bytes
<1>5. Fits(rows')  BY DEF StoreInv, Fits
<1> QED BY <1>4, <1>5 DEF StoreInv

\* remember_at: a turn is written, and others make room for it.
LEMMA RememberStore ==
  ASSUME IInv, StoreInv, NEW r \in Request, Remember(r)
  PROVE  StoreInv'
<1> DEFINE turn == [parent |-> task[r].head, sub |-> task[r].sub, text |-> task[r].text]
           i    == task[r].id
<1>1. /\ i \in Id /\ turn \in Turn /\ now \in Nat /\ task[r].since \in Nat
      /\ rows \in [Id -> Row \cup {None}]
  BY DEF IInv, Typed, Remember, Carries, Task, Turn
<1>2. CASE UNCHANGED turns
  <2>1. UNCHANGED <<rows, older, bytes>>  BY <1>2 DEF turns
  <2> QED BY <1>1, <2>1, StoreQuiet
<1>3. ASSUME NEW at \in Stamp(r), NEW failed, Size[turn.text] <= MaxBytes,
             Insert(i, turn, at, failed)
      PROVE  StoreInv'
  <2> DEFINE row   == [parent |-> turn.parent, sub |-> turn.sub, text |-> turn.text, touched |-> at]
             table == [rows EXCEPT ![i] = row]
             rest  == Known(rows) \ {i}
             order == Among(older, rest) \cup {<<j, i>> : j \in rest}
             old   == IF rows[i] = None THEN 0 ELSE Size[rows[i].text]
             total == Replaced(bytes, turn, old)
  <2>1. row \in Row /\ row.text = turn.text
    <3>1. at \in Nat  BY <1>1 DEF Stamp
    <3> QED BY <1>1, <3>1 DEF Row, Turn
  <2>2. row # None  BY <2>1, RowAssumption
  <2>3. /\ table \in [Id -> Row \cup {None}] /\ Known(table) = Known(rows) \cup {i}
        /\ IsFiniteSet(Known(table))
        /\ Bytes(table) = Bytes(rows) + Size[row.text] - old
    <3>1. IsFiniteSet(Known(rows))  BY DEF StoreInv
    <3>2. /\ table \in [Id -> Row \cup {None}] /\ table[i] = row
          /\ \A j \in Id : j # i => table[j] = rows[j]
      BY <1>1, <2>1
    <3> HIDE DEF row, i, table, old
    <3>3. /\ Known(table) = Known(rows) \cup {i}
          /\ IsFiniteSet(Known(table))
          /\ Bytes(table) = Bytes(rows) + Size[table[i].text]
                              - (IF rows[i] = None THEN 0 ELSE Size[rows[i].text])
      BY ONLY <1>1, <2>2, <3>1, <3>2, BytesInsert
    <3> QED BY <3>2, <3>3 DEF old
  <2>4. total = Bytes(table)
    BY <2>1, <2>3 DEF Replaced, StoreInv, BytesExact, Bytes
  <2>5. Ranked(order, Known(table))
    <3>1. Ranked(order, Known(rows) \cup {i})
      <4> HIDE DEF i
      <4> QED BY InsertRanked DEF StoreInv
    <3> HIDE DEF order, table, i
    <3> QED BY <2>3, <3>1
  <2>6. Evict(table, order, total, at, failed)
    BY <1>3 DEF Insert
  <2>7. \A j \in Known(table) : Size[table[j].text] <= MaxBytes
    BY <1>1, <1>3, <2>1, <2>3 DEF StoreInv, Fits, Known
  <2> HIDE DEF table, order, total, row, old, i, turn
  <2>8. /\ \E gone \in SUBSET Known(table) : rows' = Without(table, gone)
        /\ Ranked(older', Known(rows'))
        /\ bytes' = Bytes(rows')
    BY <2>3, <2>4, <2>5, <2>6, EvictExact
  <2>9. PICK gone \in SUBSET Known(table) : rows' = Without(table, gone)  BY <2>8
  <2>10. Known(rows') = Known(table) \ gone /\ IsFiniteSet(Known(rows'))
    BY <2>3, <2>9, BytesWithout
  <2>11. Fits(rows')
    BY <2>7, <2>9, <2>10 DEF Fits, Without, Known
  <2>12. BytesExact'  BY <2>8 DEF BytesExact, Bytes
  <2> QED BY <2>8, <2>10, <2>11, <2>12 DEF StoreInv
<1>4. \/ UNCHANGED turns
      \/ \E at \in Stamp(r), failed \in BOOLEAN :
           Size[turn.text] <= MaxBytes /\ Insert(i, turn, at, failed)
  BY DEF Remember
<1> HIDE DEF turn, i
<1> QED BY <1>2, <1>3, <1>4

LEMMA OthersStore ==
  ASSUME IInv, StoreInv, IInv',
         \/ \E r \in Request :
              \/ NewRequest(r) \/ Chain(r) \/ Placement(r) \/ Select(r) \/ Place(r)
              \/ Fail(r) \/ Terminal(r) \/ Tell(r) \/ Drop(r)
         \/ Tick \/ Restart \/ UNCHANGED vars
  PROVE  StoreInv'
<1>1. rows \in [Id -> Row \cup {None}] /\ rows' \in [Id -> Row \cup {None}]
      /\ task \in [Request -> Task] /\ now \in Nat
  BY DEF IInv, Typed
<1>2. CASE Restart
  BY <1>1, <1>2, StoreQuiet DEF Restart, Reopened, Bytes
<1>3. ASSUME NEW r \in Request, Chain(r)  PROVE StoreInv'
  <2>1. CASE UNCHANGED rows
    BY <1>1, <1>3, <2>1, StoreQuiet DEF Chain
  <2>2. ASSUME NEW w \in Walks(rows, task[r].head), NEW at \in Stamp(r), NEW n \in 0..Len(w),
               Touch(w, n, at)
        PROVE  StoreInv'
    <3>1. task[r].head \in Id  BY <1>3 DEF IInv, Typed, Task, Carries, Chain
    <3>2. w \in Seq(Id)  BY <1>1, <3>1, AssembledType
    <3>3. at \in Nat  BY <1>1 DEF Stamp, Task
    <3>4. \A i \in Id : rows'[i] # None => rows[i] # None /\ rows'[i].text = rows[i].text
      BY <1>1, <2>2, <3>1, <3>2, <3>3, TouchRestamps
    <3>5. \A i \in Id : rows[i] # None => rows'[i] # None
      <4> SUFFICES ASSUME NEW i \in Id, rows[i] # None  PROVE rows'[i] # None
        OBVIOUS
      <4>2. [rows[i] EXCEPT !.touched = at] \in Row  BY <1>1, <3>3 DEF Row
      <4>3. rows'[i] = [rows[i] EXCEPT !.touched = at] \/ rows'[i] = rows[i]
        BY <2>2 DEF Touch
      <4> QED BY <4>2, <4>3, RowAssumption
    <3>6. Known(rows') = Known(rows) /\ \A i \in Known(rows) : rows'[i].text = rows[i].text
      BY <3>4, <3>5 DEF Known
    <3> QED BY <1>1, <1>3, <3>6, StoreQuiet DEF Chain
  <2> QED BY <1>3, <2>1, <2>2 DEF Chain
<1>4. CASE UNCHANGED turns
  <2>1. UNCHANGED <<rows, older, bytes>>  BY <1>4 DEF turns
  <2> QED BY <1>1, <2>1, StoreQuiet
<1> QED BY <1>2, <1>3, <1>4
    DEF NewRequest, Placement, Select, Place, Fail, Terminal, Tell, Drop, Tick, vars

LEMMA StoreNext ==
  ASSUME IInv, StoreInv, [Next]_vars
  PROVE  StoreInv'
BY NextKeeps, RememberStore, OthersStore DEF Next, Step

\* The total kept on the side is the weight of the rows, in every reachable state.
THEOREM StoreInvariance == Spec => [](IInv /\ StoreInv)
<1>1. Init => IInv /\ StoreInv  BY InitHolds, StoreInit
<1>2. IInv /\ StoreInv /\ [Next]_vars => (IInv /\ StoreInv)'  BY NextKeeps, StoreNext
<1> QED BY <1>1, <1>2, PTL DEF Spec

\* The running total that eviction goes by (Inner::bytes) is the bytes of the rows in the
\* table, whatever is replaced, expires, is evicted or fails half-way.
THEOREM TotalIsExact == Spec => []BytesExact
<1>1. IInv /\ StoreInv => BytesExact  BY DEF StoreInv
<1> QED BY <1>1, StoreInvariance, PTL

----------------------------------------------------------------------------
(* What a remember keeps. *)

\* The last of a finite set that is ordered.
LEMMA LastRanked ==
  ASSUME NEW S, IsFiniteSet(S), S # {}, NEW order, Ranked(order, S)
  PROVE  \E z \in S : \A i \in S \ {z} : <<i, z>> \in order
<1> DEFINE F == {s \in SUBSET S : s # {} => \E z \in s : \A i \in s \ {z} : <<i, z>> \in order}
<1>1. {} \in F  OBVIOUS
<1>2. ASSUME NEW s \in F, NEW x \in S  PROVE s \cup {x} \in F
  <2>1. CASE s = {}
    <3>1. \A i \in (s \cup {x}) \ {x} : <<i, x>> \in order  BY <2>1
    <3> QED BY <3>1
  <2>2. CASE s # {}
    <3>1. PICK z \in s : \A i \in s \ {z} : <<i, z>> \in order  BY <2>2
    <3>2. z \in S  OBVIOUS
    <3>3. CASE x = z \/ <<x, z>> \in order
      <4>1. \A i \in (s \cup {x}) \ {z} : <<i, z>> \in order  BY <3>1, <3>3
      <4> QED BY <4>1
    <3>4. CASE x # z /\ <<z, x>> \in order
      <4>1. \A i \in s : <<i, x>> \in order  BY <3>1, <3>2, <3>4 DEF Ranked
      <4>2. \A i \in (s \cup {x}) \ {x} : <<i, x>> \in order  BY <4>1
      <4> QED BY <4>2
    <3> QED BY <3>2, <3>3, <3>4 DEF Ranked
  <2> QED BY <2>1, <2>2
<1>3. F = SUBSET S
  <2>1. F \in SUBSET SUBSET S  OBVIOUS
  <2> HIDE DEF F
  <2> QED BY <1>1, <1>2, <2>1, SubsetInduction
<1> QED BY <1>3

\* Eviction takes every row only if there is none: the last to go fits by itself.
LEMMA VictimsSpare ==
  ASSUME NEW table, table \in [Id -> Row \cup {None}], IsFiniteSet(Known(table)), Fits(table),
         NEW order, NEW ids, Ranked(order, ids), Known(table) \subseteq ids,
         NEW gone, gone \in Victims(table, order, Bytes(table), FALSE)
  PROVE  gone = Known(table) => gone = {}
<1> DEFINE K == Known(table)
           lt == {p \in K \X K : \/ table[p[1]].touched < table[p[2]].touched
                                 \/ table[p[1]].touched = table[p[2]].touched /\ p \in order}
<1> SUFFICES ASSUME gone = K, gone # {}  PROVE FALSE
  OBVIOUS
<1>1. \A i \in K : table[i].touched \in Nat  BY WeightType DEF Row
<1>2. Ranked(lt, K)
  <2>1. lt \subseteq K \X K  OBVIOUS
  <2>2. \A i, j \in K : <<i, j>> \in lt <=>
          \/ table[i].touched < table[j].touched
          \/ table[i].touched = table[j].touched /\ <<i, j>> \in order
    OBVIOUS
  <2> HIDE DEF lt, K
  <2>3. \A i, j \in K : i = j \/ <<i, j>> \in lt \/ <<j, i>> \in lt
    <3>1. \A i, j \in K : i = j \/ <<i, j>> \in order \/ <<j, i>> \in order
      BY DEF Ranked, K
    <3> SUFFICES ASSUME NEW i \in K, NEW j \in K  PROVE i = j \/ <<i, j>> \in lt \/ <<j, i>> \in lt
      OBVIOUS
    <3>2. table[i].touched \in Nat /\ table[j].touched \in Nat  BY <1>1
    <3>3. i = j \/ <<i, j>> \in order \/ <<j, i>> \in order  BY <3>1
    <3>4. /\ <<i, j>> \in lt <=> \/ table[i].touched < table[j].touched
                                 \/ table[i].touched = table[j].touched /\ <<i, j>> \in order
          /\ <<j, i>> \in lt <=> \/ table[j].touched < table[i].touched
                                 \/ table[j].touched = table[i].touched /\ <<j, i>> \in order
      BY <2>2
    <3> QED BY ONLY <3>2, <3>3, <3>4
  <2>4. \A i \in K : <<i, i>> \notin lt
    <3> SUFFICES ASSUME NEW i \in K  PROVE <<i, i>> \notin lt
      OBVIOUS
    <3>1. table[i].touched \in Nat  BY <1>1
    <3>2. <<i, i>> \notin order  BY DEF Ranked, K
    <3>3. <<i, i>> \in lt <=> \/ table[i].touched < table[i].touched
                              \/ table[i].touched = table[i].touched /\ <<i, i>> \in order
      BY <2>2
    <3> QED BY ONLY <3>1, <3>2, <3>3
  <2>5. \A i, j, k \in K : <<i, j>> \in lt /\ <<j, k>> \in lt => <<i, k>> \in lt
    <3>1. \A i \in K : i \in ids  BY DEF K
    <3>2. \A i, j, k \in K : <<i, j>> \in order /\ <<j, k>> \in order => <<i, k>> \in order
      BY <3>1 DEF Ranked
    <3> QED BY <1>1, <2>2, <3>2
  <2> QED BY <2>1, <2>3, <2>4, <2>5 DEF Ranked
<1>3. PICK z \in K : \A i \in K \ {z} : <<i, z>> \in lt
  <2> HIDE DEF lt
  <2> QED BY <1>2, LastRanked
<1> DEFINE fewer == K \ {z}
<1>4. fewer \in Oldest(table, order)
  <2>1. \A i \in fewer : \/ table[i].touched < table[z].touched
                         \/ table[i].touched = table[z].touched /\ <<i, z>> \in order
    BY <1>3
  <2> HIDE DEF lt
  <2> QED BY <2>1 DEF Oldest
<1>5. Less(Bytes(table), StoredBytes(table, fewer)) > MaxBytes
  <2>1. fewer # gone /\ fewer \subseteq gone  OBVIOUS
  <2> HIDE DEF fewer
  <2> QED BY <1>4, <2>1 DEF Victims
<1> DEFINE one == Without(table, fewer)
<1>6. one \in [Id -> Row \cup {None}] /\ Known(one) = K \ fewer
      /\ Bytes(one) = Less(Bytes(table), StoredBytes(table, fewer))
  <2>1. fewer \in SUBSET K  OBVIOUS
  <2> HIDE DEF fewer
  <2> QED BY <2>1, BytesWithout
<1>7. Known(one) = {z} /\ one[z] = table[z]
  <2>1. K \ fewer = {z}  OBVIOUS
  <2>2. one[z] = table[z]  BY DEF Without, Known
  <2> HIDE DEF one, fewer, K
  <2> QED BY <1>6, <2>1, <2>2
<1>8. Bytes(one) = Size[table[z].text] /\ Size[table[z].text] \in Nat
  <2>1. Weight(one)[z] = Size[table[z].text] /\ Size[table[z].text] \in Nat
    <3> HIDE DEF one, K
    <3> QED BY <1>6, <1>7, WeightType
  <2> HIDE DEF one, K
  <2>2. IsFiniteSet({z})  BY FS_Singleton
  <2>3. Bytes(one) = Sum(Weight(one), {z})  BY <1>6, <1>7, <2>2, StoredIsSum DEF Bytes
  <2> QED BY <2>1, <2>3, SumOne
<1>9. Size[table[z].text] <= MaxBytes  BY DEF Fits
<1>10. MaxBytes \in Nat  BY LimitAssumption
<1> QED BY <1>5, <1>6, <1>8, <1>9, <1>10

\* The turn itself, or a younger row that took its place, is there at the end.
LEMMA InsertHolds ==
  ASSUME IInv, StoreInv, StoreInv', NEW i \in Id, NEW turn \in Turn, NEW since \in Nat, NEW at \in Nat,
         since <= at, Size[turn.text] <= MaxBytes, Insert(i, turn, at, FALSE)
  PROVE  /\ Bytes(rows') <= MaxBytes
         /\ rows'[i] # None \/ \E j \in Known(rows') : rows'[j].touched > since
<1> DEFINE row   == [parent |-> turn.parent, sub |-> turn.sub, text |-> turn.text, touched |-> at]
           table == [rows EXCEPT ![i] = row]
           known == Known(rows) \ {i}
           order == Among(older, known) \cup {<<j, i>> : j \in known}
           was   == IF rows[i] = None THEN 0 ELSE Size[rows[i].text]
           total == Replaced(bytes, turn, was)
           old   == Expired(table, at)
           rest  == Without(table, old)
           left  == Less(total, StoredBytes(table, old))
<1>0. rows \in [Id -> Row \cup {None}] /\ MaxBytes \in Nat /\ Ttl \in Nat
  BY LimitAssumption DEF IInv, Typed
<1>1. row \in Row /\ row # None /\ row.text = turn.text /\ row.touched = at
  BY RowAssumption DEF Row, Turn
<1>2. /\ table \in [Id -> Row \cup {None}] /\ table[i] = row
      /\ \A j \in Id : j # i => table[j] = rows[j]
  BY <1>0, <1>1
<1>3. /\ Known(table) = Known(rows) \cup {i}
      /\ IsFiniteSet(Known(table))
      /\ total = Bytes(table)
  <2>1. IsFiniteSet(Known(rows)) /\ bytes = Bytes(rows)  BY DEF StoreInv, BytesExact, Bytes
  <2> HIDE DEF row, table, was
  <2>2. /\ Known(table) = Known(rows) \cup {i}
        /\ IsFiniteSet(Known(table))
        /\ Bytes(table) = Bytes(rows) + Size[table[i].text]
                            - (IF rows[i] = None THEN 0 ELSE Size[rows[i].text])
    BY ONLY <1>0, <1>1, <1>2, <2>1, BytesInsert
  <2> QED BY <1>1, <1>2, <2>1, <2>2 DEF Replaced, was
<1>4. Ranked(order, Known(table))
  <2>1. Ranked(order, Known(rows) \cup {i})  BY InsertRanked DEF StoreInv
  <2> HIDE DEF order, table
  <2> QED BY <1>3, <2>1
<1>5. Fits(table)
  BY <1>1, <1>2, <1>3 DEF StoreInv, Fits, Known
<1>6. old \in SUBSET Known(table) /\ i \notin old
  <2>1. ~ (at < at - Ttl)  BY <1>0
  <2> QED BY <1>1, <1>2, <2>1 DEF Expired
<1>7. /\ rest \in [Id -> Row \cup {None}] /\ Known(rest) = Known(table) \ old
      /\ IsFiniteSet(Known(rest)) /\ Bytes(rest) = left
  <2> HIDE DEF old, table, total
  <2> QED BY <1>2, <1>3, <1>6, BytesWithout
<1>8. rest[i] = row /\ i \in Known(rest)
  BY <1>1, <1>2, <1>3, <1>6, <1>7 DEF Without, Known
<1>9. Fits(rest)
  <2>1. \A j \in Known(rest) : j \in Known(table) /\ rest[j] = table[j]
    BY <1>6, <1>7 DEF Without, Known
  <2> HIDE DEF rest, table
  <2> QED BY <1>5, <2>1 DEF Fits
<1>10. PICK gone \in Victims(rest, order, left, FALSE) : rows' = Without(rest, gone)
                                                         /\ bytes' = Less(left, StoredBytes(rest, gone))
  <2>1. Evict(table, order, total, at, FALSE)  BY DEF Insert
  <2> HIDE DEF table, order, total
  <2> QED BY <2>1 DEF Evict
<1>11. gone \in SUBSET Known(rest) /\ gone \in Oldest(rest, order)
  BY DEF Victims, Oldest
<1>12. gone # Known(rest)
  <2>1. Known(rest) \subseteq Known(table)  BY <1>7
  <2> HIDE DEF rest, order, table, left
  <2> QED BY <1>4, <1>7, <1>8, <1>9, <1>10, <2>1, VictimsSpare
<1>13. Bytes(rows') <= MaxBytes
  <2>1. Less(left, StoredBytes(rest, gone)) <= MaxBytes  BY <1>12 DEF Victims
  <2>2. Bytes(rows') = bytes'  BY DEF StoreInv, BytesExact, Bytes
  <2> QED BY <1>10, <2>1, <2>2
<1>14. CASE i \notin gone
  <2>1. rows'[i] = row  BY <1>8, <1>10, <1>14 DEF Without
  <2> QED BY <1>1, <1>13, <2>1
<1>15. CASE i \in gone
  <2>1. PICK j \in Known(rest) \ gone : TRUE  BY <1>11, <1>12
  <2>2. <<i, j>> \notin order  BY DEF Among
  <2>3. rest[i].touched < rest[j].touched
    <3> HIDE DEF rest, order
    <3> QED BY <1>11, <1>15, <2>1, <2>2 DEF Oldest
  <2>4. rest[j] \in Row  BY <1>7, WeightType, <2>1
  <2>5. rows'[j] = rest[j] /\ j \in Known(rows')
    BY <1>10, <2>1 DEF Without, Known
  <2>6. rest[j].touched \in Nat  BY <2>4 DEF Row
  <2> HIDE DEF rest, row
  <2>7. rows'[j].touched > since  BY <1>1, <1>8, <2>3, <2>5, <2>6
  <2> QED BY <1>13, <2>5, <2>7
<1> QED BY <1>14, <1>15

\* Only a remember is followed by its own telling.
LEMMA RemembersIs ==
  ASSUME IInv, [Next]_vars, NEW r \in Request, Remembers(r)
  PROVE  Remember(r)
<1>1. task \in [Request -> Task]  BY DEF IInv, Typed
<1>2. task[r].pc = "remember" /\ task'[r].pc = "tell" /\ task'[r] # task[r]  BY DEF Remembers
<1>3. ASSUME NEW q \in Request, Step(q)  PROVE Remember(r)
  <2>1. CASE q # r
    <3>1. task'[r] = task[r]
      BY <1>1, <1>3, <2>1
      DEF Step, NewRequest, Chain, Placement, Select, Place, Fail, Terminal, Remember, Tell, Drop
    <3> QED BY <1>2, <3>1
  <2>2. CASE q = r
    <3>1. ~ Drop(r)
      <4>1. [task[r] EXCEPT !.gone = TRUE].pc = "remember" /\ Idle.pc = "idle"
        BY <1>1, <1>2 DEF Idle, Task
      <4>2. Drop(r) => task'[r] \in {[task[r] EXCEPT !.gone = TRUE], Idle}
        BY <1>1, <1>2 DEF Drop
      <4> QED BY <1>2, <4>1, <4>2
    <3> QED BY <1>2, <1>3, <2>2, <3>1
        DEF Step, NewRequest, Chain, Placement, Select, Place, Fail, Terminal, Tell
  <2> QED BY <2>1, <2>2
<1>4. CASE Tick \/ UNCHANGED vars
  BY <1>2, <1>4 DEF Tick, vars
<1>5. CASE Restart
  BY <1>2, <1>5 DEF Restart, Idle
<1> QED BY <1>3, <1>4, <1>5 DEF Next

LEMMA RememberedHolds ==
  ASSUME IInv, StoreInv, StoreInv', NEW r \in Request, Remember(r), Remembers(r)
  PROVE  /\ Bytes(rows') <= MaxBytes
         /\ rows'[task[r].id] # None \/ \E j \in Known(rows') : rows'[j].touched > task[r].since
<1> DEFINE turn == [parent |-> task[r].head, sub |-> task[r].sub, text |-> task[r].text]
           i    == task[r].id
<1>1. /\ i \in Id /\ turn \in Turn /\ now \in Nat /\ task[r].since \in Nat
      /\ task \in [Request -> Task]
  BY DEF IInv, Typed, Remember, Carries, Task, Turn
<1>2. task'[r] # Told(task[r], TRUE)
  <2>1. Told(task[r], TRUE).pc = "tell" => Told(task[r], TRUE).lost
    BY DEF Told, Idle
  <2> QED BY <2>1 DEF Remembers
<1>3. PICK at \in Stamp(r), failed \in BOOLEAN :
        /\ Size[turn.text] <= MaxBytes
        /\ Insert(i, turn, at, failed)
        /\ task' = [task EXCEPT ![r] = Told(task[r], failed)]
  BY <1>1, <1>2 DEF Remember
<1>4. failed = FALSE  BY <1>1, <1>2, <1>3
<1>5. at \in Nat /\ task[r].since <= at  BY <1>1 DEF Stamp
<1> HIDE DEF turn, i
<1>6. /\ Bytes(rows') <= MaxBytes
      /\ rows'[i] # None \/ \E j \in Known(rows') : rows'[j].touched > task[r].since
  BY <1>1, <1>3, <1>4, <1>5, InsertHolds
<1> QED BY <1>6 DEF i

\* A remember that succeeds leaves the store within max_bytes, and its own turn in it
\* unless a row that was stamped later took its place (remember_at and evict).
THEOREM RememberKeepsTurn == Spec => RememberHolds
<1>1. IInv /\ StoreInv /\ [Next]_vars =>
        [\A r \in Request :
           Remembers(r) =>
             /\ StoredBytes(rows', Known(rows')) <= MaxBytes
             /\ \/ rows'[task[r].id] # None
                \/ \E j \in Known(rows') : rows'[j].touched > task[r].since]_vars
  BY RemembersIs, RememberedHolds, StoreNext DEF Bytes
<1> QED BY <1>1, StoreInvariance, PTL DEF Spec, RememberHolds
=============================================================================
