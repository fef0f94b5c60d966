---------------------------- MODULE MetricsProofs ----------------------------
(***************************************************************************)
(* Theorems about the counters of Metrics, as Parts has them: that a gauge *)
(* is the attempts at work, and that an hour's tokens are those posted in  *)
(* it.                                                                     *)
(***************************************************************************)
EXTENDS Parts, Sums

Tokens == [at : Nat, n : Nat]
Counters == [inFlight : Nat, ticks : Seq(Tokens)]
Posts == [at : Nat, n : Nat, to : SUBSET (M!Population \X Nat)]

----------------------------------------------------------------------------
(* The operators. *)

LEMMA MetricsCardinality == \A S : M!Cardinality(S) = Cardinality(S)
BY DEF M!Cardinality, Cardinality

\* SetToSeq lists a finite set, each element once.
LEMMA Listed ==
  ASSUME NEW S, IsFiniteSet(S)
  PROVE  /\ M!SetToSeq(S) \in [1..Cardinality(S) -> S]
         /\ \A x \in S : \E i \in 1..Cardinality(S) : M!SetToSeq(S)[i] = x
         /\ \A i, j \in 1..Cardinality(S) : M!SetToSeq(S)[i] = M!SetToSeq(S)[j] => i = j
         /\ Cardinality(S) \in Nat
<1>1. M!SetToSeq(S) = ListOf(S)
  BY MetricsCardinality DEF M!SetToSeq, M!IsInjective, ListOf
<1> QED BY <1>1, Listing

\* What is recent of a ring: the same ticks, in their order.
LEMMA RecentIs ==
  ASSUME NEW ticks \in Seq(Tokens), NEW moment \in Nat
  PROVE  M!Recent(ticks, moment) = Selected(ticks, {x \in Tokens : x.at + Hour > moment})
<1> DEFINE good == {x \in Tokens : x.at + Hour > moment}
           recent == {x \in M!ToSet(ticks) : x.at + Hour > moment}
<1>1. M!Recent(ticks, moment) = Selected(ticks, recent)
  BY DEF M!Recent, M!Selected, Selected
<1>2. \A i \in 1..Len(ticks) : ticks[i] \in recent <=> ticks[i] \in good
  BY DEF M!ToSet
<1> HIDE DEF good, recent
<1>3. Selected(ticks, recent) = Selected(ticks, good)
  BY <1>2, SelectedSame
<1> QED BY <1>1, <1>3 DEF good

\* The ticks of a ring, once the old ones are gone.
LEMMA RecentHolds ==
  ASSUME NEW ticks \in Seq(Tokens), NEW moment \in Nat, NEW recent, recent = M!Recent(ticks, moment)
  PROVE  /\ recent \in Seq(Tokens)
         /\ \A x \in Tokens : (\E j \in 1..Len(recent) : recent[j] = x)
                              <=> x.at + Hour > moment /\ \E i \in 1..Len(ticks) : ticks[i] = x
         /\ (\A i, j \in 1..Len(ticks) : ticks[i] = ticks[j] => i = j) =>
              \A i, j \in 1..Len(recent) : recent[i] = recent[j] => i = j
<1> DEFINE good == {x \in Tokens : x.at + Hour > moment}
<1>1. recent = Selected(ticks, good)  BY RecentIs
<1>2. \A x \in Tokens : x \in good <=> x.at + Hour > moment  OBVIOUS
<1> HIDE DEF good
<1>3. recent \in Seq(Tokens)  BY <1>1, SelectedType
<1>4. \A x \in Tokens : (\E j \in 1..Len(recent) : recent[j] = x)
                         <=> x \in good /\ \E i \in 1..Len(ticks) : ticks[i] = x
  BY <1>1, SelectedAmong
<1>5. (\A i, j \in 1..Len(ticks) : ticks[i] = ticks[j] => i = j) =>
         \A i, j \in 1..Len(recent) : recent[i] = recent[j] => i = j
  BY <1>1, SelectedOnce
<1> QED BY <1>2, <1>3, <1>4, <1>5

\* The fold over what is live adds the tokens up.
LEMMA TicksFold ==
  ASSUME NEW s \in Seq(Tokens)
  PROVE  M!FoldSeq(LAMBDA tick, sum : sum + tick.n, 0, s) = Sum([i \in 1..Len(s) |-> s[i].n], 1..Len(s))
<1> DEFINE S == 1..Len(s)
           w == [i \in S |-> s[i].n]
           Adds(g) == g = [t \in SUBSET S |-> IF t = {} THEN 0
                             ELSE g[t \ {Some(t)}] + s[Some(t)].n]
           g == CHOOSE h : Adds(h)
<1>0. Len(s) \in Nat /\ DOMAIN s = S  OBVIOUS
<1>1. M!FoldSeq(LAMBDA tick, sum : sum + tick.n, 0, s) = g[S]
  BY <1>0 DEF M!FoldSeq, M!FoldFunction, M!FoldFunctionOnSet, M!MapThenFoldSet, Some
<1>2. IsFiniteSet(S)  BY <1>0, FS_Interval
<1>3. w \in [S -> Nat] /\ \A i \in S : s[i].n \in Nat /\ w[i] = s[i].n
  <2>1. \A i \in S : s[i] \in Tokens  BY ElementOfSeq
  <2> QED BY <2>1 DEF Tokens
<1>4. \A t \in SUBSET S : t # {} => Some(t) \in S /\ t \ {Some(t)} \in SUBSET S
  BY DEF Some
<1> HIDE DEF S, w
<1>5. \E h : Adds(h)
  <2>1. PICK h : Sums(h, w, S)  BY <1>2, <1>3, SumsExist
  <2>2. ASSUME NEW t \in SUBSET S
        PROVE  h[t] = IF t = {} THEN 0 ELSE h[t \ {Some(t)}] + s[Some(t)].n
    <3>1. CASE t = {}  BY <2>1, <3>1 DEF Sums
    <3>2. CASE t # {}
      <4>1. Some(t) \in S /\ h[t \ {Some(t)}] \in Nat  BY <1>4, <2>1, <3>2 DEF Sums
      <4>2. h[t] = w[Some(t)] + h[t \ {Some(t)}]  BY <2>1, <3>2 DEF Sums, Some
      <4> QED BY <1>3, <3>2, <4>1, <4>2
    <3> QED BY <3>1, <3>2
  <2>3. h = [t \in SUBSET S |-> h[t]]  BY <2>1 DEF Sums
  <2> QED BY <2>2, <2>3, Zenon
<1>6. Adds(g)  BY <1>5
<1> HIDE DEF g
<1>7. \A t \in SUBSET S :
        g[t] = IF t = {} THEN 0 ELSE g[t \ {Some(t)}] + s[Some(t)].n
  BY <1>6, Zenon
<1>8. g[{}] = 0
  BY <1>7
<1>9. ASSUME NEW t \in SUBSET S, t # {}, g[t \ {Some(t)}] \in Nat
      PROVE  g[t] = w[Some(t)] + g[t \ {Some(t)}]
  <2>1. Some(t) \in S  BY <1>4, <1>9
  <2> DEFINE rest == g[t \ {Some(t)}]
             i == Some(t)
  <2>2. g[t] = rest + s[i].n  BY <1>7, <1>9
  <2>3. rest \in Nat /\ i \in S  BY <1>9, <2>1
  <2> HIDE DEF rest, i
  <2>4. g[t] = w[i] + rest  BY <1>3, <2>2, <2>3
  <2> QED BY <2>4 DEF rest, i
<1>10. g[S] = Sum(w, S)  BY <1>2, <1>3, <1>8, <1>9, FoldIsSum
<1> QED BY <1>1, <1>10 DEF w, S

\* So does the fold over the posts, of those to who that moment still finds in the hour.
LEMMA PostsFold ==
  ASSUME NEW s \in Seq(Posts), NEW who, NEW moment
  PROVE  M!FoldSeq(LAMBDA post, sum :
                     IF who \in post.to /\ post.at + Hour > moment THEN sum + post.n ELSE sum, 0, s)
           = Sum([i \in 1..Len(s) |->
                    IF who \in s[i].to /\ s[i].at + Hour > moment THEN s[i].n ELSE 0], 1..Len(s))
<1> DEFINE S == 1..Len(s)
           test(post) == who \in post.to /\ post.at + Hour > moment
           w == [i \in S |-> IF test(s[i]) THEN s[i].n ELSE 0]
           Adds(g) == g = [t \in SUBSET S |-> IF t = {} THEN 0
                             ELSE IF test(s[Some(t)])
                                  THEN g[t \ {Some(t)}] + s[Some(t)].n
                                  ELSE g[t \ {Some(t)}]]
           g == CHOOSE h : Adds(h)
<1>0. Len(s) \in Nat /\ DOMAIN s = S  OBVIOUS
<1>1. M!FoldSeq(LAMBDA post, sum :
                  IF who \in post.to /\ post.at + Hour > moment THEN sum + post.n ELSE sum, 0, s) = g[S]
  BY <1>0 DEF M!FoldSeq, M!FoldFunction, M!FoldFunctionOnSet, M!MapThenFoldSet, Some
<1>2. IsFiniteSet(S)  BY <1>0, FS_Interval
<1>3. w \in [S -> Nat] /\ \A i \in S : s[i].n \in Nat /\ w[i] = IF test(s[i]) THEN s[i].n ELSE 0
  <2>1. \A i \in S : s[i] \in Posts  BY ElementOfSeq
  <2> QED BY <2>1 DEF Posts
<1>4. \A t \in SUBSET S : t # {} => Some(t) \in S /\ t \ {Some(t)} \in SUBSET S
  BY DEF Some
<1> HIDE DEF S, w, test
<1>5. \E h : Adds(h)
  <2>1. PICK h : Sums(h, w, S)  BY <1>2, <1>3, SumsExist
  <2>2. ASSUME NEW t \in SUBSET S
        PROVE  h[t] = IF t = {} THEN 0
                 ELSE IF test(s[Some(t)])
                      THEN h[t \ {Some(t)}] + s[Some(t)].n
                      ELSE h[t \ {Some(t)}]
    <3>1. CASE t = {}  BY <2>1, <3>1 DEF Sums
    <3>2. CASE t # {}
      <4>1. Some(t) \in S /\ h[t \ {Some(t)}] \in Nat  BY <1>4, <2>1, <3>2 DEF Sums
      <4>2. h[t] = w[Some(t)] + h[t \ {Some(t)}]  BY <2>1, <3>2 DEF Sums, Some
      <4> QED BY <1>3, <3>2, <4>1, <4>2
    <3> QED BY <3>1, <3>2
  <2>3. h = [t \in SUBSET S |-> h[t]]  BY <2>1 DEF Sums
  <2> QED BY <2>2, <2>3, Zenon
<1>6. Adds(g)  BY <1>5
<1> HIDE DEF g
<1>7. \A t \in SUBSET S :
        g[t] = IF t = {} THEN 0
               ELSE IF test(s[Some(t)])
                    THEN g[t \ {Some(t)}] + s[Some(t)].n
                    ELSE g[t \ {Some(t)}]
  BY <1>6, Zenon
<1>8. g[{}] = 0
  BY <1>7
<1>9. ASSUME NEW t \in SUBSET S, t # {}, g[t \ {Some(t)}] \in Nat
      PROVE  g[t] = w[Some(t)] + g[t \ {Some(t)}]
  <2>1. Some(t) \in S  BY <1>4, <1>9
  <2> DEFINE rest == g[t \ {Some(t)}]
             i == Some(t)
  <2>2. g[t] = IF test(s[i]) THEN rest + s[i].n ELSE rest  BY <1>7, <1>9
  <2>3. rest \in Nat /\ i \in S  BY <1>9, <2>1
  <2> HIDE DEF rest, i
  <2>4. g[t] = w[i] + rest  BY <1>3, <2>2, <2>3
  <2> QED BY <2>4 DEF rest, i
<1>10. g[S] = Sum(w, S)  BY <1>2, <1>3, <1>8, <1>9, FoldIsSum
<1> QED BY <1>1, <1>10 DEF w, S, test

\* A ring that has room takes the tick after what is recent of it.
LEMMA PushedIs ==
  ASSUME NEW ticks \in Seq(Tokens), NEW tick \in Tokens, NEW recent, recent = M!Recent(ticks, tick.at)
  PROVE  /\ M!Pushed(ticks, tick) \in Seq(Tokens)
         /\ Len(recent) + 1 <= MaxTicks => M!Pushed(ticks, tick) = Append(recent, tick)
<1> DEFINE all == Append(recent, tick)
           first == 1 + (IF Len(all) > MaxTicks THEN Len(all) - MaxTicks ELSE 0)
<1>1. tick.at \in Nat  BY DEF Tokens
<1>2. recent \in Seq(Tokens)  BY <1>1, RecentHolds
<1>3. all \in Seq(Tokens) /\ Len(all) = Len(recent) + 1 /\ Len(all) \in Nat /\ MaxTicks \in Nat
  BY <1>2, AppendProperties, AttemptAssumption
<1>4. M!Pushed(ticks, tick) = SubSeq(all, first, Len(all))  BY DEF M!Pushed
<1> HIDE DEF all
<1>5. first \in Int /\ Len(all) \in Int /\ 1 <= first  BY <1>3
<1>6. \A i \in first..Len(all) : all[i] \in Tokens
  <2>1. \A i \in first..Len(all) : i \in 1..Len(all)  BY <1>5
  <2> QED BY <1>3, <2>1, ElementOfSeq
<1>7. SubSeq(all, first, Len(all)) \in Seq(Tokens)
  <2> HIDE DEF first
  <2> QED BY <1>5, <1>6, SubSeqProperties
<1>8. ASSUME Len(recent) + 1 <= MaxTicks  PROVE M!Pushed(ticks, tick) = all
  <2>1. first = 1  BY <1>3, <1>8
  <2>2. SubSeq(all, 1, Len(all)) = all  BY <1>3, SubSeqFull
  <2> QED BY <1>4, <2>1, <2>2
<1> QED BY <1>4, <1>7, <1>8 DEF all

\* Populations that have no counters get new ones, each its own, and nothing else changes.
LEMMA EnteredIs ==
  ASSUME NEW h \in Seq(Counters), NEW t \in [M!Population -> 0..Len(h)],
         \A p, q \in M!Population : t[p] = t[q] /\ t[p] # 0 => p = q,
         NEW ps \in SUBSET M!Population, IsFiniteSet(ps),
         NEW new, new = M!Entered(t, h, ps)
  PROVE  /\ new.heap \in Seq(Counters) /\ Len(h) <= Len(new.heap)
         /\ \A i \in 1..Len(h) : new.heap[i] = h[i]
         /\ \A i \in 1..Len(new.heap) : i > Len(h) => new.heap[i] = M!Fresh
         /\ new.table \in [M!Population -> 0..Len(new.heap)]
         /\ \A p, q \in M!Population : new.table[p] = new.table[q] /\ new.table[p] # 0 => p = q
         /\ \A p \in M!Population : IF p \in ps /\ t[p] = 0 THEN new.table[p] > Len(h)
                                                            ELSE new.table[p] = t[p]
<1> DEFINE Missing == {p \in ps : t[p] = 0}
           n == Cardinality(Missing)
           missing == M!SetToSeq(Missing)
           place(p) == CHOOSE i \in DOMAIN missing : missing[i] = p
           more == [i \in 1..n |-> M!Fresh]
<1>1. IsFiniteSet(Missing)  BY FS_Subset
<1>2. /\ missing \in [1..n -> Missing] /\ n \in Nat
      /\ \A p \in Missing : \E i \in 1..n : missing[i] = p
  BY <1>1, Listed
<1>3. new = [table |-> [p \in M!Population |-> IF p \in ps /\ t[p] = 0 THEN Len(h) + place(p) ELSE t[p]],
             heap |-> h \o [i \in DOMAIN missing |-> M!Fresh]]
  BY DEF M!Entered
<1>4. DOMAIN missing = 1..n  BY <1>2
<1>5. \A p \in Missing : place(p) \in 1..n /\ missing[place(p)] = p
  BY <1>2, <1>4
<1>6. M!Fresh \in Counters
  BY EmptySeq DEF M!Fresh, Counters
<1>7. more \in Seq(Counters) /\ Len(more) = n
  BY <1>2, <1>6
<1>8. new.heap = h \o more
  <2>1. [i \in DOMAIN missing |-> M!Fresh] = more  BY <1>4
  <2>2. new.heap = h \o [i \in DOMAIN missing |-> M!Fresh]  BY <1>3
  <2> QED BY <2>1, <2>2, Zenon
<1>9. \A i \in 1..n : more[i] = M!Fresh  OBVIOUS
<1>10. \A p \in M!Population :
         new.table[p] = IF p \in Missing THEN Len(h) + place(p) ELSE t[p]
  BY <1>3
<1>11. DOMAIN new.table = M!Population  BY <1>3
<1>12. Len(h) \in Nat  BY LenProperties
<1> HIDE DEF more, missing, n, place
<1>13. /\ h \o more \in Seq(Counters) /\ Len(h \o more) = Len(h) + n
       /\ \A i \in 1..(Len(h) + n) : (h \o more)[i] = IF i <= Len(h) THEN h[i] ELSE more[i - Len(h)]
  BY <1>7, ConcatProperties
<1>14. \A i \in 1..Len(h) : new.heap[i] = h[i]
  BY <1>2, <1>8, <1>12, <1>13
<1>15. \A i \in 1..Len(new.heap) : i > Len(h) => new.heap[i] = M!Fresh
  <2>1. ASSUME NEW i \in 1..(Len(h) + n), i > Len(h)  PROVE (h \o more)[i] = M!Fresh
    <3>1. i - Len(h) \in 1..n /\ ~ (i <= Len(h))  BY <1>2, <1>12, <2>1
    <3> QED BY <1>9, <1>13, <2>1, <3>1
  <2> QED BY <1>8, <1>13, <2>1
<1>16. ASSUME NEW p \in M!Population  PROVE new.table[p] \in 0..(Len(h) + n)
  <2>1. CASE p \in Missing
    <3>1. new.table[p] = Len(h) + place(p) /\ place(p) \in 1..n  BY <1>5, <1>10, <2>1
    <3> QED BY <1>2, <1>12, <3>1
  <2>2. CASE p \notin Missing
    <3>1. new.table[p] = t[p] /\ t[p] \in 0..Len(h)  BY <1>10, <2>2
    <3> QED BY <1>2, <1>12, <3>1
  <2> QED BY <2>1, <2>2
<1>17. ASSUME NEW p \in M!Population, NEW q \in M!Population, new.table[p] = new.table[q], new.table[p] # 0
       PROVE  p = q
  <2>1. CASE p \in Missing /\ q \in Missing
    <3>1. place(p) = place(q)  BY <1>2, <1>5, <1>10, <1>12, <1>17, <2>1
    <3> QED BY <1>5, <2>1, <3>1
  <2>2. CASE p \notin Missing /\ q \notin Missing  BY <1>10, <1>17, <2>2
  <2>3. CASE p \in Missing /\ q \notin Missing
    <3>1. new.table[p] > Len(h)  BY <1>2, <1>5, <1>10, <1>12, <2>3
    <3>2. new.table[q] <= Len(h)  BY <1>10, <1>12, <2>3
    <3> QED BY <1>12, <1>16, <1>17, <3>1, <3>2
  <2>4. CASE p \notin Missing /\ q \in Missing
    <3>1. new.table[q] > Len(h)  BY <1>2, <1>5, <1>10, <1>12, <2>4
    <3>2. new.table[p] <= Len(h)  BY <1>10, <1>12, <2>4
    <3> QED BY <1>12, <1>16, <1>17, <3>1, <3>2
  <2> QED BY <2>1, <2>2, <2>3, <2>4
<1>18. \A p \in M!Population : IF p \in ps /\ t[p] = 0 THEN new.table[p] > Len(h)
                                                      ELSE new.table[p] = t[p]
  BY <1>2, <1>5, <1>10, <1>12
<1>19. new.table \in [M!Population -> 0..Len(new.heap)]
  <2>1. new.table = [p \in M!Population |-> IF p \in ps /\ t[p] = 0 THEN Len(h) + place(p) ELSE t[p]]
    BY <1>3
  <2>2. \A p \in M!Population : new.table[p] \in 0..Len(new.heap)  BY <1>8, <1>13, <1>16
  <2> QED BY <1>11, <2>1, <2>2
<1> QED BY <1>2, <1>8, <1>12, <1>13, <1>14, <1>15, <1>17, <1>18, <1>19

----------------------------------------------------------------------------
(* The inductive invariant, of a table t and the counters h. *)

Working == {a \in Tried : guards[a] # None}

\* The attempts whose guards hold the counters at place i.
Holding(i) == {a \in Working : guards[a].counted /\ i \in guards[a].held}

\* The guard holds p's counters: those it has, unless p is a sub that was forgotten since.
Belongs(g, p) == p = g.pool \/ (p = g.sub /\ g.epoch = M!Epoch(p))

\* The posts to p since it was last forgotten.
Due(p) == {k \in 1..Len(posts) : <<p, M!Epoch(p)>> \in posts[k].to}

Counting ==
  /\ time \in Nat /\ epoch \in [Sub -> Nat] /\ posts \in Seq(Posts)
  /\ guards \in [Tried -> M!Attempts \cup {None}]

\* No two populations share counters.
Placed(t, h) ==
  /\ h \in Seq(Counters)
  /\ t \in [M!Population -> 0..Len(h)]
  /\ \A p, q \in M!Population : t[p] = t[q] /\ t[p] # 0 => p = q

\* A guard holds the counters of the populations it belongs to, and of no other in the table.
Guarded(t, h) ==
  \A a \in Working :
    /\ guards[a].held \in SUBSET (1..Len(h))
    /\ guards[a].epoch <= epoch[guards[a].sub]
    /\ \A p \in M!Population : Belongs(guards[a], p) <=> t[p] \in guards[a].held

\* Counters in the table or out of it count the guards that hold them.
Gauged(h) == \A i \in 1..Len(h) : h[i].inFlight = Cardinality(Holding(i))

\* The posts are numbered, none is ahead of the clock or of its account's removals.
Numbered ==
  \A k \in 1..Len(posts) :
    /\ posts[k].n = k /\ posts[k].at <= time
    /\ \A x \in posts[k].to : x[1] \in Sub => x[2] <= epoch[x[1]]

\* A ring holds posts to its population, once, and every one of the hour.
Holds(ring, p) ==
  /\ \A i, j \in 1..Len(ring) : ring[i] = ring[j] => i = j
  /\ \A i \in 1..Len(ring) : ring[i].n \in Due(p) /\ ring[i].at = posts[ring[i].n].at
  /\ \A k \in Due(p) : posts[k].at + Hour > time =>
       \E i \in 1..Len(ring) : ring[i] = [at |-> posts[k].at, n |-> k]

Ringed(t, h, p) == IF t[p] = 0 THEN Due(p) = {} ELSE Holds(h[t[p]].ticks, p)

\* As long as there is room for all.
Kept(t, h) == Len(posts) <= MaxTicks => \A p \in M!Population : Ringed(t, h, p)

MetricsInv ==
  /\ Counting /\ Numbered
  /\ Placed(table, heap) /\ Guarded(table, heap) /\ Gauged(heap) /\ Kept(table, heap)

LEMMA GuardsAreAttempts ==
  ASSUME Counting, NEW a \in Working
  PROVE  /\ guards[a] \in M!Attempts /\ a \in Tried
         /\ guards[a].sub \in Sub /\ guards[a].pool \in Pool \cup {None}
         /\ guards[a].held \in SUBSET Nat /\ guards[a].epoch \in Nat /\ guards[a].counted \in BOOLEAN
<1>1. guards[a] \in M!Attempts  BY DEF Counting, Working
<1> QED BY <1>1 DEF M!Attempts, Working

LEMMA PostsAre ==
  ASSUME Counting
  PROVE  /\ Len(posts) \in Nat
         /\ \A k \in 1..Len(posts) : posts[k] \in Posts /\ posts[k].at \in Nat /\ posts[k].n \in Nat
                                     /\ posts[k].to \in SUBSET (M!Population \X Nat)
<1>1. Len(posts) \in Nat /\ \A k \in 1..Len(posts) : posts[k] \in Posts
  BY LenProperties, ElementOfSeq DEF Counting
<1> QED BY <1>1 DEF Posts

LEMMA CountersAre ==
  ASSUME NEW h \in Seq(Counters)
  PROVE  /\ Len(h) \in Nat /\ DOMAIN h = 1..Len(h)
         /\ \A i \in 1..Len(h) : h[i] \in Counters /\ h[i].inFlight \in Nat /\ h[i].ticks \in Seq(Tokens)
<1>1. Len(h) \in Nat /\ DOMAIN h = 1..Len(h) /\ \A i \in 1..Len(h) : h[i] \in Counters
  BY LenProperties, ElementOfSeq
<1> QED BY <1>1 DEF Counters

LEMMA GaugeChanges ==
  ASSUME NEW c \in Counters, NEW n \in Nat, NEW d, d = [c EXCEPT !.inFlight = n]
  PROVE  d \in Counters /\ d.inFlight = n /\ d.ticks = c.ticks
BY DEF Counters

LEMMA RingChanges ==
  ASSUME NEW c \in Counters, NEW ring \in Seq(Tokens), NEW d, d = [c EXCEPT !.ticks = ring]
  PROVE  d \in Counters /\ d.inFlight = c.inFlight /\ d.ticks = ring
BY DEF Counters

LEMMA HoldingIsFinite ==
  \A i : Holding(i) \in SUBSET Tried /\ IsFiniteSet(Holding(i)) /\ Cardinality(Holding(i)) \in Nat
BY FS_Subset, FS_CardinalityType, AttemptAssumption DEF Holding, Working

\* Making counters for some of the populations disturbs nothing.
LEMMA EnteredKeeps ==
  ASSUME MetricsInv, NEW ps \in SUBSET M!Population, IsFiniteSet(ps),
         NEW new, new = M!Entered(table, heap, ps)
  PROVE  /\ Placed(new.table, new.heap) /\ Guarded(new.table, new.heap)
         /\ Gauged(new.heap) /\ Kept(new.table, new.heap)
         /\ Len(heap) <= Len(new.heap)
         /\ \A p \in ps : new.table[p] \in 1..Len(new.heap)
<1>1. /\ heap \in Seq(Counters) /\ table \in [M!Population -> 0..Len(heap)]
      /\ \A p, q \in M!Population : table[p] = table[q] /\ table[p] # 0 => p = q
  BY DEF MetricsInv, Placed
<1>2. /\ new.heap \in Seq(Counters) /\ Len(heap) <= Len(new.heap)
      /\ \A i \in 1..Len(heap) : new.heap[i] = heap[i]
      /\ \A i \in 1..Len(new.heap) : i > Len(heap) => new.heap[i] = M!Fresh
      /\ new.table \in [M!Population -> 0..Len(new.heap)]
      /\ \A p, q \in M!Population : new.table[p] = new.table[q] /\ new.table[p] # 0 => p = q
      /\ \A p \in M!Population : IF p \in ps /\ table[p] = 0 THEN new.table[p] > Len(heap)
                                                            ELSE new.table[p] = table[p]
  BY <1>1, EnteredIs
<1>3. Len(heap) \in Nat /\ Len(new.heap) \in Nat  BY <1>1, <1>2, CountersAre
<1>4. Placed(new.table, new.heap)  BY <1>2 DEF Placed
<1>5. Guarded(new.table, new.heap)
  <2> SUFFICES ASSUME NEW a \in Working
               PROVE  /\ guards[a].held \in SUBSET (1..Len(new.heap))
                      /\ guards[a].epoch <= epoch[guards[a].sub]
                      /\ \A p \in M!Population : Belongs(guards[a], p) <=> new.table[p] \in guards[a].held
    BY DEF Guarded
  <2>1. /\ guards[a].held \in SUBSET (1..Len(heap))
        /\ guards[a].epoch <= epoch[guards[a].sub]
        /\ \A p \in M!Population : Belongs(guards[a], p) <=> table[p] \in guards[a].held
    BY DEF MetricsInv, Guarded
  <2>2. guards[a].held \in SUBSET (1..Len(new.heap))  BY <1>2, <1>3, <2>1
  <2>3. ASSUME NEW p \in M!Population
        PROVE  new.table[p] \in guards[a].held <=> table[p] \in guards[a].held
    <3>1. CASE p \in ps /\ table[p] = 0
      <4>1. new.table[p] > Len(heap)  BY <1>2, <3>1
      <4>2. new.table[p] \in 0..Len(new.heap)  BY <1>2
      <4>3. new.table[p] \notin 1..Len(heap) /\ table[p] \notin 1..Len(heap)  BY <1>3, <3>1, <4>1, <4>2
      <4> QED BY <2>1, <4>3
    <3>2. CASE ~ (p \in ps /\ table[p] = 0)  BY <1>2, <3>2
    <3> QED BY <3>1, <3>2
  <2> QED BY <2>1, <2>2, <2>3
<1>6. Gauged(new.heap)
  <2> SUFFICES ASSUME NEW i \in 1..Len(new.heap)
               PROVE  new.heap[i].inFlight = Cardinality(Holding(i))
    BY DEF Gauged
  <2>1. CASE i \in 1..Len(heap)  BY <1>2, <2>1 DEF MetricsInv, Gauged
  <2>2. CASE i \notin 1..Len(heap)
    <3>1. i > Len(heap)  BY <1>3, <2>2
    <3>2. new.heap[i].inFlight = 0  BY <1>2, <3>1 DEF M!Fresh
    <3>3. Holding(i) = {}  BY <2>2 DEF Holding, MetricsInv, Guarded
    <3> QED BY <3>2, <3>3, FS_EmptySet
  <2> QED BY <2>1, <2>2
<1>7. Kept(new.table, new.heap)
  <2> SUFFICES ASSUME Len(posts) <= MaxTicks, NEW p \in M!Population
               PROVE  Ringed(new.table, new.heap, p)
    BY DEF Kept
  <2>1. Ringed(table, heap, p)  BY DEF MetricsInv, Kept
  <2>2. CASE p \in ps /\ table[p] = 0
    <3>1. new.table[p] > Len(heap) /\ new.table[p] \in 0..Len(new.heap)  BY <1>2, <2>2
    <3>2. new.table[p] \in 1..Len(new.heap) /\ new.table[p] # 0  BY <1>3, <3>1
    <3>3. new.heap[new.table[p]].ticks = <<>>  BY <1>2, <3>1, <3>2 DEF M!Fresh
    <3>4. Due(p) = {}  BY <2>1, <2>2 DEF Ringed
    <3>5. Holds(<<>>, p)  BY <3>4 DEF Holds
    <3> QED BY <3>2, <3>3, <3>5 DEF Ringed
  <2>3. CASE ~ (p \in ps /\ table[p] = 0)
    <3>1. new.table[p] = table[p] /\ table[p] \in 0..Len(heap)  BY <1>1, <1>2, <2>3
    <3>2. table[p] # 0 => new.heap[table[p]] = heap[table[p]]
      <4>1. table[p] # 0 => table[p] \in 1..Len(heap)  BY <1>3, <3>1
      <4> QED BY <1>2, <4>1
    <3> QED BY <2>1, <3>1, <3>2 DEF Ringed
  <2> QED BY <2>2, <2>3
<1>8. ASSUME NEW p \in ps  PROVE new.table[p] \in 1..Len(new.heap)
  <2>1. p \in M!Population  OBVIOUS
  <2>2. new.table[p] \in 0..Len(new.heap) /\ table[p] \in 0..Len(heap)  BY <1>1, <1>2, <2>1
  <2>3. new.table[p] # 0
    <3>1. CASE table[p] = 0
      <4>1. new.table[p] > Len(heap)  BY <1>2, <2>1, <3>1
      <4> QED BY <1>3, <4>1
    <3>2. CASE table[p] # 0
      <4>1. new.table[p] = table[p]  BY <1>2, <2>1, <3>2
      <4> QED BY <3>2, <4>1
    <3> QED BY <3>1, <3>2
  <2> QED BY <1>3, <2>2, <2>3
<1> QED BY <1>2, <1>4, <1>5, <1>6, <1>7, <1>8

----------------------------------------------------------------------------
(* The steps. *)

LEMMA PopulationFacts ==
  /\ \A p \in M!Population : p # None /\ (p \in Sub \/ p \in Pool)
  /\ \A s \in Sub : s \notin Pool /\ s \in M!Population /\ s # None
  /\ \A p \in Pool : p \notin Sub /\ p \in M!Population /\ p # None
  /\ M!Population = Sub \cup Pool
BY AttemptAssumption DEF M!Population

\* The populations of an attempt.
LEMMA PairIs ==
  ASSUME NEW s \in Sub, NEW q \in Pool \cup {None}
  PROVE  {s, q} \ {None} \in SUBSET M!Population /\ IsFiniteSet({s, q} \ {None})
<1>1. {s, q} \ {None} \in SUBSET M!Population  BY PopulationFacts
<1>2. IsFiniteSet({s})  BY FS_Singleton
<1>3. IsFiniteSet({s} \cup {q})  BY <1>2, FS_AddElement
<1>4. {s, q} \ {None} \in SUBSET ({s} \cup {q})  OBVIOUS
<1>5. IsFiniteSet({s, q} \ {None})  BY <1>3, <1>4, FS_Subset
<1> QED BY <1>1, <1>5

LEMMA OpenKeeps ==
  ASSUME MetricsInv, NEW a \in Tried, NEW s \in Sub, NEW q \in Pool \cup {None}, M!Open(a, s, q)
  PROVE  MetricsInv'
<1> DEFINE ps == {s, q} \ {None}
           new == M!Entered(table, heap, ps)
           guard == [sub |-> s, pool |-> q, held |-> {new.table[p] : p \in ps},
                     epoch |-> epoch[s], counted |-> FALSE]
<1>1. ps \in SUBSET M!Population /\ IsFiniteSet(ps)  BY PairIs
<1>2. /\ guards[a] = None /\ table' = new.table /\ heap' = new.heap
      /\ guards' = [guards EXCEPT ![a] = guard]
      /\ time' = time /\ epoch' = epoch /\ posts' = posts
  BY DEF M!Open
<1>3. guard.held = {new.table[p] : p \in ps} /\ guard.epoch = epoch[s] /\ guard.sub = s
      /\ guard.pool = q /\ guard.counted = FALSE
  OBVIOUS
<1>4. \A p \in ps : p = s \/ p = q  OBVIOUS
<1>5. s \in ps /\ (q # None => q \in ps)  BY PopulationFacts
<1> HIDE DEF ps, new
<1>6. /\ Placed(new.table, new.heap) /\ Guarded(new.table, new.heap)
      /\ Gauged(new.heap) /\ Kept(new.table, new.heap)
      /\ \A p \in ps : new.table[p] \in 1..Len(new.heap)
  BY <1>1, EnteredKeeps DEF new
<1>7. Len(new.heap) \in Nat  BY <1>6, CountersAre DEF Placed
<1>8. guard \in M!Attempts
  <2>1. epoch[s] \in Nat  BY DEF MetricsInv, Counting
  <2>2. {new.table[p] : p \in ps} \in SUBSET Nat  BY <1>6, <1>7
  <2> QED BY <2>1, <2>2 DEF M!Attempts
<1> HIDE DEF guard
<1>9. guards \in [Tried -> M!Attempts \cup {None}]  BY DEF MetricsInv, Counting
<1>10. /\ guards'[a] = guard /\ guard # None
       /\ \A b \in Tried : b # a => guards'[b] = guards[b]
  BY <1>2, <1>8, <1>9, AttemptAssumption
<1>11. /\ Working' = Working \cup {a} /\ a \notin Working
       /\ \A b \in Working : guards'[b] = guards[b]
  BY <1>2, <1>10 DEF Working
<1>12. Counting'
  <2>1. guards' \in [Tried -> M!Attempts \cup {None}]  BY <1>2, <1>8, <1>9
  <2> QED BY <1>2, <2>1 DEF MetricsInv, Counting
<1>13. Numbered'  BY <1>2 DEF MetricsInv, Numbered
<1>14. Placed(table, heap)'  BY <1>2, <1>6 DEF Placed
<1>15. \A p : M!Epoch(p)' = M!Epoch(p)  BY <1>2 DEF M!Epoch
<1>16. Guarded(table, heap)'
  <2> SUFFICES ASSUME NEW b \in Working'
               PROVE  /\ guards'[b].held \in SUBSET (1..Len(new.heap))
                      /\ guards'[b].epoch <= epoch[guards'[b].sub]
                      /\ \A p \in M!Population : Belongs(guards'[b], p) <=> new.table[p] \in guards'[b].held
    BY <1>2, <1>15 DEF Guarded, Belongs
  <2>1. CASE b \in Working
    <3>1. guards'[b] = guards[b]  BY <1>11, <2>1
    <3> QED BY <1>6, <2>1, <3>1 DEF Guarded
  <2>2. CASE b = a
    <3>1. guards'[b] = guard  BY <1>10, <2>2
    <3>2. guard.held \in SUBSET (1..Len(new.heap))  BY <1>3, <1>6
    <3>3. guard.epoch <= epoch[guard.sub]
      <4>1. epoch[s] \in Nat  BY DEF MetricsInv, Counting
      <4> QED BY <1>3, <4>1
    <3>4. ASSUME NEW p \in M!Population  PROVE Belongs(guard, p) <=> new.table[p] \in guard.held
      <4>1. Belongs(guard, p) <=> p = q \/ (p = s /\ epoch[s] = M!Epoch(p))
        BY <1>3 DEF Belongs
      <4>2. p = s => epoch[s] = M!Epoch(p)  BY DEF M!Epoch
      <4>3. p # None  BY PopulationFacts
      <4>4. Belongs(guard, p) <=> p \in ps  BY <1>4, <1>5, <4>1, <4>2, <4>3
      <4>5. new.table[p] \in guard.held <=> p \in ps
        <5>1. ASSUME new.table[p] \in guard.held  PROVE p \in ps
          <6>1. PICK r \in ps : new.table[p] = new.table[r]  BY <1>3, <5>1
          <6>2. r \in M!Population /\ new.table[p] # 0  BY <1>1, <1>6, <6>1
          <6>3. p = r  BY <1>6, <6>1, <6>2 DEF Placed
          <6> QED BY <6>3
        <5>2. ASSUME p \in ps  PROVE new.table[p] \in guard.held  BY <1>3, <5>2
        <5> QED BY <5>1, <5>2
      <4> QED BY <4>4, <4>5
    <3> QED BY <3>1, <3>2, <3>3, <3>4
  <2> QED BY <1>11, <2>1, <2>2
<1>17. Gauged(heap)'
  <2>1. \A i : Holding(i)' = Holding(i)
    <3>1. guards'[a].counted = FALSE  BY <1>3, <1>10
    <3> QED BY <1>11, <3>1 DEF Holding
  <2> QED BY <1>2, <1>6, <2>1 DEF Gauged
<1>18. Kept(table, heap)'
  <2>1. \A p : Due(p)' = Due(p)  BY <1>2, <1>15 DEF Due
  <2>2. \A ring, p : Holds(ring, p)' <=> Holds(ring, p)  BY <1>2, <2>1 DEF Holds
  <2> QED BY <1>2, <1>6, <2>1, <2>2 DEF Kept, Ringed
<1> QED BY <1>12, <1>13, <1>14, <1>16, <1>17, <1>18 DEF MetricsInv

LEMMA TickKeeps ==
  ASSUME MetricsInv, M!Tick
  PROVE  MetricsInv'
<1>1. /\ time' = time + 1 /\ table' = table /\ heap' = heap /\ guards' = guards /\ epoch' = epoch
      /\ posts' = posts
  BY DEF M!Tick
<1>2. time \in Nat /\ Hour \in Nat  BY AttemptAssumption DEF MetricsInv, Counting
<1>3. Counting'  BY <1>1, <1>2 DEF MetricsInv, Counting
<1>4. \A k \in 1..Len(posts) : posts[k].at \in Nat  BY PostsAre DEF MetricsInv
<1>5. Numbered'  BY <1>1, <1>2, <1>4 DEF MetricsInv, Numbered
<1>6. Placed(table, heap)'  BY <1>1 DEF MetricsInv, Placed
<1>7. \A p : M!Epoch(p)' = M!Epoch(p)  BY <1>1 DEF M!Epoch
<1>8. Guarded(table, heap)'
  BY <1>1, <1>7 DEF MetricsInv, Guarded, Working, Belongs
<1>9. Gauged(heap)'  BY <1>1 DEF MetricsInv, Gauged, Holding, Working
<1>10. Kept(table, heap)'
  <2>1. \A p : Due(p)' = Due(p)  BY <1>1, <1>7 DEF Due
  <2>2. ASSUME NEW ring, NEW p, Holds(ring, p)  PROVE Holds(ring, p)'
    <3>1. ASSUME NEW k \in Due(p), posts[k].at + Hour > time + 1  PROVE posts[k].at + Hour > time
      <4>1. posts[k].at \in Nat  BY <1>4 DEF Due
      <4> QED BY <1>2, <3>1, <4>1
    <3> QED BY <1>1, <2>1, <2>2, <3>1 DEF Holds
  <2> QED BY <1>1, <2>1, <2>2 DEF MetricsInv, Kept, Ringed
<1> QED BY <1>3, <1>5, <1>6, <1>8, <1>9, <1>10 DEF MetricsInv

LEMMA ForgetKeeps ==
  ASSUME MetricsInv, NEW s \in Sub, M!Forget(s)
  PROVE  MetricsInv'
<1>1. /\ table' = [table EXCEPT ![s] = 0] /\ epoch' = [epoch EXCEPT ![s] = epoch[s] + 1]
      /\ time' = time /\ heap' = heap /\ guards' = guards /\ posts' = posts
  BY DEF M!Forget
<1>2. epoch \in [Sub -> Nat] /\ s \in M!Population /\ s \notin Pool /\ s # None
  BY PopulationFacts DEF MetricsInv, Counting
<1>3. /\ heap \in Seq(Counters) /\ table \in [M!Population -> 0..Len(heap)] /\ Len(heap) \in Nat
      /\ \A p, q \in M!Population : table[p] = table[q] /\ table[p] # 0 => p = q
  BY CountersAre DEF MetricsInv, Placed
<1>4. /\ table' \in [M!Population -> 0..Len(heap)] /\ table'[s] = 0
      /\ \A p \in M!Population : p # s => table'[p] = table[p]
  BY <1>1, <1>2, <1>3
<1>5. /\ epoch' \in [Sub -> Nat] /\ epoch'[s] = epoch[s] + 1
      /\ \A r \in Sub : r # s => epoch'[r] = epoch[r]
  BY <1>1, <1>2
<1>6. Counting'  BY <1>1, <1>5 DEF MetricsInv, Counting
<1>7. \A r \in Sub : epoch[r] <= epoch'[r] /\ epoch[r] \in Nat /\ epoch'[r] \in Nat  BY <1>2, <1>5
<1>8. Numbered'
  <2> SUFFICES ASSUME NEW k \in 1..Len(posts), NEW x \in posts[k].to, x[1] \in Sub
               PROVE  x[2] <= epoch'[x[1]]
    BY <1>1 DEF MetricsInv, Numbered
  <2>1. x[2] <= epoch[x[1]]  BY DEF MetricsInv, Numbered
  <2>2. x[2] \in Nat  BY PostsAre DEF MetricsInv
  <2> QED BY <1>7, <2>1, <2>2
<1>9. Placed(table, heap)'
  <2>1. \A p, q \in M!Population : table'[p] = table'[q] /\ table'[p] # 0 => p = q
    BY <1>3, <1>4
  <2> QED BY <1>1, <1>3, <1>4, <2>1 DEF Placed
<1>10. /\ M!Epoch(s)' = epoch[s] + 1
       /\ \A p \in M!Population : p # s => M!Epoch(p)' = M!Epoch(p)
  BY <1>5 DEF M!Epoch
<1>11. Guarded(table, heap)'
  <2> SUFFICES ASSUME NEW a \in Working
               PROVE  /\ guards[a].held \in SUBSET (1..Len(heap))
                      /\ guards[a].epoch <= epoch'[guards[a].sub]
                      /\ \A p \in M!Population :
                           (p = guards[a].pool \/ (p = guards[a].sub /\ guards[a].epoch = M!Epoch(p)'))
                           <=> table'[p] \in guards[a].held
    BY <1>1 DEF Guarded, Belongs, Working
  <2>1. /\ guards[a].held \in SUBSET (1..Len(heap))
        /\ guards[a].epoch <= epoch[guards[a].sub]
        /\ \A p \in M!Population : Belongs(guards[a], p) <=> table[p] \in guards[a].held
    BY DEF MetricsInv, Guarded
  <2>2. guards[a].sub \in Sub /\ guards[a].pool \in Pool \cup {None} /\ guards[a].epoch \in Nat
    BY GuardsAreAttempts DEF MetricsInv
  <2>3. guards[a].epoch <= epoch'[guards[a].sub]  BY <1>7, <2>1, <2>2
  <2>4. ASSUME NEW p \in M!Population
        PROVE  (p = guards[a].pool \/ (p = guards[a].sub /\ guards[a].epoch = M!Epoch(p)'))
                 <=> table'[p] \in guards[a].held
    <3>1. CASE p # s  BY <1>4, <1>10, <2>1, <3>1 DEF Belongs
    <3>2. CASE p = s
      <4>1. table'[p] \notin guards[a].held  BY <1>3, <1>4, <2>1, <3>2
      <4>2. p # guards[a].pool  BY <1>2, <2>2, <3>2
      <4>3. p = guards[a].sub => guards[a].epoch # M!Epoch(p)'
        <5>1. guards[a].epoch <= epoch[s] => guards[a].epoch # epoch[s] + 1
          BY <1>2, <2>2
        <5> QED BY <1>10, <2>1, <3>2, <5>1
      <4> QED BY <4>1, <4>2, <4>3
    <3> QED BY <3>1, <3>2
  <2> QED BY <2>1, <2>3, <2>4
<1>12. Gauged(heap)'  BY <1>1 DEF MetricsInv, Gauged, Holding, Working
<1>13. Kept(table, heap)'
  <2> SUFFICES ASSUME Len(posts) <= MaxTicks, NEW p \in M!Population
               PROVE  Ringed(table, heap, p)'
    BY <1>1 DEF Kept
  <2>1. Ringed(table, heap, p)  BY DEF MetricsInv, Kept
  <2>2. CASE p # s
    <3>1. Due(p)' = Due(p)  BY <1>1, <1>10, <2>2 DEF Due
    <3>2. \A ring : Holds(ring, p)' <=> Holds(ring, p)  BY <1>1, <3>1 DEF Holds
    <3> QED BY <1>1, <1>4, <2>1, <2>2, <3>1, <3>2 DEF Ringed
  <2>3. CASE p = s
    <3>1. ASSUME NEW k \in 1..Len(posts), <<p, M!Epoch(p)'>> \in posts[k].to  PROVE FALSE
      <4> DEFINE x == <<s, epoch[s] + 1>>
      <4>1. x \in posts[k].to /\ x[1] = s /\ x[2] = epoch[s] + 1  BY <1>10, <2>3, <3>1
      <4> HIDE DEF x
      <4>2. x[2] <= epoch[s]  BY <4>1 DEF MetricsInv, Numbered
      <4> QED BY <1>2, <4>1, <4>2
    <3>2. Due(p)' = {}  BY <1>1, <3>1 DEF Due
    <3> QED BY <1>4, <2>3, <3>2 DEF Ringed
  <2> QED BY <2>2, <2>3
<1> QED BY <1>6, <1>8, <1>9, <1>11, <1>12, <1>13 DEF MetricsInv

\* Counters whose gauges alone change hold the same ticks.
LEMMA TicksStay ==
  ASSUME MetricsInv, NEW h \in Seq(Counters), Len(h) = Len(heap),
         \A i \in 1..Len(heap) : h[i].ticks = heap[i].ticks
  PROVE  Placed(table, h) /\ Kept(table, h)
<1>1. /\ heap \in Seq(Counters) /\ table \in [M!Population -> 0..Len(heap)]
      /\ \A p, q \in M!Population : table[p] = table[q] /\ table[p] # 0 => p = q
  BY DEF MetricsInv, Placed
<1>2. Len(heap) \in Nat  BY <1>1, CountersAre
<1>3. Placed(table, h)  BY <1>1 DEF Placed
<1>4. Kept(table, h)
  <2>1. \A p \in M!Population : table[p] # 0 => table[p] \in 1..Len(heap)  BY <1>1, <1>2
  <2> QED BY <2>1 DEF MetricsInv, Kept, Ringed
<1> QED BY <1>3, <1>4

LEMMA CountKeeps ==
  ASSUME MetricsInv, NEW a \in Tried, M!Count(a)
  PROVE  MetricsInv'
<1> DEFINE h == [i \in DOMAIN heap |->
                   IF i \in guards[a].held THEN [heap[i] EXCEPT !.inFlight = heap[i].inFlight + 1] ELSE heap[i]]
           guard == [guards[a] EXCEPT !.counted = TRUE]
<1>1. /\ guards[a] # None /\ ~ guards[a].counted
      /\ heap' = h /\ guards' = [guards EXCEPT ![a] = guard]
      /\ time' = time /\ table' = table /\ epoch' = epoch /\ posts' = posts
  BY DEF M!Count
<1>2. a \in Working  BY <1>1 DEF Working
<1>3. guards \in [Tried -> M!Attempts \cup {None}]  BY DEF MetricsInv, Counting
<1>4. guards[a] \in M!Attempts  BY <1>2, GuardsAreAttempts DEF MetricsInv
<1>5. /\ guard \in M!Attempts /\ guard.counted = TRUE /\ guard.held = guards[a].held
      /\ guard.sub = guards[a].sub /\ guard.pool = guards[a].pool /\ guard.epoch = guards[a].epoch
  BY <1>4 DEF M!Attempts
<1>6. heap \in Seq(Counters) /\ Len(heap) \in Nat /\ DOMAIN heap = 1..Len(heap)
      /\ \A i \in 1..Len(heap) : heap[i] \in Counters /\ heap[i].inFlight \in Nat
  BY CountersAre DEF MetricsInv, Placed
<1>7. ASSUME NEW i \in 1..Len(heap)
      PROVE  /\ h[i] \in Counters /\ h[i].ticks = heap[i].ticks
             /\ h[i].inFlight = IF i \in guards[a].held
                                THEN heap[i].inFlight + 1 ELSE heap[i].inFlight
  <2> DEFINE n == heap[i].inFlight + 1
  <2>1. heap[i] \in Counters /\ heap[i].inFlight \in Nat /\ heap[i].ticks \in Seq(Tokens)
    BY <1>6 DEF Counters
  <2>2. h[i] = IF i \in guards[a].held THEN [heap[i] EXCEPT !.inFlight = n] ELSE heap[i]
    BY <1>6
  <2>3. CASE i \in guards[a].held
    <3>1. n \in Nat  BY <2>1, <2>3
    <3> HIDE DEF n, h
    <3>2. h[i] = [heap[i] EXCEPT !.inFlight = n]  BY <2>2, <2>3
    <3>3. h[i] \in Counters /\ h[i].ticks = heap[i].ticks /\ h[i].inFlight = n
      BY <2>1, <3>1, <3>2, GaugeChanges
    <3> QED BY <2>3, <3>3 DEF n
  <2>4. CASE ~ (i \in guards[a].held)  BY <2>1, <2>2, <2>4
  <2> QED BY <2>3, <2>4
<1>8. h \in Seq(Counters) /\ Len(h) = Len(heap)
  BY <1>6, <1>7
<1> HIDE DEF guard, h
<1>9. /\ guards'[a] = guard /\ guard # None
      /\ \A b \in Tried : b # a => guards'[b] = guards[b]
  BY <1>1, <1>3, <1>5, AttemptAssumption
<1>10. Working' = Working  BY <1>2, <1>9 DEF Working
<1>11. Counting'
  <2>1. guards' \in [Tried -> M!Attempts \cup {None}]  BY <1>1, <1>3, <1>5
  <2> QED BY <1>1, <2>1 DEF MetricsInv, Counting
<1>12. Numbered'  BY <1>1 DEF MetricsInv, Numbered
<1>13. \A p : M!Epoch(p)' = M!Epoch(p) /\ Due(p)' = Due(p)  BY <1>1 DEF M!Epoch, Due
<1>14. Placed(table, h) /\ Kept(table, h)  BY <1>7, <1>8, TicksStay
<1>15. Placed(table, heap)'  BY <1>1, <1>14 DEF Placed
<1>16. \A ring, p : Holds(ring, p)' <=> Holds(ring, p)  BY <1>1, <1>13 DEF Holds
<1>17. Kept(table, heap)'  BY <1>1, <1>13, <1>14, <1>16 DEF Kept, Ringed
<1>18. Guarded(table, heap)'
  <2> SUFFICES ASSUME NEW b \in Working
               PROVE  /\ guards'[b].held \in SUBSET (1..Len(heap))
                      /\ guards'[b].epoch <= epoch[guards'[b].sub]
                      /\ \A p \in M!Population : Belongs(guards'[b], p) <=> table[p] \in guards'[b].held
    BY <1>1, <1>8, <1>10, <1>13 DEF Guarded, Belongs
  <2>1. /\ guards'[b].held = guards[b].held /\ guards'[b].sub = guards[b].sub
        /\ guards'[b].pool = guards[b].pool /\ guards'[b].epoch = guards[b].epoch
    BY <1>5, <1>9 DEF Working
  <2> QED BY <2>1 DEF MetricsInv, Guarded, Belongs
<1>19. Gauged(heap)'
  <2> SUFFICES ASSUME NEW i \in 1..Len(heap)
               PROVE  h[i].inFlight = Cardinality(Holding(i)')
    BY <1>1, <1>8 DEF Gauged
  <2>1. heap[i].inFlight = Cardinality(Holding(i))  BY DEF MetricsInv, Gauged
  <2>2. IsFiniteSet(Holding(i)) /\ a \notin Holding(i)  BY <1>1, HoldingIsFinite DEF Holding
  <2>3. CASE i \in guards[a].held
    <3>1. Holding(i)' = Holding(i) \cup {a}
      <4>1. \A b \in Working : guards'[b].counted /\ i \in guards'[b].held
                               <=> b = a \/ (guards[b].counted /\ i \in guards[b].held)
        BY <1>5, <1>9, <2>3 DEF Working
      <4> QED BY <1>2, <1>10, <4>1 DEF Holding
    <3> QED BY <1>7, <2>1, <2>2, <2>3, <3>1, FS_AddElement
  <2>4. CASE i \notin guards[a].held
    <3>1. Holding(i)' = Holding(i)
      <4>1. \A b \in Working : guards'[b].counted /\ i \in guards'[b].held
                               <=> guards[b].counted /\ i \in guards[b].held
        BY <1>5, <1>9, <2>4 DEF Working
      <4> QED BY <1>10, <4>1 DEF Holding
    <3> QED BY <1>7, <2>1, <2>4, <3>1
  <2> QED BY <2>3, <2>4
<1> QED BY <1>11, <1>12, <1>15, <1>17, <1>18, <1>19 DEF MetricsInv

LEMMA DropKeeps ==
  ASSUME MetricsInv, NEW a \in Tried, M!DropGuard(a)
  PROVE  MetricsInv'
<1> DEFINE h == [i \in DOMAIN heap |->
                   IF i \in guards[a].held /\ heap[i].inFlight > 0
                   THEN [heap[i] EXCEPT !.inFlight = heap[i].inFlight - 1] ELSE heap[i]]
<1>1. /\ guards[a] # None /\ guards[a].counted
      /\ heap' = h /\ guards' = [guards EXCEPT ![a] = None]
      /\ time' = time /\ table' = table /\ epoch' = epoch /\ posts' = posts
  BY DEF M!DropGuard
<1>2. a \in Working  BY <1>1 DEF Working
<1>3. guards \in [Tried -> M!Attempts \cup {None}]  BY DEF MetricsInv, Counting
<1>6. heap \in Seq(Counters) /\ Len(heap) \in Nat /\ DOMAIN heap = 1..Len(heap)
      /\ \A i \in 1..Len(heap) : heap[i] \in Counters /\ heap[i].inFlight \in Nat
  BY CountersAre DEF MetricsInv, Placed
<1>7. ASSUME NEW i \in 1..Len(heap)
      PROVE  /\ h[i] \in Counters /\ h[i].ticks = heap[i].ticks
             /\ h[i].inFlight = IF i \in guards[a].held /\ heap[i].inFlight > 0
                                THEN heap[i].inFlight - 1 ELSE heap[i].inFlight
  <2> DEFINE n == heap[i].inFlight - 1
  <2>1. heap[i] \in Counters /\ heap[i].inFlight \in Nat /\ heap[i].ticks \in Seq(Tokens)
    BY <1>6 DEF Counters
  <2>2. h[i] = IF i \in guards[a].held /\ heap[i].inFlight > 0 THEN [heap[i] EXCEPT !.inFlight = n] ELSE heap[i]
    BY <1>6
  <2>3. CASE i \in guards[a].held /\ heap[i].inFlight > 0
    <3>1. n \in Nat  BY <2>1, <2>3
    <3> HIDE DEF n, h
    <3>2. h[i] = [heap[i] EXCEPT !.inFlight = n]  BY <2>2, <2>3
    <3>3. h[i] \in Counters /\ h[i].ticks = heap[i].ticks /\ h[i].inFlight = n
      BY <2>1, <3>1, <3>2, GaugeChanges
    <3> QED BY <2>3, <3>3 DEF n
  <2>4. CASE ~ (i \in guards[a].held /\ heap[i].inFlight > 0)  BY <2>1, <2>2, <2>4
  <2> QED BY <2>3, <2>4
<1>8. h \in Seq(Counters) /\ Len(h) = Len(heap)
  BY <1>6, <1>7
<1> HIDE DEF h
<1>9. /\ guards'[a] = None
      /\ \A b \in Tried : b # a => guards'[b] = guards[b]
  BY <1>1, <1>3
<1>10. Working' = Working \ {a} /\ \A b \in Working' : guards'[b] = guards[b]
  BY <1>9 DEF Working
<1>11. Counting'
  <2>1. guards' \in [Tried -> M!Attempts \cup {None}]  BY <1>1, <1>3
  <2> QED BY <1>1, <2>1 DEF MetricsInv, Counting
<1>12. Numbered'  BY <1>1 DEF MetricsInv, Numbered
<1>13. \A p : M!Epoch(p)' = M!Epoch(p) /\ Due(p)' = Due(p)  BY <1>1 DEF M!Epoch, Due
<1>14. Placed(table, h) /\ Kept(table, h)  BY <1>7, <1>8, TicksStay
<1>15. Placed(table, heap)'  BY <1>1, <1>14 DEF Placed
<1>16. \A ring, p : Holds(ring, p)' <=> Holds(ring, p)  BY <1>1, <1>13 DEF Holds
<1>17. Kept(table, heap)'  BY <1>1, <1>13, <1>14, <1>16 DEF Kept, Ringed
<1>18. Guarded(table, heap)'
  <2> SUFFICES ASSUME NEW b \in Working'
               PROVE  /\ guards[b].held \in SUBSET (1..Len(heap))
                      /\ guards[b].epoch <= epoch[guards[b].sub]
                      /\ \A p \in M!Population : Belongs(guards[b], p) <=> table[p] \in guards[b].held
    BY <1>1, <1>8, <1>10, <1>13 DEF Guarded, Belongs
  <2> QED BY <1>10 DEF MetricsInv, Guarded
<1>19. Gauged(heap)'
  <2> SUFFICES ASSUME NEW i \in 1..Len(heap)
               PROVE  h[i].inFlight = Cardinality(Holding(i)')
    BY <1>1, <1>8 DEF Gauged
  <2>1. heap[i].inFlight = Cardinality(Holding(i))  BY DEF MetricsInv, Gauged
  <2>2. IsFiniteSet(Holding(i)) /\ Cardinality(Holding(i)) \in Nat  BY HoldingIsFinite
  <2>3. Holding(i)' = Holding(i) \ {a}  BY <1>10 DEF Holding
  <2>4. Cardinality(Holding(i) \ {a})
          = IF a \in Holding(i) THEN Cardinality(Holding(i)) - 1 ELSE Cardinality(Holding(i))
    BY <2>2, FS_RemoveElement
  <2>5. a \in Holding(i) <=> i \in guards[a].held  BY <1>1, <1>2 DEF Holding
  <2>6. a \in Holding(i) => Cardinality(Holding(i)) > 0
    <3>1. a \in Holding(i) => Cardinality(Holding(i)) # 0  BY <2>2, FS_EmptySet
    <3> QED BY <2>2, <3>1
  <2> QED BY <1>7, <2>1, <2>3, <2>4, <2>5, <2>6
<1> QED BY <1>11, <1>12, <1>15, <1>17, <1>18, <1>19 DEF MetricsInv

\* Letting the old ticks of a ring go loses none of the hour.
LEMMA RecentIsEnough ==
  ASSUME MetricsInv, NEW ring \in Seq(Tokens), NEW p, Holds(ring, p),
         NEW moment \in Nat, moment <= time, NEW recent, recent = M!Recent(ring, moment)
  PROVE  recent \in Seq(Tokens) /\ Holds(recent, p)
<1>1. /\ recent \in Seq(Tokens)
      /\ \A x \in Tokens : (\E j \in 1..Len(recent) : recent[j] = x)
                           <=> x.at + Hour > moment /\ \E i \in 1..Len(ring) : ring[i] = x
      /\ (\A i, j \in 1..Len(ring) : ring[i] = ring[j] => i = j) =>
           \A i, j \in 1..Len(recent) : recent[i] = recent[j] => i = j
  BY RecentHolds
<1>2. time \in Nat /\ Hour \in Nat  BY AttemptAssumption DEF MetricsInv, Counting
<1>3. \A i, j \in 1..Len(recent) : recent[i] = recent[j] => i = j  BY <1>1 DEF Holds
<1>4. ASSUME NEW j \in 1..Len(recent)
      PROVE  recent[j].n \in Due(p) /\ recent[j].at = posts[recent[j].n].at
  <2>1. recent[j] \in Tokens  BY <1>1, ElementOfSeq
  <2>2. PICK i \in 1..Len(ring) : ring[i] = recent[j]  BY <1>1, <2>1
  <2> QED BY <2>2 DEF Holds
<1>5. ASSUME NEW k \in Due(p), posts[k].at + Hour > time
      PROVE  \E j \in 1..Len(recent) : recent[j] = [at |-> posts[k].at, n |-> k]
  <2> DEFINE x == [at |-> posts[k].at, n |-> k]
  <2>1. posts[k].at \in Nat /\ k \in Nat  BY PostsAre DEF MetricsInv, Due
  <2>2. x \in Tokens /\ x.at = posts[k].at  BY <2>1 DEF Tokens
  <2>3. \E i \in 1..Len(ring) : ring[i] = x  BY <1>5 DEF Holds
  <2> HIDE DEF x
  <2>4. x.at + Hour > moment  BY <1>2, <1>5, <2>1, <2>2
  <2>5. \E j \in 1..Len(recent) : recent[j] = x  BY <1>1, <2>2, <2>3, <2>4
  <2> QED BY <2>5 DEF x
<1> QED BY <1>1, <1>3, <1>4, <1>5 DEF Holds

LEMMA ReadKeeps ==
  ASSUME MetricsInv, M!Read
  PROVE  MetricsInv'
<1> DEFINE places == {table[p] : p \in M!Population}
           h == [i \in DOMAIN heap |->
                   IF i \in places THEN [heap[i] EXCEPT !.ticks = M!Recent(heap[i].ticks, time)] ELSE heap[i]]
<1>1. /\ heap' = h /\ guards' = guards
      /\ time' = time /\ table' = table /\ epoch' = epoch /\ posts' = posts
  BY DEF M!Read
<1>2. /\ heap \in Seq(Counters) /\ table \in [M!Population -> 0..Len(heap)]
      /\ \A p, q \in M!Population : table[p] = table[q] /\ table[p] # 0 => p = q
  BY DEF MetricsInv, Placed
<1>3. Len(heap) \in Nat /\ DOMAIN heap = 1..Len(heap)
      /\ \A i \in 1..Len(heap) : heap[i] \in Counters /\ heap[i].ticks \in Seq(Tokens)
  BY <1>2, CountersAre
<1>4. time \in Nat  BY DEF MetricsInv, Counting
<1>5. ASSUME NEW i \in 1..Len(heap)
      PROVE  /\ h[i] \in Counters /\ h[i].inFlight = heap[i].inFlight
             /\ i \in places => h[i].ticks = M!Recent(heap[i].ticks, time)
  <2> DEFINE ring == M!Recent(heap[i].ticks, time)
  <2>1. ring \in Seq(Tokens)  BY <1>3, <1>4, RecentHolds
  <2>2. h[i] = IF i \in places THEN [heap[i] EXCEPT !.ticks = ring] ELSE heap[i]  BY <1>3
  <2> HIDE DEF h, ring
  <2>3. CASE i \in places
    <3>1. h[i] = [heap[i] EXCEPT !.ticks = ring] /\ heap[i] \in Counters  BY <1>3, <2>2, <2>3
    <3>2. h[i] \in Counters /\ h[i].inFlight = heap[i].inFlight /\ h[i].ticks = ring
      BY <2>1, <3>1, RingChanges
    <3> QED BY <3>2 DEF ring
  <2>4. CASE i \notin places  BY <1>3, <2>2, <2>4
  <2> QED BY <2>3, <2>4
<1>6. h \in Seq(Counters) /\ Len(h) = Len(heap)  BY <1>3, <1>5
<1> HIDE DEF h
<1>7. Counting'  BY <1>1 DEF MetricsInv, Counting
<1>8. Numbered'  BY <1>1 DEF MetricsInv, Numbered
<1>9. Placed(table, heap)'  BY <1>1, <1>2, <1>6 DEF Placed
<1>10. \A p : M!Epoch(p)' = M!Epoch(p) /\ Due(p)' = Due(p)  BY <1>1 DEF M!Epoch, Due
<1>11. Guarded(table, heap)'
  BY <1>1, <1>6, <1>10 DEF MetricsInv, Guarded, Working, Belongs
<1>12. Gauged(heap)'  BY <1>1, <1>5, <1>6 DEF MetricsInv, Gauged, Holding, Working
<1>13. Kept(table, heap)'
  <2> SUFFICES ASSUME Len(posts) <= MaxTicks, NEW p \in M!Population
               PROVE  Ringed(table, h, p)
    <3>1. \A ring, q : Holds(ring, q)' <=> Holds(ring, q)  BY <1>1, <1>10 DEF Holds
    <3> QED BY <1>1, <1>10, <3>1 DEF Kept, Ringed
  <2>1. Ringed(table, heap, p)  BY DEF MetricsInv, Kept
  <2>2. CASE table[p] = 0  BY <2>1, <2>2 DEF Ringed
  <2>3. CASE table[p] # 0
    <3>1. table[p] \in 1..Len(heap) /\ table[p] \in places  BY <1>2, <1>3, <2>3
    <3> DEFINE ring == heap[table[p]].ticks
               recent == M!Recent(ring, time)
    <3>2. ring \in Seq(Tokens) /\ Holds(ring, p)  BY <1>3, <2>1, <2>3, <3>1 DEF Ringed
    <3>3. h[table[p]].ticks = recent  BY <1>5, <3>1
    <3> HIDE DEF ring
    <3>4. time <= time  BY <1>4
    <3>5. Holds(recent, p)  BY <1>4, <3>2, <3>4, RecentIsEnough
    <3> QED BY <2>3, <3>3, <3>5 DEF Ringed
  <2> QED BY <2>2, <2>3
<1> QED BY <1>7, <1>8, <1>9, <1>11, <1>12, <1>13 DEF MetricsInv

\* A ring that holds what it should has no more ticks than there are posts.
LEMMA RingIsShort ==
  ASSUME MetricsInv, NEW ring \in Seq(Tokens), NEW p, Holds(ring, p)
  PROVE  Len(ring) <= Len(posts)
<1> DEFINE f == [i \in 1..Len(ring) |-> ring[i].n]
<1>1. Len(ring) \in Nat /\ Len(posts) \in Nat  BY LenProperties, PostsAre DEF MetricsInv
<1>2. \A i \in 1..Len(ring) : ring[i] \in Tokens /\ ring[i].n \in 1..Len(posts)
                              /\ ring[i].at = posts[ring[i].n].at
  BY ElementOfSeq DEF Holds, Due
<1>3. f \in [1..Len(ring) -> 1..Len(posts)]  BY <1>2
<1>4. ASSUME NEW i \in 1..Len(ring), NEW j \in 1..Len(ring), f[i] = f[j]  PROVE i = j
  <2>1. ring[i].n = ring[j].n /\ ring[i].at = ring[j].at  BY <1>2, <1>4
  <2>2. ring[i] = ring[j]  BY <1>2, <2>1 DEF Tokens
  <2> QED BY <2>2 DEF Holds
<1>5. f \in Injection(1..Len(ring), 1..Len(posts))
  BY <1>3, <1>4 DEF Injection, IsInjective
<1> HIDE DEF f
<1>6. /\ IsFiniteSet(1..Len(posts)) /\ Cardinality(1..Len(posts)) = Len(posts)
      /\ Cardinality(1..Len(ring)) = Len(ring)
  <2>1. \A n \in Nat : IsFiniteSet(1..n) /\ Cardinality(1..n) = n
    <3> SUFFICES ASSUME NEW n \in Nat  PROVE IsFiniteSet(1..n) /\ Cardinality(1..n) = n
      OBVIOUS
    <3>1. 1 \in Int /\ n \in Int  OBVIOUS
    <3>2. IsFiniteSet(1..n) /\ Cardinality(1..n) = IF 1 > n THEN 0 ELSE n - 1 + 1
      BY <3>1, FS_Interval
    <3> QED BY <3>2
  <2> QED BY <1>1, <2>1
<1>7. Cardinality(1..Len(ring)) <= Cardinality(1..Len(posts))  BY <1>5, <1>6, FS_Injection
<1> QED BY <1>6, <1>7

LEMMA SetTokensKeeps ==
  ASSUME MetricsInv, NEW a \in Tried, M!SetTokens(a)
  PROVE  MetricsInv'
<1>1. PICK at \in {time, time - 1} \cap Nat :
        LET tick == [at |-> at, n |-> Len(posts) + 1]
            ps == M!Counted(guards[a])
            entered == M!Entered(table, heap, ps)
        IN  /\ table' = entered.table
            /\ heap' = [i \in DOMAIN entered.heap |->
                 IF i \in {entered.table[p] : p \in ps}
                 THEN [entered.heap[i] EXCEPT !.ticks = M!Pushed(entered.heap[i].ticks, tick)]
                 ELSE entered.heap[i]]
            /\ posts' = Append(posts, [at |-> at, n |-> tick.n, to |-> {<<p, M!Epoch(p)>> : p \in ps}])
  BY DEF M!SetTokens
<1>2. PICK n : n = Len(posts) + 1  OBVIOUS
<1>3. PICK tick : tick = [at |-> at, n |-> n]  OBVIOUS
<1> DEFINE ps == M!Counted(guards[a])
           new == M!Entered(table, heap, ps)
           places == {new.table[p] : p \in ps}
           h == [i \in DOMAIN new.heap |->
                   IF i \in places THEN [new.heap[i] EXCEPT !.ticks = M!Pushed(new.heap[i].ticks, tick)]
                   ELSE new.heap[i]]
           post == [at |-> at, n |-> n, to |-> {<<p, M!Epoch(p)>> : p \in ps}]
<1>4. /\ guards[a] # None /\ table' = new.table /\ heap' = h /\ posts' = Append(posts, post)
      /\ guards' = guards /\ time' = time /\ epoch' = epoch
  BY <1>1, <1>2, <1>3 DEF M!SetTokens
<1>5. at \in Nat /\ at <= time /\ time \in Nat /\ epoch \in [Sub -> Nat]
  BY DEF MetricsInv, Counting
<1>6. a \in Working  BY <1>4 DEF Working
<1>7. ps \in SUBSET M!Population /\ IsFiniteSet(ps)
  <2>1. guards[a].sub \in Sub /\ guards[a].pool \in Pool \cup {None}
    BY <1>6, GuardsAreAttempts DEF MetricsInv
  <2> QED BY <2>1, PairIs DEF M!Counted
<1>8. /\ posts \in Seq(Posts) /\ Len(posts) \in Nat /\ n \in Nat /\ n = Len(posts) + 1
      /\ \A k \in 1..Len(posts) : k # n
  BY <1>2, PostsAre DEF MetricsInv, Counting
<1>9. tick \in Tokens /\ tick.at = at /\ tick.n = n  BY <1>5, <1>8, <1>3 DEF Tokens
<1>10. post \in Posts /\ post.n = n /\ post.at = at /\ post.to = {<<p, M!Epoch(p)>> : p \in ps}
  <2>1. \A p \in M!Population : M!Epoch(p) \in Nat  BY <1>5 DEF M!Epoch
  <2>2. {<<p, M!Epoch(p)>> : p \in ps} \in SUBSET (M!Population \X Nat)  BY <1>7, <2>1
  <2> QED BY <1>5, <1>8, <2>2 DEF Posts
<1> HIDE DEF ps, new, post
<1>11. /\ Placed(new.table, new.heap) /\ Guarded(new.table, new.heap)
      /\ Gauged(new.heap) /\ Kept(new.table, new.heap)
      /\ \A p \in ps : new.table[p] \in 1..Len(new.heap)
  BY <1>7, EnteredKeeps DEF new
<1>12. /\ new.heap \in Seq(Counters) /\ new.table \in [M!Population -> 0..Len(new.heap)]
       /\ \A p, q \in M!Population : new.table[p] = new.table[q] /\ new.table[p] # 0 => p = q
  BY <1>11 DEF Placed
<1>13. Len(new.heap) \in Nat /\ DOMAIN new.heap = 1..Len(new.heap)
       /\ \A i \in 1..Len(new.heap) : new.heap[i] \in Counters /\ new.heap[i].ticks \in Seq(Tokens)
  BY <1>12, CountersAre
<1>14. ASSUME NEW i \in 1..Len(new.heap)
       PROVE  /\ h[i] \in Counters /\ h[i].inFlight = new.heap[i].inFlight
              /\ h[i].ticks = IF i \in places THEN M!Pushed(new.heap[i].ticks, tick)
                              ELSE new.heap[i].ticks
  <2> DEFINE ring == M!Pushed(new.heap[i].ticks, tick)
  <2>1. ring \in Seq(Tokens)  BY <1>9, <1>13, PushedIs
  <2>2. h[i] = IF i \in places THEN [new.heap[i] EXCEPT !.ticks = ring] ELSE new.heap[i]  BY <1>13
  <2>3. new.heap[i] \in Counters  BY <1>13
  <2> DEFINE c == new.heap[i]
             d == h[i]
  <2> HIDE DEF h, ring, c, d
  <2>4. CASE i \in places
    <3>1. d = [c EXCEPT !.ticks = ring] /\ c \in Counters  BY <2>2, <2>3, <2>4 DEF c, d
    <3>2. d \in Counters /\ d.inFlight = c.inFlight /\ d.ticks = ring
      BY <2>1, <3>1, RingChanges
    <3> QED BY <2>4, <3>2 DEF ring, c, d
  <2>5. CASE i \notin places  BY <2>2, <2>3, <2>5
  <2> QED BY <2>4, <2>5
<1>15. h \in Seq(Counters) /\ Len(h) = Len(new.heap)
  <2>1. h \in [1..Len(new.heap) -> Counters]
    <3>1. h = [i \in 1..Len(new.heap) |-> h[i]]  BY <1>13
    <3> HIDE DEF h
    <3> QED BY <1>14, <3>1
  <2> HIDE DEF h
  <2> QED BY <1>13, <2>1
<1> HIDE DEF h, places
<1>16. /\ Len(posts') = n /\ posts'[n] = post /\ posts' \in Seq(Posts)
       /\ \A k \in 1..Len(posts) : posts'[k] = posts[k]
       /\ \A k \in 1..n : k \in 1..Len(posts) \/ k = n
       /\ \A k \in 1..Len(posts) : k \in 1..n
       /\ n \in 1..n
  BY <1>4, <1>8, <1>10, AppendProperties
<1>17. Counting'  BY <1>4, <1>16 DEF MetricsInv, Counting
<1>18. \A p : M!Epoch(p)' = M!Epoch(p)  BY <1>4 DEF M!Epoch
<1>19. Numbered'
  <2> SUFFICES ASSUME NEW k \in 1..n
               PROVE  /\ posts'[k].n = k /\ posts'[k].at <= time
                      /\ \A x \in posts'[k].to : x[1] \in Sub => x[2] <= epoch[x[1]]
    BY <1>4, <1>16 DEF Numbered
  <2>1. CASE k \in 1..Len(posts)  BY <1>16, <2>1 DEF MetricsInv, Numbered
  <2>2. CASE k = n
    <3>1. posts'[k] = post  BY <1>16, <2>2
    <3>2. ASSUME NEW x \in post.to, x[1] \in Sub  PROVE x[2] <= epoch[x[1]]
      <4>1. PICK p \in ps : x = <<p, M!Epoch(p)>>  BY <1>10, <3>2
      <4>2. x[1] = p /\ x[2] = epoch[p] /\ epoch[p] \in Nat  BY <1>5, <3>2, <4>1 DEF M!Epoch
      <4> QED BY <4>2
    <3> QED BY <1>5, <1>10, <2>2, <3>1, <3>2
  <2> QED BY <1>16, <2>1, <2>2
<1>20. Placed(table, heap)'  BY <1>4, <1>12, <1>15 DEF Placed
<1>21. Guarded(table, heap)'
  BY <1>4, <1>11, <1>15, <1>18 DEF Guarded, Working, Belongs
<1>22. Gauged(heap)'  BY <1>4, <1>11, <1>14, <1>15 DEF Gauged, Holding, Working
<1>23. \A p : Due(p)' = IF p \in ps THEN Due(p) \cup {n} ELSE Due(p)
  <2> SUFFICES ASSUME NEW p  PROVE Due(p)' = IF p \in ps THEN Due(p) \cup {n} ELSE Due(p)
    OBVIOUS
  <2>1. <<p, M!Epoch(p)>> \in post.to <=> p \in ps  BY <1>10
  <2>2. Due(p)' = {k \in 1..n : <<p, M!Epoch(p)>> \in posts'[k].to}  BY <1>16, <1>18 DEF Due
  <2>3. \A k \in 1..Len(posts) : <<p, M!Epoch(p)>> \in posts'[k].to <=> k \in Due(p)
    BY <1>16 DEF Due
  <2>4. \A k \in Due(p) : k \in 1..Len(posts)  BY DEF Due
  <2>5. <<p, M!Epoch(p)>> \in posts'[n].to <=> p \in ps  BY <1>16, <2>1
  <2> QED BY <1>16, <2>2, <2>3, <2>4, <2>5
<1>24. ASSUME NEW ring, NEW p, Holds(ring, p), p \notin ps  PROVE Holds(ring, p)'
  <2>1. Due(p)' = Due(p)  BY <1>23, <1>24
  <2>2. \A k \in Due(p) : posts'[k] = posts[k]  BY <1>16 DEF Due
  <2>3. \A i \in 1..Len(ring) : ring[i].n \in Due(p) /\ ring[i].at = posts'[ring[i].n].at
    BY <1>24, <2>2 DEF Holds
  <2>4. \A k \in Due(p) : posts'[k].at + Hour > time =>
          \E i \in 1..Len(ring) : ring[i] = [at |-> posts'[k].at, n |-> k]
    BY <1>24, <2>2 DEF Holds
  <2> QED BY <1>4, <1>24, <2>1, <2>3, <2>4 DEF Holds
<1>25. ASSUME NEW recent \in Seq(Tokens), NEW p, Holds(recent, p), p \in ps
       PROVE  Holds(Append(recent, tick), p)'
  <2> DEFINE ring == Append(recent, tick)
             m == Len(recent) + 1
  <2>1. /\ Len(ring) = m /\ ring[m] = tick /\ m \in Nat
        /\ \A i \in 1..Len(recent) : ring[i] = recent[i] /\ i \in 1..m
        /\ \A i \in 1..m : i \in 1..Len(recent) \/ i = m
        /\ m \in 1..m
    BY <1>9, AppendProperties, LenProperties
  <2> HIDE DEF ring, m
  <2>2. \A i \in 1..Len(recent) : recent[i].n \in Due(p) /\ recent[i].at = posts[recent[i].n].at
    BY <1>25 DEF Holds
  <2>3. \A k \in Due(p) : k \in 1..Len(posts) /\ k # n /\ posts'[k] = posts[k]
    BY <1>8, <1>16 DEF Due
  <2>4. Due(p)' = Due(p) \cup {n}  BY <1>23, <1>25
  <2>5. ASSUME NEW i \in 1..m, NEW j \in 1..m, ring[i] = ring[j]  PROVE i = j
    <3>1. CASE i \in 1..Len(recent) /\ j \in 1..Len(recent)
      BY <1>25, <2>1, <2>5, <3>1 DEF Holds
    <3>2. CASE i = m /\ j \in 1..Len(recent)  BY <1>9, <2>1, <2>2, <2>3, <2>5, <3>2
    <3>3. CASE j = m /\ i \in 1..Len(recent)  BY <1>9, <2>1, <2>2, <2>3, <2>5, <3>3
    <3> QED BY <2>1, <3>1, <3>2, <3>3
  <2>6. ASSUME NEW i \in 1..m
        PROVE  ring[i].n \in Due(p)' /\ ring[i].at = posts'[ring[i].n].at
    <3>1. CASE i \in 1..Len(recent)  BY <2>1, <2>2, <2>3, <2>4, <3>1
    <3>2. CASE i = m  BY <1>9, <1>10, <1>16, <2>1, <2>4, <3>2
    <3> QED BY <2>1, <3>1, <3>2
  <2>7. ASSUME NEW k \in Due(p)', posts'[k].at + Hour > time
        PROVE  \E i \in 1..m : ring[i] = [at |-> posts'[k].at, n |-> k]
    <3>1. CASE k \in Due(p)
      <4>1. posts[k].at + Hour > time /\ posts'[k] = posts[k]  BY <2>3, <2>7, <3>1
      <4>2. PICK i \in 1..Len(recent) : recent[i] = [at |-> posts[k].at, n |-> k]
        BY <1>25, <3>1, <4>1 DEF Holds
      <4> QED BY <2>1, <4>1, <4>2
    <3>2. CASE k = n
      <4>1. tick = [at |-> at, n |-> n]  BY <1>3
      <4> QED BY <1>10, <1>16, <2>1, <3>2, <4>1
    <3> QED BY <2>4, <2>7, <3>1, <3>2
  <2>8. Holds(ring, p)'
    <3>1. Len(ring') = m /\ ring' = ring  BY <2>1 DEF ring
    <3> QED BY <1>4, <2>1, <2>5, <2>6, <2>7, <3>1 DEF Holds
  <2> QED BY <2>8 DEF ring
<1>26. Kept(table, heap)'
  <2> SUFFICES ASSUME n <= MaxTicks, NEW p \in M!Population
               PROVE  Ringed(table, heap, p)'
    BY <1>16 DEF Kept
  <2>1. MaxTicks \in Nat /\ Len(posts) <= MaxTicks  BY <1>8, AttemptAssumption
  <2>2. Ringed(new.table, new.heap, p)  BY <1>11, <2>1 DEF Kept
  <2>3. table' = new.table /\ heap' = h  BY <1>4
  <2>4. CASE new.table[p] = 0
    <3>1. p \notin ps  BY <1>11, <2>4
    <3>2. Due(p)' = {}  BY <1>23, <2>2, <2>4, <3>1 DEF Ringed
    <3> QED BY <2>3, <2>4, <3>2 DEF Ringed
  <2>5. CASE new.table[p] # 0
    <3>1. new.table[p] \in 1..Len(new.heap)  BY <1>12, <1>13, <2>5
    <3>2. PICK ring : ring = new.heap[new.table[p]].ticks  OBVIOUS
    <3>3. ring \in Seq(Tokens) /\ Holds(ring, p)  BY <1>13, <2>2, <2>5, <3>1, <3>2 DEF Ringed
    <3>4. PICK after : after = h[new.table[p]].ticks  OBVIOUS
    <3>5. Holds(after, p)'
      <4>1. CASE p \notin ps
        <5>1. new.table[p] \notin places
          <6>1. ASSUME NEW q \in ps, new.table[p] = new.table[q]  PROVE FALSE
            <7>1. q \in M!Population  BY <1>7
            <7>2. p = q  BY <1>12, <2>5, <6>1, <7>1
            <7> QED BY <4>1, <7>2
          <6> QED BY <6>1 DEF places
        <5>2. after = ring  BY <1>14, <3>1, <3>2, <3>4, <5>1
        <5> QED BY <1>24, <3>3, <4>1, <5>2
      <4>2. CASE p \in ps
        <5>1. new.table[p] \in places  BY <4>2 DEF places
        <5>2. after = M!Pushed(ring, tick)  BY <1>14, <3>1, <3>2, <3>4, <5>1
        <5>3. PICK recent : recent = M!Recent(ring, at)  OBVIOUS
        <5>4. recent \in Seq(Tokens) /\ Holds(recent, p)  BY <1>5, <3>3, <5>3, RecentIsEnough
        <5>5. Len(recent) <= Len(posts) /\ Len(recent) \in Nat  BY <5>4, RingIsShort, LenProperties
        <5>6. Len(recent) + 1 <= MaxTicks  BY <1>8, <2>1, <5>5
        <5>7. recent = M!Recent(ring, tick.at)  BY <1>9, <5>3
        <5>8. after = Append(recent, tick)  BY <1>9, <3>3, <5>2, <5>6, <5>7, PushedIs
        <5> QED BY <1>25, <4>2, <5>4, <5>8
      <4> QED BY <4>1, <4>2
    <3> QED BY <2>3, <2>5, <3>4, <3>5 DEF Ringed
  <2> QED BY <2>4, <2>5
<1> QED BY <1>17, <1>19, <1>20, <1>21, <1>22, <1>26 DEF MetricsInv

----------------------------------------------------------------------------
(* What the invariant says. *)

LEMMA GaugesFollow ==
  ASSUME MetricsInv
  PROVE  M!GaugesAgree
<1> SUFFICES ASSUME NEW p \in M!Population
             PROVE  M!InFlight(p) = Cardinality({a \in Tried :
                      /\ guards[a] # None /\ guards[a].counted
                      /\ (p = guards[a].pool \/ (p = guards[a].sub /\ guards[a].epoch = M!Epoch(p)))})
  BY MetricsCardinality DEF M!GaugesAgree
<1> DEFINE mine == {a \in Tried :
                      /\ guards[a] # None /\ guards[a].counted
                      /\ (p = guards[a].pool \/ (p = guards[a].sub /\ guards[a].epoch = M!Epoch(p)))}
<1>1. mine = Holding(table[p])
  BY DEF MetricsInv, Guarded, Belongs, Holding, Working
<1>2. table[p] \in 0..Len(heap) /\ Len(heap) \in Nat
  BY CountersAre DEF MetricsInv, Placed
<1>3. CASE table[p] = 0
  <2>1. Holding(0) = {}
    <3>1. \A a \in Working : 0 \notin guards[a].held  BY DEF MetricsInv, Guarded
    <3> QED BY <3>1 DEF Holding
  <2>2. Cardinality(mine) = 0  BY <1>1, <1>3, <2>1, FS_EmptySet
  <2>3. M!InFlight(p) = 0  BY <1>3 DEF M!InFlight
  <2> QED BY <2>2, <2>3
<1>4. CASE table[p] # 0
  <2>1. table[p] \in 1..Len(heap)  BY <1>2, <1>4
  <2>2. heap[table[p]].inFlight = Cardinality(Holding(table[p]))  BY <2>1 DEF MetricsInv, Gauged
  <2>3. M!InFlight(p) = heap[table[p]].inFlight  BY <1>4 DEF M!InFlight
  <2> HIDE DEF mine
  <2>4. Cardinality(mine) = heap[table[p]].inFlight  BY <1>1, <2>2
  <2> QED BY <2>3, <2>4 DEF mine
<1> QED BY <1>3, <1>4

LEMMA TokensFollow ==
  ASSUME MetricsInv
  PROVE  M!TokensAgree
<1> SUFFICES ASSUME Len(posts) <= MaxTicks, NEW p \in M!Population
             PROVE  M!TokensOf(p) = M!FoldSeq(LAMBDA post, sum :
                       IF <<p, M!Epoch(p)>> \in post.to /\ post.at + Hour > time THEN sum + post.n ELSE sum,
                     0, posts)
  BY DEF M!TokensAgree
<1> DEFINE S == 1..Len(posts)
           test(post) == <<p, M!Epoch(p)>> \in post.to /\ post.at + Hour > time
           v == [k \in S |-> IF test(posts[k]) THEN posts[k].n ELSE 0]
           Good == {k \in Due(p) : posts[k].at + Hour > time}
<1>1. posts \in Seq(Posts) /\ time \in Nat /\ Hour \in Nat
  BY AttemptAssumption DEF MetricsInv, Counting
<1>2. M!FoldSeq(LAMBDA post, sum :
        IF <<p, M!Epoch(p)>> \in post.to /\ post.at + Hour > time THEN sum + post.n ELSE sum, 0, posts)
        = Sum(v, S)
  BY <1>1, PostsFold
<1>3. Len(posts) \in Nat /\ \A k \in S : posts[k].n = k /\ posts[k].at \in Nat /\ posts[k].at <= time
  BY PostsAre DEF MetricsInv, Numbered
<1>4. IsFiniteSet(S)
  <2>1. 1 \in Int /\ Len(posts) \in Int  BY <1>3
  <2> QED BY <2>1, FS_Interval
<1>5. \A k \in S : v[k] \in Nat /\ v[k] = IF k \in Good THEN k ELSE 0
  BY <1>3 DEF Due
<1>6. Good \in SUBSET S  BY DEF Due
<1> HIDE DEF v, S, Good
<1>7. Sum(v, S) = Sum(v, Good)
  <2>1. IsFiniteSet(Good) /\ IsFiniteSet(S \ Good)  BY <1>4, <1>6, FS_Subset
  <2>2. S = Good \cup (S \ Good) /\ Good \cap (S \ Good) = {}  BY <1>6
  <2>3. \A k \in Good \cup (S \ Good) : v[k] \in Nat  BY <1>5, <2>2
  <2>4. Sum(v, Good \cup (S \ Good)) = Sum(v, Good) + Sum(v, S \ Good)
    BY <2>1, <2>2, <2>3, SumApart
  <2>5. Sum(v, S \ Good) = 0
    <3>1. \A k \in S \ Good : v[k] = 0  BY <1>5
    <3> QED BY <2>1, <3>1, SumZero
  <2>6. Sum(v, Good) \in Nat  BY <2>1, <2>3, SumType
  <2>7. Sum(v, S) = Sum(v, Good \cup (S \ Good))  BY <2>2, Zenon
  <2> HIDE DEF Good
  <2> QED BY <2>4, <2>5, <2>6, <2>7
<1>8. Ringed(table, heap, p)  BY DEF MetricsInv, Kept
<1>9. CASE table[p] = 0
  <2>1. Good = {}  BY <1>8, <1>9 DEF Ringed, Good
  <2>2. Sum(v, Good) = 0  BY <2>1, SumEmpty
  <2>3. M!TokensOf(p) = 0  BY <1>9 DEF M!TokensOf
  <2> QED BY <1>2, <1>7, <2>2, <2>3
<1>10. CASE table[p] # 0
  <2> DEFINE ring == heap[table[p]].ticks
             recent == M!Recent(ring, time)
             w == [i \in 1..Len(recent) |-> recent[i].n]
  <2>1. ring \in Seq(Tokens) /\ Holds(ring, p)
    <3>1. table[p] \in 1..Len(heap)  BY <1>10, CountersAre DEF MetricsInv, Placed
    <3>2. ring \in Seq(Tokens)  BY <3>1, CountersAre DEF MetricsInv, Placed
    <3> QED BY <1>8, <1>10, <3>2 DEF Ringed
  <2>2. M!TokensOf(p) = M!TokensSince(table[p])  BY <1>10 DEF M!TokensOf
  <2>3. /\ recent \in Seq(Tokens) /\ Holds(recent, p)
        /\ \A x \in Tokens : (\E j \in 1..Len(recent) : recent[j] = x)
                             <=> x.at + Hour > time /\ \E i \in 1..Len(ring) : ring[i] = x
    <3> HIDE DEF ring
    <3>1. time <= time  BY <1>1
    <3>2. recent \in Seq(Tokens) /\ Holds(recent, p)  BY <1>1, <2>1, <3>1, RecentIsEnough
    <3>3. \A x \in Tokens : (\E j \in 1..Len(recent) : recent[j] = x)
                             <=> x.at + Hour > time /\ \E i \in 1..Len(ring) : ring[i] = x
      <4>1. recent = M!Recent(ring, time) /\ ring \in Seq(Tokens) /\ time \in Nat  BY <1>1, <2>1
      <4> HIDE DEF recent
      <4> QED BY ONLY <4>1, RecentHolds
    <3> QED BY <3>2, <3>3
  <2>4. ASSUME NEW i \in 1..Len(recent)
        PROVE  /\ recent[i] \in Tokens /\ recent[i].n \in Good /\ recent[i].at <= time
               /\ recent[i].n \in Nat
    <3> HIDE DEF recent
    <3>1. recent[i] \in Tokens  BY <2>3, ElementOfSeq
    <3>2. recent[i].n \in Due(p) /\ recent[i].at = posts[recent[i].n].at  BY <2>3 DEF Holds
    <3>3. recent[i].n \in S  BY <3>2 DEF Due, S
    <3>4. recent[i].at + Hour > time  BY <2>3, <3>1
    <3> QED BY <1>3, <3>1, <3>2, <3>3, <3>4 DEF Good, Tokens
  <2>5. M!TokensSince(table[p]) = Sum(w, 1..Len(recent))
    <3> DEFINE present == {tick \in M!ToSet(recent) : tick.at <= time}
    <3>1. M!TokensSince(table[p]) = M!FoldSeq(LAMBDA tick, sum : sum + tick.n, 0, Selected(recent, present))
      BY DEF M!TokensSince, M!Selected, Selected
    <3>2. \A i \in 1..Len(recent) : recent[i] \in present
      <4>1. \A i \in 1..Len(recent) : recent[i] \in M!ToSet(recent)
        BY <2>3 DEF M!ToSet
      <4> HIDE DEF recent
      <4> QED BY <2>4, <4>1
    <3> HIDE DEF recent, present
    <3>3. Selected(recent, present) = recent  BY <2>3, <3>2, SelectedAll
    <3>4. M!FoldSeq(LAMBDA tick, sum : sum + tick.n, 0, recent) = Sum(w, 1..Len(recent))
      BY <2>3, TicksFold
    <3> QED BY <3>1, <3>3, <3>4
  <2>6. Sum(v, Good) = Sum(w, 1..Len(recent))
    <3> HIDE DEF recent
    <3> DEFINE I == 1..Len(recent)
    <3>1. Len(recent) \in Nat  BY <2>3, LenProperties
    <3>2. IsFiniteSet(I)  BY <3>1, FS_Interval
    <3>3. \A i \in I : w[i] = recent[i].n /\ w[i] \in Nat /\ w[i] \in Good  BY <2>4
    <3>4. \A i \in I : v[w[i]] = w[i]  BY <1>5, <1>6, <3>3
    <3>5. ASSUME NEW i \in I, NEW j \in I, w[i] = w[j]  PROVE i = j
      <4>1. recent[i].n = recent[j].n /\ recent[i].at = recent[j].at
        BY <2>3, <3>3, <3>5 DEF Holds
      <4>2. recent[i] = recent[j]  BY <2>4, <4>1 DEF Tokens
      <4> QED BY <2>3, <4>2 DEF Holds
    <3>6. {w[i] : i \in I} = Good
      <4>1. ASSUME NEW k \in Good  PROVE \E i \in I : w[i] = k
        <5>1. k \in Due(p) /\ posts[k].at + Hour > time  BY DEF Good
        <5>2. PICK i \in I : recent[i] = [at |-> posts[k].at, n |-> k]  BY <2>3, <5>1 DEF Holds
        <5> QED BY <3>3, <5>2
      <4> QED BY <3>3, <4>1
    <3> HIDE DEF I, w
    <3>7. Sum(v, {w[i] : i \in I}) = Sum(w, I)
      BY <3>2, <3>3, <3>4, <3>5, SumMoved
    <3> QED BY <3>6, <3>7 DEF I
  <2> QED BY <1>2, <1>7, <2>2, <2>5, <2>6
<1> QED BY <1>9, <1>10

LEMMA MetricsStart == M!Init => MetricsInv
<1> SUFFICES ASSUME M!Init  PROVE MetricsInv
  OBVIOUS
<1>1. /\ time = 0 /\ table = [p \in M!Population |-> 0] /\ heap = <<>> /\ posts = <<>>
      /\ guards = [a \in Tried |-> None] /\ epoch = [s \in Sub |-> 0]
  BY DEF M!Init
<1>2. heap \in Seq(Counters) /\ posts \in Seq(Posts) /\ Len(heap) = 0 /\ Len(posts) = 0
  BY <1>1, EmptySeq
<1>3. Counting  BY <1>1, <1>2 DEF Counting
<1>4. Numbered  BY <1>2 DEF Numbered
<1>5. Placed(table, heap)  BY <1>1, <1>2 DEF Placed
<1>6. Guarded(table, heap)  BY <1>1 DEF Guarded, Working
<1>7. Gauged(heap)  BY <1>2 DEF Gauged
<1>8. Kept(table, heap)  BY <1>1, <1>2 DEF Kept, Ringed, Due
<1> QED BY <1>3, <1>4, <1>5, <1>6, <1>7, <1>8 DEF MetricsInv

LEMMA MetricsStays == ASSUME MetricsInv, M!Next PROVE MetricsInv'
BY ReadKeeps, TickKeeps, ForgetKeeps, OpenKeeps, CountKeeps, SetTokensKeeps, DropKeeps DEF M!Next

LEMMA MetricsIdle == ASSUME MetricsInv, UNCHANGED metricVars PROVE MetricsInv'
<1>1. /\ time' = time /\ table' = table /\ heap' = heap /\ guards' = guards /\ epoch' = epoch
      /\ posts' = posts
  BY DEF metricVars
<1>2. \A p : M!Epoch(p)' = M!Epoch(p) /\ Due(p)' = Due(p)  BY <1>1 DEF M!Epoch, Due
<1>3. \A ring, p : Holds(ring, p)' <=> Holds(ring, p)  BY <1>1, <1>2 DEF Holds
<1>4. Counting' /\ Numbered' /\ Placed(table, heap)'
  BY <1>1 DEF MetricsInv, Counting, Numbered, Placed
<1>5. Working' = Working  BY <1>1 DEF Working
<1>6. Guarded(table, heap)'  BY <1>1, <1>2, <1>5 DEF MetricsInv, Guarded, Belongs
<1>7. Gauged(heap)'  BY <1>1, <1>5 DEF MetricsInv, Gauged, Holding
<1>8. Kept(table, heap)'  BY <1>1, <1>2, <1>3 DEF MetricsInv, Kept, Ringed
<1> QED BY <1>4, <1>6, <1>7, <1>8 DEF MetricsInv

\* While the counters are at work, the invariant holds of them.
MetricsAtWork == focus = "metrics" => MetricsInv

\* The gauges and the hour's tokens of every account and pool are those of the
\* attempts at work and of what was posted, however many of either there are.
THEOREM CountersAlwaysAgree == PartsSpec => []CountersAgree
<1>1. PartsInit => MetricsAtWork
  BY MetricsStart DEF PartsInit, MetricsAtWork
<1>2. MetricsAtWork /\ [PartsNext]_partsVars => MetricsAtWork'
  <2> SUFFICES ASSUME MetricsAtWork, [PartsNext]_partsVars, focus' = "metrics"  PROVE MetricsInv'
    BY DEF MetricsAtWork
  <2>1. focus = "metrics" /\ (M!Next \/ UNCHANGED metricVars)
    BY DEF PartsNext, partsVars
  <2> QED BY <2>1, MetricsStays, MetricsIdle DEF MetricsAtWork
<1>3. MetricsAtWork => CountersAgree
  BY GaugesFollow, TokensFollow DEF MetricsAtWork, CountersAgree, M!CountersAgree
<1> QED BY <1>1, <1>2, <1>3, PTL DEF PartsSpec
=============================================================================
