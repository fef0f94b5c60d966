---------------------------- MODULE RouterProofs ----------------------------
(***************************************************************************)
(* Proofs about Router, for every set of subs, pools, readings, settings   *)
(* and concurrent requests.                                                *)
(*                                                                         *)
(* CurrentIsRoutable and ServedWithinRequest are not inductive on their    *)
(* own: a request carries sets from one critical section into the next, so *)
(* the invariant also says what those sets still are when they are used.   *)
(***************************************************************************)
EXTENDS Router, TLAPS

\* What a waiting request carries is still within what it asked for.
Scoped(c) ==
  /\ \A s \in c.usable : ProviderOf[s] = c.provider
  /\ c.admitted \subseteq c.usable
  /\ c.pool # None => c.admitted \subseteq c.pool.members

CallInv(c) ==
  /\ c.pc \in {"asked", "ranking", "chosen"} => Scoped(c)
  /\ c.pc = "ranking" => c.live \subseteq c.admitted
  /\ c.pc = "chosen" => c.sub \in c.admitted

IInv == TypeOK /\ CurrentIsRoutable /\ \A r \in Request : CallInv(call[r])

----------------------------------------------------------------------------
(* The quarantine's end. *)

\* The greatest and the least of one or two numbers is one of them.
LEMMA MaxOfTwo ==
  ASSUME NEW S, NEW a \in Int, NEW b \in Int, S \subseteq {a, b}, S # {}
  PROVE  Max(S) \in S
<1>1. \E x \in S : \A y \in S : x >= y
  <2>1. PICK x \in S : TRUE  OBVIOUS
  <2>2. CASE a \in S /\ b \in S
    <3>1. a >= b \/ b >= a  OBVIOUS
    <3> QED BY <2>2, <3>1
  <2>3. CASE ~(a \in S /\ b \in S)
    <3>1. S = {x}  BY <2>1, <2>3
    <3>2. x >= x  BY <2>1
    <3> QED BY <3>1, <3>2
  <2> QED BY <2>2, <2>3
<1> QED BY <1>1 DEF Max

LEMMA MinOfTwo ==
  ASSUME NEW S, NEW a \in Int, NEW b \in Int, S \subseteq {a, b}, S # {}
  PROVE  Min(S) \in S
<1>1. \E x \in S : \A y \in S : x <= y
  <2>1. PICK x \in S : TRUE  OBVIOUS
  <2>2. CASE a \in S /\ b \in S
    <3>1. a <= b \/ b <= a  OBVIOUS
    <3> QED BY <2>2, <3>1
  <2>3. CASE ~(a \in S /\ b \in S)
    <3>1. S = {x}  BY <2>1, <2>3
    <3>2. x <= x  BY <2>1
    <3> QED BY <3>1, <3>2
  <2> QED BY <2>2, <2>3
<1> QED BY <1>1 DEF Min

LEMMA EffectivePctType ==
  ASSUME NEW u \in Usage
  PROVE  EffectivePct(u) \in Pct
BY NoneAssumption DEF EffectivePct, WindowPct, Usage, Window, Pct

\* Wherever it comes from, the end of a quarantine lies in the future.
LEMMA ExhaustUntilLater ==
  ASSUME NEW at \in Nat, NEW u \in Usage \cup {None}
  PROVE  ExhaustUntil(at, u) \in Nat /\ ExhaustUntil(at, u) > at
<1> DEFINE windows == IF u = None THEN {} ELSE Resetting(u, at)
           full    == {w \in windows : w.pct >= 100}
           ends(W) == {w.resets_at : w \in W}
<1>1. \A w \in windows : w.resets_at \in Nat /\ w.resets_at > at
  BY NoneAssumption DEF Resetting, Usage, Window
<1>2. ASSUME NEW W \in SUBSET windows, W # {}
      PROVE  Max(ends(W)) \in ends(W) /\ Min(ends(W)) \in ends(W)
  <2>1. u # None /\ u \in Usage  BY <1>2
  <2>2. PICK a \in Int, b \in Int : ends(W) \subseteq {a, b}
    <3> DEFINE end(w) == IF w # None /\ w.resets_at # None THEN w.resets_at ELSE 0
    <3>1. end(u.session) \in Int /\ end(u.weekly) \in Int
      BY <2>1 DEF Usage, Window
    <3>2. ends(W) \subseteq {end(u.session), end(u.weekly)}
      BY <2>1, <1>2 DEF Resetting
    <3> HIDE DEF end
    <3> QED BY <3>1, <3>2
  <2>3. ends(W) # {}  BY <1>2
  <2> HIDE DEF ends
  <2> QED BY <2>2, <2>3, MaxOfTwo, MinOfTwo
<1>3. CASE full # {}
  <2>1. ExhaustUntil(at, u) = Max(ends(full))  BY <1>3 DEF ExhaustUntil
  <2>2. PICK w \in full : Max(ends(full)) = w.resets_at  BY <1>2, <1>3
  <2> QED BY <2>1, <2>2, <1>1
<1>4. CASE full = {} /\ windows # {}
  <2>1. ExhaustUntil(at, u) = Min(ends(windows))  BY <1>4 DEF ExhaustUntil
  <2>2. PICK w \in windows : Min(ends(windows)) = w.resets_at  BY <1>2, <1>4
  <2> QED BY <2>1, <2>2, <1>1
<1>5. CASE windows = {}
  <2>1. ExhaustUntil(at, u) = at + BlindExhaustion  BY <1>5 DEF ExhaustUntil
  <2> QED BY <2>1, BlindAssumption
<1> QED BY <1>3, <1>4, <1>5

LEMMA QuarantineType ==
  ASSUME now \in Nat, NEW u \in Usage \cup {None}
  PROVE  QuarantineOn(u) \in Quarantine
BY ExhaustUntilLater, EffectivePctType DEF QuarantineOn, Quarantine

LEMMA SweptType ==
  ASSUME TypeOK
  PROVE  Swept \in [Sub -> Quarantine \cup {None}]
BY DEF TypeOK, Swept

----------------------------------------------------------------------------
(* What Exhaust and OnFailure leave behind, whoever calls them. *)

LEMMA ExhaustKeeps ==
  ASSUME IInv, NEW s \in Sub, NEW u \in Usage \cup {None}, Exhaust(s, u)
  PROVE  /\ exhausted' \in [Sub -> Quarantine \cup {None}]
         /\ current' \in [Provider -> Sub \cup {None}]
         /\ CurrentIsRoutable'
<1>1. QuarantineOn(u) \in Quarantine  BY QuarantineType DEF IInv, TypeOK
<1>2. exhausted' \in [Sub -> Quarantine \cup {None}]
  BY <1>1 DEF IInv, TypeOK, Exhaust
<1>3. current' \in [Provider -> Sub \cup {None}]
  BY DEF IInv, TypeOK, Exhaust, Released
<1>4. CurrentIsRoutable'
  <2> SUFFICES ASSUME NEW p \in Provider, current'[p] # None
               PROVE  ProviderOf[current'[p]] = p /\ exhausted'[current'[p]] = None
    BY DEF CurrentIsRoutable
  <2>1. current'[p] = current[p] /\ current[p] # s /\ current[p] \in Sub
    BY DEF IInv, TypeOK, Exhaust, Released
  <2>2. ProviderOf[current[p]] = p /\ exhausted[current[p]] = None
    BY <2>1 DEF IInv, CurrentIsRoutable
  <2> QED BY <2>1, <2>2 DEF IInv, TypeOK, Exhaust
<1> QED BY <1>2, <1>3, <1>4

LEMMA OnFailureKeeps ==
  ASSUME IInv, NEW s \in Sub, NEW class, NEW u \in Usage \cup {None}, OnFailure(s, class, u)
  PROVE  /\ exhausted' \in [Sub -> Quarantine \cup {None}]
         /\ current' \in [Provider -> Sub \cup {None}]
         /\ CurrentIsRoutable'
<1>1. CASE Quarantines(class)
  BY <1>1, ExhaustKeeps DEF OnFailure
<1>2. CASE ~Quarantines(class)
  BY <1>2 DEF OnFailure, IInv, TypeOK, CurrentIsRoutable
<1> QED BY <1>1, <1>2

----------------------------------------------------------------------------
(* The invariant. *)

LEMMA InitInv == Init => IInv
<1> SUFFICES ASSUME Init PROVE IInv
  OBVIOUS
<1>1. TypeOK
  BY DEF Init, TypeOK, CallOK, Idle
<1>2. CurrentIsRoutable
  BY DEF Init, CurrentIsRoutable
<1>3. \A r \in Request : CallInv(call[r])
  BY DEF Init, CallInv, Idle
<1> QED BY <1>1, <1>2, <1>3 DEF IInv

\* Asking takes the snapshot: within it, everything is in scope.
LEMMA NewRequestInv ==
  ASSUME IInv, NEW r \in Request, NewRequest(r)
  PROVE  IInv'
<1> USE DEF IInv, TypeOK
<1>1. PICK a \in Arrival : Ask(r, a)
  BY DEF NewRequest
<1>2. /\ a.provider \in Provider /\ a.pool \in Gate \cup {None}
      /\ a.chain \in Sub \cup {None} /\ a.key \in Sub \cup {None}
  BY ArrivalAssumption
<1>3. CallOK(call'[r]) /\ CallInv(call'[r])
  BY <1>1, <1>2 DEF Ask, Admits, CallOK, Asking, CallInv, Scoped
<1>4. /\ DOMAIN call' = Request
      /\ \A q \in Request : q # r => call'[q] = call[q]
  BY <1>1 DEF Ask, Admits
<1>5. (\A q \in Request : CallOK(call'[q])) /\ (\A q \in Request : CallInv(call'[q]))
  BY <1>3, <1>4
<1> QED BY <1>4, <1>5 DEF NewRequest, routerVars, CurrentIsRoutable

\* The first critical section: what it settles on is live, hence not in the
\* swept map, hence as good a current as any.
LEMMA DecideInv ==
  ASSUME IInv, NEW r \in Request, Decide(r)
  PROVE  IInv'
<1> DEFINE c    == call[r]
           live == IF c.provider \in settings.proxied
                   THEN {s \in c.admitted : Swept[s] = None} ELSE {}
           held == {i \in 1..5 : Holds(c)[i].sub \in live}
<1>1. /\ c.pc = "asked" /\ Asking(c)
      /\ c.chain \in Sub \cup {None} /\ c.key \in Sub \cup {None} /\ Scoped(c)
  BY DEF IInv, TypeOK, CallOK, CallInv, Decide, Idle
<1>2. /\ exhausted' = Swept
      /\ UNCHANGED <<now, registry, cache, settings, pinned>>
  BY DEF Decide
<1>3. exhausted' \in [Sub -> Quarantine \cup {None}]
  BY <1>2, SweptType DEF IInv
<1>4. live \subseteq c.admitted /\ live \subseteq Sub /\ \A s \in live : exhausted'[s] = None
  BY <1>1, <1>2 DEF Asking
<1>5. \A s \in Sub : exhausted[s] = None => exhausted'[s] = None
  BY <1>2 DEF Swept
<1>6. /\ UNCHANGED current \/ \E s \in live : current' = [current EXCEPT ![c.provider] = s]
      /\ UNCHANGED cursor
      /\ DOMAIN call' = Request
      /\ \A q \in Request : q # r => call'[q] = call[q]
      /\ CallOK(call'[r]) /\ CallInv(call'[r])
  <2>1. CASE /\ live = {}
             /\ Refuse(r, Refusal(c))
             /\ UNCHANGED current
    BY <1>1, <2>1 DEF Refuse, IInv, TypeOK, CallOK, Asking, CallInv
  <2>2. CASE \E i \in held :
               /\ Choose(r, Holds(c)[i].sub, Holds(c)[i].reason, Cardinality(live))
               /\ current' = [current EXCEPT ![c.provider] = Holds(c)[i].sub]
               /\ UNCHANGED cursor
    <3>1. PICK s, reason, n :
            /\ s \in live
            /\ Choose(r, s, reason, n)
            /\ current' = [current EXCEPT ![c.provider] = s]
            /\ UNCHANGED cursor
      BY <2>2
    <3> HIDE DEF live
    <3> QED BY <1>1, <1>4, <3>1 DEF Choose, IInv, TypeOK, CallOK, Asking, CallInv, Scoped
  <2>3. CASE /\ call' = [call EXCEPT ![r] =
                  [pc |-> "ranking", provider |-> @.provider, pool |-> @.pool,
                   usable |-> @.usable, admitted |-> @.admitted, load |-> @.load,
                   live |-> live, strategy |-> settings.strategy]]
             /\ UNCHANGED <<current, cursor>>
    <3>1. settings.strategy \in StrategyKind
      BY SettingsAssumption DEF IInv, TypeOK
    <3> HIDE DEF live
    <3> QED BY <1>1, <1>4, <2>3, <3>1 DEF IInv, TypeOK, CallOK, Asking, CallInv, Scoped
  <2> QED BY <2>1, <2>2, <2>3 DEF Decide
<1>7. \A q \in Request : CallOK(call'[q]) /\ CallInv(call'[q])
  BY <1>6 DEF IInv, TypeOK
<1>8. current' \in [Provider -> Sub \cup {None}] /\ CurrentIsRoutable'
  <2>1. CASE UNCHANGED current
    BY <1>5, <2>1 DEF IInv, TypeOK, CurrentIsRoutable
  <2>2. ASSUME NEW s \in live, current' = [current EXCEPT ![c.provider] = s]
        PROVE  current' \in [Provider -> Sub \cup {None}] /\ CurrentIsRoutable'
    <3>1. s \in Sub /\ c.provider \in Provider /\ ProviderOf[s] = c.provider
          /\ exhausted'[s] = None
      BY <1>1, <1>4, <2>2 DEF Asking, Scoped
    <3> HIDE DEF live
    <3> QED BY <1>5, <2>2, <3>1 DEF IInv, TypeOK, CurrentIsRoutable
  <2> QED BY <1>6, <2>1, <2>2
<1> QED BY <1>2, <1>3, <1>6, <1>7, <1>8 DEF IInv, TypeOK

\* The second critical section works on what was live before the wait, but
\* looks every candidate up in the map once more.
LEMMA UsageRoundInv ==
  ASSUME IInv, NEW r \in Request, UsageRound(r)
  PROVE  IInv'
<1> DEFINE c == call[r]
<1>1. c.pc = "ranking" /\ Asking(c) /\ c.live \subseteq Sub /\ c.strategy \in StrategyKind
      /\ Scoped(c) /\ c.live \subseteq c.admitted
  BY DEF IInv, TypeOK, CallOK, CallInv, UsageRound, Idle
<1>2. PICK scores \in [c.live -> Usage \cup {None}] : Rank(r, scores)
  BY ReadingAssumption DEF UsageRound
<1> DEFINE full  == {s \in {s \in c.live : scores[s] # None} : IsExhausted(scores[s])}
           quarantined == [s \in Sub |-> IF s \in full THEN QuarantineOn(scores[s])
                                          ELSE exhausted[s]]
           cands == RankCandidates(c.live, quarantined)
<1>3. /\ exhausted' = quarantined
      /\ cache' = IF NeedsUsage(c.strategy)
                  THEN [s \in Sub |-> IF s \in c.live THEN scores[s] ELSE cache[s]] ELSE cache
      /\ UNCHANGED <<now, registry, settings, pinned>>
  BY <1>2 DEF Rank
<1>4. \A s \in full : QuarantineOn(scores[s]) \in Quarantine
  BY QuarantineType DEF IInv, TypeOK
<1>5. exhausted' \in [Sub -> Quarantine \cup {None}]
  BY <1>3, <1>4 DEF IInv, TypeOK
<1>6. cache' \in [Sub -> Usage \cup {None}]
  BY <1>3 DEF IInv, TypeOK
<1>7. Released(full) \in [Provider -> Sub \cup {None}]
  BY DEF IInv, TypeOK, Released
<1>8. ASSUME NEW p \in Provider, Released(full)[p] # None
      PROVE  /\ ProviderOf[Released(full)[p]] = p
             /\ exhausted'[Released(full)[p]] = None
  <2>1. Released(full)[p] = current[p] /\ current[p] \notin full /\ current[p] \in Sub
    BY <1>8 DEF Released, IInv, TypeOK
  <2>2. ProviderOf[current[p]] = p /\ exhausted[current[p]] = None
    BY <2>1, <1>8 DEF IInv, CurrentIsRoutable
  <2> HIDE DEF full
  <2> QED BY <2>1, <2>2, <1>3
<1>9. \A s \in cands : s \in c.live /\ exhausted'[s] = None
  BY <1>3 DEF RankCandidates
<1> HIDE DEF full, quarantined, cands
<1>10. \/ /\ Refuse(r, "AllExhausted")
          /\ current' = Released(full)
       \/ \E s \in cands :
            /\ Choose(r, s, "Strategy", Cardinality(cands))
            /\ current' = [Released(full) EXCEPT ![c.provider] = s]
            /\ cursor' = IF c.strategy = "round-robin"
                         THEN [cursor EXCEPT ![c.provider] = s] ELSE cursor
  BY <1>2 DEF Rank, full, quarantined, cands
<1>11. CASE /\ Refuse(r, "AllExhausted")
            /\ current' = Released(full)
  <2>1. cursor' \in [Provider -> Sub \cup {None}]
    BY <1>11 DEF Refuse, IInv, TypeOK
  <2>2. /\ DOMAIN call' = Request
        /\ \A q \in Request : CallOK(call'[q]) /\ CallInv(call'[q])
    BY <1>1, <1>11 DEF Refuse, IInv, TypeOK, CallOK, Asking, CallInv
  <2>3. CurrentIsRoutable'
    BY <1>8, <1>11 DEF CurrentIsRoutable
  <2> QED BY <1>3, <1>5, <1>6, <1>7, <1>11, <2>1, <2>2, <2>3 DEF IInv, TypeOK
<1>12. ASSUME NEW s \in cands,
              Choose(r, s, "Strategy", Cardinality(cands)),
              current' = [Released(full) EXCEPT ![c.provider] = s],
              cursor' = IF c.strategy = "round-robin"
                        THEN [cursor EXCEPT ![c.provider] = s] ELSE cursor
       PROVE  IInv'
  <2>1. /\ s \in Sub /\ s \in c.admitted /\ c.provider \in Provider
        /\ ProviderOf[s] = c.provider /\ exhausted'[s] = None
    BY <1>1, <1>9, <1>12 DEF Asking, Scoped
  <2>2. current' \in [Provider -> Sub \cup {None}] /\ cursor' \in [Provider -> Sub \cup {None}]
    BY <1>7, <1>12, <2>1 DEF IInv, TypeOK
  <2>3. /\ DOMAIN call' = Request
        /\ \A q \in Request : CallOK(call'[q]) /\ CallInv(call'[q])
    BY <1>1, <1>12, <2>1 DEF Choose, IInv, TypeOK, CallOK, Asking, CallInv, Scoped
  <2>4. CurrentIsRoutable'
    BY <1>7, <1>8, <1>12, <2>1 DEF CurrentIsRoutable
  <2> QED BY <1>3, <1>5, <1>6, <2>2, <2>3, <2>4 DEF IInv, TypeOK
<1> QED BY <1>10, <1>11, <1>12

LEMMA StartInv ==
  ASSUME IInv, NEW r \in Request, Start(r)
  PROVE  IInv'
<1>1. call[r].sub \in Sub
  BY DEF IInv, TypeOK, CallOK, Start, Idle
<1>2. CallOK(call'[r]) /\ CallInv(call'[r])
  BY <1>1 DEF Start, IInv, TypeOK, CallOK, CallInv, Idle
<1> QED BY <1>2 DEF Start, routerVars, IInv, TypeOK, CurrentIsRoutable

\* The end of an attempt, a failure included, and the headers it brought.
LEMMA AttemptInv ==
  ASSUME IInv, NEW r \in Request,
         \/ Finish(r) \/ Observe(r)
         \/ \E class \in FailureClass, u \in Reading \cup {None} : Fail(r, class, u)
  PROVE  IInv'
<1>1. call[r].pc = "sending" /\ call[r].sub \in Sub
  BY DEF IInv, TypeOK, CallOK, Finish, Observe, Fail, Idle
<1>2. CallOK(Idle) /\ CallInv(Idle)
  BY DEF CallOK, CallInv, Idle
<1>3. CASE Finish(r)
  BY <1>2, <1>3 DEF Finish, routerVars, IInv, TypeOK, CurrentIsRoutable
<1>4. ASSUME NEW class \in FailureClass, NEW u \in Reading \cup {None}, Fail(r, class, u)
      PROVE  IInv'
  <2>1. u \in Usage \cup {None}  BY ReadingAssumption
  <2>2. cache' \in [Sub -> Usage \cup {None}]
    BY <1>1, <1>4, <2>1 DEF Fail, IInv, TypeOK
  <2>3. /\ exhausted' \in [Sub -> Quarantine \cup {None}]
        /\ current' \in [Provider -> Sub \cup {None}]
        /\ CurrentIsRoutable'
    BY <1>1, <1>4, <2>1, OnFailureKeeps DEF Fail
  <2>4. CallOK(call'[r]) /\ CallInv(call'[r])
    BY <1>1, <1>4 DEF Fail, IInv, TypeOK, CallOK, CallInv
  <2> QED BY <1>4, <2>2, <2>3, <2>4 DEF Fail, IInv, TypeOK
<1>5. CASE Observe(r)
  <2>1. PICK u \in Usage :
          /\ cache' = [cache EXCEPT ![call[r].sub] = u]
          /\ IF IsExhausted(u) THEN Exhaust(call[r].sub, u) ELSE UNCHANGED <<exhausted, current>>
    BY <1>5, ReadingAssumption DEF Observe
  <2>2. cache' \in [Sub -> Usage \cup {None}]
    BY <1>1, <2>1 DEF IInv, TypeOK
  <2>3. /\ exhausted' \in [Sub -> Quarantine \cup {None}]
        /\ current' \in [Provider -> Sub \cup {None}]
        /\ CurrentIsRoutable'
    BY <1>1, <2>1, ExhaustKeeps DEF IInv, TypeOK, CurrentIsRoutable
  <2> QED BY <1>5, <2>2, <2>3 DEF Observe, IInv, TypeOK
<1> QED BY <1>3, <1>4, <1>5

LEMMA RecordUsageInv ==
  ASSUME IInv, NEW s \in Sub, RecordUsage(s)
  PROVE  IInv'
<1>1. \/ \E u \in Usage :
           /\ cache' = [cache EXCEPT ![s] = u]
           /\ IF IsExhausted(u) THEN Exhaust(s, u) ELSE LiftIfRecovered(s, u)
      \/ cache' = [cache EXCEPT ![s] = None] /\ UNCHANGED <<exhausted, current>>
  BY ReadingAssumption DEF RecordUsage
<1>2. cache' \in [Sub -> Usage \cup {None}]
  BY <1>1 DEF IInv, TypeOK
<1>3. /\ exhausted' \in [Sub -> Quarantine \cup {None}]
      /\ current' \in [Provider -> Sub \cup {None}]
      /\ CurrentIsRoutable'
  <2>1. ASSUME NEW u \in Usage, LiftIfRecovered(s, u)
        PROVE  /\ exhausted' \in [Sub -> Quarantine \cup {None}]
               /\ UNCHANGED current /\ CurrentIsRoutable'
    <3>1. exhausted' \in [Sub -> Quarantine \cup {None}]
      BY <2>1, SweptType DEF LiftIfRecovered, IInv
    <3>2. \A q \in Sub : exhausted[q] = None => exhausted'[q] = None
      BY <2>1 DEF LiftIfRecovered, Swept
    <3> QED BY <2>1, <3>1, <3>2 DEF LiftIfRecovered, IInv, TypeOK, CurrentIsRoutable
  <2> QED BY <1>1, <2>1, ExhaustKeeps DEF IInv, TypeOK, CurrentIsRoutable
<1> QED BY <1>2, <1>3 DEF RecordUsage, IInv, TypeOK

\* Settings, pin, registry and the early end of a quarantine.
LEMMA EngineInv ==
  ASSUME IInv, Engine
  PROVE  IInv'
<1>1. ASSUME NEW new \in Settings, SetSettings(new)  PROVE IInv'
  BY <1>1 DEF SetSettings, IInv, TypeOK, CurrentIsRoutable
<1>2. ASSUME NEW s \in Sub \cup {None}, Pin(s)  PROVE IInv'
  BY <1>2 DEF Pin, IInv, TypeOK, CurrentIsRoutable
<1>3. ASSUME NEW s \in Sub, ClearExhaustion(s)  PROVE IInv'
  BY <1>3 DEF ClearExhaustion, IInv, TypeOK, CurrentIsRoutable
<1>4. ASSUME NEW s \in Sub, ToggleSub(s)  PROVE IInv'
  BY <1>4 DEF ToggleSub, routerVars, IInv, TypeOK, CurrentIsRoutable
<1>5. ASSUME NEW s \in Sub, RemoveSub(s)  PROVE IInv'
  <2>1. TypeOK'
    BY <1>5 DEF RemoveSub, Released, IInv, TypeOK
  <2>2. CurrentIsRoutable'
    BY <1>5 DEF RemoveSub, Released, IInv, TypeOK, CurrentIsRoutable
  <2> QED BY <1>5, <2>1, <2>2 DEF RemoveSub, IInv
<1> QED BY <1>1, <1>2, <1>3, <1>4, <1>5, RecordUsageInv DEF Engine

LEMMA NextInv == IInv /\ [Next]_vars => IInv'
<1> SUFFICES ASSUME IInv, [Next]_vars  PROVE IInv'
  OBVIOUS
<1>1. CASE Tick
  BY <1>1 DEF Tick, routerVars, IInv, TypeOK, CurrentIsRoutable
<1>2. CASE Engine
  BY <1>2, EngineInv
<1>3. ASSUME NEW r \in Request, Step(r)  PROVE IInv'
  BY <1>3, NewRequestInv, DecideInv, UsageRoundInv, StartInv, AttemptInv DEF Step
<1>4. CASE UNCHANGED vars
  BY <1>4 DEF vars, routerVars, IInv, TypeOK, CurrentIsRoutable
<1> QED BY <1>1, <1>2, <1>3, <1>4 DEF Next

\* IInv holds in every state of every behaviour of the router.
THEOREM Invariance == Spec => []IInv
BY InitInv, NextInv, PTL DEF Spec

\* Every variable of the router keeps its type.
THEOREM TypeCorrect == Spec => []TypeOK
<1>1. IInv => TypeOK  BY DEF IInv
<1> QED BY Invariance, <1>1, PTL

\* No sub that stickiness or a frozen proxy holds on to is quarantined.
THEOREM CurrentRoutable == Spec => []CurrentIsRoutable
<1>1. IInv => CurrentIsRoutable  BY DEF IInv
<1> QED BY Invariance, <1>1, PTL

\* No request is given a sub outside its provider, its pool, or the subs that
\* were usable when it asked.
THEOREM ServedInside == Spec => []ServedWithinRequest
<1>1. IInv => ServedWithinRequest
  BY DEF IInv, CallInv, Scoped, ServedWithinRequest
<1> QED BY Invariance, <1>1, PTL

----------------------------------------------------------------------------
(* What a step may never do. *)

\* No selection returns a sub that is in the quarantine map as it returns.
THEOREM SelectionsAvoidQuarantine == Spec => NoQuarantinedSelection
<1> DEFINE Picks(r) == call[r].pc # "chosen" /\ call'[r].pc = "chosen"
<1>1. ASSUME IInv, Next, NEW r \in Request, Picks(r)
      PROVE  exhausted'[call'[r].sub] = None
  <2>1. DOMAIN call = Request  BY <1>1 DEF IInv, TypeOK
  <2>2. CASE Tick \/ Engine
    BY <1>1, <2>2 DEF Tick, Engine, RecordUsage, SetSettings, Pin, ClearExhaustion, ToggleSub,
       RemoveSub
  <2>3. ASSUME NEW q \in Request, Step(q)  PROVE exhausted'[call'[r].sub] = None
    <3>1. CASE Decide(q)
      <4> DEFINE c    == call[q]
                 live == IF c.provider \in settings.proxied
                         THEN {s \in c.admitted : Swept[s] = None} ELSE {}
      <4>1. \/ Refuse(q, Refusal(c))
            \/ \E s \in live : \E reason, n : Choose(q, s, reason, n)
            \/ call' = [call EXCEPT ![q] =
                 [pc |-> "ranking", provider |-> @.provider, pool |-> @.pool,
                  usable |-> @.usable, admitted |-> @.admitted, load |-> @.load,
                  live |-> live, strategy |-> settings.strategy]]
        BY <3>1 DEF Decide
      <4>2. \A s \in live : exhausted'[s] = None
        BY <3>1 DEF Decide
      <4> HIDE DEF live
      <4>3. CASE Refuse(q, Refusal(c))
        BY <1>1, <2>1, <4>3 DEF Refuse
      <4>4. ASSUME NEW s \in live, NEW reason, NEW n, Choose(q, s, reason, n)
            PROVE  exhausted'[call'[r].sub] = None
        BY <1>1, <2>1, <4>2, <4>4 DEF Choose
      <4> QED BY <1>1, <2>1, <4>1, <4>3, <4>4
    <3>2. CASE UsageRound(q)
      <4>1. PICK scores : Rank(q, scores)
        BY <3>2 DEF UsageRound
      <4>2. CASE Refuse(q, "AllExhausted")
        BY <1>1, <2>1, <4>2 DEF Refuse
      <4>3. ASSUME NEW s, exhausted'[s] = None, NEW n, Choose(q, s, "Strategy", n)
            PROVE  exhausted'[call'[r].sub] = None
        BY <1>1, <2>1, <4>3 DEF Choose
      <4>4. \/ Refuse(q, "AllExhausted")
            \/ \E s, n : exhausted'[s] = None /\ Choose(q, s, "Strategy", n)
        BY <4>1 DEF Rank, RankCandidates
      <4> QED BY <4>2, <4>3, <4>4
    <3>3. CASE NewRequest(q)
      BY <1>1, <2>1, <3>3 DEF NewRequest, Ask, Admits
    <3>4. CASE Start(q) \/ Finish(q) \/ Observe(q)
      BY <1>1, <2>1, <3>4 DEF Start, Finish, Observe, Idle
    <3>5. ASSUME NEW class \in FailureClass, NEW u \in Reading \cup {None}, Fail(q, class, u)
          PROVE  exhausted'[call'[r].sub] = None
      BY <1>1, <2>1, <3>5 DEF Fail, Idle
    <3> QED BY <2>3, <3>1, <3>2, <3>3, <3>4, <3>5 DEF Step
  <2> QED BY <1>1, <2>2, <2>3 DEF Next
<1>2. IInv /\ [Next]_vars =>
        [\A r \in Request : Picks(r) => exhausted'[call'[r].sub] = None]_vars
  BY <1>1
<1> QED BY Invariance, <1>2, PTL DEF Spec, NoQuarantinedSelection

\* A quarantine that is imposed, on whatever reading or on none, has an end.
LEMMA QuarantineIsSome ==
  ASSUME IInv, NEW u \in Usage \cup {None}
  PROVE  QuarantineOn(u) # None
BY QuarantineType, AbsentAssumption DEF IInv, TypeOK

\* Every way a sub comes to be in the map: by its own reading, or its own failure.
LEMMA EntersWithCause ==
  ASSUME IInv, Next, NEW s \in Sub, exhausted[s] = None, exhausted'[s] # None
  PROVE  \/ cache'[s] # None /\ IsExhausted(cache'[s])
         \/ \E r \in Request :
              /\ call'[r].pc = "failed" /\ call'[r].sub = s
              /\ call'[r].class \in {"UsageLimit", "AuthPermanent", "RefreshPermanent"}
<1> DEFINE Cause == \/ cache'[s] # None /\ IsExhausted(cache'[s])
                    \/ \E r \in Request :
                         /\ call'[r].pc = "failed" /\ call'[r].sub = s
                         /\ call'[r].class \in {"UsageLimit", "AuthPermanent", "RefreshPermanent"}
<1> SUFFICES Cause  OBVIOUS
<1>1. /\ exhausted \in [Sub -> Quarantine \cup {None}] /\ cache \in [Sub -> Usage \cup {None}]
      /\ DOMAIN call = Request
  BY DEF IInv, TypeOK
<1>2. ASSUME NEW q \in Sub, NEW u, Exhaust(q, u)  PROVE q = s
  BY <1>1, <1>2 DEF Exhaust
<1>3. ~ (exhausted' = Swept)
  BY DEF Swept
<1>4. CASE Tick
  BY <1>4 DEF Tick, routerVars
<1>5. CASE Engine
  <2>1. PICK q \in Sub : RecordUsage(q) \/ ClearExhaustion(q) \/ RemoveSub(q)
    BY <1>5 DEF Engine, ToggleSub, Pin, SetSettings, routerVars
  <2>2. CASE ClearExhaustion(q) \/ RemoveSub(q)
    BY <1>1, <2>2 DEF ClearExhaustion, RemoveSub
  <2>3. CASE RecordUsage(q)
    <3>1. PICK u \in Usage : /\ cache' = [cache EXCEPT ![q] = u]
                             /\ IF IsExhausted(u) THEN Exhaust(q, u) ELSE LiftIfRecovered(q, u)
      BY <2>3, ReadingAssumption DEF RecordUsage
    <3>2. ~ LiftIfRecovered(q, u)
      BY DEF LiftIfRecovered, Swept
    <3> QED BY <1>1, <1>2, <3>1, <3>2, AbsentAssumption
  <2> QED BY <2>1, <2>2, <2>3
<1>6. ASSUME NEW r \in Request, Step(r)  PROVE Cause
  <2>1. ~ NewRequest(r) /\ ~ Start(r) /\ ~ Finish(r) /\ ~ Decide(r)
    BY <1>3 DEF NewRequest, Start, Finish, Decide, routerVars
  <2>2. CASE UsageRound(r)
    <3> DEFINE c == call[r]
    <3>1. c.live \subseteq Sub  BY <2>2 DEF IInv, TypeOK, CallOK, UsageRound, Idle
    <3>2. PICK scores \in [c.live -> IF NeedsUsage(c.strategy) THEN Reading \cup {None} ELSE {None}] :
            Rank(r, scores)
      BY <2>2 DEF UsageRound
    <3>3. s \in c.live /\ scores[s] # None /\ IsExhausted(scores[s])
      BY <3>2 DEF Rank
    <3>4. NeedsUsage(c.strategy)  BY <3>2, <3>3
    <3>5. cache'[s] = scores[s]
      BY <3>2, <3>3, <3>4 DEF Rank
    <3> QED BY <3>3, <3>5
  <2>3. CASE Observe(r)
    <3>1. PICK u \in Usage :
            /\ cache' = [cache EXCEPT ![call[r].sub] = u]
            /\ IF IsExhausted(u) THEN Exhaust(call[r].sub, u) ELSE UNCHANGED <<exhausted, current>>
      BY <2>3, ReadingAssumption DEF Observe
    <3>2. call[r].sub \in Sub
      BY <2>3 DEF IInv, TypeOK, CallOK, Observe, Idle
    <3> QED BY <1>1, <1>2, <3>1, <3>2, AbsentAssumption
  <2>4. ASSUME NEW class \in FailureClass, NEW u \in Reading \cup {None}, Fail(r, class, u)
        PROVE  Cause
    <3>1. call[r].sub \in Sub
      BY <2>4 DEF IInv, TypeOK, CallOK, Fail, Idle
    <3>2. Quarantines(class) /\ Exhaust(call[r].sub, u)
      BY <2>4 DEF Fail, OnFailure
    <3>3. call'[r] = [pc |-> "failed", sub |-> s, class |-> class]
      BY <1>1, <1>2, <2>4, <3>1, <3>2 DEF Fail
    <3> QED BY <3>2, <3>3 DEF Quarantines
  <2> QED BY <1>6, <2>1, <2>2, <2>3, <2>4 DEF Step
<1> QED BY <1>4, <1>5, <1>6 DEF Next

\* A sub is quarantined only for what it read or did itself.
THEOREM QuarantinesAreCaused == Spec => QuarantineHasCause
<1>1. IInv /\ [Next]_vars =>
        [\A s \in Sub : exhausted[s] = None /\ exhausted'[s] # None =>
           \/ cache'[s] # None /\ IsExhausted(cache'[s])
           \/ \E r \in Request :
                /\ call'[r].pc = "failed" /\ call'[r].sub = s
                /\ call'[r].class \in {"UsageLimit", "AuthPermanent", "RefreshPermanent"}]_vars
  BY EntersWithCause
<1> QED BY Invariance, <1>1, PTL DEF Spec, QuarantineHasCause

\* Every way a quarantine that has not run out comes to an end.
LEMMA LeavesWithCause ==
  ASSUME IInv, Next, NEW s \in Sub,
         exhausted[s] # None, exhausted[s].until > now, exhausted'[s] = None
  PROVE  \/ ClearExhaustion(s)
         \/ RemoveSub(s)
         \/ cache'[s] # None /\ Recovered(cache'[s], exhausted[s].at_pct)
<1> DEFINE Cause == \/ ClearExhaustion(s)
                    \/ RemoveSub(s)
                    \/ cache'[s] # None /\ Recovered(cache'[s], exhausted[s].at_pct)
<1> SUFFICES Cause  OBVIOUS
<1>1. /\ exhausted \in [Sub -> Quarantine \cup {None}] /\ cache \in [Sub -> Usage \cup {None}]
  BY DEF IInv, TypeOK
<1>2. ASSUME NEW q, NEW u \in Usage \cup {None}  PROVE ~ Exhaust(q, u)
  BY <1>1, QuarantineIsSome DEF Exhaust
<1>3. Swept[s] = exhausted[s]
  BY DEF Swept
<1>4. CASE Tick
  BY <1>4 DEF Tick, routerVars
<1>5. CASE Engine
  <2>1. PICK q \in Sub : RecordUsage(q) \/ ClearExhaustion(q) \/ RemoveSub(q)
    BY <1>5 DEF Engine, ToggleSub, Pin, SetSettings, routerVars
  <2>2. CASE ClearExhaustion(q) \/ RemoveSub(q)
    <3>1. q = s
      BY <1>1, <2>2 DEF ClearExhaustion, RemoveSub
    <3> QED BY <2>2, <3>1
  <2>3. CASE RecordUsage(q)
    <3>1. PICK u \in Usage : /\ cache' = [cache EXCEPT ![q] = u]
                             /\ IF IsExhausted(u) THEN Exhaust(q, u) ELSE LiftIfRecovered(q, u)
      BY <2>3, ReadingAssumption DEF RecordUsage
    <3>2. LiftIfRecovered(q, u)
      BY <1>2, <3>1
    <3>3. q = s /\ Recovered(u, exhausted[s].at_pct)
      BY <1>3, <3>2 DEF LiftIfRecovered, Swept
    <3> QED BY <1>1, <3>1, <3>3, AbsentAssumption
  <2> QED BY <2>1, <2>2, <2>3
<1>6. ASSUME NEW r \in Request, Step(r)  PROVE FALSE
  <2>1. ~ NewRequest(r) /\ ~ Start(r) /\ ~ Finish(r) /\ ~ Decide(r)
    BY <1>3 DEF NewRequest, Start, Finish, Decide, routerVars
  <2>2. CASE UsageRound(r)
    <3>1. PICK scores \in [call[r].live -> Usage \cup {None}] : Rank(r, scores)
      BY <2>2, ReadingAssumption DEF UsageRound
    <3>2. exhausted'[s] = exhausted[s] \/ \E u \in Usage : exhausted'[s] = QuarantineOn(u)
      BY <3>1 DEF Rank
    <3> QED BY <3>2, QuarantineIsSome
  <2>3. CASE Observe(r)
    <3>1. \E u \in Usage : Exhaust(call[r].sub, u) \/ UNCHANGED exhausted
      BY <2>3, ReadingAssumption DEF Observe
    <3> QED BY <1>2, <3>1
  <2>4. ASSUME NEW class \in FailureClass, NEW u \in Reading \cup {None}, Fail(r, class, u)
        PROVE  FALSE
    BY <1>2, <2>4, ReadingAssumption DEF Fail, OnFailure
  <2> QED BY <1>6, <2>1, <2>2, <2>3, <2>4 DEF Step
<1> QED BY <1>4, <1>5, <1>6 DEF Next

\* A quarantine ends early only by the user, a removal, or proof of recovery.
THEOREM QuarantinesEndForCause == Spec => QuarantineEndsForCause
<1>1. IInv /\ [Next]_vars =>
        [\A s \in Sub :
           exhausted[s] # None /\ exhausted[s].until > now /\ exhausted'[s] = None =>
             \/ ClearExhaustion(s)
             \/ RemoveSub(s)
             \/ cache'[s] # None /\ Recovered(cache'[s], exhausted[s].at_pct)]_vars
  BY LeavesWithCause
<1> QED BY Invariance, <1>1, PTL DEF Spec, QuarantineEndsForCause
=============================================================================
