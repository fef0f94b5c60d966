---------------------------- MODULE PartsProofs -----------------------------
(***************************************************************************)
(* Proofs about four of the machines of Parts: what a request costs        *)
(* (Forwarding), how often and how lately an account was asked for its     *)
(* figures (UsageCache), what a snapshot says of its health (Rounds), and  *)
(* what a request for the models asks of whom (Catalog).  They hold for    *)
(* any number of accounts, callers, attempts and events: the bounds TLC    *)
(* needs are guards here like any other.                                   *)
(***************************************************************************)
EXTENDS Parts, Sums

----------------------------------------------------------------------------
(* Forwarding. *)

\* The most that was sent before the request was put to the account this way.
Before(step) ==
  CASE ~ step.resent /\ ~ step.behind401 -> 0
    [] ~ step.resent /\ step.behind401 -> Resends + 1
    [] step.resent /\ ~ step.behind401 -> 2 * (Resends + 1)
    [] OTHER -> 3 * (Resends + 1)

Attempts == [account : Target, sent : Nat, paid : Nat]

Paid(attempt) == attempt.paid <= 2 /\ attempt.sent <= 4 * (Resends + 1)

\* What the attempt under way has cost so far.
Costs(attempt, step) ==
  /\ attempt.paid <= IF step.resent THEN 1 ELSE 0
  /\ step.at = "fresh" => attempt.sent <= Before(step)
  /\ step.at = "send" => step.tries <= Resends /\ attempt.sent <= Before(step) + step.tries
  /\ step.at = "answered" => attempt.sent <= Before(step) + Resends + 1

UnderWay == req.step.at \in {"fresh", "send", "answered"}

ForwardingType ==
  /\ standing \in SUBSET Target /\ known \in SUBSET Target /\ pool \in SUBSET Target
  /\ asked \in Seq(Attempts)
  /\ req \in F!Requests \cup {None}

Asked ==
  IF req = None THEN asked = <<>>
  ELSE /\ req.gate \subseteq arrived
       /\ Len(asked) <= req.no
       /\ req.max = None => req.no = 0
       /\ req.max # None => req.no \in 1..req.max /\ req.max <= Cardinality(Target)
       /\ UnderWay => Len(asked) > 0 /\ Costs(asked[Len(asked)], req.step)

ForwardingInv ==
  /\ ForwardingType
  /\ Asked
  /\ \A i \in 1..Len(asked) : asked[i].account \in arrived /\ Paid(asked[i])

LEMMA TargetCardinality == \A S : F!Cardinality(S) = Cardinality(S)
BY DEF F!Cardinality, Cardinality

LEMMA ForwardingStarts ==
  ASSUME F!Init
  PROVE  ForwardingInv
BY DEF F!Init, ForwardingInv, ForwardingType, Asked, Attempts

\* Where a request is in the middle of an attempt.
LEMMA AttemptUnderWay ==
  ASSUME ForwardingInv, req # None, UnderWay
  PROVE  /\ req \in F!Requests /\ asked \in Seq(Attempts)
         /\ Len(asked) \in 1..Len(asked) /\ Len(asked) \in Nat
         /\ asked[Len(asked)] \in Attempts
         /\ Costs(asked[Len(asked)], req.step)
         /\ req.step.resent \in BOOLEAN /\ req.step.behind401 \in BOOLEAN
         /\ req.step.at \in {"send", "answered"} => req.step.tries \in Nat
<1>1. req \in F!Requests /\ asked \in Seq(Attempts)
  BY DEF ForwardingInv, ForwardingType
<1>2. Len(asked) \in 1..Len(asked) /\ Costs(asked[Len(asked)], req.step)
  BY <1>1 DEF ForwardingInv, Asked
<1>3. req.step \in F!Steps  BY <1>1 DEF F!Requests
<1>4. /\ req.step.resent \in BOOLEAN /\ req.step.behind401 \in BOOLEAN
      /\ req.step.at \in {"send", "answered"} => req.step.tries \in Nat
  BY <1>3 DEF F!Steps, UnderWay
<1> QED BY <1>1, <1>2, <1>4

\* What a step leaves of the invariant when the request keeps its gate, its
\* number and its allowance.
LEMMA SameRequest ==
  ASSUME ForwardingInv, req # None, NEW step \in F!Steps, NEW terminal \in F!Terminals,
         req' = [req EXCEPT !.step = step, !.terminal = terminal],
         arrived' = arrived,
         standing' \in SUBSET Target, known' \in SUBSET Target, pool' \in SUBSET Target,
         asked' \in Seq(Attempts), Len(asked') = Len(asked),
         \A i \in 1..Len(asked) : asked'[i].account = asked[i].account /\ Paid(asked'[i]),
         step.at \in {"fresh", "send", "answered"} =>
           UnderWay /\ Costs(asked'[Len(asked)], step)
  PROVE  ForwardingInv'
<1>1. req \in F!Requests  BY DEF ForwardingInv, ForwardingType
<1>2. req' \in F!Requests /\ req' # None  BY <1>1, RequestAssumption DEF F!Requests
<1>3. /\ req'.gate = req.gate /\ req'.no = req.no /\ req'.max = req.max
      /\ req'.step = step
  BY <1>1 DEF F!Requests
<1>4. ForwardingType'  BY <1>2 DEF ForwardingType
<1>5. Asked'
  BY <1>2, <1>3 DEF Asked, UnderWay, ForwardingInv
<1> QED BY <1>4, <1>5 DEF ForwardingInv, Paid

\* A step that is only taken changes nothing else of the request.
LEMMA StepOnly ==
  ASSUME req \in F!Requests, NEW step \in F!Steps, req' = [req EXCEPT !.step = step]
  PROVE  req' = [req EXCEPT !.step = step, !.terminal = req.terminal] /\ req.terminal \in F!Terminals
BY DEF F!Requests

LEMMA OverIsStep == \A status \in F!Statuses : F!Over(status) \in F!Steps /\ F!Over(status).at = "over"
BY DEF F!Over, F!Steps

LEMMA SendingIsStep ==
  ASSUME NEW resent \in BOOLEAN, NEW behind401 \in BOOLEAN
  PROVE  /\ F!Sending(resent, behind401) \in F!Steps
         /\ F!Sending(resent, behind401).at = "send"
         /\ F!Sending(resent, behind401).resent = resent
         /\ F!Sending(resent, behind401).behind401 = behind401
         /\ F!Sending(resent, behind401).tries = 0
BY DEF F!Sending, F!Steps

LEMMA OverKeeps ==
  ASSUME ForwardingInv, req # None, NEW status \in F!Statuses, F!Answer(status),
         UNCHANGED <<arrived, asked, standing, known, pool>>
  PROVE  ForwardingInv'
<1>1. req \in F!Requests /\ F!Over(status) \in F!Steps /\ F!Over(status).at = "over"
  BY OverIsStep DEF ForwardingInv, ForwardingType
<1>2. req' = [req EXCEPT !.step = F!Over(status)]  BY DEF F!Answer
<1>3. req' = [req EXCEPT !.step = F!Over(status), !.terminal = req.terminal] /\ req.terminal \in F!Terminals
  BY <1>1, <1>2, StepOnly
<1>4. /\ asked' \in Seq(Attempts) /\ Len(asked') = Len(asked)
      /\ \A i \in 1..Len(asked) : asked'[i].account = asked[i].account /\ Paid(asked'[i])
      /\ standing' \in SUBSET Target /\ known' \in SUBSET Target /\ pool' \in SUBSET Target
  BY DEF ForwardingInv, ForwardingType
<1> QED BY <1>1, <1>3, <1>4, SameRequest

LEMMA RotateKeeps ==
  ASSUME ForwardingInv, req # None, UnderWay, NEW terminal \in F!Terminals, F!Rotate(terminal),
         UNCHANGED <<arrived, asked>>
  PROVE  ForwardingInv'
<1> DEFINE step == [at |-> "select"]
<1>1. req \in F!Requests /\ step \in F!Steps  BY DEF ForwardingInv, ForwardingType, F!Steps
<1>2. req' = [req EXCEPT !.terminal = terminal, !.step = step]  BY DEF F!Rotate
<1>3. req' = [req EXCEPT !.step = step, !.terminal = terminal]  BY <1>1, <1>2 DEF F!Requests
<1>4. /\ asked' \in Seq(Attempts) /\ Len(asked') = Len(asked)
      /\ \A i \in 1..Len(asked) : asked'[i].account = asked[i].account /\ Paid(asked'[i])
      /\ standing' \in SUBSET Target /\ known' \in SUBSET Target /\ pool' \in SUBSET Target
  BY DEF ForwardingInv, ForwardingType, F!Rotate
<1> QED BY <1>1, <1>3, <1>4, SameRequest

LEMMA ArriveKeeps ==
  ASSUME ForwardingInv, F!Arrive
  PROVE  ForwardingInv'
<1> USE DEF F!Arrive, F!engine
<1>1. req = None /\ asked = <<>>  BY DEF ForwardingInv, Asked
<1>2. pool \cap known \in SUBSET Target  BY DEF ForwardingInv, ForwardingType
<1>3. req' \in F!Requests
  <2>1. [at |-> "select"] \in F!Steps  BY DEF F!Steps
  <2>2. "429" \in F!Terminals  BY DEF F!Terminals
  <2> QED BY <1>2, <2>1, <2>2 DEF F!Requests
<1>4. req' # None  BY <1>3, RequestAssumption
<1>5. ForwardingType'  BY <1>3 DEF ForwardingInv, ForwardingType
<1>6. Asked'  BY <1>1, <1>4 DEF Asked, UnderWay
<1> QED BY <1>1, <1>5, <1>6 DEF ForwardingInv

LEMMA SelectKeeps ==
  ASSUME ForwardingInv, F!Select
  PROVE  ForwardingInv'
<1> USE DEF F!engine
<1> DEFINE candidates == F!Members \cap standing
<1>0. req # None /\ req.step.at = "select" /\ ~ UnderWay /\ UNCHANGED <<standing, known, pool, arrived>>
  BY DEF F!Select, UnderWay
<1>1. req \in F!Requests /\ asked \in Seq(Attempts) /\ Asked
  BY <1>0 DEF ForwardingInv, ForwardingType
<1>2. CASE ~ F!CanTry /\ F!Answer(req.terminal) /\ UNCHANGED asked
  <2>1. req.terminal \in F!Statuses  BY <1>1 DEF F!Requests, F!Statuses
  <2> QED BY <2>1, <1>0, <1>2, OverKeeps
<1>3. CASE candidates = {} /\ F!Answer("refused") /\ UNCHANGED asked
  <2>1. "refused" \in F!Statuses  BY DEF F!Statuses
  <2> HIDE DEF candidates
  <2> QED BY <2>1, <1>0, <1>3, OverKeeps
<1>4. ASSUME F!CanTry, NEW target \in candidates,
             req' = [req EXCEPT !.no = @ + 1, !.max = F!Allowed(F!Cardinality(candidates)),
                       !.step = IF target \in known THEN F!Fresh ELSE [at |-> "select"]],
             asked' = IF target \in known
                      THEN Append(asked, [account |-> target, sent |-> 0, paid |-> 0]) ELSE asked
      PROVE  ForwardingInv'
  <2> DEFINE max == F!Allowed(F!Cardinality(candidates))
             step == IF target \in known THEN F!Fresh ELSE [at |-> "select"]
  <2>1. req.gate \in SUBSET Target /\ req.no \in Nat /\ req.max \in Nat \cup {None}
        /\ target \in req.gate /\ target \in Target
    BY <1>1, <1>4 DEF F!Requests, F!Members
  <2>2. step \in F!Steps  BY DEF F!Steps, F!Fresh
  <2>3. Cardinality(candidates) \in 1..Cardinality(Target) /\ Cardinality(Target) \in Nat
    <3>1. candidates \in SUBSET Target  BY <2>1 DEF F!Members
    <3>2. IsFiniteSet(candidates)  BY <3>1, TargetAssumption, FS_Subset
    <3>3. Cardinality(candidates) \in Nat /\ Cardinality(Target) \in Nat
      BY <3>2, TargetAssumption, FS_CardinalityType
    <3>4. Cardinality(candidates) # 0  BY <3>2, <1>4, FS_EmptySet
    <3>5. Cardinality(candidates) <= Cardinality(Target)
      BY <3>1, TargetAssumption, FS_Subset
    <3> HIDE DEF candidates
    <3> QED BY <3>3, <3>4, <3>5
  <2>4. /\ max \in Nat /\ max # None
        /\ req.no + 1 \in 1..max /\ max <= Cardinality(Target)
    <3>1. F!Cardinality(candidates) = Cardinality(candidates)  BY TargetCardinality
    <3>2. CASE req.no = 0
      <4>1. max = Cardinality(candidates)  BY <3>1, <3>2 DEF F!Allowed
      <4> HIDE DEF max, candidates
      <4> QED BY <4>1, <3>2, <2>3, RequestAssumption
    <3>3. CASE req.no # 0
      <4>1. max = req.max  BY <3>3 DEF F!Allowed
      <4>2. req.max # None  BY <3>3, <1>0, <1>1 DEF Asked
      <4>3. req.no < req.max  BY <4>2, <1>4 DEF F!CanTry
      <4>4. req.max <= Cardinality(Target)  BY <4>2, <1>0, <1>1 DEF Asked
      <4> HIDE DEF max
      <4> QED BY <4>1, <4>2, <4>3, <4>4, <2>1
    <3> QED BY <3>2, <3>3
  <2> HIDE DEF max
  <2>5. /\ req'.gate = req.gate /\ req'.no = req.no + 1 /\ req'.max = max /\ req'.step = step
        /\ req' \in F!Requests
    <3>1. req' = [req EXCEPT !.no = req.no + 1, !.max = max, !.step = step]
      BY <1>1, <1>4 DEF F!Requests, max
    <3> HIDE DEF step
    <3>2. /\ req' = [gate |-> req.gate, no |-> req.no + 1, max |-> max, terminal |-> req.terminal, step |-> step]
          /\ req.terminal \in F!Terminals
      BY <3>1, <1>1 DEF F!Requests
    <3> QED BY <3>2, <2>1, <2>2, <2>4 DEF F!Requests
  <2>6. req' # None  BY <2>5, RequestAssumption
  <2>7. req.gate \subseteq arrived /\ Len(asked) <= req.no /\ Len(asked) \in Nat
    BY <1>0, <1>1 DEF Asked
  <2>8. CASE target \in known
    <3> DEFINE new == [account |-> target, sent |-> 0, paid |-> 0]
    <3>1. new \in Attempts  BY <2>1 DEF Attempts
    <3>2. asked' = Append(asked, new)  BY <1>4, <2>8
    <3>3. /\ asked' \in Seq(Attempts) /\ Len(asked') = Len(asked) + 1
          /\ asked'[Len(asked) + 1] = new
          /\ \A i \in 1..Len(asked) : asked'[i] = asked[i]
      <4> HIDE DEF new
      <4> QED BY <3>1, <3>2, <1>1
    <3>4. Paid(new)  BY TargetAssumption DEF Paid
    <3>5. req'.step = F!Fresh  BY <2>5, <2>8
    <3>6. Costs(new, F!Fresh)  BY DEF Costs, Before, F!Fresh
    <3>7. Asked'
      <4>1. Costs(asked'[Len(asked')], req'.step)  BY <3>3, <3>5, <3>6, <2>7
      <4>2. req'.gate \subseteq arrived' /\ Len(asked') <= req'.no /\ Len(asked') > 0
        BY <2>1, <2>5, <2>7, <3>3, <1>0
      <4>3. req'.max # None /\ req'.no \in 1..req'.max /\ req'.max <= Cardinality(Target)
        BY <2>4, <2>5
      <4> QED BY <4>1, <4>2, <4>3, <2>6 DEF Asked, Costs, Before
    <3>8. \A i \in 1..Len(asked') : asked'[i].account \in arrived' /\ Paid(asked'[i])
      BY <3>3, <3>4, <2>1, <2>7, <1>0 DEF ForwardingInv
    <3>9. ForwardingType'  BY <3>3, <2>5, <1>0 DEF ForwardingInv, ForwardingType
    <3> QED BY <3>7, <3>8, <3>9 DEF ForwardingInv, Paid
  <2>9. CASE target \notin known
    <3>1. asked' = asked /\ req'.step.at = "select"  BY <1>4, <2>5, <2>9
    <3>2. Asked'
      <4>1. req'.gate \subseteq arrived' /\ Len(asked') <= req'.no
        BY <2>1, <2>5, <2>7, <3>1, <1>0
      <4>2. req'.max # None /\ req'.no \in 1..req'.max /\ req'.max <= Cardinality(Target)
        BY <2>4, <2>5
      <4> QED BY <4>1, <4>2, <2>6, <3>1 DEF Asked, UnderWay
    <3>3. ForwardingType'  BY <3>1, <2>5, <1>0 DEF ForwardingInv, ForwardingType
    <3> QED BY <3>1, <3>2, <3>3, <1>0 DEF ForwardingInv, Paid
  <2> QED BY <2>8, <2>9
<1> QED BY <1>2, <1>3, <1>4 DEF F!Select

LEMMA EnsureFreshKeeps ==
  ASSUME ForwardingInv, F!EnsureFresh
  PROVE  ForwardingInv'
<1> USE DEF F!engine
<1>0. req # None /\ req.step.at = "fresh" /\ UnderWay /\ UNCHANGED <<asked, arrived>>
  BY DEF F!EnsureFresh, UnderWay
<1> DEFINE step == F!Sending(req.step.resent, req.step.behind401)
<1>1. CASE F!Step(step) /\ UNCHANGED F!engine
  <2>1. /\ req \in F!Requests /\ asked \in Seq(Attempts) /\ Len(asked) \in Nat
        /\ asked[Len(asked)] \in Attempts /\ Costs(asked[Len(asked)], req.step)
        /\ req.step.resent \in BOOLEAN /\ req.step.behind401 \in BOOLEAN
    BY <1>0, AttemptUnderWay
  <2>2. /\ step \in F!Steps /\ step.at = "send" /\ step.resent = req.step.resent
        /\ step.behind401 = req.step.behind401 /\ step.tries = 0
    BY <2>1, SendingIsStep
  <2> HIDE DEF step
  <2>3. Costs(asked[Len(asked)], step)
    <3>1. Before(step) = Before(req.step)  BY <2>2 DEF Before
    <3> QED BY <2>1, <2>2, <3>1, <1>0, TargetAssumption DEF Costs, Attempts, Before
  <2>4. req' = [req EXCEPT !.step = step]  BY <1>1 DEF F!Step
  <2>5. req' = [req EXCEPT !.step = step, !.terminal = req.terminal] /\ req.terminal \in F!Terminals
    BY <2>1, <2>2, <2>4, StepOnly
  <2>6. /\ asked' \in Seq(Attempts) /\ Len(asked') = Len(asked)
        /\ \A i \in 1..Len(asked) : asked'[i].account = asked[i].account /\ Paid(asked'[i])
        /\ standing' \in SUBSET Target /\ known' \in SUBSET Target /\ pool' \in SUBSET Target
    BY <1>0, <1>1 DEF ForwardingInv, ForwardingType
  <2>7. Costs(asked'[Len(asked)], step)  BY <2>3, <1>0
  <2> QED BY <2>2, <2>5, <2>6, <2>7, <1>0, SameRequest
<1>2. CASE F!Rotate("503")
  BY <1>0, <1>2, RotateKeeps DEF F!Terminals
<1>3. CASE F!Answer("502") /\ UNCHANGED F!engine
  BY <1>0, <1>3, OverKeeps DEF F!Statuses
<1> QED BY <1>1, <1>2, <1>3 DEF F!EnsureFresh

\* One more of what an attempt is charged for.
LEMMA CountedOne ==
  ASSUME asked \in Seq(Attempts), Len(asked) \in 1..Len(asked),
         NEW field \in {"sent", "paid"}, F!Counted(field)
  PROVE  /\ asked' \in Seq(Attempts) /\ Len(asked') = Len(asked)
         /\ \A i \in 1..Len(asked) : i # Len(asked) => asked'[i] = asked[i]
         /\ asked'[Len(asked)].account = asked[Len(asked)].account
         /\ asked'[Len(asked)].sent = asked[Len(asked)].sent + (IF field = "sent" THEN 1 ELSE 0)
         /\ asked'[Len(asked)].paid = asked[Len(asked)].paid + (IF field = "paid" THEN 1 ELSE 0)
         /\ asked[Len(asked)] \in Attempts
<1> DEFINE last == asked[Len(asked)]
<1>1. last \in Attempts  OBVIOUS
<1>2. /\ asked' = [asked EXCEPT ![Len(asked)] = [last EXCEPT ![field] = last[field] + 1]]
  BY DEF F!Counted, F!Last
<1>3. [last EXCEPT ![field] = last[field] + 1] =
        [account |-> last.account, sent |-> last.sent + (IF field = "sent" THEN 1 ELSE 0),
         paid |-> last.paid + (IF field = "paid" THEN 1 ELSE 0)]
  BY <1>1 DEF Attempts
<1>4. [last EXCEPT ![field] = last[field] + 1] \in Attempts
  BY <1>1, <1>3 DEF Attempts
<1> QED BY <1>1, <1>2, <1>3, <1>4

LEMMA SendRetryingKeeps ==
  ASSUME ForwardingInv, F!SendRetrying
  PROVE  ForwardingInv'
<1> USE DEF F!engine
<1> DEFINE last == asked[Len(asked)]
           now == asked'[Len(asked)]
<1>0. /\ req # None /\ req.step.at = "send" /\ UnderWay
      /\ UNCHANGED <<standing, known, pool, arrived>> /\ F!Counted("sent")
  BY DEF F!SendRetrying, UnderWay
<1>1. /\ req \in F!Requests /\ asked \in Seq(Attempts) /\ Len(asked) \in 1..Len(asked)
      /\ Costs(last, req.step) /\ last \in Attempts
      /\ req.step.resent \in BOOLEAN /\ req.step.behind401 \in BOOLEAN /\ req.step.tries \in Nat
  BY <1>0, AttemptUnderWay
<1>2. /\ asked' \in Seq(Attempts) /\ Len(asked') = Len(asked)
      /\ \A i \in 1..Len(asked) : i # Len(asked) => asked'[i] = asked[i]
      /\ now.account = last.account
      /\ now.sent = last.sent + 1 /\ now.paid = last.paid
  <2>1. ASSUME NEW field \in {"sent", "paid"}, field = "sent"
        PROVE  /\ asked' \in Seq(Attempts) /\ Len(asked') = Len(asked)
               /\ \A i \in 1..Len(asked) : i # Len(asked) => asked'[i] = asked[i]
               /\ now.account = last.account
               /\ now.sent = last.sent + 1 /\ now.paid = last.paid + 0
    <3>1. F!Counted(field)  BY <2>1, <1>0
    <3>2. field # "paid"  BY <2>1
    <3> QED BY <3>1, <3>2, <2>1, <1>1, CountedOne
  <2> QED BY <2>1, <1>1 DEF Attempts
<1>3. last.sent \in Nat /\ last.paid \in Nat /\ last.paid <= (IF req.step.resent THEN 1 ELSE 0)
      /\ req.step.tries <= Resends /\ last.sent <= Before(req.step) + req.step.tries
  BY <1>0, <1>1 DEF Attempts, Costs
<1>4. Before(req.step) \in Nat /\ Before(req.step) <= 3 * (Resends + 1)
  BY TargetAssumption DEF Before
<1>5. Paid(now)
  <2>1. now.sent <= 3 * (Resends + 1) + Resends + 1 /\ now.paid <= 1
    <3>1. req.step.tries \in Nat  BY <1>1
    <3> HIDE DEF now, last
    <3> QED BY <3>1, <1>2, <1>3, <1>4, TargetAssumption
  <2> HIDE DEF now
  <2> QED BY <2>1, <1>2, <1>3, TargetAssumption DEF Paid
<1>6. \A i \in 1..Len(asked) : asked'[i].account = asked[i].account /\ Paid(asked'[i])
  BY <1>2, <1>5 DEF ForwardingInv
<1>7. ASSUME NEW step \in F!Steps, F!Step(step),
             step.at \in {"fresh", "send", "answered"} => Costs(now, step)
      PROVE  ForwardingInv'
  <2>1. req' = [req EXCEPT !.step = step]  BY <1>7 DEF F!Step
  <2>2. req' = [req EXCEPT !.step = step, !.terminal = req.terminal] /\ req.terminal \in F!Terminals
    BY <1>1, <2>1, StepOnly
  <2>3. standing' \in SUBSET Target /\ known' \in SUBSET Target /\ pool' \in SUBSET Target
    BY <1>0 DEF ForwardingInv, ForwardingType
  <2> QED BY <1>0, <1>2, <1>6, <1>7, <2>2, <2>3, SameRequest
<1>8. req.step = [at |-> "send", resent |-> req.step.resent, behind401 |-> req.step.behind401,
                  tries |-> req.step.tries]
  BY <1>0, <1>1 DEF F!Requests, F!Steps
<1>9. CASE F!Step([req.step EXCEPT !.at = "answered"])
  <2> DEFINE step == [at |-> "answered", resent |-> req.step.resent,
                      behind401 |-> req.step.behind401, tries |-> req.step.tries]
  <2>1. [req.step EXCEPT !.at = "answered"] = step  BY <1>8
  <2>2. step \in F!Steps  BY <1>1 DEF F!Steps
  <2>3. Before(step) = Before(req.step)  BY DEF Before
  <2>4. now.sent <= Before(req.step) + Resends + 1
    <3> HIDE DEF now, last
    <3> QED BY <1>2, <1>3, <1>4, <1>1, TargetAssumption
  <2>5. now.paid <= IF step.resent THEN 1 ELSE 0  BY <1>2, <1>3
  <2>6. Costs(now, step)  BY <2>3, <2>4, <2>5 DEF Costs
  <2> QED BY <1>7, <1>9, <2>1, <2>2, <2>6
<1>10. CASE req.step.tries < Resends /\ F!Step([req.step EXCEPT !.tries = req.step.tries + 1])
  <2> DEFINE step == [at |-> "send", resent |-> req.step.resent,
                      behind401 |-> req.step.behind401, tries |-> req.step.tries + 1]
  <2>1. [req.step EXCEPT !.tries = req.step.tries + 1] = step  BY <1>8
  <2>2. step \in F!Steps  BY <1>1 DEF F!Steps
  <2>3. Before(step) = Before(req.step)  BY DEF Before
  <2>4. step.tries <= Resends /\ now.sent <= Before(req.step) + step.tries
    <3>1. req.step.tries \in Nat  BY <1>1
    <3> HIDE DEF now, last
    <3> QED BY <1>2, <1>3, <1>4, <1>10, <3>1, TargetAssumption
  <2>5. now.paid <= IF step.resent THEN 1 ELSE 0  BY <1>2, <1>3
  <2>6. step.at = "send"  OBVIOUS
  <2>7. Costs(now, step)  BY <2>3, <2>4, <2>5, <2>6 DEF Costs
  <2> QED BY <1>7, <1>10, <2>1, <2>2, <2>7
<1>11. CASE F!Answer("502")
  <2>1. F!Over("502") \in F!Steps /\ F!Over("502").at = "over"
    BY OverIsStep DEF F!Statuses
  <2>2. F!Step(F!Over("502"))  BY <1>11 DEF F!Answer, F!Step
  <2> QED BY <1>7, <2>1, <2>2
<1> QED BY <1>9, <1>10, <1>11 DEF F!SendRetrying

LEMMA RetryAuthKeeps ==
  ASSUME ForwardingInv, F!RetryAuth
  PROVE  ForwardingInv'
<1> USE DEF F!engine
<1> DEFINE step == [at |-> "fresh", resent |-> req.step.resent, behind401 |-> TRUE]
<1>0. /\ req # None /\ req.step.at = "answered" /\ UnderWay /\ ~ req.step.behind401
      /\ UNCHANGED <<standing, known, pool, arrived, asked>> /\ F!Step(step)
  BY DEF F!RetryAuth, UnderWay
<1>1. /\ req \in F!Requests /\ Len(asked) \in 1..Len(asked)
      /\ Costs(asked[Len(asked)], req.step) /\ asked[Len(asked)] \in Attempts
      /\ req.step.resent \in BOOLEAN /\ req.step.behind401 \in BOOLEAN
  BY <1>0, AttemptUnderWay
<1>2. step \in F!Steps  BY <1>1 DEF F!Steps
<1>3. Before(step) = Before(req.step) + Resends + 1
  BY <1>0, <1>1, TargetAssumption DEF Before
<1>4. Costs(asked[Len(asked)], step)
  BY <1>0, <1>1, <1>3, TargetAssumption DEF Costs, Attempts
<1>5. req' = [req EXCEPT !.step = step, !.terminal = req.terminal] /\ req.terminal \in F!Terminals
  BY <1>0, <1>1, <1>2, StepOnly DEF F!Step
<1>6. /\ asked' \in Seq(Attempts) /\ Len(asked') = Len(asked)
      /\ \A i \in 1..Len(asked) : asked'[i].account = asked[i].account /\ Paid(asked'[i])
      /\ standing' \in SUBSET Target /\ known' \in SUBSET Target /\ pool' \in SUBSET Target
      /\ Costs(asked'[Len(asked)], step)
  BY <1>0, <1>4 DEF ForwardingInv, ForwardingType
<1> HIDE DEF step
<1> QED BY <1>0, <1>2, <1>5, <1>6, SameRequest

LEMMA ClassifyKeeps ==
  ASSUME ForwardingInv, F!Classify
  PROVE  ForwardingInv'
<1>0. req # None /\ UnderWay /\ UNCHANGED <<arrived, asked>>
  BY DEF F!Classify, UnderWay
<1>1. CASE F!Rotate("503")  BY <1>0, <1>1, RotateKeeps DEF F!Terminals
<1>2. CASE F!Rotate("429")  BY <1>0, <1>2, RotateKeeps DEF F!Terminals
<1>3. CASE F!Answer("upstream") /\ UNCHANGED F!engine
  BY <1>0, <1>3, OverKeeps DEF F!Statuses, F!engine
<1> QED BY <1>1, <1>2, <1>3 DEF F!Classify

LEMMA SucceedKeeps ==
  ASSUME ForwardingInv, F!Succeed
  PROVE  ForwardingInv'
<1> USE DEF F!engine
<1> DEFINE last == asked[Len(asked)]
           now == asked'[Len(asked)]
<1>0. /\ req # None /\ req.step.at = "answered" /\ UnderWay
      /\ UNCHANGED <<standing, known, pool, arrived>> /\ F!Counted("paid")
  BY DEF F!Succeed, UnderWay
<1>1. /\ req \in F!Requests /\ asked \in Seq(Attempts) /\ Len(asked) \in 1..Len(asked)
      /\ Costs(last, req.step) /\ last \in Attempts
      /\ req.step.resent \in BOOLEAN /\ req.step.behind401 \in BOOLEAN
  BY <1>0, AttemptUnderWay
<1>2. /\ asked' \in Seq(Attempts) /\ Len(asked') = Len(asked)
      /\ \A i \in 1..Len(asked) : i # Len(asked) => asked'[i] = asked[i]
      /\ now.account = last.account
      /\ now.sent = last.sent /\ now.paid = last.paid + 1
  <2>1. ASSUME NEW field \in {"sent", "paid"}, field = "paid"
        PROVE  /\ asked' \in Seq(Attempts) /\ Len(asked') = Len(asked)
               /\ \A i \in 1..Len(asked) : i # Len(asked) => asked'[i] = asked[i]
               /\ now.account = last.account
               /\ now.sent = last.sent + 0 /\ now.paid = last.paid + 1
    <3>1. F!Counted(field)  BY <2>1, <1>0
    <3>2. field # "sent"  BY <2>1
    <3> QED BY <3>1, <3>2, <2>1, <1>1, CountedOne
  <2> QED BY <2>1, <1>1 DEF Attempts
<1>3. last.sent \in Nat /\ last.paid \in Nat /\ last.paid <= (IF req.step.resent THEN 1 ELSE 0)
      /\ last.sent <= Before(req.step) + Resends + 1
  BY <1>0, <1>1 DEF Attempts, Costs
<1>4. Before(req.step) \in Nat /\ Before(req.step) <= 3 * (Resends + 1)
  BY TargetAssumption DEF Before
<1>5. Paid(now)
  <2>1. now.sent <= 3 * (Resends + 1) + Resends + 1 /\ now.paid <= 2
    <3> HIDE DEF now, last
    <3> QED BY <1>2, <1>3, <1>4, TargetAssumption
  <2> HIDE DEF now
  <2> QED BY <2>1, <1>2, <1>3, TargetAssumption DEF Paid
<1>6. \A i \in 1..Len(asked) : asked'[i].account = asked[i].account /\ Paid(asked'[i])
  BY <1>2, <1>5 DEF ForwardingInv
<1>7. ASSUME NEW step \in F!Steps, F!Step(step),
             step.at \in {"fresh", "send", "answered"} => Costs(now, step)
      PROVE  ForwardingInv'
  <2>1. req' = [req EXCEPT !.step = step]  BY <1>7 DEF F!Step
  <2>2. req' = [req EXCEPT !.step = step, !.terminal = req.terminal] /\ req.terminal \in F!Terminals
    BY <1>1, <2>1, StepOnly
  <2>3. standing' \in SUBSET Target /\ known' \in SUBSET Target /\ pool' \in SUBSET Target
    BY <1>0 DEF ForwardingInv, ForwardingType
  <2> QED BY <1>0, <1>2, <1>6, <1>7, <2>2, <2>3, SameRequest
<1>8. ASSUME NEW status \in F!Statuses, F!Answer(status)  PROVE ForwardingInv'
  <2>1. F!Over(status) \in F!Steps /\ F!Over(status).at = "over"  BY OverIsStep
  <2>2. F!Step(F!Over(status))  BY <1>8 DEF F!Answer, F!Step
  <2> QED BY <1>7, <2>1, <2>2
<1>9. CASE ~ req.step.resent /\ F!Step(F!Sending(TRUE, FALSE))
  <2> DEFINE step == F!Sending(TRUE, FALSE)
  <2>1. /\ step \in F!Steps /\ step.at = "send" /\ step.resent = TRUE
        /\ step.behind401 = FALSE /\ step.tries = 0
    BY SendingIsStep
  <2> HIDE DEF step
  <2>2. Before(step) = 2 * (Resends + 1)  BY <2>1 DEF Before
  <2>3. Before(req.step) <= Resends + 1  BY <1>9, <1>1, TargetAssumption DEF Before
  <2>4. now.sent <= Before(step) /\ now.paid <= 1
    <3> HIDE DEF now, last
    <3> QED BY <1>2, <1>3, <1>4, <1>9, <2>2, <2>3, TargetAssumption
  <2>5. Costs(now, step)
    <3>1. now.sent \in Nat  BY <1>2, <1>3
    <3> HIDE DEF now
    <3> QED BY <3>1, <2>1, <2>2, <2>4, TargetAssumption DEF Costs
  <2> QED BY <1>7, <1>9, <2>1, <2>5 DEF step
<1> QED BY <1>8, <1>9 DEF F!Succeed, F!Statuses

LEMMA HangUpKeeps ==
  ASSUME ForwardingInv, F!HangUp
  PROVE  ForwardingInv'
BY OverKeeps DEF F!HangUp, F!engine, F!Statuses

\* Neither what the engine does nor what happens elsewhere reaches a request
\* under way.
LEMMA EngineChanges ==
  ASSUME ForwardingInv, UNCHANGED <<req, asked, arrived>>,
         standing' \in SUBSET Target, known' \in SUBSET Target, pool' \in SUBSET Target
  PROVE  ForwardingInv'
<1>1. ForwardingType'  BY DEF ForwardingInv, ForwardingType
<1>2. Asked'  BY DEF ForwardingInv, Asked, UnderWay, Costs, Before
<1> QED BY <1>1, <1>2 DEF ForwardingInv, Paid

LEMMA ForwardingSteps ==
  ASSUME ForwardingInv, F!Next
  PROVE  ForwardingInv'
<1>1. CASE F!Change
  BY <1>1, EngineChanges DEF F!Change, ForwardingInv, ForwardingType
<1> QED BY <1>1, ArriveKeeps, SelectKeeps, EnsureFreshKeeps, SendRetryingKeeps, RetryAuthKeeps,
           ClassifyKeeps, SucceedKeeps, HangUpKeeps DEF F!Next

RequestAtWork == focus = "forwarding" => ForwardingInv

\* Whenever a request is at work its invariant holds.
LEMMA ForwardingInvariance == PartsSpec => []RequestAtWork
<1>1. PartsInit => RequestAtWork
  BY ForwardingStarts DEF PartsInit, RequestAtWork
<1>2. RequestAtWork /\ [PartsNext]_partsVars => RequestAtWork'
  <2> SUFFICES ASSUME RequestAtWork, [PartsNext]_partsVars, focus' = "forwarding"
               PROVE  ForwardingInv'
    BY DEF RequestAtWork
  <2>1. CASE focus = "forwarding" /\ F!Next  BY <2>1, ForwardingSteps DEF RequestAtWork
  <2>2. CASE focus = "forwarding" /\ UNCHANGED forwardingVars
    BY <2>2, EngineChanges DEF RequestAtWork, ForwardingInv, ForwardingType, forwardingVars
  <2>3. \/ focus = "forwarding" /\ F!Next
        \/ focus = "forwarding" /\ UNCHANGED forwardingVars
    BY DEF PartsNext, partsVars
  <2> QED BY <2>1, <2>2, <2>3
<1> QED BY <1>1, <1>2, PTL DEF PartsSpec

\* Every account a request was put to was a member, when it came, of the pool it
\* came in on, whatever the engine did to the pools while it failed over.
THEOREM RequestsStayInPool == PartsSpec => []StaysInPool
<1>1. RequestAtWork => StaysInPool
  <2> SUFFICES ASSUME ForwardingInv PROVE F!StaysInPool
    BY DEF RequestAtWork, StaysInPool
  <2>1. DOMAIN asked = 1..Len(asked)  BY DEF ForwardingInv, ForwardingType
  <2> QED BY <2>1 DEF ForwardingInv, F!StaysInPool
<1> QED BY <1>1, ForwardingInvariance, PTL

\* A request is put to no more accounts than the first selection had to choose
\* from, is sent to each at most four times as often as one send may be, and
\* paid for at most twice on each.
THEOREM RequestCostBounded == PartsSpec => []CostIsBounded
<1>1. RequestAtWork => CostIsBounded
  <2> SUFFICES ASSUME ForwardingInv PROVE F!CostIsBounded
    BY DEF RequestAtWork, CostIsBounded
  <2>1. DOMAIN asked = 1..Len(asked) /\ Len(asked) \in Nat
    BY DEF ForwardingInv, ForwardingType
  <2>2. \A i \in DOMAIN asked : asked[i].paid <= 2 /\ asked[i].sent <= 4 * (Resends + 1)
    BY <2>1 DEF ForwardingInv, Paid
  <2>3. ASSUME req # None, req.max # None
        PROVE  Len(asked) <= req.max /\ req.max <= F!Cardinality(Target)
    <3>1. req.no \in Nat /\ req.max \in Nat
      BY <2>3 DEF ForwardingInv, ForwardingType, F!Requests
    <3>2. Len(asked) <= req.no /\ req.no <= req.max /\ req.max <= Cardinality(Target)
      BY <2>3, <3>1 DEF ForwardingInv, Asked
    <3> QED BY <2>1, <3>1, <3>2, TargetCardinality
  <2> QED BY <2>2, <2>3 DEF F!CostIsBounded
<1> QED BY <1>1, ForwardingInvariance, PTL

----------------------------------------------------------------------------
(* UsageCache. *)

\* A figure in the entry is no older than a deadline was when it was stored.
FigureIsRecent ==
  entry # None /\ entry.reading # None =>
    /\ entry.ttl = TTL
    /\ entry.reading <= entry.at /\ entry.at <= entry.reading + Deadline

\* The entry holds the last failure of the row, and how long it is waited out.
FailureIsHeld ==
  failing.row > 0 =>
    /\ entry # None /\ entry.failures = failing.row /\ entry.at = failing.at
    /\ failing.last \in U!Failures
    /\ entry.ttl = U!Wait(failing.row, failing.last)

\* No poll outlives its deadline.
PollsAreTimed ==
  /\ DOMAIN poll = Poller
  /\ \A c \in Poller :
       \/ poll[c] = U!Idle
       \/ /\ poll[c] = [pc |-> "sent", since |-> poll[c].since] /\ poll[c].since \in Nat
          /\ poll[c].since <= clock /\ clock <= poll[c].since + Deadline

\* The next round is due within the interval, if the account is not left out.
RoundIsTimed ==
  /\ settled \in BOOLEAN
  /\ nextRound = None => ~ settled /\ poll[Round] = U!Idle
  /\ nextRound # None => nextRound \in Nat /\ clock <= nextRound /\ nextRound <= clock + Interval

\* A figure in the entry was good when the last round that is over began.
FigureWasGood ==
  settled /\ entry # None /\ entry.reading # None =>
    IF poll[Round].pc = "idle" THEN nextRound <= entry.at + TTL + Interval
    ELSE poll[Round].since <= entry.at + TTL + Interval

EntryIsHeld ==
  /\ clock \in Nat
  /\ entry \in U!Entries \cup {None}
  /\ entry # None => entry.at <= clock
  /\ failing.row \in Nat /\ failing.at \in Nat
  /\ failing.row = 0 => entry = None \/ entry.failures = 0
  /\ FigureIsRecent
  /\ FailureIsHeld

UsageInv ==
  /\ EntryIsHeld
  /\ PollsAreTimed
  /\ RoundIsTimed
  /\ FigureWasGood
  /\ U!PollsArePaced
  /\ U!StalenessIsBounded

LEMMA MinOfTwo ==
  ASSUME NEW a \in Int, NEW b \in Int
  PROVE  U!Min({a, b}) = IF a <= b THEN a ELSE b
BY DEF U!Min

LEMMA FailureIs ==
  ASSUME NEW failure \in U!Failures
  PROVE  failure.limited \in BOOLEAN /\ failure.after \in Nat
BY LadderAssumption DEF U!Failures

\* However a failure came about, it is waited out for as long as it has earned.
LEMMA WaitIsEarned ==
  ASSUME NEW n \in Nat \ {0}, NEW failure \in U!Failures
  PROVE  /\ U!Wait(n, failure) \in Nat
         /\ U!Wait(n, failure) >= Backoff[U!Min({n, Len(Backoff)})]
         /\ U!Wait(n, failure) >= failure.after
         /\ failure.limited => U!Wait(n, failure) >= TTL
<1> DEFINE len == Len(Backoff)
           rung == IF failure.limited THEN n + 1 ELSE n
           low == U!Min({n, len})
           high == U!Min({rung, len})
<1>1. len \in Nat /\ len > 1  BY LadderAssumption
<1>2. failure.limited \in BOOLEAN /\ failure.after \in Nat
  BY FailureIs
<1>3. /\ low = IF n <= len THEN n ELSE len
      /\ high = IF rung <= len THEN rung ELSE len
  BY <1>1, <1>2, MinOfTwo
<1>4. low \in 1..len /\ high \in 1..len /\ low <= high /\ (failure.limited => high >= 2)
  <2> HIDE DEF low, high, len
  <2> QED BY <1>1, <1>2, <1>3
<1>5. Backoff[low] \in Nat /\ Backoff[high] \in Nat
  <2> HIDE DEF low, high
  <2> QED BY <1>4, LadderAssumption
<1>6. Backoff[low] <= Backoff[high]
  <2> HIDE DEF low, high
  <2> QED BY <1>4, LadderAssumption
<1>7. failure.limited => TTL <= Backoff[high]
  <2>1. 2 \in 1..len  BY <1>1
  <2>2. TTL \in Nat /\ Backoff[2] \in Nat /\ TTL <= Backoff[2]  BY <2>1, LadderAssumption
  <2>3. failure.limited => Backoff[2] <= Backoff[high]
    <3> HIDE DEF high
    <3> QED BY <2>1, <1>4, LadderAssumption
  <2> HIDE DEF high
  <2> QED BY <2>2, <2>3, <1>5
<1>8. U!Wait(n, failure) = IF failure.after > Backoff[high] THEN failure.after ELSE Backoff[high]
  BY DEF U!Wait
<1> HIDE DEF low, high
<1>9. /\ U!Wait(n, failure) \in Nat /\ U!Wait(n, failure) >= Backoff[low]
      /\ U!Wait(n, failure) >= failure.after
      /\ failure.limited => U!Wait(n, failure) >= TTL
  BY <1>2, <1>5, <1>6, <1>7, <1>8, LadderAssumption
<1> QED BY <1>9 DEF low

LEMMA UsageStarts ==
  ASSUME U!Init
  PROVE  UsageInv
<1> USE DEF U!Init
<1>1. EntryIsHeld  BY DEF EntryIsHeld, U!Healthy, FigureIsRecent, FailureIsHeld
<1>2. PollsAreTimed  BY DEF PollsAreTimed
<1>3. RoundIsTimed  BY RoundAssumption, EntryAssumption DEF RoundIsTimed
<1>4. FigureWasGood  BY DEF FigureWasGood
<1>5. U!PollsArePaced /\ U!StalenessIsBounded
  BY DEF U!PollsArePaced, U!StalenessIsBounded, U!Nobody
<1> QED BY <1>1, <1>2, <1>3, <1>4, <1>5 DEF UsageInv

\* What the entry holds of a figure.
LEMMA FigureIs ==
  ASSUME UsageInv, entry # None, entry.reading # None
  PROVE  /\ entry.reading \in Nat /\ entry.at \in Nat /\ clock \in Nat
         /\ entry.ttl = TTL /\ entry.reading <= entry.at
         /\ entry.at <= entry.reading + Deadline /\ entry.at <= clock
BY DEF UsageInv, EntryIsHeld, FigureIsRecent, U!Entries

\* A step that hands out nothing and begins no poll says nothing of either.
LEMMA SilentPromises ==
  ASSUME U!Silent
  PROVE  U!PollsArePaced' /\ U!StalenessIsBounded'
BY DEF U!Silent, U!Nobody, U!PollsArePaced, U!StalenessIsBounded

LEMMA EntryKept ==
  ASSUME EntryIsHeld, UNCHANGED <<clock, entry, failing>>
  PROVE  EntryIsHeld'
BY DEF EntryIsHeld, FigureIsRecent, FailureIsHeld

LEMMA RoundKept ==
  ASSUME RoundIsTimed, UNCHANGED <<clock, nextRound, settled>>, poll'[Round] = poll[Round]
  PROVE  RoundIsTimed'
BY DEF RoundIsTimed

LEMMA GoodKept ==
  ASSUME FigureWasGood, UNCHANGED <<entry, nextRound, settled>>, poll'[Round] = poll[Round]
  PROVE  FigureWasGood'
BY DEF FigureWasGood

\* A figure that is stored now is good whenever the last round began.
LEMMA GoodNow ==
  ASSUME RoundIsTimed', PollsAreTimed', clock' \in Nat,
         entry' # None /\ entry'.reading # None => entry'.at = clock'
  PROVE  FigureWasGood'
<1> SUFFICES ASSUME settled', entry' # None, entry'.reading # None
             PROVE  IF poll'[Round].pc = "idle" THEN nextRound' <= entry'.at + TTL + Interval
                    ELSE poll'[Round].since <= entry'.at + TTL + Interval
  BY DEF FigureWasGood
<1>1. entry'.at = clock' /\ TTL \in Nat /\ Interval \in Nat  BY LadderAssumption, RoundAssumption
<1>2. nextRound' \in Nat /\ nextRound' <= clock' + Interval  BY DEF RoundIsTimed
<1>3. CASE poll'[Round] = U!Idle
  <2>1. poll'[Round].pc = "idle"  BY <1>3 DEF U!Idle
  <2>2. nextRound' <= clock' + TTL + Interval  BY <1>1, <1>2
  <2> QED BY <1>1, <2>1, <2>2
<1>4. CASE /\ poll'[Round] = [pc |-> "sent", since |-> poll'[Round].since]
           /\ poll'[Round].since \in Nat /\ poll'[Round].since <= clock'
  <2>1. poll'[Round].pc = "sent"  BY <1>4
  <2> QED BY <1>1, <1>4, <2>1
<1> QED BY <1>3, <1>4, RoundAssumption DEF PollsAreTimed

\* A caller is done, or begins to wait.
LEMMA PollEnds ==
  ASSUME PollsAreTimed, NEW c \in Poller, poll' = [poll EXCEPT ![c] = U!Idle], clock' = clock
  PROVE  PollsAreTimed'
<1>1. /\ DOMAIN poll' = Poller
      /\ \A d \in Poller : poll'[d] = U!Idle \/ poll'[d] = poll[d]
  BY DEF PollsAreTimed
<1> QED BY <1>1 DEF PollsAreTimed

LEMMA PollBegins ==
  ASSUME PollsAreTimed, clock \in Nat, NEW c \in Poller, clock' = clock,
         poll' = [poll EXCEPT ![c] = [pc |-> "sent", since |-> clock]]
  PROVE  PollsAreTimed'
<1>1. /\ DOMAIN poll' = Poller
      /\ \A d \in Poller : poll'[d] = [pc |-> "sent", since |-> clock] \/ poll'[d] = poll[d]
  BY DEF PollsAreTimed
<1>2. clock <= clock + Deadline  BY LadderAssumption
<1> QED BY <1>1, <1>2 DEF PollsAreTimed

\* Of the round a poll begins or ends with the next one due, of another caller nothing
\* changes.
LEMMA RoundBegins ==
  ASSUME RoundIsTimed, clock \in Nat, NEW c \in Poller, U!Begin(c), clock' = clock,
         settled' \in BOOLEAN, settled' => settled \/ c = Round,
         c # Round => poll'[Round] = poll[Round]
  PROVE  RoundIsTimed'
<1>1. CASE c = Round
  <2>1. nextRound' = clock + Interval  BY <1>1 DEF U!Begin
  <2> QED BY <2>1, RoundAssumption, EntryAssumption DEF RoundIsTimed
<1>2. CASE c # Round  BY <1>2 DEF U!Begin, RoundIsTimed
<1> QED BY <1>1, <1>2

\* What a caller is given, if anything, is recent enough.
LEMMA ReturnGives ==
  ASSUME clock \in Nat, NEW c, NEW reading \in Nat \cup {None}, U!Return(c, reading),
         reading # None => reading <= clock /\ clock <= reading + TTL + Deadline
  PROVE  U!PollsArePaced' /\ U!StalenessIsBounded'
<1>1. U!PollsArePaced'  BY DEF U!Return, U!PollsArePaced
<1>2. CASE reading = None
  <2>1. given' = [to |-> "nobody", age |-> 0]  BY <1>2 DEF U!Return, U!Nobody
  <2>2. given'.to = "nobody"  BY <2>1
  <2> QED BY <1>1, <2>2 DEF U!StalenessIsBounded
<1>3. CASE reading # None
  <2>1. given' = [to |-> "caller", age |-> clock - reading]  BY <1>3 DEF U!Return, U!Given
  <2>2. clock - reading <= TTL + Deadline  BY <1>3, LadderAssumption
  <2>3. given'.to = "caller" /\ given'.age = clock - reading  BY <2>1
  <2>4. given'.to # "gate"  BY <2>3
  <2> QED BY <1>1, <2>2, <2>3, <2>4 DEF U!StalenessIsBounded
<1> QED BY <1>1, <1>2, <1>3

LEMMA HitKeeps ==
  ASSUME UsageInv, NEW c \in Poller, poll[c].pc = "idle", U!Hit(c)
  PROVE  UsageInv'
<1> USE DEF U!Hit
<1>0. entry # None /\ entry \in U!Entries /\ clock - entry.at < entry.ttl /\ clock \in Nat
      /\ EntryIsHeld /\ PollsAreTimed /\ RoundIsTimed /\ FigureWasGood
      /\ clock' = clock /\ entry' = entry /\ failing' = failing
  BY DEF U!Fresh, UsageInv, EntryIsHeld
<1>1. EntryIsHeld'  BY <1>0, EntryKept
<1>2. poll' = [poll EXCEPT ![c] = U!Idle] /\ settled' = (settled \/ c = Round)  BY DEF U!Return
<1>3. PollsAreTimed'  BY <1>0, <1>2, PollEnds
<1>4. c # Round => poll'[Round] = poll[Round]  BY <1>2
<1>5. RoundIsTimed'  BY <1>0, <1>2, <1>4, RoundBegins DEF RoundIsTimed
<1>6. FigureWasGood'
  <2>1. CASE c # Round
    <3>1. settled' = settled /\ nextRound' = nextRound  BY <2>1, <1>2, <1>0 DEF U!Begin, RoundIsTimed
    <3> QED BY <2>1, <3>1, <1>0, <1>4, GoodKept
  <2>2. CASE c = Round
    <3>1. nextRound' = clock + Interval  BY <2>2 DEF U!Begin
    <3>2. poll'[Round].pc = "idle"  BY <2>2, <1>2, <1>0, RoundAssumption DEF PollsAreTimed, U!Idle
    <3>3. entry.reading # None => clock + Interval <= entry.at + TTL + Interval
      BY <1>0, FigureIs, LadderAssumption, RoundAssumption
    <3> QED BY <3>1, <3>2, <3>3, <1>0 DEF FigureWasGood
  <2> QED BY <2>1, <2>2
<1>7. U!PollsArePaced' /\ U!StalenessIsBounded'
  <2>1. entry.reading \in Nat \cup {None}  BY <1>0 DEF U!Entries
  <2>2. entry.reading # None => entry.reading <= clock /\ clock <= entry.reading + TTL + Deadline
    BY <1>0, FigureIs, LadderAssumption
  <2> QED BY <2>1, <2>2, <1>0, ReturnGives
<1> QED BY <1>1, <1>3, <1>5, <1>6, <1>7 DEF UsageInv

LEMMA SendKeeps ==
  ASSUME UsageInv, NEW c \in Poller, poll[c].pc = "idle", NEW force \in BOOLEAN, U!Send(c, force)
  PROVE  UsageInv'
<1> USE DEF U!Send
<1>0. /\ clock \in Nat /\ failing.row \in Nat /\ failing.at \in Nat
      /\ EntryIsHeld /\ PollsAreTimed /\ RoundIsTimed /\ FigureWasGood
      /\ clock' = clock /\ entry' = entry /\ failing' = failing /\ settled' = settled
  BY DEF UsageInv, EntryIsHeld
<1>1. U!PollsArePaced'
  <2>1. CASE force  BY <2>1 DEF U!PollsArePaced
  <2>2. CASE ~ force /\ failing.row = 0
    <3>1. began' = [row |-> failing.row, last |-> failing.last, wait |-> clock - failing.at]
      BY <2>2
    <3> QED BY <3>1, <2>2 DEF U!PollsArePaced
  <2>3. CASE ~ force /\ failing.row > 0
    <3>1. /\ entry # None /\ entry.at = failing.at /\ failing.last \in U!Failures
          /\ entry.ttl = U!Wait(failing.row, failing.last)
      BY <2>3, <1>0 DEF EntryIsHeld, FailureIsHeld
    <3>2. entry.at <= clock /\ ~ (clock - entry.at < entry.ttl)
      BY <2>3, <3>1, <1>0 DEF EntryIsHeld, U!Fresh
    <3>3. U!Wait(failing.row, failing.last) \in Nat
      <4>1. failing.row \in Nat \ {0}  BY <2>3, <1>0
      <4> QED BY <4>1, <3>1, WaitIsEarned
    <3>4. clock - failing.at >= U!Wait(failing.row, failing.last)
      BY <3>1, <3>2, <3>3, <1>0
    <3>5. began' = [row |-> failing.row, last |-> failing.last, wait |-> clock - failing.at]
      BY <2>3
    <3>6. LET len == Len(Backoff)
          IN  /\ clock - failing.at >= Backoff[U!Min({failing.row, len})]
              /\ clock - failing.at >= failing.last.after
              /\ failing.last.limited => clock - failing.at >= TTL
      <4>1. failing.row \in Nat \ {0}  BY <2>3, <1>0
      <4>2. Len(Backoff) \in Nat /\ Len(Backoff) > 1  BY LadderAssumption
      <4>3. U!Min({failing.row, Len(Backoff)}) \in 1..Len(Backoff)
        BY <4>1, <4>2, MinOfTwo
      <4>4. Backoff[U!Min({failing.row, Len(Backoff)})] \in Nat
        BY <4>3, LadderAssumption
      <4>5. failing.last.after \in Nat /\ TTL \in Nat
        BY <3>1, FailureIs, LadderAssumption
      <4>6. /\ U!Wait(failing.row, failing.last) >= Backoff[U!Min({failing.row, Len(Backoff)})]
            /\ U!Wait(failing.row, failing.last) >= failing.last.after
            /\ failing.last.limited => U!Wait(failing.row, failing.last) >= TTL
        BY <4>1, <3>1, WaitIsEarned
      <4>7. clock - failing.at \in Int  BY <1>0
      <4> QED BY <3>3, <3>4, <4>4, <4>5, <4>6, <4>7
    <3>7. began'.wait = clock - failing.at /\ began'.row = failing.row /\ began'.last = failing.last
      BY <3>5
    <3> QED BY <3>6, <3>7 DEF U!PollsArePaced
  <2> QED BY <2>1, <2>2, <2>3, <1>0
<1>2. poll' = [poll EXCEPT ![c] = [pc |-> "sent", since |-> clock]]  OBVIOUS
<1>3. PollsAreTimed'  BY <1>0, <1>2, PollBegins
<1>4. c # Round => poll'[Round] = poll[Round]  BY <1>2
<1>5. RoundIsTimed'
  <2>1. settled \in BOOLEAN  BY <1>0 DEF RoundIsTimed
  <2> QED BY <2>1, <1>0, <1>4, RoundBegins
<1>6. FigureWasGood'
  <2>1. CASE c # Round  BY <2>1, <1>0, <1>4, GoodKept DEF U!Begin
  <2>2. CASE c = Round
    <3>1. poll'[Round].pc = "sent" /\ poll'[Round].since = clock
      BY <2>2, <1>2, <1>0, RoundAssumption DEF PollsAreTimed
    <3> SUFFICES ASSUME settled, entry # None, entry.reading # None
                 PROVE  clock <= entry.at + TTL + Interval
      BY <1>0, <3>1 DEF FigureWasGood
    <3>2. nextRound <= entry.at + TTL + Interval  BY <2>2, <1>0 DEF FigureWasGood
    <3>3. nextRound \in Nat /\ clock <= nextRound  BY <1>0 DEF RoundIsTimed
    <3> QED BY <3>2, <3>3, <1>0, FigureIs, LadderAssumption, RoundAssumption
  <2> QED BY <2>1, <2>2
<1>7. U!StalenessIsBounded'  BY DEF U!StalenessIsBounded, U!Nobody
<1>8. EntryIsHeld'  BY <1>0, EntryKept
<1> QED BY <1>1, <1>3, <1>5, <1>6, <1>7, <1>8 DEF UsageInv

\* The figures of now, or of a moment within the deadline, make a good entry.
LEMMA StoredFigure ==
  ASSUME EntryIsHeld, NEW reading \in Nat, reading <= clock, clock <= reading + Deadline,
         entry' = U!EntryOk(reading), failing' = U!Healthy, clock' = clock
  PROVE  EntryIsHeld' /\ entry'.at = clock'
<1>1. clock \in Nat /\ TTL \in Nat  BY LadderAssumption DEF EntryIsHeld
<1>2. entry' = [reading |-> reading, error |-> None, at |-> clock, failures |-> 0, ttl |-> TTL]
  BY DEF U!EntryOk
<1>3. entry' \in U!Entries  BY <1>1, <1>2 DEF U!Entries
<1>4. failing'.row = 0 /\ failing'.at = 0  BY DEF U!Healthy
<1> QED BY <1>1, <1>2, <1>3, <1>4 DEF EntryIsHeld, FigureIsRecent, FailureIsHeld

LEMMA StoredFailure ==
  ASSUME EntryIsHeld, NEW failure \in U!Failures, entry' = U!EntryFailed(failure),
         failing' = [row |-> failing.row + 1, last |-> failure, at |-> clock], clock' = clock
  PROVE  EntryIsHeld' /\ entry'.at = clock'
<1> DEFINE n == (IF entry = None THEN 0 ELSE entry.failures) + 1
<1>1. clock \in Nat /\ failing.row \in Nat  BY DEF EntryIsHeld
<1>2. n = failing.row + 1
  <2>1. CASE failing.row = 0  BY <2>1 DEF EntryIsHeld
  <2>2. CASE failing.row > 0  BY <2>2 DEF EntryIsHeld, FailureIsHeld
  <2> QED BY <2>1, <2>2, <1>1
<1>3. n \in Nat \ {0}  BY <1>1, <1>2
<1>4. entry' = [reading |-> None, error |-> failure, at |-> clock, failures |-> n, ttl |-> U!Wait(n, failure)]
  BY DEF U!EntryFailed
<1> HIDE DEF n
<1>5. U!Wait(n, failure) \in Nat  BY <1>3, WaitIsEarned
<1>6. entry' \in U!Entries  BY <1>1, <1>3, <1>4, <1>5 DEF U!Entries
<1>7. entry' # None  BY <1>6, EntryAssumption
<1>8. failing'.row = n /\ failing'.last = failure /\ failing'.at = clock /\ failing'.row > 0
  BY <1>1, <1>2
<1>9. FigureIsRecent'  BY <1>4 DEF FigureIsRecent
<1>10. FailureIsHeld'  BY <1>4, <1>7, <1>8 DEF FailureIsHeld
<1> QED BY <1>1, <1>3, <1>4, <1>6, <1>8, <1>9, <1>10 DEF EntryIsHeld

LEMMA AnswerKeeps ==
  ASSUME UsageInv, NEW c \in Poller, U!Answer(c)
  PROVE  UsageInv'
<1> USE DEF U!Answer
<1>0. /\ clock' = clock /\ nextRound' = nextRound /\ clock \in Nat /\ Deadline \in Nat /\ TTL \in Nat
      /\ EntryIsHeld /\ PollsAreTimed /\ RoundIsTimed
  BY LadderAssumption DEF UsageInv, EntryIsHeld
<1>1. /\ poll[c] # U!Idle /\ poll[c].since \in Nat
      /\ poll[c].since <= clock /\ clock <= poll[c].since + Deadline
  BY <1>0 DEF PollsAreTimed, U!Idle
<1>2. ASSUME NEW reading, U!Return(c, reading)
      PROVE  PollsAreTimed' /\ RoundIsTimed'
  <2>1. poll' = [poll EXCEPT ![c] = U!Idle] /\ settled' = (settled \/ c = Round)
    BY <1>2 DEF U!Return
  <2>2. PollsAreTimed'  BY <2>1, <1>0, PollEnds
  <2>3. c # Round => poll'[Round] = poll[Round]  BY <2>1
  <2>4. c = Round => nextRound # None  BY <1>0, <1>1 DEF RoundIsTimed
  <2>5. settled' \in BOOLEAN /\ (settled' => settled \/ c = Round)  BY <2>1
  <2>6. RoundIsTimed'  BY <1>0, <2>3, <2>4, <2>5 DEF RoundIsTimed
  <2> QED BY <2>2, <2>6
<1>3. ASSUME NEW reading \in poll[c].since..clock, entry' = U!EntryOk(reading),
             failing' = U!Healthy, U!Return(c, reading)
      PROVE  UsageInv'
  <2>1. reading \in Nat /\ reading <= clock /\ clock <= reading + Deadline
        /\ clock <= reading + TTL + Deadline
    BY <1>0, <1>1
  <2>2. EntryIsHeld' /\ entry'.at = clock'  BY <1>0, <1>3, <2>1, StoredFigure
  <2>3. PollsAreTimed' /\ RoundIsTimed'  BY <1>2, <1>3
  <2>4. FigureWasGood'  BY <2>2, <2>3, <1>0, GoodNow
  <2>5. U!PollsArePaced' /\ U!StalenessIsBounded'  BY <1>0, <1>3, <2>1, ReturnGives
  <2> QED BY <2>2, <2>3, <2>4, <2>5 DEF UsageInv
<1>4. ASSUME NEW failure \in U!Failures, entry' = U!EntryFailed(failure),
             failing' = [row |-> failing.row + 1, last |-> failure, at |-> clock],
             U!Return(c, None)
      PROVE  UsageInv'
  <2>1. EntryIsHeld' /\ entry'.at = clock'  BY <1>0, <1>4, StoredFailure
  <2>2. PollsAreTimed' /\ RoundIsTimed'  BY <1>2, <1>4
  <2>3. FigureWasGood'  BY <2>1, <2>2, <1>0, GoodNow
  <2>4. U!PollsArePaced' /\ U!StalenessIsBounded'  BY <1>0, <1>4, ReturnGives
  <2> QED BY <2>1, <2>2, <2>3, <2>4 DEF UsageInv
<1> QED BY <1>3, <1>4

\* The gate of a pool takes a figure that the rounds have kept young, or one that nobody
\* counts on.
LEMMA PeekKeeps ==
  ASSUME UsageInv, U!Peek
  PROVE  UsageInv'
<1> USE DEF U!Peek
<1>0. UNCHANGED <<clock, entry, failing, poll, nextRound, settled>>  BY DEF U!rounds
<1>1. EntryIsHeld' /\ PollsAreTimed' /\ RoundIsTimed' /\ FigureWasGood'
  <2>1. EntryIsHeld'  BY <1>0, EntryKept DEF UsageInv
  <2>2. PollsAreTimed'  BY <1>0 DEF UsageInv, PollsAreTimed
  <2>3. RoundIsTimed' /\ FigureWasGood'  BY <1>0, RoundKept, GoodKept DEF UsageInv
  <2> QED BY <2>1, <2>2, <2>3
<1>2. U!PollsArePaced'  BY DEF U!PollsArePaced
<1>3. CASE ~ settled
  <2>1. given'.to = "anyone"  BY <1>3 DEF U!Given
  <2> QED BY <1>1, <1>2, <2>1 DEF UsageInv, U!StalenessIsBounded
<1>4. CASE settled
  <2> DEFINE reading == entry.reading
             at == entry.at
  <2>1. /\ reading \in Nat /\ at \in Nat /\ clock \in Nat /\ at <= reading + Deadline
        /\ TTL \in Nat /\ Deadline \in Nat /\ Interval \in Nat
    BY FigureIs, LadderAssumption, RoundAssumption
  <2>2. clock <= at + TTL + Interval + Deadline
    <3>1. CASE poll[Round] = U!Idle
      <4>1. nextRound <= at + TTL + Interval  BY <1>4, <3>1 DEF UsageInv, FigureWasGood, U!Idle
      <4>2. nextRound \in Nat /\ clock <= nextRound  BY <1>4 DEF UsageInv, RoundIsTimed
      <4> HIDE DEF at
      <4> QED BY <4>1, <4>2, <2>1
    <3>2. CASE /\ poll[Round] = [pc |-> "sent", since |-> poll[Round].since]
               /\ poll[Round].since \in Nat /\ clock <= poll[Round].since + Deadline
      <4>1. poll[Round].pc = "sent"  BY <3>2
      <4>2. poll[Round].since <= at + TTL + Interval  BY <1>4, <4>1 DEF UsageInv, FigureWasGood
      <4> HIDE DEF at
      <4> QED BY <4>2, <3>2, <2>1
    <3> QED BY <3>1, <3>2, RoundAssumption DEF UsageInv, PollsAreTimed
  <2>3. given' = [to |-> "gate", age |-> clock - reading]  BY <1>4 DEF U!Given
  <2> HIDE DEF reading, at
  <2>4. clock - reading <= TTL + Deadline + Interval + Deadline  BY <2>1, <2>2
  <2>5. given'.to = "gate" /\ given'.age = clock - reading  BY <2>3
  <2>6. U!StalenessIsBounded'  BY <2>4, <2>5 DEF U!StalenessIsBounded
  <2> QED BY <1>1, <1>2, <2>6 DEF UsageInv
<1> QED BY <1>3, <1>4 DEF UsageInv, RoundIsTimed

LEMMA TickKeeps ==
  ASSUME UsageInv, U!Tick
  PROVE  UsageInv'
<1> USE DEF U!Tick, U!rounds
<1>0. clock \in Nat /\ clock' = clock + 1 /\ Deadline \in Nat
  BY LadderAssumption DEF UsageInv, EntryIsHeld
<1>1. EntryIsHeld'
  BY <1>0 DEF UsageInv, EntryIsHeld, FigureIsRecent, FailureIsHeld, U!Entries
<1>2. PollsAreTimed'
  <2>1. ASSUME NEW c \in Poller
        PROVE  \/ poll[c] = U!Idle
               \/ /\ poll[c] = [pc |-> "sent", since |-> poll[c].since] /\ poll[c].since \in Nat
                  /\ poll[c].since <= clock' /\ clock' <= poll[c].since + Deadline
    <3>1. CASE poll[c] = U!Idle  BY <3>1
    <3>2. CASE /\ poll[c] = [pc |-> "sent", since |-> poll[c].since] /\ poll[c].since \in Nat
               /\ poll[c].since <= clock /\ clock <= poll[c].since + Deadline
      <4>1. poll[c].pc = "sent"  BY <3>2
      <4>2. clock < poll[c].since + Deadline  BY <4>1
      <4> QED BY <3>2, <4>2, <1>0
    <3> QED BY <3>1, <3>2 DEF UsageInv, PollsAreTimed
  <2> QED BY <2>1 DEF UsageInv, PollsAreTimed
<1>3. RoundIsTimed'  BY <1>0, RoundAssumption DEF UsageInv, RoundIsTimed
<1>4. FigureWasGood'  BY GoodKept DEF UsageInv
<1> QED BY <1>1, <1>2, <1>3, <1>4, SilentPromises DEF UsageInv

LEMMA UsageSteps ==
  ASSUME UsageInv, U!Next
  PROVE  UsageInv'
<1> USE DEF U!rounds
<1>2. CASE U!Observe
  <2> USE <1>2 DEF U!Observe
  <2>1. clock \in Nat /\ Deadline \in Nat  BY LadderAssumption DEF UsageInv, EntryIsHeld
  <2>2. clock <= clock + Deadline /\ clock <= clock  BY <2>1
  <2>3. EntryIsHeld' /\ entry'.at = clock'  BY <2>1, <2>2, StoredFigure DEF UsageInv
  <2>4. PollsAreTimed' /\ RoundIsTimed'  BY RoundKept DEF UsageInv, PollsAreTimed
  <2>5. FigureWasGood'  BY <2>1, <2>3, <2>4, GoodNow
  <2> QED BY <2>3, <2>4, <2>5, SilentPromises DEF UsageInv
<1>3. CASE U!Invalidate
  <2> USE <1>3 DEF U!Invalidate
  <2>1. EntryIsHeld'  BY DEF UsageInv, EntryIsHeld, FigureIsRecent, FailureIsHeld, U!Healthy
  <2>2. PollsAreTimed' /\ RoundIsTimed'  BY RoundKept DEF UsageInv, PollsAreTimed
  <2>3. FigureWasGood'  BY DEF FigureWasGood
  <2> QED BY <2>1, <2>2, <2>3, SilentPromises DEF UsageInv
<1>4. ASSUME NEW c \in Poller, U!Get(c)  PROVE UsageInv'
  BY <1>4, HitKeeps, SendKeeps DEF U!Get
<1>5. ASSUME NEW c \in Poller, U!Cancel(c)  PROVE UsageInv'
  <2> USE <1>5 DEF U!Cancel
  <2>1. EntryIsHeld'  BY EntryKept DEF UsageInv
  <2>2. PollsAreTimed'  BY PollEnds DEF UsageInv
  <2>3. poll'[Round] = poll[Round]  OBVIOUS
  <2>4. RoundIsTimed' /\ FigureWasGood'  BY <2>3, RoundKept, GoodKept DEF UsageInv
  <2> QED BY <2>1, <2>2, <2>4, SilentPromises DEF UsageInv
<1>6. CASE U!LeaveOut
  <2> USE <1>6 DEF U!LeaveOut
  <2>1. EntryIsHeld' /\ PollsAreTimed'  BY EntryKept DEF UsageInv, PollsAreTimed
  <2>2. poll[Round] = U!Idle  BY RoundAssumption DEF UsageInv, PollsAreTimed
  <2>3. RoundIsTimed' /\ FigureWasGood'  BY <2>2 DEF RoundIsTimed, FigureWasGood
  <2> QED BY <2>1, <2>3, SilentPromises DEF UsageInv
<1>7. CASE U!TakeIn
  <2> USE <1>7 DEF U!TakeIn
  <2>1. EntryIsHeld' /\ PollsAreTimed'  BY EntryKept DEF UsageInv, PollsAreTimed
  <2>2. clock \in Nat /\ ~ settled /\ settled \in BOOLEAN /\ settled' = settled /\ clock' = clock
    BY DEF UsageInv, EntryIsHeld, RoundIsTimed
  <2>3. nextRound' \in Nat /\ clock <= nextRound' /\ nextRound' <= clock + Interval
    BY <2>2, RoundAssumption
  <2>4. RoundIsTimed'
    <3>1. nextRound' # None  BY <2>3, EntryAssumption
    <3>2. settled' \in BOOLEAN  BY <2>2
    <3> HIDE <1>7 DEF U!TakeIn
    <3> QED BY <2>2, <2>3, <3>1, <3>2 DEF RoundIsTimed
  <2>5. FigureWasGood'  BY <2>2 DEF FigureWasGood
  <2> QED BY <2>1, <2>4, <2>5, SilentPromises DEF UsageInv
<1> QED BY <1>2, <1>3, <1>4, <1>5, <1>6, <1>7, AnswerKeeps, PeekKeeps, TickKeeps DEF U!Next

UsageAtWork == focus = "usage" => UsageInv

\* Whenever the usage cache is at work its invariant holds.
LEMMA UsageInvariance == PartsSpec => []UsageAtWork
<1>1. PartsInit => UsageAtWork
  BY UsageStarts DEF PartsInit, UsageAtWork
<1>2. UsageAtWork /\ [PartsNext]_partsVars => UsageAtWork'
  <2> SUFFICES ASSUME UsageAtWork, [PartsNext]_partsVars, focus' = "usage"
               PROVE  UsageInv'
    BY DEF UsageAtWork
  <2>1. CASE focus = "usage" /\ U!Next  BY <2>1, UsageSteps DEF UsageAtWork
  <2>2. CASE focus = "usage" /\ UNCHANGED usageVars
    BY <2>2, EntryKept, RoundKept, GoodKept
       DEF UsageAtWork, UsageInv, usageVars, PollsAreTimed, U!PollsArePaced, U!StalenessIsBounded
  <2>3. (focus = "usage" /\ U!Next) \/ (focus = "usage" /\ UNCHANGED usageVars)
    BY DEF PartsNext, partsVars
  <2> QED BY <2>1, <2>2, <2>3
<1> QED BY <1>1, <1>2, PTL DEF PartsSpec

\* A poll that nobody forces waits out the failures before it, however many
\* callers poll and force polls and whatever order the answers come in.
THEOREM PollsAlwaysPaced == PartsSpec => []PollsArePaced
<1>1. UsageAtWork => PollsArePaced  BY DEF UsageAtWork, PollsArePaced, UsageInv
<1> QED BY <1>1, UsageInvariance, PTL

\* No caller is given a figure older than a TTL and a deadline, and no gate of a pool
\* one that is older than that by more than an interval and a deadline, unless the
\* account was left out by the engine and has not been polled since.
THEOREM StalenessAlwaysBounded == PartsSpec => []StalenessIsBounded
<1>1. UsageAtWork => StalenessIsBounded  BY DEF UsageAtWork, StalenessIsBounded, UsageInv
<1> QED BY <1>1, UsageInvariance, PTL

----------------------------------------------------------------------------
(* Rounds. *)

\* The figures of a record are those of the last answer that had some.
Figured(r, past) ==
  \/ r.usage = None /\ \A i \in 1..Len(past) : past[i].is # "ok"
  \/ \E i \in 1..Len(past) :
       /\ past[i].is = "ok" /\ r.usage = past[i].usage
       /\ \A j \in 1..Len(past) : i < j => past[j].is # "ok"

\* Its error is the failing run that is under way, and counts from its start.
Run(past, i) ==
  /\ \A j \in 1..Len(past) : i <= j => past[j].is = "failed"
  /\ \A j \in 1..Len(past) : j + 1 = i => past[j].is # "failed"

Failing(r, past) ==
  \/ /\ r.error = FALSE /\ r.since = None
     /\ Len(past) > 0 => past[Len(past)].is # "failed"
  \/ /\ r.error = TRUE /\ r.since \in Nat
     /\ \E i \in 1..Len(past) : past[i].at = r.since /\ Run(past, i)

Remembers(r, past) == Figured(r, past) /\ Failing(r, past)

Shown(a) ==
  /\ snapshot[a].usage = polled[a].usage
  /\ \E q \in BOOLEAN : snapshot[a].health = R!HealthOf(polled[a], q)

SubStates ==
  [usage : R!Readings \cup {None}, error : BOOLEAN, since : Nat \cup {None}, out : BOOLEAN,
   checked : Nat \cup {None}]

RoundInv ==
  /\ hour \in Nat
  /\ ui.notifications \in BOOLEAN
  /\ DOMAIN quarantined = Account /\ \A a \in Account : quarantined[a] \in BOOLEAN
  /\ polled \in [Account -> SubStates]
  /\ happened \in [Account -> Seq(R!Happenings)]
  /\ \A a \in Account : Remembers(polled[a], happened[a]) /\ Shown(a)

LEMMA NatIsNotNone == None \notin Nat /\ None \notin R!Readings
BY ReadingAssumption

LEMMA RoundStarts ==
  ASSUME R!Init
  PROVE  RoundInv
<1> USE DEF R!Init
<1>1. R!Unpolled \in SubStates  BY DEF R!Unpolled, SubStates
<1>2. polled \in [Account -> SubStates] /\ happened \in [Account -> Seq(R!Happenings)]
  BY <1>1
<1>3. ASSUME NEW a \in Account  PROVE Remembers(polled[a], happened[a]) /\ Shown(a)
  <2>1. polled[a] = R!Unpolled /\ happened[a] = <<>> /\ Len(happened[a]) = 0  OBVIOUS
  <2>2. Remembers(polled[a], happened[a])
    BY <2>1 DEF Remembers, Figured, Failing, R!Unpolled
  <2>3. snapshot[a].usage = polled[a].usage /\ snapshot[a].health = R!HealthOf(polled[a], FALSE)
    BY <2>1 DEF R!Unpolled
  <2> QED BY <2>2, <2>3 DEF Shown
<1>4. hour \in Nat /\ ui.notifications \in BOOLEAN /\ DOMAIN quarantined = Account
      /\ \A a \in Account : quarantined[a] \in BOOLEAN
  OBVIOUS
<1> QED BY <1>2, <1>3, <1>4 DEF RoundInv

----------------------------------------------------------------------------
(* One more happening. *)

LEMMA Appended ==
  ASSUME NEW S, NEW past \in Seq(S), NEW e \in S
  PROVE  LET longer == Append(past, e)
         IN  /\ longer \in Seq(S) /\ Len(longer) = Len(past) + 1
             /\ longer[Len(past) + 1] = e
             /\ \A i \in 1..Len(past) : longer[i] = past[i]
OBVIOUS

LEMMA AfterCredential ==
  ASSUME NEW past \in Seq(R!Happenings), NEW r, Remembers(r, past),
         NEW new, new.usage = r.usage, new.error = FALSE, new.since = None
  PROVE  Remembers(new, Append(past, R!Credential))
<1> DEFINE e == R!Credential
           longer == Append(past, e)
<1>1. e \in R!Happenings /\ e.is = "credential"  BY DEF R!Happenings, R!Credential
<1>2. /\ Len(longer) = Len(past) + 1 /\ Len(past) \in Nat /\ longer[Len(past) + 1] = e
      /\ \A i \in 1..Len(past) : longer[i] = past[i]
  BY <1>1, Appended
<1> HIDE DEF e, longer
<1>3. Figured(new, longer)
  BY <1>1, <1>2 DEF Remembers, Figured
<1>4. Failing(new, longer)
  BY <1>1, <1>2 DEF Failing
<1> QED BY <1>3, <1>4 DEF Remembers, longer, e

LEMMA AfterFigures ==
  ASSUME NEW past \in Seq(R!Happenings), NEW r, Remembers(r, past),
         NEW e \in R!Happenings, e.is = "ok",
         NEW new, new.usage = e.usage, new.error = FALSE, new.since = None
  PROVE  Remembers(new, Append(past, e))
<1> DEFINE longer == Append(past, e)
<1>2. /\ Len(longer) = Len(past) + 1 /\ Len(past) \in Nat /\ longer[Len(past) + 1] = e
      /\ \A i \in 1..Len(past) : longer[i] = past[i]
  BY Appended
<1> HIDE DEF longer
<1>3. Figured(new, longer)
  BY <1>2 DEF Figured
<1>4. Failing(new, longer)
  BY <1>2 DEF Failing
<1> QED BY <1>3, <1>4 DEF Remembers, longer

LEMMA AfterFailure ==
  ASSUME NEW past \in Seq(R!Happenings), NEW r, Remembers(r, past),
         NEW e \in R!Happenings, e.is = "failed", e.at \in Nat,
         NEW new, new.usage = r.usage, new.error = TRUE,
         new.since = IF r.since = None THEN e.at ELSE r.since
  PROVE  Remembers(new, Append(past, e))
<1> DEFINE longer == Append(past, e)
<1>2. /\ Len(longer) = Len(past) + 1 /\ Len(past) \in Nat /\ longer[Len(past) + 1] = e
      /\ \A i \in 1..Len(past) : longer[i] = past[i]
  BY Appended
<1> HIDE DEF longer
<1>3. Figured(new, longer)
  BY <1>2 DEF Remembers, Figured
<1>4. Failing(new, longer)
  <2>1. CASE r.since = None
    <3>1. Len(past) > 0 => past[Len(past)].is # "failed"
      BY <2>1, NatIsNotNone DEF Remembers, Failing
    <3>2. Run(longer, Len(past) + 1)
      BY <3>1, <1>2 DEF Run
    <3> QED BY <2>1, <3>2, <1>2 DEF Failing
  <2>2. CASE r.since # None
    <3>1. PICK i \in 1..Len(past) : r.since \in Nat /\ past[i].at = r.since /\ Run(past, i)
      BY <2>2 DEF Remembers, Failing
    <3>2. Run(longer, i)  BY <3>1, <1>2 DEF Run
    <3>3. i \in 1..Len(longer) /\ longer[i].at = new.since  BY <2>2, <3>1, <1>2
    <3> QED BY <2>2, <3>1, <3>2, <3>3 DEF Failing
  <2> QED BY <2>1, <2>2
<1> QED BY <1>3, <1>4 DEF Remembers, longer

\* Nothing happened that the record keeps.
LEMMA AfterNothing ==
  ASSUME NEW past, NEW r, Remembers(r, past),
         NEW new, new.usage = r.usage, new.error = r.error, new.since = r.since
  PROVE  Remembers(new, past)
BY DEF Remembers, Figured, Failing

----------------------------------------------------------------------------
(* One lemma for each action. *)

LEMMA AccountMoves ==
  ASSUME RoundInv, NEW a \in Account, NEW new \in SubStates, NEW past \in Seq(R!Happenings),
         Remembers(new, past), R!Publish,
         polled' = [polled EXCEPT ![a] = new], happened' = [happened EXCEPT ![a] = past],
         hour' \in Nat, ui'.notifications \in BOOLEAN,
         DOMAIN quarantined' = Account, \A b \in Account : quarantined'[b] \in BOOLEAN
  PROVE  RoundInv'
<1>1. polled' \in [Account -> SubStates] /\ happened' \in [Account -> Seq(R!Happenings)]
  BY DEF RoundInv
<1>2. ASSUME NEW b \in Account  PROVE Remembers(polled'[b], happened'[b]) /\ Shown(b)'
  <2>1. Remembers(polled'[b], happened'[b])  BY DEF RoundInv
  <2>2. /\ snapshot'[b].usage = polled'[b].usage
        /\ snapshot'[b].health = R!HealthOf(polled'[b], quarantined'[b])
    BY DEF R!Publish
  <2> QED BY <2>1, <2>2 DEF Shown, R!HealthOf
<1> QED BY <1>1, <1>2 DEF RoundInv, Remembers, Figured, Failing, Run

LEMMA AccountIs ==
  ASSUME RoundInv, NEW a \in Account
  PROVE  /\ polled[a] \in SubStates /\ happened[a] \in Seq(R!Happenings)
         /\ Remembers(polled[a], happened[a])
         /\ polled = [polled EXCEPT ![a] = polled[a]]
         /\ happened = [happened EXCEPT ![a] = happened[a]]
BY DEF RoundInv

\* recheck_signed_out, on its own.
LEMMA RecheckKeeps ==
  ASSUME RoundInv, NEW a \in Account
  PROVE  LET past == IF R!Adopts(a) THEN Append(happened[a], R!Credential) ELSE happened[a]
         IN  /\ R!Rechecked(a) \in SubStates /\ past \in Seq(R!Happenings)
             /\ Remembers(R!Rechecked(a), past)
<1> DEFINE r == polled[a]
           new == R!Rechecked(a)
<1>0. r \in SubStates /\ happened[a] \in Seq(R!Happenings) /\ Remembers(r, happened[a])
      /\ hour \in Nat
  BY AccountIs DEF RoundInv
<1>1. R!Credential \in R!Happenings  BY DEF R!Happenings
<1>2. CASE R!Adopts(a)
  <2>1. new = [usage |-> r.usage, error |-> FALSE, since |-> None, out |-> FALSE, checked |-> None]
    BY <1>2 DEF R!Rechecked, R!Unpolled, R!Adopts
  <2>2. new \in SubStates  BY <2>1, <1>0 DEF SubStates
  <2>3. Remembers(new, Append(happened[a], R!Credential))
    <3>1. new.usage = r.usage /\ new.error = FALSE /\ new.since = None  BY <2>1
    <3> HIDE DEF new, r
    <3> QED BY <3>1, <1>0, AfterCredential
  <2>4. Append(happened[a], R!Credential) \in Seq(R!Happenings)  BY <1>0, <1>1
  <2> QED BY <1>2, <2>2, <2>3, <2>4
<1>3. CASE ~ R!Adopts(a)
  <2>1. new = [r EXCEPT !.checked = hour] \/ new = r
    BY <1>3 DEF R!Rechecked, R!Adopts
  <2>2. /\ new \in SubStates
        /\ new.usage = r.usage /\ new.error = r.error /\ new.since = r.since
    BY <2>1, <1>0 DEF SubStates
  <2>3. Remembers(new, happened[a])
    <3> HIDE DEF new, r
    <3> QED BY <2>2, <1>0, AfterNothing
  <2> QED BY <1>0, <1>3, <2>2, <2>3
<1> QED BY <1>2, <1>3

LEMMA Joined ==
  ASSUME NEW S, NEW past \in Seq(S), NEW c \in S, NEW e \in S
  PROVE  /\ past \o (<<>> \o <<>>) = past
         /\ past \o (<<c>> \o <<>>) = Append(past, c)
         /\ past \o (<<>> \o <<e>>) = Append(past, e)
         /\ past \o (<<c>> \o <<e>>) = Append(Append(past, c), e)
         /\ past \o <<c>> = Append(past, c)
OBVIOUS

LEMMA PollRoundKeeps ==
  ASSUME RoundInv, NEW a \in Account, R!PollRound(a)
  PROVE  RoundInv'
<1> DEFINE before == R!Rechecked(a)
           news == IF R!Adopts(a) THEN <<R!Credential>> ELSE <<>>
           past == IF R!Adopts(a) THEN Append(happened[a], R!Credential) ELSE happened[a]
<1>0. /\ before \in SubStates /\ past \in Seq(R!Happenings) /\ Remembers(before, past)
      /\ happened[a] \in Seq(R!Happenings)
      /\ hour \in Nat /\ hour' = hour /\ ui' = ui /\ ui.notifications \in BOOLEAN
      /\ DOMAIN quarantined = Account /\ \A b \in Account : quarantined[b] \in BOOLEAN
      /\ R!Publish /\ R!Credential \in R!Happenings
  BY RecheckKeeps, AccountIs DEF R!PollRound, RoundInv, R!Happenings
<1>x. /\ happened[a] \o (news \o <<>>) = past
      /\ \A e \in R!Happenings : happened[a] \o (news \o <<e>>) = Append(past, e)
  <2>1. CASE R!Adopts(a)
    <3>1. news = <<R!Credential>> /\ past = Append(happened[a], R!Credential)  BY <2>1
    <3> HIDE DEF news, past
    <3> QED BY <3>1, <1>0, Joined
  <2>2. CASE ~ R!Adopts(a)
    <3>1. news = <<>> /\ past = happened[a]  BY <2>2
    <3> HIDE DEF news, past
    <3> QED BY <3>1, <1>0, Joined
  <2> QED BY <2>1, <2>2
<1>1. CASE /\ before.out /\ polled' = [polled EXCEPT ![a] = before]
           /\ UNCHANGED <<newer, quarantined, severities, raised, happened>>
  <2>1. ~ R!Adopts(a)
    <3>1. R!Adopts(a) => before.out = FALSE
      BY DEF R!Rechecked, R!Unpolled, R!Adopts
    <3> QED BY <3>1, <1>1
  <2>2. past = happened[a] /\ happened' = [happened EXCEPT ![a] = past]
    BY <2>1, <1>1, AccountIs
  <2> HIDE DEF before, past
  <2> QED BY <1>0, <1>1, <2>2, AccountMoves
<1>2. ASSUME NEW outcome \in R!Outcomes, NEW what, R!Happened(a, news \o what),
             polled' = [polled EXCEPT ![a] = R!Recorded(before, outcome)],
             what = CASE outcome.is = "dead" -> <<>>
                      [] outcome.is = "ok" -> <<[is |-> "ok", usage |-> outcome.usage,
                              heard |-> ui.notifications, bands |-> R!BandsOf(outcome.usage)]>>
                      [] OTHER -> <<[is |-> "failed", at |-> hour]>>,
             IF outcome.is = "ok" THEN R!Evaluate(a, outcome.usage)
             ELSE UNCHANGED <<quarantined, severities, raised>>
      PROVE  RoundInv'
  <2> DEFINE new == R!Recorded(before, outcome)
             ok == [is |-> "ok", usage |-> outcome.usage, heard |-> ui.notifications,
                    bands |-> R!BandsOf(outcome.usage)]
             failed == [is |-> "failed", at |-> hour]
  <2>1. DOMAIN quarantined' = Account /\ \A b \in Account : quarantined'[b] \in BOOLEAN
    <3>1. CASE outcome.is = "ok"
      BY <3>1, <1>0, <1>2 DEF R!Evaluate
    <3>2. CASE outcome.is # "ok"
      BY <3>2, <1>0, <1>2
    <3> QED BY <3>1, <3>2
  <2>2. failed \in R!Happenings /\ failed.is = "failed" /\ failed.at = hour
    BY <1>0 DEF R!Happenings
  <2>3. ASSUME NEW final \in Seq(R!Happenings), happened' = [happened EXCEPT ![a] = final],
               new \in SubStates, Remembers(new, final)
        PROVE  RoundInv'
    <3> HIDE DEF new, before
    <3>1. polled' = [polled EXCEPT ![a] = new]  BY <1>2 DEF new
    <3> QED BY <1>0, <2>1, <2>3, <3>1, AccountMoves
  <2>4. happened' = [happened EXCEPT ![a] = happened[a] \o (news \o what)]
    BY <1>2 DEF R!Happened
  <2>5. CASE outcome.is = "dead"
    <3>1. new = [before EXCEPT !.out = TRUE, !.checked = hour]
      BY <2>5 DEF R!Recorded, R!MarkNeedsLogin
    <3>2. new \in SubStates /\ new.usage = before.usage /\ new.error = before.error
          /\ new.since = before.since
      <4> HIDE DEF new, before
      <4> QED BY <3>1, <1>0 DEF SubStates
    <3>3. Remembers(new, past)
      <4> HIDE DEF new, before, past
      <4> QED BY <3>2, <1>0, AfterNothing
    <3>4. happened[a] \o (news \o what) = past
      <4>1. what = <<>>  BY <2>5, <1>2
      <4> HIDE DEF news, past
      <4> QED BY <4>1, <1>x
    <3>5. happened' = [happened EXCEPT ![a] = past]  BY <2>4, <3>4
    <3> HIDE DEF new, past
    <3> QED BY <2>3, <3>2, <3>3, <3>5, <1>0
  <2>6. CASE outcome.is = "ok"
    <3>0. outcome.usage \in R!Readings  BY <2>6 DEF R!Outcomes
    <3>1. new = [before EXCEPT !.usage = outcome.usage, !.error = FALSE, !.since = None]
      BY <2>6 DEF R!Recorded
    <3>2. new \in SubStates /\ new.usage = outcome.usage /\ new.error = FALSE /\ new.since = None
      <4> HIDE DEF new, before
      <4> QED BY <3>0, <3>1, <1>0 DEF SubStates
    <3>3. ok \in R!Happenings /\ ok.is = "ok" /\ ok.usage = outcome.usage
      <4>1. R!BandsOf(outcome.usage) \in [Kind -> R!Bands]
        <5>1. \A w \in Kind : R!SeverityFor(outcome.usage[w], ui) \in R!Bands
          BY DEF R!SeverityFor, R!Bands
        <5> QED BY <5>1 DEF R!BandsOf, R!Bands
      <4> QED BY <4>1, <3>0, <1>0 DEF R!Happenings
    <3>4. Remembers(new, Append(past, ok))
      <4> HIDE DEF new, before, past, ok
      <4> QED BY <3>2, <3>3, <1>0, AfterFigures
    <3>5. happened[a] \o (news \o what) = Append(past, ok)
      <4>1. what = <<ok>>  BY <2>6, <1>2
      <4> HIDE DEF ok, news, past
      <4> QED BY <4>1, <3>3, <1>x
    <3>6. Append(past, ok) \in Seq(R!Happenings)
      <4> HIDE DEF past, ok
      <4> QED BY <3>3, <1>0
    <3>7. happened' = [happened EXCEPT ![a] = Append(past, ok)]  BY <2>4, <3>5
    <3> HIDE DEF new, past, ok
    <3> QED BY <2>3, <3>2, <3>4, <3>6, <3>7
  <2>7. CASE outcome.is \in {"failed", "refused"}
    <3>1. \/ new = [before EXCEPT !.error = TRUE, !.since = IF before.since = None THEN hour ELSE before.since]
          \/ new = [before EXCEPT !.out = TRUE, !.checked = hour, !.error = TRUE,
                                  !.since = IF before.since = None THEN hour ELSE before.since]
      <4> HIDE DEF before
      <4>1. CASE outcome.is = "failed"  BY <4>1 DEF R!Recorded, R!Failed
      <4>2. CASE outcome.is = "refused"
        <5>1. new = R!Failed(R!MarkNeedsLogin(before))  BY <4>2 DEF R!Recorded
        <5>2. R!MarkNeedsLogin(before).since = before.since
          BY <1>0 DEF R!MarkNeedsLogin, SubStates
        <5> QED BY <5>1, <5>2, <1>0 DEF R!Failed, R!MarkNeedsLogin, SubStates
      <4> QED BY <2>7, <4>1, <4>2
    <3>2. new \in SubStates /\ new.usage = before.usage /\ new.error = TRUE
          /\ new.since = IF before.since = None THEN hour ELSE before.since
      <4> HIDE DEF new, before
      <4> QED BY <3>1, <1>0 DEF SubStates
    <3>4. Remembers(new, Append(past, failed))
      <4> HIDE DEF new, before, past, failed
      <4> QED BY <3>2, <2>2, <1>0, AfterFailure
    <3>5. happened[a] \o (news \o what) = Append(past, failed)
      <4>1. what = <<failed>>  BY <2>7, <1>2
      <4> HIDE DEF failed, news, past
      <4> QED BY <4>1, <2>2, <1>x
    <3>6. Append(past, failed) \in Seq(R!Happenings)
      <4> HIDE DEF past, failed
      <4> QED BY <2>2, <1>0
    <3>7. happened' = [happened EXCEPT ![a] = Append(past, failed)]  BY <2>4, <3>5
    <3> HIDE DEF new, past, failed
    <3> QED BY <2>3, <3>2, <3>4, <3>6, <3>7
  <2> QED BY <2>5, <2>6, <2>7 DEF R!Outcomes
<1> QED BY <1>1, <1>2 DEF R!PollRound

LEMMA FinishLoginKeepsRound ==
  ASSUME RoundInv, NEW a \in Account, R!FinishLogin(a)
  PROVE  RoundInv'
<1> USE DEF R!FinishLogin
<1> DEFINE r == polled[a]
           new == [r EXCEPT !.out = FALSE, !.error = FALSE, !.since = None]
           past == Append(happened[a], R!Credential)
<1>0. r \in SubStates /\ happened[a] \in Seq(R!Happenings) /\ Remembers(r, happened[a])
      /\ R!Credential \in R!Happenings
  BY AccountIs DEF R!Happenings
<1>1. new \in SubStates /\ new.usage = r.usage /\ new.error = FALSE /\ new.since = None
  <2> HIDE DEF r
  <2> QED BY <1>0 DEF SubStates
<1>2. Remembers(new, past)
  <2> HIDE DEF new, r
  <2> QED BY <1>0, <1>1, AfterCredential
<1>3. polled' = [polled EXCEPT ![a] = new]  OBVIOUS
<1>4. happened' = [happened EXCEPT ![a] = past]  BY <1>0, Joined DEF R!Happened
<1>5. past \in Seq(R!Happenings)  BY <1>0
<1>6. hour' \in Nat /\ ui'.notifications \in BOOLEAN /\ DOMAIN quarantined' = Account
      /\ R!Publish /\ \A b \in Account : quarantined'[b] \in BOOLEAN
  BY DEF RoundInv
<1> HIDE DEF new, past, R!FinishLogin
<1> QED BY <1>1, <1>2, <1>3, <1>4, <1>5, <1>6, AccountMoves

\* Nothing that is shown moves.
LEMMA NothingMoves ==
  ASSUME RoundInv, UNCHANGED <<polled, snapshot, happened>>, hour' \in Nat,
         ui'.notifications \in BOOLEAN,
         DOMAIN quarantined' = Account, \A b \in Account : quarantined'[b] \in BOOLEAN
  PROVE  RoundInv'
<1>1. \A a \in Account : Shown(a)'  BY DEF RoundInv, Shown, R!HealthOf
<1>2. \A a \in Account : Remembers(polled'[a], happened'[a])  BY DEF RoundInv
<1> QED BY <1>1, <1>2 DEF RoundInv, Remembers, Figured, Failing, Run

LEMMA RoundSteps ==
  ASSUME RoundInv, R!Next
  PROVE  RoundInv'
<1>1. CASE R!Tick  BY <1>1, NothingMoves DEF R!Tick, RoundInv
<1>2. ASSUME NEW t \in Thresholds, NEW n \in BOOLEAN, R!SetUi(t, n)  PROVE RoundInv'
  <2> USE <1>2 DEF R!SetUi
  <2>1. \A a \in Account : Shown(a)'
    BY DEF RoundInv, R!Publish, Shown, R!HealthOf
  <2>2. \A a \in Account : Remembers(polled'[a], happened'[a])  BY DEF RoundInv
  <2>3. hour' \in Nat /\ ui'.notifications \in BOOLEAN /\ DOMAIN quarantined' = Account
        /\ (\A b \in Account : quarantined'[b] \in BOOLEAN)
        /\ polled' \in [Account -> SubStates] /\ happened' \in [Account -> Seq(R!Happenings)]
    BY DEF RoundInv
  <2> QED BY <2>1, <2>2, <2>3 DEF RoundInv, Remembers, Figured, Failing, Run
<1>3. ASSUME NEW a \in Account, R!SourceChanges(a)  PROVE RoundInv'
  BY <1>3, NothingMoves DEF R!SourceChanges, RoundInv
<1>4. ASSUME NEW a \in Account, R!Quarantine(a)  PROVE RoundInv'
  BY <1>4, NothingMoves DEF R!Quarantine, RoundInv
<1> QED BY <1>1, <1>2, <1>3, <1>4, PollRoundKeeps, FinishLoginKeepsRound DEF R!Next

RoundAtWork == focus = "rounds" => RoundInv

\* Whenever the rounds are at work their invariant holds.
LEMMA RoundInvariance == PartsSpec => []RoundAtWork
<1>1. PartsInit => RoundAtWork
  BY RoundStarts DEF PartsInit, RoundAtWork
<1>2. RoundAtWork /\ [PartsNext]_partsVars => RoundAtWork'
  <2> SUFFICES ASSUME RoundAtWork, [PartsNext]_partsVars, focus' = "rounds"
               PROVE  RoundInv'
    BY DEF RoundAtWork
  <2>1. CASE focus = "rounds" /\ R!Next  BY <2>1, RoundSteps DEF RoundAtWork
  <2>2. CASE focus = "rounds" /\ UNCHANGED roundVars
    BY <2>2, NothingMoves DEF RoundAtWork, RoundInv, roundVars
  <2>3. (focus = "rounds" /\ R!Next) \/ (focus = "rounds" /\ UNCHANGED roundVars)
    BY DEF PartsNext, partsVars
  <2> QED BY <2>1, <2>2, <2>3
<1> QED BY <1>1, <1>2, PTL DEF PartsSpec

\* The last of a set of numbers that has one, and the first.
LEMMA LastIs ==
  ASSUME NEW S \in SUBSET Nat, NEW i \in S, \A j \in S : j <= i
  PROVE  (CHOOSE k \in S : \A j \in S : j <= k) = i
<1> DEFINE P(k) == \A j \in S : j <= k
<1>1. P(i)  OBVIOUS
<1>2. \A k \in S : P(k) => k = i  OBVIOUS
<1> HIDE DEF P
<1>3. (CHOOSE k \in S : P(k)) = i  BY <1>1, <1>2
<1> QED BY <1>3 DEF P

LEMMA FirstIs ==
  ASSUME NEW S \in SUBSET Nat, NEW i \in S, \A j \in S : i <= j
  PROVE  (CHOOSE k \in S : \A j \in S : k <= j) = i
<1> DEFINE P(k) == \A j \in S : k <= j
<1>1. P(i)  OBVIOUS
<1>2. \A k \in S : P(k) => k = i  OBVIOUS
<1> HIDE DEF P
<1>3. (CHOOSE k \in S : P(k)) = i  BY <1>1, <1>2
<1> QED BY <1>3 DEF P

\* What is shown of an account is what its polls came to.
LEMMA ShownIsHonest ==
  ASSUME RoundInv, NEW a \in Account
  PROVE  LET past == happened[a]
             good == {i \in DOMAIN past : past[i].is = "ok"}
             clean == {i \in DOMAIN past : past[i].is # "failed"}
             failing_ == {i \in DOMAIN past : past[i].is = "failed" /\ \A j \in clean : j < i}
             health == snapshot[a].health
         IN  /\ snapshot[a].usage = IF good = {} THEN None ELSE past[CHOOSE i \in good : \A j \in good : j <= i].usage
             /\ health.is = "unknown" => good = {}
             /\ health.is = "ok" => good # {} /\ failing_ = {}
             /\ health.is = "stale" =>
                  /\ good # {} /\ failing_ # {}
                  /\ health.since = past[CHOOSE i \in failing_ : \A j \in failing_ : i <= j].at
<1> DEFINE past == happened[a]
           r == polled[a]
           good == {i \in DOMAIN past : past[i].is = "ok"}
           clean == {i \in DOMAIN past : past[i].is # "failed"}
           run == {i \in DOMAIN past : past[i].is = "failed" /\ \A j \in clean : j < i}
           health == snapshot[a].health
<1>0. /\ r \in SubStates /\ past \in Seq(R!Happenings) /\ Figured(r, past) /\ Failing(r, past)
      /\ snapshot[a].usage = r.usage
      /\ \E q \in BOOLEAN : health = R!HealthOf(r, q)
  BY AccountIs DEF Remembers, RoundInv, Shown
<1>1. DOMAIN past = 1..Len(past) /\ Len(past) \in Nat /\ good \in SUBSET Nat /\ run \in SUBSET Nat
      /\ clean \in SUBSET Nat
  BY <1>0
<1>2. r.usage = IF good = {} THEN None ELSE past[CHOOSE i \in good : \A j \in good : j <= i].usage
  <2>1. CASE r.usage = None /\ \A i \in 1..Len(past) : past[i].is # "ok"
    BY <2>1, <1>1
  <2>2. ASSUME NEW i \in 1..Len(past), past[i].is = "ok", r.usage = past[i].usage,
               \A j \in 1..Len(past) : i < j => past[j].is # "ok"
        PROVE  r.usage = IF good = {} THEN None ELSE past[CHOOSE k \in good : \A j \in good : j <= k].usage
    <3>1. i \in good /\ \A j \in good : j <= i  BY <2>2, <1>1
    <3>2. (CHOOSE k \in good : \A j \in good : j <= k) = i
      <4> HIDE DEF good
      <4> QED BY <3>1, <1>1, LastIs
    <3> QED BY <3>1, <3>2, <2>2
  <2> QED BY <2>1, <2>2, <1>0 DEF Figured
<1>3. good # {} => r.usage # None
  <2>1. \A i \in good : past[i] \in R!Happenings /\ past[i].is = "ok"  BY <1>0, <1>1
  <2>2. \A i \in good : past[i].usage \in R!Readings
    BY <2>1 DEF R!Happenings, R!Credential
  <2>3. CASE r.usage = None /\ \A i \in 1..Len(past) : past[i].is # "ok"
    BY <2>3, <1>1
  <2>4. ASSUME NEW i \in 1..Len(past), past[i].is = "ok", r.usage = past[i].usage
        PROVE  r.usage # None
    BY <2>2, <2>4, <1>1, NatIsNotNone
  <2> QED BY <2>3, <2>4, <1>0 DEF Figured
<1>4. r.error = FALSE => run = {}
  <2> SUFFICES ASSUME r.error = FALSE, NEW i \in run  PROVE FALSE
    OBVIOUS
  <2>1. Len(past) > 0 => past[Len(past)].is # "failed"
    BY <1>0 DEF Failing
  <2>2. Len(past) \in clean  BY <2>1, <1>1
  <2> QED BY <2>2, <1>1
<1>5. r.error = TRUE =>
        run # {} /\ r.since = past[CHOOSE i \in run : \A j \in run : i <= j].at
  <2> SUFFICES ASSUME r.error = TRUE
               PROVE  run # {} /\ r.since = past[CHOOSE i \in run : \A j \in run : i <= j].at
    OBVIOUS
  <2>1. PICK i \in 1..Len(past) : past[i].at = r.since /\ Run(past, i)
    BY <1>0 DEF Failing
  <2>2. i \in run
    <3>1. past[i].is = "failed"  BY <2>1 DEF Run
    <3>2. \A j \in clean : j < i  BY <2>1, <1>1 DEF Run
    <3> QED BY <3>1, <3>2, <1>1
  <2>3. \A j \in run : i <= j
    <3> SUFFICES ASSUME NEW j \in run, j < i  PROVE FALSE
      BY <1>1
    <3>1. i - 1 \in 1..Len(past) /\ past[i - 1].is # "failed" /\ j <= i - 1
      BY <2>1, <1>1 DEF Run
    <3>2. i - 1 \in clean  BY <3>1, <1>1
    <3> QED BY <3>1, <3>2, <1>1
  <2>4. (CHOOSE k \in run : \A j \in run : k <= j) = i
    <3> HIDE DEF run
    <3> QED BY <2>2, <2>3, <1>1, FirstIs
  <2> QED BY <2>1, <2>2, <2>4
<1>6. /\ health.is = "unknown" => r.usage = None
      /\ health.is = "ok" => r.usage # None /\ r.error = FALSE
      /\ health.is = "stale" => r.usage # None /\ r.error = TRUE /\ health.since = r.since
  <2>1. r.out \in BOOLEAN /\ r.error \in BOOLEAN  BY <1>0 DEF SubStates
  <2> HIDE DEF r, health
  <2>2. PICK q \in BOOLEAN : health = R!HealthOf(r, q)  BY <1>0
  <2>3. CASE r.out  BY <2>2, <2>3 DEF R!HealthOf
  <2>4. CASE ~ r.out /\ q  BY <2>2, <2>4 DEF R!HealthOf
  <2>5. CASE ~ r.out /\ ~ q /\ r.usage # None /\ r.error  BY <2>1, <2>2, <2>5 DEF R!HealthOf
  <2>6. CASE ~ r.out /\ ~ q /\ r.usage # None /\ ~ r.error  BY <2>1, <2>2, <2>6 DEF R!HealthOf
  <2>7. CASE ~ r.out /\ ~ q /\ r.usage = None  BY <2>2, <2>7 DEF R!HealthOf
  <2> QED BY <2>1, <2>3, <2>4, <2>5, <2>6, <2>7
<1>7. r.usage # None => good # {}  BY <1>2
<1> HIDE DEF good, run, r, health, clean, past
<1>8. /\ snapshot[a].usage = IF good = {} THEN None ELSE past[CHOOSE i \in good : \A j \in good : j <= i].usage
      /\ health.is = "unknown" => good = {}
      /\ health.is = "ok" => good # {} /\ run = {}
      /\ health.is = "stale" =>
           /\ good # {} /\ run # {}
           /\ health.since = past[CHOOSE i \in run : \A j \in run : i <= j].at
  BY <1>0, <1>2, <1>3, <1>4, <1>5, <1>6, <1>7
<1> QED BY <1>8 DEF good, run, r, health, clean, past

\* What a snapshot says of an account's health, and the figures it shows, is
\* what its polls came to, whatever refreshes, sign-ins, quarantines and
\* rechecks went between them.
THEOREM HealthAlwaysHonest == PartsSpec => []HealthIsHonest
<1>1. RoundAtWork => HealthIsHonest
  BY ShownIsHonest DEF RoundAtWork, HealthIsHonest, R!HealthIsHonest
<1> QED BY <1>1, RoundInvariance, PTL

----------------------------------------------------------------------------
(* The alerts of the rounds. *)

\* The readings that an account had of a window.
Reads(w) == {e \in R!Happenings : e.is = "ok" /\ e.usage[w] # None}
Heard(past, w) == Selected(past, Reads(w))

\* Those that are in a band above the one before, while alerts were wanted.
Rises(x, y, w) == y.heard /\ R!Rank[y.bands[w]] > R!Rank[x.bands[w]]
Rising(seen, w) == {i \in 1..Len(seen) : i > 1 /\ Rises(seen[i - 1], seen[i], w)}
Risen(seen, w) == Selected([i \in 1..Len(seen) |-> i], Rising(seen, w))

\* The alerts they call for, and those there are.
Alerts == [account : Account, window : Kind, severity : R!Bands]
Alert(a, w, band) == [account |-> a, window |-> w, severity |-> band]

Called(seen, a, w) ==
  [k \in DOMAIN Risen(seen, w) |-> Alert(a, w, seen[Risen(seen, w)[k]].bands[w])]
For(a, w) == {alert \in Alerts : alert.account = a /\ alert.window = w}

\* The band a window was last seen in is that of its last reading, and its
\* alerts are those its readings call for.
Announced(band, seen, told, a, w) ==
  /\ band = IF Len(seen) = 0 THEN None ELSE seen[Len(seen)].bands[w]
  /\ \A i \in 1..Len(seen) : seen[i].bands[w] \in DOMAIN R!Rank
  /\ Selected(told, For(a, w)) = Called(seen, a, w)

AlertInv ==
  /\ raised \in Seq(Alerts)
  /\ severities \in [Account -> [Kind -> R!Bands]]
  /\ \A a \in Account, w \in Kind :
       Announced(severities[a][w], Heard(happened[a], w), raised, a, w)

LEMMA RiseCounts ==
  ASSUME NEW seen \in Seq(R!Happenings), NEW e \in R!Happenings, NEW w
  PROVE  /\ Risen(seen, w) \in Seq(1..Len(seen))
         /\ Risen(Append(seen, e), w) =
              IF Len(seen) > 0 /\ Rises(seen[Len(seen)], e, w)
              THEN Append(Risen(seen, w), Len(seen) + 1) ELSE Risen(seen, w)
<1> DEFINE n == Len(seen)
           longer == Append(seen, e)
           places == [i \in 1..n |-> i]
<1>1. /\ n \in Nat /\ longer \in Seq(R!Happenings) /\ Len(longer) = n + 1
      /\ longer[n + 1] = e /\ \A i \in 1..n : longer[i] = seen[i]
  OBVIOUS
<1> HIDE DEF longer
<1>2. /\ places \in Seq(1..n) /\ places \in Seq(Nat) /\ Len(places) = n
      /\ \A i \in 1..n : places[i] = i
  BY <1>1
<1> HIDE DEF places
<1>3. [i \in 1..Len(longer) |-> i] = Append(places, n + 1)
  <2>1. Append(places, n + 1) = [i \in 1..(n + 1) |-> IF i = n + 1 THEN n + 1 ELSE places[i]]
    BY <1>2, AppendIs
  <2>2. \A i \in 1..(n + 1) : i # n + 1 => i \in 1..n  BY <1>1
  <2>3. \A i \in 1..(n + 1) : i = IF i = n + 1 THEN n + 1 ELSE places[i]  BY <1>2, <2>2
  <2> HIDE DEF n
  <2> QED BY <1>1, <2>1, <2>3
<1>4. Risen(seen, w) = Selected(places, Rising(seen, w))  BY DEF Risen, places
<1>5. Risen(seen, w) \in Seq(1..n)  BY <1>2, <1>4, SelectedType
<1>6. Risen(longer, w) =
        IF n + 1 \in Rising(longer, w) THEN Append(Selected(places, Rising(longer, w)), n + 1)
        ELSE Selected(places, Rising(longer, w))
  <2>1. Risen(longer, w) = Selected(Append(places, n + 1), Rising(longer, w))
    BY <1>3 DEF Risen
  <2>2. n + 1 \in Nat  BY <1>1
  <2> DEFINE up == Rising(longer, w)
  <2>3. Risen(longer, w) = Selected(Append(places, n + 1), up)  BY <2>1
  <2> HIDE DEF up, n
  <2>4. Selected(Append(places, n + 1), up) =
          IF n + 1 \in up THEN Append(Selected(places, up), n + 1) ELSE Selected(places, up)
    <3>1. places \in Seq(Nat)  BY <1>2
    <3>2. PICK last \in Nat : last = n + 1  BY <2>2
    <3>3. Selected(Append(places, last), up) =
            IF last \in up THEN Append(Selected(places, up), last) ELSE Selected(places, up)
      BY <3>1, SelectedAppend
    <3> QED BY <3>2, <3>3
  <2> QED BY <2>3, <2>4 DEF up, n
<1>7. \A i \in 1..n : i \in Rising(longer, w) <=> i \in Rising(seen, w)
  <2> TAKE i \in 1..n
  <2>1. i \in 1..Len(longer) /\ longer[i] = seen[i] /\ (i > 1 => longer[i - 1] = seen[i - 1])
    BY <1>1
  <2> QED BY <2>1 DEF Rising
<1>8. Selected(places, Rising(longer, w)) = Selected(places, Rising(seen, w))
  BY <1>2, <1>7, SelectedSame
<1>9. n + 1 \in Rising(longer, w) <=> n > 0 /\ Rises(seen[n], e, w)
  <2>1. n + 1 \in 1..Len(longer) /\ (n + 1 > 1 <=> n > 0) /\ (n + 1) - 1 = n
        /\ (n > 0 => longer[n] = seen[n])
    BY <1>1
  <2> QED BY <1>1, <2>1 DEF Rising
<1> QED BY <1>4, <1>5, <1>6, <1>8, <1>9 DEF longer

LEMMA CallGrows ==
  ASSUME NEW seen \in Seq(R!Happenings), NEW e \in R!Happenings, NEW a, NEW w
  PROVE  Called(Append(seen, e), a, w) =
           IF Len(seen) > 0 /\ Rises(seen[Len(seen)], e, w)
           THEN Append(Called(seen, a, w), Alert(a, w, e.bands[w])) ELSE Called(seen, a, w)
<1> DEFINE n == Len(seen)
           longer == Append(seen, e)
           risen == Risen(seen, w)
           m == Len(risen)
<1>1. /\ n \in Nat /\ longer[n + 1] = e /\ \A i \in 1..n : longer[i] = seen[i]
  OBVIOUS
<1>2. /\ risen \in Seq(1..n)
      /\ Risen(longer, w) = IF n > 0 /\ Rises(seen[n], e, w) THEN Append(risen, n + 1) ELSE risen
  BY RiseCounts
<1> HIDE DEF longer, risen
<1>3. m \in Nat /\ DOMAIN risen = 1..m /\ \A k \in 1..m : risen[k] \in 1..n
  BY <1>2
<1>4. Called(seen, a, w) = [k \in 1..m |-> Alert(a, w, seen[risen[k]].bands[w])]
  BY <1>3 DEF Called, risen
<1>5. \A k \in 1..m : longer[risen[k]] = seen[risen[k]]  BY <1>1, <1>3
<1>6. CASE n > 0 /\ Rises(seen[n], e, w)
  <2> DEFINE more == Append(risen, n + 1)
  <2>1. /\ Risen(longer, w) = more /\ DOMAIN more = 1..(m + 1) /\ more[m + 1] = n + 1
        /\ \A k \in 1..m : more[k] = risen[k]
    BY <1>2, <1>3, <1>6
  <2> HIDE DEF more
  <2>2. Called(longer, a, w) = [k \in 1..(m + 1) |-> Alert(a, w, longer[more[k]].bands[w])]
    BY <2>1 DEF Called
  <2> DEFINE called == [k \in 1..m |-> Alert(a, w, seen[risen[k]].bands[w])]
             last == Alert(a, w, e.bands[w])
             all == [k \in 1..(m + 1) |-> Alert(a, w, longer[more[k]].bands[w])]
  <2>3. \A k \in 1..m : all[k] = called[k]  BY <1>5, <2>1, <1>3
  <2>4. all[m + 1] = last  BY <1>1, <2>1, <1>3
  <2>5. DOMAIN called = 1..m /\ DOMAIN all = 1..(m + 1) /\ all = [k \in 1..(m + 1) |-> all[k]]
        /\ called \in Seq({called[k] : k \in 1..m})
    BY <1>3
  <2> HIDE DEF called, last, all
  <2>6. Len(called) = m  BY <1>3, <2>5
  <2>7. Append(called, last) = [k \in 1..(m + 1) |-> IF k = m + 1 THEN last ELSE called[k]]
    BY <2>5, <2>6, AppendIs
  <2>8. all = Append(called, last)
    <3>1. \A k \in 1..(m + 1) : all[k] = IF k = m + 1 THEN last ELSE called[k]
      BY <1>3, <2>3, <2>4
    <3> QED BY <2>5, <2>7, <3>1
  <2> QED BY <1>4, <1>6, <2>2, <2>8 DEF called, last, all, longer
<1>7. CASE ~ (n > 0 /\ Rises(seen[n], e, w))
  <2>1. Risen(longer, w) = risen  BY <1>2, <1>7
  <2>2. Called(longer, a, w) = [k \in 1..m |-> Alert(a, w, longer[risen[k]].bands[w])]
    BY <1>3, <2>1 DEF Called
  <2>3. Called(longer, a, w) = Called(seen, a, w)  BY <1>4, <1>5, <2>2
  <2> QED BY <1>7, <2>3 DEF longer
<1> QED BY <1>6, <1>7

\* The listing of the windows a reading has: each of them, once.
LEMMA WindowsAre ==
  ASSUME NEW usage
  PROVE  /\ R!WindowsOf(usage) \in Seq(Kind)
         /\ \A w \in Kind : usage[w] # None =>
              \E i \in 1..Len(R!WindowsOf(usage)) : R!WindowsOf(usage)[i] = w
         /\ \A i, j \in 1..Len(R!WindowsOf(usage)) :
              R!WindowsOf(usage)[i] = R!WindowsOf(usage)[j] => i = j
<1> DEFINE read == {w \in Kind : usage[w] # None}
           list == R!WindowsOf(usage)
<1>1. \A S : R!Cardinality(S) = Cardinality(S)  BY DEF R!Cardinality, Cardinality
<1>2. IsFiniteSet(read) /\ read \in SUBSET Kind  BY ReadingAssumption, FS_Subset
<1>3. list = ListOf(read)
  BY <1>1 DEF R!WindowsOf, R!SetToSeq, R!IsInjective, ListOf
<1> HIDE DEF read, list
<1>4. /\ list \in [1..Cardinality(read) -> read] /\ Cardinality(read) \in Nat
      /\ \A x \in read : \E i \in 1..Cardinality(read) : list[i] = x
      /\ \A i, j \in 1..Cardinality(read) : list[i] = list[j] => i = j
  BY <1>2, <1>3, Listing
<1>5. list \in Seq(Kind) /\ Len(list) = Cardinality(read)  BY <1>2, <1>4
<1> QED BY <1>4, <1>5 DEF read, list

\* What a reading announces: the windows that rose, each once.
LEMMA AlertsAre ==
  ASSUME NEW a \in Account, NEW usage
  PROVE  LET sev(x) == R!SeverityFor(usage[x], ui)
             rising == {x \in Kind : usage[x] # None /\ R!Crossed(severities[a][x], sev(x))}
             alerts == R!AlertsOf(a, usage)
         IN  /\ alerts \in Seq(Alerts)
             /\ ~ ui.notifications => alerts = <<>>
             /\ ui.notifications =>
                  /\ \A i \in 1..Len(alerts) :
                       \E x \in rising : alerts[i] = Alert(a, x, sev(x))
                  /\ \A x \in rising : \E i \in 1..Len(alerts) : alerts[i] = Alert(a, x, sev(x))
                  /\ \A i, j \in 1..Len(alerts) : alerts[i].window = alerts[j].window => i = j
<1> DEFINE sev(x) == R!SeverityFor(usage[x], ui)
           rising == {x \in Kind : usage[x] # None /\ R!Crossed(severities[a][x], sev(x))}
           windows == R!WindowsOf(usage)
           crossed == Selected(windows, rising)
           n == Len(crossed)
           alerts == [i \in 1..n |-> Alert(a, crossed[i], sev(crossed[i]))]
<1>1. /\ windows \in Seq(Kind)
      /\ \A x \in Kind : usage[x] # None => \E i \in 1..Len(windows) : windows[i] = x
      /\ \A i, j \in 1..Len(windows) : windows[i] = windows[j] => i = j
  BY WindowsAre
<1>2. R!AlertsOf(a, usage) = IF ~ ui.notifications THEN <<>> ELSE
        [i \in DOMAIN crossed |-> Alert(a, crossed[i], sev(crossed[i]))]
  BY DEF R!AlertsOf, R!Selected, Selected, Alert
<1>3. \A x \in Kind : sev(x) \in R!Bands  BY DEF R!SeverityFor, R!Bands
<1>4. \A x \in rising : x \in Kind /\ usage[x] # None  OBVIOUS
<1> HIDE DEF windows, rising, sev
<1>5. crossed \in Seq(Kind)  BY <1>1, SelectedType
<1>6. n \in Nat /\ DOMAIN crossed = 1..n /\ \A i \in 1..n : crossed[i] \in Kind  BY <1>5
<1>7. \A x \in Kind : (\E j \in 1..n : crossed[j] = x) <=> x \in rising /\ \E i \in 1..Len(windows) : windows[i] = x
  BY <1>1, SelectedAmong
<1>8. \A i, j \in 1..n : crossed[i] = crossed[j] => i = j  BY <1>1, SelectedOnce
<1>9. \A x \in rising : \E j \in 1..n : crossed[j] = x  BY <1>1, <1>4, <1>7
<1>10. \A i \in 1..n : crossed[i] \in rising  BY <1>6, <1>7
<1> HIDE DEF crossed
<1>11. /\ \A i \in 1..n : alerts[i] = Alert(a, crossed[i], sev(crossed[i])) /\ alerts[i] \in Alerts
                          /\ alerts[i].window = crossed[i]
       /\ alerts \in Seq(Alerts) /\ Len(alerts) = n
  BY <1>3, <1>6 DEF Alert, Alerts
<1>12. R!AlertsOf(a, usage) = IF ~ ui.notifications THEN <<>> ELSE alerts
  BY <1>2, <1>6
<1> HIDE DEF alerts, n
<1>13. <<>> \in Seq(Alerts)  OBVIOUS
<1>14. \A i \in 1..Len(alerts) : \E x \in rising : alerts[i] = Alert(a, x, sev(x))
  BY <1>10, <1>11
<1>15. \A x \in rising : \E i \in 1..Len(alerts) : alerts[i] = Alert(a, x, sev(x))
  BY <1>9, <1>11
<1>16. \A i, j \in 1..Len(alerts) : alerts[i].window = alerts[j].window => i = j
  BY <1>8, <1>11
<1>17. R!AlertsOf(a, usage) \in Seq(Alerts)  BY <1>11, <1>12, <1>13
<1> QED BY <1>12, <1>14, <1>15, <1>16, <1>17 DEF rising, sev

\* What it announces of one window: one alert if its band rose.
LEMMA AlertsOfWindow ==
  ASSUME NEW a \in Account, NEW usage, NEW b \in Account, NEW w \in Kind
  PROVE  LET band == R!SeverityFor(usage[w], ui)
         IN  Selected(R!AlertsOf(a, usage), For(b, w)) =
               IF /\ b = a /\ ui.notifications /\ usage[w] # None
                  /\ R!Crossed(severities[a][w], band)
               THEN <<Alert(a, w, band)>> ELSE <<>>
<1> DEFINE sev(x) == R!SeverityFor(usage[x], ui)
           rising == {x \in Kind : usage[x] # None /\ R!Crossed(severities[a][x], sev(x))}
           alerts == R!AlertsOf(a, usage)
<1>1. /\ alerts \in Seq(Alerts)
      /\ ~ ui.notifications => alerts = <<>>
      /\ ui.notifications =>
           /\ \A i \in 1..Len(alerts) : \E x \in rising : alerts[i] = Alert(a, x, sev(x))
           /\ \A x \in rising : \E i \in 1..Len(alerts) : alerts[i] = Alert(a, x, sev(x))
           /\ \A i, j \in 1..Len(alerts) : alerts[i].window = alerts[j].window => i = j
  BY AlertsAre
<1>2. w \in rising <=> usage[w] # None /\ R!Crossed(severities[a][w], sev(w))  OBVIOUS
<1>3. \A x : Alert(a, x, sev(x)).account = a /\ Alert(a, x, sev(x)).window = x  BY DEF Alert
<1> HIDE DEF alerts, rising, sev
<1>4. \A i \in 1..Len(alerts) : alerts[i] \in Alerts  BY <1>1
<1>5. CASE ~ ui.notifications
  <2>1. Selected(alerts, For(b, w)) = <<>>  BY <1>1, <1>5, SelectedEmpty
  <2> QED BY <1>5, <2>1 DEF alerts
<1>6. CASE ui.notifications /\ ~ (b = a /\ w \in rising)
  <2>1. \A i \in 1..Len(alerts) : alerts[i] \notin For(b, w)
    BY <1>1, <1>3, <1>6 DEF For
  <2>2. Selected(alerts, For(b, w)) = <<>>  BY <1>1, <2>1, SelectedNone
  <2> QED BY <1>2, <1>6, <2>2 DEF sev, alerts
<1>7. CASE ui.notifications /\ b = a /\ w \in rising
  <2>1. PICK j \in 1..Len(alerts) : alerts[j] = Alert(a, w, sev(w))  BY <1>1, <1>7
  <2>2. alerts[j] \in For(b, w)  BY <1>3, <1>4, <1>7, <2>1 DEF For
  <2>3. \A i \in 1..Len(alerts) : alerts[i] \in For(b, w) => i = j
    BY <1>1, <1>3, <1>7, <2>1 DEF For
  <2>4. Selected(alerts, For(b, w)) = <<alerts[j]>>  BY <1>1, <2>2, <2>3, SelectedOne
  <2> QED BY <1>2, <1>7, <2>1, <2>4 DEF sev, alerts
<1> QED BY <1>5, <1>6, <1>7

LEMMA HeardAppend ==
  ASSUME NEW past \in Seq(R!Happenings), NEW e \in R!Happenings, NEW w
  PROVE  /\ Heard(past, w) \in Seq(R!Happenings)
         /\ Heard(Append(past, e), w) =
              IF e \in Reads(w) THEN Append(Heard(past, w), e) ELSE Heard(past, w)
BY SelectedType, SelectedAppend DEF Heard

\* What happens to an account without figures is not heard.
LEMMA CredentialUnheard ==
  ASSUME NEW past \in Seq(R!Happenings), NEW w
  PROVE  /\ R!Credential \in R!Happenings
         /\ Append(past, R!Credential) \in Seq(R!Happenings)
         /\ Heard(Append(past, R!Credential), w) = Heard(past, w)
<1>1. R!Credential \in R!Happenings /\ R!Credential \notin Reads(w)
  BY DEF R!Happenings, R!Credential, Reads
<1> QED BY <1>1, HeardAppend

LEMMA AlertsStart == ASSUME R!Init PROVE AlertInv
<1>1. raised = <<>> /\ severities = [a \in Account |-> [w \in Kind |-> None]]
      /\ happened = [a \in Account |-> <<>>]
  BY DEF R!Init
<1>2. ASSUME NEW a \in Account, NEW w \in Kind
      PROVE  Announced(severities[a][w], Heard(happened[a], w), raised, a, w)
  <2>1. Heard(<<>>, w) = <<>> /\ Selected(<<>>, For(a, w)) = <<>>
        /\ Selected(<<>>, Rising(<<>>, w)) = <<>>
    BY SelectedEmpty DEF Heard
  <2>2. Len(<<>>) = 0 /\ [k \in 1..Len(<<>>) |-> k] = <<>>  OBVIOUS
  <2>3. Risen(<<>>, w) = <<>>  BY <2>1, <2>2 DEF Risen
  <2>4. Called(<<>>, a, w) = <<>>  BY <2>3 DEF Called
  <2>5. Announced(None, <<>>, <<>>, a, w)  BY <2>1, <2>2, <2>4 DEF Announced
  <2> QED BY <1>1, <2>1, <2>5
<1>3. severities \in [Account -> [Kind -> R!Bands]] /\ raised \in Seq(Alerts)
  BY <1>1 DEF R!Bands
<1> QED BY <1>2, <1>3 DEF AlertInv

\* A step on which nothing is announced, and no figures are heard.
LEMMA NothingAnnounced ==
  ASSUME AlertInv, UNCHANGED <<raised, severities>>,
         \A a \in Account, w \in Kind : Heard(happened'[a], w) = Heard(happened[a], w)
  PROVE  AlertInv'
<1>1. \A a \in Account, w \in Kind :
        Announced(severities[a][w], Heard(happened[a], w), raised, a, w)
  BY DEF AlertInv
<1>2. \A a \in Account, w \in Kind :
        Announced(severities'[a][w], Heard(happened'[a], w), raised', a, w)
  BY <1>1
<1>3. raised' \in Seq(Alerts) /\ severities' \in [Account -> [Kind -> R!Bands]]
  BY DEF AlertInv
<1> QED BY <1>2, <1>3 DEF AlertInv, Announced, Heard, Called, Risen, Rising, Rises, For, Reads

LEMMA BandIs ==
  ASSUME NEW pct, NEW t
  PROVE  R!SeverityFor(pct, t) \in DOMAIN R!Rank
BY DEF R!SeverityFor, R!Rank

LEMMA Lengthened ==
  ASSUME NEW S, NEW s \in Seq(S), NEW x \in S
  PROVE  s \o <<>> = s /\ s \o <<x>> = Append(s, x)
OBVIOUS

\* An answer with figures announces what it calls for.
LEMMA FiguresAnnounced ==
  ASSUME AlertInv, NEW a \in Account, NEW past \in Seq(R!Happenings), NEW usage \in R!Readings,
         NEW ok \in R!Happenings,
         ok = [is |-> "ok", usage |-> usage, heard |-> ui.notifications, bands |-> R!BandsOf(usage)],
         happened \in [Account -> Seq(R!Happenings)],
         \A w \in Kind : Heard(past, w) = Heard(happened[a], w),
         happened' = [happened EXCEPT ![a] = Append(past, ok)],
         R!Evaluate(a, usage)
  PROVE  AlertInv'
<1> DEFINE alerts == R!AlertsOf(a, usage)
<1>1. /\ raised' = raised \o alerts
      /\ severities' = [severities EXCEPT ![a] = [w \in Kind |-> R!SeverityAfter(a, usage, w)]]
  BY DEF R!Evaluate
<1>2. /\ raised \in Seq(Alerts) /\ severities \in [Account -> [Kind -> R!Bands]]
      /\ \A b \in Account, w \in Kind :
           Announced(severities[b][w], Heard(happened[b], w), raised, b, w)
  BY DEF AlertInv
<1>3. \A w \in Kind : R!SeverityAfter(a, usage, w) =
                        IF usage[w] = None THEN severities[a][w] ELSE R!SeverityFor(usage[w], ui)
  BY DEF R!SeverityAfter
<1>4. severities' \in [Account -> [Kind -> R!Bands]]
  <2>1. \A w \in Kind : R!SeverityFor(usage[w], ui) \in R!Bands  BY DEF R!SeverityFor, R!Bands
  <2>2. [w \in Kind |-> R!SeverityAfter(a, usage, w)] \in [Kind -> R!Bands]  BY <1>2, <1>3, <2>1
  <2> QED BY <1>1, <1>2, <2>2
<1>5. \A b \in Account, w \in Kind :
        Selected(alerts, For(b, w)) =
             IF /\ b = a /\ ui.notifications /\ usage[w] # None
                /\ R!Crossed(severities[a][w], R!SeverityFor(usage[w], ui))
             THEN <<Alert(a, w, R!SeverityFor(usage[w], ui))>> ELSE <<>>
  BY AlertsOfWindow
<1> HIDE DEF alerts
<1>6. ASSUME NEW b \in Account, NEW w \in Kind
      PROVE  /\ Announced(severities'[b][w], Heard(happened'[b], w), raised', b, w)
             /\ raised' \in Seq(Alerts)
  <2> DEFINE seen == Heard(happened[b], w)
             told == Selected(raised, For(b, w))
             band == R!SeverityFor(usage[w], ui)
  <2>1. /\ raised' \in Seq(Alerts) /\ told \in Seq(Alerts)
        /\ Selected(raised', For(b, w)) = told \o Selected(alerts, For(b, w))
    <3>1. alerts \in Seq(Alerts)  BY AlertsAre DEF alerts
    <3>2. raised \in Seq(Alerts)  BY <1>2
    <3>3. raised' \in Seq(Alerts)  BY <1>1, <3>1, <3>2
    <3> DEFINE mine == For(b, w)
    <3> HIDE DEF mine
    <3>4. Selected(raised, mine) \in Seq(Alerts)  BY <3>2, SelectedType
    <3>5. Selected(raised \o alerts, mine) = Selected(raised, mine) \o Selected(alerts, mine)
      BY <3>1, <3>2, SelectedConcat
    <3> QED BY <1>1, <3>3, <3>4, <3>5 DEF mine
  <2>2. /\ severities[b][w] = IF Len(seen) = 0 THEN None ELSE seen[Len(seen)].bands[w]
        /\ \A i \in 1..Len(seen) : seen[i].bands[w] \in DOMAIN R!Rank
        /\ told = Called(seen, b, w)
    BY <1>2 DEF Announced
  <2>3. seen \in Seq(R!Happenings)  BY HeardAppend, SelectedType DEF Heard
  <2>4. ok \in Reads(w) <=> usage[w] # None  BY DEF Reads
  <2>5. CASE b # a \/ usage[w] = None
    <3>1. Heard(happened'[b], w) = seen /\ severities'[b][w] = severities[b][w]
      <4>1. CASE b # a  BY <1>1, <1>2, <4>1
      <4>2. CASE b = a /\ usage[w] = None
        <5>1. happened'[b] = Append(past, ok)  BY <4>2
        <5>2. Heard(happened'[b], w) = Heard(past, w)  BY <2>4, <4>2, <5>1, HeardAppend
        <5> QED BY <1>1, <1>2, <1>3, <4>2, <5>2
      <4> QED BY <2>5, <4>1, <4>2
    <3>2. Selected(alerts, For(b, w)) = <<>>  BY <1>5, <2>5
    <3> HIDE DEF told, seen
    <3>3. told \o <<>> = told  BY <2>1
    <3>4. Selected(raised', For(b, w)) = told  BY <2>1, <3>2, <3>3
    <3> QED BY <2>1, <2>2, <3>1, <3>4 DEF Announced
  <2>6. CASE b = a /\ usage[w] # None
    <3>1. Heard(happened'[b], w) = Append(seen, ok)
      <4>1. happened'[b] = Append(past, ok) /\ Heard(past, w) = seen  BY <2>6
      <4> QED BY <2>4, <2>6, <4>1, HeardAppend
    <3>2. ok.bands[w] = band /\ ok.heard = ui.notifications  BY <2>6 DEF R!BandsOf
    <3>3. severities'[b][w] = band  BY <1>1, <1>2, <1>3, <2>6
    <3>4. band \in DOMAIN R!Rank  BY BandIs
    <3> HIDE DEF seen, band, told
    <3> DEFINE n == Len(seen)
               longer == Append(seen, ok)
    <3>5. /\ n \in Nat /\ Len(longer) = n + 1 /\ longer[n + 1] = ok
          /\ \A i \in 1..n : longer[i] = seen[i]
      BY <2>3
    <3>6. \A i \in 1..Len(longer) : longer[i].bands[w] \in DOMAIN R!Rank
      <4>1. \A i \in 1..(n + 1) : i # n + 1 => i \in 1..n  BY <3>5
      <4> HIDE DEF n, longer
      <4> QED BY <2>2, <3>2, <3>4, <3>5, <4>1 DEF n
    <3>7. band = IF Len(longer) = 0 THEN None ELSE longer[Len(longer)].bands[w]
      BY <3>2, <3>5
    <3>8. Called(longer, b, w) =
            IF n > 0 /\ Rises(seen[n], ok, w) THEN Append(Called(seen, b, w), Alert(b, w, band))
            ELSE Called(seen, b, w)
      BY <2>3, <3>2, CallGrows
    <3>9. R!Crossed(severities[b][w], band) /\ ui.notifications <=> n > 0 /\ Rises(seen[n], ok, w)
      <4>1. n = 0 => severities[b][w] = None  BY <2>2
      <4>2. n > 0 => severities[b][w] = seen[n].bands[w] /\ severities[b][w] # None
        <5>1. n > 0 => n \in 1..n /\ n # 0  BY <3>5
        <5>2. None \notin DOMAIN R!Rank  BY ReadingAssumption
        <5> QED BY <2>2, <5>1, <5>2
      <4>3. n = 0 \/ n > 0  BY <3>5
      <4>4. CASE n = 0  BY <3>5, <4>1, <4>4 DEF R!Crossed
      <4>5. CASE n > 0
        <5> HIDE DEF n
        <5> QED BY <3>2, <4>2, <4>5 DEF R!Crossed, Rises
      <4> QED BY <4>3, <4>4, <4>5
    <3>10. Selected(alerts, For(b, w)) =
             IF n > 0 /\ Rises(seen[n], ok, w) THEN <<Alert(b, w, band)>> ELSE <<>>
      BY <1>5, <2>6, <3>9 DEF band
    <3>11. Alert(b, w, band) \in Alerts
      BY <3>4 DEF Alert, Alerts, R!Bands, R!Rank
    <3>12. told \o <<>> = told /\ told \o <<Alert(b, w, band)>> = Append(told, Alert(b, w, band))
      BY <2>1, <3>11, Lengthened
    <3>13. Selected(raised', For(b, w)) = Called(longer, b, w)
      <4> HIDE DEF n, longer
      <4> QED BY <2>1, <2>2, <3>8, <3>10, <3>12
    <3> HIDE DEF n
    <3> QED BY <2>1, <3>1, <3>3, <3>6, <3>7, <3>13 DEF Announced
  <2> QED BY <2>5, <2>6
<1>7. raised' \in Seq(Alerts)  BY <1>1, <1>2, AlertsAre DEF alerts
<1>8. ASSUME NEW b \in Account, NEW w \in Kind
      PROVE  Announced(severities[b][w], Heard(happened[b], w), raised, b, w)'
  <2>1. Announced(severities'[b][w], Heard(happened'[b], w), raised', b, w)  BY <1>6
  <2> QED BY <2>1 DEF Announced, Heard, Called, Risen, Rising, Rises, For, Reads
<1> QED BY <1>4, <1>7, <1>8 DEF AlertInv

LEMMA PollAnnounces ==
  ASSUME RoundInv, AlertInv, NEW a \in Account, R!PollRound(a)
  PROVE  AlertInv'
<1> DEFINE news == IF R!Adopts(a) THEN <<R!Credential>> ELSE <<>>
           past == IF R!Adopts(a) THEN Append(happened[a], R!Credential) ELSE happened[a]
<1>1. /\ happened \in [Account -> Seq(R!Happenings)] /\ happened[a] \in Seq(R!Happenings)
      /\ hour \in Nat /\ ui.notifications \in BOOLEAN
  BY DEF RoundInv
<1>2. /\ past \in Seq(R!Happenings) /\ R!Credential \in R!Happenings
      /\ \A w \in Kind : Heard(past, w) = Heard(happened[a], w)
  BY <1>1, CredentialUnheard DEF R!Happenings
<1>3. /\ happened[a] \o (news \o <<>>) = past
      /\ \A e \in R!Happenings : happened[a] \o (news \o <<e>>) = Append(past, e)
  <2>1. CASE R!Adopts(a)
    <3>1. news = <<R!Credential>> /\ past = Append(happened[a], R!Credential)  BY <2>1
    <3> HIDE DEF news, past
    <3> QED BY <3>1, <1>1, <1>2, Joined
  <2>2. CASE ~ R!Adopts(a)
    <3>1. news = <<>> /\ past = happened[a]  BY <2>2
    <3> HIDE DEF news, past
    <3> QED BY <3>1, <1>1, <1>2, Joined
  <2> QED BY <2>1, <2>2
<1>4. CASE UNCHANGED <<severities, raised, happened>>
  BY <1>4, NothingAnnounced
<1>5. ASSUME NEW outcome \in R!Outcomes, NEW what, R!Happened(a, news \o what),
             what = CASE outcome.is = "dead" -> <<>>
                      [] outcome.is = "ok" -> <<[is |-> "ok", usage |-> outcome.usage,
                              heard |-> ui.notifications, bands |-> R!BandsOf(outcome.usage)]>>
                      [] OTHER -> <<[is |-> "failed", at |-> hour]>>,
             IF outcome.is = "ok" THEN R!Evaluate(a, outcome.usage)
             ELSE UNCHANGED <<quarantined, severities, raised>>
      PROVE  AlertInv'
  <2> DEFINE ok == [is |-> "ok", usage |-> outcome.usage, heard |-> ui.notifications,
                    bands |-> R!BandsOf(outcome.usage)]
             failed == [is |-> "failed", at |-> hour]
  <2>1. happened' = [happened EXCEPT ![a] = happened[a] \o (news \o what)]
    BY <1>5 DEF R!Happened
  <2> HIDE DEF past, news
  <2>2. CASE outcome.is = "dead"
    <3>1. happened' = [happened EXCEPT ![a] = past]  BY <1>3, <1>5, <2>1, <2>2
    <3>2. \A b \in Account, w \in Kind : Heard(happened'[b], w) = Heard(happened[b], w)
      BY <1>1, <1>2, <3>1
    <3> QED BY <1>5, <2>2, <3>2, NothingAnnounced
  <2>3. CASE outcome.is = "ok"
    <3>1. outcome.usage \in R!Readings /\ what = <<ok>> /\ R!Evaluate(a, outcome.usage)
      BY <1>5, <2>3 DEF R!Outcomes
    <3>2. ok \in R!Happenings
      <4>1. \A w \in Kind : R!SeverityFor(outcome.usage[w], ui) \in R!Bands
        BY DEF R!SeverityFor, R!Bands
      <4>2. R!BandsOf(outcome.usage) \in [Kind -> R!Bands]  BY <4>1 DEF R!BandsOf, R!Bands
      <4> QED BY <1>1, <3>1, <4>2 DEF R!Happenings
    <3>3. happened' = [happened EXCEPT ![a] = Append(past, ok)]
      <4> HIDE DEF ok
      <4> QED BY <1>3, <2>1, <3>1, <3>2
    <3>4. ok = [is |-> "ok", usage |-> outcome.usage, heard |-> ui.notifications,
                bands |-> R!BandsOf(outcome.usage)]
      OBVIOUS
    <3> HIDE DEF ok
    <3> QED BY <1>1, <1>2, <3>1, <3>2, <3>3, <3>4, FiguresAnnounced
  <2>4. CASE outcome.is \in {"failed", "refused"}
    <3>1. what = <<failed>>  BY <1>5, <2>4
    <3>2. failed \in R!Happenings /\ \A w \in Kind : failed \notin Reads(w)
      BY <1>1 DEF R!Happenings, Reads
    <3> HIDE DEF failed
    <3>3. happened' = [happened EXCEPT ![a] = Append(past, failed)]  BY <1>3, <2>1, <3>1, <3>2
    <3>4. \A w \in Kind : Heard(Append(past, failed), w) = Heard(past, w)
      BY <1>2, <3>2, HeardAppend
    <3>5. \A b \in Account, w \in Kind : Heard(happened'[b], w) = Heard(happened[b], w)
      BY <1>1, <1>2, <3>3, <3>4
    <3>6. UNCHANGED <<severities, raised>>  BY <1>5, <2>4
    <3> QED BY <3>5, <3>6, NothingAnnounced
  <2> QED BY <2>2, <2>3, <2>4 DEF R!Outcomes
<1> QED BY <1>4, <1>5 DEF R!PollRound

LEMMA AlertSteps ==
  ASSUME RoundInv, AlertInv, R!Next
  PROVE  AlertInv'
<1>1. CASE UNCHANGED <<severities, raised, happened>>
  BY <1>1, NothingAnnounced
<1>2. ASSUME NEW a \in Account, R!FinishLogin(a)  PROVE AlertInv'
  <2>1. /\ happened \in [Account -> Seq(R!Happenings)] /\ happened[a] \in Seq(R!Happenings)
        /\ UNCHANGED <<severities, raised>>
    BY <1>2 DEF RoundInv, R!FinishLogin
  <2>2. happened' = [happened EXCEPT ![a] = Append(happened[a], R!Credential)]
    <3>1. happened' = [happened EXCEPT ![a] = @ \o <<R!Credential>>]
      BY <1>2 DEF R!FinishLogin, R!Happened
    <3> QED BY <2>1, <3>1, CredentialUnheard, Lengthened
  <2>3. \A b \in Account, w \in Kind : Heard(happened'[b], w) = Heard(happened[b], w)
    BY <2>1, <2>2, CredentialUnheard
  <2> QED BY <2>1, <2>3, NothingAnnounced
<1> QED BY <1>1, <1>2, PollAnnounces DEF R!Next, R!Tick, R!SetUi, R!SourceChanges, R!Quarantine

AlertsAtWork == focus = "rounds" => AlertInv

\* What the invariant says is what the alerts have to be.
LEMMA AlertsAreCalled ==
  ASSUME RoundInv, AlertInv
  PROVE  R!AlertsAreCrossings
<1> SUFFICES ASSUME NEW a \in Account, NEW w \in Kind
             PROVE  LET seen == R!Readout(a, w)
                        severity(i) == seen[i].bands[w]
                        rising == {i \in DOMAIN seen : i > 1 /\ seen[i].heard
                                                       /\ R!Rank[severity(i)] > R!Rank[severity(i - 1)]}
                        rises == R!Selected([i \in DOMAIN seen |-> i], rising)
                    IN  R!Selected(raised, {alert \in R!ToSet(raised) : alert.account = a /\ alert.window = w})
                          = [k \in DOMAIN rises |-> [account |-> a, window |-> w, severity |-> severity(rises[k])]]
  BY DEF R!AlertsAreCrossings
<1> DEFINE seen == Heard(happened[a], w)
<1>1. happened[a] \in Seq(R!Happenings) /\ raised \in Seq(Alerts)  BY DEF RoundInv, AlertInv
<1>2. R!Readout(a, w) = seen
  <2> DEFINE heard == {e \in R!ToSet(happened[a]) : e.is = "ok" /\ e.usage[w] # None}
             reads == Reads(w)
  <2>1. R!Readout(a, w) = Selected(happened[a], heard)
    BY DEF R!Readout, R!Selected, Selected
  <2>2. \A i \in 1..Len(happened[a]) : happened[a][i] \in heard <=> happened[a][i] \in reads
    BY <1>1 DEF R!ToSet, Reads
  <2> HIDE DEF heard, reads
  <2>3. Selected(happened[a], heard) = Selected(happened[a], reads)
    BY <1>1, <2>2, SelectedSame
  <2> QED BY <2>1, <2>3 DEF Heard, reads
<1>3. R!Selected(raised, {alert \in R!ToSet(raised) : alert.account = a /\ alert.window = w})
        = Selected(raised, For(a, w))
  <2> DEFINE some == {alert \in R!ToSet(raised) : alert.account = a /\ alert.window = w}
             mine == For(a, w)
  <2>1. R!Selected(raised, some) = Selected(raised, some)  BY DEF R!Selected, Selected
  <2>2. \A i \in 1..Len(raised) : raised[i] \in some <=> raised[i] \in mine
    BY <1>1 DEF R!ToSet, For
  <2> HIDE DEF some, mine
  <2>3. Selected(raised, some) = Selected(raised, mine)  BY <1>1, <2>2, SelectedSame
  <2> QED BY <2>1, <2>3 DEF some, mine
<1>4. Selected(raised, For(a, w)) = Called(seen, a, w)  BY DEF AlertInv, Announced
<1>5. seen \in Seq(R!Happenings) /\ DOMAIN seen = 1..Len(seen)  BY <1>1, SelectedType DEF Heard
<1> HIDE DEF seen
<1> DEFINE rising == {i \in DOMAIN seen : i > 1 /\ seen[i].heard
                                          /\ R!Rank[seen[i].bands[w]] > R!Rank[seen[i - 1].bands[w]]}
           rises == R!Selected([i \in DOMAIN seen |-> i], rising)
<1>6. rising = Rising(seen, w)  BY <1>5 DEF Rising, Rises
<1> HIDE DEF rising
<1>7. rises = Risen(seen, w)  BY <1>5, <1>6 DEF Risen, R!Selected, Selected
<1> HIDE DEF rises
<1>8. Called(seen, a, w) =
        [k \in DOMAIN rises |-> [account |-> a, window |-> w, severity |-> seen[rises[k]].bands[w]]]
  BY <1>7 DEF Called, Alert
<1> QED BY <1>2, <1>3, <1>4, <1>8 DEF rises, rising

\* A window announces each band it rises into between two of its readings while
\* alerts are wanted, once, and nothing else, for any accounts, windows,
\* thresholds and number of rounds.
THEOREM AlertsAlwaysCrossings == PartsSpec => []AlertsAreCrossings
<1>1. PartsInit => AlertsAtWork
  BY AlertsStart DEF PartsInit, AlertsAtWork
<1>2. RoundAtWork /\ AlertsAtWork /\ [PartsNext]_partsVars => AlertsAtWork'
  <2> SUFFICES ASSUME RoundAtWork, AlertsAtWork, [PartsNext]_partsVars, focus' = "rounds"
               PROVE  AlertInv'
    BY DEF AlertsAtWork
  <2>1. focus = "rounds" /\ (R!Next \/ UNCHANGED roundVars)
    BY DEF PartsNext, partsVars
  <2>2. CASE UNCHANGED roundVars
    BY <2>1, <2>2, NothingAnnounced DEF AlertsAtWork, roundVars
  <2> QED BY <2>1, <2>2, AlertSteps DEF RoundAtWork, AlertsAtWork
<1>3. RoundAtWork /\ AlertsAtWork => AlertsAreCrossings
  BY AlertsAreCalled DEF RoundAtWork, AlertsAtWork, AlertsAreCrossings
<1> QED BY <1>1, <1>2, <1>3, RoundInvariance, PTL DEF PartsSpec

----------------------------------------------------------------------------
(* The catalog.  A request goes through a list of accounts, each of which   *)
(* is in it once, and comes to an account with no question asked of it.     *)

Listed == [id : Target, enabled : BOOLEAN, needs_login : BOOLEAN]

Once(s) == \A i, j \in 1..Len(s) : s[i] = s[j] => i = j

\* No two accounts of the registry have an id.
Registry(list) ==
  /\ list \in Seq(Listed)
  /\ \A i, j \in 1..Len(list) : list[i].id = list[j].id => i = j

\* The accounts still to be asked; of the first, something may have been.
Gathering(f) ==
  /\ f = [pc |-> f.pc, todo |-> f.todo, forced |-> f.forced, sends |-> f.sends,
          cached |-> f.cached, asked |-> f.asked]
  /\ f.cached # None => f.cached.of \in Target
  /\ f.asked \in [Target -> 0..2]
  /\ f.todo \in Seq(Target) /\ f.todo # <<>> /\ Once(f.todo)
  /\ \A k \in 1..Len(f.todo) : k # 1 => f.asked[f.todo[k]] = 0

\* A first question, and one more after a 401.
InTurn(f) ==
  /\ f.pc \in {"discover", "refresh", "sent"} /\ Gathering(f) /\ f.forced \in BOOLEAN
  /\ f.pc = "discover" => ~ f.forced
  /\ f.asked[f.todo[1]] = (IF f.forced THEN 1 ELSE 0) + (IF f.pc = "sent" THEN 1 ELSE 0)

Answered(f) ==
  /\ f.pc = "told" /\ f.asked \in [Target -> 0..2]
  /\ IF f.of = None THEN f.cached = None /\ f.status # 200
     ELSE f.asked[f.of] > 0 \/ (f.cached # None /\ f.of = f.cached.of)

Fetching(fetches) ==
  /\ fetches = [r \in Asker |-> fetches[r]]
  /\ \A r \in Asker : fetches[r] = C!Idle \/ InTurn(fetches[r]) \/ Answered(fetches[r])

Known(held) == held # None => held.of \in Target

CatalogInv == Registry(listed) /\ Known(cache) /\ Fetching(fetch)

LEMMA CatalogTogether ==
  ASSUME Registry(listed'), Known(cache'), Fetching(fetch')
  PROVE  CatalogInv'
BY DEF CatalogInv, Registry, Known, Fetching, C!Idle, InTurn, Answered, Gathering, Once

\* What is selected from the registry names no account twice.
LEMMA SelectedIds ==
  ASSUME NEW list, Registry(list), NEW good
  PROVE  LET s == Selected(list, good)
         IN  /\ Registry(s)
             /\ \A i \in 1..Len(s) : s[i] \in good
<1> DEFINE s == Selected(list, good)
<1>1. list \in Seq(Listed)  BY DEF Registry
<1>2. s \in Seq(Listed)  BY <1>1, SelectedType
<1>3. \A i, j \in 1..Len(list) : list[i] = list[j] => i = j  BY DEF Registry
<1>4. \A i, j \in 1..Len(s) : s[i] = s[j] => i = j  BY <1>1, <1>3, SelectedOnce
<1>5. \A x \in Listed : (\E j \in 1..Len(s) : s[j] = x) => x \in good /\ \E i \in 1..Len(list) : list[i] = x
  BY <1>1, SelectedAmong
<1> HIDE DEF s
<1>6. \A i \in 1..Len(s) : s[i] \in good /\ \E k \in 1..Len(list) : list[k] = s[i]
  BY <1>2, <1>5
<1>7. ASSUME NEW i \in 1..Len(s), NEW j \in 1..Len(s), s[i].id = s[j].id  PROVE i = j
  <2>1. PICK k \in 1..Len(list) : list[k] = s[i]  BY <1>6
  <2>2. PICK l \in 1..Len(list) : list[l] = s[j]  BY <1>6
  <2>3. k = l  BY <2>1, <2>2, <1>7 DEF Registry
  <2> QED BY <2>1, <2>2, <2>3, <1>4
<1>8. Registry(s)  BY <1>2, <1>7 DEF Registry
<1> QED BY <1>6, <1>8 DEF s

LEMMA IdsAre ==
  ASSUME NEW s, Registry(s)
  PROVE  /\ C!Ids(s) \in Seq(Target) /\ Len(C!Ids(s)) = Len(s)
         /\ \A i \in 1..Len(s) : C!Ids(s)[i] = s[i].id
<1>1. PICK n \in Nat : n = Len(s)  BY DEF Registry
<1>2. DOMAIN s = 1..n /\ \A i \in 1..n : s[i] \in Listed  BY <1>1 DEF Registry
<1>3. C!Ids(s) = [i \in 1..n |-> s[i].id]  BY <1>2 DEF C!Ids
<1>4. \A i \in 1..n : s[i].id \in Target  BY <1>2 DEF Listed
<1> QED BY <1>1, <1>3, <1>4

LEMMA OrderedOnce ==
  ASSUME Registry(listed)
  PROVE  C!Ordered \in Seq(Target) /\ Once(C!Ordered)
<1> DEFINE in == {e \in C!ToSet(listed) : e.id \in {serving}}
           out == {e \in C!ToSet(listed) : e.id # serving /\ e.enabled /\ ~ e.needs_login}
           here == Selected(listed, in)
           rest == Selected(listed, out)
           h == C!Ids(here)
           t == C!Ids(rest)
<1>1. C!Ordered = h \o t
  BY DEF C!Ordered, C!Entries, C!Selected, Selected
<1>2. Registry(here) /\ Registry(rest)
      /\ (\A i \in 1..Len(here) : here[i] \in in) /\ (\A i \in 1..Len(rest) : rest[i] \in out)
  BY SelectedIds
<1> HIDE DEF here, rest
<1>3. /\ h \in Seq(Target) /\ Len(h) = Len(here) /\ (\A i \in 1..Len(here) : h[i] = here[i].id)
      /\ t \in Seq(Target) /\ Len(t) = Len(rest) /\ (\A i \in 1..Len(rest) : t[i] = rest[i].id)
  BY <1>2, IdsAre
<1> HIDE DEF h, t
<1>4. \A i \in 1..Len(h) : h[i] = serving  BY <1>2, <1>3
<1>5. \A i \in 1..Len(t) : t[i] # serving  BY <1>2, <1>3
<1>6. Once(h) /\ Once(t)  BY <1>2, <1>3 DEF Once, Registry
<1> DEFINE o == h \o t
<1>7. PICK n \in Nat, m \in Nat : n = Len(h) /\ m = Len(t)  BY <1>3
<1>8. o \in Seq(Target) /\ Len(o) = n + m
      /\ (\A i \in 1..n : o[i] = h[i]) /\ (\A i \in 1..(n + m) : i > n => i - n \in 1..m /\ o[i] = t[i - n])
  <2>1. o \in Seq(Target) /\ Len(o) = n + m  BY <1>3, <1>7, ConcatProperties
  <2>2. \A i \in 1..(Len(h) + Len(t)) : o[i] = IF i <= Len(h) THEN h[i] ELSE t[i - Len(h)]
    BY <1>3, ConcatProperties
  <2> HIDE DEF o
  <2> QED BY <1>7, <2>1, <2>2
<1> HIDE DEF o
<1>9. ASSUME NEW i \in 1..Len(o), NEW j \in 1..Len(o), o[i] = o[j]  PROVE i = j
  <2>1. CASE i <= n /\ j <= n  BY <1>6, <1>7, <1>8, <1>9, <2>1 DEF Once
  <2>2. CASE i > n /\ j > n
    <3>1. PICK k \in 1..m, l \in 1..m : k = i - n /\ l = j - n  BY <1>8, <2>2
    <3>2. t[k] = t[l]  BY <1>8, <1>9, <2>2, <3>1
    <3>3. k = l  BY <1>6, <1>7, <3>2 DEF Once
    <3> QED BY <3>1, <3>3, <1>8
  <2>3. CASE i <= n /\ j > n
    <3>1. o[i] = serving  BY <1>4, <1>7, <1>8, <2>3
    <3>2. PICK l \in 1..m : o[j] = t[l]  BY <1>8, <2>3
    <3> QED BY <1>5, <1>7, <1>9, <3>1, <3>2
  <2>4. CASE i > n /\ j <= n
    <3>1. o[j] = serving  BY <1>4, <1>7, <1>8, <2>4
    <3>2. PICK l \in 1..m : o[i] = t[l]  BY <1>8, <2>4
    <3> QED BY <1>5, <1>7, <1>9, <3>1, <3>2
  <2> QED BY <1>8, <2>1, <2>2, <2>3, <2>4
<1> QED BY <1>1, <1>8, <1>9 DEF Once, o

\* The accounts are asked in turn.
LEMMA EnteringIs ==
  ASSUME NEW f, Gathering(f), f.forced = FALSE, f.asked[f.todo[1]] = 0
  PROVE  InTurn(C!Entering(f))
<1> DEFINE g == C!Entering(f)
<1>1. g = [f EXCEPT !.pc = "discover"] \/ g = [f EXCEPT !.pc = "refresh", !.sends = C!Resolved]
  BY DEF C!Entering
<1> HIDE DEF g
<1>2. f = [pc |-> f.pc, todo |-> f.todo, forced |-> f.forced, sends |-> f.sends,
           cached |-> f.cached, asked |-> f.asked]
  BY DEF Gathering
<1>3. /\ g.todo = f.todo /\ g.forced = FALSE /\ g.cached = f.cached /\ g.asked = f.asked
      /\ g.pc \in {"discover", "refresh"}
      /\ g = [pc |-> g.pc, todo |-> g.todo, forced |-> g.forced, sends |-> g.sends,
              cached |-> g.cached, asked |-> g.asked]
  <2>1. CASE g = [f EXCEPT !.pc = "discover"]  BY <1>2, <2>1
  <2>2. CASE g = [f EXCEPT !.pc = "refresh", !.sends = C!Resolved]  BY <1>2, <2>2
  <2> QED BY <1>1, <2>1, <2>2
<1>4. Gathering(g)  BY <1>3 DEF Gathering
<1>5. g.asked[g.todo[1]] = 0  BY <1>3
<1>6. (IF g.forced THEN 1 ELSE 0) = 0 /\ (IF g.pc = "sent" THEN 1 ELSE 0) = 0  BY <1>3
<1>7. g.asked[g.todo[1]] = (IF g.forced THEN 1 ELSE 0) + (IF g.pc = "sent" THEN 1 ELSE 0)
  BY <1>5, <1>6
<1>8. g.forced \in BOOLEAN /\ ~ g.forced  BY <1>3
<1>9. InTurn(g)  BY <1>3, <1>4, <1>7, <1>8 DEF InTurn
<1> QED BY <1>9 DEF g

\* A request that fails falls back on the list it found in the cache.
LEMMA FailedIs ==
  ASSUME NEW f, f.cached # None => f.cached.of \in Target, f.asked \in [Target -> 0..2],
         NEW status, status # 200
  PROVE  Answered(C!Failed(f, status))
BY TargetIsNotNone DEF C!Failed, C!Told, Answered

LEMMA MovedIs ==
  ASSUME NEW f, Gathering(f), NEW status, status # 200
  PROVE  InTurn(C!Moved(f, status)) \/ Answered(C!Moved(f, status))
<1>1. CASE Len(f.todo) = 1
  BY <1>1, FailedIs DEF C!Moved, Gathering
<1>2. CASE Len(f.todo) # 1
  <2> DEFINE g == [f EXCEPT !.todo = Tail(@), !.forced = FALSE]
  <2>1. C!Moved(f, status) = C!Entering(g)  BY <1>2 DEF C!Moved
  <2>2. /\ g.todo = Tail(f.todo) /\ g.forced = FALSE /\ g.cached = f.cached /\ g.asked = f.asked
        /\ g = [pc |-> g.pc, todo |-> g.todo, forced |-> g.forced, sends |-> g.sends,
                cached |-> g.cached, asked |-> g.asked]
    <3>1. f = [pc |-> f.pc, todo |-> f.todo, forced |-> f.forced, sends |-> f.sends,
               cached |-> f.cached, asked |-> f.asked]
      BY DEF Gathering
    <3>2. PICK todo : todo = Tail(f.todo)  OBVIOUS
    <3>3. g = [f EXCEPT !.todo = todo, !.forced = FALSE]  BY <3>2
    <3> HIDE DEF g
    <3> QED BY <3>1, <3>2, <3>3
  <2> HIDE DEF g
  <2>3. PICK n \in Nat : Len(f.todo) = n + 1 /\ n > 0
    <3>1. PICK len \in Nat : len = Len(f.todo) /\ len # 0  BY DEF Gathering
    <3>2. len # 0 /\ len # 1  BY <1>2, <3>1
    <3>3. len - 1 \in Nat /\ len = (len - 1) + 1 /\ len - 1 > 0  BY <3>2
    <3> QED BY <3>1, <3>3
  <2>4. g.todo \in Seq(Target) /\ Len(g.todo) = n  BY <2>2, <2>3 DEF Gathering
  <2>5. ASSUME NEW k \in 1..n
        PROVE  \E l \in 1..Len(f.todo) : l = k + 1 /\ l # 1 /\ g.todo[k] = f.todo[l]
    <3>1. PICK l \in 1..Len(f.todo) : l = k + 1 /\ l # 1  BY <2>3
    <3>2. g.todo[k] = f.todo[l]  BY <2>2, <2>3, <3>1 DEF Gathering
    <3> QED BY <3>1, <3>2
  <2>6. Once(g.todo)
    <3> SUFFICES ASSUME NEW i \in 1..n, NEW j \in 1..n, g.todo[i] = g.todo[j]  PROVE i = j
      BY <2>4 DEF Once
    <3>1. PICK k \in 1..Len(f.todo) : k = i + 1 /\ g.todo[i] = f.todo[k]  BY <2>5
    <3>2. PICK l \in 1..Len(f.todo) : l = j + 1 /\ g.todo[j] = f.todo[l]  BY <2>5
    <3>3. k = l  BY <3>1, <3>2 DEF Gathering, Once
    <3> QED BY <3>1, <3>2, <3>3
  <2>7. \A k \in 1..n : g.asked[g.todo[k]] = 0  BY <2>2, <2>5 DEF Gathering
  <2>8. g.todo # <<>> /\ g.asked[g.todo[1]] = 0  BY <2>3, <2>4, <2>7
  <2>9. Gathering(g)  BY <2>2, <2>4, <2>6, <2>7, <2>8 DEF Gathering
  <2> QED BY <2>1, <2>2, <2>8, <2>9, EnteringIs
<1> QED BY <1>1, <1>2

\* One request takes a step.
LEMMA FetchStep ==
  ASSUME CatalogInv, NEW r \in Asker, fetch' = [fetch EXCEPT ![r] = fetch'[r]],
         fetch'[r] = C!Idle \/ InTurn(fetch'[r]) \/ Answered(fetch'[r])
  PROVE  Fetching(fetch')
<1>1. \A s \in Asker : s # r => fetch'[s] = fetch[s]  BY DEF CatalogInv, Fetching
<1>2. fetch' = [s \in Asker |-> fetch'[s]]  BY DEF CatalogInv, Fetching
<1> QED BY <1>1, <1>2 DEF CatalogInv, Fetching

LEMMA CatalogBeginKeeps ==
  ASSUME CatalogInv, NEW r \in Asker, C!Begin(r)
  PROVE  CatalogInv'
<1> DEFINE f == [pc |-> "idle", todo |-> C!Ordered, forced |-> FALSE, sends |-> None,
                 cached |-> cache, asked |-> [a \in Target |-> 0]]
<1>1. /\ UNCHANGED <<listed, cache>> /\ fetch' = [fetch EXCEPT ![r] = fetch'[r]]
      /\ \/ C!Fresh /\ fetch'[r] = C!Told(f, cache.of, 200)
         \/ C!Ordered = <<>> /\ fetch'[r] = C!Failed(f, 503)
         \/ C!Ordered # <<>> /\ fetch'[r] = C!Entering(f)
  BY DEF C!Begin, C!Kept, C!shared, CatalogInv, Fetching
<1>2. /\ f.cached = cache /\ f.asked \in [Target -> 0..2] /\ f.todo = C!Ordered /\ f.forced = FALSE
      /\ f = [pc |-> f.pc, todo |-> f.todo, forced |-> f.forced, sends |-> f.sends,
              cached |-> f.cached, asked |-> f.asked]
      /\ \A a \in Target : f.asked[a] = 0
  OBVIOUS
<1>3. f.cached # None => f.cached.of \in Target  BY DEF CatalogInv, Known
<1>4. C!Ordered \in Seq(Target) /\ Once(C!Ordered)  BY OrderedOnce DEF CatalogInv
<1> HIDE DEF f
<1>5. Answered(fetch'[r]) \/ InTurn(fetch'[r])
  <2>1. CASE C!Fresh /\ fetch'[r] = C!Told(f, cache.of, 200)
    BY <2>1, <1>2, <1>3, TargetIsNotNone DEF C!Fresh, C!Told, Answered
  <2>2. CASE fetch'[r] = C!Failed(f, 503)
    BY <2>2, <1>2, <1>3, FailedIs
  <2>3. CASE C!Ordered # <<>> /\ fetch'[r] = C!Entering(f)
    <3>1. \A k \in 1..Len(f.todo) : f.asked[f.todo[k]] = 0  BY <1>2, <1>4
    <3>2. f.asked[f.todo[1]] = 0  BY <1>2, <1>4, <2>3
    <3>3. Gathering(f)  BY <1>2, <1>3, <1>4, <2>3, <3>1 DEF Gathering
    <3> QED BY <1>2, <2>3, <3>2, <3>3, EnteringIs
  <2> QED BY <1>1, <2>1, <2>2, <2>3
<1>6. Fetching(fetch')  BY <1>1, <1>5, FetchStep
<1> QED BY <1>1, <1>6, CatalogTogether DEF CatalogInv

\* Who is at work is neither idle nor answered.
LEMMA AtWork ==
  ASSUME CatalogInv, NEW r \in Asker, fetch[r].pc \in {"discover", "refresh", "sent"}
  PROVE  InTurn(fetch[r])
BY DEF CatalogInv, Fetching, C!Idle, Answered

LEMMA CatalogDiscoverKeeps ==
  ASSUME CatalogInv, NEW r \in Asker, C!Discover(r)
  PROVE  CatalogInv'
<1>1. /\ UNCHANGED <<listed, cache>> /\ fetch[r].pc = "discover"
      /\ \E sends : fetch' = [fetch EXCEPT ![r].pc = "refresh", ![r].sends = sends]
  BY DEF C!Discover, C!Kept, C!shared
<1>2. PICK sends : fetch' = [fetch EXCEPT ![r].pc = "refresh", ![r].sends = sends]  BY <1>1
<1>3. PICK f, g : f = fetch[r] /\ g = fetch'[r]  OBVIOUS
<1>4. InTurn(f)  BY <1>1, <1>3, AtWork
<1>5. fetch' = [fetch EXCEPT ![r] = g] /\ g = [f EXCEPT !.pc = "refresh", !.sends = sends]
  BY <1>2, <1>3 DEF CatalogInv, Fetching
<1>6. /\ g.todo = f.todo /\ g.forced = f.forced /\ g.cached = f.cached /\ g.asked = f.asked
      /\ g.pc = "refresh"
      /\ g = [pc |-> g.pc, todo |-> g.todo, forced |-> g.forced, sends |-> g.sends,
              cached |-> g.cached, asked |-> g.asked]
  BY <1>4, <1>5 DEF InTurn, Gathering
<1>7. Gathering(g)  BY <1>4, <1>6 DEF InTurn, Gathering
<1>8. InTurn(g)  BY <1>1, <1>3, <1>4, <1>6, <1>7 DEF InTurn
<1>9. Fetching(fetch')  BY <1>3, <1>5, <1>8, FetchStep
<1> QED BY <1>1, <1>9, CatalogTogether DEF CatalogInv

LEMMA CatalogRefreshKeeps ==
  ASSUME CatalogInv, NEW r \in Asker, C!Refresh(r)
  PROVE  CatalogInv'
<1>1. PICK f, g, a : f = fetch[r] /\ g = fetch'[r] /\ a = Head(f.todo)  OBVIOUS
<1>2. /\ UNCHANGED <<listed, cache>> /\ f.pc = "refresh" /\ fetch' = [fetch EXCEPT ![r] = g]
      /\ \/ g = [f EXCEPT !.pc = "sent", !.asked[a] = @ + 1]
         \/ g = C!Moved(f, 503)
         \/ g = C!Moved(f, 502)
  BY <1>1 DEF C!Refresh, C!Kept, C!Exhaust, C!shared, CatalogInv, Fetching
<1>3. InTurn(f)  BY <1>1, <1>2, AtWork
<1>4. ASSUME g = [f EXCEPT !.pc = "sent", !.asked[a] = @ + 1]  PROVE InTurn(g)
  <2>1. a \in Target /\ a = f.todo[1]  BY <1>1, <1>3 DEF InTurn, Gathering
  <2>2. f.asked[a] \in 0..1  BY <1>2, <1>3, <2>1 DEF InTurn
  <2>3. /\ g.todo = f.todo /\ g.forced = f.forced /\ g.cached = f.cached
        /\ g.asked = [f.asked EXCEPT ![a] = f.asked[a] + 1] /\ g.pc = "sent"
        /\ g = [pc |-> g.pc, todo |-> g.todo, forced |-> g.forced, sends |-> g.sends,
                cached |-> g.cached, asked |-> g.asked]
    BY <1>3, <1>4 DEF InTurn, Gathering
  <2>4. g.asked \in [Target -> 0..2]  BY <1>3, <2>1, <2>2, <2>3 DEF InTurn, Gathering
  <2>5. ASSUME NEW k \in 1..Len(g.todo), k # 1  PROVE g.asked[g.todo[k]] = 0
    <3>1. f.todo \in Seq(Target) /\ k \in 1..Len(f.todo) /\ 1 \in 1..Len(f.todo)
      BY <1>3, <2>3 DEF InTurn, Gathering
    <3>2. f.todo[k] # a /\ f.todo[k] \in Target  BY <1>3, <2>1, <2>5, <3>1 DEF InTurn, Gathering, Once
    <3>3. f.asked[f.todo[k]] = 0  BY <1>3, <2>5, <3>1 DEF InTurn, Gathering
    <3> QED BY <1>3, <2>3, <3>2, <3>3 DEF InTurn, Gathering
  <2>6. Gathering(g)  BY <1>3, <2>3, <2>4, <2>5 DEF InTurn, Gathering
  <2>7. g.asked[g.todo[1]] = f.asked[a] + 1  BY <1>3, <2>1, <2>3 DEF InTurn, Gathering
  <2>8. f.asked[a] = IF f.forced THEN 1 ELSE 0  BY <1>2, <1>3, <2>1 DEF InTurn
  <2> QED BY <1>3, <2>3, <2>6, <2>7, <2>8 DEF InTurn
<1>5. InTurn(g) \/ Answered(g)
  BY <1>2, <1>3, <1>4, MovedIs DEF InTurn
<1>6. Fetching(fetch')  BY <1>1, <1>2, <1>5, FetchStep
<1> QED BY <1>2, <1>6, CatalogTogether DEF CatalogInv

LEMMA CatalogAnswerKeeps ==
  ASSUME CatalogInv, NEW r \in Asker, C!Answer(r)
  PROVE  CatalogInv'
<1>1. PICK f, g, a : f = fetch[r] /\ g = fetch'[r] /\ a = Head(f.todo)  OBVIOUS
<1>2. /\ UNCHANGED listed /\ f.pc = "sent" /\ fetch' = [fetch EXCEPT ![r] = g]
      /\ \/ g = C!Told(f, a, 200) /\ cache' = [at |-> instant, of |-> a]
         \/ g \in {C!Moved(f, 502), C!Moved(f, 503)} /\ UNCHANGED cache
         \/ ~ f.forced /\ g = [f EXCEPT !.pc = "refresh", !.forced = TRUE] /\ UNCHANGED cache
         \/ g \in {C!Failed(f, 500), C!Failed(f, 502)} /\ UNCHANGED cache
  BY <1>1 DEF C!Answer, C!Kept, C!Exhaust, C!shared, CatalogInv, Fetching
<1>3. InTurn(f)  BY <1>1, <1>2, AtWork
<1>4. a \in Target /\ a = f.todo[1]  BY <1>1, <1>3 DEF InTurn, Gathering
<1>5. Known(cache')
  <2>1. CASE cache' = [at |-> instant, of |-> a]  BY <1>4, <2>1 DEF Known
  <2>2. CASE UNCHANGED cache  BY <2>2 DEF CatalogInv, Known
  <2> QED BY <1>2, <2>1, <2>2
<1>6. ASSUME g = C!Told(f, a, 200)  PROVE Answered(g)
  <2>1. f.asked[a] > 0  BY <1>2, <1>3, <1>4 DEF InTurn
  <2>2. f.asked \in [Target -> 0..2] /\ a # None  BY <1>3, <1>4, TargetIsNotNone DEF InTurn, Gathering
  <2> QED BY <1>6, <2>1, <2>2 DEF C!Told, Answered
<1>7. ASSUME g \in {C!Moved(f, 502), C!Moved(f, 503)}  PROVE InTurn(g) \/ Answered(g)
  BY <1>3, <1>7, MovedIs DEF InTurn
<1>8. ASSUME ~ f.forced, g = [f EXCEPT !.pc = "refresh", !.forced = TRUE]  PROVE InTurn(g)
  <2>1. /\ g.todo = f.todo /\ g.forced = TRUE /\ g.cached = f.cached /\ g.asked = f.asked
        /\ g.pc = "refresh"
        /\ g = [pc |-> g.pc, todo |-> g.todo, forced |-> g.forced, sends |-> g.sends,
                cached |-> g.cached, asked |-> g.asked]
    BY <1>3, <1>8 DEF InTurn, Gathering
  <2>2. Gathering(g)  BY <1>3, <2>1 DEF InTurn, Gathering
  <2>3. g.asked[g.todo[1]] = 1  BY <1>2, <1>3, <1>8, <2>1 DEF InTurn
  <2>4. (IF g.forced THEN 1 ELSE 0) = 1 /\ (IF g.pc = "sent" THEN 1 ELSE 0) = 0  BY <2>1
  <2>5. g.pc = "refresh" /\ g.forced \in BOOLEAN  BY <2>1
  <2>6. g.asked[g.todo[1]] = (IF g.forced THEN 1 ELSE 0) + (IF g.pc = "sent" THEN 1 ELSE 0)
    BY <2>3, <2>4
  <2> QED BY <2>2, <2>5, <2>6 DEF InTurn
<1>9. ASSUME g \in {C!Failed(f, 500), C!Failed(f, 502)}  PROVE Answered(g)
  BY <1>3, <1>9, FailedIs DEF InTurn, Gathering
<1>10. Fetching(fetch')
  BY <1>1, <1>2, <1>6, <1>7, <1>8, <1>9, FetchStep
<1> QED BY <1>2, <1>5, <1>10, CatalogTogether DEF CatalogInv

LEMMA CatalogHangUpKeeps ==
  ASSUME CatalogInv, NEW r \in Asker, C!HangUp(r)
  PROVE  CatalogInv'
<1>1. /\ UNCHANGED <<listed, cache>> /\ fetch' = [fetch EXCEPT ![r] = fetch'[r]]
      /\ fetch'[r] = C!Idle
  BY DEF C!HangUp, C!Kept, C!shared, CatalogInv, Fetching
<1>2. Fetching(fetch')  BY <1>1, FetchStep
<1> QED BY <1>1, <1>2, CatalogTogether DEF CatalogInv

LEMMA RemovedFrom ==
  ASSUME Registry(listed), NEW i \in DOMAIN listed
  PROVE  Registry(C!RemoveAt(listed, i))
<1> DEFINE before == SubSeq(listed, 1, i - 1)
           after == SubSeq(listed, i + 1, Len(listed))
           s == before \o after
<1>1. PICK n \in Nat : n = Len(listed) /\ listed \in Seq(Listed) /\ i \in 1..n  BY DEF Registry
<1>2. before \in Seq(Listed) /\ Len(before) = i - 1 /\ \A k \in 1..(i - 1) : before[k] = listed[k]
  BY <1>1
<1>3. after \in Seq(Listed) /\ Len(after) = n - i /\ \A k \in 1..(n - i) : after[k] = listed[i + k]
  BY <1>1
<1> HIDE DEF before, after
<1>4. /\ s \in Seq(Listed) /\ Len(s) = Len(before) + Len(after)
      /\ \A k \in 1..(Len(before) + Len(after)) :
           s[k] = IF k <= Len(before) THEN before[k] ELSE after[k - Len(before)]
  BY <1>2, <1>3, ConcatProperties
<1> HIDE DEF s
<1>5. ASSUME NEW k \in 1..Len(s)
      PROVE  \E l \in 1..n : s[k] = listed[l] /\ l = (IF k < i THEN k ELSE k + 1)
  <2>1. CASE k < i  BY <1>1, <1>2, <1>3, <1>4, <2>1
  <2>2. CASE k >= i
    <3> DEFINE d == k - (i - 1)
    <3>0. d \in 1..(n - i)
      <4>1. i \in Nat /\ k \in Nat /\ k <= (i - 1) + (n - i)  BY <1>1, <1>2, <1>3, <1>4
      <4> QED BY <1>1, <2>2, <4>1
    <3>1. PICK m \in 1..(n - i) : m = k - (i - 1)  BY <3>0
    <3>2. s[k] = after[m]  BY <1>1, <1>2, <1>4, <2>2, <3>1
    <3>3. PICK l \in 1..n : l = i + m  BY <1>1, <3>1
    <3>4. after[m] = listed[l]  BY <1>3, <3>1, <3>3
    <3>5. l = k + 1  BY <1>1, <1>4, <3>1, <3>3
    <3> QED BY <2>2, <3>2, <3>4, <3>5, <1>1, <1>4
  <2> QED BY <1>1, <1>2, <1>3, <1>4, <2>1, <2>2
<1>6. ASSUME NEW j \in 1..Len(s), NEW k \in 1..Len(s), s[j].id = s[k].id  PROVE j = k
  <2>1. PICK l \in 1..n : s[j] = listed[l] /\ l = (IF j < i THEN j ELSE j + 1)  BY <1>5
  <2>2. PICK m \in 1..n : s[k] = listed[m] /\ m = (IF k < i THEN k ELSE k + 1)  BY <1>5
  <2>3. l = m  BY <1>1, <1>6, <2>1, <2>2 DEF Registry
  <2>4. j \in Nat /\ k \in Nat /\ i \in Nat  BY <1>1, <1>2, <1>3, <1>4
  <2> QED BY <2>1, <2>2, <2>3, <2>4
<1> QED BY <1>4, <1>6 DEF Registry, C!RemoveAt, s, before, after

LEMMA CatalogChangeKeeps ==
  ASSUME CatalogInv, C!Change
  PROVE  CatalogInv'
<1>1. UNCHANGED <<cache, fetch>>  BY DEF C!Change
<1>2. Registry(listed')
  <2>1. CASE UNCHANGED listed  BY <2>1 DEF CatalogInv, Registry
  <2>2. ASSUME NEW i \in DOMAIN listed, listed' = C!RemoveAt(listed, i)  PROVE Registry(listed')
    BY <2>2, RemovedFrom DEF CatalogInv
  <2>3. ASSUME NEW i \in DOMAIN listed,
               \/ listed' = [listed EXCEPT ![i].enabled = ~ @]
               \/ listed' = [listed EXCEPT ![i].needs_login = ~ @]
        PROVE  Registry(listed')
    <3>1. PICK n \in Nat : n = Len(listed) /\ DOMAIN listed = 1..n /\ listed \in Seq(Listed)
      BY DEF CatalogInv, Registry
    <3>2. \A k \in 1..n : listed[k] \in Listed  BY <3>1
    <3>3. PICK e : /\ listed' = [listed EXCEPT ![i] = e]
                   /\ e = [listed[i] EXCEPT !.enabled = ~ @] \/ e = [listed[i] EXCEPT !.needs_login = ~ @]
      BY <2>3
    <3>4. e \in Listed /\ e.id = listed[i].id  BY <2>3, <3>1, <3>2, <3>3 DEF Listed
    <3>5. /\ listed' \in Seq(Listed) /\ Len(listed') = n
          /\ \A k \in 1..n : listed'[k].id = listed[k].id
      BY <2>3, <3>1, <3>3, <3>4
    <3> QED BY <3>1, <3>5 DEF CatalogInv, Registry
  <2> QED BY <2>1, <2>2, <2>3 DEF C!Change, C!shared
<1> QED BY <1>1, <1>2, CatalogTogether DEF CatalogInv

LEMMA CatalogStarts == ASSUME C!Init PROVE CatalogInv
<1> DEFINE n == Cardinality(Target)
           ids == ListOf(Target)
<1>1. C!SetToSeq(Target) = ids
  <2>1. \A S : C!Cardinality(S) = Cardinality(S)  BY DEF C!Cardinality, Cardinality
  <2> QED BY <2>1 DEF C!SetToSeq, C!IsInjective, ListOf
<1>2. /\ n \in Nat /\ ids \in [1..n -> Target]
      /\ \A i, j \in 1..n : ids[i] = ids[j] => i = j
  BY Listing, TargetAssumption
<1> HIDE DEF n, ids
<1>3. listed = [i \in 1..n |-> [id |-> ids[i], enabled |-> TRUE, needs_login |-> FALSE]]
  BY <1>1, <1>2 DEF C!Init
<1>4. \A i \in 1..n : listed[i] \in Listed /\ listed[i].id = ids[i]  BY <1>2, <1>3 DEF Listed
<1>5. listed \in Seq(Listed) /\ Len(listed) = n  BY <1>2, <1>3, <1>4
<1>6. Registry(listed)  BY <1>2, <1>4, <1>5 DEF Registry
<1>7. Known(cache) /\ Fetching(fetch)  BY DEF C!Init, Known, Fetching
<1> QED BY <1>6, <1>7 DEF CatalogInv

LEMMA CatalogStutters ==
  ASSUME CatalogInv, UNCHANGED <<cache, listed, fetch>>
  PROVE  CatalogInv'
BY CatalogTogether DEF CatalogInv

LEMMA CatalogSteps ==
  ASSUME CatalogInv, C!Next
  PROVE  CatalogInv'
<1>1. ASSUME NEW r \in Asker, C!Begin(r) \/ C!Discover(r) \/ C!Refresh(r) \/ C!Answer(r) \/ C!HangUp(r)
      PROVE  CatalogInv'
  BY <1>1, CatalogBeginKeeps, CatalogDiscoverKeeps, CatalogRefreshKeeps, CatalogAnswerKeeps, CatalogHangUpKeeps
<1>2. CASE C!Change  BY <1>2, CatalogChangeKeeps
<1>3. CASE C!Tick  BY <1>3, CatalogStutters DEF C!Tick, C!shared
<1> QED BY <1>1, <1>2, <1>3 DEF C!Next

CatalogAtWork == focus = "catalog" => CatalogInv

\* However accounts come and go, are switched, sign out and become current
\* while requests for the catalog go through their lists, and whatever the
\* upstream answers: a request asks each account at most twice, fails only if
\* it had found no list in the cache, and else tells the list of an account it
\* asked or the one it had found.
THEOREM CatalogAlwaysSparing == PartsSpec => []CatalogIsSparing
<1>1. PartsInit => CatalogAtWork
  BY CatalogStarts DEF PartsInit, CatalogAtWork
<1>2. CatalogAtWork /\ [PartsNext]_partsVars => CatalogAtWork'
  <2> SUFFICES ASSUME CatalogAtWork, [PartsNext]_partsVars, focus' = "catalog"
               PROVE  CatalogInv'
    BY DEF CatalogAtWork
  <2>1. CASE focus = "catalog" /\ C!Next  BY <2>1, CatalogSteps DEF CatalogAtWork
  <2>2. CASE focus = "catalog" /\ UNCHANGED catalogVars
    BY <2>2, CatalogStutters DEF CatalogAtWork, catalogVars
  <2>3. (focus = "catalog" /\ C!Next) \/ (focus = "catalog" /\ UNCHANGED catalogVars)
    BY DEF PartsNext, partsVars
  <2> QED BY <2>1, <2>2, <2>3
<1>3. CatalogAtWork => CatalogIsSparing
  <2> SUFFICES ASSUME CatalogInv, NEW r \in Asker
               PROVE  /\ fetch[r].pc # "idle" => \A a \in Target : fetch[r].asked[a] <= 2
                      /\ fetch[r].pc = "told" =>
                           IF fetch[r].of = None THEN fetch[r].cached = None /\ fetch[r].status # 200
                           ELSE \/ fetch[r].asked[fetch[r].of] > 0
                                \/ fetch[r].cached # None /\ fetch[r].of = fetch[r].cached.of
    BY DEF CatalogAtWork, CatalogIsSparing, C!CatalogIsSparing
  <2>1. CASE fetch[r] = C!Idle  BY <2>1 DEF C!Idle
  <2>2. CASE InTurn(fetch[r])  BY <2>2 DEF InTurn, Gathering
  <2>3. CASE Answered(fetch[r])  BY <2>3 DEF Answered
  <2> QED BY <2>1, <2>2, <2>3 DEF CatalogInv, Fetching
<1> QED BY <1>1, <1>2, <1>3, PTL DEF PartsSpec
=============================================================================
