------------------------------- MODULE Figures -------------------------------
(***************************************************************************)
(* What a snapshot shows of the accounts (engine.rs, build_snapshot): their *)
(* labels, told apart; the tier behind a plan and what it weighs (plan.rs); *)
(* each window with its band (severity.rs) and the moment a straight line   *)
(* through it runs out (pace.rs); one percentage for everything; and of     *)
(* each pool, who is in it and who may serve it.                            *)
(*                                                                          *)
(* A label is a sequence of its parts.  Percentages are integers, times are *)
(* hours, a weight is a natural number.                                     *)
(***************************************************************************)
EXTENDS Integers, Sequences, SequencesExt, FiniteSets, FiniteSetsExt

CONSTANTS
  None,
  MaxId,       \* how many SubIds there are, in the order accounts are adopted
  Labels,      \* what an account may call itself: an address, or its id
  Brief(_),    \* the first eight characters of an id, an address as it is
  Names,       \* what the configuration may call it
  Plans,       \* as providers spell them, None among them
  Spelt(_),    \* trimmed, lowercase, with hyphens
  Overrides,   \* the plan-weights blocks: from "provider", "tier" to a weight
  Readings,    \* session, weekly and scoped windows, or None
  Warn, Critical,
  Gates,       \* of the pools
  MaxMoves, MaxNow   \* bounds on what the engine does, and on the clock

VARIABLES
  accounts,    \* the records, by id
  overrides,   \* of the configuration in force
  gate,
  now,
  moves

figureVars == <<accounts, overrides, gate, now, moves>>

Id == 1..MaxId
Known == DOMAIN accounts
InOrder == SelectSeq([i \in Id |-> i], LAMBDA i : i \in Known)

----------------------------------------------------------------------------
(* plan.rs *)

Tiers == [claude |-> [free |-> 0, pro |-> 1, max_5x |-> 5, max_20x |-> 20, team |-> 1, enterprise |-> 5],
          codex  |-> [free |-> 0, plus |-> 1, pro |-> 10, team |-> 1, business |-> 1, enterprise |-> 5, edu |-> 1]]

\* "max" is either of two tiers, and is taken for the smaller one.
Aliases == [claude |-> [max |-> "max_5x", max5x |-> "max_5x", max20x |-> "max_20x",
                        claude_pro |-> "pro", claude_max |-> "max_5x"],
            codex  |-> [chatgpt_plus |-> "plus", chatgpt_pro |-> "pro", chatgpt_team |-> "team"]]

Resolve(provider, plan) ==
  LET name == IF plan = None THEN "unknown" ELSE Spelt(plan)
      alias == Aliases[provider]
  IN  CASE name \in DOMAIN Tiers[provider] -> name
        [] name \notin DOMAIN Tiers[provider] /\ name \in DOMAIN alias -> alias[name]
        [] OTHER -> "unknown"

\* An account whose tier nobody knows counts as one of the entry tier.
TierWeight(provider, tier) == IF tier = "unknown" THEN 1 ELSE Tiers[provider][tier]

Weight(provider, tier) ==
  IF <<provider, tier>> \in DOMAIN overrides THEN overrides[<<provider, tier>>]
  ELSE TierWeight(provider, tier)

\* weighted_pct: the sum and the total it is to be divided by, or nothing.
WeightedPct(entries) ==
  LET heavy == SelectSeq(entries, LAMBDA e : e.weight > 0)
      total == FoldLeft(LAMBDA n, e : n + e.weight, 0, heavy)
  IN  IF total = 0 THEN None
      ELSE [sum |-> FoldLeft(LAMBDA n, e : n + e.pct * e.weight, 0, heavy), total |-> total]

----------------------------------------------------------------------------
(* severity.rs and pace.rs *)

Bands == <<"ok", "warn", "critical">>

SeverityFor(pct) ==
  LET warn == IF Warn >= Critical THEN Critical ELSE Warn
  IN  CASE pct >= Critical -> 3 [] pct < Critical /\ pct >= warn -> 2 [] OTHER -> 1

\* When the window is used up at the rate it has been used since it began.
Project(window) ==
  IF \/ window.pct <= 0 \/ window.pct >= 100
     \/ window.started_at = None \/ window.resets_at = None
  THEN None
  ELSE IF window.started_at >= now \/ window.resets_at <= now \/ window.resets_at <= window.started_at
  THEN None
  ELSE LET at == now + ((now - window.started_at) * (100 - window.pct)) \div window.pct
       IN  IF at >= window.resets_at THEN None ELSE at

WindowView(window) ==
  [pct |-> window.pct, resets_at |-> window.resets_at, severity |-> SeverityFor(window.pct),
   projection |-> Project(window)]

----------------------------------------------------------------------------
(* Labels. *)

\* The configured one, an address as it is, an account id cut short.
LabelFor(account) ==
  IF account.configured # None THEN account.configured ELSE Brief(account.own)

\* Codex states the plan with the usage, Claude only with the credentials.
PlanOf(i) ==
  LET account == accounts[i]
  IN  IF account.usage # None /\ account.usage.plan # None THEN account.usage.plan ELSE account.plan

\* Who shares a label with i, in the order of their ids.
Group(labels, i) ==
  SelectSeq(InOrder, LAMBDA j : accounts[j].provider = accounts[i].provider /\ labels[j] = labels[i])

Ordinals == <<"(1)", "(2)", "(3)", "(4)">>

WithPlans(labels) ==
  [i \in Known |-> IF Len(Group(labels, i)) > 1 /\ PlanOf(i) # None
                   THEN Append(labels[i], PlanOf(i)) ELSE labels[i]]

MutantNumbered(labels) ==   \* only accounts without a plan are numbered
  [i \in Known |-> LET g == Group(labels, i)
                   IN  IF Len(g) > 1 /\ PlanOf(i) = None THEN Append(labels[i], Ordinals[IndexFirstSubSeq(<<i>>, g)])
                       ELSE labels[i]]

Numbered(labels) ==
  [i \in Known |-> LET g == Group(labels, i)
                   IN  IF Len(g) > 1 THEN Append(labels[i], Ordinals[IndexFirstSubSeq(<<i>>, g)])
                       ELSE labels[i]]

\* disambiguate_labels: the plan, and a number for those still alike.
Disambiguated == Numbered(WithPlans([i \in Known |-> LabelFor(accounts[i])]))

----------------------------------------------------------------------------
(* build_snapshot *)

Headline(i) ==
  LET u == accounts[i].usage IN IF u = None THEN {} ELSE {u.session, u.weekly} \ {None}
Windows(i) == Headline(i) \cup (IF accounts[i].usage = None THEN {} ELSE accounts[i].usage.scoped)
Enabled == {i \in Known : accounts[i].enabled}

Tier(i) == Resolve(accounts[i].provider, PlanOf(i))

Overall ==
  LET read == SelectSeq(InOrder, LAMBDA i : i \in Enabled /\ Headline(i) # {})
  IN  WeightedPct([k \in DOMAIN read |->
        [pct |-> Max({w.pct : w \in Headline(read[k])}), weight |-> Weight(accounts[read[k]].provider, Tier(read[k]))]])

Worst == Bands[Max({1} \cup UNION {{WindowView(w).severity : w \in Windows(i)} : i \in Enabled})]

\* The account may be routed to: enabled, signed in, not quarantined.
Eligible == {i \in Enabled : accounts[i].routable}

Members == {i \in Known : gate.provider \in {None, accounts[i].provider} /\ (gate.members = {} \/ i \in gate.members)}

Under(window, ceiling) == window = None \/ window.pct < ceiling

PoolEligible ==
  {i \in Members \cap Eligible :
     accounts[i].usage # None =>
       Under(accounts[i].usage.session, gate.session) /\ Under(accounts[i].usage.weekly, gate.weekly)}

----------------------------------------------------------------------------
(* The engine's handlers, as far as the figures go. *)

Move == moves < MaxMoves /\ moves' = moves + 1

\* Adopted without a reading, and enabled.
Adopt ==
  /\ Move /\ Known # Id
  /\ \E provider \in {"claude", "codex"}, label \in Labels, plan \in Plans :
       LET i == Min(Id \ Known)
       IN  accounts' = [j \in Known \cup {i} |->
             IF j = i THEN [provider |-> provider, own |-> label, configured |-> None, plan |-> plan,
                            enabled |-> TRUE, routable |-> TRUE, usage |-> None]
             ELSE accounts[j]]
  /\ UNCHANGED <<overrides, gate, now>>

Forget ==
  /\ Move
  /\ \E i \in Known : accounts' = [j \in Known \ {i} |-> accounts[j]]
  /\ UNCHANGED <<overrides, gate, now>>

Poll ==
  /\ Move
  /\ \E i \in Known, reading \in Readings :
       accounts' = [accounts EXCEPT ![i].usage =
         [reading EXCEPT !.plan = IF accounts[i].provider = "codex" THEN @ ELSE None]]
  /\ UNCHANGED <<overrides, gate, now>>

Configure ==
  /\ Move
  /\ \/ /\ \E i \in Known, name \in Names : accounts' = [accounts EXCEPT ![i].configured = name]
        /\ UNCHANGED <<overrides, gate>>
     \/ /\ \E i \in Known : accounts' = [accounts EXCEPT ![i].enabled = ~ @]
        /\ UNCHANGED <<overrides, gate>>
     \/ /\ overrides' \in Overrides /\ gate' \in Gates
        /\ UNCHANGED accounts
  /\ UNCHANGED now

\* The router quarantines the account, or lets it back.
Route ==
  /\ Move
  /\ \E i \in Known : accounts' = [accounts EXCEPT ![i].routable = ~ @]
  /\ UNCHANGED <<overrides, gate, now>>

Tick == now < MaxNow /\ now' = now + 1 /\ UNCHANGED <<accounts, overrides, gate, moves>>

Init ==
  /\ accounts = [i \in {} |-> None]
  /\ overrides \in Overrides /\ gate \in Gates /\ now = 0 /\ moves = 0

Next == Adopt \/ Forget \/ Poll \/ Configure \/ Route \/ Tick

Spec == Init /\ [][Next]_figureVars

----------------------------------------------------------------------------
\* "Make every label unique within its provider" (disambiguate_labels): two
\* accounts of one provider never look alike, unless one of them is called
\* what the numbering would call another.
LabelsTellApart ==
  (\A i \in Known : Last(LabelFor(accounts[i])) \notin Range(Ordinals)) =>
    LET shown == Disambiguated
    IN  \A i, j \in Known : i # j /\ accounts[i].provider = accounts[j].provider => shown[i] # shown[j]

\* The one percentage lies between those it stands for, and there is one
\* unless nobody with a weight has been read: it never says 0 % of nothing.
OverallIsAMean ==
  LET counted == {i \in Enabled : Headline(i) # {} /\ Weight(accounts[i].provider, Tier(i)) > 0}
      pcts == {Max({w.pct : w \in Headline(i)}) : i \in counted}
      shown == Overall
  IN  /\ shown = None <=> counted = {}
      /\ shown # None => Min(pcts) * shown.total <= shown.sum /\ shown.sum <= Max(pcts) * shown.total

\* A projection is of a window still running, falls into it, and is never
\* earlier for having used less.
ProjectionsFallInside ==
  \A i \in Known : \A w, v \in Windows(i) :
    /\ Project(w) # None => now <= Project(w) /\ Project(w) < w.resets_at
    /\ Project(w) # None /\ Project(v) # None /\ w.started_at = v.started_at /\ w.pct <= v.pct =>
         Project(v) <= Project(w)

A == INSTANCE Allowance WITH BlindExhaustion <- 1

\* "The members the router would actually route to right now"
\* (PoolView::eligible): the engine's own test is the one the request path
\* puts to them (PoolGate::admits).
PoolsShowTheGate ==
  PoolEligible =
    {i \in Members \cap Eligible :
       A!BelowCeiling([max_session_pct |-> gate.session, max_weekly_pct |-> gate.weekly], accounts[i].usage)}

\* What a frontend draws without looking at it again.
FiguresAreHonest == LabelsTellApart /\ OverallIsAMean /\ ProjectionsFallInside /\ PoolsShowTheGate
=============================================================================
