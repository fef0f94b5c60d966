----------------------------- MODULE Strategies -----------------------------
(***************************************************************************)
(* The four rankings of balance/strategy.rs.  A ranking is stated as what  *)
(* it means for candidate s to be the one picked; ties break on the SubId, *)
(* so for all but LeastConnections (whose running total of requests is not *)
(* modelled) exactly one candidate qualifies.                              *)
(***************************************************************************)
EXTENDS Allowance

StrategyKind == {"lowest-usage", "highest-usage", "round-robin", "least-connections"}

\* Only the two usage strategies pay for a usage round before they rank.
NeedsUsage(kind) == kind \in {"lowest-usage", "highest-usage"}

\* Lexicographic order on keys of the same length.
LexLeq(a, b) ==
  \/ a = b
  \/ \E i \in DOMAIN a : a[i] < b[i] /\ \A j \in 1..(i - 1) : a[j] = b[j]

\* A failed fetch (None) sorts last under both usage strategies.
LowestKey(s, score, load) ==
  << IF score = None THEN 1 ELSE 0,
     IF score = None THEN 100 ELSE EffectivePct(score),
     load, s >>

DrainTier(score) ==
  CASE score = None                                  -> 1
    [] score # None /\ EffectivePct(score) < 100     -> 0
    [] score # None /\ EffectivePct(score) >= 100    -> 2

HighestKey(s, score, load) ==
  << DrainTier(score),
     IF score = None THEN -100 ELSE -EffectivePct(score),
     load, s >>

MutantRoundRobinPick(s, cands, last) ==
  LET later == {c \in cands : last = None \/ c > last}
  IN  s \in later /\ \A c \in later : s <= c

\* The first candidate strictly after the cursor, wrapping.
RoundRobinPick(s, cands, last) ==
  LET later == {c \in cands : last # None /\ c > last}
      from  == IF later = {} THEN cands ELSE later
  IN  s \in from /\ \A c \in from : s <= c

\* s is the candidate `kind` picks, given the scores of the usage round, the
\* in-flight loads and round-robin's cursor.
IsPick(kind, s, cands, scores, load, last) ==
  CASE kind = "lowest-usage" ->
         \A c \in cands : LexLeq(LowestKey(s, scores[s], load[s]),
                                 LowestKey(c, scores[c], load[c]))
    [] kind = "highest-usage" ->
         \A c \in cands : LexLeq(HighestKey(s, scores[s], load[s]),
                                 HighestKey(c, scores[c], load[c]))
    [] kind = "round-robin" -> RoundRobinPick(s, cands, last)
    [] kind = "least-connections" -> \A c \in cands : load[s] <= load[c]
=============================================================================
