------------------------------ MODULE MCRouter ------------------------------
(***************************************************************************)
(* Small instances of Router: two subs, two concurrent requests.  The      *)
(* interference a behaviour may contain is bounded: MaxEngine steps of the *)
(* engine or of the response headers, and MaxRequests requests in all.     *)
(***************************************************************************)
EXTENDS Router, TLC

CONSTANTS MaxEngine, MaxRequests

VARIABLES engineSteps, requests

mcVars == <<vars, engineSteps, requests>>

MCInit == Init /\ engineSteps = 0 /\ requests = 0

Counted(r) ==
  \/ NewRequest(r) /\ requests < MaxRequests /\ requests' = requests + 1 /\ UNCHANGED engineSteps
  \/ /\ Decide(r) \/ UsageRound(r) \/ Start(r) \/ Finish(r)
        \/ \E class \in FailureClass, u \in Reading \cup {None} : Fail(r, class, u)
     /\ UNCHANGED <<engineSteps, requests>>

MCNext ==
  \/ Tick /\ UNCHANGED <<engineSteps, requests>>
  \/ /\ engineSteps < MaxEngine
     /\ engineSteps' = engineSteps + 1
     /\ Engine \/ \E r \in Request : Observe(r)
     /\ UNCHANGED requests
  \/ \E r \in Request : Counted(r)

MCSpec == MCInit /\ [][MCNext]_mcVars

MCFairSpec ==
  /\ MCSpec
  /\ \A r \in Request : /\ WF_mcVars(Decide(r) /\ UNCHANGED <<engineSteps, requests>>)
                        /\ WF_mcVars(UsageRound(r) /\ UNCHANGED <<engineSteps, requests>>)

\* The requests are interchangeable; the subs are not, their ids are compared.
Symmetry == Permutations(Request)

MCProviderOf == [s \in Sub |-> IF s < 3 THEN "codex" ELSE "claude"]

MCWindow(pct, at) == [pct |-> pct, resets_at |-> at]

\* Room left; the session window full and the weekly one not.
MCReading ==
  { [limit_reached |-> "clear", session |-> MCWindow(50, 1), weekly |-> None],
    [limit_reached |-> "unknown", session |-> MCWindow(100, 1), weekly |-> MCWindow(60, 2)] }

MCSetting(strategy, sticky, auto, proxied) ==
  [strategy |-> strategy, sticky |-> sticky, auto_switch |-> auto, proxied |-> proxied]

MCSettings ==
  { MCSetting("lowest-usage", None, TRUE, Provider),
    MCSetting("round-robin", TRUE, FALSE, Provider) }

FairSettings ==
  { MCSetting("round-robin", None, TRUE, Provider),
    MCSetting("highest-usage", FALSE, TRUE, Provider),
    MCSetting("least-connections", TRUE, FALSE, Provider) }

FrozenSettings == { MCSetting("round-robin", None, FALSE, Provider) }

MCGate == { [members |-> {2}, max_session_pct |-> 90, max_weekly_pct |-> 100] }
\* Plain; or from a pool, with a conversation placed outside it and a key inside.
MCArrival ==
  { [provider |-> "codex", pool |-> None, chain |-> None, key |-> None] }
  \cup [provider : {"codex"}, pool : MCGate, chain : {1}, key : {2}]

OpenGate == { [members |-> Sub, max_session_pct |-> 100, max_weekly_pct |-> 100] }
NoGate == {}

PlainArrival == { [provider |-> "codex", pool |-> None, chain |-> None, key |-> None] }
OpenArrival == [provider : {"codex"}, pool : OpenGate, chain : {None}, key : {None}]
=============================================================================
