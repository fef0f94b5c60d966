------------------------------- MODULE MCFair --------------------------------
(***************************************************************************)
(* Small instances of the machines in which something must eventually      *)
(* happen, each with the fairness its part of the program justifies: the   *)
(* callers of Credentials, the sign-ins and the watch over the proxy.  One *)
(* behaviour has one of them at work, its focus, and the others stay in    *)
(* their initial state.                                                    *)
(***************************************************************************)
EXTENDS MCCredentials

VARIABLES
  focus,
  flows, handle, queue, login, port, stopping, crossed,
  tries, current, exhausted, sudden, signature, waiting, dirty, display

signInVars == <<flows, handle, queue, login, port, stopping, crossed>>
activityVars == <<tries, current, exhausted, sudden, signature, waiting, dirty, display>>

G == INSTANCE SignIn WITH Provider <- {"codex"}, MaxFlow <- 2

A == INSTANCE Activity WITH Served <- {"alice", "bob"}, Tries <- {"only"}

FairInit ==
  /\ focus \in {"credentials", "signin", "activity"}
  /\ SignedInInit /\ G!Init /\ A!Init
  /\ focus # "signin" => port["codex"] = None

FairNext ==
  \/ focus = "credentials" /\ WaitingNext /\ UNCHANGED <<focus, signInVars, activityVars>>
  \/ focus = "signin" /\ G!Next /\ UNCHANGED <<focus, vars, activityVars>>
  \/ focus = "activity" /\ A!Next /\ UNCHANGED <<focus, vars, signInVars>>

\* Token requests carry a timeout and the runtime polls every woken task; the
\* engine's loop takes its events, and an aborted server its turn, in time.
FairSteps ==
  /\ \A c \in Caller : /\ WF_vars(focus = "credentials" /\ Answer(c))
                       /\ WF_vars(focus = "credentials" /\ Resume(c))
  /\ WF_signInVars(focus = "signin" /\ G!HandleEvent)
  /\ WF_signInVars(focus = "signin" /\ G!ServerStops("codex"))
  /\ \A f \in 1..2 : WF_signInVars(focus = "signin" /\ G!Progress(f))
  /\ WF_activityVars(focus = "activity" /\ A!WatchProxy)
  /\ WF_activityVars(focus = "activity" /\ A!HandleEvent)
  /\ WF_activityVars(focus = "activity" /\ A!Publish)

FairSpec ==
  FairInit /\ [][FairNext]_<<focus, vars, signInVars, activityVars>> /\ FairSteps

----------------------------------------------------------------------------
\* A sign-in that was given up, or is over, lets go of the redirect port.
PortComesFree ==
  \A f \in 1..2 : (f \in DOMAIN flows /\ (flows[f].aborting \/ ~ G!Live(f))) ~> port["codex"] # f

\* The snapshot catches up with what the requests do, again and again.
ActivityShows == []<>(display = A!Shown(current, exhausted))
=============================================================================
