-------------------------------- MODULE SignIn --------------------------------
(***************************************************************************)
(* Signing in through the browser: the engine's side (engine.rs: the task  *)
(* it spawns, its handle, the events the task queues), the flow itself     *)
(* (auth/mod.rs login) and the one-shot server that waits for the callback *)
(* on a fixed loopback port (auth/pkce.rs CodeWaiter).                     *)
(*                                                                         *)
(* Aborting a task takes effect when the runtime gets to it: until then    *)
(* it may still take the step it is in.  Dropping a CodeWaiter tells its   *)
(* server to stop; the port is free when the server has.                   *)
(***************************************************************************)
EXTENDS Naturals, Sequences

CONSTANTS
  Provider,
  None,
  MaxFlow    \* bound on the logins started

VARIABLES
  flows,    \* the tasks spawned, in order
  handle,   \* login_task
  queue,    \* the events not handled yet
  login,    \* what the snapshot shows: None, "awaiting" or "failed"
  port,     \* who listens on each provider's redirect port: a flow, the vendor's tool, None
  stopping, \* the flows whose server was told to stop
  crossed   \* history: an event of a flow given up was handled, or is on its way

vars == <<flows, handle, queue, login, port, stopping, crossed>>

Flow == DOMAIN flows
Vendor == 0

\* A task that may still take a step.
Live(f) == flows[f].pc \notin {"over", "aborted"}

Send(type, f, ok) == queue' = Append(queue, [type |-> type, flow |-> f, ok |-> ok])

Goto(f, pc) == flows' = [flows EXCEPT ![f].pc = pc]

Init ==
  /\ flows = <<>> /\ handle = None /\ queue = <<>>
  /\ login = None
  /\ port \in [Provider -> {None, Vendor}]
  /\ stopping = {}
  /\ crossed = FALSE

----------------------------------------------------------------------------
(* The engine. *)

MutantAborted(f) == flows   \* the handle is dropped, the task goes on

\* JoinHandle::abort on the flow in hand, if there is one.
Aborted(h) ==
  IF h # None /\ flows[h].pc \notin {"over", "aborted"}
  THEN [flows EXCEPT ![h].aborting = TRUE] ELSE flows

\* begin_login: the previous task is aborted and a new one spawned.
Login(p) ==
  /\ Len(flows) < MaxFlow
  /\ flows' = Append(Aborted(handle), [provider |-> p, pc |-> "new", aborting |-> FALSE])
  /\ handle' = Len(flows')
  /\ login' = None
  /\ UNCHANGED <<queue, port, stopping, crossed>>

CancelLogin ==
  /\ flows' = Aborted(handle)
  /\ handle' = None /\ login' = None
  /\ UNCHANGED <<queue, port, stopping, crossed>>

\* handle_event; an event does not say which task sent it.
HandleEvent ==
  LET e == Head(queue)
  IN  /\ queue # <<>>
      /\ queue' = Tail(queue)
      /\ crossed' = (crossed \/ e.flow # handle)
      /\ \/ /\ e.type = "url"
            /\ login' = "awaiting"
            /\ UNCHANGED handle
         \/ /\ e.type = "finished"
            /\ handle' = None
            /\ login' = IF e.ok THEN None ELSE "failed"
      /\ UNCHANGED <<flows, port, stopping>>

----------------------------------------------------------------------------
(* The flow. *)

\* The waiter goes with the flow: its server is told to stop.
DropWaiter(f) == stopping' = IF f \in {port[p] : p \in Provider} THEN stopping \cup {f} ELSE stopping

\* CodeWaiter::bind, then on_url; a port in use ends the flow.
Bind(f) ==
  LET p == flows[f].provider
  IN  /\ flows[f].pc = "new"
      /\ \/ /\ port[p] = None
            /\ port' = [port EXCEPT ![p] = f]
            /\ Send("url", f, TRUE)
            /\ Goto(f, "waiting")
         \/ /\ port[p] # None
            /\ Send("finished", f, FALSE)
            /\ Goto(f, "over")
            /\ UNCHANGED port
      /\ UNCHANGED <<handle, login, stopping, crossed>>

\* The one request on the redirect path is answered, and the server told to
\* stop: a code under the flow's own state (or none) is exchanged; a refusal,
\* no code, or another state ends the flow.  A later request gets a 410.
Callback(f, good) ==
  /\ flows[f].pc = "waiting" /\ f \notin stopping
  /\ stopping' = stopping \cup {f}
  /\ \/ good /\ Goto(f, "exchanging") /\ UNCHANGED queue
     \/ ~ good /\ Goto(f, "over") /\ Send("finished", f, FALSE)
  /\ UNCHANGED <<handle, login, port, crossed>>

\* exchange_code_at answers, or times out.
Exchange(f, ok) ==
  /\ flows[f].pc = "exchanging"
  /\ Goto(f, "over") /\ Send("finished", f, ok)
  /\ UNCHANGED <<handle, login, port, stopping, crossed>>

\* The abort takes effect.
AbortLands(f) ==
  /\ flows[f].aborting /\ Live(f)
  /\ Goto(f, "aborted")
  /\ DropWaiter(f)
  /\ UNCHANGED <<handle, queue, login, port, crossed>>

MutantServerStops(p) ==   \* it serves on after the callback
  /\ port[p] \in stopping /\ flows[port[p]].pc = "aborted"
  /\ port' = [port EXCEPT ![p] = None]
  /\ UNCHANGED <<flows, handle, queue, login, stopping, crossed>>

\* The server notices and lets go of the port.
ServerStops(p) ==
  /\ port[p] \in stopping
  /\ port' = [port EXCEPT ![p] = None]
  /\ UNCHANGED <<flows, handle, queue, login, stopping, crossed>>

\* The vendor's own tool signs in on the same port.
VendorSignsIn(p) ==
  /\ port[p] \in {None, Vendor}
  /\ port' = [port EXCEPT ![p] = IF port[p] = None THEN Vendor ELSE None]
  /\ UNCHANGED <<flows, handle, queue, login, stopping, crossed>>

Step(f) ==
  \/ Bind(f) \/ AbortLands(f)
  \/ \E ok \in BOOLEAN : Callback(f, ok) \/ Exchange(f, ok)

Next ==
  \/ \E p \in Provider : Login(p) \/ ServerStops(p) \/ VendorSignsIn(p)
  \/ CancelLogin \/ HandleEvent
  \/ \E f \in Flow : Step(f)

Spec == Init /\ [][Next]_vars

Progress(f) == f \in Flow /\ (Bind(f) \/ AbortLands(f) \/ \E ok \in BOOLEAN : Exchange(f, ok))

\* Tasks are run, events handled, and a token request times out.  Nothing makes
\* the user come back from the browser.
Fairness ==
  /\ WF_vars(HandleEvent)
  /\ \A p \in Provider : WF_vars(ServerStops(p))
  /\ \A f \in 1..MaxFlow : WF_vars(Progress(f))

FairSpec == Spec /\ Fairness

----------------------------------------------------------------------------
(* The promises. *)

\* As long as no event of a flow that was given up gets in between - queued
\* before the abort, or sent in the step the abort did not stop - the engine
\* holds the handle of every flow it has not aborted, so the next CancelLogin
\* or Login reaches it, and shows "awaiting" only while that flow waits or its
\* outcome is queued.
HandleReachesFlow ==
  ~ crossed =>
    /\ \A f \in Flow : Live(f) /\ ~ flows[f].aborting => f = handle
    /\ login = "awaiting" =>
         handle # None /\ (Live(handle) \/ \E i \in DOMAIN queue : queue[i].flow = handle)

\* A login that was given up lets go of its port in the end, and so does one
\* that is over: the next one, and the vendor's own tool, can have it.
PortComesFree ==
  \A f \in 1..MaxFlow :
    (f \in Flow /\ (flows[f].aborting \/ ~ Live(f))) ~> \A p \in Provider : port[p] # f
=============================================================================
