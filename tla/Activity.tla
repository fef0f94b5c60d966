------------------------------- MODULE Activity -------------------------------
(***************************************************************************)
(* How what the proxy does reaches a snapshot (engine.rs).  Requests bump  *)
(* counters and move the router without a word to the engine; twice a      *)
(* second the engine compares a signature of them with the last one, and a *)
(* difference goes through the event channel and a debounce to a publish.  *)
(* The signature counts the exhausted accounts, it does not name them.     *)
(***************************************************************************)
EXTENDS Naturals, FiniteSets

CONSTANTS
  Served,    \* the accounts requests are served by
  Tries,     \* the attempts of one behaviour, each made once
  None

VARIABLES
  tries,       \* of each attempt: not made, or its account, or over
  current,
  exhausted,   \* the accounts in quarantine
  sudden,      \* ... those a round put there since the engine last looked
  signature,   \* State::proxy_signature
  waiting,     \* there is an Event::ProxyActivity in the channel; more would only publish again
  dirty,       \* dirty_at is set
  display      \* what the last snapshot shows of all this

vars == <<tries, current, exhausted, sudden, signature, waiting, dirty, display>>
world == <<tries, current, exhausted>>
engine == <<sudden, signature, waiting, dirty, display>>

Total == Cardinality({t \in Tries : tries[t] # "new"})
InFlight == Cardinality({t \in Tries : tries[t] \in Served})

MutantSignature ==   \* the total adds nothing to the gauge
  [inFlight |-> InFlight, current |-> current, exhausted |-> Cardinality(exhausted)]

Signature ==
  [total |-> Total, inFlight |-> InFlight, current |-> current,
   exhausted |-> Cardinality(exhausted)]

\* The part of build_snapshot that the proxy moves.
Shown(c, e) == [total |-> Total, inFlight |-> InFlight, current |-> c, exhausted |-> e]

PublishNow ==
  /\ display' = Shown(current', exhausted')
  /\ dirty' = FALSE

----------------------------------------------------------------------------
(* The requests, on their own tasks. *)

\* A selection, and the record of the attempt it is for; a hint or the pin may
\* leave current alone.
Begin(t) ==
  /\ tries[t] = "new"
  /\ \E s \in Served \ exhausted :
       /\ tries' = [tries EXCEPT ![t] = s]
       /\ current' \in {current, s}
  /\ UNCHANGED <<exhausted, engine>>

\* The attempt ends; its answer may have exhausted the account, or shown that
\* it is within its limits again.
End(t) ==
  /\ tries[t] \in Served
  /\ exhausted' \in {exhausted, exhausted \cup {tries[t]}, exhausted \ {tries[t]}}
  /\ tries' = [tries EXCEPT ![t] = "over"]
  /\ UNCHANGED <<current, engine>>

\* A quarantine runs out (sweep), but not between a round that began one and
\* the next look, half a second later: the count would be back where it was
\* before anyone compared, and the snapshot of that round would stand until the
\* next one.
Lapse(s) ==
  /\ s \in exhausted /\ sudden = {}
  /\ exhausted' = exhausted \ {s}
  /\ UNCHANGED <<tries, current, engine>>

----------------------------------------------------------------------------
(* The engine's loop. *)

\* A round, or a command; both publish.  (The pin, which the signature has as
\* well, is only moved by commands.)
Round ==
  /\ \E s \in Served : exhausted' \in {exhausted, exhausted \cup {s}}
  /\ sudden' = sudden \cup (exhausted' \ exhausted)
  /\ UNCHANGED <<tries, current, signature, waiting>>
  /\ PublishNow

\* sample_proxy.
WatchProxy ==
  /\ sudden' = {}
  /\ signature' = Signature
  /\ waiting' = (waiting \/ Signature # signature)
  /\ UNCHANGED <<world, dirty, display>>

\* handle_event marks the snapshot dirty, once however many events come.
HandleEvent ==
  /\ waiting
  /\ waiting' = FALSE
  /\ dirty' = TRUE
  /\ UNCHANGED <<world, sudden, signature, display>>

\* The debounce is over.
Publish ==
  /\ dirty
  /\ UNCHANGED <<world, sudden, signature, waiting>>
  /\ PublishNow

Init ==
  /\ tries = [t \in Tries |-> "new"]
  /\ current = None /\ exhausted = {} /\ sudden = {}
  /\ signature = None /\ waiting = FALSE /\ dirty = FALSE
  /\ display = Shown(None, {})

Next ==
  \/ Round \/ WatchProxy \/ HandleEvent \/ Publish
  \/ \E t \in Tries : Begin(t) \/ End(t)
  \/ \E s \in Served : Lapse(s)

\* The watch's timer and the debounce fire, and the channel is read; nobody need
\* ever poll or send a command.
Fairness == WF_vars(WatchProxy) /\ WF_vars(HandleEvent) /\ WF_vars(Publish)

Spec == Init /\ [][Next]_vars /\ Fairness

----------------------------------------------------------------------------
(* The promise. *)

\* What requests do shows: the snapshot catches up with the counters and the
\* router again and again, down to which accounts are exhausted, although only
\* their number is compared.
ActivityShows == []<>(display = Shown(current, exhausted))
=============================================================================
