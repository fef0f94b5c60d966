--------------------------- MODULE Conversations ----------------------------
(***************************************************************************)
(* What the transcript store promises of `previous_response_id`: it may    *)
(* forget a conversation at any time, but what it splices into a request   *)
(* is a whole conversation, turn by turn as it was said.                   *)
(***************************************************************************)
EXTENDS Ancestry

CONSTANT Request

VARIABLES
  said,    \* the last turn accepted under each id
  reply    \* the conversation each request is about to be spliced with

Init ==
  /\ said = [i \in Id |-> None]
  /\ reply = [r \in Request |-> None]

Say(i, turn) ==
  /\ said' = [said EXCEPT ![i] = turn]
  /\ UNCHANGED reply

\* The turns from a root down to head.
Descents(head) ==
  {c \in SeqOf(Id, MaxDepth + 1) :
     /\ c # << >> /\ c[Len(c)] = head
     /\ \A i \in DOMAIN c : said[c[i]] # None
     /\ \A i \in DOMAIN c :
          said[c[i]].parent = IF i = 1 THEN None ELSE c[i - 1]}

Answer(r, head) ==
  /\ reply[r] = None
  /\ \E c \in Descents(head) :
       reply' = [reply EXCEPT ![r] =
         [items |-> [i \in DOMAIN c |-> said[c[i]].text], sub |-> said[head].sub]]
  /\ UNCHANGED said

\* Requests end, and with the process all of them do.
Close(closed) ==
  /\ reply' = [r \in Request |-> IF r \in closed THEN None ELSE reply[r]]
  /\ UNCHANGED said

Next ==
  \/ \E i \in Id, turn \in Turn : Say(i, turn)
  \/ \E r \in Request, head \in Id : Answer(r, head)
  \/ \E closed \in SUBSET Request : Close(closed)

Spec == Init /\ [][Next]_<<said, reply>>
=============================================================================
