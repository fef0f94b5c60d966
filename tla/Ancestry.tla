------------------------------ MODULE Ancestry ------------------------------
(***************************************************************************)
(* Conversations as the turns that lead to their head (walk and assemble   *)
(* in store/transcripts.rs).  A table maps a response id to a turn, which  *)
(* names its parent, or to None.                                           *)
(***************************************************************************)
EXTENDS Integers, SequencesExt

CONSTANTS
  None,      \* no parent, no turn, no conversation
  Id,        \* the response ids the upstream hands out
  Sub,       \* the accounts
  Text,      \* what a turn's input and output say
  MaxDepth   \* how many parents a walk climbs (MAX_DEPTH)

ASSUME NoneAssumption == None \notin Id \cup Sub \cup Text
ASSUME DepthAssumption == MaxDepth \in Nat

Turn == [parent : Id \cup {None}, sub : Sub, text : Text]

ASSUME TurnAssumption == None \notin Turn

Known(table) == {i \in Id : table[i] # None}

\* The walks from head to parent after parent, as far as the table goes.
Walks(table, head) ==
  {w \in SeqOf(Id, MaxDepth + 1) :
     /\ w # << >> /\ w[1] = head
     /\ \A i \in DOMAIN w : table[w[i]] # None
     /\ \A i \in DOMAIN w : i > 1 => table[w[i - 1]].parent = w[i]}

MutantRooted(table, w) == TRUE

Rooted(table, w) == table[Last(w)].parent = None

\* assemble: the turns oldest first, and the account of the head.
Assembled(table, w) ==
  [items |-> Reverse([i \in DOMAIN w |-> table[w[i]].text]), sub |-> table[w[1]].sub]

\* What `chain` may answer for a head: nothing, if the walk does not end at a root
\* within its depth.  A cycle and a missing ancestor look the same.
Conversations(table, head) ==
  {Assembled(table, w) : w \in {v \in Walks(table, head) : Rooted(table, v)}}
=============================================================================
