--------------------------- MODULE MCCredentials ---------------------------
(***************************************************************************)
(* Small instances of Credentials: one request against the engine, and for *)
(* the liveness of ensure_fresh a next-state relation that leaves out what *)
(* no caller waits for.                                                    *)
(***************************************************************************)
EXTENDS Credentials

\* An account that signed in to subbier, whose copies on disk and in the usage
\* cache, and whose restarts, are left out: they only start a wait or end all.
WaitingNext ==
  \/ \E r \in Request : RequestStep(r)
  \/ \E c \in Caller : Answer(c) \/ Resume(c)
  \/ PollRound \/ RoundRefreshed \/ Poll \/ PollAgain \/ HandleTokensRefreshed
  \/ TokenExpires \/ TokenRejected

SignedInInit == Init /\ ~adopted

=============================================================================
