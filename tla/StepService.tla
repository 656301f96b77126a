----------------------------- MODULE StepService -----------------------------
(***************************************************************************)
(* What the router relies on when it calls ModelRpcServer.exposed_step: a  *)
(* step takes requests, returns an answer for some of them, at most one    *)
(* each, and forgets the others.                                           *)
(***************************************************************************)
VARIABLES
  waiting,     \* the requests taken by the running step and not answered yet
  answered     \* the requests answered in this step or in one before it

Init == waiting = {} /\ answered = {}

\* Requests that have no answer yet are taken.
Take ==
  /\ waiting \subseteq waiting'
  /\ (waiting' \ waiting) \cap answered = {}
  /\ UNCHANGED answered

\* Of the requests taken some are answered and some are forgotten.
Settle ==
  /\ waiting' \subseteq waiting
  /\ answered \subseteq answered'
  /\ answered' \ answered \subseteq waiting \ waiting'

Next == Take \/ Settle

Spec == Init /\ [][Next]_<<waiting, answered>>
=============================================================================
