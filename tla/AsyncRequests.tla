---------------------------- MODULE AsyncRequests ----------------------------
(***************************************************************************)
(* What an asynchronous get/set client built on PendingRequestPool        *)
(* promises its callers (spec sections 4.1 and 8): every request that is   *)
(* issued is answered exactly once, by a result, an error or a timeout,    *)
(* and never twice.  Several requests may be answered in one step (the     *)
(* pool's destructor times out all of them at once).                       *)
(***************************************************************************)
EXTENDS Sequences

CONSTANTS RequestIds, Outcomes

VARIABLES issued, answers

vars == <<issued, answers>>

Init ==
  /\ issued = {}
  /\ answers = [r \in RequestIds |-> <<>>]

Issue(r) ==
  /\ r \notin issued
  /\ issued' = issued \cup {r}
  /\ UNCHANGED answers

(* The requests of S, all issued and unanswered, receive one answer each.  *)
Answer(S) ==
  /\ S # {}
  /\ S \subseteq issued
  /\ \A r \in S : answers[r] = <<>>
  /\ \E f \in [S -> Outcomes] :
       answers' = [r \in RequestIds |-> IF r \in S THEN <<f[r]>> ELSE answers[r]]
  /\ UNCHANGED issued

Next ==
  \/ \E r \in RequestIds : Issue(r)
  \/ \E S \in SUBSET RequestIds : Answer(S)

(* No issued request waits forever for its answer.                         *)
Spec == Init /\ [][Next]_vars /\ \A r \in RequestIds : WF_vars(Answer({r}))
=============================================================================
