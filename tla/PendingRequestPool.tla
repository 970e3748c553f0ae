------------------------- MODULE PendingRequestPool -------------------------
(***************************************************************************)
(* The request-correlation primitive PendingRequestPool (spec section 4.1) *)
(* that GetSetValueClient (src/cpp/vhal/client/src/AidlVhalClient.cpp)     *)
(* creates and drives.  Its implementation is not part of this source      *)
(* tree, so these operators are written from the spec.                     *)
(*                                                                         *)
(* The pool has no variables of its own here: a client module INSTANCEs   *)
(* it with its two variables                                               *)
(*   pending  - ids added and neither finished nor swept (the pool's map);  *)
(*   expiring - ids the timer sweep has removed and handed to the timeout   *)
(*              callback, which has not consumed them yet.                  *)
(* The group id (clientId) is always nullptr in GetSetValueClient and is   *)
(* left out.  Deadlines are abstracted: any pending id may expire.         *)
(***************************************************************************)
CONSTANT RequestIds

VARIABLES pending, expiring

PoolTypeOK ==
  /\ pending \subseteq RequestIds
  /\ expiring \subseteq RequestIds

PoolInit ==
  /\ pending = {}
  /\ expiring = {}

(* addRequests(clientId, ids, timeoutCallback): register the ids.          *)
AddRequests(ids) ==
  /\ pending' = pending \cup ids
  /\ UNCHANGED expiring

(* The value tryFinishRequests returns: the given ids still pending.       *)
Finished(ids) == ids \cap pending

(* The state change of tryFinishRequests: those ids leave the pool.        *)
FinishRequests(ids) ==
  /\ pending' = pending \ ids
  /\ UNCHANGED expiring

(* The periodic sweep: expired ids leave the pool and are passed to the    *)
(* timeout callback.                                                       *)
SweepExpired(ids) ==
  /\ ids # {}
  /\ ids \subseteq pending
  /\ pending' = pending \ ids
  /\ expiring' = expiring \cup ids

(* The timeout callback has consumed id.                                   *)
TimeoutConsumed(id) ==
  /\ id \in expiring
  /\ expiring' = expiring \ {id}
  /\ UNCHANGED pending

(* The pool's destructor expires every pending id synchronously; the       *)
(* caller handles the returned set in the same step.                       *)
ShutdownExpired == pending

Shutdown ==
  /\ pending' = {}
  /\ UNCHANGED expiring
=============================================================================
