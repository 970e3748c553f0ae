-------------------------- MODULE GetSetValueClient --------------------------
(***************************************************************************)
(* The asynchronous get/set path of the AIDL VHAL client,                  *)
(* src/cpp/vhal/client/src/AidlVhalClient.cpp: AidlVhalClient::getValue /  *)
(* setValue hand a fresh request id to GetSetValueClient, which stores the  *)
(* caller's callback in mPendingGetValueCallbacks / mPendingSetValueCallbacks*)
(* and the id in a PendingRequestPool, then calls the HAL.  The callback   *)
(* is later invoked by one of: a HAL result (onGetValue / onSetValue), the *)
(* pool's timeout sweep (onTimeout), the destructor, or the error branches *)
(* of getValue / setValue themselves.                                      *)
(*                                                                         *)
(* Actors: one caller thread per request (pc[r]), HAL binder threads       *)
(* delivering results (any number of times, or never), the pool's timer    *)
(* thread.  A step holding mLock is one atomic step; the user callback is  *)
(* recorded as an Append to results[r] in the step that decided to call it.*)
(***************************************************************************)
EXTENDS Naturals, Sequences

CONSTANTS
  MaxRequests,       \* number of request ids the run hands out
  SerializeMayFail,  \* vectorToStableLargeParcelable may return an error
  CallMayFail        \* mHal->getValues / setValues may return an error status

ASSUME ClientAssumption ==
  /\ MaxRequests \in Nat \ {0}
  /\ SerializeMayFail \in BOOLEAN
  /\ CallMayFail \in BOOLEAN

RequestIds == 0..(MaxRequests - 1)
Kinds == {"get", "set"}
NoKind == "none"
(* What a client callback receives: a value (or {} for set), an error      *)
(* status, or TRY_AGAIN for a timed-out request.                           *)
Outcomes == {"value", "error", "try_again"}
CallerStates == {"idle", "serialize", "add", "call", "inCall", "done"}

VARIABLES
  mRequestId,    \* AidlVhalClient::mRequestId, the next id handed out
  pc,            \* where the caller thread of each request is
  kind,          \* get or set, fixed when the request is issued
  unserialized,  \* requests whose serialization failed
  callbacks,     \* keys of mPendingGetValueCallbacks / mPendingSetValueCallbacks
  pending,       \* ids in mPendingRequestPool
  expiring,      \* ids swept by the pool timer, not yet handled by onTimeout
  halRequests,   \* ids the HAL has received and may answer
  results,       \* every invocation of each request's client callback
  alive          \* FALSE once ~GetSetValueClient has run

vars == <<mRequestId, pc, kind, unserialized, callbacks, pending, expiring,
          halRequests, results, alive>>

Pool == INSTANCE PendingRequestPool

-----------------------------------------------------------------------------
(* tryFinishRequest(requestId, callbacks) with k naming the map: the pool  *)
(* must still hold the id and the map must hold its callback.              *)
FinishedRequest(r, k) == r \in Pool!Finished({r}) /\ r \in callbacks[k]

TryFinishRequest(r, k) ==
  /\ Pool!FinishRequests({r})
  /\ callbacks' = IF FinishedRequest(r, k)
                    THEN [callbacks EXCEPT ![k] = @ \ {r}]
                    ELSE callbacks

(* Invoking the clientCallback of request r.                              *)
Deliver(r, o) == results' = [results EXCEPT ![r] = Append(@, o)]

-----------------------------------------------------------------------------
(* Plausible bugs, each the mutant of one action below; a property that    *)
(* holds must fail when its mutant replaces the action.                    *)

(* onTimeout erases the timed-out entry but skips invoking its callback.  *)
OnTimeoutWithoutCallback(r) ==
  /\ Pool!TimeoutConsumed(r)
  /\ callbacks' = [callbacks EXCEPT ![kind[r]] = @ \ {r}]
  /\ UNCHANGED <<mRequestId, pc, kind, unserialized, halRequests, results,
                 alive>>

(* mOnSetValueTimeout bound to &mPendingGetValueCallbacks (copy-paste).    *)
OnTimeoutWrongMap(r) ==
  /\ Pool!TimeoutConsumed(r)
  /\ IF r \in callbacks["get"]
       THEN /\ callbacks' = [callbacks EXCEPT !["get"] = @ \ {r}]
            /\ Deliver(r, "try_again")
       ELSE UNCHANGED <<callbacks, results>>
  /\ UNCHANGED <<mRequestId, pc, kind, unserialized, halRequests, alive>>

(* The destructor drops the pool without expiring what it still holds.     *)
DestroyWithoutTimeouts ==
  /\ alive
  /\ \A r \in RequestIds : pc[r] \in {"idle", "done"}
  /\ expiring = {}
  /\ Pool!Shutdown
  /\ alive' = FALSE
  /\ UNCHANGED <<mRequestId, pc, kind, unserialized, callbacks, halRequests,
                 results>>

-----------------------------------------------------------------------------
Init ==
  /\ mRequestId = 0
  /\ pc = [r \in RequestIds |-> "idle"]
  /\ kind = [r \in RequestIds |-> NoKind]
  /\ unserialized = {}
  /\ callbacks = [k \in Kinds |-> {}]
  /\ Pool!PoolInit
  /\ halRequests = {}
  /\ results = [r \in RequestIds |-> <<>>]
  /\ alive = TRUE

(* AidlVhalClient::getValue / setValue: requestId = mRequestId++ and the   *)
(* caller enters GetSetValueClient::getValue / setValue.                   *)
IssueRequest(k) ==
  /\ alive
  /\ mRequestId < MaxRequests
  /\ pc' = [pc EXCEPT ![mRequestId] = "serialize"]
  /\ kind' = [kind EXCEPT ![mRequestId] = k]
  /\ mRequestId' = mRequestId + 1
  /\ UNCHANGED <<unserialized, callbacks, pending, expiring, halRequests,
                 results, alive>>

GetValue == IssueRequest("get")

SetValue == IssueRequest("set")

(* vectorToStableLargeParcelable.  On failure the code finishes the        *)
(* (not yet added) request, calls the callback with the error and, having  *)
(* no return, goes on to add and send the request.                         *)
Serialize(r) ==
  /\ pc[r] = "serialize"
  /\ pc' = [pc EXCEPT ![r] = "add"]
  /\ \/ UNCHANGED <<unserialized, callbacks, pending, results>>
     \/ /\ SerializeMayFail
        /\ unserialized' = unserialized \cup {r}
        /\ TryFinishRequest(r, kind[r])
        /\ Deliver(r, "error")
  /\ UNCHANGED <<mRequestId, kind, expiring, halRequests, alive>>

(* addGetValueRequest / addSetValueRequest, under mLock: store the         *)
(* callback, then add the id to the pool.                                  *)
AddRequest(r) ==
  /\ pc[r] = "add"
  /\ pc' = [pc EXCEPT ![r] = "call"]
  /\ callbacks' = [callbacks EXCEPT ![kind[r]] = @ \cup {r}]
  /\ Pool!AddRequests({r})
  /\ UNCHANGED <<mRequestId, kind, unserialized, halRequests, results, alive>>

(* mHal->getValues / setValues: the HAL receives the request (nothing if   *)
(* serialization failed) and may answer from a binder thread before the    *)
(* call returns.                                                           *)
CallHal(r) ==
  /\ pc[r] = "call"
  /\ pc' = [pc EXCEPT ![r] = "inCall"]
  /\ halRequests' = halRequests \cup ({r} \ unserialized)
  /\ UNCHANGED <<mRequestId, kind, unserialized, callbacks, pending, expiring,
                 results, alive>>

(* The HAL call returns.  On an error status the code tries to finish the  *)
(* request, ignores whether that found it, and calls the callback.         *)
ReturnFromHal(r) ==
  /\ pc[r] = "inCall"
  /\ pc' = [pc EXCEPT ![r] = "done"]
  /\ \/ UNCHANGED <<callbacks, pending, results>>
     \/ /\ CallMayFail
        /\ TryFinishRequest(r, kind[r])
        /\ Deliver(r, "error")
  /\ UNCHANGED <<mRequestId, kind, unserialized, expiring, halRequests, alive>>

(* onGetValues -> onGetValue and onSetValues -> onSetValue for one result  *)
(* of request r: a request no longer pending is ignored ("maybe already    *)
(* timed-out"); otherwise the callback gets the value or the error status. *)
OnResult(r, k) ==
  /\ alive
  /\ r \in halRequests
  /\ kind[r] = k
  /\ TryFinishRequest(r, k)
  /\ IF FinishedRequest(r, k)
       THEN \E o \in {"value", "error"} : Deliver(r, o)
       ELSE UNCHANGED results
  /\ UNCHANGED <<mRequestId, pc, kind, unserialized, halRequests, alive>>

OnGetValue(r) == OnResult(r, "get")

OnSetValue(r) == OnResult(r, "set")

(* The pool's timer thread removes an expired id.                          *)
Expire(r) ==
  /\ alive
  /\ Pool!SweepExpired({r})
  /\ UNCHANGED <<mRequestId, pc, kind, unserialized, callbacks, halRequests,
                 results, alive>>

(* onTimeout, through mOnGetValueTimeout / mOnSetValueTimeout: under mLock *)
(* take the callback out of the map of the request's kind, or skip an id   *)
(* already finished; then call it with TRY_AGAIN.                          *)
OnTimeout(r) ==
  /\ Pool!TimeoutConsumed(r)
  /\ IF r \in callbacks[kind[r]]
       THEN /\ callbacks' = [callbacks EXCEPT ![kind[r]] = @ \ {r}]
            /\ Deliver(r, "try_again")
       ELSE UNCHANGED <<callbacks, results>>
  /\ UNCHANGED <<mRequestId, pc, kind, unserialized, halRequests, alive>>

(* ~GetSetValueClient: mPendingRequestPool.reset() expires every pending   *)
(* request synchronously through onTimeout.  The object is destroyed only  *)
(* when no caller is inside getValue / setValue and the timer is idle.     *)
Destroy ==
  /\ alive
  /\ \A r \in RequestIds : pc[r] \in {"idle", "done"}
  /\ expiring = {}
  /\ LET timedOut == {r \in Pool!ShutdownExpired : r \in callbacks[kind[r]]}
     IN  /\ results' = [r \in RequestIds |->
                          IF r \in timedOut THEN Append(results[r], "try_again")
                                            ELSE results[r]]
         /\ callbacks' = [k \in Kinds |-> callbacks[k] \ timedOut]
  /\ Pool!Shutdown
  /\ alive' = FALSE
  /\ UNCHANGED <<mRequestId, pc, kind, unserialized, halRequests>>

Next ==
  \/ GetValue
  \/ SetValue
  \/ \E r \in RequestIds :
       \/ Serialize(r)
       \/ AddRequest(r)
       \/ CallHal(r)
       \/ ReturnFromHal(r)
       \/ OnGetValue(r)
       \/ OnSetValue(r)
       \/ Expire(r)
       \/ OnTimeout(r)
  \/ Destroy

(* Caller threads run to the end of getValue / setValue, and the pool's    *)
(* timer eventually sweeps an expired id and runs its timeout callback.    *)
(* The HAL is not assumed to answer, and nothing forces destruction.       *)
Fairness ==
  \A r \in RequestIds :
    /\ WF_vars(Serialize(r))
    /\ WF_vars(AddRequest(r))
    /\ WF_vars(CallHal(r))
    /\ WF_vars(ReturnFromHal(r))
    /\ WF_vars(Expire(r))
    /\ WF_vars(OnTimeout(r))

Spec == Init /\ [][Next]_vars /\ Fairness

-----------------------------------------------------------------------------
TypeOK ==
  /\ mRequestId \in 0..MaxRequests
  /\ pc \in [RequestIds -> CallerStates]
  /\ kind \in [RequestIds -> Kinds \cup {NoKind}]
  /\ unserialized \subseteq RequestIds
  /\ callbacks \in [Kinds -> SUBSET RequestIds]
  /\ Pool!PoolTypeOK
  /\ halRequests \subseteq RequestIds
  /\ results \in [RequestIds -> Seq(Outcomes)]
  /\ alive \in BOOLEAN

(* A stored callback is always reachable by the pool: every id in the pool *)
(* has its callback in the map of its kind, and every stored callback      *)
(* belongs to an id that a result or the timeout sweep can still finish.   *)
(* Broken, a caller would wait forever (spec 4.1 "never neither").         *)
NoOrphanedCallback ==
  /\ \A r \in pending : r \in callbacks[kind[r]]
  /\ \A k \in Kinds : callbacks[k] \subseteq pending \cup expiring

(* Spec 4.1 / 8: the client callback of a request is invoked at most once *)
(* - a late HAL answer after a timeout, or a timeout after an answer, is   *)
(* never delivered a second time.                                          *)
AtMostOneCallback == \A r \in RequestIds : Len(results[r]) <= 1

(* Spec 4.1 / 8 "never neither": every issued request's callback is        *)
(* eventually invoked, even if the HAL never answers.                      *)
EveryRequestAnswered ==
  \A r \in RequestIds : pc[r] # "idle" ~> results[r] # <<>>

(* GetSetValueClient implements the exactly-once contract of AsyncRequests.*)
Contract == INSTANCE AsyncRequests
              WITH issued <- {r \in RequestIds : pc[r] # "idle"},
                   answers <- results
ContractSpec == Contract!Spec
=============================================================================
