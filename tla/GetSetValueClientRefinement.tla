--------------------- MODULE GetSetValueClientRefinement ---------------------
(***************************************************************************)
(* The safety half of "GetSetValueClient implements AsyncRequests": when   *)
(* neither vectorToStableLargeParcelable nor the HAL call fails, every     *)
(* step of the client is a step of the exactly-once contract or leaves    *)
(* the contract's state alone.  The fairness half (every issued request is *)
(* eventually answered) is liveness and stays with TLC (run exactly_once). *)
(***************************************************************************)
EXTENDS GetSetValueClientProofs

(* No caller's callback has been invoked before getValue / setValue has    *)
(* stored it, a stored callback has never been invoked, and none has been  *)
(* invoked twice: the callback leaves the map in the very step that        *)
(* invokes it (tryFinishRequest + onGetValue, onTimeout, the destructor).  *)
StoredUnanswered ==
  /\ \A r \in RequestIds : pc[r] \in Unadded => results[r] = <<>>
  /\ \A k \in Kinds : \A r \in callbacks[k] : results[r] = <<>>

RInv == IInv /\ AtMostOneCallback /\ StoredUnanswered

(* The contract's variables, as the refinement mapping gives them.         *)
issuedBar == {r \in RequestIds : pc[r] # "idle"}

(* The hypothesis of the refinement: the two error branches of getValue /  *)
(* setValue that invoke a callback before or besides the pool (findings 1  *)
(* and 2) are never taken.                                                 *)
NoFailures == ~SerializeMayFail /\ ~CallMayFail

LEMMA RInvInit == Init => RInv
<1> SUFFICES ASSUME Init PROVE RInv
  OBVIOUS
<1>1. IInv
  BY IInvInit
<1>2. AtMostOneCallback /\ StoredUnanswered
  BY DEF Init, AtMostOneCallback, StoredUnanswered, Kinds
<1>3. QED
  BY <1>1, <1>2 DEF RInv

(* An answer to one request r whose callback is stored and unanswered is   *)
(* the contract's Answer({r}).                                             *)
LEMMA AnswerOne ==
  ASSUME TypeOK, NEW r \in issuedBar, results[r] = <<>>, NEW o \in Outcomes,
         Deliver(r, o), pc' = pc
  PROVE  /\ Contract!Answer({r})
         /\ results'[r] = <<o>>
         /\ \A x \in RequestIds \ {r} : results'[x] = results[x]
<1>0. r \in RequestIds /\ results \in [RequestIds -> Seq(Outcomes)]
  BY DEF TypeOK, issuedBar
<1>a. Append(results[r], o) = <<o>>
  OBVIOUS
<1>b. results' = [results EXCEPT ![r] = <<o>>]
  BY <1>a DEF Deliver
<1>1. results' = [x \in RequestIds |-> IF x \in {r} THEN <<o>> ELSE results[x]]
  BY <1>0, <1>b
<1>2. {r} \subseteq {x \in RequestIds : pc'[x] # "idle"}
  BY DEF issuedBar
<1>3. \E f \in [{r} -> Outcomes] :
        results' = [x \in RequestIds |-> IF x \in {r} THEN <<f[x]>> ELSE results[x]]
  <2>1. [x \in {r} |-> o] \in [{r} -> Outcomes]
    OBVIOUS
  <2>2. QED
    BY <1>1, <2>1
<1>4. QED
  BY <1>1, <1>2, <1>3 DEF Contract!Answer, issuedBar

(* A stored callback belongs to a request its caller has issued.           *)
LEMMA StoredIssued ==
  ASSUME RInv, NEW k \in Kinds, NEW r \in callbacks[k]
  PROVE  r \in issuedBar /\ pc[r] \notin Unadded /\ kind[r] = k
  BY DEF RInv, IInv, TypeOK, UnaddedUntracked, Tracked, Unadded, issuedBar,
         KindsMatch, Kinds

(* A step that invokes no callback, adds callbacks only for callers that   *)
(* have not yet stored theirs, and moves no caller in or out of "idle" or *)
(* back into the unadded states keeps StoredUnanswered and is a stutter of *)
(* the contract.                                                           *)
LEMMA QuietStep ==
  ASSUME RInv, results' = results,
         pc' \in [RequestIds -> CallerStates],
         \A r \in RequestIds : (pc'[r] = "idle") <=> (pc[r] = "idle"),
         \A r \in RequestIds : pc'[r] \in Unadded => pc[r] \in Unadded,
         \A k \in Kinds : callbacks'[k] \subseteq
                            callbacks[k] \cup {r \in RequestIds : pc[r] \in Unadded}
  PROVE  /\ AtMostOneCallback' /\ StoredUnanswered'
         /\ UNCHANGED <<issuedBar, results>>
<1>1. issuedBar' = issuedBar
  BY DEF issuedBar, RInv, IInv, TypeOK
<1>2. QED
  BY <1>1 DEF RInv, AtMostOneCallback, StoredUnanswered

(* Invoking a stored, unanswered callback of request r while taking it    *)
(* out of the map of its kind (onGetValue after tryFinishRequest, and      *)
(* onTimeout) keeps the invariant and is the contract's Answer({r}).       *)
LEMMA AnswerStored ==
  ASSUME RInv, NEW r \in RequestIds, NEW k \in Kinds, r \in callbacks[k],
         NEW o \in Outcomes, Deliver(r, o), pc' = pc,
         callbacks' = [callbacks EXCEPT ![k] = @ \ {r}]
  PROVE  /\ Contract!Answer({r})
         /\ AtMostOneCallback' /\ StoredUnanswered'
<1>0. /\ TypeOK /\ AtMostOneCallback /\ StoredUnanswered /\ KindsMatch
  BY DEF RInv, IInv
<1>1. r \in issuedBar /\ results[r] = <<>> /\ pc[r] \notin Unadded
  BY <1>0, StoredIssued DEF StoredUnanswered
<1>2. Contract!Answer({r})
  BY <1>0, <1>1, AnswerOne
<1>3. /\ results'[r] = <<o>>
      /\ \A x \in RequestIds \ {r} : results'[x] = results[x]
  BY <1>0, <1>1, AnswerOne
<1>4. \A j \in Kinds : r \notin callbacks'[j]
  BY <1>0 DEF KindsMatch, TypeOK
<1>5. AtMostOneCallback'
  <2>1. Len(results'[r]) <= 1
    BY <1>3
  <2>2. ASSUME NEW x \in RequestIds, x # r PROVE Len(results'[x]) <= 1
    BY <1>0, <1>3, <2>2 DEF AtMostOneCallback
  <2>3. QED
    BY <2>1, <2>2 DEF AtMostOneCallback
<1>6. \A x \in RequestIds : pc'[x] \in Unadded => results'[x] = <<>>
  BY <1>0, <1>1, <1>3 DEF StoredUnanswered
<1>7. \A j \in Kinds : \A x \in callbacks'[j] : results'[x] = <<>>
  <2>1. \A j \in Kinds : callbacks'[j] \subseteq callbacks[j] \ {r}
    BY <1>0, <1>4 DEF TypeOK
  <2>2. QED
    BY <1>0, <1>3, <2>1 DEF StoredUnanswered, TypeOK
<1>8. QED
  BY <1>2, <1>5, <1>6, <1>7 DEF StoredUnanswered

(* One step of the client that takes no error branch keeps the invariant   *)
(* and is a step of the contract or leaves issuedBar and results alone.   *)
LEMMA RStep ==
  ASSUME NoFailures, RInv, [Next]_vars
  PROVE  /\ AtMostOneCallback' /\ StoredUnanswered'
         /\ [Contract!Next]_<<issuedBar, results>>
<1>. USE DEF NoFailures
<1>0. /\ TypeOK /\ IInv /\ AtMostOneCallback /\ StoredUnanswered
      /\ \A k \in Kinds : callbacks[k] \subseteq RequestIds
  BY DEF RInv, IInv, TypeOK
<1>1. ASSUME NEW k \in Kinds, IssueRequest(k) PROVE
        /\ AtMostOneCallback' /\ StoredUnanswered'
        /\ [Contract!Next]_<<issuedBar, results>>
  <2>1. /\ mRequestId \in RequestIds
        /\ pc' = [pc EXCEPT ![mRequestId] = "serialize"]
        /\ UNCHANGED <<callbacks, results>>
    BY <1>0, <1>1, RequestIdsFacts DEF IssueRequest, RequestIds, TypeOK
  <2>2. pc[mRequestId] = "idle"
    BY <1>0, <2>1, RequestIdsFacts DEF IInv, IssuedKnown, RequestIds
  <2>3. results[mRequestId] = <<>>
    BY <1>0, <2>1, <2>2 DEF StoredUnanswered, Unadded
  <2>4. AtMostOneCallback' /\ StoredUnanswered'
    BY <1>0, <2>1, <2>3 DEF AtMostOneCallback, StoredUnanswered, Unadded, TypeOK
  <2>5. Contract!Issue(mRequestId)
    BY <1>0, <2>1, <2>2 DEF Contract!Issue, issuedBar, TypeOK
  <2>6. \E x \in RequestIds : Contract!Issue(x)
    BY <2>1, <2>5 DEF Contract!Issue
  <2>7. QED
    BY <2>4, <2>6 DEF Contract!Next
<1>2. ASSUME NEW r \in RequestIds,
             \/ Serialize(r) \/ AddRequest(r) \/ CallHal(r) \/ ReturnFromHal(r)
             \/ Expire(r)
      PROVE  /\ AtMostOneCallback' /\ StoredUnanswered'
             /\ UNCHANGED <<issuedBar, results>>
  <2>1. CASE Serialize(r)
    <3>1. pc[r] = "serialize" /\ pc' = [pc EXCEPT ![r] = "add"]
          /\ UNCHANGED <<callbacks, results>>
      BY <2>1 DEF Serialize
    <3>2. QED
      BY <1>0, <3>1, QuietStep DEF TypeOK, Unadded, CallerStates
  <2>2. CASE AddRequest(r)
    <3>1. pc[r] = "add" /\ pc' = [pc EXCEPT ![r] = "call"]
          /\ callbacks' = [callbacks EXCEPT ![kind[r]] = @ \cup {r}]
          /\ UNCHANGED results
      BY <2>2 DEF AddRequest
    <3>2. \A k \in Kinds : callbacks'[k] \subseteq
                            callbacks[k] \cup {x \in RequestIds : pc[x] \in Unadded}
      BY <1>0, <3>1 DEF TypeOK, Unadded
    <3>3. QED
      BY <1>0, <3>1, <3>2, QuietStep DEF TypeOK, Unadded, CallerStates
  <2>3. CASE CallHal(r)
    <3>1. pc[r] = "call" /\ pc' = [pc EXCEPT ![r] = "inCall"]
          /\ UNCHANGED <<callbacks, results>>
      BY <2>3 DEF CallHal
    <3>2. QED
      BY <1>0, <3>1, QuietStep DEF TypeOK, Unadded, CallerStates
  <2>4. CASE ReturnFromHal(r)
    <3>1. pc[r] = "inCall" /\ pc' = [pc EXCEPT ![r] = "done"]
          /\ UNCHANGED <<callbacks, results>>
      BY <2>4 DEF ReturnFromHal
    <3>2. QED
      BY <1>0, <3>1, QuietStep DEF TypeOK, Unadded, CallerStates
  <2>5. CASE Expire(r)
    BY <1>0, <2>5, QuietStep DEF Expire, TypeOK
  <2>6. QED
    BY <1>2, <2>1, <2>2, <2>3, <2>4, <2>5
<1>3. ASSUME NEW r \in RequestIds, NEW k \in Kinds, OnResult(r, k)
      PROVE  /\ AtMostOneCallback' /\ StoredUnanswered'
             /\ [Contract!Next]_<<issuedBar, results>>
  <2>1. /\ kind[r] = k /\ UNCHANGED pc
        /\ callbacks' = IF FinishedRequest(r, k)
                          THEN [callbacks EXCEPT ![k] = @ \ {r}]
                          ELSE callbacks
    BY <1>3 DEF OnResult, TryFinishRequest
  <2>2. CASE ~FinishedRequest(r, k)
    <3>1. UNCHANGED <<callbacks, results>>
      BY <1>3, <2>1, <2>2 DEF OnResult
    <3>2. QED
      BY <1>0, <2>1, <3>1, QuietStep DEF TypeOK
  <2>3. CASE FinishedRequest(r, k)
    <3>1. r \in callbacks[k] /\ callbacks' = [callbacks EXCEPT ![k] = @ \ {r}]
      BY <2>1, <2>3 DEF FinishedRequest
    <3>2. PICK o \in {"value", "error"} : Deliver(r, o)
      BY <1>3, <2>3 DEF OnResult
    <3>3. /\ Contract!Answer({r})
          /\ AtMostOneCallback' /\ StoredUnanswered'
      BY <2>1, <3>1, <3>2, AnswerStored DEF Outcomes
    <3>4. QED
      BY <3>3 DEF Contract!Next
  <2>4. QED
    BY <2>2, <2>3
<1>4. ASSUME NEW r \in RequestIds, OnTimeout(r)
      PROVE  /\ AtMostOneCallback' /\ StoredUnanswered'
             /\ [Contract!Next]_<<issuedBar, results>>
  <2>1. r \in expiring /\ UNCHANGED pc
    BY <1>4 DEF OnTimeout, Pool!TimeoutConsumed
  <2>2. kind[r] \in Kinds
    BY <1>0, <2>1 DEF IInv, UnaddedUntracked, Tracked, Unadded, IssuedKnown
  <2>3. CASE r \in callbacks[kind[r]]
    <3>1. /\ callbacks' = [callbacks EXCEPT ![kind[r]] = @ \ {r}]
          /\ Deliver(r, "try_again")
      BY <1>4, <2>3 DEF OnTimeout
    <3>2. /\ Contract!Answer({r})
          /\ AtMostOneCallback' /\ StoredUnanswered'
      BY <2>1, <2>2, <2>3, <3>1, AnswerStored DEF Outcomes
    <3>3. QED
      BY <3>2 DEF Contract!Next
  <2>4. CASE r \notin callbacks[kind[r]]
    <3>1. UNCHANGED <<callbacks, results>>
      BY <1>4, <2>4 DEF OnTimeout
    <3>2. QED
      BY <1>0, <2>1, <3>1, QuietStep DEF TypeOK
  <2>5. QED
    BY <2>3, <2>4
<1>5. CASE Destroy
  <2>. DEFINE timedOut == {x \in pending : x \in callbacks[kind[x]]}
  <2>1. /\ results' = [x \in RequestIds |->
                         IF x \in timedOut THEN Append(results[x], "try_again")
                                           ELSE results[x]]
        /\ callbacks' = [j \in Kinds |-> callbacks[j] \ timedOut]
        /\ UNCHANGED pc
    BY <1>5 DEF Destroy, Pool!ShutdownExpired
  <2>2. \A x \in timedOut : x \in RequestIds /\ x \in issuedBar
                            /\ results[x] = <<>> /\ pc[x] \notin Unadded
    <3>1. SUFFICES ASSUME NEW x \in timedOut
                   PROVE  x \in RequestIds /\ x \in issuedBar
                          /\ results[x] = <<>> /\ pc[x] \notin Unadded
      OBVIOUS
    <3>2. kind[x] \in Kinds
      BY <1>0 DEF IInv, UnaddedUntracked, Tracked, Unadded, IssuedKnown,
                  TypeOK, Pool!PoolTypeOK
    <3>3. QED
      BY <1>0, <3>2, StoredIssued DEF StoredUnanswered
  <2>3. results' = [x \in RequestIds |->
                      IF x \in timedOut THEN <<"try_again">> ELSE results[x]]
    <3>1. ASSUME NEW x \in timedOut
          PROVE  Append(results[x], "try_again") = <<"try_again">>
      <4>1. results[x] = <<>>
        BY <2>2
      <4>2. QED
        BY <4>1
    <3>2. QED
      BY <2>1, <3>1, Zenon
  <2>4. AtMostOneCallback' /\ StoredUnanswered'
    <3>1. AtMostOneCallback'
      BY <1>0, <2>3 DEF AtMostOneCallback
    <3>2. \A x \in RequestIds : pc'[x] \in Unadded => results'[x] = <<>>
      BY <1>0, <2>1, <2>2, <2>3 DEF StoredUnanswered
    <3>3. \A j \in Kinds : \A x \in callbacks'[j] : results'[x] = <<>>
      BY <1>0, <2>1, <2>3 DEF StoredUnanswered, TypeOK
    <3>4. QED
      BY <3>1, <3>2, <3>3 DEF StoredUnanswered
  <2>5. CASE timedOut = {}
    <3>1. results' = results
      BY <1>0, <2>3, <2>5 DEF TypeOK
    <3>2. issuedBar' = issuedBar
      BY <2>1 DEF issuedBar
    <3>3. QED
      BY <2>4, <3>1, <3>2
  <2>6. CASE timedOut # {}
    <3>1. issuedBar' = issuedBar /\ timedOut \subseteq issuedBar
      BY <2>1, <2>2 DEF issuedBar
    <3>2. [x \in timedOut |-> "try_again"] \in [timedOut -> Outcomes]
      BY DEF Outcomes
    <3>3. Contract!Answer(timedOut)
      BY <2>2, <2>3, <2>6, <3>1, <3>2 DEF Contract!Answer, issuedBar
    <3>4. timedOut \in SUBSET RequestIds
      BY <2>2
    <3>5. QED
      BY <2>4, <3>3, <3>4 DEF Contract!Next
  <2>7. QED
    BY <2>5, <2>6
<1>6. CASE UNCHANGED vars
  <2>1. UNCHANGED <<issuedBar, results>>
    BY <1>6 DEF vars, issuedBar
  <2>2. QED
    BY <1>0, <1>6, <2>1 DEF vars, AtMostOneCallback, StoredUnanswered
<1>7. QED
  BY <1>1, <1>2, <1>3, <1>4, <1>5, <1>6
     DEF Next, GetValue, SetValue, OnGetValue, OnSetValue, Kinds

(* When neither vectorToStableLargeParcelable nor mHal->getValues /        *)
(* setValues fails, every request id the client hands out is answered at   *)
(* most once and only after it was issued: issuedBar and results move only *)
(* as the contract AsyncRequests allows, across all interleavings of the   *)
(* caller threads, the HAL's binder threads, the pool's timer and the      *)
(* destructor, for every MaxRequests.                                      *)
THEOREM RefinesContractSafety ==
  ASSUME NoFailures
  PROVE  Spec => Contract!Init /\ [][Contract!Next]_Contract!vars
<1>1. Init => Contract!Init
  BY DEF Init, Contract!Init, RequestIds
<1>2. RInv /\ [Next]_vars => RInv'
  BY RStep, IInvStep DEF RInv
<1>3. RInv /\ [Next]_vars => [Contract!Next]_Contract!vars
  BY RStep DEF Contract!vars, issuedBar
<1>4. QED
  BY <1>1, <1>2, <1>3, RInvInit, PTL DEF Spec

(* The double callbacks of findings 1 and 2 need one of the two error      *)
(* branches: without them no request's callback is invoked twice, whatever *)
(* the order of HAL answers, timeouts and destruction.                     *)
THEOREM AtMostOneCallbackWithoutFailures ==
  ASSUME NoFailures
  PROVE  Spec => []AtMostOneCallback
<1>1. RInv /\ [Next]_vars => RInv'
  BY RStep, IInvStep DEF RInv
<1>2. RInv => AtMostOneCallback
  BY DEF RInv
<1>3. QED
  BY <1>1, <1>2, RInvInit, PTL DEF Spec
=============================================================================
