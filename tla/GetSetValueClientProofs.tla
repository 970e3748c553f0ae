----------------------- MODULE GetSetValueClientProofs -----------------------
(***************************************************************************)
(* Proofs about GetSetValueClient for every MaxRequests and every choice   *)
(* of which HAL-side failures may happen.                                  *)
(***************************************************************************)
EXTENDS GetSetValueClient, TLAPS

USE ClientAssumption

LEMMA RequestIdsFacts ==
  /\ RequestIds \subseteq Nat
  /\ MaxRequests \in Nat
  BY ClientAssumption DEF RequestIds

-----------------------------------------------------------------------------
(* Invoking a callback keeps results a function to sequences of outcomes.  *)
LEMMA DeliverType ==
  ASSUME NEW r \in RequestIds, NEW o \in Outcomes,
         results \in [RequestIds -> Seq(Outcomes)],
         Deliver(r, o)
  PROVE  results' \in [RequestIds -> Seq(Outcomes)]
  BY DEF Deliver

(* tryFinishRequest keeps the pool and the callback maps sets of ids.      *)
LEMMA TryFinishType ==
  ASSUME NEW r \in RequestIds, NEW k,
         callbacks \in [Kinds -> SUBSET RequestIds],
         pending \subseteq RequestIds, expiring \subseteq RequestIds,
         TryFinishRequest(r, k)
  PROVE  /\ callbacks' \in [Kinds -> SUBSET RequestIds]
         /\ pending' \subseteq RequestIds
         /\ expiring' = expiring
  BY DEF TryFinishRequest, FinishedRequest, Pool!FinishRequests, Pool!Finished

-----------------------------------------------------------------------------
(* One step of the client keeps every variable in its type.               *)
LEMMA TypeStep == TypeOK /\ [Next]_vars => TypeOK'
<1> SUFFICES ASSUME TypeOK, [Next]_vars PROVE TypeOK'
  OBVIOUS
<1>. USE DEF TypeOK, Pool!PoolTypeOK, CallerStates, Kinds, NoKind, Outcomes
<1>1. ASSUME NEW k \in Kinds, IssueRequest(k) PROVE TypeOK'
  <2>1. mRequestId \in RequestIds
    BY <1>1, RequestIdsFacts DEF IssueRequest, RequestIds
  <2>2. pc' \in [RequestIds -> CallerStates]
    BY <1>1, <2>1 DEF IssueRequest
  <2>3. kind' \in [RequestIds -> Kinds \cup {NoKind}]
    BY <1>1, <2>1 DEF IssueRequest
  <2>4. mRequestId' \in 0..MaxRequests
    BY <1>1, RequestIdsFacts DEF IssueRequest
  <2>5. QED
    BY <1>1, <2>2, <2>3, <2>4 DEF IssueRequest
<1>2. ASSUME NEW r \in RequestIds, Serialize(r) PROVE TypeOK'
  <2>1. pc' \in [RequestIds -> CallerStates]
    BY <1>2 DEF Serialize
  <2>2. CASE UNCHANGED <<unserialized, callbacks, pending, results>>
    BY <1>2, <2>1, <2>2 DEF Serialize
  <2>3. CASE /\ unserialized' = unserialized \cup {r}
             /\ TryFinishRequest(r, kind[r])
             /\ Deliver(r, "error")
    BY <1>2, <2>1, <2>3, DeliverType, TryFinishType DEF Serialize
  <2>4. QED
    BY <1>2, <2>2, <2>3 DEF Serialize
<1>3. ASSUME NEW r \in RequestIds, AddRequest(r) PROVE TypeOK'
  BY <1>3 DEF AddRequest, Pool!AddRequests
<1>4. ASSUME NEW r \in RequestIds, CallHal(r) PROVE TypeOK'
  BY <1>4 DEF CallHal
<1>5. ASSUME NEW r \in RequestIds, ReturnFromHal(r) PROVE TypeOK'
  <2>1. pc' \in [RequestIds -> CallerStates]
    BY <1>5 DEF ReturnFromHal
  <2>2. CASE UNCHANGED <<callbacks, pending, results>>
    BY <1>5, <2>1, <2>2 DEF ReturnFromHal
  <2>3. CASE TryFinishRequest(r, kind[r]) /\ Deliver(r, "error")
    BY <1>5, <2>1, <2>3, DeliverType, TryFinishType DEF ReturnFromHal
  <2>4. QED
    BY <1>5, <2>2, <2>3 DEF ReturnFromHal
<1>6. ASSUME NEW r \in RequestIds, NEW k \in Kinds, OnResult(r, k)
      PROVE TypeOK'
  <2>1. /\ callbacks' \in [Kinds -> SUBSET RequestIds]
        /\ pending' \subseteq RequestIds
        /\ expiring' = expiring
    BY <1>6, TryFinishType DEF OnResult
  <2>2. results' \in [RequestIds -> Seq(Outcomes)]
    BY <1>6, DeliverType DEF OnResult
  <2>3. QED
    BY <1>6, <2>1, <2>2 DEF OnResult
<1>7. ASSUME NEW r \in RequestIds, Expire(r) PROVE TypeOK'
  BY <1>7 DEF Expire, Pool!SweepExpired
<1>8. ASSUME NEW r \in RequestIds, OnTimeout(r) PROVE TypeOK'
  <2>1. CASE r \in callbacks[kind[r]]
    BY <1>8, <2>1, DeliverType DEF OnTimeout, Pool!TimeoutConsumed
  <2>2. CASE r \notin callbacks[kind[r]]
    BY <1>8, <2>2 DEF OnTimeout, Pool!TimeoutConsumed
  <2>3. QED
    BY <2>1, <2>2
<1>9. CASE Destroy
  <2>1. results' \in [RequestIds -> Seq(Outcomes)]
    BY <1>9 DEF Destroy
  <2>2. callbacks' \in [Kinds -> SUBSET RequestIds]
    BY <1>9 DEF Destroy
  <2>3. QED
    BY <1>9, <2>1, <2>2 DEF Destroy, Pool!Shutdown
<1>10. CASE UNCHANGED vars
  BY <1>10 DEF vars
<1>11. QED
  BY <1>1, <1>2, <1>3, <1>4, <1>5, <1>6, <1>7, <1>8, <1>9, <1>10
     DEF Next, GetValue, SetValue, OnGetValue, OnSetValue, Kinds

(* Type correctness of every state the client can reach.                  *)
THEOREM TypeCorrect == Spec => []TypeOK
<1>1. Init => TypeOK
  BY DEF Init, TypeOK, Pool!PoolInit, Pool!PoolTypeOK, RequestIds,
         CallerStates, Kinds, NoKind
<1>2. QED
  BY <1>1, TypeStep, PTL DEF Spec
-----------------------------------------------------------------------------
(* NoOrphanedCallback is not inductive alone.  A step that finishes or    *)
(* times out an id looks in the map of the id's kind, so a callback must   *)
(* sit in the map of its own kind; an id the pool swept is no longer in    *)
(* its map; no id is in the pool or a map before its caller has added it;*)
(* and a started caller has fixed its kind and has an id below mRequestId, *)
(* so the id mRequestId++ hands out next is tracked nowhere.               *)
KindsMatch == \A k \in Kinds : \A r \in callbacks[k] : kind[r] = k

PoolDisjoint == pending \cap expiring = {}

Tracked == pending \cup expiring \cup callbacks["get"] \cup callbacks["set"]

(* Callers that have not reached addGetValueRequest / addSetValueRequest. *)
Unadded == {"idle", "serialize", "add"}

UnaddedUntracked == \A r \in RequestIds : pc[r] \in Unadded => r \notin Tracked

IssuedKnown ==
  \A r \in RequestIds : pc[r] # "idle" => r < mRequestId /\ kind[r] \in Kinds

IInv ==
  /\ TypeOK
  /\ NoOrphanedCallback
  /\ KindsMatch
  /\ PoolDisjoint
  /\ UnaddedUntracked
  /\ IssuedKnown

(* The part of IInv beyond the type invariant.                             *)
Strengthening ==
  NoOrphanedCallback /\ KindsMatch /\ PoolDisjoint /\ UnaddedUntracked /\ IssuedKnown

LEMMA IInvInit == Init => IInv
  BY RequestIdsFacts
  DEF Init, IInv, TypeOK, Pool!PoolInit, Pool!PoolTypeOK, RequestIds,
      CallerStates, Kinds, NoKind, NoOrphanedCallback, KindsMatch,
      PoolDisjoint, UnaddedUntracked, Tracked, IssuedKnown

(* tryFinishRequest on an id of known kind keeps the bookkeeping sound:   *)
(* it takes the callback out only together with the pool entry, and it     *)
(* never adds an id anywhere.                                              *)
LEMMA TryFinishKeeps ==
  ASSUME IInv, NEW r \in RequestIds, kind[r] \in Kinds,
         TryFinishRequest(r, kind[r]),
         UNCHANGED <<mRequestId, kind, expiring>>
  PROVE  /\ NoOrphanedCallback' /\ KindsMatch' /\ PoolDisjoint'
         /\ Tracked' \subseteq Tracked
<1>. USE DEF IInv, TypeOK, Pool!PoolTypeOK, Kinds, NoOrphanedCallback,
         KindsMatch, PoolDisjoint, Tracked, TryFinishRequest,
         Pool!FinishRequests
<1>1. CASE FinishedRequest(r, kind[r])
  <2>1. /\ pending' = pending \ {r}
        /\ callbacks' = [callbacks EXCEPT ![kind[r]] = @ \ {r}]
    BY <1>1
  <2>2. QED
    BY <2>1
<1>2. CASE ~FinishedRequest(r, kind[r])
  <2>1. r \notin pending
    BY <1>2 DEF FinishedRequest, Pool!Finished
  <2>2. pending' = pending /\ callbacks' = callbacks
    BY <1>2, <2>1
  <2>3. QED
    BY <2>2
<1>3. QED
  BY <1>1, <1>2

(* The steps that keep pc idle, unadded or added for every caller.        *)
LEMMA PcClassKept ==
  ASSUME IInv, NEW r \in RequestIds,
         pc' = [pc EXCEPT ![r] = pc'[r]],
         pc'[r] \in CallerStates \ {"idle"},
         pc[r] \in Unadded <=> pc'[r] \in Unadded,
         pc[r] # "idle",
         Tracked' \subseteq Tracked,
         UNCHANGED <<mRequestId, kind>>
  PROVE  UnaddedUntracked' /\ IssuedKnown'
  BY DEF IInv, TypeOK, UnaddedUntracked, IssuedKnown, Unadded, CallerStates

LEMMA IInvStep == IInv /\ [Next]_vars => IInv'
<1> SUFFICES ASSUME IInv, [Next]_vars PROVE Strengthening'
  BY TypeStep DEF IInv, Strengthening
<1>. USE RequestIdsFacts DEF IInv, TypeOK, Pool!PoolTypeOK, CallerStates, Kinds,
         NoKind, Strengthening, NoOrphanedCallback, KindsMatch, PoolDisjoint,
         UnaddedUntracked, Tracked, IssuedKnown
<1>1. ASSUME NEW k \in Kinds, IssueRequest(k) PROVE Strengthening'
  <2>. DEFINE id == mRequestId
  <2>1. /\ id \in RequestIds
        /\ pc' = [pc EXCEPT ![id] = "serialize"]
        /\ kind' = [kind EXCEPT ![id] = k]
        /\ mRequestId' = id + 1
        /\ UNCHANGED <<callbacks, pending, expiring>>
    BY <1>1 DEF IssueRequest, RequestIds
  <2>2. pc[id] = "idle"
    BY <2>1
  <2>3. id \notin Tracked
    BY <2>1, <2>2 DEF Unadded
  <2>4. NoOrphanedCallback' /\ KindsMatch' /\ PoolDisjoint'
    BY <2>1, <2>3
  <2>5. UnaddedUntracked' /\ IssuedKnown'
    BY <2>1, <2>3 DEF Unadded
  <2>6. QED
    BY <2>4, <2>5
<1>2. ASSUME NEW r \in RequestIds, Serialize(r) PROVE Strengthening'
  <2>1. /\ pc' = [pc EXCEPT ![r] = "add"] /\ pc[r] = "serialize"
        /\ kind[r] \in Kinds
        /\ UNCHANGED <<mRequestId, kind, expiring>>
    BY <1>2 DEF Serialize
  <2>2. CASE UNCHANGED <<unserialized, callbacks, pending, results>>
    BY <2>1, <2>2 DEF Unadded
  <2>3. CASE TryFinishRequest(r, kind[r])
    <3>1. NoOrphanedCallback' /\ KindsMatch' /\ PoolDisjoint'
          /\ Tracked' \subseteq Tracked
      BY <2>1, <2>3, TryFinishKeeps
    <3>2. UnaddedUntracked' /\ IssuedKnown'
      BY <2>1, <3>1, PcClassKept DEF Unadded
    <3>3. QED
      BY <3>1, <3>2
  <2>4. QED
    BY <1>2, <2>2, <2>3 DEF Serialize
<1>3. ASSUME NEW r \in RequestIds, AddRequest(r) PROVE Strengthening'
  <2>1. /\ pc' = [pc EXCEPT ![r] = "call"] /\ pc[r] = "add"
        /\ kind[r] \in Kinds /\ r \notin Tracked
        /\ callbacks' = [callbacks EXCEPT ![kind[r]] = @ \cup {r}]
        /\ pending' = pending \cup {r}
        /\ UNCHANGED <<mRequestId, kind, expiring>>
    BY <1>3 DEF AddRequest, Pool!AddRequests, Unadded
  <2>2. NoOrphanedCallback' /\ KindsMatch' /\ PoolDisjoint'
    BY <2>1
  <2>3. Tracked' = Tracked \cup {r}
    BY <2>1
  <2>4. UnaddedUntracked' /\ IssuedKnown'
    BY <2>1, <2>3 DEF Unadded
  <2>5. QED
    BY <2>2, <2>4
<1>4. ASSUME NEW r \in RequestIds, CallHal(r) PROVE Strengthening'
  <2>1. /\ pc' = [pc EXCEPT ![r] = "inCall"] /\ pc[r] = "call"
        /\ UNCHANGED <<mRequestId, kind, callbacks, pending, expiring>>
    BY <1>4 DEF CallHal
  <2>2. UnaddedUntracked' /\ IssuedKnown'
    BY <2>1, PcClassKept DEF Unadded
  <2>3. QED
    BY <2>1, <2>2
<1>5. ASSUME NEW r \in RequestIds, ReturnFromHal(r) PROVE Strengthening'
  <2>1. /\ pc' = [pc EXCEPT ![r] = "done"] /\ pc[r] = "inCall"
        /\ kind[r] \in Kinds
        /\ UNCHANGED <<mRequestId, kind, expiring>>
    BY <1>5 DEF ReturnFromHal
  <2>2. CASE UNCHANGED <<callbacks, pending, results>>
    BY <2>1, <2>2 DEF Unadded
  <2>3. CASE TryFinishRequest(r, kind[r])
    <3>1. NoOrphanedCallback' /\ KindsMatch' /\ PoolDisjoint'
          /\ Tracked' \subseteq Tracked
      BY <2>1, <2>3, TryFinishKeeps
    <3>2. UnaddedUntracked' /\ IssuedKnown'
      BY <2>1, <3>1, PcClassKept DEF Unadded
    <3>3. QED
      BY <3>1, <3>2
  <2>4. QED
    BY <1>5, <2>2, <2>3 DEF ReturnFromHal
<1>6. ASSUME NEW r \in RequestIds, NEW k \in Kinds, OnResult(r, k)
      PROVE Strengthening'
  <2>1. kind[r] \in Kinds /\ TryFinishRequest(r, kind[r])
    BY <1>6 DEF OnResult
  <2>2. UNCHANGED <<mRequestId, pc, kind, expiring>>
    BY <1>6 DEF OnResult, TryFinishRequest, Pool!FinishRequests
  <2>3. QED
    BY <2>1, <2>2, TryFinishKeeps
<1>7. ASSUME NEW r \in RequestIds, Expire(r) PROVE Strengthening'
  BY <1>7 DEF Expire, Pool!SweepExpired
<1>8. ASSUME NEW r \in RequestIds, OnTimeout(r) PROVE Strengthening'
  <2>1. /\ r \in expiring /\ expiring' = expiring \ {r}
        /\ UNCHANGED <<mRequestId, pc, kind, pending>>
    BY <1>8 DEF OnTimeout, Pool!TimeoutConsumed
  <2>2. kind[r] \in Kinds
    BY <2>1 DEF Unadded
  <2>3. callbacks' = [k \in Kinds |-> callbacks[k] \ {r}]
    <3>1. CASE r \in callbacks[kind[r]]
      BY <1>8, <2>2, <3>1 DEF OnTimeout
    <3>2. CASE r \notin callbacks[kind[r]]
      BY <1>8, <2>2, <3>2 DEF OnTimeout
    <3>3. QED
      BY <3>1, <3>2
  <2>4. \A p \in pending : p # r /\ kind[p] \in Kinds
    BY <2>1 DEF Unadded
  <2>5. NoOrphanedCallback'
    BY <2>1, <2>3, <2>4
  <2>6. KindsMatch' /\ PoolDisjoint'
    BY <2>1, <2>3
  <2>7. UnaddedUntracked' /\ IssuedKnown'
    BY <2>1, <2>3
  <2>8. QED
    BY <2>5, <2>6, <2>7
<1>9. CASE Destroy
  <2>. DEFINE timedOut == {r \in pending : r \in callbacks[kind[r]]}
  <2>1. callbacks' = [k \in Kinds |-> callbacks[k] \ timedOut]
    BY <1>9 DEF Destroy, Pool!ShutdownExpired
  <2>2. pending' = {} /\ UNCHANGED <<mRequestId, pc, kind, expiring>>
    BY <1>9 DEF Destroy, Pool!Shutdown
  <2>3. NoOrphanedCallback'
    BY <2>1, <2>2
  <2>4. QED
    BY <2>1, <2>2, <2>3
<1>10. CASE UNCHANGED vars
  BY <1>10 DEF vars
<1>11. QED
  BY <1>1, <1>2, <1>3, <1>4, <1>5, <1>6, <1>7, <1>8, <1>9, <1>10
     DEF Next, GetValue, SetValue, OnGetValue, OnSetValue

(* Every reachable state keeps each stored callback reachable by the pool: *)
(* the id-kind bookkeeping of getValue / setValue, tryFinishRequest,       *)
(* onTimeout and the destructor never strands a caller's callback.         *)
THEOREM NoOrphanedCallbackHolds == Spec => []NoOrphanedCallback
<1>1. IInv => NoOrphanedCallback
  BY DEF IInv
<1>2. QED
  BY <1>1, IInvInit, IInvStep, PTL DEF Spec
=============================================================================
