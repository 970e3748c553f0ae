--------------------- MODULE AidlVhalClientDeathProofs ----------------------
(***************************************************************************)
(* Proofs about the binder-death bookkeeping of AidlVhalClient, for every  *)
(* set of user threads and callbacks.                                      *)
(***************************************************************************)
EXTENDS AidlVhalClientDeath, TLAPS

USE DeathAssumption

(* mLock is held by the binder thread exactly while its notification loop *)
(* runs (or is stuck inside a callback), and while the loop runs the       *)
(* callbacks it has still to visit are all registered.                     *)
LockMatchesLoop == lockOwner = Binder <=> diedPc \in {"iterating", "blocked"}

LoopWithinRegistered == diedPc = "iterating" => toInvoke \subseteq registered

IInv == TypeOK /\ LockMatchesLoop /\ LoopWithinRegistered

LEMMA IInvInit == Init => IInv
  BY DEF Init, IInv, TypeOK, LockMatchesLoop, LoopWithinRegistered, Binder,
         NoOwner, NoCall, Ops, DiedStates

LEMMA IInvStep == IInv /\ [Next]_vars => IInv'
<1> SUFFICES ASSUME IInv, [Next]_vars PROVE IInv'
  OBVIOUS
<1>. USE DEF IInv, TypeOK, LockMatchesLoop, LoopWithinRegistered, Binder,
         NoOwner, NoCall, Ops, DiedStates
<1>1. ASSUME NEW u \in Users, NEW op \in Ops, NEW c \in Callbacks,
             Call(u, op, c)
      PROVE IInv'
  BY <1>1 DEF Call
<1>2. ASSUME NEW u \in Users, AddOnBinderDiedCallback(u) PROVE IInv'
  BY <1>2 DEF AddOnBinderDiedCallback, Return
<1>3. ASSUME NEW u \in Users, RemoveOnBinderDiedCallback(u) PROVE IInv'
  BY <1>3 DEF RemoveOnBinderDiedCallback, Return
<1>4. ASSUME NEW u \in Users, CountOnBinderDiedCallbacks(u) PROVE IInv'
  BY <1>4 DEF CountOnBinderDiedCallbacks, Return
<1>5. CASE BinderDies
  BY <1>5 DEF BinderDies
<1>6. CASE OnBinderDied
  BY <1>6 DEF OnBinderDied
<1>7. ASSUME NEW c \in Callbacks, InvokeCallback(c) PROVE IInv'
  <2>1. CASE c \in Reentrant
    BY <1>7, <2>1 DEF InvokeCallback
  <2>2. CASE c \notin Reentrant
    BY <1>7, <2>2 DEF InvokeCallback
  <2>3. QED
    BY <2>1, <2>2
<1>8. CASE FinishDied
  BY <1>8 DEF FinishDied
<1>9. CASE Destroy
  BY <1>9 DEF Destroy
<1>10. CASE UNCHANGED vars
  BY <1>10 DEF vars
<1>11. QED
  BY <1>1, <1>2, <1>3, <1>4, <1>5, <1>6, <1>7, <1>8, <1>9, <1>10
     DEF Next

(* The type invariant holds in every reachable state.                      *)
THEOREM TypeCorrect == Spec => []TypeOK
<1>1. IInv => TypeOK
  BY DEF IInv
<1>2. QED
  BY <1>1, IInvInit, IInvStep, PTL DEF Spec

(* The step predicate of InvokedOnlyWhileRegistered.                       *)
OnlyRegisteredInvoked ==
  \A c \in Callbacks : c \in invoked' \ invoked => c \in registered

(* A death notification invokes only registered callbacks: the loop of     *)
(* onBinderDiedWithContext holds mLock from the moment it reads            *)
(* mOnBinderDiedCallbacks, so no removeOnBinderDiedCallback can erase a    *)
(* callback the loop has yet to invoke.                                    *)
THEOREM InvokedOnlyWhileRegisteredHolds == Spec => InvokedOnlyWhileRegistered
<1>1. IInv /\ [Next]_vars => [OnlyRegisteredInvoked]_vars
  <2> SUFFICES ASSUME IInv, [Next]_vars PROVE [OnlyRegisteredInvoked]_vars
    OBVIOUS
  <2>. USE DEF IInv, TypeOK, LoopWithinRegistered, OnlyRegisteredInvoked
  <2>1. ASSUME NEW c \in Callbacks, InvokeCallback(c)
        PROVE OnlyRegisteredInvoked
    BY <2>1 DEF InvokeCallback
  <2>2. CASE ~\E c \in Callbacks : InvokeCallback(c)
    <3>1. UNCHANGED invoked
      BY <2>2 DEF Next, vars, Call, AddOnBinderDiedCallback,
         RemoveOnBinderDiedCallback, CountOnBinderDiedCallbacks, Return,
         BinderDies, OnBinderDied, FinishDied, Destroy
    <3>2. QED
      BY <3>1
  <2>3. QED
    BY <2>1, <2>2
<1>2. QED
  BY <1>1, IInvInit, IInvStep, PTL DEF Spec, InvokedOnlyWhileRegistered,
     OnlyRegisteredInvoked
=============================================================================
