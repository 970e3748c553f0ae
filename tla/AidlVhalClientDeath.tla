------------------------- MODULE AidlVhalClientDeath -------------------------
(***************************************************************************)
(* The binder-death bookkeeping of AidlVhalClient                          *)
(* (src/cpp/vhal/client/src/AidlVhalClient.cpp): the set                   *)
(* mOnBinderDiedCallbacks guarded by the non-recursive std::mutex mLock,   *)
(* user threads that add, remove and count callbacks, and the binder       *)
(* thread that delivers the VHAL's death notification through the raw      *)
(* cookie 'this' and invokes every registered callback.                    *)
(*                                                                         *)
(* A method that takes mLock and returns without calling out is one atomic *)
(* step that needs the lock free.  The death notification holds mLock      *)
(* across its loop, so the loop is a sequence of steps with lockOwner =    *)
(* Binder.  The binder runtime may already have dispatched onBinderDied    *)
(* when the destructor's unlinkToDeath returns: unlinking stops new        *)
(* notifications, not one already running.  The death recipient is       *)
(* created with onBinderDied alone (line 83): onBinderUnlinked and         *)
(* onBinderUnlinkedWithContext are never installed and are not modelled.   *)
(***************************************************************************)
CONSTANTS
  Users,      \* threads calling the public methods
  Callbacks,  \* the std::shared_ptr<OnBinderDiedCallbackFunc> values
  Reentrant   \* callbacks that call back into the client when invoked

ASSUME DeathAssumption ==
  /\ Users # {}
  /\ Callbacks # {}
  /\ Reentrant \subseteq Callbacks

Binder == "binder"
NoOwner == "none"
Ops == {"add", "remove", "count"}
NoCall == "none"
(* Where the death-notification thread is.                                 *)
DiedStates == {"idle", "dispatched", "iterating", "blocked", "done"}

VARIABLES
  registered,  \* mOnBinderDiedCallbacks
  lockOwner,   \* the thread holding mLock, or NoOwner
  linked,      \* the death recipient is linked to the VHAL binder
  alive,       \* the AidlVhalClient object has not been destroyed
  diedPc,      \* the binder thread delivering the death notification
  toInvoke,    \* callbacks the notification's loop has not reached yet
  invoked,     \* callbacks the notification has invoked (history)
  calling,     \* the method each user thread is inside, or NoCall
  arg          \* the callback a user thread passed

vars == <<registered, lockOwner, linked, alive, diedPc, toInvoke, invoked,
          calling, arg>>

-----------------------------------------------------------------------------
(* Plausible bugs, each the mutant of one action below.                   *)

(* removeOnBinderDiedCallback without its lock_guard.                     *)
RemoveWithoutLock(u) ==
  /\ calling[u] = "remove"
  /\ registered' = registered \ {arg[u]}
  /\ calling' = [calling EXCEPT ![u] = NoCall]
  /\ UNCHANGED <<lockOwner, linked, alive, diedPc, toInvoke, invoked, arg>>

(* The notification loop returns without releasing mLock.                 *)
FinishDiedKeepingLock ==
  /\ diedPc = "iterating"
  /\ toInvoke = {}
  /\ diedPc' = "done"
  /\ UNCHANGED <<registered, lockOwner, linked, alive, toInvoke, invoked,
                 calling, arg>>

-----------------------------------------------------------------------------
(* The constructor: linkToDeath may fail, which is only logged.            *)
Init ==
  /\ registered = {}
  /\ lockOwner = NoOwner
  /\ linked \in BOOLEAN
  /\ alive = TRUE
  /\ diedPc = "idle"
  /\ toInvoke = {}
  /\ invoked = {}
  /\ calling = [u \in Users |-> NoCall]
  /\ arg \in [Users -> Callbacks]

(* A user thread enters one of the public methods.                         *)
Call(u, op, c) ==
  /\ alive
  /\ calling[u] = NoCall
  /\ calling' = [calling EXCEPT ![u] = op]
  /\ arg' = [arg EXCEPT ![u] = c]
  /\ UNCHANGED <<registered, lockOwner, linked, alive, diedPc, toInvoke,
                 invoked>>

(* The three methods run under lock_guard(mLock) and return.              *)
Return(u) ==
  /\ calling' = [calling EXCEPT ![u] = NoCall]
  /\ UNCHANGED <<lockOwner, linked, alive, diedPc, toInvoke, invoked, arg>>

AddOnBinderDiedCallback(u) ==
  /\ calling[u] = "add"
  /\ lockOwner = NoOwner
  /\ registered' = registered \cup {arg[u]}
  /\ Return(u)

(* Erases the callback if present; INVALID_ARG otherwise.                  *)
RemoveOnBinderDiedCallback(u) ==
  /\ calling[u] = "remove"
  /\ lockOwner = NoOwner
  /\ registered' = registered \ {arg[u]}
  /\ Return(u)

CountOnBinderDiedCallbacks(u) ==
  /\ calling[u] = "count"
  /\ lockOwner = NoOwner
  /\ UNCHANGED registered
  /\ Return(u)

(* The VHAL process dies; the runtime dispatches onBinderDied(cookie).    *)
BinderDies ==
  /\ linked
  /\ diedPc = "idle"
  /\ diedPc' = "dispatched"
  /\ UNCHANGED <<registered, lockOwner, linked, alive, toInvoke, invoked,
                 calling, arg>>

(* onBinderDied casts the cookie back to the client and enters            *)
(* onBinderDiedWithContext, which takes mLock and starts its loop.        *)
OnBinderDied ==
  /\ diedPc = "dispatched"
  /\ lockOwner = NoOwner
  /\ lockOwner' = Binder
  /\ toInvoke' = registered
  /\ diedPc' = "iterating"
  /\ UNCHANGED <<registered, linked, alive, invoked, calling, arg>>

(* One iteration invokes a callback with mLock held.  A callback that     *)
(* calls add/remove/countOnBinderDiedCallback(s) from there blocks on the *)
(* mutex its own thread holds.                                             *)
InvokeCallback(c) ==
  /\ diedPc = "iterating"
  /\ c \in toInvoke
  /\ invoked' = invoked \cup {c}
  /\ IF c \in Reentrant
       THEN diedPc' = "blocked" /\ UNCHANGED toInvoke
       ELSE toInvoke' = toInvoke \ {c} /\ UNCHANGED diedPc
  /\ UNCHANGED <<registered, lockOwner, linked, alive, calling, arg>>

(* The loop is over: the lock_guard releases mLock.                        *)
FinishDied ==
  /\ diedPc = "iterating"
  /\ toInvoke = {}
  /\ lockOwner' = NoOwner
  /\ diedPc' = "done"
  /\ UNCHANGED <<registered, linked, alive, toInvoke, invoked, calling, arg>>

(* ~AidlVhalClient: unlinkToDeath, then the object is freed.  Its owner    *)
(* destroys it when none of its own calls is running.                      *)
Destroy ==
  /\ alive
  /\ \A u \in Users : calling[u] = NoCall
  /\ alive' = FALSE
  /\ linked' = FALSE
  /\ UNCHANGED <<registered, lockOwner, diedPc, toInvoke, invoked, calling, arg>>

Next ==
  \/ \E u \in Users :
       \/ \E op \in Ops, c \in Callbacks : Call(u, op, c)
       \/ AddOnBinderDiedCallback(u)
       \/ RemoveOnBinderDiedCallback(u)
       \/ CountOnBinderDiedCallbacks(u)
  \/ BinderDies
  \/ OnBinderDied
  \/ \E c \in Callbacks : InvokeCallback(c)
  \/ FinishDied
  \/ Destroy

(* A thread inside a method runs on once it holds mLock, and the binder   *)
(* thread runs its notification to the end.  Users need not call, the     *)
(* VHAL need not die and nothing forces destruction.                       *)
Fairness ==
  /\ \A u \in Users :
       /\ WF_vars(AddOnBinderDiedCallback(u))
       /\ WF_vars(RemoveOnBinderDiedCallback(u))
       /\ WF_vars(CountOnBinderDiedCallbacks(u))
  /\ WF_vars(OnBinderDied)
  /\ \A c \in Callbacks : WF_vars(InvokeCallback(c))
  /\ WF_vars(FinishDied)

Spec == Init /\ [][Next]_vars /\ Fairness

-----------------------------------------------------------------------------
TypeOK ==
  /\ registered \subseteq Callbacks
  /\ lockOwner \in Users \cup {Binder, NoOwner}
  /\ linked \in BOOLEAN
  /\ alive \in BOOLEAN
  /\ diedPc \in DiedStates
  /\ toInvoke \subseteq Callbacks
  /\ invoked \subseteq Callbacks
  /\ calling \in [Users -> Ops \cup {NoCall}]
  /\ arg \in [Users -> Callbacks]

(* The death notification invokes a callback only while it is registered: *)
(* once removeOnBinderDiedCallback has erased it, its owner may free what *)
(* it captures and must not be called.  It rests on mLock excluding the loop of onBinderDiedWithContext*)
(* and every method that changes mOnBinderDiedCallbacks.                   *)
InvokedOnlyWhileRegistered ==
  [][\A c \in Callbacks : c \in invoked' \ invoked => c \in registered]_vars

(* Every call of add/remove/countOnBinderDiedCallback(s) returns: no      *)
(* thread waits forever on mLock (spec 5: external callbacks are invoked   *)
(* after releasing the lock, to avoid re-entrant deadlock).                *)
EveryCallReturns ==
  \A u \in Users : calling[u] # NoCall ~> calling[u] = NoCall

(* onBinderDied never dereferences its cookie after the destructor has     *)
(* freed the client (spec 9: the death subscription is cancel-safe against *)
(* a racing unregistration).                                               *)
NoUseAfterFree ==
  [][diedPc = "dispatched" /\ diedPc' # "dispatched" => alive]_vars
====
