------------------------- MODULE PrebuiltGraphProofs -------------------------
(***************************************************************************)
(* Proofs about PrebuiltGraph for every value of the constants.            *)
(***************************************************************************)
EXTENDS PrebuiltGraph, TLAPS

USE GraphAssumption

(* A graph that was never initialised has never been started, and the     *)
(* runner is in no handler then (every handler needs an initialised       *)
(* graph).                                                                 *)
UninitializedIdle ==
  graphState = UNINITIALIZED => lib = "idle" /\ runner = "idle"

(* After an immediate stop returned SUCCESS the library is idle until the *)
(* runner has stored STOPPED: only the runner starts the library.          *)
StopStoreIdle == runner = "storeStopped" => lib = "idle"

IInv == TypeOK /\ UninitializedIdle /\ StopStoreIdle /\ LibraryIdleWhenStopped

LEMMA IInvInit == Init => IInv
<1> SUFFICES ASSUME Init PROVE IInv
  OBVIOUS
<1>a. instance \in {"null", "graph"} /\ loads \in 0..MaxLoads
  BY DEF Init
<1>b. /\ crashed \in BOOLEAN /\ engine \in BOOLEAN
      /\ configured \in BOOLEAN /\ termCb \in BOOLEAN
  BY DEF Init
<1>c. graphState \in GraphStates /\ lib \in LibStates /\ runner \in RunnerStates
  BY DEF Init, GraphStates, UNINITIALIZED, LibStates, RunnerStates
<1>1. TypeOK
  BY <1>a, <1>b, <1>c DEF TypeOK
<1>2. UninitializedIdle /\ StopStoreIdle /\ LibraryIdleWhenStopped
  BY DEF Init, UninitializedIdle, StopStoreIdle, LibraryIdleWhenStopped
<1>3. QED
  BY <1>1, <1>2 DEF IInv

LEMMA IInvStep == IInv /\ [Next]_vars => IInv'
<1> SUFFICES ASSUME IInv, [Next]_vars PROVE IInv'
  OBVIOUS
<1>. USE DEF IInv, TypeOK, UninitializedIdle, StopStoreIdle,
         LibraryIdleWhenStopped, GraphStates, LibStates, RunnerStates,
         UNINITIALIZED, STOPPED, RUNNING, FLUSHING
<1>1. ASSUME NEW dlopenOk \in BOOLEAN, NEW symbolsOk \in BOOLEAN,
             NEW engineGiven \in BOOLEAN,
             GetPrebuiltGraphFromLibrary(dlopenOk, symbolsOk, engineGiven)
      PROVE IInv'
  <2>1. CASE CreatedInstance = "null"
    BY <1>1, <2>1 DEF GetPrebuiltGraphFromLibrary, CreatedInstance
  <2>2. CASE CreatedInstance # "null" /\ graphState # UNINITIALIZED
    BY <1>1, <2>2 DEF GetPrebuiltGraphFromLibrary, CreatedInstance
  <2>3. CASE CreatedInstance # "null" /\ graphState = UNINITIALIZED
    <3>1. loads' \in 0..MaxLoads
      BY <1>1, <2>3 DEF GetPrebuiltGraphFromLibrary
    <3>2. QED
      BY <1>1, <2>3, <3>1 DEF GetPrebuiltGraphFromLibrary, CreatedInstance
  <2>4. QED
    BY <2>1, <2>2, <2>3
<1>2. ASSUME NEW callbacksOk \in BOOLEAN, HandleConfigPhase(callbacksOk)
      PROVE IInv'
  BY <1>2 DEF HandleConfigPhase
<1>3. CASE HandleExecutionPhase
  BY <1>3 DEF HandleExecutionPhase
<1>4. CASE ExecutionStarted
  BY <1>4 DEF ExecutionStarted
<1>5. CASE HandleStopWithFlushPhase
  BY <1>5 DEF HandleStopWithFlushPhase, StopGraphExecution
<1>6. CASE HandleStopImmediatePhase
  BY <1>6 DEF HandleStopImmediatePhase, StopGraphExecution
<1>7. CASE StoreStopState
  BY <1>7 DEF StoreStopState
<1>8. CASE HandleResetPhase
  BY <1>8 DEF HandleResetPhase
<1>9. CASE LibraryTerminates
  BY <1>9 DEF LibraryTerminates, GraphTerminationCallbackFunction
<1>10. CASE UNCHANGED vars
  BY <1>10 DEF vars
<1>11. QED
  BY <1>1, <1>2, <1>3, <1>4, <1>5, <1>6, <1>7, <1>8, <1>9, <1>10 DEF Next

(* The type invariant holds in every reachable state.                      *)
THEOREM TypeCorrect == Spec => []TypeOK
<1>1. IInv => TypeOK
  BY DEF IInv
<1>2. QED
  BY <1>1, IInvInit, IInvStep, PTL DEF Spec

(* Whatever the library's termination callback stores and whenever, the   *)
(* runner never finds mGraphState UNINITIALIZED or STOPPED, between two    *)
(* handlers, while the library still runs or drains a graph: so            *)
(* handleExecutionPhase never starts a running graph a second time and     *)
(* handleResetPhase never resets one.                                      *)
THEOREM LibraryIdleWhenStoppedHolds == Spec => []LibraryIdleWhenStopped
<1>1. IInv => LibraryIdleWhenStopped
  BY DEF IInv
<1>2. QED
  BY <1>1, IInvInit, IInvStep, PTL DEF Spec
====
