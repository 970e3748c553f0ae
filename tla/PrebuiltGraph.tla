---------------------------- MODULE PrebuiltGraph ----------------------------
(***************************************************************************)
(* The computepipe runner's PrebuiltGraph                                  *)
(* (src/computepipe/runner/graph/PrebuiltGraph.cpp): a singleton created  *)
(* under mCreationMutex that dlopens a prebuilt graph library, the phase   *)
(* handlers the runner thread calls, and the termination callback the      *)
(* library calls from its own thread.  mGraphState is an atomic that both  *)
(* threads store to, with no lock between a handler's check and its store.*)
(*                                                                         *)
(* The library is a black box: each call into it may fail, and a graph it  *)
(* runs may end on its own at any time.  A handler's early returns         *)
(* (ILLEGAL_STATE, an aborted or completed RunnerEvent, an error code) do  *)
(* not change state and are stuttering steps.                              *)
(***************************************************************************)
EXTENDS Naturals

CONSTANTS
  InvertedNullCheck, \* TRUE: line 178 as written (!= nullptr); FALSE: == nullptr
  MaxLoads           \* bound on the dlopen calls of GetPrebuiltGraphFromLibrary

ASSUME GraphAssumption ==
  /\ InvertedNullCheck \in BOOLEAN
  /\ MaxLoads \in Nat

(* PrebuiltGraphState *)
UNINITIALIZED == "UNINITIALIZED"
STOPPED == "STOPPED"
RUNNING == "RUNNING"
FLUSHING == "FLUSHING"
GraphStates == {UNINITIALIZED, STOPPED, RUNNING, FLUSHING}

(* What the library is doing with its graph.                               *)
LibStates == {"idle", "running", "flushing"}
(* Where the runner thread is: between a successful library call and the  *)
(* store to mGraphState that follows it, or in no handler.                 *)
RunnerStates == {"idle", "starting", "storeFlushing", "storeStopped"}

VARIABLES
  instance,    \* mPrebuiltGraphInstance: "null" or "graph"
  loads,       \* dlopen handles taken and never dlclose'd (mHandle is one)
  crashed,     \* the process dereferenced a null PrebuiltGraph*
  graphState,  \* mGraphState
  engine,      \* mEngineInterface is non-null
  configured,  \* the library holds a graph config (UpdateGraphConfig)
  termCb,      \* the library holds GraphTerminationCallbackFunction
  lib,         \* the library's graph execution
  runner       \* the runner thread inside a phase handler

vars == <<instance, loads, crashed, graphState, engine, configured, termCb, lib,
          runner>>

-----------------------------------------------------------------------------
(* Plausible bugs, each the mutant of one definition below.                *)

(* StopGraphExecution stores STOPPED whatever flushOutputFrames says.      *)
StoreStopStateIgnoringFlush ==
  /\ runner \in {"storeFlushing", "storeStopped"}
  /\ graphState' = STOPPED
  /\ runner' = "idle"
  /\ UNCHANGED <<instance, loads, crashed, engine, configured, termCb, lib>>

(* GetPrebuiltGraphFromLibrary without its "already initialized" return.  *)
GetPrebuiltGraphReinitializing(dlopenOk, symbolsOk, engineGiven) ==
  /\ ~crashed
  /\ runner = "idle"
  /\ loads < MaxLoads
  /\ instance' = "graph"
  /\ UNCHANGED crashed
  /\ loads' = IF dlopenOk THEN loads + 1 ELSE loads
  /\ IF dlopenOk /\ symbolsOk /\ engineGiven
       THEN graphState' = STOPPED /\ engine' = TRUE
       ELSE UNCHANGED <<graphState, engine>>
  /\ UNCHANGED <<configured, termCb, lib, runner>>

-----------------------------------------------------------------------------
(* Static initialisation: no instance yet; the library is not loaded.     *)
Init ==
  /\ instance = "null"
  /\ loads = 0
  /\ crashed = FALSE
  /\ graphState = UNINITIALIZED
  /\ engine = FALSE
  /\ configured = FALSE
  /\ termCb = FALSE
  /\ lib = "idle"
  /\ runner = "idle"

(* The instance GetPrebuiltGraphFromLibrary works on after line 178-180.   *)
CreatedInstance ==
  IF InvertedNullCheck
    THEN instance                                     \* new only if non-null
    ELSE "graph"                                      \* new only if null

(* GetPrebuiltGraphFromLibrary, under mCreationMutex.  The inputs are      *)
(* whether dlopen succeeds, whether every dlsym'd symbol and the graph     *)
(* config are found, and whether engineInterface is non-null.  Reading    *)
(* mGraphState through a null instance crashes the process.  An instance *)
(* that is already initialized is returned as is; one that is not dlopens  *)
(* again and overwrites mHandle.                                           *)
GetPrebuiltGraphFromLibrary(dlopenOk, symbolsOk, engineGiven) ==
  /\ ~crashed
  /\ runner = "idle"
  /\ loads < MaxLoads
  /\ instance' = CreatedInstance
  /\ IF CreatedInstance = "null"
       THEN /\ crashed' = TRUE
            /\ UNCHANGED <<loads, graphState, engine>>
       ELSE /\ UNCHANGED crashed
            /\ IF graphState = UNINITIALIZED
                 THEN /\ loads' = IF dlopenOk THEN loads + 1 ELSE loads
                      /\ IF dlopenOk /\ symbolsOk /\ engineGiven
                           THEN graphState' = STOPPED /\ engine' = TRUE
                           ELSE UNCHANGED <<graphState, engine>>
                 ELSE UNCHANGED <<loads, graphState, engine>>
  /\ UNCHANGED <<configured, termCb, lib, runner>>

(* handleConfigPhase on a phase-entry event: UpdateGraphConfig succeeds   *)
(* (its failure returns with no change), then, if                          *)
(* there is an engine interface, the pixel-stream, stream and termination *)
(* callbacks in that order.  A call that fails returns at once, so the     *)
(* termination callback is registered only if all three calls succeed.   *)
HandleConfigPhase(callbacksOk) ==
  /\ ~crashed
  /\ runner = "idle"
  /\ graphState # UNINITIALIZED
  /\ configured' = TRUE
  /\ termCb' = (termCb \/ (engine /\ callbacksOk))
  /\ UNCHANGED <<instance, loads, crashed, graphState, engine, lib, runner>>

(* handleExecutionPhase: StartGraphExecution(this) succeeds and the       *)
(* library starts running; mGraphState is stored at the next step.        *)
HandleExecutionPhase ==
  /\ ~crashed
  /\ runner = "idle"
  /\ graphState = STOPPED
  /\ lib' = "running"
  /\ runner' = "starting"
  /\ UNCHANGED <<instance, loads, crashed, graphState, engine, configured,
                 termCb>>

(* ... the store of RUNNING after StartGraphExecution returned SUCCESS.    *)
ExecutionStarted ==
  /\ runner = "starting"
  /\ graphState' = RUNNING
  /\ runner' = "idle"
  /\ UNCHANGED <<instance, loads, crashed, engine, configured, termCb, lib>>

(* StopGraphExecution's call into the library succeeds: a flushing stop   *)
(* lets a running graph drain, an immediate one ends it.  Stopping a graph *)
(* that has already ended leaves the library idle.                         *)
StopGraphExecution(flushOutputFrames) ==
  /\ lib' = IF flushOutputFrames /\ lib # "idle" THEN "flushing" ELSE "idle"
  /\ runner' = IF flushOutputFrames THEN "storeFlushing" ELSE "storeStopped"

(* handleStopWithFlushPhase / handleStopImmediatePhase on a RUNNING graph.*)
HandleStopWithFlushPhase ==
  /\ ~crashed
  /\ runner = "idle"
  /\ graphState = RUNNING
  /\ StopGraphExecution(TRUE)
  /\ UNCHANGED <<instance, loads, crashed, graphState, engine, configured,
                 termCb>>

HandleStopImmediatePhase ==
  /\ ~crashed
  /\ runner = "idle"
  /\ graphState = RUNNING
  /\ StopGraphExecution(FALSE)
  /\ UNCHANGED <<instance, loads, crashed, graphState, engine, configured,
                 termCb>>

(* The rest of StopGraphExecution: store FLUSHING or STOPPED.              *)
StoreStopState ==
  /\ runner \in {"storeFlushing", "storeStopped"}
  /\ graphState' = IF runner = "storeFlushing" THEN FLUSHING ELSE STOPPED
  /\ runner' = "idle"
  /\ UNCHANGED <<instance, loads, crashed, engine, configured, termCb, lib>>

(* handleResetPhase on a STOPPED graph: ResetGraph, whose result is        *)
(* ignored, drops the library's graph config.                              *)
HandleResetPhase ==
  /\ ~crashed
  /\ runner = "idle"
  /\ graphState = STOPPED
  /\ configured' = FALSE
  /\ UNCHANGED <<instance, loads, crashed, graphState, engine, termCb, lib,
                 runner>>

(* GraphTerminationCallbackFunction, on the library's thread: store       *)
(* STOPPED, then dispatch GetStatus() and errorMessage to the engine,     *)
(* which changes no state of the graph.                                    *)
GraphTerminationCallbackFunction ==
  graphState' = STOPPED

(* The library's graph ends on its own, or a flushing graph has drained:  *)
(* the library calls the termination callback if it holds one.            *)
LibraryTerminates ==
  /\ ~crashed
  /\ lib \in {"running", "flushing"}
  /\ lib' = "idle"
  /\ IF termCb THEN GraphTerminationCallbackFunction ELSE UNCHANGED graphState
  /\ UNCHANGED <<instance, loads, crashed, engine, configured, termCb,
                 runner>>

Next ==
  \/ \E dlopenOk, symbolsOk, engineGiven \in BOOLEAN :
       GetPrebuiltGraphFromLibrary(dlopenOk, symbolsOk, engineGiven)
  \/ \E callbacksOk \in BOOLEAN : HandleConfigPhase(callbacksOk)
  \/ HandleExecutionPhase
  \/ ExecutionStarted
  \/ HandleStopWithFlushPhase
  \/ HandleStopImmediatePhase
  \/ StoreStopState
  \/ HandleResetPhase
  \/ LibraryTerminates

(* The runner thread finishes a handler it is in, and a draining graph    *)
(* does end.  The runner need not call a phase and a running graph may run *)
(* for ever.                                                               *)
Fairness ==
  /\ WF_vars(ExecutionStarted)
  /\ WF_vars(StoreStopState)
  /\ WF_vars(lib = "flushing" /\ LibraryTerminates)

Spec == Init /\ [][Next]_vars /\ Fairness

-----------------------------------------------------------------------------
TypeOK ==
  /\ instance \in {"null", "graph"}
  /\ loads \in 0..MaxLoads
  /\ crashed \in BOOLEAN
  /\ graphState \in GraphStates
  /\ engine \in BOOLEAN
  /\ configured \in BOOLEAN
  /\ termCb \in BOOLEAN
  /\ lib \in LibStates
  /\ runner \in RunnerStates

(* When the runner is in no handler and mGraphState says UNINITIALIZED or  *)
(* STOPPED, the library is not executing a graph: handleExecutionPhase     *)
(* never starts, and handleResetPhase never resets, a graph that runs,     *)
(* whatever the library's termination callback stores in between.         *)
LibraryIdleWhenStopped ==
  runner = "idle" /\ graphState \in {UNINITIALIZED, STOPPED} => lib = "idle"

(* A flushing stop whose call into the library has succeeded, while the   *)
(* library drains and holds the termination callback, ends with the       *)
(* runner out of StopGraphExecution and mGraphState reading STOPPED, so   *)
(* that the next handleExecutionPhase or handleResetPhase can run: the    *)
(* runner's store of FLUSHING and the callback's store of STOPPED may     *)
(* come in either order.  No handler can run during the stop, so the      *)
(* callback is neither registered nor removed in between.                 *)
FlushCompletes ==
  (runner = "storeFlushing" /\ lib = "flushing" /\ termCb)
    ~> (runner = "idle" /\ graphState = STOPPED)

(* Once the library holds the termination callback, mGraphState reads     *)
(* RUNNING, outside a handler, only while the library's graph runs: a     *)
(* graph that ended has had STOPPED stored by the callback, and nothing   *)
(* the runner stores afterwards may bring RUNNING back.                    *)
RunningOnlyWhileLibraryRuns ==
  runner = "idle" /\ termCb /\ graphState = RUNNING => lib = "running"

====
