# TLA+ verification of the Car services native code

This directory holds TLA+ models of the native code under `src/`, the TLC
configurations that model-check them, and TLAPS proofs. The models are
written from the C++ sources. `spec.md` is used only for code that is not
in this tree (PendingRequestPool).

## The system and its parts

| Part | Source | State and operations | Modelled by |
|---|---|---|---|
| Async get/set client | `src/cpp/vhal/client/src/AidlVhalClient.cpp` (AidlVhalClient::getValue/setValue, GetSetValueClient) | request-id counter, two callback maps (get, set) under `mLock`, a PendingRequestPool, the HAL; operations: issue, serialize, add, call HAL, HAL return, onGetValue/onSetValue, onTimeout, destructor | `GetSetValueClient` |
| PendingRequestPool | not in this tree (spec 4.1) | pending ids, ids handed to the timeout callback; addRequests, tryFinishRequests, timer sweep, expiry on destruction | `PendingRequestPool` (spec-modelled) |
| Exactly-once contract | spec 4.1 / 8 | issued requests, answers | `AsyncRequests` (abstract); `GetSetValueClient` refines it, proved in `GetSetValueClientRefinement` |
| Binder-death callbacks | `AidlVhalClient.cpp` 71-135, 173-198 | set of callbacks under `mLock`; add/remove/count, the death notification, destructor | `AidlVhalClientDeath` |
| WatchdogProcessService | `src/cpp/watchdog/server/src/WatchdogProcessService.h` (header only) | client maps per timeout tier, pinged clients, session ids | not yet (planned, spec 4.2/4.3) |
| IoOveruseConfigs | `src/cpp/watchdog/server/tests/IoOveruseConfigsTest.cpp` (test only) | per-component configs, merge and threshold resolution | not yet (planned, spec 4.4) |
| PrebuiltGraph | `src/computepipe/runner/graph/PrebuiltGraph.cpp` | singleton under `mCreationMutex`, atomic `mGraphState`; creation, the five phase handlers, the library's termination callback | `PrebuiltGraph` |
| LargeParcelableBase | `src/cpp/car_binder_lib/largeParcelable/include/LargeParcelableBase.h` | stateless template helpers around libbinder serialization | not modelled (see the end) |
| evs_app | `src/evs/apps/default/evs_app.cpp` | `main`: the argv scan, the help exit, the start-up steps | `EvsApp` |
| sv_service_app | see PROJECT.json | demo driver | not modelled |

How the client parts interact. `AidlVhalClient::getValue` takes
`mRequestId++` and calls `GetSetValueClient::getValue` on the caller's
thread. That call runs these steps in order:
1. It serializes the request.
2. Under `mLock` it stores the callback in `mPendingGetValueCallbacks`
   (`addGetValueRequest`) and adds the id to the pool with the get-timeout
   callback.
3. It calls `mHal->getValues`.

The callback is then invoked by whichever comes first:
- the HAL's answer on a binder thread (`onGetValues` → `onGetValue` →
  `tryFinishGetValueRequest`);
- the pool's timer sweep (`onTimeout` on the matching map);
- the destructor, which resets the pool so that it expires every pending id;
- the error branches of `getValue` itself.

## GetSetValueClient: state and actions

Variables:
- `mRequestId`;
- `pc[r]`: where the caller thread of request `r` is (idle, serialize, add,
  call, inCall, done);
- `kind[r]`: get or set;
- `unserialized`: requests whose serialization failed;
- `callbacks[k]`: the keys of the two maps;
- `pending` and `expiring`: the pool;
- `halRequests`: the requests the HAL has received;
- `results[r]`: the sequence of every invocation of r's callback;
- `alive`: FALSE once the destructor has run.

Each action below is one atomic step: code that runs under `mLock`, or code
on one thread between two lock regions.

| Action | Code |
|---|---|
| `Init` | constructor, 206-217 |
| `IssueRequest`/`GetValue`/`SetValue` | 108-118 |
| `Serialize` | 238-245 (and 271-278) |
| `AddRequest` | 290-314 |
| `CallHal` | 247-248 |
| `ReturnFromHal` | 249-254 |
| `OnResult`/`OnGetValue`/`OnSetValue` | 353-428 |
| `Expire` | the pool's sweep |
| `OnTimeout` | 441-463 |
| `Destroy` | 219-222 |

`TryFinishRequest` models `tryFinishRequest` (316-342), that is,
`tryFinishRequests` on the pool followed by the map lookup.

Data is abstracted. An answer is `value`, `error` or `try_again`. Property
ids, area ids and error texts are left out.

HAL answers are modelled as follows. The HAL receives a request only if it
was serialized. It may answer a received request any number of times, at
any time, including before `getValues` returns, and it may also never
answer. An error status from the HAL call (`CallMayFail`) and a
serialization failure (`SerializeMayFail`) are choices made by the
constants.

The destructor is assumed to run only when no caller is inside
`getValue`/`setValue` and the timer is idle. This is what
`shared_ptr<GetSetValueClient>` ownership guarantees.

## AidlVhalClientDeath: state and actions

Variables:
- `registered`: `mOnBinderDiedCallbacks`;
- `lockOwner`: who holds `mLock` (`"binder"` or `"none"`);
- `linked`: the death recipient is linked (`linkToDeath` may fail);
- `alive`: the client has not been destroyed;
- `diedPc`: where the binder thread that delivers the death notification
  is;
- `toInvoke`: the callbacks the notification's loop has not visited yet;
- `invoked`: a history of invoked callbacks;
- `calling[u]` and `arg[u]`: which method a user thread is inside, and its
  argument.

`addOnBinderDiedCallback` (120-125), `removeOnBinderDiedCallback` (127-135)
and `countOnBinderDiedCallbacks` (195-198) each take the lock and return
without calling out. Each is one step that needs `mLock` free.

`onBinderDiedWithContext` (183-188) holds `mLock` across its whole loop, so
it is split into steps:
- `OnBinderDied` takes the lock;
- `InvokeCallback` runs once per callback;
- `FinishDied` releases the lock.

A callback in the constant `Reentrant` calls back into the client from
inside the loop. It then waits on the mutex that its own thread holds
(`diedPc = "blocked"`).

`Destroy` models `~AidlVhalClient` (93-96): `unlinkToDeath`, then the object
is freed. The model assumes that a notification the binder runtime has
already dispatched still runs afterwards. Unlinking stops new
notifications, not one in flight.

The death recipient is created with `onBinderDied` alone (line 83), and
nothing calls `AIBinder_DeathRecipient_setOnUnlinked`. So
`onBinderUnlinked` and `onBinderUnlinkedWithContext` (178-181, 190-193)
never run, and the model has no action for them.

## PrebuiltGraph: state and actions

Two threads touch a `PrebuiltGraph`:
- the runner thread, which creates it and calls the phase handlers;
- the prebuilt library's own thread, which calls
  `GraphTerminationCallbackFunction` when a graph ends.

Both store to the atomic `mGraphState`. No lock covers a handler's check
of the state, its call into the library and its store.

Variables:
- `instance`: `mPrebuiltGraphInstance` (`"null"` or `"graph"`);
- `loads`: the `dlopen` handles taken, at most `MaxLoads`;
- `crashed`: a null `PrebuiltGraph*` was dereferenced;
- `graphState`: `mGraphState`;
- `engine`: `mEngineInterface` is set;
- `configured` and `termCb`: the library holds a graph config, and holds
  the termination callback;
- `lib`: what the library is doing (idle, running, flushing);
- `runner`: the runner thread between a successful library call and the
  store of `mGraphState` that follows it.

The message the callback dispatches to the engine changes no state of the
graph and is left out. (Line 367 builds it as a discarded temporary, so
the engine always receives an empty message.)

| Action | Code |
|---|---|
| `GetPrebuiltGraphFromLibrary` | 175-246: create (line 178), return if initialised, `dlopen`, `dlsym` every symbol, check the engine interface, store STOPPED |
| `HandleConfigPhase` | 53-105: `UpdateGraphConfig`, then the pixel, stream and termination callbacks, returning at the first failure |
| `HandleExecutionPhase`, `ExecutionStarted` | 108-122 (start the library), 123-126 (store RUNNING) |
| `HandleStopWithFlushPhase`, `HandleStopImmediatePhase` | 130-142, 145-157, with `StopGraphExecution`'s call (313-315) |
| `StoreStopState` | 316-320: store FLUSHING or STOPPED |
| `HandleResetPhase` | 159-173 |
| `LibraryTerminates` | the library ends a graph and calls `GraphTerminationCallbackFunction` (360-372) |

Several paths are not separate actions because they change no state:
- the early returns (`ILLEGAL_STATE`, an aborted or completed
  `RunnerEvent`, an error code from the library);
- the read-only calls (`GetStatus`, `GetErrorMessage`, `GetDebugInfo`,
  `SetInputStream*Data`);
- the output-stream callbacks.

The library is the environment. Each call into it may fail, and a graph it
runs may end at any time.

As written, line 178 creates the instance only when one already exists,
so the first call crashes and nothing else is reachable. The constant
`InvertedNullCheck` selects between two readings:
- `TRUE`: the code as written, where the first call reads `mGraphState`
  through the null instance (`crashed`) and nothing else happens;
- `FALSE`: the intended `== nullptr` test, which every other PrebuiltGraph
  run uses.

`StopGraphExecution`'s call into the library is one step. It takes the
library's contract as given: an immediate stop has ended the graph when
the call returns, and a flushing stop leaves it draining towards a
termination callback. The header does not say more than this, and
`LibraryIdleWhenStopped` and its proof rest on it.

## EvsApp: state and actions

`main` runs once, on one thread. The model keeps every branch and early
return and abstracts the data:
- `argv` is chosen in `Init` among every command line of at most `MaxArgs`
  words over a small alphabet: the six options, the numerals `0` and `5`,
  the non-number `x`, and the format words `yv12`, `RGBA8888` and `NV12`
  (two cases of known formats and one unknown format);
- `stoi` gives a numeral's value, and `StoiThrows` holds for a word with
  no leading digits, where `std::stoi` throws;
- `convertStringToFormat` compares ignoring case (`EqualsIgnoreCase`, on
  the word pairs of the alphabet that differ only in case);
- logging and the help text are left out.

An unknown word after `--extmem` is not skipped. Line 119 warns that
RGBA8888 will be used, and then the next iteration rejects the same word
as an unrecognized option, so `main` returns `EXIT_FAILURE`.
`ArgumentsReadAsDocumented` speaks only of documented command lines and
allows this.

| Action | Code |
|---|---|
| `Init` | 89-99: defaults |
| `ScanTest`, `ScanService`, `ScanHelp` | 101-108 |
| `ScanDisplay` | 109-110: `std::stoi(argv[++i])`. It dies (`pc = "aborted"`) when `--display` is the last word, because `argv[argc]` is null, or when the next word is not a number |
| `ScanExtmem` | 111-125: the format is taken, and the index moved past it, only when `convertStringToFormat` knows the word |
| `ScanUnrecognized` | 126-129 |
| `EndScan` | 100 and 131-150: the loop ends, and the help text makes `main` return `EXIT_FAILURE` |
| `LoadConfig`, `GetEvsService`, `OpenDisplay`, `GetVehicleHal` | 152-198: each failure returns 1. Test mode skips the Vehicle HAL |
| `SubscribeGear`, `SubscribeTurn` | `subscribeToVHal` (43-67) at 201-207: gear is fatal, turn signal is a warning |
| `StartUpdateLoop`, `ListenerStops` | 213-230 |

What `EvsStateControl` and `EvsVehicleListener` do inside the run loop is
in sources that are not in this tree.

## Runs

| Run | Constants | Checks | Result |
|---|---|---|---|
| `exactly_once` | 3 ids, no failures | `ContractSpec`: refinement of `AsyncRequests` (answered once, never twice, eventually) | pass, 28k states |
| `failures` | 3 ids, both failures possible | `NoOrphanedCallback`, `EveryRequestAnswered` | pass, 330k states |
| `serialize_error_twice` | 2 ids, serialization may fail | `AtMostOneCallback` | violation: `<<"error","try_again">>` |
| `call_error_twice` | 2 ids, HAL call may fail | `AtMostOneCallback` | violation: `<<"value","error">>` |
| `death_callbacks` | 2 users, 2 callbacks, none re-entrant | `InvokedOnlyWhileRegistered` (action property), `EveryCallReturns` | pass, 2.5k states |
| `death_reentrant_deadlock` | callback c1 re-enters | `EveryCallReturns` | violation: the loop blocks in c1, and a user's add waits forever |
| `death_use_after_free` | none re-entrant | `NoUseAfterFree` | violation: dispatch, destroy, then `onBinderDied` |
| `graph_lifecycle` | intended null check, 3 loads | `LibraryIdleWhenStopped` | pass, 131 states |
| `graph_flush_race` | same | `FlushCompletes` (liveness) | violation: create, config (callback registered), start, stop with flush, the library drains and stores STOPPED, then the runner stores FLUSHING |
| `graph_start_race` | same | `RunningOnlyWhileLibraryRuns` | violation: create, config, start, the graph ends at once and stores STOPPED, then the runner stores RUNNING |
| `evs_startup` | command lines of up to 3 words | `TypeOK`, `ArgumentsReadAsDocumented`, `RunningOnlyWhenReady` | pass, 9.8k states |
| `evs_display_arg` | same | `NoAbortOnAnyCommandLine` | violation: `argv = <<"--display">>` |
| `evs_extmem_fallback` | same | `UnsupportedFormatNotRejected` | violation: `argv = <<"--extmem", "0">>` |

**Bounds.** Three ids are enough for the interesting cases:
- a get and a set are in flight at the same time;
- a late answer arrives after a timeout;
- the destructor runs with one request pending, one expiring and one done.

With failures enabled, two ids are enough to show the double invocation.

For the binder-death module, two users and two callbacks are enough for
these cases:
- one user removes a callback while another adds one;
- the notification loop is between two callbacks when a call arrives.

For PrebuiltGraph, three loads in `graph_lifecycle` let a failed `dlopen`
and a failed `dlsym` both be retried before an initialisation succeeds;
two loads are enough for the races.
Every handler is open to every state, and the library may end a graph
between any two runner steps, so every interleaving of the two threads
around a store is explored.

For EvsApp, three words are enough for every pair of options and for an
option with its value followed by another option. They include:
- `--display` last, and `--display` before a word that is no number;
- `--extmem` last, before a known format in either case, and before an
  unknown word;
- repeated options, where the last one must win.

**Deadlock checking.** It is off. Request ids are bounded, so a run ends
when every caller is done and the client is destroyed. That terminal state
is intended, not a deadlock. The same holds for a destroyed
`AidlVhalClient` whose death notification has run.

It is also off for PrebuiltGraph and EvsApp:
- a graph whose initialisation failed `MaxLoads` times has no step left,
  because every phase then returns `ILLEGAL_STATE`;
- `main` has returned or the process has died, and nothing follows.

## Fairness

Each caller thread runs `getValue` to its end, so there is weak fairness
on `Serialize`, `AddRequest`, `CallHal` and `ReturnFromHal` for each id.

The pool's timer thread runs periodically and the deadline passes, so
there is weak fairness on `Expire` and `OnTimeout`.

Nothing is assumed of the HAL: it may never answer. Nothing forces
destruction either.

In the binder-death module, a thread that is inside a method runs on once
`mLock` is free, and the binder thread runs its loop. So there is weak
fairness on the three methods for each user and on `OnBinderDied`,
`InvokeCallback` and `FinishDied`. Users need not call, and the VHAL need
not die.

In PrebuiltGraph, the runner finishes a handler it is in, so there is weak
fairness on `ExecutionStarted` and `StoreStopState`. A graph that is
draining does end, so there is weak fairness on `LibraryTerminates` from
`flushing`. The runner need not call any phase, and a running graph may
run for ever.

EvsApp checks no liveness and assumes no fairness.

## Findings

Both violation runs find the same code bug in two branches: the client
callback can be invoked twice, against spec 4.1 / 8 ("exactly one").

1. **Serialization failure.** `getValue` (line 240) and `setValue`
   (line 273) call the callback with an error but do not `return`. They go
   on to add the request and call the HAL, so a timeout or a result answers
   the request again.
2. **HAL error status.** Lines 249 and 282 ignore the result of
   `tryFinish*Request` and invoke the callback anyway. If the HAL has
   already answered on a binder thread, or the request has already timed
   out, the callback runs a second time.

3. **Re-entrant deadlock** (`death_reentrant_deadlock`, line 186).
   `onBinderDiedWithContext` invokes the callbacks while it holds the
   non-recursive `mLock`. A callback that removes itself, registers another
   callback or counts them locks the mutex again on the same thread. It
   blocks, and so does every later caller. Spec 5 says callbacks are invoked
   only after the lock is released.
4. **Death notification vs destructor** (`death_use_after_free`, lines
   94 and 174). The destructor unlinks and the object is freed. A
   notification that was already dispatched then casts its cookie to the
   freed client and locks its `mLock`. `onBinderUnlinked`, which could tie
   the cookie's lifetime to unlinking, is defined but never installed on
   the death recipient (line 83).
   Spec 9 asks the death subscription to be cancel-safe against a racing
   unregistration.
5. **Flush race** (`graph_flush_race`, PrebuiltGraph.cpp line 317). The
   property `FlushCompletes` starts once the flushing stop's call into the
   library has succeeded, the library is draining and it holds the
   termination callback. No handler runs during a stop, so the callback
   cannot be registered or removed in between. The sequence is:
   1. `handleStopWithFlushPhase` checks RUNNING and calls
      `StopGraphExecution(true)`;
   2. the library drains, and its thread stores STOPPED in the
      termination callback;
   3. the runner then stores FLUSHING.

   Nothing stores STOPPED again. From then on `handleExecutionPhase` and
   `handleResetPhase` return `ILLEGAL_STATE`. In the other order, FLUSHING
   and then STOPPED, the stop ends as intended.
6. **Start race** (`graph_start_race`, line 124). `handleExecutionPhase`
   stores RUNNING after `StartGraphExecution` returns. A graph that ends
   before that store has its STOPPED overwritten. `mGraphState` then says
   RUNNING for a graph the library no longer runs. `handleExecutionPhase`
   refuses to start it again, and a later stop with flush stores FLUSHING
   for a graph that will never call back.
7. **`--display` as the last argument** (`evs_display_arg`, evs_app.cpp
   line 110). `std::stoi(argv[++i])` builds a `std::string` from
   `argv[argc]`, which is null. A non-numeric display word makes
   `std::stoi` throw, and nothing catches it. In both cases the process
   dies instead of printing the help text, which is what happens for every
   other bad argument.

## Proofs (GetSetValueClientProofs)

They hold for every `MaxRequests` in Nat \ {0} and every choice of
`SerializeMayFail` and `CallMayFail` (`ClientAssumption`).

- **`TypeCorrect`** (`Spec => []TypeOK`). It follows from the lemma
  `TypeStep`, which has one step per action. It relies on two helper
  lemmas: `DeliverType` (invoking a callback) and `TryFinishType`.
- **`NoOrphanedCallbackHolds`** (`Spec => []NoOrphanedCallback`).
  `NoOrphanedCallback` is not inductive on its own, so the proof uses the
  strengthening `IInv`. It adds these facts to `TypeOK` and
  `NoOrphanedCallback`:
  - `KindsMatch`: a callback sits in the map of its request's kind.
    `onTimeout` and `tryFinishRequest` look only there.
  - `PoolDisjoint`: an id swept by the timer is no longer pending.
    Otherwise `OnTimeout` could remove the callback of an id that is still
    pending.
  - `UnaddedUntracked`: no id is in the pool or in a map before its caller
    has run `add*Request`. `AddRequest` would otherwise break
    `PoolDisjoint`.
  - `IssuedKnown`: a started caller has fixed its kind and has an id below
    `mRequestId`. So `mRequestId++` hands out an id that is tracked nowhere.

  TLC checked `IInv` on the `failures` instance before it was proved.
  `IInvInit`, `IInvStep` and `TryFinishKeeps` prove that it is inductive.

## Proofs (AidlVhalClientDeathProofs)

They hold for every set of users and callbacks (`DeathAssumption`).

- **`TypeCorrect`**.
- **`InvokedOnlyWhileRegisteredHolds`** (`Spec => InvokedOnlyWhileRegistered`,
  an action property). The inductive invariant `IInv` adds two facts to
  `TypeOK`:
  - `LockMatchesLoop`: the binder thread owns `mLock` exactly while its loop
    runs or is stuck.
  - `LoopWithinRegistered`: while the loop runs, every callback it has yet
    to visit is registered.

  Only `InvokeCallback` grows `invoked`, and it picks a callback from
  `toInvoke`.

## Proofs (PrebuiltGraphProofs)

They hold for every `MaxLoads` in Nat and for both readings of line 178
(`GraphAssumption`).

- **`TypeCorrect`**.
- **`LibraryIdleWhenStoppedHolds`** (`Spec => []LibraryIdleWhenStopped`).
  The inductive invariant `IInv` adds two facts:
  - `UninitializedIdle`: an uninitialised graph was never started, and the
    runner is in no handler then;
  - `StopStoreIdle`: between an immediate stop's library call and its
    store of STOPPED, the library is idle.

  Only the runner starts the library, so the termination callback's
  STOPPED always comes with an idle library. A store by the runner of
  STOPPED comes only after an immediate stop has made it idle.

## Proofs (GetSetValueClientRefinement)

Both theorems assume `NoFailures`: serialization and the HAL call never
fail. The hypothesis is needed. With either failure branch, runs
`serialize_error_twice` and `call_error_twice` show a callback invoked
twice (findings 1 and 2).

- **`RefinesContractSafety`**. `Spec` implies `Contract!Init` and
  `[][Contract!Next]_Contract!vars`: the safety half of `ContractSpec`.
  The refinement mapping is:
  - `issued` maps to `issuedBar`, the callers that have left `idle`;
  - `answers` maps to `results`.

  Initial states map to the contract's initial state. `IssueRequest` is
  `Issue(mRequestId)`. The following steps are `Answer`:
  - `OnResult` after a successful `tryFinishRequest`, and `OnTimeout` on a
    stored callback, are `Answer({r})`;
  - `Destroy` is `Answer(timedOut)`, or a stutter when nothing is pending.

  Every other step is a stutter of `<<issuedBar, results>>`.

  The invariant `RInv` adds two facts to `IInv`:
  - `AtMostOneCallback`;
  - `StoredUnanswered`: a caller that has not stored its callback has no
    answer, and a stored callback is unanswered.

  With these, every invocation is the first one for its request. The
  invocation removes the callback from its map in the same step
  (`AnswerStored`, `AnswerOne`). Steps that invoke nothing are stutters
  (`QuietStep`). TLC checked `RInv` on the `exactly_once` instance (28k
  states) before it was proved.
- **`AtMostOneCallbackWithoutFailures`** (`Spec => []AtMostOneCallback`
  under `NoFailures`). It follows from the same invariant.

Only TLC checks the following:
- the liveness properties `EveryRequestAnswered`, `EveryCallReturns` and
  `FlushCompletes`, and the fairness half of `ContractSpec` (every issued
  request is eventually answered). TLAPS does not handle liveness under
  fairness or ENABLED here;
- the safety properties of `EvsApp`. Its reference reading of the
  command line uses `SeqOf` and `FlattenSeq`, which enumerate sequences;
- the seven violations. A proof cannot show that a bad state is reached.

## Not modelled yet, and the plan

In order:
1. WatchdogProcessService heartbeat registry and rounds: from the header
   and spec 4.2/4.3, reusing `PendingRequestPool`.
2. IoOveruseConfigs update/merge and threshold resolution: from spec 4.4,
   checked against the unit test.

Not modelled, by choice:
- The property-config queries of AidlVhalClient are stateless conversions.
- The helpers of `LargeParcelableBase.h` hold no state. Each one converts
  a parcelable to or from a `StableLargeParcelable` in one call. What they
  do with the data is libbinder's and ashmem's serialization, and
  `writeToParcel`, `readFromParcel` and the memory-file helpers are
  defined in a `.cpp` that is not in this tree. A model would have to
  assume the round trip it claims to check.
- `sv_service_app` is a sequential demo driver of surround-view sessions.
