-------------------------------- MODULE EvsApp --------------------------------
(***************************************************************************)
(* The start-up of the default EVS application                             *)
(* (src/evs/apps/default/evs_app.cpp): main scans its command line in one *)
(* loop, prints the help text and fails if it was asked to, then acquires *)
(* the configuration, the EVS enumerator, the display and (unless in test *)
(* mode) the Vehicle HAL and its subscriptions, one after the other, each *)
(* failure but the turn-signal subscription ending the process.           *)
(*                                                                         *)
(* The command line is chosen in Init among all those of at most MaxArgs  *)
(* words over a small alphabet: the options, display numbers, a word that *)
(* is no number, and format names in two cases.  Each service call is an *)
(* input that succeeds or fails.  Logging and printing are left out.      *)
(***************************************************************************)
EXTENDS Integers, Sequences, SequencesExt

CONSTANT MaxArgs   \* bound on argc - 1

ASSUME EvsAppAssumption == MaxArgs \in Nat

(* The words a command line is made of.                                    *)
Options == {"--test", "--hw", "--mock", "--help", "--display", "--extmem"}
Numerals == {"0", "5"}
Words == Options \cup Numerals \cup {"x", "yv12", "RGBA8888", "NV12"}

(* android_pixel_format_t values the application can select.               *)
HAL_PIXEL_FORMAT_RGBA_8888 == "RGBA_8888"
HAL_PIXEL_FORMAT_YV12 == "YV12"
HAL_PIXEL_FORMAT_YCrCb_420_SP == "YCrCb_420_SP"
HAL_PIXEL_FORMAT_YCBCR_422_I == "YCBCR_422_I"

(* Where main is: scanning argv, at one of the start-up steps, in the      *)
(* listener's run loop, returned, or killed by std::terminate or a null   *)
(* dereference.                                                            *)
Steps == {"scan", "config", "evs", "display", "vhal", "gear", "turn",
          "control", "running", "exited", "aborted"}
EXIT_FAILURE == 1
NoDisplay == -1

(* The words two of which differ only in letter case (EqualsIgnoreCase).   *)
CaseVariants == {<<"yv12", "YV12">>, <<"RGBA8888", "rgba8888">>}

EqualsIgnoreCase(a, b) == a = b \/ <<a, b>> \in CaseVariants

(* convertStringToFormat: the format a word names, ignoring case, or       *)
(* "unknown" where the C++ returns false and leaves *output alone.         *)
convertStringToFormat(str) ==
  CASE EqualsIgnoreCase(str, "RGBA8888") -> HAL_PIXEL_FORMAT_RGBA_8888
    [] EqualsIgnoreCase(str, "YV12")     -> HAL_PIXEL_FORMAT_YV12
    [] EqualsIgnoreCase(str, "NV21")     -> HAL_PIXEL_FORMAT_YCrCb_420_SP
    [] EqualsIgnoreCase(str, "YUYV")     -> HAL_PIXEL_FORMAT_YCBCR_422_I
    [] OTHER                             -> "unknown"

(* std::stoi on a word: a word that is no numeral has no leading digits   *)
(* and throws std::invalid_argument; a numeral gives its value.           *)
StoiThrows(str) == str \notin Numerals
stoi(str) == IF str = "0" THEN 0 ELSE 5

VARIABLES
  argv,               \* argv[1..argc-1]
  i,                  \* the loop index
  useVehicleHal, printHelp, evsServiceName, displayId, useExternalMemory,
  extMemoryFormat,    \* main's locals set by the scan
  pc,                 \* where main is
  exitCode,           \* main's return value, once it has returned
  display,            \* the display openDisplay_1_1 opened
  subscribed          \* the VHAL properties subscribed to

vars == <<argv, i, useVehicleHal, printHelp, evsServiceName, displayId,
          useExternalMemory, extMemoryFormat, pc, exitCode,
          display, subscribed>>

scanVars == <<useVehicleHal, printHelp, evsServiceName, displayId,
              useExternalMemory, extMemoryFormat>>
startVars == <<exitCode, display, subscribed>>

(* One iteration of the loop, per branch of its if-else chain.             *)
Scanning(word) == pc = "scan" /\ i <= Len(argv) /\ argv[i] = word

(* A step that makes main return code c.                                   *)
Exit(c) == pc' = "exited" /\ exitCode' = c

-----------------------------------------------------------------------------
(* Plausible bugs, each the mutant of one definition below.                *)

(* A failed GEAR_SELECTION subscription only warned about, like the       *)
(* turn-signal one.                                                        *)
SubscribeGearNonFatal(ok) ==
  /\ pc = "gear"
  /\ subscribed' = IF ok THEN subscribed \cup {"GEAR_SELECTION"} ELSE subscribed
  /\ pc' = "turn"
  /\ UNCHANGED <<argv, i, scanVars, exitCode, display>>

(* --extmem with a known format that forgets to move the index past it.   *)
ScanExtmemNoAdvance ==
  /\ Scanning("--extmem")
  /\ useExternalMemory' = TRUE
  /\ IF i + 1 > Len(argv) \/ convertStringToFormat(argv[i + 1]) = "unknown"
       THEN UNCHANGED extMemoryFormat
       ELSE extMemoryFormat' = convertStringToFormat(argv[i + 1])
  /\ i' = i + 1
  /\ UNCHANGED <<argv, useVehicleHal, printHelp, evsServiceName, displayId,
                 pc, startVars>>

(* --extmem keeping the format word itself instead of the pixel format   *)
(* convertStringToFormat returns for it.                                   *)
ScanExtmemUnconverted ==
  /\ Scanning("--extmem")
  /\ useExternalMemory' = TRUE
  /\ IF i + 1 > Len(argv) \/ convertStringToFormat(argv[i + 1]) = "unknown"
       THEN UNCHANGED extMemoryFormat /\ i' = i + 1
       ELSE extMemoryFormat' = argv[i + 1] /\ i' = i + 2
  /\ UNCHANGED <<argv, useVehicleHal, printHelp, evsServiceName, displayId,
                 pc, startVars>>

-----------------------------------------------------------------------------
(* main's defaults, before the loop.                                       *)
Init ==
  /\ argv \in SeqOf(Words, MaxArgs)
  /\ i = 1
  /\ useVehicleHal = TRUE
  /\ printHelp = FALSE
  /\ evsServiceName = "default"
  /\ displayId = 1
  /\ useExternalMemory = FALSE
  /\ extMemoryFormat = HAL_PIXEL_FORMAT_RGBA_8888
  /\ pc = "scan"
  /\ exitCode = 0
  /\ display = NoDisplay
  /\ subscribed = {}

ScanTest ==
  /\ Scanning("--test")
  /\ useVehicleHal' = FALSE
  /\ i' = i + 1
  /\ UNCHANGED <<argv, printHelp, evsServiceName, displayId, useExternalMemory,
                 extMemoryFormat, pc, startVars>>

ServiceNames == [w \in {"--hw", "--mock"} |->
                   IF w = "--hw" THEN "EvsEnumeratorHw" ELSE "EvsEnumeratorHw-Mock"]

ScanService ==
  /\ \E w \in DOMAIN ServiceNames :
       Scanning(w) /\ evsServiceName' = ServiceNames[w]
  /\ i' = i + 1
  /\ UNCHANGED <<argv, useVehicleHal, printHelp, displayId, useExternalMemory,
                 extMemoryFormat, pc, startVars>>

ScanHelp ==
  /\ Scanning("--help")
  /\ printHelp' = TRUE
  /\ i' = i + 1
  /\ UNCHANGED <<argv, useVehicleHal, evsServiceName, displayId,
                 useExternalMemory, extMemoryFormat, pc,
                 startVars>>

(* displayId = std::stoi(argv[++i]): when "--display" is the last word,    *)
(* argv[argc] is the null pointer, and building the std::string argument  *)
(* from it dereferences null; a word that is no number makes stoi throw,  *)
(* and nothing catches it.  Either way the process dies.                   *)
ScanDisplay ==
  /\ Scanning("--display")
  /\ IF i + 1 > Len(argv) \/ StoiThrows(argv[i + 1])
       THEN pc' = "aborted" /\ UNCHANGED <<i, displayId>>
       ELSE displayId' = stoi(argv[i + 1]) /\ i' = i + 2 /\ UNCHANGED pc
  /\ UNCHANGED <<argv, useVehicleHal, printHelp, evsServiceName,
                 useExternalMemory, extMemoryFormat,
                 startVars>>

(* --extmem takes the next word as its format only when                    *)
(* convertStringToFormat knows it; otherwise it warns that RGBA8888 will  *)
(* be used and leaves that word to the next iteration.                     *)
ScanExtmem ==
  /\ Scanning("--extmem")
  /\ useExternalMemory' = TRUE
  /\ IF i + 1 > Len(argv) \/ convertStringToFormat(argv[i + 1]) = "unknown"
       THEN UNCHANGED extMemoryFormat /\ i' = i + 1
       ELSE extMemoryFormat' = convertStringToFormat(argv[i + 1]) /\ i' = i + 2
  /\ UNCHANGED <<argv, useVehicleHal, printHelp, evsServiceName, displayId,
                 pc, startVars>>

ScanUnrecognized ==
  /\ pc = "scan"
  /\ i <= Len(argv)
  /\ argv[i] \notin Options
  /\ printHelp' = TRUE
  /\ i' = i + 1
  /\ UNCHANGED <<argv, useVehicleHal, evsServiceName, displayId,
                 useExternalMemory, extMemoryFormat, pc, startVars>>

(* The loop ends; main prints the help text and returns EXIT_FAILURE if   *)
(* it was asked to.                                                        *)
EndScan ==
  /\ pc = "scan"
  /\ i > Len(argv)
  /\ IF printHelp THEN Exit(EXIT_FAILURE) ELSE pc' = "config" /\ UNCHANGED exitCode
  /\ UNCHANGED <<argv, i, scanVars, display, subscribed>>

(* A start-up step at pc that goes on to next, or returns 1 on failure.   *)
StartStep(at, ok, next) ==
  /\ pc = at
  /\ IF ok THEN pc' = next /\ UNCHANGED exitCode ELSE Exit(1)

(* config.initialize, then IEvsEnumerator::getService(evsServiceName).     *)
LoadConfig(ok) ==
  /\ StartStep("config", ok, "evs")
  /\ UNCHANGED <<argv, i, scanVars, display, subscribed>>

GetEvsService(ok) ==
  /\ StartStep("evs", ok, "display")
  /\ UNCHANGED <<argv, i, scanVars, display, subscribed>>

(* openDisplay_1_1(displayId); the config then records the display and    *)
(* the external-memory settings.  Test mode skips the Vehicle HAL.        *)
OpenDisplay(ok) ==
  /\ StartStep("display", ok, IF useVehicleHal THEN "vhal" ELSE "control")
  /\ display' = IF ok THEN displayId ELSE display
  /\ UNCHANGED <<argv, i, scanVars, subscribed>>

GetVehicleHal(ok) ==
  /\ StartStep("vhal", ok, "gear")
  /\ UNCHANGED <<argv, i, scanVars, display, subscribed>>

(* subscribeToVHal(GEAR_SELECTION): without gear notifications the app    *)
(* cannot support EVS and exits.                                           *)
SubscribeGear(ok) ==
  /\ StartStep("gear", ok, "turn")
  /\ subscribed' = IF ok THEN subscribed \cup {"GEAR_SELECTION"} ELSE subscribed
  /\ UNCHANGED <<argv, i, scanVars, display>>

(* subscribeToVHal(TURN_SIGNAL_STATE): a failure is only a warning.       *)
SubscribeTurn(ok) ==
  /\ pc = "turn"
  /\ subscribed' = IF ok THEN subscribed \cup {"TURN_SIGNAL_STATE"} ELSE subscribed
  /\ pc' = "control"
  /\ UNCHANGED <<argv, i, scanVars, exitCode, display>>

(* EvsStateControl::startUpdateLoop, then the listener's run loop.         *)
StartUpdateLoop(ok) ==
  /\ StartStep("control", ok, "running")
  /\ UNCHANGED <<argv, i, scanVars, display, subscribed>>

(* The listener's run() returns (its service name was taken): return 0.    *)
ListenerStops ==
  /\ pc = "running"
  /\ Exit(0)
  /\ UNCHANGED <<argv, i, scanVars, display, subscribed>>

Next ==
  \/ ScanTest \/ ScanService \/ ScanHelp \/ ScanDisplay \/ ScanExtmem
  \/ ScanUnrecognized \/ EndScan
  \/ \E ok \in BOOLEAN :
       \/ LoadConfig(ok) \/ GetEvsService(ok) \/ OpenDisplay(ok)
       \/ GetVehicleHal(ok) \/ SubscribeGear(ok) \/ SubscribeTurn(ok)
       \/ StartUpdateLoop(ok)
  \/ ListenerStops

Spec == Init /\ [][Next]_vars

-----------------------------------------------------------------------------
TypeOK ==
  /\ argv \in SeqOf(Words, MaxArgs)
  /\ i \in 1..MaxArgs + 2
  /\ useVehicleHal \in BOOLEAN /\ printHelp \in BOOLEAN
  /\ useExternalMemory \in BOOLEAN
  /\ evsServiceName \in {"default"} \cup {ServiceNames[w] : w \in DOMAIN ServiceNames}
  /\ displayId \in {1, 0, 5}
  /\ extMemoryFormat \in {HAL_PIXEL_FORMAT_RGBA_8888, HAL_PIXEL_FORMAT_YV12,
                          HAL_PIXEL_FORMAT_YCrCb_420_SP, HAL_PIXEL_FORMAT_YCBCR_422_I}
  /\ pc \in Steps
  /\ exitCode \in {0, 1}
  /\ display \in {NoDisplay, 1, 0, 5}
  /\ subscribed \subseteq {"GEAR_SELECTION", "TURN_SIGNAL_STATE"}

(* The command-line grammar the help text documents (lines 132-147): the  *)
(* words --test, --hw and --mock; --display and a display number;         *)
(* --extmem, alone or followed by one of the format names it lists, in    *)
(* any letter case.                                                        *)
DocumentedFormats == {"RGBA8888", "YV12", "NV21", "YUYV"}
FormatWords ==
  {w \in Words : \E d \in DocumentedFormats : EqualsIgnoreCase(w, d)}
Groups ==
  {<<"--test">>, <<"--hw">>, <<"--mock">>, <<"--extmem">>}
    \cup {<<"--display", n>> : n \in Numerals}
    \cup {<<"--extmem", f>> : f \in FormatWords}

(* The ways of reading args as a sequence of documented groups.            *)
Readings(args) ==
  {p \in SeqOf(Groups, Len(args)) : FlattenSeq(p) = args}

(* What a reading asks for: the last --display and the last --extmem with *)
(* a format win, --hw and --mock name the service, --test turns off the   *)
(* Vehicle HAL.                                                            *)
LastOf(p, heads) == SelectLastInSeq(p, LAMBDA g : g[1] \in heads)
AskedService(p) ==
  IF LastOf(p, DOMAIN ServiceNames) = 0 THEN "default"
  ELSE ServiceNames[p[LastOf(p, DOMAIN ServiceNames)][1]]
AskedDisplay(p) ==
  IF LastOf(p, {"--display"}) = 0 THEN 1 ELSE stoi(p[LastOf(p, {"--display"})][2])
AskedFormat(p) ==
  LET k == SelectLastInSeq(p, LAMBDA g : g[1] = "--extmem" /\ Len(g) = 2)
  IN IF k = 0 THEN HAL_PIXEL_FORMAT_RGBA_8888 ELSE convertStringToFormat(p[k][2])

(* A command line written as the help text documents it is accepted by    *)
(* main's scan of argv (lines 100-130), with no help printed and no crash, *)
(* and leaves exactly the settings it asks for: the scan's index          *)
(* arithmetic (++i inside the loop for --display and for a known          *)
(* --extmem format) never skips or rereads a word.                         *)
ArgumentsReadAsDocumented ==
  pc # "scan" =>
    \A p \in Readings(argv) :
      /\ pc # "aborted"
      /\ ~printHelp
      /\ useVehicleHal = ~(\E k \in DOMAIN p : p[k] = <<"--test">>)
      /\ evsServiceName = AskedService(p)
      /\ displayId = AskedDisplay(p)
      /\ useExternalMemory = (\E k \in DOMAIN p : p[k][1] = "--extmem")
      /\ extMemoryFormat = AskedFormat(p)

(* main enters the listener's run loop only with the display it opened    *)
(* and, unless in test mode, with gear-selection notifications subscribed *)
(* (lines 181-204): EVS cannot react to reverse gear without them.        *)
RunningOnlyWhenReady ==
  pc = "running" =>
    /\ display = displayId
    /\ (useVehicleHal <=> "GEAR_SELECTION" \in subscribed)

(* main never dies on its command line: a bad argument is reported with    *)
(* the help text (lines 126-150), never by a crash.                        *)
NoAbortOnAnyCommandLine == pc # "aborted"

====
