--------------------------- MODULE SpinherdProofs ---------------------------
(***************************************************************************)
(* Safety of one process of the program, for any herds, disks, command     *)
(* line, number of failures and of crashes: the invariant of each part     *)
(* (DaemonProofs, DiskCommandsProofs, and here Install and Config) and     *)
(* what ties the parts together.                                           *)
(***************************************************************************)
EXTENDS Spinherd, DaemonProofs, DiskCommandsProofs, TLAPS

-----------------------------------------------------------------------------
(* system-install.                                                         *)

InstallTypeOK ==
  /\ dir \in [Files -> Contents] /\ unsynced \subseteq Files
  /\ survivors \subseteq [Files -> Contents] /\ dir \in survivors

\* What is in place when the command is at a step, whatever was there before.
StepsDone ==
  /\ pc \in {"sync", "rename"} => dir["bin.tmp"] = "new"
  /\ pc = "rename" => "bin.tmp" \notin unsynced
  /\ pc \in {"unit", "rename unit", "completed", "canceled"} \cup Systemctl =>
       dir["bin"] = "new"
  /\ pc = "rename unit" => dir["unit.tmp"] = "new"
  /\ pc \in {"completed", "canceled"} \cup Systemctl => dir["unit"] = "new"
  /\ pc \in {"enable", "restart", "completed"} => loaded = "new"
  /\ pc \in {"restart", "completed"} => dir["wants"] = "new"
  /\ pc = "completed" => running = "new"
  /\ pc = "canceled" => interrupted

\* The binary under its name is always whole on the disk; a unit that is not
\* is there at least.
BinarySynced == "bin" \notin unsynced /\ ("unit" \in unsynced => dir["unit"] # "absent")

InstallInv == InstallTypeOK /\ StepsDone /\ BinarySynced /\ ServiceHasBinary

\* A change that leaves the binary whole, and no unit without it, leaves no
\* directory a crash could make of it that is worse.
LEMMA SafeChange ==
  ASSUME InstallTypeOK, ServiceHasBinary, BinarySynced',
         dir' \in [Files -> Contents], unsynced' \subseteq Files,
         dir'["bin"] # "torn" /\ (dir'["unit"] # "absent" => dir'["bin"] # "absent"),
         \/ survivors' = Survivors(dir', unsynced')
         \/ survivors' = survivors \cup Survivors(dir', unsynced')
  PROVE  InstallTypeOK' /\ ServiceHasBinary'
<1>1. ASSUME NEW e \in Survivors(dir', unsynced')
      PROVE  e["bin"] # "torn" /\ (e["unit"] # "absent" => e["bin"] # "absent")
  BY <1>1 DEF Survivors, Files, BinarySynced
<1>2. ServiceHasBinary'
  BY <1>1 DEF ServiceHasBinary
<1>3. dir' \in Survivors(dir', unsynced') /\ Survivors(dir', unsynced') \subseteq [Files -> Contents]
  BY DEF Survivors
<1>. QED BY <1>2, <1>3 DEF InstallTypeOK

LEMMA InstallStart == InstallInit => InstallInv
<1> SUFFICES ASSUME InstallInit PROVE InstallInv
  OBVIOUS
<1>1. PICK old \in {"absent", "old"} :
        dir = [n \in Files |-> IF n \in {"bin.tmp", "unit.tmp"} THEN "absent" ELSE old]
  BY DEF InstallInit
<1>2. InstallTypeOK
  BY <1>1 DEF InstallInit, InstallTypeOK, Contents
<1>3. dir["bin"] = old /\ dir["unit"] = old
  BY <1>1 DEF Files
<1>. QED
  BY <1>2, <1>3
  DEF InstallInit, InstallInv, StepsDone, BinarySynced, ServiceHasBinary, Systemctl

\* The copy replaces the binary by one rename, of a file that is on the disk.
LEMMA CopyKeeps ==
  ASSUME InstallInv, OpenTemp \/ Copy \/ Sync \/ Rename \/ SkipCopy
  PROVE  InstallInv'
<1> USE DEF InstallInv, StepsDone, BinarySynced, At, Failing, systemd, Systemctl
<1>1. /\ dir["bin"] # "torn" /\ (dir["unit"] # "absent" => dir["bin"] # "absent")
      /\ dir \in [Files -> Contents] /\ unsynced \subseteq Files
      /\ {"bin", "bin.tmp", "unit", "unit.tmp", "wants"} = Files
      /\ {"absent", "old", "torn", "new"} = Contents
  BY DEF InstallTypeOK, ServiceHasBinary, Files, Contents
<1>2. CASE OpenTemp
  <2>1. dir' = [dir EXCEPT !["bin.tmp"] = "torn"]
    BY <1>2 DEF OpenTemp, Change
  <2>2. unsynced' = unsynced \cup {"bin.tmp"}
    BY <1>2 DEF OpenTemp, Change
  <2>3. BinarySynced' /\ StepsDone' /\ dir' \in [Files -> Contents] /\ unsynced' \subseteq Files
    BY <1>1, <1>2, <2>1, <2>2 DEF OpenTemp
  <2>4. dir'["bin"] # "torn" /\ (dir'["unit"] # "absent" => dir'["bin"] # "absent")
    BY <1>1, <2>1, <1>2 DEF OpenTemp
  <2>. QED BY <1>2, <2>3, <2>4, SafeChange DEF OpenTemp, Change
<1>3. CASE Copy
  <2>1. dir' = [dir EXCEPT !["bin.tmp"] = "new"]
    BY <1>3 DEF Copy, Change
  <2>2. unsynced' = unsynced
    BY <1>3 DEF Copy, Change
  <2>3. BinarySynced' /\ StepsDone' /\ dir' \in [Files -> Contents] /\ unsynced' \subseteq Files
    BY <1>1, <1>3, <2>1, <2>2 DEF Copy
  <2>4. dir'["bin"] # "torn" /\ (dir'["unit"] # "absent" => dir'["bin"] # "absent")
    BY <1>1, <2>1, <1>3 DEF Copy
  <2>. QED BY <1>3, <2>3, <2>4, SafeChange DEF Copy, Change
<1>4. CASE Sync
  <2>1. dir' = dir
    BY <1>4 DEF Sync
  <2>2. unsynced' = unsynced \ {"bin.tmp"}
    BY <1>4 DEF Sync
  <2>3. BinarySynced' /\ StepsDone' /\ dir' \in [Files -> Contents] /\ unsynced' \subseteq Files
    BY <1>1, <1>4, <2>1, <2>2 DEF Sync
  <2>4. dir'["bin"] # "torn" /\ (dir'["unit"] # "absent" => dir'["bin"] # "absent")
    BY <1>1, <2>1, <1>4 DEF Sync
  <2>. QED BY <1>4, <2>3, <2>4, SafeChange DEF Sync
<1>5. CASE Rename
  <2>1. dir' = [dir EXCEPT !["bin"] = "new", !["bin.tmp"] = "absent"]
    BY <1>5 DEF Rename, Renamed, Change
  <2>2. unsynced' = unsynced \ {"bin.tmp", "bin"}
    BY <1>5 DEF Rename, Renamed, Change
  <2>3. BinarySynced' /\ StepsDone' /\ dir' \in [Files -> Contents] /\ unsynced' \subseteq Files
    BY <1>1, <1>5, <2>1, <2>2 DEF Rename
  <2>4. dir'["bin"] # "torn" /\ (dir'["unit"] # "absent" => dir'["bin"] # "absent")
    BY <1>1, <2>1, <1>5 DEF Rename
  <2>. QED BY <1>5, <2>3, <2>4, SafeChange DEF Rename, Renamed, Change
<1>6. CASE SkipCopy
  BY <1>6 DEF SkipCopy, files, InstallTypeOK, ServiceHasBinary
<1>. QED BY <1>2, <1>3, <1>4, <1>5, <1>6

\* The unit, too, only changes by a rename.
LEMMA UnitKeeps ==
  ASSUME InstallInv, WriteUnit \/ RenameUnit \/ DaemonReload \/ Enable \/ Restart \/ Canceled
  PROVE  InstallInv'
<1> USE DEF InstallInv, StepsDone, BinarySynced, At, Failing, systemd, Systemctl
<1>1. /\ dir["bin"] # "torn" /\ (dir["unit"] # "absent" => dir["bin"] # "absent")
      /\ dir \in [Files -> Contents] /\ unsynced \subseteq Files
      /\ {"bin", "bin.tmp", "unit", "unit.tmp", "wants"} = Files
      /\ {"absent", "old", "torn", "new"} = Contents
  BY DEF InstallTypeOK, ServiceHasBinary, Files, Contents
<1>2. CASE WriteUnit
  <2>1. dir' = [dir EXCEPT !["unit.tmp"] = "new"]
    BY <1>2 DEF WriteUnit, Change
  <2>2. unsynced' = unsynced \cup {"unit.tmp"}
    BY <1>2 DEF WriteUnit, Change
  <2>3. BinarySynced' /\ StepsDone' /\ dir' \in [Files -> Contents] /\ unsynced' \subseteq Files
    BY <1>1, <1>2, <2>1, <2>2 DEF WriteUnit
  <2>4. dir'["bin"] # "torn" /\ (dir'["unit"] # "absent" => dir'["bin"] # "absent")
    BY <1>1, <2>1, <1>2 DEF WriteUnit
  <2>. QED BY <1>2, <2>3, <2>4, SafeChange DEF WriteUnit, Change
<1>3. CASE RenameUnit
  <2>1. dir' = [dir EXCEPT !["unit"] = "new", !["unit.tmp"] = "absent"]
    BY <1>3 DEF RenameUnit, Renamed, Change
  <2>2. unsynced' = (unsynced \ {"unit.tmp", "unit"}) \cup {n \in {"unit"} : "unit.tmp" \in unsynced}
    BY <1>3 DEF RenameUnit, Renamed, Change
  <2>3. BinarySynced' /\ StepsDone' /\ dir' \in [Files -> Contents] /\ unsynced' \subseteq Files
    BY <1>1, <1>3, <2>1, <2>2 DEF RenameUnit
  <2>4. dir'["bin"] # "torn" /\ (dir'["unit"] # "absent" => dir'["bin"] # "absent")
    BY <1>1, <2>1, <1>3 DEF RenameUnit
  <2>. QED BY <1>3, <2>3, <2>4, SafeChange DEF RenameUnit, Renamed, Change
<1>4. CASE DaemonReload \/ Restart \/ Canceled
  BY <1>4
     DEF DaemonReload, Restart, Canceled, Calling, Reloads, Restarts, files, InstallTypeOK,
         ServiceHasBinary
<1>5. CASE Enable
  <2>1. dir' = [dir EXCEPT !["wants"] = "new"]
    BY <1>5 DEF Enable, Enables, Change
  <2>2. unsynced' = unsynced
    BY <1>5 DEF Enable, Enables, Change
  <2>3. BinarySynced' /\ StepsDone' /\ dir' \in [Files -> Contents] /\ unsynced' \subseteq Files
    BY <1>1, <1>5, <2>1, <2>2 DEF Enable, Calling, Enables
  <2>4. dir'["bin"] # "torn" /\ (dir'["unit"] # "absent" => dir'["bin"] # "absent")
    BY <1>1, <2>1, <1>5 DEF Enable, Enables
  <2>. QED BY <1>5, <2>3, <2>4, SafeChange DEF Enable, Enables, Change
<1>. QED BY <1>2, <1>3, <1>4, <1>5

\* A step that fails removes at most a temporary file; a crash leaves one of the
\* survivors, and none of them is broken.
LEMMA TroubleKeeps ==
  ASSUME InstallInv, StepsFail \/ Again \/ WriteBack \/ Crash
  PROVE  InstallInv'
<1> USE DEF InstallInv, StepsDone, BinarySynced, At, Failing, systemd, Systemctl
<1>1. /\ dir["bin"] # "torn" /\ (dir["unit"] # "absent" => dir["bin"] # "absent")
      /\ dir \in [Files -> Contents] /\ unsynced \subseteq Files
      /\ {"bin", "bin.tmp", "unit", "unit.tmp", "wants"} = Files
      /\ {"absent", "old", "torn", "new"} = Contents
  BY DEF InstallTypeOK, ServiceHasBinary, Files, Contents
<1>2. CASE CopyFails
  <2>1. dir' = [dir EXCEPT !["bin.tmp"] = "absent"]
    BY <1>2 DEF CopyFails, Change
  <2>2. unsynced' = unsynced \ {"bin.tmp"}
    BY <1>2 DEF CopyFails, Change
  <2>3. BinarySynced' /\ StepsDone' /\ dir' \in [Files -> Contents] /\ unsynced' \subseteq Files
    BY <1>1, <1>2, <2>1, <2>2 DEF CopyFails
  <2>4. dir'["bin"] # "torn" /\ (dir'["unit"] # "absent" => dir'["bin"] # "absent")
    BY <1>1, <2>1, <1>2 DEF CopyFails
  <2>. QED BY <1>2, <2>3, <2>4, SafeChange DEF CopyFails, Change
<1>3. CASE WriteUnitFails
  <2>1. PICK half \in {"torn", "absent"} : Change([dir EXCEPT !["unit.tmp"] = half], unsynced)
    BY <1>3 DEF WriteUnitFails
  <2>2. dir' = [dir EXCEPT !["unit.tmp"] = half]
    BY <2>1 DEF Change
  <2>3. unsynced' = unsynced
    BY <2>1 DEF Change
  <2>4. BinarySynced' /\ StepsDone' /\ dir' \in [Files -> Contents] /\ unsynced' \subseteq Files
    BY <1>1, <1>3, <2>2, <2>3 DEF WriteUnitFails
  <2>5. dir'["bin"] # "torn" /\ (dir'["unit"] # "absent" => dir'["bin"] # "absent")
    BY <1>1, <2>2, <1>3 DEF WriteUnitFails
  <2>. QED BY <2>4, <2>5, <2>1, SafeChange DEF Change
<1>4. CASE RenameUnitFails
  <2>1. dir' = [dir EXCEPT !["unit.tmp"] = "absent"]
    BY <1>4 DEF RenameUnitFails, Change
  <2>2. unsynced' = unsynced \ {"unit.tmp"}
    BY <1>4 DEF RenameUnitFails, Change
  <2>3. BinarySynced' /\ StepsDone' /\ dir' \in [Files -> Contents] /\ unsynced' \subseteq Files
    BY <1>1, <1>4, <2>1, <2>2 DEF RenameUnitFails
  <2>4. dir'["bin"] # "torn" /\ (dir'["unit"] # "absent" => dir'["bin"] # "absent")
    BY <1>1, <2>1, <1>4 DEF RenameUnitFails
  <2>. QED BY <1>4, <2>3, <2>4, SafeChange DEF RenameUnitFails, Change
<1>5. CASE StepFails \/ Again
  BY <1>5 DEF StepFails, Again, files, InstallTypeOK, ServiceHasBinary
<1>6. CASE WriteBack
  BY <1>6 DEF WriteBack, InstallTypeOK, ServiceHasBinary
<1>7. CASE Crash
  BY <1>7 DEF Crash, InstallTypeOK, ServiceHasBinary
<1>8. CASE Interrupt
  BY <1>8 DEF Interrupt, Interrupts, files, InstallTypeOK, ServiceHasBinary
<1>9. CASE CutShort
  <2>1. pc \in Systemctl /\ pc' \in {"failed", "canceled"} /\ interrupted'
    BY <1>9 DEF CutShort, Interrupts
  <2>2. CASE Enables
    <3>1. dir' = [dir EXCEPT !["wants"] = "new"] /\ unsynced' = unsynced
      BY <2>2 DEF Enables, Change
    <3>2. BinarySynced' /\ StepsDone' /\ dir' \in [Files -> Contents] /\ unsynced' \subseteq Files
      BY <1>1, <2>1, <3>1
    <3>3. dir'["bin"] # "torn" /\ (dir'["unit"] # "absent" => dir'["bin"] # "absent")
      BY <1>1, <3>1
    <3>. QED BY <2>2, <3>2, <3>3, SafeChange DEF Enables, Change
  <2>3. CASE Reloads \/ Restarts \/ UNCHANGED <<files, systemd>>
    BY <2>1, <2>3 DEF Reloads, Restarts, files, InstallTypeOK, ServiceHasBinary
  <2>. QED BY <1>9, <2>2, <2>3 DEF CutShort
<1>. QED BY <1>2, <1>3, <1>4, <1>5, <1>6, <1>7, <1>8, <1>9 DEF StepsFail

LEMMA InstallKeeps == InstallInv /\ [InstallNext]_installVars => InstallInv'
<1> SUFFICES ASSUME InstallInv, [InstallNext]_installVars PROVE InstallInv'
  OBVIOUS
<1>1. CASE UNCHANGED installVars
  BY <1>1
     DEF installVars, files, systemd, InstallInv, InstallTypeOK, StepsDone, BinarySynced,
         ServiceHasBinary
<1>. QED BY <1>1, CopyKeeps, UnitKeeps, TroubleKeeps DEF InstallNext, InstallSteps
-----------------------------------------------------------------------------
(* The command line.                                                       *)

\* A value that fits its width does not wrap.
LEMMA ProductFits ==
  ASSUME NEW count \in Counts, NEW unit \in Units
  PROVE  /\ count * unit \in Nat /\ Product(count, unit) \in Int
         /\ count * unit <= MaxDuration => Product(count, unit) = count * unit
<1>1. count \in Nat /\ unit \in Nat /\ MaxDuration \in Nat
  BY WidthAssumption, UnitsAssumption
<1>2. count * unit \in Nat
  BY <1>1
<1>3. ASSUME NEW p \in Nat
      PROVE  LET value == ((p + MaxDuration + 1) % (2 * (MaxDuration + 1))) - (MaxDuration + 1)
             IN  value \in Int /\ (p <= MaxDuration => value = p)
  BY ONLY <1>1, <1>3
<1>. QED BY <1>2, <1>3 DEF Product

\* As long as nothing was ignored, the parser has what is on the command line.
ReadAsWritten ==
  words # "ignoring" =>
    /\ lists = written
    /\ \A flag \in DurationFlags : meant[flag] <= MaxDuration => cfg[flag] = meant[flag]

ConfigInv ==
  /\ cfg \in [DurationFlags -> Int] /\ meant \in [DurationFlags -> Nat]
  /\ ReadAsWritten

LEMMA DefaultDurations == Default \in [DurationFlags -> Nat]
BY DefaultAssumption, WidthAssumption

LEMMA ConfigStart == ConfigInit => ConfigInv
BY DefaultDurations DEF ConfigInit, ConfigInv, ReadAsWritten

LEMMA ConfigKeeps == ConfigInv /\ [ConfigNext]_configVars => ConfigInv'
<1> SUFFICES ASSUME ConfigInv, [ConfigNext]_configVars PROVE ConfigInv'
  OBVIOUS
<1> USE DEF ConfigInv, ReadAsWritten, user
<1>1. CASE UNCHANGED configVars
  BY <1>1 DEF configVars
<1>2. CASE Check \/ StrayWord
  BY <1>2 DEF Check, StrayWord
<1>3. CASE Ignored
  <2>1. words' = "ignoring" /\ cfg' = cfg
    BY <1>3 DEF Ignored
  <2>2. meant' \in [DurationFlags -> Nat]
    <3>1. ASSUME NEW flag \in DurationFlags, NEW count \in Counts, NEW unit \in Units,
                 meant' = [meant EXCEPT ![flag] = count * unit]
          PROVE  meant' \in [DurationFlags -> Nat]
      <4>1. PICK asked \in Nat : asked = count * unit
        BY ProductFits
      <4>. QED BY <3>1, <4>1
    <3>. QED BY <1>3, <3>1 DEF Ignored
  <2>. QED BY <2>1, <2>2
<1>4. CASE \E flag \in DurationFlags \cup ListFlags : Undefined(flag)
  BY <1>4 DEF Undefined, Parsing, Reject
<1>5. CASE \E flag \in ListFlags : SetList(flag)
  BY <1>5 DEF SetList, Parsing
<1>6. CASE \E flag \in DurationFlags : BadDuration(flag)
  BY <1>6 DEF BadDuration, Parsing, Reject
<1>7. ASSUME NEW flag \in DurationFlags, NEW count \in Counts, NEW unit \in Units,
             SetDuration(flag, count, unit)
      PROVE  ConfigInv'
  <2>1. PICK value, asked : /\ value = Product(count, unit) /\ asked = count * unit
    OBVIOUS
  <2>2. value \in Int /\ asked \in Nat /\ (asked <= MaxDuration => value = asked)
    BY <2>1, ProductFits
  <2>3. /\ cfg' = [cfg EXCEPT ![flag] = value] /\ meant' = [meant EXCEPT ![flag] = asked]
        /\ UNCHANGED <<lists, written, words>>
    BY <1>7, <2>1 DEF SetDuration, Parsing
  <2>. QED BY <2>2, <2>3
<1>. QED BY <1>1, <1>2, <1>3, <1>4, <1>5, <1>6, <1>7 DEF ConfigNext
-----------------------------------------------------------------------------
(* The whole program.                                                      *)

\* The supervisor, the calls and the install only ever do what they do on
\* their own: the composition adds no step to them.
LEMMA PartsStep ==
  ASSUME [Main]_allVars
  PROVE  [DaemonNext]_daemonVars /\ [CommandsNext]_commandsVars /\ [InstallNext]_installVars
<1>1. CASE UNCHANGED allVars
  BY <1>1 DEF allVars
<1>2. CASE Parse \/ Usage \/ RunCommand
  BY <1>2 DEF Parse, Usage, RunCommand
<1>3. CASE DaemonSteps
  <2>1. ASSUME NEW h \in Herds,
               Supervise(StartHerd(h)) \/ Supervise(AtSelect(h) /\ HerdFails(h))
                 \/ Supervise(AtSelect(h) /\ Goroutine(h))
        PROVE  DaemonNext /\ UNCHANGED <<commandsVars, installVars>>
    BY <2>1 DEF Supervise, DaemonNext
  <2>2. CASE \/ Supervise(Planned) \/ Supervise(PlanFails) \/ Supervise(RunSelect)
             \/ Supervise(Stopped) \/ Supervise(AllLeft) \/ Supervise(Signal)
    BY <2>2 DEF Supervise, DaemonNext
  <2>3. CASE BeginsCall \/ Calls
    BY <2>3 DEF BeginsCall, Calls, CommandsNext
  <2>4. CASE CallReturns
    BY <2>4, DrivenAssumption DEF CallReturns, DaemonNext
  <2>5. CASE RunExits
    BY <2>5 DEF RunExits
  <2>. QED BY <1>3, <2>1, <2>2, <2>3, <2>4, <2>5 DEF DaemonSteps
<1>4. CASE DebugBegins \/ DebugCalls \/ DebugExits \/ DebugOtherwise
  BY <1>4 DEF DebugBegins, DebugCalls, DebugExits, DebugOtherwise, CommandsNext
<1>5. CASE InstallStep(InstallSteps) \/ InstallStep(StepsFail)
  BY <1>5 DEF InstallStep, InstallNext
<1>6. CASE Machine \/ RunAgain
  BY <1>6 DEF Machine, RunAgain, InstallNext
<1>7. CASE Exited
  BY <1>7 DEF Exited, allVars
<1>. QED BY <1>1, <1>2, <1>3, <1>4, <1>5, <1>6, <1>7 DEF Main

MainTypeOK ==
  /\ command \in Commands /\ phase \in {"parse", "run", "exit"}
  /\ exit \in {0, 1, 2} /\ calling \in BOOLEAN
  /\ caller = IF command = "run" THEN "daemon" ELSE "debug"

\* Only the daemon supervises.  The herd in a call runs: it looks neither at its
\* context nor at an error before the call has returned.
CallsOfRunning ==
  /\ command # "run" => run = "planning"
  /\ command = "run" => IF calling THEN status[Driven] = "running" ELSE answer # "none"

\* Where the process exits with status 0.
ExitZeroFrom ==
  phase = "exit" /\ exit = 0 =>
    /\ command \in StartStop => calling /\ answer = "ok"
    /\ command = "system-install" => pc \in {"completed", "canceled"}
    /\ command = "run" => run = "returned" /\ result # "error"

MainInv ==
  /\ ConfigInv /\ InstallInv /\ RunsInv /\ TasksInv /\ SureTasks
  /\ MainTypeOK /\ CallsOfRunning /\ ExitZeroFrom

LEMMA MainStart == MainInit => MainInv
<1> SUFFICES ASSUME MainInit PROVE MainInv
  OBVIOUS
<1>1. ConfigInv /\ InstallInv /\ RunsInv /\ TasksInv /\ SureTasks
  BY ConfigStart, InstallStart, RunsInit, TasksInit DEF MainInit
<1>2. MainTypeOK
  BY DEF MainInit, ConfigInit, MainTypeOK
<1>3. CallsOfRunning
  BY DEF MainInit, DaemonInit, CommandsInit, CallsOfRunning
<1>. QED BY <1>1, <1>2, <1>3 DEF MainInit, MainInv, ExitZeroFrom

LEMMA MainConfig == ConfigInv /\ [Main]_allVars => ConfigInv'
<1> SUFFICES ASSUME ConfigInv, [Main]_allVars PROVE ConfigInv'
  OBVIOUS
<1>1. CASE RunCommand
  BY <1>1, DefaultDurations DEF RunCommand, ConfigInv, ReadAsWritten
<1>2. CASE Parse
  BY <1>2, ConfigKeeps DEF Parse
<1>3. CASE UNCHANGED configVars
  BY <1>3, ConfigKeeps
<1>4. UNCHANGED configVars \/ RunCommand \/ Parse
  BY DEF Main, Usage, DaemonSteps, Supervise, BeginsCall, Calls, CallReturns, RunExits,
         DebugBegins, DebugCalls, DebugExits, DebugOtherwise, InstallStep, Machine, RunAgain,
         Exited, allVars
<1>. QED BY <1>1, <1>2, <1>3, <1>4

\* Neither the command nor who makes the calls changes.
LEMMA CommandStays == [Main]_allVars => command' = command /\ caller' = caller
<1> SUFFICES ASSUME [Main]_allVars PROVE command' = command /\ caller' = caller
  OBVIOUS
<1>1. caller' = caller
  <2>1. CASE BeginCall \/ Launch \/ Collect \/ LaunchDebug \/ Abort \/ WaitDebug
    BY <2>1 DEF BeginCall, Launch, Collect, LaunchDebug, Abort, WaitDebug
  <2>2. ASSUME NEW d \in Devices,
               Lookup(d) \/ LookupFails(d) \/ SendCommand(d) \/ ReportDaemon(d) \/ ReportDebug(d)
        PROVE  caller' = caller
    BY <2>2 DEF Lookup, LookupFails, SendCommand, ReportDaemon, ReportDebug
  <2>. QED BY <2>1, <2>2, PartsStep DEF commandsVars, CommandsNext, CommandsStep
<1>2. CASE Parse
  <2>1. CASE Check \/ StrayWord \/ Ignored
    BY <1>1, <2>1 DEF Check, StrayWord, Ignored
  <2>2. ASSUME NEW flag \in DurationFlags \cup ListFlags,
               Undefined(flag) \/ SetList(flag) \/ BadDuration(flag)
        PROVE  command' = command
    BY <2>2 DEF Undefined, Parsing, SetList, BadDuration
  <2>3. ASSUME NEW flag \in DurationFlags, NEW count \in Counts, NEW unit \in Units,
               SetDuration(flag, count, unit)
        PROVE  command' = command
    BY <2>3 DEF SetDuration, Parsing
  <2>. QED BY <1>1, <1>2, <2>1, <2>2, <2>3 DEF Parse, ConfigNext
<1>3. UNCHANGED configVars \/ RunCommand \/ Parse
  BY DEF Main, Usage, DaemonSteps, Supervise, BeginsCall, Calls, CallReturns, RunExits,
         DebugBegins, DebugCalls, DebugExits, DebugOtherwise, InstallStep, Machine, RunAgain,
         Exited, allVars
<1>. QED BY <1>1, <1>2, <1>3 DEF configVars, RunCommand

\* The process only exits through Exit, and what exits has ended its work.
LEMMA MainTypeKeeps ==
  ASSUME MainInv, [Main]_allVars
  PROVE  MainTypeOK'
<1>1. command' = command /\ caller' = caller
  BY CommandStays
<1>2. phase' \in {"parse", "run", "exit"} /\ exit' \in {0, 1, 2} /\ calling' \in BOOLEAN
  <2> USE DEF MainInv, MainTypeOK, Exit, main
  <2>1. CASE Parse \/ Usage \/ RunCommand
    BY <2>1 DEF Parse, Usage, RunCommand
  <2>2. CASE DaemonSteps
    BY <2>2 DEF DaemonSteps, Supervise, BeginsCall, Calls, CallReturns, RunExits
  <2>3. CASE DebugBegins \/ DebugCalls \/ DebugExits \/ DebugOtherwise
    BY <2>3 DEF DebugBegins, DebugCalls, DebugExits, DebugOtherwise
  <2>4. CASE InstallStep(InstallSteps) \/ InstallStep(StepsFail) \/ Machine \/ RunAgain
    BY <2>4 DEF InstallStep, Machine, RunAgain
  <2>. QED BY <2>1, <2>2, <2>3, <2>4 DEF Main, Exited, allVars
<1>. QED BY <1>1, <1>2 DEF MainInv, MainTypeOK

\* While Driven is in a call nothing else moves it.
LEMMA CallsKeep ==
  ASSUME MainInv, [Main]_allVars
  PROVE  CallsOfRunning'
<1>1. command' = command
  BY CommandStays
<1> USE DEF MainInv, MainTypeOK, CallsOfRunning
<1>2. CASE command # "run"
  <2>1. UNCHANGED daemonVars
    BY <1>2
       DEF Main, Parse, Usage, RunCommand, DaemonSteps, Supervise, BeginsCall, Calls, CallReturns,
           RunExits, Running, DebugBegins, DebugCalls, DebugExits, DebugOtherwise, InstallStep,
           Machine, RunAgain, Exited, allVars
  <2>. QED BY <1>1, <1>2, <2>1 DEF daemonVars, supervisor
<1>3. CASE command = "run"
  <2>1. status \in [Herds -> {"unborn", "running", "canceled", "failed"}]
    BY DEF RunsInv, DaemonTypeOK
  <2>2. ASSUME NEW h \in Herds, Supervise(StartHerd(h))
        PROVE  CallsOfRunning'
    BY <1>1, <2>1, <2>2 DEF Supervise, StartHerd, main, commandsVars
  <2>3. ASSUME NEW h \in Herds,
               Supervise(AtSelect(h) /\ HerdFails(h)) \/ Supervise(AtSelect(h) /\ Goroutine(h))
        PROVE  CallsOfRunning'
    <3>1. UNCHANGED <<calling, answer>> /\ (h = Driven => ~calling)
      BY <2>3 DEF Supervise, commandsVars, AtSelect
    <3>2. HerdFails(h) \/ HerdCanceled(h) \/ ReportHerd(h) \/ Leave(h)
      BY <2>3 DEF Supervise, Goroutine
    <3>3. \E now : status' = [status EXCEPT ![h] = now]
      <4>1. status = [status EXCEPT ![h] = status[h]]
        BY <2>1
      <4>. QED BY <3>2, <4>1 DEF HerdFails, HerdCanceled, ReportHerd, Leave
    <3>4. h # Driven => status'[Driven] = status[Driven]
      BY <2>1, <3>3, DrivenAssumption
    <3>. QED BY <1>1, <1>3, <3>1, <3>4
  <2>4. CASE \/ Supervise(Planned) \/ Supervise(PlanFails) \/ Supervise(RunSelect)
             \/ Supervise(Stopped) \/ Supervise(AllLeft) \/ Supervise(Signal)
    BY <1>1, <1>3, <2>4
       DEF Supervise, Planned, PlanFails, RunSelect, RunSelectCtx, RunSelectErr, RunSelectDone,
           Stopped, AllLeft, Signal, goroutines, commandsVars
  <2>5. CASE BeginsCall
    BY <1>1, <1>3, <2>5 DEF BeginsCall, daemonVars, goroutines
  <2>6. CASE Calls
    BY <1>1, <1>3, <2>6 DEF Calls, daemonVars, goroutines
  <2>7. CASE CallReturns
    BY <1>1, <1>3, <2>7 DEF CallReturns, commandsVars
  <2>8. CASE UNCHANGED <<calling, daemonVars, commandsVars>>
    BY <1>1, <1>3, <2>8 DEF daemonVars, goroutines, commandsVars
  <2>9. \/ UNCHANGED <<calling, daemonVars, commandsVars>>
        \/ DaemonSteps
    BY <1>3
       DEF Main, Parse, Usage, RunCommand, DebugBegins, DebugCalls, DebugExits, DebugOtherwise,
           Running, StartStop, DebugActions, InstallStep, Machine, RunAgain, Exited, allVars
  <2>. QED
    BY <2>2, <2>3, <2>4, <2>5, <2>6, <2>7, <2>8, <2>9 DEF DaemonSteps, RunExits
<1>. QED BY <1>2, <1>3

\* A step that ends the process with status 0 has reason to.
LEMMA ExitKeeps ==
  ASSUME MainInv, [Main]_allVars
  PROVE  ExitZeroFrom'
<1>1. command' = command
  BY CommandStays
<1> USE DEF MainInv, MainTypeOK, ExitZeroFrom, Exit, main
<1>2. CASE Parse \/ Usage \/ RunCommand
  BY <1>2 DEF Parse, Usage, RunCommand
<1>3. CASE DaemonSteps
  <2>1. phase' = "exit" => RunExits
    BY <1>3 DEF DaemonSteps, Supervise, BeginsCall, Calls, CallReturns, Running
  <2>2. CASE RunExits
    BY <1>1, <2>2 DEF RunExits, Running, StartStop, daemonVars, supervisor
  <2>. QED BY <2>1, <2>2
<1>4. CASE DebugBegins \/ DebugCalls
  BY <1>4 DEF DebugBegins, DebugCalls, Running
<1>5. CASE DebugExits
  BY <1>1, <1>5 DEF DebugExits, Running, StartStop, commandsVars
<1>6. CASE DebugOtherwise
  BY <1>1, <1>6 DEF DebugOtherwise, Running, DebugActions
<1>7. CASE InstallStep(InstallSteps) \/ InstallStep(StepsFail)
  <2>1. phase = "run" /\ command = "system-install"
    BY <1>7 DEF InstallStep, Running
  <2>2. phase' = "exit" /\ exit' = 0 => pc' \in {"completed", "canceled"}
    BY <1>7, <2>1 DEF InstallStep
  <2>. QED BY <1>1, <2>1, <2>2 DEF StartStop
<1>8. CASE Machine
  <2>1. CASE WriteBack /\ UNCHANGED main
    BY <1>1, <1>8, <2>1 DEF Machine, WriteBack, StartStop
  <2>2. CASE exit' = 1
    BY <2>2
  <2>. QED BY <1>8, <2>1, <2>2 DEF Machine
<1>9. CASE RunAgain
  BY <1>9 DEF RunAgain
<1>10. CASE UNCHANGED allVars
  BY <1>10 DEF allVars, configVars, daemonVars, supervisor, commandsVars, installVars
<1>. QED
  BY <1>2, <1>3, <1>4, <1>5, <1>6, <1>7, <1>8, <1>9, <1>10 DEF Main, Exited

LEMMA MainNext == MainInv /\ [Main]_allVars => MainInv'
<1> SUFFICES ASSUME MainInv, [Main]_allVars PROVE MainInv'
  OBVIOUS
<1>1. [DaemonNext]_daemonVars /\ [CommandsNext]_commandsVars /\ [InstallNext]_installVars
  BY PartsStep
<1>2. RunsInv' /\ TasksInv' /\ SureTasks' /\ InstallInv'
  BY <1>1, RunsNext, TasksNext, InstallKeeps DEF MainInv
<1>3. ConfigInv'
  BY MainConfig DEF MainInv
<1>4. MainTypeOK' /\ CallsOfRunning' /\ ExitZeroFrom'
  BY MainTypeKeeps, CallsKeep, ExitKeeps
<1>. QED BY <1>2, <1>3, <1>4 DEF MainInv

LEMMA MainAlways == MainSpec => []MainInv
BY MainStart, MainNext, PTL DEF MainSpec

-----------------------------------------------------------------------------
\* Every part of the program keeps its own specification inside it: what is
\* proved of App.Run, of the calls and of system-install holds of the process.
THEOREM PartsImplemented == MainSpec => DaemonSpec /\ CommandsSpec /\ InstallSpec
<1>1. MainInit => DaemonInit /\ CommandsInit /\ InstallInit
  BY DEF MainInit
<1>2. [Main]_allVars =>
        [DaemonNext]_daemonVars /\ [CommandsNext]_commandsVars /\ [InstallNext]_installVars
  BY PartsStep
<1>. QED BY <1>1, <1>2, PTL DEF MainSpec, DaemonSpec, CommandsSpec, InstallSpec

\* Whatever the flags, in whatever order, with whatever values: a daemon that
\* starts has the durations and the mountpoints of its command line, unless a
\* duration wraps or a flag follows a word that is none.
THEOREM DurationsAreMeant == MainSpec => []AcceptedIsMeant
<1>1. MainInv => AcceptedIsMeant
  BY DEF MainInv, ConfigInv, ReadAsWritten, AcceptedIsMeant
<1>. QED BY <1>1, MainAlways, PTL

\* No failed step, crash or second run of system-install leaves the service
\* without its binary, or with half of it.
THEOREM BinaryIsWhole == MainSpec => []ServiceHasBinary
<1>1. MainInv => ServiceHasBinary BY DEF MainInv, InstallInv
<1>. QED BY <1>1, MainAlways, PTL

\* A completed install is what the machine boots into.
THEOREM InstalledBoots == MainSpec => []CompletedBoots
<1>1. MainInv => CompletedBoots
  BY DEF MainInv, InstallInv, StepsDone, CompletedBoots, Bootable
<1>. QED BY <1>1, MainAlways, PTL

\* App.Run waits for the calls its herds are in.
THEOREM CallsEndFirst == MainSpec => []NoCommandOutlivesRun
<1>1. ASSUME MainInv PROVE NoCommandOutlivesRun
  <2>1. SUFFICES ASSUME run = "returned" PROVE ~calling /\ \A d \in Devices : task[d] = "ended"
    BY DEF NoCommandOutlivesRun
  <2>2. command = "run" /\ caller = "daemon"
    BY <1>1, <2>1 DEF MainInv, MainTypeOK, CallsOfRunning
  <2>3. status[Driven] # "running"
    BY <1>1, <2>1, DrivenAssumption DEF MainInv, RunsInv, DaemonTypeOK, RunInv
  <2>4. ~calling /\ answer # "none"
    BY <1>1, <2>2, <2>3 DEF MainInv, CallsOfRunning
  <2>. QED BY <1>1, <2>2, <2>4 DEF MainInv, TasksInv, AllTriedAndAnswered
<1>. QED BY <1>1, MainAlways, PTL

\* What scripts and systemd can take a status of 0 for.
THEOREM ZeroIsDone == MainSpec => []ExitZeroMeansDone
<1>1. ASSUME MainInv PROVE ExitZeroMeansDone
  <2>1. SUFFICES ASSUME phase = "exit", exit = 0 PROVE ExitZeroMeansDone
    BY DEF ExitZeroMeansDone
  <2>2. command \in StartStop => wrong = {} /\ Took = Devices \ lost
    BY <1>1, <2>1 DEF MainInv, ExitZeroFrom, TasksInv, ErrorTellsFailure
  <2>3. command = "system-install" =>
          /\ dir["bin"] = "new" /\ dir["unit"] = "new"
          /\ interrupted \/ (running = "new" /\ loaded = "new" /\ dir["wants"] = "new")
    BY <1>1, <2>1 DEF MainInv, ExitZeroFrom, InstallInv, StepsDone
  <2>4. command = "run" => ctx \/ errCh = Herds
    <3>1. SUFFICES ASSUME command = "run", ~ctx PROVE errCh = Herds
      OBVIOUS
    <3>2. run = "returned" /\ result # "error"
      BY <1>1, <2>1, <3>1 DEF MainInv, ExitZeroFrom
    <3>3. result = "nil"
      BY <1>1, <3>1, <3>2 DEF MainInv, RunsInv, RunInv, DaemonTypeOK
    <3>. QED BY <1>1, <3>1, <3>3 DEF MainInv, RunsInv, SilentEndMeansAllFailed
  <2>. QED BY <2>2, <2>3, <2>4 DEF ExitZeroMeansDone
<1>. QED BY <1>1, MainAlways, PTL
=============================================================================
