------------------------------ MODULE Spinherd ------------------------------
(***************************************************************************)
(* One process of the program, from its arguments to its exit status       *)
(* (main.go): parseCommand reads the command line, runCommand runs one of  *)
(* the commands.  Under spinherd daemon App.Run supervises the herds; the  *)
(* loop of one of them, Driven, is shown with the calls of StopAll and     *)
(* StartAll it makes.  system-install may be cut short by a crash and run  *)
(* again, by a new process.                                                *)
(***************************************************************************)
EXTENDS Config, Daemon, DiskCommands, Install

CONSTANT Driven  \* the herd with the disks Names

ASSUME DrivenAssumption == Driven \in Herds

VARIABLES
  phase,   \* "parse", "run" or "exit"
  exit,    \* the exit status, 0 before
  calling  \* Driven is in a call; a debug command has made one
main == <<phase, exit>>
allVars == <<main, calling, configVars, daemonVars, commandsVars, installVars>>

\* What a command does not use has one value.
MainInit ==
  /\ ConfigInit /\ DaemonInit /\ CommandsInit /\ InstallInit
  /\ caller = IF command = "run" THEN "daemon" ELSE "debug"
  /\ command \notin StartStop \cup {"run"} => \A d \in Devices : Resolves(d)
  /\ command # "system-install" => running = "absent"
  /\ phase = "parse" /\ exit = 0 /\ calling = FALSE

Exit(code) == phase' = "exit" /\ exit' = code
-----------------------------------------------------------------------------
(* parseCommand and runCommand.                                            *)

Parse ==
  /\ phase = "parse" /\ ConfigNext
  /\ UNCHANGED <<main, calling, daemonVars, commandsVars, installVars>>

Usage ==
  /\ phase = "parse" /\ outcome = "rejected" /\ Exit(2)
  /\ UNCHANGED <<calling, configVars, daemonVars, commandsVars, installVars>>

\* The durations go to runHerd, whose constants they are in Herd; the parts here
\* do not look at them.
RunCommand ==
  /\ phase = "parse" /\ outcome = "accepted" /\ phase' = "run"
  /\ cfg' = Default /\ meant' = Default /\ flags' = 0
  /\ words' = "none" /\ lists' = (IF command = "run" THEN {} ELSE lists) /\ written' = lists'
  /\ UNCHANGED <<exit, calling, command, badDevice, outcome, daemonVars, commandsVars, installVars>>

Running(commands) == phase = "run" /\ command \in commands
-----------------------------------------------------------------------------
(* spinherd daemon.                                                        *)

\* A step of the supervisor or of a goroutine of it, beside what Driven does.
Supervise(A) ==
  /\ Running({"run"}) /\ A
  /\ UNCHANGED <<main, calling, configVars, commandsVars, installVars>>

\* A loop in a call looks at nothing else.
AtSelect(h) == h = Driven => ~calling

BeginsCall ==
  /\ Running({"run"}) /\ status[Driven] = "running" /\ ~calling /\ BeginCall
  /\ calling' = TRUE
  /\ UNCHANGED <<main, configVars, daemonVars, installVars>>

Calls ==
  /\ Running({"run"}) /\ calling /\ CommandsStep
  /\ UNCHANGED <<main, calling, configVars, daemonVars, installVars>>

\* The loop goes on, or ends with the error of the call.
CallReturns ==
  /\ Running({"run"}) /\ calling /\ answer # "none" /\ calling' = FALSE
  /\ IF answer = "ok" THEN UNCHANGED daemonVars ELSE HerdFails(Driven)
  /\ UNCHANGED <<main, configVars, commandsVars, installVars>>

RunExits ==
  /\ Running({"run"}) /\ run = "returned"
  /\ Exit(IF result = "error" THEN 1 ELSE 0)
  /\ UNCHANGED <<calling, configVars, daemonVars, commandsVars, installVars>>

DaemonSteps ==
  \/ Supervise(Planned) \/ Supervise(PlanFails) \/ Supervise(RunSelect)
  \/ Supervise(Stopped) \/ Supervise(AllLeft) \/ Supervise(Signal)
  \/ \E h \in Herds :
       \/ Supervise(StartHerd(h)) \/ Supervise(AtSelect(h) /\ HerdFails(h))
       \/ Supervise(AtSelect(h) /\ Goroutine(h))
  \/ BeginsCall \/ Calls \/ CallReturns \/ RunExits
-----------------------------------------------------------------------------
(* spinherd debug and spinherd system-install.                             *)

\* debug spindown and spinup: herd after herd, or the given devices at once.
DebugBegins ==
  /\ Running(StartStop) /\ BeginCall /\ ("device" \in lists => ~calling)
  /\ calling' = TRUE
  /\ UNCHANGED <<main, configVars, daemonVars, installVars>>

DebugCalls ==
  /\ Running(StartStop) /\ CommandsStep
  /\ UNCHANGED <<main, calling, configVars, daemonVars, installVars>>

DebugExits ==
  /\ Running(StartStop) /\ calling /\ answer # "none"
  /\ Exit(IF answer = "ok" THEN 0 ELSE 1)
  /\ UNCHANGED <<calling, configVars, daemonVars, commandsVars, installVars>>

\* Planning for the mounts fails, or the output is gone between two calls; the
\* other actions of debug do nothing but plan, or watch, and print.
DebugOtherwise ==
  /\ Running(DebugActions) /\ answer \in {"new", "ok"}
  /\ \E code \in IF command \in StartStop THEN {1} ELSE {0, 1} : Exit(code)
  /\ UNCHANGED <<calling, configVars, daemonVars, commandsVars, installVars>>

InstallStep(A) ==
  /\ Running({"system-install"}) /\ A
  /\ CASE pc' \in {"completed", "canceled"} -> Exit(0)
       [] pc' = "failed" -> Exit(1)
       [] OTHER -> UNCHANGED main
  /\ UNCHANGED <<calling, configVars, daemonVars, commandsVars>>

\* The machine, while the command runs or after it.
Machine ==
  /\ command = "system-install" /\ phase # "parse"
  /\ \/ WriteBack /\ UNCHANGED main
     \/ Crash /\ Exit(1)
  /\ UNCHANGED <<calling, configVars, daemonVars, commandsVars>>

RunAgain ==
  /\ command = "system-install" /\ phase = "exit" /\ Again
  /\ phase' = "run" /\ exit' = 0
  /\ UNCHANGED <<calling, configVars, daemonVars, commandsVars>>

Exited == phase = "exit" /\ UNCHANGED allVars

Main ==
  \/ Parse \/ Usage \/ RunCommand \/ DaemonSteps
  \/ DebugBegins \/ DebugCalls \/ DebugExits \/ DebugOtherwise
  \/ InstallStep(InstallSteps) \/ InstallStep(StepsFail) \/ Machine \/ RunAgain \/ Exited

\* Goroutines are scheduled, and the driver answers every command.  A herd that
\* is cancelled looks at its context in the end although calls keep it from that
\* again and again (HerdRun, which Herd implements).  The user of system-install
\* runs it again until it completes.
MainFairness ==
  /\ WF_allVars(Supervise(Planned)) /\ WF_allVars(Supervise(RunSelect))
  /\ WF_allVars(Supervise(Stopped)) /\ WF_allVars(Supervise(AllLeft))
  /\ \A h \in Herds :
       /\ WF_allVars(Supervise(StartHerd(h)))
       /\ SF_allVars(Supervise(AtSelect(h) /\ Goroutine(h)))
  /\ WF_allVars(Calls) /\ WF_allVars(CallReturns) /\ WF_allVars(DebugCalls)
  /\ WF_allVars(InstallStep(InstallSteps)) /\ WF_allVars(RunAgain)

MainSpec == MainInit /\ [][Main]_allVars /\ MainFairness
-----------------------------------------------------------------------------
\* When Run returns no command to a disk is under way, nor will there be one: a
\* disk that is stopped stays stopped until the next process.
NoCommandOutlivesRun ==
  run = "returned" => ~calling /\ \A d \in Devices : task[d] = "ended"

\* What a status of 0 tells.  The disks of the last herd were all sent their
\* command, and took it as far as the driver lets one hear; the service runs what
\* was installed, or the binary and the unit are in place and a signal came before
\* systemctl had done the rest; a daemon that was not told to stop has no herd left.
ExitZeroMeansDone ==
  phase = "exit" /\ exit = 0 =>
    /\ command \in StartStop => wrong = {} /\ Took = Devices \ lost
    /\ command = "system-install" =>
         /\ dir["bin"] = "new" /\ dir["unit"] = "new"
         /\ interrupted \/ (running = "new" /\ loaded = "new" /\ dir["wants"] = "new")
    /\ command = "run" => ctx \/ errCh = Herds
=============================================================================
