---------------------------- MODULE DiskCommands ----------------------------
(***************************************************************************)
(* One start or stop command to every disk of a herd, twice: runParallel   *)
(* of the daemon (app.go) and debugStartStopAll (debug.go), with the sysfs *)
(* lookup of the sg node each command is sent to (block.go).  Herd uses    *)
(* runParallel as one step per disk that answers; here is what it hides.   *)
(* One call follows another, as long as none fails.                        *)
(***************************************************************************)
EXTENDS Naturals, FiniteSets, Sequences, SequencesExt

CONSTANTS
  Names,    \* the devices of the herd, in the order of the list
  DiskOf    \* the disk a name stands for: its parent if it is a partition

ASSUME NamesAssumption == Names \in Seq(ToSet(Names)) /\ IsInjective(Names)

Devices == ToSet(Names)

VARIABLES
  caller,   \* "daemon" or "debug"
  nodes,    \* entries of device/scsi_generic, per disk
  nextName, \* index of the next name of the loop
  task,     \* goroutines: "none", "lookup", "command", "report" or "ended"
  wrong,    \* devices whose lookup or command gave an error
  results,  \* devices whose result is in errs; in debug only errors are
  sent,     \* devices whose sg node was sent the command
  lost,     \* devices whose command failed unheard, in the adapter or the driver
  answer    \* of the last call: "none" so far, "ok" or "error"; "new" before one
commandsVars == <<caller, nodes, nextName, task, wrong, results, sent, lost, answer>>

CommandsInit ==
  /\ caller \in {"daemon", "debug"}
  /\ nodes \in [{DiskOf[d] : d \in Devices} -> 0 .. 2]
  /\ nextName = Len(Names) + 1 /\ task = [d \in Devices |-> "ended"]
  /\ wrong = {} /\ results = {} /\ sent = {} /\ lost = {} /\ answer = "new"

\* StopAll or StartAll; or the next herd of debug spindown and spinup, after the
\* lines that announce it.  An error ends the loop of the herd and the command.
BeginCall ==
  /\ answer \in {"new", "ok"} /\ answer' = "none"
  /\ nextName' = 1 /\ task' = [d \in Devices |-> "none"]
  /\ wrong' = {} /\ results' = {} /\ sent' = {} /\ lost' = {}
  /\ UNCHANGED <<caller, nodes>>

\* Exactly one sg node.
Resolves(d) == nodes[DiskOf[d]] = 1
-----------------------------------------------------------------------------
(* runParallel: the loop starts all goroutines, each looks its node up.    *)

Launch ==
  /\ caller = "daemon" /\ answer = "none" /\ nextName <= Len(Names)
  /\ task' = [task EXCEPT ![Names[nextName]] = "lookup"]
  /\ nextName' = nextName + 1
  /\ UNCHANGED <<caller, nodes, wrong, results, sent, lost, answer>>

Lookup(d) ==
  /\ task[d] = "lookup" /\ Resolves(d)
  /\ task' = [task EXCEPT ![d] = "command"]
  /\ UNCHANGED <<caller, nodes, nextName, wrong, results, sent, lost, answer>>

\* Mutant of LookupFails: the goroutine goes on after its error.
LookupFailsGoesOn(d) ==
  /\ task[d] = "lookup" /\ ~Resolves(d)
  /\ task' = [task EXCEPT ![d] = "command"]
  /\ wrong' = wrong \cup {d} /\ results' = results \cup {d}
  /\ UNCHANGED <<caller, nodes, nextName, sent, lost, answer>>

LookupFails(d) ==
  /\ task[d] = "lookup" /\ ~Resolves(d)
  /\ task' = [task EXCEPT ![d] = "ended"]
  /\ wrong' = wrong \cup {d} /\ results' = results \cup {d}
  /\ UNCHANGED <<caller, nodes, nextName, sent, lost, answer>>

\* The result of the command, nil or not, goes into errs.
ReportDaemon(d) ==
  /\ caller = "daemon" /\ task[d] = "report"
  /\ task' = [task EXCEPT ![d] = "ended"]
  /\ results' = results \cup {d}
  /\ UNCHANGED <<caller, nodes, nextName, wrong, sent, lost, answer>>

Outcome(bad) == IF bad = {} THEN "ok" ELSE "error"

\* Mutant of Collect: it returns at the first error.
CollectFirst ==
  /\ caller = "daemon" /\ answer = "none" /\ nextName > Len(Names)
  /\ results = Devices \/ results \cap wrong # {}
  /\ answer' = Outcome(results \cap wrong)
  /\ UNCHANGED <<caller, nodes, nextName, task, wrong, results, sent, lost>>

\* One result per device has been received.
Collect ==
  /\ caller = "daemon" /\ answer = "none" /\ nextName > Len(Names)
  /\ results = Devices
  /\ answer' = Outcome(results \cap wrong)
  /\ UNCHANGED <<caller, nodes, nextName, task, wrong, results, sent, lost>>
-----------------------------------------------------------------------------
(* debugStartStopAll: the loop itself looks the node up, and prints.       *)

LaunchDebug ==
  /\ caller = "debug" /\ answer = "none" /\ nextName <= Len(Names)
  /\ Resolves(Names[nextName])
  /\ task' = [task EXCEPT ![Names[nextName]] = "command"]
  /\ nextName' = nextName + 1
  /\ UNCHANGED <<caller, nodes, wrong, results, sent, lost, answer>>

\* No node, or the line cannot be written: the function returns at once.  The
\* goroutines go on until main has ended the process.
Abort ==
  /\ caller = "debug" /\ answer = "none" /\ nextName <= Len(Names)
  /\ wrong' = wrong \cup {Names[nextName]}
  /\ answer' = "error"
  /\ UNCHANGED <<caller, nodes, nextName, task, results, sent, lost>>

\* Only an error, of the command or of printing its result, goes into errs.
ReportDebug(d) ==
  /\ caller = "debug" /\ task[d] = "report"
  /\ task' = [task EXCEPT ![d] = "ended"]
  /\ \E printed \in BOOLEAN :
       wrong' = IF printed THEN wrong ELSE wrong \cup {d}
  /\ results' = IF d \in wrong' THEN results \cup {d} ELSE results
  /\ UNCHANGED <<caller, nodes, nextName, sent, lost, answer>>

\* Mutant of WaitDebug: errs is read before the goroutines are done.
WaitDebugEarly ==
  /\ caller = "debug" /\ answer = "none" /\ nextName > Len(Names)
  /\ answer' = Outcome(results)
  /\ UNCHANGED <<caller, nodes, nextName, task, wrong, results, sent, lost>>

\* wg.Wait, then what errs holds.
WaitDebug ==
  /\ caller = "debug" /\ answer = "none" /\ nextName > Len(Names)
  /\ \A d \in Devices : task[d] = "ended"
  /\ answer' = Outcome(results)
  /\ UNCHANGED <<caller, nodes, nextName, task, wrong, results, sent, lost>>
-----------------------------------------------------------------------------
(* sendStartStopUnitDetailedMode, after its turn in the stagger.           *)

\* The disk takes the command; or its SCSI status is bad, or the node cannot be
\* opened; or the host adapter or the driver fails, and nil is returned.
SendCommand(d) ==
  /\ task[d] = "command"
  /\ task' = [task EXCEPT ![d] = "report"]
  /\ \/ sent' = sent \cup {d} /\ UNCHANGED <<wrong, lost>>
     \/ sent' \in {sent, sent \cup {d}} /\ wrong' = wrong \cup {d} /\ UNCHANGED lost
     \/ sent' = sent \cup {d} /\ lost' = lost \cup {d} /\ UNCHANGED wrong
  /\ UNCHANGED <<caller, nodes, nextName, results, answer>>

CommandsStep ==
  \/ Launch \/ Collect \/ LaunchDebug \/ Abort \/ WaitDebug
  \/ \E d \in Devices :
       Lookup(d) \/ LookupFails(d) \/ SendCommand(d) \/ ReportDaemon(d) \/ ReportDebug(d)

CommandsNext == BeginCall \/ CommandsStep

CommandsSpec == CommandsInit /\ [][CommandsNext]_commandsVars
-----------------------------------------------------------------------------
CommandsTypeOK ==
  /\ caller \in {"daemon", "debug"} /\ nextName \in 1 .. Len(Names) + 1
  /\ task \in [Devices -> {"none", "lookup", "command", "report", "ended"}]
  /\ wrong \subseteq Devices /\ results \subseteq {d \in Devices : task[d] = "ended"}
  /\ sent \subseteq {d \in Devices : task[d] \in {"report", "ended"}}
  /\ lost \subseteq sent /\ answer \in {"new", "none", "ok", "error"}

\* StopAll and StartAll return only when no command of theirs is under way any
\* more, so that a wake is never overtaken by a stop, and after every disk was
\* tried, whatever happened to the others.
AllTriedAndAnswered ==
  caller = "daemon" /\ answer # "none" =>
    /\ \A d \in Devices : task[d] = "ended"
    /\ answer # "new" => sent \cup wrong = Devices

\* The devices whose disk carried out the command.
Took == sent \ (wrong \cup lost)

\* Both functions return nil only if every disk was sent its command and took it,
\* but for one whose command failed below its SCSI status, which nobody hears of;
\* and an error only if there was one.
ErrorTellsFailure ==
  /\ answer = "ok" => wrong = {} /\ Took = Devices \ lost
  /\ answer = "error" => wrong # {}

\* No command goes to a disk whose sg node is in doubt.
OnlySureNodes == \A d \in sent : nodes[DiskOf[d]] = 1
=============================================================================
