------------------------- MODULE DiskCommandsProofs -------------------------
(***************************************************************************)
(* StopAll, StartAll and their debug counterparts for any list of devices. *)
(***************************************************************************)
EXTENDS DiskCommands, TLAPS

\* The names the loop has not reached have no goroutine yet.
Fresh == \A i \in nextName .. Len(Names) : task[Names[i]] = "none"

\* Only the goroutines of the daemon look up their node.
OwnLookups == \A d \in Devices : task[d] = "lookup" => caller = "daemon"

\* In debug, what went wrong with the ended goroutines is in errs.
ErrsTell ==
  caller = "debug" /\ answer = "none" =>
    \A d \in Devices : task[d] = "ended" => (d \in wrong <=> d \in results)

\* A device is done with when it was sent its command or gave an error.
DoneIsTried ==
  answer # "new" => \A d \in Devices : task[d] \in {"report", "ended"} => d \in sent \cup wrong

\* A call of debug that returns without an error has waited for its goroutines.
DebugWaited ==
  caller = "debug" /\ answer \in {"new", "ok"} => \A d \in Devices : task[d] = "ended"

TasksInv ==
  /\ CommandsTypeOK /\ Fresh /\ OwnLookups /\ ErrsTell /\ DoneIsTried /\ DebugWaited
  /\ AllTriedAndAnswered
  /\ ErrorTellsFailure /\ OnlySureNodes

\* Commands of the two callers go to devices whose node is certain.
SureTasks == \A d \in Devices : task[d] = "command" => Resolves(d)

LEMMA NamesFact ==
  /\ Len(Names) \in Nat
  /\ \A i \in 1 .. Len(Names) : Names[i] \in Devices
  /\ \A i, j \in 1 .. Len(Names) : Names[i] = Names[j] => i = j
<1>1. Names \in Seq(ToSet(Names)) /\ IsInjective(Names)
  BY NamesAssumption
<1>2. DOMAIN Names = 1 .. Len(Names) /\ Len(Names) \in Nat
  BY <1>1
<1>. QED BY <1>1, <1>2 DEF Devices, ToSet, IsInjective

LEMMA TasksInit == CommandsInit => TasksInv /\ SureTasks
<1> SUFFICES ASSUME CommandsInit PROVE TasksInv /\ SureTasks
  OBVIOUS
<1>1. nextName \in 1 .. Len(Names) + 1
  BY NamesFact DEF CommandsInit
<1>2. CommandsTypeOK
  BY <1>1 DEF CommandsInit, CommandsTypeOK
<1>3. Fresh
  BY NamesFact DEF CommandsInit, Fresh
<1>. QED
  BY <1>2, <1>3
  DEF CommandsInit, TasksInv, OwnLookups, ErrsTell, DoneIsTried, DebugWaited,
      AllTriedAndAnswered, ErrorTellsFailure, OnlySureNodes, SureTasks

\* The loop reaches a name: its goroutine is the only one that changes.
LEMMA LaunchStep ==
  ASSUME TasksInv, answer = "none", nextName <= Len(Names), nextName' = nextName + 1, NEW place,
         task' = [task EXCEPT ![Names[nextName]] = place]
  PROVE  /\ nextName \in 1 .. Len(Names) /\ nextName' \in 1 .. Len(Names) + 1
         /\ Names[nextName] \in Devices /\ task[Names[nextName]] = "none" /\ Fresh'
<1>1. nextName \in 1 .. Len(Names)
  BY NamesFact DEF TasksInv, CommandsTypeOK
<1>2. Names[nextName] \in Devices /\ task[Names[nextName]] = "none"
  BY <1>1, NamesFact DEF TasksInv, Fresh
<1>3. ASSUME NEW i \in nextName' .. Len(Names) PROVE task'[Names[i]] = "none"
  <2>1. i \in nextName .. Len(Names) /\ i \in 1 .. Len(Names) /\ i # nextName
    BY <1>1, NamesFact
  <2>2. Names[i] # Names[nextName] /\ task[Names[i]] = "none"
    BY <1>1, <2>1, NamesFact DEF TasksInv, Fresh
  <2>. QED BY <2>2 DEF TasksInv, CommandsTypeOK
<1>4. nextName' \in 1 .. Len(Names) + 1
  BY <1>1, NamesFact
<1>. QED BY <1>1, <1>2, <1>3, <1>4 DEF Fresh

\* A goroutine moves on: no name the loop has not reached is concerned.
LEMMA TaskStep ==
  ASSUME TasksInv, NEW d \in Devices, task[d] # "none", UNCHANGED nextName, NEW place,
         task' = [task EXCEPT ![d] = place]
  PROVE  Fresh'
<1>1. \A i \in nextName .. Len(Names) : i \in 1 .. Len(Names)
  BY NamesFact DEF TasksInv, CommandsTypeOK
<1>. QED BY <1>1, NamesFact DEF TasksInv, CommandsTypeOK, Fresh

LEMMA TasksNext == TasksInv /\ SureTasks /\ [CommandsNext]_commandsVars => TasksInv' /\ SureTasks'
<1> SUFFICES ASSUME TasksInv, SureTasks, [CommandsNext]_commandsVars PROVE TasksInv' /\ SureTasks'
  OBVIOUS
<1> USE DEF TasksInv, CommandsTypeOK, OwnLookups, ErrsTell, DoneIsTried, DebugWaited,
            AllTriedAndAnswered, ErrorTellsFailure, OnlySureNodes, SureTasks, Resolves
<1>1. CASE Launch
  <2>1. /\ nextName' \in 1 .. Len(Names) + 1 /\ Names[nextName] \in Devices
        /\ task[Names[nextName]] = "none" /\ Fresh'
    BY <1>1, LaunchStep DEF Launch
  <2>. QED BY <1>1, <2>1 DEF Launch
<1>2. CASE LaunchDebug
  <2>1. /\ nextName' \in 1 .. Len(Names) + 1 /\ Names[nextName] \in Devices
        /\ task[Names[nextName]] = "none" /\ Fresh'
    BY <1>2, LaunchStep DEF LaunchDebug
  <2>. QED BY <1>2, <2>1 DEF LaunchDebug
<1>3. CASE Collect
  <2>1. Fresh' BY <1>3 DEF Collect, Fresh
  <2>2. results = Devices /\ answer = "none" /\ caller = "daemon"
        /\ answer' = Outcome(results \cap wrong)
        /\ UNCHANGED <<caller, nodes, nextName, task, wrong, results, sent, lost>>
    BY <1>3 DEF Collect
  <2>3. results \cap wrong = wrong BY <2>2
  <2>4. (\A d \in Devices : task[d] = "ended") /\ sent \cup wrong = Devices
    BY <2>2
  <2>5. ErrorTellsFailure' /\ answer' \in {"ok", "error"}
    BY <2>2, <2>3, <2>4 DEF Outcome, Took
  <2>. QED BY <2>1, <2>2, <2>4, <2>5
<1>4. CASE Abort
  <2>1. Fresh' BY <1>4 DEF Abort, Fresh
  <2>2. Names[nextName] \in Devices BY <1>4, NamesFact DEF Abort
  <2>. QED BY <1>4, <2>1, <2>2 DEF Abort
<1>5. CASE WaitDebug
  <2>1. Fresh' BY <1>5 DEF WaitDebug, Fresh
  <2>2. /\ answer = "none" /\ caller = "debug" /\ answer' = Outcome(results)
        /\ UNCHANGED <<caller, nodes, nextName, task, wrong, results, sent, lost>>
        /\ \A d \in Devices : task[d] = "ended"
    BY <1>5 DEF WaitDebug
  <2>3. results = wrong /\ sent \cup wrong = Devices BY <2>2
  <2>4. ErrorTellsFailure' /\ answer' \in {"ok", "error"}
    BY <2>2, <2>3 DEF Outcome, Took
  <2>. QED BY <2>1, <2>2, <2>4
<1>6. ASSUME NEW d \in Devices, Lookup(d) PROVE TasksInv' /\ SureTasks'
  <2>1. Fresh' BY <1>6, TaskStep DEF Lookup
  <2>. QED BY <1>6, <2>1 DEF Lookup
<1>7. ASSUME NEW d \in Devices, LookupFails(d) PROVE TasksInv' /\ SureTasks'
  <2>1. Fresh' BY <1>7, TaskStep DEF LookupFails
  <2>. QED BY <1>7, <2>1 DEF LookupFails
<1>8. ASSUME NEW d \in Devices, SendCommand(d) PROVE TasksInv' /\ SureTasks'
  <2>1. Fresh' BY <1>8, TaskStep DEF SendCommand
  <2>2. answer = "none" \/ (answer = "error" /\ caller = "debug")
    BY <1>8 DEF SendCommand
  <2>3. CommandsTypeOK'
    BY <1>8 DEF SendCommand
  <2>4. ErrorTellsFailure' /\ AllTriedAndAnswered' /\ DebugWaited'
    BY <1>8, <2>2 DEF SendCommand
  <2>5. OwnLookups' /\ ErrsTell' /\ DoneIsTried'
    BY <1>8, <2>2 DEF SendCommand
  <2>. QED BY <1>8, <2>1, <2>3, <2>4, <2>5 DEF SendCommand
<1>9. ASSUME NEW d \in Devices, ReportDaemon(d) PROVE TasksInv' /\ SureTasks'
  <2>1. Fresh' BY <1>9, TaskStep DEF ReportDaemon
  <2>. QED BY <1>9, <2>1 DEF ReportDaemon
<1>10. ASSUME NEW d \in Devices, ReportDebug(d) PROVE TasksInv' /\ SureTasks'
  <2>1. Fresh' BY <1>10, TaskStep DEF ReportDebug
  <2>2. answer = "none" \/ answer = "error"
    BY <1>10 DEF ReportDebug
  <2>3. CommandsTypeOK' /\ ErrorTellsFailure' /\ AllTriedAndAnswered' /\ DebugWaited'
    BY <1>10, <2>2 DEF ReportDebug
  <2>4. /\ task[d] = "report" /\ task' = [task EXCEPT ![d] = "ended"]
        /\ wrong \subseteq wrong' /\ wrong' \subseteq wrong \cup {d}
        /\ results' = IF d \in wrong' THEN results \cup {d} ELSE results
        /\ UNCHANGED <<caller, nodes, sent, answer>>
    BY <1>10 DEF ReportDebug
  <2>5. OwnLookups' /\ DoneIsTried' /\ OnlySureNodes' /\ SureTasks'
    BY <2>4
  <2>6. ErrsTell'
    BY <2>4
  <2>. QED BY <2>1, <2>3, <2>5, <2>6
<1>11. CASE BeginCall
  <2>1. nextName' \in 1 .. Len(Names) + 1 BY <1>11, NamesFact DEF BeginCall
  <2>2. Fresh' BY <1>11, NamesFact DEF BeginCall, Fresh
  <2>. QED BY <1>11, <2>1, <2>2 DEF BeginCall
<1>12. CASE UNCHANGED commandsVars
  <2>1. Fresh' BY <1>12 DEF commandsVars, Fresh
  <2>2. CommandsTypeOK' /\ OwnLookups' /\ ErrsTell' /\ DoneIsTried' /\ DebugWaited'
    BY <1>12 DEF commandsVars
  <2>3. AllTriedAndAnswered' /\ ErrorTellsFailure' /\ OnlySureNodes' /\ SureTasks'
    BY <1>12 DEF commandsVars, Took
  <2>. QED BY <2>1, <2>2, <2>3
<1>. QED
  BY <1>1, <1>2, <1>3, <1>4, <1>5, <1>6, <1>7, <1>8, <1>9, <1>10, <1>11, <1>12
  DEF CommandsNext, CommandsStep

LEMMA TasksAlways == CommandsSpec => [](TasksInv /\ SureTasks)
BY TasksInit, TasksNext, PTL DEF CommandsSpec

-----------------------------------------------------------------------------
\* Every variable stays in its type, and results come from ended goroutines only.
THEOREM DiskCommandsTypeCorrect == CommandsSpec => []CommandsTypeOK
<1>1. TasksInv => CommandsTypeOK BY DEF TasksInv
<1>. QED BY <1>1, TasksAlways, PTL

\* StopAll and StartAll leave no command behind and no disk untried.
THEOREM NothingUnderWay == CommandsSpec => []AllTriedAndAnswered
<1>1. TasksInv => AllTriedAndAnswered
  BY DEF TasksInv
<1>. QED BY <1>1, TasksAlways, PTL

\* Neither caller hides a failure or invents one.
THEOREM FailureReported == CommandsSpec => []ErrorTellsFailure
<1>1. TasksInv => ErrorTellsFailure BY DEF TasksInv
<1>. QED BY <1>1, TasksAlways, PTL

\* No command is sent to a node that was guessed.
THEOREM NodesAreSure == CommandsSpec => []OnlySureNodes
<1>1. TasksInv => OnlySureNodes BY DEF TasksInv
<1>. QED BY <1>1, TasksAlways, PTL
=============================================================================
