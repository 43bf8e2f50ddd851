----------------------------- MODULE HerdProofs -----------------------------
(***************************************************************************)
(* What holds of every herd: any disks, filesystems, thresholds and        *)
(* faults.                                                                 *)
(***************************************************************************)
EXTENDS HerdHistory, TLAPS

\* The adapted threshold stays between the base and the maximum.
LEMMA NextSleepAfterRange ==
  ASSUME NEW current \in SleepAfter .. SleepAfterMax, NEW sleptFor \in Nat
  PROVE  NextSleepAfter(current, SleepAfter, SleepAfterMax, sleptFor)
           \in SleepAfter .. SleepAfterMax
BY ConfigAssumption, WidthAssumption, MaxDurationAssumption
   DEF NextSleepAfter, PlusDuration

\* A clock does not run backwards and stays in range.
LEMMA LaterRange ==
  ASSUME NEW clock \in 0 .. SleepAfterMax
  PROVE  /\ Later(clock) \in 0 .. SleepAfterMax
         /\ Later(clock) >= clock
BY ConfigAssumption DEF Later

\* The initial states are of the right type.
LEMMA TypeInit == Init => TypeOK
<1> SUFFICES ASSUME Init PROVE TypeOK
  OBVIOUS
<1>1. ClocksOK BY ConfigAssumption DEF Init, ClocksOK
<1>2. ControlOK /\ SetsOK BY DEF Init, NoWatch, ControlOK, SetsOK
<1>. QED BY <1>1, <1>2 DEF TypeOK

\* The clocks and the threshold: only these actions touch them.
LEMMA ClocksStep == ClocksOK /\ [Next]_vars => ClocksOK'
<1> SUFFICES ASSUME ClocksOK, [Next]_vars PROVE ClocksOK'
  OBVIOUS
<1> USE DEF ClocksOK
<1>1. CASE UNCHANGED <<sleepAfter, idle, slept, phase>> BY <1>1
<1>2. CASE Begin BY <1>2, ConfigAssumption DEF Begin
<1>3. CASE SelectEvent \/ CheckEvent
  BY <1>3, NextSleepAfterRange DEF SelectEvent, CheckEvent, Wake, clocks
<1>4. CASE PollBusy BY <1>4, ConfigAssumption DEF PollBusy, Poll
<1>5. CASE RecheckBusy BY <1>5, ConfigAssumption DEF RecheckBusy
<1>6. CASE StopDone BY <1>6, ConfigAssumption DEF StopDone
<1>7. CASE Reread BY <1>7, ConfigAssumption DEF Reread
<1>8. CASE Elapse
  <2>1. phase' \in 0 .. PollInterval - 1 BY <1>8, ConfigAssumption DEF Elapse
  <2>2. idle' \in 0 .. SleepAfterMax BY <1>8, LaterRange DEF Elapse
  <2>3. slept' \in 0 .. SleepAfterMax BY <1>8, LaterRange, ConfigAssumption DEF Elapse
  <2>4. sleepAfter' = sleepAfter BY <1>8 DEF Elapse, loop
  <2>. QED BY <2>1, <2>2, <2>3, <2>4
<1>9. ASSUME NEW how, Return(how) PROVE ClocksOK'
  BY <1>9 DEF Return, clocks
<1>10. CASE ReadFails \/ SelectCancel \/ SelectBroken \/ ArmFails \/ CommandsFailed \/ CheckBroken
  BY <1>9, <1>10 DEF ReadFails, SelectCancel, SelectBroken, ArmFails, CommandsFailed, CheckBroken
<1>11. CASE PollIgnored \/ PollWaiting \/ PollIdle
  BY <1>11 DEF PollIgnored, PollWaiting, PollIdle, Poll
<1>12. CASE RecheckQuiet \/ StartDone \/ CheckNone \/ (\E fs \in Filesystems : Arm(fs))
  BY <1>12 DEF RecheckQuiet, StartDone, CheckNone, Arm, Mark, clocks
<1>13. ASSUME NEW d \in Devices, Command(d) PROVE ClocksOK'
  BY <1>13 DEF Command, StopDisk, StopDiskFails, StartDisk, StartDiskFails, Obeyed, Answered,
       loop, clocks
<1>14. CASE World
  BY <1>14 DEF World, Cancel, AccessBegin, AccessEnd, Raise,
       Deliver, Arrive, WatchFails, Stop, ReportError, Report,
       BackgroundIO, IODone, loop, clocks
<1>. QED
  BY <1>1, <1>2, <1>3, <1>4, <1>5, <1>6, <1>7, <1>8, <1>10, <1>11, <1>12, <1>13, <1>14
     DEF Next, Loop, Terminated, vars, loop, clocks

\* The program counter, the flags and the sets of disks and filesystems.
LEMMA ControlStep == TypeOK /\ [Next]_vars => ControlOK' /\ SetsOK'
<1> SUFFICES ASSUME ControlOK, SetsOK, [Next]_vars PROVE ControlOK' /\ SetsOK'
  BY DEF TypeOK
<1> USE DEF ControlOK, SetsOK, loop, clocks, watch, commands, disks
<1>1. ASSUME NEW how \in {"canceled", "failed"}, Return(how) PROVE ControlOK' /\ SetsOK'
  BY <1>1 DEF Return, CloseWatch
<1>2. CASE ReadFails \/ SelectCancel \/ SelectBroken \/ ArmFails \/ CommandsFailed \/ CheckBroken
  BY <1>1, <1>2 DEF ReadFails, SelectCancel, SelectBroken, ArmFails, CommandsFailed, CheckBroken
<1>3. CASE SelectEvent \/ CheckEvent
  BY <1>3 DEF SelectEvent, CheckEvent, Wake, SendAll, CloseWatch
<1>4. CASE Begin BY <1>4 DEF Begin
<1>5. CASE PollIgnored \/ PollBusy \/ PollWaiting \/ PollIdle
  BY <1>5 DEF PollIgnored, PollBusy, PollWaiting, PollIdle, Poll
<1>6. ASSUME NEW fs \in Filesystems, Arm(fs) PROVE ControlOK' /\ SetsOK'
  BY <1>6 DEF Arm, Mark
<1>7. CASE RecheckBusy BY <1>7 DEF RecheckBusy, CloseWatch
<1>8. CASE RecheckQuiet BY <1>8 DEF RecheckQuiet, SendAll
<1>9. CASE StopDone \/ StartDone \/ CheckNone BY <1>9 DEF StopDone, StartDone, CheckNone
<1>10. CASE Reread BY <1>10 DEF Reread
<1>11. ASSUME NEW d \in Devices, Command(d) PROVE ControlOK' /\ SetsOK'
  BY <1>11 DEF Command, StopDisk, StopDiskFails, StartDisk, StartDiskFails, Obeyed, Answered
<1>12. CASE Elapse BY <1>12 DEF Elapse
<1>13. CASE Cancel BY <1>13 DEF Cancel
<1>14. ASSUME NEW fs \in Filesystems, NEW D \in SUBSET Devices, AccessBegin(fs, D)
       PROVE  ControlOK' /\ SetsOK'
  BY <1>14 DEF AccessBegin
<1>15. ASSUME NEW fs \in Filesystems,
              AccessEnd(fs) \/ Deliver(fs) \/ WatchFails(fs) \/ ReportError(fs)
       PROVE  ControlOK' /\ SetsOK'
  <2>1. CASE AccessEnd(fs) BY <2>1 DEF AccessEnd, Raise
  <2>2. CASE Deliver(fs) BY <2>2 DEF Deliver, Arrive
  <2>3. CASE WatchFails(fs) BY <2>3 DEF WatchFails, Stop
  <2>4. CASE ReportError(fs) BY <2>4 DEF ReportError, Report
  <2>. QED BY <1>15, <2>1, <2>2, <2>3, <2>4
<1>16. ASSUME NEW d \in Devices, BackgroundIO(d) \/ IODone(d) PROVE ControlOK' /\ SetsOK'
  BY <1>16 DEF BackgroundIO, IODone
<1>17. CASE UNCHANGED vars BY <1>17 DEF vars
<1>. QED
  BY <1>2, <1>3, <1>4, <1>5, <1>6, <1>7, <1>8, <1>9, <1>10, <1>11, <1>12, <1>13, <1>14, <1>15,
     <1>16, <1>17 DEF Next, Loop, World, Terminated

\* Every step keeps the types.
LEMMA TypeStep == TypeOK /\ [Next]_vars => TypeOK'
BY ClocksStep, ControlStep DEF TypeOK

\* Type correctness: among others, the threshold never leaves its bounds,
\* although it is computed in a fixed width.
THEOREM TypeCorrect == Spec => []TypeOK
BY TypeInit, TypeStep, PTL DEF Spec
-----------------------------------------------------------------------------
\* The state of the herd at each place of the loop.
PhaseInv ==
  /\ pc \in {"init", "arm"} => state = "active"
  /\ pc \in {"recheck", "stop"} => state = "arming"
  /\ pc \in {"check", "start", "reread"} => state = "sleeping"
  /\ pc = "select" => state \in {"active", "sleeping"}

LoopInv == TypeOK /\ PhaseInv /\ WatchMatchesState

LEMMA LoopInit == Init => LoopInv
<1> SUFFICES ASSUME Init PROVE PhaseInv /\ WatchMatchesState
  BY TypeInit DEF LoopInv
<1>. QED BY DEF Init, NoWatch, PhaseInv, WatchMatchesState, Ended

\* The world changes neither the state nor what is armed, and without a watch
\* there is nothing to deliver or to report.
LEMMA WorldKeepsLoopInv ==
  ASSUME LoopInv, World \/ Elapse \/ (\E d \in Devices : Command(d))
  PROVE  PhaseInv' /\ WatchMatchesState'
<1> USE DEF loop, clocks, watch, commands, disks
<1>1. UNCHANGED <<pc, state, armed>>
  BY DEF World, Elapse, Cancel, AccessBegin, AccessEnd, Raise,
       Deliver, Arrive, WatchFails, Stop, ReportError, Report,
     BackgroundIO, IODone, Command, StopDisk, StopDiskFails, StartDisk, StartDiskFails,
     Obeyed, Answered
<1>2. armed = {} => UNCHANGED <<ready, broken>>
  <2>1. CASE World
    BY <2>1 DEF World, Cancel, AccessBegin, AccessEnd, Raise,
       Deliver, Arrive, WatchFails, Stop, ReportError, Report,
       BackgroundIO, IODone, LoopInv, TypeOK, SetsOK
  <2>2. CASE Elapse BY <2>2 DEF Elapse
  <2>3. ASSUME NEW d \in Devices, Command(d) PROVE UNCHANGED <<ready, broken>>
    BY <2>3 DEF Command, StopDisk, StopDiskFails, StartDisk, StartDiskFails, Obeyed, Answered
  <2>. QED BY <2>1, <2>2, <2>3
<1>. QED BY <1>1, <1>2 DEF LoopInv, PhaseInv, WatchMatchesState, Ended

LEMMA LoopStep == LoopInv /\ [Next]_vars => LoopInv'
<1> SUFFICES ASSUME LoopInv, [Next]_vars PROVE PhaseInv' /\ WatchMatchesState'
  BY TypeStep DEF LoopInv
<1> USE DEF LoopInv, PhaseInv, WatchMatchesState, Ended, loop, clocks, watch, commands, disks
<1>1. ASSUME NEW how \in {"canceled", "failed"}, Return(how)
      PROVE  PhaseInv' /\ WatchMatchesState'
  BY <1>1 DEF Return, CloseWatch
<1>2. CASE ReadFails \/ SelectCancel \/ SelectBroken \/ ArmFails \/ CommandsFailed \/ CheckBroken
  BY <1>1, <1>2 DEF ReadFails, SelectCancel, SelectBroken, ArmFails, CommandsFailed, CheckBroken
<1>3. CASE SelectEvent \/ CheckEvent
  BY <1>3 DEF SelectEvent, CheckEvent, Wake, SendAll, CloseWatch
<1>4. CASE Begin BY <1>4 DEF Begin
<1>5. CASE PollIgnored \/ PollBusy \/ PollWaiting \/ PollIdle
  BY <1>5 DEF PollIgnored, PollBusy, PollWaiting, PollIdle, Poll
<1>6. ASSUME NEW fs \in Filesystems, Arm(fs) PROVE PhaseInv' /\ WatchMatchesState'
  BY <1>6 DEF Arm, Mark
<1>7. CASE RecheckBusy BY <1>7 DEF RecheckBusy, CloseWatch
<1>8. CASE RecheckQuiet BY <1>8 DEF RecheckQuiet, SendAll
<1>9. CASE StopDone \/ StartDone \/ CheckNone BY <1>9 DEF StopDone, StartDone, CheckNone
<1>10. CASE Reread BY <1>10 DEF Reread
<1>11. CASE World \/ Elapse \/ (\E d \in Devices : Command(d))
  BY <1>11, WorldKeepsLoopInv
<1>12. CASE UNCHANGED vars BY <1>12 DEF vars
<1>. QED
  BY <1>2, <1>3, <1>4, <1>5, <1>6, <1>7, <1>8, <1>9, <1>10, <1>11, <1>12
     DEF Next, Loop, Terminated

\* The fanotify watch is armed exactly while the herd falls asleep or sleeps, on
\* every filesystem, and no event or error of an earlier watch outlives it.
THEOREM WatchFollowsState == Spec => []WatchMatchesState
<1>1. LoopInv => WatchMatchesState BY DEF LoopInv
<1>. QED BY LoopInit, LoopStep, <1>1, PTL DEF Spec
-----------------------------------------------------------------------------
\* Which disks spin, as long as every command that fails is seen to fail.
\* While disks are stopped, one that was touched since the second sample, or
\* whose command is outstanding, may spin; while they are started, one may rest
\* only if its command is outstanding.
DisksInv ==
  /\ pc = "stop" /\ ~failed => up \ moved \subseteq todo
  /\ pc = "start" /\ ~failed => Devices \ todo \subseteq up
  /\ pc = "reread" => up = Devices
  /\ AsleepUnlessTouched

SpinInv == LoopInv /\ DisksInv

LEMMA SpinInit == Init => SpinInv
<1> SUFFICES ASSUME Init PROVE DisksInv
  BY LoopInit DEF SpinInv
<1>. QED BY DEF Init, DisksInv, AsleepUnlessTouched

\* A command that is answered leaves its disk as it should, or is seen to fail.
LEMMA CommandKeepsDisksInv ==
  ASSUME "transport" \notin Faults, SpinInv, NEW d \in Devices, Command(d)
  PROVE  DisksInv'
<1> USE DEF SpinInv, DisksInv, AsleepUnlessTouched, Obeyed, Answered, loop, clocks, watch
<1>1. CASE StopDisk(d) BY <1>1 DEF StopDisk
<1>2. CASE StopDiskFails(d) BY <1>2 DEF StopDiskFails
<1>3. CASE StartDisk(d) BY <1>3 DEF StartDisk
<1>4. CASE StartDiskFails(d) BY <1>4 DEF StartDiskFails
<1>. QED BY <1>1, <1>2, <1>3, <1>4 DEF Command

\* The world spins a disk up only by I/O that completes, which moves a counter.
LEMMA WorldKeepsDisksInv ==
  ASSUME SpinInv, World \/ Elapse
  PROVE  DisksInv'
<1>1. UNCHANGED <<pc, state, todo, failed>>
  BY DEF World, Elapse, Cancel, AccessBegin, AccessEnd, Raise,
       Deliver, Arrive, WatchFails, Stop, ReportError, Report,
     BackgroundIO, IODone, loop, commands
<1>2. \/ UNCHANGED <<up, moved>>
      \/ \E d \in Devices : up' = up \cup {d} /\ moved' = moved \cup {d}
  BY DEF World, Elapse, Cancel, AccessBegin, AccessEnd, Raise,
       Deliver, Arrive, WatchFails, Stop, ReportError, Report,
     BackgroundIO, IODone, loop, disks
<1>. QED BY <1>1, <1>2 DEF SpinInv, DisksInv, AsleepUnlessTouched, LoopInv, TypeOK, SetsOK

LEMMA SpinStep ==
  ASSUME "transport" \notin Faults
  PROVE  SpinInv /\ [Next]_vars => SpinInv'
<1> SUFFICES ASSUME SpinInv, [Next]_vars PROVE DisksInv'
  BY LoopStep DEF SpinInv
<1>0. LoopInv' BY LoopStep DEF SpinInv
<1> USE DEF SpinInv, DisksInv, AsleepUnlessTouched, loop, clocks, watch, commands, disks
<1>1. ASSUME NEW how \in {"canceled", "failed"}, Return(how) PROVE DisksInv'
  BY <1>1 DEF Return
<1>2. CASE ReadFails \/ SelectCancel \/ SelectBroken \/ ArmFails \/ CommandsFailed \/ CheckBroken
  BY <1>1, <1>2 DEF ReadFails, SelectCancel, SelectBroken, ArmFails, CommandsFailed, CheckBroken
<1>3. CASE SelectEvent \/ CheckEvent
  BY <1>3 DEF SelectEvent, CheckEvent, Wake, SendAll
<1>4. CASE Begin BY <1>4 DEF Begin, LoopInv, PhaseInv
<1>5. CASE PollIgnored \/ PollBusy \/ PollWaiting \/ PollIdle
  BY <1>5 DEF PollIgnored, PollBusy, PollWaiting, PollIdle, Poll
<1>6. ASSUME NEW fs \in Filesystems, Arm(fs) PROVE DisksInv' BY <1>6 DEF Arm, Mark
<1>7. CASE RecheckBusy BY <1>7 DEF RecheckBusy
<1>8. CASE RecheckQuiet
  BY <1>8 DEF RecheckQuiet, SendAll, LoopInv, TypeOK, SetsOK
<1>9. CASE StopDone BY <1>9 DEF StopDone
<1>10. CASE StartDone BY <1>10 DEF StartDone, LoopInv, TypeOK, SetsOK
<1>11. CASE CheckNone BY <1>11 DEF CheckNone
<1>12. CASE Reread BY <1>12 DEF Reread
<1>13. CASE World \/ Elapse BY <1>13, WorldKeepsDisksInv
<1>14. ASSUME NEW d \in Devices, Command(d) PROVE DisksInv'
  BY <1>14, CommandKeepsDisksInv
<1>15. CASE UNCHANGED vars BY <1>15 DEF vars
<1>. QED
  BY <1>2, <1>3, <1>4, <1>5, <1>6, <1>7, <1>8, <1>9, <1>10, <1>11, <1>12, <1>13, <1>14, <1>15
     DEF Next, Loop, Terminated

\* A disk of a sleeping herd spins only for I/O that completed since the second
\* sample, provided the host adapter's errors are noticed.
THEOREM AsleepTogether ==
  ASSUME "transport" \notin Faults
  PROVE  Spec => []AsleepUnlessTouched
<1>1. SpinInv => AsleepUnlessTouched BY DEF SpinInv, DisksInv
<1>2. Init => SpinInv BY SpinInit
<1>3. SpinInv /\ [Next]_vars => SpinInv' BY SpinStep
<1>. QED BY <1>1, <1>2, <1>3, PTL DEF Spec

\* Only Reread turns a sleeping herd active.
LEMMA AwakeStep ==
  ASSUME SpinInv, [Next]_vars, state = "sleeping", state' = "active"
  PROVE  up' = Devices
<1> USE DEF loop, clocks, watch, commands, disks
<1>1. CASE Reread BY <1>1 DEF Reread, SpinInv, DisksInv
<1>2. CASE RecheckBusy BY <1>2 DEF RecheckBusy, SpinInv, LoopInv, PhaseInv
<1>3. ASSUME NEW how, Return(how) PROVE FALSE BY <1>3 DEF Return
<1>4. CASE ReadFails \/ SelectCancel \/ SelectBroken \/ ArmFails \/ CommandsFailed \/ CheckBroken
  BY <1>3, <1>4 DEF ReadFails, SelectCancel, SelectBroken, ArmFails, CommandsFailed, CheckBroken
<1>5. CASE \/ Begin \/ RecheckQuiet \/ StopDone \/ StartDone \/ CheckNone
           \/ \E fs \in Filesystems : Arm(fs)
  BY <1>5 DEF Begin, RecheckQuiet, StopDone, StartDone, CheckNone, Arm, Mark
<1>6. CASE PollIgnored \/ PollBusy \/ PollWaiting \/ PollIdle \/ SelectEvent \/ CheckEvent
  BY <1>6 DEF PollIgnored, PollBusy, PollWaiting, PollIdle, Poll, SelectEvent, CheckEvent, Wake
<1>7. CASE World \/ Elapse \/ (\E d \in Devices : Command(d))
  BY <1>7 DEF World, Elapse, Cancel, AccessBegin, AccessEnd, Raise,
       Deliver, Arrive, WatchFails, Stop, ReportError, Report,
     BackgroundIO, IODone, Command, StopDisk, StopDiskFails, StartDisk, StartDiskFails,
     Obeyed, Answered
<1>8. CASE UNCHANGED vars BY <1>8 DEF vars
<1>. QED
  BY <1>1, <1>2, <1>4, <1>5, <1>6, <1>7, <1>8 DEF Next, Loop, Terminated

\* The herd wakes as one: it never starts a new idle cycle with a disk at rest,
\* provided the host adapter's errors are noticed.
THEOREM WakesTogether ==
  ASSUME "transport" \notin Faults
  PROVE  Spec => WakesAsHerd
<1>1. SpinInv /\ [Next]_vars
        => [state = "sleeping" /\ state' = "active" => up' = Devices]_vars
  BY AwakeStep
<1>2. Init => SpinInv BY SpinInit
<1>3. SpinInv /\ [Next]_vars => SpinInv' BY SpinStep
<1>. QED BY <1>1, <1>2, <1>3, PTL DEF Spec, WakesAsHerd
-----------------------------------------------------------------------------
\* What the counters say of the time since the last I/O: if none moved since
\* they were last read, no I/O completed since lastBusy.
IdleInv ==
  /\ TypeOK
  /\ quiet \in 0 .. SleepAfterMax
  /\ moved = {} => quiet >= idle
  /\ pc \in {"arm", "recheck"} => idle >= sleepAfter

LEMMA HistorySteps == [HNext]_<<vars, history>> => [Next]_vars
BY DEF HNext, Next, World, vars, history

LEMMA IdleInit == HInit => IdleInv
<1> SUFFICES ASSUME HInit PROVE IdleInv
  OBVIOUS
<1>1. TypeOK BY TypeInit DEF HInit
<1>2. quiet = 0 /\ idle = 0 /\ pc = "init" BY DEF HInit, Init
<1>. QED BY <1>1, <1>2, ConfigAssumption DEF IdleInv

\* Whatever leaves quiet alone leaves the idle clock and the counters alone too,
\* or restarts the clock as it forgets what moved.
LEMMA LoopKeepsIdleInv ==
  ASSUME IdleInv, Loop, quiet' = quiet
  PROVE  /\ moved' = {} => quiet' >= idle'
         /\ pc' \in {"arm", "recheck"} => idle' >= sleepAfter'
<1> USE DEF IdleInv, TypeOK, ClocksOK, loop, clocks
<1>1. CASE Begin BY <1>1 DEF Begin
<1>2. CASE PollBusy BY <1>2 DEF PollBusy, Poll
<1>3. CASE PollIdle BY <1>3 DEF PollIdle, Poll
<1>4. CASE PollIgnored \/ PollWaiting BY <1>4 DEF PollIgnored, PollWaiting, Poll
<1>5. ASSUME NEW fs \in Filesystems, Arm(fs)
      PROVE  /\ moved' = {} => quiet' >= idle'
             /\ pc' \in {"arm", "recheck"} => idle' >= sleepAfter'
  BY <1>5 DEF Arm, Mark
<1>6. CASE RecheckBusy BY <1>6 DEF RecheckBusy
<1>7. CASE RecheckQuiet BY <1>7 DEF RecheckQuiet, SendAll
<1>8. CASE StopDone \/ StartDone \/ CheckNone BY <1>8 DEF StopDone, StartDone, CheckNone
<1>9. CASE Reread BY <1>9 DEF Reread
<1>10. CASE SelectEvent \/ CheckEvent BY <1>10 DEF SelectEvent, CheckEvent, Wake, SendAll
<1>11. ASSUME NEW how \in {"canceled", "failed"}, Return(how)
       PROVE  /\ moved' = {} => quiet' >= idle'
              /\ pc' \in {"arm", "recheck"} => idle' >= sleepAfter'
  BY <1>11 DEF Return
<1>12. CASE ReadFails \/ SelectCancel \/ SelectBroken \/ ArmFails \/ CommandsFailed \/ CheckBroken
  BY <1>11, <1>12 DEF ReadFails, SelectCancel, SelectBroken, ArmFails, CommandsFailed, CheckBroken
<1>. QED
  BY <1>1, <1>2, <1>3, <1>4, <1>5, <1>6, <1>7, <1>8, <1>9, <1>10, <1>12 DEF Loop

LEMMA IdleStep == IdleInv /\ [HNext]_<<vars, history>> => IdleInv'
<1> SUFFICES ASSUME IdleInv, [HNext]_<<vars, history>> PROVE IdleInv'
  OBVIOUS
<1>1. TypeOK' BY TypeStep, HistorySteps DEF IdleInv
<1>2. CASE Elapse /\ quiet' = Later(quiet)
  <2>1. quiet' \in 0 .. SleepAfterMax BY <1>2, LaterRange DEF IdleInv
  <2>2. UNCHANGED <<pc, moved, sleepAfter>> BY <1>2 DEF Elapse, loop
  <2>3. idle' = Later(idle) BY <1>2 DEF Elapse
  <2>4. quiet >= idle => quiet' >= idle'
    BY <1>2, <2>3, ConfigAssumption DEF IdleInv, TypeOK, ClocksOK, Later
  <2>5. idle' >= idle BY <2>3, LaterRange DEF IdleInv, TypeOK, ClocksOK
  <2>6. idle >= sleepAfter => idle' >= sleepAfter'
    BY <1>1, <2>2, <2>5 DEF IdleInv, TypeOK, ClocksOK
  <2>. QED BY <1>1, <2>1, <2>2, <2>4, <2>6 DEF IdleInv
<1>3. ASSUME NEW d \in Devices, IODone(d), quiet' = 0 PROVE IdleInv'
  <2>1. moved' # {} /\ UNCHANGED <<pc, idle, sleepAfter>> BY <1>3 DEF IODone, clocks
  <2>. QED BY <1>1, <1>3, <2>1, ConfigAssumption DEF IdleInv
<1>4. CASE Loop /\ quiet' = quiet
  BY <1>1, <1>4, LoopKeepsIdleInv DEF IdleInv
<1>5. CASE UNCHANGED <<pc, moved, idle, sleepAfter, quiet>>
  BY <1>1, <1>5 DEF IdleInv
<1>6. ASSUME NEW d \in Devices, Command(d) \/ BackgroundIO(d)
      PROVE  UNCHANGED <<pc, moved, idle, sleepAfter>>
  BY <1>6 DEF Command, StopDisk, StopDiskFails, StartDisk, StartDiskFails, Obeyed, Answered,
     BackgroundIO, loop, clocks
<1>7. Cancel => UNCHANGED <<pc, moved, idle, sleepAfter>> BY DEF Cancel, clocks
<1>8. ASSUME NEW fs \in Filesystems,
             \/ \E D \in SUBSET Devices : AccessBegin(fs, D)
             \/ AccessEnd(fs) \/ Deliver(fs) \/ WatchFails(fs) \/ ReportError(fs)
      PROVE  UNCHANGED <<pc, moved, idle, sleepAfter>>
  BY <1>8 DEF AccessBegin, AccessEnd, Raise, Deliver, Arrive, WatchFails, Stop, ReportError,
       Report, loop, clocks
<1>9. Terminated \/ UNCHANGED <<vars, history>> => UNCHANGED <<pc, moved, idle, sleepAfter>>
  BY DEF Terminated, vars, loop, clocks
<1>. QED
  BY <1>2, <1>3, <1>4, <1>5, <1>6, <1>7, <1>8, <1>9 DEF HNext, history

\* Only RecheckQuiet sends the disks to sleep.
LEMMA StopIsQuiet ==
  ASSUME IdleInv, [HNext]_<<vars, history>>, pc = "recheck", pc' = "stop"
  PROVE  moved = {}
<1>1. [Next]_vars BY HistorySteps
<1> USE DEF loop, clocks
<1>2. CASE RecheckQuiet BY <1>2 DEF RecheckQuiet
<1>3. CASE World \/ Elapse \/ (\E d \in Devices : Command(d)) \/ UNCHANGED vars
  BY <1>3 DEF World, Elapse, Cancel, AccessBegin, AccessEnd, Raise,
       Deliver, Arrive, WatchFails, Stop, ReportError, Report,
     BackgroundIO, IODone, Command, StopDisk, StopDiskFails, StartDisk, StartDiskFails,
     Obeyed, Answered, vars
<1>4. CASE Loop /\ ~RecheckQuiet
  BY <1>4 DEF Loop, Begin, ReadFails, SelectCancel, SelectBroken, SelectEvent, PollIgnored,
     PollBusy, PollWaiting, PollIdle, Poll, Arm, Mark, ArmFails, RecheckBusy,
     CommandsFailed, StopDone,
     StartDone, CheckEvent, CheckBroken, CheckNone, Reread, Return
<1>. QED BY <1>1, <1>2, <1>3, <1>4 DEF Next, Terminated

\* The disks of a herd are told to stop only if no I/O has completed on any of
\* them for the whole current threshold.
THEOREM StopsOnlyWhenIdle == HSpec => IdleBeforeStop
<1>1. IdleInv /\ [HNext]_<<vars, history>>
        => [pc = "recheck" /\ pc' = "stop" => quiet >= sleepAfter]_<<vars, history>>
  BY StopIsQuiet DEF IdleInv, TypeOK, ClocksOK
<1>. QED BY IdleInit, IdleStep, <1>1, PTL DEF HSpec, IdleBeforeStop
-----------------------------------------------------------------------------
(* The back-off, whatever base and maximum.                                *)

ThresholdInv == TypeOK /\ short \in 0 .. SleepAfterMax /\ ThresholdCountsShortSleeps

\* One short sleep more is one base step more; as many as the counter holds reach
\* the maximum.
LEMMA BaseSteps ==
  /\ \A n \in Nat : (n + 1) * SleepAfter \in Nat
  /\ \A n \in Nat : (n + 1) * SleepAfter + SleepAfter = (n + 1 + 1) * SleepAfter
  /\ (SleepAfterMax + 1) * SleepAfter >= SleepAfterMax
<1>1. SleepAfter \in Nat /\ SleepAfterMax \in Nat /\ SleepAfter >= 1
  BY ConfigAssumption
<1>2. ASSUME NEW n \in Nat
      PROVE  /\ (n + 1) * SleepAfter \in Nat
             /\ (n + 1) * SleepAfter + SleepAfter = (n + 1 + 1) * SleepAfter
  BY <1>1
<1>3. (SleepAfterMax + 1) * SleepAfter >= SleepAfterMax
  BY <1>1
<1>. QED BY <1>2, <1>3

\* A wake changes the threshold and the count together.
LEMMA WakeCounts ==
  ASSUME ThresholdInv,
         sleepAfter' = NextSleepAfter(sleepAfter, SleepAfter, SleepAfterMax, slept),
         short' = IF slept >= sleepAfter THEN 0 ELSE Later(short)
  PROVE  short' \in 0 .. SleepAfterMax /\ ThresholdCountsShortSleeps'
<1> USE ConfigAssumption, WidthAssumption, MaxDurationAssumption
<1>1. sleepAfter \in SleepAfter .. SleepAfterMax /\ slept \in Nat /\ short \in 0 .. SleepAfterMax
  BY DEF ThresholdInv, TypeOK, ClocksOK
<1>2. CASE slept >= sleepAfter
  <2>1. sleepAfter' = SleepAfter /\ short' = 0
    BY <1>2 DEF NextSleepAfter
  <2>. QED BY <2>1, BaseSteps DEF ThresholdCountsShortSleeps
<1>3. CASE slept < sleepAfter /\ SleepAfterMax <= SleepAfter
  <2>1. sleepAfter' = SleepAfterMax
    BY <1>3 DEF NextSleepAfter
  <2>2. short' \in 0 .. SleepAfterMax
    BY <1>1, <1>3, LaterRange
  <2>3. (short' + 1) * SleepAfter >= SleepAfterMax
    BY <2>2, <1>3
  <2>. QED BY <2>1, <2>2, <2>3 DEF ThresholdCountsShortSleeps
<1>4. CASE slept < sleepAfter /\ SleepAfter < SleepAfterMax
  <2> DEFINE steps == (short + 1) * SleepAfter
  <2>1. steps \in Nat /\ steps + SleepAfter = (short + 1 + 1) * SleepAfter
    BY <1>1, BaseSteps
  <2>2. sleepAfter = IF steps < SleepAfterMax THEN steps ELSE SleepAfterMax
    BY DEF ThresholdInv, ThresholdCountsShortSleeps
  <2>3. sleepAfter' = IF sleepAfter + SleepAfter > SleepAfterMax THEN SleepAfterMax
                      ELSE sleepAfter + SleepAfter
    BY <1>1, <1>4 DEF NextSleepAfter, PlusDuration
  <2>4. sleepAfter' = IF steps + SleepAfter < SleepAfterMax THEN steps + SleepAfter
                      ELSE SleepAfterMax
    <3> HIDE DEF steps
    <3>. QED BY <2>1, <2>2, <2>3
  <2>5. CASE short < SleepAfterMax
    <3>1. short' = short + 1 BY <1>1, <1>4, <2>5 DEF Later, ThresholdInv, TypeOK, ClocksOK
    <3>. QED BY <1>1, <2>1, <2>4, <2>5, <3>1 DEF ThresholdCountsShortSleeps
  <2>6. CASE short = SleepAfterMax
    <3>1. short' = short BY <1>1, <1>4, <2>6 DEF Later, ThresholdInv, TypeOK, ClocksOK
    <3>2. steps >= SleepAfterMax BY <2>6, BaseSteps
    <3>3. sleepAfter' = SleepAfterMax
      <4> HIDE DEF steps
      <4>. QED BY <2>1, <2>4, <3>2
    <3>. QED BY <1>1, <2>6, <3>1, <3>2, <3>3 DEF ThresholdCountsShortSleeps
  <2>. QED BY <1>1, <2>5, <2>6
<1>. QED BY <1>1, <1>2, <1>3, <1>4

\* Only a wake changes the threshold.
LEMMA OnlyWakeAdapts ==
  ASSUME TypeOK, [HNext]_<<vars, history>>
  PROVE  IF pc # "start" /\ pc' = "start"
         THEN sleepAfter' = NextSleepAfter(sleepAfter, SleepAfter, SleepAfterMax, slept)
         ELSE sleepAfter' = sleepAfter
<1>1. [Next]_vars BY HistorySteps
<1> USE DEF loop, clocks
<1>2. CASE SelectEvent \/ CheckEvent
  BY <1>2 DEF SelectEvent, CheckEvent, Wake, SendAll
<1>3. CASE World \/ Elapse \/ (\E d \in Devices : Command(d)) \/ UNCHANGED vars
  BY <1>3 DEF World, Elapse, Cancel, AccessBegin, AccessEnd, Raise,
       Deliver, Arrive, WatchFails, Stop, ReportError, Report,
     BackgroundIO, IODone, Command, StopDisk, StopDiskFails, StartDisk, StartDiskFails,
     Obeyed, Answered, vars
<1>4. CASE Loop /\ ~SelectEvent /\ ~CheckEvent
  BY <1>4 DEF Loop, Begin, ReadFails, SelectCancel, SelectBroken, PollIgnored,
     PollBusy, PollWaiting, PollIdle, Poll, Arm, Mark, ArmFails, RecheckBusy,
     RecheckQuiet, SendAll,
     CommandsFailed, StopDone, StartDone, CheckBroken, CheckNone, Reread, Return
<1>. QED BY <1>1, <1>2, <1>3, <1>4 DEF Next, Terminated

LEMMA ThresholdInit == HInit => ThresholdInv
<1> SUFFICES ASSUME HInit PROVE ThresholdInv
  OBVIOUS
<1>1. TypeOK BY TypeInit DEF HInit
<1>2. sleepAfter = SleepAfter /\ short = 0 BY DEF HInit, Init
<1>. QED BY <1>1, <1>2, ConfigAssumption DEF ThresholdInv, ThresholdCountsShortSleeps

LEMMA ThresholdStep == ThresholdInv /\ [HNext]_<<vars, history>> => ThresholdInv'
<1> SUFFICES ASSUME ThresholdInv, [HNext]_<<vars, history>> PROVE ThresholdInv'
  OBVIOUS
<1>1. TypeOK' BY TypeStep, HistorySteps DEF ThresholdInv
<1>2. CASE pc # "start" /\ pc' = "start"
  <2>1. sleepAfter' = NextSleepAfter(sleepAfter, SleepAfter, SleepAfterMax, slept)
    BY <1>2, OnlyWakeAdapts DEF ThresholdInv
  <2>2. short' = IF slept >= sleepAfter THEN 0 ELSE Later(short)
    BY <1>2 DEF HNext, vars, loop
  <2>. QED BY <1>1, <2>1, <2>2, WakeCounts DEF ThresholdInv
<1>3. CASE ~(pc # "start" /\ pc' = "start")
  <2>1. sleepAfter' = sleepAfter BY <1>3, OnlyWakeAdapts DEF ThresholdInv
  <2>2. short' = short BY <1>3 DEF HNext, history
  <2>. QED BY <1>1, <2>1, <2>2 DEF ThresholdInv, ThresholdCountsShortSleeps
<1>. QED BY <1>2, <1>3

\* For every base and maximum the threshold is one base step per short sleep in a
\* row, up to the maximum, over any number of cycles.
THEOREM ThresholdIsBackOff == HSpec => []ThresholdCountsShortSleeps
<1>1. ThresholdInv => ThresholdCountsShortSleeps BY DEF ThresholdInv
<1>. QED BY ThresholdInit, ThresholdStep, <1>1, PTL DEF HSpec

LEMMA HistoryStep ==
  HistoryTypeOK /\ ThresholdInv /\ [HNext]_<<vars, history>> => HistoryTypeOK'
<1> SUFFICES ASSUME HistoryTypeOK, ThresholdInv, [HNext]_<<vars, history>>
             PROVE  HistoryTypeOK'
  OBVIOUS
<1>1. TypeOK' /\ short' \in 0 .. SleepAfterMax
  BY TypeStep, HistorySteps, ThresholdStep DEF ThresholdInv
<1>2. quiet' \in 0 .. SleepAfterMax
  <2>1. quiet' \in {quiet, 0, Later(quiet)}
    BY DEF HNext, history
  <2>. QED BY <2>1, LaterRange, ConfigAssumption DEF HistoryTypeOK
<1>3. resumed' \subseteq Devices
  <2>1. resumed' \in {resumed, {}, resumed \cup (busy' \ busy)}
    BY DEF HNext, history
  <2>2. busy' \subseteq Devices
    BY <1>1 DEF TypeOK, SetsOK
  <2>. QED BY <2>1, <2>2 DEF HistoryTypeOK
<1>. QED BY <1>1, <1>2, <1>3 DEF HistoryTypeOK

\* The history stays in its type with the loop; the threshold stays within base
\* and maximum over any number of cycles.
THEOREM HistoryTypeCorrect == HSpec => []HistoryTypeOK
<1>1. HInit => HistoryTypeOK
  BY TypeInit, ConfigAssumption DEF HInit, HistoryTypeOK
<1>. QED BY <1>1, ThresholdInit, ThresholdStep, HistoryStep, PTL DEF HSpec
=============================================================================
