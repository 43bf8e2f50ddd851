-------------------------- MODULE HerdCycleProofs --------------------------
(***************************************************************************)
(* Every herd whose host adapter errors are noticed keeps the promise of   *)
(* SleepCycle, as far as safety goes; every herd does those of HerdRun.    *)
(***************************************************************************)
EXTENDS HerdCycle, HerdProofs

Called == ready \/ broken \/ pipe \cup dead # {}

LEMMA CycleInit == Init => Cycle!Init
BY DEF Init, NoWatch, Cycle!Init, Mode, Ended

\* The loop returns: the cycle ends.
LEMMA ReturnEnds ==
  ASSUME LoopInv, NEW how \in {"canceled", "failed"}, Return(how), ~Ended
  PROVE  Cycle!End
BY DEF Return, CloseWatch, Cycle!End, Mode, Ended, disks

\* Each step of the loop is a step of the cycle or leaves it alone.
LEMMA LoopImplements ==
  ASSUME SpinInv, Loop
  PROVE  [Cycle!Next]_(Cycle!vars)
<1> USE DEF SpinInv, LoopInv, PhaseInv, Mode, Ended, loop, clocks, watch, commands, disks
<1>1. CASE ReadFails \/ SelectCancel \/ SelectBroken \/ ArmFails \/ CommandsFailed \/ CheckBroken
  <2>1. ~Ended
    BY <1>1 DEF ReadFails, SelectCancel, SelectBroken, ArmFails, CommandsFailed, CheckBroken
  <2>2. \E how \in {"canceled", "failed"} : Return(how)
    BY <1>1 DEF ReadFails, SelectCancel, SelectBroken, ArmFails, CommandsFailed, CheckBroken
  <2>. QED BY <2>1, <2>2, ReturnEnds DEF Cycle!Next
<1>2. CASE SelectEvent \/ CheckEvent
  <2>1. Cycle!Rouse
    BY <1>2 DEF SelectEvent, CheckEvent, Wake, SendAll, CloseWatch, Cycle!Rouse
  <2>. QED BY <2>1 DEF Cycle!Next
<1>3. CASE RecheckBusy
  <2>1. Cycle!Dismiss BY <1>3 DEF RecheckBusy, CloseWatch, Cycle!Dismiss
  <2>. QED BY <2>1 DEF Cycle!Next
<1>4. CASE RecheckQuiet
  <2>1. Cycle!Fall BY <1>4 DEF RecheckQuiet, SendAll, Cycle!Fall
  <2>. QED BY <2>1 DEF Cycle!Next
<1>5. CASE StopDone
  <2>1. Cycle!Sleep BY <1>5 DEF StopDone, Cycle!Sleep
  <2>. QED BY <2>1 DEF Cycle!Next
<1>6. CASE Reread
  <2>1. Cycle!Awake BY <1>6 DEF Reread, Cycle!Awake, DisksInv
  <2>. QED BY <2>1 DEF Cycle!Next
<1>7. CASE Begin \/ StartDone \/ CheckNone
  BY <1>7 DEF Begin, StartDone, CheckNone, Cycle!vars
<1>8. CASE PollIgnored \/ PollBusy \/ PollWaiting \/ PollIdle
  BY <1>8 DEF PollIgnored, PollBusy, PollWaiting, PollIdle, Poll, Cycle!vars
<1>9. ASSUME NEW fs \in Filesystems, Arm(fs) PROVE UNCHANGED Cycle!vars
  BY <1>9 DEF Arm, Mark, Cycle!vars
<1>. QED BY <1>1, <1>2, <1>3, <1>4, <1>5, <1>6, <1>7, <1>8, <1>9 DEF Loop

\* A command stops or starts its disk.
LEMMA CommandImplements ==
  ASSUME SpinInv, NEW d \in Devices, Command(d)
  PROVE  [Cycle!Next]_(Cycle!vars)
<1> USE DEF Obeyed, Answered, Mode, Ended, loop, clocks, watch
<1>1. CASE StopDisk(d) \/ StopDiskFails(d)
  <2>1. Cycle!Stop(d) \/ UNCHANGED Cycle!vars
    BY <1>1 DEF StopDisk, StopDiskFails, Cycle!Stop, Cycle!vars
  <2>. QED BY <2>1 DEF Cycle!Next
<1>2. CASE StartDisk(d) \/ StartDiskFails(d)
  <2>1. Cycle!Touch(d) \/ UNCHANGED Cycle!vars
    BY <1>2 DEF StartDisk, StartDiskFails, Cycle!Touch, Cycle!vars
  <2>. QED BY <2>1 DEF Cycle!Next
<1>. QED BY <1>1, <1>2 DEF Command

\* An event, or a reader that stops, is noticed; a disk that serves I/O is touched.
LEMMA WorldImplements ==
  ASSUME SpinInv, World \/ Elapse
  PROVE  [Cycle!Next]_(Cycle!vars)
<1> USE DEF SpinInv, LoopInv, PhaseInv, TypeOK, SetsOK, ControlOK, WatchMatchesState,
        Mode, Ended, loop, clocks, watch, commands, disks
<1>1. ASSUME UNCHANGED <<pc, state, up>>, Called => Called', ~Called /\ Called' => armed # {}
      PROVE  [Cycle!Next]_(Cycle!vars)
  <2>1. CASE Called
    BY <1>1, <2>1 DEF Called, Cycle!vars
  <2>2. CASE ~Called /\ Called'
    <3>1. Mode \in {"awake", "falling", "asleep"} BY <1>1, <2>2
    <3>2. UNCHANGED <<Mode, up>> BY <1>1
    <3>3. Cycle!Notice BY <2>2, <3>1, <3>2 DEF Called, Cycle!Notice
    <3>. QED BY <3>3 DEF Cycle!Next
  <2>3. CASE ~Called /\ ~Called'
    BY <1>1, <2>3 DEF Called, Cycle!vars
  <2>. QED BY <2>1, <2>2, <2>3
<1>2. CASE Elapse BY <1>2 DEF Elapse, Cycle!vars
<1>3. CASE Cancel BY <1>3 DEF Cancel, Cycle!vars
<1>4. ASSUME NEW fs \in Filesystems, NEW D \in SUBSET Devices, AccessBegin(fs, D)
      PROVE  UNCHANGED Cycle!vars
  BY <1>4 DEF AccessBegin, Cycle!vars
<1>5. ASSUME NEW fs \in Filesystems,
             AccessEnd(fs) \/ Deliver(fs) \/ WatchFails(fs) \/ ReportError(fs)
      PROVE  [Cycle!Next]_(Cycle!vars)
  <2>1. CASE AccessEnd(fs) BY <1>1, <2>1 DEF AccessEnd, Raise, Called
  <2>2. CASE Deliver(fs) BY <1>1, <2>2 DEF Deliver, Arrive, Called
  <2>3. CASE WatchFails(fs) BY <1>1, <2>3 DEF WatchFails, Stop, Called
  <2>4. CASE ReportError(fs) BY <1>1, <2>4 DEF ReportError, Report, Called
  <2>. QED BY <1>5, <2>1, <2>2, <2>3, <2>4
<1>6. ASSUME NEW d \in Devices, BackgroundIO(d) PROVE UNCHANGED Cycle!vars
  BY <1>6 DEF BackgroundIO, Cycle!vars
<1>7. ASSUME NEW d \in Devices, IODone(d) PROVE [Cycle!Next]_(Cycle!vars)
  <2>1. Cycle!Touch(d) BY <1>7 DEF IODone, Cycle!Touch
  <2>. QED BY <2>1 DEF Cycle!Next
<1>. QED BY <1>2, <1>3, <1>4, <1>5, <1>6, <1>7 DEF World

LEMMA CycleStep == SpinInv /\ [Next]_vars => [Cycle!Next]_(Cycle!vars)
<1> SUFFICES ASSUME SpinInv, [Next]_vars PROVE [Cycle!Next]_(Cycle!vars)
  OBVIOUS
<1>1. CASE UNCHANGED vars
  BY <1>1 DEF vars, Cycle!vars, Mode, Ended, loop, watch, disks
<1>. QED
  BY <1>1, LoopImplements, CommandImplements, WorldImplements DEF Next, Terminated

\* A herd of any size, under any fault that is reported, goes through sleep
\* cycles: together to sleep, up again only for an access, together awake.
THEOREM HerdImplementsCycle ==
  ASSUME "transport" \notin Faults
  PROVE  Spec => ImplementsSafeCycle
<1>1. SpinInv /\ [Next]_vars => SpinInv' BY SpinStep
<1>. QED BY CycleInit, SpinInit, <1>1, CycleStep, PTL DEF Spec, ImplementsSafeCycle, Cycle!Safe
-----------------------------------------------------------------------------
(* The life of a herd, as App.Run sees it.                                 *)

LEMMA LifeInit == Init => Life!Init
BY DEF Init, Life!Init, Ended

\* Only the steps that return and the cancellation are seen from outside.
LEMMA LifeStep == [Next]_vars => [Life!Next]_(Life!vars)
<1> SUFFICES ASSUME [Next]_vars PROVE [Life!Next]_(Life!vars)
  OBVIOUS
<1>1. CASE ReadFails \/ SelectBroken \/ ArmFails \/ CommandsFailed \/ CheckBroken
  <2>1. ~Ended /\ Return("failed")
    BY <1>1 DEF ReadFails, SelectBroken, ArmFails, CommandsFailed, CheckBroken, Ended
  <2>2. Life!Fail
    BY <2>1 DEF Return, Life!Fail, Ended
  <2>. QED BY <2>2 DEF Life!Next
<1>2. CASE SelectCancel
  <2>1. Life!SeeCancel
    BY <1>2 DEF SelectCancel, Return, Life!SeeCancel, Ended
  <2>. QED BY <2>1 DEF Life!Next
<1>3. CASE Cancel
  <2>1. Life!Cancel
    BY <1>3 DEF Cancel, Life!Cancel, Ended
  <2>. QED BY <2>1 DEF Life!Next
<1>4. ASSUME UNCHANGED <<pc, cancelled>> PROVE [Life!Next]_(Life!vars)
  BY <1>4 DEF Life!vars, Ended
<1>5. ASSUME ~Ended, ~Ended', UNCHANGED cancelled PROVE [Life!Next]_(Life!vars)
  BY <1>5 DEF Life!vars
<1>6. CASE Begin \/ SelectEvent \/ PollIgnored \/ PollBusy \/ PollWaiting \/ PollIdle
           \/ RecheckBusy \/ RecheckQuiet \/ StopDone \/ StartDone \/ CheckEvent \/ CheckNone
           \/ Reread \/ \E fs \in Filesystems : Arm(fs)
  BY <1>5, <1>6 DEF Begin, SelectEvent, PollIgnored, PollBusy, PollWaiting, PollIdle, Poll,
       RecheckBusy, RecheckQuiet, StopDone, StartDone, CheckEvent, CheckNone, Reread, Arm, Mark,
       Wake, SendAll, Ended
<1>7. CASE World
  BY <1>3, <1>4, <1>7 DEF World, AccessBegin, AccessEnd, Raise,
       Deliver, Arrive, WatchFails, Stop, ReportError, Report,
       BackgroundIO, IODone, loop
<1>8. CASE Elapse \/ \E d \in Devices : Command(d)
  BY <1>4, <1>8 DEF Elapse, Command, StopDisk, StopDiskFails, StartDisk, StartDiskFails,
       Answered, loop
<1>9. CASE Terminated \/ UNCHANGED vars
  BY <1>4, <1>9 DEF Terminated, vars, loop
<1>. QED BY <1>1, <1>2, <1>3, <1>6, <1>7, <1>8, <1>9 DEF Next, Loop

\* Whatever fails and in whatever order things come, a herd ends once, and ends
\* as cancelled only if its context was done: what App.Run relies on to tell a
\* failure from the end of the others.
THEOREM HerdImplementsRun == Spec => ImplementsSafeRun
BY LifeInit, LifeStep, PTL DEF Spec, ImplementsSafeRun, Life!Safe
=============================================================================
