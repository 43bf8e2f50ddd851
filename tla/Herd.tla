-------------------------------- MODULE Herd --------------------------------
(***************************************************************************)
(* One herd: the loop of runHerd (app.go) with the DiskManager that sends  *)
(* its START STOP UNIT commands, the diskstats counters it samples, its    *)
(* fanotify watch, its ticker, and the processes and disks it serves.      *)
(*                                                                         *)
(* The watch is HerdWatch, which WatchSet implements: an event of a marked *)
(* filesystem is on its way to the loop (pipe) or in set.events (ready).   *)
(* Time is counted in units; a clock stops at SleepAfterMax, the greatest  *)
(* value the code compares one with.                                       *)
(***************************************************************************)
EXTENDS Integers, SleepPolicy, HerdWatch

CONSTANTS
  Devices,        \* the disks of the herd, with Filesystems mounted on them
  SleepAfter,     \* --sleep-after
  SleepAfterMax,  \* --sleep-after-max
  PollInterval,   \* --poll-interval
  Faults          \* what may go wrong, a subset of AllFaults

\* background: I/O no fanotify event announces (write-back, statfs, SMART).
\* transport: a command the host adapter fails; only hdr.MaskedStatus is
\* checked, so the error goes unseen.  The others name the step that fails.
AllFaults == {"read", "arm", "watch", "stop", "start", "transport", "background"}

ASSUME DevicesAssumption == Devices # {}
ASSUME FilesystemsAssumption == Filesystems # {}
ASSUME FaultsAssumption == Faults \subseteq AllFaults
\* What parseDaemonConfig accepts (main.go).
ASSUME ConfigAssumption ==
  /\ SleepAfter \in Nat \ {0} /\ SleepAfterMax \in Nat \ {0}
  /\ PollInterval \in Nat \ {0}
  /\ PollInterval <= SleepAfter /\ SleepAfter <= SleepAfterMax
\* The sum nextSleepAfter computes does not wrap.
ASSUME WidthAssumption == SleepAfter + SleepAfterMax <= MaxDuration

VARIABLES
  pc,          \* where the loop is
  state,       \* state
  sleepAfter,  \* currentSleepAfter
  idle,        \* time since lastBusy
  slept,       \* time since sleepStartedAt
  moved,       \* disks with a tracked counter that differs from prev
  tick,        \* ticker.C holds a tick
  phase,       \* time since the ticker last fired
  cancelled    \* ctx is done
loop == <<pc, state, sleepAfter, moved, cancelled>>
clocks == <<idle, slept, phase, tick>>

VARIABLES
  todo,        \* disks whose command has not returned
  failed,      \* a command returned an error
  up,          \* disks that spin
  busy,        \* disks with I/O in flight
  calls        \* filesystems with a system call in progress
commands == <<todo, failed>>
disks == <<up, busy, calls>>

vars == <<loop, clocks, watch, commands, disks>>

Ended == pc \in {"canceled", "failed"}

\* A clock one unit later.
Later(clock) == IF clock < SleepAfterMax THEN clock + 1 ELSE clock

Init ==
  /\ pc = "init" /\ state = "active" /\ sleepAfter = SleepAfter
  /\ idle = 0 /\ slept = 0 /\ phase = 0 /\ tick = FALSE
  /\ moved = {} /\ cancelled = FALSE
  /\ NoWatch
  /\ todo = {} /\ failed = FALSE
  /\ up \in SUBSET Devices /\ busy = {} /\ calls = {}
-----------------------------------------------------------------------------
(* The loop.                                                               *)

\* runHerd returns, and its deferred call closes the watch.
Return(how) ==
  /\ pc' = how /\ CloseWatch
  /\ UNCHANGED <<state, sleepAfter, moved, cancelled, clocks, commands, disks>>

Begin ==
  /\ pc = "init"
  /\ pc' = "select" /\ moved' = {}
  /\ idle' = 0 /\ phase' = 0 /\ tick' = FALSE
  /\ UNCHANGED <<state, sleepAfter, slept, cancelled, watch, commands, disks>>

\* A read of diskstats fails: at the start, on a tick, after arming, after waking.
ReadFails ==
  /\ "read" \in Faults
  /\ \/ pc \in {"init", "recheck", "reread"}
     \/ pc = "select" /\ tick /\ state = "active"
  /\ Return("failed")

\* Mutant of SelectCancel: a sleeping herd does not listen to the context.
SelectCancelAwake ==
  /\ pc = "select" /\ cancelled /\ state = "active"
  /\ Return("canceled")

SelectCancel ==
  /\ pc = "select" /\ cancelled
  /\ Return("canceled")

SelectBroken ==
  /\ pc = "select" /\ broken
  /\ Return("failed")

\* The select takes the tick.
Poll ==
  /\ pc = "select" /\ tick
  /\ tick' = FALSE
  /\ UNCHANGED <<state, sleepAfter, slept, phase, cancelled, watch, commands, disks>>

PollIgnored ==
  /\ Poll /\ state # "active"
  /\ UNCHANGED <<pc, moved, idle>>

\* Mutant of PollBusy: lastBusy is not moved.
PollBusyKeepsClock ==
  /\ Poll /\ state = "active" /\ moved # {}
  /\ moved' = {}
  /\ UNCHANGED <<pc, idle>>

\* Mutant of PollBusy: prev is not replaced.
PollBusyKeepsPrev ==
  /\ Poll /\ state = "active" /\ moved # {}
  /\ idle' = 0
  /\ UNCHANGED <<pc, moved>>

PollBusy ==
  /\ Poll /\ state = "active" /\ moved # {}
  /\ moved' = {} /\ idle' = 0
  /\ UNCHANGED pc

PollWaiting ==
  /\ Poll /\ state = "active" /\ moved = {} /\ idle < sleepAfter
  /\ UNCHANGED <<pc, moved, idle>>

PollIdle ==
  /\ Poll /\ state = "active" /\ moved = {} /\ idle >= sleepAfter
  /\ pc' = "arm"
  /\ UNCHANGED <<moved, idle>>

\* NewFanotifySet marks one filesystem after another, in the order of a map.
Arm(fs) ==
  /\ pc = "arm" /\ Mark(fs)
  /\ IF armed' = Filesystems
     THEN pc' = "recheck" /\ state' = "arming"
     ELSE UNCHANGED <<pc, state>>
  /\ UNCHANGED <<sleepAfter, moved, cancelled, clocks, commands, disks>>

ArmFails ==
  /\ pc = "arm" /\ "arm" \in Faults
  /\ Return("failed")

\* Mutant of RecheckBusy: the watch stays open.
RecheckBusyKeepsWatch ==
  /\ pc = "recheck" /\ moved # {}
  /\ moved' = {} /\ idle' = 0
  /\ state' = "active" /\ pc' = "select"
  /\ UNCHANGED <<sleepAfter, slept, phase, tick, cancelled, watch, commands, disks>>

\* The second sample finds activity: the disks stay awake.
RecheckBusy ==
  /\ pc = "recheck" /\ moved # {}
  /\ moved' = {} /\ idle' = 0
  /\ CloseWatch
  /\ state' = "active" /\ pc' = "select"
  /\ UNCHANGED <<sleepAfter, slept, phase, tick, cancelled, commands, disks>>

\* runParallel sends one command to every disk, all at once.
SendAll(next) ==
  /\ todo' = Devices /\ failed' = FALSE /\ pc' = next

RecheckQuiet ==
  /\ pc = "recheck" /\ moved = {}
  /\ SendAll("stop")
  /\ UNCHANGED <<state, sleepAfter, moved, cancelled, clocks, watch, disks>>

\* The command of disk d returns, with an error or without.
Answered(d, error) ==
  /\ d \in todo
  /\ todo' = todo \ {d}
  /\ failed' = (failed \/ error)
  /\ UNCHANGED <<loop, clocks, watch, busy, calls>>

\* The disks that may spin after a command the code takes for done and that
\* asks for `asked`: the host adapter may have failed it without being heard.
Obeyed(asked) ==
  {asked} \cup {up : fault \in Faults \cap {"transport"}}

StopDisk(d) ==
  /\ pc = "stop"
  /\ Answered(d, FALSE)
  /\ up' \in Obeyed(up \ {d})

\* The command fails; the disk may have obeyed it.
StopDiskFails(d) ==
  /\ pc = "stop" /\ "stop" \in Faults
  /\ Answered(d, TRUE)
  /\ up' \in {up, up \ {d}}

StartDisk(d) ==
  /\ pc = "start"
  /\ Answered(d, FALSE)
  /\ up' \in Obeyed(up \cup {d})

StartDiskFails(d) ==
  /\ pc = "start" /\ "start" \in Faults
  /\ Answered(d, TRUE)
  /\ up' \in {up, up \cup {d}}

CommandsFailed ==
  /\ pc \in {"stop", "start"} /\ todo = {} /\ failed
  /\ Return("failed")

\* Mutant of StopDone: the first answer is taken for all of them.
StopDoneEarly ==
  /\ pc = "stop" /\ todo # Devices /\ ~failed
  /\ slept' = 0 /\ state' = "sleeping" /\ pc' = "check"
  /\ UNCHANGED <<sleepAfter, moved, cancelled, idle, phase, tick, watch, commands, disks>>

\* Mutant of StopDone: the watch is renewed after the spin-down.
StopDoneRearms ==
  /\ pc = "stop" /\ todo = {} /\ ~failed
  /\ slept' = 0 /\ state' = "sleeping" /\ pc' = "check"
  /\ pipe' = {} /\ dead' = {} /\ ready' = FALSE /\ broken' = FALSE
  /\ UNCHANGED <<sleepAfter, moved, cancelled, idle, phase, tick, armed, commands, disks>>

StopDone ==
  /\ pc = "stop" /\ todo = {} /\ ~failed
  /\ slept' = 0 /\ state' = "sleeping" /\ pc' = "check"
  /\ UNCHANGED <<sleepAfter, moved, cancelled, idle, phase, tick, watch, commands, disks>>

\* Both selects wake alike: the threshold adapts to the time since
\* sleepStartedAt, the watch closes, then every disk is started.
Wake ==
  /\ state = "sleeping" /\ ready
  /\ sleepAfter' = NextSleepAfter(sleepAfter, SleepAfter, SleepAfterMax, slept)
  /\ CloseWatch
  /\ SendAll("start")
  /\ UNCHANGED <<state, moved, cancelled, clocks, disks>>

\* The select with a default right after the spin-down.
CheckEvent  == pc = "check" /\ Wake
CheckBroken == pc = "check" /\ broken /\ Return("failed")
CheckNone ==
  /\ pc = "check" /\ ~ready /\ ~broken
  /\ pc' = "select"
  /\ UNCHANGED <<state, sleepAfter, moved, cancelled, clocks, watch, commands, disks>>

SelectEvent == pc = "select" /\ Wake

\* Mutant of StartDone: the first answer is taken for all of them.
StartDoneEarly ==
  /\ pc = "start" /\ todo # Devices /\ ~failed
  /\ pc' = "reread"
  /\ UNCHANGED <<state, sleepAfter, moved, cancelled, clocks, watch, commands, disks>>

StartDone ==
  /\ pc = "start" /\ todo = {} /\ ~failed
  /\ pc' = "reread"
  /\ UNCHANGED <<state, sleepAfter, moved, cancelled, clocks, watch, commands, disks>>

Reread ==
  /\ pc = "reread"
  /\ moved' = {} /\ idle' = 0 /\ slept' = 0
  /\ state' = "active" /\ pc' = "select"
  /\ UNCHANGED <<sleepAfter, cancelled, phase, tick, watch, commands, disks>>

Loop ==
  \/ Begin \/ ReadFails
  \/ SelectCancel \/ SelectBroken \/ SelectEvent
  \/ PollIgnored \/ PollBusy \/ PollWaiting \/ PollIdle
  \/ (\E fs \in Filesystems : Arm(fs)) \/ ArmFails
  \/ RecheckBusy \/ RecheckQuiet
  \/ CommandsFailed \/ StopDone \/ StartDone
  \/ CheckEvent \/ CheckBroken \/ CheckNone
  \/ Reread

Command(d) ==
  \/ StopDisk(d) \/ StopDiskFails(d)
  \/ StartDisk(d) \/ StartDiskFails(d)
-----------------------------------------------------------------------------
(* The world around it: time, signals, processes, disks, the watch.        *)

Elapse ==
  /\ ~Ended
  /\ idle' = Later(idle)
  /\ slept' = IF state = "sleeping" THEN Later(slept) ELSE 0
  /\ phase' = (phase + 1) % PollInterval
  /\ tick' = (tick \/ phase' = 0)
  /\ UNCHANGED <<loop, watch, commands, disks>>

Cancel ==
  /\ ~Ended /\ ~cancelled
  /\ cancelled' = TRUE
  /\ UNCHANGED <<pc, state, sleepAfter, moved, clocks, watch, commands, disks>>

\* A process enters a system call that needs I/O on the disks D.
AccessBegin(fs, D) ==
  /\ ~Ended /\ fs \notin calls
  /\ calls' = calls \cup {fs} /\ busy' = busy \cup D
  /\ UNCHANGED <<loop, clocks, watch, commands, up>>

\* The call returns, its I/O done or left to the page cache, and raises its
\* event if the filesystem carries a mark.
AccessEnd(fs) ==
  /\ ~Ended /\ fs \in calls
  /\ calls' = calls \ {fs}
  /\ IF fs \in armed \ dead THEN Raise(fs) ELSE UNCHANGED watch
  /\ UNCHANGED <<loop, clocks, commands, up, busy>>

BackgroundIO(d) ==
  /\ ~Ended /\ "background" \in Faults
  /\ busy' = busy \cup {d}
  /\ UNCHANGED <<loop, clocks, watch, commands, up, calls>>

\* I/O completes: the disk spins and a tracked counter moves.
IODone(d) ==
  /\ ~Ended /\ d \in busy
  /\ busy' = busy \ {d} /\ up' = up \cup {d} /\ moved' = moved \cup {d}
  /\ UNCHANGED <<pc, state, sleepAfter, cancelled, clocks, watch, commands, calls>>

\* Mutant of Deliver: set.events has no buffer, and the loop is not at its select.
DeliverDrops(fs) ==
  /\ ~Ended /\ fs \in pipe
  /\ pipe' = pipe \ {fs} /\ ready' = (ready \/ pc = "select")
  /\ UNCHANGED <<loop, clocks, armed, dead, broken, commands, disks>>

\* The goroutines of the watch.
Deliver(fs) == Arrive(fs) /\ UNCHANGED <<loop, clocks, commands, disks>>
WatchFails(fs) ==
  /\ "watch" \in Faults /\ Stop(fs)
  /\ UNCHANGED <<loop, clocks, commands, disks>>
ReportError(fs) == Report(fs) /\ UNCHANGED <<loop, clocks, commands, disks>>

World ==
  \/ Cancel
  \/ \E fs \in Filesystems :
       \/ \E D \in SUBSET Devices : AccessBegin(fs, D)
       \/ AccessEnd(fs) \/ Deliver(fs) \/ WatchFails(fs) \/ ReportError(fs)
  \/ \E d \in Devices : BackgroundIO(d) \/ IODone(d)

Terminated == Ended /\ UNCHANGED vars

Next ==
  \/ Loop \/ World \/ Elapse \/ Terminated
  \/ \E d \in Devices : Command(d)

Spec == Init /\ [][Next]_vars

\* Goroutines are scheduled, disks and system calls finish, a command returns
\* (the sg driver bounds it by its default timeout), and select takes each of
\* its ready cases with some chance.  The chance is all SelectCancel has: the
\* loop leaves the select and comes back to it, hence the strong fairness.
Fairness ==
  /\ WF_vars(Elapse) /\ WF_vars(Loop)
  /\ WF_vars(SelectEvent) /\ WF_vars(SelectBroken) /\ SF_vars(SelectCancel)
  /\ \A d \in Devices : WF_vars(Command(d)) /\ WF_vars(IODone(d))
  /\ \A fs \in Filesystems : WF_vars(AccessEnd(fs))
  /\ WatchFairness

FairSpec == Spec /\ Fairness
-----------------------------------------------------------------------------
ClocksOK ==
  /\ sleepAfter \in SleepAfter .. SleepAfterMax
  /\ idle \in 0 .. SleepAfterMax /\ slept \in 0 .. SleepAfterMax
  /\ phase \in 0 .. PollInterval - 1

ControlOK ==
  /\ pc \in {"init", "select", "arm", "recheck", "stop", "check", "start",
             "reread", "canceled", "failed"}
  /\ state \in {"active", "arming", "sleeping"}
  /\ tick \in BOOLEAN /\ cancelled \in BOOLEAN /\ failed \in BOOLEAN
  /\ ready \in BOOLEAN /\ broken \in BOOLEAN

SetsOK ==
  /\ moved \subseteq Devices /\ todo \subseteq Devices
  /\ up \subseteq Devices /\ busy \subseteq Devices
  /\ armed \subseteq Filesystems /\ calls \subseteq Filesystems
  /\ dead \subseteq armed /\ pipe \subseteq armed

TypeOK == ClocksOK /\ ControlOK /\ SetsOK

\* The watch follows the state: it covers every filesystem of the herd from the
\* second sample until a wake is decided; while the loop is active, starts disks
\* or is over, nothing is armed and nothing of an earlier watch is left to select.
WatchMatchesState ==
  /\ pc \in {"recheck", "stop", "check"} \/ (pc = "select" /\ state = "sleeping")
       => armed = Filesystems
  /\ pc \in {"init", "start", "reread"} \/ (pc = "select" /\ state = "active") \/ Ended
       => armed = {} /\ ~ready /\ ~broken

\* A disk that spins while its herd sleeps owes it to I/O that completed on it
\* after the second sample (StopAll left none out), unless its command got lost.
AsleepUnlessTouched ==
  pc = "check" \/ (pc = "select" /\ state = "sleeping") => up \subseteq moved

\* No herd turns active again before every disk of it has been started.
WakesAsHerd == [][state = "sleeping" /\ state' = "active" => up' = Devices]_vars

\* A herd that is asleep, or about to be, serves an access it was told of: it
\* wakes every disk or the loop ends.
AccessWakesHerd ==
  (pc \in {"stop", "check", "select"} /\ pipe # {}) ~>
    (pc = "select" /\ state = "active" /\ up = Devices) \/ Ended

\* A herd nobody uses any more goes to sleep and stays asleep.
QuietHerdSleeps == <>[](calls = {} /\ busy = {}) => <>[](state = "sleeping" \/ Ended)
=============================================================================
