# spinherd in TLA+

spinherd spins rotational disks down together when nobody uses them and wakes
them together on the next access. This directory holds TLA+ models of the
program, TLC runs that check them on small instances, and TLAPS proofs of every
safety property those runs check. Line numbers refer to the sources beside this directory.

## The system

| component | source | state | operations |
| --- | --- | --- | --- |
| herd loop | `app.go` `runHerd` | `state`, `prev`, `lastBusy`, `currentSleepAfter`, `sleepStartedAt`, `watchers`, the ticker | take a tick, an event, a watch error, the cancellation; sample; arm; stop; wake |
| adaptive threshold | `app.go` `nextSleepAfter` | none | threshold of the next cycle |
| disk commands | `app.go` `DiskManager`, `scsi_linux.go` | one goroutine per disk | `StopAll`, `StartAll` |
| diskstats sampler | `diskstats.go` | none | read a sample, compare two |
| watch set | `app.go` `FanotifySet`, `fanotify_linux.go` | per filesystem a kernel group, `readLoop`, a channel, `forward`; `set.events`, `set.errs`, `set.done` | arm, read, filter, forward, report, close |
| planner | `auto.go`, `mounts.go`, `block.go`, `groupHerds` | none kept | mounts and swaps to herds |
| supervisor | `app.go` `App.Run` | `errCh`, `done`, the context | start the herds, take an error, cancel, wait |
| command line | `main.go` | the configuration | parse flags, check them, run the command, exit |
| debug commands | `debug.go` | one goroutine per disk, a watch set | show a plan, watch events, stop and start disks |
| system install | `system_install.go` | files, systemd | copy the binary, write the unit, call systemctl |

`main` parses the command line and runs one command; its error decides the exit
status. Under `daemon` it is `App.Run`, which asks the planner for herds and runs one
loop per herd, in a goroutine. A loop samples diskstats on each tick. After
`currentSleepAfter` without completed I/O it arms a watch set, samples once more, and
stops all disks. While asleep it ignores ticks and waits for the watch set. An event
closes the set, adapts the threshold, starts all disks and begins a new idle cycle.
Any failure it is told of ends the loop, its error goes into `errCh`, and `App.Run` cancels the
other herds, waits for them and returns; systemd restarts the daemon.

The loop shares no memory with its goroutines. What makes it hard is what runs
beside it: processes that use the disks at any moment, I/O that no event
announces, commands that answer in any order or not as they should, two goroutines
per filesystem with bounded channels that drop, a kernel queue that overflows, a
reader that stops, a tick that waits in its channel, and a select that may take
any of its ready cases. PROJECT.json lists these hazards one by one.

What each component owes:

- loop: stop only after a full idle threshold; never lose an access that comes
  during the way down; be active only with every disk up, failures below the
  SCSI status aside; be asleep with a disk up only if something used that disk; return when cancelled; sleep when unused.
- threshold: one base step per short sleep in a row, capped, reset by a long one.
- watch set: overflow and drops never cost the wake; no wake by the daemon's own
  accesses; a stopped reader is reported; closing ends the goroutines, a reader that waits with
  the next access.
- planner: exactly the eligible mounts, each with its disks; no disk of `/` or
  of swap; failure only if something in use cannot be resolved to disks (zram
  swap included) or a swap file is on `/`.
- supervisor: every herd's error finds room in `errCh`, and Run returns nil only if
  its caller cancelled it or every herd failed; one failure or a signal ends
  everything; no herd and no command to a disk is left when it returns.
- disk commands: the daemon tries every disk and waits for every answer; both callers
  return nil only if every disk took its command, failures below the SCSI status
  excepted, and an error only if there was one; nothing is sent to an sg node that
  is in doubt.
- command line: an accepted daemon gets the durations and lists the user gave, except
  for durations that wrap and flags behind a stray word; what a status of 0 tells is
  known, with the exceptions listed under "Known limits".
- debug fanotify: its output never feeds it; it shows accesses; it ends.
- system install: no crash or failure leaves half a binary, or a unit without one;
  running it again completes it.

## Modules

`SleepPolicy` is `nextSleepAfter` as an operator. Durations have a fixed width:
a sum above `MaxDuration` wraps to a negative number.

`Herd` is the core. `pc` says where `runHerd` is:

| `pc` | code |
| --- | --- |
| `init` | before the first sample (`app.go:89`) |
| `select` | the select of the loop (115) |
| `arm` | in `NewFanotifySet` (190) |
| `recheck` | before the second sample (198) |
| `stop`, `start` | in `StopAll` (214), `StartAll` (137, 230) |
| `check` | the select with a default after the spin-down (220) |
| `reread` | before the sample after a wake (140, 233) |
| `canceled`, `failed` | returned |

`moved` is the difference between the counters and `prev`: disks that completed
I/O since `prev` was sampled. `idle`, `slept` and `phase` are the ages of `lastBusy`,
of `sleepStartedAt` and of the last tick. `armed`, `pipe`, `dead`, `ready` and
`broken` are the watch set as the loop sees it (`HerdWatch`). `todo` and `failed` are
`runParallel`. `up`, `busy` and `calls` are the disks and the processes. A process
begins a call (`AccessBegin`), its I/O completes (begins a call (`AccessBegin`), its I/O completes (`IODone`), the call returns and
raises its event (`AccessEnd`); `BackgroundIO` raises none. The constant `Faults`
says which calls may fail. Two branches of the code are left out because the
channels they look at are never closed: the `!ok` cases of `app.go:119`, 151, 222
and 244 (`set.events` and `set.errs` have no `close`), and with them the
`continue` for an event in the active state, when `watchers` is nil and the case
of the select is disabled.

`HerdHistory` adds history variables to `Herd`: the true quiet time of the disks,
the disks on which I/O resumed during arming, the short sleeps in a row.

`SleepCycle` is the abstract specification: five modes, disks stopped together and
only on the way to sleep, woken by a noticed access and by nothing else, awake
again only with every disk up. `HerdRun` is what `App.Run` relies on of a herd: it
runs until it fails or its context is done, and then it returns. `HerdCycle` maps
`Herd` to both: to `SleepCycle` by the mode (the watch counts as noticed accesses),
to `HerdRun` by its end.

`HerdWatch` is what a watch set promises the loop: per filesystem, what may be armed,
raised, delivered, stopped and reported, and what must be in the end. `Herd` EXTENDS
it: its actions change the watch through those of `HerdWatch` and in no other way, and
its fairness of the watch is that of `HerdWatch`. So what is shown of `Herd` holds with
every watch that implements `HerdWatch`.

`WatchSet` details what `Herd` abstracts as `pipe`, `ready`, `dead` and `broken`: one
`FanotifySet` from arming to the end of its goroutines, the kernel queue with its
overflow record, batches, both channels, both selects of each goroutine, the order in
which `closeWatcherSet` closes things, and readers that a close does not wake.
`HerdWatch` lets an event take any time and stay behind others (`Arrive`), and loses
what the kernel holds when a reader stops.

`WatchRefinement` maps `WatchSet` to `HerdWatch`: an event of a filesystem is in `pipe`
while one of another process is in its queue, its batch, its channel or at its
forwarder; the filesystem is `dead` once its reader has stopped; a set the loop has
decided to close is closed.

`WatchFD` follows several sets of one filesystem in succession and the descriptor
table they share. `Close` frees the number of a set while its `readLoop` may be in
a read or busy with a batch; the next set, or `/proc/diskstats`, gets the lowest
free number, and the stale reader reads from whatever it refers to by then: another
group, nothing (`EBADF`), a file that answers, or an sg node, where it may wait for
ever (`ReadBlocks`; `file.Fd()` at `scsi_linux.go:106` made that descriptor blocking).
`forward` is a receiver at the end of `w.events`.

`DebugFanotify` is `debugFanotify` on top of `WatchSet`: its loop prints each event
instead of closing the set, and its output may lie on a watched filesystem.

`Daemon` is `App.Run`: the herds' goroutines, `errCh`, `done`, the select, the two
contexts. A herd is what `HerdRun` says. `errCh` is a set: which of several errors
Run takes first makes no difference to it.

`DiskCommands` is one call after another of `runParallel` (`caller = "daemon"`) or
of `debugStartStopAll` (`caller = "debug"`): the loop that launches, the lookup of
the sg node (in the goroutine or in the loop), the command, the channel of results.
A command may also fail in the host adapter or the driver and be answered with nil
(`lost`). When `debugStartStopAll` returns early its goroutines go on (`Abort`) until
the process has ended. `Herd` has the daemon's call as one step per disk that answers.

`Config` is the parsing of flags and the checks after it; a duration is a count
times a unit in a fixed width. Parsing ends at the first word that is not a flag;
what follows it is ignored, and only `system-install` checks that nothing is left
(`main.go:106`). `Install` is `system-install` on a file system that keeps changes of
directories in order but may lose the latest of them, and the contents of files
nobody synced. A signal may come at any moment: the copy does not look at the context,
and each of the three systemctl calls may be kept from starting or killed by it, having
done its work or not; the command then ends as `canceled`, with status 0.

`Spinherd` composes these four along `main.go`: a process parses, runs one command
and exits. Under `daemon` one herd, `Driven`, is shown with the calls of `StopAll`
and `StartAll` it makes: while it is in a call it looks neither at its context nor
at anything else, and an error of the call ends it. `debug spindown` makes call
after call, and returns on an error with goroutines still running, which the end of
the process then ends. `system-install` may be cut short by a crash and be run
again by a new process.

`Plan` is `planHerds`: effective mounts, root, swaps one by one, mounts one by one,
grouping; and the manual mode. The device tree, the tables and the lists are
constants or initial choices. A path is a sequence of components, so that the
prefix test of `findContainingMount` keeps its behaviour, that of `/` included.

`MCHerd`, `MCWatchSet`, `MCPlan` and `MCSpinherd` give constants for TLC.
`HerdProofs`, `HerdCycleProofs`, `WatchSetProofs`, `WatchFDProofs`, `DaemonProofs`,
`DiskCommandsProofs`, `SpinherdProofs` and `PlanProofs` hold the theorems. Operators
named after another one with a suffix, and commented "Mutant of", are faulty variants
of the code; no specification uses them, and each shows that a property can fail.

## Runs

| run | shows | bounds |
| --- | --- | --- |
| `herd` (`MCHerd.cfg`) | `WatchMatchesState`, `HistoryTypeOK`, `ThresholdCountsShortSleeps`, `IdleBeforeStop` | 2 disks, 2 filesystems, threshold 1, maximum 2, poll 1, width 4; faults `arm`, `watch`, `background`, `transport`; symmetry |
| `herd_cycle` (`HerdCycle.cfg`) | `ImplementsCycle`, `ImplementsRun`, `AccessWakesHerd`, `QuietHerdSleeps`, `WakesAsHerd`, `AsleepUnlessTouched` | 2 disks, 1 filesystem, threshold and maximum 1, every fault but `transport` |
| `watch` (`MCWatchSet.cfg`) | `TypeOK`, `NoWakeLost`, `ImplementsSafeWatch` | 2 filesystems, every buffer of size 1, reads may fail; symmetry |
| `watch_live` (`WatchSet.cfg`) | `NoSelfWake`, `AccessReachesLoop`, `ImplementsWatch`, `CloseEndsGoroutines` | 1 filesystem, kernel queue 3, channels 1, reads may fail |
| `watch_fd` (`WatchFD.cfg`) | `OpenSetKeepsNumber`, `OnlyReuseSteals`, `AccessesWakeHerd`, `ClosedSetsFreed` | 2 sets, 2 numbers, kernel queue 2, channel 1 |
| `debug_fanotify` (`DebugFanotify.cfg`) | `NoFeedback`, `AccessShown`, `StoppedWatcherEnds`, `InterruptEnds` | as `watch_live` |
| `plan` (`MCPlan.cfg`) | `PlanIsExact`, `PlanFailsForRootSwap` | 10 block devices, up to 3 mounts and one table of 4, 6 swap tables |
| `spinherd` (`Spinherd.cfg`) | of the supervisor `ErrorsKept`, `SilentEndMeansAllFailed`, `NoHerdOutlivesRun`, `OneFailureEndsAll`, `SignalEnds`; of the commands `AllTriedAndAnswered`, `ErrorTellsFailure`; of the command line `AcceptedIsMeant`; of the install `ServiceHasBinary`, `CompletedBoots`, `Recovers`; of the whole `NoCommandOutlivesRun`, `ExitZeroMeansDone` | 2 herds; 2 names, one of them a partition, 0 to 2 sg nodes for each disk; 2 flags or words, durations of 6 bits; 1 failing step or signal, 1 crash |
| `herd_resumed`, `herd_transport`, `plan_root_swap`, `plan_overlap` | the code departs from its own documentation | small instances of the same modules |

Two disks are what it takes for a partial answer, two filesystems for a partly
armed or partly stopped watch. In `herd` a base of 1 and a maximum of 2 have the
steps 1 and 2, so that raising, capping and resetting all happen, and the
uncapped next step (3) would leave the range of the type; that the threshold
is right for every base and maximum is proved. Failures of samples and of commands
end the loop and are in `herd_cycle`. Clocks stop at the maximum because the code
compares none with more. Buffers of one entry overflow at the second event; events
of the daemon itself happen only in a kernel queue they cannot fill, hence the
queue of three in `watch_live`. In `watch_fd` a kernel queue of two keeps apart a read
of one event and a read of a full queue. A stale reader meets a new watch with two sets, and
two numbers let the new one have the same number or another one. In `spinherd` two
herds are one that fails and one that must be stopped for it; the safety of more is
proved. A second is 1 in six bits, a minute 4, an hour 12, so that a small count of
hours wraps to a positive duration; two arguments are the same flag twice, two lists
that exclude each other, or a stray word and a flag behind it. One failed step or
signal and one crash of an install come in every order. Every state space is finite and explored in full; no state
constraint is used. What has ended stutters explicitly (`Terminated`, `Finished`,
`Exited`), so deadlock is checked in every run; `WatchFD` never ends, its last set
aside.

Symmetry is used in runs without liveness only. The liveness runs have one
filesystem each; what two filesystems add is covered by the safety runs.

### What the violations show

1. `herd_resumed`: the second sample counts completed operations only. I/O that
   resumed while the watch was armed and is in flight goes unseen, and the disks
   are stopped under it. The comment above `runHerd` promises otherwise. The damage
   is bounded: the call's event, if it raises one, wakes the herd (`AccessWakesHerd`).
2. `herd_transport`: `sendStartStopUnitDetailedMode` looks at the masked SCSI status
   alone. A start that timed out in the host adapter counts as done.
3. `plan_root_swap`: a swap file on `/` is on no mount for `findContainingMount`
   (`"/" + "/"` is no prefix), and the automatic mode fails. `PlanFailsForRootSwap`
   shows that it is the only such case.
4. `plan_overlap`: herds are independent only if their disk sets are equal or
   disjoint, and nothing makes them so.

### Known limits

Seen while modelling, and true of the code; no run checks them on their own, and the
properties above are worded so as not to claim more:

- `App.Run` may end silently: the last herd to fail puts its error into `errCh` and
  then closes `done`, the select (`app.go:74`) may take `done`, and Run returns nil.
  The process exits with 0 although every herd failed. `SilentEndMeansAllFailed` and
  `ExitZeroMeansDone` say that this is the only way besides the caller's cancellation;
  `ErrorsKept` says only that the error was not dropped on its way into `errCh`.
- A command that fails in the host adapter or the driver is answered with nil
  (`scsi_linux.go:125`). `ErrorTellsFailure` and `ExitZeroMeansDone` name these disks
  (`lost`) as an exception; `herd_transport` shows what follows in the loop.
- zram swap resolves to no physical disk, and the automatic mode then fails as a whole
  (`auto.go:173`), although the repository's README (line 59) wants the default mode to
  do for most systems. `PlanIsExact` and `PlanFailsForRootSwap` count it among the
  permitted causes (`Unresolvable`).
- `daemon` and `debug` never look at `NArg`: after a word that is not a flag, as in
  `daemon --verbose true --sleep-after 30m`, the flags that follow are ignored and the
  defaults hold (`main.go:133`, 203). `AcceptedIsMeant` excepts exactly this and
  durations that wrap.
- A signal during `system-install` ends it with status 0: `exec.CommandContext` gives
  `context.Canceled`, `runSystemctl` wraps it (`system_install.go:133`), and `main.go:32`
  takes it for a wanted end. `ExitZeroMeansDone` then promises the binary and the unit
  in place and nothing of systemd.
- A stale reader may wait for ever in a read of an sg node that got its number
  (`ClosedSetsFreed` excepts it): the goroutine stays, the kernel group does not.
- If one filesystem of several cannot be marked, the watchers made before are closed
  (`app.go:422`). `WatchSet` has the step, but the runs that check the end of
  goroutines have one filesystem, where nothing was made before.
- A stale reader takes events of a later watch with the same descriptor number
  (`fanotify_linux.go:160`). `OnlyReuseSteals` shows that nothing else takes any,
  `AccessesWakeHerd` that accesses that go on wake the herd all the same; a single
  access may not.
- A restarted daemon starts in the active state (`app.go:109`): disks left
  asleep are woken by the kernel, one access at a time.
- `debug spindown` and `spinup` return at the first disk without an sg node
  (`debug.go:139`), with later disks untried; the daemon tries them all.
- The unit file is renamed into place unsynced (`system_install.go:118`), unlike the
  binary: a crash soon after a completed install may leave it torn.
  `CompletedBoots` therefore speaks of changes that reached the disk.
- A count too large for a duration wraps (`main.go:349`), maybe to a positive one;
  `AcceptedIsMeant` claims the value for durations that fit only.
- The plan is made once (`app.go:26`): what is mounted later from disks of a herd is
  not watched.

## Fairness

`FairSpec` of `Herd`: weak fairness for time, for the loop, for every disk command
(the sg driver bounds it by a timeout), for completing I/O, for returning calls and
for the watch (`WatchFairness` of `HerdWatch`, which `ImplementsWatch` shows of the
goroutines): the Go scheduler and the kernel run what can run.
A select chooses among its ready cases at random. A loop that waits with an event
or an error pending takes it (weak fairness: nothing else disables it but the end);
a cancelled context competes with ticks and events and is disabled whenever the
loop is busy elsewhere, so it gets strong fairness. No fairness is assumed for
accesses, background I/O, faults or the cancellation itself.

`FairSpec` of `WatchSet`: weak fairness for the close, each reader and each forwarder,
which never makes a read fail; strong fairness for the case of a closed `done`, as
above. None for accesses: hence a reader may wait for ever in its read, and
`CloseEndsGoroutines` says so.

`MainSpec` of `Spinherd`: weak fairness for Run's own steps, for the goroutines of a
call (the driver answers every command) and for the steps of an install, which its
user runs again until it completes; strong fairness for a cancelled herd to look at
its context between two calls, which is what `ImplementsRun` shows of the loop. No
fairness for failures, signals, crashes or the parsing of the arguments.

`FairSpec` of `WatchFD`: weak fairness for readers, forwarders and the close, and for
accesses: the promise is about storage that is used again and again. `DebugSpec`
adds to the fairness of the set that the select takes what is ready; there,
accesses have none.

## Proofs

`HerdProofs` holds for any non-empty set of disks and of filesystems, any
durations `parseDaemonConfig` accepts (`ConfigAssumption`) whose sum does not wrap
(`WidthAssumption`: 292 years), and any faults unless stated.

- `TypeCorrect`: `TypeOK`. The point is the threshold, which the lemma
  `NextSleepAfterRange` bounds.
- `WatchFollowsState`: `WatchMatchesState` is not inductive, since it needs to know
  in which state each place of the loop can be reached (`CheckNone` of an active
  herd would break it). `LoopInv` adds the types and `PhaseInv`. Steps of
  the world never arm and, with nothing armed, deliver and report nothing: hence
  `pipe` and `dead` within `armed` in the type.
- `AsleepTogether`: `SpinInv` adds `DisksInv`: while commands are out, a disk that
  answered is where its command put it, unless I/O completed on it since. Once one
  command failed it claims nothing, as the loop then ends. It needs `"transport" \notin Faults`,
  which `herd_transport` shows to be necessary.
- `WakesTogether`: the action property `WakesAsHerd` from the same invariant.
- `StopsOnlyWhenIdle`: the action property `IdleBeforeStop` of `HerdHistory`.
  `IdleInv` relates the clock the loop keeps to the true quiet time: as long as
  nothing moved since `prev`, `quiet` is at least `idle`, and on the way from the
  poll to the stop `idle` is at least the threshold.
- `HerdImplementsCycle` (`HerdCycleProofs`): initial states map to initial states
  and, under `SpinInv`, every step maps to a step of `SleepCycle` or to a stutter.
- `HerdImplementsRun`: the same for `HerdRun`, which needs no invariant.
- `ThresholdIsBackOff` and `HistoryTypeCorrect`: `ThresholdInv` is inductive with the
  type; the work is in `WakeCounts`, where the cap, the reset and the counter that
  stops at the maximum meet, and in `BaseSteps`, the arithmetic of base steps.

`DaemonProofs` holds for any finite set of herds. `RunsInv` adds to the type what Run
knows at each place (`RunInv`): runCtx is done before the select has chosen only if
the caller's context is, Run returns only when nothing was started or everything is
over. `RoomInErrCh` shows by cardinalities that a herd which has not reported finds
room in `errCh`. From it: `NoErrorDropped`, `SilentEndOnlyThen`, `HerdsEndFirst`,
`DaemonTypeCorrect`.

`DiskCommandsProofs` holds for any list of distinct names and any mapping to disks.
`TasksInv` relates the index of the loop to the goroutines (`Fresh`), the places of
goroutines to the caller (`OwnLookups`), results to errors (`ErrsTell`), and a device
that a call is done with to what came of it: it was sent its command or gave an error
(`DoneIsTried`). From it: `NothingUnderWay`, `FailureReported`, `NodesAreSure`,
`DiskCommandsTypeCorrect`. `FailureReported` excepts the devices in `lost` by name.

`WatchFDProofs` holds for any number of sets, descriptor numbers and buffer sizes.
`FDInv` (`WatchFDTypeCorrect`, `OpenSetIsItsOwn`) says that the number of an open set
refers to its own group. `StealInv` (`StealNeedsReuse`) adds that a group was given
the number that refers to it, that a reader waits only on groups that were given the
number it keeps, and that sets not yet made have no reader; then the only reader
that can empty the queue of the open set is its own, or one with its number.

`WatchSetProofs` holds for any finite set of filesystems and any sizes of the kernel
queue and the channels that are at least 1. `NoWakeLost` is not inductive: an access
may meet a full queue, a full channel or a closed one, and each must be known to leave
something behind. `WatchInv` adds to the type that a filesystem without an access of
another process has nothing but the daemon's own events, which fill no queue
(`OnlyOwnEvents`), so that a full queue holds something to tell; that a reader goes
back to its read only with its batch done (`BatchIsRead`); that nothing of an open set
is closed and a forwarder gives up only after its reader (`OpenIntact`,
`ReaderStopsFirst`); that what is not marked is empty (`Unmarked`); and, by
cardinalities, that `set.errs` has room for every forwarder (`ErrsReported`). The
lemmas on sequences (`AppendedEvents`, `SplitEvents`, `TailEvents`) say that no
operation of the kernel or the reader loses an entry. From it `AccessLeavesEvent`,
`OnlyOthersWake`, `WatchTypeCorrect`, and `WatchImplementsSafely`: every step of the
set is one of `HerdWatch` or a stutter, for each of any number of filesystems
(`NoReopen`, `OthersStay` and `QuietStep` reduce a step to the filesystem it is about).
`AccessIsRaised` adds which step an access is: `Raise`, as `Herd` has it, or, by the
daemon itself, nothing. `Herd` being built on `HerdWatch`, this is what its safety
theorems need of the watch; that the set also has the fairness of `HerdWatch` is
checked by `ImplementsWatch`, for one filesystem.

`SpinherdProofs` is about the whole program, for any constants the modules admit.
`PartsImplemented` says that a behaviour of `MainSpec` is one of `Daemon`, of
`DiskCommands` and of `Install`, so that the theorems about these hold of the process.
`MainInv` joins their invariants with what only the composition has: Run leaves the
planning only under `daemon`, and there a call under way means that the driven herd
runs (`CallsOfRunning`); a process exits with 0 only from these places
(`ExitZeroFrom`). From it `CallsEndFirst` and `ZeroIsDone`.
`InstallInv` says what each step of an install finds in place (`StepsDone`), that only an
interrupted one ends as `canceled`, with both files in place, and that the
binary under its name is synced (`BinarySynced`); then whatever a crash leaves has it
whole, and a unit only beside it (`SafeChange`). That gives `BinaryIsWhole` and
`InstalledBoots` for any number of failures, signals and crashes. `ConfigInv` follows
the durations and lists beside their meaning through the parsing: equal as long as the
duration fits (`ProductFits`) and no flag was ignored: `DurationsAreMeant`.

`PlanProofs` holds for any devices, any mount and swap tables, any `--mnt` and
`--ignore-mnt`; `TablesAssumption` says only that the tables are sequences of entries.
`PlanInv` relates each loop to what it has done: the disks collected are those of the
swaps seen (`Sparing`), the mounts accepted are the eligible ones among those looked at
or the mounts of the requested paths seen (`Choosing`). The lemmas under it say that a
mountpoint has one effective mount (`OneEntry`), that a path has exactly one longest
containing mountpoint (`LongestExists`, `OneHolder`), that `findContainingMount` finds
it unless it is `/` (`FoundHolder`), and what grouping yields (`GroupsHold`). `Greatest`
gets a greatest length from the well-foundedness of strict inclusion, as induction on
numbers cannot be instantiated. From it `PlanCorrect`, `FailureHasCause`,
`PlanTypeCorrect`. `Leaves` is taken as what it is in the model, the function `planHerds`
and the specification both use; that the walk ends, or that it finds a disk at all, is
not claimed.

Model-checked only:

- all liveness under fairness, which needs ENABLED: `AccessWakesHerd`, `QuietHerdSleeps`,
  `AccessReachesLoop`, `CloseEndsGoroutines`, `AccessesWakeHerd`, `ClosedSetsFreed`,
  `OneFailureEndsAll`, `SignalEnds`, `Recovers`, and the fairness of `ImplementsCycle`,
  `ImplementsRun` and `ImplementsWatch`, whose safety parts
  (`ImplementsSafeCycle`, `ImplementsSafeRun`, `ImplementsSafeWatch`) are proved;
- the properties of `DebugFanotify`, all of them liveness;
- what the recursive function `Leaves` computes from a device tree, an induction over
  data: the runs of `Plan` go through trees with partitions and stacked devices.

## Abstractions

- Counters, log lines, the bytes of a command and the 10 ms stagger of `StartAll` are
  left out: a command is sent, and it answers or fails. In `Herd` a failing lookup
  is a failing command that left the disk alone; `DiskCommands` has the lookup.
- I/O is per disk and per filesystem: in flight or not. A second request on a disk
  with one in flight changes nothing the properties can tell.
- Arming and commands take steps; a sample, a comparison and an assignment of the
  loop in a row are one step, as nobody else reads what they write.
- Two events of one filesystem in the watch are one to `Herd`; `WatchSet` counts them.
- `Plan` reads one mount table; the code reads `mountinfo` again for `/`.
- `Spinherd` shows the calls of one herd. Those of another follow the same rules, and
  touch other disks unless the two herds overlap, which `plan_overlap` shows to be
  possible; what two herds do to a disk they share is not modelled. `main` runs `App.Run` on durations that are constants of `Herd`.
- A crash in `Install` loses the latest changes of directories, in their order, and
  unsynced contents of any file; hardware that lies about syncs is left out.

## Not modelled

Formatting and decoding (fanotify records, mask names, JSON, disk identity, sysfs
strings), usage texts, `--verbose` and build rules: they keep no state, and no
property is about them. `debug resolve`, `disks-info` and `daemon` print a plan and
change nothing; `Spinherd` has them as a step that ends in 0 or 1. Parsing of procfs
and sysfs text: `Plan` and `Herd` start from what it yields. Mounts that change
while the daemon runs, and two installers at once.

## Plan

Done, in this order: `SleepPolicy`, `Herd`, `HerdHistory`, `SleepCycle` and
`HerdCycle`; `WatchSet`; `Plan`; `HerdProofs`, `HerdCycleProofs`; then `HerdWatch`,
`WatchRefinement`, `HerdRun`; `Daemon`, `DiskCommands`, `Config`, `Install` and their
composition `Spinherd`; `WatchFD`, `DebugFanotify`; `DaemonProofs`,
`DiskCommandsProofs`, `WatchFDProofs`, and the back-off in `HerdProofs`;
`WatchSetProofs`, `SpinherdProofs`, `PlanProofs`, and the safety of every refinement.

Next:

1. Proofs: how many lines of its own `debug fanotify` can print without an access, as
   an invariant on what is in the set.
2. Two herds that share a disk, composed from two loops, for what `plan_overlap`
   leaves open: how bad it gets.
3. Mounts that change between and during sleeps.
