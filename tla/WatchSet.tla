------------------------------ MODULE WatchSet ------------------------------
(***************************************************************************)
(* The life of one FanotifySet: per filesystem a fanotify group in the     *)
(* kernel, the readLoop goroutine of its FanotifyWatcher, the channel      *)
(* w.events and a forward goroutine; and the channels set.events and       *)
(* set.errs that runHerd selects on (app.go, fanotify_linux.go).           *)
(*                                                                         *)
(* An event is "other" when another process caused it, "self" when the     *)
(* daemon did, "overflow" when the kernel queue was full.                  *)
(***************************************************************************)
EXTENDS Integers, Sequences, SequencesExt

CONSTANTS
  Filesystems,  \* one watcher each
  QueueCap,     \* events the kernel queues for a group (16384)
  WatcherCap,   \* buffer of w.events (16)
  SetCap,       \* buffer of set.events (16)
  ReadErrors    \* whether a read of the group may fail

ASSUME FilesystemsAssumption == IsFiniteSet(Filesystems)
ASSUME CapsAssumption == {QueueCap, WatcherCap, SetCap} \subseteq Nat \ {0}
ASSUME ReadErrorsAssumption == ReadErrors \in BOOLEAN

VARIABLES
  loop,       \* runHerd: "arming", "watching", "closing" or "closed"
  events,     \* number of events in set.events
  errs,       \* number of errors in set.errs
  done,       \* set.done is closed
  raised      \* filesystems other processes accessed since their mark
set == <<loop, events, errs, done, raised>>

VARIABLES
  fd,         \* "none", "open" or "closed"
  queue,      \* events in the kernel
  reader,     \* readLoop: "none", "top", "reading", "batch" or "stopped"
  batch,      \* events in its buffer
  wdone,      \* w.done is closed
  buffered,   \* number of events in w.events; closed once the reader stopped
  forwarder   \* forward: "none", "receive", "send", "report" or "returned"
watcher == <<fd, queue, reader, batch, wdone, buffered, forwarder>>

vars == <<set, watcher>>

Open == loop \in {"arming", "watching"}

Init ==
  /\ loop = "arming" /\ events = 0 /\ errs = 0 /\ done = FALSE /\ raised = {}
  /\ fd = [fs \in Filesystems |-> "none"]
  /\ queue = [fs \in Filesystems |-> <<>>]
  /\ reader = [fs \in Filesystems |-> "none"]
  /\ batch = [fs \in Filesystems |-> <<>>]
  /\ wdone = [fs \in Filesystems |-> FALSE]
  /\ buffered = [fs \in Filesystems |-> 0]
  /\ forwarder = [fs \in Filesystems |-> "none"]
-----------------------------------------------------------------------------
(* The loop of runHerd.                                                    *)

\* NewFanotifySet marks one filesystem and starts its two goroutines.
Arm(fs) ==
  /\ loop = "arming" /\ fd[fs] = "none"
  /\ fd' = [fd EXCEPT ![fs] = "open"]
  /\ reader' = [reader EXCEPT ![fs] = "top"]
  /\ forwarder' = [forwarder EXCEPT ![fs] = "receive"]
  /\ loop' = IF \A other \in Filesystems : fd'[other] = "open" THEN "watching" ELSE loop
  /\ UNCHANGED <<events, errs, done, raised, queue, batch, wdone, buffered>>

\* closeWatcherSet begins: for an event, an error, a busy second sample, a
\* cancelled context, or a filesystem that could not be marked.
Take ==
  /\ loop = "watching" /\ events > 0
  /\ events' = events - 1 /\ loop' = "closing"
  /\ UNCHANGED <<errs, done, raised, watcher>>

TakeError ==
  /\ loop = "watching" /\ errs > 0
  /\ errs' = errs - 1 /\ loop' = "closing"
  /\ UNCHANGED <<events, done, raised, watcher>>

GiveUp ==
  /\ Open
  /\ loop' = "closing"
  /\ UNCHANGED <<events, errs, done, raised, watcher>>

CloseSet ==
  /\ loop = "closing" /\ ~done
  /\ done' = TRUE
  /\ UNCHANGED <<loop, events, errs, raised, watcher>>

CloseDone(fs) ==
  /\ loop = "closing" /\ done /\ fd[fs] = "open" /\ ~wdone[fs]
  /\ wdone' = [wdone EXCEPT ![fs] = TRUE]
  /\ UNCHANGED <<set, fd, queue, reader, batch, buffered, forwarder>>

CloseFd(fs) ==
  /\ loop = "closing" /\ wdone[fs] /\ fd[fs] = "open"
  /\ fd' = [fd EXCEPT ![fs] = "closed"]
  /\ UNCHANGED <<set, queue, reader, batch, wdone, buffered, forwarder>>

Closed ==
  /\ loop = "closing" /\ done /\ \A fs \in Filesystems : fd[fs] # "open"
  /\ loop' = "closed"
  /\ UNCHANGED <<events, errs, done, raised, watcher>>
-----------------------------------------------------------------------------
(* readLoop.                                                               *)

\* close(w.events) and return.
StopReader(fs) ==
  /\ reader' = [reader EXCEPT ![fs] = "stopped"]
  /\ batch' = [batch EXCEPT ![fs] = <<>>]
  /\ UNCHANGED <<set, fd, queue, wdone, buffered, forwarder>>

EnterRead(fs) ==
  /\ reader[fs] = "top" /\ fd[fs] = "open"
  /\ reader' = [reader EXCEPT ![fs] = "reading"]
  /\ UNCHANGED <<set, fd, queue, batch, wdone, buffered, forwarder>>

\* The descriptor is closed by now: EBADF.
ReadClosed(fs) ==
  /\ reader[fs] = "top" /\ fd[fs] = "closed"
  /\ StopReader(fs)

\* read returns some of the queued events.  Closing the descriptor does not
\* wake a reader that waits here: only an event does.
ReadReturns(fs) ==
  /\ reader[fs] = "reading"
  /\ \E n \in 1 .. Len(queue[fs]) :
       /\ batch' = [batch EXCEPT ![fs] = SubSeq(queue[fs], 1, n)]
       /\ queue' = [queue EXCEPT ![fs] = SubSeq(queue[fs], n + 1, Len(queue[fs]))]
  /\ reader' = [reader EXCEPT ![fs] = "batch"]
  /\ UNCHANGED <<set, fd, wdone, buffered, forwarder>>

\* read returns an error other than EINTR, or the next record is malformed.
ReadFails(fs) ==
  /\ ReadErrors /\ reader[fs] \in {"reading", "batch"}
  /\ StopReader(fs)

\* The next event of the batch is out of the way.
NextEvent(fs) ==
  /\ batch' = [batch EXCEPT ![fs] = Tail(batch[fs])]
  /\ UNCHANGED <<set, fd, queue, reader, wdone, forwarder>>

\* Mutant of Skip: an event of the daemon ends the batch.
SkipRest(fs) ==
  /\ reader[fs] = "batch" /\ batch[fs] # <<>> /\ Head(batch[fs]) # "other"
  /\ batch' = [batch EXCEPT ![fs] = <<>>]
  /\ UNCHANGED <<set, fd, queue, reader, wdone, forwarder, buffered>>

\* Events of the daemon itself and overflow records go nowhere.
Skip(fs) ==
  /\ reader[fs] = "batch" /\ batch[fs] # <<>> /\ Head(batch[fs]) # "other"
  /\ NextEvent(fs)
  /\ UNCHANGED buffered

\* Mutant of Send: no self-PID filter.
SendAny(fs) ==
  /\ reader[fs] = "batch" /\ batch[fs] # <<>>
  /\ buffered[fs] < WatcherCap
  /\ NextEvent(fs)
  /\ buffered' = [buffered EXCEPT ![fs] = @ + 1]

Send(fs) ==
  /\ reader[fs] = "batch" /\ batch[fs] # <<>> /\ Head(batch[fs]) = "other"
  /\ buffered[fs] < WatcherCap
  /\ NextEvent(fs)
  /\ buffered' = [buffered EXCEPT ![fs] = @ + 1]

\* select takes w.done instead, even when w.events has room.
SeeDone(fs) ==
  /\ reader[fs] = "batch" /\ batch[fs] # <<>> /\ Head(batch[fs]) = "other"
  /\ wdone[fs]
  /\ StopReader(fs)

BatchDone(fs) ==
  /\ reader[fs] = "batch" /\ batch[fs] = <<>>
  /\ reader' = [reader EXCEPT ![fs] = "top"]
  /\ UNCHANGED <<set, fd, queue, batch, wdone, buffered, forwarder>>

Reader(fs) ==
  \/ EnterRead(fs) \/ ReadClosed(fs) \/ ReadReturns(fs)
  \/ Skip(fs) \/ Send(fs) \/ SeeDone(fs) \/ BatchDone(fs)
-----------------------------------------------------------------------------
(* forward.                                                                *)

Forwarding(fs, next) ==
  /\ forwarder' = [forwarder EXCEPT ![fs] = next]
  /\ UNCHANGED <<loop, done, raised, fd, queue, reader, batch, wdone>>

Receive(fs) ==
  /\ forwarder[fs] = "receive" /\ buffered[fs] > 0
  /\ buffered' = [buffered EXCEPT ![fs] = @ - 1]
  /\ Forwarding(fs, "send")
  /\ UNCHANGED <<events, errs>>

\* Mutant of ReceiveClosed: what w.events still holds is left behind.
ReceiveClosedEarly(fs) ==
  /\ forwarder[fs] = "receive" /\ reader[fs] = "stopped"
  /\ Forwarding(fs, "report")
  /\ UNCHANGED <<buffered, events, errs>>

\* w.events is closed and drained.
ReceiveClosed(fs) ==
  /\ forwarder[fs] = "receive" /\ buffered[fs] = 0 /\ reader[fs] = "stopped"
  /\ Forwarding(fs, "report")
  /\ UNCHANGED <<buffered, events, errs>>

\* Mutants of Report: forward returns silently; forward goes on after it reported.
ReportNothing(fs) ==
  /\ forwarder[fs] = "report"
  /\ Forwarding(fs, "returned")
  /\ UNCHANGED <<buffered, events, errs>>

ReportAgain(fs) ==
  /\ forwarder[fs] = "report"
  /\ errs' = errs + 1
  /\ Forwarding(fs, "receive")
  /\ UNCHANGED <<buffered, events>>

\* The error fits into set.errs: TypeOK bounds what is sent by its buffer.
Report(fs) ==
  /\ forwarder[fs] = "report"
  /\ errs' = errs + 1
  /\ Forwarding(fs, "returned")
  /\ UNCHANGED <<buffered, events>>

\* Mutant of Pass: set.events has no buffer, and the loop may be busy.
PassUnbuffered(fs) ==
  /\ forwarder[fs] = "send"
  /\ events' \in {events, IF events < SetCap THEN events + 1 ELSE events}
  /\ Forwarding(fs, "receive")
  /\ UNCHANGED <<buffered, errs>>

\* The event joins set.events, or is dropped by the default of the select when
\* there is no room.
Pass(fs) ==
  /\ forwarder[fs] = "send"
  /\ events' = IF events < SetCap THEN events + 1 ELSE events
  /\ Forwarding(fs, "receive")
  /\ UNCHANGED <<buffered, errs>>

\* Mutant of ForwarderSeesDone: the wait for an event does not select on it.
ForwarderSeesDoneLate(fs) ==
  /\ forwarder[fs] \in {"send", "report"} /\ done
  /\ Forwarding(fs, "returned")
  /\ UNCHANGED <<buffered, events, errs>>

\* Every select of forward may take set.done.
ForwarderSeesDone(fs) ==
  /\ forwarder[fs] \in {"receive", "send", "report"} /\ done
  /\ Forwarding(fs, "returned")
  /\ UNCHANGED <<buffered, events, errs>>

Forward(fs) ==
  \/ Receive(fs) \/ ReceiveClosed(fs) \/ Report(fs) \/ Pass(fs)
  \/ ForwarderSeesDone(fs)
-----------------------------------------------------------------------------
(* The kernel.  A group lives until its descriptor is closed and no read    *)
(* holds it.                                                               *)

Group(fs) == fd[fs] = "open" \/ reader[fs] = "reading"

\* The queue with one more event; a full queue gets one overflow record.
Queued(q, event) ==
  IF Len(q) < QueueCap THEN Append(q, event)
  ELSE IF "overflow" \in ToSet(q) THEN q ELSE Append(q, "overflow")

\* Another process accesses the filesystem.
Access(fs) ==
  /\ Group(fs)
  /\ queue' = [queue EXCEPT ![fs] = Queued(@, "other")]
  /\ raised' = raised \cup {fs}
  /\ UNCHANGED <<loop, events, errs, done, fd, reader, batch, wdone, buffered, forwarder>>

\* The daemon does.  It opens nothing on the filesystems it watches, so its
\* events are far from filling a queue.
SelfAccess(fs) ==
  /\ Group(fs)
  /\ Cardinality({i \in DOMAIN queue[fs] : queue[fs][i] = "self"}) < QueueCap - 1
  /\ Len(queue[fs]) < QueueCap
  /\ queue' = [queue EXCEPT ![fs] = Queued(@, "self")]
  /\ UNCHANGED <<set, fd, reader, batch, wdone, buffered, forwarder>>
-----------------------------------------------------------------------------
Finished == loop = "closed" /\ UNCHANGED vars

Next ==
  \/ Take \/ TakeError \/ GiveUp \/ CloseSet \/ Closed \/ Finished
  \/ \E fs \in Filesystems :
       \/ Arm(fs) \/ CloseDone(fs) \/ CloseFd(fs)
       \/ Reader(fs) \/ ReadFails(fs) \/ Forward(fs)
       \/ Access(fs) \/ SelfAccess(fs)

\* Goroutines are scheduled, no read has to fail, and a select that finds set.done
\* or w.done closed time and again takes it in the end.
Fairness ==
  /\ WF_vars(CloseSet) /\ WF_vars(Closed)
  /\ \A fs \in Filesystems :
       /\ WF_vars(CloseDone(fs)) /\ WF_vars(CloseFd(fs))
       /\ WF_vars(Reader(fs)) /\ WF_vars(Forward(fs))
       /\ SF_vars(ForwarderSeesDone(fs)) /\ SF_vars(SeeDone(fs))

Spec == Init /\ [][Next]_vars
FairSpec == Spec /\ Fairness
-----------------------------------------------------------------------------
TypeOK ==
  /\ loop \in {"arming", "watching", "closing", "closed"}
  /\ events \in 0 .. SetCap /\ errs \in 0 .. Cardinality(Filesystems) /\ done \in BOOLEAN
  /\ raised \subseteq Filesystems
  /\ fd \in [Filesystems -> {"none", "open", "closed"}]
  /\ queue \in [Filesystems -> Seq({"other", "self", "overflow"})]
  /\ reader \in [Filesystems -> {"none", "top", "reading", "batch", "stopped"}]
  /\ batch \in [Filesystems -> Seq({"other", "self", "overflow"})]
  /\ wdone \in [Filesystems -> BOOLEAN]
  /\ buffered \in [Filesystems -> 0 .. WatcherCap]
  /\ forwarder \in [Filesystems -> {"none", "receive", "send", "report", "returned"}]

\* An event of another process on its way to the loop.
InPipe(fs) ==
  \/ "other" \in ToSet(queue[fs]) \/ "other" \in ToSet(batch[fs])
  \/ buffered[fs] > 0 \/ forwarder[fs] = "send"

\* Neither a full kernel queue nor a full set.events costs the herd its wake:
\* while the set is open and its readers run, an access leaves an event behind.
NoWakeLost ==
  Open => \A fs \in raised : reader[fs] = "stopped" \/ InPipe(fs) \/ events > 0

\* The daemon does not wake the herd by its own accesses.
NoSelfWake == events > 0 => raised # {}

\* An access ends up in front of the loop, as an event or, if the reader stopped
\* before it got there, as an error.
AccessReachesLoop == raised # {} ~> events > 0 \/ errs > 0 \/ ~Open

\* A closed set leaves nothing behind but readers that wait in a read no event
\* has ended.
CloseEndsGoroutines ==
  done ~> \A fs \in Filesystems :
            /\ forwarder[fs] \in {"none", "returned"}
            /\ \/ reader[fs] \in {"none", "stopped"}
               \/ reader[fs] = "reading" /\ queue[fs] = <<>>
=============================================================================
