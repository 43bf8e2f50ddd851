------------------------------ MODULE WatchFD ------------------------------
(***************************************************************************)
(* Watch sets in succession and the descriptor table they share            *)
(* (fanotify_linux.go, app.go).  A readLoop keeps the number of its        *)
(* descriptor, and Close frees that number while the reader may still be   *)
(* in a read or busy with a batch: when it reads again, the number may     *)
(* belong to the watcher of a later sleep, or to another file.             *)
(*                                                                         *)
(* One filesystem; set s of the herd's life has one watcher, one group.    *)
(***************************************************************************)
EXTENDS Integers

CONSTANTS
  MaxSets,     \* bound: how often the herd goes to sleep
  Numbers,     \* descriptor numbers
  QueueCap,    \* events the kernel queues for a group
  WatcherCap   \* buffer of w.events (16)

ASSUME BoundsAssumption == {MaxSets, QueueCap, WatcherCap} \subseteq Nat \ {0}
ASSUME NumbersAssumption == Numbers \subseteq Nat

Sets == 1 .. MaxSets
Free == 0
Other == -1

VARIABLES
  loop,       \* runHerd: "active", "watching" or "closing"
  current,    \* the last set made
  raised,     \* another process accessed the filesystem while it was watched
  table,      \* what each number refers to: a group (its set), Other or Free
  number,     \* w.fd of each set
  queue,      \* events in the kernel, per group
  reader,     \* readLoop: "none", "top", "reading", "batch" or "stopped"
  held,       \* the group a reader waits on, or Other
  batch,      \* events in its buffer
  done,       \* w.done is closed
  buffered,   \* events in w.events
  forwarder   \* forward: "none", "receive" or "returned"
kernel == <<table, queue>>
readers == <<reader, held, batch>>
vars == <<loop, current, raised, number, done, buffered, forwarder, kernel, readers>>

Init ==
  /\ loop = "active" /\ current = 0 /\ raised = FALSE
  /\ table = [n \in Numbers |-> Free]
  /\ number = [s \in Sets |-> 0] /\ queue = [s \in Sets |-> 0]
  /\ reader = [s \in Sets |-> "none"] /\ held = [s \in Sets |-> 0]
  /\ batch = [s \in Sets |-> 0] /\ done = [s \in Sets |-> FALSE]
  /\ buffered = [s \in Sets |-> 0] /\ forwarder = [s \in Sets |-> "none"]
-----------------------------------------------------------------------------
(* The loop and the rest of the process.                                   *)

\* open returns the lowest number that is free.
IsLowest(n) == table[n] = Free /\ \A k \in Numbers : table[k] = Free => n <= k

Arm ==
  /\ loop = "active" /\ current < MaxSets
  /\ \E n \in Numbers :
       /\ IsLowest(n)
       /\ table' = [table EXCEPT ![n] = current + 1]
       /\ number' = [number EXCEPT ![current + 1] = n]
  /\ current' = current + 1 /\ loop' = "watching" /\ raised' = FALSE
  /\ reader' = [reader EXCEPT ![current + 1] = "top"]
  /\ forwarder' = [forwarder EXCEPT ![current + 1] = "receive"]
  /\ UNCHANGED <<queue, held, batch, done, buffered>>

\* An event reaches the loop: it wakes the herd and closes the set.
Wake ==
  /\ loop = "watching" /\ buffered[current] > 0
  /\ buffered' = [buffered EXCEPT ![current] = @ - 1]
  /\ done' = [done EXCEPT ![current] = TRUE]
  /\ loop' = "closing"
  /\ UNCHANGED <<current, raised, number, forwarder, kernel, readers>>

\* The set is closed for another reason: an error, a busy second sample, an
\* event of another filesystem.
GiveUp ==
  /\ loop = "watching"
  /\ done' = [done EXCEPT ![current] = TRUE]
  /\ loop' = "closing"
  /\ UNCHANGED <<current, raised, number, buffered, forwarder, kernel, readers>>

CloseFd ==
  /\ loop = "closing"
  /\ table' = [table EXCEPT ![number[current]] = Free]
  /\ loop' = "active"
  /\ UNCHANGED <<current, raised, number, done, buffered, forwarder, queue, readers>>

\* The daemon opens and closes other files: diskstats, sg nodes.
OpenOther ==
  /\ \E n \in Numbers : IsLowest(n) /\ table' = [table EXCEPT ![n] = Other]
  /\ Other \notin {table[n] : n \in Numbers}
  /\ UNCHANGED <<loop, current, raised, number, done, buffered, forwarder, queue, readers>>

CloseOther(n) ==
  /\ table[n] = Other
  /\ table' = [table EXCEPT ![n] = Free]
  /\ UNCHANGED <<loop, current, raised, number, done, buffered, forwarder, queue, readers>>
-----------------------------------------------------------------------------
(* readLoop of set s.                                                      *)

\* Mutant of Stop: the reader closes its descriptor, too.
StopCloses(s) ==
  /\ reader' = [reader EXCEPT ![s] = "stopped"]
  /\ batch' = [batch EXCEPT ![s] = 0]
  /\ table' = [table EXCEPT ![number[s]] = Free]
  /\ UNCHANGED <<loop, current, raised, number, done, buffered, forwarder, queue, held>>

Stop(s) ==
  /\ reader' = [reader EXCEPT ![s] = "stopped"]
  /\ batch' = [batch EXCEPT ![s] = 0]
  /\ UNCHANGED <<loop, current, raised, number, done, buffered, forwarder, kernel, held>>

\* read(w.fd): whatever the number refers to by now.
EnterRead(s) ==
  /\ reader[s] = "top" /\ table[number[s]] \in Sets
  /\ reader' = [reader EXCEPT ![s] = "reading"]
  /\ held' = [held EXCEPT ![s] = table[number[s]]]
  /\ UNCHANGED <<loop, current, raised, number, done, buffered, forwarder, kernel, batch>>

\* Mutant of ReadFreed: every error is taken for EINTR.
ReadFreedAgain(s) ==
  /\ reader[s] = "top" /\ table[number[s]] = Free
  /\ UNCHANGED vars

\* EBADF.
ReadFreed(s) ==
  /\ reader[s] = "top" /\ table[number[s]] = Free
  /\ Stop(s)

\* Another file gives an error or bytes that are no record; or nothing, and
\* the reader goes round again.
ReadOther(s) ==
  /\ reader[s] = "top" /\ table[number[s]] = Other
  /\ Stop(s)

ReadNothing(s) ==
  /\ reader[s] = "top" /\ table[number[s]] = Other
  /\ UNCHANGED vars

\* An sg node has nothing to read, and its descriptor blocks since Fd() was called:
\* the reader waits there for good.
ReadBlocks(s) ==
  /\ reader[s] = "top" /\ table[number[s]] = Other
  /\ reader' = [reader EXCEPT ![s] = "reading"]
  /\ held' = [held EXCEPT ![s] = Other]
  /\ UNCHANGED <<loop, current, raised, number, done, buffered, forwarder, kernel, batch>>

\* Mutant of ReadReturns: a full queue leaves an overflow record alone, and the
\* reader skips it.
ReadReturnsOverflow(s) ==
  /\ reader[s] = "reading" /\ held[s] \in Sets /\ queue[held[s]] > 0
  /\ reader' = [reader EXCEPT ![s] = "batch"]
  /\ batch' = [batch EXCEPT ![s] = IF queue[held[s]] < QueueCap THEN queue[held[s]] ELSE 0]
  /\ queue' = [queue EXCEPT ![held[s]] = 0]
  /\ held' = [held EXCEPT ![s] = 0]
  /\ UNCHANGED <<loop, current, raised, table, number, done, buffered, forwarder>>

ReadReturns(s) ==
  /\ reader[s] = "reading" /\ held[s] \in Sets /\ queue[held[s]] > 0
  /\ reader' = [reader EXCEPT ![s] = "batch"]
  /\ batch' = [batch EXCEPT ![s] = queue[held[s]]]
  /\ queue' = [queue EXCEPT ![held[s]] = 0]
  /\ held' = [held EXCEPT ![s] = 0]
  /\ UNCHANGED <<loop, current, raised, table, number, done, buffered, forwarder>>

\* Mutant of Send: an event that finds no room is dropped.
SendOrDrop(s) ==
  /\ reader[s] = "batch" /\ batch[s] > 0
  /\ batch' = [batch EXCEPT ![s] = @ - 1]
  /\ buffered' = [buffered EXCEPT ![s] = IF @ < WatcherCap THEN @ + 1 ELSE @]
  /\ UNCHANGED <<loop, current, raised, number, done, forwarder, kernel, reader, held>>

\* The select may send although w.done is closed, as long as there is room.
Send(s) ==
  /\ reader[s] = "batch" /\ batch[s] > 0 /\ buffered[s] < WatcherCap
  /\ batch' = [batch EXCEPT ![s] = @ - 1]
  /\ buffered' = [buffered EXCEPT ![s] = @ + 1]
  /\ UNCHANGED <<loop, current, raised, number, done, forwarder, kernel, reader, held>>

SeeDone(s) ==
  /\ reader[s] = "batch" /\ batch[s] > 0 /\ done[s]
  /\ Stop(s)

BatchDone(s) ==
  /\ reader[s] = "batch" /\ batch[s] = 0
  /\ reader' = [reader EXCEPT ![s] = "top"]
  /\ UNCHANGED <<loop, current, raised, number, done, buffered, forwarder, kernel, held, batch>>

Reader(s) ==
  \/ EnterRead(s) \/ ReadFreed(s) \/ ReadOther(s) \/ ReadReturns(s)
  \/ Send(s) \/ SeeDone(s) \/ BatchDone(s)

\* forward of a closed set takes a last event, or sees set.done.
Drain(s) ==
  /\ forwarder[s] = "receive" /\ done[s] /\ buffered[s] > 0
  /\ buffered' = [buffered EXCEPT ![s] = @ - 1]
  /\ UNCHANGED <<loop, current, raised, number, done, forwarder, kernel, readers>>

ForwarderReturns(s) ==
  /\ forwarder[s] = "receive" /\ done[s]
  /\ forwarder' = [forwarder EXCEPT ![s] = "returned"]
  /\ UNCHANGED <<loop, current, raised, number, done, buffered, kernel, readers>>
-----------------------------------------------------------------------------
\* A group lives as long as a number refers to it or a read waits on it.
Live(g) == (\E n \in Numbers : table[n] = g) \/ \E s \in Sets : held[s] = g

\* Another process accesses the filesystem: every living group has its mark.
Access ==
  /\ \E g \in Sets : Live(g)
  /\ queue' = [g \in Sets |-> IF Live(g) /\ queue[g] < QueueCap THEN queue[g] + 1 ELSE queue[g]]
  /\ raised' = (raised \/ loop = "watching")
  /\ UNCHANGED <<loop, current, table, number, done, buffered, forwarder, readers>>

Next ==
  \/ Arm \/ Wake \/ GiveUp \/ CloseFd \/ OpenOther \/ Access
  \/ \E n \in Numbers : CloseOther(n)
  \/ \E s \in Sets : Reader(s) \/ ReadNothing(s) \/ ReadBlocks(s) \/ Drain(s) \/ ForwarderReturns(s)

\* Goroutines are scheduled; and the files are used, again and again.
Fairness ==
  /\ WF_vars(Wake) /\ WF_vars(CloseFd) /\ WF_vars(Access)
  /\ \A n \in Numbers : WF_vars(CloseOther(n))
  /\ \A s \in Sets : WF_vars(Reader(s)) /\ WF_vars(ForwarderReturns(s))

Spec == Init /\ [][Next]_vars
FairSpec == Spec /\ Fairness
-----------------------------------------------------------------------------
TypeOK ==
  /\ loop \in {"active", "watching", "closing"}
  /\ current \in 0 .. MaxSets /\ raised \in BOOLEAN
  /\ table \in [Numbers -> Sets \cup {Free, Other}]
  /\ number \in [Sets -> Numbers \cup {0}] /\ queue \in [Sets -> 0 .. QueueCap]
  /\ reader \in [Sets -> {"none", "top", "reading", "batch", "stopped"}]
  /\ held \in [Sets -> Sets \cup {0, Other}] /\ batch \in [Sets -> 0 .. QueueCap]
  /\ done \in [Sets -> BOOLEAN] /\ buffered \in [Sets -> 0 .. WatcherCap]
  /\ forwarder \in [Sets -> {"none", "receive", "returned"}]

\* Whatever stale readers do, the number of an open set refers to its group, and
\* nothing of it has gone to another file.
OpenSetKeepsNumber == loop # "active" => table[number[current]] = current

\* An access to the storage is lost to an open watch only if a reader of an
\* earlier set may have taken it, one whose descriptor had the same number.
OnlyReuseSteals ==
  loop = "watching" /\ raised /\ reader[current] # "stopped"
  /\ (\A s \in Sets : s < current => number[s] # number[current])
    => queue[current] > 0 \/ batch[current] > 0 \/ buffered[current] > 0

\* Stale readers take some events of a watch, never all of them: accesses that go
\* on wake the herd.
AccessesWakeHerd == loop = "watching" ~> loop # "watching"

\* ... and they free the groups of closed sets.  A reader of a closed set stops, or
\* is left behind in a read of another file that got its number: for ever, if that
\* file never answers.
ClosedSetsFreed ==
  \A s \in Sets :
    done[s] ~> ~Live(s) /\ (reader[s] = "stopped" \/ held[s] = Other)
=============================================================================
