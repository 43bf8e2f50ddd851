--------------------------- MODULE DebugFanotify ---------------------------
(***************************************************************************)
(* spinherd debug fanotify (debugFanotify, debug.go): a watch set whose    *)
(* loop prints each event and stays open, until it is cancelled, cannot    *)
(* print, or a watcher stops.  Its output may go to a filesystem it        *)
(* watches: then every line is an access of its own.                       *)
(***************************************************************************)
EXTENDS WatchSet

VARIABLES
  interrupted,      \* SIGINT or SIGTERM came
  unseen    \* another process accessed a filesystem since the last line
debug == <<interrupted, unseen>>

DebugInit == Init /\ interrupted = FALSE /\ unseen = FALSE

\* A signal; after the loop has ended it makes no difference.
Interrupt == Open /\ ~interrupted /\ interrupted' = TRUE /\ UNCHANGED <<vars, unseen>>

\* debugFanotify returns; the deferred closeWatcherSet begins.
Return == GiveUp /\ UNCHANGED debug

\* NewFanotifySet fails and has closed what it armed.
SetFails == loop = "arming" /\ Return

\* Mutant of SelectCtx: the context is looked at between two events.
SelectCtxAfterEvent == loop = "watching" /\ interrupted /\ events > 0 /\ Return

SelectCtx == loop = "watching" /\ interrupted /\ Return

\* An event becomes a line of output, ...
Show ==
  /\ loop = "watching" /\ events > 0
  /\ events' = events - 1 /\ unseen' = FALSE
  /\ UNCHANGED <<loop, errs, done, raised, watcher, interrupted>>

\* ... or the output is gone.
ShowFails == Take /\ UNCHANGED debug

\* Mutant of SelectErr: the error is printed, and the loop goes on.
SelectErrGoesOn ==
  /\ loop = "watching" /\ errs > 0
  /\ errs' = errs - 1
  /\ UNCHANGED <<loop, events, done, raised, watcher, debug>>

SelectErr == TakeError /\ UNCHANGED debug

Select == SelectCtx \/ Show \/ ShowFails \/ SelectErr
Close == CloseSet \/ Closed \/ \E fs \in Filesystems : CloseDone(fs) \/ CloseFd(fs)

\* A line goes to a watched filesystem.  Such events leave room in the kernel
\* queue, also beside an overflow record.
OwnLine(fs) ==
  /\ SelfAccess(fs)
  /\ Cardinality({i \in DOMAIN queue[fs] : queue[fs][i] = "self"}) < QueueCap - 2

\* The set and the kernel are those of the daemon.
Watch ==
  /\ Close \/ Finished \/ \E fs \in Filesystems :
       Arm(fs) \/ Reader(fs) \/ ReadFails(fs) \/ Forward(fs) \/ OwnLine(fs)
  /\ UNCHANGED debug

AccessUnseen(fs) == Access(fs) /\ unseen' = Open /\ UNCHANGED interrupted

DebugNext ==
  \/ Interrupt \/ SetFails \/ Select \/ Watch
  \/ \E fs \in Filesystems : AccessUnseen(fs)

DebugFairness ==
  /\ Fairness
  /\ WF_vars(SelectCtx) /\ WF_vars(SelectErr) /\ WF_vars(Show \/ ShowFails)
  /\ \A fs \in Filesystems : WF_vars(Arm(fs))

DebugSpec == DebugInit /\ [][DebugNext]_<<vars, debug>> /\ DebugFairness
-----------------------------------------------------------------------------
\* Its own lines never feed it: it goes on printing only as long as others access
\* the storage.
NoFeedback ==
  []<><<Show>>_<<vars, debug>> => []<><<\E fs \in Filesystems : AccessUnseen(fs)>>_<<vars, debug>>

\* After an access there is a line yet to come, however many events the full
\* channel drops, or the command ends.
AccessShown == unseen /\ loop = "watching" ~> ~unseen \/ loop # "watching"

\* A watcher that stopped ends the command; it does not go on deaf.
StoppedWatcherEnds ==
  \A fs \in Filesystems : reader[fs] = "stopped" ~> loop = "closed"

\* An interrupted command ends, and closes its set, whatever events come in.
InterruptEnds == interrupted ~> loop = "closed"
=============================================================================
