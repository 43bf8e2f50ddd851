----------------------------- MODULE HerdWatch -----------------------------
(***************************************************************************)
(* What a watch set promises the loop that opened it, filesystem by        *)
(* filesystem.  The loop (Herd) is built on these actions and this         *)
(* fairness and touches the watch in no other way; WatchSet implements     *)
(* them (WatchRefinement).                                                 *)
(***************************************************************************)
CONSTANT Filesystems

VARIABLES
  armed,       \* filesystems with a fanotify mark of the current set
  pipe,        \* those with an event that has not reached set.events
  dead,        \* those whose reader stopped
  ready,       \* set.events is not empty
  broken       \* set.errs is not empty
watch == <<armed, pipe, dead, ready, broken>>

NoWatch ==
  /\ armed = {} /\ pipe = {} /\ dead = {}
  /\ ready = FALSE /\ broken = FALSE

Mark(fs) ==
  /\ fs \notin armed
  /\ armed' = armed \cup {fs}
  /\ UNCHANGED <<pipe, dead, ready, broken>>

\* An access raises an event, unless the reader stopped.  Once the loop has an
\* event to read, which closes the watch, a full queue may drop the others.
Raise(fs) ==
  /\ fs \in armed \ dead
  /\ \/ pipe' = pipe \cup {fs}
     \/ ready /\ pipe' = pipe
  /\ UNCHANGED <<armed, dead, ready, broken>>

\* An event reaches set.events; others of its filesystem may follow it.
Arrive(fs) ==
  /\ fs \in pipe
  /\ pipe' \in {pipe, pipe \ {fs}} /\ ready' = TRUE
  /\ UNCHANGED <<armed, dead, broken>>

\* A readLoop stops; what the kernel still holds is lost.
Stop(fs) ==
  /\ fs \in armed \ dead
  /\ dead' = dead \cup {fs} /\ pipe' \in {pipe, pipe \ {fs}}
  /\ UNCHANGED <<armed, ready, broken>>

\* forward reports a stopped reader once it has passed on its last event.
Report(fs) ==
  /\ fs \in dead \ pipe /\ ~broken
  /\ broken' = TRUE
  /\ UNCHANGED <<armed, pipe, dead, ready>>

CloseWatch ==
  /\ armed' = {} /\ pipe' = {} /\ dead' = {}
  /\ ready' = FALSE /\ broken' = FALSE

WatchNext ==
  \/ CloseWatch
  \/ \E fs \in Filesystems : Mark(fs) \/ Raise(fs) \/ Arrive(fs) \/ Stop(fs) \/ Report(fs)

\* While the loop has no event to read, every filesystem's events are on their
\* way to it, and a reader that stopped is reported.
WatchFairness ==
  \A fs \in Filesystems :
    WF_watch(~ready /\ Arrive(fs)) /\ WF_watch(Report(fs))

SafeWatch == NoWatch /\ [][WatchNext]_watch
WatchSpec == SafeWatch /\ WatchFairness
=============================================================================
