---------------------------- MODULE HerdHistory ----------------------------
(***************************************************************************)
(* Herd with history variables: what the loop cannot see, or does not      *)
(* remember, of its disks and of its past sleeps.                          *)
(***************************************************************************)
EXTENDS Herd

VARIABLES
  quiet,    \* time since I/O last completed on a disk of the herd
  resumed,  \* disks on which I/O began after the sample that found the herd idle
  short     \* sleeps in a row that were shorter than the threshold before them
history == <<quiet, resumed, short>>

HInit == Init /\ quiet = 0 /\ resumed = {} /\ short = 0

\* Every clock stops at SleepAfterMax; so does the count of short sleeps.
HNext ==
  /\ \/ Elapse /\ quiet' = Later(quiet)
     \/ (\E d \in Devices : IODone(d)) /\ quiet' = 0
     \/ (Loop \/ Terminated) /\ quiet' = quiet
     \/ (\E d \in Devices : Command(d) \/ BackgroundIO(d)) /\ quiet' = quiet
     \/ Cancel /\ quiet' = quiet
     \/ (\E fs \in Filesystems :
           \/ \E D \in SUBSET Devices : AccessBegin(fs, D)
           \/ AccessEnd(fs) \/ Deliver(fs) \/ WatchFails(fs) \/ ReportError(fs))
        /\ quiet' = quiet
  /\ resumed' = IF pc' \in {"arm", "recheck"}
                THEN resumed \cup (busy' \ busy) ELSE {}
  /\ short' = IF pc # "start" /\ pc' = "start"
              THEN IF slept >= sleepAfter THEN 0 ELSE Later(short)
              ELSE short

HSpec == HInit /\ [][HNext]_<<vars, history>>
-----------------------------------------------------------------------------
HistoryTypeOK ==
  /\ TypeOK
  /\ {quiet, short} \subseteq 0 .. SleepAfterMax
  /\ resumed \subseteq Devices

\* Disks are told to stop only after a full threshold without any completed
\* I/O, the time it took to arm the watch included.
IdleBeforeStop ==
  [][pc = "recheck" /\ pc' = "stop" => quiet >= sleepAfter]_<<vars, history>>

\* The threshold is one base step for each short sleep in a row, the first one
\* included, up to the maximum, and nothing else the loop does changes it.
ThresholdCountsShortSleeps ==
  sleepAfter =
    IF (short + 1) * SleepAfter < SleepAfterMax
    THEN (short + 1) * SleepAfter ELSE SleepAfterMax

\* The promise in the comment of runHerd: no race with I/O that resumed while
\* the watch was being set up.
NoRaceWithResumedIO ==
  [][pc = "recheck" /\ pc' = "stop" => resumed \cap busy = {}]_<<vars, history>>
=============================================================================
