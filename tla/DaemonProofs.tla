---------------------------- MODULE DaemonProofs ----------------------------
(***************************************************************************)
(* Safety of App.Run for any finite set of herds.                          *)
(***************************************************************************)
EXTENDS Daemon, FiniteSetTheorems, TLAPS

\* What Run knows at each of its places.  Before its select has chosen it has
\* taken no error and runCtx ends with ctx only; it returns when nothing was
\* started or everything is over.
RunInv ==
  /\ run \in {"planning", "starting", "select"} => result = "none" /\ taken = {}
  /\ run = "planning" => ~cancelled
  /\ run \in {"starting", "select"} => (cancelled => ctx)
  /\ run = "stopping" => result # "nil"
  /\ run \in {"stopping", "returned"} => result # "none"
  /\ result = "canceled" => ctx
  /\ result = "nil" => run = "returned"
  /\ \A h \in Herds : status[h] = "canceled" => cancelled
  /\ run = "planning" => \A h \in Herds : status[h] = "unborn"
  /\ allDone => left = Herds
  /\ run = "returned" => allDone \/ \A h \in Herds : status[h] = "unborn"

RunsInv == DaemonTypeOK /\ ErrorsKept /\ RunInv /\ SilentEndMeansAllFailed

\* The buffer of errCh has room for a herd that has not reported.
LEMMA RoomInErrCh ==
  ASSUME RunsInv, NEW h \in Herds, h \notin reported
  PROVE  Cardinality(errCh) < Cardinality(Herds)
<1>1. errCh \subseteq Herds /\ errCh # Herds
  BY DEF RunsInv, DaemonTypeOK
<1>2. IsFiniteSet(Herds) BY HerdsAssumption DEF HerdsAssumption
<1>3. Cardinality(errCh) <= Cardinality(Herds) /\ Cardinality(errCh) # Cardinality(Herds)
  BY <1>1, <1>2, FS_Subset
<1>4. Cardinality(errCh) \in Nat /\ Cardinality(Herds) \in Nat
  BY <1>1, <1>2, FS_Subset, FS_CardinalityType
<1>. QED BY <1>3, <1>4

LEMMA RunsInit == DaemonInit => RunsInv
BY DEF DaemonInit, RunsInv, DaemonTypeOK, ErrorsKept, RunInv, SilentEndMeansAllFailed

\* When everyone has left uncancelled, everyone has reported.
LEMMA AllReported ==
  ASSUME RunsInv, left = Herds, ~cancelled
  PROVE  reported = Herds
BY DEF RunsInv, DaemonTypeOK, RunInv

LEMMA RunsNext == RunsInv /\ [DaemonNext]_daemonVars => RunsInv'
<1> SUFFICES ASSUME RunsInv, [DaemonNext]_daemonVars PROVE RunsInv'
  OBVIOUS
<1> USE DEF RunsInv, DaemonTypeOK, ErrorsKept, RunInv, SilentEndMeansAllFailed, goroutines
<1>1. CASE Planned
  BY <1>1 DEF Planned
<1>2. CASE PlanFails
  BY <1>2 DEF PlanFails
<1>3. CASE RunSelectCtx
  BY <1>3 DEF RunSelectCtx
<1>4. CASE RunSelectErr
  BY <1>4 DEF RunSelectErr
<1>5. CASE RunSelectDone
  <2>1. cancelled => ctx
    BY <1>5 DEF RunSelectDone
  <2>2. ~ctx => errCh = Herds
    BY <1>5, <2>1, AllReported DEF RunSelectDone
  <2>. QED BY <1>5, <2>2 DEF RunSelectDone, RunReturns
<1>6. CASE Stopped
  BY <1>6 DEF Stopped, RunReturns
<1>7. CASE AllLeft
  BY <1>7 DEF AllLeft
<1>8. CASE Signal
  BY <1>8 DEF Signal
<1>9. CASE RunTerminated \/ UNCHANGED daemonVars
  BY <1>9 DEF RunTerminated, daemonVars, supervisor
<1>10. ASSUME NEW h \in Herds, StartHerd(h) PROVE RunsInv'
  BY <1>10 DEF StartHerd
<1>11. ASSUME NEW h \in Herds, HerdFails(h) PROVE RunsInv'
  BY <1>11 DEF HerdFails, supervisor
<1>12. ASSUME NEW h \in Herds, HerdCanceled(h) PROVE RunsInv'
  BY <1>12 DEF HerdCanceled, supervisor
<1>13. ASSUME NEW h \in Herds, ReportHerd(h) PROVE RunsInv'
  <2>1. errCh' = errCh \cup {h}
    BY <1>13, RoomInErrCh DEF ReportHerd
  <2>. QED BY <1>13, <2>1 DEF ReportHerd, supervisor
<1>14. ASSUME NEW h \in Herds, Leave(h) PROVE RunsInv'
  BY <1>14 DEF Leave, supervisor
<1>. QED
  BY <1>1, <1>2, <1>3, <1>4, <1>5, <1>6, <1>7, <1>8, <1>9, <1>10, <1>11, <1>12, <1>13, <1>14
  DEF DaemonNext, RunSelect, Goroutine

LEMMA RunsAlways == DaemonSpec => []RunsInv
BY RunsInit, RunsNext, PTL DEF DaemonSpec

-----------------------------------------------------------------------------
\* Every variable of the supervisor stays in its type.
THEOREM DaemonTypeCorrect == DaemonSpec => []DaemonTypeOK
<1>1. RunsInv => DaemonTypeOK BY DEF RunsInv
<1>. QED BY <1>1, RunsAlways, PTL

\* The default of the select on errCh is never taken: no error of a herd is
\* dropped, whatever Run is at.
THEOREM NoErrorDropped == DaemonSpec => []ErrorsKept
<1>1. RunsInv => ErrorsKept BY DEF RunsInv
<1>. QED BY <1>1, RunsAlways, PTL

\* Run loses the error of a herd only when it is cancelled or all herds failed.
THEOREM SilentEndOnlyThen == DaemonSpec => []SilentEndMeansAllFailed
<1>1. RunsInv => SilentEndMeansAllFailed BY DEF RunsInv
<1>. QED BY <1>1, RunsAlways, PTL

\* No herd loop runs when Run has returned.
THEOREM HerdsEndFirst == DaemonSpec => []NoHerdOutlivesRun
<1>1. RunsInv => NoHerdOutlivesRun
  BY DEF RunsInv, DaemonTypeOK, RunInv, NoHerdOutlivesRun
<1>. QED BY <1>1, RunsAlways, PTL
=============================================================================
