------------------------------- MODULE Daemon -------------------------------
(***************************************************************************)
(* App.Run (app.go): one goroutine per herd under a common context, the    *)
(* channel errCh for their errors, the goroutine that waits for all of     *)
(* them and closes done, and the select of Run.  A herd is what HerdRun    *)
(* says, and Herd implements HerdRun.                                      *)
(*                                                                         *)
(* errCh is the set of herds whose error it holds: each puts one, and      *)
(* which of them Run takes first makes no difference to it.                *)
(***************************************************************************)
EXTENDS Naturals, FiniteSets

CONSTANT Herds  \* what planHerds returned

ASSUME HerdsAssumption == IsFiniteSet(Herds)

VARIABLES
  run,        \* Run: "planning", "starting", "select", "stopping" or "returned"
  result,     \* what it returns: "none" so far, "nil", "canceled" or "error"
  taken,      \* the herd whose error it took from errCh
  ctx,        \* the caller's context is done
  cancelled,  \* runCtx is done
  allDone     \* the channel done is closed
supervisor == <<run, result, taken, ctx, cancelled, allDone>>

VARIABLES
  status,     \* runHerd of each herd: "unborn", "running", "canceled" or "failed"
  reported,   \* herds past their select on errCh
  errCh,      \* herds whose error is in errCh
  left        \* herds that called wg.Done
goroutines == <<status, reported, errCh, left>>

daemonVars == <<supervisor, goroutines>>

DaemonInit ==
  /\ run = "planning" /\ result = "none" /\ taken = {}
  /\ ctx = FALSE /\ cancelled = FALSE /\ allDone = FALSE
  /\ status = [h \in Herds |-> "unborn"]
  /\ reported = {} /\ errCh = {} /\ left = {}
-----------------------------------------------------------------------------
(* Run.                                                                    *)

\* run returns; the deferred cancel ends runCtx.
RunReturns(how) ==
  /\ run' = "returned" /\ result' = how /\ cancelled' = TRUE

\* runCtx is made here, done at once if its parent is.
Planned ==
  /\ run = "planning" /\ Herds # {}
  /\ run' = "starting" /\ cancelled' = ctx
  /\ UNCHANGED <<result, taken, ctx, allDone, goroutines>>

\* planHerds fails or finds no herd: there is no context to cancel yet.
PlanFails ==
  /\ run = "planning"
  /\ run' = "returned" /\ result' = "error"
  /\ UNCHANGED <<taken, ctx, cancelled, allDone, goroutines>>

StartHerd(h) ==
  /\ run = "starting" /\ status[h] = "unborn"
  /\ status' = [status EXCEPT ![h] = "running"]
  /\ run' = IF \A other \in Herds : status'[other] # "unborn" THEN "select" ELSE run
  /\ UNCHANGED <<result, taken, ctx, cancelled, allDone, reported, errCh, left>>

RunSelectCtx ==
  /\ run = "select" /\ ctx
  /\ run' = "stopping" /\ result' = "canceled" /\ cancelled' = TRUE
  /\ UNCHANGED <<taken, ctx, allDone, goroutines>>

\* Mutant of RunSelectErr: Run does not wait for the herds.
RunSelectErrReturns ==
  /\ run = "select"
  /\ \E h \in errCh : taken' = {h} /\ errCh' = errCh \ {h}
  /\ RunReturns("error")
  /\ UNCHANGED <<ctx, allDone, status, reported, left>>

RunSelectErr ==
  /\ run = "select"
  /\ \E h \in errCh : taken' = {h} /\ errCh' = errCh \ {h}
  /\ run' = "stopping" /\ result' = "error" /\ cancelled' = TRUE
  /\ UNCHANGED <<ctx, allDone, status, reported, left>>

RunSelectDone ==
  /\ run = "select" /\ allDone
  /\ RunReturns("nil")
  /\ UNCHANGED <<taken, ctx, allDone, goroutines>>

Stopped ==
  /\ run = "stopping" /\ allDone
  /\ RunReturns(result)
  /\ UNCHANGED <<taken, ctx, allDone, goroutines>>

\* wg.Wait returns.
AllLeft ==
  /\ run \in {"select", "stopping"} /\ left = Herds /\ ~allDone
  /\ allDone' = TRUE
  /\ UNCHANGED <<run, result, taken, ctx, cancelled, goroutines>>

\* SIGINT or SIGTERM; runCtx follows its parent.
Signal ==
  /\ run # "returned" /\ ~ctx
  /\ ctx' = TRUE /\ cancelled' = (run # "planning")
  /\ UNCHANGED <<run, result, taken, allDone, goroutines>>
-----------------------------------------------------------------------------
(* The goroutine of herd h.                                                *)

HerdFails(h) ==
  /\ status[h] = "running"
  /\ status' = [status EXCEPT ![h] = "failed"]
  /\ UNCHANGED <<supervisor, reported, errCh, left>>

\* Mutants of HerdCanceled: the herd does not look at its context; it is given
\* ctx instead of runCtx.
HerdGoesOn(h) == status[h] = "running" /\ cancelled /\ UNCHANGED daemonVars

HerdSeesCaller(h) ==
  /\ status[h] = "running" /\ ctx
  /\ status' = [status EXCEPT ![h] = "canceled"]
  /\ UNCHANGED <<supervisor, reported, errCh, left>>

HerdCanceled(h) ==
  /\ status[h] = "running" /\ cancelled
  /\ status' = [status EXCEPT ![h] = "canceled"]
  /\ UNCHANGED <<supervisor, reported, errCh, left>>

\* Mutant of ReportHerd: errCh has no buffer, Run must be at its select.
ReportHerdUnbuffered(h) ==
  /\ status[h] = "failed" /\ h \notin reported
  /\ reported' = reported \cup {h}
  /\ errCh' = IF run = "select" /\ errCh = {} THEN {h} ELSE errCh
  /\ UNCHANGED <<supervisor, status, left>>

\* The error joins errCh, or is dropped by the default of the select when
\* errCh is full.
ReportHerd(h) ==
  /\ status[h] = "failed" /\ h \notin reported
  /\ reported' = reported \cup {h}
  /\ errCh' = IF Cardinality(errCh) < Cardinality(Herds) THEN errCh \cup {h} ELSE errCh
  /\ UNCHANGED <<supervisor, status, left>>

\* Mutant of Leave: wg.Done comes before the report.
LeaveBeforeReport(h) ==
  /\ status[h] \in {"canceled", "failed"} /\ h \notin left
  /\ left' = left \cup {h}
  /\ UNCHANGED <<supervisor, status, reported, errCh>>

\* The deferred wg.Done.
Leave(h) ==
  /\ h \notin left /\ (status[h] = "canceled" \/ h \in reported)
  /\ left' = left \cup {h}
  /\ UNCHANGED <<supervisor, status, reported, errCh>>

Goroutine(h) == HerdCanceled(h) \/ ReportHerd(h) \/ Leave(h)
-----------------------------------------------------------------------------
RunSelect == RunSelectCtx \/ RunSelectErr \/ RunSelectDone
RunTerminated == run = "returned" /\ UNCHANGED daemonVars

DaemonNext ==
  \/ Planned \/ PlanFails \/ RunSelect \/ Stopped \/ AllLeft \/ Signal \/ RunTerminated
  \/ \E h \in Herds : StartHerd(h) \/ HerdFails(h) \/ Goroutine(h)

\* Goroutines are scheduled; a cancelled herd returns (HerdRun); planning ends.
DaemonFairness ==
  /\ WF_daemonVars(Planned) /\ WF_daemonVars(RunSelect) /\ WF_daemonVars(Stopped) /\ WF_daemonVars(AllLeft)
  /\ \A h \in Herds : WF_daemonVars(StartHerd(h)) /\ WF_daemonVars(Goroutine(h))

DaemonSpec == DaemonInit /\ [][DaemonNext]_daemonVars
DaemonFairSpec == DaemonSpec /\ DaemonFairness
-----------------------------------------------------------------------------
DaemonTypeOK ==
  /\ run \in {"planning", "starting", "select", "stopping", "returned"}
  /\ result \in {"none", "nil", "canceled", "error"}
  /\ ctx \in BOOLEAN /\ cancelled \in BOOLEAN /\ allDone \in BOOLEAN
  /\ status \in [Herds -> {"unborn", "running", "canceled", "failed"}]
  /\ taken \subseteq reported /\ errCh \subseteq reported
  /\ reported \subseteq {h \in Herds : status[h] = "failed"}
  /\ left \subseteq reported \cup {h \in Herds : status[h] = "canceled"}

\* No error is lost in the default of the select: errCh has room for every herd,
\* also when Run is not at its own select.
ErrorsKept == reported \subseteq errCh \cup taken

\* Run may return nil although herds failed, as done and errCh may be ready
\* together, but only when it was cancelled or no herd is left to watch a disk.
SilentEndMeansAllFailed == result = "nil" => ctx \/ errCh = Herds

\* When Run returns every herd has: none sends a command to a disk after that.
NoHerdOutlivesRun ==
  run = "returned" => \A h \in Herds : status[h] \in {"unborn", "canceled", "failed"}

\* The daemon does not go on with some of its herds: one failure ends it, ...
OneFailureEndsAll == (\E h \in Herds : status[h] = "failed") ~> run = "returned"

\* ... and so does a signal.
SignalEnds == ctx ~> run = "returned"
=============================================================================
