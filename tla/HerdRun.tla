------------------------------ MODULE HerdRun ------------------------------
(***************************************************************************)
(* What App.Run relies on of one herd: runHerd goes on until its context   *)
(* is cancelled or something fails, and returns once it is cancelled.      *)
(***************************************************************************)
VARIABLES
  status,     \* "running", "canceled" or "failed"
  cancelled   \* the context is done
vars == <<status, cancelled>>

Init == status = "running" /\ cancelled = FALSE

Cancel == ~cancelled /\ cancelled' = TRUE /\ UNCHANGED status
Fail == status = "running" /\ status' = "failed" /\ UNCHANGED cancelled
SeeCancel ==
  /\ status = "running" /\ cancelled
  /\ status' = "canceled" /\ UNCHANGED cancelled

Next == Cancel \/ Fail \/ SeeCancel

Safe == Init /\ [][Next]_vars
Spec == Safe /\ WF_vars(cancelled /\ (Fail \/ SeeCancel))
=============================================================================
