----------------------------- MODULE HerdCycle -----------------------------
(***************************************************************************)
(* Herd implements SleepCycle and HerdRun.  A stopped reader counts as a   *)
(* noticed access: the code answers it too, by giving up.                  *)
(***************************************************************************)
EXTENDS Herd

Mode ==
  CASE Ended -> "over"
    [] pc = "stop" -> "falling"
    [] pc \in {"start", "reread"} -> "waking"
    [] pc \in {"check", "select"} /\ state = "sleeping" -> "asleep"
    [] OTHER -> "awake"

Cycle == INSTANCE SleepCycle WITH
  mode <- Mode, up <- up, called <- ready \/ broken \/ pipe \cup dead # {}

\* Every behaviour of the loop is a sleep cycle.
ImplementsSafeCycle == Cycle!Safe

\* Under the fairness of the code it is one that answers what it notices.
ImplementsCycle == Cycle!Spec

Life == INSTANCE HerdRun WITH
  status <- IF Ended THEN pc ELSE "running", cancelled <- cancelled

\* The loop returns once, and the error of the context only when that is done.
ImplementsSafeRun == Life!Safe

\* The loop is what App.Run takes it for: it also returns once its context is
\* done, whatever traffic keeps its select busy.
ImplementsRun == Life!Spec
=============================================================================
