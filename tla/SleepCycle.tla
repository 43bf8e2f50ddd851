----------------------------- MODULE SleepCycle -----------------------------
(***************************************************************************)
(* What a herd promises to the owner of its disks, whatever the loop does  *)
(* to keep it: disks are stopped together and only on the way to sleep; an *)
(* access noticed while asleep, and nothing else, wakes them; and the herd *)
(* counts as awake again only when every disk spins.                       *)
(***************************************************************************)
EXTENDS Naturals

CONSTANT Devices

VARIABLES
  mode,    \* where the herd is in its cycle
  up,      \* disks that spin
  called   \* an access was noticed since the watch began
vars == <<mode, up, called>>

Init == mode = "awake" /\ up \in SUBSET Devices /\ called = FALSE

\* An access is noticed.
Notice ==
  /\ mode \in {"awake", "falling", "asleep"} /\ ~called
  /\ called' = TRUE /\ UNCHANGED <<mode, up>>

\* The herd is awake anyway: what was noticed is forgotten.
Dismiss == mode = "awake" /\ called' = FALSE /\ UNCHANGED <<mode, up>>

\* I/O spins a disk up, in any mode.
Touch(d) == mode # "over" /\ up' = up \cup {d} /\ UNCHANGED <<mode, called>>

Fall == mode = "awake" /\ mode' = "falling" /\ UNCHANGED <<up, called>>
Stop(d) == mode = "falling" /\ up' = up \ {d} /\ UNCHANGED <<mode, called>>
Sleep == mode = "falling" /\ mode' = "asleep" /\ UNCHANGED <<up, called>>
Rouse == mode = "asleep" /\ called /\ mode' = "waking" /\ called' = FALSE /\ UNCHANGED up
Awake == mode = "waking" /\ up = Devices /\ mode' = "awake" /\ UNCHANGED <<up, called>>

\* The daemon stops or gives up; the disks stay as they are.
End == mode # "over" /\ mode' = "over" /\ called' = FALSE /\ UNCHANGED up

Next ==
  \/ Notice \/ Dismiss \/ Fall \/ Sleep \/ Rouse \/ Awake \/ End
  \/ \E d \in Devices : Touch(d) \/ Stop(d)

Safe == Init /\ [][Next]_vars

\* A noticed access is answered, and a wake comes to an end.
Spec == Safe /\ WF_vars(Rouse) /\ WF_vars(Sleep \/ Awake) /\ \A d \in Devices : WF_vars(mode = "waking" /\ Touch(d))
=============================================================================
