----------------------------- MODULE MCSpinherd -----------------------------
(* Six bits: a second is 1, a minute 4, an hour 12; 12 * 6 wraps to 8.  A   *)
(* disk and a partition of another one, as debug --device may name it.      *)
EXTENDS Spinherd, TLC

MCDefault == [flag \in DurationFlags |->
  CASE flag = "sleep-after" -> 8 [] flag = "sleep-after-max" -> 12 [] OTHER -> 4]
MCNames == <<"sda1", "sdb">>
MCDiskOf == "sda1" :> "sda" @@ "sdb" :> "sdb"
=============================================================================
