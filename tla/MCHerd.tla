------------------------------- MODULE MCHerd -------------------------------
(* A small instance of Herd and its history: two disks, two filesystems, up *)
(* to the exchange of disks and of filesystems.                             *)
EXTENDS HerdHistory, TLC

MCSymmetry == Permutations(Devices) \cup Permutations(Filesystems)
=============================================================================
