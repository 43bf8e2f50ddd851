------------------------------- MODULE MCPlan -------------------------------
(***************************************************************************)
(* A machine for Plan: an SSD; two rotational disks of two partitions      *)
(* each, the first ones in an array; a virtual disk without a readable     *)
(* rotational flag; a zram device.  Its mounts and swaps vary.             *)
(***************************************************************************)
EXTENDS Plan

CONSTANTS ssd, sda, sda1, sda2, sdb, sdb1, sdb2, md0, vda, zram

MCBlocks == {ssd, sda, sda1, sda2, sdb, sdb1, sdb2, md0, vda, zram}
MCSlaves == [b \in MCBlocks |-> IF b = md0 THEN {sda1, sdb1} ELSE {}]
MCParent == [b \in MCBlocks |->
  IF b \in {sda1, sda2} THEN sda ELSE IF b \in {sdb1, sdb2} THEN sdb ELSE None]
MCPhysical == {ssd, sda, sdb, vda}
MCFlag == [b \in MCBlocks |->
             IF b \in {ssd, zram} THEN "0" ELSE IF b = vda THEN "bad" ELSE "1"]

Mount(path, source, number) == [mountpoint |-> path, source |-> source, number |-> number]

Roots == {Mount(<<>>, ssd, ssd), Mount(<<>>, sda2, sda2), Mount(<<>>, None, ssd), Mount(<<>>, None, None)}
Others ==
  {Mount(path, source, source) :
     path \in {<<"a">>, <<"a", "b">>, <<"c">>}, source \in {ssd, sda2, sdb2, md0, None}}
    \cup {Mount(<<"c">>, vda, vda)}
MCMountInfos ==
  {<<root>> \o rest : root \in Roots, rest \in BoundedSeq(Others, 2)}
    \cup {<<Mount(<<>>, ssd, ssd), Mount(<<"a">>, sda2, sda2), Mount(<<"a", "b">>, md0, md0),
            Mount(<<"c">>, sda2, sda2)>>}

Partition(b) == [block |-> b, path |-> <<>>]
File(path) == [block |-> None, path |-> path]

\* A swap file is on the root filesystem when nothing is mounted above it.
MCSwapLists ==
  {<<>>, <<Partition(ssd)>>, <<Partition(sdb2)>>, <<Partition(zram)>>,
   <<File(<<"a", "swap">>)>>, <<Partition(ssd), File(<<"a", "b", "swap">>)>>}
RootSwapLists == {<<File(<<"swap">>)>>}

MCIgnoreLists == {{}, {<<"a">>}}
MCMountLists == {<<>>, <<<<"a">>>>, <<<<"c">>, <<"a">>, <<"c">>>>}
AutoOnly == {<<>>}
=============================================================================
