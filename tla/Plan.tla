-------------------------------- MODULE Plan --------------------------------
(***************************************************************************)
(* planHerds: from the mounts, the swaps and the block devices of the      *)
(* machine to the herds the daemon manages (auto.go, mounts.go, block.go,  *)
(* groupHerds in app.go).  A path is the sequence of its components, "/"   *)
(* is <<>>.                                                                *)
(***************************************************************************)
EXTENDS Integers, Sequences, FiniteSets, SequencesExt

CONSTANTS
  Blocks,      \* block devices of the machine
  None,        \* no block device
  Slaves,      \* /sys/class/block/<name>/slaves
  Parent,      \* the disk of a partition, None of anything else
  Physical,    \* those with a "device" link
  Flag,        \* queue/rotational: "0", "1" or "bad"
  MountInfos,  \* mount tables: sequences of [mountpoint, source, number]
  SwapLists,   \* swap tables: sequences of [block, path]
  IgnoreLists, \* --ignore-mnt
  MountLists   \* --mnt: sequences of paths, the empty one for auto mode

ASSUME BlocksAssumption ==
  /\ None \notin Blocks /\ Physical \subseteq Blocks
  /\ Slaves \in [Blocks -> SUBSET Blocks]
  /\ Parent \in [Blocks -> Blocks \cup {None}]
  /\ Flag \in [Blocks -> {"0", "1", "bad"}]

Paths == Seq(STRING)
Devices == Blocks \cup {None}

ASSUME TablesAssumption ==
  /\ MountInfos \subseteq Seq([mountpoint : Paths, source : Devices, number : Devices])
  /\ SwapLists \subseteq Seq([block : Devices, path : Paths])
  /\ MountLists \subseteq Seq(Paths)

VARIABLES
  mountinfo, swaps, ignored, requested,  \* what the run is given
  pc,        \* the step of planHerds
  left,      \* swap entries or mountpoints the loop at pc has before it
  entries,   \* mounts planAuto has not looked at yet
  rootSet, swapSet,  \* disks of the root filesystem and of swap
  runtimes,  \* mounts accepted so far, with their disks
  herds      \* the plan
given == <<mountinfo, swaps, ignored, requested>>
vars == <<given, pc, left, entries, rootSet, swapSet, runtimes, herds>>

Finished == pc \in {"done", "failed"}
-----------------------------------------------------------------------------
(* Block devices.                                                          *)

\* Where walkDeviceParents goes from a device: its slaves, else its disk.
Below(b) ==
  IF Slaves[b] # {} THEN Slaves[b]
  ELSE IF Parent[b] # None THEN {Parent[b]} ELSE {}

\* The devices at which the walk ends.
Leaves[b \in Blocks] ==
  IF Below(b) = {} THEN {b} ELSE UNION {Leaves[c] : c \in Below(b)}

\* Every leaf has to be physical, or the walk fails.
Resolvable(b) == b # None /\ Leaves[b] \subseteq Physical

\* resolveTopBlockDevice: the source if it is under /dev, else major:minor.
TopDevice(mount) == IF mount.source # None THEN mount.source ELSE mount.number
-----------------------------------------------------------------------------
(* Mounts.                                                                 *)

\* effectiveMounts: of the entries with one mountpoint the last counts.
EffectiveMounts(table) ==
  {table[i] : i \in {i \in DOMAIN table :
     \A j \in i + 1 .. Len(table) : table[j].mountpoint # table[i].mountpoint}}

\* resolveMount: the entry of a mountpoint root, if there is one.
MountAt(table, path) == {m \in EffectiveMounts(table) : m.mountpoint = path}

\* Mutant of FindContainingMount: the shortest mountpoint wins.
FindOutermostMount(mounts, path) ==
  LET containing == {m \in mounts :
        m.mountpoint = path \/ (m.mountpoint # <<>> /\ IsPrefix(m.mountpoint, path))}
  IN  {m \in containing :
         \A n \in containing : Len(n.mountpoint) >= Len(m.mountpoint)}

\* findContainingMount: the longest mountpoint that is the path or, with a
\* slash appended, a prefix of it.  The mountpoint "/" becomes "//", which is a
\* prefix of no cleaned path.
FindContainingMount(mounts, path) ==
  LET containing == {m \in mounts :
        m.mountpoint = path \/ (m.mountpoint # <<>> /\ IsPrefix(m.mountpoint, path))}
  IN  {m \in containing :
         \A n \in containing : Len(n.mountpoint) <= Len(m.mountpoint)}

\* resolveSwapEntryDevices: the device under the swap, {} if there is none.
SwapDevice(mounts, swap) ==
  IF swap.block # None THEN {swap.block}
  ELSE {TopDevice(m) : m \in FindContainingMount(mounts, swap.path)}

\* groupHerds: one herd for each set of disks.
GroupHerds(accepted) ==
  {[devices |-> D, mounts |-> {r.mount : r \in {s \in accepted : s.devices = D}}] :
     D \in {r.devices : r \in accepted}}
-----------------------------------------------------------------------------
Init ==
  /\ mountinfo \in MountInfos /\ swaps \in SwapLists
  /\ ignored \in IgnoreLists /\ requested \in MountLists
  /\ requested # <<>> => ignored = {}
  /\ pc = IF requested = <<>> THEN "root" ELSE "manual"
  /\ left = IF requested = <<>> THEN swaps ELSE requested
  /\ entries = EffectiveMounts(mountinfo)
  /\ rootSet = {} /\ swapSet = {} /\ runtimes = {} /\ herds = {}

Fail == pc' = "failed" /\ UNCHANGED <<given, left, entries, rootSet, swapSet, runtimes, herds>>

ResolveRoot ==
  /\ pc = "root"
  /\ \E m \in MountAt(mountinfo, <<>>) :
       /\ Resolvable(TopDevice(m))
       /\ rootSet' = Leaves[TopDevice(m)]
  /\ pc' = "swaps"
  /\ UNCHANGED <<given, left, entries, swapSet, runtimes, herds>>

RootFails ==
  /\ pc = "root"
  /\ ~\E m \in MountAt(mountinfo, <<>>) : Resolvable(TopDevice(m))
  /\ Fail

ResolveSwap ==
  /\ pc = "swaps" /\ left # <<>>
  /\ \E b \in SwapDevice(EffectiveMounts(mountinfo), Head(left)) :
       /\ Resolvable(b)
       /\ swapSet' = swapSet \cup Leaves[b]
  /\ left' = Tail(left)
  /\ UNCHANGED <<given, pc, entries, rootSet, runtimes, herds>>

\* One swap that cannot be resolved ends the planning.
SwapFails ==
  /\ pc = "swaps" /\ left # <<>>
  /\ ~\E b \in SwapDevice(EffectiveMounts(mountinfo), Head(left)) : Resolvable(b)
  /\ Fail

SwapsDone ==
  /\ pc = "swaps" /\ left = <<>>
  /\ pc' = "mounts"
  /\ UNCHANGED <<given, left, entries, rootSet, swapSet, runtimes, herds>>

\* A mount planAuto leaves out before it looks at its disks.
Skipped(m) == m.mountpoint \in ignored \/ m.source = None \/ ~Resolvable(m.source)

Looked(m) == pc = "mounts" /\ m \in entries /\ entries' = entries \ {m}

Exclude(m) ==
  /\ Looked(m)
  /\ \/ Skipped(m)
     \/ /\ ~Skipped(m) /\ \A d \in Leaves[m.source] : Flag[d] # "bad"
        /\ \/ Leaves[m.source] \cap (rootSet \cup swapSet) # {}
           \/ \E d \in Leaves[m.source] : Flag[d] = "0"
  /\ UNCHANGED <<given, pc, left, rootSet, swapSet, runtimes, herds>>

Accept(m) ==
  /\ Looked(m) /\ ~Skipped(m)
  /\ Leaves[m.source] \cap (rootSet \cup swapSet) = {}
  /\ \A d \in Leaves[m.source] : Flag[d] = "1"
  /\ runtimes' = runtimes \cup {[mount |-> m, devices |-> Leaves[m.source]]}
  /\ UNCHANGED <<given, pc, left, rootSet, swapSet, herds>>

\* Mutant of FlagFails: "0" is as unexpected as any other value.
FlagFailsOnSolid(m) ==
  /\ pc = "mounts" /\ m \in entries /\ ~Skipped(m)
  /\ \E d \in Leaves[m.source] : Flag[d] # "1"
  /\ Fail

\* classifyRotational fails, be the mount excluded already or not.
FlagFails(m) ==
  /\ pc = "mounts" /\ m \in entries /\ ~Skipped(m)
  /\ \E d \in Leaves[m.source] : Flag[d] = "bad"
  /\ Fail

\* resolveRuntimes: the mountpoints of --mnt, none of them twice.
Request ==
  /\ pc = "manual" /\ left # <<>>
  /\ \E m \in MountAt(mountinfo, Head(left)) :
       /\ Resolvable(TopDevice(m))
       /\ runtimes' = runtimes \cup {[mount |-> m, devices |-> Leaves[TopDevice(m)]]}
  /\ left' = Tail(left)
  /\ UNCHANGED <<given, pc, entries, rootSet, swapSet, herds>>

RequestFails ==
  /\ pc = "manual" /\ left # <<>>
  /\ ~\E m \in MountAt(mountinfo, Head(left)) : Resolvable(TopDevice(m))
  /\ Fail

Group ==
  /\ \/ pc = "mounts" /\ entries = {}
     \/ pc = "manual" /\ left = <<>>
  /\ herds' = GroupHerds(runtimes) /\ pc' = "done"
  /\ UNCHANGED <<given, left, entries, rootSet, swapSet, runtimes>>

Next ==
  \/ ResolveRoot \/ RootFails \/ ResolveSwap \/ SwapFails \/ SwapsDone
  \/ \E m \in entries : Exclude(m) \/ Accept(m) \/ FlagFails(m)
  \/ Request \/ RequestFails \/ Group
  \/ Finished /\ UNCHANGED vars

Spec == Init /\ [][Next]_vars
-----------------------------------------------------------------------------
(* What the plan should be, said without its steps.                        *)

\* The filesystem a path is on, and the disks under a mount or a swap.
Holder(path) ==
  LET above == {m \in EffectiveMounts(mountinfo) : IsPrefix(m.mountpoint, path)}
  IN  {m \in above : \A n \in above : Len(n.mountpoint) <= Len(m.mountpoint)}
DisksOf(b) == IF b = None THEN {} ELSE Leaves[b]
SwapDisks(swap) ==
  IF swap.block # None THEN DisksOf(swap.block)
  ELSE UNION {DisksOf(TopDevice(m)) : m \in Holder(swap.path)}
SparedDisks ==
  (UNION {DisksOf(TopDevice(m)) : m \in Holder(<<>>)})
    \cup (UNION {SwapDisks(swaps[i]) : i \in DOMAIN swaps})

Eligible ==
  {m \in EffectiveMounts(mountinfo) :
     /\ m.mountpoint \notin ignored /\ m.source # None
     /\ Leaves[m.source] \subseteq {d \in Physical : Flag[d] = "1"} \ SparedDisks}

TypeOK ==
  /\ pc \in {"root", "swaps", "mounts", "manual", "done", "failed"}
  /\ {rootSet, swapSet} \subseteq SUBSET Physical
  /\ entries \subseteq EffectiveMounts(mountinfo)
  /\ runtimes \subseteq [mount : EffectiveMounts(mountinfo), devices : SUBSET Physical]

Wanted ==
  IF requested = <<>> THEN Eligible
  ELSE UNION {MountAt(mountinfo, requested[i]) : i \in DOMAIN requested}

\* The plan manages exactly the mounts it should - in automatic mode the eligible
\* ones, which spare every disk under "/" or swap - and puts each of them with
\* those on the same disks.
PlanIsExact ==
  pc = "done" =>
    /\ UNION {h.mounts : h \in herds} = Wanted
    /\ \A h \in herds : \A m \in h.mounts : h.devices = Leaves[TopDevice(m)]
    /\ \A g, h \in herds : g.devices = h.devices => g = h

\* Storage the automatic mode has to know the disks of and cannot.
Known(path) == \E m \in Holder(path) : Resolvable(TopDevice(m))
Unresolvable ==
  \/ ~Known(<<>>)
  \/ \E i \in DOMAIN swaps :
       IF swaps[i].block = None THEN ~Known(swaps[i].path) ELSE ~Resolvable(swaps[i].block)
  \/ \E m \in EffectiveMounts(mountinfo) : \E d \in DisksOf(m.source) : Flag[d] = "bad"

\* A machine is planned for if the storage it uses can be resolved: the README
\* wants the default mode to do for most systems.
PlanFailsWithCause == pc = "failed" /\ requested = <<>> => Unresolvable

\* There is but one other machine it fails for, that with a swap file on "/".
PlanFailsForRootSwap ==
  pc = "failed" /\ requested = <<>> =>
    \/ Unresolvable
    \/ \E i \in DOMAIN swaps : swaps[i].block = None /\ Holder(swaps[i].path) = Holder(<<>>)

\* The herds the daemon drives independently of each other share no disk.
HerdsIndependent ==
  \A g, h \in herds : g # h => g.devices \cap h.devices = {}
=============================================================================
