----------------------------- MODULE PlanProofs -----------------------------
(***************************************************************************)
(* The plan is right for any machine: any block devices, mounts and swaps, *)
(* any order of the mounts, any --mnt and --ignore-mnt.  What the walk     *)
(* down to the disks finds (Leaves) is taken as it is.                     *)
(***************************************************************************)
EXTENDS Plan, FiniteSetTheorems, SequenceTheorems, TLAPS

Mounts == [mountpoint : Paths, source : Devices, number : Devices]

Managed == {r.mount : r \in runtimes}

\* How far the loop over list has come.
Seen(list) == Len(list) - Len(left)

\* What it has before it is the end of the list.
IsEnd(rest, list) ==
  Len(rest) <= Len(list) /\ \A i \in 1 .. Len(rest) : rest[i] = list[Len(list) - Len(rest) + i]

Given ==
  /\ mountinfo \in MountInfos /\ swaps \in SwapLists /\ requested \in MountLists
  /\ pc \in {"root", "swaps", "mounts"} => requested = <<>>
  /\ pc = "manual" => requested # <<>>

\* The disks to spare, as far as they are known.
Sparing ==
  /\ pc \in {"root", "swaps"} =>
       /\ left \in Seq([block : Devices, path : Paths]) /\ IsEnd(left, swaps)
       /\ swapSet = UNION {SwapDisks(swaps[i]) : i \in 1 .. Seen(swaps)}
       /\ entries = EffectiveMounts(mountinfo) /\ runtimes = {}
  /\ pc = "swaps" => rootSet = UNION {DisksOf(TopDevice(m)) : m \in Holder(<<>>)}
  /\ pc = "mounts" => rootSet \cup swapSet = SparedDisks

\* The mounts to manage, of those the loop has looked at.
Choosing ==
  /\ pc = "mounts" => Managed = Eligible \ entries
  /\ pc = "manual" =>
       /\ left \in Seq(Paths) /\ IsEnd(left, requested)
       /\ Managed = UNION {MountAt(mountinfo, requested[i]) : i \in 1 .. Seen(requested)}
  /\ \A r \in runtimes : r.devices = Leaves[TopDevice(r.mount)]

PlanInv == TypeOK /\ Given /\ Sparing /\ Choosing /\ PlanIsExact /\ PlanFailsForRootSwap
-----------------------------------------------------------------------------
(* Mounts and paths.                                                       *)

\* A set of numbers below a bound has a greatest one: the ones above it get
\* fewer as it grows.
LEMMA Greatest ==
  ASSUME NEW bound \in Nat, NEW S \in SUBSET (0 .. bound), S # {}
  PROVE  \E n \in S : \A m \in S : m <= n
<1> DEFINE all == 0 .. bound
           T == {n + 1 .. bound : n \in S}
<1>1. T \subseteq FiniteSubsetsOf(all) /\ T # {}
  <2>1. IsFiniteSet(all) BY FS_Interval
  <2>2. \A n \in S : n + 1 .. bound \subseteq all OBVIOUS
  <2>3. \A n \in S : n + 1 .. bound \in FiniteSubsetsOf(all)
    BY <2>1, <2>2, FS_Subset DEF FiniteSubsetsOf
  <2>. QED BY <2>3
<1>2. PICK t \in T : \A u \in T : <<u, t>> \notin StrictSubsetOrdering(all)
  BY <1>1, FS_StrictSubsetOrderingWellFounded, WFMin
<1>3. PICK n \in S : t = n + 1 .. bound
  OBVIOUS
<1>4. ASSUME NEW m \in S, m > n PROVE FALSE
  <2>1. /\ m + 1 .. bound \in T /\ m + 1 .. bound \subseteq t /\ m \in t /\ m \notin m + 1 .. bound
        /\ t \subseteq all
    BY <1>3, <1>4
  <2>2. <<m + 1 .. bound, t>> \in StrictSubsetOrdering(all)
    BY <2>1 DEF StrictSubsetOrdering
  <2>. QED BY <1>2, <2>1, <2>2
<1>5. \A m \in S : m <= n
  BY <1>4
<1>. QED BY <1>5

LEMMA PrefixFacts ==
  ASSUME NEW p \in Paths, NEW q \in Paths
  PROVE  /\ Len(p) \in Nat /\ (Len(p) = 0 <=> p = <<>>)
         /\ <<>> \in Paths /\ Len(<<>>) = 0
         /\ IsPrefix(p, p) /\ IsPrefix(<<>>, p)
         /\ IsPrefix(p, q) => Len(p) <= Len(q)
         /\ IsPrefix(p, <<>>) => p = <<>>
<1>1. Len(p) \in Nat /\ (Len(p) = 0 <=> p = <<>>) /\ <<>> \in Paths /\ Len(<<>>) = 0
  BY EmptySeq DEF Paths
<1>2. SubSeq(<<>>, 1, 0) = <<>> /\ SubSeq(p, 1, 0) = <<>>
  BY <1>1 DEF Paths
<1>. QED BY <1>1, <1>2 DEF IsPrefix, Paths

\* Prefixes of a path that are as long as each other are the same.
LEMMA OnePrefix ==
  ASSUME NEW p \in Paths, NEW q \in Paths, NEW path \in Paths,
         IsPrefix(p, path), IsPrefix(q, path), Len(p) = Len(q)
  PROVE  p = q
<1>1. SubSeq(p, 1, Len(p)) = p /\ SubSeq(q, 1, Len(q)) = q
  BY DEF Paths
<1>. QED BY <1>1 DEF IsPrefix

\* effectiveMounts leaves one entry of a mountpoint.
LEMMA OneEntry ==
  ASSUME NEW table \in MountInfos
  PROVE  /\ EffectiveMounts(table) \subseteq Mounts
         /\ \A m, n \in EffectiveMounts(table) : m.mountpoint = n.mountpoint => m = n
<1>1. table \in Seq(Mounts)
  BY TablesAssumption DEF Mounts
<1>2. /\ Len(table) \in Nat /\ DOMAIN table = 1 .. Len(table)
      /\ \A i \in 1 .. Len(table) : table[i] \in Mounts
  BY <1>1, LenProperties, ElementOfSeq
<1>3. EffectiveMounts(table) \subseteq Mounts
  BY <1>2 DEF EffectiveMounts
<1>4. ASSUME NEW m \in EffectiveMounts(table), NEW n \in EffectiveMounts(table),
             m.mountpoint = n.mountpoint
      PROVE  m = n
  <2>1. PICK i \in 1 .. Len(table) :
          m = table[i] /\ \A k \in i + 1 .. Len(table) : table[k].mountpoint # m.mountpoint
    BY <1>2 DEF EffectiveMounts
  <2>2. PICK j \in 1 .. Len(table) :
          n = table[j] /\ \A k \in j + 1 .. Len(table) : table[k].mountpoint # n.mountpoint
    BY <1>2 DEF EffectiveMounts
  <2>3. j \notin i + 1 .. Len(table) /\ i \notin j + 1 .. Len(table)
    BY <1>4, <2>1, <2>2
  <2>4. i = j
    BY <1>2, <2>3
  <2>. QED BY <2>1, <2>2, <2>4
<1>. QED BY <1>3, <1>4

Longest(mounts) ==
  {m \in mounts : \A n \in mounts : Len(n.mountpoint) <= Len(m.mountpoint)}

\* There is a longest one of some mountpoints above a path.
LEMMA LongestExists ==
  ASSUME NEW path \in Paths, NEW mounts \in SUBSET Mounts, mounts # {},
         \A m \in mounts : IsPrefix(m.mountpoint, path)
  PROVE  Longest(mounts) # {}
<1> DEFINE S == {Len(m.mountpoint) : m \in mounts}
<1>1. \A m \in mounts : m.mountpoint \in Paths
  BY DEF Mounts
<1>2. \A m \in mounts : Len(m.mountpoint) \in Nat /\ Len(m.mountpoint) <= Len(path)
  BY <1>1, PrefixFacts
<1>3. Len(path) \in Nat /\ S \in SUBSET (0 .. Len(path)) /\ S # {}
  <2>1. Len(path) \in Nat BY PrefixFacts
  <2>2. \A m \in mounts : Len(m.mountpoint) \in 0 .. Len(path) BY <1>2, <2>1
  <2>. QED BY <2>1, <2>2
<1> HIDE DEF S
<1>4. PICK k \in S : \A l \in S : l <= k
  BY <1>3, Greatest
<1>. QED BY <1>4 DEF S, Longest

\* A path is on one filesystem at most, "/" on that mounted there.
LEMMA OneHolder ==
  ASSUME Given, NEW path \in Paths
  PROVE  /\ Holder(path) \subseteq Mounts
         /\ \A m, n \in Holder(path) : m = n
         /\ Holder(<<>>) = MountAt(mountinfo, <<>>)
<1> DEFINE effective == EffectiveMounts(mountinfo)
<1>1. /\ effective \subseteq Mounts
      /\ \A m, n \in effective : m.mountpoint = n.mountpoint => m = n
  BY OneEntry DEF Given
<1>2. \A m \in effective : m.mountpoint \in Paths /\ Len(m.mountpoint) \in Nat
  BY <1>1, PrefixFacts DEF Mounts
<1>3. ASSUME NEW m \in Holder(path), NEW n \in Holder(path) PROVE m = n
  <2>1. /\ m \in effective /\ n \in effective
        /\ IsPrefix(m.mountpoint, path) /\ IsPrefix(n.mountpoint, path)
        /\ Len(m.mountpoint) <= Len(n.mountpoint) /\ Len(n.mountpoint) <= Len(m.mountpoint)
    BY DEF Holder
  <2>2. Len(m.mountpoint) = Len(n.mountpoint)
    BY <1>2, <2>1
  <2>3. m.mountpoint = n.mountpoint
    BY <1>2, <2>1, <2>2, OnePrefix
  <2>. QED BY <1>1, <2>1, <2>3
<1>4. \A m \in effective : IsPrefix(m.mountpoint, <<>>) <=> m.mountpoint = <<>>
  BY <1>2, PrefixFacts
<1>5. Holder(<<>>) = MountAt(mountinfo, <<>>)
  BY <1>2, <1>4 DEF Holder, MountAt
<1>6. Holder(path) \subseteq effective
  BY DEF Holder
<1>. QED BY <1>1, <1>3, <1>5, <1>6

\* findContainingMount finds the filesystem of a swap file, but for "/".
LEMMA FoundHolder ==
  ASSUME Given, NEW path \in Paths
  PROVE  LET found == FindContainingMount(EffectiveMounts(mountinfo), path)
         IN  IF found # {} THEN found = Holder(path) ELSE Holder(path) = Holder(<<>>)
<1> DEFINE effective == EffectiveMounts(mountinfo)
           containing == {m \in effective :
             m.mountpoint = path \/ (m.mountpoint # <<>> /\ IsPrefix(m.mountpoint, path))}
           above == {m \in effective : IsPrefix(m.mountpoint, path)}
<1>1. effective \subseteq Mounts /\ \A m \in effective : m.mountpoint \in Paths
  BY OneEntry DEF Given, Mounts
<1>2. FindContainingMount(effective, path) = Longest(containing) /\ Holder(path) = Longest(above)
  BY DEF FindContainingMount, Holder, Longest
<1>3. /\ containing \subseteq above /\ above \subseteq effective
      /\ \A m \in above \ containing : m.mountpoint = <<>> /\ path # <<>>
  BY <1>1, PrefixFacts
<1>4. \A m \in above : /\ Len(m.mountpoint) \in Nat
                       /\ m.mountpoint = <<>> <=> Len(m.mountpoint) = 0
  BY <1>1, <1>3, PrefixFacts
<1>5. \A m \in containing : m.mountpoint = <<>> => path = <<>>
  OBVIOUS
<1>6. CASE containing # {}
  <2>1. Longest(containing) # {}
    <3>1. containing \in SUBSET Mounts /\ \A m \in containing : IsPrefix(m.mountpoint, path)
      BY <1>1, <1>3
    <3> HIDE DEF containing
    <3>. QED BY <1>6, <3>1, LongestExists
  <2> HIDE DEF containing, above
  <2>2. Longest(containing) = Longest(above)
    <3>1. ASSUME NEW m \in Longest(containing) PROVE m \in Longest(above)
      <4>1. \A n \in above : Len(n.mountpoint) <= Len(m.mountpoint)
        BY <1>3, <1>4, <3>1 DEF Longest
      <4>. QED BY <1>3, <3>1, <4>1 DEF Longest
    <3>2. ASSUME NEW m \in Longest(above) PROVE m \in Longest(containing)
      <4>1. PICK c \in containing : TRUE BY <1>6
      <4>2. m \in above /\ c \in above /\ Len(c.mountpoint) <= Len(m.mountpoint)
        BY <1>3, <3>2 DEF Longest
      <4>3. m \in containing
        BY <1>3, <1>4, <1>5, <4>1, <4>2
      <4>. QED BY <1>3, <3>2, <4>3 DEF Longest
    <3>. QED BY <3>1, <3>2
  <2>. QED BY <1>2, <2>1, <2>2
<1>7. CASE containing = {}
  <2>1. Longest(containing) = {}
    BY <1>7 DEF Longest
  <2>2. above = MountAt(mountinfo, <<>>)
    <3>1. \A m \in above : m.mountpoint = <<>> BY <1>3, <1>7
    <3>2. \A m \in effective : m.mountpoint = <<>> => m \in above BY PrefixFacts
    <3>. QED BY <1>3, <3>1, <3>2 DEF MountAt
  <2>3. Longest(above) = above
    <3>1. \A m \in above : Len(m.mountpoint) = 0 BY <1>3, <1>4, <1>7
    <3> HIDE DEF above
    <3>. QED BY <3>1 DEF Longest
  <2>4. Holder(<<>>) = above
    BY <2>2, OneHolder
  <2>. QED BY <1>2, <2>1, <2>3, <2>4
<1>. QED BY <1>6, <1>7

-----------------------------------------------------------------------------
(* Swaps.                                                                  *)

\* The disks under a swap whose device is found and resolved.
LEMMA SwapResolved ==
  ASSUME Given, NEW swap \in [block : Devices, path : Paths],
         NEW b \in SwapDevice(EffectiveMounts(mountinfo), swap), Resolvable(b)
  PROVE  SwapDisks(swap) = Leaves[b]
<1>1. CASE swap.block # None
  BY <1>1 DEF SwapDevice, SwapDisks, DisksOf, Resolvable
<1>2. CASE swap.block = None
  <2>1. PICK m \in FindContainingMount(EffectiveMounts(mountinfo), swap.path) : b = TopDevice(m)
    BY <1>2 DEF SwapDevice
  <2>2. m \in Holder(swap.path) /\ \A n \in Holder(swap.path) : n = m
    BY <2>1, FoundHolder, OneHolder
  <2>3. SwapDisks(swap) = DisksOf(b)
    BY <1>2, <2>1, <2>2 DEF SwapDisks
  <2>. QED BY <2>3 DEF DisksOf, Resolvable
<1>. QED BY <1>1, <1>2

\* Why a swap may have no device, or none that resolves.
LEMMA SwapUnresolved ==
  ASSUME Given, NEW swap \in [block : Devices, path : Paths],
         ~\E b \in SwapDevice(EffectiveMounts(mountinfo), swap) : Resolvable(b)
  PROVE  IF swap.block # None THEN ~Resolvable(swap.block)
         ELSE ~Known(swap.path) \/ Holder(swap.path) = Holder(<<>>)
<1>1. CASE swap.block # None
  BY <1>1 DEF SwapDevice
<1>2. CASE swap.block = None
  BY <1>2, FoundHolder DEF SwapDevice, Known
<1>. QED BY <1>1, <1>2

-----------------------------------------------------------------------------
(* The steps of planHerds.                                                 *)

\* A loop begins with all of its list, ...
LEMMA WholeList ==
  ASSUME NEW S, NEW list \in Seq(S)
  PROVE  IsEnd(list, list) /\ Len(list) - Len(list) = 0
<1>1. Len(list) \in Nat
  BY LenProperties
<1>2. \A i \in 1 .. Len(list) : Len(list) - Len(list) + i = i
  BY <1>1
<1>. QED BY <1>1, <1>2 DEF IsEnd

\* ... and takes the next entry.
LEMMA NextEntry ==
  ASSUME NEW S, NEW list \in Seq(S), NEW rest \in Seq(S), rest # <<>>,
         IsEnd(rest, list)
  PROVE  LET seen == Len(list) - Len(rest)
         IN  /\ seen \in Nat /\ seen + 1 \in 1 .. Len(list) /\ Head(rest) = list[seen + 1]
             /\ list[seen + 1] \in S /\ Tail(rest) \in Seq(S)
             /\ IsEnd(Tail(rest), list) /\ Len(list) - Len(Tail(rest)) = seen + 1
<1> USE DEF IsEnd
<1> DEFINE tail == Tail(rest)
<1>1. /\ Len(list) \in Nat /\ Len(rest) \in Nat \ {0}
      /\ Head(rest) = rest[1] /\ tail \in Seq(S) /\ Len(tail) = Len(rest) - 1
      /\ \A i \in 1 .. Len(tail) : tail[i] = rest[i + 1]
  BY LenProperties, EmptySeq, HeadTailProperties
<1> HIDE DEF tail
<1>2. \A i \in 1 .. Len(tail) : tail[i] = list[Len(list) - Len(tail) + i]
  <2>1. SUFFICES ASSUME NEW i \in 1 .. Len(tail)
                 PROVE  tail[i] = list[Len(list) - Len(tail) + i]
    OBVIOUS
  <2>2. i + 1 \in 1 .. Len(rest) /\ Len(list) - Len(rest) + (i + 1) = Len(list) - Len(tail) + i
    BY <1>1
  <2>. QED BY <1>1, <2>2
<1>3. /\ Len(list) - Len(rest) \in Nat /\ Len(list) - Len(rest) + 1 \in 1 .. Len(list)
      /\ Head(rest) = list[Len(list) - Len(rest) + 1]
  BY <1>1
<1>4. list[Len(list) - Len(rest) + 1] \in S
  BY <1>3, ElementOfSeq
<1>. QED BY <1>1, <1>2, <1>3, <1>4 DEF tail

\* What is said of the machine alone stays as it is.
LEMMA SameMachine ==
  ASSUME UNCHANGED given
  PROVE  /\ Eligible' = Eligible /\ SparedDisks' = SparedDisks /\ Wanted' = Wanted
         /\ Holder(<<>>)' = Holder(<<>>) /\ \A swap : SwapDisks(swap)' = SwapDisks(swap)
         /\ Unresolvable' <=> Unresolvable
<1>1. mountinfo' = mountinfo /\ swaps' = swaps /\ ignored' = ignored /\ requested' = requested
  BY DEF given
<1>2. \A path : Holder(path)' = Holder(path)
  BY <1>1 DEF Holder
<1>3. \A swap : SwapDisks(swap)' = SwapDisks(swap)
  BY <1>2 DEF SwapDisks
<1>4. SparedDisks' = SparedDisks
  BY <1>1, <1>2, <1>3 DEF SparedDisks
<1>5. Eligible' = Eligible
  BY <1>1, <1>4 DEF Eligible
<1>6. Wanted' = Wanted
  BY <1>1, <1>5 DEF Wanted
<1>7. Unresolvable' <=> Unresolvable
  BY <1>1, <1>2 DEF Unresolvable, Known
<1>. QED BY <1>2, <1>3, <1>4, <1>5, <1>6, <1>7

LEMMA PlanStart == Init => PlanInv
<1> SUFFICES ASSUME Init PROVE PlanInv
  OBVIOUS
<1>1. TypeOK
  BY DEF Init, TypeOK
<1>2. Given
  BY DEF Init, Given
<1>3. Sparing
  <2>1. SUFFICES ASSUME pc = "root"
                 PROVE  /\ left \in Seq([block : Devices, path : Paths]) /\ IsEnd(left, swaps)
                        /\ swapSet = UNION {SwapDisks(swaps[i]) : i \in 1 .. Seen(swaps)}
    BY DEF Init, Sparing
  <2>2. left = swaps /\ left \in Seq([block : Devices, path : Paths])
    BY <2>1, TablesAssumption DEF Init
  <2>3. IsEnd(left, swaps) /\ Seen(swaps) = 0
    BY <2>2, WholeList DEF Seen
  <2>. QED BY <2>2, <2>3 DEF Init
<1>4. Choosing
  <2>1. SUFFICES ASSUME pc = "manual"
                 PROVE  /\ left \in Seq(Paths) /\ IsEnd(left, requested)
                        /\ Managed = UNION {MountAt(mountinfo, requested[i]) : i \in 1 .. Seen(requested)}
    BY DEF Init, Choosing
  <2>2. left = requested /\ left \in Seq(Paths)
    BY <2>1, TablesAssumption DEF Init
  <2>3. IsEnd(left, requested) /\ Seen(requested) = 0
    BY <2>2, WholeList DEF Seen
  <2>. QED BY <2>2, <2>3 DEF Init, Managed
<1>. QED
  BY <1>1, <1>2, <1>3, <1>4 DEF Init, PlanInv, PlanIsExact, PlanFailsForRootSwap

\* The root filesystem: one entry, or none.
LEMMA RootKeeps ==
  ASSUME PlanInv, ResolveRoot
  PROVE  PlanInv'
<1> USE DEF PlanInv
<1>1. PICK m \in MountAt(mountinfo, <<>>) :
        Resolvable(TopDevice(m)) /\ rootSet' = Leaves[TopDevice(m)]
  BY DEF ResolveRoot
<1>2. m \in Holder(<<>>) /\ \A n \in Holder(<<>>) : n = m
  <2>1. <<>> \in Paths BY EmptySeq DEF Paths
  <2>. QED BY <1>1, <2>1, OneHolder
<1>3. rootSet' = UNION {DisksOf(TopDevice(n)) : n \in Holder(<<>>)}
  BY <1>1, <1>2 DEF DisksOf, Resolvable
<1>4. UNCHANGED <<given, left, entries, swapSet, runtimes, herds>> /\ pc = "root" /\ pc' = "swaps"
  BY DEF ResolveRoot
<1>5. TypeOK'
  BY <1>1, <1>4 DEF TypeOK, given, Resolvable
<1>6. Given'
  BY <1>4 DEF Given, given
<1>7. Sparing'
  BY <1>3, <1>4, SameMachine DEF Sparing, IsEnd, Seen, given
<1>8. Choosing'
  BY <1>4 DEF Choosing
<1>. QED BY <1>4, <1>5, <1>6, <1>7, <1>8 DEF PlanIsExact, PlanFailsForRootSwap

LEMMA SwapKeeps ==
  ASSUME PlanInv, ResolveSwap
  PROVE  PlanInv'
<1> USE DEF PlanInv
<1> DEFINE next == Seen(swaps) + 1
<1>1. PICK b \in SwapDevice(EffectiveMounts(mountinfo), Head(left)) :
        Resolvable(b) /\ swapSet' = swapSet \cup Leaves[b]
  BY DEF ResolveSwap
<1>2. /\ UNCHANGED <<given, entries, rootSet, runtimes, herds>>
      /\ pc = "swaps" /\ pc' = "swaps" /\ left' = Tail(left) /\ left # <<>>
  BY DEF ResolveSwap
<1>3. /\ swaps \in Seq([block : Devices, path : Paths])
      /\ left \in Seq([block : Devices, path : Paths]) /\ IsEnd(left, swaps)
      /\ swapSet = UNION {SwapDisks(swaps[i]) : i \in 1 .. Seen(swaps)}
  BY <1>2, TablesAssumption DEF Given, Sparing
<1>4. /\ Seen(swaps) \in Nat /\ next \in 1 .. Len(swaps) /\ Head(left) = swaps[next]
      /\ swaps[next] \in [block : Devices, path : Paths]
      /\ left' \in Seq([block : Devices, path : Paths]) /\ IsEnd(left, swaps)' /\ Seen(swaps)' = next
  <2>1. left' = Tail(left) /\ swaps' = swaps
    BY <1>2 DEF given
  <2>2. LET seen == Len(swaps) - Len(left)
        IN  /\ seen \in Nat /\ seen + 1 \in 1 .. Len(swaps) /\ Head(left) = swaps[seen + 1]
            /\ swaps[seen + 1] \in [block : Devices, path : Paths]
            /\ Tail(left) \in Seq([block : Devices, path : Paths])
            /\ IsEnd(Tail(left), swaps) /\ Len(swaps) - Len(Tail(left)) = seen + 1
    BY ONLY <1>2, <1>3, NextEntry
  <2>. QED BY <2>1, <2>2 DEF Seen
<1>5. SwapDisks(swaps[next]) = Leaves[b]
  BY <1>1, <1>4, SwapResolved
<1>6. 1 .. next = (1 .. Seen(swaps)) \cup {next}
  BY <1>4
<1>7. swapSet' = UNION {SwapDisks(swaps[i]) : i \in 1 .. next}
  <2> HIDE DEF next
  <2>. QED BY <1>1, <1>3, <1>5, <1>6
<1>8. TypeOK'
  BY <1>1, <1>2 DEF TypeOK, given, Resolvable
<1>9. Given'
  BY <1>2 DEF Given, given
<1>10. Sparing'
  BY <1>2, <1>4, <1>7, SameMachine DEF Sparing, given
<1>11. Choosing'
  BY <1>2 DEF Choosing
<1>. QED BY <1>2, <1>8, <1>9, <1>10, <1>11 DEF PlanIsExact, PlanFailsForRootSwap

LEMMA SwapsDoneKeeps ==
  ASSUME PlanInv, SwapsDone
  PROVE  PlanInv'
<1> USE DEF PlanInv
<1>1. /\ UNCHANGED <<given, left, entries, rootSet, swapSet, runtimes, herds>>
      /\ pc = "swaps" /\ pc' = "mounts" /\ left = <<>>
  BY DEF SwapsDone
<1>2. Seen(swaps) = Len(swaps) /\ DOMAIN swaps = 1 .. Len(swaps)
  <2>1. swaps \in Seq([block : Devices, path : Paths])
    BY TablesAssumption DEF Given
  <2>2. Len(swaps) \in Nat /\ DOMAIN swaps = 1 .. Len(swaps) /\ Len(left) = 0
    BY <1>1, <2>1, LenProperties, EmptySeq
  <2>. QED BY <2>2 DEF Seen
<1>3. rootSet \cup swapSet = SparedDisks
  <2> DEFINE underRoot == UNION {DisksOf(TopDevice(m)) : m \in Holder(<<>>)}
             underSwap == UNION {SwapDisks(swaps[i]) : i \in DOMAIN swaps}
  <2>1. rootSet = underRoot /\ swapSet = UNION {SwapDisks(swaps[i]) : i \in 1 .. Seen(swaps)}
    BY <1>1 DEF Sparing
  <2>2. 1 .. Seen(swaps) = DOMAIN swaps
    BY <1>2
  <2>3. swapSet = underSwap
    BY ONLY <2>1, <2>2
  <2>4. SparedDisks = underRoot \cup underSwap
    BY DEF SparedDisks
  <2> HIDE DEF underRoot, underSwap
  <2>. QED BY <2>1, <2>3, <2>4
<1>4. Managed = {} /\ Eligible \ entries = {}
  <2>1. entries = EffectiveMounts(mountinfo) /\ runtimes = {}
    BY <1>1 DEF Sparing
  <2>2. Eligible \subseteq EffectiveMounts(mountinfo)
    BY DEF Eligible
  <2>. QED BY <2>1, <2>2 DEF Managed
<1>5. TypeOK' /\ Given'
  BY <1>1 DEF TypeOK, Given, given
<1>6. Sparing'
  BY <1>1, <1>3, SameMachine DEF Sparing
<1>7. Choosing'
  BY <1>1, <1>4, SameMachine DEF Choosing, Managed
<1>. QED BY <1>1, <1>5, <1>6, <1>7 DEF PlanIsExact, PlanFailsForRootSwap

\* A mount that is looked at and left out is not eligible.
LEMMA ExcludeKeeps ==
  ASSUME PlanInv, NEW m \in entries, Exclude(m)
  PROVE  PlanInv'
<1> USE DEF PlanInv
<1>1. /\ UNCHANGED <<given, pc, left, rootSet, swapSet, runtimes, herds>>
      /\ pc = "mounts" /\ entries' = entries \ {m}
  BY DEF Exclude, Looked
<1>2. rootSet \cup swapSet = SparedDisks
  BY <1>1 DEF Sparing
<1>3. m \notin Eligible
  <2>1. CASE Skipped(m)
    BY <2>1 DEF Skipped, Resolvable, Eligible
  <2>2. CASE Leaves[m.source] \cap (rootSet \cup swapSet) # {}
    BY <1>2, <2>2 DEF Eligible
  <2>3. CASE \E d \in Leaves[m.source] : Flag[d] = "0"
    BY <2>3 DEF Eligible
  <2>. QED BY <2>1, <2>2, <2>3 DEF Exclude
<1>4. Managed' = Eligible \ entries'
  BY <1>1, <1>3 DEF Choosing, Managed
<1>5. TypeOK' /\ Given'
  BY <1>1 DEF TypeOK, Given, given
<1>6. Sparing'
  BY <1>1, <1>2, SameMachine DEF Sparing
<1>7. Choosing'
  BY <1>1, <1>4, SameMachine DEF Choosing
<1>. QED BY <1>1, <1>5, <1>6, <1>7 DEF PlanIsExact, PlanFailsForRootSwap

\* Accepting one more mount.
LEMMA OneMore ==
  ASSUME NEW R, NEW m, NEW D
  PROVE  {r.mount : r \in R \cup {[mount |-> m, devices |-> D]}} = {r.mount : r \in R} \cup {m}
<1> DEFINE new == [mount |-> m, devices |-> D]
<1>1. new.mount = m
  OBVIOUS
<1> HIDE DEF new
<1>2. {r.mount : r \in R \cup {new}} = {r.mount : r \in R} \cup {new.mount}
  OBVIOUS
<1>. QED BY <1>1, <1>2 DEF new

\* One that is accepted is, and its disks are those it is on.
LEMMA AcceptKeeps ==
  ASSUME PlanInv, NEW m \in entries, Accept(m)
  PROVE  PlanInv'
<1> USE DEF PlanInv
<1>1. /\ UNCHANGED <<given, pc, left, rootSet, swapSet, herds>>
      /\ pc = "mounts" /\ entries' = entries \ {m}
      /\ runtimes' = runtimes \cup {[mount |-> m, devices |-> Leaves[m.source]]}
  BY DEF Accept, Looked
<1>2. rootSet \cup swapSet = SparedDisks
  BY <1>1 DEF Sparing
<1>3. /\ m \in EffectiveMounts(mountinfo) /\ m.mountpoint \notin ignored /\ m.source # None
      /\ Leaves[m.source] \subseteq Physical
  BY DEF Accept, Skipped, Resolvable, TypeOK
<1>4. m \in Eligible
  BY <1>2, <1>3 DEF Accept, Eligible
<1>5. Managed' = Managed \cup {m}
  BY ONLY <1>1, OneMore DEF Managed
<1>6. Managed' = Eligible \ entries'
  BY <1>1, <1>4, <1>5 DEF Choosing
<1>7. TypeOK'
  BY <1>1, <1>3 DEF TypeOK, given
<1>8. Given'
  BY <1>1 DEF Given, given
<1>9. Sparing'
  BY <1>1, <1>2, SameMachine DEF Sparing
<1>10. \A r \in runtimes' : r.devices = Leaves[TopDevice(r.mount)]
  BY <1>1, <1>3 DEF Choosing, TopDevice
<1>11. Choosing'
  BY <1>1, <1>6, <1>10, SameMachine DEF Choosing
<1>. QED BY <1>1, <1>7, <1>8, <1>9, <1>11 DEF PlanIsExact, PlanFailsForRootSwap

\* A mountpoint of --mnt has one mount.
LEMMA RequestKeeps ==
  ASSUME PlanInv, Request
  PROVE  PlanInv'
<1> USE DEF PlanInv
<1> DEFINE next == Seen(requested) + 1
<1>1. PICK m \in MountAt(mountinfo, Head(left)) :
        /\ Resolvable(TopDevice(m))
        /\ runtimes' = runtimes \cup {[mount |-> m, devices |-> Leaves[TopDevice(m)]]}
  BY DEF Request
<1>2. /\ UNCHANGED <<given, entries, rootSet, swapSet, herds>>
      /\ pc = "manual" /\ pc' = "manual" /\ left' = Tail(left) /\ left # <<>>
  BY DEF Request
<1>3. /\ requested \in Seq(Paths) /\ left \in Seq(Paths) /\ IsEnd(left, requested)
      /\ Managed = UNION {MountAt(mountinfo, requested[i]) : i \in 1 .. Seen(requested)}
  BY <1>2, TablesAssumption DEF Given, Choosing
<1>4. /\ Seen(requested) \in Nat /\ next \in 1 .. Len(requested) /\ Head(left) = requested[next]
      /\ left' \in Seq(Paths) /\ IsEnd(left, requested)' /\ Seen(requested)' = next
  <2>1. left' = Tail(left) /\ requested' = requested
    BY <1>2 DEF given
  <2>2. LET seen == Len(requested) - Len(left)
        IN  /\ seen \in Nat /\ seen + 1 \in 1 .. Len(requested)
            /\ Head(left) = requested[seen + 1] /\ Tail(left) \in Seq(Paths)
            /\ IsEnd(Tail(left), requested) /\ Len(requested) - Len(Tail(left)) = seen + 1
    BY ONLY <1>2, <1>3, NextEntry
  <2>. QED BY <2>1, <2>2 DEF Seen
<1>5. m \in EffectiveMounts(mountinfo) /\ MountAt(mountinfo, requested[next]) = {m}
  BY <1>1, <1>4, OneEntry DEF MountAt, Given
<1>6. 1 .. next = (1 .. Seen(requested)) \cup {next}
  BY <1>4
<1>7. Managed' = Managed \cup {m}
  BY ONLY <1>1, OneMore DEF Managed
<1>8. Managed' = UNION {MountAt(mountinfo, requested[i]) : i \in 1 .. next}
  <2> HIDE DEF next
  <2>. QED BY <1>3, <1>5, <1>6, <1>7
<1>9. TypeOK'
  BY <1>1, <1>2, <1>5 DEF TypeOK, given, Resolvable
<1>10. Given'
  BY <1>2 DEF Given, given
<1>11. Sparing'
  BY <1>2 DEF Sparing
<1>12. \A r \in runtimes' : r.devices = Leaves[TopDevice(r.mount)]
  BY <1>1 DEF Choosing
<1>13. mountinfo' = mountinfo /\ requested' = requested
  BY <1>2 DEF given
<1>14. Choosing'
  BY <1>2, <1>4, <1>8, <1>12, <1>13 DEF Choosing
<1>. QED BY <1>2, <1>9, <1>10, <1>11, <1>14 DEF PlanIsExact, PlanFailsForRootSwap

\* groupHerds: it loses and adds no mount, puts a mount under its disks, and makes
\* one herd of those with the same disks.
LEMMA GroupsHold ==
  ASSUME NEW R
  PROVE  /\ UNION {h.mounts : h \in GroupHerds(R)} = {r.mount : r \in R}
         /\ \A h \in GroupHerds(R) : \A m \in h.mounts :
              \E r \in R : r.mount = m /\ r.devices = h.devices
         /\ \A g, h \in GroupHerds(R) : g.devices = h.devices => g = h
<1> DEFINE Herd(D) == [devices |-> D, mounts |-> {r.mount : r \in {s \in R : s.devices = D}}]
<1>1. GroupHerds(R) = {Herd(D) : D \in {r.devices : r \in R}}
  BY DEF GroupHerds
<1>2. \A D : Herd(D).devices = D /\ Herd(D).mounts = {r.mount : r \in {s \in R : s.devices = D}}
  OBVIOUS
<1>3. \A h \in GroupHerds(R) :
        /\ h = Herd(h.devices)
        /\ h.mounts = {r.mount : r \in {s \in R : s.devices = h.devices}}
  <2> HIDE DEF Herd
  <2>. QED BY ONLY <1>1, <1>2
<1>4. \A r \in R : Herd(r.devices) \in GroupHerds(R) /\ r.mount \in Herd(r.devices).mounts
  <2>1. ASSUME NEW r \in R
        PROVE  Herd(r.devices) \in GroupHerds(R) /\ r.mount \in Herd(r.devices).mounts
    <3>1. r \in {s \in R : s.devices = r.devices}
      OBVIOUS
    <3>2. r.mount \in {q.mount : q \in {s \in R : s.devices = r.devices}}
      BY <3>1
    <3> HIDE DEF Herd
    <3>. QED BY <1>1, <1>2, <3>2
  <2>. QED BY <2>1
<1> HIDE DEF Herd
<1>5. \A h \in GroupHerds(R) : \A m \in h.mounts :
        \E r \in R : r.mount = m /\ r.devices = h.devices
  BY ONLY <1>3
<1>6. \A g, h \in GroupHerds(R) : g.devices = h.devices => g = h
  BY ONLY <1>3
<1>7. ASSUME NEW m
      PROVE  m \in UNION {h.mounts : h \in GroupHerds(R)} <=> m \in {r.mount : r \in R}
  BY ONLY <1>4, <1>5
<1>. QED BY <1>5, <1>6, <1>7

\* All mounts are judged: they are grouped by their disks.
LEMMA GroupKeeps ==
  ASSUME PlanInv, Group
  PROVE  PlanInv'
<1> USE DEF PlanInv
<1>1. /\ UNCHANGED <<given, left, entries, rootSet, swapSet, runtimes>> /\ pc' = "done"
      /\ herds' = GroupHerds(runtimes)
  BY DEF Group
<1>2. Managed = Wanted
  <2>1. CASE pc = "mounts" /\ entries = {}
    BY <2>1 DEF Given, Choosing, Wanted
  <2>2. CASE pc = "manual" /\ left = <<>>
    <3>1. requested \in Seq(Paths) /\ requested # <<>>
      BY <2>2, TablesAssumption DEF Given
    <3>2. Len(requested) \in Nat /\ DOMAIN requested = 1 .. Len(requested) /\ Len(left) = 0
      BY <2>2, <3>1, LenProperties, EmptySeq
    <3>3. 1 .. Seen(requested) = DOMAIN requested
      BY <3>2 DEF Seen
    <3>4. Managed = UNION {MountAt(mountinfo, requested[i]) : i \in 1 .. Seen(requested)}
      BY <2>2 DEF Choosing
    <3>5. Managed = UNION {MountAt(mountinfo, requested[i]) : i \in DOMAIN requested}
      BY ONLY <3>3, <3>4
    <3>. QED BY <3>1, <3>5 DEF Wanted
  <2>. QED BY <2>1, <2>2 DEF Group
<1>3. UNION {h.mounts : h \in herds'} = Managed
  BY <1>1, GroupsHold DEF Managed
<1>4. \A h \in herds' : \A m \in h.mounts : h.devices = Leaves[TopDevice(m)]
  <2>1. \A r \in runtimes : r.devices = Leaves[TopDevice(r.mount)]
    BY DEF Choosing
  <2>. QED BY ONLY <1>1, <2>1, GroupsHold
<1>5. \A g, h \in herds' : g.devices = h.devices => g = h
  BY ONLY <1>1, GroupsHold
<1>6. PlanIsExact'
  BY <1>1, <1>2, <1>3, <1>4, <1>5, SameMachine DEF PlanIsExact
<1>7. TypeOK' /\ Given'
  BY <1>1 DEF TypeOK, Given, given
<1>8. Sparing' /\ Choosing'
  BY <1>1 DEF Sparing, Choosing
<1>. QED BY <1>1, <1>6, <1>7, <1>8 DEF PlanFailsForRootSwap

\* Planning fails for a device, a mount or a flag that cannot be read, or for a
\* swap file the search does not find the filesystem of.
LEMMA FailKeeps ==
  ASSUME PlanInv,
         RootFails \/ SwapFails \/ RequestFails \/ \E m \in entries : FlagFails(m)
  PROVE  PlanInv'
<1> USE DEF PlanInv, Fail
<1>1. /\ UNCHANGED <<given, left, entries, rootSet, swapSet, runtimes, herds>> /\ pc' = "failed"
  BY DEF RootFails, SwapFails, RequestFails, FlagFails
<1> DEFINE RootSwap ==
      \E i \in DOMAIN swaps : swaps[i].block = None /\ Holder(swaps[i].path) = Holder(<<>>)
<1>2. requested = <<>> => Unresolvable \/ RootSwap
  <2>1. CASE RootFails
    <3>1. <<>> \in Paths BY EmptySeq DEF Paths
    <3>2. ~Known(<<>>) BY <2>1, <3>1, OneHolder DEF RootFails, Known
    <3>. QED BY <3>2 DEF Unresolvable
  <2>2. CASE SwapFails
    <3>1. /\ swaps \in Seq([block : Devices, path : Paths])
          /\ left \in Seq([block : Devices, path : Paths]) /\ IsEnd(left, swaps) /\ left # <<>>
      BY <2>2, TablesAssumption DEF Given, Sparing, SwapFails
    <3>2. PICK i \in 1 .. Len(swaps) :
            Head(left) = swaps[i] /\ swaps[i] \in [block : Devices, path : Paths]
      BY ONLY <3>1, NextEntry
    <3>3. DOMAIN swaps = 1 .. Len(swaps)
      BY <3>1, LenProperties
    <3>4. ~\E b \in SwapDevice(EffectiveMounts(mountinfo), swaps[i]) : Resolvable(b)
      BY <2>2, <3>2 DEF SwapFails
    <3>5. IF swaps[i].block # None THEN ~Resolvable(swaps[i].block)
          ELSE ~Known(swaps[i].path) \/ Holder(swaps[i].path) = Holder(<<>>)
      BY <3>2, <3>4, SwapUnresolved
    <3>. QED BY <3>3, <3>5 DEF Unresolvable
  <2>3. CASE RequestFails
    BY <2>3 DEF RequestFails, Given
  <2>4. ASSUME NEW m \in entries, FlagFails(m) PROVE Unresolvable
    BY <2>4 DEF FlagFails, Skipped, DisksOf, TypeOK, Unresolvable
  <2>. QED BY <2>1, <2>2, <2>3, <2>4
<1>3. PlanFailsForRootSwap'
  <2>1. \A path : Holder(path)' = Holder(path)
    BY <1>1 DEF Holder, given
  <2>2. swaps' = swaps /\ requested' = requested /\ (Unresolvable' <=> Unresolvable)
    BY <1>1, SameMachine DEF given
  <2>. QED BY <1>2, <2>1, <2>2 DEF PlanFailsForRootSwap
<1>4. TypeOK' /\ Given'
  BY <1>1 DEF TypeOK, Given, given
<1>5. Sparing' /\ Choosing'
  BY <1>1 DEF Sparing, Choosing
<1>. QED BY <1>1, <1>3, <1>4, <1>5 DEF PlanIsExact

LEMMA PlanNext == PlanInv /\ [Next]_vars => PlanInv'
<1> SUFFICES ASSUME PlanInv, [Next]_vars PROVE PlanInv'
  OBVIOUS
<1>1. CASE UNCHANGED vars
  <2>1. /\ UNCHANGED <<given, pc, left, entries, rootSet, swapSet, runtimes, herds>>
        /\ mountinfo' = mountinfo /\ swaps' = swaps /\ requested' = requested
    BY <1>1 DEF vars, given
  <2>2. TypeOK' /\ Given'
    BY <2>1 DEF PlanInv, TypeOK, Given, given
  <2>3. Sparing'
    BY <2>1, SameMachine DEF PlanInv, Sparing, Seen, IsEnd
  <2>4. Choosing'
    BY <2>1, SameMachine DEF PlanInv, Choosing, Seen, IsEnd, Managed
  <2>5. PlanIsExact'
    BY <2>1, SameMachine DEF PlanInv, PlanIsExact
  <2>6. PlanFailsForRootSwap'
    <3>1. \A path : Holder(path)' = Holder(path)
      BY <2>1 DEF Holder
    <3>. QED BY <2>1, <3>1, SameMachine DEF PlanInv, PlanFailsForRootSwap
  <2>. QED BY <2>2, <2>3, <2>4, <2>5, <2>6 DEF PlanInv
<1>2. CASE Finished /\ UNCHANGED vars
  BY <1>1, <1>2
<1>. QED
  BY <1>1, <1>2, RootKeeps, SwapKeeps, SwapsDoneKeeps, ExcludeKeeps, AcceptKeeps, RequestKeeps,
     GroupKeeps, FailKeeps
     DEF Next

LEMMA PlanAlways == Spec => []PlanInv
BY PlanStart, PlanNext, PTL DEF Spec

-----------------------------------------------------------------------------
\* What planHerds collects are disks, and mounts of the table with disks.
THEOREM PlanTypeCorrect == Spec => []TypeOK
<1>1. PlanInv => TypeOK BY DEF PlanInv
<1>. QED BY <1>1, PlanAlways, PTL

\* The loops of planHerds arrive at the plan that was described without them: no
\* disk under "/" or swap, no mount left out, none of them in the wrong herd.
THEOREM PlanCorrect == Spec => []PlanIsExact
<1>1. PlanInv => PlanIsExact BY DEF PlanInv
<1>. QED BY <1>1, PlanAlways, PTL

\* The only machine planHerds fails for without need has a swap file on "/".
THEOREM FailureHasCause == Spec => []PlanFailsForRootSwap
<1>1. PlanInv => PlanFailsForRootSwap BY DEF PlanInv
<1>. QED BY <1>1, PlanAlways, PTL
=============================================================================
