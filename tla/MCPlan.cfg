SPECIFICATION Spec
CONSTANTS
  None = None
  ssd = ssd
  sda = sda
  sda1 = sda1
  sda2 = sda2
  sdb = sdb
  sdb1 = sdb1
  sdb2 = sdb2
  md0 = md0
  vda = vda
  zram = zram
  Blocks <- MCBlocks
  Slaves <- MCSlaves
  Parent <- MCParent
  Physical <- MCPhysical
  Flag <- MCFlag
  MountInfos <- MCMountInfos
  SwapLists <- MCSwapLists
  IgnoreLists <- MCIgnoreLists
  MountLists <- MCMountLists
INVARIANT PlanIsExact PlanFailsForRootSwap
