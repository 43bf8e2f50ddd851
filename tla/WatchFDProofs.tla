--------------------------- MODULE WatchFDProofs ---------------------------
(***************************************************************************)
(* The descriptor of an open watch, for any number of watches, descriptor  *)
(* numbers and buffer sizes.                                               *)
(***************************************************************************)
EXTENDS WatchFD, TLAPS

\* A reader in a read waits on a group or another file; an open set has a number,
\* and it refers to the group of that set.
HoldsGroup == \A s \in Sets : reader[s] = "reading" => held[s] \in Sets \cup {Other}
KeepsNumber ==
  loop # "active" =>
    /\ current \in Sets /\ number[current] \in Numbers
    /\ table[number[current]] = current

FDInv == TypeOK /\ HoldsGroup /\ KeepsNumber

LEMMA Bounds ==
  /\ MaxSets \in Nat \ {0} /\ QueueCap \in Nat \ {0} /\ WatcherCap \in Nat \ {0}
BY BoundsAssumption

LEMMA FDInit == Init => FDInv
<1> SUFFICES ASSUME Init PROVE FDInv
  OBVIOUS
<1>1. current \in 0 .. MaxSets
  BY Bounds DEF Init
<1>2. 0 \in 0 .. QueueCap /\ 0 \in 0 .. WatcherCap
  BY Bounds
<1>3. TypeOK
  BY <1>1, <1>2 DEF Init, TypeOK
<1>. QED BY <1>3 DEF Init, FDInv, HoldsGroup, KeepsNumber

\* The steps of the readers leave the loop and the table alone.
LEMMA ReaderKeepsFD ==
  ASSUME FDInv, NEW s \in Sets,
         Reader(s) \/ ReadNothing(s) \/ ReadBlocks(s) \/ Drain(s) \/ ForwarderReturns(s)
  PROVE  FDInv'
<1> USE Bounds DEF FDInv, TypeOK, HoldsGroup, kernel, readers
<1>1. CASE EnterRead(s)
  BY <1>1 DEF EnterRead, KeepsNumber
<1>2. CASE ReadFreed(s) \/ ReadOther(s) \/ SeeDone(s)
  <2>1. Stop(s) BY <1>2 DEF ReadFreed, ReadOther, SeeDone
  <2>. QED BY <2>1 DEF Stop, KeepsNumber
<1>3. CASE ReadReturns(s)
  <2>1. held[s] \in Sets /\ batch' \in [Sets -> 0 .. QueueCap] /\ held'[s] = 0
    BY <1>3 DEF ReadReturns
  <2>2. TypeOK'
    BY <1>3, <2>1 DEF ReadReturns
  <2>3. HoldsGroup' /\ KeepsNumber'
    BY <1>3 DEF ReadReturns, KeepsNumber
  <2>. QED BY <2>2, <2>3
<1>4. CASE Send(s)
  <2>1. buffered' \in [Sets -> 0 .. WatcherCap] /\ batch' \in [Sets -> 0 .. QueueCap]
    BY <1>4 DEF Send
  <2>. QED BY <1>4, <2>1 DEF Send, KeepsNumber
<1>5. CASE BatchDone(s)
  BY <1>5 DEF BatchDone, KeepsNumber
<1>6. CASE Drain(s)
  <2>1. buffered' \in [Sets -> 0 .. WatcherCap]
    BY <1>6 DEF Drain
  <2>. QED BY <1>6, <2>1 DEF Drain, KeepsNumber
<1>7. CASE ForwarderReturns(s)
  BY <1>7 DEF ForwarderReturns, KeepsNumber
<1>8. CASE ReadNothing(s)
  BY <1>8 DEF ReadNothing, KeepsNumber, vars
<1>9. CASE ReadBlocks(s)
  BY <1>9 DEF ReadBlocks, KeepsNumber
<1>. QED BY <1>1, <1>2, <1>3, <1>4, <1>5, <1>6, <1>7, <1>8, <1>9 DEF Reader

LEMMA FDNext == FDInv /\ [Next]_vars => FDInv'
<1> SUFFICES ASSUME FDInv, [Next]_vars PROVE FDInv'
  OBVIOUS
<1> USE Bounds DEF FDInv, TypeOK, HoldsGroup, kernel, readers
<1>1. CASE Arm
  <2>1. PICK n \in Numbers :
          /\ table[n] = Free /\ table' = [table EXCEPT ![n] = current + 1]
          /\ number' = [number EXCEPT ![current + 1] = n]
    BY <1>1 DEF Arm, IsLowest
  <2>2. current + 1 \in Sets /\ current' = current + 1
    BY <1>1 DEF Arm, Sets
  <2>3. KeepsNumber'
    BY <2>1, <2>2 DEF KeepsNumber
  <2>4. current' \in 0 .. MaxSets
    BY <2>2 DEF Sets
  <2>5. table' \in [Numbers -> Sets \cup {Free, Other}] /\ number' \in [Sets -> Numbers \cup {0}]
    BY <2>1, <2>2
  <2>6. /\ reader' \in [Sets -> {"none", "top", "reading", "batch", "stopped"}]
        /\ forwarder' \in [Sets -> {"none", "receive", "returned"}]
    BY <1>1 DEF Arm
  <2>7. TypeOK' /\ HoldsGroup'
    BY <1>1, <2>4, <2>5, <2>6 DEF Arm
  <2>. QED BY <2>3, <2>7
<1>2. CASE Wake
  <2>1. buffered' \in [Sets -> 0 .. WatcherCap]
    BY <1>2 DEF Wake, KeepsNumber
  <2>. QED BY <1>2, <2>1 DEF Wake, KeepsNumber
<1>3. CASE GiveUp
  BY <1>3 DEF GiveUp, KeepsNumber
<1>4. CASE CloseFd
  BY <1>4 DEF CloseFd, KeepsNumber
<1>5. CASE OpenOther
  <2>1. PICK n \in Numbers : table[n] = Free /\ table' = [table EXCEPT ![n] = Other]
    BY <1>5 DEF OpenOther, IsLowest
  <2>2. current \in Sets => current # Free
    BY DEF Sets, Free
  <2>. QED BY <1>5, <2>1, <2>2 DEF OpenOther, KeepsNumber
<1>6. ASSUME NEW n \in Numbers, CloseOther(n) PROVE FDInv'
  BY <1>6 DEF CloseOther, KeepsNumber, Other
<1>7. CASE Access
  <2>1. queue' \in [Sets -> 0 .. QueueCap]
    BY <1>7 DEF Access
  <2>. QED BY <1>7, <2>1 DEF Access, KeepsNumber
<1>8. CASE UNCHANGED vars
  BY <1>8 DEF vars, KeepsNumber
<1>. QED
  BY <1>1, <1>2, <1>3, <1>4, <1>5, <1>6, <1>7, <1>8, ReaderKeepsFD DEF Next

LEMMA FDAlways == Spec => []FDInv
BY FDInit, FDNext, PTL DEF Spec

-----------------------------------------------------------------------------
\* Every variable stays in its type; no buffer or kernel queue exceeds its bound.
THEOREM WatchFDTypeCorrect == Spec => []TypeOK
<1>1. FDInv => TypeOK BY DEF FDInv
<1>. QED BY <1>1, FDAlways, PTL

\* However many stale readers are about, and whichever number they use, the
\* descriptor of an open watch stays its own until Close.
THEOREM OpenSetIsItsOwn == Spec => []OpenSetKeepsNumber
<1>1. FDInv => OpenSetKeepsNumber BY DEF FDInv, KeepsNumber, OpenSetKeepsNumber
<1>. QED BY <1>1, FDAlways, PTL
-----------------------------------------------------------------------------
(* Who may take an event of an open watch.  A reader only waits on groups   *)
(* that were given the number it keeps, and numbers are given in order.     *)

GroupOwnsNumber ==
  \A n \in Numbers : table[n] \in Sets =>
    table[n] <= current /\ number[table[n]] = n
ReadsOwnNumber ==
  \A s \in Sets : reader[s] = "reading" /\ held[s] \in Sets =>
    held[s] <= current /\ number[held[s]] = number[s]
NotYetMade == \A s \in Sets : s > current => reader[s] = "none" /\ ~done[s]
ReaderHasNumber == \A s \in Sets : reader[s] # "none" => number[s] \in Numbers
OpenIsNotDone == loop = "watching" => ~done[current]

StealInv ==
  /\ GroupOwnsNumber /\ ReadsOwnNumber /\ NotYetMade /\ ReaderHasNumber
  /\ OpenIsNotDone /\ OnlyReuseSteals

LEMMA StealInit == Init => StealInv
BY DEF Init, StealInv, GroupOwnsNumber, ReadsOwnNumber, NotYetMade, ReaderHasNumber,
       OpenIsNotDone, OnlyReuseSteals, Free, Sets

\* The steps of the readers and forwarders leave the loop, the numbers and the
\* table alone; the one that takes events is ReadReturns.
LEMMA ReaderKeepsSteal ==
  ASSUME FDInv, StealInv, NEW s \in Sets,
         Reader(s) \/ ReadNothing(s) \/ ReadBlocks(s) \/ Drain(s) \/ ForwarderReturns(s)
  PROVE  StealInv'
<1> USE Bounds DEF FDInv, TypeOK, HoldsGroup, KeepsNumber, kernel, readers
<1> USE DEF StealInv, GroupOwnsNumber, ReadsOwnNumber, NotYetMade, ReaderHasNumber,
           OpenIsNotDone, OnlyReuseSteals
<1>a. loop = "watching" => current \in Sets
  OBVIOUS
<1>1. CASE EnterRead(s)
  <2>1. number[s] \in Numbers => table[number[s]] <= current /\ number[table[number[s]]] = number[s]
    BY <1>1 DEF EnterRead
  <2>2. number[s] \in Numbers
    BY <1>1 DEF EnterRead
  <2>3. ReadsOwnNumber'
    BY <1>1, <2>1, <2>2 DEF EnterRead
  <2>4. GroupOwnsNumber' /\ NotYetMade' /\ ReaderHasNumber' /\ OpenIsNotDone'
    BY <1>1 DEF EnterRead
  <2>5. OnlyReuseSteals'
    BY <1>1, <1>a DEF EnterRead
  <2>. QED BY <2>3, <2>4, <2>5
<1>2. CASE ReadFreed(s) \/ ReadOther(s) \/ SeeDone(s)
  <2>1. Stop(s) /\ reader[s] # "none"
    BY <1>2 DEF ReadFreed, ReadOther, SeeDone
  <2>2. GroupOwnsNumber' /\ ReadsOwnNumber' /\ NotYetMade' /\ ReaderHasNumber' /\ OpenIsNotDone'
    BY <2>1 DEF Stop
  <2>3. OnlyReuseSteals'
    BY <2>1, <1>a DEF Stop
  <2>. QED BY <2>2, <2>3
<1>3. CASE ReadReturns(s)
  <2>1. held[s] \in Sets /\ queue[held[s]] > 0
    BY <1>3 DEF ReadReturns
  <2>2. /\ ReadsOwnNumber' /\ NotYetMade' /\ GroupOwnsNumber'
        /\ ReaderHasNumber' /\ OpenIsNotDone'
    BY <1>3, <2>1 DEF ReadReturns
  <2>3. OnlyReuseSteals'
    <3> SUFFICES ASSUME (loop = "watching" /\ raised /\ reader[current] # "stopped")',
                        \A r \in Sets : r < current => number[r] # number[current]
                 PROVE  (queue[current] > 0 \/ batch[current] > 0 \/ buffered[current] > 0)'
      BY <1>3 DEF ReadReturns
    <3>1. loop = "watching" /\ raised /\ current \in Sets /\ current' = current
      BY <1>3 DEF ReadReturns
    <3>2. CASE s = current
      <4>1. batch'[s] = queue[held[s]]
        BY <1>3 DEF ReadReturns
      <4>. QED BY <3>1, <3>2, <4>1, <2>1
    <3>3. CASE s # current
      <4>1. s < current
        BY <3>1, <3>3, <1>3 DEF ReadReturns, Sets
      <4>2. held[s] # current
        BY <4>1, <1>3 DEF ReadReturns
      <4>3. queue'[current] = queue[current] /\ batch'[current] = batch[current] /\ buffered' = buffered
        BY <1>3, <3>1, <3>3, <4>2 DEF ReadReturns
      <4>4. reader[current] # "stopped"
        BY <1>3, <3>1, <3>3 DEF ReadReturns
      <4>. QED BY <3>1, <4>3, <4>4
    <3>. QED BY <3>2, <3>3
  <2>. QED BY <2>2, <2>3
<1>4. CASE Send(s)
  <2>1. buffered'[s] = buffered[s] + 1 /\ buffered[s] \in Nat /\ batch[s] \in Nat
    BY <1>4 DEF Send
  <2>. QED BY <1>4, <1>a, <2>1 DEF Send
<1>5. CASE BatchDone(s)
  BY <1>5, <1>a DEF BatchDone
<1>6. CASE Drain(s)
  <2>1. loop = "watching" => s # current
    BY <1>6 DEF Drain
  <2>. QED BY <1>6, <1>a, <2>1 DEF Drain
<1>7. CASE ForwarderReturns(s)
  BY <1>7 DEF ForwarderReturns
<1>8. CASE ReadNothing(s)
  BY <1>8 DEF ReadNothing, vars
<1>9. CASE ReadBlocks(s)
  <2>1. Other \notin Sets
    BY DEF Other, Sets
  <2>2. ReadsOwnNumber'
    BY <1>9, <2>1 DEF ReadBlocks
  <2>3. GroupOwnsNumber' /\ NotYetMade' /\ ReaderHasNumber' /\ OpenIsNotDone'
    BY <1>9 DEF ReadBlocks
  <2>4. OnlyReuseSteals'
    BY <1>9, <1>a DEF ReadBlocks
  <2>. QED BY <2>2, <2>3, <2>4
<1>. QED BY <1>1, <1>2, <1>3, <1>4, <1>5, <1>6, <1>7, <1>8, <1>9 DEF Reader

LEMMA StealNext == FDInv /\ StealInv /\ [Next]_vars => StealInv'
<1> SUFFICES ASSUME FDInv, StealInv, [Next]_vars PROVE StealInv'
  OBVIOUS
<1> USE Bounds DEF FDInv, TypeOK, HoldsGroup, KeepsNumber, kernel, readers
<1> USE DEF StealInv, GroupOwnsNumber, ReadsOwnNumber, NotYetMade, ReaderHasNumber,
           OpenIsNotDone, OnlyReuseSteals
<1>1. CASE Arm
  <2>1. PICK n \in Numbers :
          /\ table[n] = Free /\ table' = [table EXCEPT ![n] = current + 1]
          /\ number' = [number EXCEPT ![current + 1] = n]
    BY <1>1 DEF Arm, IsLowest
  <2>2. current + 1 \in Sets /\ current' = current + 1 /\ reader[current + 1] = "none"
    BY <1>1 DEF Arm, Sets
  <2>a. /\ number'[current + 1] = n
        /\ \A r \in Sets : r <= current => number'[r] = number[r] /\ r # current + 1
    BY <2>1, <2>2 DEF Sets
  <2>b. \A r \in Sets : r <= current => r <= current + 1
    BY DEF Sets
  <2>3. GroupOwnsNumber'
    <3> SUFFICES ASSUME NEW m \in Numbers, table'[m] \in Sets
                 PROVE  table'[m] <= current + 1 /\ number'[table'[m]] = m
      BY <2>2
    <3>1. CASE m = n
      BY <3>1, <2>1, <2>2, <2>a DEF Sets
    <3>2. CASE m # n
      <4>1. table'[m] = table[m] /\ table[m] <= current /\ number[table[m]] = m
        BY <3>2, <2>1
      <4>2. table[m] \in Sets
        BY <4>1
      <4>3. number'[table[m]] = number[table[m]] /\ table[m] <= current + 1
        BY <4>1, <4>2, <2>a, <2>b
      <4>. QED BY <4>1, <4>3
    <3>. QED BY <3>1, <3>2
  <2>4. ReadsOwnNumber'
    <3> SUFFICES ASSUME NEW r \in Sets, reader'[r] = "reading", held'[r] \in Sets
                 PROVE  held'[r] <= current + 1 /\ number'[held'[r]] = number'[r]
      BY <2>2
    <3>1. reader[r] = "reading" /\ held' = held
      BY <1>1, <2>2 DEF Arm
    <3>2. held[r] \in Sets /\ held[r] <= current /\ number[held[r]] = number[r] /\ r <= current
      BY <3>1 DEF Sets
    <3>3. number'[held[r]] = number[held[r]] /\ number'[r] = number[r] /\ held[r] <= current + 1
      BY <3>2, <2>a, <2>b
    <3>. QED BY <3>1, <3>2, <3>3
  <2>5. NotYetMade' /\ OpenIsNotDone'
    BY <1>1, <2>2 DEF Arm, Sets
  <2>6. ReaderHasNumber'
    BY <1>1, <2>1, <2>2 DEF Arm
  <2>. QED BY <1>1, <2>3, <2>4, <2>5, <2>6 DEF Arm
<1>2. CASE Wake
  <2>1. loop' = "closing" /\ current \in Sets
    BY <1>2 DEF Wake
  <2>2. NotYetMade'
    <3>1. UNCHANGED <<current, reader>> /\ done' = [done EXCEPT ![current] = TRUE]
      BY <1>2 DEF Wake
    <3>2. ASSUME NEW s \in Sets, s > current PROVE s # current
      BY <3>2 DEF Sets
    <3>. QED BY <3>1, <3>2
  <2>3. GroupOwnsNumber' /\ ReadsOwnNumber' /\ ReaderHasNumber'
    BY <1>2 DEF Wake
  <2>4. OpenIsNotDone' /\ OnlyReuseSteals'
    BY <1>2, <2>1 DEF Wake
  <2>. QED BY <2>2, <2>3, <2>4
<1>3. CASE GiveUp
  <2>1. loop' = "closing" /\ current \in Sets
    BY <1>3 DEF GiveUp
  <2>2. NotYetMade'
    <3>1. UNCHANGED <<current, reader>> /\ done' = [done EXCEPT ![current] = TRUE]
      BY <1>3 DEF GiveUp
    <3>2. ASSUME NEW s \in Sets, s > current PROVE s # current
      BY <3>2 DEF Sets
    <3>. QED BY <3>1, <3>2
  <2>3. GroupOwnsNumber' /\ ReadsOwnNumber' /\ ReaderHasNumber'
    BY <1>3 DEF GiveUp
  <2>4. OpenIsNotDone' /\ OnlyReuseSteals'
    BY <1>3, <2>1 DEF GiveUp
  <2>. QED BY <2>2, <2>3, <2>4
<1>4. CASE CloseFd
  BY <1>4 DEF CloseFd, Free, Sets
<1>5. CASE OpenOther
  BY <1>5 DEF OpenOther, Other, Sets
<1>6. ASSUME NEW n \in Numbers, CloseOther(n) PROVE StealInv'
  BY <1>6 DEF CloseOther, Free, Sets
<1>7. CASE Access
  <2>1. loop = "watching" => Live(current) /\ current \in Sets
    BY DEF Live
  <2>2. loop = "watching" => queue'[current] > 0
    BY <1>7, <2>1 DEF Access
  <2>. QED BY <1>7, <2>2 DEF Access
<1>8. CASE UNCHANGED vars
  BY <1>8 DEF vars
<1>. QED
  BY <1>1, <1>2, <1>3, <1>4, <1>5, <1>6, <1>7, <1>8, ReaderKeepsSteal DEF Next

\* An open watch loses an access to a stale reader at most, and only to one whose
\* closed descriptor had the number the watch was given.
THEOREM StealNeedsReuse == Spec => []OnlyReuseSteals
<1>1. StealInv => OnlyReuseSteals BY DEF StealInv
<1>. QED BY <1>1, StealInit, StealNext, FDAlways, PTL DEF Spec
=============================================================================
