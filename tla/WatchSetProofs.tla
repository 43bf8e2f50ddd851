--------------------------- MODULE WatchSetProofs ---------------------------
(***************************************************************************)
(* No access is lost and none is made up, for any finite set of            *)
(* filesystems and any size of the kernel queue and of the channels; and   *)
(* the set is the watch Herd is built on, as far as safety goes.           *)
(***************************************************************************)
EXTENDS WatchRefinement, FiniteSetTheorems, SequenceTheorems, TLAPS

Events == {"other", "self", "overflow"}
OnlySelf(s) == \A i \in DOMAIN s : s[i] = "self"

LEMMA Caps ==
  /\ QueueCap \in Nat /\ QueueCap >= 1 /\ WatcherCap \in Nat /\ WatcherCap >= 1
  /\ SetCap \in Nat /\ SetCap >= 1
BY CapsAssumption

\* What an appended event adds to a sequence.
LEMMA AppendedEvents ==
  ASSUME NEW s \in Seq(Events), NEW e \in Events
  PROVE  /\ Append(s, e) \in Seq(Events) /\ Len(Append(s, e)) = Len(s) + 1
         /\ ToSet(Append(s, e)) = ToSet(s) \cup {e}
         /\ e = "self" /\ OnlySelf(s) => OnlySelf(Append(s, e))
<1> DEFINE t == Append(s, e)
<1>1. /\ t \in Seq(Events) /\ Len(t) = Len(s) + 1 /\ t[Len(s) + 1] = e
      /\ \A i \in 1 .. Len(s) : t[i] = s[i]
  BY AppendProperties
<1>2. DOMAIN t = 1 .. Len(s) + 1 /\ DOMAIN s = 1 .. Len(s) /\ Len(s) \in Nat
  BY <1>1, LenProperties
<1> HIDE DEF t
<1>3. ToSet(t) = ToSet(s) \cup {e}
  BY <1>1, <1>2 DEF ToSet
<1>4. e = "self" /\ OnlySelf(s) => OnlySelf(t)
  BY <1>1, <1>2 DEF OnlySelf
<1>. QED BY <1>1, <1>3, <1>4 DEF t

\* A part of a sequence holds nothing the whole does not.
LEMMA PartEvents ==
  ASSUME NEW s \in Seq(Events), NEW m \in 1 .. Len(s) + 1, NEW n \in 0 .. Len(s)
  PROVE  LET part == SubSeq(s, m, n)
         IN  /\ part \in Seq(Events) /\ Len(part) = IF m <= n THEN n - m + 1 ELSE 0
             /\ \A i \in DOMAIN part : m + i - 1 \in m .. n /\ part[i] = s[m + i - 1]
             /\ ToSet(part) \subseteq ToSet(s)
             /\ OnlySelf(s) => OnlySelf(part)
<1> DEFINE part == SubSeq(s, m, n)
<1>1. Len(s) \in Nat /\ DOMAIN s = 1 .. Len(s) /\ \A i \in 1 .. Len(s) : s[i] \in Events
  BY LenProperties, ElementOfSeq
<1>2. \A i \in m .. n : i \in 1 .. Len(s) /\ s[i] \in Events
  BY <1>1
<1>3. /\ part \in Seq(Events) /\ Len(part) = IF m <= n THEN n - m + 1 ELSE 0
      /\ \A i \in 1 .. n - m + 1 : part[i] = s[m + i - 1]
  BY <1>1, <1>2, SubSeqProperties
<1>4. DOMAIN part = 1 .. Len(part)
  BY <1>3, LenProperties
<1> HIDE DEF part
<1>5. ASSUME NEW i \in DOMAIN part
      PROVE  m + i - 1 \in m .. n /\ part[i] = s[m + i - 1]
  <2>1. i \in Int /\ 1 <= i /\ i <= n - m + 1 BY <1>1, <1>3, <1>4, <1>5
  <2>. QED BY <1>1, <1>3, <2>1
<1>6. \A i \in DOMAIN part : \E j \in DOMAIN s : part[i] = s[j]
  BY <1>1, <1>2, <1>5
<1>7. ToSet(part) \subseteq ToSet(s)
  BY <1>6 DEF ToSet
<1>8. OnlySelf(s) => OnlySelf(part)
  BY <1>6 DEF OnlySelf
<1>. QED BY <1>3, <1>5, <1>7, <1>8 DEF part

\* A read splits the queue: no event is lost between its two parts.
LEMMA SplitEvents ==
  ASSUME NEW s \in Seq(Events), NEW n \in 1 .. Len(s)
  PROVE  LET first == SubSeq(s, 1, n)
             rest  == SubSeq(s, n + 1, Len(s))
         IN  /\ first \in Seq(Events) /\ rest \in Seq(Events) /\ Len(rest) < Len(s)
             /\ ToSet(first) \cup ToSet(rest) = ToSet(s)
             /\ OnlySelf(s) => OnlySelf(first) /\ OnlySelf(rest)
<1> DEFINE first == SubSeq(s, 1, n)
           rest  == SubSeq(s, n + 1, Len(s))
<1>1. /\ Len(s) \in Nat /\ DOMAIN s = 1 .. Len(s)
      /\ {1, n + 1} \subseteq 1 .. Len(s) + 1 /\ {n, Len(s)} \subseteq 0 .. Len(s)
  BY LenProperties
<1>2. /\ first \in Seq(Events) /\ Len(first) = IF 1 <= n THEN n - 1 + 1 ELSE 0
      /\ \A i \in DOMAIN first : 1 + i - 1 \in 1 .. n /\ first[i] = s[1 + i - 1]
      /\ ToSet(first) \subseteq ToSet(s) /\ (OnlySelf(s) => OnlySelf(first))
  BY <1>1, PartEvents
<1>3. /\ rest \in Seq(Events)
      /\ Len(rest) = IF n + 1 <= Len(s) THEN Len(s) - (n + 1) + 1 ELSE 0
      /\ \A i \in DOMAIN rest : n + 1 + i - 1 \in n + 1 .. Len(s) /\ rest[i] = s[n + 1 + i - 1]
      /\ ToSet(rest) \subseteq ToSet(s) /\ (OnlySelf(s) => OnlySelf(rest))
  BY <1>1, PartEvents
<1> HIDE DEF first, rest
<1>6. DOMAIN first = 1 .. n /\ \A i \in 1 .. n : first[i] = s[i]
  <2>1. DOMAIN first = 1 .. n BY <1>1, <1>2, LenProperties
  <2>. QED BY <1>1, <1>2, <2>1
<1>7. /\ Len(rest) = Len(s) - n /\ DOMAIN rest = 1 .. Len(s) - n
      /\ \A i \in 1 .. Len(s) - n : rest[i] = s[n + i]
  <2>1. Len(s) \in Nat /\ n \in 1 .. Len(s)
    BY <1>1
  <2>2. Len(rest) = IF n + 1 <= Len(s) THEN Len(s) - (n + 1) + 1 ELSE 0
    BY <1>3
  <2>3. Len(rest) = Len(s) - n
    BY <2>1, <2>2
  <2>4. DOMAIN rest = 1 .. Len(s) - n
    BY <1>3, <2>3, LenProperties
  <2>5. ASSUME NEW i \in 1 .. Len(s) - n PROVE rest[i] = s[n + i]
    <3>1. n + 1 + i - 1 = n + i BY <2>1
    <3>2. rest[i] = s[n + 1 + i - 1] BY <1>3, <2>4
    <3>. QED BY <3>1, <3>2
  <2>. QED BY <2>3, <2>4, <2>5
<1>4. ASSUME NEW i \in 1 .. Len(s) PROVE s[i] \in ToSet(first) \cup ToSet(rest)
  <2>1. CASE i <= n
    BY <1>1, <1>6, <2>1 DEF ToSet
  <2>2. CASE i > n
    <3>1. i - n \in 1 .. Len(s) - n /\ n + (i - n) = i
      BY <1>1, <2>2
    <3>. QED BY <1>7, <3>1 DEF ToSet
  <2>. QED BY <1>1, <2>1, <2>2
<1>5. ToSet(s) \subseteq ToSet(first) \cup ToSet(rest)
  BY <1>1, <1>4 DEF ToSet
<1>8. Len(rest) < Len(s)
  BY <1>1, <1>7
<1>. QED BY <1>2, <1>3, <1>5, <1>8 DEF first, rest

\* The reader takes the first event of its batch.
LEMMA TailEvents ==
  ASSUME NEW s \in Seq(Events), s # <<>>
  PROVE  /\ Head(s) \in Events /\ Tail(s) \in Seq(Events)
         /\ ToSet(Tail(s)) \cup {Head(s)} = ToSet(s)
         /\ OnlySelf(s) => Head(s) = "self" /\ OnlySelf(Tail(s))
<1>1. /\ Len(s) \in Nat /\ DOMAIN s = 1 .. Len(s) /\ Len(s) # 0 /\ Head(s) = s[1]
  BY LenProperties, EmptySeq
<1>2. /\ Head(s) \in Events /\ Tail(s) \in Seq(Events) /\ Len(Tail(s)) = Len(s) - 1
      /\ \A i \in 1 .. Len(Tail(s)) : Tail(s)[i] = s[i + 1]
  BY HeadTailProperties
<1>3. DOMAIN Tail(s) = 1 .. Len(s) - 1
  BY <1>2, LenProperties
<1> DEFINE t == Tail(s)
<1> HIDE DEF t
<1>4. DOMAIN t = 1 .. Len(s) - 1 /\ \A i \in 1 .. Len(s) - 1 : t[i] = s[i + 1]
  BY <1>2, <1>3 DEF t
<1>5. ToSet(t) \cup {s[1]} \subseteq ToSet(s)
  BY <1>1, <1>4 DEF ToSet
<1>6. ASSUME NEW i \in 1 .. Len(s) PROVE s[i] \in ToSet(t) \cup {s[1]}
  <2>1. CASE i > 1
    <3>1. i - 1 \in 1 .. Len(s) - 1 /\ t[i - 1] = s[i]
      BY <1>1, <1>4, <2>1
    <3>. QED BY <1>4, <3>1 DEF ToSet
  <2>. QED BY <1>1, <2>1
<1>7. ToSet(s) \subseteq ToSet(t) \cup {s[1]}
  BY <1>1, <1>6 DEF ToSet
<1>8. OnlySelf(s) => s[1] = "self" /\ OnlySelf(t)
  BY <1>1, <1>4 DEF OnlySelf
<1>. QED BY <1>1, <1>2, <1>5, <1>7, <1>8 DEF t

\* The kernel queues an event: nothing leaves the queue, and "other" joins it if
\* there is room or, being full, it has held something else than "self" before.
LEMMA QueuedEvents ==
  ASSUME NEW q \in Seq(Events), NEW e \in Events
  PROVE  /\ Queued(q, e) \in Seq(Events) /\ ToSet(q) \subseteq ToSet(Queued(q, e))
         /\ Len(q) < QueueCap => Queued(q, e) = Append(q, e) /\ e \in ToSet(Queued(q, e))
BY AppendedEvents DEF Queued, Events

-----------------------------------------------------------------------------
Returned == {fs \in Filesystems : forwarder[fs] = "returned"}

\* Every forwarder sends one error at most, so set.errs has room for all.
ErrsReported == errs <= Cardinality(Returned)

\* A filesystem that is not marked has no goroutines and no events.
Unmarked ==
  \A fs \in Filesystems :
    /\ fd[fs] = "none" <=> reader[fs] = "none"
    /\ fd[fs] = "none" <=> forwarder[fs] = "none"
    /\ fd[fs] = "none" =>
         queue[fs] = <<>> /\ batch[fs] = <<>> /\ buffered[fs] = 0 /\ fs \notin raised

\* A reader goes back to read only when its batch is through.
BatchIsRead == \A fs \in Filesystems : reader[fs] # "batch" => batch[fs] = <<>>

\* Nothing of an open set is closed; a forwarder that reports or gives up while
\* set.done is open has seen its reader stop and has passed on what it sent.
OpenIntact == Open => ~done /\ \A fs \in Filesystems : fd[fs] # "closed" /\ ~wdone[fs]
ReaderStopsFirst ==
  \A fs \in Filesystems :
    forwarder[fs] = "report" \/ (forwarder[fs] = "returned" /\ ~done)
      => reader[fs] = "stopped" /\ buffered[fs] = 0

\* Where only the daemon was, only its events are, and they fill no queue.
OnlyOwnEvents ==
  \A fs \in Filesystems \ raised :
    /\ OnlySelf(queue[fs]) /\ OnlySelf(batch[fs]) /\ Len(queue[fs]) < QueueCap
    /\ buffered[fs] = 0 /\ forwarder[fs] # "send"

WatchInv ==
  /\ TypeOK /\ ErrsReported /\ Unmarked /\ BatchIsRead /\ OpenIntact /\ ReaderStopsFirst
  /\ OnlyOwnEvents /\ NoWakeLost /\ NoSelfWake

LEMMA ReturnedFacts ==
  /\ Cardinality(Filesystems) \in Nat /\ Cardinality(Returned) \in Nat
  /\ Cardinality(Returned) <= Cardinality(Filesystems)
<1>1. IsFiniteSet(Filesystems) BY FilesystemsAssumption
<1>. QED BY <1>1, FS_Subset, FS_CardinalityType DEF Returned

\* A forwarder that returns counts once.
LEMMA ReturnedGrows ==
  ASSUME TypeOK, NEW fs \in Filesystems, forwarder[fs] # "returned",
         forwarder' = [forwarder EXCEPT ![fs] = "returned"]
  PROVE  /\ Cardinality(Returned') = Cardinality(Returned) + 1
         /\ Cardinality(Returned') <= Cardinality(Filesystems)
<1>1. IsFiniteSet(Returned)
  BY FilesystemsAssumption, FS_Subset DEF Returned
<1>2. Returned' = Returned \cup {fs} /\ fs \notin Returned
  BY DEF Returned, TypeOK
<1>3. Cardinality(Returned') <= Cardinality(Filesystems)
  BY FilesystemsAssumption, FS_Subset DEF Returned
<1>. QED BY <1>1, <1>2, <1>3, FS_AddElement

\* Any other step of a forwarder leaves the count alone.
LEMMA ReturnedStays ==
  ASSUME TypeOK, NEW fs \in Filesystems, NEW next,
         forwarder[fs] # "returned", next # "returned",
         forwarder' = [forwarder EXCEPT ![fs] = next]
  PROVE  Returned' = Returned
BY DEF Returned, TypeOK

LEMMA WatchInit == Init => WatchInv
<1> SUFFICES ASSUME Init PROVE WatchInv
  OBVIOUS
<1>1. <<>> \in Seq(Events) /\ Len(<<>>) = 0 /\ OnlySelf(<<>>)
  BY EmptySeq DEF OnlySelf
<1>2. TypeOK
  <2>1. queue \in [Filesystems -> Seq(Events)] /\ batch \in [Filesystems -> Seq(Events)]
    BY <1>1 DEF Init
  <2>2. 0 \in 0 .. SetCap /\ 0 \in 0 .. Cardinality(Filesystems) /\ 0 \in 0 .. WatcherCap
    BY Caps, ReturnedFacts
  <2>. QED BY <2>1, <2>2 DEF Init, TypeOK, Events
<1>3. ErrsReported
  BY ReturnedFacts DEF Init, ErrsReported
<1>4. OnlyOwnEvents
  BY <1>1, Caps DEF Init, OnlyOwnEvents
<1>. QED
  BY <1>2, <1>3, <1>4
     DEF Init, WatchInv, Unmarked, BatchIsRead, OpenIntact, ReaderStopsFirst, NoWakeLost, NoSelfWake, Open

\* The loop marks filesystems, takes what is told, and closes the set.
LEMMA LoopKeeps ==
  ASSUME WatchInv,
         \/ Take \/ TakeError \/ GiveUp \/ CloseSet \/ Closed
         \/ \E fs \in Filesystems : Arm(fs) \/ CloseDone(fs) \/ CloseFd(fs)
  PROVE  WatchInv'
<1> USE Caps, ReturnedFacts
    DEF WatchInv, TypeOK, ErrsReported, Unmarked, OpenIntact, BatchIsRead, ReaderStopsFirst,
        OnlyOwnEvents, NoWakeLost, NoSelfWake, Open, InPipe, watcher, set
<1>1. CASE Take
  <2>1. Returned' = Returned BY <1>1 DEF Take, Returned
  <2>. QED BY <1>1, <2>1 DEF Take
<1>2. CASE TakeError
  <2>1. Returned' = Returned BY <1>2 DEF TakeError, Returned
  <2>. QED BY <1>2, <2>1 DEF TakeError
<1>3. CASE GiveUp
  <2>1. Returned' = Returned BY <1>3 DEF GiveUp, Returned
  <2>. QED BY <1>3, <2>1 DEF GiveUp
<1>4. CASE CloseSet
  <2>1. Returned' = Returned BY <1>4 DEF CloseSet, Returned
  <2>. QED BY <1>4, <2>1 DEF CloseSet
<1>5. CASE Closed
  <2>1. Returned' = Returned BY <1>5 DEF Closed, Returned
  <2>. QED BY <1>5, <2>1 DEF Closed
<1>6. ASSUME NEW fs \in Filesystems, Arm(fs) PROVE WatchInv'
  <2>1. Returned' = Returned BY <1>6, ReturnedStays DEF Arm
  <2>2. TypeOK' BY <1>6, <2>1 DEF Arm
  <2>3. ErrsReported' /\ Unmarked' /\ BatchIsRead' /\ OpenIntact' /\ ReaderStopsFirst'
    BY <1>6, <2>1 DEF Arm
  <2>4. OnlyOwnEvents'
    <3>1. forwarder'[fs] = "receive" /\ \A other \in Filesystems \ {fs} : forwarder'[other] = forwarder[other]
      BY <1>6 DEF Arm
    <3>2. UNCHANGED <<raised, queue, batch, buffered>>
      BY <1>6 DEF Arm
    <3>. QED BY ONLY <3>1, <3>2, OnlyOwnEvents DEF OnlyOwnEvents, OnlySelf
  <2>5. raised' = raised /\ events' = events /\ queue' = queue /\ batch' = batch /\ buffered' = buffered
    BY <1>6 DEF Arm
  <2>6. reader[fs] = "none" /\ forwarder[fs] = "none" /\ Open
    BY <1>6 DEF Arm
  <2>7. \A other \in Filesystems \ {fs} : reader'[other] = reader[other] /\ forwarder'[other] = forwarder[other]
    BY <1>6 DEF Arm
  <2>8. NoWakeLost'
    BY ONLY <2>5, <2>6, <2>7, NoWakeLost, TypeOK DEF NoWakeLost, InPipe, Open, TypeOK
  <2>9. NoSelfWake' BY <2>5
  <2>. QED BY <2>2, <2>3, <2>4, <2>8, <2>9
<1>7. ASSUME NEW fs \in Filesystems, CloseDone(fs) PROVE WatchInv'
  <2>1. Returned' = Returned BY <1>7 DEF CloseDone, Returned
  <2>. QED BY <1>7, <2>1 DEF CloseDone
<1>8. ASSUME NEW fs \in Filesystems, CloseFd(fs) PROVE WatchInv'
  <2>1. Returned' = Returned BY <1>8 DEF CloseFd, Returned
  <2>. QED BY <1>8, <2>1 DEF CloseFd
<1>. QED BY <1>1, <1>2, <1>3, <1>4, <1>5, <1>6, <1>7, <1>8

\* What a read leaves in the queue and takes into the batch.
ReadParts(fs, first, rest) ==
  /\ batch' = [batch EXCEPT ![fs] = first] /\ queue' = [queue EXCEPT ![fs] = rest]
  /\ ToSet(first) \cup ToSet(rest) = ToSet(queue[fs]) /\ Len(rest) < Len(queue[fs])
  /\ OnlySelf(queue[fs]) => OnlySelf(first) /\ OnlySelf(rest)
  /\ reader[fs] = "reading" /\ reader' = [reader EXCEPT ![fs] = "batch"]
  /\ UNCHANGED <<set, fd, wdone, buffered, forwarder>>

LEMMA ReadSplits ==
  ASSUME TypeOK, NEW fs \in Filesystems, ReadReturns(fs)
  PROVE  \E first, rest \in Seq(Events) : ReadParts(fs, first, rest)
<1>1. PICK n \in 1 .. Len(queue[fs]) :
        /\ batch' = [batch EXCEPT ![fs] = SubSeq(queue[fs], 1, n)]
        /\ queue' = [queue EXCEPT ![fs] = SubSeq(queue[fs], n + 1, Len(queue[fs]))]
  BY DEF ReadReturns
<1> DEFINE q == queue[fs]
           head == SubSeq(q, 1, n)
           tail == SubSeq(q, n + 1, Len(q))
<1>2. q \in Seq(Events)
  BY DEF TypeOK, Events
<1>3. /\ head \in Seq(Events) /\ tail \in Seq(Events) /\ Len(tail) < Len(q)
      /\ ToSet(head) \cup ToSet(tail) = ToSet(q)
      /\ OnlySelf(q) => OnlySelf(head) /\ OnlySelf(tail)
  BY <1>2, SplitEvents
<1>4. batch' = [batch EXCEPT ![fs] = head] /\ queue' = [queue EXCEPT ![fs] = tail]
  BY <1>1
<1>5. /\ reader[fs] = "reading" /\ reader' = [reader EXCEPT ![fs] = "batch"]
      /\ UNCHANGED <<set, fd, wdone, buffered, forwarder>>
  BY DEF ReadReturns
<1> HIDE DEF head, tail
<1>. QED BY <1>3, <1>4, <1>5 DEF ReadParts

\* The reader takes events out of the kernel and, but for its own, passes them on.
LEMMA ReaderKeeps ==
  ASSUME WatchInv, NEW fs \in Filesystems, Reader(fs) \/ ReadFails(fs)
  PROVE  WatchInv'
<1> USE Caps, ReturnedFacts
    DEF WatchInv, TypeOK, ErrsReported, Unmarked, OpenIntact, BatchIsRead, ReaderStopsFirst,
        OnlyOwnEvents, NoWakeLost, NoSelfWake, Open, InPipe, set
<1>1. queue[fs] \in Seq(Events) /\ batch[fs] \in Seq(Events)
  BY DEF Events
<1>2. forwarder' = forwarder => Returned' = Returned
  BY DEF Returned
<1>3. <<>> \in Seq(Events) /\ OnlySelf(<<>>)
  BY EmptySeq DEF OnlySelf
<1>4. CASE EnterRead(fs)
  BY <1>2, <1>4 DEF EnterRead
<1>5. CASE StopReader(fs) /\ reader[fs] # "none"
  <2>1. TypeOK' /\ ErrsReported' /\ Unmarked' /\ BatchIsRead' /\ OpenIntact'
    BY <1>2, <1>3, <1>5 DEF StopReader, Events
  <2>2. ReaderStopsFirst' /\ OnlyOwnEvents' /\ NoWakeLost' /\ NoSelfWake'
    BY <1>2, <1>3, <1>5 DEF StopReader, Events
  <2>. QED BY <2>1, <2>2
<1>6. CASE ReadReturns(fs)
  <2>2. PICK first \in Seq(Events), rest \in Seq(Events) : ReadParts(fs, first, rest)
    BY <1>6, ReadSplits
  <2>3. /\ batch' = [batch EXCEPT ![fs] = first] /\ queue' = [queue EXCEPT ![fs] = rest]
        /\ ToSet(first) \cup ToSet(rest) = ToSet(queue[fs])
        /\ reader[fs] = "reading" /\ reader' = [reader EXCEPT ![fs] = "batch"]
        /\ UNCHANGED <<loop, events, errs, done, raised, fd, wdone, buffered, forwarder>>
        /\ OnlySelf(queue[fs]) => OnlySelf(first) /\ OnlySelf(rest)
    BY ONLY <2>2 DEF ReadParts, set
  <2>4. Len(rest) \in Nat /\ Len(queue[fs]) \in Nat /\ Len(rest) < Len(queue[fs])
    BY <1>1, <2>2, LenProperties DEF ReadParts
  <2>5. TypeOK'
    BY <2>2, <2>3 DEF Events
  <2>6. ErrsReported' /\ BatchIsRead' /\ OpenIntact' /\ ReaderStopsFirst' /\ NoSelfWake'
    BY <1>2, <2>2, <2>3
  <2>7. Unmarked'
    BY <2>2, <2>3
  <2>8. OnlyOwnEvents'
    BY <2>2, <2>3, <2>4
  <2>9. NoWakeLost'
    <3>1. ASSUME Open, NEW other \in raised
          PROVE  reader'[other] = "stopped" \/ InPipe(other)' \/ events' > 0
      <4>1. reader[other] = "stopped" \/ InPipe(other) \/ events > 0
        BY <3>1
      <4>2. other \in Filesystems
        OBVIOUS
      <4>3. CASE other = fs
        <5>1. batch'[fs] = first /\ queue'[fs] = rest BY <2>3
        <5>2. batch[fs] = <<>> BY <2>3
        <5>3. "other" \notin ToSet(<<>>) BY DEF ToSet
        <5>4. "other" \in ToSet(queue[fs]) => "other" \in ToSet(first) \cup ToSet(rest) BY <2>3
        <5>. QED BY <2>3, <4>1, <4>3, <5>1, <5>2, <5>3, <5>4
      <4>4. CASE other # fs
        <5>1. queue'[other] = queue[other] /\ batch'[other] = batch[other] /\ reader'[other] = reader[other]
          BY <2>3, <4>2, <4>4
        <5>. QED BY <2>3, <4>1, <5>1
      <4>. QED BY <4>3, <4>4
    <3>. QED BY <2>3, <3>1
  <2>. QED BY <2>5, <2>6, <2>7, <2>8, <2>9
<1>7. CASE Skip(fs)
  <2>1. /\ Tail(batch[fs]) \in Seq(Events) /\ batch' = [batch EXCEPT ![fs] = Tail(batch[fs])]
        /\ ToSet(batch[fs]) = {Head(batch[fs])} \cup ToSet(Tail(batch[fs]))
        /\ OnlySelf(batch[fs]) => OnlySelf(Tail(batch[fs]))
    BY <1>1, <1>7, TailEvents DEF Skip, NextEvent
  <2>2. TypeOK' /\ ErrsReported' /\ Unmarked' /\ BatchIsRead' /\ OpenIntact' /\ ReaderStopsFirst'
    BY <1>2, <1>7, <2>1 DEF Skip, NextEvent, Events
  <2>3. OnlyOwnEvents' BY <1>1, <1>7, <2>1 DEF Skip, NextEvent
  <2>4. NoWakeLost' /\ NoSelfWake' BY <1>7, <2>1 DEF Skip, NextEvent
  <2>. QED BY <2>2, <2>3, <2>4
<1>8. CASE Send(fs)
  <2>1. /\ Tail(batch[fs]) \in Seq(Events) /\ batch' = [batch EXCEPT ![fs] = Tail(batch[fs])]
        /\ ToSet(batch[fs]) = {Head(batch[fs])} \cup ToSet(Tail(batch[fs]))
        /\ OnlySelf(batch[fs]) => OnlySelf(Tail(batch[fs]))
    BY <1>1, <1>8, TailEvents DEF Send, NextEvent
  <2>2. /\ TypeOK' /\ ErrsReported'
        /\ Unmarked' /\ BatchIsRead' /\ OpenIntact' /\ ReaderStopsFirst'
    <3>1. TypeOK' /\ ErrsReported'
      BY <1>2, <1>8, <2>1 DEF Send, NextEvent, Events
    <3>2. Unmarked' /\ BatchIsRead' /\ OpenIntact' /\ ReaderStopsFirst'
      BY <1>2, <1>8, <2>1 DEF Send, NextEvent, Events
    <3>. QED BY <3>1, <3>2
  <2>3. /\ buffered'[fs] > 0
        /\ \A other \in Filesystems \ {fs} :
             batch'[other] = batch[other] /\ buffered'[other] = buffered[other]
    BY <1>8 DEF Send, NextEvent
  <2>4. UNCHANGED <<set, queue, reader, forwarder>>
    BY <1>8 DEF Send, NextEvent
  <2>5. OnlyOwnEvents'
    <3>1. fs \in raised
      BY <1>1, <1>8, TailEvents DEF Send
    <3>. QED BY ONLY <2>3, <2>4, <3>1, OnlyOwnEvents DEF OnlyOwnEvents, OnlySelf, set
  <2>6. NoWakeLost'
    BY ONLY <2>3, <2>4, NoWakeLost, TypeOK DEF NoWakeLost, InPipe, Open, set, TypeOK
  <2>7. NoSelfWake' BY <2>4
  <2>. QED BY <2>2, <2>5, <2>6, <2>7
<1>9. CASE BatchDone(fs)
  BY <1>2, <1>9 DEF BatchDone
<1>. QED
  BY <1>4, <1>5, <1>6, <1>7, <1>8, <1>9 DEF Reader, ReadClosed, ReadFails, SeeDone

\* The forwarder moves events and the one error on.
LEMMA ForwardKeeps ==
  ASSUME WatchInv, NEW fs \in Filesystems, Forward(fs)
  PROVE  WatchInv'
<1> USE Caps, ReturnedFacts
    DEF WatchInv, TypeOK, ErrsReported, Unmarked, OpenIntact, BatchIsRead, ReaderStopsFirst,
        OnlyOwnEvents, NoWakeLost, NoSelfWake, Open, InPipe, Forwarding
<1>1. CASE Receive(fs)
  <2>1. Returned' = Returned BY <1>1, ReturnedStays DEF Receive
  <2>2. buffered' \in [Filesystems -> 0 .. WatcherCap] BY <1>1 DEF Receive
  <2>3. forwarder' = [forwarder EXCEPT ![fs] = "send"] BY <1>1 DEF Receive
  <2>4. /\ TypeOK' /\ ErrsReported' /\ Unmarked'
        /\ BatchIsRead' /\ OpenIntact' /\ ReaderStopsFirst' /\ NoSelfWake'
    <3>1. TypeOK' /\ ErrsReported'
      BY <1>1, <2>1, <2>2, <2>3 DEF Receive
    <3>2. Unmarked' /\ BatchIsRead' /\ OpenIntact'
      BY <1>1, <2>3 DEF Receive
    <3>3. ReaderStopsFirst' /\ NoSelfWake'
      BY <1>1, <2>3 DEF Receive
    <3>. QED BY <3>1, <3>2, <3>3
  <2>5. OnlyOwnEvents'
    BY <1>1, <2>3 DEF Receive
  <2>6. NoWakeLost'
    BY <1>1, <2>3 DEF Receive
  <2>. QED BY <2>4, <2>5, <2>6
<1>2. CASE ReceiveClosed(fs)
  <2>1. Returned' = Returned BY <1>2, ReturnedStays DEF ReceiveClosed
  <2>2. TypeOK' /\ ErrsReported' /\ Unmarked' /\ BatchIsRead' /\ OpenIntact' /\ ReaderStopsFirst'
    BY <1>2, <2>1 DEF ReceiveClosed
  <2>3. OnlyOwnEvents' BY <1>2 DEF ReceiveClosed
  <2>4. NoWakeLost' /\ NoSelfWake' BY <1>2 DEF ReceiveClosed
  <2>. QED BY <2>2, <2>3, <2>4
<1>3. CASE Report(fs)
  <2>1. /\ Cardinality(Returned') = Cardinality(Returned) + 1
        /\ Cardinality(Returned') <= Cardinality(Filesystems)
    BY <1>3, ReturnedGrows DEF Report
  <2>2. errs' <= Cardinality(Returned') /\ errs' \in 0 .. Cardinality(Filesystems)
    BY <1>3, <2>1 DEF Report
  <2>. QED BY <1>3, <2>2 DEF Report
<1>4. CASE Pass(fs)
  <2>1. Returned' = Returned BY <1>4, ReturnedStays DEF Pass
  <2>. QED BY <1>4, <2>1 DEF Pass
<1>5. CASE ForwarderSeesDone(fs)
  <2>1. Cardinality(Returned') = Cardinality(Returned) + 1
    BY <1>5, ReturnedGrows DEF ForwarderSeesDone
  <2>2. TypeOK' /\ ErrsReported' BY <1>5, <2>1 DEF ForwarderSeesDone
  <2>3. Unmarked' /\ BatchIsRead' /\ OpenIntact' /\ ReaderStopsFirst' /\ NoSelfWake'
    BY <1>5 DEF ForwarderSeesDone
  <2>4. OnlyOwnEvents' /\ NoWakeLost' BY <1>5 DEF ForwarderSeesDone
  <2>. QED BY <2>2, <2>3, <2>4
<1>. QED BY <1>1, <1>2, <1>3, <1>4, <1>5 DEF Forward

\* The kernel queues an access: never without a trace.
LEMMA AccessKeeps ==
  ASSUME WatchInv, NEW fs \in Filesystems, Access(fs) \/ SelfAccess(fs)
  PROVE  WatchInv'
<1> USE Caps, ReturnedFacts
    DEF WatchInv, TypeOK, ErrsReported, Unmarked, OpenIntact, BatchIsRead, ReaderStopsFirst,
        OnlyOwnEvents, NoWakeLost, NoSelfWake, Open, InPipe, set
<1>1. queue[fs] \in Seq(Events) /\ Len(queue[fs]) \in Nat
  BY LenProperties DEF Events
<1>2. forwarder' = forwarder => Returned' = Returned
  BY DEF Returned
<1>3. fd[fs] # "none"
  BY DEF Access, SelfAccess, Group
<1>4. CASE Access(fs)
  <2>1. queue' \in [Filesystems -> Seq(Events)] /\ ToSet(queue[fs]) \subseteq ToSet(queue'[fs])
    BY <1>1, <1>4, QueuedEvents DEF Access, Events
  <2>2. fs \notin raised => "other" \in ToSet(queue'[fs])
    BY <1>1, <1>4, QueuedEvents DEF Access, Events
  <2>3. TypeOK' /\ ErrsReported' /\ Unmarked' /\ BatchIsRead' /\ OpenIntact' /\ ReaderStopsFirst'
    BY <1>2, <1>3, <1>4, <2>1 DEF Access, Events
  <2>4. OnlyOwnEvents' BY <1>1, <1>4, <2>1, <2>2 DEF Access
  <2>5. NoWakeLost' /\ NoSelfWake' BY <1>4, <2>1, <2>2 DEF Access
  <2>. QED BY <2>3, <2>4, <2>5
<1>5. CASE SelfAccess(fs)
  <2> DEFINE own == {i \in DOMAIN queue[fs] : queue[fs][i] = "self"}
  <2>1. queue'[fs] = Append(queue[fs], "self") /\ queue' \in [Filesystems -> Seq(Events)]
        /\ ToSet(queue[fs]) \subseteq ToSet(queue'[fs]) /\ Len(queue'[fs]) = Len(queue[fs]) + 1
        /\ (OnlySelf(queue[fs]) => OnlySelf(queue'[fs]))
    BY <1>1, <1>5, QueuedEvents, AppendedEvents DEF SelfAccess, Events
  <2>2. fs \notin raised => Len(queue[fs]) < QueueCap - 1
    <3>1. OnlySelf(queue[fs]) => own = 1 .. Len(queue[fs])
      BY <1>1, LenProperties DEF OnlySelf
    <3>2. ASSUME NEW n \in Nat PROVE Cardinality(1 .. n) = n
      <4>1. 1 \in Int /\ n \in Int BY <3>2
      <4>2. Cardinality(1 .. n) = IF 1 > n THEN 0 ELSE n - 1 + 1 BY ONLY <4>1, FS_Interval
      <4>. QED BY <4>2
    <3>3. Cardinality(own) < QueueCap - 1 BY <1>5 DEF SelfAccess
    <3> HIDE DEF own
    <3>. QED BY <1>1, <3>1, <3>2, <3>3
  <2>3. TypeOK' /\ ErrsReported' /\ Unmarked' /\ BatchIsRead' /\ OpenIntact' /\ ReaderStopsFirst'
    BY <1>2, <1>3, <1>5, <2>1 DEF SelfAccess, Events
  <2>4. OnlyOwnEvents'
    <3>1. UNCHANGED <<raised, batch, buffered, forwarder>>
          /\ queue' = [queue EXCEPT ![fs] = queue'[fs]]
      BY <1>5, <2>1 DEF SelfAccess
    <3>2. fs \notin raised => OnlySelf(queue'[fs]) /\ Len(queue'[fs]) < QueueCap
      BY <1>1, <2>1, <2>2
    <3>. QED BY ONLY <3>1, <3>2, OnlyOwnEvents, TypeOK DEF OnlyOwnEvents, TypeOK
  <2>5. NoWakeLost' /\ NoSelfWake' BY <1>5, <2>1, <2>2 DEF SelfAccess
  <2>. QED BY <2>3, <2>4, <2>5
<1>. QED BY <1>4, <1>5

LEMMA WatchNext == WatchInv /\ [Next]_vars => WatchInv'
<1> SUFFICES ASSUME WatchInv, [Next]_vars PROVE WatchInv'
  OBVIOUS
<1>1. CASE UNCHANGED vars
  <2>1. Returned' = Returned BY <1>1 DEF vars, watcher, Returned
  <2>. QED
    BY <1>1, <2>1
       DEF vars, set, watcher, WatchInv, TypeOK, ErrsReported, Unmarked, BatchIsRead, OpenIntact,
           ReaderStopsFirst, OnlyOwnEvents, NoWakeLost, NoSelfWake, Open, InPipe
<1>. QED BY <1>1, LoopKeeps, ReaderKeeps, ForwardKeeps, AccessKeeps DEF Next, Finished

LEMMA WatchAlways == Spec => []WatchInv
BY WatchInit, WatchNext, PTL DEF Spec

-----------------------------------------------------------------------------
(* The refinement, one filesystem after the other.                         *)

\* What the loop sees of a filesystem.
SameWatch(fs) ==
  /\ fd'[fs] = "open" <=> fd[fs] = "open"
  /\ reader'[fs] = "stopped" <=> reader[fs] = "stopped"
  /\ Coming(fs)' <=> Coming(fs)

LEMMA RefineInit == Init => Watch!NoWatch
<1> SUFFICES ASSUME Init PROVE Watch!NoWatch
  OBVIOUS
<1>1. Armed = {}
  BY DEF Init, Armed
<1>. QED BY <1>1 DEF Init, Watch!NoWatch, Pipe, Dead, Told, Failed

\* A step after which the set is closed closes the watch, or leaves it closed.
LEMMA ClosedRefines ==
  ASSUME ~Open'
  PROVE  Watch!CloseWatch
BY DEF Watch!CloseWatch, Armed, Pipe, Dead, Told, Failed

\* Nothing opens a set that is closed.
LEMMA NoReopen ==
  ASSUME WatchInv, [Next]_vars, Open'
  PROVE  Open
BY DEF Next, vars, set, watcher, Take, TakeError, GiveUp, CloseSet, Closed, Finished, Arm,
       CloseDone, CloseFd, Reader, EnterRead, ReadClosed, ReadFails, ReadReturns, Skip, Send,
       SeeDone, StopReader, NextEvent, BatchDone, Forward, Forwarding, Receive, ReceiveClosed,
       Report, Pass, ForwarderSeesDone, Access, SelfAccess, Open

\* The step of one watcher leaves the others alone.
Others(fs) ==
  \A other \in Filesystems \ {fs} :
    /\ fd'[other] = fd[other] /\ reader'[other] = reader[other]
    /\ queue'[other] = queue[other] /\ batch'[other] = batch[other]
    /\ buffered'[other] = buffered[other] /\ forwarder'[other] = forwarder[other]

LEMMA OthersStay ==
  ASSUME NEW fs \in Filesystems, Others(fs)
  PROVE  \A other \in Filesystems \ {fs} : SameWatch(other)
BY DEF Others, SameWatch, Coming

\* The step of a watcher the loop sees nothing of.
LEMMA QuietStep ==
  ASSUME Open, Open', UNCHANGED <<events, errs>>, \A fs \in Filesystems : SameWatch(fs)
  PROVE  UNCHANGED Watch!watch
<1>1. Armed' = Armed BY DEF Armed, SameWatch
<1>2. Pipe' = Pipe /\ Dead' = Dead BY <1>1 DEF Pipe, Dead, SameWatch, Armed
<1>. QED BY <1>1, <1>2 DEF Watch!watch, Told, Failed

\* NewFanotifySet marks a filesystem.
LEMMA ArmRefines ==
  ASSUME WatchInv, Open, Open', NEW fs \in Filesystems, Arm(fs)
  PROVE  Watch!Mark(fs)
<1> USE DEF WatchInv, Arm
<1>1. fd[fs] = "none" /\ queue[fs] = <<>> /\ batch[fs] = <<>> /\ buffered[fs] = 0
  BY DEF Unmarked
<1>2. "other" \notin ToSet(<<>>)
  BY DEF ToSet
<1>3. /\ fd'[fs] = "open" /\ reader'[fs] = "top" /\ queue'[fs] = queue[fs]
      /\ batch'[fs] = batch[fs] /\ buffered'[fs] = buffered[fs] /\ forwarder'[fs] = "receive"
      /\ Others(fs)
  BY DEF TypeOK, Others
<1>4. ~Coming(fs)'
  BY ONLY <1>1, <1>2, <1>3 DEF Coming
<1>5. \A other \in Filesystems \ {fs} : SameWatch(other)
  BY ONLY <1>3, OthersStay
<1>6. fs \notin Armed /\ Armed' = Armed \cup {fs}
  BY ONLY <1>1, <1>3, <1>5, Open, Open' DEF Armed, SameWatch
<1>7. Armed \subseteq Filesystems
  BY DEF Armed
<1>8. Pipe' = Pipe
  BY ONLY <1>4, <1>5, <1>6, <1>7 DEF Pipe, SameWatch
<1>9. Dead' = Dead
  BY ONLY <1>3, <1>5, <1>6, <1>7 DEF Dead, SameWatch
<1>. QED BY <1>6, <1>8, <1>9 DEF Watch!Mark, Told, Failed

\* A reader passes events on, or breaks down.
LEMMA ReaderRefines ==
  ASSUME WatchInv, Open, Open', NEW fs \in Filesystems, Reader(fs) \/ ReadFails(fs)
  PROVE  Watch!Stop(fs) \/ UNCHANGED Watch!watch
<1> USE DEF WatchInv, set
<1>1. queue[fs] \in Seq(Events) /\ batch[fs] \in Seq(Events) /\ Events = {"other", "self", "overflow"}
  BY DEF TypeOK, Events
<1>2. "other" \notin ToSet(<<>>)
  BY DEF ToSet
<1>3. CASE EnterRead(fs) \/ BatchDone(fs)
  <2>1. PICK next \in {"reading", "top"} : reader' = [reader EXCEPT ![fs] = next]
    BY <1>3 DEF EnterRead, BatchDone
  <2>2. reader[fs] # "stopped" /\ UNCHANGED <<events, errs, fd, queue, batch, buffered, forwarder>>
    BY <1>3 DEF EnterRead, BatchDone
  <2>3. /\ fd'[fs] = fd[fs] /\ reader'[fs] = next /\ queue'[fs] = queue[fs]
        /\ batch'[fs] = batch[fs] /\ buffered'[fs] = buffered[fs]
        /\ forwarder'[fs] = forwarder[fs]
        /\ Others(fs)
    BY <2>1, <2>2 DEF TypeOK, Others
  <2>4. SameWatch(fs)
    BY ONLY <2>1, <2>2, <2>3 DEF SameWatch, Coming
  <2>. QED BY <2>2, <2>3, <2>4, OthersStay, QuietStep
<1>4. CASE StopReader(fs) /\ reader[fs] \in {"reading", "batch"}
  <2>1. fd[fs] = "open"
    BY <1>4 DEF Unmarked, OpenIntact, TypeOK
  <2>2. UNCHANGED <<events, errs, fd, queue, buffered, forwarder>>
    BY <1>4 DEF StopReader
  <2>3. /\ fd'[fs] = fd[fs] /\ reader'[fs] = "stopped" /\ queue'[fs] = queue[fs]
        /\ batch'[fs] = <<>> /\ buffered'[fs] = buffered[fs] /\ forwarder'[fs] = forwarder[fs]
        /\ Others(fs)
    BY <1>4 DEF StopReader, TypeOK, Others
  <2>4. Coming(fs)' => Coming(fs)
    BY <1>2, <2>3 DEF Coming
  <2>5. Armed' = Armed /\ fs \in Armed
    BY <2>1, <2>2 DEF Armed
  <2>8. \A other \in Filesystems \ {fs} : SameWatch(other)
    BY ONLY <2>3, OthersStay
  <2>9. Armed \subseteq Filesystems
    BY DEF Armed
  <2>6. fs \notin Dead /\ Dead' = Dead \cup {fs}
    BY ONLY <1>4, <2>3, <2>5, <2>8, <2>9 DEF Dead, SameWatch
  <2>7. Pipe' \in {Pipe, Pipe \ {fs}}
    BY ONLY <2>4, <2>5, <2>8, <2>9 DEF Pipe, SameWatch
  <2>. QED BY <2>2, <2>5, <2>6, <2>7 DEF Watch!Stop, Told, Failed
<1>5. CASE ReadReturns(fs)
  <2>1. PICK first \in Seq(Events), rest \in Seq(Events) : ReadParts(fs, first, rest)
    BY <1>5, ReadSplits
  <2>2. batch[fs] = <<>> /\ reader[fs] = "reading"
        /\ UNCHANGED <<events, errs, fd, buffered, forwarder>>
    BY <2>1 DEF ReadParts, BatchIsRead, TypeOK
  <2>3. /\ fd'[fs] = fd[fs] /\ reader'[fs] = "batch" /\ queue'[fs] = rest
        /\ batch'[fs] = first /\ buffered'[fs] = buffered[fs] /\ forwarder'[fs] = forwarder[fs]
        /\ Others(fs)
    BY <2>1, <2>2 DEF ReadParts, TypeOK, Others
  <2>4. ToSet(first) \cup ToSet(rest) = ToSet(queue[fs])
    BY <2>1 DEF ReadParts
  <2>5. SameWatch(fs)
    BY ONLY <1>2, <2>2, <2>3, <2>4 DEF SameWatch, Coming
  <2>. QED BY <2>2, <2>3, <2>5, OthersStay, QuietStep
<1>6. CASE Skip(fs) \/ Send(fs)
  <2>1. /\ batch[fs] # <<>> /\ reader[fs] = "batch"
        /\ batch' = [batch EXCEPT ![fs] = Tail(batch[fs])]
        /\ UNCHANGED <<events, errs, fd, queue, reader, forwarder>>
    BY <1>6 DEF Skip, Send, NextEvent
  <2>2. \/ Head(batch[fs]) # "other" /\ buffered' = buffered
        \/ Head(batch[fs]) = "other" /\ buffered' = [buffered EXCEPT ![fs] = buffered[fs] + 1]
    BY <1>6 DEF Skip, Send
  <2>3. \/ Head(batch[fs]) # "other" /\ buffered'[fs] = buffered[fs]
        \/ Head(batch[fs]) = "other" /\ buffered'[fs] > 0
    BY <2>2 DEF TypeOK
  <2>4. /\ fd'[fs] = fd[fs] /\ reader'[fs] = reader[fs] /\ queue'[fs] = queue[fs]
        /\ batch'[fs] = Tail(batch[fs]) /\ forwarder'[fs] = forwarder[fs]
        /\ Others(fs)
    BY <2>1, <2>2 DEF TypeOK, Others
  <2>5. ToSet(Tail(batch[fs])) \cup {Head(batch[fs])} = ToSet(batch[fs])
    BY <1>1, <2>1, TailEvents
  <2>6. SameWatch(fs)
    BY ONLY <2>3, <2>4, <2>5 DEF SameWatch, Coming
  <2>. QED BY <2>1, <2>4, <2>6, OthersStay, QuietStep
<1>. QED
  BY <1>3, <1>4, <1>5, <1>6
     DEF Reader, ReadClosed, ReadFails, SeeDone, OpenIntact

\* A forwarder tells what it has.
LEMMA ForwardRefines ==
  ASSUME WatchInv, Open, Open', NEW fs \in Filesystems, Forward(fs)
  PROVE  Watch!Arrive(fs) \/ Watch!Report(fs) \/ UNCHANGED Watch!watch
<1> USE DEF WatchInv, Forwarding
<1>0. UNCHANGED <<fd, queue, reader, batch>>
  BY DEF Forward, Receive, ReceiveClosed, Report, Pass, ForwarderSeesDone
<1>1. CASE Receive(fs) \/ ReceiveClosed(fs)
  <2>1. /\ forwarder[fs] = "receive" /\ UNCHANGED <<events, errs>>
        /\ buffered[fs] > 0 <=> buffered'[fs] > 0 \/ forwarder'[fs] = "send"
        /\ \A other \in Filesystems \ {fs} :
             buffered'[other] = buffered[other] /\ forwarder'[other] = forwarder[other]
    BY <1>1, Caps DEF Receive, ReceiveClosed, TypeOK
  <2>2. Others(fs)
    BY ONLY <1>0, <2>1 DEF Others
  <2>3. SameWatch(fs)
    BY ONLY <1>0, <2>1 DEF SameWatch, Coming
  <2>. QED BY <2>1, <2>2, <2>3, OthersStay, QuietStep
<1>2. forwarder[fs] # "none" => fs \in Armed
  BY DEF Unmarked, OpenIntact, Armed, TypeOK
<1>3. CASE Report(fs)
  <2>1. reader[fs] = "stopped" /\ buffered[fs] = 0 /\ batch[fs] = <<>> /\ forwarder[fs] = "report"
    BY <1>3 DEF Report, ReaderStopsFirst, BatchIsRead
  <2>2. errs' > 0 /\ UNCHANGED <<events, buffered>>
        /\ forwarder' = [forwarder EXCEPT ![fs] = "returned"]
    BY <1>3, ReturnedFacts DEF Report, TypeOK
  <2>3. /\ fd'[fs] = fd[fs] /\ reader'[fs] = reader[fs] /\ queue'[fs] = queue[fs]
        /\ batch'[fs] = batch[fs] /\ buffered'[fs] = buffered[fs] /\ forwarder'[fs] = "returned"
        /\ Others(fs)
    BY <1>0, <2>2 DEF TypeOK, Others
  <2>4. ~Coming(fs) /\ ~Coming(fs)'
    BY <2>1, <2>3 DEF Coming, ToSet
  <2>5. \A any \in Filesystems : SameWatch(any)
    BY ONLY <2>3, <2>4, OthersStay DEF SameWatch
  <2>8. Armed' = Armed /\ Dead' = Dead /\ Told' = Told
    BY <1>0, <2>2 DEF Armed, Dead, Told
  <2>6. Pipe' = Pipe
    BY ONLY <2>5, <2>8 DEF Pipe, Armed, SameWatch
  <2>7. fs \in Dead \ Pipe
    BY <1>2, <2>1, <2>4 DEF Dead, Pipe
  <2>. QED BY <2>2, <2>6, <2>7, <2>8 DEF Watch!Report, Watch!watch, Failed
<1>4. CASE Pass(fs)
  <2>1. forwarder[fs] = "send" /\ events' > 0 /\ UNCHANGED <<errs, buffered>>
        /\ forwarder' = [forwarder EXCEPT ![fs] = "receive"]
    BY <1>4, Caps DEF Pass, TypeOK
  <2>2. /\ fd'[fs] = fd[fs] /\ reader'[fs] = reader[fs] /\ queue'[fs] = queue[fs]
        /\ batch'[fs] = batch[fs] /\ buffered'[fs] = buffered[fs] /\ forwarder'[fs] = "receive"
        /\ Others(fs)
    BY <1>0, <2>1 DEF TypeOK, Others
  <2>3. Armed' = Armed /\ Dead' = Dead
    BY <1>0 DEF Armed, Dead
  <2>4. fs \in Pipe
    BY <1>2, <2>1 DEF Pipe, Coming
  <2>6. \A other \in Filesystems \ {fs} : SameWatch(other)
    BY ONLY <2>2, OthersStay
  <2>5. Pipe' \in {Pipe, Pipe \ {fs}}
    BY ONLY <2>3, <2>4, <2>6 DEF Pipe, Armed, SameWatch
  <2>. QED BY <2>1, <2>3, <2>4, <2>5 DEF Watch!Arrive, Told, Failed
<1>. QED
  BY <1>1, <1>3, <1>4 DEF Forward, ForwarderSeesDone, OpenIntact

\* An access of another process raises an event, unless the reader stopped; one
\* of the daemon is nothing to the loop.
LEMMA AccessRefines ==
  ASSUME WatchInv, WatchInv', Open, Open', NEW fs \in Filesystems, Access(fs) \/ SelfAccess(fs)
  PROVE  /\ Access(fs) /\ fs \in Armed \ Dead => Watch!Raise(fs)
         /\ SelfAccess(fs) \/ fs \in Dead => UNCHANGED Watch!watch
         /\ fs \in Armed
<1> USE DEF WatchInv, set
<1>1. queue[fs] \in Seq(Events) /\ Events = {"other", "self", "overflow"}
  BY DEF TypeOK, Events
<1>2. fs \in Armed
  BY DEF Access, SelfAccess, Group, Armed, Unmarked, OpenIntact, TypeOK
<1>3. UNCHANGED <<events, errs, fd, reader, batch, buffered, forwarder>>
  BY DEF Access, SelfAccess
<1>4. \/ queue' = [queue EXCEPT ![fs] = Queued(queue[fs], "other")]
      \/ queue' = [queue EXCEPT ![fs] = Queued(queue[fs], "self")]
  BY DEF Access, SelfAccess
<1>5. queue'[fs] \in {Queued(queue[fs], "other"), Queued(queue[fs], "self")} /\ Others(fs)
  BY <1>3, <1>4 DEF TypeOK, Others
<1>6. Coming(fs) => Coming(fs)'
  BY <1>1, <1>3, <1>5, QueuedEvents DEF Coming
<1>7. Armed' = Armed /\ Dead' = Dead /\ Told' = Told /\ Failed' = Failed
  BY <1>3 DEF Armed, Dead, Told, Failed
<1>8. \A other \in Filesystems \ {fs} : SameWatch(other)
  BY ONLY <1>5, OthersStay
<1>9. ASSUME Access(fs), fs \notin Dead PROVE Watch!Raise(fs)
  <2>1. fs \in raised' /\ reader[fs] # "stopped"
    BY <1>2, <1>9 DEF Access, Dead
  <2>2. Coming(fs)' \/ Told
    BY <1>3, <2>1 DEF NoWakeLost, InPipe, Coming, Told
  <2>3. Armed \subseteq Filesystems
    BY DEF Armed
  <2>4. CASE Coming(fs)'
    <3>1. Pipe' = Pipe \cup {fs}
      BY ONLY <1>2, <1>7, <1>8, <2>3, <2>4 DEF Pipe, SameWatch
    <3>. QED BY <1>2, <1>7, <1>9, <3>1 DEF Watch!Raise
  <2>5. CASE ~Coming(fs)'
    <3>1. Pipe' = Pipe
      BY ONLY <1>6, <1>7, <1>8, <2>3, <2>5 DEF Pipe, SameWatch
    <3>. QED BY <1>2, <1>7, <1>9, <2>2, <2>5, <3>1 DEF Watch!Raise
  <2>. QED BY <2>4, <2>5
<1>10. ASSUME SelfAccess(fs) \/ fs \in Dead PROVE UNCHANGED Watch!watch
  <2>1. CASE fs \in Dead
    <3>1. SameWatch(fs)
      BY <1>3, <2>1 DEF SameWatch, Coming, Dead
    <3>. QED BY <1>3, <1>8, <3>1, QuietStep
  <2>2. CASE SelfAccess(fs)
    <3>1. queue'[fs] = Append(queue[fs], "self")
      BY <1>1, <2>2, QueuedEvents DEF SelfAccess, TypeOK
    <3>2. ToSet(queue'[fs]) = ToSet(queue[fs]) \cup {"self"}
      BY <1>1, <3>1, AppendedEvents
    <3>3. SameWatch(fs)
      BY ONLY <1>3, <3>2 DEF SameWatch, Coming
    <3>. QED BY <1>3, <1>8, <3>3, QuietStep
  <2>. QED BY <1>10, <2>1, <2>2
<1>. QED BY <1>2, <1>9, <1>10

LEMMA RefineStep == WatchInv /\ WatchInv' /\ [Next]_vars => [Watch!WatchNext]_(Watch!watch)
<1> SUFFICES ASSUME WatchInv, WatchInv', [Next]_vars PROVE [Watch!WatchNext]_(Watch!watch)
  OBVIOUS
<1>1. CASE ~Open'
  BY <1>1, ClosedRefines DEF Watch!WatchNext
<1>2. CASE Open'
  <2>1. Open BY <1>2, NoReopen
  <2>2. CASE UNCHANGED vars
    <3>1. UNCHANGED <<events, errs>> /\ \A fs \in Filesystems : SameWatch(fs)
      BY <2>2 DEF vars, set, watcher, SameWatch, Coming
    <3>. QED BY <1>2, <2>1, <3>1, QuietStep
  <2>3. ASSUME \/ Take \/ TakeError \/ GiveUp \/ CloseSet \/ Closed
               \/ \E fs \in Filesystems : CloseDone(fs) \/ CloseFd(fs)
        PROVE  FALSE
    BY <1>2, <2>1, <2>3 DEF Take, TakeError, GiveUp, CloseSet, Closed, CloseDone, CloseFd, Open
  <2>. QED
    BY <1>2, <2>1, <2>2, <2>3, ArmRefines, ReaderRefines, ForwardRefines, AccessRefines
       DEF Next, Finished, Watch!WatchNext
<1>. QED BY <1>1, <1>2

\* An access is a raised event, and the daemon's own is nothing, whatever else the
\* step does.
LEMMA RaiseStep == WatchInv /\ WatchInv' /\ [Next]_vars => [AccessOrSelf]_vars
<1> SUFFICES ASSUME WatchInv, WatchInv', NEW fs \in Filesystems, Open,
                    Access(fs) \/ SelfAccess(fs)
             PROVE  /\ Access(fs) /\ fs \in Armed \ Dead => Watch!Raise(fs)
                    /\ SelfAccess(fs) => UNCHANGED Watch!watch
  BY DEF AccessOrSelf
<1>1. Open' BY DEF Access, SelfAccess, set, Open
<1>. QED BY <1>1, AccessRefines
-----------------------------------------------------------------------------
\* Every variable stays in its type: the errors of a set fit into the buffer of
\* set.errs, and no send to w.events or set.events exceeds theirs.
THEOREM WatchTypeCorrect == Spec => []TypeOK
<1>1. WatchInv => TypeOK BY DEF WatchInv
<1>. QED BY <1>1, WatchAlways, PTL

\* While the set is open and its readers run, an access leaves an event behind:
\* whatever the sizes of the queue and the channels, nothing that is dropped is
\* the last one.
THEOREM AccessLeavesEvent == Spec => []NoWakeLost
<1>1. WatchInv => NoWakeLost BY DEF WatchInv
<1>. QED BY <1>1, WatchAlways, PTL

\* The loop is never told an event unless another process accessed a filesystem.
THEOREM OnlyOthersWake == Spec => []NoSelfWake
<1>1. WatchInv => NoSelfWake BY DEF WatchInv
<1>. QED BY <1>1, WatchAlways, PTL

\* A set of any size takes only steps the loop reckons with, filesystem by
\* filesystem: no event arrives without one raised, no error without a reader that
\* stopped, and none before the last event of that reader.
THEOREM WatchImplementsSafely == Spec => ImplementsSafeWatch
BY RefineInit, WatchInit, WatchNext, RefineStep, PTL
   DEF Spec, ImplementsSafeWatch, Watch!SafeWatch

\* Every access of another process is raised as the loop expects, and no access of
\* the daemon is, for any set of filesystems and any size of queue and channels.
THEOREM AccessIsRaised == Spec => AccessRaises
BY WatchInit, WatchNext, RaiseStep, PTL DEF Spec, AccessRaises
=============================================================================
