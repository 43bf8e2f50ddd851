-------------------------- MODULE WatchRefinement --------------------------
(***************************************************************************)
(* WatchSet implements HerdWatch, the watch Herd is built on: kernel       *)
(* queues, batches, two channels and two goroutines per filesystem come to *)
(* one bit of each filesystem and two of the set.  To the loop a set it    *)
(* has decided to close is closed.                                         *)
(***************************************************************************)
EXTENDS WatchSet

Told == Open /\ events > 0
Failed == Open /\ errs > 0

Armed == {fs \in Filesystems : Open /\ fd[fs] = "open"}
Dead == {fs \in Armed : reader[fs] = "stopped"}

\* What a stopped reader left in the kernel comes no more.
Coming(fs) ==
  \/ reader[fs] # "stopped" /\ "other" \in ToSet(queue[fs])
  \/ "other" \in ToSet(batch[fs]) \/ buffered[fs] > 0 \/ forwarder[fs] = "send"

Pipe == {fs \in Armed : Coming(fs)}

Watch == INSTANCE HerdWatch WITH
  armed <- Armed, pipe <- Pipe, dead <- Dead, ready <- Told, broken <- Failed

\* Every step of the set is one the loop reckons with, filesystem by filesystem:
\* no event arrives without one raised, no error without a reader that stopped,
\* and none before the last event of that reader.
ImplementsSafeWatch == Watch!SafeWatch

AccessOrSelf ==
  \A fs \in Filesystems :
    Open => /\ Access(fs) /\ fs \in Armed \ Dead => Watch!Raise(fs)
            /\ SelfAccess(fs) => UNCHANGED Watch!watch

\* An access of another process is to the loop what it expects of one: the event
\* of its filesystem is on the way, or there is an event to read already.  One of
\* the daemon is nothing.
AccessRaises == [][AccessOrSelf]_vars

\* Whatever overflows, is dropped or breaks down, events of each filesystem go on
\* reaching a loop that has none to read, and a stopped reader is reported.
ImplementsWatch == Watch!WatchSpec
=============================================================================
