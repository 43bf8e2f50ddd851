---------------------------- MODULE SleepPolicy ----------------------------
(***************************************************************************)
(* The adaptive sleep threshold (nextSleepAfter in app.go).  A duration is *)
(* a time.Duration, a signed integer of fixed width: MaxDuration is its    *)
(* greatest value (2^63 - 1 nanoseconds in the program) and a sum beyond   *)
(* it wraps to a negative number, as Go's addition does.                   *)
(***************************************************************************)
EXTENDS Integers

CONSTANT MaxDuration

ASSUME MaxDurationAssumption == MaxDuration \in Nat \ {0}

\* The sum of two durations in the fixed width.
PlusDuration(a, b) ==
  IF a + b > MaxDuration THEN a + b - 2 * (MaxDuration + 1) ELSE a + b

\* Mutant of NextSleepAfter: the cap at max is forgotten.
UncappedSleepAfter(current, base, max, sleptFor) ==
  IF max <= base \/ sleptFor >= current THEN base ELSE PlusDuration(current, base)

\* Mutant of NextSleepAfter: a long sleep keeps the raised threshold.
StickySleepAfter(current, base, max, sleptFor) ==
  LET next == PlusDuration(current, base) IN
  IF max <= base THEN base
  ELSE IF sleptFor >= current THEN current
  ELSE IF next > max THEN max ELSE next

\* The threshold of the next idle cycle, after a sleep of sleptFor that
\* started from the threshold current.
NextSleepAfter(current, base, max, sleptFor) ==
  LET next == PlusDuration(current, base) IN
  IF max <= base \/ sleptFor >= current THEN base
  ELSE IF next > max THEN max ELSE next
=============================================================================
