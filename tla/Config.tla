------------------------------- MODULE Config -------------------------------
(***************************************************************************)
(* The command lines of spinherd daemon, debug and system-install          *)
(* (main.go): flags are parsed one after the other, later ones override    *)
(* earlier ones, then the whole is checked.  The first word that is not a  *)
(* flag ends the parsing; only system-install looks whether there was one. *)
(* Durations have a fixed width, as in SleepPolicy: the count of a flag    *)
(* times its unit may wrap.                                                *)
(***************************************************************************)
EXTENDS Integers

CONSTANTS
  MaxDuration,  \* greatest value of the width (2^63 - 1)
  Units,        \* lengths of a second, a minute and an hour
  Counts,       \* counts given to a duration flag; negative ones are rejected
  Default,      \* the defaults of the three duration flags
  MaxFlags      \* bound: flags and words on one command line

DurationFlags == {"sleep-after", "sleep-after-max", "poll-interval"}
ListFlags == {"mnt", "ignore-mnt", "device"}
StartStop == {"spinup", "spindown"}
DebugActions == {"fanotify", "resolve", "disks-info", "daemon"} \cup StartStop
Commands == {"run", "system-install"} \cup DebugActions

ASSUME WidthAssumption == MaxDuration \in Nat \ {0} /\ Counts \subseteq 0 .. MaxDuration
ASSUME UnitsAssumption == Units \subseteq 1 .. MaxDuration
ASSUME DefaultAssumption == Default \in [DurationFlags -> 1 .. MaxDuration]

VARIABLES
  command,    \* "run" for daemon, the action of debug, or "system-install"
  cfg,        \* the durations
  lists,      \* the list flags that are not empty
  badDevice,  \* a --device is not of the form /dev/name
  meant,      \* the durations on the command line
  written,    \* the list flags on the command line
  words,      \* "none" is there, "last" it is, or "ignoring" flags after one
  flags,      \* number of flags and words so far
  outcome     \* "parsing", "accepted" or "rejected"
user == <<meant, written>>
configVars == <<command, cfg, lists, badDevice, user, words, flags, outcome>>

ConfigInit ==
  /\ command \in Commands
  /\ cfg = Default /\ meant = Default
  /\ lists = {} /\ badDevice = FALSE
  /\ written = {} /\ words = "none" /\ flags = 0 /\ outcome = "parsing"

\* The product of count and unit in the width of a duration.
Product(count, unit) ==
  ((count * unit + MaxDuration + 1) % (2 * (MaxDuration + 1))) - (MaxDuration + 1)

\* Flags the command defines.
Defined ==
  CASE command = "run" -> DurationFlags \cup {"mnt", "ignore-mnt"}
    [] command = "daemon" -> {"mnt", "ignore-mnt"}
    [] command \in StartStop -> {"mnt", "device"}
    [] command = "system-install" -> {}
    [] OTHER -> {"mnt"}

Another == outcome = "parsing" /\ flags < MaxFlags /\ flags' = flags + 1

\* flag.Parse sees the next argument.
Parsing == Another /\ words = "none" /\ UNCHANGED <<command, words>>

Reject == outcome' = "rejected" /\ UNCHANGED <<cfg, lists, badDevice, user>>

Undefined(flag) == Parsing /\ flag \notin Defined /\ Reject

\* --mnt, --ignore-mnt, --device: the value joins a list.
SetList(flag) ==
  /\ Parsing /\ flag \in Defined \cap ListFlags
  /\ lists' = lists \cup {flag} /\ written' = written \cup {flag}
  /\ badDevice' \in IF flag = "device" THEN {badDevice, TRUE} ELSE {badDevice}
  /\ UNCHANGED <<cfg, meant, outcome>>

\* Mutant of SetDuration: the first of several flags counts.
SetDurationOnce(flag, count, unit) ==
  /\ Parsing /\ flag \in Defined
  /\ cfg' = IF cfg[flag] = Default[flag]
            THEN [cfg EXCEPT ![flag] = Product(count, unit)] ELSE cfg
  /\ meant' = [meant EXCEPT ![flag] = count * unit]
  /\ UNCHANGED <<lists, badDevice, written, outcome>>

SetDuration(flag, count, unit) ==
  /\ Parsing /\ flag \in Defined
  /\ cfg' = [cfg EXCEPT ![flag] = Product(count, unit)]
  /\ meant' = [meant EXCEPT ![flag] = count * unit]
  /\ UNCHANGED <<lists, badDevice, written, outcome>>

\* No number, no unit, or a negative number.
BadDuration(flag) == Parsing /\ flag \in Defined \cap DurationFlags /\ Reject

\* A word that is not a flag, as in --verbose true: the parsing ends here.
StrayWord ==
  /\ Another /\ words = "none" /\ words' = "last"
  /\ UNCHANGED <<command, cfg, lists, badDevice, user, outcome>>

\* What comes after it is not looked at.
Ignored ==
  /\ Another /\ words # "none" /\ words' = "ignoring"
  /\ \/ \E flag \in DurationFlags, count \in Counts, unit \in Units :
          meant' = [meant EXCEPT ![flag] = count * unit] /\ UNCHANGED written
     \/ \E flag \in ListFlags : written' = written \cup {flag} /\ UNCHANGED meant
     \/ UNCHANGED user
  /\ UNCHANGED <<command, cfg, lists, badDevice, outcome>>

\* The checks of parseDaemonConfig.
DaemonOK ==
  /\ ~("mnt" \in lists /\ "ignore-mnt" \in lists)
  /\ \A flag \in DurationFlags : cfg[flag] > 0
  /\ cfg["sleep-after-max"] >= cfg["sleep-after"]
  /\ cfg["poll-interval"] <= cfg["sleep-after"]

\* The checks of parseDebugConfig.
DebugOK ==
  /\ ~badDevice
  /\ command \in StartStop => ("mnt" \in lists) # ("device" \in lists)
  /\ command \in {"fanotify", "resolve"} => "mnt" \in lists
  /\ command = "daemon" => "mnt" \notin lists

\* The check of parseSystemInstallConfig.
InstallOK == words = "none"

Accepted ==
  CASE command = "run" -> DaemonOK [] command = "system-install" -> InstallOK [] OTHER -> DebugOK

Check ==
  /\ outcome = "parsing"
  /\ outcome' = IF Accepted THEN "accepted" ELSE "rejected"
  /\ UNCHANGED <<command, cfg, lists, badDevice, user, words, flags>>

ConfigNext ==
  \/ Check \/ StrayWord \/ Ignored
  \/ \E flag \in DurationFlags \cup ListFlags : Undefined(flag)
  \/ \E flag \in ListFlags : SetList(flag)
  \/ \E flag \in DurationFlags :
       \/ BadDuration(flag)
       \/ \E count \in Counts, unit \in Units : SetDuration(flag, count, unit)

ConfigSpec == ConfigInit /\ [][ConfigNext]_configVars
-----------------------------------------------------------------------------
\* A daemon that starts does what its command line says: it has the durations
\* written there, the last of each flag, and manages or leaves alone the
\* mountpoints named there; except for a duration that wraps, and for flags after
\* a word that is not one.
AcceptedIsMeant ==
  outcome = "accepted" /\ command = "run" /\ words # "ignoring" =>
    /\ lists = written
    /\ \A flag \in DurationFlags : meant[flag] <= MaxDuration => cfg[flag] = meant[flag]
=============================================================================
