------------------------------ MODULE Install ------------------------------
(***************************************************************************)
(* spinherd system-install (system_install.go): copy the binary, write the *)
(* unit, call systemctl three times; with a step that fails, an interrupt, *)
(* a machine that crashes at any moment, and a user who runs the command   *)
(* again.                                                                  *)
(*                                                                         *)
(* The disk keeps changes of directories in their order, as journaling     *)
(* file systems do, but may lose the latest of them, and the contents of a *)
(* file nobody synced.                                                     *)
(***************************************************************************)
EXTENDS Naturals

CONSTANTS
  MaxFailures,  \* bound: steps that fail and interrupts
  MaxCrashes    \* bound: crashes of the machine

ASSUME BoundsAssumption == MaxFailures \in Nat /\ MaxCrashes \in Nat

Files == {"bin", "bin.tmp", "unit", "unit.tmp", "wants"}
Contents == {"absent", "old", "torn", "new"}

VARIABLES
  pc,          \* the next step, or "completed", "canceled", "failed" or "boot"
  interrupted, \* a signal came: the context of this run is done
  dir,         \* what a running machine sees under each name
  unsynced,    \* names of files with contents that are not on the disk yet
  survivors,   \* what each name may hold after a crash: a set of directories
  loaded,      \* the unit systemd has read
  running,     \* the binary the service runs, or "absent"
  failures, crashes
files == <<dir, unsynced, survivors>>
systemd == <<loaded, running>>
bounds == <<failures, crashes>>
installVars == <<pc, interrupted, files, systemd, bounds>>

\* The directories a crash may leave of d.
Survivors(d, open) ==
  {e \in [Files -> Contents] : \A n \in Files : e[n] = d[n] \/ (n \in open /\ e[n] = "torn")}

\* A machine without spinherd, or with an older installation in use.
InstallInit ==
  /\ \E old \in {"absent", "old"} :
       /\ dir = [n \in Files |-> IF n \in {"bin.tmp", "unit.tmp"} THEN "absent" ELSE old]
       /\ loaded = old /\ running = old
  /\ pc = "open" /\ interrupted = FALSE /\ unsynced = {} /\ survivors = {dir}
  /\ failures = 0 /\ crashes = 0

\* The directory changes; the change reaches the disk later.
Change(d, open) ==
  /\ dir' = d /\ unsynced' = open
  /\ survivors' = survivors \cup Survivors(d, open)

At(step, then) ==
  /\ pc = step /\ pc' = then /\ UNCHANGED <<interrupted, bounds>>
-----------------------------------------------------------------------------
(* copyExecutable, which does not look at the context.                     *)

\* Mutants of OpenTemp: the target is written in place; O_EXCL instead of O_TRUNC.
OpenInPlace ==
  /\ At("open", "copy")
  /\ Change([dir EXCEPT !["bin"] = "torn"], unsynced \cup {"bin"})
  /\ UNCHANGED systemd

OpenExclusive ==
  IF dir["bin.tmp"] = "absent"
  THEN /\ At("open", "copy")
       /\ Change([dir EXCEPT !["bin.tmp"] = "torn"], unsynced \cup {"bin.tmp"})
       /\ UNCHANGED systemd
  ELSE At("open", "failed") /\ UNCHANGED <<files, systemd>>

OpenTemp ==
  /\ At("open", "copy")
  /\ Change([dir EXCEPT !["bin.tmp"] = "torn"], unsynced \cup {"bin.tmp"})
  /\ UNCHANGED systemd

Copy ==
  /\ At("copy", "sync")
  /\ Change([dir EXCEPT !["bin.tmp"] = "new"], unsynced)
  /\ UNCHANGED systemd

\* Everything up to here is on the disk, but for the contents of other files.
Sync ==
  /\ At("sync", "rename")
  /\ unsynced' = unsynced \ {"bin.tmp"}
  /\ survivors' = Survivors(dir, unsynced') /\ UNCHANGED <<dir, systemd>>

\* rename(from, to).
Renamed(from, to) ==
  Change([dir EXCEPT ![to] = dir[from], ![from] = "absent"],
         (unsynced \ {from, to}) \cup {n \in {to} : from \in unsynced})

Rename == At("rename", "unit") /\ Renamed("bin.tmp", "bin") /\ UNCHANGED systemd

\* The binary already runs from its place: no copy.
SkipCopy == dir["bin"] = "new" /\ At("open", "unit") /\ UNCHANGED <<files, systemd>>
-----------------------------------------------------------------------------
(* writeFileAtomic and systemctl.                                          *)

WriteUnit ==
  /\ At("unit", "rename unit")
  /\ Change([dir EXCEPT !["unit.tmp"] = "new"], unsynced \cup {"unit.tmp"})
  /\ UNCHANGED systemd

RenameUnit == At("rename unit", "reload") /\ Renamed("unit.tmp", "unit") /\ UNCHANGED systemd

Systemctl == {"reload", "enable", "restart"}

\* exec.CommandContext starts nothing once the context is done.
Calling(step, then) == ~interrupted /\ At(step, then)

Reloads == loaded' = dir["unit"] /\ UNCHANGED <<files, running>>

Enables == Change([dir EXCEPT !["wants"] = "new"], unsynced) /\ UNCHANGED systemd

Restarts == running' = dir["bin"] /\ UNCHANGED <<files, loaded>>

DaemonReload == Calling("reload", "enable") /\ Reloads

\* Mutant of Enable: the unit is started, not enabled.
EnableNot == Calling("enable", "restart") /\ UNCHANGED <<files, systemd>>

Enable == Calling("enable", "restart") /\ Enables

\* Mutant of Restart: systemctl start leaves a running service alone.
StartService ==
  /\ Calling("restart", "completed")
  /\ running' = IF running = "absent" THEN dir["bin"] ELSE running
  /\ UNCHANGED <<files, loaded>>

Restart == Calling("restart", "completed") /\ Restarts

\* runSystemctl returns the error of the context, and main takes that for no error.
Canceled ==
  /\ interrupted /\ pc \in Systemctl /\ pc' = "canceled"
  /\ UNCHANGED <<interrupted, files, systemd, bounds>>
-----------------------------------------------------------------------------
(* What goes wrong, and what repairs it.                                   *)

Failing(then) ==
  /\ failures < MaxFailures /\ failures' = failures + 1
  /\ pc' = then /\ UNCHANGED <<interrupted, systemd, crashes>>

\* The temporary file is removed.
CopyFails ==
  /\ pc \in {"copy", "sync", "rename"}
  /\ Failing("failed")
  /\ Change([dir EXCEPT !["bin.tmp"] = "absent"], unsynced \ {"bin.tmp"})

\* It stays if the write itself fails: half of it may be there.
WriteUnitFails ==
  /\ pc = "unit"
  /\ Failing("failed")
  /\ \E half \in {"torn", "absent"} :
       Change([dir EXCEPT !["unit.tmp"] = half], unsynced)

RenameUnitFails ==
  /\ pc = "rename unit"
  /\ Failing("failed")
  /\ Change([dir EXCEPT !["unit.tmp"] = "absent"], unsynced \ {"unit.tmp"})

\* Nothing was done: opening the source or the target, or systemctl.
StepFails ==
  /\ pc \in {"open"} \cup Systemctl
  /\ Failing("failed") /\ UNCHANGED files

Interrupts ==
  /\ ~interrupted /\ interrupted' = TRUE
  /\ failures < MaxFailures /\ failures' = failures + 1 /\ UNCHANGED crashes

\* SIGINT or SIGTERM between two steps, or in one of copyExecutable or
\* writeFileAtomic.
Interrupt ==
  /\ pc \notin {"completed", "canceled", "failed", "boot"}
  /\ Interrupts /\ UNCHANGED <<pc, files, systemd>>

\* While systemctl runs: it is killed, and systemd does what it was asked to or
\* not; or it had succeeded, and the context's error is returned all the same.
CutShort ==
  /\ Interrupts
  /\ \/ pc = "reload" /\ Reloads
     \/ pc = "enable" /\ Enables
     \/ pc = "restart" /\ Restarts
     \/ pc \in Systemctl /\ pc' = "failed" /\ UNCHANGED <<files, systemd>>
  /\ pc' \in {"failed", "canceled"}

\* The kernel writes back everything in its own time.
WriteBack ==
  /\ unsynced # {} \/ survivors # {dir}
  /\ unsynced' = {} /\ survivors' = {dir}
  /\ UNCHANGED <<pc, interrupted, dir, systemd, bounds>>

Bootable(d) == d["wants"] # "absent" /\ d["unit"] \in {"old", "new"}

Crash ==
  /\ crashes < MaxCrashes /\ crashes' = crashes + 1
  /\ \E d \in survivors :
       /\ dir' = d
       /\ loaded' = d["unit"]
       /\ running' = IF Bootable(d) THEN d["bin"] ELSE "absent"
  /\ unsynced' = {} /\ survivors' = {dir'}
  /\ pc' = "boot" /\ interrupted' = FALSE /\ UNCHANGED failures

Again ==
  /\ pc \in {"failed", "canceled", "boot"}
  /\ pc' = "open" /\ interrupted' = FALSE /\ UNCHANGED <<files, systemd, bounds>>

InstallSteps ==
  \/ OpenTemp \/ SkipCopy \/ Copy \/ Sync \/ Rename
  \/ WriteUnit \/ RenameUnit \/ DaemonReload \/ Enable \/ Restart \/ Canceled

StepsFail ==
  CopyFails \/ WriteUnitFails \/ RenameUnitFails \/ StepFails \/ Interrupt \/ CutShort

InstallNext == InstallSteps \/ StepsFail \/ Again \/ WriteBack \/ Crash

InstallSpec == InstallInit /\ [][InstallNext]_installVars
-----------------------------------------------------------------------------
\* Neither an upgrade that fails half way nor a crash at any moment leaves half a
\* binary where the service looks for it, or a unit without a binary to start.
ServiceHasBinary ==
  \A d \in survivors : d["bin"] # "torn" /\ (d["unit"] # "absent" => d["bin"] # "absent")

\* Once its last changes are on the disk, a machine that crashes after a completed
\* install boots into what it installed, whatever earlier runs left behind.
CompletedBoots ==
  pc = "completed" /\ survivors = {dir} =>
    Bootable(dir) /\ dir["unit"] = "new" /\ dir["bin"] = "new"

\* Whatever failed, was interrupted or crashed before, running the command again
\* succeeds.
Recovers == pc # "open" ~> pc = "completed"
=============================================================================
