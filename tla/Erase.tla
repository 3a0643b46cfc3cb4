-------------------------------- MODULE Erase --------------------------------
(***************************************************************************)
(* Data erase (pkg/erase): one worker per data disk, the thread that shows *)
(* the progress, and the thread that patches the boot file after a         *)
(* failure.  They share the channel of time estimates, the lcd (whose      *)
(* mutex BlinkMsg holds for two days, and which logs a failed write while  *)
(* it does) and the log (whose mutex is held by an entry that waits for    *)
(* the lcd).                                                               *)
(*                                                                         *)
(* A disk is a row of one-gigabyte regions.  prepare marks the start of    *)
(* each with a pattern that verify looks for.                              *)
(***************************************************************************)
EXTENDS Naturals, FiniteSets

CONSTANTS
  Disks,       \* data disks of the platform
  Regions,     \* bound: gigabytes of a disk, 1 .. Regions
  DriveKinds,  \* what hdparm may say of a drive
  MaxFaults,   \* bound: faults of devices and commands in a behaviour
  MaxOutages   \* bound: power failures in a behaviour

ASSUME EraseAssumption ==
  /\ IsFiniteSet(Disks) /\ "main" \notin Disks /\ "free" \notin Disks
  /\ Regions \in Nat \ {0}
  /\ DriveKinds \subseteq {"unsupported", "bothTimes", "oneTime"}
  /\ MaxFaults \in Nat /\ MaxOutages \in Nat

VARIABLES
  phase,     \* what the main thread does
  bootFile,  \* data_erase.boot: what the next boot is told
  disk,      \* contents and state of each disk
  drive,     \* the kind of each drive
  worker,    \* where each worker is; "main" for a failure before they start
  ch,        \* estimates in eraseCh
  status,    \* the thread running eraseStatus
  lcd,       \* who holds the lcd's mutex
  patch,     \* the thread running writeErrToBootFile
  saved,     \* disks whose raid metadata is in memory
  faults, outages

vars == <<phase, bootFile, disk, drive, worker, ch, status, lcd, patch, saved,
          faults, outages>>
shared == <<bootFile, drive, ch, status, lcd, patch, saved>>

Area == 1 .. Regions
Disk == [old : SUBSET Area,       \* regions with data of the user
         marks : SUBSET Area,     \* regions whose pattern is in place
         metadata : BOOLEAN,      \* raid metadata, at the end of the disk
         password : BOOLEAN,      \* an ATA password is set
         locked : BOOLEAN]        \* and was, when the power came on
Used   == [old |-> Area, marks |-> {}, metadata |-> TRUE,
           password |-> FALSE, locked |-> FALSE]
Erased == [Used EXCEPT !.old = {}, !.metadata = FALSE]

\* Where eraseDisk or unrecoverableFailure may be.
WorkerPcs ==
  {"idle", "prepare", "info", "setpass", "secureErase", "overwrite", "writing",
   "open", "verify", "done", "failing", "waitlcd", "blinking", "drawlog", "fatal"}

Capacity == 2
LogHeld == status = "msgf"
Fault   == faults > 0 /\ faults' = faults - 1 /\ UNCHANGED outages
NoFault == UNCHANGED <<faults, outages>>

Idle == [w \in Disks \cup {"main"} |-> "idle"]

Init ==
  /\ phase = "off" /\ bootFile = "erase"
  /\ disk = [d \in Disks |-> Used] /\ drive \in [Disks -> DriveKinds]
  /\ worker = Idle /\ ch = 0 /\ status = "ended" /\ lcd = "free"
  /\ patch = "none" /\ saved = {}
  /\ faults = MaxFaults /\ outages = MaxOutages

-----------------------------------------------------------------------------
(* The main thread. *)

\* Main; a patched boot file leads straight to the failure message.  What is
\* booted without a usable boot file is another matter.
PowerOn ==
  /\ phase = "off"
  /\ phase' = CASE bootFile = "erase" -> "start"
                [] bootFile = "error" -> "failing"
                [] OTHER              -> "other"
  /\ worker' = IF bootFile = "error" THEN [Idle EXCEPT !["main"] = "waitlcd"] ELSE Idle
  /\ disk' = [d \in Disks |-> [disk[d] EXCEPT !.locked = disk[d].password]]
  /\ ch' = 0 /\ status' = "ended" /\ lcd' = "free" /\ patch' = "none" /\ saved' = {}
  /\ UNCHANGED <<bootFile, drive>> /\ NoFault

\* FindArrays sorts the disks that can be read by the kind of metadata found;
\* there must be one array of all disks.
OneArray ==
  /\ \A d \in Disks : ~disk[d].locked
  /\ \A d, e \in Disks : disk[d].metadata = disk[e].metadata

\* An error of Backup is only logged.
Erase ==
  /\ phase = "start" /\ UNCHANGED <<bootFile, drive, ch, lcd, disk>>
  /\ \/ /\ OneArray /\ phase' = "erasing" /\ status' = "run" /\ UNCHANGED patch
        /\ worker' = [w \in DOMAIN worker |-> IF w = "main" THEN "idle" ELSE "prepare"]
        /\ \/ saved' = {d \in Disks : disk[d].metadata} /\ NoFault
           \/ saved' \in SUBSET {d \in Disks : disk[d].metadata} /\ Fault
     \/ /\ phase' = "failing" /\ worker' = [worker EXCEPT !["main"] = "waitlcd"]
        /\ patch' = "read" /\ UNCHANGED <<status, saved>>
        /\ \/ ~OneArray /\ NoFault
           \/ Fault

\* wg.Wait, and the message that follows it.
AllErased ==
  /\ phase = "erasing" /\ \A d \in Disks : worker[d] = "done"
  /\ ~LogHeld /\ lcd = "free"
  /\ phase' = "raid"
  /\ UNCHANGED <<shared, disk, worker>> /\ NoFault

\* Restore of every disk with a backup; errors are only logged.
RestoreMetadata ==
  /\ phase = "raid" /\ ~LogHeld /\ phase' = "cleanup"
  /\ UNCHANGED <<shared, worker>>
  /\ \E restored \in SUBSET saved :
       /\ disk' = [d \in Disks |-> [disk[d] EXCEPT !.metadata = @ \/ d \in restored]]
       /\ \/ restored = saved /\ NoFault
          \/ restored # saved /\ Fault

\* success: the boot file is removed; failing to is not noticed.
Success ==
  /\ phase = "cleanup" /\ ~LogHeld /\ lcd = "free"
  /\ phase' = "success" /\ lcd' = "main"
  /\ worker' = [worker EXCEPT !["main"] = "blinking"]
  /\ UNCHANGED <<disk, drive, ch, status, patch, saved>>
  /\ \/ bootFile' = "absent" /\ NoFault
     \/ UNCHANGED bootFile /\ Fault

RebootSuccess ==
  /\ phase = "success" /\ worker["main"] = "blinking" /\ phase' = "off"
  /\ UNCHANGED <<shared, disk, worker>> /\ NoFault

-----------------------------------------------------------------------------
(* A worker: eraseDisk.  Each of its steps writes to the log. *)

At(d, pc) == phase = "erasing" /\ worker[d] = pc /\ ~LogHeld
To(d, pc) == worker' = [worker EXCEPT ![d] = pc] /\ UNCHANGED phase
Change(d, contents) == disk' = [disk EXCEPT ![d] = contents]

\* prepare: a write is tried twice, and what was written must be read back.
Prepare(d) ==
  /\ At(d, "prepare") /\ UNCHANGED shared
  /\ \/ /\ Change(d, [disk[d] EXCEPT !.marks = Area])
        /\ To(d, "info") /\ NoFault
     \/ To(d, "failing") /\ Fault /\ UNCHANGED disk

\* Mutant: the channel takes any number of estimates.
SendAlways ==
  ch' = ch + 1 /\ UNCHANGED <<bootFile, drive, status, lcd, patch, saved>>

Send ==
  /\ ch < Capacity /\ ch' = ch + 1
  /\ UNCHANGED <<bootFile, drive, status, lcd, patch, saved>>

\* tryhdp.  tryExec runs a command once: what it calls retries are started
\* without a search of PATH and fail.  getSEtime reads past the end of the
\* times when there are not both of them.
DriveInfo(d) ==
  /\ At(d, "info") /\ UNCHANGED disk
  /\ \/ drive[d] = "bothTimes" /\ Send /\ To(d, "setpass") /\ NoFault
     \/ drive[d] = "unsupported" /\ UNCHANGED shared /\ To(d, "overwrite") /\ NoFault
     \/ UNCHANGED shared /\ To(d, "overwrite") /\ Fault
     \/ /\ drive[d] = "oneTime" /\ phase' = "panic"
        /\ UNCHANGED <<shared, worker>> /\ NoFault

SetPassword(d) ==
  /\ At(d, "setpass") /\ UNCHANGED shared
  /\ \/ /\ Change(d, [disk[d] EXCEPT !.password = TRUE])
        /\ To(d, "secureErase") /\ NoFault
     \/ UNCHANGED disk /\ To(d, "overwrite") /\ Fault

\* A security erase also removes the password.
SecureErase(d) ==
  /\ At(d, "secureErase") /\ UNCHANGED shared
  /\ \/ Change(d, Erased) /\ To(d, "open") /\ NoFault
     \/ UNCHANGED disk /\ To(d, "overwrite") /\ Fault

Overwrite(d) ==
  /\ At(d, "overwrite") /\ Send /\ To(d, "writing")
  /\ UNCHANGED disk /\ NoFault

\* Each pass stops at the first error, which is meant to be the end of the
\* disk: a bad sector in region n leaves what follows it.
WritePatterns(d) ==
  /\ At(d, "writing") /\ UNCHANGED shared
  /\ \/ /\ Change(d, [disk[d] EXCEPT !.old = {}, !.marks = {}, !.metadata = FALSE])
        /\ To(d, "verify") /\ NoFault
     \/ /\ \E n \in Area :
             Change(d, [disk[d] EXCEPT !.old = @ \ (1 .. n - 1), !.marks = @ \ (1 .. n)])
        /\ To(d, "verify") /\ Fault
     \/ UNCHANGED disk /\ To(d, "open") /\ Fault

\* A disk that cannot be opened for verify leaves a nil file behind, which
\* the first seek dereferences.
OpenForVerify(d) ==
  /\ At(d, "open") /\ UNCHANGED <<shared, disk>>
  /\ \/ To(d, "verify") /\ NoFault
     \/ phase' = "panic" /\ UNCHANGED worker /\ Fault

\* Mutant: patterns that are left are logged and no more.
VerifyOnlyLogs(d) ==
  /\ At(d, "verify") /\ UNCHANGED <<shared, disk>>
  /\ To(d, "done") /\ NoFault

Verify(d) ==
  /\ At(d, "verify") /\ UNCHANGED <<shared, disk>>
  /\ \/ disk[d].marks = {} /\ To(d, "done") /\ NoFault
     \/ disk[d].marks # {} /\ To(d, "failing") /\ NoFault
     \/ To(d, "failing") /\ Fault

WorkerStep(d) ==
  \/ Prepare(d) \/ DriveInfo(d) \/ SetPassword(d) \/ SecureErase(d)
  \/ Overwrite(d) \/ WritePatterns(d) \/ OpenForVerify(d) \/ Verify(d)

-----------------------------------------------------------------------------
(* unrecoverableFailure, by a worker or the main thread.  The message drawn *)
(* by success goes through the same steps, up to its end.                  *)

Failing == phase \in {"erasing", "failing"}

PatchBootFile(d) ==
  /\ phase = "erasing" /\ worker[d] = "failing" /\ To(d, "waitlcd")
  /\ patch' = IF patch = "none" THEN "read" ELSE patch
  /\ UNCHANGED <<bootFile, drive, ch, status, lcd, saved, disk>> /\ NoFault

BlinkMsg(w) ==
  /\ Failing /\ worker[w] = "waitlcd" /\ lcd = "free"
  /\ lcd' = w /\ To(w, "blinking")
  /\ UNCHANGED <<bootFile, drive, ch, status, patch, saved, disk>> /\ NoFault

\* A write to the display may fail, any number of times; writeWindow logs it
\* with the lcd's mutex held.
Drawing == Failing \/ phase = "success"

DrawFails(w) ==
  /\ Drawing /\ worker[w] = "blinking"
  /\ To(w, "drawlog")
  /\ UNCHANGED <<shared, disk>> /\ NoFault

DrawLogged(w) ==
  /\ Drawing /\ worker[w] = "drawlog" /\ ~LogHeld
  /\ To(w, "blinking")
  /\ UNCHANGED <<shared, disk>> /\ NoFault

BlinkEnds(w) ==
  /\ Failing /\ worker[w] = "blinking"
  /\ lcd' = "free" /\ To(w, "fatal")
  /\ UNCHANGED <<bootFile, drive, ch, status, patch, saved, disk>> /\ NoFault

\* log.Fatalf, whatever the other workers are doing.
Fatalf(w) ==
  /\ Failing /\ worker[w] = "fatal" /\ ~LogHeld
  /\ phase' = "off" /\ UNCHANGED <<shared, disk, worker>> /\ NoFault

FailureStep(w) ==
  BlinkMsg(w) \/ DrawFails(w) \/ DrawLogged(w) \/ BlinkEnds(w) \/ Fatalf(w)

\* writeErrToBootFile never ends: it rewrites the file over and over.
PatchRead ==
  /\ Failing /\ patch = "read" /\ bootFile \in {"erase", "error"}
  /\ bootFile' = "truncated" /\ patch' = "write"
  /\ UNCHANGED <<phase, drive, ch, status, lcd, saved, disk, worker>> /\ NoFault

PatchWrite ==
  /\ Failing /\ patch = "write" /\ patch' = "read"
  /\ \/ bootFile' = "error" /\ NoFault
     \/ UNCHANGED bootFile /\ Fault
  /\ UNCHANGED <<phase, drive, ch, status, lcd, saved, disk, worker>>

-----------------------------------------------------------------------------
(* eraseStatus. *)


\* Every three seconds: an estimate is received if there is one, and what is
\* displayed goes straight to the lcd or through the log.
Status ==
  /\ status = "run" /\ phase \in {"erasing", "raid", "cleanup", "success"}
  /\ \/ ch > 0 /\ ch' = ch - 1 /\ status' \in {"run", "display", "msgf"}
     \/ /\ ch = 0 /\ UNCHANGED ch
        /\ status' \in IF phase = "erasing" THEN {"display", "msgf"} ELSE {"ended"}
  /\ UNCHANGED <<phase, bootFile, disk, drive, worker, lcd, patch, saved>> /\ NoFault

StatusShown ==
  /\ status \in {"display", "msgf"} /\ lcd = "free" /\ status' = "run"
  /\ UNCHANGED <<phase, bootFile, disk, drive, worker, ch, lcd, patch, saved>> /\ NoFault

-----------------------------------------------------------------------------
(* External. *)

\* Init panics, and the kernel with it.
Panic ==
  /\ phase = "panic" /\ phase' = "off"
  /\ UNCHANGED <<shared, disk, worker>> /\ NoFault

PowerFailure ==
  /\ phase \notin {"off", "other"} /\ phase' = "off"
  /\ outages > 0 /\ outages' = outages - 1 /\ UNCHANGED faults
  /\ UNCHANGED <<shared, disk, worker>>

MainStep == Erase \/ AllErased \/ RestoreMetadata \/ Success \/ RebootSuccess \/ PowerOn

\* One relation per thread.
Main      == MainStep \/ FailureStep("main")
Worker(d) == WorkerStep(d) \/ PatchBootFile(d) \/ FailureStep(d)
StatusThread == Status \/ StatusShown
PatchThread  == PatchRead \/ PatchWrite

Next ==
  \/ Main \/ \E d \in Disks : Worker(d)
  \/ StatusThread \/ PatchThread
  \/ Panic \/ PowerFailure

Spec == Init /\ [][Next]_vars

\* Go's mutexes and channels serve those that wait in turn, so that a thread
\* which is able to go on again and again does go on.  A message looks at its
\* time each time it is drawn, however often that fails.
FairSpec ==
  /\ Spec
  /\ SF_vars(Main) /\ SF_vars(StatusThread) /\ \A d \in Disks : SF_vars(Worker(d))
  /\ SF_vars(RebootSuccess \/ \E w \in Disks \cup {"main"} : BlinkEnds(w))

-----------------------------------------------------------------------------
(* Properties. *)

TypeOK ==
  /\ phase \in {"off", "start", "erasing", "raid", "cleanup", "success", "failing",
                "panic", "other"}
  /\ bootFile \in {"erase", "error", "truncated", "absent"}
  /\ disk \in [Disks -> Disk] /\ drive \in [Disks -> DriveKinds]
  /\ worker \in [Disks \cup {"main"} -> WorkerPcs]
  /\ ch \in 0 .. Capacity
  /\ status \in {"run", "display", "msgf", "ended"}
  /\ lcd \in {"free", "main"} \cup Disks
  /\ patch \in {"none", "read", "write"}
  /\ saved \subseteq Disks
  /\ faults \in 0 .. MaxFaults /\ outages \in 0 .. MaxOutages

(* Success is displayed only when no disk of the platform has data of the   *)
(* user left up to its last pattern, whatever failed on the way, in this    *)
(* boot or an interrupted one before (user.go:34, "after all disks have     *)
(* been successfully erased").  What follows the last pattern is not        *)
(* looked at: a bad sector there does leave data.                           *)
SuccessMeansErased ==
  phase = "success" => \A d \in Disks : disk[d].old \subseteq {Regions}

(* What SuccessMeansErased rests on: the marks of a disk are all in place    *)
(* until its worker erases it, and where none is left no data is either.    *)
Tells(pc, d) ==
  /\ pc \in {"info", "setpass", "secureErase", "overwrite", "writing"} => d.marks = Area
  /\ pc \in {"open", "verify"} /\ d.marks = {} => d.old \subseteq {Regions}
  /\ pc = "done" => d.old \subseteq {Regions}
MarksTell == phase = "erasing" => \A d \in Disks : Tells(worker[d], disk[d])
AfterErasing ==
  phase \in {"raid", "cleanup", "success"} => \A d \in Disks : disk[d].old \subseteq {Regions}
IInv == TypeOK /\ MarksTell /\ AfterErasing

(* An erase ends, in the reboot that follows its message of success or      *)
(* failure or in a crash: neither the estimates nobody receives nor the lcd *)
(* and the log keep workers, status and main thread stuck, but for one      *)
(* deadlock: a message that holds the lcd and waits to log a failed write   *)
(* (util.go:106) while the status (user.go:146) holds the log and waits for *)
(* the lcd.                                                                 *)
Locked == LogHeld /\ \E w \in Disks \cup {"main"} : lcd = w /\ worker[w] = "drawlog"

-----------------------------------------------------------------------------
(* Statements of the repository the code does not live up to. *)

(* pkg/erase/user.go:45: "Data erase completed successfully. It is safe to  *)
(* unplug this unit now."  A disk with a password is locked once unplugged. *)
SafeToUnplug == phase = "success" => \A d \in Disks : ~disk[d].password

(* pkg/hw/cfa/message.go:94: BlinkMsgUntil "displays until `done` is        *)
(* closed", so that the failure message of a worker gives the display back. *)
BlinkingEnds == \A d \in Disks : lcd = d ~> lcd # d

(* pkg/erase/user.go:174: when a time is missing the estimate falls back   *)
(* to 200 min; with nothing else failing, nothing makes init panic.         *)
EstimateFallsBack == phase # "panic"
=============================================================================
