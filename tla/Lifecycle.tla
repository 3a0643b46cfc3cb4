------------------------------ MODULE Lifecycle ------------------------------
(***************************************************************************)
(* The life of a provisioned unit: power on, the decision init takes       *)
(* (pkg/init/normal.go), the boot menu, switching to the installed system, *)
(* factory restore (module Recovery) and data erase, with power failures   *)
(* at any point.  The booted system is external: it reports its boot to    *)
(* the history and shuts down.                                             *)
(***************************************************************************)
EXTENDS Recovery

CONSTANTS
  MenuChoices,  \* what the user may pick in the boot menu; {}: nobody is there
  Usbs,         \* emergency-mode files that may be found on a usb drive
  Unbootable    \* images whose boot is reported as failed

ASSUME LifecycleAssumption ==
  /\ MenuChoices \subseteq {"resume", "poweroff", "latest", "original",
                            "choose", "erase"}
  /\ Usbs \subseteq EFiles
  /\ Unbootable \subseteq Images
  /\ NoImage \in OddNames

vars == <<historyVars, recoveryVars>>

BootPcs == {"off", "boot", "menu", "erase", "switchroot", "os", "osreport", "up"}

Init ==
  /\ HistoryInit
  /\ pc = "off" /\ root = Blank
  /\ frFile \in FrFiles /\ netTar \in BOOLEAN
  /\ mem = NoMemory
  /\ faults = MaxFaults /\ outages = MaxOutages

-----------------------------------------------------------------------------
(* Boot. *)

PowerOn ==
  /\ pc = "off" /\ pc' = "boot"
  /\ Forget /\ mem' = NoMemory
  /\ NoFault /\ UNCHANGED <<root, frFile, netTar>>

\* tryNormalBoot, once waitSearch has returned: a key press goes before an
\* emergency file, that before the root device, and nothing found means
\* factory restore.  A root device that is too slow counts as a fault.
TryNormalBoot ==
  /\ pc = "boot"
  /\ UNCHANGED <<historyVars, root, frFile, netTar>>
  /\ \/ MenuChoices # {} /\ pc' = "menu" /\ NoFault /\ UNCHANGED mem
     \/ \E e \in Usbs \ {"none"} :
          pc' = "rmain" /\ mem' = [mem EXCEPT !.efiles = e] /\ NoFault
     \/ root.formatted /\ pc' = "switchroot" /\ NoFault /\ UNCHANGED mem
     \/ ~root.formatted /\ pc' = "rmain" /\ NoFault /\ UNCHANGED mem
     \/ root.formatted /\ pc' = "rmain" /\ Fault /\ UNCHANGED mem

Restore(opt) == pc' = "rmain" /\ mem' = [mem EXCEPT !.imgopt = opt]

\* A choice nobody makes in time resumes the normal boot.
BootMenu ==
  /\ pc = "menu"
  /\ NoFault /\ UNCHANGED <<historyVars, root, frFile, netTar>>
  /\ \E choice \in MenuChoices \cup {"timeout"} :
       \/ choice \in {"resume", "timeout"} /\ pc' = "switchroot" /\ UNCHANGED mem
       \/ choice = "poweroff" /\ pc' = "sync" /\ UNCHANGED mem
       \/ choice = "latest" /\ Restore("")
       \/ choice = "original" /\ Restore("oldest")
       \/ choice = "choose" /\ Restore("menu")
       \/ choice = "erase" /\ pc' = "erase" /\ UNCHANGED mem

\* Both ends of a data erase, success and unrecoverable failure, reboot.
EraseDisks ==
  /\ pc = "erase" /\ pc' = "sync"
  /\ UNCHANGED <<historyVars, frFile, netTar, mem>>
  /\ \/ root' = Blank /\ NoFault
     \/ root' \in {root, Blank} /\ Fault

\* Without the flag file, or when mounting fails, switchroot returns and so
\* does tryNormalBoot, which starts a factory restore with default options.
SwitchRoot ==
  /\ pc = "switchroot"
  /\ UNCHANGED <<root, frFile, netTar>>
  /\ \/ /\ root.formatted /\ root.flag /\ NoFault
        /\ pc' = "os" /\ Forget /\ mem' = NoMemory
     \/ /\ ~(root.formatted /\ root.flag) /\ NoFault
        /\ Restore("") /\ UNCHANGED historyVars
     \/ /\ Fault /\ Restore("") /\ UNCHANGED historyVars
     \/ /\ root.formatted /\ root.flag /\ Fault
        /\ pc' = "sync" /\ UNCHANGED <<historyVars, mem>>

-----------------------------------------------------------------------------
(* The booted system (external) and the power. *)

\* It reports under the disk tag found on its disk, which may be missing.
ReportBoot ==
  /\ pc = "os" /\ pc' = "osreport"
  /\ \E s \in Severities :
       RecordBootState(Readable, root.tag, root.image \notin Unbootable, s)
  /\ NoFault /\ UNCHANGED <<root, frFile, netTar, mem>>

FinishReport ==
  /\ pc = "osreport" /\ pc' = "up"
  /\ \/ FinishWrite /\ NoFault
     \/ UNCHANGED historyVars /\ Fault
  /\ UNCHANGED <<root, frFile, netTar, mem>>

Shutdown ==
  /\ pc \in {"os", "up"} /\ pc' = "off"
  /\ NoFault /\ UNCHANGED <<historyVars, root, frFile, netTar, mem>>

\* The kernel writes cached data back when it likes.
CacheWritten ==
  /\ root.dirty # {} /\ root' = [root EXCEPT !.dirty = {}]
  /\ NoFault /\ UNCHANGED <<historyVars, pc, frFile, netTar, mem>>

PowerFailure ==
  /\ pc # "off" /\ pc' = "off"
  /\ outages > 0 /\ outages' = outages - 1 /\ UNCHANGED faults
  /\ \E lost \in SUBSET root.dirty :
       root' = [root EXCEPT !.done = @ \ lost, !.dirty = {}]
  /\ UNCHANGED <<historyVars, frFile, netTar, mem>>

\* What MustPowerCycle asks for, and all that is left after a panic of init.
PowerCycle ==
  /\ pc \in {"stuck", "panic"} /\ pc' = "off"
  /\ NoFault /\ UNCHANGED <<historyVars, root, frFile, netTar, mem>>

BootStep ==
  \/ PowerOn \/ TryNormalBoot \/ BootMenu \/ EraseDisks \/ SwitchRoot

Next ==
  \/ BootStep \/ RestoreStep
  \/ ReportBoot \/ FinishReport \/ Shutdown
  \/ CacheWritten \/ PowerFailure \/ PowerCycle

\* The unit's own steps are taken; nobody has to pick a menu choice, to pull
\* the plug or to shut the system down.
Spec == Init /\ [][Next]_vars
FairSpec == Spec /\ WF_vars(BootStep) /\ WF_vars(RestoreStep)

-----------------------------------------------------------------------------
(* Properties. *)

TypeOK == HistoryTypeOK /\ RecoveryTypeOK /\ pc \in RecoveryPcs \cup BootPcs

(* The flag file, which tells init that a normal boot is ok, is only ever   *)
(* on a file system every step of a restore has finished on, with the image *)
(* that was extracted there and no other image's disk tag: whatever failed, *)
(* was interrupted or was retried.                                          *)
FlagMeansComplete ==
  root.flag => /\ root.formatted /\ root.done = Steps
               /\ root.image \in Images \ Unextractable
               /\ root.tag \in {root.image, NoImage}

(* fr.data, which holds the options of the restore under way, is deleted    *)
(* only when the file system is complete but for the flag: a restore that   *)
(* fails or is interrupted before that starts over with the same options.   *)
(* One that ends between the deletion and the flag (recover.go:245, 251)    *)
(* starts over without them.                                                *)
OptionsOutliveRestore ==
  [][frFile.state = "ok" /\ frFile'.state = "absent" => root.done = Steps]_frFile

(* A saved network configuration is removed from the recovery volume only   *)
(* after it was restored to the new system, unless fr.data asks for it to   *)
(* be ignored.                                                              *)
NetConfigMoved ==
  [][netTar /\ ~netTar' /\ "ignoreNet" \notin frFile.options
       => root'.netRestored]_netTar

(* Every restore that ends with log.Fatalf after an image was chosen is     *)
(* charged to that image, whatever step failed and however the unit got     *)
(* there: the next restore's history.Check sees one more failure of it.     *)
FailureIsCharged ==
  [][pc = "failed" /\ pc' \in {"histwrite", "sync"} /\ mem.tag # NoImage =>
       \/ Failures(results', mem.tag) > Failures(results, mem.tag)
       \/ Entry(results, mem.tag).imagingFailures = CountCap]_pc

(* With an emergency image no other image is installed, whatever the        *)
(* history, the validation or a failure say (pkg/recovery/doc.go).          *)
EmergencyImageOnly ==
  [][~root.flag /\ root'.flag /\ mem.efiles \in Images =>
       root'.image = mem.efiles]_root

(* What init and factory restore do to the primary disk is what Appliance   *)
(* allows: complete installations only, never one over another.             *)
Abs == INSTANCE Appliance WITH
  Installable <- Images \ Unextractable, None <- NoImage,
  installed <- IF root.flag THEN root.image ELSE NoImage,
  running <- IF pc \in {"os", "osreport", "up"} THEN root.image ELSE NoImage
RefinesAppliance == Abs!Spec

Sound == {i \in DOMAIN Newest : Newest[i] \notin Undecodable \cup Unextractable}
Decodable == {i \in DOMAIN Newest : Newest[i] \notin Undecodable}

\* fr.data, which stays until a restore succeeds, has the history rolled over
\* at every attempt, and the image that comes first without a history is bad.
ClearsForEver ==
  /\ frFile.state = "ok" /\ "clear" \in frFile.options
  /\ \E i \in Decodable : i \notin Sound /\ \A j \in Decodable : i <= j

\* Too many failures are recorded for every sound image, and the last one, the
\* only one that is tried in spite of its failures, is bad.
OutOfImages ==
  /\ Len(Newest) \notin Sound
  /\ \A i \in Sound : ~Check(histFile.list, Newest[i])

(* A unit without a bootable system gets one: faults, power failures and    *)
(* images that cannot be extracted do not keep factory restore from ending  *)
(* with the flag file, because the history makes it move on from an image   *)
(* that keeps failing (ar.go:327-366) - unless each attempt clears the      *)
(* history, or the move ended at a bad last image.                          *)
EventuallyInstalled == ~root.flag ~> root.flag \/ ClearsForEver \/ OutOfImages

(* The strengthening of FlagMeansComplete and RefinesAppliance: while a     *)
(* restore builds the file system there is no flag file, the steps it is    *)
(* past are exactly those done, and the image extracted is the one chosen.  *)
Building == {"untar", "untarring", "bootcfg", "fstab", "net", "netrm", "firstboot",
             "frdelete", "flag"}
Extracted == Building \ {"untar", "untarring"}

DoneBefore(p) ==
  CASE p = "bootcfg"              -> {"untar"}
    [] p = "fstab"                -> {"untar", "boot"}
    [] p \in {"net", "netrm"}     -> {"untar", "boot", "fstab"}
    [] p = "firstboot"            -> Steps \ {"firstboot"}
    [] p \in {"frdelete", "flag"} -> Steps
    [] OTHER                      -> {}

BuildingInv ==
  /\ pc \in Building \cup {"partition", "format"} => mem.tag \in Images
  /\ pc \in Building => root.formatted /\ ~root.flag /\ root.done = DoneBefore(pc)
  /\ pc \in Building => root.tag \in {mem.tag, NoImage}
  /\ pc \in Building \ {"untar"} => root.image = mem.tag
  /\ pc \in Extracted => mem.tag \notin Unextractable

FlagInv ==
  /\ root.flag => /\ root.formatted /\ root.image \in Images \ Unextractable
                  /\ root.tag \in {root.image, NoImage}
  /\ pc \in {"os", "osreport", "up"} => root.flag

\* Without write-back nothing is ever lost after it was done.
DoneInv ==
  ~WriteBack => root.dirty = {} /\ (root.flag => root.done = Steps)

\* No image is chosen before the history hook is registered.
HookInv ==
  /\ pc \in {"boot", "menu", "switchroot", "erase", "rmain", "emode", "frdata", "select"}
       => mem.tag = NoImage
  /\ pc \in Building \cup {"emode", "frdata", "select", "partition", "format", "facts"}
       => mem.hooked
  /\ pc = "failed" => mem.hooked \/ mem.tag = NoImage

IInv == RecoveryTypeOK /\ BuildingInv /\ FlagInv /\ DoneInv /\ HookInv

-----------------------------------------------------------------------------
(* Statements of the repository the code does not live up to. *)

(* pkg/recovery/history/history.go:180: RebootHook updates the history      *)
(* file.  The list it writes should keep the failures the file holds.       *)
RebootHookKeepsHistory ==
  [][histFile.state = "parses" /\ pc \in {"emode", "failed", "finished"} =>
       \A n \in Names : Failures(results', n) >= Failures(histFile.list, n)]_results

(* pkg/recovery/doc.go: the update list is gone through until the first     *)
(* valid update is found, and only without a valid update is there a reboot.*)
GivesUpOnlyWithoutImage ==
  [][pc = "select" /\ pc' = "failed" =>
       \A c \in ChoiceLists : \A i \in DOMAIN c : c[i] \in Undecodable]_pc

(* pkg/recovery/recover.go:158: the panic of a cancelled image menu should  *)
(* never be reached.                                                        *)
CancelNeverPanics == pc # "panic"
=============================================================================
