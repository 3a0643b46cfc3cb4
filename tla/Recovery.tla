------------------------------ MODULE Recovery ------------------------------
(***************************************************************************)
(* Factory restore (pkg/recovery): from the start of rmain to the reboot,  *)
(* with the state it leaves on the primary disk and the recovery volume.   *)
(*                                                                         *)
(* One action per stretch of code between two effects that outlive the     *)
(* process, so that a power failure can fall between any two of them.      *)
(* Fatalf (RecFatal) and power.Reboot run the preboot list; of its tasks   *)
(* the history hook and the final sync and unmount matter here.            *)
(*                                                                         *)
(* Faults (a command, a device, the network or a file system call that     *)
(* fails) are drawn from a budget, as are power failures.                  *)
(***************************************************************************)
EXTENDS History, FiniteSets

CONSTANTS
  Newest,           \* images on the recovery volume, newest first
  Undecodable,      \* images xz cannot decompress
  Unextractable,    \* images tar cannot extract
  PreferredUpdate,  \* PREFERRED_UPDATE from the kernel command line
  WriteBack,        \* whether a power failure loses data that was not synced
  FrFiles,          \* contents fr.data may have when the unit is delivered
  MaxFaults,        \* bound: faults in a behaviour
  MaxOutages        \* bound: power failures in a behaviour

FrOptions == {"preserve", "ignoreNet", "clear", "xlog"}
FrFile == [state : {"absent", "ok", "bad"}, options : SUBSET FrOptions]

ASSUME RecoveryAssumption ==
  /\ Newest \in Seq(Images)
  /\ Undecodable \subseteq Images /\ Unextractable \subseteq Images
  /\ PreferredUpdate \in {"", "oldest", "menu"}
  /\ WriteBack \in BOOLEAN
  /\ FrFiles \subseteq FrFile
  /\ MaxFaults \in Nat /\ MaxOutages \in Nat

VARIABLES
  pc,       \* where the unit is
  root,     \* the primary file system
  frFile,   \* fr.data on the recovery volume
  netTar,   \* whether a saved network configuration is on the recovery volume
  mem,      \* memory of the running process
  faults,   \* faults left
  outages   \* power failures left

recoveryVars == <<pc, root, frFile, netTar, mem, faults, outages>>

\* What makes a file system a bootable system; the flag file comes after.
Steps == {"untar", "boot", "fstab", "net", "firstboot"}

Root == [formatted : BOOLEAN, image : Images \cup {NoImage}, done : SUBSET Steps,
         dirty : SUBSET Steps, flag : BOOLEAN, tag : Images \cup {NoImage},
         netRestored : BOOLEAN]

Blank == [formatted |-> FALSE, image |-> NoImage, done |-> {}, dirty |-> {},
          flag |-> FALSE, tag |-> NoImage, netRestored |-> FALSE]
Fresh == [Blank EXCEPT !.formatted = TRUE]

\* Emergency-mode files: none, an image, JSON data, or nothing usable.
EFiles == Images \cup {"none", "json", "unusable"}

NoMemory == [tag |-> NoImage, hooked |-> FALSE, efiles |-> "none", imgopt |-> "",
             frLoaded |-> FALSE, fr |-> {}]

RecoveryPcs ==
  {"rmain", "emode", "frdata", "select", "partition", "format", "untar",
   "untarring", "bootcfg", "fstab", "net", "netrm", "firstboot", "frdelete",
   "flag", "facts", "failed", "finished", "histwrite", "sync", "stuckwrite",
   "stuck", "panic"}

\* A fault may strike; a step without one leaves the budget alone.
Fault   == faults > 0 /\ faults' = faults - 1 /\ UNCHANGED outages
NoFault == UNCHANGED <<faults, outages>>

\* log.Fatalf: nothing on disk changes before the reboot.
Fatalf == pc' = "failed" /\ UNCHANGED <<historyVars, root, frFile, netTar, mem>>

Did(step) ==
  [root EXCEPT !.done = @ \cup {step},
               !.dirty = IF WriteBack THEN @ \cup {step} ELSE @]

-----------------------------------------------------------------------------
(* Setting up. *)

\* Mutant: the history hook is not registered.
SetupUnhooked ==
  /\ pc = "rmain" /\ pc' = "emode"
  /\ UNCHANGED <<historyVars, root, frFile, netTar, mem>> /\ NoFault

\* Platform, recovery volume and mount may fail before the hook is registered.
Setup ==
  /\ pc = "rmain"
  /\ \/ /\ pc' = "emode"
        /\ mem' = [mem EXCEPT !.hooked = TRUE]
        /\ UNCHANGED <<historyVars, root, frFile, netTar>> /\ NoFault
     \/ Fatalf /\ Fault

\* emode.CheckForEmergency; MustPowerCycle performs the preboot list and then
\* waits for the user, with the history hook run but no reboot.
CheckForEmergency ==
  /\ pc = "emode"
  /\ NoFault
  /\ \/ /\ mem.efiles # "unusable"
        /\ pc' = "frdata"
        /\ UNCHANGED <<historyVars, root, frFile, netTar, mem>>
     \/ /\ mem.efiles = "unusable"
        /\ RebootHook(mem.tag, FALSE)
        /\ pc' = "stuckwrite"
        /\ UNCHANGED <<root, frFile, netTar, mem>>

\* ReadRecoveryOr reads fr.data whatever the user files are; Handle reboots
\* when remote logging is wanted and the network fails; ClearHistory rolls the
\* history file over.
HandleFrData ==
  LET loads == frFile.state = "ok"
      opts  == IF loads THEN frFile.options ELSE mem.fr
  IN  /\ pc = "frdata"
      /\ mem' = [mem EXCEPT !.frLoaded = @ \/ loads, !.fr = opts]
      /\ UNCHANGED <<root, frFile, netTar>>
      /\ \/ /\ NoFault /\ pc' = "select"
            /\ IF "clear" \in opts THEN Rollover ELSE UNCHANGED historyVars
         \/ /\ "xlog" \in opts /\ Fault
            /\ pc' = "failed" /\ UNCHANGED historyVars

-----------------------------------------------------------------------------
(* Choosing the image. *)

Reversed(s) == [i \in 1 .. Len(s) |-> s[Len(s) + 1 - i]]
IsEmergency == mem.efiles \in Images
ImageOption == IF mem.imgopt = "" THEN PreferredUpdate ELSE mem.imgopt

\* Mutant: an emergency image is only preferred to the others.
ChoiceListsPreferring ==
  {IF IsEmergency THEN <<mem.efiles>> \o Newest ELSE Newest}

\* The lists findValidUpd may be given, in order of preference.
ChoiceLists ==
  IF IsEmergency THEN {<<mem.efiles>>}
  ELSE CASE ImageOption = "oldest" -> {Reversed(Newest)}
         [] ImageOption = "menu"   -> {<<Newest[i]>> : i \in DOMAIN Newest}
         [] OTHER                  -> {Newest}

\* Positions findValidUpd stops at: the history allows the image, or it is the
\* last one, and it decompresses.
Usable(rl, choices) ==
  {i \in DOMAIN choices :
     /\ Check(rl, choices[i]) \/ i = Len(choices)
     /\ choices[i] \notin Undecodable}

\* The user backs out of the image menu, or the menu times out.  The preboot
\* list is dropped and the boot menu comes back.
CancelImageMenu ==
  /\ ~IsEmergency /\ ImageOption = "menu"
  /\ IF mem.imgopt = ""
     THEN pc' = "panic" /\ UNCHANGED mem
     ELSE pc' = "menu" /\ mem' = [mem EXCEPT !.hooked = FALSE]

FindValidUpd ==
  /\ pc = "select"
  /\ \/ LoadFile /\ NoFault
     \/ LoadUnreadable /\ Fault
  /\ UNCHANGED <<root, frFile, netTar>>
  /\ \/ CancelImageMenu
     \/ \E choices \in ChoiceLists :
          LET usable == Usable(results', choices)
          IN  \/ usable = {} /\ pc' = "failed" /\ UNCHANGED mem
              \/ \E i \in usable :
                   /\ \A j \in usable : i <= j
                   /\ pc' = "partition"
                   /\ mem' = [mem EXCEPT !.tag = choices[i]]

-----------------------------------------------------------------------------
(* Writing the primary disk. *)

\* FindTargets is fatal when disks are missing; errors of Partition are only
\* logged, whatever it did to the disk.
Partition ==
  /\ pc = "partition"
  /\ \/ /\ NoFault /\ root' = Blank /\ pc' = "format"
        /\ UNCHANGED <<historyVars, frFile, netTar, mem>>
     \/ /\ Fault /\ root' \in {root, Blank} /\ pc' = "format"
        /\ UNCHANGED <<historyVars, frFile, netTar, mem>>
     \/ Fault /\ Fatalf

\* Mutant: after a failed format the old file system can be mounted.
FormatIgnored ==
  /\ pc = "format" /\ pc' = "untar"
  /\ UNCHANGED <<historyVars, frFile, netTar, mem>>
  /\ \/ root' = Fresh /\ NoFault
     \/ UNCHANGED root /\ Fault

\* CreateArray or CreateNonArray, Format, Mount.  The result of Format is
\* discarded, but a failed mke2fs leaves the Filesystem without a type, so
\* that it cannot be mounted.
FormatAndMount ==
  /\ pc = "format"
  /\ UNCHANGED <<historyVars, frFile, netTar, mem>>
  /\ \/ NoFault /\ root' = Fresh /\ pc' = "untar"
     \/ Fault /\ root' \in {root, Blank, Fresh} /\ pc' = "failed"

StartUntar ==
  /\ pc = "untar" /\ pc' = "untarring"
  /\ root' = [root EXCEPT !.image = mem.tag]
  /\ NoFault /\ UNCHANGED <<historyVars, frFile, netTar, mem>>

\* Mutant: the exit status of tar is not looked at.
ApplyUpdateUnchecked ==
  /\ pc = "untarring" /\ pc' = "bootcfg"
  /\ root' = Did("untar")
  /\ NoFault /\ UNCHANGED <<historyVars, frFile, netTar, mem>>

ApplyUpdate ==
  /\ pc = "untarring"
  /\ \/ /\ mem.tag \notin Unextractable
        /\ root' = Did("untar") /\ pc' = "bootcfg"
        /\ NoFault /\ UNCHANGED <<historyVars, frFile, netTar, mem>>
     \/ mem.tag \in Unextractable /\ NoFault /\ Fatalf
     \/ Fault /\ Fatalf

MakeBootable ==
  /\ pc = "bootcfg"
  /\ \/ /\ root' = Did("boot") /\ pc' = "fstab"
        /\ NoFault /\ UNCHANGED <<historyVars, frFile, netTar, mem>>
     \/ Fault /\ Fatalf

WriteFstab ==
  /\ pc = "fstab"
  /\ \/ /\ root' = Did("fstab") /\ pc' = "net"
        /\ NoFault /\ UNCHANGED <<historyVars, frFile, netTar, mem>>
     \/ Fault /\ Fatalf

\* Mutant: the saved configuration is removed also when it was not restored.
WriteNetworkConfigAlwaysRemoves ==
  /\ pc = "net" /\ pc' = "firstboot"
  /\ root' = Did("net") /\ netTar' = FALSE
  /\ NoFault /\ UNCHANGED <<historyVars, frFile, mem>>

\* No error here is fatal: the defaults are written in every case.
WriteNetworkConfig ==
  /\ pc = "net"
  /\ UNCHANGED <<historyVars, frFile, mem>>
  /\ \/ /\ ~netTar /\ NoFault
        /\ root' = Did("net") /\ pc' = "firstboot" /\ UNCHANGED netTar
     \/ /\ netTar /\ "ignoreNet" \in mem.fr
        /\ root' = Did("net") /\ pc' = "firstboot"
        /\ \/ netTar' = FALSE /\ NoFault
           \/ UNCHANGED netTar /\ Fault
     \/ /\ netTar /\ "ignoreNet" \notin mem.fr
        /\ UNCHANGED netTar
        /\ \/ /\ NoFault /\ pc' = "netrm"
              /\ root' = [root EXCEPT !.netRestored = TRUE]
           \/ /\ Fault /\ pc' = "firstboot"
              /\ root' = Did("net")

RemoveNetTar ==
  /\ pc = "netrm"
  /\ root' = Did("net") /\ pc' = "firstboot"
  /\ UNCHANGED <<historyVars, frFile, mem>>
  /\ \/ netTar' = FALSE /\ NoFault
     \/ UNCHANGED netTar /\ Fault

\* Fatal without a password for the admin account; a disk tag that cannot be
\* written is only logged.
Firstboot ==
  /\ pc = "firstboot"
  /\ \/ /\ root' = [Did("firstboot") EXCEPT !.tag = mem.tag] /\ NoFault
        /\ pc' = "frdelete" /\ UNCHANGED <<historyVars, frFile, netTar, mem>>
     \/ /\ root' = Did("firstboot") /\ Fault
        /\ pc' = "frdelete" /\ UNCHANGED <<historyVars, frFile, netTar, mem>>
     \/ Fault /\ Fatalf

\* Mutant: fr.data is deleted before Firstboot.
DeleteFrDataEarly ==
  /\ pc \in {"firstboot", "frdelete"}
  /\ pc' = IF pc = "firstboot" THEN pc ELSE "flag"
  /\ frFile' = [state |-> "absent", options |-> {}]
  /\ NoFault /\ UNCHANGED <<historyVars, root, netTar, mem>>

DeleteFrData ==
  LET removes == mem.frLoaded /\ "preserve" \notin mem.fr
  IN  /\ pc = "frdelete" /\ pc' = "flag"
      /\ UNCHANGED <<historyVars, root, netTar, mem>>
      /\ \/ removes /\ frFile' = [state |-> "absent", options |-> {}] /\ NoFault
         \/ ~removes /\ UNCHANGED frFile /\ NoFault
         \/ removes /\ UNCHANGED frFile /\ Fault

SetFlag ==
  /\ pc = "flag"
  /\ \/ /\ root' = [root EXCEPT !.flag = TRUE] /\ pc' = "facts"
        /\ NoFault /\ UNCHANGED <<historyVars, frFile, netTar, mem>>
     \/ Fault /\ Fatalf

\* writeFacts only logs its errors; then power.RebootSuccess.
WriteFacts ==
  /\ pc = "facts" /\ pc' = "finished"
  /\ NoFault /\ UNCHANGED <<historyVars, root, frFile, netTar, mem>>

-----------------------------------------------------------------------------
(* Leaving. *)

\* power.Reboot: the history hook is the last task added, so the first to run.
Reboot ==
  /\ pc \in {"failed", "finished"}
  /\ NoFault /\ UNCHANGED <<root, frFile, netTar>>
  /\ \/ /\ mem.hooked /\ pc' = "histwrite"
        /\ RebootHook(mem.tag, pc = "finished")
        /\ mem' = [mem EXCEPT !.hooked = FALSE]
     \/ /\ ~mem.hooked /\ pc' = "sync"
        /\ UNCHANGED <<historyVars, mem>>

\* history.write; an error leaves the truncated file.
WriteHistory ==
  /\ pc \in {"histwrite", "stuckwrite"}
  /\ pc' = IF pc = "histwrite" THEN "sync" ELSE "stuck"
  /\ UNCHANGED <<root, frFile, netTar, mem>>
  /\ \/ FinishWrite /\ NoFault
     \/ UNCHANGED historyVars /\ Fault

\* The umount and sync tasks, then the reboot itself.
SyncAndReboot ==
  /\ pc = "sync" /\ pc' = "off"
  /\ root' = [root EXCEPT !.dirty = {}]
  /\ NoFault /\ UNCHANGED <<historyVars, frFile, netTar, mem>>

RestoreStep ==
  \/ Setup \/ CheckForEmergency \/ HandleFrData \/ FindValidUpd
  \/ Partition \/ FormatAndMount \/ StartUntar \/ ApplyUpdate
  \/ MakeBootable \/ WriteFstab \/ WriteNetworkConfig \/ RemoveNetTar
  \/ Firstboot \/ DeleteFrData \/ SetFlag \/ WriteFacts
  \/ Reboot \/ WriteHistory \/ SyncAndReboot

-----------------------------------------------------------------------------
RecoveryTypeOK ==
  /\ root \in Root
  /\ frFile \in FrFile
  /\ netTar \in BOOLEAN
  /\ mem \in [tag : Images \cup {NoImage}, hooked : BOOLEAN, efiles : EFiles,
              imgopt : {"", "oldest", "menu"}, frLoaded : BOOLEAN,
              fr : SUBSET FrOptions]
  /\ faults \in 0 .. MaxFaults
  /\ outages \in 0 .. MaxOutages
=============================================================================
