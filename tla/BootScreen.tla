----------------------------- MODULE BootScreen -----------------------------
(***************************************************************************)
(* The seconds before init boots the installed system: waitSearch waits for  *)
(* a key and shows a message meanwhile, and searches for the root device and  *)
(* for emergency files on a usb disk, each in a goroutine of its own; a timer *)
(* ends all of it (pkg/init/normal.go, pkg/hw/cfa/message.go, spinner.go).    *)
(***************************************************************************)
EXTENDS Naturals

CONSTANTS
  Disks,   \* usb disks that may be inserted: "plain" or with "files"
  MaxPolls \* bound on the times a search is repeated without a result

ASSUME ScreenAssumption ==
  /\ Disks \subseteq {"plain", "files"} /\ MaxPolls \in Nat

VARIABLES
  main,         \* where waitSearch is, and what follows it
  msg, usb, root,  \* where the goroutines are
  polls,        \* searches for emergency files so far
  mutex,        \* holder of the lcd's mutex
  onLcd,       \* what the lcd shows
  done,         \* the channel closed when graceTime is over
  internalDone, \* the channel closed once the key is in or time is over
  key,          \* a key event is in the channel
  pressed, foundRoot, emergencyFiles,  \* the results
  device,       \* the root device is there
  disk,         \* the usb disk that is inserted, or "none"
  mounted,      \* it is mounted on ExtDir
  atDone        \* the results when the time was over

threads == <<main, msg, usb, root>>
lcd     == <<mutex, onLcd>>
signals == <<done, internalDone>>
results == <<pressed, foundRoot, emergencyFiles>>
outside == <<key, device, disk>>
screenVars == <<threads, polls, lcd, signals, results, outside, mounted, atDone>>

Results == [root : BOOLEAN, files : BOOLEAN]

ScreenInit ==
  /\ \/ main = "wait" /\ msg = "start"
     \/ main = "no lcd" /\ msg = "end"
  /\ usb = "mount" /\ root = "sleep" /\ polls = 0
  /\ mutex = "free" /\ onLcd = "old" /\ done = FALSE /\ internalDone = FALSE
  /\ key = FALSE /\ pressed = FALSE /\ foundRoot = FALSE /\ emergencyFiles = "none"
  /\ device \in BOOLEAN /\ disk = "none" /\ mounted = FALSE
  /\ atDone = [root |-> FALSE, files |-> FALSE]

-----------------------------------------------------------------------------
(* The world, and the timer. *)

PressKey ==
  /\ ~key /\ key' = TRUE
  /\ UNCHANGED <<threads, polls, lcd, signals, results, device, disk, mounted, atDone>>

DeviceAppears ==
  /\ ~device /\ device' = TRUE
  /\ UNCHANGED <<threads, polls, lcd, signals, results, key, disk, mounted, atDone>>

Insert ==
  /\ disk = "none" /\ disk' \in Disks
  /\ UNCHANGED <<threads, polls, lcd, signals, results, key, device, mounted, atDone>>

\* graceTime is over.
Timer ==
  /\ ~done /\ done' = TRUE
  /\ atDone' = [root |-> foundRoot, files |-> emergencyFiles = "found"]
  /\ UNCHANGED <<threads, polls, lcd, internalDone, results, outside, mounted>>

-----------------------------------------------------------------------------
(* waitSearch and PressAnyKeyUntil. *)

MainTo(from, to) == main = from /\ main' = to /\ UNCHANGED <<msg, usb, root, polls>>

\* Mutant: the message is told to end only after the screen is cleared.
WaitForEventOnly ==
  /\ MainTo("wait", "clear") /\ UNCHANGED internalDone
  /\ \/ key /\ pressed' = TRUE /\ key' = FALSE
     \/ done /\ UNCHANGED <<pressed, key>>
  /\ UNCHANGED <<lcd, done, foundRoot, emergencyFiles, device, disk, mounted, atDone>>

\* The channel made by DoneChToTimeCh is closed some time after done.  When
\* there is a key as well, either may be taken.
WaitForEvent ==
  /\ MainTo("wait", "clear") /\ internalDone' = TRUE
  /\ \/ key /\ pressed' = TRUE /\ key' = FALSE
     \/ done /\ UNCHANGED <<pressed, key>>
  /\ UNCHANGED <<lcd, done, foundRoot, emergencyFiles, device, disk, mounted, atDone>>

\* Without an lcd there is nothing but the time to wait for.
NoLcd ==
  /\ MainTo("no lcd", "return") /\ done
  /\ UNCHANGED <<lcd, signals, results, outside, mounted, atDone>>

\* Clear locks the mutex and unlocks it.
Clear ==
  /\ MainTo("clear", "write") /\ mutex = "free" /\ onLcd' = "blank"
  /\ UNCHANGED <<mutex, signals, results, outside, mounted, atDone>>

\* Mutant: no spinner is shown to fill the time.
WriteResultOnly ==
  /\ MainTo("write", "return")
  /\ onLcd' = IF pressed THEN "interrupted" ELSE "timeout"
  /\ UNCHANGED <<mutex, signals, results, outside, mounted, atDone>>

\* The backlight is set and the result written without the mutex; then
\* waitSearch fills the time that is left.
WriteResult ==
  /\ MainTo("write", IF pressed /\ ~done THEN "display" ELSE "return")
  /\ onLcd' = IF pressed THEN "interrupted" ELSE "timeout"
  /\ UNCHANGED <<mutex, signals, results, outside, mounted, atDone>>

\* SpinnerUntil shows its text first and locks the mutex then.
SpinnerDisplay ==
  /\ MainTo("display", "spin") /\ mutex = "free" /\ onLcd' = "please wait"
  /\ UNCHANGED <<mutex, signals, results, outside, mounted, atDone>>

SpinnerLock ==
  /\ MainTo("spin", "spinning") /\ mutex = "free" /\ mutex' = "main"
  /\ UNCHANGED <<onLcd, signals, results, outside, mounted, atDone>>

SpinnerEnds ==
  /\ MainTo("spinning", "return") /\ done /\ mutex' = "free"
  /\ UNCHANGED <<onLcd, signals, results, outside, mounted, atDone>>

\* Mutant: what was found when the wait began to end.
ReturnStale ==
  /\ MainTo("return", IF pressed THEN "menu" ELSE "restore")
  /\ UNCHANGED <<lcd, signals, results, outside, mounted, atDone>>

\* tryNormalBoot, with the results as they are just now; a slice of which half
\* is written is no use to recovery.
Return ==
  /\ MainTo("return", IF pressed THEN "menu"
                      ELSE IF emergencyFiles = "half" THEN "panic"
                      ELSE IF emergencyFiles = "found" THEN "emergency"
                      ELSE IF foundRoot THEN "boot" ELSE "restore")
  /\ UNCHANGED <<lcd, signals, results, outside, mounted, atDone>>

\* switchroot: unmount what is not needed, then switch, which fails when
\* something was mounted in between.
CleanMounts ==
  /\ MainTo("boot", "switch") /\ mounted' = FALSE
  /\ UNCHANGED <<lcd, signals, results, outside, atDone>>

SwitchRoot ==
  /\ MainTo("switch", IF mounted THEN "reboot" ELSE "booted")
  /\ UNCHANGED <<lcd, signals, results, outside, mounted, atDone>>

MainStep ==
  \/ NoLcd \/ WaitForEvent \/ Clear \/ WriteResult
  \/ SpinnerDisplay \/ SpinnerLock \/ SpinnerEnds
  \/ Return \/ CleanMounts \/ SwitchRoot

-----------------------------------------------------------------------------
(* LongMsgUntil, in a goroutine of PressAnyKeyUntil. *)

MsgTo(from, to) == msg = from /\ msg' = to /\ UNCHANGED <<main, usb, root, polls>>

LongMsgStart ==
  /\ MsgTo("start", "shown") /\ mutex = "free" /\ mutex' = "msg" /\ onLcd' = "press any key"
  /\ UNCHANGED <<signals, results, outside, mounted, atDone>>

\* It scrolls, now and then also after it was told to end.
LongMsgScroll ==
  /\ MsgTo("shown", "shown") /\ onLcd' = "press any key"
  /\ UNCHANGED <<mutex, signals, results, outside, mounted, atDone>>

LongMsgEnd ==
  /\ MsgTo("shown", "end") /\ internalDone /\ mutex' = "free"
  /\ UNCHANGED <<onLcd, signals, results, outside, mounted, atDone>>

-----------------------------------------------------------------------------
(* The search for emergency files: checkExtUsb, again and again. *)

UsbTo(from, to) == usb = from /\ usb' = to /\ UNCHANGED <<main, msg, root>>

UsbMount ==
  /\ UsbTo("mount", IF disk = "none" THEN "sleep" ELSE "list")
  /\ mounted' = (mounted \/ disk # "none")
  /\ UNCHANGED <<polls, lcd, signals, results, outside, atDone>>

\* With files the disk stays mounted.  It may be unmounted under the search by
\* cleanMounts, and then has nothing.
UsbList ==
  /\ UsbTo("list", IF disk = "files" /\ mounted THEN "found" ELSE "unmount")
  /\ emergencyFiles' = IF disk = "files" /\ mounted THEN "half" ELSE emergencyFiles
  /\ UNCHANGED <<polls, lcd, signals, pressed, foundRoot, outside, mounted, atDone>>

UsbFound ==
  /\ UsbTo("found", "end") /\ emergencyFiles' = "found"
  /\ UNCHANGED <<polls, lcd, signals, pressed, foundRoot, outside, mounted, atDone>>

UsbUnmount ==
  /\ UsbTo("unmount", "sleep") /\ mounted' = FALSE
  /\ UNCHANGED <<polls, lcd, signals, results, outside, atDone>>

UsbAgain ==
  /\ UsbTo("sleep", "mount") /\ polls < MaxPolls /\ polls' = polls + 1
  /\ UNCHANGED <<lcd, signals, results, outside, mounted, atDone>>

UsbDone ==
  /\ UsbTo("sleep", "end") /\ done /\ UNCHANGED polls
  /\ UNCHANGED <<lcd, signals, results, outside, mounted, atDone>>

-----------------------------------------------------------------------------
(* The search for the root device. *)

RootTo(to) == root = "sleep" /\ root' = to /\ UNCHANGED <<main, msg, usb, polls>>

RootStat ==
  /\ device /\ RootTo("end") /\ foundRoot' = TRUE
  /\ UNCHANGED <<lcd, signals, pressed, emergencyFiles, outside, mounted, atDone>>

RootDone ==
  /\ done /\ RootTo("end")
  /\ UNCHANGED <<lcd, signals, results, outside, mounted, atDone>>

-----------------------------------------------------------------------------
Goroutines ==
  \/ LongMsgStart \/ LongMsgScroll \/ LongMsgEnd
  \/ UsbMount \/ UsbList \/ UsbFound \/ UsbUnmount \/ UsbAgain \/ UsbDone
  \/ RootStat \/ RootDone

ScreenNext ==
  \/ PressKey \/ DeviceAppears \/ Insert \/ Timer
  \/ MainStep \/ Goroutines

ScreenSpec == ScreenInit /\ [][ScreenNext]_screenVars

\* All threads go on, and time passes.  One that waits for the mutex gets it in
\* the end, and a select that finds its channel closed again and again takes it.
ScreenFairness ==
  /\ WF_screenVars(Timer) /\ SF_screenVars(MainStep)
  /\ SF_screenVars(LongMsgStart) /\ SF_screenVars(LongMsgEnd)
  /\ WF_screenVars(UsbMount) /\ WF_screenVars(UsbList) /\ WF_screenVars(UsbFound) /\ WF_screenVars(UsbUnmount)
  /\ SF_screenVars(UsbDone) /\ WF_screenVars(RootStat) /\ WF_screenVars(RootDone)
FairScreenSpec == ScreenSpec /\ ScreenFairness

-----------------------------------------------------------------------------
(* Properties. *)

Outcomes == {"menu", "emergency", "boot", "restore", "panic"}
Ends     == {"switch", "booted", "reboot"}
Decided  == main \in Outcomes \cup Ends

ScreenTypeOK ==
  /\ main \in {"no lcd", "wait", "clear", "write", "display", "spin", "spinning", "return"}
               \cup Outcomes \cup Ends
  /\ msg \in {"start", "shown", "end"}
  /\ usb \in {"mount", "list", "found", "unmount", "sleep", "end"}
  /\ root \in {"sleep", "end"} /\ polls \in 0 .. MaxPolls
  /\ mutex \in {"free", "main", "msg"}
  /\ onLcd \in {"old", "blank", "press any key", "interrupted", "timeout", "please wait"}
  /\ {done, internalDone, key, pressed, foundRoot, device, mounted} \subseteq BOOLEAN
  /\ emergencyFiles \in {"none", "half", "found"} /\ disk \in {"none"} \cup Disks
  /\ atDone \in Results

(* The user gets all of graceTime, and so do the searches, a key pressed    *)
(* early included (normal.go:273, 317-327).                                 *)
GraceKept == Decided => done

(* What was found by the end of graceTime decides, in the order of          *)
(* normal.go:145: without a key, files go before the root device, and a     *)
(* unit whose root device was found is not restored.                        *)
FoundCounts ==
  Decided /\ ~pressed =>
    /\ atDone.files => main = "emergency"
    /\ atDone.root => main # "restore"

(* waitSearch returns, whoever holds the lcd's mutex, and all it started    *)
(* ends: the message, which then lets go of the lcd, and the searches.      *)
WaitEnds == <>(Decided /\ msg = "end" /\ usb = "end" /\ root = "end" /\ mutex = "free")

(* Once the screen was cleared, the message is over: what message.go:176    *)
(* says of locking the mutex there.                                         *)
MessageIsOver == main \in {"write", "display", "spin", "spinning", "return"} => msg = "end"
=============================================================================
