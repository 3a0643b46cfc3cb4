----------------------------- MODULE HistoryProc -----------------------------
(***************************************************************************)
(* The history used by a sequence of processes: factory restores, which    *)
(* load it, may pick an image and always end in RebootHook, and booted     *)
(* systems, which report boots.  Any of them may die at any point.         *)
(***************************************************************************)
EXTENDS History

VARIABLES
  process,  \* what is running: nothing, a restore, the booted system, a writer
  diskTag   \* disk tag set by the running restore

procVars == <<results, histFile, loaded, process, diskTag>>

ProcInit == HistoryInit /\ process = "none" /\ diskTag = NoImage

Start(p) ==
  /\ process = "none" /\ process' = p
  /\ Forget /\ diskTag' = NoImage

\* dt.Set: the restore found a usable image in the list it loaded.
ChooseImage ==
  /\ process = "restore" /\ diskTag = NoImage /\ loaded
  /\ diskTag' \in Images
  /\ UNCHANGED <<results, histFile, loaded, process>>

Load ==
  /\ process = "restore" /\ ~loaded
  /\ LoadFile \/ LoadUnreadable
  /\ UNCHANGED <<process, diskTag>>

ClearHistory ==
  /\ process = "restore" /\ ~loaded
  /\ Rollover /\ UNCHANGED <<process, diskTag>>

\* The hook is registered before the history is loaded, and runs however the
\* restore ends; only a restore that chose an image can succeed.
EndRestore ==
  /\ process = "restore"
  /\ \E success \in BOOLEAN :
       /\ success => diskTag # NoImage
       /\ RebootHook(diskTag, success)
  /\ process' = "writing" /\ UNCHANGED diskTag

BootReport ==
  /\ process = "system"
  /\ \E n \in Images \cup OddNames, success \in BOOLEAN, s \in Severities,
        current \in {Readable, results} :
       RecordBootState(current, n, success, s)
  /\ process' = "writing" /\ UNCHANGED diskTag

Written ==
  /\ process = "writing"
  /\ FinishWrite
  /\ process' = "none" /\ UNCHANGED diskTag

Die ==
  /\ process # "none" /\ process' = "none"
  /\ UNCHANGED <<results, histFile, loaded, diskTag>>

ProcNext ==
  \/ Start("restore") \/ Start("system")
  \/ Load \/ ClearHistory \/ ChooseImage \/ EndRestore
  \/ BootReport \/ Written \/ Die

ProcSpec == ProcInit /\ [][ProcNext]_procVars

-----------------------------------------------------------------------------
ProcTypeOK ==
  /\ HistoryTypeOK
  /\ process \in {"none", "restore", "system", "writing"}
  /\ diskTag \in Images \cup {NoImage}

(* While a process runs, no image loses failures from the list in memory:   *)
(* an image that the history it read rules out stays ruled out.  RebootHook *)
(* and RecordBootState rewrite the whole list through moveOrAddFront, so an *)
(* entry lost or overwritten there hands a bad image its failures back.     *)
FailuresNeverDrop ==
  [][process # "none" =>
       \A n \in Names : Failures(results', n) >= Failures(results, n)]_results

(* A boot report under a name that cannot be an image never pushes an image *)
(* off the front: it is charged to the image there, and becomes an entry of *)
(* its own only in a list that was empty.                                   *)
OddNamesAddNoEntry ==
  [][process = "system" /\ process' = "writing" =>
       \A n \in OddNames :
         HasEntry(results', n) => HasEntry(histFile.list, n) \/ Len(results') = 1]_results

(* What the two properties rest on: a process that has not loaded the       *)
(* history has an empty list, so loading can only add failures to it.       *)
UnloadedIsEmpty ==
  /\ process = "restore" /\ ~loaded => results = <<>>
  /\ process = "system" => results = <<>>

ProcInv == ProcTypeOK /\ UniqueEntries /\ UnloadedIsEmpty
=============================================================================
