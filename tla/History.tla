------------------------------- MODULE History -------------------------------
(***************************************************************************)
(* The imaging history that factory restore keeps on the recovery volume   *)
(* (pkg/recovery/history) and the disk tag (pkg/disktag) under which an    *)
(* image is recorded.                                                      *)
(*                                                                         *)
(* The history is a list of entries, most recently updated first.  It is   *)
(* read into the package variable `results` by Load, updated there by      *)
(* RebootHook (every end of a factory restore) and by RecordBootState (the *)
(* booted system), and written back as a whole.  ioutil.WriteFile          *)
(* truncates the file before it writes: a process that dies in between     *)
(* leaves a file that does not parse.                                      *)
(*                                                                         *)
(* Attempt counts and notes are written by the code but never read; they   *)
(* are left out.                                                           *)
(***************************************************************************)
EXTENDS Naturals, Sequences

CONSTANTS
  Images,             \* disk tags that carry the image prefix
  OddNames,           \* names without the prefix (the empty one, a wrong tag)
  UnknownImage,       \* the literal "ERROR UNKNOWN IMAGE"
  NoImage,            \* no image: the empty disk tag
  MaxFailuresPerImg,  \* largest tolerated sum of failures
  Severities,         \* severities the booted system may report
  CountCap            \* bound: a failure count stays at this value

ASSUME HistoryAssumption ==
  /\ Images # {} /\ UnknownImage \notin Images /\ NoImage \notin Images
  /\ Images \cap OddNames = {}
  /\ MaxFailuresPerImg \in Nat
  /\ CountCap \in Nat /\ MaxFailuresPerImg < CountCap
  /\ Severities \subseteq Nat

VARIABLES
  results,   \* the list in memory
  histFile,  \* the file: its state and, when it parses, its list
  loaded     \* this process has called Load

historyVars == <<results, histFile, loaded>>

Names == Images \cup OddNames \cup {UnknownImage}
ImageResult ==
  [image : Names, imagingFailures : 0 .. CountCap, bootFailures : 0 .. CountCap]
FileState == {"absent", "parses", "truncated"}

Absent     == [state |-> "absent", list |-> <<>>]
Truncated  == [state |-> "truncated", list |-> <<>>]
Parses(rl) == [state |-> "parses", list |-> rl]

-----------------------------------------------------------------------------
(* The list. *)

HasEntry(rl, n) == \E i \in DOMAIN rl : rl[i].image = n

\* Index of n's entry, or one past the end.
Position(rl, n) ==
  IF HasEntry(rl, n) THEN CHOOSE i \in DOMAIN rl : rl[i].image = n
                     ELSE Len(rl) + 1

NewEntry(n) == [image |-> n, imagingFailures |-> 0, bootFailures |-> 0]
Entry(rl, n) == IF HasEntry(rl, n) THEN rl[Position(rl, n)] ELSE NewEntry(n)

\* Mutants of moveOrAddFront: overwrites the first entry; inserts without
\* removing; leaves the slot that the removal freed.
DropPassed(rl, item) == IF rl = <<>> THEN <<item>> ELSE [rl EXCEPT ![1] = item]
InsertFront(rl, item) == <<item>> \o rl
LeaveSlot(rl, item) ==
  LET others == [k \in 1 .. Len(rl) |->
                   IF HasEntry(rl, item.image) /\ k >= Position(rl, item.image)
                   THEN IF k < Len(rl) THEN rl[k + 1]
                        ELSE [image |-> "nil", imagingFailures |-> 0, bootFailures |-> 0]
                   ELSE rl[k]]
  IN  <<item>> \o others

\* The entry moves from its position, or from nowhere, to the front; the
\* entries it passes shift by one and the rest keep their places.
MoveOrAddFront(rl, item) ==
  LET p == Position(rl, item.image)
  IN  [k \in 1 .. (IF p > Len(rl) THEN p ELSE Len(rl)) |->
         IF k = 1 THEN item ELSE IF k <= p THEN rl[k - 1] ELSE rl[k]]

Plus(n, by) == IF n + by > CountCap THEN CountCap ELSE n + by
Failures(rl, n) == Entry(rl, n).imagingFailures + Entry(rl, n).bootFailures

\* Mutant: the history is consulted to no effect.
CheckNothing(rl, n) == TRUE

Check(rl, n) == HasEntry(rl, n) => Failures(rl, n) <= MaxFailuresPerImg

\* The list after a factory restore of `tag` ended.
AfterRestore(rl, tag, success) ==
  LET n == IF tag = NoImage THEN UnknownImage ELSE tag
      e == Entry(rl, n)
  IN  MoveOrAddFront(rl, IF success THEN e
                         ELSE [e EXCEPT !.imagingFailures = Plus(@, 1)])

\* Mutant: every name is taken for a valid image.
BootTargetAsGiven(rl, n) == n

\* The entry a boot report is charged to: an unknown name without the image
\* prefix stands for the first entry, if there is one.
BootTarget(rl, n) ==
  IF HasEntry(rl, n) \/ n \in Images \/ rl = <<>> THEN n ELSE rl[1].image

AfterBoot(rl, n, success, severity) ==
  LET e == Entry(rl, BootTarget(rl, n))
      s == IF severity < 1 THEN 1 ELSE severity
  IN  MoveOrAddFront(rl, IF success THEN e
                         ELSE [e EXCEPT !.bootFailures = Plus(@, s)])

-----------------------------------------------------------------------------
(* The operations. *)

HistoryInit == results = <<>> /\ histFile = Absent /\ loaded = FALSE

\* A file that does not parse is renamed out of the way; `results` keeps what
\* it held, as it does when there is no file or the file cannot be read.
LoadFile ==
  \/ /\ histFile.state = "parses"
     /\ results' = histFile.list /\ loaded' = TRUE /\ UNCHANGED histFile
  \/ /\ histFile.state = "absent"
     /\ loaded' = TRUE /\ UNCHANGED <<results, histFile>>
  \/ /\ histFile.state = "truncated"
     /\ histFile' = Absent /\ loaded' = TRUE /\ UNCHANGED results

\* The caller does not look at the result of a Load that failed.
LoadUnreadable ==
  histFile.state # "absent" /\ loaded' = TRUE /\ UNCHANGED <<results, histFile>>

Rollover == histFile' = Absent /\ UNCHANGED <<results, loaded>>

\* The list changes and the file is opened for writing, which empties it;
\* FinishWrite is the write itself.
RebootHook(tag, success) ==
  /\ results' = AfterRestore(results, tag, success)
  /\ histFile' = Truncated
  /\ UNCHANGED loaded

\* RecordBootState loads first: it starts from the file when that is readable,
\* otherwise from the list in memory.
Readable == IF histFile.state = "parses" THEN histFile.list ELSE results

RecordBootState(current, n, success, severity) ==
  /\ results' = AfterBoot(current, n, success, severity)
  /\ histFile' = Truncated
  /\ loaded' = TRUE

FinishWrite == histFile' = Parses(results) /\ UNCHANGED <<results, loaded>>

\* A new process starts with an empty list.
Forget == results' = <<>> /\ loaded' = FALSE /\ UNCHANGED histFile

-----------------------------------------------------------------------------
HistoryTypeOK ==
  /\ results \in Seq(ImageResult)
  /\ histFile \in [state : FileState, list : Seq(ImageResult)]
  /\ loaded \in BOOLEAN

Unique(rl) ==
  \A i, j \in DOMAIN rl : rl[i].image = rl[j].image => i = j

(* No image has two entries, in memory or on disk: Check, RebootHook and    *)
(* RecordBootState each stop at one entry (the first or the last), so a     *)
(* second one would split an image's failures between them.                 *)
UniqueEntries == Unique(results) /\ Unique(histFile.list)
=============================================================================
