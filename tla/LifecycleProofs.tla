--------------------------- MODULE LifecycleProofs ---------------------------
(***************************************************************************)
(* The imaging history first, for any images, names and limits, any number *)
(* of processes and deaths: the history is well formed, no image has two   *)
(* entries, and no image loses failures while a process runs.  It begins   *)
(* with lemmas on what the operators on the history preserve, for lists of *)
(* any length; both parts rest on them.                                    *)
(*                                                                         *)
(* Then, for any images, recovery volume, fault and outage budgets: the    *)
(* flag file is only ever on a complete system, and init and factory       *)
(* restore implement Appliance.  The argument is the invariant IInv of     *)
(* Lifecycle: what has been done to the file system is a function of where *)
(* the restore stands, and nothing but SetFlag creates the flag file.      *)
(***************************************************************************)
EXTENDS Lifecycle, HistoryProc, TLAPS

(* The position of an image is that of an entry of it, or one past the end. *)
LEMMA PositionRange ==
  ASSUME NEW rl \in Seq(ImageResult), NEW n
  PROVE  /\ HasEntry(rl, n) => /\ Position(rl, n) \in 1 .. Len(rl)
                               /\ rl[Position(rl, n)].image = n
         /\ ~HasEntry(rl, n) => Position(rl, n) = Len(rl) + 1
<1>1. CASE HasEntry(rl, n)
  <2>1. Position(rl, n) = CHOOSE i \in DOMAIN rl : rl[i].image = n
    BY <1>1 DEF Position
  <2>2. \E i \in DOMAIN rl : rl[i].image = n
    BY <1>1 DEF HasEntry
  <2>3. Position(rl, n) \in DOMAIN rl /\ rl[Position(rl, n)].image = n
    BY <2>1, <2>2, Zenon
  <2> QED BY <1>1, <2>3
<1>2. CASE ~HasEntry(rl, n)
  BY <1>2 DEF Position
<1> QED BY <1>1, <1>2

(* The entry of an image, found or new, is a well-formed entry under its    *)
(* name.                                                                    *)
LEMMA EntryType ==
  ASSUME NEW rl \in Seq(ImageResult), NEW n \in Names
  PROVE  Entry(rl, n) \in ImageResult /\ Entry(rl, n).image = n
<1>1. CASE HasEntry(rl, n)
  BY <1>1, PositionRange DEF Entry
<1>2. CASE ~HasEntry(rl, n)
  <2>1. NewEntry(n) \in ImageResult
    BY HistoryAssumption DEF NewEntry, ImageResult
  <2>2. NewEntry(n).image = n
    BY DEF NewEntry
  <2> QED BY <1>2, <2>1, <2>2 DEF Entry
<1> QED BY <1>1, <1>2

(* moveOrAddFront returns a list of entries, with the item at the front.    *)
LEMMA MoveOrAddFrontType ==
  ASSUME NEW rl \in Seq(ImageResult), NEW item \in ImageResult
  PROVE  /\ MoveOrAddFront(rl, item) \in Seq(ImageResult)
         /\ Len(MoveOrAddFront(rl, item)) =
              IF HasEntry(rl, item.image) THEN Len(rl) ELSE Len(rl) + 1
         /\ MoveOrAddFront(rl, item)[1] = item
<1> DEFINE p == Position(rl, item.image)
           m == IF p > Len(rl) THEN p ELSE Len(rl)
           f(k) == IF k = 1 THEN item ELSE IF k <= p THEN rl[k - 1] ELSE rl[k]
<1>1. /\ Len(rl) \in Nat /\ p \in 1 .. Len(rl) + 1
      /\ p > Len(rl) <=> ~HasEntry(rl, item.image)
  BY PositionRange
<1>2. MoveOrAddFront(rl, item) = [k \in 1 .. m |-> f(k)]
  BY DEF MoveOrAddFront
<1> HIDE DEF p
<1>3. m \in Nat /\ m >= 1
  BY <1>1
<1>4. ASSUME NEW k \in 1 .. m PROVE f(k) \in ImageResult
  <2>1. CASE k = 1
    BY <2>1
  <2>2. CASE k # 1 /\ k <= p
    <3>1. k - 1 \in 1 .. Len(rl)
      BY <1>1, <2>2
    <3> QED BY <2>2, <3>1
  <2>3. CASE k # 1 /\ ~(k <= p)
    <3>1. k \in 1 .. Len(rl)
      BY <1>1, <2>3
    <3> QED BY <2>3, <3>1
  <2> QED BY <2>1, <2>2, <2>3
<1> HIDE DEF f
<1>5. [k \in 1 .. m |-> f(k)] \in Seq(ImageResult)
  BY <1>3, <1>4
<1>6. Len([k \in 1 .. m |-> f(k)]) = m
  BY <1>3
<1>7. [k \in 1 .. m |-> f(k)][1] = f(1) /\ f(1) = item
  BY <1>3 DEF f
<1> QED BY <1>1, <1>2, <1>5, <1>6, <1>7

(* Where the entries of the new list come from: the item, an entry before   *)
(* the item's old position, or one after it.                                *)
LEMMA MoveOrAddFrontAt ==
  ASSUME NEW rl \in Seq(ImageResult), NEW item \in ImageResult,
         NEW k \in DOMAIN MoveOrAddFront(rl, item), k # 1
  PROVE  LET p == Position(rl, item.image)
         IN  IF k <= p
             THEN k - 1 \in 1 .. Len(rl) /\ k - 1 < p
                  /\ MoveOrAddFront(rl, item)[k] = rl[k - 1]
             ELSE k \in 1 .. Len(rl) /\ MoveOrAddFront(rl, item)[k] = rl[k]
<1> DEFINE p == Position(rl, item.image)
           m == IF p > Len(rl) THEN p ELSE Len(rl)
<1>1. Len(rl) \in Nat /\ p \in 1 .. Len(rl) + 1
  BY PositionRange
<1>2. k \in 1 .. m
  BY <1>1 DEF MoveOrAddFront
<1>3. MoveOrAddFront(rl, item)[k] = IF k <= p THEN rl[k - 1] ELSE rl[k]
  BY <1>2 DEF MoveOrAddFront
<1> HIDE DEF p
<1>4. IF k <= p THEN k - 1 \in 1 .. Len(rl) /\ k - 1 < p
                ELSE k \in 1 .. Len(rl)
  BY <1>1, <1>2
<1> QED BY <1>3, <1>4 DEF p

(* Nothing but the item is kept under the item's name.                      *)
LEMMA MoveOrAddFrontOthers ==
  ASSUME NEW rl \in Seq(ImageResult), Unique(rl), NEW item \in ImageResult,
         NEW k \in DOMAIN MoveOrAddFront(rl, item), k # 1
  PROVE  MoveOrAddFront(rl, item)[k].image # item.image
<1> DEFINE p == Position(rl, item.image)
<1>1. ASSUME NEW i \in 1 .. Len(rl), i # p PROVE rl[i].image # item.image
  BY <1>1, PositionRange DEF Unique, HasEntry
<1>2. Len(rl) \in Nat /\ p \in 1 .. Len(rl) + 1
  BY PositionRange
<1>3. CASE k <= p
  <2>1. k - 1 \in 1 .. Len(rl) /\ k - 1 # p /\ MoveOrAddFront(rl, item)[k] = rl[k - 1]
    BY <1>2, <1>3, MoveOrAddFrontAt
  <2> QED BY <1>1, <2>1
<1>4. CASE ~(k <= p)
  <2>1. k \in 1 .. Len(rl) /\ k # p /\ MoveOrAddFront(rl, item)[k] = rl[k]
    BY <1>2, <1>4, MoveOrAddFrontAt
  <2> QED BY <1>1, <2>1
<1> QED BY <1>3, <1>4

(* moveOrAddFront keeps the entries unique.                                 *)
LEMMA MoveOrAddFrontUnique ==
  ASSUME NEW rl \in Seq(ImageResult), Unique(rl), NEW item \in ImageResult
  PROVE  Unique(MoveOrAddFront(rl, item))
<1> DEFINE new == MoveOrAddFront(rl, item)
           p == Position(rl, item.image)
<1>1. DOMAIN new \subseteq Nat /\ new[1] = item
  <2>1. new \in Seq(ImageResult) /\ new[1] = item
    BY MoveOrAddFrontType
  <2> HIDE DEF new
  <2> QED BY <2>1
<1>2. Len(rl) \in Nat /\ p \in 1 .. Len(rl) + 1
  BY PositionRange
<1>3. SUFFICES ASSUME NEW i \in DOMAIN new, NEW j \in DOMAIN new,
                      new[i].image = new[j].image, i # j
               PROVE  FALSE
  BY DEF Unique
<1>4. i # 1 /\ j # 1
  BY <1>1, <1>3, MoveOrAddFrontOthers
<1>5. PICK a \in 1 .. Len(rl) :
        new[i] = rl[a] /\ a = IF i <= p THEN i - 1 ELSE i
  BY <1>4, MoveOrAddFrontAt
<1>6. PICK b \in 1 .. Len(rl) :
        new[j] = rl[b] /\ b = IF j <= p THEN j - 1 ELSE j
  BY <1>4, MoveOrAddFrontAt
<1> HIDE DEF new, p
<1>7. i \in Nat /\ j \in Nat
  BY <1>1
<1>8. a # b
  BY <1>2, <1>3, <1>5, <1>6, <1>7
<1> QED BY <1>3, <1>5, <1>6, <1>8 DEF Unique

(* The image at the front of the new list has the item as its entry, every  *)
(* other image the entry it had.                                            *)
LEMMA MoveOrAddFrontEntry ==
  ASSUME NEW rl \in Seq(ImageResult), Unique(rl), NEW item \in ImageResult, NEW n
  PROVE  Entry(MoveOrAddFront(rl, item), n) =
           IF n = item.image THEN item ELSE Entry(rl, n)
<1> DEFINE new == MoveOrAddFront(rl, item)
           p == Position(rl, item.image)
<1>1. new \in Seq(ImageResult) /\ Unique(new) /\ new[1] = item /\ 1 \in 1 .. Len(new)
  <2>1. Len(rl) \in Nat /\ (HasEntry(rl, item.image) => Len(rl) >= 1)
    BY PositionRange
  <2> QED BY <2>1, MoveOrAddFrontType, MoveOrAddFrontUnique
<1>2. \A k \in DOMAIN new : new[k].image = n => Entry(new, n) = new[k]
  <2> HIDE DEF new
  <2> QED BY <1>1, PositionRange DEF Entry, HasEntry, Unique
<1>3. CASE n = item.image
  <2>1. Entry(new, n) = item
    <3> HIDE DEF new
    <3> QED BY <1>1, <1>2, <1>3
  <2> QED BY <1>3, <2>1
<1>4. CASE n # item.image /\ HasEntry(rl, n)
  <2> DEFINE i == Position(rl, n)
             k == IF i < p THEN i + 1 ELSE i
  <2>1. i \in 1 .. Len(rl) /\ rl[i].image = n /\ Entry(rl, n) = rl[i]
    BY <1>4, PositionRange DEF Entry
  <2>2. p \in 1 .. Len(rl) + 1 /\ (p \in 1 .. Len(rl) => rl[p].image = item.image)
    BY PositionRange
  <2> HIDE DEF i, p
  <2>3. i # p /\ Len(rl) \in Nat
    BY <1>4, <2>1, <2>2
  <2>4. k \in 1 .. (IF p > Len(rl) THEN p ELSE Len(rl)) /\ k # 1
    BY <2>1, <2>2, <2>3
  <2>5. new[k] = IF k <= p THEN rl[k - 1] ELSE rl[k]
    BY <2>4 DEF MoveOrAddFront, p
  <2>6. new[k] = rl[i]
    BY <2>1, <2>2, <2>3, <2>5
  <2>7. k \in DOMAIN new
    BY <2>4 DEF MoveOrAddFront, p
  <2>8. Entry(new, n) = rl[i]
    <3> HIDE DEF new, k
    <3> QED BY <1>2, <2>1, <2>6, <2>7
  <2> QED BY <1>4, <2>1, <2>8
<1>5. CASE n # item.image /\ ~HasEntry(rl, n)
  <2>1. ASSUME NEW k \in DOMAIN new PROVE new[k].image # n
    <3>1. CASE k = 1
      BY <1>1, <1>5, <3>1
    <3>2. CASE k # 1
      BY <1>5, <3>2, MoveOrAddFrontAt DEF HasEntry
    <3> QED BY <3>1, <3>2
  <2>2. ~HasEntry(new, n)
    BY <2>1 DEF HasEntry
  <2> QED BY <1>5, <2>2 DEF Entry
<1> QED BY <1>3, <1>4, <1>5

-----------------------------------------------------------------------------
(* The two updates of the list. *)

\* The list results starts as (history.go:34-38) is well formed and without duplicates.
LEMMA EmptyList == <<>> \in Seq(ImageResult) /\ Unique(<<>>)
BY DEF Unique

(* A count never goes down.                                                 *)
LEMMA PlusType ==
  ASSUME NEW n \in 0 .. CountCap, NEW by \in Nat
  PROVE  Plus(n, by) \in 0 .. CountCap /\ Plus(n, by) >= n
BY HistoryAssumption DEF Plus

(* An entry put at the front by way of moveOrAddFront, with no fewer        *)
(* failures than it had, leaves a well-formed list in which no image lost   *)
(* failures.                                                                *)
LEMMA UpdateKeeps ==
  ASSUME NEW rl \in Seq(ImageResult), Unique(rl), NEW m \in Names,
         NEW item \in ImageResult, item.image = m,
         item.imagingFailures >= Entry(rl, m).imagingFailures,
         item.bootFailures >= Entry(rl, m).bootFailures
  PROVE  /\ MoveOrAddFront(rl, item) \in Seq(ImageResult)
         /\ Unique(MoveOrAddFront(rl, item))
         /\ \A n \in Names :
              Failures(MoveOrAddFront(rl, item), n) >= Failures(rl, n)
<1> DEFINE new == MoveOrAddFront(rl, item)
<1>1. new \in Seq(ImageResult) /\ Unique(new)
  BY MoveOrAddFrontType, MoveOrAddFrontUnique
<1>2. \A n \in Names : Entry(new, n) = IF n = m THEN item ELSE Entry(rl, n)
  BY MoveOrAddFrontEntry
<1> HIDE DEF new
<1>3. ASSUME NEW n \in Names PROVE Failures(new, n) >= Failures(rl, n)
  <2>1. Entry(rl, n) \in ImageResult
    BY EntryType
  <2>2. /\ Entry(rl, n).imagingFailures \in Nat /\ Entry(rl, n).bootFailures \in Nat
        /\ item.imagingFailures \in Nat /\ item.bootFailures \in Nat
    BY <2>1, HistoryAssumption DEF ImageResult
  <2> QED BY <1>2, <2>2 DEF Failures
<1> QED BY <1>1, <1>3 DEF new

(* RebootHook.                                                              *)
LEMMA AfterRestoreKeeps ==
  ASSUME NEW rl \in Seq(ImageResult), Unique(rl),
         NEW tag \in Images \cup {NoImage}, NEW success \in BOOLEAN
  PROVE  /\ AfterRestore(rl, tag, success) \in Seq(ImageResult)
         /\ Unique(AfterRestore(rl, tag, success))
         /\ \A n \in Names :
              Failures(AfterRestore(rl, tag, success), n) >= Failures(rl, n)
<1> DEFINE m == IF tag = NoImage THEN UnknownImage ELSE tag
           e == Entry(rl, m)
           item == IF success THEN e ELSE [e EXCEPT !.imagingFailures = Plus(@, 1)]
<1>1. m \in Names
  BY DEF Names
<1>2. e \in ImageResult /\ e.image = m
  BY <1>1, EntryType
<1>3. AfterRestore(rl, tag, success) = MoveOrAddFront(rl, item)
  BY DEF AfterRestore
<1> HIDE DEF m
<1>4. e.imagingFailures \in 0 .. CountCap /\ e.bootFailures \in Nat
  BY <1>2, HistoryAssumption DEF ImageResult
<1>5. item \in ImageResult /\ item.image = m
      /\ item.imagingFailures >= e.imagingFailures /\ item.bootFailures >= e.bootFailures
  <2> HIDE DEF e
  <2>1. /\ Plus(e.imagingFailures, 1) \in 0 .. CountCap
        /\ Plus(e.imagingFailures, 1) >= e.imagingFailures
    BY <1>4, PlusType
  <2> QED BY <1>2, <1>4, <2>1 DEF ImageResult
<1> HIDE DEF item
<1> QED BY <1>1, <1>3, <1>5, UpdateKeeps DEF e

(* RecordBootState.                                                         *)
LEMMA AfterBootKeeps ==
  ASSUME NEW rl \in Seq(ImageResult), Unique(rl),
         NEW name \in Images \cup OddNames, NEW success \in BOOLEAN,
         NEW severity \in Nat
  PROVE  /\ AfterBoot(rl, name, success, severity) \in Seq(ImageResult)
         /\ Unique(AfterBoot(rl, name, success, severity))
         /\ \A n \in Names :
              Failures(AfterBoot(rl, name, success, severity), n) >= Failures(rl, n)
<1> DEFINE m == BootTarget(rl, name)
           e == Entry(rl, m)
           s == IF severity < 1 THEN 1 ELSE severity
           item == IF success THEN e ELSE [e EXCEPT !.bootFailures = Plus(@, s)]
<1>1. m \in Names
  <2>1. CASE HasEntry(rl, name) \/ name \in Images \/ rl = <<>>
    BY <2>1 DEF BootTarget, Names
  <2>2. CASE ~(HasEntry(rl, name) \/ name \in Images \/ rl = <<>>)
    <3>1. rl[1] \in ImageResult
      BY <2>2
    <3> QED BY <2>2, <3>1 DEF BootTarget, ImageResult
  <2> QED BY <2>1, <2>2
<1>2. e \in ImageResult /\ e.image = m
  BY <1>1, EntryType
<1>3. AfterBoot(rl, name, success, severity) = MoveOrAddFront(rl, item)
  BY DEF AfterBoot
<1> HIDE DEF m
<1>4. e.bootFailures \in 0 .. CountCap /\ e.imagingFailures \in Nat
  BY <1>2, HistoryAssumption DEF ImageResult
<1>5. item \in ImageResult /\ item.image = m
      /\ item.imagingFailures >= e.imagingFailures /\ item.bootFailures >= e.bootFailures
  <2>1. s \in Nat
    OBVIOUS
  <2> HIDE DEF e, s
  <2>2. /\ Plus(e.bootFailures, s) \in 0 .. CountCap
        /\ Plus(e.bootFailures, s) >= e.bootFailures
    BY <1>4, <2>1, PlusType
  <2> QED BY <1>2, <1>4, <2>2 DEF ImageResult
<1> HIDE DEF item
<1> QED BY <1>1, <1>3, <1>5, UpdateKeeps DEF e

(* A boot report makes a new entry only for an image, or in an empty list.  *)
LEMMA AfterBootNewEntry ==
  ASSUME NEW rl \in Seq(ImageResult), Unique(rl),
         NEW name \in Images \cup OddNames, NEW success \in BOOLEAN,
         NEW severity \in Nat,
         NEW n \in Names, n \notin Images,
         HasEntry(AfterBoot(rl, name, success, severity), n), ~HasEntry(rl, n)
  PROVE  Len(AfterBoot(rl, name, success, severity)) = 1
<1> DEFINE m == BootTarget(rl, name)
           e == Entry(rl, m)
           s == IF severity < 1 THEN 1 ELSE severity
           item == IF success THEN e ELSE [e EXCEPT !.bootFailures = Plus(@, s)]
           new == MoveOrAddFront(rl, item)
<1>1. AfterBoot(rl, name, success, severity) = new
  BY DEF AfterBoot
<1>2. m \in Names /\ (m = n => rl = <<>>)
  <2>1. CASE HasEntry(rl, name) \/ name \in Images \/ rl = <<>>
    BY <2>1 DEF BootTarget, Names
  <2>2. CASE ~(HasEntry(rl, name) \/ name \in Images \/ rl = <<>>)
    <3>1. rl[1] \in ImageResult /\ 1 \in DOMAIN rl
      BY <2>2
    <3> QED BY <2>2, <3>1 DEF BootTarget, ImageResult, HasEntry
  <2> QED BY <2>1, <2>2
<1>3. e \in ImageResult /\ e.image = m
  BY <1>2, EntryType
<1> HIDE DEF m
<1>4. item \in ImageResult /\ item.image = m
  <2>1. e.bootFailures \in 0 .. CountCap /\ s \in Nat
    BY <1>3 DEF ImageResult
  <2> HIDE DEF e, s
  <2> QED BY <1>3, <2>1, PlusType DEF ImageResult
<1> HIDE DEF item
<1>5. PICK k \in DOMAIN new : new[k].image = n
  BY <1>1 DEF HasEntry
<1>6. CASE k = 1
  <2>1. rl = <<>>
    BY <1>2, <1>4, <1>5, <1>6, MoveOrAddFrontType
  <2>2. ~HasEntry(rl, item.image) /\ Len(rl) = 0
    BY <2>1 DEF HasEntry
  <2>3. Len(new) = IF HasEntry(rl, item.image) THEN Len(rl) ELSE Len(rl) + 1
    BY <1>4, MoveOrAddFrontType
  <2> HIDE DEF new
  <2> QED BY <1>1, <2>2, <2>3
<1>7. CASE k # 1
  <2>1. \E j \in 1 .. Len(rl) : new[k] = rl[j]
    BY <1>4, <1>7, MoveOrAddFrontAt
  <2> QED BY <1>5, <2>1 DEF HasEntry
<1> QED BY <1>6, <1>7

-----------------------------------------------------------------------------
(* The operations: each of them leaves a well-formed history without a      *)
(* second entry for any image.                                              *)

HistoryOK == HistoryTypeOK /\ UniqueEntries

\* A unit as delivered: no history file and an empty results list.
LEMMA InitOK == HistoryInit => HistoryOK
<1> SUFFICES ASSUME HistoryInit PROVE HistoryOK
  OBVIOUS
<1>1. results = <<>> /\ loaded = FALSE /\ histFile = [state |-> "absent", list |-> <<>>]
  BY DEF HistoryInit, Absent
<1>2. histFile.list = <<>> /\ histFile.state = "absent"
  BY <1>1
<1> QED
  BY <1>1, <1>2, EmptyList DEF HistoryOK, HistoryTypeOK, UniqueEntries, FileState

\* Load (history.go:80-110): every outcome of reading and parsing the file.
LEMMA LoadFileOK == HistoryOK /\ LoadFile => HistoryOK'
<1> SUFFICES ASSUME HistoryOK, LoadFile PROVE HistoryOK'
  OBVIOUS
<1> USE DEF HistoryOK, HistoryTypeOK, UniqueEntries, FileState
<1>1. results' \in {results, histFile.list} /\ loaded' = TRUE
  BY DEF LoadFile
<1>2. CASE histFile' = histFile
  BY <1>1, <1>2
<1>3. CASE histFile' = [state |-> "absent", list |-> <<>>]
  <2>1. histFile'.list = <<>> /\ histFile'.state = "absent"
    BY <1>3
  <2> QED BY <1>1, <1>3, <2>1, EmptyList
<1> QED BY <1>2, <1>3 DEF LoadFile, Absent

\* Load when the file cannot be read (history.go:85-100).
LEMMA LoadUnreadableOK == HistoryOK /\ LoadUnreadable => HistoryOK'
BY DEF HistoryOK, HistoryTypeOK, UniqueEntries, LoadUnreadable

\* Rollover (history.go:65-78) moves the file away and leaves results alone.
LEMMA RolloverOK == HistoryOK /\ Rollover => HistoryOK'
<1> SUFFICES ASSUME HistoryOK, Rollover PROVE HistoryOK'
  OBVIOUS
<1>1. histFile' = [state |-> "absent", list |-> <<>>]
  BY DEF Rollover, Absent
<1>2. histFile'.list = <<>> /\ histFile'.state = "absent"
  BY <1>1
<1> QED
  BY <1>1, <1>2, EmptyList DEF HistoryOK, HistoryTypeOK, UniqueEntries, FileState, Rollover

\* RebootHook (history.go:180-213): results is the file with the entry added or moved.
LEMMA RebootHookOK ==
  ASSUME HistoryOK, NEW tag \in Images \cup {NoImage}, NEW success \in BOOLEAN,
         RebootHook(tag, success)
  PROVE  HistoryOK'
<1>1. results' \in Seq(ImageResult) /\ Unique(results')
  BY AfterRestoreKeeps DEF RebootHook, HistoryOK, HistoryTypeOK, UniqueEntries
<1>2. histFile' = [state |-> "truncated", list |-> <<>>] /\ loaded' = loaded
  BY DEF RebootHook, Truncated
<1>3. histFile'.list = <<>> /\ histFile'.state = "truncated"
  BY <1>2
<1> QED
  BY <1>1, <1>2, <1>3, EmptyList DEF HistoryOK, HistoryTypeOK, UniqueEntries, FileState

\* RecordBootState (history.go:122-164), the report of the booted system.
LEMMA RecordBootStateOK ==
  ASSUME HistoryOK, NEW current \in {Readable, results},
         NEW n \in Images \cup OddNames, NEW success \in BOOLEAN,
         NEW s \in Severities, RecordBootState(current, n, success, s)
  PROVE  HistoryOK'
<1>1. current \in Seq(ImageResult) /\ Unique(current) /\ s \in Nat
  BY HistoryAssumption DEF Readable, HistoryOK, HistoryTypeOK, UniqueEntries
<1>2. results' \in Seq(ImageResult) /\ Unique(results')
  BY <1>1, AfterBootKeeps DEF RecordBootState
<1>3. histFile' = [state |-> "truncated", list |-> <<>>] /\ loaded' = TRUE
  BY DEF RecordBootState, Truncated
<1>4. histFile'.list = <<>> /\ histFile'.state = "truncated"
  BY <1>3
<1> QED
  BY <1>2, <1>3, <1>4, EmptyList DEF HistoryOK, HistoryTypeOK, UniqueEntries, FileState

\* write (history.go:166-178): the file holds the list that was in memory.
LEMMA FinishWriteOK == HistoryOK /\ FinishWrite => HistoryOK'
BY DEF HistoryOK, HistoryTypeOK, UniqueEntries, FileState, FinishWrite, Parses

\* The process that held results is gone; the file stays.
LEMMA ForgetOK == HistoryOK /\ Forget => HistoryOK'
BY EmptyList DEF HistoryOK, HistoryTypeOK, UniqueEntries, Forget

\* Steps of other parts leave the history alone.
LEMMA UnchangedOK == HistoryOK /\ UNCHANGED historyVars => HistoryOK'
BY DEF HistoryOK, HistoryTypeOK, UniqueEntries, historyVars

-----------------------------------------------------------------------------
(* The processes that use the history. *)

(* Every operation keeps the invariant.                                     *)
LEMMA InitProcInv == ProcInit => ProcInv
BY InitOK DEF ProcInit, HistoryInit, HistoryOK, ProcInv, ProcTypeOK, UnloadedIsEmpty

\* Every step of the restore and of the booted system keeps the invariant.
LEMMA NextProcInv == ProcInv /\ [ProcNext]_procVars => ProcInv'
<1> DEFINE ProcOK == /\ process \in {"none", "restore", "system", "writing"}
                     /\ diskTag \in Images \cup {NoImage}
                     /\ UnloadedIsEmpty
<1> SUFFICES ASSUME HistoryOK, ProcOK, [ProcNext]_procVars PROVE HistoryOK' /\ ProcOK'
  BY DEF ProcInv, ProcTypeOK, HistoryOK
<1> USE DEF UnloadedIsEmpty
<1>1. ASSUME NEW p \in {"restore", "system"}, Start(p) PROVE HistoryOK' /\ ProcOK'
  <2>1. HistoryOK'
    BY <1>1, ForgetOK DEF Start
  <2> QED BY <1>1, <2>1 DEF Start, Forget
<1>2. CASE Load
  <2>1. HistoryOK'
    BY <1>2, LoadFileOK, LoadUnreadableOK DEF Load
  <2>2. loaded' = TRUE
    BY <1>2 DEF Load, LoadFile, LoadUnreadable
  <2> QED BY <1>2, <2>1, <2>2 DEF Load
<1>3. CASE ClearHistory
  <2>1. HistoryOK'
    BY <1>3, RolloverOK DEF ClearHistory
  <2> QED BY <1>3, <2>1 DEF ClearHistory, Rollover
<1>4. CASE ChooseImage
  BY <1>4, UnchangedOK DEF ChooseImage, historyVars
<1>5. CASE EndRestore
  <2>1. HistoryOK'
    BY <1>5, RebootHookOK DEF EndRestore
  <2> QED BY <1>5, <2>1 DEF EndRestore
<1>6. CASE BootReport
  <2>1. HistoryOK'
    BY <1>6, RecordBootStateOK DEF BootReport
  <2> QED BY <1>6, <2>1 DEF BootReport
<1>7. CASE Written
  <2>1. HistoryOK'
    BY <1>7, FinishWriteOK DEF Written
  <2> QED BY <1>7, <2>1 DEF Written
<1>8. CASE Die
  BY <1>8, UnchangedOK DEF Die, historyVars
<1>9. CASE UNCHANGED procVars
  BY <1>9, UnchangedOK DEF procVars, historyVars
<1> QED
  BY <1>1, <1>2, <1>3, <1>4, <1>5, <1>6, <1>7, <1>8, <1>9 DEF ProcNext

(* The history keeps its shape through every process and every death: the   *)
(* list in memory and the file Load decodes.                                *)
THEOREM HistoryTypeCorrect == ProcSpec => []ProcTypeOK
<1>1. ProcInv => ProcTypeOK
  BY DEF ProcInv
<1> QED BY <1>1, InitProcInv, NextProcInv, PTL DEF ProcSpec

(* No image has two entries, so that Check sees all of an image's failures. *)
THEOREM HistoryUnique == ProcSpec => []UniqueEntries
<1>1. ProcInv => UniqueEntries
  BY DEF ProcInv
<1> QED BY <1>1, InitProcInv, NextProcInv, PTL DEF ProcSpec

(* Load, RebootHook and RecordBootState never give an image back a failure. *)
THEOREM HistoryMonotonic == ProcSpec => FailuresNeverDrop
<1> DEFINE Kept == \A n \in Names : Failures(results', n) >= Failures(results, n)
<1>1. ASSUME ProcInv PROVE \A n \in Names : Failures(results, n) \in Nat
  <2>1. ASSUME NEW n \in Names PROVE Entry(results, n) \in ImageResult
    BY <1>1, EntryType DEF ProcInv, ProcTypeOK, HistoryTypeOK
  <2> QED BY <2>1, HistoryAssumption DEF Failures, ImageResult
<1>2. ASSUME ProcInv' PROVE \A n \in Names : Failures(results', n) \in Nat
  <2>1. ASSUME NEW n \in Names PROVE Entry(results', n) \in ImageResult
    BY <1>2, EntryType DEF ProcInv, ProcTypeOK, HistoryTypeOK
  <2> QED BY <2>1, HistoryAssumption DEF Failures, ImageResult
<1>3. ASSUME results = <<>> PROVE \A n \in Names : Failures(results, n) = 0
  BY <1>3 DEF Failures, Entry, HasEntry, NewEntry
<1>4. ASSUME ProcInv, [ProcNext]_procVars, process # "none" PROVE Kept
  <2>1. \A n \in Names : Failures(results, n) \in Nat /\ Failures(results', n) \in Nat
    BY <1>1, <1>2, <1>4, NextProcInv
  <2>2. CASE results' = results
    BY <2>1, <2>2
  <2>3. CASE Load
    <3>1. results = <<>>
      BY <1>4, <2>3 DEF ProcInv, UnloadedIsEmpty, Load
    <3> QED BY <1>3, <2>1, <3>1
  <2>4. CASE EndRestore
    BY <1>4, <2>4, AfterRestoreKeeps DEF EndRestore, RebootHook, ProcInv, ProcTypeOK, HistoryTypeOK, UniqueEntries
  <2>5. CASE BootReport
    <3>1. results = <<>>
      BY <1>4, <2>5 DEF ProcInv, UnloadedIsEmpty, BootReport
    <3> QED BY <1>3, <2>1, <3>1
  <2>6. CASE ClearHistory \/ ChooseImage \/ Written \/ Die \/ UNCHANGED procVars
    BY <2>2, <2>6 DEF ClearHistory, Rollover, ChooseImage, Written, FinishWrite, Die, procVars
  <2> QED
    BY <1>4, <2>3, <2>4, <2>5, <2>6 DEF ProcNext, Start
<1>5. ProcInv /\ [ProcNext]_procVars => [process # "none" => Kept]_results
  BY <1>4
<1> QED BY <1>5, InitProcInv, NextProcInv, PTL DEF ProcSpec, FailuresNeverDrop

(* A boot report under a name that cannot be an image is charged to the     *)
(* image at the front, unless there is none.                                *)
THEOREM HistoryOddNames == ProcSpec => OddNamesAddNoEntry
<1> DEFINE Charged ==
      \A n \in OddNames :
        HasEntry(results', n) => HasEntry(histFile.list, n) \/ Len(results') = 1
<1>1. ASSUME ProcInv, [ProcNext]_procVars, process = "system" /\ process' = "writing" PROVE Charged
  <2>1. BootReport
    BY <1>1 DEF ProcNext, Start, Load, ClearHistory, ChooseImage, EndRestore, Written, Die, procVars
  <2>2. PICK name \in Images \cup OddNames, success \in BOOLEAN, s \in Severities,
             current \in {Readable, results} :
          results' = AfterBoot(current, name, success, s)
    BY <2>1 DEF BootReport, RecordBootState
  <2>3. results = <<>>
    BY <1>1 DEF ProcInv, UnloadedIsEmpty
  <2>4. /\ current \in Seq(ImageResult) /\ Unique(current) /\ s \in Nat
        /\ current \in {histFile.list, <<>>}
    BY <1>1, <2>3, HistoryAssumption
       DEF Readable, ProcInv, ProcTypeOK, HistoryTypeOK, UniqueEntries
  <2>5. ASSUME NEW n \in OddNames, HasEntry(results', n), Len(results') # 1
        PROVE  HasEntry(histFile.list, n)
    <3>1. n \in Names /\ n \notin Images
      BY HistoryAssumption DEF Names
    <3>2. HasEntry(current, n)
      BY <2>2, <2>4, <2>5, <3>1, AfterBootNewEntry
    <3>3. ~HasEntry(<<>>, n)
      BY DEF HasEntry
    <3> QED BY <2>4, <3>2, <3>3
  <2> QED BY <2>5
<1>2. ProcInv /\ [ProcNext]_procVars => [process = "system" /\ process' = "writing" => Charged]_results
  BY <1>1
<1> QED BY <1>2, InitProcInv, NextProcInv, PTL DEF ProcSpec, OddNamesAddNoEntry

-----------------------------------------------------------------------------
(* Init and factory restore. *)

\* A unit as delivered, before init (normal.go:35) has ever run.
LEMMA InitIInv == Init => IInv
<1> SUFFICES ASSUME Init PROVE IInv
  OBVIOUS
<1> USE DEF Init
<1>1. root = [formatted |-> FALSE, image |-> NoImage, done |-> {}, dirty |-> {},
              flag |-> FALSE, tag |-> NoImage, netRestored |-> FALSE]
  BY DEF Blank
<1>2. root \in Root /\ ~root.flag /\ root.dirty = {}
  BY <1>1 DEF Root
<1>3. mem \in [tag : Images \cup {NoImage}, hooked : BOOLEAN, efiles : EFiles,
               imgopt : {"", "oldest", "menu"}, frLoaded : BOOLEAN,
               fr : SUBSET FrOptions]
  BY DEF NoMemory, EFiles
<1>4. RecoveryTypeOK
  <2>1. frFile \in FrFile /\ netTar \in BOOLEAN
    BY RecoveryAssumption
  <2>2. faults \in 0 .. MaxFaults /\ outages \in 0 .. MaxOutages
    <3>1. MaxFaults \in Nat /\ MaxOutages \in Nat
      BY RecoveryAssumption
    <3>2. faults = MaxFaults /\ outages = MaxOutages
      OBVIOUS
    <3> QED BY <3>1, <3>2
  <2> QED BY <1>2, <1>3, <2>1, <2>2 DEF RecoveryTypeOK
<1> QED
  BY <1>2, <1>4 DEF IInv, BuildingInv, FlagInv, DoneInv, HookInv, Building, Extracted

(* The budgets stay within their bounds.                                    *)
LEMMA BudgetType ==
  ASSUME RecoveryTypeOK, Fault \/ NoFault
  PROVE  faults' \in 0 .. MaxFaults /\ outages' \in 0 .. MaxOutages
<1>1. MaxFaults \in Nat /\ MaxOutages \in Nat
  BY RecoveryAssumption
<1>2. faults \in 0 .. MaxFaults /\ outages \in 0 .. MaxOutages
  BY DEF RecoveryTypeOK
<1> QED BY <1>1, <1>2 DEF Fault, NoFault

(* A step done adds itself to root.done and changes nothing else that the   *)
(* invariant speaks of.                                                     *)
LEMMA DidType ==
  ASSUME root \in Root, NEW step \in Steps
  PROVE  /\ Did(step) \in Root
         /\ Did(step).done = root.done \cup {step}
         /\ Did(step).formatted = root.formatted /\ Did(step).flag = root.flag
         /\ Did(step).image = root.image /\ Did(step).tag = root.tag
         /\ ~WriteBack => Did(step).dirty = root.dirty
BY DEF Did, Root

(* What validation chooses from are images.                                 *)
LEMMA ChoicesAreImages ==
  ASSUME RecoveryTypeOK, NEW choices \in ChoiceLists, NEW i \in DOMAIN choices
  PROVE  choices[i] \in Images
<1>1. Newest \in Seq(Images)
  BY RecoveryAssumption
<1>2. CASE choices = <<mem.efiles>> /\ IsEmergency
  BY <1>2 DEF IsEmergency
<1>3. CASE choices = Newest
  BY <1>1, <1>3
<1>4. CASE choices = Reversed(Newest)
  <2>1. i \in 1 .. Len(Newest) /\ choices[i] = Newest[Len(Newest) + 1 - i]
    BY <1>4 DEF Reversed
  <2>2. Len(Newest) + 1 - i \in 1 .. Len(Newest)
    BY <1>1, <2>1
  <2> QED BY <1>1, <2>1, <2>2
<1>5. CASE \E k \in DOMAIN Newest : choices = <<Newest[k]>>
  BY <1>1, <1>5
<1> QED BY <1>2, <1>3, <1>4, <1>5 DEF ChoiceLists

(* A fatal error leaves the file system alone.                              *)
LEMMA FatalfKeeps ==
  IInv /\ Fatalf /\ (Fault \/ NoFault) /\ (mem.hooked \/ mem.tag = NoImage) => IInv'
BY BudgetType
   DEF IInv, RecoveryTypeOK, BuildingInv, FlagInv, DoneInv, HookInv, Building,
       Extracted, Fatalf

(* A new or emptied file system has no flag file and nothing to lose.       *)
LEMMA BlankAndFresh ==
  /\ Blank \in Root /\ ~Blank.flag /\ Blank.dirty = {}
  /\ Fresh \in Root /\ ~Fresh.flag /\ Fresh.dirty = {} /\ Fresh.done = {}
  /\ Fresh.formatted /\ Fresh.tag = NoImage
BY DEF Blank, Fresh, Root

\* Every step of init, recovery.rmain and the booted system keeps the invariant.
LEMMA NextIInv == IInv /\ [Next]_vars => IInv'
<1> SUFFICES ASSUME IInv, [Next]_vars PROVE IInv'
  OBVIOUS
<1> USE DEF IInv, RecoveryTypeOK, BuildingInv, FlagInv, DoneInv, HookInv, Building, Extracted,
            DoneBefore, Steps
<1>1. CASE Setup
  BY <1>1, BudgetType DEF Setup, Fatalf
<1>2. CASE CheckForEmergency
  BY <1>2, BudgetType DEF CheckForEmergency
<1>3. CASE HandleFrData
  BY <1>3, BudgetType DEF HandleFrData, FrFile, FrOptions
<1>4. CASE FindValidUpd
  <2>1. CASE (pc' = "failed" /\ UNCHANGED mem) \/ CancelImageMenu
    BY <1>4, <2>1, BudgetType DEF FindValidUpd, CancelImageMenu
  <2>2. CASE \E choices \in ChoiceLists : \E i \in DOMAIN choices :
               /\ pc' = "partition"
               /\ mem' = [mem EXCEPT !.tag = choices[i]]
    <3>1. PICK img \in Images : mem' = [mem EXCEPT !.tag = img]
      BY <2>2, ChoicesAreImages
    <3>2. pc = "select" /\ pc' = "partition" /\ UNCHANGED <<root, frFile, netTar>>
      BY <1>4, <2>2 DEF FindValidUpd
    <3>3. faults' \in 0 .. MaxFaults /\ outages' \in 0 .. MaxOutages
      BY <1>4, BudgetType DEF FindValidUpd
    <3> QED BY <3>1, <3>2, <3>3
  <2>3. \/ CancelImageMenu
        \/ \E choices \in ChoiceLists :
             \/ pc' = "failed" /\ UNCHANGED mem
             \/ \E i \in Usable(results', choices) :
                  pc' = "partition" /\ mem' = [mem EXCEPT !.tag = choices[i]]
    BY <1>4 DEF FindValidUpd
  <2>4. \A choices : Usable(results', choices) \subseteq DOMAIN choices
    BY DEF Usable
  <2> HIDE DEF IInv
  <2> QED BY <2>1, <2>2, <2>3, <2>4
<1>5. CASE Partition
  <2>1. CASE Fatalf /\ Fault
    BY <1>5, <2>1, FatalfKeeps DEF Partition
  <2>2. CASE root' \in {root, Blank} /\ pc' = "format"
    <3>1. root' \in Root /\ (root'.flag => root' = root) /\ (~WriteBack => root'.dirty = {})
      BY <2>2, BlankAndFresh
    <3>2. pc = "partition" /\ UNCHANGED <<frFile, netTar, mem>>
      BY <1>5, <2>2 DEF Partition, Fatalf
    <3> QED BY <1>5, <2>2, <3>1, <3>2, BudgetType DEF Partition
  <2> QED BY <1>5, <2>1, <2>2 DEF Partition
<1>6. CASE FormatAndMount
  <2>1. CASE root' = Fresh /\ pc' = "untar"
    BY <1>6, <2>1, BudgetType, BlankAndFresh DEF FormatAndMount
  <2>2. CASE root' \in {root, Blank, Fresh} /\ pc' = "failed"
    <3>1. root' \in Root /\ (root'.flag => root' = root) /\ (~WriteBack => root'.dirty = {})
      BY <2>2, BlankAndFresh
    <3> QED BY <1>6, <2>2, <3>1, BudgetType DEF FormatAndMount
  <2> QED BY <1>6, <2>1, <2>2 DEF FormatAndMount
<1>7. CASE StartUntar
  BY <1>7, BudgetType DEF StartUntar, Root
<1>8. CASE ApplyUpdate
  <2>1. CASE Fatalf /\ (Fault \/ NoFault)
    BY <1>8, <2>1, FatalfKeeps DEF ApplyUpdate
  <2>2. CASE root' = Did("untar") /\ ~Fatalf
    BY <1>8, <2>2, BudgetType, DidType DEF ApplyUpdate
  <2> QED BY <1>8, <2>1, <2>2 DEF ApplyUpdate, Fatalf
<1>9. CASE MakeBootable
  <2>1. CASE Fatalf /\ (Fault \/ NoFault)
    BY <1>9, <2>1, FatalfKeeps DEF MakeBootable
  <2>2. CASE root' = Did("boot") /\ ~Fatalf
    BY <1>9, <2>2, BudgetType, DidType DEF MakeBootable
  <2> QED BY <1>9, <2>1, <2>2 DEF MakeBootable, Fatalf
<1>10. CASE WriteFstab
  <2>1. CASE Fatalf /\ (Fault \/ NoFault)
    BY <1>10, <2>1, FatalfKeeps DEF WriteFstab
  <2>2. CASE root' = Did("fstab") /\ ~Fatalf
    BY <1>10, <2>2, BudgetType, DidType DEF WriteFstab
  <2> QED BY <1>10, <2>1, <2>2 DEF WriteFstab, Fatalf
<1>11. CASE WriteNetworkConfig
  <2>1. CASE root' = Did("net") /\ pc' = "firstboot"
    BY <1>11, <2>1, BudgetType, DidType DEF WriteNetworkConfig
  <2>2. CASE root' = [root EXCEPT !.netRestored = TRUE] /\ pc' = "netrm"
    BY <1>11, <2>2, BudgetType DEF WriteNetworkConfig, Root
  <2> QED BY <1>11, <2>1, <2>2 DEF WriteNetworkConfig
<1>12. CASE RemoveNetTar
  BY <1>12, BudgetType DEF RemoveNetTar, Did, Root
<1>13. CASE Firstboot
  <2>1. CASE Fatalf /\ Fault
    BY <1>13, <2>1, FatalfKeeps DEF Firstboot
  <2>2. CASE root' = Did("firstboot") /\ pc' = "frdelete"
    <3>1. /\ root' \in Root /\ root'.done = root.done \cup {"firstboot"}
          /\ root'.formatted = root.formatted /\ root'.flag = root.flag
          /\ root'.image = root.image /\ root'.tag = root.tag
          /\ ~WriteBack => root'.dirty = root.dirty
      BY <2>2, DidType
    <3>2. root'.done = Steps
      BY <1>13, <3>1 DEF Firstboot
    <3>3. pc = "firstboot" /\ UNCHANGED <<frFile, netTar, mem>>
      BY <1>13, <2>2 DEF Firstboot, Fatalf
    <3>4. faults' \in 0 .. MaxFaults /\ outages' \in 0 .. MaxOutages
      BY <1>13, BudgetType DEF Firstboot
    <3> QED BY <2>2, <3>1, <3>2, <3>3, <3>4
  <2>3. CASE root' = [Did("firstboot") EXCEPT !.tag = mem.tag] /\ pc' = "frdelete"
    <3>1. /\ root' \in Root /\ root'.done = root.done \cup {"firstboot"}
          /\ root'.formatted = root.formatted /\ root'.flag = root.flag
          /\ root'.image = root.image /\ root'.tag = mem.tag
          /\ ~WriteBack => root'.dirty = root.dirty
      BY <2>3, DidType DEF Root
    <3>2. root'.done = Steps
      BY <1>13, <3>1 DEF Firstboot
    <3>3. pc = "firstboot" /\ UNCHANGED <<frFile, netTar, mem>>
      BY <1>13, <2>3 DEF Firstboot, Fatalf
    <3>4. faults' \in 0 .. MaxFaults /\ outages' \in 0 .. MaxOutages
      BY <1>13, BudgetType DEF Firstboot
    <3> QED BY <2>3, <3>1, <3>2, <3>3, <3>4
  <2> QED BY <1>13, <2>1, <2>2, <2>3 DEF Firstboot
<1>14. CASE DeleteFrData
  <2>1. frFile' \in FrFile
    <3>1. frFile' = frFile \/ frFile' = [state |-> "absent", options |-> {}]
      BY <1>14 DEF DeleteFrData
    <3>2. [state |-> "absent", options |-> {}] \in FrFile
      BY DEF FrFile
    <3> QED BY <3>1, <3>2
  <2> QED BY <1>14, <2>1, BudgetType DEF DeleteFrData
<1>15. CASE SetFlag
  <2>1. CASE root' = [root EXCEPT !.flag = TRUE] /\ pc' = "facts"
    <3>1. /\ root' \in Root /\ root'.done = root.done /\ root'.dirty = root.dirty
          /\ root'.formatted = root.formatted /\ root'.flag
          /\ root'.image = root.image /\ root'.tag = root.tag
      BY <2>1 DEF Root
    <3>2. pc = "flag" /\ UNCHANGED <<frFile, netTar, mem>>
      BY <1>15, <2>1 DEF SetFlag, Fatalf
    <3>3. faults' \in 0 .. MaxFaults /\ outages' \in 0 .. MaxOutages
      BY <1>15, BudgetType DEF SetFlag
    <3> QED BY <2>1, <3>1, <3>2, <3>3
  <2>2. CASE Fault /\ Fatalf
    BY <1>15, <2>2, FatalfKeeps DEF SetFlag
  <2> QED BY <1>15, <2>1, <2>2 DEF SetFlag
<1>16. CASE WriteFacts
  BY <1>16, BudgetType DEF WriteFacts
<1>17. CASE Reboot
  BY <1>17, BudgetType DEF Reboot
<1>18. CASE WriteHistory
  <2>1. /\ pc' = IF pc = "histwrite" THEN "sync" ELSE "stuck"
        /\ pc \in {"histwrite", "stuckwrite"} /\ UNCHANGED <<root, frFile, netTar, mem>>
    BY <1>18 DEF WriteHistory
  <2>2. faults' \in 0 .. MaxFaults /\ outages' \in 0 .. MaxOutages
    BY <1>18, BudgetType DEF WriteHistory
  <2> QED BY <2>1, <2>2
<1>19. CASE SyncAndReboot
  BY <1>19, BudgetType DEF SyncAndReboot, Root
<1>20. CASE PowerOn
  BY <1>20, BudgetType DEF PowerOn, NoMemory, EFiles
<1>21. CASE TryNormalBoot
  <2>1. mem' = mem \/ \E e \in Usbs : mem' = [mem EXCEPT !.efiles = e]
    BY <1>21 DEF TryNormalBoot
  <2>2. Usbs \subseteq EFiles
    BY LifecycleAssumption
  <2> QED BY <1>21, <2>1, <2>2, BudgetType DEF TryNormalBoot
<1>22. CASE BootMenu
  BY <1>22, BudgetType DEF BootMenu, Restore
<1>23. CASE EraseDisks
  <2>1. root' \in Root /\ (root'.flag => root' = root) /\ (~WriteBack => root'.dirty = {})
    BY <1>23, BlankAndFresh DEF EraseDisks
  <2> QED BY <1>23, <2>1, BudgetType DEF EraseDisks
<1>24. CASE SwitchRoot
  <2>1. CASE mem' = NoMemory /\ pc' = "os"
    <3>1. NoMemory \in [tag : Images \cup {NoImage}, hooked : BOOLEAN, efiles : EFiles,
                        imgopt : {"", "oldest", "menu"}, frLoaded : BOOLEAN,
                        fr : SUBSET FrOptions]
      BY DEF NoMemory, EFiles
    <3>2. UNCHANGED <<root, frFile, netTar>> /\ pc = "switchroot"
      BY <1>24 DEF SwitchRoot
    <3>3. faults' \in 0 .. MaxFaults /\ outages' \in 0 .. MaxOutages
      BY <1>24, BudgetType DEF SwitchRoot
    <3>4. root.flag
      BY <1>24, <2>1 DEF SwitchRoot, Restore
    <3> QED BY <2>1, <3>1, <3>2, <3>3, <3>4
  <2>2. CASE Restore("")
    BY <1>24, <2>2, BudgetType DEF SwitchRoot, Restore
  <2>3. CASE pc' = "sync" /\ UNCHANGED mem
    BY <1>24, <2>3, BudgetType DEF SwitchRoot
  <2> QED BY <1>24, <2>1, <2>2, <2>3 DEF SwitchRoot
<1>25. CASE ReportBoot
  BY <1>25, BudgetType DEF ReportBoot
<1>26. CASE FinishReport
  BY <1>26, BudgetType DEF FinishReport
<1>27. CASE Shutdown
  BY <1>27, BudgetType DEF Shutdown
<1>28. CASE CacheWritten
  <2>1. /\ root' = [root EXCEPT !.dirty = {}] /\ UNCHANGED <<pc, frFile, netTar, mem>>
    BY <1>28 DEF CacheWritten
  <2>2. /\ root' \in Root /\ root'.done = root.done /\ root'.dirty = {}
        /\ root'.formatted = root.formatted /\ root'.flag = root.flag
        /\ root'.image = root.image /\ root'.tag = root.tag
    BY <2>1 DEF Root
  <2>3. faults' \in 0 .. MaxFaults /\ outages' \in 0 .. MaxOutages
    BY <1>28, BudgetType DEF CacheWritten
  <2> QED BY <2>1, <2>2, <2>3
<1>29. CASE PowerFailure
  <2>1. PICK lost \in SUBSET root.dirty :
          root' = [root EXCEPT !.done = @ \ lost, !.dirty = {}]
    BY <1>29 DEF PowerFailure
  <2>2. /\ root' \in Root /\ root'.dirty = {} /\ root'.done = root.done \ lost
        /\ root'.formatted = root.formatted /\ root'.flag = root.flag
        /\ root'.image = root.image /\ root'.tag = root.tag
    BY <2>1 DEF Root
  <2>3. outages' \in 0 .. MaxOutages
    <3>1. MaxOutages \in Nat
      BY RecoveryAssumption
    <3>2. outages \in 0 .. MaxOutages /\ outages > 0 /\ outages' = outages - 1
      BY <1>29 DEF PowerFailure
    <3> HIDE DEF IInv
    <3> QED BY <3>1, <3>2
  <2>4. /\ pc' = "off" /\ faults' = faults
        /\ UNCHANGED <<frFile, netTar, mem>>
    BY <1>29 DEF PowerFailure
  <2>5. RecoveryTypeOK'
    BY <2>2, <2>3, <2>4
  <2> QED BY <2>2, <2>4, <2>5
<1>30. CASE PowerCycle
  BY <1>30, BudgetType DEF PowerCycle
<1>31. CASE UNCHANGED vars
  <2>1. UNCHANGED <<root, frFile, netTar, mem, pc, faults, outages>>
    BY <1>31 DEF vars, recoveryVars
  <2>2. RecoveryTypeOK' /\ FlagInv' /\ DoneInv'
    BY <2>1
  <2>3. BuildingInv' /\ HookInv'
    BY <2>1
  <2> QED BY <2>2, <2>3
<1> QED
  BY <1>1, <1>2, <1>3, <1>4, <1>5, <1>6, <1>7, <1>8, <1>9, <1>10, <1>11, <1>12, <1>13, <1>14, <1>15, <1>16, <1>17, <1>18, <1>19, <1>20, <1>21, <1>22, <1>23, <1>24, <1>25, <1>26, <1>27, <1>28, <1>29, <1>30, <1>31
     DEF Next, BootStep, RestoreStep

-----------------------------------------------------------------------------
(* The history within the life of a unit. *)

\* Whatever part of the code runs, the history keeps its form.
LEMMA HistoryStep ==
  ASSUME HistoryOK, RecoveryTypeOK, [Next]_vars
  PROVE  HistoryOK'
<1> USE DEF RecoveryTypeOK
<1>1. CASE UNCHANGED historyVars
  BY <1>1, UnchangedOK
<1>2. CASE LoadFile \/ LoadUnreadable \/ Rollover \/ Forget \/ FinishWrite
  BY <1>2, LoadFileOK, LoadUnreadableOK, RolloverOK, ForgetOK, FinishWriteOK
<1>3. CASE \E success \in BOOLEAN : RebootHook(mem.tag, success)
  BY <1>3, RebootHookOK
<1>4. CASE ReportBoot
  <2>1. root.tag \in Images \cup OddNames
    BY LifecycleAssumption DEF Root
  <2>2. PICK s \in Severities :
          RecordBootState(Readable, root.tag, root.image \notin Unbootable, s)
    BY <1>4 DEF ReportBoot
  <2> QED BY <2>1, <2>2, RecordBootStateOK
<1>5. ASSUME RestoreStep
      PROVE  \/ UNCHANGED historyVars
             \/ LoadFile \/ LoadUnreadable \/ Rollover \/ FinishWrite
             \/ \E success \in BOOLEAN : RebootHook(mem.tag, success)
  <2>1. CASE Setup \/ CheckForEmergency \/ HandleFrData \/ FindValidUpd
    BY <2>1 DEF Setup, Fatalf, CheckForEmergency, HandleFrData, FindValidUpd
  <2>2. CASE \/ Partition \/ FormatAndMount \/ StartUntar \/ ApplyUpdate \/ MakeBootable
             \/ WriteFstab \/ WriteNetworkConfig \/ RemoveNetTar \/ Firstboot
             \/ DeleteFrData \/ SetFlag \/ WriteFacts
    BY <2>2 DEF Fatalf, Partition, FormatAndMount, StartUntar, ApplyUpdate, MakeBootable,
                WriteFstab, WriteNetworkConfig, RemoveNetTar, Firstboot, DeleteFrData,
                SetFlag, WriteFacts
  <2>3. CASE Reboot \/ WriteHistory \/ SyncAndReboot
    BY <2>3 DEF Reboot, WriteHistory, SyncAndReboot
  <2> QED BY <1>5, <2>1, <2>2, <2>3 DEF RestoreStep
<1>6. ASSUME BootStep \/ FinishReport \/ Shutdown \/ CacheWritten \/ PowerFailure
             \/ PowerCycle \/ UNCHANGED vars
      PROVE  UNCHANGED historyVars \/ Forget \/ FinishWrite
  BY <1>6 DEF BootStep, PowerOn, TryNormalBoot, BootMenu, EraseDisks, SwitchRoot,
              FinishReport, Shutdown, CacheWritten, PowerFailure, PowerCycle, vars
<1> QED BY <1>1, <1>2, <1>3, <1>4, <1>5, <1>6 DEF Next

(* Where the unit is, is one of the places the modules know.                *)
LEMMA PcStep ==
  ASSUME pc \in RecoveryPcs \cup BootPcs, [Next]_vars
  PROVE  pc' \in RecoveryPcs \cup BootPcs
<1> USE DEF RecoveryPcs, BootPcs
<1>1. CASE RestoreStep
  BY <1>1
     DEF RestoreStep, Fatalf, Setup, CheckForEmergency, HandleFrData, FindValidUpd,
         CancelImageMenu, Partition, FormatAndMount, StartUntar, ApplyUpdate,
         MakeBootable, WriteFstab, WriteNetworkConfig, RemoveNetTar, Firstboot,
         DeleteFrData, SetFlag, WriteFacts, Reboot, WriteHistory, SyncAndReboot
<1>2. CASE BootStep
  BY <1>2 DEF BootStep, PowerOn, TryNormalBoot, BootMenu, Restore, EraseDisks, SwitchRoot
<1>3. CASE ReportBoot \/ FinishReport \/ Shutdown \/ CacheWritten \/ PowerFailure
           \/ PowerCycle \/ UNCHANGED vars
  BY <1>3 DEF ReportBoot, FinishReport, Shutdown, CacheWritten, PowerFailure,
              PowerCycle, vars, recoveryVars
<1> QED BY <1>1, <1>2, <1>3 DEF Next

-----------------------------------------------------------------------------
(* The theorems. *)

\* The invariants hold in every state init and factory restore can reach.
LEMMA Invariants == Spec => [](IInv /\ HistoryOK /\ pc \in RecoveryPcs \cup BootPcs)
<1>1. Init => IInv /\ HistoryOK /\ pc \in RecoveryPcs \cup BootPcs
  BY InitIInv, InitOK DEF Init, BootPcs
<1>2. /\ IInv /\ HistoryOK /\ pc \in RecoveryPcs \cup BootPcs
      /\ [Next]_vars
      => (IInv /\ HistoryOK /\ pc \in RecoveryPcs \cup BootPcs)'
  <2>1. IInv => RecoveryTypeOK
    BY DEF IInv
  <2> QED BY <2>1, NextIInv, HistoryStep, PcStep
<1> QED BY <1>1, <1>2, PTL DEF Spec

(* Boot, restore and the booted system keep every variable in its type.     *)
THEOREM LifecycleTypeCorrect == Spec => []TypeOK
<1>1. IInv /\ HistoryOK /\ pc \in RecoveryPcs \cup BootPcs => TypeOK
  BY DEF TypeOK, IInv, HistoryOK
<1> QED BY <1>1, Invariants, PTL

(* Also across restores, boot reports and power failures no image gets a    *)
(* second entry in the history.                                             *)
THEOREM LifecycleUnique == Spec => []UniqueEntries
<1>1. IInv /\ HistoryOK /\ pc \in RecoveryPcs \cup BootPcs => UniqueEntries
  BY DEF HistoryOK
<1> QED BY <1>1, Invariants, PTL

(* Where a power failure loses nothing that was written, a file system with *)
(* the flag file is a complete installation of one image.                   *)
THEOREM FlagIsSafe ==
  ASSUME WriteBack = FALSE
  PROVE  Spec => []FlagMeansComplete
<1>1. IInv /\ HistoryOK /\ pc \in RecoveryPcs \cup BootPcs => FlagMeansComplete
  BY DEF IInv, FlagInv, DoneInv, FlagMeansComplete
<1> QED BY <1>1, Invariants, PTL

(* frd.Delete runs only when every step before it was done.                 *)
THEOREM OptionsKept == Spec => OptionsOutliveRestore
<1>1. IInv /\ [Next]_vars =>
        [frFile.state = "ok" /\ frFile'.state = "absent" => root.done = Steps]_frFile
  <2> SUFFICES ASSUME IInv, [Next]_vars, frFile' # frFile PROVE root.done = Steps
    OBVIOUS
  <2>1. RestoreStep
    BY DEF Next, BootStep, PowerOn, TryNormalBoot, BootMenu, EraseDisks, SwitchRoot,
           ReportBoot, FinishReport, Shutdown, CacheWritten, PowerFailure, PowerCycle,
           vars, recoveryVars
  <2>2. DeleteFrData
    BY <2>1
       DEF RestoreStep, Fatalf, Setup, CheckForEmergency, HandleFrData, FindValidUpd,
           Partition, FormatAndMount, StartUntar, ApplyUpdate, MakeBootable, WriteFstab,
           WriteNetworkConfig, RemoveNetTar, Firstboot, SetFlag, WriteFacts, Reboot,
           WriteHistory, SyncAndReboot
  <2> QED
    BY <2>2 DEF DeleteFrData, IInv, BuildingInv, Building, DoneBefore
<1> QED BY <1>1, Invariants, PTL DEF Spec, OptionsOutliveRestore

(* While a saved network configuration may still be restored, fr.data holds *)
(* the options the restore read from it; and RemoveNetTar (recover.go:318)  *)
(* runs only after it was restored.                                         *)
NetAhead == {"boot", "menu", "switchroot", "rmain", "emode", "frdata", "select",
             "partition", "format"} \cup (Building \ {"flag"})
NetInv ==
  /\ pc \in NetAhead /\ "ignoreNet" \in mem.fr => "ignoreNet" \in frFile.options
  /\ pc = "netrm" => root.netRestored

\* Steps of factory restore up to the choice of an image.
LEMMA NetChoosing ==
  ASSUME RecoveryTypeOK, NetInv, Setup \/ CheckForEmergency \/ HandleFrData \/ FindValidUpd
  PROVE  NetInv'
<1> USE DEF NetInv, NetAhead, Building, RecoveryTypeOK
<1>1. CASE Setup
  BY <1>1 DEF Setup, Fatalf
<1>2. CASE CheckForEmergency
  BY <1>2 DEF CheckForEmergency
<1>3. CASE HandleFrData
  BY <1>3 DEF HandleFrData
<1>4. CASE FindValidUpd
  <2>1. pc = "select" /\ pc' # "netrm" /\ frFile' = frFile
    BY <1>4 DEF FindValidUpd, CancelImageMenu
  <2>2. mem'.fr = mem.fr
    BY <1>4 DEF FindValidUpd, CancelImageMenu
  <2> QED BY <2>1, <2>2
<1> QED BY <1>1, <1>2, <1>3, <1>4

\* Steps of factory restore that build the file system, and its end.
LEMMA NetBuilding ==
  ASSUME RecoveryTypeOK, NetInv, RestoreStep,
         ~(Setup \/ CheckForEmergency \/ HandleFrData \/ FindValidUpd)
  PROVE  NetInv'
<1> USE DEF NetInv, NetAhead, Building, RecoveryTypeOK
<1>1. CASE Partition \/ FormatAndMount \/ StartUntar \/ ApplyUpdate \/ MakeBootable \/ WriteFstab
  BY <1>1 DEF Partition, FormatAndMount, StartUntar, ApplyUpdate, MakeBootable, WriteFstab, Fatalf
<1>2. CASE WriteNetworkConfig
  <2>1. /\ pc = "net" /\ pc' \in {"firstboot", "netrm"} /\ frFile' = frFile /\ mem' = mem
        /\ pc' = "netrm" => root' = [root EXCEPT !.netRestored = TRUE]
    BY <1>2 DEF WriteNetworkConfig
  <2> QED BY <2>1 DEF Root
<1>3. CASE RemoveNetTar \/ Firstboot \/ DeleteFrData \/ SetFlag \/ WriteFacts
  BY <1>3 DEF RemoveNetTar, Firstboot, DeleteFrData, SetFlag, WriteFacts, Fatalf
<1>4. CASE Reboot \/ WriteHistory \/ SyncAndReboot
  BY <1>4 DEF Reboot, WriteHistory, SyncAndReboot
<1> QED BY <1>1, <1>2, <1>3, <1>4 DEF RestoreStep

LEMMA NextNetInv ==
  ASSUME RecoveryTypeOK, NetInv, [Next]_vars
  PROVE  NetInv'
<1> USE DEF NetInv, NetAhead, Building, RecoveryTypeOK
<1>1. CASE RestoreStep
  BY <1>1, NetChoosing, NetBuilding
<1>2. CASE BootStep
  <2>1. CASE PowerOn
    BY <2>1 DEF PowerOn, NoMemory
  <2>2. CASE TryNormalBoot
    BY <2>2 DEF TryNormalBoot
  <2>3. CASE BootMenu
    BY <2>3 DEF BootMenu, Restore
  <2>4. CASE EraseDisks
    BY <2>4 DEF EraseDisks
  <2>5. CASE SwitchRoot
    BY <2>5 DEF SwitchRoot, Restore, NoMemory
  <2> QED BY <1>2, <2>1, <2>2, <2>3, <2>4, <2>5 DEF BootStep
<1>3. CASE CacheWritten
  BY <1>3 DEF CacheWritten, Root
<1>4. CASE ReportBoot \/ FinishReport \/ Shutdown \/ PowerFailure \/ PowerCycle
  BY <1>4 DEF ReportBoot, FinishReport, Shutdown, PowerFailure, PowerCycle
<1>5. CASE UNCHANGED vars
  BY <1>5 DEF vars, recoveryVars
<1> QED BY <1>1, <1>2, <1>3, <1>4, <1>5 DEF Next

(* restoreNetworkConfig removes a saved network configuration only once it  *)
(* is on the new system, unless fr.data says to ignore it.                  *)
THEOREM NetIsMoved == Spec => NetConfigMoved
<1>1. Init => NetInv
  BY DEF Init, NetInv, NetAhead, Building, NoMemory
<1>2. IInv => RecoveryTypeOK
  BY DEF IInv
<1>3. RecoveryTypeOK /\ NetInv /\ [Next]_vars => NetInv'
  BY NextNetInv
<1>4. RecoveryTypeOK /\ NetInv /\ [Next]_vars =>
        [netTar /\ ~netTar' /\ "ignoreNet" \notin frFile.options => root'.netRestored]_netTar
  <2> SUFFICES ASSUME RecoveryTypeOK, NetInv, [Next]_vars,
                      netTar, ~netTar', "ignoreNet" \notin frFile.options
               PROVE  root'.netRestored
    OBVIOUS
  <2>1. RestoreStep
    BY DEF Next, BootStep, PowerOn, TryNormalBoot, BootMenu, EraseDisks, SwitchRoot,
           ReportBoot, FinishReport, Shutdown, CacheWritten, PowerFailure, PowerCycle,
           vars, recoveryVars
  <2>2. WriteNetworkConfig \/ RemoveNetTar
    BY <2>1
       DEF RestoreStep, Fatalf, Setup, CheckForEmergency, HandleFrData, FindValidUpd,
           Partition, FormatAndMount, StartUntar, ApplyUpdate, MakeBootable, WriteFstab,
           Firstboot, DeleteFrData, SetFlag, WriteFacts, Reboot, WriteHistory,
           SyncAndReboot
  <2>3. CASE WriteNetworkConfig
    <3>1. pc = "net" /\ "ignoreNet" \in mem.fr
      BY <2>3 DEF WriteNetworkConfig
    <3> QED BY <3>1 DEF NetInv, NetAhead, Building
  <2>4. CASE RemoveNetTar
    <3>1. pc = "netrm" /\ root' = Did("net")
      BY <2>4 DEF RemoveNetTar
    <3> QED BY <3>1 DEF NetInv, Did, RecoveryTypeOK, Root
  <2> QED BY <2>2, <2>3, <2>4
<1> QED BY <1>1, <1>2, <1>3, <1>4, Invariants, PTL DEF Spec, NetConfigMoved

(* From the choice of an image on, an emergency image is the one chosen.    *)
Chosen == Building \cup {"partition", "format"}
EmergencyInv == pc \in Chosen /\ mem.efiles \in Images => mem.tag = mem.efiles

LEMMA NextEmergencyInv ==
  ASSUME RecoveryTypeOK, EmergencyInv, [Next]_vars
  PROVE  EmergencyInv'
<1> USE DEF EmergencyInv, Chosen, Building
<1>1. CASE FindValidUpd
  <2>1. CASE CancelImageMenu
    BY <2>1 DEF CancelImageMenu
  <2>2. CASE pc' = "failed"
    BY <2>2
  <2>3. ASSUME ~CancelImageMenu, pc' # "failed", mem'.efiles \in Images
        PROVE  mem'.tag = mem'.efiles
    <3>1. PICK choices \in ChoiceLists : \E i \in Usable(results', choices) :
            pc' = "partition" /\ mem' = [mem EXCEPT !.tag = choices[i]]
      BY <1>1, <2>3 DEF FindValidUpd
    <3>2. PICK i \in Usable(results', choices) : mem' = [mem EXCEPT !.tag = choices[i]]
      BY <3>1
    <3>3. mem'.efiles = mem.efiles /\ mem'.tag = choices[i]
      BY <3>2 DEF RecoveryTypeOK
    <3>4. choices = <<mem.efiles>>
      BY <2>3, <3>1, <3>3 DEF ChoiceLists, IsEmergency
    <3>5. i \in DOMAIN choices
      BY DEF Usable
    <3> QED BY <3>3, <3>4, <3>5
  <2> QED BY <1>1, <2>1, <2>2, <2>3
<1>2. ASSUME RestoreStep, ~FindValidUpd
      PROVE  EmergencyInv'
  <2>1. CASE Setup \/ CheckForEmergency \/ HandleFrData \/ Reboot \/ WriteHistory \/ SyncAndReboot
    BY <2>1 DEF Setup, CheckForEmergency, HandleFrData, Reboot, WriteHistory, SyncAndReboot, Fatalf
  <2>2. CASE \/ Partition \/ FormatAndMount \/ StartUntar \/ ApplyUpdate \/ MakeBootable
             \/ WriteFstab \/ WriteNetworkConfig \/ RemoveNetTar \/ Firstboot
             \/ DeleteFrData \/ SetFlag \/ WriteFacts
    BY <2>2 DEF Partition, FormatAndMount, StartUntar, ApplyUpdate, MakeBootable, WriteFstab,
                WriteNetworkConfig, RemoveNetTar, Firstboot, DeleteFrData, SetFlag,
                WriteFacts, Fatalf
  <2> QED BY <1>2, <2>1, <2>2 DEF RestoreStep
<1>3. CASE BootStep
  BY <1>3 DEF BootStep, PowerOn, TryNormalBoot, BootMenu, Restore, EraseDisks, SwitchRoot
<1>4. CASE ReportBoot \/ FinishReport \/ Shutdown \/ CacheWritten \/ PowerFailure
           \/ PowerCycle \/ UNCHANGED vars
  BY <1>4 DEF ReportBoot, FinishReport, Shutdown, CacheWritten, PowerFailure,
              PowerCycle, vars, recoveryVars
<1> QED BY <1>1, <1>2, <1>3, <1>4 DEF Next

(* Emergency mode installs the image the user brought, or none.             *)
THEOREM EmergencyIsObeyed == Spec => EmergencyImageOnly
<1>1. Init => EmergencyInv
  BY DEF Init, EmergencyInv, Chosen, Building
<1>2. IInv => RecoveryTypeOK
  BY DEF IInv
<1>3. RecoveryTypeOK /\ EmergencyInv /\ [Next]_vars => EmergencyInv'
  BY NextEmergencyInv
<1>4. IInv /\ EmergencyInv /\ [Next]_vars =>
        [~root.flag /\ root'.flag /\ mem.efiles \in Images => root'.image = mem.efiles]_root
  <2> SUFFICES ASSUME IInv, EmergencyInv, [Next]_vars,
                      ~root.flag, root'.flag, mem.efiles \in Images
               PROVE  root'.image = mem.efiles
    OBVIOUS
  <2>1. root \in Root /\ ~Blank.flag
    BY DEF IInv, RecoveryTypeOK, Blank
  <2>2. RestoreStep
    BY <2>1 DEF Next, BootStep, PowerOn, TryNormalBoot, BootMenu, EraseDisks, SwitchRoot,
                ReportBoot, FinishReport, Shutdown, CacheWritten, PowerFailure, PowerCycle,
                vars, recoveryVars, Root
  <2>3. root' # root /\ \A step \in Steps : ~Did(step).flag
    BY <2>1 DEF Did, Root
  <2>4. CASE SetFlag
    <3>1. pc = "flag" /\ root' = [root EXCEPT !.flag = TRUE]
      BY <2>3, <2>4 DEF SetFlag, Fatalf
    <3>2. root.image = mem.tag /\ mem.tag = mem.efiles
      BY <3>1 DEF IInv, BuildingInv, EmergencyInv, Chosen, Building
    <3> QED BY <2>1, <3>1, <3>2 DEF Root
  <2>5. CASE ~SetFlag
    <3>1. \/ Partition \/ FormatAndMount \/ StartUntar \/ ApplyUpdate \/ MakeBootable
          \/ WriteFstab \/ WriteNetworkConfig \/ RemoveNetTar \/ Firstboot \/ SyncAndReboot
      BY <2>2, <2>3, <2>5
         DEF RestoreStep, Fatalf, Setup, CheckForEmergency, HandleFrData, FindValidUpd,
             DeleteFrData, WriteFacts, Reboot, WriteHistory
    <3>2. CASE Partition \/ FormatAndMount
      <4>1. root' \in {root, Blank, Fresh}
        BY <3>2 DEF Partition, FormatAndMount, Fatalf
      <4>2. ~Fresh.flag
        BY DEF Fresh, Blank
      <4> QED BY <2>1, <4>1, <4>2
    <3>3. CASE MakeBootable \/ WriteFstab \/ RemoveNetTar \/ ApplyUpdate
      <4>1. \E step \in Steps : root' = Did(step)
        BY <2>3, <3>3 DEF MakeBootable, WriteFstab, RemoveNetTar, ApplyUpdate, Fatalf, Steps
      <4> QED BY <2>3, <4>1
    <3>4. CASE WriteNetworkConfig
      <4>1. root' = Did("net") \/ root' = [root EXCEPT !.netRestored = TRUE]
        BY <3>4 DEF WriteNetworkConfig
      <4> QED BY <2>1, <2>3, <4>1 DEF Root, Steps
    <3>5. CASE Firstboot
      <4>1. root' = Did("firstboot") \/ root' = [Did("firstboot") EXCEPT !.tag = mem.tag]
        BY <2>3, <3>5 DEF Firstboot, Fatalf
      <4>2. Did("firstboot") \in Root /\ ~Did("firstboot").flag
        BY <2>1, <2>3, DidType DEF Steps
      <4> QED BY <4>1, <4>2 DEF Root
    <3>6. CASE StartUntar \/ SyncAndReboot
      BY <2>1, <3>6 DEF StartUntar, SyncAndReboot, Root
    <3> QED BY <3>1, <3>2, <3>3, <3>4, <3>5, <3>6
  <2> QED BY <2>4, <2>5
<1> QED BY <1>1, <1>2, <1>3, <1>4, Invariants, PTL DEF Spec, EmergencyImageOnly

(* A failed restore that chose an image costs that image a failure, unless  *)
(* its count is at the bound.                                               *)
THEOREM FailuresCharged == Spec => FailureIsCharged
<1> DEFINE Charged == \/ Failures(results', mem.tag) > Failures(results, mem.tag)
                      \/ Entry(results, mem.tag).imagingFailures = CountCap
<1>1. ASSUME IInv, HistoryOK, [Next]_vars,
             pc = "failed", pc' \in {"histwrite", "sync"}, mem.tag # NoImage
      PROVE  Charged
  <2> DEFINE e == Entry(results, mem.tag)
             item == [e EXCEPT !.imagingFailures = Plus(@, 1)]
  <2>1. mem.hooked /\ mem.tag \in Images
    BY <1>1 DEF IInv, HookInv, RecoveryTypeOK
  <2>2. Reboot
    BY <1>1
       DEF Next, RestoreStep, Setup, CheckForEmergency, HandleFrData, FindValidUpd,
           Partition, FormatAndMount, StartUntar, ApplyUpdate, MakeBootable, WriteFstab,
           WriteNetworkConfig, RemoveNetTar, Firstboot, DeleteFrData, SetFlag, WriteFacts,
           WriteHistory, SyncAndReboot, BootStep, PowerOn, TryNormalBoot, BootMenu,
           EraseDisks, SwitchRoot, ReportBoot, FinishReport, Shutdown, CacheWritten,
           PowerFailure, PowerCycle, vars, recoveryVars
  <2>3. results' = AfterRestore(results, mem.tag, FALSE)
    BY <1>1, <2>1, <2>2 DEF Reboot, RebootHook
  <2>4. mem.tag \in Names /\ results \in Seq(ImageResult) /\ Unique(results)
    BY <1>1, <2>1 DEF Names, HistoryOK, HistoryTypeOK, UniqueEntries
  <2>5. e \in ImageResult /\ e.image = mem.tag
    BY <2>4, EntryType
  <2>6. results' = MoveOrAddFront(results, item)
    BY <1>1, <2>3 DEF AfterRestore
  <2> HIDE DEF e
  <2>7. /\ e.imagingFailures \in 0 .. CountCap /\ e.bootFailures \in 0 .. CountCap
        /\ CountCap \in Nat
    BY <2>5, HistoryAssumption DEF ImageResult
  <2>8. /\ item \in ImageResult /\ item.image = mem.tag
        /\ item.imagingFailures = Plus(e.imagingFailures, 1)
        /\ item.bootFailures = e.bootFailures
    BY <2>5, <2>7, PlusType DEF ImageResult
  <2> HIDE DEF item
  <2>9. Entry(results', mem.tag) = item
    BY <2>4, <2>6, <2>8, MoveOrAddFrontEntry
  <2>10. e.imagingFailures = CountCap \/ Plus(e.imagingFailures, 1) = e.imagingFailures + 1
    BY <2>7 DEF Plus
  <2>11. Failures(results', mem.tag) = item.imagingFailures + item.bootFailures
    BY <2>9 DEF Failures
  <2>12. Failures(results, mem.tag) = e.imagingFailures + e.bootFailures
    BY DEF Failures, e
  <2>13. CASE e.imagingFailures = CountCap
    BY <2>13 DEF e
  <2>14. CASE Plus(e.imagingFailures, 1) = e.imagingFailures + 1
    BY <2>7, <2>8, <2>11, <2>12, <2>14
  <2> QED BY <2>10, <2>13, <2>14
<1>2. IInv /\ HistoryOK /\ pc \in RecoveryPcs \cup BootPcs /\ [Next]_vars =>
        [pc = "failed" /\ pc' \in {"histwrite", "sync"} /\ mem.tag # NoImage => Charged]_pc
  BY <1>1
<1> QED BY <1>2, Invariants, PTL DEF Spec, FailureIsCharged

-----------------------------------------------------------------------------
(* Init and factory restore implement Appliance. *)

\* The two variables of Appliance, and the pcs at which a system runs.
installedHere == IF root.flag THEN root.image ELSE NoImage
Up == {"os", "osreport", "up"}
runningHere == IF pc \in Up THEN root.image ELSE NoImage

(* A step that keeps the flag file and, where it matters, the image, and    *)
(* neither starts nor stops a system, is a stutter.                         *)
LEMMA Stutters ==
  ASSUME root'.flag = root.flag, root.flag \/ pc \in Up => root'.image = root.image,
         pc' \in Up <=> pc \in Up
  PROVE  UNCHANGED <<installedHere, runningHere>>
BY DEF installedHere, runningHere

(* Without a running system, losing the flag file is a Destroy.             *)
LEMMA Destroys ==
  ASSUME root' = root \/ ~root'.flag, pc \notin Up, pc' \notin Up
  PROVE  Abs!Destroy \/ UNCHANGED <<installedHere, runningHere>>
BY DEF Abs!Destroy, installedHere, runningHere, Up

(* Every step of the detailed specification is one of the abstract one.     *)
LEMMA StepSimulation ==
  IInv /\ [Next]_vars => [Abs!Next]_(Abs!applianceVars)
<1> SUFFICES ASSUME IInv, [Next]_vars
             PROVE  Abs!Next \/ UNCHANGED <<installedHere, runningHere>>
  BY DEF Abs!applianceVars, installedHere, runningHere, Up
<1>1. CASE Partition \/ FormatAndMount \/ EraseDisks
  <2>1. root' = root \/ ~root'.flag
    BY <1>1, BlankAndFresh DEF Partition, Fatalf, FormatAndMount, EraseDisks
  <2>2. pc \notin Up /\ pc' \notin Up
    BY <1>1 DEF Partition, Fatalf, FormatAndMount, EraseDisks, Up
  <2> QED BY <2>1, <2>2, Destroys DEF Abs!Next
<1>2. CASE SetFlag
  <2>1. root.image \in Images \ Unextractable /\ ~root.flag
    BY <1>2 DEF SetFlag, IInv, BuildingInv, Building, Extracted
  <2>2. CASE root' = [root EXCEPT !.flag = TRUE] /\ pc' = "facts"
    <3>1. root'.flag /\ root'.image = root.image
      BY <2>2 DEF IInv, RecoveryTypeOK, Root
    <3>2. pc \notin Up /\ pc' \notin Up
      BY <1>2, <2>2 DEF SetFlag, Up
    <3>3. Abs!Install(root.image)
      BY <2>1, <3>1, <3>2 DEF Abs!Install, Up
    <3> QED BY <2>1, <3>3 DEF Abs!Next
  <2>3. CASE Fatalf
    <3>1. pc \notin Up /\ pc' \notin Up /\ root' = root
      BY <1>2, <2>3 DEF SetFlag, Fatalf, Up
    <3> QED BY <3>1, Stutters
  <2> QED BY <1>2, <2>2, <2>3 DEF SetFlag
<1>3. CASE SwitchRoot
  <2>1. pc \notin Up /\ root' = root
    BY <1>3 DEF SwitchRoot, Up
  <2>2. CASE pc' = "os"
    <3>1. root.flag /\ root.image # NoImage
      BY <1>3, <2>2, HistoryAssumption DEF SwitchRoot, Restore, IInv, FlagInv
    <3>2. Abs!Start
      BY <2>1, <2>2, <3>1 DEF Abs!Start, Up
    <3> QED BY <3>2 DEF Abs!Next
  <2>3. CASE pc' # "os"
    <3>1. pc' \notin Up
      BY <1>3, <2>3 DEF SwitchRoot, Restore, Up
    <3> QED BY <2>1, <3>1, Stutters
  <2> QED BY <2>2, <2>3
<1>4. CASE Shutdown \/ PowerFailure
  <2>1. root'.flag = root.flag /\ root'.image = root.image /\ pc' \notin Up
    BY <1>4 DEF Shutdown, PowerFailure, Up, IInv, RecoveryTypeOK, Root
  <2>2. Abs!Stop
    BY <2>1 DEF Abs!Stop, Up
  <2> QED BY <2>2 DEF Abs!Next
<1>5. CASE StartUntar
  <2>1. ~root.flag /\ root'.flag = root.flag /\ pc \notin Up /\ pc' \notin Up
    BY <1>5 DEF StartUntar, IInv, RecoveryTypeOK, Root, BuildingInv, Building, Up
  <2> QED BY <2>1, Stutters
<1>6. CASE \/ ApplyUpdate \/ MakeBootable \/ WriteFstab \/ WriteNetworkConfig
           \/ RemoveNetTar \/ Firstboot \/ SyncAndReboot \/ CacheWritten
  <2>1. root'.flag = root.flag /\ root'.image = root.image
    <3>1. root \in Root
      BY DEF IInv, RecoveryTypeOK
    <3>2. \A step \in Steps :
            Did(step).flag = root.flag /\ Did(step).image = root.image /\ Did(step) \in Root
      BY <3>1, DidType
    <3> QED
      BY <1>6, <3>1, <3>2
         DEF ApplyUpdate, MakeBootable, WriteFstab, WriteNetworkConfig, RemoveNetTar,
             Firstboot, SyncAndReboot, CacheWritten, Fatalf, Root, Steps
  <2>2. pc' \in Up <=> pc \in Up
    BY <1>6
       DEF ApplyUpdate, MakeBootable, WriteFstab, WriteNetworkConfig, RemoveNetTar,
           Firstboot, SyncAndReboot, CacheWritten, Fatalf, Up
  <2> QED BY <2>1, <2>2, Stutters
<1>7. CASE \/ Setup \/ CheckForEmergency \/ HandleFrData \/ FindValidUpd
           \/ DeleteFrData \/ WriteFacts \/ Reboot \/ WriteHistory
           \/ PowerOn \/ TryNormalBoot \/ BootMenu
           \/ ReportBoot \/ FinishReport \/ PowerCycle \/ UNCHANGED vars
  <2>1. root' = root
    BY <1>7
       DEF Setup, Fatalf, CheckForEmergency, HandleFrData, FindValidUpd, DeleteFrData,
           WriteFacts, Reboot, WriteHistory, PowerOn, TryNormalBoot, BootMenu, ReportBoot,
           FinishReport, PowerCycle, vars, recoveryVars
  <2>2. pc' \in Up <=> pc \in Up
    BY <1>7
       DEF Setup, Fatalf, CheckForEmergency, HandleFrData, FindValidUpd, CancelImageMenu,
           DeleteFrData, WriteFacts, Reboot, WriteHistory, PowerOn, TryNormalBoot,
           BootMenu, Restore, ReportBoot, FinishReport, PowerCycle, vars, recoveryVars, Up
  <2> QED BY <2>1, <2>2, Stutters
<1> QED
  BY <1>1, <1>2, <1>3, <1>4, <1>5, <1>6, <1>7 DEF Next, BootStep, RestoreStep

(* Init and factory restore only ever do to the disk what Appliance allows. *)
THEOREM ImplementsAppliance == Spec => RefinesAppliance
<1>1. Init => Abs!Init
  BY DEF Init, Abs!Init, Blank
<1>2. IInv /\ [Next]_vars => [Abs!Next]_(Abs!applianceVars)
  BY StepSimulation
<1> QED BY <1>1, <1>2, Invariants, PTL DEF Spec, RefinesAppliance, Abs!Spec
=============================================================================
