----------------------------- MODULE EraseProofs -----------------------------
(***************************************************************************)
(* For any number of disks, of regions, of faults and of power failures:   *)
(* success is displayed only when no disk has data of the user left up to  *)
(* its last mark.  The argument is the invariant IInv of Erase: the marks  *)
(* are in place until a worker starts to erase, and what removes them all  *)
(* removes the data before the last one too.                               *)
(***************************************************************************)
EXTENDS Erase, TLAPS

Threads == Disks \cup {"main"}

(* The regions and the records of disks at power on (raid/device.go:96).    *)
LEMMA DiskRecords ==
  /\ Regions \in Area /\ Area # {}
  /\ Used \in Disk /\ Erased \in Disk
  /\ Erased.old = {} /\ Erased.marks = {}
<1>1. Regions \in Nat \ {0}
  BY EraseAssumption
<1>2. Regions \in Area
  BY <1>1 DEF Area
<1> QED BY <1>2 DEF Used, Erased, Disk

(* A worker that moves on (erase.go:186) leaves the others where they are.  *)
LEMMA ToKeeps ==
  ASSUME worker \in [Threads -> WorkerPcs], NEW w \in Threads, NEW pc \in WorkerPcs,
         To(w, pc)
  PROVE  /\ worker' \in [Threads -> WorkerPcs]
         /\ worker'[w] = pc /\ \A e \in Threads \ {w} : worker'[e] = worker[e]
BY DEF To

(* It changes its own disk only.                                            *)
LEMMA ChangeKeeps ==
  ASSUME disk \in [Disks -> Disk], NEW d \in Disks, NEW contents \in Disk,
         Change(d, contents)
  PROVE  /\ disk' \in [Disks -> Disk]
         /\ disk'[d] = contents /\ \A e \in Disks \ {d} : disk'[e] = disk[e]
BY DEF Change

(* The budgets stay within their bounds.                                    *)
LEMMA BudgetType ==
  ASSUME TypeOK, Fault \/ NoFault
  PROVE  faults' \in 0 .. MaxFaults /\ outages' \in 0 .. MaxOutages
<1>1. MaxFaults \in Nat /\ MaxOutages \in Nat
  BY EraseAssumption
<1>2. faults \in 0 .. MaxFaults /\ outages \in 0 .. MaxOutages
  BY DEF TypeOK
<1> QED BY <1>1, <1>2 DEF Fault, NoFault

(* A unit about to erase, before its first boot.                            *)
LEMMA InitIInv == Init => IInv
<1> SUFFICES ASSUME Init PROVE IInv
  OBVIOUS
<1>1. MaxFaults \in Nat /\ MaxOutages \in Nat
  BY EraseAssumption
<1>2. TypeOK
  BY <1>1, DiskRecords DEF Init, TypeOK, Idle, WorkerPcs, Capacity
<1>3. phase = "off"
  BY DEF Init
<1> QED BY <1>2, <1>3 DEF IInv, MarksTell, AfterErasing

(* Types of the record changes workers, power and restore make.             *)
LEMMA DiskChanges ==
  ASSUME NEW x \in Disk
  PROVE  /\ [x EXCEPT !.marks = Area] \in Disk
         /\ [x EXCEPT !.password = TRUE] \in Disk
         /\ [x EXCEPT !.locked = x.password] \in Disk
         /\ \A b \in BOOLEAN : [x EXCEPT !.metadata = @ \/ b] \in Disk
         /\ [x EXCEPT !.old = {}, !.marks = {}, !.metadata = FALSE] \in Disk
         /\ \A n \in Area :
              [x EXCEPT !.old = @ \ (1 .. n - 1), !.marks = @ \ (1 .. n)] \in Disk
BY DEF Disk

(* Every step of a worker (erase.go:186) keeps the types.                   *)
LEMMA WorkerStepType ==
  ASSUME TypeOK, NEW d \in Disks, WorkerStep(d)
  PROVE  TypeOK'
<1>0. /\ disk \in [Disks -> Disk] /\ drive \in [Disks -> DriveKinds]
      /\ worker \in [Threads -> WorkerPcs] /\ d \in Threads /\ disk[d] \in Disk
      /\ phase = "erasing" /\ ch \in 0 .. Capacity
  BY DEF TypeOK, Threads, WorkerStep, Prepare, DriveInfo, SetPassword, SecureErase,
         Overwrite, WritePatterns, OpenForVerify, Verify, At
<1>1. faults' \in 0 .. MaxFaults /\ outages' \in 0 .. MaxOutages
  BY BudgetType DEF WorkerStep, Prepare, DriveInfo, SetPassword, SecureErase,
         Overwrite, WritePatterns, OpenForVerify, Verify
<1>2. bootFile' = bootFile /\ drive' = drive /\ status' = status /\ lcd' = lcd
      /\ patch' = patch /\ saved' = saved
  BY DEF WorkerStep, Prepare, DriveInfo, SetPassword, SecureErase,
         Overwrite, WritePatterns, OpenForVerify, Verify, shared, Send
<1>3. ch' \in 0 .. Capacity
  <2>1. ch' = ch \/ (ch < Capacity /\ ch' = ch + 1)
    BY DEF WorkerStep, Prepare, DriveInfo, SetPassword, SecureErase,
       Overwrite, WritePatterns, OpenForVerify, Verify, shared, Send
  <2> QED BY <1>0, <2>1 DEF Capacity
<1>4. disk' \in [Disks -> Disk]
  <2>1. \/ UNCHANGED disk
        \/ \E contents \in Disk : Change(d, contents)
    BY <1>0, DiskChanges, DiskRecords DEF WorkerStep, Prepare, DriveInfo, SetPassword,
       SecureErase, Overwrite, WritePatterns, OpenForVerify, Verify
  <2> QED BY <1>0, <2>1, ChangeKeeps
<1>5. /\ worker' \in [Threads -> WorkerPcs]
      /\ phase' \in {"erasing", "panic"}
  <2>1. \/ phase' = "panic" /\ UNCHANGED worker
        \/ \E pc \in WorkerPcs : To(d, pc)
    BY DEF WorkerStep, Prepare, DriveInfo, SetPassword, SecureErase,
       Overwrite, WritePatterns, OpenForVerify, Verify, WorkerPcs
  <2>2. CASE phase' = "panic" /\ UNCHANGED worker
    BY <1>0, <2>2
  <2>3. CASE \E pc \in WorkerPcs : To(d, pc)
    BY <1>0, <2>3, ToKeeps DEF To
  <2> QED BY <2>1, <2>2, <2>3
<1> QED BY <1>1, <1>2, <1>3, <1>4, <1>5 DEF TypeOK, Threads

(* So does every step of a failure message (user.go:53).                    *)
LEMMA FailureStepType ==
  ASSUME TypeOK, NEW w \in Threads, FailureStep(w) \/ (w \in Disks /\ PatchBootFile(w))
  PROVE  TypeOK'
<1>0. worker \in [Threads -> WorkerPcs]
  BY DEF TypeOK, Threads
<1>1. faults' \in 0 .. MaxFaults /\ outages' \in 0 .. MaxOutages
  BY BudgetType DEF FailureStep, PatchBootFile, BlinkMsg, DrawFails, DrawLogged, BlinkEnds,
     Fatalf
<1>2. /\ worker' \in [Threads -> WorkerPcs]
      /\ phase' \in {phase, "off"}
  <2>1. \/ UNCHANGED worker /\ phase' = "off"
        \/ \E pc \in WorkerPcs : To(w, pc)
    BY DEF FailureStep, PatchBootFile, BlinkMsg, DrawFails, DrawLogged, BlinkEnds, Fatalf,
       WorkerPcs
  <2> QED BY <1>0, <2>1, ToKeeps DEF To
<1>3. /\ UNCHANGED <<bootFile, drive, ch, status, saved, disk>>
      /\ lcd' \in {lcd, w, "free"} /\ patch' \in {patch, "read"}
  BY DEF FailureStep, PatchBootFile, BlinkMsg, DrawFails, DrawLogged, BlinkEnds, Fatalf,
     shared
<1> QED BY <1>1, <1>2, <1>3 DEF TypeOK, Threads

(* Every step keeps the types.                                              *)
LEMMA NextType == TypeOK /\ [Next]_vars => TypeOK'
<1> SUFFICES ASSUME TypeOK, [Next]_vars PROVE TypeOK'
  OBVIOUS
<1>0. worker \in [Threads -> WorkerPcs] /\ disk \in [Disks -> Disk]
  BY DEF TypeOK, Threads
<1>1. CASE PowerOn
  <2>1. worker' \in [Threads -> WorkerPcs]
    BY <1>1 DEF PowerOn, Idle, Threads, WorkerPcs
  <2>2. disk' \in [Disks -> Disk]
    BY <1>0, <1>1, DiskChanges DEF PowerOn
  <2>3. faults' \in 0 .. MaxFaults /\ outages' \in 0 .. MaxOutages
    BY <1>1, BudgetType DEF PowerOn
  <2> QED BY <1>1, <2>1, <2>2, <2>3 DEF PowerOn, TypeOK, Threads, Capacity
<1>2. CASE Erase
  <2>1. worker' \in [Threads -> WorkerPcs]
    BY <1>0, <1>2 DEF Erase, Threads, WorkerPcs
  <2>2. faults' \in 0 .. MaxFaults /\ outages' \in 0 .. MaxOutages
    BY <1>2, BudgetType DEF Erase
  <2> QED BY <1>2, <2>1, <2>2 DEF Erase, TypeOK, Threads
<1>3. CASE AllErased
  BY <1>3, BudgetType DEF AllErased, shared, TypeOK
<1>4. CASE RestoreMetadata
  <2>1. disk' \in [Disks -> Disk]
    BY <1>0, <1>4, DiskChanges DEF RestoreMetadata
  <2>2. faults' \in 0 .. MaxFaults /\ outages' \in 0 .. MaxOutages
    BY <1>4, BudgetType DEF RestoreMetadata
  <2> QED BY <1>4, <2>1, <2>2 DEF RestoreMetadata, shared, TypeOK
<1>5. CASE Success
  <2>1. worker' \in [Threads -> WorkerPcs]
    BY <1>0, <1>5 DEF Success, Threads, WorkerPcs
  <2>2. faults' \in 0 .. MaxFaults /\ outages' \in 0 .. MaxOutages
    BY <1>5, BudgetType DEF Success
  <2> QED BY <1>5, <2>1, <2>2 DEF Success, TypeOK, Threads
<1>6. CASE RebootSuccess
  BY <1>6, BudgetType DEF RebootSuccess, shared, TypeOK
<1>7. CASE \E d \in Disks : WorkerStep(d)
  BY <1>7, WorkerStepType
<1>8. CASE \E w \in Threads : FailureStep(w) \/ (w \in Disks /\ PatchBootFile(w))
  BY <1>8, FailureStepType
<1>9. CASE PatchThread
  BY <1>9, BudgetType DEF PatchThread, PatchRead, PatchWrite, TypeOK
<1>10. CASE StatusThread
  BY <1>10, BudgetType DEF StatusThread, Status, StatusShown, TypeOK, Capacity
<1>11. CASE Panic
  BY <1>11, BudgetType DEF Panic, shared, TypeOK
<1>12. CASE PowerFailure
  <2>1. MaxOutages \in Nat
    BY EraseAssumption
  <2> QED BY <1>12, <2>1 DEF PowerFailure, shared, TypeOK
<1>13. CASE UNCHANGED vars
  BY <1>13 DEF vars, TypeOK
<1> QED
  BY <1>1, <1>2, <1>3, <1>4, <1>5, <1>6, <1>7, <1>8, <1>9, <1>10, <1>11, <1>12, <1>13
  DEF Next, Main, MainStep, Worker, Threads

(* A worker's step keeps what the marks of the disks tell (erase.go:186).   *)
LEMMA WorkerStepMarks ==
  ASSUME IInv, NEW d \in Disks, WorkerStep(d)
  PROVE  MarksTell' /\ AfterErasing'
<1>0. /\ disk \in [Disks -> Disk] /\ worker \in [Threads -> WorkerPcs]
      /\ d \in Threads /\ disk[d] \in Disk
      /\ phase = "erasing" /\ \A e \in Disks : Tells(worker[e], disk[e])
  BY DEF IInv, MarksTell, TypeOK, Threads, WorkerStep, Prepare, DriveInfo, SetPassword,
         SecureErase, Overwrite, WritePatterns, OpenForVerify, Verify, At
<1>1. ASSUME NEW pc \in WorkerPcs, To(d, pc), NEW x \in Disk, Tells(pc, x),
             Change(d, x) \/ (UNCHANGED disk /\ x = disk[d])
      PROVE  MarksTell' /\ AfterErasing'
  <2>1. phase' = "erasing"
    BY <1>0, <1>1 DEF To
  <2>2. worker'[d] = pc /\ \A e \in Disks \ {d} : worker'[e] = worker[e]
    BY <1>0, <1>1, ToKeeps DEF Threads
  <2>3. disk'[d] = x /\ \A e \in Disks \ {d} : disk'[e] = disk[e]
    BY <1>0, <1>1, ChangeKeeps
  <2>4. \A e \in Disks : Tells(worker'[e], disk'[e])
    BY <1>0, <1>1, <2>2, <2>3
  <2> QED BY <2>1, <2>4 DEF MarksTell, AfterErasing, Tells, Area
<1>2. ASSUME phase' = "panic"
      PROVE  MarksTell' /\ AfterErasing'
  BY <1>2 DEF MarksTell, AfterErasing
<1>3. Tells(worker[d], disk[d])
  BY <1>0
<1>4. \A x \in Disk : \A pc \in {"prepare", "failing"} : Tells(pc, x)
  BY DEF Tells
<1>5. CASE Prepare(d)
  <2> DEFINE x == [disk[d] EXCEPT !.marks = Area]
  <2>1. x \in Disk /\ x.marks = Area
    BY <1>0, DiskChanges DEF Disk
  <2>2. Tells("info", x)
    BY <2>1 DEF Tells
  <2>3. CASE Change(d, x) /\ To(d, "info")
    BY <1>1, <2>1, <2>2, <2>3 DEF WorkerPcs
  <2>4. CASE To(d, "failing") /\ UNCHANGED disk
    BY <1>0, <1>1, <1>4, <2>4 DEF WorkerPcs
  <2> QED BY <1>5, <2>3, <2>4 DEF Prepare
<1>6. CASE DriveInfo(d)
  <2>1. disk[d].marks = Area
    BY <1>3, <1>6 DEF DriveInfo, At, Tells
  <2>2. Tells("setpass", disk[d]) /\ Tells("overwrite", disk[d])
    BY <2>1 DEF Tells
  <2>3. UNCHANGED disk /\ (To(d, "setpass") \/ To(d, "overwrite") \/ phase' = "panic")
    BY <1>6 DEF DriveInfo
  <2> QED BY <1>0, <1>1, <1>2, <2>2, <2>3 DEF WorkerPcs
<1>7. CASE SetPassword(d)
  <2> DEFINE x == [disk[d] EXCEPT !.password = TRUE]
  <2>1. disk[d].marks = Area
    BY <1>3, <1>7 DEF SetPassword, At, Tells
  <2> HIDE DEF x
  <2>a. x \in Disk
    BY <1>0, DiskChanges DEF x
  <2>b. x.marks = disk[d].marks
    BY <1>0 DEF Disk, x
  <2>2. x \in Disk /\ x.marks = Area
    BY <2>1, <2>a, <2>b
  <2>3. Tells("secureErase", x) /\ Tells("overwrite", disk[d])
    BY <2>1, <2>2 DEF Tells
  <2>4. CASE Change(d, x) /\ To(d, "secureErase")
    BY <1>1, <2>2, <2>3, <2>4 DEF WorkerPcs
  <2>5. CASE UNCHANGED disk /\ To(d, "overwrite")
    BY <1>0, <1>1, <2>3, <2>5 DEF WorkerPcs
  <2> QED BY <1>7, <2>4, <2>5 DEF SetPassword, x
<1>8. CASE SecureErase(d)
  <2>1. disk[d].marks = Area
    BY <1>3, <1>8 DEF SecureErase, At, Tells
  <2>2. Tells("open", Erased) /\ Tells("overwrite", disk[d])
    BY <2>1, DiskRecords DEF Tells
  <2>3. CASE Change(d, Erased) /\ To(d, "open")
    BY <1>1, <2>2, <2>3, DiskRecords DEF WorkerPcs
  <2>4. CASE UNCHANGED disk /\ To(d, "overwrite")
    BY <1>0, <1>1, <2>2, <2>4 DEF WorkerPcs
  <2> QED BY <1>8, <2>3, <2>4 DEF SecureErase
<1>9. CASE Overwrite(d)
  <2>1. Tells("writing", disk[d])
    BY <1>3, <1>9 DEF Overwrite, At, Tells
  <2>2. UNCHANGED disk /\ To(d, "writing")
    BY <1>9 DEF Overwrite
  <2> QED BY <1>0, <1>1, <2>1, <2>2 DEF WorkerPcs
<1>10. CASE WritePatterns(d)
  <2>1. disk[d].marks = Area /\ disk[d].old \subseteq Area
    BY <1>0, <1>3, <1>10 DEF WritePatterns, At, Tells, Disk
  <2> DEFINE all == [disk[d] EXCEPT !.old = {}, !.marks = {}, !.metadata = FALSE]
             upTo(n) == [disk[d] EXCEPT !.old = @ \ (1 .. n - 1), !.marks = @ \ (1 .. n)]
  <2>2. all \in Disk /\ all.old = {}
    BY <1>0, DiskChanges DEF Disk
  <2>3. Tells("verify", all)
    BY <2>2 DEF Tells
  <2>4. ASSUME NEW n \in Area PROVE upTo(n) \in Disk /\ Tells("verify", upTo(n))
    <3>1. upTo(n) \in Disk
      BY <1>0, DiskChanges
    <3>2. /\ upTo(n).old = disk[d].old \ (1 .. n - 1)
          /\ upTo(n).marks = disk[d].marks \ (1 .. n)
      BY <1>0 DEF Disk
    <3>3. Regions \in Nat \ {0} /\ n \in 1 .. Regions
      BY EraseAssumption DEF Area
    <3>4. ASSUME upTo(n).marks = {} PROVE upTo(n).old \subseteq {Regions}
      <4>1. Regions \in 1 .. n
        BY <2>1, <3>2, <3>4, DiskRecords
      <4>2. n = Regions
        BY <3>3, <4>1
      <4> QED BY <2>1, <3>2, <3>3, <4>2 DEF Area
    <3> QED BY <3>1, <3>4 DEF Tells
  <2>5. Tells("open", disk[d])
    BY <2>1, DiskRecords DEF Tells
  <2>6. CASE Change(d, all) /\ To(d, "verify")
    BY <1>1, <2>2, <2>3, <2>6 DEF WorkerPcs
  <2>7. CASE \E n \in Area : Change(d, upTo(n)) /\ To(d, "verify")
    <3>1. PICK n \in Area : Change(d, upTo(n)) /\ To(d, "verify")
      BY <2>7
    <3> HIDE DEF upTo
    <3> QED BY <1>1, <2>4, <3>1 DEF WorkerPcs
  <2>8. CASE UNCHANGED disk /\ To(d, "open")
    BY <1>0, <1>1, <2>5, <2>8 DEF WorkerPcs
  <2> QED BY <1>10, <2>6, <2>7, <2>8 DEF WritePatterns
<1>11. CASE OpenForVerify(d)
  <2>1. Tells("verify", disk[d])
    BY <1>3, <1>11 DEF OpenForVerify, At, Tells
  <2>2. UNCHANGED disk /\ (To(d, "verify") \/ phase' = "panic")
    BY <1>11 DEF OpenForVerify
  <2> QED BY <1>0, <1>1, <1>2, <2>1, <2>2 DEF WorkerPcs
<1>12. CASE Verify(d)
  <2>1. disk[d].marks = {} => Tells("done", disk[d])
    BY <1>3, <1>12 DEF Verify, At, Tells
  <2>2. /\ UNCHANGED disk
        /\ (disk[d].marks = {} /\ To(d, "done")) \/ To(d, "failing")
    BY <1>12 DEF Verify
  <2> QED BY <1>0, <1>1, <1>4, <2>1, <2>2 DEF WorkerPcs
<1> QED BY <1>5, <1>6, <1>7, <1>8, <1>9, <1>10, <1>11, <1>12 DEF WorkerStep

(* So does every other step; the main thread goes on to success only from   *)
(* workers that are all done (erase.go:159).                                *)
LEMMA NextMarks == IInv /\ [Next]_vars => MarksTell' /\ AfterErasing'
<1> SUFFICES ASSUME IInv, [Next]_vars PROVE MarksTell' /\ AfterErasing'
  OBVIOUS
<1>0. /\ worker \in [Threads -> WorkerPcs] /\ disk \in [Disks -> Disk]
      /\ \A d \in Disks : disk[d] \in Disk
      /\ MarksTell /\ AfterErasing
  BY DEF IInv, TypeOK, Threads
<1>1. CASE PowerOn
  BY <1>1 DEF PowerOn, MarksTell, AfterErasing
<1>2. CASE Erase
  <2>1. phase' = "failing" \/ (phase' = "erasing" /\ \A d \in Disks : worker'[d] = "prepare")
    <3>1. "main" \notin Disks
      BY EraseAssumption
    <3> QED BY <1>0, <1>2, <3>1 DEF Erase, Threads
  <2> QED BY <2>1 DEF MarksTell, AfterErasing, Tells
<1>3. CASE AllErased
  BY <1>0, <1>3 DEF AllErased, MarksTell, AfterErasing, Tells
<1>4. CASE RestoreMetadata
  <2>1. \A d \in Disks : disk'[d].old = disk[d].old
    BY <1>0, <1>4 DEF RestoreMetadata, Disk
  <2> QED BY <1>0, <1>4, <2>1 DEF RestoreMetadata, MarksTell, AfterErasing
<1>5. CASE Success
  BY <1>0, <1>5 DEF Success, MarksTell, AfterErasing
<1>6. CASE RebootSuccess \/ Panic \/ PowerFailure
  BY <1>6 DEF RebootSuccess, Panic, PowerFailure, MarksTell, AfterErasing
<1>7. CASE \E d \in Disks : WorkerStep(d)
  BY <1>7, WorkerStepMarks
<1>8. CASE \E w \in Threads : FailureStep(w) \/ (w \in Disks /\ PatchBootFile(w))
  <2>1. PICK w \in Threads : FailureStep(w) \/ (w \in Disks /\ PatchBootFile(w))
    BY <1>8
  <2>2. /\ UNCHANGED disk /\ phase \in {"erasing", "failing", "success"}
        /\ \/ UNCHANGED worker /\ phase' = "off"
           \/ \E pc \in {"waitlcd", "blinking", "drawlog", "fatal"} : To(w, pc)
    BY <2>1 DEF FailureStep, PatchBootFile, BlinkMsg, DrawFails, DrawLogged, BlinkEnds, Fatalf,
       Failing, Drawing
  <2>3. CASE phase' = "off"
    BY <2>3 DEF MarksTell, AfterErasing
  <2>4. CASE \E pc \in {"waitlcd", "blinking", "drawlog", "fatal"} : To(w, pc)
    <3>1. PICK pc \in {"waitlcd", "blinking", "drawlog", "fatal"} : To(w, pc)
      BY <2>4
    <3>2. worker'[w] = pc /\ \A e \in Threads \ {w} : worker'[e] = worker[e]
      BY <1>0, <3>1, ToKeeps DEF WorkerPcs
    <3>3. UNCHANGED phase
      BY <3>1 DEF To
    <3>4. ASSUME phase = "erasing", NEW d \in Disks PROVE Tells(worker'[d], disk[d])
      <4>1. CASE d = w
        BY <3>2, <4>1 DEF Tells
      <4>2. CASE d # w
        BY <1>0, <3>2, <3>4, <4>2 DEF MarksTell, Threads
      <4> QED BY <4>1, <4>2
    <3> QED BY <1>0, <2>2, <3>3, <3>4 DEF MarksTell, AfterErasing
  <2> QED BY <2>2, <2>3, <2>4
<1>9. CASE PatchThread
  BY <1>0, <1>9 DEF PatchThread, PatchRead, PatchWrite, MarksTell, AfterErasing
<1>10. CASE StatusThread
  BY <1>0, <1>10 DEF StatusThread, Status, StatusShown, MarksTell, AfterErasing
<1>11. CASE UNCHANGED vars
  BY <1>0, <1>11 DEF vars, MarksTell, AfterErasing
<1> QED
  BY <1>1, <1>2, <1>3, <1>4, <1>5, <1>6, <1>7, <1>8, <1>9, <1>10, <1>11
  DEF Next, Main, MainStep, Worker, Threads

(* IInv holds in every state of an erase (erase.go:92 and user.go:36).      *)
LEMMA Invariant == Spec => []IInv
<1>1. IInv /\ [Next]_vars => IInv'
  BY NextType, NextMarks DEF IInv
<1> QED BY InitIInv, <1>1, PTL DEF Spec

(* The state of an erase keeps its type; in particular the channel of       *)
(* estimates never holds more than it can (erase.go:148).                   *)
THEOREM EraseTypeCorrect == Spec => []TypeOK
<1>1. IInv => TypeOK
  BY DEF IInv
<1> QED BY Invariant, <1>1, PTL

(* For any number of disks, faults and power failures: success              *)
(* (user.go:36) is displayed only when nothing is left up to the last mark  *)
(* of each disk.                                                            *)
THEOREM SuccessIsErasure == Spec => []SuccessMeansErased
<1>1. IInv => SuccessMeansErased
  BY DEF IInv, AfterErasing, SuccessMeansErased
<1> QED BY Invariant, <1>1, PTL
=============================================================================
