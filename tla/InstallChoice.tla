--------------------------- MODULE InstallChoice ---------------------------
(***************************************************************************)
(* What factory restore chooses and lays out: the order of the updates      *)
(* (pkg/recovery/archive), the disks, kernels, boot entries, partitions and *)
(* mount options (pkg/recovery/disk, pkg/hw/uefi, pkg/hw/block).            *)
(***************************************************************************)
EXTENDS Integers, Sequences, SequencesExt, FiniteSets, FiniteSetsExt

Distance(a, b) == IF a > b THEN a - b ELSE b - a

\* ---------------------------------------------------------------- updates

\* An update's name is either no update's at all, or has a date and the
\* digits of a build number.  Together they are read as one number, with
\* the build after the point: MaxDigits bounds the digits of a build.
MaxDigits == 3
Fraction(digits) ==
  FoldLeft(LAMBDA sum, i : sum + digits[i] * 10^(MaxDigits - i), 0, [i \in 1 .. Len(digits) |-> i])

\* The bug of an order that forgets the build.
DecodeDate(name) == IF name.wellFormed THEN name.date ELSE 0

Decode(name) == IF name.wellFormed THEN name.date * 10^MaxDigits + Fraction(name.build) ELSE 0

\* All orders sort.Sort may give: it does not keep equal elements in place.
SortUpdates(names, oldestFirst) ==
  {order \in SetToSeqs(names) :
     \A i \in 1 .. Len(order) - 1 :
       IF oldestFirst THEN Decode(order[i]) <= Decode(order[i + 1])
       ELSE Decode(order[i]) >= Decode(order[i + 1])}

\* An image is decompressed to memory when it is checked, and once more from
\* its file if there is too little memory, from then on for all images.
\* A state is [low |-> lowMemoryDevice, buf |-> the image in decompressBuf];
\* 0 stands for no file there, and Truncated for one without its end.
Truncated == -1
CanBuffer(state, fault) == state.low \/ fault # "no buffer"
RunsOut(image, state)   == ~state.low /\ ~image.fits

\* What is there after a file was written, which a low memory device does not.
Written(state, buf) == [low |-> state.low, buf |-> IF state.low THEN state.buf ELSE buf]

\* The file with an image that does not fit is removed.
\* The bug of leaving it there, and of not going on without it.
LeaveBuf(image, state) == Written(state, Truncated)

RemoveBuf(image, state) == [low |-> state.low \/ RunsOut(image, state), buf |-> 0]

ValidateExtractUpd(images, i, state, fault) ==
  LET image == images[i]
  IN IF ~CanBuffer(state, fault) THEN [ok |-> FALSE, state |-> state]
     ELSE IF ~image.sha256       THEN [ok |-> FALSE, state |-> Written(state, Truncated)]
     ELSE IF ~image.sound        THEN [ok |-> FALSE, state |-> RemoveBuf(image, state)]
     ELSE IF RunsOut(image, state) THEN [ok |-> TRUE, state |-> RemoveBuf(image, state)]
     ELSE [ok |-> TRUE, state |-> Written(state, i)]

\* The first image that is valid; those that have failed too often are passed
\* over, but for the last.
TryUpd(found, i) ==
  IF found.chosen # 0 \/ (~found.images[i].history /\ i # Len(found.images)) THEN found
  ELSE LET checked == ValidateExtractUpd(found.images, i, found.state, found.fault)
       IN [images |-> found.images, fault |-> found.fault, chosen |-> IF checked.ok THEN i ELSE 0, state |-> checked.state]
FindValidUpd(images, state, fault) ==
  FoldLeft(TryUpd, [images |-> images, fault |-> fault, chosen |-> 0, state |-> state], [i \in 1 .. Len(images) |-> i])

\* What is extracted: the buffer, or the file when that is not there.
ApplyUpd(found) ==
  IF found.state.low \/ found.state.buf = 0 THEN found.chosen ELSE found.state.buf

\* ------------------------------------------------------------------ disks

\* A size within tol percent of what is wanted.
SizeToleranceMatch(have, want, tol) == Distance(want, have) <= (want * tol) \div 100

\* The first of the disks that are closest to the size; disks are sizes.
Closest(disks, size) ==
  Min({i \in 1 .. Len(disks) : \A j \in 1 .. Len(disks) : Distance(disks[i], size) <= Distance(disks[j], size)})

\* Takes the closest disk over and over, until there are enough or none is
\* left; one that is too different from the next one is given up.
NoDisks == << >>
TakeClosest(state, round) ==
  IF Len(state.out) = state.count \/ state.rest = << >> THEN state
  ELSE LET at    == Closest(state.rest, state.size)
           grown == Append(state.out, state.rest[at])
           kept  == IF Len(grown) > 1 /\ ~SizeToleranceMatch(grown[1], grown[2], state.setTol) THEN Tail(grown) ELSE grown
       IN [out |-> kept, rest |-> RemoveAt(state.rest, at), size |-> state.size, count |-> state.count, setTol |-> state.setTol]
Taken(disks, size, count, setTol) ==
  LET end == FoldLeft(TakeClosest, [out |-> << >>, rest |-> disks, size |-> size, count |-> count, setTol |-> setTol],
                      [round \in 1 .. Len(disks) |-> round])
  IN IF Len(end.out) = count THEN end.out ELSE NoDisks

\* The disks to install to: as many as the platform has, alike, and close
\* enough to their nominal size.  The last one is the farthest from it.
Filter(disks, size, count, setTol, tgtTol) ==
  IF count > Len(disks) THEN NoDisks
  ELSE LET out == Taken(disks, size, count, setTol)
           far == out = NoDisks \/ ~SizeToleranceMatch(Last(out), size, tgtTol)
           uneven == ~SizeToleranceMatch(Min(ToSet(out)), Max(ToSet(out)), setTol)
       IN IF far \/ uneven THEN NoDisks ELSE out

\* A restore ends when there are none.
FindTargets(disks, platform) ==
  Filter(disks, platform.diskSize, platform.dataDisks, platform.setTol, platform.tgtTol)

\* The recovery disk that manufacturing makes is the only one of its size.
RecoveryCandidates(disks, size) == {i \in 1 .. Len(disks) : disks[i] = size}
CreateRecovery(disks, size) ==
  LET candidates == RecoveryCandidates(disks, size)
  IN IF Cardinality(candidates) = 1 THEN Max(candidates) ELSE 0

\* ---------------------------------------------------------------- kernels

\* The build of a kernel, from the output of file: none when the file is
\* missing, no kernel, or without exactly one # before a number.
NoBuild == 0
KBuildNum(file) ==
  IF file.kernel /\ file.hashes = 1 /\ file.spaced THEN file.build ELSE NoBuild
GetKBuild(file) == IF file.exists THEN KBuildNum(file) ELSE NoBuild

\* The destination is emptied when it is opened, before the source is: it
\* stays empty when the source cannot be opened, and is removed when the copy
\* fails.  What fails after that, the mode or the times, changes no contents.
Missing == [exists |-> FALSE, kernel |-> FALSE, hashes |-> 0, spaced |-> FALSE, build |-> NoBuild]
Emptied == [Missing EXCEPT !.exists = TRUE]
CopyFile(src, dest, fault) ==
  IF ~src.exists \/ fault = "open dest" THEN dest
  ELSE CASE fault = "open source" -> Emptied
         [] fault = "copy"        -> Missing
         [] OTHER                 -> src

\* Which kernel is kept: that of the image only if it is newer, or the
\* recovery volume's cannot be read; "same" leaves both.
CompareKernelVersions(image, recovery) ==
  LET i == GetKBuild(image) r == GetKBuild(recovery)
  IN IF i = NoBuild THEN "recovery" ELSE IF r = NoBuild THEN "image"
     ELSE IF i = r THEN "same" ELSE IF i > r THEN "image" ELSE "recovery"

UseLatestKernel(image, recovery, override, fault) ==
  LET newer == IF override THEN "recovery" ELSE CompareKernelVersions(image, recovery)
  IN [image    |-> IF newer = "recovery" THEN CopyFile(recovery, image, fault) ELSE image,
      recovery |-> IF newer = "image" THEN CopyFile(image, recovery, fault) ELSE recovery]

\* ----------------------------------------------------------- boot entries

OurLabels == {"normal", "restore", "erase"}
Ours(entries) == SelectSeq(entries, LAMBDA e : e \in OurLabels)
CheckMissing(entries) == OurLabels \ ToSet(entries)
OursPresent(entries) == Len(Ours(entries)) = 3 /\ CheckMissing(entries) = {}

\* Adds what is missing; only the entry for a normal boot gets into the boot
\* order, in front of those that are in it.
FixMissing(entries, order) ==
  LET missing == SelectSeq(<<"erase", "restore", "normal">>, LAMBDA e : e \in CheckMissing(entries))
  IN [entries |-> entries \o missing,
      order   |-> IF "normal" \in ToSet(missing) THEN <<"normal">> \o order ELSE order]

\* Manufacturing replaces the entries, restore repairs them.  Keeps says at
\* which places an entry cannot be removed: that is logged, and what is then
\* missing is added beside it.
RemoveOurs(entries, keeps) ==
  LET left == SelectSeq([i \in 1 .. Len(entries) |-> i], LAMBDA i : entries[i] \notin OurLabels \/ i \in keeps)
  IN [k \in 1 .. Len(left) |-> entries[left[k]]]
ConfigUEFIBoot(entries, overwrite, keeps) ==
  IF ~overwrite /\ OursPresent(entries) THEN [entries |-> entries, order |-> entries]
  ELSE LET left == IF overwrite THEN RemoveOurs(entries, keeps) ELSE entries IN FixMissing(left, left)

\* ------------------------------------------------------------- partitions

\* Size 0 is the rest of the disk.
Part(size, type, boot) == [size |-> size, type |-> type, boot |-> boot]

\* An mbr has one bootable partition at most.
AddMbr(parts, part) ==
  LET refused == part.boot /\ (Len(parts) > 3 \/ \E i \in 1 .. Len(parts) : parts[i].boot)
  IN Append(parts, [part EXCEPT !.boot = @ /\ ~refused])
AddGpt(parts, part) == Append(parts, part)

DiskLayout(uefi, raid) ==
  LET main == Part(0, IF raid THEN "raid" ELSE "linux", FALSE)
  IN IF uefi THEN [target |-> 1, parts |-> AddGpt(<< >>, main)]
     ELSE [target |-> 2, parts |-> AddMbr(AddMbr(<< >>, Part(200, "linux", FALSE)), main)]
RecoveryLayout(uefi) ==
  IF uefi THEN AddGpt(AddGpt(<< >>, Part(200, "esp", TRUE)), Part(0, "linux", FALSE))
  ELSE AddMbr(<< >>, Part(0, "linux", TRUE))

\* Where the boot files of a disk go: the partition that is not the target.
BootTarget(target) == IF target = 1 THEN 2 ELSE 1

\* ---------------------------------------------------------- mount options

Owner == {"uid", "gid", "user_id", "group_id"}

\* Options are names; those of an owner have a value, for which they are
\* known by their beginning.
RemoveOpts(opts, removes) == SelectSeq(opts, LAMBDA o : o \notin removes)

\* The recovery volume's options do for several kinds of file system.
FixupRecoveryFS(kind, opts) ==
  CASE kind = "9p"   -> [type |-> "9p", opts |-> RemoveOpts(opts, Owner)]
    [] kind = "ntfs" -> [type |-> "ntfs-3g", opts |-> RemoveOpts(opts, {"discard"})]
    [] kind = "ext4" -> [type |-> "ext4", opts |-> RemoveOpts(opts, Owner)]
    [] OTHER         -> [type |-> "none", opts |-> opts]

\* A mount during restore must fail when the device is not there.
MountOpts(opts) == RemoveOpts(opts, Owner \cup {"nofail", "auto"})
=============================================================================
