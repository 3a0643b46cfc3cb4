------------------------------ MODULE UnitTables ------------------------------
(***************************************************************************)
(* What is decided about a unit: which model it is, whether it has the bus  *)
(* devices it is to have, which image, kernel and disks a restore takes,    *)
(* and what an erase takes from its disks and gives back.  A state is one   *)
(* input, which an action chooses, and an invariant says what must be true  *)
(* of the result.  Inputs are constants of any size, so that the invariants *)
(* can be proved of the algorithms; Tables adds those that are checked on   *)
(* small inputs only.                                                       *)
(***************************************************************************)
EXTENDS Platform, HardwareQA, InstallChoice, RaidMetadata

CONSTANTS SkuFields,   \* where firmware may have a sku
          Catalogues,  \* lists of known variants
          Units,       \* what firmware says of units
          Codes,       \* code names a recovery volume may have
          BusLists,    \* bus devices found, by their kind
          BusSpecs,    \* bus devices required
          ImageLists,  \* images in the order they are tried
          KernelFiles, \* what may be there of a kernel
          DiskLists,   \* sizes of the disks a restore may write to
          Platforms,   \* how many disks it is to find, and how large
          DiskSizes,   \* sizes of disks, in cells
          Required,    \* of what a disk's transfers must be multiples
          Sectors,     \* sizes of logical sectors
          Begins,      \* where reads and writes begin
          Lengths,     \* of how many cells they are
          DeviceLists, \* disks an erase comes across
          DiskCounts   \* how many data disks a platform may have

Variant == [mfg : STRING, prod : STRING, skuField : SkuFields, matches : SUBSET STRING, cpus : Seq(STRING), code : STRING]
UnitData == [boardMfg : STRING, boardProd : STRING, sysMfg : STRING, sysProd : STRING,
             skus : [SkuFields -> STRING], cpus : Seq(STRING)]
Device == [name : STRING, type : {"imsm", "ddf", "unset", "unknown", "skipped"}, size : Nat]

BusDevice == [kind : STRING \ {Unreadable}, qty : Nat]
Image == [sha256 : BOOLEAN, sound : BOOLEAN, fits : BOOLEAN, history : BOOLEAN]
KernelFile == [exists : BOOLEAN, kernel : BOOLEAN, hashes : Nat, spaced : BOOLEAN, build : Nat]
PlatformDisks == [diskSize : Nat, dataDisks : Nat \ {0}, setTol : Nat, tgtTol : Nat]

ASSUME PlatformAssumption ==
  /\ \A catalogue \in Catalogues : catalogue \in Seq(Variant)
  /\ Units \subseteq UnitData

ASSUME DevicesAssumption ==
  /\ \A devs \in BusLists : devs \in Seq(STRING)
  /\ \A required \in BusSpecs : required \in Seq(BusDevice)

ASSUME InstallAssumption ==
  /\ \A images \in ImageLists : images \in Seq(Image)
  /\ KernelFiles \subseteq KernelFile
  /\ \A disks \in DiskLists : disks \in Seq(Nat)
  /\ Platforms \subseteq PlatformDisks

\* Disks are made of sectors of 512 bytes and hold at least what is looked at
\* of them; what they ask of transfers is a power of 2.
ASSUME RaidAssumption ==
  /\ DiskSizes \subseteq Nat /\ \A size \in DiskSizes : size % MinAlign = 0 /\ size >= DetectSize
  /\ Required \subseteq Nat \ {0} /\ \A r \in Required : r > MaxAlign \/ r \in {1, 2, 4, 8}
  /\ Sectors \subseteq Nat \ {0} /\ Begins \subseteq Int /\ Lengths \subseteq Nat \ {0}
  /\ NoSecondary \in Nat /\ \A size \in DiskSizes : size < NoSecondary
  /\ \A devices \in DeviceLists : devices \in Seq(Device)
  /\ DiskCounts \subseteq Nat \ {0}

VARIABLE item

NoCase == [kind |-> "none"]

\* ----------------------------------------------------------------- inputs

Lcds == {"631", "635", "none"}
Facts == [prototype : BOOLEAN, lcd : Lcds, validation : {"usb", "sata", "none", "9p"}, location : {"9p", "byLabel"}]
FactCases == [kind : {"facts"}, facts : Facts, found : Lcds]
UnitCases == [kind : {"unit"}, variants : Catalogues, unit : Units, code : Codes]

ChooseFacts == item = NoCase /\ item' \in FactCases
ChooseUnit  == item = NoCase /\ item' \in UnitCases

DevicesCases == [kind : {"devices"}, devs : BusLists, required : BusSpecs]
ImagesCases == [kind : {"images"}, images : ImageLists, low : BOOLEAN, fault : {"none", "no buffer"}]
KernelsCases == [kind : {"kernels"}, image : KernelFiles, recovery : KernelFiles, override : BOOLEAN, fault : {"none", "open dest", "open source", "copy"}]
TargetsCases == [kind : {"targets"}, disks : DiskLists, platform : Platforms]

ChooseDevices == item = NoCase /\ item' \in DevicesCases
ChooseImages  == item = NoCase /\ item' \in ImagesCases
ChooseKernels == item = NoCase /\ item' \in KernelsCases
ChooseTargets == item = NoCase /\ item' \in TargetsCases

\* A disk of which part is read or written; its cells tell where they are.
Disk(cells, required, sector, alignment, writeFails) ==
  [cells |-> cells, required |-> required, sector |-> sector, alignment |-> alignment, writeFails |-> writeFails]
ChooseTransfer ==
  /\ item = NoCase
  /\ \E size \in DiskSizes, required \in Required, alignment \in {0, 2, 4, 8}, at \in Begins, len \in Lengths :
       /\ size % required = 0
       /\ item' = [kind |-> "transfer", at |-> at, len |-> len,
                   disk |-> Disk([i \in 1 .. size |-> i], required, MinAlign, alignment, FALSE)]

\* A disk with metadata, its headers in the sectors pri and sec, or with an
\* anchor and the headers missing.
DataDisk(size, metadata, sector, pri, sec) ==
  LET imsm == IF metadata = "imsm" THEN {size - 3} ELSE {}
      ddf  == CASE metadata = "ddf"      -> {size - 1, sector * pri + 1, sector * sec + 1}
                [] metadata = "headless" -> {size - 1}
                [] OTHER                 -> {}
  IN [i \in 1 .. size |-> IF metadata \in {"ddf", "headless"} /\ i = size THEN [pri |-> pri, sec |-> sec]
                          ELSE IF i \in imsm THEN "imsm" ELSE IF i \in ddf THEN "ddf" ELSE "data"]
ChooseRaidDisk ==
  /\ item = NoCase
  /\ \E size \in DiskSizes, metadata \in {"imsm", "ddf", "headless", "none"}, required \in Required, sector \in Sectors,
       writeFails \in BOOLEAN :
     \E pri \in 0 .. size, sec \in (0 .. size) \cup {NoSecondary} :
       /\ size % required = 0 /\ required <= MaxAlign
       /\ \A lba \in {pri, sec} \ {NoSecondary} : sector * lba <= size
       /\ pri # sec /\ (metadata \in {"imsm", "none"} => pri = 0 /\ sec = 1)
       /\ item' = [kind |-> "raid", metadata |-> metadata, pri |-> pri, sec |-> sec,
                   disk |-> Disk(DataDisk(size, metadata, sector, pri, sec), required, sector, 0, writeFails)]

ArrayCases == [kind : {"arrays"}, devices : DeviceLists, dataDisks : DiskCounts]
ChooseArrays == item = NoCase /\ item' \in ArrayCases

Init == item = NoCase
UnitNext == ChooseFacts \/ ChooseUnit \/ ChooseDevices \/ ChooseImages \/ ChooseKernels \/ ChooseTargets
            \/ ChooseTransfer \/ ChooseRaidDisk \/ ChooseArrays
UnitSpec == Init /\ [][UnitNext]_item

\* ------------------------------------------------------------ the unit

Times(cpus, c) == Cardinality({i \in 1 .. Len(cpus) : cpus[i] = c})

\* A variant for a board or system like the unit's, with each of the unit's
\* processors as many times as the unit or more, in any order.
HasCpus(variant, cpus) ==
  variant.cpus = << >> \/ \A c \in ToSet(cpus \o variant.cpus) : Times(variant.cpus, c) >= Times(cpus, c)
IsPlatform(unit, variant) ==
  /\ <<variant.mfg, variant.prod>> \in {<<unit.boardMfg, unit.boardProd>>, <<unit.sysMfg, unit.sysProd>>}
  /\ unit.skus[variant.skuField] \in variant.matches
  /\ HasCpus(variant, unit.cpus)

\* A unit is taken for a platform only if its board or system, its sku and
\* all its processors are that platform's (identify, identify.go:42), is
\* identified without the recovery volume whenever there is such a platform,
\* and is the same one however its processors are listed.
PlatformIsTheUnits(variants, unit, code) ==
  LET found == IdentifyWithFallback(variants, unit, code)
      fit == {i \in 1 .. Len(variants) : IsPlatform(unit, variants[i])}
  IN /\ IF fit = {} THEN found.fallback \/ found.idx = 0 ELSE ~found.fallback /\ found.idx \in fit
     /\ found.fallback /\ found.idx # 0 => variants[found.idx].code = code
     /\ found = IdentifyWithFallback(variants, [unit EXCEPT !.cpus = Reverse(@)], code)

\* Manufacturing lets a unit pass only if it has each bus device it is to
\* have as many times as is specified, and then always, whatever order its
\* devices come in and how many cannot be read (bdcompare, devices.go:311).
DevicesAreJudged(required, devs) ==
  CompareDevices(required, Populate(devs)) = 0 <=>
    \A i \in 1 .. Len(required) : Times(devs, required[i].kind) = required[i].qty

\* A unit is taken for what it is, by its firmware and by its devices, and
\* the installed system reads the facts that restore wrote for it
\* (lightweight.go:32, json.go).
UnitIsKnown ==
  /\ item.kind = "facts" =>
       Read(WriteOut(item.facts, item.found)) =
         [item.facts EXCEPT !.lcd = IF item.facts.prototype /\ item.found # "none" THEN item.found ELSE @]
  /\ item.kind = "unit" => PlatformIsTheUnits(item.variants, item.unit, item.code)
  /\ item.kind = "devices" => DevicesAreJudged(item.required, item.devs)

\* --------------------------------------------------------- the installation

\* The first image that is good is found, and is the one that is extracted.
IsGood(images, i) ==
  images[i].sha256 /\ images[i].sound /\ (images[i].history \/ i = Len(images))
FirstGoodTaken(images, low, fault) ==
  LET found == FindValidUpd(images, [low |-> low, buf |-> 0], fault)
      good  == {i \in 1 .. Len(images) : IsGood(images, i)}
  IN /\ found.chosen # 0 => found.chosen \in good /\ ApplyUpd(found) = found.chosen
     /\ good # {} /\ (low \/ fault = "none") => found.chosen = Min(good)

\* A readable kernel is left, and without a fault only the newest.
ReadableBuilds(files) == {GetKBuild(f) : f \in files} \ {NoBuild}
NewestIsLeft(image, recovery, after, fault) ==
  LET before == ReadableBuilds({image, recovery})
      left   == ReadableBuilds({after.image, after.recovery})
  IN before # {} => left # {} /\ (fault = "none" => left = {Max(before)})

\* Disks of the unit near the size of the platform and alike are found
\* whenever all that are near it are alike.
NearDisks(disks, for) == {i \in 1 .. Len(disks) : SizeToleranceMatch(disks[i], for.diskSize, for.tgtTol)}
TargetsAreFit(disks, for, out) ==
  /\ out # NoDisks =>
       /\ Len(out) = for.dataDisks
       /\ \A i \in 1 .. Len(out) :
            /\ Times(out, out[i]) <= Times(disks, out[i])
            /\ SizeToleranceMatch(out[i], for.diskSize, for.tgtTol)
            /\ \A j \in 1 .. Len(out) : out[i] <= out[j] => SizeToleranceMatch(out[i], out[j], for.setTol)
  /\ /\ Cardinality(NearDisks(disks, for)) >= for.dataDisks
     /\ \A i, j \in NearDisks(disks, for) : SizeToleranceMatch(disks[i], disks[j], for.setTol)
     => out # NoDisks

\* Restore takes the first update that is good whatever memory the unit has,
\* and extracts that very one (ar.go:38, 133); the disks it installs to are
\* alike and near the platform's size, and are found when there are no
\* others (disk.go:96), and the disk that manufacturing makes the recovery
\* volume of is the only one of its size; on a unit that boots in the legacy
\* way a restore leaves the newest readable kernel both in the installed
\* image and on the recovery volume (misc.go:106, bootable.go:371).
ChoicesAreGood ==
  /\ item.kind = "images" => FirstGoodTaken(item.images, item.low, item.fault)
  /\ item.kind = "kernels" /\ ~item.override =>
       NewestIsLeft(item.image, item.recovery, UseLatestKernel(item.image, item.recovery, FALSE, item.fault), item.fault)
  /\ item.kind = "targets" =>
       LET size     == item.platform.diskSize
           recovery == CreateRecovery(item.disks, size)
       IN /\ TargetsAreFit(item.disks, item.platform, FindTargets(item.disks, item.platform))
          /\ recovery # 0 => \A i \in 1 .. Len(item.disks) : item.disks[i] = size <=> i = recovery

\* --------------------------------------------------------- raid metadata

\* What lies at len cells from at on, as far as the disk goes; a place before
\* the start of a disk is counted from its end.
Place(disk, at) == IF at < 0 THEN DevSize(disk) + at ELSE at
Wanted(disk, at, len) == SubSeq(disk.cells, Place(disk, at) + 1, Min({Place(disk, at) + len, DevSize(disk)}))

\* A disk may refuse when it asks for more than any alignment that is tried,
\* or when the stretch to read would begin before it does.
MayRefuse(disk, at) ==
  \/ disk.required > MaxAlign
  \/ at < 0 /\ Place(disk, at) < disk.alignment /\ DevSize(disk) % disk.alignment # 0
Exact(disk, at, result, expected) ==
  IF Place(disk, at) \notin 0 .. DevSize(disk) - 1 THEN result \in {Error, [data |-> << >>]}
  ELSE result = expected \/ (MayRefuse(disk, at) /\ result = Error)

TransferIsExact(disk, at, len) ==
  LET data    == [i \in 1 .. len |-> -i]
      wanted  == Wanted(disk, at, len)
      written == [disk EXCEPT !.cells = Overlay(@, Place(disk, at), data)]
  IN /\ disk.alignment # 0 => (InRange(disk, at, len) <=> Place(disk, at) + len <= DevSize(disk))
     /\ Exact(disk, at, AlignedRead(disk, at, len), [data |-> wanted])
     /\ Exact(disk, at, AlignedWrite(disk, at, data), IF Len(wanted) < len THEN Error ELSE written)

\* From the first header on for ddf, the last kilobyte for imsm.
RecordOf(case) ==
  LET size == DevSize(case.disk)
  IN CASE case.metadata = "imsm" -> size - 3 .. size
       [] case.metadata = "ddf"  -> case.disk.sector * Min({case.pri, case.sec}) + 1 .. size
       [] OTHER                  -> {}
Wiped(disk) == [disk EXCEPT !.cells = [i \in DOMAIN @ |-> "erased"]]

\* A record is missed only if the sectors are too small, or a header lies
\* where the anchor is or beyond.
RecordIsKept(case, type, saved, after) ==
  /\ type \in {"imsm", "ddf"} => type = case.metadata /\ ~Failed(saved)
  /\ case.metadata = "imsm" => type = "imsm"
  /\ case.metadata = "ddf" /\ type # "ddf" =>
       \/ case.disk.sector % MinAlign # 0
       \/ \E lba \in {case.pri, case.sec} \ {NoSecondary} : case.disk.sector * lba >= DevSize(case.disk) - AnchorSize
  /\ IF type \notin {"imsm", "ddf"} \/ case.disk.writeFails THEN after = Error
     ELSE after.cells = [i \in DOMAIN case.disk.cells |-> IF i \in RecordOf(case) THEN case.disk.cells[i] ELSE "erased"]

\* The disks that are to be erased are all the data disks found, and if
\* they are alike an array of theirs is found.
ArrayIsWhole(devices, dataDisks) ==
  LET found == FindDevices(devices)
      data  == {i \in 1 .. Len(found) : found[i].type # "unset"}
  IN /\ UNION ToSet(FindArrays(found)) = data
     /\ \A d \in ToSet(found) : d.name \notin {"loop", "recovery"} /\ d.type # "skipped" /\ d \in ToSet(devices)
     /\ OneArray(found, dataDisks) =>
          Cardinality(data) = dataDisks /\ \A i, j \in data : found[i].type = found[j].type
     /\ /\ Cardinality(data) = dataDisks
        /\ \A i, j \in data : found[i].type = found[j].type /\ SizeMatch(found[i], found[j])
        => OneArray(found, dataDisks)

\* An erase leaves each disk its raid metadata and nothing else (Backup and
\* Restore, device.go:213): reads and writes reach exactly the bytes they are
\* for, whatever alignment the disk asks of them (device.go:352, 447), all of
\* a ddf record is kept whichever header comes first (ddf.go:127), and only
\* an array of all data disks, alike in kind and size, is erased (array.go:23).
RaidIsKept ==
  /\ item.kind = "transfer" => TransferIsExact(item.disk, item.at, item.len)
  /\ item.kind = "raid" =>
       LET type  == DetectRaidType(item.disk, 0)
           saved == Backup(item.disk, type)
       IN RecordIsKept(item, type, saved, Restore(Wiped(item.disk), type, saved))
  /\ item.kind = "arrays" => ArrayIsWhole(item.devices, item.dataDisks)
=============================================================================
