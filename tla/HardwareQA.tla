----------------------------- MODULE HardwareQA -----------------------------
(***************************************************************************)
(* The comparison of a unit's hardware with the specification of its model  *)
(* during manufacturing (pkg/mfg/qa, pkg/hw/block, pkg/hw/nic).             *)
(*                                                                          *)
(* A bus device is a kind (vendor, device and class) or Unreadable; a disk  *)
(* has a model (with its vendor), which may be Unreadable, and a size.      *)
(* What is found is a sequence, in the order of the directories of sysfs;   *)
(* what is required is data from the manufacturing server.                  *)
(***************************************************************************)
EXTENDS Integers, Sequences, SequencesExt, FiniteSets, FiniteSetsExt

Unreadable == "unreadable"
Indices(seq) == 1 .. Len(seq)
SumOf(seq, Val(_)) == FoldLeft(LAMBDA sum, e : sum + Val(e), 0, seq)
Qty(disks) == SumOf(disks, LAMBDA d : d.qty)

\* ------------------------------------------------------------ bus devices

\* Counts equal devices; one that cannot be read is passed over.
CountIn(list, Same(_), new) ==
  LET at == {i \in Indices(list) : Same(list[i])}
  IN IF at = {} THEN Append(list, new) ELSE [list EXCEPT ![Min(at)].qty = @ + 1]

TakeDevice(list, k) ==
  IF k = Unreadable THEN list ELSE CountIn(list, LAMBDA e : e.kind = k, [kind |-> k, qty |-> 1])
Populate(devs) == FoldLeft(TakeDevice, << >>, devs)

\* The bug of a comparison that accepts more than what is required.
DeviceMissing(r, detected) ==
  LET same == {i \in Indices(detected) : detected[i].kind = r.kind}
  IN IF same = {} THEN r.qty # 0 ELSE detected[Min(same)].qty < r.qty

\* One error for a requirement whose first match has another quantity, or
\* that has no match and does not ask for none.
DeviceWrong(r, detected) ==
  LET same == {i \in Indices(detected) : detected[i].kind = r.kind}
  IN IF same = {} THEN r.qty # 0 ELSE detected[Min(same)].qty # r.qty

CompareDevices(required, detected) ==
  Cardinality({i \in Indices(required) : DeviceWrong(required[i], detected)})

\* ------------------------------------------------------------------ disks

\* A disk of which something cannot be read is passed over.
BlockDevs(disks) == SelectSeq(disks, LAMBDA d : d.model # Unreadable)

\* Deviation allowed in percent.
SizeMatches(have, want, tol) ==
  (IF want > have THEN want - have ELSE have - want) <= (want * tol) \div 100

\* The recovery disk: found by its model, without a size if there are
\* several of different sizes.
PopulateRecovery(model, devs) ==
  LET same == SelectSeq(devs, LAMBDA d : d.model = model)
  IN [model |-> model, qty |-> Len(same),
      size |-> IF same # << >> /\ \A i \in Indices(same) : same[i].size = same[1].size THEN same[1].size ELSE 0]

DiskWrong(required, detected) ==
  \/ required.size = 0
  \/ detected.qty # required.qty
  \/ detected.size = 0 /\ detected.qty > 1
  \/ ~SizeMatches(detected.size, required.size, required.tol)

RecoveryWrong(required, devs) ==
  LET asked == IF required.qty = 0 THEN [required EXCEPT !.qty = 1] ELSE required
  IN DiskWrong(asked, PopulateRecovery(required.model, BlockDevs(devs)))

\* All disks, those of one model and size together.
FoundDisks(devs) ==
  FoldLeft(LAMBDA list, d : CountIn(list, LAMBDA e : e.model = d.model /\ e.size = d.size,
                                    [model |-> d.model, size |-> d.size, qty |-> 1]),
           << >>, devs)

\* One group of disks against what remains of a configuration: part of an
\* entry's quantity, an entry, or not in the configuration.
TakeFrom(state, d) ==
  LET remaining == state.remaining
      at == {i \in Indices(remaining) : remaining[i].model = d.model /\ remaining[i].qty >= d.qty}
  IN IF at = {} THEN [state EXCEPT !.others = @ + 1]
     ELSE LET i == Min(at)
          IN IF remaining[i].qty = d.qty THEN [state EXCEPT !.remaining = RemoveAt(@, i)]
             ELSE [state EXCEPT !.remaining[i].qty = @ - d.qty]

\* The bug of a configuration that is not compared with the number of disks.
CfgContains(cfg, found) ==
  FoldLeft(TakeFrom, [remaining |-> cfg, others |-> 0], found).remaining = << >>

\* The recovery disk is the one that no configuration names.
CfgMatch(cfg, found) ==
  /\ Qty(cfg) + 1 = Qty(found)
  /\ LET end == FoldLeft(TakeFrom, [remaining |-> cfg, others |-> 0], found)
     IN end.others = 1 /\ end.remaining = << >>

\* Sizes and quantities are those of the last group of the model.
LastOf(found, model) ==
  found[Max({i \in Indices(found) : found[i].model = model})]

\* The configuration that matches first, 0 if none does.
PopulateDisks(cfgs, found) ==
  LET fit == {i \in Indices(cfgs) : CfgMatch(cfgs[i], found)}
  IN IF fit = {} THEN [idx |-> 0, disks |-> << >>]
     ELSE [idx |-> Min(fit), disks |-> [j \in Indices(cfgs[Min(fit)]) |-> LastOf(found, cfgs[Min(fit)][j].model)]]

MainDisksWrong(cfgs, devs) ==
  LET detected == PopulateDisks(cfgs, FoundDisks(BlockDevs(devs)))
  IN detected.idx = 0 \/ \E j \in Indices(detected.disks) : DiskWrong(cfgs[detected.idx][j], detected.disks[j])

\* A typo in the server's data must not leave a disk out.  OneGig stands for
\* the least size of a recovery disk.
SanityCheck(specs, oneGig) ==
  /\ specs.cfgs # << >> /\ \A i \in Indices(specs.cfgs) : specs.cfgs[i] # << >>
  /\ specs.recovery.size >= oneGig
InitDisks(cfgs) == \A i \in Indices(cfgs) : Len(cfgs[i]) = Len(cfgs[1])

\* ------------------------------------------------- memory, cpu and network

\* Less than one percent off.
RamWrong(required, detected) ==
  ~(required * 101 > detected * 100 /\ required * 99 < detected * 100)

\* A processor is its model; each directory of sysfs that begins with cpu
\* counts for a socket, and for socket 0 where it names none.
NoSocket == -1
CpuInfo(processors, dirs) ==
  [model |-> IF processors = << >> THEN "" ELSE processors[1], cores |-> Len(processors),
   sockets |-> Cardinality({IF d = NoSocket THEN 0 ELSE d : d \in ToSet(dirs)}),
   errors |-> \E i \in Indices(processors) : processors[i] # processors[1]]

\* Interfaces: a physical one has a name with e; Prefixed are the addresses
\* of the manufacturer's own range.
Sequential(macs) == \A i \in 1 .. Len(macs) - 1 : macs[i] + 1 = macs[i + 1]
SortedMacs(macs) == SortSeq(macs, <)
NicInfo(nics, Prefixed) ==
  LET physical == SelectSeq(nics, LAMBDA n : n.ethernet)
      own == SelectSeq(physical, LAMBDA n : n.mac \in Prefixed)
  IN [total |-> Len(physical), own |-> Len(own), sequential |-> Sequential(SortedMacs([i \in Indices(own) |-> own[i].mac]))]

\* Firmware versions and dmi data: only what is asked for is compared, and a
\* key that begins with _ is a comment.
FirmwareWrong(required, detected) ==
  Cardinality({k \in DOMAIN required : required[k] # "" /\ required[k] # detected[k]})
DmiWrong(required, detected, comments) ==
  Cardinality({k \in DOMAIN required \ comments : required[k] # detected[k]})

\* ------------------------------------------------------------- all of it

Wrong(condition) == IF condition THEN 1 ELSE 0

\* The number of problems; the unit is given up when there is one.
Compare(specs, hw, Prefixed, comments) ==
    Wrong(specs.cpu # CpuInfo(hw.processors, hw.cpuDirs))
  + Wrong(specs.nics # NicInfo(hw.nics, Prefixed))
  + Wrong(RamWrong(specs.ram, hw.ram))
  + FirmwareWrong(specs.firmware, hw.firmware)
  + Wrong(RecoveryWrong(specs.recovery, hw.disks))
  + Wrong(MainDisksWrong(specs.cfgs, hw.disks))
  + CompareDevices(specs.devices, Populate(hw.devices))
  + DmiWrong(specs.dmi, hw.dmi, comments)

\* A serial number that does not match does for a unit that was identified via
\* fallback; an expression that is none never does.
CheckSN(specs, hw) ==
  specs.serNumRegex.compiles /\ (hw.serNum \in specs.serNumRegex.matches \/ hw.viaFallback)

Validate(specs, hw, Prefixed, comments, oneGig) ==
  SanityCheck(specs, oneGig) /\ CheckSN(specs, hw) /\ InitDisks(specs.cfgs) /\ Compare(specs, hw, Prefixed, comments) = 0
=============================================================================
