----------------------------- MODULE RaidMetadata -----------------------------
(***************************************************************************)
(* Reads and writes of a disk that are not aligned, and the raid metadata   *)
(* that an erase takes from each disk and gives back (pkg/erase/raid).      *)
(*                                                                          *)
(* A disk is a row of cells, two to a sector of 512 bytes, counted from 0.  *)
(* It takes only transfers that are multiples of what it requires.          *)
(***************************************************************************)
EXTENDS Integers, Sequences, SequencesExt, FiniteSets, FiniteSetsExt

CONSTANT NoSecondary   \* in place of the sector of a secondary header: there is none

MinAlign == 2     \* 512 bytes
MaxAlign == 8     \* bound: stands for 16k
Error == [error |-> TRUE]
Failed(result) == result = Error
DevSize(d) == Len(d.cells)
Cells(d, from, to) == SubSeq(d.cells, from + 1, to)

\* The multiple of how at or before a place, and how far the place is from it;
\* a negative place stays negative.
Align(at, how) == [res |-> at - (at % how), off |-> at % how]
InRange(d, at, size) ==
  LET from == IF at < 0 THEN DevSize(d) + at ELSE at
      end  == Align(from + size, d.alignment)
  IN end.res + end.off <= DevSize(d)

\* ------------------------------------------------------- aligned transfers

\* The cells from begin on, and which of them were asked for.  A read beyond
\* the end is cut short, one at the end is an error.
ReadCells(d, begin, off, size, length) ==
  LET total == Min({length, DevSize(d) - begin})
  IN IF begin < 0 \/ begin % d.required # 0 \/ length % d.required # 0 \/ total <= 0 THEN Error
     ELSE [begin |-> begin, buf |-> Cells(d, begin, begin + total),
           from |-> off, to |-> Min({off + size, total})]

\* One read with an alignment.  A negative place is counted from the end of
\* the disk.
TryRead(d, at, size, alignment) ==
  LET first  == Align(at, alignment)
      begin  == IF first.res < 0 THEN DevSize(d) + first.res ELSE first.res
      end    == Align(begin + first.off + size, alignment)
  IN ReadCells(d, begin, first.off, size, (end.res - begin) + (IF end.off > 0 THEN alignment ELSE 0))

\* The alignment that served before, then twice as much each time.
Alignments(d) == {a \in {2, 4, 8} : a >= d.alignment}
RawAlignedRead(d, at, size) ==
  LET usable == {a \in Alignments(d) : ~Failed(TryRead(d, at, size, a))}
  IN IF at > DevSize(d) \/ -at > DevSize(d) \/ usable = {} THEN Error ELSE TryRead(d, at, size, Min(usable))

Asked(r) == IF Failed(r) THEN Error ELSE [data |-> SubSeq(r.buf, r.from + 1, r.to)]
AlignedRead(d, at, size) == Asked(RawAlignedRead(d, at, size))

\* Read, modify, write.
Overlay(row, from, data) ==
  [i \in 1 .. Len(row) |-> IF i \in from + 1 .. from + Len(data) THEN data[i - from] ELSE row[i]]
WriteBack(d, r, data) ==
  IF Failed(r) THEN Error
  ELSE IF r.to - r.from < Len(data) \/ d.writeFails \/ Len(r.buf) % d.required # 0 THEN Error
  ELSE [d EXCEPT !.cells = Overlay(@, r.begin, Overlay(r.buf, r.from, data))]
AlignedWrite(d, at, data) == WriteBack(d, RawAlignedRead(d, at, Len(data)), data)

\* ---------------------------------------------------------------- metadata

\* Imsm has its record at the end of the disk.  Ddf has an anchor there that
\* says in which sectors its primary and its secondary header are, each with
\* the same signature; there may be no secondary.
ImsmSize == 4     \* 1024 bytes
AnchorSize == 2   \* 512 bytes
DetectSize == 8   \* 8192 bytes: enough for either
HasSig(cells, sig) == cells # << >> /\ cells[1] = sig
FindOffsets(anchor) == anchor[2]
Lba2byte(d, lba) == d.sector * lba
DetectIMSM(d) == HasSig(Cells(d, DevSize(d) - ImsmSize, DevSize(d)), "imsm")

\* A header must lie before the anchor, and be there.
HeaderAt(d, lba) ==
  /\ Lba2byte(d, lba) < DevSize(d) - AnchorSize
  /\ LET header == AlignedRead(d, Lba2byte(d, lba), AnchorSize)
     IN ~Failed(header) /\ Len(header.data) = AnchorSize /\ HasSig(header.data, "ddf")
DetectDDF(d) ==
  LET anchor == Cells(d, DevSize(d) - AnchorSize, DevSize(d))
  IN /\ HasSig(anchor, "ddf")
     /\ d.sector % MinAlign = 0
     /\ HeaderAt(d, FindOffsets(anchor).pri)
     /\ FindOffsets(anchor).sec = NoSecondary \/ HeaderAt(d, FindOffsets(anchor).sec)

\* A disk without metadata is a data disk when it is larger than threshold.
DetectRaidType(d, threshold) ==
  LET tail == AlignedRead(d, -DetectSize, DetectSize)
  IN IF Failed(tail) THEN "skipped"
     ELSE IF DetectIMSM(d) THEN "imsm"
     ELSE IF DetectDDF(d) THEN "ddf"
     ELSE IF DevSize(d) > threshold THEN "unknown" ELSE "unset"

\* The bug of a backup from the primary header on.
PrimaryStart(d, offsets) == Lba2byte(d, offsets.pri)

\* Ddf: from the first of its headers to the end of the disk.
RecordStart(d, offsets) ==
  IF offsets.sec > offsets.pri THEN Lba2byte(d, offsets.pri) ELSE Lba2byte(d, offsets.sec)
SaveFrom(d, start) ==
  LET saved == AlignedRead(d, start, DevSize(d) - start)
  IN IF Failed(saved) \/ Len(saved.data) < DevSize(d) - start THEN Error ELSE saved
SaveDDF(d) ==
  LET anchor == AlignedRead(d, -AnchorSize, AnchorSize)
  IN IF Failed(anchor) THEN Error ELSE SaveFrom(d, RecordStart(d, FindOffsets(anchor.data)))
SaveIMSM(d) == AlignedRead(d, -ImsmSize, ImsmSize)

Backup(d, type) ==
  CASE type = "imsm"    -> SaveIMSM(d)
    [] type = "ddf"     -> SaveDDF(d)
    [] type = "unknown" -> [data |-> << >>]
    [] OTHER            -> Error

\* The metadata go back to the end of the disk; a disk that had none has
\* nothing to write, which is reported as an error and changes nothing.
Restore(d, type, metadata) ==
  IF Failed(metadata) \/ metadata = [data |-> << >>] THEN Error ELSE AlignedWrite(d, -Len(metadata.data), metadata.data)

\* ------------------------------------------------------------------ arrays

\* The disks that are looked at: none in memory, not the one restored from,
\* none that cannot be read.
AddDevice(found, d) ==
  IF d.name \in {"loop", "recovery"} \/ d.type = "skipped" THEN found ELSE Append(found, d)
FindDevices(devices) == FoldLeft(AddDevice, << >>, devices)

\* Sizes match within 5 per cent of the smaller.
SizeMatch(a, b) == Max({a.size, b.size}) * 100 <= Min({a.size, b.size}) * 105

\* Each disk that is in no array yet begins one, with all later disks of its
\* kind and size.
AddArray(found, i) ==
  LET taken == UNION ToSet(found.arrays)
      first == found.devices[i]
  IN IF i \in taken \/ first.type = "unset" THEN found
     ELSE [found EXCEPT !.arrays = Append(@, {j \in i .. Len(found.devices) : /\ j \notin taken
                                                                              /\ found.devices[j].type = first.type
                                                                              /\ SizeMatch(first, found.devices[j])})]
FindArrays(devices) ==
  FoldLeft(AddArray, [devices |-> devices, arrays |-> << >>], [i \in 1 .. Len(devices) |-> i]).arrays

\* An erase goes on with one array of as many disks as the platform has.
OneArray(devices, dataDisks) ==
  LET arrays == FindArrays(devices) IN Len(arrays) = 1 /\ Cardinality(arrays[1]) = dataDisks
=============================================================================
