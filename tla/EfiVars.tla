------------------------------- MODULE EfiVars -------------------------------
(***************************************************************************)
(* The firmware's boot variables and the device paths in them               *)
(* (pkg/hw/uefi: vars.go, efiDevicePathProtocol.go, efiDpp*.go).            *)
(*                                                                          *)
(* A variable's data are bytes.  What a node of a path holds is kept as its *)
(* bytes, but for partitions and files, which are resolved.                 *)
(***************************************************************************)
EXTENDS Integers, Sequences, SequencesExt, FiniteSets, FiniteSetsExt

ParseError == [error |-> "parse"]
Panic == [error |-> "panic"]
Rest(b, n) == SubSeq(b, n + 1, Len(b))

BytesToU16(b) == b[1] + 256 * b[2]

\* Each unit by itself: half of a pair of surrogates is no character.
Replacement == 65533
DecodeUTF16(b) ==
  [i \in 1 .. Len(b) \div 2 |->
     LET u == BytesToU16(SubSeq(b, 2 * i - 1, 2 * i)) IN IF u \in 55296 .. 57343 THEN Replacement ELSE u]

\* ------------------------------------------------------------ device paths

Hw == 1
Acpi == 2
Messaging == 3
Media == 4
End == 127
Hdd == <<Media, 1>>
FilePath == <<Media, 4>>

\* Nodes of a kind that the code knows: those it refuses.  The extended acpi
\* node ends with three texts, each with its null.
MalformedHw(kind, length) == kind = <<Hw, 1>> /\ length # 6
MalformedAcpi(kind, length, data) ==
  \/ kind = <<Acpi, 1>> /\ length # 12
  \/ kind = <<Acpi, 2>> /\ (length < 19 \/ Len(SelectSeq(Rest(data, 12), LAMBDA c : c = 0)) < 3)
MalformedMessaging(kind, length) ==
  \/ kind = <<Messaging, 1>> /\ length # 8
  \/ kind = <<Messaging, 11>> /\ length # 37
MalformedMedia(kind, length, data) ==
  \/ kind = Hdd /\ length < 42
  \/ kind = FilePath /\ Len(data) % 2 # 0
  \/ kind \in {<<Media, 6>>, <<Media, 7>>} /\ length # 20
Malformed(kind, length, data) ==
  \/ MalformedHw(kind, length) \/ MalformedAcpi(kind, length, data)
  \/ MalformedMessaging(kind, length) \/ MalformedMedia(kind, length, data)

\* The end of a partition's node says where it is, a file's node is a name
\* with slashes the other way and perhaps a null at its end.
Slash == 47
Backslash == 92
ParseHdd(data) ==
  [kind |-> Hdd, partNum |-> SubSeq(data, 1, 4), sig |-> SubSeq(data, 21, 36), partFmt |-> data[37], sigType |-> data[38]]
ParseFile(data) ==
  LET name == DecodeUTF16(data)
      path == IF name # << >> /\ Last(name) = 0 THEN Front(name) ELSE name
  IN [kind |-> FilePath, path |-> [i \in 1 .. Len(path) |-> IF path[i] = Backslash THEN Slash ELSE path[i]]]
ParseNode(kind, data) ==
  CASE kind = Hdd      -> ParseHdd(data)
    [] kind = FilePath -> ParseFile(data)
    [] OTHER           -> [kind |-> kind, data |-> data]

\* A path ends with its end node, of whatever subtype, and nothing may come
\* after that.
RECURSIVE ParseFrom(_, _)
ParseFrom(list, b) ==
  IF Len(b) < 4 THEN ParseError
  ELSE LET kind   == <<b[1], b[2]>>
           length == BytesToU16(SubSeq(b, 3, 4))
           data   == SubSeq(b, 5, length)
       IN IF length < 4 \/ Len(b) < length THEN ParseError
          ELSE IF b[1] = End THEN (IF Len(b) = length THEN list ELSE ParseError)
          ELSE IF Malformed(kind, length, data) THEN ParseError
          ELSE ParseFrom(Append(list, ParseNode(kind, data)), Rest(b, length))

\* The bug of a path that may stop anywhere.
RECURSIVE ParseAny(_, _)
ParseAny(list, b) ==
  IF Len(b) < 4 THEN list
  ELSE LET kind   == <<b[1], b[2]>>
           length == BytesToU16(SubSeq(b, 3, 4))
           data   == SubSeq(b, 5, length)
       IN IF length < 4 \/ Len(b) < length \/ Malformed(kind, length, data) THEN ParseError
          ELSE IF b[1] = End THEN list
          ELSE ParseAny(Append(list, ParseNode(kind, data)), Rest(b, length))
ParseUnterminated(b) == ParseAny(<< >>, b)

ParseFilePathList(b) == ParseFrom(<< >>, b)

\* ------------------------------------------------------------ boot entries

\* A description ends at the first character whose low byte is null, after
\* 4 bytes of attributes and 2 for the length of the path; positions are
\* computed with 16 bits.  Where the data do not go that far, the program
\* panics.
BootVar(data) ==
  LET ends    == {i \in 7 .. Len(data) : i % 2 = 1 /\ data[i] = 0}
      end     == Min(ends)
      pathEnd == (end + 1 + BytesToU16(SubSeq(data, 5, 6))) % 65536
  IN IF Len(data) < 6 \/ ends = {} THEN Panic
     ELSE IF pathEnd > Len(data) \/ pathEnd < end + 1 THEN Panic
     ELSE [description |-> DecodeUTF16(SubSeq(data, 7, end - 1)),
           path        |-> ParseFilePathList(SubSeq(data, end + 2, pathEnd)),
           optional    |-> Rest(data, pathEnd)]

\* Variables have a vendor and a name; a boot entry's name is Boot and four
\* hexadecimal digits.
BootVarFilter(var) == var.vendor = "boot" /\ var.prefix = "Boot"
BootEntryFilter(var) == BootVarFilter(var) /\ var.suffix = "hex"

\* All boot entries, even those whose path cannot be parsed; a variable that
\* cannot be read is passed over.
ReadVars(vars) == SelectSeq(vars, LAMBDA v : v.dashes >= 5 /\ BootEntryFilter(v) /\ v.readable)
BootEntries(vars) ==
  LET boot == SelectSeq(vars, BootEntryFilter)
  IN [k \in 1 .. Len(boot) |-> BootVar(boot[k].data)]
AllBootEntryVars(vars) == BootEntries(ReadVars(vars))
Ours(entries, labels) == SelectSeq(entries, LAMBDA e : e.description \in labels)

\* -------------------------------------------------------------- resolution

\* A partition is looked up by its id among those of the system (as blkid
\* gives it), which must be one: by its guid, or by the bytes of the mbr's
\* signature, in their order, and its number.
NotFound == [error |-> "not found"]
PartId(hdd) ==
  CASE hdd.sigType = 2 -> [guid |-> hdd.sig]
    [] hdd.sigType = 1 -> [mbr |-> SubSeq(hdd.sig, 1, 4), part |-> hdd.partNum]
    [] OTHER           -> NotFound
Resolver(hdd, blocks) ==
  LET fit == {d \in DOMAIN blocks : blocks[d] = PartId(hdd)}
  IN IF PartId(hdd) = NotFound \/ Cardinality(fit) # 1 THEN NotFound ELSE [device |-> Max(fit), mounted |-> << >>]

\* Its file system is mounted once, wherever it is asked for later, until
\* Cleanup.  Base is the directory to mount at.
Resolve(resolver, base, mountFails) ==
  IF resolver.mounted # << >> \/ mountFails THEN resolver ELSE [resolver EXCEPT !.mounted = <<base>>]
Cleanup(resolver) == [resolver EXCEPT !.mounted = << >>]
=============================================================================
