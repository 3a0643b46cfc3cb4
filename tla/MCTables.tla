------------------------------ MODULE MCTables ------------------------------
(***************************************************************************)
(* Small inputs for Tables and UnitTables.                                  *)
(***************************************************************************)
EXTENDS Tables

\* Two variants of one product that differ in their processors, and one of
\* another; the same cpu may come once or twice.
CpuLists == BoundedSeq({"c", "d"}, 2)
VariantOf(mfg, sku, cpus, code) ==
  [mfg |-> mfg, prod |-> "p", skuField |-> "sku", matches |-> {sku}, cpus |-> cpus, code |-> code]
MCSkuFields == {"sku"}
MCCatalogues ==
  {<<VariantOf("m", "s", cpusA, "A"), VariantOf("m", "s", cpusB, "B"), VariantOf("n", "t", << >>, "C")>> :
     cpusA, cpusB \in CpuLists}
MCUnits ==
  [boardMfg : {"m", "n"}, boardProd : {"p"}, sysMfg : {"m", "n"}, sysProd : {"p"}, skus : [{"sku"} -> {"s", "t"}], cpus : CpuLists]
MCCodes == {"A", "B", "Z", "unreadable"}

\* Two kinds of devices, as many as fit, of which some cannot be read.
DeviceKinds == {"k1", "k2"}
MCBusLists == SeqsOf(DeviceKinds \cup {Unreadable})
MCBusSpecs == BoundedSeq([kind : DeviceKinds, qty : 0 .. 2], 2)

MCImageLists == BoundedSeq([sha256 : BOOLEAN, sound : BOOLEAN, fits : BOOLEAN, history : BOOLEAN], 2)
MCKernelFiles == {[exists |-> TRUE, kernel |-> k, hashes |-> 1, spaced |-> TRUE, build |-> b] : k \in BOOLEAN, b \in 1 .. 3}
                 \cup {[Missing EXCEPT !.exists = e] : e \in BOOLEAN}

\* Sizes far from, near to and like that of the platform, and like those.
MCDiskLists == SeqsOf({90, 98, 100, 103, 110, 122})
MCPlatforms == {[diskSize |-> 100, dataDisks |-> count, setTol |-> DiskSetTol(5), tgtTol |-> DiskTgtTol(tgtTol)] :
                  count \in 1 .. 3, tgtTol \in {0, 10}}

\* Sizes that are and that are not a multiple of the largest alignment.
MCDiskSizes == {16, 18, 32}
MCRequired == {1, 2, 4, 8, 16}
MCSectors == {1, 2, 8}
MCBegins == -33 .. 33
MCLengths == 1 .. 5
MCDeviceLists ==
  BoundedSeq([name : {"sda"}, type : {"imsm", "ddf", "unset", "skipped"}, size : {100, 104, 109}]
             \cup [name : {"loop", "recovery"}, type : {"imsm", "unknown"}, size : {100}], 3)
MCDiskCounts == 1 .. 3
=============================================================================
