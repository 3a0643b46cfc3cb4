-------------------------------- MODULE Tables --------------------------------
(***************************************************************************)
(* The algorithms of the other modules against what their callers count on. *)
(* As in UnitTables a state is one input and an action chooses one; what is *)
(* added here is checked for every input within the bounds.                 *)
(***************************************************************************)
EXTENDS UnitTables, Bitwise

T == INSTANCE LcdText
N == INSTANCE NicSetup
M == INSTANCE NetImport
E == INSTANCE EfiVars

CONSTANTS TextLen,   \* the longest text
          ListLen    \* the longest list of disks, devices, names or entries

ASSUME BoundsAssumption == TextLen \in Nat /\ ListLen \in Nat

SeqsOf(set) == BoundedSeq(set, ListLen)

\* ----------------------------------------------------------------- inputs

\* Every text of letters and spaces that begins with a letter; each letter
\* is its own place.
ChooseText ==
  /\ item = NoCase
  /\ \E n \in 1 .. TextLen, w \in 1 .. 5, rows \in 0 .. 1 :
    \E letters \in SUBSET (2 .. n) :
      item' = [kind |-> "text", msg |-> [i \in 1 .. n |-> IF i = 1 \/ i \in letters THEN i ELSE T!Space],
               w |-> w, rows |-> rows]

\* A packet of which the line changes two bits or loses a byte, and the key
\* report after it.
ChoosePacket ==
  /\ item = NoCase
  /\ \E packet \in {[command |-> 69, data |-> << >>], [command |-> 95, data |-> <<1, 255>>]} :
       LET bytes == 1 .. Len(packet.data) + 4
       IN \E flip \in {{a, b} : a, b \in 1 .. 8 * Len(packet.data) + 32}, lost \in {{}} \cup {{b} : b \in bytes} :
            /\ lost = {} \/ Cardinality(flip) = 1
            /\ item' = [kind |-> "packet", packet |-> packet, flip |-> flip, lost |-> lost]

\* Data disks a and b, and the recovery disk r; some disks cannot be read.
Configs == {<< <<[model |-> "a", qty |-> 2, size |-> 100, tol |-> 5]>> >>,
            << <<[model |-> "a", qty |-> 1, size |-> 100, tol |-> 5]>>,
               <<[model |-> "b", qty |-> 1, size |-> 110, tol |-> 5]>> >>,
            << <<[model |-> "a", qty |-> 1, size |-> 100, tol |-> 5],
                 [model |-> "b", qty |-> 1, size |-> 110, tol |-> 5]>> >>}
ChooseDisks ==
  /\ item = NoCase
  /\ \E devs \in SeqsOf([model : {"a", "b", "r"}, size : {100, 110}] \cup {[model |-> Unreadable, size |-> 0]}), cfgs \in Configs :
    item' = [kind |-> "disks", devs |-> devs, cfgs |-> cfgs,
             recovery |-> [model |-> "r", qty |-> 1, size |-> 100, tol |-> 5]]

\* What else a model is specified to have: the unit may differ in one thing
\* or several.  A directory for cpus that names no socket is cpufreq's.  The
\* server's expression for serial numbers may be no regular expression.
Hardware == [processors : BoundedSeq({"x", "y"}, 3), cpuDirs : BoundedSeq({NoSocket, 0, 1}, 2),
             macs : SUBSET {4, 5, 6, 8}, virtual : BOOLEAN, ram : {98, 100, 101}, bios : {"new", "old"}, board : {"b", "c"},
             serNum : {"good", "bad"}, viaFallback : BOOLEAN, regexCompiles : BOOLEAN]
Specified == [processors |-> <<"x", "x">>, cpuDirs |-> <<0>>, macs |-> {5, 6, 8}, virtual |-> FALSE,
              ram |-> 100, bios |-> "new", board |-> "b", serNum |-> "good", viaFallback |-> FALSE, regexCompiles |-> TRUE]
ChooseHardware ==
  /\ item = NoCase
  /\ \E h \in Hardware :
       /\ Cardinality({f \in DOMAIN Specified : h[f] # Specified[f]}) <= 2
       /\ item' = [kind |-> "hardware", hw |-> h]

\* Builds have one digit or two.
Names == [wellFormed : {TRUE}, date : 1 .. 2, build : BoundedSeq({0, 1, 9}, 2) \ {<< >>}]
         \cup [wellFormed : {FALSE}, date : {3}, build : {<<1>>}]
ChooseUpdates ==
  /\ item = NoCase
  /\ \E names \in UNION {kSubset(k, Names) : k \in 1 .. 3}, oldestFirst \in BOOLEAN :
    item' = [kind |-> "updates", names |-> names, oldestFirst |-> oldestFirst]

\* Boot entries, and those that cannot be removed.
ChooseEntries ==
  /\ item = NoCase
  /\ \E entries \in SeqsOf(OurLabels \cup {"other"}), overwrite \in BOOLEAN :
       \E keeps \in IF overwrite THEN SUBSET {i \in 1 .. Len(entries) : entries[i] \in OurLabels} ELSE {{}} :
         item' = [kind |-> "entries", entries |-> entries, overwrite |-> overwrite, keeps |-> keeps]

\* A recovery volume, the main disks and how they are to be mounted.
ChooseVolume ==
  /\ item = NoCase
  /\ \E uefi, raid, ssd, present \in BOOLEAN, fsKind \in {"9p", "ntfs", "ext4", "fat"}, bus \in {"usb", "sata"},
        additional \in {<< >>, <<"nofail">>, <<"user_id">>}, validation \in {"usb", "sata", "none", "9p"} :
       item' = [kind |-> "volume", uefi |-> uefi, raid |-> raid, fsKind |-> fsKind, validation |-> validation,
                volume |-> [present |-> present, bus |-> bus],
                media |-> [additional |-> additional, override |-> FALSE, ssd |-> ssd]]

\* Ports with the manufacturer's prefix or without; diagnosis ports as the
\* code wants them listed, the last one first.
ChoosePorts ==
  /\ item = NoCase
  /\ \E n \in 1 .. 4, own \in SUBSET (1 .. 4), diags \in SUBSET (0 .. 3), wanIndex \in 0 .. 2,
       prefixes \in {<<"own">>, <<"*">>, <<"own", "unreadable">>} :
       item' = [kind |-> "ports", prefixes |-> prefixes, wanIndex |-> wanIndex, diags |-> SetToSortSeq(diags, >),
                ports |-> [i \in 1 .. n |-> [mac |-> 10 - i, prefix |-> IF i \in own THEN "own" ELSE "other"]]]

Perms(n) == SetToSeqs(1 .. n)
ChooseQueues ==
  /\ item = NoCase
  /\ \E queues \in 1 .. 3, mask \in SUBSET (0 .. 5) :
       \E one, two \in Perms(queues) :
         item' = [kind |-> "queues", queues |-> queues, mask |-> mask, order |-> one \o two \o one \o two \o one \o two]

\* The interrupts of a port: its own and those of its queues, in the order
\* of their numbers; what ethtool prints of its queues; and a list of cpus as the kernel writes it.
ChooseList ==
  /\ item = NoCase
  /\ \/ \E names \in BoundedSeq({"main", "queue"}, 4) : item' = [kind |-> "lines", names |-> names]
     \/ \E lines \in BoundedSeq([key : {"title"}, value : {"max", "current"}]
                                \cup [key : {"rx", "header"}, value : 1 .. 2], 4) : item' = [kind |-> "ethtool", lines |-> lines]
     \/ \E parts \in BoundedSeq([single : {TRUE}, from : 0 .. 3, to : {0}] \cup [single : {FALSE}, from : 0 .. 3, to : 0 .. 3], 2) :
          item' = [kind |-> "cpus", parts |-> parts]

\* A port asks for cpus for its queues.  Nothing but a test fills the list of
\* cpus and of their siblings.
ChooseIrqs ==
  /\ item = NoCase
  /\ \E count \in 1 .. 4, size \in 0 .. 5 :
       item' = [kind |-> "irqs", size |-> size,
                topo |-> [all |-> {}, count |-> count,
                          threads |-> [c \in 0 .. 3 |-> {}], cores |-> [c \in 0 .. 3 |-> {}]]]

\* Routes through three ports in the order of their metrics, the wan port's
\* among them.  Two through a port may have a gateway in common.
ChooseRoutes ==
  /\ item = NoCase
  /\ \E ifaces \in UNION {[1 .. n -> {"wan", "p", "q"}] : n \in 1 .. 4} :
       \E gws \in [DOMAIN ifaces -> 1 .. 2], static \in SUBSET DOMAIN ifaces, metric \in {0, 5},
          metrics \in {m \in [DOMAIN ifaces -> {1, 5, 6, 7}] : \A i \in DOMAIN m, j \in DOMAIN m : i < j => m[i] < m[j]} :
         item' = [kind |-> "routes", metric |-> metric,
                  table |-> [i \in DOMAIN ifaces |->
                               [iface |-> ifaces[i], gw |-> gws[i], static |-> i \in static, metric |-> metrics[i]]]]

ChooseRouteLine ==
  /\ item = NoCase
  /\ \E src, metric, scope, proto \in {"", "x"}, dest \in {"", "10.0.0.0/8"} :
       item' = [kind |-> "line", route |-> [N!NoRoute EXCEPT !["via"] = "g", !["dev"] = "d", !["dest"] = dest,
                                              !["src"] = src, !["metric"] = metric, !["scope"] = scope, !["proto"] = proto]]

\* Two adapters, vlans on them, named after their port; those in Hidden are
\* not among the interfaces the system lists.
ChooseImport ==
  /\ item = NoCase
  /\ \E vlans1, vlans2 \in SUBSET {5, 6}, hidden \in BOOLEAN :
       item' = [kind |-> "import", vlans |-> <<vlans1, vlans2>>, hidden |-> hidden]

\* A boot entry as the firmware writes it.  Nodes of a path with their data:
\* partitions, files with and without a null, nodes that are not decoded, and
\* in the end three that are too short for their kind.
Zeros(n) == [i \in 1 .. n |-> 0]
GoodNodes == {<<E!Hdd, <<1, 0, 0, 0>> \o Zeros(16) \o [i \in 1 .. 16 |-> i] \o <<2, 2>> >>,
              <<E!FilePath, <<92, 0, 65, 0, 0, 0>> >>, <<E!FilePath, <<65, 1>> >>, << <<1, 1>>, <<0, 2>> >>,
              << <<2, 2>>, Zeros(12) \o <<65, 0, 0, 66, 0>> >>, << <<5, 1>>, << >> >>}
BadNodes == {<<E!FilePath, <<65>> >>, << <<3, 1>>, <<0, 0>> >>, << <<2, 2>>, Zeros(12) \o <<65, 0, 66, 0>> >>}
ChooseEntry ==
  /\ item = NoCase
  /\ \E description \in BoundedSeq({65, 321}, 2), nodes \in BoundedSeq(GoodNodes \cup BadNodes, 2), optional \in {<< >>, <<66, 0>>} :
       item' = [kind |-> "entry", description |-> description, nodes |-> nodes, optional |-> optional]
ChooseVars ==
  /\ item = NoCase
  /\ \E vars \in BoundedSeq([vendor : {"boot", "other"}, suffix : {"hex", "Order"}, readable : BOOLEAN, node : {<<1, 1>>, <<3, 1>>}], 2) :
       item' = [kind |-> "vars", vars |-> vars]
ChoosePartition ==
  /\ item = NoCase
  /\ \E sigType \in 0 .. 2, blocks \in [1 .. 2 -> {[guid |-> Zeros(16)], [mbr |-> Zeros(4), part |-> Zeros(4)], [guid |-> << >>]}] :
       item' = [kind |-> "partition", sigType |-> sigType, blocks |-> blocks]

\* Rows of its route table; port 3 has no interface.
ChooseTable ==
  /\ item = NoCase
  /\ \E rows \in BoundedSeq([index : {10, 20, 30}, address : BOOLEAN, prefix : BOOLEAN, local : BOOLEAN], 2) :
       item' = [kind |-> "table", rows |-> rows]

Next == UnitNext
        \/ ChooseText \/ ChoosePacket \/ ChooseDisks \/ ChooseUpdates \/ ChooseEntries
        \/ ChooseHardware \/ ChooseVolume \/ ChooseList \/ ChooseTable
        \/ ChooseEntry \/ ChooseVars \/ ChoosePartition
        \/ ChoosePorts \/ ChooseQueues \/ ChooseIrqs \/ ChooseRoutes \/ ChooseRouteLine \/ ChooseImport
Spec == Init /\ [][Next]_item

\* ---------------------------------------------------------------- the lcd

Letters(txt) == SelectSeq(txt, LAMBDA c : c > 0)
\* The positions a blurb that scrolls goes through.
Goes(Following(_), steps) ==
  LET at[n \in 0 .. steps] == IF n = 0 THEN 0 ELSE Following(at[n - 1]) IN {at[n] : n \in 0 .. steps}
ShownBy(windows) == UNION {ToSet(win) : win \in windows}
LinesOf(window) == {window[r] : r \in DOMAIN window}

WordsKept(lines, msg, w) ==
  /\ Letters(FlattenSeq(lines)) = Letters(msg)
  /\ \A k \in 1 .. Len(lines) : Len(lines[k]) <= w
  /\ \A first \in 1 .. Len(msg), last \in 1 .. Len(msg) :
       (/\ first < last /\ last - first < w
        /\ \A i \in first .. last : msg[i] # T!Space
        /\ first = 1 \/ msg[first - 1] = T!Space
        /\ last = Len(msg) \/ msg[last + 1] = T!Space) =>
         \E k \in 1 .. Len(lines) : {first, last} \subseteq ToSet(lines[k])

AllShown(msg, w, rows) ==
  LET lines == T!Fit(msg, w, 255)
  IN CASE T!BlurbKind(msg, w, rows) = "still" ->
            ToSet(Letters(msg)) \subseteq ShownBy(LinesOf(T!Window(lines, w, rows)))
       [] T!BlurbKind(msg, w, rows) = "vertical" ->
            ToSet(Letters(msg)) \subseteq
              ShownBy(UNION {LinesOf(T!VertWindow(lines, top, w, rows)) : top \in Goes(LAMBDA t : T!VertNext(lines, t), TextLen)})
       [] OTHER ->
            w > 3 /\ T!LastPos(msg, w) >= 0 =>
            ToSet(Letters(msg)) \subseteq
              ShownBy({T!Visible(msg, T!HorizPos(msg, w, state), w) : state \in Goes(LAMBDA s : T!HorizNext(msg, w, s), TextLen + 4)})

\* The bytes with some bits changed, and without those that are lost.
Garbled(bytes, flip, lost) ==
  LET changed == [i \in DOMAIN bytes |->
                    FoldSet(LAMBDA b, acc : acc ^^ (2^((b - 1) % 8)), bytes[i], {b \in flip : (b - 1) \div 8 = i - 1})]
  IN FlattenSeq([i \in DOMAIN bytes |-> IF i \in lost THEN <<>> ELSE <<changed[i]>>])

Pressed == [command |-> T!ReportKey, data |-> <<5>>]

SpinnerBeside(msg, w, rows) ==
  LET lines == T!Fit(msg, w, rows)
      at    == T!SpinnerAt(msg, [row |-> rows, col |-> w])
  IN /\ at.row <= rows /\ at.col <= w
     /\ at.row < Len(lines) => at.col >= Len(lines[at.row + 1])

\* No letter of a message is lost by wrapping it (fit, util.go:32) or by
\* scrolling it (blurb.go), a word that has room in a line is not split, a
\* spinner does not cover the message, and a packet of which the line changed
\* two bits or lost a byte is never taken for another one (GetPacket,
\* serial.go:260).  Wrapping is given all the lines it asks for, as blurbs
\* do; Msg has those of the display and cuts the rest of a message off.
TextArrives ==
  /\ item.kind = "text" =>
       /\ WordsKept(T!Fit(item.msg, item.w, 255), item.msg, item.w)
       /\ AllShown(item.msg, item.w, item.rows)
       /\ SpinnerBeside(item.msg, item.w, item.rows)
  /\ item.kind = "packet" =>
       LET bytes == T!WriteTo(item.packet)
           next  == T!WriteTo(Pressed)
       IN /\ T!Incoming(bytes \o next) = <<item.packet, Pressed>>
          /\ T!Incoming(Garbled(bytes, item.flip, item.lost) \o next) \in {<<>>, <<Pressed>>}

\* ------------------------------------------------------------ the hardware

Quantity(seq, Same(_)) == Cardinality({i \in 1 .. Len(seq) : Same(seq[i])})
Near(size, entry) ==
  LET off == (entry.size * entry.tol) \div 100 IN size \in entry.size - off .. entry.size + off

\* The disks a configuration and the recovery disk ask for, and no others.
AsConfigured(cfg, recovery, devs) ==
  /\ Len(devs) = Qty(cfg) + 1
  /\ \A e \in ToSet(Append(cfg, recovery)) :
       Quantity(devs, LAMBDA d : d.model = e.model /\ Near(d.size, e)) = e.qty

\* As the same, and with nothing that is hard to tell apart: the disks of a
\* model are of one size.
Uniform(devs) == \A d, e \in ToSet(devs) : d.model = e.model => d = e

\* A complete unit that is h in other respects than its disks and devices.
GoodDisks == <<[model |-> "a", size |-> 100], [model |-> "r", size |-> 100]>>
Unit(h) ==
  [serNum |-> h.serNum, viaFallback |-> h.viaFallback, processors |-> h.processors, cpuDirs |-> h.cpuDirs, ram |-> h.ram, firmware |-> [bios |-> h.bios, bmc |-> "any"],
   nics |-> SetToSeq({[mac |-> m, ethernet |-> TRUE] : m \in h.macs}
                     \cup IF h.virtual THEN {[mac |-> 7, ethernet |-> FALSE]} ELSE {}),
   disks |-> GoodDisks, devices |-> <<"k1">>, dmi |-> [board |-> h.board, _note |-> "any"]]
Specs(h) ==
  [serNumRegex |-> [compiles |-> h.regexCompiles, matches |-> {"good"}], cpu |-> [model |-> "x", cores |-> 2, sockets |-> 1, errors |-> FALSE], ram |-> 100, firmware |-> [bios |-> "new", bmc |-> ""],
   nics |-> [total |-> 3, own |-> 2, sequential |-> TRUE], devices |-> <<[kind |-> "k1", qty |-> 1]>>,
   cfgs |-> << <<[model |-> "a", qty |-> 1, size |-> 100, tol |-> 5]>> >>,
   recovery |-> [model |-> "r", qty |-> 1, size |-> 100, tol |-> 5], dmi |-> [board |-> "b", _note |-> "text"]]
IsSpecified(h) ==
  /\ h.processors = <<"x", "x">> /\ h.ram = 100 /\ h.bios = "new" /\ h.board = "b"
  /\ Cardinality(h.macs) = 3 /\ \E m \in 4 .. 6 : h.macs \cap 4 .. 6 = {m, m + 1}
  /\ h.regexCompiles /\ (h.serNum = "good" \/ h.viaFallback)
  /\ Cardinality(ToSet(h.cpuDirs)) = 1 \/ ToSet(h.cpuDirs) = {NoSocket, 0}

\* Manufacturing lets a unit pass only with the disks, processors, memory,
\* ports, firmware and serial number its model is specified to have
\* (Validate, qa.go:129, Compare, qa.go:179, and MainDisks.Compare,
\* disks.go:224), and lets every such unit pass whose disks of a model are of
\* one size.  A serial number does not matter on a unit that was identified
\* via fallback.  Only disks that can be read count (block.Devices,
\* block.go:33): one that cannot is never taken for one that is required, and
\* one too many goes unnoticed.
HardwareJudged ==
  /\ item.kind = "disks" =>
       LET readable == SelectSeq(item.devs, LAMBDA d : d.model # Unreadable)
           accepted == ~RecoveryWrong(item.recovery, item.devs) /\ ~MainDisksWrong(item.cfgs, item.devs)
           right == \E cfg \in ToSet(item.cfgs) : AsConfigured(cfg, item.recovery, readable)
       IN /\ accepted => right
          /\ right /\ Uniform(readable) => accepted
  /\ item.kind = "hardware" =>
       (Validate(Specs(item.hw), Unit(item.hw), 4 .. 6, {"_note"}, 1) <=> IsSpecified(item.hw))

\* --------------------------------------------------------- the installation

\* Builds are compared digit by digit, as what follows a point.
Digit(build, i) == IF i <= Len(build) THEN build[i] ELSE 0
LaterBuild(a, b) ==
  \E i \in 1 .. 2 : Digit(a, i) > Digit(b, i) /\ \A j \in 1 .. i - 1 : Digit(a, j) = Digit(b, j)
Newer(a, b) ==
  \/ a.wellFormed /\ ~b.wellFormed
  \/ a.wellFormed /\ b.wellFormed /\ (a.date > b.date \/ (a.date = b.date /\ LaterBuild(a.build, b.build)))

\* A layout has one partition for the rest of the disk, the last one, and
\* one that the firmware starts from at most.
LayoutIsSound(parts) ==
  /\ \A i \in 1 .. Len(parts) : parts[i].size = 0 <=> i = Len(parts)
  /\ \A i, j \in 1 .. Len(parts) : parts[i].boot /\ parts[j].boot => i = j

\* Restore tries updates newest first: the later date, and of one date the
\* build that is larger when read as a decimal fraction (decode, sort.go:41),
\* which for builds of as many digits is the higher one; see HigherBuildWins
\* for others.  It leaves all three boot entries, once each if those there
\* before could be removed, other entries untouched, and one that it adds for
\* a normal boot first (bootable.go:43, boot.go:105); the recovery volume is
\* the last partition (disk.go:238, bootable.go:150 "RECOVERY must be last
\* partition on device"), is mounted with options its file system takes
\* (fs.go:84), and one on the wrong bus is not used (locateRecov.go:29).
InstallIsSound ==
  /\ item.kind = "updates" =>
       \A order \in SortUpdates(item.names, item.oldestFirst) :
         \A i, j \in 1 .. Len(order) : Newer(order[i], order[j]) => (IF item.oldestFirst THEN i > j ELSE i < j)
  /\ item.kind = "entries" =>
       LET after == ConfigUEFIBoot(item.entries, item.overwrite, item.keeps)
           others(seq) == SelectSeq(seq, LAMBDA e : e \notin OurLabels)
           stuck(label) == Cardinality({i \in item.keeps : item.entries[i] = label})
       IN /\ OurLabels \subseteq ToSet(after.entries)
          /\ others(after.entries) = others(item.entries)
          /\ item.overwrite => \A label \in OurLabels : Quantity(after.entries, LAMBDA e : e = label) = Max({1, stuck(label)})
          /\ "normal" \in CheckMissing(item.entries) \/ (item.overwrite /\ stuck("normal") = 0) => after.order[1] = "normal"
  /\ item.kind = "volume" =>
       LET layout == DiskLayout(item.uefi, item.raid)
           found  == FindRecoveryDev("byLabel", item.validation, item.volume)
           fixed  == FixupRecoveryFS(item.fsKind, FsOpts(item.media))
       IN /\ LayoutIsSound(layout.parts) /\ LayoutIsSound(RecoveryLayout(item.uefi))
          /\ layout.target = Len(layout.parts) /\ (~item.uefi => layout.parts[BootTarget(layout.target)].type = "linux")
          /\ item.volume.present /\ found = "byLabel" => item.validation \in {"none", item.volume.bus}
          /\ fixed.type \in {"ext4", "9p"} => ToSet(fixed.opts) \cap Owner = {}
          /\ fixed.type = "ntfs-3g" => "discard" \notin ToSet(fixed.opts)
          /\ ToSet(MountOpts(fixed.opts)) \cap ({"nofail"} \cup Owner) = {}

\* "in the event of a collision a higer build wins" (sort.go:34).  Refuted:
\* build 10 is sorted behind build 9 of the same date.
BuildNumber(build) == FoldLeft(LAMBDA number, digit : 10 * number + digit, 0, build)
HigherBuildWins ==
  item.kind = "updates" /\ ~item.oldestFirst =>
    \A order \in SortUpdates(item.names, FALSE) :
      \A i, j \in 1 .. Len(order) :
        (/\ order[i].wellFormed /\ order[j].wellFormed /\ order[i].date = order[j].date /\ order[i].build[1] # 0
         /\ BuildNumber(order[i].build) > BuildNumber(order[j].build)) => i < j

\* ----------------------------------------------------------- the network


\* The saved settings of an import case: ports 1 and 2 and their vlans.
Row(adapter, vlan) ==
  [kind |-> "row", adapter |-> adapter, mac |-> adapter[1], vlan |-> vlan, option |-> "name",
   name |-> [base |-> adapter[1], vlan |-> IF Len(adapter) > 1 THEN adapter[2] ELSE 0]]
Section(section, rows) ==
  <<[kind |-> "start", section |-> section]>> \o SetToSeq(rows) \o <<[kind |-> "end", section |-> section]>>
Settings(vlans) ==
  LET pairs == {<<p, v>> : p \in 1 .. 2, v \in 5 .. 6}
      used  == {pv \in pairs : pv[2] \in vlans[pv[1]]}
  IN Section("Adapters", {Row(<<p>>, 0) : p \in 1 .. 2}) \o Section("AdapterSettings", {Row(<<p>>, 0) : p \in 1 .. 2})
     \o Section("Vlans", {Row(<<pv[1]>>, pv[2]) : pv \in used}) \o Section("VlanSettings", {Row(pv, 0) : pv \in used})

\* What the system lists: vlans as interfaces of their own, and ports with
\* vlans only if they are not hidden.
Listed(vlans, hidden) ==
  LET iface(p, v) == [kind |-> "port", index |-> 10 * p + v, mac |-> p, dhcp |-> TRUE, name |-> [base |-> p, vlan |-> v]]
  IN SetToSeq({iface(p, 0) : p \in {p \in 1 .. 2 : vlans[p] = {} \/ ~hidden}}
              \cup UNION {{iface(p, v) : v \in vlans[p]} : p \in 1 .. 2})

NetFiles(nics, ext) == {f \in ToSet(M!Export(nics)) : f.file[3] = ext}

ImportKeepsVlans(vlans, hidden) ==
  LET loaded == M!LoadIntel(Settings(vlans))
  IN /\ loaded.error = ""
     /\ \A nics \in M!Merge(M!GetAddrs(Listed(vlans, hidden)), loaded.nics) :
          /\ \A f, g \in ToSet(M!Export(nics)) : f.file = g.file => f = g
          /\ \A p \in 1 .. 2 :
               LET own == {f \in NetFiles(nics, "network") : f.match = <<p>>}
               IN /\ Cardinality(own) = 1
                  /\ \A f \in own : /\ f.vlans = {<<p, v>> : v \in vlans[p]}
                                    /\ (f.dhcp = "no") = (vlans[p] # {})
                  /\ {d.id : d \in {d \in NetFiles(nics, "netdev") : d.name[1] = p}} = vlans[p]

\* The routes of a port get into its file, in their order; up to a row that
\* cannot be read all have been.
RoutesExported(rows) ==
  LET nics   == [index \in {10, 20} |-> [M!Nic EXCEPT !.mac = index, !.name = [base |-> index, vlan |-> 0]]]
      read   == M!ParseRoutes(nics, rows)
      bad    == {k \in 1 .. Len(rows) : rows[k].index = 30 \/ rows[k].address = rows[k].prefix}
      usable == IF bad = {} THEN rows ELSE SubSeq(rows, 1, Min(bad) - 1)
  IN /\ read.error = (bad # {})
     /\ (M!ToJson(read.nics) = M!NoJson) = \E k \in 1 .. Len(usable) : usable[k].local
     /\ \A f \in NetFiles(read.nics, "network") : f.routes = SelectSeq(usable, LAMBDA r : f.match = <<r.index>>)

\* The last number that stands in a section of ethtool's output, 0 if none.
LastIn(lines, section) ==
  LET titles(k) == {t \in 1 .. k : lines[t].key = "title"}
      in == {k \in 1 .. Len(lines) : lines[k].key = "rx" /\ titles(k) # {} /\ lines[Max(titles(k))].value = section}
  IN IF in = {} THEN 0 ELSE lines[Max(in)].value

\* Every cpu of a kernel's list is read, in its order.
CpusAsListed(parts) ==
  LET cpus(p)  == IF p.single THEN {p.from} ELSE p.from .. p.to
      valid(p) == p.single \/ p.from < p.to
      set      == N!CpuList(parts)
  IN (\A i \in 1 .. Len(parts) : valid(parts[i]) /\ \A j \in 1 .. i - 1 : cpus(parts[i]) \cap cpus(parts[j]) = {}) =>
       /\ ToSet(set) = UNION {cpus(parts[i]) : i \in 1 .. Len(parts)}
       /\ Len(set) = Cardinality(ToSet(set))

Port(list, place) == IF place < Len(list) THEN list[place + 1] ELSE N!NoPort
Through(table, iface) == SelectSeq(table, LAMBDA r : r.iface = iface)

\* A route is known to ip route del by its gateway and port.
Way(r) == [gw |-> r.gw, iface |-> r.iface]
Ways(table) == {Way(r) : r \in ToSet(table)}

\* Ways through other ports that static and other routes do not share.
Apart(table) ==
  {way \in Ways(table) : /\ way.iface # "wan"
                         /\ \A r, s \in ToSet(table) : Way(r) = way /\ Way(s) = way => r.static = s.static}

\* What becomes of default routes when the wan port has one.
RoutesKept(table, metric) ==
  LET after == N!AdjustDupDefaultRoutes(table, "wan", metric)
      ofWay(way) == SelectSeq(after, LAMBDA r : Way(r) = way)
  IN /\ Through(after, "wan") = Through(table, "wan")
     /\ metric # 0 => Ways(after) = Ways(table)
     /\ \A way \in Apart(table) :
          LET before == SelectSeq(table, LAMBDA r : Way(r) = way)
          IN IF before[1].static THEN ofWay(way) = before
             ELSE /\ metric = 0 => ofWay(way) = << >>
                  /\ \A r \in ToSet(ofWay(way)) : r.metric >= metric

\* The ports a unit's users are told of stay the same whatever has been done
\* with those for diagnosis, a vlan of the old system is one of the new, no
\* cpu is left without a queue or shared by two (nic.go, ifmap.go:133,
\* xps.go:26 "a set of masks with no gaps or overlap").  When default routes
\* are cleared up (route_linux.go:66) the wan port's stay as they are; others
\* are removed, or get the metric asked for or a larger one, but no gateway
\* of a port loses its last route then.  Routes that share gateway and port
\* with a static one are left out: see StaticRoutesStay.
NetworkIsKept ==
  /\ item.kind = "ports" =>
       LET list == N!SortedList(item.ports, MACPrefixes(item.prefixes))
           left == N!DisableDiags(list, item.diags)
       IN /\ N!WanDevice(list, item.diags, item.wanIndex, FALSE) = N!WanDevice(left, item.diags, item.wanIndex, TRUE)
          /\ N!EnabledPorts(list, item.diags, {}) = ToSet(left)
          /\ \A p \in ToSet(item.ports) : N!EnableNetworking(list, item.diags, {}, {p}) = (p \in ToSet(left))
          /\ \A i \in 0 .. Len(list) - 1 :
               LET default == N!Defaults(list, item.diags, <<"a", "b">>)[i]
               IN default.dhcp = (Port(list, i) \in ToSet(left))
  /\ item.kind = "queues" =>
       LET masks == N!XpsConfig(item.queues, item.mask, item.order)
       IN /\ UNION {masks[q] : q \in 1 .. item.queues} = item.mask
          /\ \A q, r \in 1 .. item.queues : q = r \/ masks[q] \cap masks[r] = {}
  /\ item.kind = "routes" /\ Through(item.table, "wan") # << >> => RoutesKept(item.table, item.metric)
  /\ item.kind = "line" =>
       LET words == N!RouteWords(item.route) IN N!ParseRoute(words, FALSE) \in {item.route} \cup (IF Len(words) < 7 THEN {N!NoRoute} ELSE {})
  /\ item.kind = "lines" =>
       LET irqs == N!FindIRQs([i \in 1 .. Len(item.names) |-> [irq |-> i, name |-> item.names[i]]])
       IN \A i \in 1 .. Len(item.names) :
            item.names[i] = "queue" \/ Len(item.names) = 1 => [irq |-> i, name |-> item.names[i]] \in ToSet(irqs)
  /\ item.kind = "ethtool" =>
       \A max \in 1 .. 2 : (<<"rx", max>> \in N!MaximizeQueues(item.lines)) =
         (LastIn(item.lines, "max") = max /\ LastIn(item.lines, "current") # max)
  /\ item.kind = "cpus" => CpusAsListed(item.parts)
  /\ item.kind = "table" => RoutesExported(item.rows)
  /\ item.kind = "import" => ImportKeepsVlans(item.vlans, item.hidden)

\* "ignore any routes that look duplicate but are static"
\* (route_linux.go:88).  Refuted: a removal is by gateway and port only.
StaticRoutesStay ==
  item.kind = "routes" /\ Through(item.table, "wan") # << >> =>
    LET static(table) == SelectSeq(table, LAMBDA r : r.static)
    IN static(N!AdjustDupDefaultRoutes(item.table, "wan", item.metric)) = static(item.table)

\* "spread across cores/sockets" (rss.go:41): two queues of a port are given
\* to one cpu only when it has more of them than there are cpus.  Refuted:
\* what is to be spread over is never filled.
InterruptsAreSpread ==
  item.kind = "irqs" =>
    \A chosen \in N!CreateSetWeighted(item.topo, << >>, item.size) :
      Cardinality(ToSet(chosen.set)) = Min({item.size, item.topo.count})

\* --------------------------------------------------------- boot variables

EncodeNode(node) == node[1] \o <<Len(node[2]) + 4, 0>> \o node[2]
EncodePath(nodes) == FlattenSeq([i \in 1 .. Len(nodes) |-> EncodeNode(nodes[i])]) \o <<127, 255, 4, 0>>
EncodeEntry(description, path, optional) ==
  <<1, 0, 0, 0, Len(path) % 256, Len(path) \div 256>>
    \o FlattenSeq([i \in 1 .. Len(description) |-> <<description[i] % 256, description[i] \div 256>>]) \o <<0, 0>> \o path \o optional

IsCutShort(path) == \A n \in 0 .. Len(path) - 1 : E!ParseFilePathList(SubSeq(path, 1, n)) = E!ParseError

\* Boot entries are read as the firmware wrote them, also among variables
\* that cannot be read, are not boot entries, or have a path that cannot be
\* parsed: ours are found beside them (BootVar, vars.go:127, CheckMissing,
\* boot.go:114, counts on it).  A path that was cut short or goes on after its
\* end is refused, and a partition is resolved only if it is the only one of
\* its id (efiDppMedia.go:97).  Every entry has its description's terminator.
BootEntriesRead ==
  /\ item.kind = "entry" =>
       LET path   == EncodePath(item.nodes)
           parsed == E!ParseFilePathList(path)
           entry  == E!BootVar(EncodeEntry(item.description, path, item.optional))
       IN /\ parsed = IF ToSet(item.nodes) \cap BadNodes # {} THEN E!ParseError
                      ELSE [i \in 1 .. Len(item.nodes) |-> E!ParseNode(item.nodes[i][1], item.nodes[i][2])]
          /\ item.description = << >> => IsCutShort(path) /\ E!ParseFilePathList(Append(path, 0)) = E!ParseError
          /\ entry = [description |-> item.description, path |-> parsed, optional |-> item.optional]
  /\ item.kind = "vars" =>
       LET data(v) == EncodeEntry(<<65>>, EncodePath(<< <<v.node, <<0, 2>> >> >>), << >>)
           vars == [k \in 1 .. Len(item.vars) |-> [dashes |-> 5, prefix |-> "Boot", data |-> data(item.vars[k])] @@ item.vars[k]]
       IN Len(E!Ours(E!AllBootEntryVars(vars), {<<65>>})) =
            Quantity(vars, LAMBDA v : v.readable /\ v.vendor = "boot" /\ v.suffix = "hex")
  /\ item.kind = "partition" =>
       LET id    == CASE item.sigType = 2 -> [guid |-> Zeros(16)]
                      [] item.sigType = 1 -> [mbr |-> Zeros(4), part |-> Zeros(4)]
                      [] OTHER -> [none |-> 0]
           found == E!Resolver([sigType |-> item.sigType, sig |-> Zeros(16), partNum |-> Zeros(4)], item.blocks)
           same  == {d \in 1 .. 2 : item.blocks[d] = id}
       IN IF Cardinality(same) # 1 THEN found = E!NotFound
          ELSE /\ found.device \in same
               /\ E!Resolve(E!Resolve(found, "first", FALSE), "second", FALSE).mounted = <<"first">>
               /\ E!Resolve(E!Cleanup(E!Resolve(found, "first", FALSE)), "second", FALSE).mounted = <<"second">>
               /\ E!Resolve(E!Resolve(found, "first", TRUE), "second", FALSE).mounted = <<"second">>

=============================================================================
