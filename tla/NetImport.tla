------------------------------- MODULE NetImport -------------------------------
(***************************************************************************)
(* The conversion of a unit's network settings from the system it had       *)
(* before into files for networkd (pkg/netexport, pkg/systemd/networkd).    *)
(*                                                                          *)
(* A port's name is its base and, for a vlan, what it says of its number.   *)
(* IntelMap goes from the adapter's name to a nic, IfMap from an index.     *)
(***************************************************************************)
EXTENDS Integers, Sequences, SequencesExt, FiniteSets, FiniteSetsExt, Functions

NoName == [base |-> 0, vlan |-> 0]
Nic == [name |-> NoName, mac |-> 0, parent |-> FALSE, isVlan |-> FALSE, vlan |-> 0,
        dhcp4 |-> FALSE, dhcp6 |-> FALSE, routes |-> << >>]

\* ------------------------------------------------- the adapters' settings

Fail(state, why) == [state EXCEPT !.error = why]
SetName(state, line) ==
  IF line.adapter \notin DOMAIN state.nics THEN Fail(state, "no such interface")
  ELSE IF line.name = NoName THEN Fail(state, "panic")
  ELSE [state EXCEPT !.nics[line.adapter].name = line.name]

\* A vlan is an adapter of its own, with the mac of the one it is on.
AddVlan(state, line) ==
  LET made == Append(line.adapter, line.vlan)
  IN IF line.adapter \notin DOMAIN state.nics THEN Fail(state, "missing parent")
     ELSE IF made \in DOMAIN state.nics THEN Fail([state EXCEPT !.nics[line.adapter].parent = TRUE], "vlan exists")
     ELSE [state EXCEPT !.nics = made :> [Nic EXCEPT !.isVlan = TRUE, !.vlan = line.vlan, !.mac = state.nics[line.adapter].mac]
                                 @@ [@ EXCEPT ![line.adapter].parent = TRUE]]

AddAdapter(state, line) ==
  IF line.adapter \in DOMAIN state.nics THEN Fail(state, "exists")
  ELSE IF line.mac = 0 THEN state
  ELSE [state EXCEPT !.nics = line.adapter :> [Nic EXCEPT !.mac = line.mac] @@ @]

ReadRow(state, line) ==
  CASE state.section = "Adapters"                           -> AddAdapter(state, line)
    [] state.section \in {"AdapterSettings", "VlanSettings"} -> IF line.option = "name" THEN SetName(state, line)
                                                                ELSE IF line.adapter \notin DOMAIN state.nics
                                                                THEN Fail(state, "no such interface") ELSE state
    [] state.section = "Vlans"                              -> AddVlan(state, line)
    [] state.section \in {"Teams", "TeamSettings"}          -> state
    [] OTHER                                                -> Fail(state, "unknown section")

\* Sections have a start and an end and are not nested; the end of the file
\* may come within one.
ReadLine(state, line) ==
  IF state.error # "" THEN state
  ELSE CASE line.kind = "start" -> IF state.section # "" THEN Fail(state, "in section") ELSE [state EXCEPT !.section = line.section]
         [] line.kind = "end"   -> IF state.section # line.section THEN Fail(state, "wrong end") ELSE [state EXCEPT !.section = ""]
         [] line.kind = "row"   -> ReadRow(state, line)
         [] OTHER               -> Fail(state, "unexpected")
LoadIntel(lines) == FoldLeft(ReadLine, [section |-> "", nics |-> << >>, error |-> ""], lines)

\* ---------------------------------------------------------- the interfaces

\* Interfaces that stand for no port are left out.
GetAddrs(interfaces) ==
  LET kept == SelectSeq(interfaces, LAMBDA i : i.kind = "port")
  IN [index \in {kept[k].index : k \in 1 .. Len(kept)} |->
        LET i == kept[Min({k \in 1 .. Len(kept) : kept[k].index = index})]
        IN [Nic EXCEPT !.name = i.name, !.mac = i.mac, !.dhcp4 = i.dhcp, !.dhcp6 = i.dhcp]]

\* A row of the route table must name an interface and either an address or
\* a network; the first that does not ends the reading.
AddRoute(state, row) ==
  IF state.error THEN state
  ELSE IF row.index \notin DOMAIN state.nics \/ (row.address = row.prefix) THEN [state EXCEPT !.error = TRUE]
  ELSE [state EXCEPT !.nics[row.index].routes = Append(@, row)]
ParseRoutes(nics, rows) == FoldLeft(AddRoute, [nics |-> nics, error |-> FALSE], rows)

\* A route that is to be left out is written as nothing, which is no json:
\* the whole export fails.
SkipRoute(route) == route.local
NoJson == << >>
ToJson(nics) ==
  IF \E i \in DOMAIN nics : \E k \in 1 .. Len(nics[i].routes) : SkipRoute(nics[i].routes[k]) THEN NoJson ELSE nics

\* Adapters and interfaces of one name are put together.  Ports with vlans,
\* which the system may hide, are added under an index of their own; no
\* dhcp is left to them.
FirstFree == 9990
MergeOne(nics, intel) ==
  LET same == {i \in DOMAIN nics : nics[i].name = intel.name}
      free == Min({i \in FirstFree .. FirstFree + Cardinality(DOMAIN nics) : i \notin DOMAIN nics})
  IN IF same # {}
     THEN {[nics EXCEPT ![i] = [@ EXCEPT !.vlan = intel.vlan, !.parent = intel.parent, !.isVlan = intel.isVlan,
                                         !.dhcp4 = @ /\ ~intel.parent, !.dhcp6 = @ /\ ~intel.parent]] : i \in same}
     ELSE IF intel.parent THEN {free :> intel @@ nics} ELSE {nics}

\* In any order, as Go goes through a map.
Merge(nics, intelNics) ==
  UNION {FoldLeft(LAMBDA outs, n : UNION {MergeOne(o, n) : o \in outs}, {nics}, order) :
           order \in SetToSeqs({intelNics[a] : a \in DOMAIN intelNics})}

\* ---------------------------------------------------------- networkd files

VlanChildren(nics, nic) ==
  IF nic.parent THEN {nics[i].vlan : i \in {i \in DOMAIN nics : nics[i].isVlan /\ nics[i].mac = nic.mac}} ELSE {}

\* The name of a vlan's interface, from its own name or its port's.
VlanIfName(nic, vlan) ==
  IF nic.parent = nic.isVlan \/ (nic.name.vlan # 0) # nic.isVlan THEN <<"panic">> ELSE <<nic.name.base, vlan>>

FileName(nic, ext) == <<nic.mac, IF nic.isVlan THEN nic.vlan ELSE 0, ext>>
LinkFile(nic) ==
  [file |-> FileName(nic, "link"), match |-> IF nic.isVlan THEN VlanIfName(nic, nic.vlan) ELSE <<nic.mac>>]
NetworkFile(nic, vlans) ==
  [file |-> FileName(nic, "network"), match |-> IF nic.isVlan THEN VlanIfName(nic, nic.vlan) ELSE <<nic.mac>>,
   dhcp |-> IF nic.dhcp4 THEN (IF nic.dhcp6 THEN "yes" ELSE "ipv4") ELSE IF nic.dhcp6 THEN "ipv6" ELSE "no",
   vlans |-> {VlanIfName(nic, v) : v \in vlans}, routes |-> nic.routes]
NetdevFile(nic) == [file |-> FileName(nic, "netdev"), name |-> VlanIfName(nic, nic.vlan), id |-> nic.vlan]
ToNetD(nics, nic) ==
  <<LinkFile(nic), NetworkFile(nic, VlanChildren(nics, nic))>> \o (IF nic.isVlan THEN <<NetdevFile(nic)>> ELSE << >>)

\* All files of a unit; one is written over another of the same name.
Export(nics) == FlattenSeq(SetToSeq({ToNetD(nics, nics[i]) : i \in DOMAIN nics}))
=============================================================================
