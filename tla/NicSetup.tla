------------------------------- MODULE NicSetup -------------------------------
(***************************************************************************)
(* Network ports of a unit: which is the wan port, which are for diagnosis  *)
(* and disabled, how the work of their queues is spread over the cpus, and  *)
(* what becomes of default routes (pkg/net, pkg/hw/nic, pkg/hw/cpu,         *)
(* cmd/img/nic_config, pkg/systemd/networkd).                               *)
(*                                                                          *)
(* A port is a record with its mac; ports count from 0 in the order of      *)
(* their macs.  Sets of cpus stand for bit masks.                           *)
(***************************************************************************)
EXTENDS Integers, Sequences, SequencesExt, FiniteSets, FiniteSetsExt, Functions

\* ------------------------------------------------------------------ ports

\* No prefix allows all ports.  Of ports with equal macs, the first takes
\* the place of them all.
FilterMACs(ports, prefixes) == SelectSeq(ports, LAMBDA p : prefixes = {} \/ p.prefix \in prefixes)
SortPorts(ports) ==
  LET macs == SortSeq([i \in 1 .. Len(ports) |-> ports[i].mac], <)
  IN [i \in 1 .. Len(ports) |-> ports[Min({j \in 1 .. Len(ports) : ports[j].mac = macs[i]})]]
SortedList(ports, prefixes) == SortPorts(FilterMACs(ports, prefixes))

\* The ports that are (or are not) at the given places.
Places(list) == [i \in 1 .. Len(list) |-> i]

\* The bug of leaving ports out after the wan port has been looked up.
ListWithDiag(list, diags) == list

NoDiag(list, diags) ==
  LET at == SelectSeq(Places(list), LAMBDA i : i - 1 \notin ToSet(diags)) IN [k \in 1 .. Len(at) |-> list[at[k]]]

\* Ports for diagnosis are still there until nic_config has disabled them.
NoPort == [mac |-> 0, prefix |-> "none"]
WanDevice(list, diags, wanIndex, disabled) ==
  LET usable == IF disabled THEN list ELSE NoDiag(list, diags)
  IN IF Len(usable) > wanIndex THEN usable[wanIndex + 1] ELSE NoPort

\* Each is disabled by its place in the list that is left by then.
DisableByIndex(list, place) == IF place >= Len(list) THEN list ELSE RemoveAt(list, place + 1)
DisableDiags(list, diags) == FoldLeft(DisableByIndex, list, diags)

\* Ports that have no address yet are enabled, those for diagnosis not; it
\* has worked when one of all the ports has an address in time.
EnabledPorts(list, diags, have) == ToSet(NoDiag(list, diags)) \ have
EnableNetworking(list, diags, have, answered) ==
  ToSet(list) \cap (have \cup (EnabledPorts(list, diags, have) \cap answered)) # {}

\* Names for ports by default: DIAG for those for diagnosis, a number when
\* the names run out.
Alias(list, diags, names, i) ==
  LET before == Cardinality({j \in 0 .. i - 1 : j \notin ToSet(diags)})
  IN IF i \in ToSet(diags) THEN (IF Len(diags) > 1 THEN <<"DIAG", i>> ELSE <<"DIAG">>)
     ELSE IF before >= Len(names) THEN <<Len(names)>> ELSE <<names[before + 1]>>
Defaults(list, diags, names) ==
  [i \in 0 .. Len(list) - 1 |->
     [mac |-> list[i + 1].mac, name |-> Alias(list, diags, names, i), dhcp |-> i \notin ToSet(diags)]]

\* ----------------------------------------------------------------- queues

\* What ethtool prints of a port: a section's title, or the number of a
\* kind of queue, which is passed over before the first title.
NoQueues == [max |-> 0, current |-> 0]
ReadQueueLine(info, line) ==
  CASE line.key = "title" -> [info EXCEPT !.section = line.value]
    [] line.key \in DOMAIN info.queues /\ info.section # "unknown" -> [info EXCEPT !.queues[line.key][info.section] = line.value]
    [] OTHER -> info
ParseQueueInfo(lines) ==
  FoldLeft(ReadQueueLine, [section |-> "unknown", queues |-> [k \in {"rx", "tx", "other", "combined"} |-> NoQueues]], lines).queues

\* All queues a port can have are to be used.
MaximizeQueues(lines) ==
  LET queues == ParseQueueInfo(lines) IN {<<k, queues[k].max>> : k \in {k \in DOMAIN queues : queues[k].current # queues[k].max}}

\* The interrupts of a port's queues: all but the first one that is not a
\* queue's, if there is more than one.
IsQueueIrq(irq) == irq.name = "queue"
FindIRQs(irqs) ==
  LET main == {i \in 1 .. Len(irqs) : ~IsQueueIrq(irqs[i])}
  IN IF Len(irqs) > 1 /\ main # {} THEN RemoveAt(irqs, Min(main)) ELSE irqs

\* Each queue gets the next perQueue cpus of the mask.  What remains is dealt
\* out round after round, one place of the mask to each queue, in the orders
\* in which Go happens to go through a map: order names a queue per place.
XpsConfig(queues, mask, order) ==
  LET cpus      == SetToSortSeq(mask, <)
      perQueue  == IF Len(cpus) \div queues = 0 THEN 1 ELSE Len(cpus) \div queues
      own(q)    == {cpus[k] : k \in ((q - 1) * perQueue) + 1 .. Min({q * perQueue, Len(cpus)})}
      rest      == {cpus[k] : k \in (queues * perQueue) + 1 .. Len(cpus)}
      next      == IF rest = {} THEN 0 ELSE cpus[queues * perQueue] + 1
  IN [q \in 1 .. queues |-> own(q) \cup {c \in rest : order[c - next + 1] = q}]

\* A list of cpus as the kernel writes it: single ones, which must not be
\* repeated, and ranges, which must go upwards.
BadList == <<-1>>
AddCpus(set, p) ==
  CASE set = BadList                        -> BadList
    [] p.single /\ p.from \in ToSet(set)     -> BadList
    [] p.single /\ p.from \notin ToSet(set)  -> Append(set, p.from)
    [] ~p.single /\ p.to <= p.from          -> BadList
    [] OTHER                                -> set \o [i \in 1 .. p.to - p.from + 1 |-> p.from + i - 1]
CpuList(parts) == FoldLeft(AddCpus, << >>, parts)

\* A cpu's own use, half of that of its threads and a hundredth of that of
\* its socket, times a hundred.  Siblings of a cpu include itself.
Weight(topo, use, c) ==
  LET sum(siblings) == MapThenSumSet(LAMBDA s : use[s], siblings[c] \ {c})
  IN 100 * use[c] + 50 * sum(topo.threads) + sum(topo.cores)

\* The cpus with the least weight, any of which may be chosen.  Until there
\* are as many in use as the unit has, counts start anew; where nothing has
\* filled the list of cpus, cpu 0 is chosen whatever is excluded.
Lightest(topo, use, exclude) ==
  LET known == DOMAIN use \ exclude
  IN IF known = {} THEN {0} ELSE {c \in known : \A e \in known : Weight(topo, use, c) <= Weight(topo, use, e)}
Counts(topo, use) ==
  IF Cardinality(DOMAIN use) < topo.count THEN [c \in topo.all |-> 0] @@ use ELSE use

RECURSIVE SetWeighted(_, _, _, _)
SetWeighted(topo, use, set, size) ==
  IF Len(set) = size THEN {[set |-> set, use |-> use]}
  ELSE LET counts == Counts(topo, use)
       IN UNION {SetWeighted(topo, [x \in DOMAIN counts \cup {c} |->
                                      (IF x \in DOMAIN counts THEN counts[x] ELSE 0) + (IF x = c THEN 1 ELSE 0)],
                             Append(set, c), size) : c \in Lightest(topo, counts, ToSet(set))}
CreateSetWeighted(topo, use, size) == SetWeighted(topo, use, << >>, Min({size, topo.count}))

\* ----------------------------------------------------------------- routes

\* A line of ip route list is read as pairs of a key and a value; a word
\* that is no key is passed over.  Lines of fewer than seven words are not
\* read at all.
Keys == {"via", "dev", "src", "proto", "metric", "scope", "uid"}
RECURSIVE ReadPairs(_, _)
ReadPairs(rt, words) ==
  IF words = << >> THEN rt
  ELSE IF Len(words) > 1 /\ words[1] \in Keys
  THEN ReadPairs([rt EXCEPT ![words[1]] = words[2]], SubSeq(words, 3, Len(words)))
  ELSE ReadPairs(rt, Tail(words))

NoRoute == [k \in Keys \cup {"dest"} |-> ""]
ParseRoute(words, onlyDefault) ==
  IF Len(words) < 7 \/ (onlyDefault /\ <<words[1], words[2]>> # <<"default", "via">>) THEN NoRoute
  ELSE [ReadPairs(NoRoute, Tail(words)) EXCEPT !["uid"] = "", !["dest"] = IF words[1] = "default" THEN "" ELSE words[1]]

\* And written: only what is set.
RouteWords(rt) ==
  <<IF rt.dest = "" THEN "default" ELSE rt.dest>>
    \o FlattenSeq([i \in 1 .. 6 |-> LET k == <<"via", "dev", "proto", "scope", "src", "metric">>[i]
                                    IN IF rt[k] = "" THEN << >> ELSE <<k, rt[k]>>])

\* The kernel's default routes are kept in the order of their metrics, which
\* differ: a second route with the same one is refused.  A route is removed by
\* its gateway and port alone: of several that fit the first one is.
RemoveRoute(table, r) ==
  LET fit == {i \in 1 .. Len(table) : table[i].gw = r.gw /\ table[i].iface = r.iface}
  IN IF fit = {} THEN table ELSE RemoveAt(table, Min(fit))
Refused(table, metric) == \E i \in 1 .. Len(table) : table[i].metric = metric
AddRoute(table, r) == SortSeq(Append(table, r), LAMBDA a, b : a.metric < b.metric)

\* A route's metric is changed by removing and adding it.  When one is
\* refused all of it is done again with the next metric, the removal, too:
\* that takes the next route with the same gateway and port.
MaxTries == 32
RECURSIVE AdjustMetric(_, _, _, _)
AdjustMetric(table, r, metric, prevTries) ==
  IF prevTries >= MaxTries THEN table
  ELSE LET rest == RemoveRoute(table, r)
       IN IF Refused(rest, metric) THEN AdjustMetric(rest, r, metric + 1, prevTries + 1)
          ELSE AddRoute(rest, [r EXCEPT !.metric = metric])

\* Default routes through other ports than the wan port are removed, or get
\* another metric; static ones are left alone.
AdjustDupDefaultRoutes(table, wan, metric) ==
  IF wan = "" THEN table
  ELSE LET keep == IF \E i \in 1 .. Len(table) : table[i].iface = wan THEN wan ELSE ""
           Adjust(t, r) == IF r.static \/ r.iface = keep THEN t
                           ELSE IF metric = 0 THEN RemoveRoute(t, r)
                           ELSE IF r.metric = metric THEN t ELSE AdjustMetric(t, r, metric, 0)
       IN FoldLeft(Adjust, table, table)
=============================================================================
