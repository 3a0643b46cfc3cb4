--------------------------- MODULE LcdPortProofs ---------------------------
(***************************************************************************)
(* For any threads, commands, retries, capacities, keys and faults: what   *)
(* the driver reports as done is what the display shows, as long as        *)
(* senders hold the mutex and pings are answered.  A packet carries no     *)
(* number, so the argument is about what is on the line: at most the       *)
(* request of the holder and, behind it, one ping.                         *)
(***************************************************************************)
EXTENDS LcdPort, SequenceTheorems, TLAPS

\* The packets in a queue.
Holds(s) == {s[i] : i \in DOMAIN s}

\* Packets that getPkt waits for.
Asked(p) == p.cmd \in Commands \cup {"ping"}

\* Of two packets that are waited for, the first is a command, the second a ping.
InTurn(p, q) == Asked(p) /\ Asked(q) => p.cmd \in Commands /\ q.cmd = "ping"
Sorted(s)    == \A i, j \in DOMAIN s : i < j => InTurn(s[i], s[j])
Ahead(s, u)  == \A p \in Holds(s), q \in Holds(u) : InTurn(p, q)
InOrder      == /\ Sorted(inbox) /\ Sorted(toHost) /\ Sorted(toLcd)
                /\ Ahead(inbox, toHost) /\ Ahead(inbox, toLcd) /\ Ahead(toHost, toLcd)

\* What the line may hold, given where the thread with the mutex is: nothing
\* is left of a request once a ping sent after it has come back.
Awaited(t) == IF pc[t] \in {"wait", "ping"} THEN {req[t]}
              ELSE IF pc[t] = "pingWait" THEN {req[t], Ping} ELSE {}
Expected == IF mutex \in Holders THEN Awaited(mutex) ELSE {}
OnlyThese(E) == \A p \in Holds(inbox) \cup Holds(toHost) \cup Holds(toLcd) : Asked(p) => p \in E

\* An answer carries the number of what the device carried out last.
Carried == \A p \in Holds(inbox) \cup Holds(toHost) : p.cmd \in Commands => p.id = shown

Resting == {"off", "idle", "panic"}
OneSender == \A t \in Threads :
  pc[t] \notin Resting => t \in Holders /\ t = mutex /\ ~closed /\ req[t].cmd \in Commands

Answered == \A t \in Holders : pc[t] = "done" => shown = req[t].id

OrderlyInv == OneSender /\ OnlyThese(Expected) /\ InOrder /\ Carried /\ Answered
PortInv == TypeOK /\ (orderly => OrderlyInv)

-----------------------------------------------------------------------------
(* Queues: what taking, adding and dropping packets leaves. *)

(* Taking the first packet of a queue in turn.                              *)
LEMMA TailOf ==
  ASSUME NEW A, NEW s \in Seq(A), s # <<>>
  PROVE  /\ Head(s) \in A /\ Tail(s) \in Seq(A) /\ Len(Tail(s)) = Len(s) - 1
         /\ Head(s) \in Holds(s) /\ Holds(Tail(s)) \subseteq Holds(s)
         /\ Sorted(s) => Sorted(Tail(s)) /\ \A q \in Holds(Tail(s)) : InTurn(Head(s), q)
<1>1. /\ Len(s) \in Nat /\ Len(s) > 0 /\ DOMAIN s = 1 .. Len(s) /\ Head(s) = s[1] /\ s[1] \in A
  BY EmptySeq
<1>2. /\ Tail(s) \in Seq(A) /\ Len(Tail(s)) = Len(s) - 1 /\ DOMAIN Tail(s) = 1 .. Len(s) - 1
  BY HeadTailProperties
<1>3. \A i \in 1 .. Len(s) - 1 : Tail(s)[i] = s[i + 1] /\ i + 1 \in 1 .. Len(s)
  BY <1>1, HeadTailProperties
<1>4. Head(s) \in Holds(s)
  BY <1>1 DEF Holds
<1>5. Holds(Tail(s)) \subseteq Holds(s)
  BY <1>1, <1>2, <1>3 DEF Holds
<1>6. ASSUME Sorted(s) PROVE Sorted(Tail(s))
  <2>1. ASSUME NEW i \in 1 .. Len(s) - 1, NEW j \in 1 .. Len(s) - 1, i < j
        PROVE  InTurn(Tail(s)[i], Tail(s)[j])
    <3>1. i + 1 \in DOMAIN s /\ j + 1 \in DOMAIN s /\ i + 1 < j + 1
      BY <1>1, <2>1
    <3>2. InTurn(s[i + 1], s[j + 1])
      BY <1>6, <3>1 DEF Sorted
    <3> QED BY <1>3, <3>2
  <2> QED BY <1>2, <2>1 DEF Sorted
<1>7. ASSUME Sorted(s), NEW q \in Holds(Tail(s)) PROVE InTurn(Head(s), q)
  <2>1. PICK i \in 1 .. Len(s) - 1 : q = Tail(s)[i]
    BY <1>2, <1>7 DEF Holds
  <2>2. q = s[i + 1] /\ 1 \in DOMAIN s /\ i + 1 \in DOMAIN s /\ 1 < i + 1
    BY <1>1, <1>3, <2>1
  <2>3. InTurn(s[1], s[i + 1])
    BY <1>7, <2>2 DEF Sorted
  <2> QED BY <1>1, <2>2, <2>3
<1> QED BY <1>1, <1>2, <1>4, <1>5, <1>6, <1>7

(* Adding a packet behind others that it may follow.                        *)
LEMMA AppendOf ==
  ASSUME NEW A, NEW s \in Seq(A), NEW e \in A
  PROVE  /\ Append(s, e) \in Seq(A) /\ Len(Append(s, e)) = Len(s) + 1
         /\ Holds(Append(s, e)) = Holds(s) \cup {e}
         /\ Sorted(s) /\ (\A p \in Holds(s) : InTurn(p, e)) => Sorted(Append(s, e))
<1>1. /\ Len(s) \in Nat /\ DOMAIN s = 1 .. Len(s)
      /\ Append(s, e) \in Seq(A) /\ Len(Append(s, e)) = Len(s) + 1
      /\ DOMAIN Append(s, e) = 1 .. Len(s) + 1
      /\ \A i \in 1 .. Len(s) : Append(s, e)[i] = s[i]
      /\ Append(s, e)[Len(s) + 1] = e
  BY AppendProperties
<1>2. DOMAIN Append(s, e) = DOMAIN s \cup {Len(s) + 1}
  BY <1>1
<1>3. Holds(Append(s, e)) = Holds(s) \cup {e}
  BY <1>1, <1>2 DEF Holds
<1>4. ASSUME Sorted(s), \A p \in Holds(s) : InTurn(p, e),
             NEW i \in 1 .. Len(s) + 1, NEW j \in 1 .. Len(s) + 1, i < j
      PROVE  InTurn(Append(s, e)[i], Append(s, e)[j])
  <2>1. i \in DOMAIN s /\ Append(s, e)[i] = s[i]
    BY <1>1, <1>4
  <2>2. CASE j = Len(s) + 1
    <3>1. s[i] \in Holds(s)
      BY <2>1 DEF Holds
    <3> QED BY <1>1, <1>4, <2>1, <2>2, <3>1
  <2>3. CASE j # Len(s) + 1
    <3>1. j \in DOMAIN s /\ Append(s, e)[j] = s[j]
      BY <1>1, <2>3
    <3> QED BY <1>4, <2>1, <3>1 DEF Sorted
  <2> QED BY <2>2, <2>3
<1> QED BY <1>1, <1>3, <1>4 DEF Sorted

(* Dropping packets from the end.                                           *)
LEMMA PrefixOf ==
  ASSUME NEW A, NEW s \in Seq(A), NEW n \in 0 .. Len(s)
  PROVE  /\ SubSeq(s, 1, n) \in Seq(A) /\ Holds(SubSeq(s, 1, n)) \subseteq Holds(s)
         /\ Sorted(s) => Sorted(SubSeq(s, 1, n))
<1>1. /\ Len(s) \in Nat /\ DOMAIN s = 1 .. Len(s) /\ \A i \in 1 .. n : i \in DOMAIN s /\ s[i] \in A
  OBVIOUS
<1>2. /\ SubSeq(s, 1, n) \in Seq(A) /\ Len(SubSeq(s, 1, n)) = n
      /\ DOMAIN SubSeq(s, 1, n) = 1 .. n
      /\ \A i \in 1 .. n : SubSeq(s, 1, n)[i] = s[i]
  BY <1>1, SubSeqProperties
<1> QED BY <1>1, <1>2 DEF Holds, Sorted

(* A queue without packets.                                                 *)
LEMMA EmptyOf == \A A : <<>> \in Seq(A) /\ Holds(<<>>) = {} /\ Sorted(<<>>)
BY EmptySeq DEF Holds, Sorted

-----------------------------------------------------------------------------
(* Types. *)

LineOK == /\ toLcd \in Seq(Packets \cup {Other("poll")}) /\ toHost \in Seq(Packets \cup Others)
          /\ inbox \in Seq(Packets) /\ Len(inbox) <= InCap
Wheres == {"off", "idle", "send", "wait", "ping", "pingWait", "retry", "done", "failed", "panic"}
ThreadOK == /\ mutex \in Holders \cup {"free"} /\ pc \in [Threads -> Wheres]
            /\ req \in [Threads -> Packets] /\ tries \in [Threads -> 0 .. MaxTries]
CountOK == /\ events \in 0 .. EventCap /\ pending \in 0 .. 2 /\ closed \in BOOLEAN
           /\ silent \in BOOLEAN /\ shown \in 0 .. MaxRequests
           /\ issued \in 0 .. MaxRequests /\ keys \in 0 .. MaxKeys /\ faults \in 0 .. MaxFaults
           /\ orderly \in BOOLEAN

LEMMA TypeParts == TypeOK <=> LineOK /\ ThreadOK /\ CountOK
BY DEF TypeOK, LineOK, ThreadOK, CountOK, Wheres

LEMMA PartsTyped == LineOK' /\ ThreadOK' /\ CountOK' => TypeOK'
BY DEF TypeOK, LineOK, ThreadOK, CountOK, Wheres

LEMMA ToTypes ==
  ASSUME ThreadOK, NEW t \in Threads, NEW w \in Wheres, To(t, w)
  PROVE  pc' \in [Threads -> Wheres]
BY DEF ThreadOK, To

LEMMA FaultTypes == (Fault \/ NoFault) /\ CountOK => faults' \in 0 .. MaxFaults
BY PortAssumption DEF Fault, NoFault, CountOK

LEMMA PacketTypes == /\ Ping \in Packets /\ \A c \in {"key", "poll", "badCrc", "badHeader"} : Other(c) \in Others
                     /\ \A p \in Packets : p.cmd \in Commands => p.id \in 0 .. MaxRequests
BY PortAssumption DEF Packets, Ping, Other, Others

LEMMA SendTypes ==
  ASSUME TypeOK, NEW t \in Threads, NEW packet \in Packets \cup {Other("poll")},
         NEW then \in Wheres, NEW onError \in Wheres, Send(t, packet, then, onError)
  PROVE  LineOK' /\ ThreadOK' /\ faults' \in 0 .. MaxFaults
<1>1. LineOK'
  <2>1. toLcd' \in {toLcd, Append(toLcd, packet)} /\ toHost' = toHost /\ inbox' = inbox
    BY DEF Send, reader
  <2>2. /\ toLcd \in Seq(Packets \cup {Other("poll")}) /\ toHost \in Seq(Packets \cup Others)
        /\ inbox \in Seq(Packets) /\ Len(inbox) <= InCap
    BY DEF TypeOK
  <2>3. Append(toLcd, packet) \in Seq(Packets \cup {Other("poll")})
    BY <2>2, AppendProperties
  <2> QED BY <2>1, <2>2, <2>3 DEF LineOK
<1>2. ThreadOK'
  <2>1. pc' \in [Threads -> Wheres]
    BY TypeParts, ToTypes DEF Send
  <2> QED BY <2>1, TypeParts DEF Send, ThreadOK
<1>3. faults' \in 0 .. MaxFaults
  BY TypeParts, FaultTypes DEF Send
<1> QED BY <1>1, <1>2, <1>3

LEMMA AcceptTypes ==
  ASSUME TypeOK, NEW t \in Threads, NEW cmd, NEW then \in Wheres, Accept(t, cmd, then)
  PROVE  TypeOK'
<1>1. LineOK'
  <2>1. inbox \in Seq(Packets) /\ Len(inbox) <= InCap /\ inbox # <<>>
    BY DEF Accept, TypeOK
  <2>2. Tail(inbox) \in Seq(Packets) /\ Len(Tail(inbox)) = Len(inbox) - 1 /\ Len(inbox) \in Nat
    BY <2>1, TailOf
  <2>3. InCap \in Nat /\ Len(Tail(inbox)) <= InCap
    BY <2>1, <2>2, PortAssumption
  <2> QED BY <2>2, <2>3 DEF Accept, TypeOK, LineOK, line
<1>2. ThreadOK'
  <2>1. pc' \in [Threads -> Wheres]
    <3>1. CASE To(t, then)
      BY <3>1, TypeParts, ToTypes
    <3>2. CASE UNCHANGED pc
      BY <3>2 DEF TypeOK, Wheres
    <3> QED BY <3>1, <3>2 DEF Accept
  <2> QED BY <2>1, TypeParts DEF Accept, ThreadOK
<1>3. CountOK'
  BY DEF Accept, TypeOK, CountOK, bounds
<1> QED BY <1>1, <1>2, <1>3, PartsTyped

LEMMA TimeOutTypes ==
  ASSUME TypeOK, NEW t \in Threads, NEW then \in Wheres, TimeOut(t, then), orderly' \in BOOLEAN
  PROVE  TypeOK'
<1>1. LineOK'
  BY DEF TimeOut, TypeOK, LineOK, line, reader
<1>2. ThreadOK'
  <2>1. pc' \in [Threads -> Wheres]
    BY TypeParts, ToTypes DEF TimeOut
  <2> QED BY <2>1, TypeParts DEF TimeOut, ThreadOK
<1>3. faults' \in 0 .. MaxFaults
  BY TypeParts, FaultTypes DEF TimeOut
<1>4. CountOK'
  BY <1>3 DEF TimeOut, TypeOK, CountOK, reader
<1> QED BY <1>1, <1>2, <1>4, PartsTyped

(* What a thread does keeps the types. *)
LEMMA ThreadTypes ==
  ASSUME TypeOK, NEW t \in Threads, Request(t) \/ PollKeys(t) \/ Exchange(t)
  PROVE  TypeOK'
<1> USE DEF Wheres
<1>1. CASE Request(t)
  <2>1. LineOK'
    BY <1>1 DEF Request, TypeOK, LineOK, line, reader
  <2>2. CASE closed
    <3>1. pc' \in [Threads -> Wheres] /\ mutex' \in Holders \cup {"free"}
      BY <1>1, <2>2, ToTypes, TypeParts DEF Request, ThreadOK
    <3>2. ThreadOK'
      BY <1>1, <2>2, <3>1 DEF Request, ThreadOK, TypeOK
    <3>3. CountOK'
      BY <1>1, <2>2 DEF Request, CountOK, TypeOK, reader
    <3> QED BY <2>1, <3>2, <3>3, PartsTyped
  <2>3. CASE ~closed
    <3>1. issued < MaxRequests /\ issued' = issued + 1 /\ issued \in 0 .. MaxRequests
      BY <1>1, <2>3 DEF Request, TypeOK
    <3>2. issued' \in 0 .. MaxRequests
      BY <3>1, PortAssumption
    <3>3. PICK c \in Commands : req' = [req EXCEPT ![t] = [cmd |-> c, id |-> issued + 1]]
      BY <1>1, <2>3 DEF Request
    <3>4. [cmd |-> c, id |-> issued + 1] \in Packets
      BY <3>1, <3>2 DEF Packets
    <3>5. req' \in [Threads -> Packets]
      BY <3>3, <3>4 DEF TypeOK
    <3>6. tries' \in [Threads -> 0 .. MaxTries]
      <4>1. tries' = [tries EXCEPT ![t] = MaxTries] /\ MaxTries \in 0 .. MaxTries
        BY <1>1, <2>3, PortAssumption DEF Request
      <4> QED BY <4>1 DEF TypeOK
    <3>7. pc' \in [Threads -> Wheres]
      BY <1>1, <2>3, ToTypes, TypeParts DEF Request
    <3>8. ThreadOK'
      BY <1>1, <3>5, <3>6, <3>7 DEF Request, ThreadOK, TypeOK
    <3>9. CountOK'
      BY <1>1, <2>3, <3>2 DEF Request, CountOK, TypeOK, reader
    <3> QED BY <2>1, <3>8, <3>9, PartsTyped
  <2> QED BY <2>2, <2>3
<1>2. CASE PollKeys(t)
  <2>1. LineOK' /\ ThreadOK' /\ faults' \in 0 .. MaxFaults
    BY <1>2, SendTypes DEF PollKeys
  <2>2. keys' \in 0 .. MaxKeys
    BY <1>2, PortAssumption DEF PollKeys, TypeOK
  <2>3. CountOK'
    BY <1>2, <2>1, <2>2 DEF PollKeys, Send, CountOK, TypeOK, reader
  <2> QED BY <2>1, <2>3, PartsTyped
<1>3. CASE SendRequest(t)
  <2>1. req[t] \in Packets
    BY DEF TypeOK
  <2>2. LineOK' /\ ThreadOK' /\ faults' \in 0 .. MaxFaults
    BY <1>3, <2>1, SendTypes DEF SendRequest
  <2>3. CountOK'
    BY <1>3, <2>2 DEF SendRequest, Send, CountOK, TypeOK, reader
  <2> QED BY <2>2, <2>3, PartsTyped
<1>4. CASE SendPing(t)
  <2>1. LineOK' /\ ThreadOK' /\ faults' \in 0 .. MaxFaults
    BY <1>4, PacketTypes, SendTypes DEF SendPing
  <2>2. orderly' \in BOOLEAN
    BY <1>4 DEF SendPing
  <2>3. CountOK'
    BY <1>4, <2>1, <2>2 DEF SendPing, Send, CountOK, TypeOK, reader
  <2> QED BY <2>1, <2>3, PartsTyped
<1>5. CASE ReceiveAnswer(t)
  BY <1>5, AcceptTypes, TimeOutTypes DEF ReceiveAnswer, TypeOK
<1>6. CASE ReceivePing(t)
  BY <1>6, AcceptTypes, TimeOutTypes DEF ReceivePing
<1>7. CASE Retry(t)
  <2>1. pc' \in [Threads -> Wheres]
    BY <1>7, ToTypes, TypeParts DEF Retry
  <2>2. tries' \in [Threads -> 0 .. MaxTries]
    <3>1. tries[t] > 0 => tries[t] - 1 \in 0 .. MaxTries
      BY PortAssumption DEF TypeOK
    <3> QED BY <1>7, <3>1 DEF Retry, TypeOK
  <2> QED BY <1>7, <2>1, <2>2 DEF Retry, TypeOK, line, reader, bounds
<1>8. CASE Return(t)
  <2>1. pc' \in [Threads -> Wheres]
    BY <1>8, ToTypes, TypeParts DEF Return
  <2>2. mutex' \in Holders \cup {"free"} /\ closed' \in BOOLEAN
    BY <1>8 DEF Return, TypeOK
  <2> QED BY <1>8, <2>1, <2>2 DEF Return, TypeOK, line, reader, bounds
<1>9. CASE ClosedUnder(t)
  <2>1. pc' \in [Threads -> Wheres]
    BY <1>9, ToTypes, TypeParts DEF ClosedUnder
  <2> QED BY <1>9, <2>1 DEF ClosedUnder, TypeOK, line, reader, bounds
<1> QED BY <1>1, <1>2, <1>3, <1>4, <1>5, <1>6, <1>7, <1>8, <1>9 DEF Exchange

(* So does what the reader and the device do. *)
LEMMA IncomingTypes ==
  ASSUME TypeOK, Incoming
  PROVE  TypeOK'
<1> DEFINE p == Head(toHost)
<1>1. /\ toHost \in Seq(Packets \cup Others) /\ toHost # <<>>
      /\ toLcd \in Seq(Packets \cup {Other("poll")})
      /\ inbox \in Seq(Packets) /\ Len(inbox) <= InCap
  BY DEF Incoming, TypeOK
<1>2. p \in Packets \cup Others /\ Tail(toHost) \in Seq(Packets \cup Others)
  BY <1>1, TailOf
<1>3. CASE p.cmd = "badHeader"
  <2>1. toHost' = <<>> /\ inbox' = inbox /\ events' = events /\ pending' = pending
    BY <1>3 DEF Incoming, FlushPort, reader
  <2>2. PICK n \in 0 .. Len(toLcd) : toLcd' = SubSeq(toLcd, 1, n)
    BY <1>3 DEF Incoming, FlushPort
  <2>3. toLcd' \in Seq(Packets \cup {Other("poll")})
    BY <1>1, <2>2, PrefixOf
  <2>4. toHost' \in Seq(Packets \cup Others)
    BY <2>1, EmptyOf
  <2>5. LineOK'
    BY <1>1, <2>1, <2>3, <2>4 DEF LineOK
  <2>6. ThreadOK' /\ CountOK'
    BY <2>1 DEF Incoming, TypeOK, ThreadOK, CountOK, Wheres, thread, bounds
  <2> QED BY <2>5, <2>6, PartsTyped
<1>4. CASE p.cmd # "badHeader"
  <2>1. /\ toHost' = Tail(toHost) /\ toLcd' = toLcd
        /\ events' = IF p.cmd = "key" /\ events < EventCap THEN events + 1 ELSE events
        /\ pending' = IF p.cmd = "poll" THEN 2 ELSE 0
        /\ inbox' = IF p.cmd \in Commands \cup {"ping"} /\ Len(inbox) < InCap
                    THEN Append(inbox, p) ELSE inbox
    BY <1>4 DEF Incoming
  <2>2. ASSUME p.cmd \in Commands \cup {"ping"}, Len(inbox) < InCap
        PROVE  Append(inbox, p) \in Seq(Packets) /\ Len(Append(inbox, p)) <= InCap
    <3>1. p \in Packets
      BY <1>2, <2>2, PortAssumption DEF Packets, Others
    <3>2. Append(inbox, p) \in Seq(Packets) /\ Len(Append(inbox, p)) = Len(inbox) + 1
      BY <1>1, <3>1, AppendOf
    <3>3. Len(inbox) \in Nat /\ InCap \in Nat
      BY <1>1, PortAssumption
    <3> QED BY <2>2, <3>2, <3>3
  <2>3. LineOK'
    BY <1>1, <1>2, <2>1, <2>2 DEF LineOK
  <2>4. events' \in 0 .. EventCap /\ pending' \in 0 .. 2
    BY <2>1, PortAssumption DEF TypeOK
  <2>5. ThreadOK' /\ CountOK'
    BY <2>4 DEF Incoming, TypeOK, ThreadOK, CountOK, Wheres, thread, bounds
  <2> QED BY <2>3, <2>5, PartsTyped
<1> QED BY <1>3, <1>4

LEMMA DeviceTypes ==
  ASSUME TypeOK, Device
  PROVE  TypeOK'
<1> DEFINE p == Head(toLcd)
<1>1. /\ toLcd \in Seq(Packets \cup {Other("poll")}) /\ toLcd # <<>>
      /\ toHost \in Seq(Packets \cup Others)
  BY DEF Device, TypeOK
<1>2. p \in Packets \cup {Other("poll")} /\ Tail(toLcd) \in Seq(Packets \cup {Other("poll")})
  BY <1>1, TailOf
<1>3. \A x \in Packets \cup Others : Append(toHost, x) \in Seq(Packets \cup Others)
  BY <1>1, AppendOf
<1>4. p \in Packets \cup Others /\ \A b \in {"badCrc", "badHeader"} : Other(b) \in Others
  BY <1>2, PacketTypes
<1>5. toHost' \in Seq(Packets \cup Others)
  BY <1>1, <1>3, <1>4 DEF Device
<1>6. shown' \in 0 .. MaxRequests
  <2>1. p.cmd \in Commands => p.id \in 0 .. MaxRequests
    BY <1>2, PacketTypes, PortAssumption DEF Other
  <2> QED BY <2>1 DEF Device, TypeOK
<1>7. faults' \in 0 .. MaxFaults
  <2>1. Fault \/ NoFault
    BY DEF Device, NoFault
  <2> QED BY <2>1, FaultTypes, TypeParts
<1> QED BY <1>2, <1>5, <1>6, <1>7 DEF Device, TypeOK, reader, thread

LEMMA NextTypes == TypeOK /\ [Next]_vars => TypeOK'
<1> SUFFICES ASSUME TypeOK, [Next]_vars PROVE TypeOK'
  OBVIOUS
<1>1. ASSUME NEW t \in Threads, Request(t) \/ PollKeys(t) \/ Exchange(t) PROVE TypeOK'
  BY <1>1, ThreadTypes
<1>2. CASE TakeEvent
  <2>1. events' \in 0 .. EventCap
    BY <1>2, PortAssumption DEF TakeEvent, TypeOK
  <2> QED BY <1>2, <2>1 DEF TakeEvent, TypeOK, line, thread, bounds
<1>3. CASE PutEvent
  <2>1. events' \in 0 .. EventCap /\ pending' \in 0 .. 2
    BY <1>3, PortAssumption DEF PutEvent, TypeOK
  <2> QED BY <1>3, <2>1 DEF PutEvent, TypeOK, line, thread, bounds
<1>4. CASE Silence
  <2>1. faults' \in 0 .. MaxFaults
    BY <1>4, FaultTypes, TypeParts DEF Silence
  <2> QED BY <1>4, <2>1 DEF Silence, TypeOK, line, reader, thread
<1>5. CASE KeyReport
  <2>1. keys' \in 0 .. MaxKeys
    BY <1>5, PortAssumption DEF KeyReport, TypeOK
  <2>2. toHost' \in Seq(Packets \cup Others)
    BY <1>5, PacketTypes, AppendOf DEF KeyReport, TypeOK
  <2> QED BY <1>5, <2>1, <2>2 DEF KeyReport, TypeOK, reader, thread
<1>6. CASE UNCHANGED vars
  BY <1>6 DEF vars, line, reader, thread, bounds, TypeOK
<1> QED BY <1>1, <1>2, <1>3, <1>4, <1>5, <1>6, IncomingTypes, DeviceTypes DEF Next

LEMMA InitTypes == Init => TypeOK
<1> SUFFICES ASSUME Init PROVE TypeOK
  OBVIOUS
<1>1. /\ Ping \in Packets /\ 0 \in 0 .. MaxTries /\ 0 \in 0 .. MaxRequests /\ 0 \in 0 .. EventCap
      /\ MaxFaults \in 0 .. MaxFaults /\ 0 <= InCap
  BY PacketTypes, PortAssumption
<1>2. /\ toLcd \in Seq(Packets \cup {Other("poll")}) /\ toHost \in Seq(Packets \cup Others)
      /\ inbox \in Seq(Packets) /\ Len(inbox) <= InCap
  BY <1>1, EmptyOf, EmptySeq DEF Init
<1>3. pc \in [Threads -> Wheres]
  BY DEF Init, Wheres
<1>4. req \in [Threads -> Packets] /\ tries \in [Threads -> 0 .. MaxTries]
  BY <1>1 DEF Init
<1>5. 0 \in 0 .. 2 /\ FALSE \in BOOLEAN /\ TRUE \in BOOLEAN
  OBVIOUS
<1> QED BY <1>1, <1>2, <1>3, <1>4, <1>5 DEF Init, TypeOK, Wheres

-----------------------------------------------------------------------------
(* What is on the line. *)

(* Packets that get lost, dropped or taken leave the others in order, and   *)
(* packets nobody waits for may come in anywhere.                           *)
LEMMA LineKept ==
  ASSUME NEW E, OnlyThese(E), InOrder, Carried, shown' = shown,
         Sorted(inbox)', Sorted(toHost)', Sorted(toLcd)',
         \A p \in Holds(inbox)' : Asked(p) => p \in Holds(inbox),
         \A p \in Holds(toHost)' : Asked(p) => p \in Holds(toHost),
         \A p \in Holds(toLcd)' : Asked(p) => p \in Holds(toLcd)
  PROVE  OnlyThese(E)' /\ InOrder' /\ Carried'
<1>1. OnlyThese(E)'
  BY DEF OnlyThese
<1>2. Ahead(inbox, toHost)' /\ Ahead(inbox, toLcd)' /\ Ahead(toHost, toLcd)'
  BY DEF InOrder, Ahead, InTurn
<1>3. Carried'
  BY DEF Carried, Asked
<1> QED BY <1>1, <1>2, <1>3 DEF InOrder

(* Nothing happened to the line but for packets nobody waits for, nor to    *)
(* the threads.                                                             *)
LEMMA QuietStep ==
  ASSUME OrderlyInv, UNCHANGED <<mutex, pc, req, shown, closed>>,
         Sorted(inbox)', Sorted(toHost)', Sorted(toLcd)',
         \A p \in Holds(inbox)' : Asked(p) => p \in Holds(inbox),
         \A p \in Holds(toHost)' : Asked(p) => p \in Holds(toHost),
         \A p \in Holds(toLcd)' : Asked(p) => p \in Holds(toLcd)
  PROVE  OrderlyInv'
<1>1. PICK E : E = Expected
  OBVIOUS
<1>2. Expected' = E
  BY <1>1 DEF Expected, Awaited
<1>3. OnlyThese(E)
  BY <1>1 DEF OrderlyInv, OnlyThese
<1>4. OnlyThese(E)' /\ InOrder' /\ Carried'
  BY <1>3, LineKept DEF OrderlyInv
<1>5. OneSender' /\ Answered'
  BY DEF OrderlyInv, OneSender, Answered
<1> QED BY <1>2, <1>4, <1>5 DEF OrderlyInv, OnlyThese

-----------------------------------------------------------------------------
(* Steps of the thread that has the mutex. *)

Waiting(w, r) == IF w \in {"wait", "ping"} THEN {r}
                 ELSE IF w = "pingWait" THEN {r, Ping} ELSE {}

(* Only the holder of the mutex is under way, so what the line may hold     *)
(* follows from where it goes.                                              *)
LEMMA HolderMoves ==
  ASSUME TypeOK, OneSender, NEW t \in Threads, pc[t] \notin Resting, NEW w, To(t, w),
         UNCHANGED <<mutex, req, closed>>
  PROVE  /\ t \in Holders /\ t = mutex /\ req[t].cmd \in Commands /\ req[t] \in Packets
         /\ OneSender' /\ pc'[t] = w
         /\ Expected = Waiting(pc[t], req[t]) /\ Expected' = Waiting(w, req[t])
         /\ \A u \in Holders : pc'[u] = "done" => u = t
<1>1. t \in Holders /\ t = mutex /\ ~closed /\ req[t].cmd \in Commands /\ req[t] \in Packets
  BY DEF OneSender, TypeOK
<1>2. pc'[t] = w /\ \A u \in Threads : u # t => pc'[u] = pc[u]
  BY DEF To, TypeOK
<1>3. \A u \in Threads : u # t => pc[u] \in Resting
  BY <1>1 DEF OneSender
<1>4. OneSender'
  BY <1>1, <1>2, <1>3 DEF OneSender
<1>5. Expected = Waiting(pc[t], req[t]) /\ Expected' = Waiting(w, req[t])
  BY <1>1, <1>2 DEF Expected, Awaited, Waiting
<1>6. ASSUME NEW u \in Holders, pc'[u] = "done" PROVE u = t
  BY <1>2, <1>3, <1>6 DEF Resting, Threads
<1> QED BY <1>1, <1>2, <1>4, <1>5, <1>6

(* Waiting for longer, giving up waiting, or giving up: the line stays.     *)
LEMMA LineStays ==
  ASSUME TypeOK, OrderlyInv, NEW t \in Threads, pc[t] \notin Resting, NEW w, To(t, w),
         UNCHANGED <<mutex, req, shown, closed, line, inbox>>, w # "done",
         Waiting(pc[t], req[t]) \subseteq Waiting(w, req[t])
  PROVE  OrderlyInv'
<1>1. /\ OneSender' /\ Expected = Waiting(pc[t], req[t]) /\ Expected' = Waiting(w, req[t])
      /\ pc'[t] = w /\ \A u \in Holders : pc'[u] = "done" => u = t
  BY HolderMoves DEF OrderlyInv
<1>2. Answered'
  BY <1>1 DEF Answered
<1>3. OnlyThese(Expected)'
  BY <1>1 DEF OrderlyInv, OnlyThese, line
<1>4. InOrder' /\ Carried'
  BY DEF OrderlyInv, InOrder, Carried, Ahead, Sorted, line
<1> QED BY <1>1, <1>2, <1>3, <1>4 DEF OrderlyInv

(* getPkt takes the answer to the request, or a ping behind which nothing   *)
(* is left, or drops a packet.                                              *)
LEMMA AcceptKeeps ==
  ASSUME TypeOK, OrderlyInv, NEW t \in Threads, NEW cmd, NEW then,
         Accept(t, cmd, then),
         \/ pc[t] = "wait" /\ cmd = req[t].cmd /\ then = "done"
         \/ pc[t] = "pingWait" /\ cmd = "ping" /\ then = "retry"
  PROVE  OrderlyInv'
<1> DEFINE h == Head(inbox)
<1>1. /\ inbox \in Seq(Packets) /\ inbox # <<>> /\ inbox' = Tail(inbox)
      /\ toHost' = toHost /\ toLcd' = toLcd /\ shown' = shown /\ mutex' = mutex /\ req' = req
      /\ closed' = closed
  BY DEF Accept, TypeOK, line
<1>2. /\ h \in Packets /\ h \in Holds(inbox) /\ Holds(inbox)' \subseteq Holds(inbox)
      /\ Sorted(inbox)' /\ \A q \in Holds(inbox)' : InTurn(h, q)
  BY <1>1, TailOf DEF OrderlyInv, InOrder
<1>3. Sorted(toHost)' /\ Sorted(toLcd)'
  BY <1>1 DEF OrderlyInv, InOrder, Sorted
<1>4. Holds(toHost)' = Holds(toHost) /\ Holds(toLcd)' = Holds(toLcd)
  BY <1>1 DEF Holds
<1>5. CASE h.cmd # cmd
  <2>1. pc' = pc
    BY <1>5 DEF Accept
  <2> QED BY <1>1, <1>2, <1>3, <1>4, <2>1, QuietStep
<1>6. CASE h.cmd = cmd
  <2>1. To(t, then) /\ pc[t] \notin Resting
    BY <1>6 DEF Accept, Resting
  <2>2. /\ t \in Holders /\ t = mutex /\ req[t].cmd \in Commands
        /\ OneSender' /\ pc'[t] = then
        /\ Expected = Waiting(pc[t], req[t]) /\ Expected' = Waiting(then, req[t])
        /\ \A u \in Holders : pc'[u] = "done" => u = t
    BY <1>1, <2>1, HolderMoves DEF OrderlyInv
  <2>3. Asked(h) /\ h \in Expected
    <3>1. Asked(h)
      BY <1>6, <2>2 DEF Asked
    <3> QED BY <1>2, <3>1 DEF OrderlyInv, OnlyThese
  <2>4. \A q \in Holds(inbox)' \cup Holds(toHost)' \cup Holds(toLcd)' : InTurn(h, q)
    BY <1>2, <1>4 DEF OrderlyInv, InOrder, Ahead
  <2>5. ASSUME NEW q \in Holds(inbox)' \cup Holds(toHost)' \cup Holds(toLcd)', Asked(q)
        PROVE  FALSE
    <3>1. h.cmd \in Commands /\ q.cmd = "ping"
      BY <2>3, <2>4, <2>5 DEF InTurn
    <3>2. pc[t] = "wait" /\ q \in Expected
      <4>1. pc[t] = "wait"
        BY <1>6, <3>1, PortAssumption
      <4>2. q \in Expected
        BY <1>2, <1>4, <2>5 DEF OrderlyInv, OnlyThese
      <4> QED BY <4>1, <4>2
    <3>3. q = req[t]
      BY <2>2, <3>2 DEF Waiting
    <3> QED BY <2>2, <3>1, <3>3, PortAssumption
  <2>6. OnlyThese(Expected)'
    BY <2>5 DEF OnlyThese, Asked
  <2>7. InOrder' /\ Carried'
    <3>1. PICK E : E = Expected
      OBVIOUS
    <3>2. OnlyThese(E) /\ InOrder /\ Carried
      BY <3>1 DEF OrderlyInv, OnlyThese
    <3> QED BY <1>1, <1>2, <1>3, <1>4, <3>2, LineKept
  <2>8. Answered'
    <3>1. ASSUME NEW u \in Holders, pc'[u] = "done" PROVE shown' = req'[u].id
      <4>1. u = t /\ then = "done"
        BY <2>2, <3>1
      <4>2. pc[t] = "wait" /\ cmd = req[t].cmd
        BY <4>1
      <4>3. h = req[t]
        BY <2>2, <2>3, <4>2 DEF Waiting
      <4>4. h.id = shown
        BY <1>2, <2>2, <4>3 DEF OrderlyInv, Carried
      <4> QED BY <1>1, <4>1, <4>3, <4>4
    <3> QED BY <3>1 DEF Answered
  <2> QED BY <2>2, <2>6, <2>7, <2>8 DEF OrderlyInv
<1> QED BY <1>5, <1>6

(* A packet is sent that may follow what is on the line, or gets lost.      *)
LEMMA SendKeeps ==
  ASSUME TypeOK, OrderlyInv, NEW t \in Threads, pc[t] \notin Resting,
         NEW packet \in Packets, NEW then, To(t, then), then # "done",
         UNCHANGED <<mutex, req, shown, closed, toHost, inbox>>,
         toLcd' = toLcd \/ toLcd' = Append(toLcd, packet),
         packet \in Waiting(then, req[t]),
         Waiting(pc[t], req[t]) \subseteq Waiting(then, req[t]),
         \A q \in Waiting(pc[t], req[t]) : InTurn(q, packet),
         packet.cmd \in Commands \cup {"ping"}
  PROVE  OrderlyInv'
<1>1. /\ OneSender' /\ Expected = Waiting(pc[t], req[t]) /\ Expected' = Waiting(then, req[t])
      /\ pc'[t] = then /\ \A u \in Holders : pc'[u] = "done" => u = t
  BY HolderMoves DEF OrderlyInv
<1>2. Answered'
  BY <1>1 DEF Answered
<1>3. /\ toLcd \in Seq(Packets \cup {Other("poll")})
      /\ Holds(inbox)' = Holds(inbox) /\ Holds(toHost)' = Holds(toHost)
  BY DEF TypeOK, Holds
<1>4. Sorted(inbox)' /\ Sorted(toHost)' /\ Carried'
  BY <1>3 DEF OrderlyInv, InOrder, Sorted, Carried
<1>5. \A q \in Holds(inbox) \cup Holds(toHost) \cup Holds(toLcd) : InTurn(q, packet)
  BY <1>1 DEF OrderlyInv, OnlyThese, InTurn
<1>6. Sorted(toLcd)' /\ Holds(toLcd)' \subseteq Holds(toLcd) \cup {packet}
  <2>1. CASE toLcd' = toLcd
    BY <2>1 DEF OrderlyInv, InOrder, Sorted, Holds
  <2>2. CASE toLcd' = Append(toLcd, packet)
    <3>1. \A q \in Holds(toLcd) : InTurn(q, packet)
      BY <1>5
    <3> QED BY <1>3, <2>2, <3>1, AppendOf DEF OrderlyInv, InOrder
  <2> QED BY <2>1, <2>2
<1>7. InOrder'
  BY <1>3, <1>4, <1>5, <1>6 DEF OrderlyInv, InOrder, Ahead
<1>8. OnlyThese(Expected)'
  BY <1>1, <1>3, <1>6 DEF OrderlyInv, OnlyThese
<1> QED BY <1>1, <1>2, <1>4, <1>7, <1>8 DEF OrderlyInv

(* A request starts with nothing of an earlier one on the line.             *)
LEMMA RequestKeeps ==
  ASSUME TypeOK, OrderlyInv, NEW t \in Threads, Request(t), orderly'
  PROVE  OrderlyInv'
<1>1. /\ UNCHANGED <<toLcd, toHost, inbox, shown>> /\ pc[t] = "idle"
      /\ t \in Holders => mutex = "free"
  BY DEF Request, line, reader, At
<1>2. (Expected = {} /\ Expected' = {}) \/ Expected' = Expected
  <2>1. CASE t \in Holders
    <3>1. mutex \notin Holders /\ mutex' = t /\ pc'[t] \in {"panic", "send"}
      BY <1>1, <2>1, PortAssumption DEF Request, To, TypeOK
    <3> QED BY <2>1, <3>1 DEF Expected, Awaited
  <2>2. CASE t \notin Holders
    <3>1. mutex' = mutex /\ closed
      BY <2>2 DEF Request
    <3>2. req' = req /\ \A u \in Holders : pc'[u] = pc[u]
      BY <2>2, <3>1 DEF Request, To, TypeOK, Threads
    <3> QED BY <3>1, <3>2 DEF Expected, Awaited
  <2> QED BY <2>1, <2>2
<1>3. \A u \in Threads : u # t => pc'[u] = pc[u] /\ req'[u] = req[u]
  BY DEF Request, To, TypeOK
<1>4. OneSender'
  <2>1. ASSUME NEW u \in Threads, pc'[u] \notin Resting
        PROVE  u \in Holders /\ u = mutex' /\ ~closed' /\ req'[u].cmd \in Commands
    <3>1. CASE u = t
      <4>1. ~closed /\ ~closed'
        BY <2>1, <3>1 DEF Request, To, TypeOK, Resting
      <4>2. t \in Holders /\ mutex' = t
        BY <4>1 DEF Request
      <4>3. PICK c \in Commands : req' = [req EXCEPT ![t] = [cmd |-> c, id |-> issued + 1]]
        BY <4>1 DEF Request
      <4>4. req'[t].cmd = c
        BY <4>3 DEF TypeOK
      <4> QED BY <3>1, <4>1, <4>2, <4>4
    <3>2. CASE u # t
      <4>1. pc[u] \notin Resting
        BY <1>3, <2>1, <3>2
      <4>2. u \in Holders /\ u = mutex /\ ~closed /\ req[u].cmd \in Commands
        BY <4>1 DEF OrderlyInv, OneSender
      <4>3. t \notin Holders /\ mutex' = mutex /\ closed' = closed
        BY <1>1, <4>2, PortAssumption DEF Request
      <4> QED BY <1>3, <3>2, <4>2, <4>3
    <3> QED BY <3>1, <3>2
  <2> QED BY <2>1 DEF OneSender
<1>5. Answered'
  <2>1. pc'[t] # "done"
    BY DEF Request, To, TypeOK
  <2> QED BY <1>1, <1>3, <2>1 DEF OrderlyInv, Answered, Threads
<1>6. OnlyThese(Expected)'
  BY <1>1, <1>2 DEF OrderlyInv, OnlyThese
<1>7. InOrder' /\ Carried'
  BY <1>1 DEF OrderlyInv, InOrder, Carried, Ahead, Sorted
<1> QED BY <1>4, <1>5, <1>6, <1>7 DEF OrderlyInv

(* A thread that returns leaves nothing on the line, whatever came of its   *)
(* request.                                                                 *)
LEMMA ReturnKeeps ==
  ASSUME TypeOK, OrderlyInv, NEW t \in Threads, Return(t)
  PROVE  OrderlyInv'
<1>1. /\ pc[t] \in {"done", "failed"} /\ UNCHANGED <<toLcd, toHost, inbox, shown, req>>
      /\ To(t, "idle")
  BY DEF Return, line, reader, bounds
<1>2. t \in Holders /\ t = mutex
  BY <1>1 DEF OrderlyInv, OneSender, Resting
<1>3. mutex' = "free" /\ mutex' \notin Holders
  BY <1>2, PortAssumption DEF Return
<1>4. Expected = {} /\ Expected' = {}
  BY <1>1, <1>2, <1>3 DEF Expected, Awaited
<1>5. \A u \in Threads : pc'[u] \in Resting
  BY <1>1, <1>2 DEF OrderlyInv, OneSender, To, TypeOK, Resting
<1>6. OneSender' /\ Answered'
  BY <1>5 DEF OneSender, Answered, Resting, Threads
<1>7. OnlyThese(Expected)'
  BY <1>1, <1>4 DEF OrderlyInv, OnlyThese
<1>8. InOrder' /\ Carried'
  BY <1>1 DEF OrderlyInv, InOrder, Carried, Ahead, Sorted
<1> QED BY <1>6, <1>7, <1>8 DEF OrderlyInv

(* Keys are polled only while nobody sends.                                 *)
LEMMA PollKeysKeeps ==
  ASSUME TypeOK, OrderlyInv, NEW t \in Threads, PollKeys(t)
  PROVE  OrderlyInv'
<1>1. /\ UNCHANGED <<toHost, inbox, shown, req, mutex, closed>> /\ pc' = pc
      /\ toLcd' = toLcd \/ toLcd' = Append(toLcd, Other("poll"))
  BY DEF PollKeys, Send, reader, At, To, TypeOK
<1>2. ~Asked(Other("poll")) /\ toLcd \in Seq(Packets \cup {Other("poll")})
  BY PortAssumption DEF Asked, Other, TypeOK
<1>3. Sorted(toLcd)' /\ Holds(toLcd)' \subseteq Holds(toLcd) \cup {Other("poll")}
  <2>1. CASE toLcd' = toLcd
    BY <2>1 DEF OrderlyInv, InOrder, Sorted, Holds
  <2>2. CASE toLcd' = Append(toLcd, Other("poll"))
    BY <1>2, <2>2, AppendOf DEF OrderlyInv, InOrder, InTurn
  <2> QED BY <1>1, <2>1, <2>2
<1>4. /\ Sorted(inbox)' /\ Sorted(toHost)'
      /\ Holds(inbox)' = Holds(inbox) /\ Holds(toHost)' = Holds(toHost)
  BY <1>1 DEF OrderlyInv, InOrder, Sorted, Holds
<1> QED BY <1>1, <1>2, <1>3, <1>4, QuietStep

(* sendPktRetry, as long as no ping stays without an answer. *)
LEMMA ExchangeKeeps ==
  ASSUME TypeOK, OrderlyInv, NEW t \in Threads, Exchange(t), orderly'
  PROVE  OrderlyInv'
<1>1. CASE SendRequest(t)
  <2>1. /\ pc[t] = "send" /\ pc[t] \notin Resting
        /\ req[t] \in Packets /\ req[t].cmd \in Commands
    BY <1>1 DEF SendRequest, At, Resting, OrderlyInv, OneSender, TypeOK
  <2>2. /\ UNCHANGED <<mutex, req, shown, closed, toHost, inbox>>
        /\ toLcd' = toLcd \/ toLcd' = Append(toLcd, req[t])
        /\ To(t, "wait") \/ (To(t, "failed") /\ toLcd' = toLcd)
    BY <1>1 DEF SendRequest, Send, reader
  <2>3. CASE To(t, "wait")
    <3>1. /\ req[t] \in Waiting("wait", req[t]) /\ Waiting(pc[t], req[t]) = {}
      BY <2>1 DEF Waiting
    <3> QED BY <2>1, <2>2, <2>3, <3>1, SendKeeps
  <2>4. CASE To(t, "failed") /\ toLcd' = toLcd
    <3>1. Waiting(pc[t], req[t]) = {}
      BY <2>1 DEF Waiting
    <3> QED BY <2>1, <2>2, <2>4, <3>1, LineStays DEF line
  <2> QED BY <2>2, <2>3, <2>4
<1>2. CASE SendPing(t)
  <2>1. pc[t] = "ping" /\ pc[t] \notin Resting /\ req[t].cmd \in Commands
    BY <1>2 DEF SendPing, At, Resting, OrderlyInv, OneSender
  <2>2. /\ UNCHANGED <<mutex, req, shown, closed, toHost, inbox>>
        /\ toLcd' = toLcd \/ toLcd' = Append(toLcd, Ping)
        /\ To(t, "pingWait")
    BY <1>2 DEF SendPing, Send, reader, To
  <2>3. /\ Ping \in Packets /\ Ping.cmd = "ping"
        /\ Waiting(pc[t], req[t]) = {req[t]} /\ Waiting("pingWait", req[t]) = {req[t], Ping}
    BY <2>1, PacketTypes DEF Waiting, Ping
  <2>4. InTurn(req[t], Ping)
    BY <2>1, <2>3 DEF InTurn
  <2> QED BY <2>1, <2>2, <2>3, <2>4, SendKeeps
<1>3. CASE ReceiveAnswer(t)
  <2>1. CASE Accept(t, req[t].cmd, "done")
    BY <1>3, <2>1, AcceptKeeps DEF ReceiveAnswer, At
  <2>2. CASE TimeOut(t, "ping")
    <3>1. Waiting(pc[t], req[t]) \subseteq Waiting("ping", req[t]) /\ pc[t] \notin Resting
      BY <1>3 DEF ReceiveAnswer, At, Waiting, Resting
    <3> QED BY <2>2, <3>1, LineStays DEF TimeOut, reader
  <2> QED BY <1>3, <2>1, <2>2 DEF ReceiveAnswer
<1>4. CASE ReceivePing(t)
  <2>1. Accept(t, "ping", "retry") /\ pc[t] = "pingWait"
    BY <1>4 DEF ReceivePing, At
  <2> QED BY <2>1, AcceptKeeps
<1>5. CASE Retry(t)
  <2>1. /\ pc[t] \notin Resting /\ Waiting(pc[t], req[t]) = {}
        /\ UNCHANGED <<mutex, req, shown, closed, line, inbox>>
    BY <1>5 DEF Retry, At, Waiting, Resting, reader
  <2>2. To(t, "send") \/ To(t, "failed")
    BY <1>5 DEF Retry
  <2> QED BY <2>1, <2>2, LineStays
<1>6. CASE Return(t)
  BY <1>6, ReturnKeeps
<1>7. CASE ClosedUnder(t)
  <2>1. closed /\ pc[t] \notin Resting
    BY <1>7 DEF ClosedUnder, Resting
  <2> QED BY <2>1 DEF OrderlyInv, OneSender
<1> QED BY <1>1, <1>2, <1>3, <1>4, <1>5, <1>6, <1>7 DEF Exchange

-----------------------------------------------------------------------------
(* Steps of the reader and the device. *)

(* handleIncoming passes the first packet on, drops it, or flushes the port.*)
LEMMA IncomingKeeps ==
  ASSUME TypeOK, OrderlyInv, Incoming
  PROVE  OrderlyInv'
<1> DEFINE p == Head(toHost)
<1>1. /\ toHost \in Seq(Packets \cup Others) /\ toHost # <<>>
      /\ toLcd \in Seq(Packets \cup {Other("poll")}) /\ inbox \in Seq(Packets)
      /\ UNCHANGED <<mutex, pc, req, shown, closed>>
  BY DEF Incoming, TypeOK, thread
<1>2. /\ Sorted(inbox) /\ Sorted(toHost) /\ Sorted(toLcd)
      /\ Ahead(inbox, toHost) /\ Ahead(inbox, toLcd) /\ Ahead(toHost, toLcd)
  BY DEF OrderlyInv, InOrder
<1>3. CASE p.cmd = "badHeader"
  <2>1. toHost' = <<>> /\ inbox' = inbox
    BY <1>3 DEF Incoming, FlushPort, reader
  <2>2. PICK n \in 0 .. Len(toLcd) : toLcd' = SubSeq(toLcd, 1, n)
    BY <1>3 DEF Incoming, FlushPort
  <2>3. Sorted(toLcd)' /\ Holds(toLcd)' \subseteq Holds(toLcd)
    BY <1>1, <1>2, <2>2, PrefixOf
  <2>4. Sorted(toHost)' /\ Holds(toHost)' = {}
    BY <2>1, EmptyOf
  <2>5. Sorted(inbox)' /\ Holds(inbox)' = Holds(inbox)
    BY <1>2, <2>1 DEF Sorted, Holds
  <2> QED BY <1>1, <2>3, <2>4, <2>5, QuietStep
<1>4. CASE p.cmd # "badHeader"
  <2>1. /\ toHost' = Tail(toHost) /\ toLcd' = toLcd
        /\ inbox' = inbox \/ (inbox' = Append(inbox, p) /\ p.cmd \in Commands \cup {"ping"})
    BY <1>4 DEF Incoming
  <2>2. /\ p \in Packets \cup Others /\ p \in Holds(toHost) /\ Sorted(toHost)'
        /\ Holds(toHost)' \subseteq Holds(toHost) /\ \A q \in Holds(toHost)' : InTurn(p, q)
    BY <1>1, <1>2, <2>1, TailOf
  <2>3. Sorted(toLcd)' /\ Holds(toLcd)' = Holds(toLcd)
    BY <1>2, <2>1 DEF Sorted, Holds
  <2>4. CASE inbox' = inbox
    <3>1. Sorted(inbox)' /\ Holds(inbox)' = Holds(inbox)
      BY <1>2, <2>4 DEF Sorted, Holds
    <3> QED BY <1>1, <2>2, <2>3, <3>1, QuietStep
  <2>5. CASE inbox' = Append(inbox, p) /\ p.cmd \in Commands \cup {"ping"}
    <3>1. p \in Packets
      BY <2>2, <2>5, PortAssumption DEF Packets, Others
    <3>2. \A q \in Holds(inbox) : InTurn(q, p)
      BY <1>2, <2>2 DEF Ahead
    <3>3. Sorted(inbox)' /\ Holds(inbox)' = Holds(inbox) \cup {p}
      BY <1>1, <1>2, <2>5, <3>1, <3>2, AppendOf
    <3>4. InOrder'
      BY <1>2, <2>2, <2>3, <3>3 DEF InOrder, Ahead
    <3>5. Carried'
      BY <1>1, <2>2, <3>3 DEF OrderlyInv, Carried
    <3>6. Expected' = Expected
      BY <1>1 DEF Expected, Awaited
    <3>7. OnlyThese(Expected)'
      BY <2>2, <2>3, <3>3, <3>6 DEF OrderlyInv, OnlyThese
    <3>8. OneSender' /\ Answered'
      BY <1>1 DEF OrderlyInv, OneSender, Answered
    <3> QED BY <3>4, <3>5, <3>7, <3>8 DEF OrderlyInv
  <2> QED BY <2>1, <2>4, <2>5
<1> QED BY <1>3, <1>4

(* The device answers the request it carries out: there is no other whose   *)
(* answer is still under way.                                               *)
LEMMA DeviceKeeps ==
  ASSUME TypeOK, OrderlyInv, Device
  PROVE  OrderlyInv'
<1> DEFINE p == Head(toLcd)
<1>1. /\ toHost \in Seq(Packets \cup Others)
      /\ toLcd \in Seq(Packets \cup {Other("poll")}) /\ toLcd # <<>>
      /\ UNCHANGED <<mutex, pc, req, inbox, closed>> /\ toLcd' = Tail(toLcd)
  BY DEF Device, TypeOK, thread, reader
<1>2. /\ Sorted(inbox) /\ Sorted(toHost) /\ Sorted(toLcd)
      /\ Ahead(inbox, toHost) /\ Ahead(inbox, toLcd) /\ Ahead(toHost, toLcd)
  BY DEF OrderlyInv, InOrder
<1>3. /\ p \in Packets \cup {Other("poll")} /\ p \in Holds(toLcd) /\ Sorted(toLcd)'
      /\ Holds(toLcd)' \subseteq Holds(toLcd) /\ \A q \in Holds(toLcd)' : InTurn(p, q)
  BY <1>1, <1>2, TailOf
<1>4. Sorted(inbox)' /\ Holds(inbox)' = Holds(inbox)
  BY <1>1, <1>2 DEF Sorted, Holds
<1>5. p \in Packets \cup Others
  BY <1>3, PacketTypes
<1>6. \A q \in Holds(toHost) : InTurn(q, p)
  BY <1>2, <1>3 DEF Ahead
<1>7. PICK out \in {{}, {p}, {Other("badCrc")}, {Other("badHeader")}} :
        /\ Sorted(toHost)' /\ Holds(toHost)' = Holds(toHost) \cup out
  <2>1. CASE toHost' = toHost
    BY <1>2, <2>1 DEF Sorted, Holds
  <2>2. CASE toHost' = Append(toHost, p)
    <3>1. Sorted(Append(toHost, p)) /\ Holds(Append(toHost, p)) = Holds(toHost) \cup {p}
      BY <1>1, <1>2, <1>5, <1>6, AppendOf
    <3>2. Sorted(toHost)' /\ Holds(toHost)' = Holds(toHost) \cup {p}
      BY <2>2, <3>1
    <3> QED BY <3>2
  <2>3. ASSUME NEW bad \in {"badCrc", "badHeader"}, toHost' = Append(toHost, Other(bad))
        PROVE  Sorted(toHost)' /\ Holds(toHost)' = Holds(toHost) \cup {Other(bad)}
    <3>1. Other(bad) \in Packets \cup Others /\ ~Asked(Other(bad))
      BY PacketTypes, PortAssumption DEF Asked, Other
    <3>2. \A q \in Holds(toHost) : InTurn(q, Other(bad))
      BY <3>1 DEF InTurn
    <3> QED BY <1>1, <1>2, <2>3, <3>1, <3>2, AppendOf
  <2> QED BY <2>1, <2>2, <2>3 DEF Device
<1>8. \A q \in out : q = p \/ ~Asked(q)
  BY PortAssumption DEF Asked, Other
<1>9. InOrder'
  <2>1. Ahead(inbox, toHost)' /\ Ahead(inbox, toLcd)' /\ Ahead(toHost, toLcd)'
    BY <1>2, <1>3, <1>4, <1>7, <1>8 DEF Ahead, InTurn
  <2> QED BY <1>3, <1>4, <1>7, <2>1 DEF InOrder
<1>10. Expected' = Expected
  BY <1>1 DEF Expected, Awaited
<1>11. OnlyThese(Expected)'
  BY <1>3, <1>4, <1>7, <1>8, <1>10 DEF OrderlyInv, OnlyThese
<1>12. CASE p.cmd \in Commands /\ shown' = p.id
  <2>1. Asked(p) /\ p \in Expected
    BY <1>3, <1>12 DEF Asked, OrderlyInv, OnlyThese
  <2>2. \A q \in Holds(inbox) \cup Holds(toHost) : q.cmd \notin Commands
    BY <1>2, <1>3, <1>12, <2>1, PortAssumption DEF Ahead, InTurn, Asked
  <2>3. Carried'
    BY <1>4, <1>7, <1>8, <1>12, <2>2 DEF Carried, Asked
  <2>4. mutex \in Holders /\ pc[mutex] # "done"
    BY <2>1 DEF Expected, Awaited
  <2>5. Answered'
    BY <1>1, <2>4 DEF OrderlyInv, OneSender, Answered, Resting, Threads
  <2>6. OneSender'
    BY <1>1 DEF OrderlyInv, OneSender
  <2> QED BY <1>9, <1>11, <2>3, <2>5, <2>6 DEF OrderlyInv
<1>13. CASE shown' = shown /\ (p.cmd \in Commands => out = {})
  <2>1. Carried'
    BY <1>4, <1>7, <1>8, <1>13 DEF OrderlyInv, Carried, Asked
  <2>2. OneSender' /\ Answered'
    BY <1>1, <1>13 DEF OrderlyInv, OneSender, Answered
  <2> QED BY <1>9, <1>11, <2>1, <2>2 DEF OrderlyInv
<1>14. CASE silent
  <2>1. UNCHANGED <<toHost, shown>>
    BY <1>14 DEF Device
  <2>2. Sorted(toHost)' /\ Holds(toHost)' = Holds(toHost)
    BY <1>2, <2>1 DEF Sorted, Holds
  <2> QED BY <1>1, <1>3, <1>4, <2>1, <2>2, QuietStep
<1>15. CASE ~silent
  <2>1. shown' = IF p.cmd \in Commands THEN p.id ELSE shown
    BY <1>15 DEF Device
  <2> QED BY <1>12, <1>13, <2>1
<1> QED BY <1>14, <1>15

-----------------------------------------------------------------------------
LEMMA InitPortInv == Init => PortInv
<1> SUFFICES ASSUME Init PROVE PortInv
  OBVIOUS
<1>1. /\ Holds(inbox) = {} /\ Holds(toHost) = {} /\ Holds(toLcd) = {}
      /\ Sorted(inbox) /\ Sorted(toHost) /\ Sorted(toLcd)
  BY EmptyOf DEF Init
<1>2. \A t \in Threads : pc[t] \in Resting
  BY DEF Init, Resting
<1>3. OneSender /\ Answered
  BY <1>2 DEF OneSender, Answered, Resting, Threads
<1>4. OnlyThese(Expected) /\ InOrder /\ Carried
  BY <1>1 DEF OnlyThese, InOrder, Ahead, Carried
<1> QED BY <1>3, <1>4, InitTypes DEF PortInv, OrderlyInv

LEMMA NextPortInv == PortInv /\ [Next]_vars => PortInv'
<1> SUFFICES ASSUME TypeOK, orderly => OrderlyInv, [Next]_vars, orderly'
             PROVE  OrderlyInv'
  BY NextTypes DEF PortInv
<1>1. orderly
  <2>1. ASSUME NEW t \in Threads, Request(t) \/ PollKeys(t) \/ Exchange(t) PROVE orderly
    BY <2>1 DEF Request, PollKeys, Exchange, SendRequest, SendPing, ReceiveAnswer, ReceivePing,
                Accept, TimeOut, Retry, Return, ClosedUnder, TypeOK
  <2>2. CASE TakeEvent \/ Incoming \/ PutEvent \/ Device \/ Silence \/ KeyReport \/ UNCHANGED vars
    BY <2>2 DEF TakeEvent, Incoming, PutEvent, Device, Silence, KeyReport, vars
  <2> QED BY <2>1, <2>2 DEF Next
<1>2. OrderlyInv
  BY <1>1
<1>3. ASSUME NEW t \in Threads, Request(t) \/ PollKeys(t) \/ Exchange(t) PROVE OrderlyInv'
  BY <1>2, <1>3, RequestKeeps, PollKeysKeeps, ExchangeKeeps
<1>4. CASE TakeEvent \/ PutEvent \/ Silence \/ UNCHANGED vars
  <2>1. UNCHANGED <<mutex, pc, req, shown, closed>>
    BY <1>4 DEF TakeEvent, PutEvent, Silence, vars, thread
  <2>2. UNCHANGED <<inbox, toHost, toLcd>>
    BY <1>4 DEF TakeEvent, PutEvent, Silence, vars, line, reader
  <2>3. /\ Sorted(inbox)' /\ Sorted(toHost)' /\ Sorted(toLcd)'
        /\ Holds(inbox)' = Holds(inbox) /\ Holds(toHost)' = Holds(toHost)
        /\ Holds(toLcd)' = Holds(toLcd)
    BY <1>2, <2>2 DEF OrderlyInv, InOrder, Sorted, Holds
  <2> QED BY <1>2, <2>1, <2>3, QuietStep
<1>5. CASE KeyReport
  <2>1. UNCHANGED <<mutex, pc, req, shown, closed, inbox, toLcd>> /\ toHost' = Append(toHost, Other("key"))
    BY <1>5 DEF KeyReport, thread, reader
  <2>2. /\ Sorted(inbox)' /\ Sorted(toLcd)'
        /\ Holds(inbox)' = Holds(inbox) /\ Holds(toLcd)' = Holds(toLcd)
    BY <1>2, <2>1 DEF OrderlyInv, InOrder, Sorted, Holds
  <2>3. Other("key") \in Packets \cup Others /\ ~Asked(Other("key"))
    BY PacketTypes, PortAssumption DEF Asked, Other
  <2>4. Sorted(toHost)' /\ Holds(toHost)' = Holds(toHost) \cup {Other("key")}
    <3>1. \A q \in Holds(toHost) : InTurn(q, Other("key"))
      BY <2>3 DEF InTurn
    <3>2. toHost \in Seq(Packets \cup Others) /\ Sorted(toHost)
      BY <1>2 DEF OrderlyInv, InOrder, TypeOK
    <3> QED BY <2>1, <2>3, <3>1, <3>2, AppendOf
  <2> QED BY <1>2, <2>1, <2>2, <2>3, <2>4, QuietStep
<1> QED BY <1>2, <1>3, <1>4, <1>5, IncomingKeeps, DeviceKeeps DEF Next

(* The state of the port keeps its type: the channels of answers and events *)
(* never hold more than they can, and no request is retried too often.      *)
THEOREM PortTypeCorrect == Spec => []TypeOK
<1>1. PortInv => TypeOK
  BY DEF PortInv
<1> QED BY <1>1, InitPortInv, NextPortInv, PTL DEF Spec

(* A request reported as done (serial.go:168) is what the device carried    *)
(* out last, for any number of retries, late and lost packets, as long as   *)
(* senders hold the mutex and pings are answered.                           *)
THEOREM DoneWasShown == Spec => []DoneIsShown
<1>1. PortInv => DoneIsShown
  BY DEF PortInv, OrderlyInv, Answered, DoneIsShown
<1> QED BY <1>1, InitPortInv, NextPortInv, PTL DEF Spec
=============================================================================
