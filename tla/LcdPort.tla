------------------------------ MODULE LcdPort ------------------------------
(***************************************************************************)
(* Requests to the lcd over its serial line (pkg/hw/cfa): senders that      *)
(* retry, the goroutine that sorts what comes in, and the device.           *)
(*                                                                          *)
(* The line carries whole packets.  A number stands for the content of a    *)
(* request; the device's answer to it carries the same number, which the    *)
(* driver does not see: it has nothing but the command to go by.            *)
(***************************************************************************)
EXTENDS Integers, Sequences, FiniteSets

CONSTANTS
  Holders,      \* threads that hold the lcd's mutex while they send
  Spinners,     \* threads that do not: Spinner.Next
  Commands,     \* commands that are answered, but for ping and polling
  MaxTries,     \* retries before a request is given up
  InCap,        \* capacity of the channel of answers
  EventCap,     \* capacity of the channel of key events
  MaxRequests,  \* bound on the requests of all threads together
  MaxKeys,      \* bound on the keys pressed
  MaxFaults     \* bound on packets lost, late, damaged or not written

ASSUME PortAssumption ==
  /\ IsFiniteSet(Holders) /\ IsFiniteSet(Spinners) /\ Holders \cap Spinners = {}
  /\ "free" \notin Holders /\ "restore" \in Commands
  /\ Commands \cap {"ping", "poll", "key", "badCrc", "badHeader"} = {}
  /\ MaxTries \in Nat /\ InCap \in Nat \ {0} /\ EventCap \in Nat \ {0}
  /\ MaxRequests \in Nat /\ MaxKeys \in Nat /\ MaxFaults \in Nat

VARIABLES
  toLcd,     \* packets on their way to the device
  toHost,    \* packets on their way from it
  inbox,     \* SerialDev.In
  events,    \* the number of events in SerialDev.Events
  pending,   \* events of a poll that handleIncoming has yet to put there
  silent,    \* the device has stopped
  closed,    \* the port is closed and Lcd.dev is nil
  mutex,     \* holder of the lcd's mutex, or "free"
  pc,        \* where each thread is in sendPktRetry
  req,       \* its request
  tries,     \* the retries it has left
  shown,     \* number of the request the device has carried out last
  issued,    \* requests so far
  keys,      \* keys that may still be pressed
  faults,    \* faults that may still happen
  orderly    \* so far all requests held the mutex, and all pings were answered

line == <<toLcd, toHost>>
reader == <<inbox, events, pending>>
thread == <<pc, req, tries>>
bounds == <<issued, keys, faults>>
vars == <<line, silent, reader, closed, mutex, thread, shown, bounds, orderly>>

Threads == Holders \cup Spinners
Packets == [cmd : Commands \cup {"ping"}, id : 0 .. MaxRequests]
Ping    == [cmd |-> "ping", id |-> 0]

\* What else may come in: a key report, a report of polled keys, a packet
\* whose checksum is wrong, one that starts with what is no header.
Others == [cmd : {"key", "poll", "badCrc", "badHeader"}, id : {0}]
Other(cmd) == [cmd |-> cmd, id |-> 0]

Fault   == faults > 0 /\ faults' = faults - 1
NoFault == UNCHANGED faults

Init ==
  /\ toLcd = <<>> /\ toHost = <<>> /\ silent = FALSE
  /\ inbox = <<>> /\ events = 0 /\ pending = 0 /\ closed = FALSE
  /\ mutex = "free"
  /\ \E started \in SUBSET Spinners :
       pc = [t \in Threads |-> IF t \in Holders \cup started THEN "idle" ELSE "off"]
  /\ req = [t \in Threads |-> Ping]
  /\ tries = [t \in Threads |-> 0]
  /\ shown = 0
  /\ issued = 0 /\ keys \in 0 .. MaxKeys /\ faults = MaxFaults
  /\ orderly = TRUE

-----------------------------------------------------------------------------
(* A thread: sendCmd, with sendPktRetry. *)

At(t, where) == pc[t] = where
To(t, where) == pc' = [pc EXCEPT ![t] = where]

\* An exported function that locks the mutex and sends one command; "restore"
\* is that of Close.  Spinner.Next writes without locking.
Request(t) ==
  /\ At(t, "idle") /\ issued < MaxRequests
  /\ t \in Holders => mutex = "free"
  /\ mutex' = IF t \in Holders THEN t ELSE mutex
  /\ IF closed
     THEN To(t, "panic") /\ UNCHANGED <<req, tries, issued, orderly>>
     ELSE /\ To(t, "send") /\ issued' = issued + 1
          /\ \E c \in Commands :
               /\ t \in Spinners => c = "write"
               /\ req' = [req EXCEPT ![t] = [cmd |-> c, id |-> issued + 1]]
          /\ tries' = [tries EXCEPT ![t] = MaxTries]
          /\ orderly' = (orderly /\ t \in Holders)
  /\ UNCHANGED <<line, silent, reader, closed, shown, keys, faults>>

\* sendPkt, or sendOnly for polling: the packet may get lost, and writing it
\* fails at times and always on a closed port.
Send(t, packet, then, onError) ==
  /\ \/ ~closed /\ toLcd' = Append(toLcd, packet) /\ To(t, then) /\ NoFault
     \/ ~closed /\ UNCHANGED toLcd /\ To(t, then) /\ Fault
     \/ UNCHANGED toLcd /\ To(t, onError) /\ IF closed THEN NoFault ELSE Fault
  /\ UNCHANGED <<toHost, silent, reader, closed, mutex, req, tries, shown, issued>>

SendRequest(t) ==
  /\ At(t, "send") /\ Send(t, req[t], "wait", "failed") /\ UNCHANGED <<keys, orderly>>

\* The error of a ping is ignored.
SendPing(t) ==
  /\ At(t, "ping") /\ Send(t, Ping, "pingWait", "retry") /\ UNCHANGED keys
  /\ orderly' = (orderly /\ pc' = [pc EXCEPT ![t] = "pingWait"])

\* PollKeys does not wait for an answer.
PollKeys(t) ==
  /\ At(t, "idle") /\ ~closed /\ t \in Holders /\ mutex = "free"
  /\ keys > 0 /\ keys' = keys - 1
  /\ Send(t, Other("poll"), "idle", "idle") /\ UNCHANGED orderly

\* Mutant: getPkt returns the first packet, whatever it answers.
AcceptFirst(t, cmd, then) ==
  /\ inbox # <<>> /\ inbox' = Tail(inbox) /\ To(t, then)
  /\ UNCHANGED <<line, silent, events, pending, closed, mutex, req, tries, shown, bounds, orderly>>

\* getPkt: answers to other commands are dropped.
Accept(t, cmd, then) ==
  /\ inbox # <<>> /\ inbox' = Tail(inbox)
  /\ IF Head(inbox).cmd = cmd THEN To(t, then) ELSE UNCHANGED pc
  /\ UNCHANGED <<line, silent, events, pending, closed, mutex, req, tries, shown, bounds, orderly>>

\* The reader waits for room for the events of a poll.
Stuck == pending > 0 /\ events = EventCap

\* PktResponseWaitMax has passed since the last packet.  While packets are
\* under way and get read, that is a fault: they are late.
TimeOut(t, then) ==
  /\ inbox = <<>> /\ To(t, then)
  /\ IF line = <<<<>>, <<>>>> \/ Stuck \/ closed THEN NoFault ELSE Fault
  /\ UNCHANGED <<line, silent, reader, closed, mutex, req, tries, shown, issued, keys>>

ReceiveAnswer(t) ==
  /\ At(t, "wait")
  /\ \/ Accept(t, req[t].cmd, "done")
     \/ TimeOut(t, "ping") /\ UNCHANGED orderly

ReceivePing(t) ==
  /\ At(t, "pingWait")
  /\ \/ Accept(t, "ping", "retry")
     \/ TimeOut(t, "retry") /\ orderly' = FALSE

\* Mutant: retries are not counted.
RetryForever(t) ==
  /\ At(t, "retry") /\ To(t, "send") /\ UNCHANGED tries
  /\ UNCHANGED <<line, silent, reader, closed, mutex, req, shown, bounds, orderly>>

Retry(t) ==
  /\ At(t, "retry")
  /\ IF tries[t] > 0
     THEN To(t, "send") /\ tries' = [tries EXCEPT ![t] = @ - 1]
     ELSE To(t, "failed") /\ UNCHANGED tries
  /\ UNCHANGED <<line, silent, reader, closed, mutex, req, shown, bounds, orderly>>

\* The function returns and unlocks.  Close goes on to close the port only
\* when the state of the device was restored.
Return(t) ==
  /\ pc[t] \in {"done", "failed"} /\ To(t, "idle")
  /\ mutex' = IF t \in Holders THEN "free" ELSE mutex
  /\ closed' = (closed \/ (At(t, "done") /\ req[t].cmd = "restore"))
  /\ UNCHANGED <<line, silent, reader, req, tries, shown, bounds, orderly>>

\* A thread without the mutex may still wait when the port is closed.  The
\* reader closes the channel on its way out, unless it is stuck on the other
\* one, and getPkt follows the nil it gets.
ClosedUnder(t) ==
  /\ closed /\ pc[t] \in {"wait", "pingWait"} /\ inbox = <<>> /\ pending = 0
  /\ To(t, "panic")
  /\ UNCHANGED <<line, silent, reader, closed, mutex, req, tries, shown, bounds, orderly>>

\* WaitForEvent, Event or FlushEvents: any thread takes an event.
TakeEvent ==
  /\ events > 0 /\ events' = events - 1
  /\ UNCHANGED <<line, silent, inbox, pending, closed, mutex, thread, shown, bounds, orderly>>

-----------------------------------------------------------------------------
(* handleIncoming. *)

\* badPacket flushes the port: what has not been read, and what has been
\* written but not transmitted.
FlushPort ==
  /\ toHost' = <<>>
  /\ \E n \in 0 .. Len(toLcd) : toLcd' = SubSeq(toLcd, 1, n)
  /\ UNCHANGED reader

\* It drops what it cannot use, and a key report or an answer for which there
\* is no room; the events of a poll wait for room instead.
Incoming ==
  /\ ~closed /\ pending = 0 /\ toHost # <<>>
  /\ LET p == Head(toHost) IN
       IF p.cmd = "badHeader"
       THEN FlushPort
       ELSE /\ toHost' = Tail(toHost) /\ UNCHANGED toLcd
            /\ events' = IF p.cmd = "key" /\ events < EventCap THEN events + 1 ELSE events
            /\ pending' = IF p.cmd = "poll" THEN 2 ELSE 0
            /\ inbox' = IF p.cmd \in Commands \cup {"ping"} /\ Len(inbox) < InCap
                        THEN Append(inbox, p) ELSE inbox
  /\ UNCHANGED <<silent, closed, mutex, thread, shown, bounds, orderly>>

\* Two keys were released since the last poll; their events wait for room.
PutEvent ==
  /\ pending > 0 /\ events < EventCap
  /\ pending' = pending - 1 /\ events' = events + 1
  /\ UNCHANGED <<line, silent, inbox, closed, mutex, thread, shown, bounds, orderly>>

-----------------------------------------------------------------------------
(* The device. *)

\* It carries a request out and answers; the answer may get lost or damaged.
Device ==
  /\ ~closed /\ toLcd # <<>> /\ toLcd' = Tail(toLcd)
  /\ LET p == Head(toLcd) IN
     IF silent
     THEN UNCHANGED <<toHost, shown, faults>>
     ELSE /\ shown' = IF p.cmd \in Commands THEN p.id ELSE shown
          /\ \/ toHost' = Append(toHost, p) /\ NoFault
             \/ \E bad \in {"badCrc", "badHeader"} :
                  toHost' = Append(toHost, Other(bad)) /\ Fault
             \/ UNCHANGED toHost /\ Fault
  /\ UNCHANGED <<silent, reader, closed, mutex, thread, issued, keys, orderly>>

Silence ==
  /\ ~silent /\ silent' = TRUE /\ Fault
  /\ UNCHANGED <<line, reader, closed, mutex, thread, shown, issued, keys, orderly>>

\* A key is released.
KeyReport ==
  /\ ~closed /\ ~silent /\ keys > 0 /\ keys' = keys - 1
  /\ toHost' = Append(toHost, Other("key"))
  /\ UNCHANGED <<toLcd, silent, reader, closed, mutex, thread, shown, issued, faults, orderly>>

-----------------------------------------------------------------------------
Exchange(t) ==
  \/ SendRequest(t) \/ SendPing(t) \/ ReceiveAnswer(t) \/ ReceivePing(t)
  \/ Retry(t) \/ Return(t) \/ ClosedUnder(t)

Panicked == \E t \in Threads : At(t, "panic")

Next ==
  /\ ~Panicked
  /\ \/ \E t \in Threads : Request(t) \/ PollKeys(t) \/ Exchange(t)
     \/ TakeEvent \/ Incoming \/ PutEvent \/ Device \/ Silence \/ KeyReport

Spec == Init /\ [][Next]_vars

\* A thread that sends goes on, since its timer does, and the reader and a
\* device that is not silent do.  Nobody has to take an event.
Fairness ==
  /\ WF_vars(~Panicked /\ Device) /\ WF_vars(~Panicked /\ (Incoming \/ PutEvent))
  /\ \A t \in Threads : WF_vars(~Panicked /\ Exchange(t))
FairSpec == Spec /\ Fairness

-----------------------------------------------------------------------------
(* Properties. *)

TypeOK ==
  /\ toLcd \in Seq(Packets \cup {Other("poll")}) /\ toHost \in Seq(Packets \cup Others)
  /\ inbox \in Seq(Packets) /\ Len(inbox) <= InCap
  /\ events \in 0 .. EventCap /\ pending \in 0 .. 2 /\ closed \in BOOLEAN
  /\ silent \in BOOLEAN
  /\ mutex \in Holders \cup {"free"}
  /\ pc \in [Threads -> {"off", "idle", "send", "wait", "ping", "pingWait", "retry", "done",
                         "failed", "panic"}]
  /\ req \in [Threads -> Packets] /\ tries \in [Threads -> 0 .. MaxTries]
  /\ shown \in 0 .. MaxRequests
  /\ issued \in 0 .. MaxRequests /\ keys \in 0 .. MaxKeys /\ faults \in 0 .. MaxFaults
  /\ orderly \in BOOLEAN

(* A request reported as done was carried out, and nothing after it, as     *)
(* long as senders hold the mutex (lcd.go:37) and pings are answered: the   *)
(* ping after a timeout (serial.go:173) also drops the answer that is late, *)
(* which would otherwise be taken for the next one's.                       *)
DoneIsShown == \A t \in Holders : orderly /\ pc[t] = "done" => shown = req[t].id

(* Every request ends, with an answer, after the last retry                 *)
(* (serial.go:168) or with the program, also when the device is silent or   *)
(* the reader is stuck on a full channel of events (serial.go:145).         *)
RequestsEnd == \A t \in Threads : pc[t] \notin {"off", "idle"} ~> At(t, "idle") \/ Panicked
=============================================================================
