---------------------------- MODULE LogServer ----------------------------
(***************************************************************************)
(* The log server (pkg/oss/pblog/server) as its clients see it: reports    *)
(* that are stored and then entered, under another lock, in the list of    *)
(* recent activity, and QA documents that are printed at once or wait in   *)
(* memory until someone releases them or the hold expires.  Each unit has  *)
(* at most one call in progress: the client (pkg/oss/pblog) waits for the  *)
(* answer.                                                                 *)
(*                                                                         *)
(* The goroutines that look after documents on hold are started by         *)
(* MonitorHolds, which the server's main function never calls: whether the *)
(* process has called it is the constant Monitored.  Documents are         *)
(* released by a send on ReleaseForPrinting, for which there is no code    *)
(* outside a test either: Release may happen at any time.                  *)
(***************************************************************************)
EXTENDS Integers, Sequences, FiniteSets, SequencesExt

CONSTANTS Units,        \* serial numbers of the units that report
          MaxHistory,   \* length of the recent activity list
          QAHold,       \* flag qaMaxHold: how long a document may wait, 0 to print it at
                        \* once; a patrol is due every QAHold/2
          Monitored,    \* MonitorHolds was called
          MaxErrors     \* bound of the storage and print errors and restarts

Nobody == "nobody"

ASSUME ServerAssumption == /\ IsFiniteSet(Units) /\ Nobody \notin Units
                           /\ MaxHistory \in Nat \ {0}
                           /\ QAHold \in Nat /\ Monitored \in BOOLEAN
                           /\ MaxErrors \in Nat

VARIABLES call,      \* [Units -> the call in progress]
          stored,    \* [Units -> the last stage in the unit's stored log]
          recent,    \* recent activity, latest first
          docs,      \* documents on hold, numbered per unit
          manage,    \* whose document manage() has received and not yet added
          wait,      \* time until patrol() looks at the documents again
          printed, refused, discarded, lost,  \* [Units -> what became of its documents]
          errors

serverVars == <<call, stored, recent, docs, manage, wait,
                printed, refused, discarded, lost, errors>>
counters == <<printed, refused, discarded, lost>>
docVars == <<docs, manage, wait, counters>>

Stages == {"MFG_STARTED", "MFG_FAILED", "MFG_SUCCEEDED",
           "FR_STARTED", "FR_FAILED", "FR_SUCCEEDED"}
Kinds == {"codename", "state", "macs", "creds", "doc"}
NoStage == "UNKNOWN"
NoCall == [kind |-> "none", arg |-> NoStage, at |-> "none"]

ServerInit ==
    /\ call = [u \in Units |-> NoCall]
    /\ stored = [u \in Units |-> NoStage]
    /\ recent = <<>> /\ docs = {} /\ manage = Nobody
    /\ wait = QAHold \div 2 /\ errors = 0
    /\ printed = [u \in Units |-> 0]
    /\ refused = [u \in Units |-> 0]
    /\ discarded = [u \in Units |-> 0]
    /\ lost = [u \in Units |-> 0]

(* The unit calls.  A document is printed, or held if there is a hold time. *)
Entrance(kind) ==
    IF kind # "doc" THEN "store" ELSE IF QAHold > 0 THEN "hold" ELSE "print"

Call(u, kind, arg) ==
    /\ call[u] = NoCall
    /\ call' = [call EXCEPT ![u] =
                  [kind |-> kind, arg |-> arg, at |-> Entrance(kind)]]
    /\ UNCHANGED <<stored, recent, docVars, errors>>

At(u, place) == call[u].at = place
Go(u, place) == call' = [call EXCEPT ![u].at = place]

(* addLogEvent, StoreMacs: one read-append-write under the store's lock.   *)
StoreEvent(u) ==
    /\ At(u, "store")
    /\ stored' = [stored EXCEPT ![u] =
                    IF call[u].kind = "state" THEN call[u].arg ELSE @]
    /\ Go(u, IF call[u].kind \in {"state", "codename"} THEN "list" ELSE "done")
    /\ UNCHANGED <<recent, docVars, errors>>

StoreFails(u) ==
    /\ At(u, "store") \/ At(u, "print") \/ At(u, "event")
    /\ errors < MaxErrors
    /\ errors' = errors + 1
    /\ Go(u, "failed")
    /\ UNCHANGED <<stored, recent, docVars>>

Truncate(entries) == SubSeq(entries, 1, IF Len(entries) < MaxHistory
                                        THEN Len(entries) ELSE MaxHistory)

\* Mutant: the unit's earlier entry is not taken off the list.
GetentKeepsOld(entries, u) ==
    Truncate(<<[sn |-> u, state |-> NoStage]>> \o entries)

Listed(entries, u) == {i \in DOMAIN entries : entries[i].sn = u}

(* The unit's first entry, moved to the front, or a new one put there.     *)
Getent(entries, u) ==
    IF Listed(entries, u) = {}
    THEN Truncate(<<[sn |-> u, state |-> NoStage]>> \o entries)
    ELSE LET i == CHOOSE k \in Listed(entries, u) : \A j \in Listed(entries, u) : k <= j
         IN  Truncate(<<entries[i]>> \o RemoveAt(entries, i))

EnterActivity(u) ==
    /\ At(u, "list")
    /\ recent' = LET moved == Getent(recent, u)
                 IN IF call[u].kind = "state"
                    THEN [moved EXCEPT ![1].state = call[u].arg] ELSE moved
    /\ Go(u, "done")
    /\ UNCHANGED <<stored, docVars, errors>>

(* print() writes a file; if that fails the client is told.                *)
PrintDocument(u) ==
    /\ At(u, "print")
    /\ printed' = [printed EXCEPT ![u] = @ + 1]
    /\ Go(u, "event")
    /\ UNCHANGED <<stored, recent, docs, manage, wait, refused, discarded, lost, errors>>

(* HoldForPrinting is not buffered: manage() takes the document when it    *)
(* has nothing else to do, and the handler goes on to log it.  The channel *)
(* is nil, and the send blocks for ever, unless there is a manage().       *)
ReceiveDocument(u) ==
    /\ Monitored /\ At(u, "hold") /\ manage = Nobody
    /\ manage' = u
    /\ Go(u, "event")
    /\ UNCHANGED <<stored, recent, docs, wait, counters, errors>>

Held(u) == {d \in docs : d.sn = u}
DocsOf(u) == Cardinality(Held(u)) + (IF manage = u THEN 1 ELSE 0)
Settled(u) == printed[u] + refused[u] + discarded[u] + lost[u]

\* The number tells the documents of a unit apart; nothing depends on it.
AddDocument ==
    /\ manage # Nobody
    /\ docs' = docs \cup {[sn |-> manage, left |-> QAHold + 1,
                            nr |-> Cardinality(Held(manage)) + Settled(manage)]}
    /\ manage' = Nobody
    /\ UNCHANGED <<call, stored, recent, wait, counters, errors>>

LogDocument(u) ==
    /\ At(u, "event")
    /\ Go(u, "done")
    /\ UNCHANGED <<stored, recent, docVars, errors>>

Return(u) == /\ At(u, "done") \/ At(u, "failed")
             /\ call' = [call EXCEPT ![u] = NoCall]
             /\ UNCHANGED <<stored, recent, docVars, errors>>

Expired(d) == d.left = 0  \* Expires.Before(now)

(* manage() prints what it holds of a unit that is sent to it.  What       *)
(* print() fails to write is taken off the list all the same.              *)
Release(u) ==
    /\ Monitored /\ manage = Nobody /\ Held(u) # {}
    /\ \E failing \in SUBSET Held(u) :
          /\ printed' = [printed EXCEPT ![u] = @ + Cardinality(Held(u) \ failing)]
          /\ refused' = [refused EXCEPT ![u] = @ + Cardinality(failing)]
          /\ \/ failing = {} /\ UNCHANGED errors
             \/ failing # {} /\ errors < MaxErrors /\ errors' = errors + 1
    /\ docs' = docs \ Held(u)
    /\ UNCHANGED <<call, stored, recent, manage, wait, discarded, lost>>

\* Mutant: patrol discards every document.
PatrolNowAll ==
    /\ Monitored /\ QAHold > 0 /\ wait = 0
    /\ discarded' = [u \in Units |-> discarded[u] + Cardinality(Held(u))]
    /\ docs' = {} /\ wait' = QAHold \div 2
    /\ UNCHANGED <<call, stored, recent, manage, printed, refused, lost, errors>>

\* Mutant: patrol discards nothing.
PatrolNowKeeps ==
    /\ Monitored /\ QAHold > 0 /\ wait = 0
    /\ wait' = QAHold \div 2
    /\ UNCHANGED <<call, stored, recent, docs, manage, counters, errors>>

Overdue(u) == {d \in Held(u) : Expired(d)}

PatrolNow ==
    /\ Monitored /\ QAHold > 0 /\ wait = 0
    /\ discarded' = [u \in Units |-> discarded[u] + Cardinality(Overdue(u))]
    /\ docs' = {d \in docs : ~Expired(d)}
    /\ wait' = QAHold \div 2
    /\ UNCHANGED <<call, stored, recent, manage, printed, refused, lost, errors>>

Less(n) == IF n = 0 THEN 0 ELSE n - 1

Tick == /\ wait' = Less(wait)
        /\ docs' = {[d EXCEPT !.left = Less(@)] : d \in docs}
        /\ UNCHANGED <<call, stored, recent, manage, counters, errors>>

(* The store is a file; the list and the documents on hold are not.        *)
Restart ==
    /\ errors < MaxErrors
    /\ errors' = errors + 1
    /\ recent' = <<>> /\ docs' = {} /\ manage' = Nobody
    /\ lost' = [u \in Units |-> lost[u] + DocsOf(u)]
    /\ call' = [u \in Units |-> IF call[u] = NoCall THEN NoCall
                                ELSE [call[u] EXCEPT !.at = "failed"]]
    /\ wait' = QAHold \div 2
    /\ UNCHANGED <<stored, printed, refused, discarded>>

Handler(u) == \/ StoreEvent(u) \/ StoreFails(u) \/ EnterActivity(u)
              \/ PrintDocument(u) \/ ReceiveDocument(u) \/ LogDocument(u)
ServerStep == \/ \E u \in Units : Handler(u) \/ Release(u)
              \/ AddDocument \/ PatrolNow \/ Tick \/ Restart

(* Every handler goes on, and so do the two goroutines of MonitorHolds if  *)
(* they were started.                                                      *)
ServerFairness ==
    /\ \A u \in Units : /\ WF_serverVars(\/ StoreEvent(u) \/ EnterActivity(u)
                                       \/ PrintDocument(u) \/ LogDocument(u))
                        /\ SF_serverVars(ReceiveDocument(u))
    /\ WF_serverVars(AddDocument) /\ WF_serverVars(PatrolNow) /\ WF_serverVars(Tick)
----------------------------------------------------------------------------
ServerTypeOK ==
    /\ call \in [Units -> {NoCall} \cup
                   [kind : Kinds, arg : Stages \cup {NoStage},
                    at : {"store", "list", "print", "hold", "event", "done", "failed"}]]
    /\ stored \in [Units -> Stages \cup {NoStage}]
    /\ recent \in Seq([sn : Units, state : Stages \cup {NoStage}])
    /\ Len(recent) <= MaxHistory
    /\ docs \subseteq [sn : Units, nr : Nat, left : 0..(QAHold + 1)]
    /\ \A d, e \in docs : d.sn = e.sn /\ d.nr = e.nr => d = e
    /\ manage \in Units \cup {Nobody}
    /\ wait \in 0..(QAHold \div 2) /\ errors \in 0..MaxErrors
    /\ \A f \in {printed, refused, discarded, lost} : f \in [Units -> Nat]

(* "Last Known State" (history.go:103): a unit is listed once, and between *)
(* its reports the state shown for it is the last stage in its stored log, *)
(* or none since the server was restarted or the unit had dropped off the  *)
(* end of the list.                                                        *)
Reporting(u) == call[u].kind = "state" /\ call[u].at = "list"
Shown(i) ==
    LET u == recent[i].sn
    IN  \/ Reporting(u)
        \/ recent[i].state = stored[u]
        \/ recent[i].state = NoStage /\ (errors > 0 \/ Cardinality(Units) > MaxHistory)
LastKnownState ==
    /\ \A i, j \in DOMAIN recent : recent[i].sn = recent[j].sn => i = j
    /\ \A i \in DOMAIN recent : Shown(i)

(* In a process that called MonitorHolds, a document that was taken on     *)
(* hold stays there until it is released - and printed, or refused by      *)
(* print() -, discarded, or lost with the server, each of them once, and   *)
(* patrol() discards only documents whose hold has expired, and then all   *)
(* of them.                                                                *)
Received(u) == DocsOf(u) + Settled(u)
DocsAccounted ==
    [][ \A u \in Units :
          /\ Received(u)' - Received(u) \in {0, 1}
          /\ discarded'[u] - discarded[u] \in {0, Cardinality(Overdue(u))} ]_serverVars

(* In such a process no document stays on hold for ever.                   *)
HoldsEnd == \A u \in Units : DocsOf(u) > 0 ~> DocsOf(u) = 0

(* serve.go:36, of the flag qaMaxHold: "factory restore must complete      *)
(* within this time or qa doc will be discarded".  A document that waits   *)
(* to be taken on hold is printed or discarded in the end, unless the      *)
(* server goes down or its call fails.                                     *)
HeldDocsSettle == \A u \in Units : At(u, "hold") ~> Settled(u) > 0 \/ At(u, "failed")
============================================================================
