------------------------------ MODULE LogStack ------------------------------
(***************************************************************************)
(* The stack of loggers (pkg/log, pkg/log/lcd, pkg/oss/pblog) over one run *)
(* of the init process: normal boot, boot menu, factory restore or erase.  *)
(*                                                                         *)
(* A logger is named by its Ident; the stack is the sequence of them from  *)
(* the top down, each with the entries it has taken, as indices into the   *)
(* sequence of all entries logged.  Every operation holds logStackMtx from *)
(* beginning to end, so each is one step.  The mutex is not reentrant: an  *)
(* operation that logs again while it holds the mutex hangs.               *)
(***************************************************************************)
EXTENDS Naturals, Sequences, SequencesExt

CONSTANTS
  MaxEntries,    \* bound: entries logged in one boot
  TestLog,       \* whether init may be given a directory to log to early
  RemoteErrors   \* whether calls to the log server may fail

ASSUME LogAssumption ==
  MaxEntries \in Nat /\ TestLog \in BOOLEAN /\ RemoteErrors \in BOOLEAN

Idents == {"memLog", "consoleLog", "lcdLog", "fileLog", "PBLog"}
Flags == {"NA", "EndUser", "Fatal", "NotWire"}
Phases == {"early", "testlog", "xlog", "boot", "menu", "console", "lcd", "file",
           "handle", "flush", "work", "fatal", "closing", "fork",
           "reboot", "os", "panic", "hung"}

\* "choose" is factory restore of an image picked from a menu.
Programs == {"boot", "restore", "choose", "erase"}

VARIABLES
  phase,     \* how far the process is
  program,   \* what it does, see Programs
  env,       \* what is fixed when the process starts
  chain,     \* logStack and what it forwards to, top first
  entries,   \* the flags of every entry logged
  taken,     \* the entries each logger has stored or put out
  closed,    \* loggers Finalize was called on
  base       \* entries that were gone when each logger was attached

vars == <<phase, program, env, chain, entries, taken, closed, base>>

InStack(s) == \E i \in DOMAIN chain : chain[i] = s

\* A console log added for everything, or for what end users may see; the
\* file and the connection are nil after Finalize.
Takes(s, f) ==
  CASE s = "memLog"     -> TRUE
    [] s = "consoleLog" -> env.verbose \/ f = "EndUser"
    [] s = "lcdLog"     -> f = "EndUser"
    [] s = "fileLog"    -> s \notin closed
    [] s = "PBLog"      -> s \notin closed /\ f # "NotWire"

Init ==
  /\ phase = "early" /\ program = "boot"
  /\ env \in [verbose : BOOLEAN, lcdFound : BOOLEAN]
  /\ chain = <<"memLog">> /\ entries = <<>>
  /\ taken = [s \in Idents |-> <<>>]
  /\ closed = {} /\ base = [s \in Idents |-> 0]

-----------------------------------------------------------------------------
(* Operations of the stack. *)

(* The entries of seq that are in keep, in their order.                     *)
Only(seq, keep) ==
  LET f[n \in 0 .. Len(seq)] ==
        IF n = 0 THEN <<>>
        ELSE IF seq[n] \in keep THEN Append(f[n - 1], seq[n]) ELSE f[n - 1]
  IN  f[Len(seq)]

Meant(s) == {i \in DOMAIN entries : Takes(s, entries[i])}

\* Entries a memLog still holds, for a logger that wants the previous ones.
Previous(s) == IF InStack("memLog") THEN Only(taken["memLog"], Meant(s)) ELSE <<>>

\* What the property expects of a logger attached now (not part of the code).
Attached(s, previous) ==
  base' = [base EXCEPT ![s] = IF InStack(s) THEN @
                              ELSE IF previous /\ InStack("memLog") THEN 0
                              ELSE Len(entries)]

\* Mutant: a second logger of a kind is not refused.
AddLoggerUnchecked(s, previous) ==
  /\ taken' = [taken EXCEPT ![s] = IF previous THEN @ \o Previous(s) ELSE @]
  /\ chain' = <<s>> \o chain
  /\ Attached(s, previous) /\ UNCHANGED <<entries, closed>>

\* Mutant: earlier entries are not given to the new logger.
AddLoggerNoReplay(s, previous) ==
  /\ chain' = IF InStack(s) THEN chain ELSE <<s>> \o chain
  /\ Attached(s, previous) /\ UNCHANGED <<entries, closed, taken>>

\* Mutant: earlier entries are logged again, through the whole stack.
AddLoggerRelog(s, previous) ==
  /\ taken' = [t \in Idents |->
       IF previous /\ (t = s \/ InStack(t))
       THEN taken[t] \o Only(taken["memLog"], Meant(t))
       ELSE taken[t]]
  /\ chain' = IF InStack(s) THEN chain ELSE <<s>> \o chain
  /\ Attached(s, previous) /\ UNCHANGED <<entries, closed>>

\* The previous entries are written before a duplicate is looked for.
AddLogger(s, previous) ==
  /\ taken' = [taken EXCEPT ![s] = IF previous THEN @ \o Previous(s) ELSE @]
  /\ chain' = IF InStack(s) THEN chain ELSE <<s>> \o chain
  /\ Attached(s, previous) /\ UNCHANGED <<entries, closed>>

NotAdded == UNCHANGED <<chain, entries, taken, closed, base>>

\* AddPBLog dials, then adds the logger; a call to the server that fails while
\* the previous entries are sent logs its error, which hangs.
AddPBLog(next) ==
  \/ phase' = next /\ NotAdded
  \/ phase' = next /\ AddLogger("PBLog", TRUE)
  \/ /\ RemoteErrors /\ phase' = "hung"
     /\ \E n \in 0 .. Len(Previous("PBLog")) - 1 :
          taken' = [taken EXCEPT !["PBLog"] = @ \o SubSeq(Previous("PBLog"), 1, n)]
     /\ UNCHANGED <<chain, entries, closed, base>>

\* AddEntry of the first n loggers.
Deliver(f, n) ==
  [s \in Idents |->
     IF Takes(s, f) /\ \E i \in 1 .. n : chain[i] = s
     THEN Append(taken[s], Len(entries) + 1) ELSE taken[s]]

\* FlaggedLogf hands the entry down the stack.  Pbl.AddEntry logs an error of
\* the server, whether or not the server got the entry, under the same mutex.
FlaggedLogf(f, next) ==
  /\ Len(entries) < MaxEntries
  /\ entries' = Append(entries, f)
  /\ UNCHANGED <<chain, closed, base>>
  /\ \/ phase' = next /\ taken' = Deliver(f, Len(chain))
     \/ /\ RemoteErrors /\ Takes("PBLog", f)
        /\ \E i \in DOMAIN chain :
             /\ chain[i] = "PBLog" /\ phase' = "hung"
             /\ taken' \in {Deliver(f, i - 1), Deliver(f, i)}

\* Finalize of every logger down from position i.
FinalizeFrom(c, i) ==
  LET done == {c[j] : j \in i .. Len(c)}
  IN  /\ closed' = closed \cup (done \cap {"fileLog", "PBLog"})
      /\ taken' = IF "memLog" \in done THEN [taken EXCEPT !["memLog"] = <<>>] ELSE taken

\* The logger found forgets its next one and is finalized.  The one before it
\* is then given the rest, which it must not be given unless that is empty; at
\* the top, logStack goes on pointing to the logger removed.
RemoveLogger(s, next) ==
  /\ UNCHANGED <<entries, base>>
  /\ IF ~InStack(s)
     THEN phase' = next /\ UNCHANGED <<chain, taken, closed>>
     ELSE LET i == CHOOSE j \in DOMAIN chain : chain[j] = s
          IN  /\ FinalizeFrom(<<s>>, 1)
              /\ \/ i = 1 /\ chain' = <<s>> /\ phase' = next
                 \/ i > 1 /\ i = Len(chain) /\ phase' = next
                    /\ chain' = SubSeq(chain, 1, i - 1)
                 \/ i > 1 /\ i < Len(chain) /\ phase' = "panic"
                    /\ chain' = SubSeq(chain, 1, i)

-----------------------------------------------------------------------------
(* The init process. *)

\* commonEnvVars; outputTo9p under integration test; the early log server.
CommonEnvVars ==
  /\ phase = "early" /\ phase' = "testlog"
  /\ UNCHANGED <<program, env>>
  /\ IF env.verbose THEN AddLogger("consoleLog", TRUE) ELSE NotAdded

OutputTo9p ==
  /\ phase = "testlog" /\ phase' = "xlog"
  /\ UNCHANGED <<program, env>>
  /\ \/ TestLog /\ AddLogger("fileLog", TRUE)
     \/ NotAdded

HandleEnvVars ==
  /\ phase = "xlog" /\ AddPBLog("boot") /\ UNCHANGED <<program, env>>

Go(p, prog) ==
  phase' = p /\ program' = prog /\ UNCHANGED env /\ NotAdded

\* stage2 and bootMenu: what is logged there is left to the Log action.
Boot ==
  /\ phase = "boot"
  /\ \/ Go("console", "erase") \/ Go("console", "restore") \/ Go("fork", "boot")
     \/ env.lcdFound /\ Go("menu", "boot")

BootMenu ==
  /\ phase = "menu"
  /\ \/ Go("fork", "boot") \/ Go("reboot", "boot")
     \/ \E prog \in Programs \ {"boot"} : Go("console", prog)

\* rmain and erase.Main both add console, lcd and file logs in this order;
\* only factory restore has a remote log.
AddConsoleLog ==
  /\ phase = "console" /\ phase' = "lcd" /\ UNCHANGED <<program, env>>
  /\ AddLogger("consoleLog", TRUE)

AddLcdLog ==
  /\ phase = "lcd" /\ phase' = "file" /\ UNCHANGED <<program, env>>
  /\ IF env.lcdFound THEN AddLogger("lcdLog", FALSE) ELSE NotAdded

\* The file may not be created.
AddFileLog ==
  /\ phase = "file" /\ UNCHANGED <<program, env>>
  /\ phase' = IF program = "erase" THEN "flush" ELSE "handle"
  /\ \/ ~InStack("fileLog") /\ AddLogger("fileLog", TRUE)
     \/ NotAdded

HandleFrData ==
  /\ phase = "handle" /\ AddPBLog("flush") /\ UNCHANGED <<program, env>>

FlushMemLog ==
  /\ phase = "flush" /\ RemoveLogger("memLog", "work") /\ UNCHANGED <<program, env>>

\* A cancelled image menu leads back to the boot menu; otherwise the preboot
\* list finalizes the log.
Leave ==
  /\ phase = "work"
  /\ \/ program = "choose" /\ Go("menu", "boot")
     \/ /\ phase' = "closing" /\ FinalizeFrom(chain, 1)
        /\ UNCHANGED <<program, env, chain, entries, base>>

Log ==
  /\ UNCHANGED <<program, env>>
  /\ phase \in Phases \ {"reboot", "os", "panic", "hung"}
  /\ \E f \in {"NA", "EndUser"} : FlaggedLogf(f, phase)

\* A record-keeping call to the server that fails is logged, not sent.
RecordKeeper ==
  /\ RemoteErrors /\ phase \in {"work", "fatal"} /\ InStack("PBLog")
  /\ FlaggedLogf("NotWire", phase) /\ UNCHANGED <<program, env>>

Fatalf ==
  /\ phase \in {"lcd", "file", "handle", "flush", "work"}
  /\ FlaggedLogf("Fatal", "fatal") /\ UNCHANGED <<program, env>>

FatalFinalize ==
  /\ phase = "fatal" /\ phase' = "closing" /\ FinalizeFrom(chain, 1)
  /\ UNCHANGED <<program, env, chain, entries, base>>

Reboot == phase = "closing" /\ Go("reboot", program)

\* progress.Fork, on the way to the installed system.
Fork ==
  /\ phase = "fork" /\ UNCHANGED <<program, env>>
  /\ IF env.lcdFound THEN RemoveLogger("lcdLog", "os") ELSE phase' = "os" /\ NotAdded

\* External: the next boot of the unit, with power cycled if it hangs.
NextBoot ==
  /\ phase \in {"reboot", "os", "panic", "hung"}
  /\ phase' = "early" /\ program' = "boot"
  /\ env' \in [verbose : BOOLEAN, lcdFound : BOOLEAN]
  /\ chain' = <<"memLog">> /\ entries' = <<>>
  /\ taken' = [s \in Idents |-> <<>>]
  /\ closed' = {} /\ base' = [s \in Idents |-> 0]

Next ==
  \/ CommonEnvVars \/ OutputTo9p \/ HandleEnvVars \/ Boot \/ BootMenu
  \/ AddConsoleLog \/ AddLcdLog \/ AddFileLog \/ HandleFrData \/ FlushMemLog
  \/ Leave \/ Log \/ RecordKeeper \/ Fatalf \/ FatalFinalize \/ Reboot \/ Fork
  \/ NextBoot

Spec == Init /\ [][Next]_vars

-----------------------------------------------------------------------------
(* Properties. *)

TypeOK ==
  /\ phase \in Phases /\ program \in Programs
  /\ env \in [verbose : BOOLEAN, lcdFound : BOOLEAN]
  /\ chain \in Seq(Idents) /\ chain # <<>>
  /\ entries \in Seq(Flags) /\ Len(entries) <= MaxEntries
  /\ taken \in [Idents -> Seq(1 .. Len(entries))]
  /\ closed \subseteq {"fileLog", "PBLog"}
  /\ base \in [Idents -> 0 .. Len(entries)]

Due(s) == {i \in base[s] + 1 .. Len(entries) : Takes(s, entries[i])}
Working == phase \notin {"panic", "hung"}

(* Whatever order loggers are added in, by whichever part of the process,   *)
(* and however often: a logger in the stack has every entry meant for it    *)
(* since the process started, or since it was added when the memory log was *)
(* gone by then (stackable.go addPreviousEvents, FlushMemLog).              *)
NothingLost ==
  Working => \A s \in ToSet(chain) \ (closed \cup {"memLog"}) :
               Due(s) \subseteq ToSet(taken[s])

(* The log file has those entries alone, once and in the order logged, over *)
(* the replay from memory, a second factory restore in the same process and *)
(* any other loggers above and below it.                                    *)
FileExact ==
  Working /\ "fileLog" \in ToSet(chain) \ closed =>
    /\ ToSet(taken["fileLog"]) = Due("fileLog")
    /\ \A i, j \in DOMAIN taken["fileLog"] : i < j => taken["fileLog"][i] < taken["fileLog"][j]

(* No kind of logger is twice in the stack, and the memory log is below all *)
(* others, where removing it cuts nothing off.                              *)
DistinctLoggers ==
  \A i, j \in DOMAIN chain :
    /\ chain[i] = chain[j] => i = j
    /\ chain[i] = "memLog" => i = Len(chain)

-----------------------------------------------------------------------------
(* Statements of the repository the code does not live up to. *)

(* pkg/log/stackable.go:127: remove a log with the given id from the stack, *)
(* the stack being what is left without it.                                 *)
RemovesOnlyThatLogger ==
  [][phase = "fork" => chain' = SelectSeq(chain, LAMBDA s : s # "lcdLog")]_chain

(* pkg/log/stackable.go:26: AddEntry must call the same method on the next  *)
(* log in the stack, so an entry gets to every logger but the server itself.*)
EntryReachesEveryLogger ==
  \A s \in ToSet(chain) \ (closed \cup {"memLog", "PBLog"}) : phase # "panic" =>
    Due(s) \subseteq ToSet(taken[s])
=============================================================================
