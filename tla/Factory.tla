----------------------------- MODULE Factory -----------------------------
(***************************************************************************)
(* Manufacturing (pkg/mfg, its config steps, downloads and credentials) of *)
(* units that report to one log server, up to the end of the factory       *)
(* restore that follows.  Every run is the sequence Program; a fatal error *)
(* leaves it for the reports of MfgFatal, and a panic for the              *)
(* RebootSuccess that Main defers.                                         *)
(***************************************************************************)
EXTENDS LogServer

C == INSTANCE ConfigSteps

CONSTANTS Made,      \* the units whose manufacturing is modelled; the others only report
          Modes,     \* flags of the runs: normal, altered (No-write-files), fallback (PROTO_IDENT)
          MaxTries,  \* tries of GetWithRetry
          MaxRuns    \* bound of the manufacturing runs of a unit

ASSUME FactoryAssumption == Made \subseteq Units /\ MaxTries \in Nat \ {0} /\ MaxRuns \in Nat \ {0}

VARIABLES pc,       \* [Made -> the step the unit is at]
          mode,     \* [Made -> Modes]
          volume,   \* [Made -> the recovery volume and the main disks]
          tries,    \* [Made -> downloads tried of the current file]
          linked,   \* [Made -> the log server was reached: rlog.Setup]
          configured, \* [Made -> the steps of the checked phases did what they should]
          panicked, \* [Made -> Manuf ended in a panic]
          runs      \* [Made -> manufacturing runs so far]

unitVars == <<pc, mode, volume, tries, linked, configured, panicked, runs>>
vars == <<serverVars, unitVars>>

Program == <<"network", "data", "link", "start", "codename", "beforeQA",
             "validate", "afterQA", "time", "recovery", "beforeImaging",
             "files", "afterImaging", "macs", "beforeMfg", "mfg", "afterMfg",
             "creds", "beforePWSet", "storage", "afterPWSet", "frconfig",
             "wipe", "checks", "verify", "doc", "finish", "preboot",
             "frStart", "restore", "frFinish", "restored">>
ConfigPhases == {"beforeQA", "afterQA", "beforeImaging", "afterImaging",
                 "beforeMfg", "afterMfg", "beforePWSet", "afterPWSet"}
Unchecked == {"beforePWSet", "afterPWSet"}  \* HandleCredentials drops the result
MayFail == {"network", "data", "validate", "time", "recovery", "mfg", "storage",
            "frconfig", "wipe", "checks"}
Resting == {"off", "restored"}

After(p) == Program[1 + CHOOSE i \in DOMAIN Program : Program[i] = p]
Goto(u, p) == pc' = [pc EXCEPT ![u] = p]
Advance(u) == Goto(u, After(pc[u]))
Blank == [image |-> "none", creds |-> FALSE, frdata |-> FALSE, wiped |-> FALSE]

(* What the unit asks of the server at a step that reports.                *)
Reports == [start    |-> [kind |-> "state", arg |-> "MFG_STARTED"],
            codename |-> [kind |-> "codename", arg |-> NoStage],
            macs     |-> [kind |-> "macs", arg |-> NoStage],
            creds    |-> [kind |-> "creds", arg |-> NoStage],
            doc      |-> [kind |-> "doc", arg |-> NoStage],
            finish   |-> [kind |-> "state", arg |-> "MFG_SUCCEEDED"],
            failed   |-> [kind |-> "state", arg |-> "MFG_FAILED"],
            blinked  |-> [kind |-> "state", arg |-> "MFG_FAILED"],
            frStart  |-> [kind |-> "state", arg |-> "FR_STARTED"],
            frFinish |-> [kind |-> "state", arg |-> "FR_SUCCEEDED"],
            frFailed |-> [kind |-> "state", arg |-> "FR_FAILED"]]

Init == /\ ServerInit
        /\ pc = [u \in Made |-> "network"]
        /\ mode \in [Made -> Modes]
        /\ volume = [u \in Made |-> Blank]
        /\ tries = [u \in Made |-> 0]
        /\ linked = [u \in Made |-> FALSE]
        /\ configured = [u \in Made |-> TRUE]
        /\ panicked = [u \in Made |-> FALSE]
        /\ runs = [u \in Made |-> 1]

Ends == [failed |-> "blinked", blinked |-> "off", frFailed |-> "off"]
Next1(u) == IF pc[u] \in DOMAIN Ends THEN Goto(u, Ends[pc[u]]) ELSE Advance(u)

(* qavData.hardcopy: no document from an altered run or a guessed platform.*)
NothingToSend(u) ==
    \/ ~linked[u] /\ pc[u] # "creds"
    \/ pc[u] = "doc" /\ mode[u] # "normal"

Report(u) == /\ pc[u] \in DOMAIN Reports /\ call[u] = NoCall
             /\ ~NothingToSend(u) /\ linked[u]
             /\ Call(u, Reports[pc[u]].kind, Reports[pc[u]].arg)
             /\ UNCHANGED unitVars

SkipReport(u) == /\ pc[u] \in DOMAIN Reports /\ call[u] = NoCall
                 /\ NothingToSend(u)
                 /\ Next1(u)
                 /\ UNCHANGED <<serverVars, mode, volume, tries, linked, configured,
                                panicked, runs>>

(* The deferred RebootSuccess runs; the recover() of Reboot, which is not  *)
(* itself deferred, finds nothing.                                         *)
Panic(u) == panicked' = [panicked EXCEPT ![u] = TRUE] /\ Goto(u, "finish")

(* handleGrpcErr logs an error and returns; only GetCredentials goes on to *)
(* use the response, which is nil then.                                    *)
Answered(u) ==
    /\ pc[u] \in DOMAIN Reports
    /\ Return(u)
    /\ IF At(u, "failed") /\ pc[u] = "creds"
       THEN Panic(u)
       ELSE Next1(u) /\ UNCHANGED panicked
    /\ UNCHANGED <<mode, volume, tries, linked, configured, runs>>

Link(u) == /\ pc[u] = "link"
           /\ \E reached \in BOOLEAN : linked' = [linked EXCEPT ![u] = reached]
           /\ Advance(u)
           /\ UNCHANGED <<serverVars, mode, volume, tries, configured, panicked, runs>>

(* Steps that may be configured: two, of which the first is for this phase *)
(* or another and may have a file, and commands that may go wrong.         *)
Commands == [text : {"words", "dir", "password"}, path : {"words", "broken"}, libPath : {"words"},
             status : {"missing", "dontCare", "mustFail"}, succeeds : BOOLEAN]
Files == {<<>>} \cup {<<f>> : f \in [fetched : BOOLEAN, archive : {TRUE}, extracts : BOOLEAN]}
FirstSteps == [when : {"now", "other"}, files : Files, tempDir : BOOLEAN, commands : {<<c>> : c \in Commands}]
Second(c)  == [when |-> "now", files |-> <<>>, tempDir |-> TRUE, commands |-> <<c>>]

(* All files of a phase are there, and its commands end as they must.      *)
AsWanted(steps) ==
    \A i \in DOMAIN steps : steps[i].when = "now" =>
        /\ \A j \in DOMAIN steps[i].files : steps[i].files[j].fetched /\ steps[i].files[j].extracts
        /\ \A j \in DOMAIN steps[i].commands :
              LET c == steps[i].commands[j]
              IN c.status = "dontCare" \/ c.succeeds = (c.status = "missing")

(* The outcomes of a phase, for a device that has steps or has not.        *)
Outcomes(passwords) ==
    {LET steps == <<first, Second(c)>>
     IN [result |-> C!RunApplicable(C!FindSteps(<<[codeName |-> name, steps |-> steps]>>, "own"),
                                    "now", passwords),
         good   |-> name # "own" \/ AsWanted(steps)]
       : first \in FirstSteps, c \in Commands, name \in {"own", "other"}}
PlainOutcomes    == Outcomes(FALSE)
PasswordOutcomes == Outcomes(TRUE)

(* What goes wrong in a phase is in its result (step.go:203-260, 318-330).  *)
(* No constant is involved: TLC evaluates it for all there is.              *)
ASSUME OutcomesAreTold ==
    \A outcome \in PlainOutcomes : outcome.good \/ outcome.result \in {"error", "panic"}

(* A step that fails ends manufacturing, except among those around the     *)
(* writing of credentials; one that panics ends it in any case.            *)
ConfigStep(u) ==
    /\ pc[u] \in ConfigPhases
    /\ \E outcome \in IF pc[u] \in Unchecked THEN PasswordOutcomes ELSE PlainOutcomes :
          /\ configured' = [configured EXCEPT ![u] = @ /\ (outcome.good \/ pc[u] \in Unchecked)]
          /\ IF outcome.result = "panic" THEN Panic(u)
             ELSE /\ UNCHANGED panicked
                  /\ IF outcome.result = "error" /\ pc[u] \notin Unchecked
                     THEN Goto(u, "failed") ELSE Advance(u)
    /\ UNCHANGED <<serverVars, mode, volume, tries, linked, runs>>

\* Mutant: Fatalf returns, as with a fatal action that does not exit.
FatalfReturns(u) ==
    /\ pc[u] \in MayFail
    /\ Advance(u)
    /\ UNCHANGED <<serverVars, mode, volume, tries, linked, configured, panicked, runs>>

Fatalf(u) == /\ pc[u] \in MayFail
             /\ Goto(u, "failed")
             /\ UNCHANGED <<serverVars, mode, volume, tries, linked, configured,
                            panicked, runs>>

Does(u, step, new) ==
    /\ pc[u] = step
    /\ volume' = [volume EXCEPT ![u] = new]
    /\ Advance(u)
    /\ UNCHANGED <<serverVars, mode, tries, linked, configured, panicked, runs>>

EnableNetworking(u)  == Does(u, "network", volume[u])
Parse(u)             == Does(u, "data", volume[u])
Validate(u)          == Does(u, "validate", volume[u])
\* Without a server GetTime returns "", which does not parse: no unit gets
\* to its credentials ("no pblog - ?!", stash.go:52) without one.
SetTimeFromServer(u) == linked[u] /\ Does(u, "time", volume[u])
CreateRecovery(u)    == Does(u, "recovery", [Blank EXCEPT !.wiped = volume[u].wiped])
StashMfg(u)          == Does(u, "mfg", volume[u])
WriteCredentials(u)  == Does(u, "storage", [volume[u] EXCEPT !.creds = TRUE])
FRConfig(u)          == Does(u, "frconfig", [volume[u] EXCEPT !.frdata = TRUE])
\* zero only logs a failing open, seek or write.
WipeDisks(u)         == \E done \in BOOLEAN :
                          Does(u, "wipe", [volume[u] EXCEPT !.wiped = @ \/ done])
CheckVolume(u)       == Does(u, "checks", volume[u])

Writing(u) == pc[u] = "files" /\ mode[u] # "altered"

SkipFiles(u) ==
    /\ pc[u] = "files" /\ mode[u] = "altered"
    /\ Advance(u)
    /\ UNCHANGED <<serverVars, mode, volume, tries, linked, configured, panicked, runs>>

\* Mutant: the tries are counted anew when they are used up.
GetFailsForever(u) ==
    /\ Writing(u)
    /\ tries' = [tries EXCEPT ![u] = IF @ + 1 < MaxTries THEN @ + 1 ELSE 0]
    /\ UNCHANGED <<serverVars, mode, pc, volume, linked, configured, panicked, runs>>

(* The download or its checksum failed: try again, or give up.             *)
GetFails(u) ==
    /\ Writing(u)
    /\ tries' = [tries EXCEPT ![u] = @ + 1]
    /\ IF tries[u] + 1 < MaxTries THEN UNCHANGED pc ELSE Goto(u, "failed")
    /\ UNCHANGED <<serverVars, mode, volume, linked, configured, panicked, runs>>

(* The download is good; nothing verifies the copy that Finalize makes.    *)
Finalize(u) ==
    /\ Writing(u)
    /\ \E written \in {"good", "damaged"} :
          volume' = [volume EXCEPT ![u].image = written]
    /\ tries' = [tries EXCEPT ![u] = 0]
    /\ Advance(u)
    /\ UNCHANGED <<serverVars, mode, linked, configured, panicked, runs>>

\* Mutant: a wrong checksum is logged and no more.
VerifyImageLogs(u) ==
    /\ pc[u] = "verify" /\ Advance(u)
    /\ UNCHANGED <<serverVars, mode, volume, tries, linked, configured, panicked, runs>>

VerifyImage(u) ==
    /\ pc[u] = "verify"
    /\ IF mode[u] # "altered" /\ volume[u].image # "good"
       THEN Goto(u, "failed") ELSE Advance(u)
    /\ UNCHANGED <<serverVars, mode, volume, tries, linked, configured, panicked, runs>>

(* The preboot tasks, then factory restore from the recovery volume; but a *)
(* main disk that was not wiped may still boot what is on it.              *)
Reboot(u) == /\ pc[u] = "preboot"
             /\ Advance(u) \/ (~volume[u].wiped /\ Goto(u, "off"))
             /\ UNCHANGED <<serverVars, mode, volume, tries, linked, configured, panicked, runs>>

Restore(u) == /\ pc[u] = "restore"
              /\ \/ volume[u].image = "good" /\ Advance(u)
                 \/ Goto(u, "frFailed")
              /\ UNCHANGED <<serverVars, mode, volume, tries, linked, configured,
                             panicked, runs>>

(* A unit that failed is booted from the network again.                    *)
RunAgain(u) == /\ pc[u] = "off" /\ ~panicked[u] /\ runs[u] < MaxRuns
               /\ runs' = [runs EXCEPT ![u] = @ + 1]
               /\ tries' = [tries EXCEPT ![u] = 0]
               /\ linked' = [linked EXCEPT ![u] = FALSE]
               /\ configured' = [configured EXCEPT ![u] = TRUE]
               /\ Goto(u, "network")
               /\ UNCHANGED <<serverVars, mode, volume, panicked>>

UnitStep(u) == \/ Report(u) \/ SkipReport(u) \/ Answered(u)
               \/ Link(u) \/ ConfigStep(u) \/ Fatalf(u)
               \/ EnableNetworking(u) \/ Parse(u) \/ Validate(u) \/ SetTimeFromServer(u)
               \/ CreateRecovery(u) \/ StashMfg(u) \/ WriteCredentials(u)
               \/ FRConfig(u) \/ WipeDisks(u) \/ CheckVolume(u)
               \/ SkipFiles(u) \/ GetFails(u) \/ Finalize(u) \/ VerifyImage(u) \/ Reboot(u) \/ Restore(u)

(* Other units report that they restore, and send documents until MaxRuns  *)
(* have been received.                                                     *)
OtherReports(u) == /\ \/ stored[u] # "FR_STARTED" /\ Call(u, "state", "FR_STARTED")
                      \/ MapThenSumSet(Received, Units) < MaxRuns /\ Call(u, "doc", NoStage)
                      \/ Return(u)
                   /\ UNCHANGED unitVars

Next == \/ \E u \in Made : UnitStep(u) \/ RunAgain(u)
        \/ \E u \in Units \ Made : OtherReports(u)
        \/ ServerStep /\ UNCHANGED unitVars

(* A run is one goroutine that never waits without a bound except for the  *)
(* server, and every call is answered or ends with the connection.         *)
Fairness == ServerFairness /\ \A u \in Made : WF_vars(UnitStep(u))
Spec == Init /\ [][Next]_vars /\ Fairness
----------------------------------------------------------------------------
TypeOK ==
    /\ ServerTypeOK
    /\ pc \in [Made -> {Program[i] : i \in DOMAIN Program} \cup DOMAIN Ends \cup {"off"}]
    /\ mode \in [Made -> Modes]
    /\ volume \in [Made -> [image : {"none", "good", "damaged"}, creds : BOOLEAN,
                             frdata : BOOLEAN, wiped : BOOLEAN]]
    /\ tries \in [Made -> 0..MaxTries] /\ runs \in [Made -> 1..MaxRuns]
    /\ {linked, configured} \subseteq [Made -> BOOLEAN] /\ panicked \in [Made -> BOOLEAN]

(* A unit that reports itself finished, or has, and is about to restart,   *)
(* has image, credentials and options on its recovery volume               *)
(* (manuf.go:222-251, 264-297), unless a panic or a flag cut the run       *)
(* short; its configuration steps got their files and ended with the       *)
(* status they must (step.go:203), but for the two phases whose result     *)
(* nobody looks at (stash.go:61, 70).  Its main disks need not be wiped,   *)
(* see WipedBeforeRestore.                                                 *)
Finished(u) == \/ pc[u] \in {"preboot", "frStart", "restore"}
               \/ call[u].kind = "state" /\ call[u].arg = "MFG_SUCCEEDED"
FinishedMeansReady ==
    \A u \in Made :
        Finished(u) /\ ~panicked[u] /\ mode[u] # "altered" =>
            /\ configured[u]
            /\ volume[u].image = "good" /\ volume[u].creds /\ volume[u].frdata

(* A document is only on its way to the printer for an image that was read *)
(* back from the recovery volume, in a run without flags.                  *)
DocMeansVerified ==
    \A u \in Made : call[u].kind = "doc" =>
        volume[u].image = "good" /\ mode[u] = "normal" /\ ~panicked[u]

(* Every run ends, in a rest or a restored unit, if documents are printed   *)
(* at once: a hold time without MonitorHolds keeps the unit waiting.       *)
RunsEnd == \A u \in Made : <>[](pc[u] \in Resting)

(* manuf.go:254: "wipe partition table on main disk(s), ensuring we really *)
(* do boot into factory restore".                                          *)
WipedBeforeRestore ==
    \A u \in Made : pc[u] = "preboot" /\ ~panicked[u] /\ mode[u] = "normal" => volume[u].wiped

(* power.go:58: a panic is caught in Reboot, logged, and not a success.    *)
PanicIsNoSuccess == \A u \in Made : panicked[u] => stored[u] # "MFG_SUCCEEDED"
============================================================================
