---------------------------- MODULE FactoryProofs ----------------------------
(***************************************************************************)
(* For any number of units, runs, retries and server errors: a unit that    *)
(* reports itself finished has what factory restore needs, and a document   *)
(* is only sent for an image that was read back.  Both follow from where a  *)
(* run is: each step that must have been done lies on every way there, and   *)
(* the only shortcut is a panic.                                            *)
(*                                                                         *)
(* Of the server: the list of recent activity and the documents on hold     *)
(* are right, whatever calls, goroutines and restarts come in between.      *)
(***************************************************************************)
EXTENDS Factory, FiniteSetTheorems, SequenceTheorems, TLAPS

-----------------------------------------------------------------------------
(* The order of the steps (manuf.go:70-297). *)

WithCreds == {"afterPWSet", "frconfig", "wipe", "checks", "verify", "doc", "finish",
              "preboot", "frStart", "restore"}
WithData  == {"wipe", "checks", "verify", "doc", "finish", "preboot", "frStart", "restore"}
Verified  == {"doc", "finish", "preboot", "frStart", "restore"}
Late      == {"finish", "preboot", "frStart", "restore", "frFinish", "restored", "frFailed",
              "off"}
GivenUp   == {"failed", "blinked", "off"}

(* Where each step leads: into one of the sets only from within, or by the  *)
(* step that the set stands for.                                            *)
LEMMA StepOrder ==
  /\ After("network") = "data" /\ After("data") = "link" /\ After("link") = "start"
  /\ After("start") = "codename" /\ After("codename") = "beforeQA"
  /\ After("beforeQA") = "validate" /\ After("validate") = "afterQA"
  /\ After("afterQA") = "time" /\ After("time") = "recovery"
  /\ After("recovery") = "beforeImaging" /\ After("beforeImaging") = "files"
  /\ After("files") = "afterImaging" /\ After("afterImaging") = "macs"
  /\ After("macs") = "beforeMfg" /\ After("beforeMfg") = "mfg" /\ After("mfg") = "afterMfg"
  /\ After("afterMfg") = "creds" /\ After("creds") = "beforePWSet"
  /\ After("beforePWSet") = "storage" /\ After("storage") = "afterPWSet"
  /\ After("afterPWSet") = "frconfig" /\ After("frconfig") = "wipe"
  /\ After("wipe") = "checks" /\ After("checks") = "verify" /\ After("verify") = "doc"
  /\ After("doc") = "finish" /\ After("finish") = "preboot" /\ After("preboot") = "frStart"
  /\ After("frStart") = "restore" /\ After("restore") = "frFinish"
  /\ After("frFinish") = "restored"
<1>1. /\ After("network") = "data" /\ After("data") = "link"
      /\ After("link") = "start" /\ After("start") = "codename"
  BY DEF After, Program
<1>2. /\ After("codename") = "beforeQA" /\ After("beforeQA") = "validate"
      /\ After("validate") = "afterQA" /\ After("afterQA") = "time"
  BY DEF After, Program
<1>3. /\ After("time") = "recovery" /\ After("recovery") = "beforeImaging"
      /\ After("beforeImaging") = "files" /\ After("files") = "afterImaging"
  BY DEF After, Program
<1>4. /\ After("afterImaging") = "macs" /\ After("macs") = "beforeMfg"
      /\ After("beforeMfg") = "mfg" /\ After("mfg") = "afterMfg"
  BY DEF After, Program
<1>5. /\ After("afterMfg") = "creds" /\ After("creds") = "beforePWSet"
      /\ After("beforePWSet") = "storage" /\ After("storage") = "afterPWSet"
  BY DEF After, Program
<1>6. /\ After("afterPWSet") = "frconfig" /\ After("frconfig") = "wipe"
      /\ After("wipe") = "checks" /\ After("checks") = "verify"
  BY DEF After, Program
<1>7. /\ After("verify") = "doc" /\ After("doc") = "finish"
      /\ After("finish") = "preboot" /\ After("preboot") = "frStart"
  BY DEF After, Program
<1>8. /\ After("frStart") = "restore" /\ After("restore") = "frFinish"
      /\ After("frFinish") = "restored"
  BY DEF After, Program
<1> QED BY <1>1, <1>2, <1>3, <1>4, <1>5, <1>6, <1>7, <1>8

-----------------------------------------------------------------------------
(* The invariant. *)

VolumeType == [image : {"none", "good", "damaged"}, creds : BOOLEAN, frdata : BOOLEAN,
               wiped : BOOLEAN]
CallType == [kind : Kinds \cup {"none"}, arg : Stages \cup {NoStage},
             at : {"none", "store", "list", "print", "hold", "event", "done", "failed"}]

Types ==
  /\ DOMAIN pc = Made /\ DOMAIN mode = Made
  /\ volume \in [Made -> VolumeType] /\ call \in [Units -> CallType]
  /\ panicked \in [Made -> BOOLEAN] /\ configured \in [Made -> BOOLEAN]

(* What is on the volume, by where the run is (manuf.go:70-297).            *)
Built(u) ==
  /\ pc[u] \in WithCreds => volume[u].creds = TRUE
  /\ pc[u] \in WithData  => volume[u].frdata = TRUE
  /\ pc[u] \in Verified /\ mode[u] # "altered" => volume[u].image = "good"

(* A unit that panicked is on its way out; one whose steps went wrong has   *)
(* panicked or given up (manuf.go:60, step.go:203).                         *)
Straight(u) ==
  /\ panicked[u] = TRUE => pc[u] \in Late
  /\ panicked[u] = FALSE => Built(u)
  /\ configured[u] = FALSE => panicked[u] = TRUE \/ pc[u] \in GivenUp

(* The client waits for the answer (pblog.go): a call is about the step the *)
(* unit is at.                                                              *)
Waits(u) ==
  /\ call[u].kind = "doc" => pc[u] = "doc" /\ mode[u] = "normal"
  /\ call[u].kind = "state" /\ call[u].arg = "MFG_SUCCEEDED" => pc[u] = "finish"

UnitOK(u) == Straight(u) /\ Waits(u)
IInv == Types /\ \A u \in Made : UnitOK(u)

LEMMA ReportKinds ==
  /\ DOMAIN Reports = {"start", "codename", "macs", "creds", "doc", "finish", "failed",
                       "blinked", "frStart", "frFinish", "frFailed"}
  /\ \A p \in DOMAIN Reports :
       /\ Reports[p].kind \in Kinds /\ Reports[p].arg \in Stages \cup {NoStage}
       /\ Reports[p].kind = "doc" => p = "doc"
       /\ Reports[p].arg = "MFG_SUCCEEDED" => p = "finish"
BY DEF Reports, Kinds, Stages, NoStage

LEMMA NoCallType == NoCall \in CallType /\ NoCall.kind = "none"
BY DEF NoCall, CallType, NoStage

(* The state of one unit, and a step that leaves it alone.                  *)
Same(u) == /\ pc'[u] = pc[u] /\ volume'[u] = volume[u] /\ panicked'[u] = panicked[u]
           /\ configured'[u] = configured[u] /\ mode'[u] = mode[u]
           /\ call'[u].kind = call[u].kind /\ call'[u].arg = call[u].arg

LEMMA SameKeeps ==
  ASSUME NEW u \in Made, UnitOK(u), Same(u)
  PROVE  UnitOK(u)'
BY DEF Same, UnitOK, Straight, Built, Waits

-----------------------------------------------------------------------------
(* Steps of a unit.  Only(u): types are kept and other units left alone.    *)

Only(u) == Types' /\ mode' = mode /\ \A v \in Made \ {u} : Same(v)

(* A step that talks to nobody and goes to p.                               *)
LEMMA QuietStep ==
  ASSUME Types, NEW u \in Made, NEW p, Goto(u, p), UNCHANGED <<serverVars, mode>>,
         UNCHANGED volume \/ \E new \in VolumeType : volume' = [volume EXCEPT ![u] = new],
         UNCHANGED configured
           \/ \E c \in BOOLEAN : configured' = [configured EXCEPT ![u] = c],
         UNCHANGED panicked \/ panicked' = [panicked EXCEPT ![u] = TRUE]
  PROVE  /\ Only(u) /\ pc'[u] = p
         /\ call' = call
BY DEF Types, Goto, Only, Same, serverVars

LEMMA ReportStep ==
  ASSUME Types, NEW u \in Made, Report(u)
  PROVE  /\ Only(u) /\ UNCHANGED <<pc, volume, panicked, configured>>
         /\ pc[u] \in DOMAIN Reports /\ ~NothingToSend(u)
         /\ call'[u].kind = Reports[pc[u]].kind /\ call'[u].arg = Reports[pc[u]].arg
<1>1. /\ pc[u] \in DOMAIN Reports /\ ~NothingToSend(u) /\ u \in Units
      /\ UNCHANGED <<pc, mode, volume, panicked, configured>>
      /\ call' = [call EXCEPT ![u] =
                     [kind |-> Reports[pc[u]].kind, arg |-> Reports[pc[u]].arg,
                      at |-> Entrance(Reports[pc[u]].kind)]]
  BY FactoryAssumption DEF Report, Call, unitVars
<1>2. call'[u] \in CallType
  BY <1>1, ReportKinds DEF CallType, Types, Entrance
<1>3. call' \in [Units -> CallType] /\ \A v \in Made \ {u} : call'[v] = call[v]
  BY <1>1, <1>2, FactoryAssumption DEF Types
<1> QED BY <1>1, <1>3 DEF Only, Same, Types

(* From one place to another that asks for no more.                         *)
Onward(p, q) ==
  /\ q \in WithCreds => p \in WithCreds
  /\ q \in WithData  => p \in WithData
  /\ q \in Verified  => p \in Verified
  /\ p \in Late      => q \in Late
  /\ p \in GivenUp   => q \in GivenUp

LEMMA OnwardKeeps ==
  ASSUME NEW u \in Made, Straight(u), Onward(pc[u], pc'[u]), mode' = mode,
         volume'[u] = volume[u], panicked'[u] = panicked[u], configured'[u] = configured[u]
  PROVE  Straight(u)'
BY DEF Straight, Built, Onward

(* The steps that report, and where they lead (manuf.go, MfgFatal,          *)
(* recover.go).                                                             *)
LEMMA NextReport ==
  ASSUME Types, NEW u \in Made, pc[u] \in DOMAIN Reports, Next1(u)
  PROVE  \E q : Goto(u, q) /\ pc'[u] = q /\ Onward(pc[u], q) /\ (pc[u] = "doc" => q = "finish")
<1> DEFINE q == IF pc[u] \in DOMAIN Ends THEN Ends[pc[u]] ELSE After(pc[u])
<1>1. Goto(u, q) /\ pc'[u] = q
  BY DEF Next1, Advance, Goto, Types
<1>2. DOMAIN Ends = {"failed", "blinked", "frFailed"}
  BY DEF Ends
<1>3. Onward(pc[u], q) /\ (pc[u] = "doc" => q = "finish")
  BY <1>2, ReportKinds, StepOrder
     DEF Ends, Onward, WithCreds, WithData, Verified, Late, GivenUp
<1> HIDE DEF q
<1> QED BY <1>1, <1>3

LEMMA SkipReportKeeps ==
  ASSUME Types, NEW u \in Made, UnitOK(u), SkipReport(u)
  PROVE  Only(u) /\ UnitOK(u)'
<1>1. /\ pc[u] \in DOMAIN Reports /\ call[u] = NoCall /\ Next1(u)
      /\ UNCHANGED <<serverVars, mode, volume, configured, panicked>>
  BY DEF SkipReport
<1>2. PICK q : Goto(u, q) /\ pc'[u] = q /\ Onward(pc[u], q)
  BY <1>1, NextReport
<1>3. Only(u) /\ call' = call
  BY <1>1, <1>2, QuietStep
<1>4. Straight(u)'
  BY <1>1, <1>2, OnwardKeeps DEF UnitOK
<1>5. Waits(u)'
  BY <1>1, <1>3, NoCallType DEF Waits, NoCall
<1> QED BY <1>3, <1>4, <1>5 DEF UnitOK

(* The answer is there, or the call failed; without credentials to use the  *)
(* unit panics (pblog.go:353-358).                                          *)
LEMMA AnsweredKeeps ==
  ASSUME Types, NEW u \in Made, UnitOK(u), Answered(u)
  PROVE  Only(u) /\ UnitOK(u)'
<1>1. /\ pc[u] \in DOMAIN Reports /\ u \in Units
      /\ call' = [call EXCEPT ![u] = NoCall]
      /\ UNCHANGED <<mode, volume, configured>>
      /\ \/ Panic(u) /\ pc[u] = "creds"
         \/ Next1(u) /\ UNCHANGED panicked
  BY FactoryAssumption DEF Answered, Return
<1>2. PICK q : /\ Goto(u, q) /\ pc'[u] = q
               /\ \/ UNCHANGED panicked /\ Onward(pc[u], q)
                  \/ panicked' = [panicked EXCEPT ![u] = TRUE] /\ q = "finish"
  <2>1. CASE Panic(u) /\ pc[u] = "creds"
    BY <2>1 DEF Panic, Goto, Types
  <2>2. CASE Next1(u) /\ UNCHANGED panicked
    BY <1>1, <2>2, NextReport
  <2> QED BY <1>1, <2>1, <2>2
<1>3. Only(u)
  <2>1. DOMAIN pc' = Made /\ \A v \in Made \ {u} : pc'[v] = pc[v]
    BY <1>2 DEF Goto, Types
  <2>2. panicked' \in [Made -> BOOLEAN] /\ \A v \in Made \ {u} : panicked'[v] = panicked[v]
    BY <1>2 DEF Types
  <2>3. /\ call' \in [Units -> CallType]
        /\ \A v \in Made \ {u} : call'[v] = call[v]
    BY <1>1, NoCallType, FactoryAssumption DEF Types
  <2> QED BY <1>1, <2>1, <2>2, <2>3 DEF Only, Types, Same
<1>4. Straight(u)'
  <2>1. CASE UNCHANGED panicked /\ Onward(pc[u], q)
    BY <1>1, <1>2, <2>1, OnwardKeeps DEF UnitOK
  <2>2. CASE panicked' = [panicked EXCEPT ![u] = TRUE] /\ q = "finish"
    BY <1>2, <2>2 DEF Straight, Late, Types
  <2> QED BY <1>2, <2>1, <2>2
<1>5. Waits(u)'
  <2>1. call'[u].kind = "none"
    BY <1>1, NoCallType DEF Types
  <2> QED BY <2>1 DEF Waits
<1> QED BY <1>3, <1>4, <1>5 DEF UnitOK

LEMMA ReportKeeps ==
  ASSUME Types, NEW u \in Made, UnitOK(u), Report(u)
  PROVE  Only(u) /\ UnitOK(u)'
<1>1. /\ Only(u) /\ UNCHANGED <<pc, volume, panicked, configured>>
      /\ pc[u] \in DOMAIN Reports /\ ~NothingToSend(u)
      /\ call'[u].kind = Reports[pc[u]].kind /\ call'[u].arg = Reports[pc[u]].arg
  BY ReportStep
<1>2. mode' = mode
  BY <1>1 DEF Only
<1>3. Straight(u)'
  BY <1>1, <1>2 DEF UnitOK, Straight, Built
<1>4. Waits(u)'
  BY <1>1, <1>2, ReportKinds DEF Waits, NothingToSend
<1> QED BY <1>1, <1>3, <1>4 DEF UnitOK

(* A step without a report or a change of the volume.                       *)
LEMMA PlainKeeps ==
  ASSUME Types, NEW u \in Made, UnitOK(u), NEW p, Goto(u, p), Onward(pc[u], p),
         UNCHANGED <<serverVars, mode, volume, configured, panicked>>,
         pc[u] \notin DOMAIN Reports \/ pc[u] = "creds"
  PROVE  Only(u) /\ UnitOK(u)'
<1>1. Only(u) /\ pc'[u] = p /\ call' = call
  BY QuietStep
<1>2. Straight(u)'
  BY <1>1, OnwardKeeps DEF UnitOK
<1>3. Waits(u)'
  BY <1>1, ReportKinds DEF Waits, UnitOK
<1> QED BY <1>1, <1>2, <1>3 DEF UnitOK

(* The steps that change the volume: what they add is what the places after *)
(* them ask for.                                                            *)
LEMMA DoesKeeps ==
  ASSUME Types, NEW u \in Made, UnitOK(u), NEW step, NEW new, Does(u, step, new),
         \/ /\ step \in {"network", "data", "validate", "time", "mfg", "checks"}
            /\ new = volume[u]
         \/ step = "recovery" /\ new = [Blank EXCEPT !.wiped = volume[u].wiped]
         \/ step = "storage"  /\ new = [volume[u] EXCEPT !.creds = TRUE]
         \/ step = "frconfig" /\ new = [volume[u] EXCEPT !.frdata = TRUE]
         \/ step = "wipe" /\ \E w \in BOOLEAN : new = [volume[u] EXCEPT !.wiped = w]
  PROVE  Only(u) /\ UnitOK(u)'
<1>1. /\ pc[u] = step /\ volume' = [volume EXCEPT ![u] = new] /\ Goto(u, After(step))
      /\ UNCHANGED <<serverVars, mode, configured, panicked>>
  BY DEF Does, Advance
<1>2. new \in VolumeType /\ volume[u] \in VolumeType
  <2>1. volume[u] \in VolumeType
    BY DEF Types
  <2>2. \A v \in VolumeType : [Blank EXCEPT !.wiped = v.wiped] \in VolumeType
    BY DEF Blank, VolumeType
  <2>3. \A v \in VolumeType : /\ [v EXCEPT !.creds = TRUE] \in VolumeType
                             /\ [v EXCEPT !.frdata = TRUE] \in VolumeType
                             /\ \A w \in BOOLEAN : [v EXCEPT !.wiped = w] \in VolumeType
    BY DEF VolumeType
  <2> QED BY <2>1, <2>2, <2>3
<1>3. Only(u) /\ pc'[u] = After(step) /\ call' = call /\ volume'[u] = new
  BY <1>1, <1>2, QuietStep DEF Types
<1>4. panicked[u] = TRUE => FALSE
  BY <1>1 DEF UnitOK, Straight, Late
<1>5. configured[u] = FALSE => FALSE
  BY <1>1, <1>4 DEF UnitOK, Straight, GivenUp
<1>6. Built(u)
  BY <1>4 DEF UnitOK, Straight, Types
<1>7. Built(u)'
  <2> USE DEF Built, WithCreds, WithData, Verified
  <2>1. CASE step \in {"network", "data", "validate", "time", "mfg", "recovery"}
    BY <1>3, <2>1, StepOrder
  <2>2. CASE step = "checks" /\ new = volume[u]
    BY <1>1, <1>3, <1>6, <2>2, StepOrder
  <2>3. CASE step = "storage" /\ new = [volume[u] EXCEPT !.creds = TRUE]
    BY <1>2, <1>3, <2>3, StepOrder DEF VolumeType
  <2>4. CASE step = "frconfig" /\ new = [volume[u] EXCEPT !.frdata = TRUE]
    BY <1>1, <1>2, <1>3, <1>6, <2>4, StepOrder DEF VolumeType
  <2>5. CASE step = "wipe" /\ \E w \in BOOLEAN : new = [volume[u] EXCEPT !.wiped = w]
    BY <1>1, <1>2, <1>3, <1>6, <2>5, StepOrder DEF VolumeType
  <2> QED BY <2>1, <2>2, <2>3, <2>4, <2>5
<1>8. Straight(u)'
  BY <1>1, <1>4, <1>5, <1>7 DEF Straight, Types
<1>9. Waits(u)'
  BY <1>1, <1>3 DEF Waits, UnitOK
<1> QED BY <1>3, <1>8, <1>9 DEF UnitOK

(* A phase of config steps: what went wrong is told, and told ends the run  *)
(* or was not asked for (manuf.go:137-245, stash.go:61, 70).                *)
LEMMA ConfigStepKeeps ==
  ASSUME Types, NEW u \in Made, UnitOK(u), ConfigStep(u)
  PROVE  Only(u) /\ UnitOK(u)'
<1>1. /\ pc[u] \in ConfigPhases /\ pc[u] \notin DOMAIN Reports
      /\ UNCHANGED <<serverVars, mode, volume>>
  BY ReportKinds DEF ConfigStep, ConfigPhases
<1>2. panicked[u] = FALSE /\ configured[u] = TRUE /\ Built(u)
  BY <1>1 DEF ConfigPhases, UnitOK, Straight, Late, GivenUp, Types
<1>3. PICK outcome \in (IF pc[u] \in Unchecked THEN PasswordOutcomes ELSE PlainOutcomes) :
        /\ configured' = [configured EXCEPT ![u] = @ /\ (outcome.good \/ pc[u] \in Unchecked)]
        /\ IF outcome.result = "panic" THEN Panic(u)
           ELSE /\ UNCHANGED panicked
                /\ IF outcome.result = "error" /\ pc[u] \notin Unchecked
                   THEN Goto(u, "failed") ELSE Advance(u)
  BY DEF ConfigStep
<1>4. PICK c \in BOOLEAN : /\ configured' = [configured EXCEPT ![u] = c]
                           /\ c = FALSE => pc[u] \notin Unchecked /\ ~outcome.good
  <2> DEFINE c == configured[u] /\ (outcome.good \/ pc[u] \in Unchecked)
  <2>1. c \in BOOLEAN /\ configured' = [configured EXCEPT ![u] = c]
    BY <1>3, Zenon
  <2>2. c = FALSE => pc[u] \notin Unchecked /\ ~outcome.good
    BY <1>2
  <2> QED BY <2>1, <2>2
<1>5. c = FALSE => outcome.result \in {"error", "panic"}
  BY <1>3, <1>4, OutcomesAreTold
<1>6. CASE outcome.result = "panic"
  <2>1. Goto(u, "finish") /\ panicked' = [panicked EXCEPT ![u] = TRUE]
    BY <1>3, <1>6 DEF Panic
  <2>2. Only(u) /\ pc'[u] = "finish" /\ call' = call
    BY <1>1, <1>4, <2>1, QuietStep
  <2>3. Straight(u)'
    BY <2>1, <2>2 DEF Straight, Late, Types
  <2>4. Waits(u)'
    BY <1>1, <2>2 DEF Waits, UnitOK, ConfigPhases
  <2> QED BY <2>2, <2>3, <2>4 DEF UnitOK
<1>7. CASE outcome.result # "panic" /\ outcome.result = "error" /\ pc[u] \notin Unchecked
  <2>1. Goto(u, "failed") /\ UNCHANGED panicked
    BY <1>3, <1>7
  <2>2. Only(u) /\ pc'[u] = "failed" /\ call' = call
    BY <1>1, <1>4, <2>1, QuietStep
  <2>3. Straight(u)'
    BY <1>2, <2>1, <2>2
       DEF Straight, Built, WithCreds, WithData, Verified, GivenUp
  <2>4. Waits(u)'
    BY <1>1, <2>2 DEF Waits, UnitOK, ConfigPhases
  <2> QED BY <2>2, <2>3, <2>4 DEF UnitOK
<1>8. CASE /\ outcome.result # "panic"
           /\ ~(outcome.result = "error" /\ pc[u] \notin Unchecked)
  <2>1. Goto(u, After(pc[u])) /\ UNCHANGED panicked /\ c = TRUE
    BY <1>3, <1>4, <1>5, <1>8 DEF Advance
  <2>2. Only(u) /\ pc'[u] = After(pc[u]) /\ call' = call /\ configured'[u] = TRUE
    BY <1>1, <1>4, <2>1, QuietStep DEF Types
  <2>3. Onward(pc[u], After(pc[u]))
    BY <1>1, StepOrder DEF ConfigPhases, Onward, WithCreds, WithData, Verified, Late,
       GivenUp
  <2>4. Straight(u)'
    BY <1>1, <1>2, <2>1, <2>2, <2>3, OnwardKeeps DEF UnitOK
  <2>5. Waits(u)'
    BY <1>1, <2>2 DEF Waits, UnitOK, ConfigPhases
  <2> QED BY <2>2, <2>4, <2>5 DEF UnitOK
<1> QED BY <1>6, <1>7, <1>8

(* The copy of the image is on the volume; verify lets it pass only if it   *)
(* is good (manuf.go:250-297, verify of the QA document).                   *)
LEMMA FinalizeKeeps ==
  ASSUME Types, NEW u \in Made, UnitOK(u), Finalize(u)
  PROVE  Only(u) /\ UnitOK(u)'
<1>1. PICK written \in {"good", "damaged"} : volume' = [volume EXCEPT ![u].image = written]
  BY DEF Finalize
<1>2. /\ pc[u] = "files" /\ Goto(u, "afterImaging")
      /\ UNCHANGED <<serverVars, mode, configured, panicked>>
  BY StepOrder DEF Finalize, Writing, Advance
<1>3. [volume[u] EXCEPT !.image = written] \in VolumeType
  BY DEF Types, VolumeType
<1>4. Only(u) /\ pc'[u] = "afterImaging" /\ call' = call
  BY <1>1, <1>2, <1>3, QuietStep
<1>5. Straight(u)'
  BY <1>2, <1>4 DEF UnitOK, Straight, Built, WithCreds, WithData, Verified, Late, GivenUp,
     Types
<1>6. Waits(u)'
  BY <1>2, <1>4 DEF UnitOK, Waits
<1> QED BY <1>4, <1>5, <1>6 DEF UnitOK

LEMMA VerifyImageKeeps ==
  ASSUME Types, NEW u \in Made, UnitOK(u), VerifyImage(u)
  PROVE  Only(u) /\ UnitOK(u)'
<1>1. /\ pc[u] = "verify" /\ UNCHANGED <<serverVars, mode, volume, configured, panicked>>
      /\ \/ Goto(u, "failed")
         \/ Goto(u, "doc") /\ (mode[u] # "altered" => volume[u].image = "good")
  BY StepOrder DEF VerifyImage, Advance
<1>2. CASE Goto(u, "failed")
  <2>1. Onward(pc[u], "failed") /\ pc[u] \notin DOMAIN Reports
    BY <1>1, ReportKinds
       DEF Onward, WithCreds, WithData, Verified, Late, GivenUp
  <2> QED BY <1>1, <1>2, <2>1, PlainKeeps
<1>3. CASE Goto(u, "doc") /\ (mode[u] # "altered" => volume[u].image = "good")
  <2>1. Only(u) /\ pc'[u] = "doc" /\ call' = call
    BY <1>1, <1>3, QuietStep
  <2>2. Straight(u)'
    BY <1>1, <1>3, <2>1
       DEF UnitOK, Straight, Built, WithCreds, WithData, Late, GivenUp, Types
  <2>3. Waits(u)'
    BY <1>1, <2>1 DEF UnitOK, Waits
  <2> QED BY <2>1, <2>2, <2>3 DEF UnitOK
<1> QED BY <1>1, <1>2, <1>3

(* What goes on or gives up without a report.                               *)
LEMMA OtherStepsKeep ==
  ASSUME Types, NEW u \in Made, UnitOK(u),
         Fatalf(u) \/ SkipFiles(u) \/ GetFails(u) \/ Link(u) \/ Reboot(u) \/ Restore(u)
  PROVE  Only(u) /\ UnitOK(u)'
<1> USE DEF Onward, WithCreds, WithData, Verified, Late, GivenUp
<1>0. MayFail \cap DOMAIN Reports = {}
  BY ReportKinds DEF MayFail
<1>1. \/ \E p : /\ Goto(u, p) /\ Onward(pc[u], p)
                /\ UNCHANGED <<serverVars, mode, volume, configured, panicked>>
                /\ pc[u] \notin DOMAIN Reports \/ pc[u] = "creds"
      \/ UNCHANGED <<serverVars, pc, mode, volume, configured, panicked>>
  <2>1. CASE Fatalf(u)
    BY <1>0, <2>1 DEF Fatalf, MayFail
  <2>2. CASE SkipFiles(u)
    BY <2>2, ReportKinds, StepOrder DEF SkipFiles, Advance
  <2>3. CASE GetFails(u)
    BY <2>3, ReportKinds DEF GetFails, Writing
  <2>4. CASE Link(u)
    BY <2>4, ReportKinds, StepOrder DEF Link, Advance
  <2>5. CASE Reboot(u)
    BY <2>5, ReportKinds, StepOrder DEF Reboot, Advance
  <2>6. CASE Restore(u)
    BY <2>6, ReportKinds, StepOrder DEF Restore, Advance
  <2> QED BY <2>1, <2>2, <2>3, <2>4, <2>5, <2>6
<1>2. CASE UNCHANGED <<serverVars, pc, mode, volume, configured, panicked>>
  BY <1>2 DEF Only, Types, Same, UnitOK, Straight, Built, Waits, serverVars
<1> HIDE DEF Onward
<1> QED BY <1>1, <1>2, PlainKeeps

LEMMA RunAgainKeeps ==
  ASSUME Types, NEW u \in Made, UnitOK(u), RunAgain(u)
  PROVE  Only(u) /\ UnitOK(u)'
<1>1. /\ pc[u] = "off" /\ panicked[u] = FALSE /\ Goto(u, "network")
      /\ configured' = [configured EXCEPT ![u] = TRUE]
      /\ UNCHANGED <<serverVars, mode, volume, panicked>>
  BY DEF RunAgain, Types
<1>2. Only(u) /\ pc'[u] = "network" /\ call' = call
  BY <1>1, QuietStep
<1>3. Straight(u)'
  BY <1>1, <1>2 DEF Straight, Built, WithCreds, WithData, Verified, Types
<1>4. Waits(u)'
  BY <1>1, <1>2 DEF UnitOK, Waits
<1> QED BY <1>2, <1>3, <1>4 DEF UnitOK

LEMMA UnitStepKeeps ==
  ASSUME Types, NEW u \in Made, UnitOK(u), UnitStep(u) \/ RunAgain(u)
  PROVE  Only(u) /\ UnitOK(u)'
<1>1. CASE Report(u) \/ SkipReport(u) \/ Answered(u)
  BY <1>1, ReportKeeps, SkipReportKeeps, AnsweredKeeps
<1>2. CASE Fatalf(u) \/ SkipFiles(u) \/ GetFails(u) \/ Link(u) \/ Reboot(u) \/ Restore(u)
  BY <1>2, OtherStepsKeep
<1>3. CASE ConfigStep(u) \/ Finalize(u) \/ VerifyImage(u) \/ RunAgain(u)
  BY <1>3, ConfigStepKeeps, FinalizeKeeps, VerifyImageKeeps, RunAgainKeeps
<1>4. CASE \/ EnableNetworking(u) \/ Parse(u) \/ Validate(u) \/ SetTimeFromServer(u)
           \/ StashMfg(u) \/ CheckVolume(u)
  BY <1>4, DoesKeeps
     DEF EnableNetworking, Parse, Validate, SetTimeFromServer, StashMfg, CheckVolume
<1>5. CASE CreateRecovery(u) \/ WriteCredentials(u) \/ FRConfig(u)
  BY <1>5, DoesKeeps DEF CreateRecovery, WriteCredentials, FRConfig
<1>6. CASE WipeDisks(u)
  <2>1. PICK done \in BOOLEAN :
          Does(u, "wipe", [volume[u] EXCEPT !.wiped = volume[u].wiped \/ done])
    BY <1>6 DEF WipeDisks, Types, VolumeType
  <2>2. (volume[u].wiped \/ done) \in BOOLEAN
    BY Zenon
  <2> QED BY <2>1, <2>2, DoesKeeps
<1> QED BY <1>1, <1>2, <1>3, <1>4, <1>5, <1>6 DEF UnitStep

-----------------------------------------------------------------------------
(* The server and the other units. *)

(* The server moves a call on or lets it fail, and changes nothing of it.   *)
LEMMA ServerKeepsCalls ==
  ASSUME Types, ServerStep
  PROVE  /\ call' \in [Units -> CallType]
         /\ \A u \in Units : call'[u].kind = call[u].kind /\ call'[u].arg = call[u].arg
<1>1. CASE UNCHANGED call
  BY <1>1 DEF Types
<1>2. CASE \E u \in Units : \E place \in {"list", "event", "done", "failed"} : Go(u, place)
  BY <1>2 DEF Types, Go, CallType
<1>3. CASE Restart
  <2>1. call' = [u \in Units |-> IF call[u] = NoCall THEN NoCall
                                 ELSE [call[u] EXCEPT !.at = "failed"]]
    BY <1>3 DEF Restart
  <2>2. \A u \in Units : call[u] \in CallType
    BY DEF Types
  <2> QED BY <2>1, <2>2, NoCallType DEF CallType
<1>4. UNCHANGED call \/ Restart
        \/ \E u \in Units : \E place \in {"list", "event", "done", "failed"} : Go(u, place)
  <2>1. ASSUME NEW u \in Units, Handler(u)
        PROVE  \E place \in {"list", "event", "done", "failed"} : Go(u, place)
    BY <2>1 DEF Handler, StoreEvent, StoreFails, EnterActivity, PrintDocument,
       ReceiveDocument, LogDocument
  <2>2. ASSUME NEW u \in Units, Release(u)
        PROVE  UNCHANGED call
    BY <2>2 DEF Release
  <2>3. AddDocument \/ PatrolNow \/ Tick => UNCHANGED call
    BY DEF AddDocument, PatrolNow, Tick
  <2> QED BY <2>1, <2>2, <2>3 DEF ServerStep
<1> QED BY <1>1, <1>2, <1>3, <1>4

LEMMA OthersKeep ==
  ASSUME Types, NEW v \in Units \ Made, OtherReports(v)
  PROVE  Types' /\ \A u \in Made : Same(u)
<1>1. /\ UNCHANGED unitVars
      /\ Call(v, "state", "FR_STARTED") \/ Call(v, "doc", NoStage) \/ Return(v)
  BY DEF OtherReports
<1>2. \E c \in CallType : call' = [call EXCEPT ![v] = c]
  <2>1. CASE Call(v, "state", "FR_STARTED")
    <3>1. [kind |-> "state", arg |-> "FR_STARTED", at |-> Entrance("state")] \in CallType
      BY DEF CallType, Kinds, Stages, Entrance
    <3> QED BY <2>1, <3>1 DEF Call
  <2>2. CASE Call(v, "doc", NoStage)
    <3>1. [kind |-> "doc", arg |-> NoStage, at |-> Entrance("doc")] \in CallType
      BY DEF CallType, Kinds, Entrance
    <3> QED BY <2>2, <3>1 DEF Call
  <2>3. CASE Return(v)
    BY <2>3, NoCallType DEF Return
  <2> QED BY <1>1, <2>1, <2>2, <2>3
<1>3. call' \in [Units -> CallType] /\ \A u \in Made : call'[u] = call[u]
  BY <1>2, FactoryAssumption DEF Types
<1> QED BY <1>1, <1>3 DEF Types, Same, unitVars

LEMMA FactoryStep ==
  ASSUME IInv, [Next]_vars
  PROVE  IInv'
<1>1. CASE \E u \in Made : UnitStep(u) \/ RunAgain(u)
  <2>1. PICK u \in Made : UnitStep(u) \/ RunAgain(u)
    BY <1>1
  <2>2. Only(u) /\ UnitOK(u)'
    BY <2>1, UnitStepKeeps DEF IInv
  <2>3. ASSUME NEW v \in Made PROVE UnitOK(v)'
    <3>1. CASE v = u
      BY <2>2, <3>1
    <3>2. CASE v # u
      BY <2>2, <3>2, SameKeeps DEF Only, IInv
    <3> QED BY <3>1, <3>2
  <2> QED BY <2>2, <2>3 DEF IInv, Only
<1>2. CASE \E v \in Units \ Made : OtherReports(v)
  BY <1>2, OthersKeep, SameKeeps DEF IInv
<1>3. CASE ServerStep /\ UNCHANGED unitVars
  <2>1. Types'
    BY <1>3, ServerKeepsCalls DEF IInv, Types, unitVars
  <2>2. \A u \in Made : Same(u)
    BY <1>3, ServerKeepsCalls, FactoryAssumption DEF IInv, Same, unitVars
  <2> QED BY <2>1, <2>2, SameKeeps DEF IInv
<1>4. CASE UNCHANGED vars
  <2>1. Types' /\ \A u \in Made : Same(u)
    BY <1>4 DEF vars, serverVars, unitVars, IInv, Types, Same
  <2> QED BY <2>1, SameKeeps DEF IInv
<1> QED BY <1>1, <1>2, <1>3, <1>4 DEF Next

LEMMA FactoryInvariant == Spec => []IInv
<1>1. ASSUME Init PROVE IInv
  <2>1. Types
    BY <1>1, NoCallType DEF Init, ServerInit, Types, Blank, VolumeType
  <2>2. ASSUME NEW u \in Made PROVE UnitOK(u)
    <3>1. /\ pc[u] = "network" /\ panicked[u] = FALSE /\ configured[u] = TRUE
          /\ call[u] = NoCall
      BY <1>1, FactoryAssumption DEF Init, ServerInit
    <3> QED
      BY <3>1, NoCallType
         DEF UnitOK, Straight, Built, Waits, WithCreds, WithData, Verified
  <2> QED BY <2>1, <2>2 DEF IInv
<1>2. IInv /\ [Next]_vars => IInv'
  BY FactoryStep
<1> QED BY <1>1, <1>2, PTL DEF Spec

(* For any number of units and server errors: a unit that reports success,  *)
(* or has and restarts, has image, credentials and options on its volume,   *)
(* and its config steps did what they must, unless a panic or a flag cut    *)
(* the run short (manuf.go:137-297).  Nothing is said of its main disks,    *)
(* which need not be wiped.                                                 *)
THEOREM FinishedIsReady == Spec => []FinishedMeansReady
<1>1. ASSUME IInv PROVE FinishedMeansReady
  <2> SUFFICES ASSUME NEW u \in Made, Finished(u), ~panicked[u], mode[u] # "altered"
               PROVE  /\ configured[u]
                      /\ volume[u].image = "good" /\ volume[u].creds /\ volume[u].frdata
    BY DEF FinishedMeansReady
  <2>1. UnitOK(u) /\ panicked[u] = FALSE
    BY <1>1 DEF IInv, Types
  <2>2. pc[u] \in {"finish", "preboot", "frStart", "restore"}
    BY <2>1 DEF Finished, UnitOK, Waits
  <2>3. configured[u] = TRUE
    BY <1>1, <2>1, <2>2 DEF IInv, Types, UnitOK, Straight, GivenUp
  <2>4. /\ volume[u].image = "good" /\ volume[u].creds = TRUE
        /\ volume[u].frdata = TRUE
    BY <2>1, <2>2 DEF UnitOK, Straight, Built, WithCreds, WithData, Verified
  <2> QED BY <2>3, <2>4
<1> QED BY <1>1, FactoryInvariant, PTL

(* For any number of units and server errors: a document is only on its way *)
(* for an image that was read back from the recovery volume, in a run       *)
(* without flags and without a panic (manuf.go:290, printQA).               *)
THEOREM DocIsVerified == Spec => []DocMeansVerified
<1>1. ASSUME IInv PROVE DocMeansVerified
  <2> SUFFICES ASSUME NEW u \in Made, call[u].kind = "doc"
               PROVE  volume[u].image = "good" /\ mode[u] = "normal" /\ ~panicked[u]
    BY DEF DocMeansVerified
  <2>1. pc[u] = "doc" /\ mode[u] = "normal" /\ Straight(u)
    BY <1>1 DEF IInv, UnitOK, Waits
  <2>2. panicked[u] = FALSE
    BY <1>1, <2>1 DEF IInv, Types, Straight, Late
  <2> QED BY <2>1, <2>2 DEF Straight, Built, Verified
<1> QED BY <1>1, FactoryInvariant, PTL

-----------------------------------------------------------------------------
(* The log server: its list of recent activity. *)

EntryType == [sn : Units, state : Stages \cup {NoStage}]

Single(entries) == \A i, j \in DOMAIN entries : entries[i].sn = entries[j].sn => i = j

(* What becomes of the list when the entry of u is put first: no other is   *)
(* changed, and none is left out.                                           *)
Fronted(full, entries, u) ==
  /\ full \in Seq(EntryType) /\ full # <<>> /\ full[1].sn = u /\ Single(full)
  /\ \A k \in DOMAIN full :
       k # 1 => \E j \in DOMAIN entries : full[k] = entries[j] /\ entries[j].sn # u
  /\ IF Listed(entries, u) = {} THEN full[1].state = NoStage
     ELSE \E j \in DOMAIN entries : full[1] = entries[j]
  /\ \A j \in DOMAIN entries : \E k \in DOMAIN full : full[k].sn = entries[j].sn

LEMMA Entries ==
  ASSUME NEW entries \in Seq(EntryType), NEW i \in DOMAIN entries
  PROVE  /\ entries[i].sn \in Units /\ entries[i].state \in Stages \cup {NoStage}
         /\ entries[i] = [sn |-> entries[i].sn, state |-> entries[i].state]
<1>1. entries[i] \in EntryType
  OBVIOUS
<1> QED BY <1>1 DEF EntryType

LEMMA FrontedNew ==
  ASSUME NEW entries \in Seq(EntryType), Single(entries), NEW u \in Units,
         Listed(entries, u) = {}
  PROVE  /\ Fronted(<<[sn |-> u, state |-> NoStage]>> \o entries, entries, u)
         /\ Len(<<[sn |-> u, state |-> NoStage]>> \o entries) = Len(entries) + 1
<1> DEFINE x == [sn |-> u, state |-> NoStage]
           full == <<x>> \o entries
<1>1. x \in EntryType /\ x.sn = u /\ x.state = NoStage
  BY DEF EntryType
<1> HIDE DEF x
<1>2. /\ full \in Seq(EntryType) /\ Len(full) = Len(entries) + 1 /\ full[1] = x
      /\ \A k \in 2 .. Len(entries) + 1 : full[k] = entries[k - 1]
  BY <1>1
<1>3. \A j \in DOMAIN entries : entries[j].sn # u
  BY DEF Listed
<1> HIDE DEF full
<1>4. DOMAIN full = 1 .. Len(entries) + 1 /\ DOMAIN entries = 1 .. Len(entries) /\ Len(entries) \in Nat
  BY <1>2
<1>5. \A k \in DOMAIN full :
        k # 1 => k - 1 \in DOMAIN entries /\ full[k] = entries[k - 1] /\ entries[k - 1].sn # u
  <2> TAKE k \in DOMAIN full
  <2> HAVE k # 1
  <2>1. k \in 2 .. Len(entries) + 1 /\ k - 1 \in DOMAIN entries
    BY <1>4
  <2> QED BY <1>2, <1>3, <2>1
<1>6. Single(full)
  <2> SUFFICES ASSUME NEW i \in DOMAIN full, NEW j \in DOMAIN full, full[i].sn = full[j].sn
               PROVE  i = j
    BY DEF Single
  <2>1. CASE i = 1 /\ j # 1
    BY <1>1, <1>2, <1>5, <2>1
  <2>2. CASE j = 1 /\ i # 1
    BY <1>1, <1>2, <1>5, <2>2
  <2>3. CASE i # 1 /\ j # 1
    <3>1. i - 1 = j - 1
      BY <1>5, <2>3 DEF Single
    <3> QED BY <1>4, <3>1
  <2> QED BY <2>1, <2>2, <2>3
<1>7. \A j \in DOMAIN entries : j + 1 \in DOMAIN full /\ full[j + 1] = entries[j]
  <2> TAKE j \in DOMAIN entries
  <2>1. j + 1 \in 2 .. Len(entries) + 1 /\ (j + 1) - 1 = j
    BY <1>4
  <2> QED BY <1>2, <1>4, <2>1
<1>8. full # <<>>
  BY <1>4
<1>9. Fronted(full, entries, u)
  BY <1>1, <1>2, <1>5, <1>6, <1>7, <1>8 DEF Fronted
<1> QED BY <1>2, <1>9 DEF full, x

LEMMA FrontedMoved ==
  ASSUME NEW entries \in Seq(EntryType), Single(entries), NEW u \in Units,
         NEW i \in Listed(entries, u)
  PROVE  /\ Fronted(<<entries[i]>> \o RemoveAt(entries, i), entries, u)
         /\ Len(<<entries[i]>> \o RemoveAt(entries, i)) = Len(entries)
<1> DEFINE n == Len(entries)
           rest == RemoveAt(entries, i)
           full == <<entries[i]>> \o rest
<1>1. /\ n \in Nat /\ i \in 1 .. n /\ DOMAIN entries = 1 .. n /\ entries[i].sn = u
      /\ entries[i] \in EntryType
  BY DEF Listed
<1> HIDE DEF n, rest, full
<1>2. /\ rest \in Seq(EntryType) /\ Len(rest) = n - 1
      /\ \A k \in 1 .. n - 1 : rest[k] = entries[IF k < i THEN k ELSE k + 1]
  <2> DEFINE a == SubSeq(entries, 1, i - 1)
             b == SubSeq(entries, i + 1, n)
  <2>1. /\ a \in Seq(EntryType) /\ Len(a) = i - 1
        /\ \A k \in 1 .. i - 1 : a[k] = entries[k]
    BY <1>1, SubSeqProperties
  <2>2. /\ b \in Seq(EntryType) /\ Len(b) = n - i
        /\ \A k \in 1 .. n - i : b[k] = entries[i + k]
    BY <1>1, SubSeqProperties
  <2>3. rest = a \o b
    BY DEF RemoveAt, rest, n
  <2> HIDE DEF a, b
  <2>4. /\ rest \in Seq(EntryType) /\ Len(rest) = n - 1
        /\ \A k \in 1 .. n - 1 : rest[k] = IF k <= i - 1 THEN a[k] ELSE b[k - (i - 1)]
    <3>1. /\ a \o b \in Seq(EntryType) /\ Len(a \o b) = Len(a) + Len(b)
          /\ \A k \in 1 .. Len(a) + Len(b) :
               (a \o b)[k] = IF k <= Len(a) THEN a[k] ELSE b[k - Len(a)]
      BY <2>1, <2>2, ConcatProperties, Zenon
    <3>2. Len(a) = i - 1 /\ Len(b) = n - i /\ (i - 1) + (n - i) = n - 1
      BY <1>1, <2>1, <2>2
    <3> QED BY <2>3, <3>1, <3>2
  <2>5. ASSUME NEW k \in 1 .. n - 1
        PROVE  rest[k] = entries[IF k < i THEN k ELSE k + 1]
    <3>1. CASE k < i
      BY <1>1, <2>1, <2>4, <3>1
    <3>2. CASE ~(k < i)
      <4>1. k - (i - 1) \in 1 .. n - i /\ i + (k - (i - 1)) = k + 1
        BY <1>1, <3>2
      <4> QED BY <1>1, <2>2, <2>4, <3>2, <4>1
    <3> QED BY <3>1, <3>2
  <2> QED BY <2>4, <2>5
<1>3. /\ full \in Seq(EntryType) /\ Len(full) = n /\ full[1] = entries[i]
      /\ \A k \in 2 .. n : full[k] = rest[k - 1]
  BY <1>1, <1>2 DEF full
<1> DEFINE from(k) == IF k = 1 THEN i ELSE IF k <= i THEN k - 1 ELSE k
<1>4. \A k \in 1 .. n : from(k) \in 1 .. n /\ full[k] = entries[from(k)]
                        /\ (k # 1 => from(k) # i)
  <2> TAKE k \in 1 .. n
  <2>1. CASE k = 1
    BY <1>1, <1>3, <2>1
  <2>2. CASE k # 1
    <3>1. k \in 2 .. n /\ k - 1 \in 1 .. n - 1
      BY <1>1, <2>2
    <3>2. full[k] = entries[IF k - 1 < i THEN k - 1 ELSE (k - 1) + 1]
      BY <1>2, <1>3, <3>1
    <3> QED BY <1>1, <2>2, <3>1, <3>2
  <2> QED BY <2>1, <2>2
<1>5. \A j, k \in 1 .. n : from(j) = from(k) => j = k
  BY <1>1
<1>6. \A j \in 1 .. n : \E k \in 1 .. n : from(k) = j
  <2> TAKE j \in 1 .. n
  <2>1. CASE j = i
    BY <1>1, <2>1
  <2>2. CASE j < i
    <3>1. j + 1 \in 1 .. n /\ from(j + 1) = j
      BY <1>1, <2>2
    <3> QED BY <3>1
  <2>3. CASE j > i
    BY <1>1, <2>3
  <2> QED BY <1>1, <2>1, <2>2, <2>3
<1> HIDE DEF from
<1>7. DOMAIN full = 1 .. n /\ full # <<>>
  BY <1>1, <1>3
<1>8. Single(full)
  <2> SUFFICES ASSUME NEW j \in 1 .. n, NEW k \in 1 .. n, full[j].sn = full[k].sn
               PROVE  j = k
    BY <1>7 DEF Single
  <2>1. entries[from(j)].sn = entries[from(k)].sn
    BY <1>4
  <2>2. from(j) = from(k)
    BY <1>1, <1>4, <2>1 DEF Single
  <2> QED BY <1>5, <2>2
<1>9. \A k \in DOMAIN full :
        k # 1 => \E j \in DOMAIN entries : full[k] = entries[j] /\ entries[j].sn # u
  BY <1>1, <1>4, <1>7 DEF Single
<1>10. \A j \in DOMAIN entries : \E k \in DOMAIN full : full[k].sn = entries[j].sn
  BY <1>1, <1>4, <1>6, <1>7
<1>11. Fronted(full, entries, u)
  BY <1>1, <1>3, <1>7, <1>8, <1>9, <1>10 DEF Fronted
<1> QED BY <1>3, <1>11 DEF full, rest, n

(* getent (history.go:50): the entry of u comes first, the others stay, but *)
(* for what is cut off at the end.                                          *)
LEMMA GetentFronts ==
  ASSUME NEW entries \in Seq(EntryType), Single(entries), Len(entries) <= MaxHistory,
         NEW u \in Units
  PROVE  LET r == Getent(entries, u) IN
         /\ r \in Seq(EntryType) /\ r # <<>> /\ Len(r) <= MaxHistory /\ Single(r)
         /\ r[1].sn = u
         /\ \A k \in DOMAIN r :
              k # 1 => \E j \in DOMAIN entries : r[k] = entries[j] /\ entries[j].sn # u
         /\ IF Listed(entries, u) = {} THEN r[1].state = NoStage
            ELSE \E j \in DOMAIN entries : r[1] = entries[j]
         /\ Listed(entries, u) # {} \/ Len(entries) < MaxHistory =>
              \A j \in DOMAIN entries : \E k \in DOMAIN r : r[k].sn = entries[j].sn
<1>1. PICK full : /\ Fronted(full, entries, u) /\ Getent(entries, u) = Truncate(full)
                  /\ Len(full) = IF Listed(entries, u) = {} THEN Len(entries) + 1 ELSE Len(entries)
  <2>1. CASE Listed(entries, u) = {}
    BY <2>1, FrontedNew DEF Getent
  <2>2. CASE Listed(entries, u) # {}
    <3> DEFINE i == CHOOSE k \in Listed(entries, u) : \A j \in Listed(entries, u) : k <= j
    <3>1. i \in Listed(entries, u)
      <4>1. \E k \in Listed(entries, u) : \A j \in Listed(entries, u) : k <= j
        BY <2>2 DEF Single, Listed
      <4> QED BY <4>1
    <3>2. Getent(entries, u) = Truncate(<<entries[i]>> \o RemoveAt(entries, i))
      BY <2>2 DEF Getent
    <3> HIDE DEF i
    <3> QED BY <2>2, <3>1, <3>2, FrontedMoved
  <2> QED BY <2>1, <2>2
<1> DEFINE m == IF Len(full) < MaxHistory THEN Len(full) ELSE MaxHistory
           r == SubSeq(full, 1, m)
<1>2. /\ full \in Seq(EntryType) /\ Len(full) \in Nat /\ Len(full) >= 1
      /\ MaxHistory \in Nat \ {0} /\ Len(entries) \in Nat /\ DOMAIN full = 1 .. Len(full)
  BY <1>1, ServerAssumption DEF Fronted
<1>3. m \in 1 .. Len(full) /\ m <= MaxHistory
  BY <1>2
<1>4. /\ r \in Seq(EntryType) /\ Len(r) = m /\ DOMAIN r = 1 .. m
      /\ \A k \in 1 .. m : r[k] = full[k]
  BY <1>2, <1>3
<1>5. Getent(entries, u) = r
  BY <1>1 DEF Truncate
<1>6. Listed(entries, u) # {} \/ Len(entries) < MaxHistory => m = Len(full)
  BY <1>1, <1>2
<1> HIDE DEF m, r
<1>7. r # <<>> /\ 1 \in 1 .. m
  BY <1>2, <1>3, <1>4
<1>8. Single(r) /\ r[1] = full[1]
  <2>1. r[1] = full[1]
    BY <1>4, <1>7
  <2>2. Single(full) /\ \A k \in 1 .. m : k \in DOMAIN full
    BY <1>1, <1>2, <1>3 DEF Fronted
  <2>3. ASSUME NEW j \in 1 .. m, NEW k \in 1 .. m, r[j].sn = r[k].sn
        PROVE  j = k
    BY <1>4, <2>2, <2>3 DEF Single
  <2> QED BY <1>4, <2>1, <2>3 DEF Single
<1>9. \A k \in DOMAIN r : k \in DOMAIN full /\ r[k] = full[k]
  BY <1>2, <1>3, <1>4
<1>10. m = Len(full) => \A j \in DOMAIN entries : \E k \in DOMAIN r : r[k].sn = entries[j].sn
  BY <1>1, <1>2, <1>4 DEF Fronted
<1>11. /\ \A k \in DOMAIN r :
            k # 1 => \E j \in DOMAIN entries : r[k] = entries[j] /\ entries[j].sn # u
       /\ IF Listed(entries, u) = {} THEN r[1].state = NoStage
          ELSE \E j \in DOMAIN entries : r[1] = entries[j]
       /\ r[1].sn = u
  BY <1>1, <1>8, <1>9 DEF Fronted
<1> QED BY <1>3, <1>4, <1>5, <1>6, <1>7, <1>8, <1>10, <1>11

-----------------------------------------------------------------------------
(* The invariant of the server. *)

DocType == [sn : Units, nr : Nat, left : Nat]

ServerTypes ==
  /\ call \in [Units -> CallType] /\ stored \in [Units -> Stages \cup {NoStage}]
  /\ printed \in [Units -> Nat] /\ refused \in [Units -> Nat]
  /\ discarded \in [Units -> Nat] /\ lost \in [Units -> Nat]
  /\ manage \in Units \cup {Nobody} /\ errors \in Nat

(* While the server has not restarted and the list has room for all units,  *)
(* a unit that has reported a stage is on it.                               *)
AllListed ==
  errors = 0 /\ Cardinality(Units) <= MaxHistory =>
    \A u \in Units : stored[u] # NoStage /\ ~Reporting(u) => Listed(recent, u) # {}

ListOK ==
  /\ recent \in Seq(EntryType) /\ Len(recent) <= MaxHistory /\ Single(recent)
  /\ \A i \in DOMAIN recent : Shown(i)
  /\ \A u \in Units : Reporting(u) => stored[u] = call[u].arg
  /\ AllListed

(* Documents on hold are numbered in the order in which they came.          *)
Taken(u) == Cardinality(Held(u)) + Settled(u)
DocsOK ==
  /\ docs \subseteq DocType /\ IsFiniteSet(docs)
  /\ \A d, e \in docs : d.sn = e.sn /\ d.nr = e.nr => d = e
  /\ \A d \in docs : d.nr < Taken(d.sn)

SInv == ServerTypes /\ ListOK /\ DocsOK

-----------------------------------------------------------------------------
(* The list of recent activity. *)

(* A step that leaves the list, the logs and the reports under way alone.   *)
LEMMA ListAlone ==
  ASSUME ListOK, ServerTypes, recent' = recent, stored' = stored, errors' \in Nat,
         errors' >= errors,
         \A u \in Units : (Reporting(u))' = Reporting(u) /\ (Reporting(u) => call'[u].arg = call[u].arg)
  PROVE  ListOK'
<1>1. recent' \in Seq(EntryType) /\ Len(recent') <= MaxHistory /\ Single(recent')
  BY DEF ListOK
<1>2. \A i \in DOMAIN recent' : Shown(i)'
  <2> TAKE i \in DOMAIN recent'
  <2>1. Shown(i) /\ recent[i].sn \in Units
    BY Entries DEF ListOK
  <2> QED BY <2>1 DEF Shown, ServerTypes
<1>3. \A u \in Units : Reporting(u)' => stored'[u] = call'[u].arg
  BY DEF ListOK
<1>4. AllListed'
  BY DEF ListOK, AllListed, ServerTypes
<1> QED BY <1>1, <1>2, <1>3, <1>4 DEF ListOK

(* One call goes on; it was not a stage to be listed and is none.           *)
LEMMA CallAlone ==
  ASSUME ListOK, ServerTypes, NEW v \in Units, NEW c \in CallType,
         call' = [call EXCEPT ![v] = c], ~Reporting(v), c.at # "list",
         recent' = recent, stored' = stored, errors' \in Nat, errors' >= errors
  PROVE  ListOK'
<1>1. \A u \in Units : u # v => call'[u] = call[u]
  BY DEF ServerTypes
<1>2. call'[v] = c
  BY DEF ServerTypes
<1>3. \A u \in Units : (Reporting(u))' = Reporting(u) /\ (Reporting(u) => call'[u].arg = call[u].arg)
  BY <1>1, <1>2 DEF Reporting
<1> QED BY <1>3, ListAlone

(* addLogEvent: the stage is in the log, and the list does not show it yet. *)
LEMMA StoreEventKeepsList ==
  ASSUME ListOK, ServerTypes, NEW v \in Units, StoreEvent(v)
  PROVE  ListOK'
<1> DEFINE place == IF call[v].kind \in {"state", "codename"} THEN "list" ELSE "done"
           c == [call[v] EXCEPT !.at = place]
<1>1. /\ call[v].at = "store" /\ call[v] \in CallType
      /\ call' = [call EXCEPT ![v] = c] /\ UNCHANGED <<recent, errors>>
      /\ stored' = [stored EXCEPT ![v] = IF call[v].kind = "state" THEN call[v].arg ELSE @]
  BY DEF StoreEvent, At, Go, ServerTypes
<1>2. /\ c.kind = call[v].kind /\ c.arg = call[v].arg /\ c.at = place
  BY <1>1 DEF CallType
<1> HIDE DEF c
<1>3. CASE call[v].kind = "state"
  <2>1. call'[v] = c /\ \A u \in Units : u # v => call'[u] = call[u]
    BY <1>1 DEF ServerTypes
  <2>2. stored'[v] = call[v].arg /\ \A u \in Units : u # v => stored'[u] = stored[u]
    BY <1>1, <1>3 DEF ServerTypes
  <2>3. Reporting(v)' /\ \A u \in Units : u # v => (Reporting(u))' = Reporting(u)
    BY <1>2, <1>3, <2>1 DEF Reporting
  <2>4. \A i \in DOMAIN recent' : Shown(i)'
    <3> TAKE i \in DOMAIN recent'
    <3>1. Shown(i) /\ recent[i].sn \in Units
      BY <1>1, Entries DEF ListOK
    <3> QED BY <1>1, <2>2, <2>3, <3>1 DEF Shown
  <2>5. \A u \in Units : Reporting(u)' => stored'[u] = call'[u].arg
    BY <1>2, <2>1, <2>2, <2>3 DEF ListOK
  <2>6. AllListed'
    BY <1>1, <2>2, <2>3 DEF ListOK, AllListed
  <2> QED BY <1>1, <2>4, <2>5, <2>6 DEF ListOK
<1>4. CASE call[v].kind # "state"
  <2>1. stored' = stored
    BY <1>1, <1>4 DEF ServerTypes
  <2>2. call'[v] = c /\ \A u \in Units : u # v => call'[u] = call[u]
    BY <1>1 DEF ServerTypes
  <2>3. \A u \in Units : (Reporting(u))' = Reporting(u) /\ (Reporting(u) => call'[u].arg = call[u].arg)
    BY <1>2, <1>4, <2>2 DEF Reporting
  <2> QED BY <1>1, <2>1, <2>3, ListAlone DEF ServerTypes
<1> QED BY <1>3, <1>4

(* A list without one of the units has room for it, if it has for all.      *)
LEMMA Room ==
  ASSUME NEW entries \in Seq(EntryType), Single(entries), NEW u \in Units,
         Listed(entries, u) = {}
  PROVE  Len(entries) < Cardinality(Units)
<1> DEFINE n == Len(entries)
           f == [i \in 1 .. n |-> entries[i].sn]
<1>1. n \in Nat /\ DOMAIN entries = 1 .. n /\ \A i \in 1 .. n : entries[i].sn \in Units \ {u}
  BY Entries DEF Listed
<1>2. IsFiniteSet(Units \ {u}) /\ Cardinality(Units \ {u}) = Cardinality(Units) - 1
  BY FS_RemoveElement, ServerAssumption
<1>3. f \in Injection(1 .. n, Units \ {u})
  BY <1>1 DEF Injection, IsInjective, Single
<1>4. Cardinality(1 .. n) <= Cardinality(Units \ {u})
  BY <1>2, <1>3, FS_Injection
<1>5. Cardinality(1 .. n) = n
  BY <1>1, FS_Interval
<1>6. Cardinality(Units) \in Nat
  BY ServerAssumption, FS_CardinalityType
<1> QED BY <1>1, <1>2, <1>4, <1>5, <1>6

(* getent and the stage: the report of u is at the front (history.go:50).   *)
LEMMA EnterActivityKeepsList ==
  ASSUME ListOK, ServerTypes, NEW v \in Units, EnterActivity(v)
  PROVE  ListOK'
<1> DEFINE moved == Getent(recent, v)
           c == [call[v] EXCEPT !.at = "done"]
<1>1. /\ call[v].at = "list" /\ call[v] \in CallType
      /\ call' = [call EXCEPT ![v] = c] /\ UNCHANGED <<stored, errors>>
      /\ recent' = IF call[v].kind = "state" THEN [moved EXCEPT ![1].state = call[v].arg] ELSE moved
  BY DEF EnterActivity, At, Go, ServerTypes
<1>2. c \in CallType /\ c.kind = call[v].kind /\ c.arg = call[v].arg /\ c.at = "done"
  BY <1>1 DEF CallType
<1>3. /\ moved \in Seq(EntryType) /\ moved # <<>> /\ Len(moved) <= MaxHistory /\ Single(moved)
      /\ moved[1].sn = v
      /\ \A k \in DOMAIN moved :
           k # 1 => \E j \in DOMAIN recent : moved[k] = recent[j] /\ recent[j].sn # v
      /\ IF Listed(recent, v) = {} THEN moved[1].state = NoStage
         ELSE \E j \in DOMAIN recent : moved[1] = recent[j]
      /\ Listed(recent, v) # {} \/ Len(recent) < MaxHistory =>
           \A j \in DOMAIN recent : \E k \in DOMAIN moved : moved[k].sn = recent[j].sn
  BY GetentFronts DEF ListOK
<1> HIDE DEF c, moved
<1>4. call'[v] = c /\ \A u \in Units : u # v => call'[u] = call[u]
  BY <1>1 DEF ServerTypes
<1>5. ~(Reporting(v))' /\ \A u \in Units : u # v => (Reporting(u))' = Reporting(u)
  BY <1>2, <1>4 DEF Reporting
<1>6. /\ Len(moved) \in Nat /\ DOMAIN moved = 1 .. Len(moved) /\ 1 \in DOMAIN moved
      /\ moved[1] \in EntryType
  BY <1>3
<1>7. /\ recent' \in Seq(EntryType) /\ Len(recent') = Len(moved) /\ DOMAIN recent' = DOMAIN moved
      /\ \A k \in DOMAIN moved : recent'[k].sn = moved[k].sn /\ (k # 1 => recent'[k] = moved[k])
      /\ recent'[1].state = IF call[v].kind = "state" THEN call[v].arg ELSE moved[1].state
  <2>1. CASE call[v].kind = "state"
    <3> DEFINE x == [moved[1] EXCEPT !.state = call[v].arg]
    <3>1. recent' = [moved EXCEPT ![1] = x]
      BY <1>1, <2>1
    <3>2. x \in EntryType /\ x.sn = moved[1].sn /\ x.state = call[v].arg
      BY <1>1, <1>6 DEF EntryType, CallType
    <3> HIDE DEF x
    <3>3. /\ recent' \in Seq(EntryType) /\ Len(recent') = Len(moved)
          /\ DOMAIN recent' = DOMAIN moved
      BY <1>3, <1>6, <3>1, <3>2, ExceptSeq
    <3>4. recent'[1] = x /\ \A k \in DOMAIN moved : k # 1 => recent'[k] = moved[k]
      BY <1>3, <1>6, <3>1
    <3> QED BY <2>1, <3>2, <3>3, <3>4
  <2>2. CASE call[v].kind # "state"
    BY <1>1, <1>3, <2>2
  <2> QED BY <2>1, <2>2
<1>8. Single(recent')
  BY <1>3, <1>7 DEF Single
<1>9. ASSUME NEW k \in DOMAIN recent', k # 1
      PROVE  Shown(k)'
  <2>1. PICK j \in DOMAIN recent : recent'[k] = recent[j] /\ recent[j].sn # v
    BY <1>3, <1>7, <1>9
  <2>2. Shown(j) /\ recent[j].sn \in Units
    BY Entries DEF ListOK
  <2> QED BY <1>1, <1>5, <2>1, <2>2 DEF Shown
<1>10. Shown(1)'
  <2>1. recent'[1].sn = v
    BY <1>3, <1>6, <1>7
  <2>2. CASE call[v].kind = "state"
    <3>1. stored[v] = call[v].arg
      BY <1>1, <2>2 DEF ListOK, Reporting
    <3> QED BY <1>1, <1>7, <2>1, <2>2, <3>1 DEF Shown
  <2>3. CASE call[v].kind # "state" /\ Listed(recent, v) = {}
    <3>1. recent'[1].state = NoStage
      BY <1>3, <1>7, <2>3
    <3>2. stored[v] = NoStage \/ ~(errors = 0 /\ Cardinality(Units) <= MaxHistory)
      BY <2>3 DEF ListOK, AllListed, Reporting
    <3>3. Cardinality(Units) \in Nat /\ MaxHistory \in Nat /\ errors \in Nat
      BY ServerAssumption, FS_CardinalityType DEF ServerTypes
    <3> QED BY <1>1, <2>1, <3>1, <3>2, <3>3 DEF Shown
  <2>4. CASE call[v].kind # "state" /\ Listed(recent, v) # {}
    <3>1. PICK j \in DOMAIN recent : moved[1] = recent[j]
      BY <1>3, <2>4
    <3>2. Shown(j) /\ recent[j].sn = v /\ ~Reporting(v) /\ recent'[1].state = recent[j].state
      BY <1>3, <1>7, <2>4, <3>1 DEF ListOK, Reporting
    <3> QED BY <1>1, <2>1, <3>2 DEF Shown
  <2> QED BY <2>2, <2>3, <2>4
<1>11. \A u \in Units : (Reporting(u))' => stored'[u] = call'[u].arg
  BY <1>1, <1>4, <1>5 DEF ListOK
<1>12. AllListed'
  <2> SUFFICES ASSUME errors = 0, Cardinality(Units) <= MaxHistory,
                      NEW u \in Units, stored[u] # NoStage, ~(Reporting(u))'
               PROVE  Listed(recent', u) # {}
    BY <1>1 DEF AllListed
  <2>1. CASE u = v
    BY <1>3, <1>6, <1>7, <2>1 DEF Listed
  <2>2. CASE u # v
    <3>1. Listed(recent, u) # {}
      BY <1>5, <2>2 DEF ListOK, AllListed
    <3>2. PICK j \in DOMAIN recent : recent[j].sn = u
      BY <3>1 DEF Listed
    <3>3. Listed(recent, v) = {} => Len(recent) < MaxHistory
      <4> HAVE Listed(recent, v) = {}
      <4>1. Len(recent) < Cardinality(Units)
        BY Room DEF ListOK
      <4>2. Len(recent) \in Nat /\ Cardinality(Units) \in Nat /\ MaxHistory \in Nat
        BY ServerAssumption, FS_CardinalityType DEF ListOK
      <4> QED BY <4>1, <4>2
    <3>4. PICK k \in DOMAIN moved : moved[k].sn = u
      BY <1>3, <3>2, <3>3
    <3> QED BY <1>7, <3>4 DEF Listed
  <2> QED BY <2>1, <2>2
<1> QED BY <1>3, <1>6, <1>7, <1>8, <1>9, <1>10, <1>11, <1>12 DEF ListOK

-----------------------------------------------------------------------------
(* The documents on hold. *)

(* What a step does to the documents of u (qadocHolds, history.go).         *)
Accounted(u) ==
  /\ Received(u)' - Received(u) \in {0, 1}
  /\ discarded'[u] - discarded[u] \in {0, Cardinality(Overdue(u))}

LEMMA HeldTypes ==
  ASSUME ServerTypes, DocsOK, NEW u \in Units
  PROVE  /\ IsFiniteSet(Held(u)) /\ Cardinality(Held(u)) \in Nat
         /\ IsFiniteSet(Overdue(u)) /\ Cardinality(Overdue(u)) \in Nat
         /\ printed[u] \in Nat /\ refused[u] \in Nat
         /\ discarded[u] \in Nat /\ lost[u] \in Nat
<1>1. Held(u) \subseteq docs /\ Overdue(u) \subseteq docs /\ IsFiniteSet(docs)
  BY DEF Held, Overdue, DocsOK
<1>2. IsFiniteSet(Held(u)) /\ IsFiniteSet(Overdue(u))
  BY <1>1, FS_Subset
<1> QED BY <1>2, FS_CardinalityType DEF ServerTypes

(* A step that leaves the documents and the counters alone.                 *)
LEMMA DocsAlone ==
  ASSUME ServerTypes, DocsOK, UNCHANGED <<docs, counters>>,
         \/ manage' = manage
         \/ \E v \in Units : manage = Nobody /\ manage' = v
  PROVE  DocsOK' /\ \A u \in Units : Accounted(u)
<1>1. \A u : Held(u)' = Held(u) /\ Settled(u)' = Settled(u)
  BY DEF Held, Settled, counters
<1>2. DocsOK'
  BY <1>1 DEF DocsOK, Taken
<1>3. ASSUME NEW u \in Units PROVE Accounted(u)
  <2>1. Cardinality(Held(u)) \in Nat /\ Settled(u) \in Nat /\ discarded[u] \in Nat
    BY HeldTypes DEF Settled
  <2>2. DocsOf(u)' - DocsOf(u) \in {0, 1} /\ DocsOf(u) \in Nat /\ DocsOf(u)' \in Nat
    BY <1>1, <2>1, ServerAssumption DEF DocsOf
  <2> QED BY <1>1, <2>1, <2>2 DEF Accounted, Received, counters
<1> QED BY <1>2, <1>3

(* A document that is printed at once was never on hold.                    *)
LEMMA PrintAccounts ==
  ASSUME ServerTypes, DocsOK, NEW v \in Units, PrintDocument(v)
  PROVE  DocsOK' /\ \A u \in Units : Accounted(u)
<1>1. /\ UNCHANGED <<docs, manage, refused, discarded, lost>>
      /\ printed' = [printed EXCEPT ![v] = @ + 1]
  BY DEF PrintDocument
<1>2. ASSUME NEW u \in Units
      PROVE  /\ Settled(u)' = Settled(u) + (IF u = v THEN 1 ELSE 0) /\ Settled(u) \in Nat
             /\ Held(u)' = Held(u) /\ Cardinality(Held(u)) \in Nat /\ discarded[u] \in Nat
  <2>1. Held(u)' = Held(u)
    BY <1>1 DEF Held
  <2>2. printed'[u] = printed[u] + (IF u = v THEN 1 ELSE 0)
    BY <1>1 DEF ServerTypes
  <2> QED BY <1>1, <2>1, <2>2, HeldTypes DEF Settled
<1>3. ASSUME NEW d \in docs PROVE d.nr < Taken(d.sn)'
  <2>1. d.sn \in Units /\ d.nr \in Nat /\ d.nr < Taken(d.sn)
    BY DEF DocsOK, DocType
  <2> QED BY <1>2, <2>1 DEF Taken
<1>4. DocsOK'
  BY <1>1, <1>3 DEF DocsOK
<1>5. ASSUME NEW u \in Units PROVE Accounted(u)
  <2>1. DocsOf(u)' = DocsOf(u) /\ DocsOf(u) \in Nat
    BY <1>1, <1>2 DEF DocsOf
  <2> QED BY <1>1, <1>2, <2>1 DEF Accounted, Received
<1> QED BY <1>4, <1>5

LEMMA AddDocumentAccounts ==
  ASSUME ServerTypes, DocsOK, AddDocument
  PROVE  DocsOK' /\ \A u \in Units : Accounted(u)
<1> DEFINE n == Taken(manage)
           d == [sn |-> manage, left |-> QAHold + 1, nr |-> n]
<1>1. /\ manage \in Units /\ docs' = docs \cup {d} /\ manage' = Nobody
      /\ UNCHANGED <<printed, refused, discarded, lost>>
  BY DEF AddDocument, ServerTypes, Taken, counters
<1>2. n \in Nat /\ d \in DocType /\ d.sn = manage /\ d.nr = n
  BY <1>1, HeldTypes, ServerAssumption DEF Taken, Settled, DocType
<1> HIDE DEF d, n
<1>3. d \notin docs /\ \A e \in docs : ~(e.sn = manage /\ e.nr = n)
  BY <1>2 DEF DocsOK, n
<1>4. ASSUME NEW u \in Units
      PROVE  /\ Cardinality(Held(u))' = Cardinality(Held(u)) + (IF u = manage THEN 1 ELSE 0)
             /\ Settled(u)' = Settled(u)
  <2>1. Held(u)' = IF u = manage THEN Held(u) \cup {d} ELSE Held(u)
    BY <1>1, <1>2 DEF Held
  <2>2. d \notin Held(u) /\ IsFiniteSet(Held(u)) /\ Cardinality(Held(u)) \in Nat
    BY <1>3, HeldTypes DEF Held
  <2>3. Cardinality(Held(u) \cup {d}) = Cardinality(Held(u)) + 1
    BY <2>2, FS_AddElement
  <2> QED BY <1>1, <2>1, <2>2, <2>3 DEF Settled
<1>5. DocsOK'
  <2>1. docs' \subseteq DocType /\ IsFiniteSet(docs')
    BY <1>1, <1>2, FS_AddElement DEF DocsOK
  <2>2. \A e, f \in docs' : e.sn = f.sn /\ e.nr = f.nr => e = f
    BY <1>1, <1>2, <1>3 DEF DocsOK
  <2>3. \A u \in Units : Taken(u) \in Nat /\ Taken(u)' = Taken(u) + (IF u = manage THEN 1 ELSE 0)
    BY <1>4, HeldTypes DEF Taken, Settled
  <2>4. ASSUME NEW e \in docs' PROVE e.nr < Taken(e.sn)'
    <3>1. e.sn \in Units /\ e.nr \in Nat
      BY <2>1 DEF DocType
    <3>2. CASE e \in docs
      BY <2>3, <3>1, <3>2 DEF DocsOK
    <3>3. CASE e = d
      BY <1>1, <1>2, <2>3, <3>3 DEF n
    <3> QED BY <1>1, <3>2, <3>3
  <2> QED BY <2>1, <2>2, <2>4 DEF DocsOK
<1>6. ASSUME NEW u \in Units PROVE Accounted(u)
  <2>1. Cardinality(Held(u)) \in Nat /\ Settled(u) \in Nat /\ discarded[u] \in Nat
    BY HeldTypes DEF Settled
  <2>2. DocsOf(u)' = DocsOf(u)
    BY <1>1, <1>4, <2>1, ServerAssumption DEF DocsOf
  <2>3. DocsOf(u) \in Nat
    BY <2>1 DEF DocsOf
  <2> QED BY <1>1, <1>4, <2>1, <2>2, <2>3 DEF Accounted, Received
<1> QED BY <1>5, <1>6

(* Documents leave the hold and are counted: the ones of u that go are its  *)
(* `gone`, as many as the counters move.                                    *)
LEMMA DocsLeave ==
  ASSUME ServerTypes, DocsOK, ServerTypes', docs' \subseteq docs,
         NEW u \in Units, manage' = manage,
         Settled(u)' = Settled(u) + Cardinality(Held(u) \ docs')
  PROVE  /\ Taken(u)' = Taken(u) /\ Received(u)' = Received(u) /\ Received(u) \in Nat
<1>1. Held(u)' = Held(u) \ (Held(u) \ docs') /\ Held(u) \cap (Held(u) \ docs') = Held(u) \ docs'
  BY DEF Held
<1>2. IsFiniteSet(Held(u)) /\ IsFiniteSet(Held(u) \ docs')
  BY HeldTypes, FS_Difference
<1>3. /\ Cardinality(Held(u)') = Cardinality(Held(u)) - Cardinality(Held(u) \ docs')
      /\ Cardinality(Held(u)) \in Nat /\ Cardinality(Held(u) \ docs') \in Nat
  <2> DEFINE gone == Held(u) \ docs'
  <2>1. Cardinality(Held(u)) \in Nat /\ Cardinality(gone) \in Nat
    BY <1>2, FS_CardinalityType
  <2>2. Cardinality(Held(u) \ gone) = Cardinality(Held(u)) - Cardinality(Held(u) \cap gone)
    BY <1>2, FS_Difference
  <2> QED BY <1>1, <2>1, <2>2
<1>4. Settled(u) \in Nat
  BY HeldTypes DEF Settled
<1>5. Taken(u)' = Taken(u)
  BY <1>3, <1>4 DEF Taken
<1>6. Received(u) = Taken(u) + (IF manage = u THEN 1 ELSE 0) /\ Taken(u) \in Nat
  BY <1>3, <1>4 DEF Received, Taken, DocsOf
<1>7. Received(u)' = Taken(u)' + (IF manage = u THEN 1 ELSE 0)
  <2>1. Cardinality(Held(u)') \in Int /\ Settled(u)' \in Nat
    BY <1>3, <1>4
  <2> QED BY <2>1 DEF Received, Taken, DocsOf
<1> QED BY <1>5, <1>6, <1>7

LEMMA DocsLeaveOK ==
  ASSUME ServerTypes, DocsOK, ServerTypes', docs' \subseteq docs, manage' = manage,
         \A u \in Units : Settled(u)' = Settled(u) + Cardinality(Held(u) \ docs')
  PROVE  DocsOK'
<1>1. docs' \subseteq DocType /\ IsFiniteSet(docs')
  BY FS_Subset DEF DocsOK
<1>2. \A d, e \in docs' : d.sn = e.sn /\ d.nr = e.nr => d = e
  BY DEF DocsOK
<1>3. ASSUME NEW d \in docs' PROVE d.nr < Taken(d.sn)'
  <2>1. d.sn \in Units /\ d.nr < Taken(d.sn)
    BY DEF DocsOK, DocType
  <2>2. Taken(d.sn)' = Taken(d.sn)
    BY <2>1, DocsLeave
  <2> QED BY <2>1, <2>2
<1> QED BY <1>1, <1>2, <1>3 DEF DocsOK

LEMMA ReleaseAccounts ==
  ASSUME ServerTypes, DocsOK, ServerTypes', NEW v \in Units, Release(v)
  PROVE  DocsOK' /\ \A u \in Units : Accounted(u)
<1>1. PICK failing \in SUBSET Held(v) :
        /\ printed' = [printed EXCEPT ![v] = @ + Cardinality(Held(v) \ failing)]
        /\ refused' = [refused EXCEPT ![v] = @ + Cardinality(failing)]
  BY DEF Release
<1>2. docs' = docs \ Held(v) /\ UNCHANGED <<manage, discarded, lost>>
  BY DEF Release
<1>3. ASSUME NEW u \in Units
      PROVE  Settled(u)' = Settled(u) + Cardinality(Held(u) \ docs')
  <2>1. /\ printed[u] \in Nat /\ refused[u] \in Nat
        /\ discarded[u] \in Nat /\ lost[u] \in Nat
    BY HeldTypes
  <2>2. CASE u = v
    <3>1. Held(u) \ docs' = Held(u)
      BY <1>2, <2>2 DEF Held
    <3>2. Cardinality(Held(u)) = Cardinality(Held(u) \ failing) + Cardinality(failing)
      <4>1. IsFiniteSet(Held(u)) /\ IsFiniteSet(failing) /\ Held(u) \cap failing = failing
        BY <2>2, HeldTypes, FS_Subset
      <4>2. Cardinality(Held(u) \ failing) = Cardinality(Held(u)) - Cardinality(failing)
        BY <4>1, FS_Difference
      <4>3. Cardinality(Held(u)) \in Nat /\ Cardinality(failing) \in Nat
        BY <4>1, FS_CardinalityType
      <4> QED BY <4>2, <4>3
    <3>3. Cardinality(Held(u) \ failing) \in Nat /\ Cardinality(failing) \in Nat
      BY <2>2, HeldTypes, FS_Subset, FS_Difference, FS_CardinalityType
    <3>4. /\ printed'[u] = printed[u] + Cardinality(Held(u) \ failing)
          /\ refused'[u] = refused[u] + Cardinality(failing)
          /\ discarded'[u] = discarded[u] /\ lost'[u] = lost[u]
      BY <1>1, <1>2, <2>2 DEF ServerTypes
    <3>5. Settled(u)' = Settled(u) + Cardinality(Held(u))
      BY <2>1, <3>2, <3>3, <3>4 DEF Settled
    <3> QED BY <3>1, <3>5
  <2>3. CASE u # v
    <3>1. Cardinality(Held(u) \ docs') = 0
      <4>1. Held(u) \ docs' = {}
        BY <1>2, <2>3 DEF Held
      <4> QED BY <4>1, FS_EmptySet
    <3>2. /\ printed'[u] = printed[u] /\ refused'[u] = refused[u]
          /\ discarded'[u] = discarded[u] /\ lost'[u] = lost[u]
      BY <1>1, <1>2, <2>3 DEF ServerTypes
    <3> QED BY <2>1, <3>1, <3>2 DEF Settled
  <2> QED BY <2>2, <2>3
<1>4. docs' \subseteq docs /\ manage' = manage
  BY <1>2
<1>5. \A u \in Units : Accounted(u)
  <2> TAKE u \in Units
  <2>1. Received(u)' = Received(u) /\ Received(u) \in Nat
    BY <1>3, <1>4, DocsLeave
  <2> QED BY <1>2, <2>1, HeldTypes DEF Accounted
<1> QED BY <1>3, <1>4, <1>5, DocsLeaveOK

(* patrol: what goes is what has expired, and it is all of it.              *)
LEMMA PatrolAccounts ==
  ASSUME ServerTypes, DocsOK, ServerTypes', PatrolNow
  PROVE  DocsOK' /\ \A u \in Units : Accounted(u)
<1>1. /\ docs' = {d \in docs : ~Expired(d)} /\ UNCHANGED <<manage, printed, refused, lost>>
      /\ discarded' = [u \in Units |-> discarded[u] + Cardinality(Overdue(u))]
  BY DEF PatrolNow
<1>2. ASSUME NEW u \in Units
      PROVE  /\ Settled(u)' = Settled(u) + Cardinality(Held(u) \ docs')
             /\ discarded'[u] - discarded[u] = Cardinality(Overdue(u))
  <2>1. /\ Cardinality(Overdue(u)) \in Nat /\ printed[u] \in Nat /\ refused[u] \in Nat
        /\ discarded[u] \in Nat /\ lost[u] \in Nat
    BY HeldTypes
  <2>2. Held(u) \ docs' = Overdue(u)
    BY <1>1 DEF Held, Overdue
  <2>3. /\ discarded'[u] = discarded[u] + Cardinality(Overdue(u))
        /\ printed'[u] = printed[u] /\ refused'[u] = refused[u] /\ lost'[u] = lost[u]
    BY <1>1
  <2>4. /\ Settled(u)' = Settled(u) + Cardinality(Overdue(u))
        /\ discarded'[u] - discarded[u] = Cardinality(Overdue(u))
    BY <2>1, <2>3 DEF Settled
  <2> QED BY <2>2, <2>4
<1>3. docs' \subseteq docs /\ manage' = manage
  BY <1>1
<1>4. \A u \in Units : Accounted(u)
  <2> TAKE u \in Units
  <2>1. Received(u)' = Received(u) /\ Received(u) \in Nat
    BY <1>2, <1>3, DocsLeave
  <2>2. Received(u)' - Received(u) = 0
    BY <2>1
  <2>3. discarded'[u] - discarded[u] = Cardinality(Overdue(u))
    BY <1>2
  <2> QED BY <2>2, <2>3, Zenon DEF Accounted
<1> QED BY <1>2, <1>3, <1>4, DocsLeaveOK

(* The server forgets what it held; that is counted as lost.                *)
LEMMA RestartAccounts ==
  ASSUME ServerTypes, DocsOK, Restart
  PROVE  DocsOK' /\ \A u \in Units : Accounted(u)
<1>1. /\ docs' = {} /\ manage' = Nobody /\ UNCHANGED <<printed, refused, discarded>>
      /\ lost' = [u \in Units |-> lost[u] + DocsOf(u)]
  BY DEF Restart
<1>2. DocsOK'
  BY <1>1, FS_EmptySet DEF DocsOK
<1>3. ASSUME NEW u \in Units PROVE Accounted(u)
  <2>1. /\ Cardinality(Held(u)) \in Nat /\ printed[u] \in Nat /\ refused[u] \in Nat
        /\ discarded[u] \in Nat /\ lost[u] \in Nat
    BY HeldTypes
  <2>2. DocsOf(u) \in Nat
    BY <2>1 DEF DocsOf
  <2>3. DocsOf(u)' = 0
    <3>1. Held(u)' = {} /\ manage' # u
      BY <1>1, ServerAssumption DEF Held
    <3> QED BY <3>1, FS_EmptySet DEF DocsOf
  <2>4. lost'[u] = lost[u] + DocsOf(u)
    BY <1>1
  <2> QED BY <1>1, <2>1, <2>2, <2>3, <2>4 DEF Accounted, Received, Settled
<1> QED BY <1>2, <1>3

(* Time passes: each document on hold is still there.                       *)
LEMMA TickAccounts ==
  ASSUME ServerTypes, DocsOK, Tick
  PROVE  DocsOK' /\ \A u \in Units : Accounted(u)
<1> DEFINE Aged(d) == [d EXCEPT !.left = Less(@)]
<1>1. docs' = {Aged(d) : d \in docs} /\ UNCHANGED <<manage, printed, refused, discarded, lost>>
  BY DEF Tick, counters
<1>2. \A d \in docs : Aged(d) \in DocType /\ Aged(d).sn = d.sn /\ Aged(d).nr = d.nr
  BY DEF DocsOK, DocType, Less
<1> HIDE DEF Aged
<1>3. \A d, e \in docs : Aged(d) = Aged(e) => d = e
  BY <1>2 DEF DocsOK
<1>4. ASSUME NEW S \in SUBSET docs
      PROVE  /\ IsFiniteSet({Aged(d) : d \in S})
             /\ Cardinality({Aged(d) : d \in S}) = Cardinality(S)
  <2> DEFINE T == {Aged(d) : d \in S}
             f == [d \in S |-> Aged(d)]
  <2>1. f \in Bijection(S, T)
    BY <1>3 DEF Bijection, Injection, IsInjective, Surjection
  <2>2. IsFiniteSet(S)
    BY FS_Subset DEF DocsOK
  <2>3. ExistsBijection(S, T)
    BY <2>1 DEF ExistsBijection
  <2> QED BY <2>2, <2>3, FS_Bijection
<1>5. ASSUME NEW u \in Units
      PROVE  Cardinality(Held(u))' = Cardinality(Held(u)) /\ Settled(u)' = Settled(u)
  <2>1. Held(u)' = {Aged(d) : d \in Held(u)} /\ Held(u) \subseteq docs
    BY <1>1, <1>2 DEF Held
  <2> QED BY <1>1, <1>4, <2>1 DEF Settled
<1>6. DocsOK'
  <2>1. docs' \subseteq DocType /\ IsFiniteSet(docs')
    BY <1>1, <1>2, <1>4
  <2>2. \A d, e \in docs' : d.sn = e.sn /\ d.nr = e.nr => d = e
    BY <1>1, <1>2 DEF DocsOK
  <2>3. ASSUME NEW d \in docs' PROVE d.nr < Taken(d.sn)'
    <3>1. PICK e \in docs : d = Aged(e)
      BY <1>1
    <3>2. d.nr = e.nr /\ d.sn = e.sn /\ e.sn \in Units /\ e.nr < Taken(e.sn)
      BY <1>2, <3>1 DEF DocsOK, DocType
    <3> QED BY <1>5, <3>2 DEF Taken
  <2> QED BY <2>1, <2>2, <2>3 DEF DocsOK
<1>7. ASSUME NEW u \in Units PROVE Accounted(u)
  <2>1. Cardinality(Held(u)) \in Nat /\ Settled(u) \in Nat /\ discarded[u] \in Nat
    BY HeldTypes DEF Settled
  <2>2. DocsOf(u)' = DocsOf(u) /\ DocsOf(u) \in Nat
    BY <1>1, <1>5, <2>1 DEF DocsOf
  <2> QED BY <1>1, <1>5, <2>1, <2>2 DEF Accounted, Received
<1> QED BY <1>6, <1>7

-----------------------------------------------------------------------------
(* The server as the units use it. *)

(* A unit calls, or has its answer (pblog.go): nothing but the call changes.*)
Turn(u) ==
  /\ ~Reporting(u)
  /\ \E c \in CallType : c.at # "list" /\ call' = [call EXCEPT ![u] = c]
  /\ UNCHANGED <<stored, recent, docVars, errors>>

LEMMA CallIsTurn ==
  ASSUME NEW u, NEW kind \in Kinds, NEW arg \in Stages \cup {NoStage}, Call(u, kind, arg)
  PROVE  Turn(u)
<1>1. ~Reporting(u)
  BY NoCallType DEF Call, Reporting
<1> DEFINE c == [kind |-> kind, arg |-> arg, at |-> Entrance(kind)]
<1>2. c \in CallType /\ c.at # "list"
  BY DEF CallType, Entrance
<1> QED BY <1>1, <1>2 DEF Call, Turn

LEMMA ReturnIsTurn ==
  ASSUME NEW u, Return(u)
  PROVE  Turn(u)
<1>1. ~Reporting(u)
  BY DEF Return, At, Reporting
<1>2. NoCall \in CallType /\ NoCall.at # "list"
  BY NoCallType DEF NoCall
<1> QED BY <1>1, <1>2 DEF Return, Turn

LEMMA FactoryTurns ==
  ASSUME [Next]_vars
  PROVE  UNCHANGED serverVars \/ ServerStep \/ \E u \in Units : Turn(u)
<1>1. ASSUME NEW u \in Made, UnitStep(u) \/ RunAgain(u)
      PROVE  UNCHANGED serverVars \/ Turn(u)
  <2>1. CASE Report(u)
    BY <2>1, CallIsTurn, ReportKinds DEF Report
  <2>2. CASE Answered(u)
    BY <2>2, ReturnIsTurn DEF Answered
  <2>3. CASE SkipReport(u) \/ Link(u) \/ ConfigStep(u) \/ Fatalf(u) \/ RunAgain(u)
    BY <2>3 DEF SkipReport, Link, ConfigStep, Fatalf, RunAgain
  <2>4. CASE SkipFiles(u) \/ GetFails(u) \/ Finalize(u) \/ VerifyImage(u) \/ Reboot(u) \/ Restore(u)
    BY <2>4 DEF SkipFiles, GetFails, Finalize, VerifyImage, Reboot, Restore
  <2>5. CASE \/ EnableNetworking(u) \/ Parse(u) \/ Validate(u) \/ SetTimeFromServer(u)
             \/ CreateRecovery(u) \/ StashMfg(u) \/ WriteCredentials(u)
             \/ FRConfig(u) \/ WipeDisks(u) \/ CheckVolume(u)
    BY <2>5 DEF EnableNetworking, Parse, Validate, SetTimeFromServer, CreateRecovery,
       StashMfg, WriteCredentials, FRConfig, WipeDisks, CheckVolume, Does
  <2> QED BY <1>1, <2>1, <2>2, <2>3, <2>4, <2>5 DEF UnitStep
<1>2. ASSUME NEW u \in Units \ Made, OtherReports(u)
      PROVE  Turn(u)
  <2>1. {"state", "doc"} \subseteq Kinds /\ {"FR_STARTED", NoStage} \subseteq Stages \cup {NoStage}
    BY DEF Kinds, Stages
  <2> QED BY <1>2, <2>1, CallIsTurn, ReturnIsTurn DEF OtherReports
<1>3. UNCHANGED vars => UNCHANGED serverVars
  BY DEF vars
<1> QED BY <1>1, <1>2, <1>3, FactoryAssumption DEF Next

LEMMA TurnKeeps ==
  ASSUME SInv, NEW u \in Units, Turn(u)
  PROVE  SInv' /\ \A v \in Units : Accounted(v)
<1>1. PICK c \in CallType : c.at # "list" /\ call' = [call EXCEPT ![u] = c]
  BY DEF Turn
<1>2. ~Reporting(u) /\ UNCHANGED <<stored, recent, docs, manage, counters, errors>>
  BY DEF Turn, docVars
<1>3. ServerTypes'
  <2>1. call' \in [Units -> CallType]
    BY <1>1 DEF SInv, ServerTypes
  <2> QED BY <1>2, <2>1 DEF SInv, ServerTypes, counters
<1>4. ListOK'
  <2>1. errors' \in Nat /\ errors' >= errors
    BY <1>2 DEF SInv, ServerTypes
  <2> QED BY <1>1, <1>2, <2>1, CallAlone DEF SInv
<1>5. DocsOK' /\ \A v \in Units : Accounted(v)
  BY <1>2, DocsAlone DEF SInv
<1> QED BY <1>3, <1>4, <1>5 DEF SInv

(* A handler moves its call on.                                             *)
LEMMA HandlerKeeps ==
  ASSUME SInv, NEW u \in Units, Handler(u)
  PROVE  SInv' /\ \A v \in Units : Accounted(v)
<1>1. PICK place \in {"list", "done", "failed", "event"} :
        /\ Go(u, place)
        /\ place = "list" => StoreEvent(u)
  BY DEF Handler, StoreEvent, StoreFails, EnterActivity, PrintDocument, ReceiveDocument,
     LogDocument
<1> DEFINE c == [call[u] EXCEPT !.at = place]
<1>2. call' = [call EXCEPT ![u] = c] /\ c \in CallType /\ c.at = place
  BY <1>1 DEF Go, SInv, ServerTypes, CallType
<1> HIDE DEF c
<1>3. /\ errors' \in Nat /\ errors' >= errors
      /\ \/ PrintDocument(u)
         \/ /\ UNCHANGED <<docs, counters>>
            /\ manage' = manage \/ (manage = Nobody /\ manage' = u)
  BY DEF SInv, ServerTypes, Handler, StoreEvent, StoreFails, EnterActivity, PrintDocument,
     ReceiveDocument, LogDocument, docVars
<1>4. stored' \in [Units -> Stages \cup {NoStage}]
  <2>1. CASE StoreEvent(u)
    <3>1. call[u].arg \in Stages \cup {NoStage} /\ stored[u] \in Stages \cup {NoStage}
      BY DEF SInv, ServerTypes, CallType
    <3> QED BY <2>1, <3>1 DEF StoreEvent, SInv, ServerTypes
  <2>2. CASE ~StoreEvent(u)
    BY <2>2 DEF Handler, StoreFails, EnterActivity, PrintDocument, ReceiveDocument,
       LogDocument, SInv, ServerTypes
  <2> QED BY <2>1, <2>2
<1>5. ServerTypes'
  <2>1. call' \in [Units -> CallType]
    BY <1>2 DEF SInv, ServerTypes
  <2>2. CASE PrintDocument(u)
    <3>1. printed' \in [Units -> Nat]
      BY <2>2 DEF PrintDocument, SInv, ServerTypes
    <3> QED BY <1>3, <1>4, <2>1, <2>2, <3>1 DEF PrintDocument, SInv, ServerTypes
  <2>3. CASE ~PrintDocument(u)
    BY <1>3, <1>4, <2>1, <2>3 DEF SInv, ServerTypes, counters
  <2> QED BY <2>2, <2>3
<1>6. ListOK'
  <2>1. CASE StoreEvent(u)
    BY <2>1, StoreEventKeepsList DEF SInv
  <2>2. CASE EnterActivity(u)
    BY <2>2, EnterActivityKeepsList DEF SInv
  <2>3. CASE StoreFails(u) \/ PrintDocument(u) \/ ReceiveDocument(u) \/ LogDocument(u)
    <3>1. ~Reporting(u) /\ UNCHANGED <<recent, stored>>
      BY <2>3 DEF StoreFails, PrintDocument, ReceiveDocument, LogDocument, At, Reporting
    <3>2. c.at # "list"
      BY <1>2, <2>3 DEF StoreFails, PrintDocument, ReceiveDocument, LogDocument, Go,
         SInv, ServerTypes, CallType
    <3> QED BY <1>2, <1>3, <3>1, <3>2, CallAlone DEF SInv
  <2> QED BY <2>1, <2>2, <2>3 DEF Handler
<1>7. DocsOK' /\ \A v \in Units : Accounted(v)
  BY <1>3, DocsAlone, PrintAccounts DEF SInv
<1> QED BY <1>5, <1>6, <1>7 DEF SInv

(* patrol(), manage() and the clock: the calls and the list are left alone. *)
LEMMA HoldsKeep ==
  ASSUME SInv, AddDocument \/ PatrolNow \/ Tick \/ \E u \in Units : Release(u)
  PROVE  SInv' /\ \A v \in Units : Accounted(v)
<1>1. UNCHANGED <<call, stored, recent>> /\ errors' \in Nat /\ errors' >= errors
  <2>1. UNCHANGED <<call, stored, recent>> /\ (errors' = errors \/ errors' = errors + 1)
    BY DEF AddDocument, PatrolNow, Tick, Release
  <2>2. errors \in Nat
    BY DEF SInv, ServerTypes
  <2> QED BY <2>1, <2>2
<1>2. ServerTypes'
  <2>1. \A u \in Units : Cardinality(Held(u)) \in Nat /\ Cardinality(Overdue(u)) \in Nat
    BY HeldTypes DEF SInv
  <2>2. /\ printed' \in [Units -> Nat] /\ refused' \in [Units -> Nat]
        /\ discarded' \in [Units -> Nat] /\ lost' \in [Units -> Nat]
        /\ manage' \in Units \cup {Nobody}
    <3>1. CASE AddDocument \/ Tick
      BY <3>1 DEF AddDocument, Tick, SInv, ServerTypes, counters
    <3>2. CASE PatrolNow
      <4>1. \A u \in Units : discarded[u] + Cardinality(Overdue(u)) \in Nat
        BY <2>1 DEF SInv, ServerTypes
      <4> QED BY <3>2, <4>1 DEF PatrolNow, SInv, ServerTypes
    <3>3. ASSUME NEW u \in Units, Release(u)
          PROVE  /\ printed' \in [Units -> Nat] /\ refused' \in [Units -> Nat]
                 /\ UNCHANGED <<discarded, lost, manage>>
      <4>1. PICK failing \in SUBSET Held(u) :
              /\ printed' = [printed EXCEPT ![u] = @ + Cardinality(Held(u) \ failing)]
              /\ refused' = [refused EXCEPT ![u] = @ + Cardinality(failing)]
        BY <3>3 DEF Release
      <4>2. Cardinality(Held(u) \ failing) \in Nat /\ Cardinality(failing) \in Nat
        BY HeldTypes, FS_Subset, FS_Difference, FS_CardinalityType DEF SInv
      <4>3. /\ printed[u] + Cardinality(Held(u) \ failing) \in Nat
            /\ refused[u] + Cardinality(failing) \in Nat
        BY <4>2 DEF SInv, ServerTypes
      <4> QED BY <3>3, <4>1, <4>3 DEF Release, SInv, ServerTypes
    <3> QED BY <3>1, <3>2, <3>3 DEF SInv, ServerTypes
  <2> QED BY <1>1, <2>2 DEF SInv, ServerTypes
<1>3. ListOK'
  <2>1. \A u \in Units : (Reporting(u))' = Reporting(u) /\ call'[u].arg = call[u].arg
    BY <1>1 DEF Reporting
  <2> QED BY <1>1, <2>1, ListAlone DEF SInv
<1>4. DocsOK' /\ \A v \in Units : Accounted(v)
  BY <1>2, AddDocumentAccounts, PatrolAccounts, TickAccounts, ReleaseAccounts DEF SInv
<1> QED BY <1>2, <1>3, <1>4 DEF SInv

LEMMA RestartKeeps ==
  ASSUME SInv, Restart
  PROVE  SInv' /\ \A v \in Units : Accounted(v)
<1>1. /\ call' = [u \in Units |-> IF call[u] = NoCall THEN NoCall
                                  ELSE [call[u] EXCEPT !.at = "failed"]]
      /\ recent' = <<>> /\ manage' = Nobody /\ errors' = errors + 1
      /\ lost' = [u \in Units |-> lost[u] + DocsOf(u)]
      /\ UNCHANGED <<stored, printed, refused, discarded>>
  BY DEF Restart
<1>2. \A u \in Units : call'[u] \in CallType /\ call'[u].at # "list"
  <2> TAKE u \in Units
  <2>1. call[u] \in CallType
    BY DEF SInv, ServerTypes
  <2>2. [call[u] EXCEPT !.at = "failed"] \in CallType
    BY <2>1 DEF CallType
  <2>3. [call[u] EXCEPT !.at = "failed"].at = "failed"
    BY <2>1 DEF CallType
  <2> QED BY <1>1, <2>2, <2>3, NoCallType DEF NoCall
<1>3. ServerTypes'
  <2>1. \A u \in Units : lost[u] + DocsOf(u) \in Nat
    BY HeldTypes DEF SInv, DocsOf
  <2>2. call' \in [Units -> CallType] /\ lost' \in [Units -> Nat]
    BY <1>1, <1>2, <2>1
  <2> QED BY <1>1, <2>2 DEF SInv, ServerTypes
<1>4. ListOK'
  <2>1. errors' > 0
    BY <1>1 DEF SInv, ServerTypes
  <2>2. \A u \in Units : ~(Reporting(u))'
    BY <1>2 DEF Reporting
  <2>3. recent' \in Seq(EntryType) /\ Len(recent') = 0 /\ DOMAIN recent' = {}
    BY <1>1
  <2>4. AllListed'
    BY <2>1 DEF AllListed, SInv, ServerTypes
  <2> QED BY <2>2, <2>3, <2>4, ServerAssumption DEF ListOK, Single
<1>5. DocsOK' /\ \A v \in Units : Accounted(v)
  BY RestartAccounts DEF SInv
<1> QED BY <1>3, <1>4, <1>5 DEF SInv

LEMMA ServerInvariantStep ==
  ASSUME SInv, [Next]_vars
  PROVE  SInv' /\ (UNCHANGED serverVars \/ \A v \in Units : Accounted(v))
<1>1. CASE UNCHANGED serverVars
  <2>1. ServerTypes' /\ DocsOK'
    BY <1>1 DEF SInv, serverVars, ServerTypes, DocsOK, Taken, Held, Settled
  <2>2. ListOK'
    BY <1>1 DEF SInv, serverVars, ListOK, Shown, AllListed, Reporting
  <2> QED BY <1>1, <2>1, <2>2 DEF SInv
<1>2. CASE ServerStep
  BY <1>2, HandlerKeeps, HoldsKeep, RestartKeeps DEF ServerStep
<1>3. CASE \E u \in Units : Turn(u)
  BY <1>3, TurnKeeps
<1> QED BY <1>1, <1>2, <1>3, FactoryTurns

LEMMA ServerInvariant == Spec => []SInv
<1>1. ASSUME Init PROVE SInv
  <2>1. /\ call = [u \in Units |-> NoCall] /\ stored = [u \in Units |-> NoStage]
        /\ recent = <<>> /\ docs = {} /\ manage = Nobody /\ errors = 0
        /\ printed = [u \in Units |-> 0] /\ refused = [u \in Units |-> 0]
        /\ discarded = [u \in Units |-> 0] /\ lost = [u \in Units |-> 0]
    BY <1>1 DEF Init, ServerInit
  <2>2. ServerTypes
    BY <2>1, NoCallType DEF ServerTypes
  <2>3. ListOK
    <3>1. \A u \in Units : ~Reporting(u) /\ stored[u] = NoStage
      BY <2>1, NoCallType DEF Reporting
    <3>2. recent \in Seq(EntryType) /\ Len(recent) = 0 /\ DOMAIN recent = {}
      BY <2>1
    <3> QED BY <3>1, <3>2, ServerAssumption DEF ListOK, AllListed, Single
  <2>4. DocsOK
    BY <2>1, FS_EmptySet DEF DocsOK
  <2> QED BY <2>2, <2>3, <2>4 DEF SInv
<1>2. SInv /\ [Next]_vars => SInv'
  BY ServerInvariantStep
<1> QED BY <1>1, <1>2, PTL DEF Spec

(* For any number of units, any length of the list and any storage errors   *)
(* and restarts: the list of recent activity has a unit once, and shows the *)
(* last stage of its log, or none if the server was restarted or the list   *)
(* is too short for all units (history.go:50-103).                          *)
THEOREM LastStateKnown == Spec => []LastKnownState
<1>1. SInv => LastKnownState
  BY DEF SInv, ListOK, Single, LastKnownState
<1> QED BY <1>1, ServerInvariant, PTL

(* For any number of units and of documents: one that is printed at once,   *)
(* or that a server with MonitorHolds took on hold, is counted once as it   *)
(* comes, and stays on hold until it is printed, refused by print(),        *)
(* discarded or lost with the server; patrol() discards what has expired    *)
(* and nothing else (print.go:75-160).                                      *)
THEOREM DocsAreAccounted == Spec => DocsAccounted
<1>1. SInv /\ [Next]_vars =>
        [ \A u \in Units :
            /\ Received(u)' - Received(u) \in {0, 1}
            /\ discarded'[u] - discarded[u] \in {0, Cardinality(Overdue(u))} ]_serverVars
  BY ServerInvariantStep DEF Accounted
<1> QED BY <1>1, ServerInvariant, PTL DEF Spec, DocsAccounted
=============================================================================
