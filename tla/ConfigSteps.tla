---------------------------- MODULE ConfigSteps ----------------------------
(***************************************************************************)
(* Configuration steps of manufacturing (pkg/mfg/configStep): each gets     *)
(* files and then runs commands, whose text, path and library path are       *)
(* templates, and wants an exit status of each.                             *)
(*                                                                          *)
(* A template is one of Templates, for what comes of it: "words", "nothing" *)
(* (it is empty), "dir" (the directory of the step's files), "password", or *)
(* "broken" (it cannot be expanded, or not split into words).               *)
(***************************************************************************)
EXTENDS Naturals, Sequences, SequencesExt

Templates == {"words", "nothing", "dir", "password", "broken"}
Statuses  == {"mustSucceed", "dontCare", "mustFail"}

\* A status left out of the json; one that is none of these ends parsing.
Wanted(text) == IF text = "missing" THEN "mustSucceed" ELSE text

\* What a template expands to, given what is known at the time.
Expand(template, known) ==
  IF template = "broken" THEN "error"
  ELSE IF template = "nothing" \/ template \in {"dir", "password"} \ known THEN "nothing"
  ELSE "words"

\* A command without a word cannot be executed: args[0] panics.
RunCmd(cmd, known) ==
  LET args == Expand(cmd.text, known)
      run  == IF Wanted(cmd.status) = (IF cmd.succeeds THEN "mustFail" ELSE "mustSucceed") THEN "error" ELSE "ok"
  IN CASE args = "error"                                        -> "error"
       [] args = "nothing"                                      -> "panic"
       [] args = "words" /\ "broken" \in {cmd.path, cmd.libPath} -> "error"
       [] OTHER                                                 -> run

\* The first result that is not "ok" ends a list of them.
Outcome(results) ==
  LET bad == SelectInSeq(results, LAMBDA r : r # "ok") IN IF bad = 0 THEN "ok" ELSE results[bad]

\* Archives are extracted where they are.
GetFile(file) ==
  IF file.fetched /\ (~file.archive \/ file.extracts) THEN "ok" ELSE "error"

\* Only a step with files has a directory of its own.
Run(step, passwords) ==
  LET known == (IF step.files = <<>> THEN {} ELSE {"dir"})
               \cup (IF passwords THEN {"password"} ELSE {})
      got   == [i \in DOMAIN step.files |-> GetFile(step.files[i])]
      ran   == [i \in DOMAIN step.commands |-> RunCmd(step.commands[i], known)]
  IN IF step.files # <<>> /\ ~step.tempDir THEN "error" ELSE Outcome(got \o ran)

RunApplicable(steps, when, passwords) ==
  LET due == SelectSeq(steps, LAMBDA s : s.when = when)
  IN Outcome([i \in DOMAIN due |-> Run(due[i], passwords)])

\* The steps of the first configuration for the device, if there is one.
FindSteps(configs, codeName) ==
  LET i == SelectInSeq(configs, LAMBDA c : c.codeName = codeName)
  IN IF i = 0 THEN <<>> ELSE configs[i].steps
=============================================================================
