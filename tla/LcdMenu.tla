------------------------------ MODULE LcdMenu ------------------------------
(***************************************************************************)
(* The boot menu on the lcd: a menu, the question that confirms what was     *)
(* chosen from it, a second question before a data erase, and the menu of    *)
(* images (pkg/hw/cfa menu.go and question.go, bootMenu in pkg/init, Menu    *)
(* in pkg/recovery/archive).                                                 *)
(*                                                                          *)
(* The display shows one item per row.  Commands to it may fail at any time; *)
(* where a property holds only without, it says so.  What is typed ahead is  *)
(* taken as a key pressed at once.                                          *)
(***************************************************************************)
EXTENDS Integers, FiniteSets, FiniteSetsExt

CONSTANTS
  Models,     \* models of the lcd, among "631" and "635"
  BootItems,  \* number of items of the boot menu, from Choice_resume on
  Blank,      \* those without a text
  Long,       \* those that need to scroll
  Images,     \* number of images to choose from
  MaxTimeouts,\* maxTimeouts
  MaxFaults   \* bound on the commands that fail

ASSUME MenuAssumption ==
  /\ Models \subseteq {"631", "635"}
  /\ BootItems \in Nat \ {0} /\ Images \in Nat \ {0} /\ MaxTimeouts \in Nat \ {0}
  /\ MaxFaults \in Nat
  /\ Blank \subseteq 0 .. BootItems - 1 /\ Long \subseteq 0 .. BootItems - 1

VARIABLES
  model,        \* Lcd.model
  pc,           \* where the thread is
  dialog,       \* the menu shown: "boot" or "images"
  first,        \* view.first, the item on the first row
  selected,     \* view.selected
  redrawLines, redrawCursor, overflow,  \* as in view
  choice,       \* what the last menu returned
  button,       \* Question.buttons.selection, 1 is Yes
  buttonShown,  \* Question.buttons.prev, or -1
  answer,       \* what the last question returned
  timeouts,     \* timeoutCount of MenuWithConfirm
  legend,       \* Lcd.legend
  legendWidth,  \* Lcd.legendWidth
  screen,       \* the item on each row of the display, or Other
  cursor,       \* the row its cursor is on
  overlay,      \* the legend on display
  marked,       \* the button marked on display
  failed,       \* a command has failed since the menu was opened
  faults,       \* commands that may still fail
  agreed,       \* the questions about the last choice that were answered Yes
  acted         \* what the boot menu did in the end

view    == <<first, selected, redrawLines, redrawCursor, overflow>>
quest   == <<button, buttonShown, answer>>
display == <<screen, cursor, marked>>
errors  == <<failed, faults>>
legends == <<legend, legendWidth, overlay>>
vars == <<model, pc, dialog, view, choice, quest, timeouts, legends, display, errors, agreed, acted>>

None   == -1    \* CHOICE_NONE, and no button
Cancel == -2    \* CHOICE_CANCEL
Other  == -3    \* a row that shows something else

Height == IF model = "631" THEN 1 ELSE 3
Rows   == 0 .. 3
Items  == 0 .. (IF dialog = "boot" THEN BootItems ELSE Images) - 1
Last   == Max(Items)
IsLong(item) == dialog = "boot" /\ item \in Long

Legends == {"none", "UVDX", "_VDX", "UV_X", "LVRX", "_VRX", "LV_X"}
MenuLegends == {"UVDX", "_VDX", "UV_X"}

Init ==
  /\ model \in Models /\ pc = "menu" /\ dialog = "boot"
  /\ first = 0 /\ selected = 0 /\ redrawLines = TRUE /\ redrawCursor = TRUE /\ overflow = FALSE
  /\ choice = None /\ button = 0 /\ buttonShown = None /\ answer = "na" /\ timeouts = 0
  /\ legend = "none" /\ legendWidth = 0 /\ overlay = "none"
  /\ screen = [r \in Rows |-> Other] /\ cursor = 0 /\ marked = None
  /\ failed = FALSE /\ faults = MaxFaults /\ agreed = {} /\ acted = "nothing"

-----------------------------------------------------------------------------
(* Commands. *)

\* A command fails or not.
Spend(ok) == IF ok THEN UNCHANGED faults ELSE faults > 0 /\ faults' = faults - 1
Ok(ok)    == Spend(ok) /\ failed' = (failed \/ ~ok)

\* setLegend: the 631 shows it, on the 635 it is drawn.
SetLegend(l, also635, ok) ==
  IF legend = l
  THEN UNCHANGED legends
  ELSE IF model = "631"
  THEN legend' = l /\ legendWidth' = 3 /\ overlay' = IF ok THEN l ELSE overlay
  ELSE IF ~also635
  THEN legend' = "none" /\ legendWidth' = 0 /\ UNCHANGED overlay
  ELSE /\ legend' = l
       /\ legendWidth' = IF l \in MenuLegends THEN 1 ELSE 0
       /\ overlay' = IF ok THEN l ELSE overlay

-----------------------------------------------------------------------------
(* Menu: menuWithTicks, Run, draw, update. *)

OpenMenu ==
  /\ pc = "menu" /\ pc' = "draw"
  /\ first' = 0 /\ selected' = 0
  /\ redrawLines' = TRUE /\ redrawCursor' = TRUE /\ overflow' = FALSE
  /\ choice' = None /\ agreed' = {}
  /\ \E ok \in BOOLEAN : SetLegend("_VDX", TRUE, ok) /\ Spend(ok) /\ failed' = ~ok
  /\ UNCHANGED <<model, dialog, quest, timeouts, display, acted>>

\* Mutant: the rows are taken from the selected item on.
DrawSelected(ok) ==
  /\ screen' = [r \in Rows |-> IF redrawLines /\ selected + r \in Items /\ ok
                               THEN selected + r ELSE screen[r]]
  /\ overflow' = TRUE
  /\ cursor' = IF redrawCursor /\ ok THEN selected - first ELSE cursor
  /\ UNCHANGED <<first, selected, redrawLines, redrawCursor>>

\* draw: rows whose item changed, and those that scroll, down to one that
\* cannot be written; then the cursor.  The flags it sets after an error are
\* reset by the next update.
Draw(ok) ==
  LET visible == {r \in 0 .. Height : first + r \in Items}
      due(r)  == redrawLines \/ IsLong(first + r) IN
  IF ~redrawLines /\ ~overflow /\ ~redrawCursor
  THEN UNCHANGED <<screen, cursor, view>>
  ELSE \/ /\ ok
          /\ screen' = [r \in Rows |-> IF r \in visible /\ due(r) THEN first + r ELSE screen[r]]
          /\ overflow' = (\E r \in visible : IsLong(first + r))
          /\ cursor' = IF redrawCursor THEN selected - first ELSE cursor
          /\ UNCHANGED <<first, selected, redrawLines, redrawCursor>>
       \/ /\ ~ok
          /\ \E bad \in visible :
               /\ due(bad)
               /\ screen' = [r \in Rows |-> IF r \in visible /\ r < bad /\ due(r)
                                            THEN first + r ELSE screen[r]]
          /\ redrawLines' = TRUE /\ redrawCursor' = TRUE
          /\ UNCHANGED <<first, selected, overflow, cursor>>
       \/ /\ ~ok /\ redrawCursor /\ UNCHANGED <<cursor, first, selected, redrawLines, redrawCursor>>
          /\ screen' = [r \in Rows |-> IF r \in visible /\ due(r) THEN first + r ELSE screen[r]]
          /\ overflow' = (\E r \in visible : IsLong(first + r))

DrawMenu ==
  /\ pc = "draw" /\ pc' = "keys"
  /\ \E ok \in BOOLEAN : Ok(ok) /\ Draw(ok)
  /\ UNCHANGED <<model, dialog, choice, quest, timeouts, legends, marked, agreed, acted>>

\* update, for a key, a tick, or a key that does nothing here.
Stay ==
  /\ redrawLines' = FALSE /\ redrawCursor' = FALSE
  /\ UNCHANGED <<first, selected, overflow, choice, legends, errors>>

MoveTo(item, newFirst) ==
  /\ selected' = item /\ first' = newFirst
  /\ redrawLines' = (newFirst # first) /\ redrawCursor' = (newFirst = first)
  /\ UNCHANGED <<overflow, choice>>

Up ==
  /\ selected > 0
  /\ MoveTo(selected - 1, IF selected - 1 < first THEN first - 1 ELSE first)
  /\ \E ok \in BOOLEAN :
       Ok(ok) /\ SetLegend(IF selected = 1 THEN "_VDX" ELSE "UVDX", TRUE, ok)

\* Mutant: the legend does not change at the end.
DownLegend ==
  /\ selected < Last
  /\ MoveTo(selected + 1, IF first + Height < selected + 1 THEN first + 1 ELSE first)
  /\ \E ok \in BOOLEAN : Ok(ok) /\ SetLegend("UVDX", TRUE, ok)

Down ==
  /\ selected < Last
  /\ MoveTo(selected + 1, IF first + Height < selected + 1 THEN first + 1 ELSE first)
  /\ \E ok \in BOOLEAN :
       Ok(ok) /\ SetLegend(IF selected + 1 = Last THEN "UV_X" ELSE "UVDX", TRUE, ok)

Choose(c) ==
  /\ choice' = c /\ redrawLines' = FALSE /\ redrawCursor' = FALSE
  /\ UNCHANGED <<first, selected, overflow, legends, errors>>

\* Mutant: the menu does not look at its time.
UpdateForever ==
  /\ pc = "keys" /\ (Stay \/ Up \/ Down) /\ pc' = "draw"
  /\ UNCHANGED <<model, dialog, quest, timeouts, display, agreed, acted>>

Update ==
  /\ pc = "keys"
  /\ \/ Stay /\ pc' = "timer"
     \/ (Up \/ Down) /\ pc' = "timer"
     \/ \E c \in {selected, Cancel} : Choose(c) /\ pc' = "close"
  /\ UNCHANGED <<model, dialog, quest, timeouts, display, agreed, acted>>

\* Run looks for the end of its time before it draws again.  Keys that keep
\* coming do not keep it from that.
Expired ==
  /\ pc = "timer" /\ pc' = "close"
  /\ UNCHANGED <<model, dialog, view, choice, quest, timeouts, legends, display, errors,
                 agreed, acted>>

NotExpired ==
  /\ pc = "timer" /\ pc' = "draw"
  /\ UNCHANGED <<model, dialog, view, choice, quest, timeouts, legends, display, errors,
                 agreed, acted>>

\* The deferred calls: the legend goes, then the text.
CloseMenu ==
  /\ pc = "close" /\ pc' = "confirm"
  /\ \E ok \in BOOLEAN :
       /\ Ok(ok) /\ SetLegend("none", TRUE, ok)
       /\ screen' = IF ok THEN [r \in Rows |-> Other] ELSE screen
  /\ UNCHANGED <<model, dialog, view, choice, quest, timeouts, cursor, marked, agreed, acted>>

-----------------------------------------------------------------------------
(* Question: ConfirmChoice, YesNo, ask, handleEvent. *)

Ask ==
  /\ pc \in {"confirm", "erase"}
  /\ pc' = IF pc = "confirm" THEN "answer" ELSE "answerErase"
  /\ button' = 0 /\ buttonShown' = 0 /\ answer' = "na"
  /\ \E ok \in BOOLEAN :
       /\ Ok(ok) /\ SetLegend("_VRX", TRUE, ok)
       /\ marked' = IF ok THEN 0 ELSE None
       /\ screen' = IF ok THEN [r \in Rows |-> Other] ELSE screen
  /\ UNCHANGED <<model, dialog, view, choice, timeouts, cursor, agreed, acted>>

\* With two buttons, left and right do the same.  The next round of the loop
\* draws them.
Toggle ==
  /\ pc \in {"answer", "answerErase"} /\ UNCHANGED pc
  /\ button' = 1 - button /\ buttonShown' = 1 - button /\ UNCHANGED answer
  /\ \E ok \in BOOLEAN :
       /\ Ok(ok) /\ SetLegend(IF button = 0 THEN "LV_X" ELSE "_VRX", FALSE, ok)
       /\ marked' = IF ok THEN 1 - button ELSE marked
  /\ UNCHANGED <<model, dialog, view, choice, timeouts, screen, cursor, agreed, acted>>

\* YesNo turns a cancelled question into no answer, like a timeout.
Answer ==
  /\ pc \in {"answer", "answerErase"}
  /\ pc' = IF pc = "answer" THEN "answered" ELSE "answeredErase"
  /\ answer' \in {IF button = 1 THEN "yes" ELSE "no", "na"}
  /\ agreed' = IF answer' = "yes" THEN agreed \cup {pc} ELSE agreed
  /\ \E ok \in BOOLEAN : Ok(ok) /\ SetLegend("none", TRUE, ok)
  /\ UNCHANGED <<model, dialog, view, choice, button, buttonShown, timeouts, display, acted>>

-----------------------------------------------------------------------------
(* MenuWithConfirm and its callers. *)

\* Mutant: every question left unanswered counts.
CountedAlways == IF answer = "na" THEN timeouts + 1 ELSE timeouts

\* Only a menu and its question that both time out count.
Counted == IF choice = None /\ answer = "na" THEN timeouts + 1 ELSE timeouts

Again ==
  /\ pc = "answered" /\ answer # "yes" /\ Counted < MaxTimeouts
  /\ timeouts' = Counted /\ pc' = "menu"
  /\ UNCHANGED <<model, dialog, view, choice, quest, legends, display, errors, agreed, acted>>

Does(what) == acted' = what /\ pc' = "done" /\ UNCHANGED <<dialog, answer>>

\* bootMenu, with the items in the order of its constants.
BootChoice ==
  /\ dialog = "boot"
  /\ \/ choice \in {Cancel, None, 0} /\ Does("resume")
     \/ choice = 1 /\ Does("power off")
     \/ choice = 3 /\ Does("restore latest")
     \/ choice = 4 /\ Does("restore original")
     \/ choice = 5 /\ dialog' = "images" /\ pc' = "menu" /\ UNCHANGED <<acted, answer>>
     \/ choice = 7 /\ pc' = "erase" /\ UNCHANGED <<acted, dialog, answer>>
     \/ choice \in Blank /\ Does("resume")

\* archive.Menu; without a choice the restore is cancelled and the boot menu
\* comes back.
ImageChoice ==
  /\ dialog = "images"
  /\ IF choice >= 0
     THEN Does("restore image")
     ELSE dialog' = "boot" /\ pc' = "menu" /\ answer' = "na" /\ UNCHANGED acted

Chosen ==
  /\ pc = "answered" /\ (answer = "yes" \/ Counted >= MaxTimeouts)
  /\ timeouts' = 0
  /\ BootChoice \/ ImageChoice
  /\ UNCHANGED <<model, view, choice, button, buttonShown, legends, display, errors, agreed>>

EraseAnswered ==
  /\ pc = "answeredErase"
  /\ IF answer = "yes"
     THEN Does("erase")
     ELSE pc' = "menu" /\ answer' = "na" /\ UNCHANGED <<acted, dialog>>
  /\ UNCHANGED <<model, view, choice, button, buttonShown, timeouts, legends, display, errors,
                 agreed>>

-----------------------------------------------------------------------------
Next ==
  \/ OpenMenu \/ DrawMenu \/ Update \/ Expired \/ NotExpired \/ CloseMenu
  \/ Ask \/ Toggle \/ Answer
  \/ Again \/ Chosen \/ EraseAnswered

Spec == Init /\ [][Next]_vars

\* The program goes on, and the timers of menus and questions run out; a tick
\* wakes a menu that waits for a key.
Fairness ==
  /\ WF_vars(OpenMenu) /\ WF_vars(DrawMenu) /\ WF_vars(Update) /\ SF_vars(Expired)
  /\ WF_vars(CloseMenu) /\ WF_vars(Ask) /\ WF_vars(Answer)
  /\ WF_vars(Again) /\ WF_vars(Chosen) /\ WF_vars(EraseAnswered)
FairSpec == Spec /\ Fairness

-----------------------------------------------------------------------------
(* Properties. *)

TypeOK ==
  /\ model \in Models /\ dialog \in {"boot", "images"}
  /\ pc \in {"menu", "draw", "keys", "timer", "close", "confirm", "answer", "answered",
             "erase", "answerErase", "answeredErase", "done"}
  /\ first \in Nat /\ selected \in first .. first + Height
  /\ {redrawLines, redrawCursor, overflow, failed} \subseteq BOOLEAN
  /\ choice \in {None, Cancel} \cup 0 .. BootItems + Images
  /\ button \in {0, 1} /\ {buttonShown, marked} \subseteq {None, 0, 1}
  /\ answer \in {"na", "no", "yes"} /\ timeouts \in 0 .. MaxTimeouts - 1
  /\ faults \in 0 .. MaxFaults
  /\ legend \in Legends /\ overlay \in Legends /\ legendWidth \in {0, 1, 3}
  /\ screen \in [Rows -> {Other} \cup 0 .. BootItems + Images] /\ cursor \in Rows
  /\ agreed \subseteq {"answer", "answerErase"}
  /\ acted \in {"nothing", "resume", "power off", "restore latest", "restore original",
                "restore image", "erase"}

(* Whenever a key can be pressed, the cursor is on the row that shows the   *)
(* item Enter would choose (menu.go:150-195, 220-268), and the mark on the  *)
(* button it would press, unless a command to the lcd has failed.           *)
ChoiceIsShown ==
  ~failed => /\ pc = "keys" => screen[cursor] = selected
             /\ pc \in {"answer", "answerErase"} => marked = button

(* The legend offers up and down exactly where they lead somewhere          *)
(* (menu.go:238-262), for menus of more than one item.                      *)
LegendTellsKeys ==
  ~failed /\ pc = "keys" /\ Last > 0 =>
    /\ overlay \in {"UVDX", "UV_X"} <=> selected > 0
    /\ overlay \in {"UVDX", "_VDX"} <=> selected < Last

(* The unit is switched off, restored or erased only after a Yes to the     *)
(* question about this very choice, and erased only after a second Yes      *)
(* (question.go:22, normal.go:357-402).  A menu left alone resumes the boot.*)
ActedOnlyConfirmed ==
  /\ acted \notin {"nothing", "resume"} => "answer" \in agreed
  /\ acted = "erase" => "answerErase" \in agreed

(* A menu or question ends in time, whatever keys keep coming (menu.go:128, *)
(* question.go:157).                                                        *)
DialogsEnd ==
  /\ pc \in {"draw", "keys", "timer"} ~> pc = "confirm"
  /\ pc \in {"answer", "answerErase"} ~> pc \in {"answered", "answeredErase"}

(* The width taken up by the current legend is none without a legend: what  *)
(* lcd.go:39 says of legendWidth.                                           *)
NoLegendNoWidth == legend = "none" => legendWidth = 0

(* A row that could not be written is drawn again next time: what the       *)
(* comment at menu.go:180 says.                                             *)
ErrorRedraws ==
  pc = "draw" /\ (\E r \in 0 .. Height : first + r \in Items /\ screen[r] # first + r)
    => redrawLines
=============================================================================
