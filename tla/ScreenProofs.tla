---------------------------- MODULE ScreenProofs ----------------------------
(***************************************************************************)
(* What a user sees and is asked before init goes on.                       *)
(*                                                                         *)
(* For any usb disks and any number of searches: nothing is decided before  *)
(* the grace time is over, and what was found by then decides.  The results *)
(* are written without a lock; the argument is that each is written by one  *)
(* thread that never takes it back.                                         *)
(*                                                                         *)
(* For menus of any length, with any blank and long items: what is done was *)
(* confirmed, and as long as no command to the lcd fails, the display shows *)
(* what Enter would choose and which keys lead somewhere.                   *)
(***************************************************************************)
EXTENDS BootScreen, LcdMenu, TLAPS

-----------------------------------------------------------------------------
(* The grace time. *)

(* Until the time is over, only a key leads past the wait                   *)
(* (normal.go:317-327, message.go:130-180).                                 *)
TimeIsUp ==
  /\ main \in {"clear", "write"} /\ ~pressed => done
  /\ main = "return" \/ Decided => done

(* What is found stays found: the search for files ends with them, and      *)
(* nothing resets the search for the root device (normal.go:330-352).       *)
FindsStay ==
  /\ emergencyFiles = "found" => usb = "end"
  /\ atDone.files => emergencyFiles = "found"
  /\ atDone.root => foundRoot

ScreenInv == TimeIsUp /\ FindsStay /\ FoundCounts

(* The thread of waitSearch and what follows it.                            *)
LEMMA MainStepKeeps ==
  ASSUME ScreenInv, MainStep
  PROVE  ScreenInv'
<1> USE DEF ScreenInv, TimeIsUp, FindsStay, FoundCounts, Decided, Outcomes, Ends, MainTo,
            results, signals, outside, lcd
<1>1. CASE NoLcd
  BY <1>1 DEF NoLcd
<1>2. CASE WaitForEvent
  BY <1>2 DEF WaitForEvent
<1>3. CASE Clear
  BY <1>3 DEF Clear
<1>4. CASE WriteResult
  BY <1>4 DEF WriteResult
<1>5. CASE SpinnerDisplay
  BY <1>5 DEF SpinnerDisplay
<1>6. CASE SpinnerLock
  BY <1>6 DEF SpinnerLock
<1>7. CASE SpinnerEnds
  BY <1>7 DEF SpinnerEnds
<1>8. CASE Return
  BY <1>8 DEF Return
<1>9. CASE CleanMounts
  BY <1>9 DEF CleanMounts
<1>10. CASE SwitchRoot
  BY <1>10 DEF SwitchRoot
<1> QED
  BY <1>1, <1>2, <1>3, <1>4, <1>5, <1>6, <1>7, <1>8, <1>9, <1>10 DEF MainStep

(* The goroutines only add to the results.                                  *)
LEMMA GoroutinesKeep ==
  ASSUME ScreenInv, Goroutines
  PROVE  ScreenInv'
<1> USE DEF ScreenInv, TimeIsUp, FindsStay, FoundCounts, Decided, Outcomes, Ends,
            results, signals, outside, lcd
<1>1. CASE LongMsgStart \/ LongMsgScroll \/ LongMsgEnd
  BY <1>1 DEF LongMsgStart, LongMsgScroll, LongMsgEnd, MsgTo
<1>2. CASE UsbMount \/ UsbUnmount \/ UsbAgain \/ UsbDone
  BY <1>2 DEF UsbMount, UsbUnmount, UsbAgain, UsbDone, UsbTo
<1>3. CASE UsbList
  BY <1>3 DEF UsbList, UsbTo
<1>4. CASE UsbFound
  BY <1>4 DEF UsbFound, UsbTo
<1>5. CASE RootStat \/ RootDone
  BY <1>5 DEF RootStat, RootDone, RootTo
<1> QED BY <1>1, <1>2, <1>3, <1>4, <1>5 DEF Goroutines

(* The timer takes down what was found, before anything can be decided.     *)
LEMMA WorldKeeps ==
  ASSUME ScreenInv, PressKey \/ DeviceAppears \/ Insert \/ Timer \/ UNCHANGED screenVars
  PROVE  ScreenInv'
<1> USE DEF ScreenInv, TimeIsUp, FindsStay, FoundCounts, Decided, Outcomes, Ends,
            threads, results, signals, outside, lcd
<1>1. CASE PressKey \/ DeviceAppears \/ Insert
  BY <1>1 DEF PressKey, DeviceAppears, Insert
<1>2. CASE Timer
  BY <1>2 DEF Timer
<1>3. CASE UNCHANGED screenVars
  BY <1>3 DEF screenVars
<1> QED BY <1>1, <1>2, <1>3

LEMMA BootScreenInvariant == ScreenSpec => []ScreenInv
<1>1. ScreenInit => ScreenInv
  <2> SUFFICES ASSUME ScreenInit PROVE ScreenInv
    OBVIOUS
  <2>1. /\ main \in {"wait", "no lcd"} /\ emergencyFiles = "none"
        /\ ~atDone.files /\ ~atDone.root
    BY DEF ScreenInit
  <2>2. ~Decided
    BY <2>1 DEF Decided, Outcomes, Ends
  <2> QED BY <2>1, <2>2 DEF ScreenInv, TimeIsUp, FindsStay, FoundCounts
<1>2. ScreenInv /\ [ScreenNext]_screenVars => ScreenInv'
  BY MainStepKeeps, GoroutinesKeep, WorldKeeps DEF ScreenNext
<1> QED BY <1>1, <1>2, PTL DEF ScreenSpec

(* Whatever the threads and the user do, waitSearch returns only when       *)
(* graceTime is over (normal.go:273, 317-327).                              *)
THEOREM GraceIsKept == ScreenSpec => []GraceKept
<1>1. ScreenInv => GraceKept
  BY DEF ScreenInv, TimeIsUp, GraceKept
<1> QED BY <1>1, BootScreenInvariant, PTL

(* Without a key, emergency files or a root device found in time decide     *)
(* what is done (normal.go:145-180), though two threads write the results   *)
(* without a lock.                                                          *)
THEOREM FindsDecide == ScreenSpec => []FoundCounts
<1>1. ScreenInv => FoundCounts
  BY DEF ScreenInv
<1> QED BY <1>1, BootScreenInvariant, PTL

-----------------------------------------------------------------------------
(* Confirmation. *)

(* A Yes on the way to an action is about the choice just made: agreed is   *)
(* emptied when a menu opens, and a menu that times out too often has no    *)
(* choice to act on (question.go:22-60).                                    *)
Confirmation ==
  /\ timeouts \in 0 .. MaxTimeouts - 1 /\ choice \in Int /\ selected \in Int
  /\ pc = "answered" /\ answer = "yes" => "answer" \in agreed
  /\ pc \in {"erase", "answerErase", "answeredErase"} => "answer" \in agreed
  /\ pc = "answeredErase" /\ answer = "yes" => "answerErase" \in agreed
  /\ acted # "nothing" => pc = "done"

ConfirmInv == Confirmation /\ ActedOnlyConfirmed

(* Without a Yes a choice is taken up only when there is none: the count of *)
(* timeouts grows by one at a time, and only without a choice.              *)
LEMMA TakenUpOrNone ==
  ASSUME Confirmation, Chosen
  PROVE  answer = "yes" \/ choice = None
BY MenuAssumption DEF Confirmation, Chosen, Counted

(* No item has the number of a menu without a choice (cfa.CHOICE_NONE).     *)
LEMMA NoItem == None \in Int /\ Cancel \in Int /\ \A n \in Nat : n # None
BY DEF None, Cancel

LEMMA ConfirmStep ==
  ASSUME ConfirmInv, [Next]_vars
  PROVE  ConfirmInv'
<1> USE MenuAssumption DEF ConfirmInv, Confirmation, ActedOnlyConfirmed
<1>1. CASE OpenMenu
  BY <1>1, NoItem DEF OpenMenu, quest
<1>2. CASE DrawMenu
  BY <1>2 DEF DrawMenu, Draw, view, quest
<1>10. CASE Update
  <2>1. /\ UNCHANGED <<timeouts, answer, agreed, acted>>
        /\ pc' \in {"timer", "close"} /\ pc = "keys"
    BY <1>10 DEF Update, quest
  <2>2. choice' \in {choice, selected, Cancel}
    BY <1>10 DEF Update, Stay, Up, Down, MoveTo, Choose
  <2>3. selected' \in {selected, selected - 1, selected + 1}
    BY <1>10 DEF Update, Stay, Up, Down, MoveTo, Choose
  <2> QED BY <2>1, <2>2, <2>3, NoItem
<1>11. CASE Expired \/ NotExpired \/ CloseMenu
  BY <1>11 DEF Expired, NotExpired, CloseMenu, view, quest
<1>3. CASE Ask
  BY <1>3 DEF Ask, view
<1>4. CASE Toggle
  BY <1>4 DEF Toggle, view
<1>5. CASE Answer
  BY <1>5 DEF Answer, view
<1>6. CASE Again
  BY <1>6 DEF Again, Counted, view, quest
<1>7. CASE Chosen
  <2>1. /\ timeouts' = 0 /\ agreed' = agreed /\ acted = "nothing"
        /\ choice = None \/ "answer" \in agreed
        /\ choice' = choice /\ selected' = selected
    BY <1>7, TakenUpOrNone DEF Chosen, view
  <2>2. \/ pc' = "menu" /\ acted' = acted
        \/ pc' = "done" /\ acted' = "resume"
        \/ pc' \in {"done", "erase"} /\ choice # None /\ acted' # "erase"
    <3>1. CASE BootChoice
      BY <2>1, <3>1, NoItem DEF BootChoice, Does
    <3>2. CASE ImageChoice
      <4>1. CASE choice >= 0
        <5>1. choice \in Nat /\ choice # None
          BY <4>1, NoItem
        <5>2. pc' = "done" /\ acted' = "restore image"
          BY <3>2, <4>1 DEF ImageChoice, Does
        <5> QED BY <5>1, <5>2
      <4>2. CASE ~(choice >= 0)
        BY <3>2, <4>2 DEF ImageChoice
      <4> QED BY <4>1, <4>2
    <3> QED BY <1>7, <3>1, <3>2 DEF Chosen
  <2>3. pc' = "erase" => acted' = acted
    <3>1. CASE BootChoice
      BY <3>1 DEF BootChoice, Does
    <3>2. CASE ImageChoice
      BY <3>2 DEF ImageChoice, Does
    <3> QED BY <1>7, <3>1, <3>2 DEF Chosen
  <2> QED BY <2>1, <2>2, <2>3
<1>8. CASE EraseAnswered
  BY <1>8 DEF EraseAnswered, Does, view
<1>9. CASE UNCHANGED vars
  BY <1>9 DEF vars, view, quest
<1> QED BY <1>1, <1>2, <1>3, <1>4, <1>5, <1>6, <1>7, <1>8, <1>9, <1>10,
           <1>11 DEF Next

(* However the menus and questions go, and whatever the display does: the   *)
(* unit is switched off, restored or erased only after a Yes to the         *)
(* question about this very choice (normal.go:357-402).                     *)
THEOREM ActsAreConfirmed == Spec => []ActedOnlyConfirmed
<1>1. Init => ConfirmInv
  BY MenuAssumption, NoItem DEF Init, ConfirmInv, Confirmation, ActedOnlyConfirmed
<1>2. ConfirmInv /\ [Next]_vars => ConfirmInv'
  BY ConfirmStep
<1>3. ConfirmInv => ActedOnlyConfirmed
  BY DEF ConfirmInv
<1> QED BY <1>1, <1>2, <1>3, PTL DEF Spec

-----------------------------------------------------------------------------
(* The display. *)

Browsing == pc \in {"draw", "keys", "timer"}

(* The view is on the selected item (menu.go:220-268).                      *)
InView ==
  Browsing => /\ first \in Nat /\ selected \in Items
              /\ first <= selected /\ selected <= first + Height

LinesShown  == \A r \in 0 .. Height : first + r \in Items => screen[r] = first + r
CursorShown == cursor = selected - first

(* What is not on display is marked to be drawn (menu.go:150-195).          *)
RestIsDue == (redrawLines \/ LinesShown) /\ (redrawCursor \/ CursorShown)

ScreenFollows ==
  ~failed => /\ pc = "keys" => LinesShown /\ CursorShown
             /\ pc = "draw" \/ pc = "timer" => RestIsDue
             /\ pc \in {"answer", "answerErase"} => marked = button

MenuLegend == IF selected = 0 THEN "_VDX" ELSE IF selected = Last THEN "UV_X" ELSE "UVDX"

(* The legend is that of the place in the menu; every menu and question     *)
(* takes its legend away in the end, so that the next one sets its own      *)
(* (buttons.go:240-285).                                                    *)
LegendFollows ==
  /\ pc \in {"menu", "confirm", "answered", "erase", "answeredErase", "done"} => legend = "none"
  /\ ~failed /\ Browsing => legend = MenuLegend /\ overlay = MenuLegend

Flags == {redrawLines, redrawCursor, overflow, failed} \subseteq BOOLEAN

ShowInv == Flags /\ InView /\ ScreenFollows /\ LegendFollows

LEMMA LastItem ==
  /\ Last \in Nat /\ Items = 0 .. Last
<1> DEFINE n == (IF dialog = "boot" THEN BootItems ELSE Images) - 1
<1>1. n \in Nat /\ Items = 0 .. n
  BY MenuAssumption DEF Items
<1>2. n \in Items /\ \A i \in Items : n >= i
  BY <1>1
<1>3. Last \in Items /\ \A i \in Items : Last >= i
  BY <1>2 DEF Last, Max
<1> HIDE DEF n
<1>4. Last = n
  BY <1>1, <1>2, <1>3
<1> QED BY <1>1, <1>4

(* setLegend ends with the legend it is given, and shows it, unless the     *)
(* command fails or the 635 has no place for it (buttons.go:240).           *)
LEMMA LegendIsSet ==
  ASSUME NEW l, NEW ok \in BOOLEAN, SetLegend(l, TRUE, ok)
  PROVE  /\ legend' = l
         /\ ok /\ (overlay = legend \/ legend # l) => overlay' = l
BY DEF SetLegend, legends

LEMMA LegendIsGone ==
  ASSUME NEW ok \in BOOLEAN, SetLegend("none", TRUE, ok)
  PROVE  legend' = "none"
BY LegendIsSet

(* The rows and the cursor after draw (menu.go:150-195).                    *)
LEMMA DrawShows ==
  ASSUME ShowInv, DrawMenu, ~failed'
  PROVE  LinesShown' /\ CursorShown'
<1>1. PICK ok \in BOOLEAN : Ok(ok) /\ Draw(ok)
  BY DEF DrawMenu
<1>2. ok /\ ~failed
  BY <1>1 DEF Ok, ShowInv, Flags
<1>3. RestIsDue
  BY <1>2 DEF ShowInv, ScreenFollows, DrawMenu
<1>6. UNCHANGED <<model, dialog>>
  BY DEF DrawMenu
<1>4. CASE ~redrawLines /\ ~overflow /\ ~redrawCursor
  BY <1>1, <1>3, <1>4, <1>6 DEF RestIsDue, Draw, view, LinesShown, CursorShown, Items, Height
<1>5. CASE ~(~redrawLines /\ ~overflow /\ ~redrawCursor)
  <2> DEFINE visible == {r \in 0 .. Height : first + r \in Items}
             due(r)  == redrawLines \/ IsLong(first + r)
  <2>1. /\ screen' = [r \in Rows |-> IF r \in visible /\ due(r) THEN first + r ELSE screen[r]]
        /\ cursor' = IF redrawCursor THEN selected - first ELSE cursor
        /\ UNCHANGED <<first, selected>>
    BY <1>1, <1>2, <1>5 DEF Draw
  <2>2. Height' = Height /\ Items' = Items
    BY <1>6 DEF Height, Items
  <2>3. ASSUME NEW r \in 0 .. Height, first + r \in Items
        PROVE  screen'[r] = first + r
    <3>1. r \in Rows /\ r \in visible
      BY <2>3 DEF Rows, Height
    <3>2. ~redrawLines => screen[r] = first + r
      BY <1>3, <2>3 DEF RestIsDue, LinesShown
    <3> QED BY <2>1, <3>1, <3>2
  <2>4. CursorShown'
    BY <1>3, <2>1 DEF RestIsDue, CursorShown
  <2> QED BY <2>1, <2>2, <2>3, <2>4 DEF LinesShown
<1> QED BY <1>4, <1>5

(* A key moves the selection by one, and the view with it where it must     *)
(* (menu.go:220-268).                                                       *)
LEMMA UpdateShows ==
  ASSUME ShowInv, Update
  PROVE  InView' /\ ScreenFollows' /\ LegendFollows'
<1>0. /\ pc = "keys" /\ UNCHANGED <<model, dialog, screen, cursor>>
      /\ pc' \in {"timer", "close"}
  BY DEF Update, display
<1>1. /\ first \in Nat /\ selected \in Nat /\ selected <= Last
      /\ first <= selected /\ selected <= first + Height
      /\ Last \in Nat /\ Items = 0 .. Last
  BY <1>0, LastItem DEF ShowInv, InView, Browsing
<1>2. Height' = Height /\ Items' = Items /\ Last' = Last /\ Height \in {1, 3}
  BY <1>0 DEF Height, Items, Last
<1>3. ~failed => LinesShown /\ CursorShown /\ legend = MenuLegend /\ overlay = MenuLegend
  BY <1>0 DEF ShowInv, ScreenFollows, LegendFollows, Browsing
<1>4. CASE Stay
  BY <1>0, <1>1, <1>2, <1>3, <1>4 DEF Stay, InView, ScreenFollows, LegendFollows, Browsing,
     RestIsDue, LinesShown, CursorShown, MenuLegend, legends, errors
<1>5. CASE \E c \in {selected, Cancel} : Choose(c) /\ pc' = "close"
  BY <1>5 DEF InView, ScreenFollows, LegendFollows, Browsing
<1>6. CASE Up \/ Down
  <2>1. PICK ok \in BOOLEAN :
          /\ Ok(ok)
          /\ SetLegend(MenuLegend', TRUE, ok)
    <3>1. CASE Up
      <4>1. /\ selected > 0 /\ selected' = selected - 1
            /\ \E ok \in BOOLEAN :
                 Ok(ok) /\ SetLegend(IF selected = 1 THEN "_VDX" ELSE "UVDX", TRUE, ok)
        BY <3>1 DEF Up, MoveTo
      <4>2. MenuLegend' = IF selected = 1 THEN "_VDX" ELSE "UVDX"
        BY <1>1, <1>2, <4>1 DEF MenuLegend
      <4> QED BY <4>1, <4>2
    <3>2. CASE Down
      <4>1. /\ selected < Last /\ selected' = selected + 1
            /\ \E ok \in BOOLEAN :
                 Ok(ok) /\ SetLegend(IF selected + 1 = Last THEN "UV_X" ELSE "UVDX", TRUE, ok)
        BY <3>2 DEF Down, MoveTo
      <4>2. MenuLegend' = IF selected + 1 = Last THEN "UV_X" ELSE "UVDX"
        BY <1>1, <1>2, <4>1 DEF MenuLegend
      <4> QED BY <4>1, <4>2
    <3> QED BY <1>6, <3>1, <3>2
  <2>2. /\ first' \in Nat /\ selected' \in 0 .. Last
        /\ first' <= selected' /\ selected' <= first' + Height
        /\ redrawLines' = (first' # first) /\ redrawCursor' = (first' = first)
        /\ first' # first => selected' - first' = selected - first
    <3>1. CASE Up
      <4>1. /\ selected > 0 /\ selected' = selected - 1
            /\ first' = IF selected - 1 < first THEN first - 1 ELSE first
            /\ redrawLines' = (first' # first) /\ redrawCursor' = (first' = first)
        BY <3>1 DEF Up, MoveTo
      <4> QED BY <1>1, <1>2, <4>1
    <3>2. CASE Down
      <4>1. /\ selected < Last /\ selected' = selected + 1
            /\ first' = IF first + Height < selected + 1 THEN first + 1 ELSE first
            /\ redrawLines' = (first' # first) /\ redrawCursor' = (first' = first)
        BY <3>2 DEF Down, MoveTo
      <4> QED BY <1>1, <1>2, <4>1
    <3> QED BY <1>6, <3>1, <3>2
  <2>3. ~failed' => ~failed /\ ok
    BY <2>1 DEF Ok, ShowInv, Flags
  <2>4. ~failed' => legend' = MenuLegend' /\ overlay' = MenuLegend'
    BY <1>3, <2>1, <2>3, LegendIsSet
  <2>5. ~failed' => RestIsDue'
    <3>1. CASE first' = first
      BY <1>0, <1>2, <1>3, <2>2, <2>3, <3>1 DEF RestIsDue, LinesShown
    <3>2. CASE first' # first
      BY <1>0, <1>3, <2>2, <2>3, <3>2 DEF RestIsDue, CursorShown
    <3> QED BY <3>1, <3>2
  <2>6. pc' \in {"timer", "close"}
    BY <1>0
  <2>7. InView'
    BY <1>1, <1>2, <2>2 DEF InView
  <2>8. ScreenFollows'
    BY <2>5, <2>6 DEF ScreenFollows
  <2>9. LegendFollows'
    BY <2>4, <2>6 DEF LegendFollows
  <2> QED BY <2>7, <2>8, <2>9
<1> QED BY <1>4, <1>5, <1>6 DEF Update

LEMMA FlagsStep ==
  ASSUME Flags, [Next]_vars
  PROVE  Flags'
<1> USE DEF Flags
<1>1. CASE OpenMenu
  BY <1>1 DEF OpenMenu
<1>2. CASE DrawMenu
  BY <1>2 DEF DrawMenu, Draw, Ok, view
<1>3. CASE Update
  BY <1>3 DEF Update, Stay, Up, Down, MoveTo, Choose, Ok, errors
<1>4. CASE Expired \/ NotExpired \/ Again \/ Chosen \/ EraseAnswered \/ UNCHANGED vars
  BY <1>4 DEF Expired, NotExpired, Again, Chosen, EraseAnswered, vars, view, errors
<1>5. CASE CloseMenu \/ Ask \/ Toggle \/ Answer
  BY <1>5 DEF CloseMenu, Ask, Toggle, Answer, Ok, view
<1> QED BY <1>1, <1>2, <1>3, <1>4, <1>5 DEF Next

(* Outside of a menu, only the legend and the marked button matter.         *)
LEMMA QuestionShows ==
  ASSUME ShowInv, CloseMenu \/ Ask \/ Toggle \/ Answer
  PROVE  InView' /\ ScreenFollows' /\ LegendFollows'
<1> USE DEF InView, ScreenFollows, LegendFollows, Browsing
<1>1. CASE CloseMenu
  BY <1>1, LegendIsGone DEF CloseMenu
<1>2. CASE Ask
  BY <1>2 DEF Ask, Ok, ShowInv, Flags
<1>3. CASE Toggle
  <2>1. /\ pc' = pc /\ pc \in {"answer", "answerErase"}
        /\ ~failed' => marked' = button'
    BY <1>3 DEF Toggle, Ok, ShowInv, Flags
  <2> QED BY <2>1
<1>4. CASE Answer
  BY <1>4, LegendIsGone DEF Answer
<1> QED BY <1>1, <1>2, <1>3, <1>4

LEMMA ShowStep ==
  ASSUME ShowInv, [Next]_vars
  PROVE  ShowInv'
<1>0. Flags'
  BY FlagsStep DEF ShowInv
<1>1. CASE OpenMenu
  <2>1. /\ pc' = "draw" /\ first' = 0 /\ selected' = 0 /\ redrawLines' /\ redrawCursor'
        /\ legend = "none" /\ UNCHANGED dialog
    BY <1>1 DEF OpenMenu, ShowInv, LegendFollows
  <2>2. 0 \in Items'
    <3>1. 0 \in Items
      BY LastItem
    <3>2. Items' = Items
      BY <2>1 DEF Items
    <3> QED BY <3>1, <3>2
  <2>3. InView'
    BY <2>1, <2>2 DEF InView, Height
  <2>4. ScreenFollows'
    BY <2>1 DEF ScreenFollows, RestIsDue
  <2>5. ~failed' => legend' = "_VDX" /\ overlay' = "_VDX"
    <3>1. PICK ok \in BOOLEAN : SetLegend("_VDX", TRUE, ok) /\ failed' = ~ok
      BY <1>1 DEF OpenMenu
    <3>2. legend # "_VDX"
      BY <2>1
    <3>3. ASSUME ok PROVE overlay' = "_VDX"
      BY <3>1, <3>2, <3>3, LegendIsSet
    <3>4. legend' = "_VDX"
      BY <3>1, LegendIsSet
    <3> QED BY <3>1, <3>3, <3>4
  <2>6. LegendFollows'
    BY <2>1, <2>5 DEF LegendFollows, MenuLegend
  <2> QED BY <1>0, <2>3, <2>4, <2>6 DEF ShowInv
<1>2. CASE DrawMenu
  <2>1. /\ pc = "draw" /\ pc' = "keys" /\ UNCHANGED <<model, dialog, first, selected, legend, overlay>>
    BY <1>2 DEF DrawMenu, Draw, view, legends
  <2>2. ~failed' => ~failed
    BY <1>2 DEF DrawMenu, Ok, ShowInv, Flags
  <2>3. ScreenFollows'
    BY <1>2, <2>1, DrawShows DEF ScreenFollows
  <2>4. InView'
    BY <2>1 DEF ShowInv, InView, Browsing, Height, Items
  <2>5. MenuLegend' = MenuLegend
    BY <2>1 DEF MenuLegend, Last, Items
  <2>6. LegendFollows'
    BY <2>1, <2>2, <2>5 DEF ShowInv, LegendFollows, Browsing
  <2> QED BY <1>0, <2>3, <2>4, <2>6 DEF ShowInv
<1>3. CASE Update
  BY <1>0, <1>3, UpdateShows DEF ShowInv
<1>4. CASE Expired
  BY <1>0, <1>4 DEF Expired, ShowInv, InView, ScreenFollows, LegendFollows, Browsing
<1>5. CASE NotExpired
  <2>1. /\ pc = "timer" /\ pc' = "draw"
        /\ UNCHANGED <<model, dialog, first, selected, redrawLines, redrawCursor, legend,
                       overlay, screen, cursor, failed>>
    BY <1>5 DEF NotExpired, view, legends, display, errors
  <2>2. InView'
    BY <2>1 DEF ShowInv, InView, Browsing, Height, Items
  <2>3. RestIsDue' = RestIsDue /\ MenuLegend' = MenuLegend
    BY <2>1 DEF RestIsDue, LinesShown, CursorShown, MenuLegend, Last, Items, Height
  <2>4. ScreenFollows'
    BY <2>1, <2>3 DEF ShowInv, ScreenFollows
  <2>5. LegendFollows'
    BY <2>1, <2>3 DEF ShowInv, LegendFollows, Browsing
  <2> QED BY <1>0, <2>2, <2>4, <2>5 DEF ShowInv
<1>6. CASE CloseMenu \/ Ask \/ Toggle \/ Answer
  BY <1>0, <1>6, QuestionShows DEF ShowInv
<1>7. CASE Again \/ Chosen \/ EraseAnswered
  <2>1. /\ pc \in {"answered", "answeredErase"} /\ pc' \in {"menu", "erase", "done"}
        /\ UNCHANGED legend
    BY <1>7 DEF Again, Chosen, BootChoice, ImageChoice, EraseAnswered, Does, legends
  <2> QED
    BY <1>0, <2>1 DEF ShowInv, InView, ScreenFollows, LegendFollows, Browsing
<1>8. CASE UNCHANGED vars
  BY <1>0, <1>8 DEF vars, view, quest, display, errors, legends, ShowInv, InView, ScreenFollows,
     LegendFollows, Browsing, RestIsDue, LinesShown, CursorShown, MenuLegend, Items, Height, Last
<1> QED BY <1>1, <1>2, <1>3, <1>4, <1>5, <1>6, <1>7, <1>8 DEF Next

LEMMA ShowInvariant == Spec => []ShowInv
<1>1. Init => ShowInv
  BY DEF Init, ShowInv, Flags, InView, ScreenFollows, LegendFollows, Browsing
<1>2. ShowInv /\ [Next]_vars => ShowInv'
  BY ShowStep
<1> QED BY <1>1, <1>2, PTL DEF Spec

(* Whenever a key can be pressed, the cursor is on the item Enter would     *)
(* choose and the mark on the button it would press, in menus of any length *)
(* on either display (menu.go:150-195, 220-268, question.go:157-200).       *)
THEOREM ChoiceOnDisplay == Spec => []ChoiceIsShown
<1>1. ASSUME ShowInv PROVE ChoiceIsShown
  <2>1. ASSUME ~failed, pc = "keys" PROVE screen[cursor] = selected
    <3>1. LinesShown /\ CursorShown
      BY <1>1, <2>1 DEF ShowInv, ScreenFollows
    <3>2. /\ first \in Nat /\ selected \in Nat /\ selected \in Items
          /\ first <= selected /\ selected <= first + Height
      BY <1>1, <2>1, LastItem DEF ShowInv, InView, Browsing
    <3>3. cursor \in 0 .. Height /\ first + cursor = selected
      BY <3>1, <3>2 DEF CursorShown, Height
    <3> QED BY <3>1, <3>2, <3>3 DEF LinesShown
  <2>2. ASSUME ~failed, pc \in {"answer", "answerErase"} PROVE marked = button
    BY <1>1, <2>2 DEF ShowInv, ScreenFollows
  <2> QED BY <2>1, <2>2 DEF ChoiceIsShown
<1> QED BY <1>1, ShowInvariant, PTL

(* The legend offers up and down exactly where they lead somewhere, in      *)
(* menus of any length (menu.go:238-262).                                   *)
THEOREM LegendIsTrue == Spec => []LegendTellsKeys
<1>1. ASSUME ShowInv PROVE LegendTellsKeys
  <2>1. SUFFICES ASSUME ~failed, pc = "keys", Last > 0
                 PROVE  /\ overlay \in {"UVDX", "UV_X"} <=> selected > 0
                        /\ overlay \in {"UVDX", "_VDX"} <=> selected < Last
    BY DEF LegendTellsKeys
  <2>2. overlay = MenuLegend /\ selected \in 0 .. Last /\ Last \in Nat
    BY <1>1, <2>1, LastItem DEF ShowInv, InView, LegendFollows, Browsing
  <2> QED BY <2>1, <2>2 DEF MenuLegend
<1> QED BY <1>1, ShowInvariant, PTL
=============================================================================
