----------------------------- MODULE MCScreens -----------------------------
(* What a user sees before init goes on, for TLC: the screen of the grace time, *)
(* after which there is no menu, or the menu after a grace time in which a key *)
(* was pressed and all else that could happen has happened.                 *)
EXTENDS BootScreen, LcdMenu

NoMenu ==
  /\ model = "631" /\ pc = "done" /\ dialog = "boot"
  /\ first = 0 /\ selected = 0 /\ redrawLines = FALSE /\ redrawCursor = FALSE /\ overflow = FALSE
  /\ choice = None /\ button = 0 /\ buttonShown = None /\ answer = "na" /\ timeouts = 0
  /\ legend = "none" /\ legendWidth = 0 /\ overlay = "none"
  /\ screen = [r \in Rows |-> Other] /\ cursor = 0 /\ marked = None
  /\ failed = FALSE /\ faults = 0 /\ agreed = {} /\ acted = "nothing"

ScreenOver ==
  /\ main = "menu" /\ msg = "end" /\ usb = "end" /\ root = "end" /\ polls = 0
  /\ mutex = "free" /\ onLcd = "please wait" /\ done = TRUE /\ internalDone = TRUE
  /\ key = TRUE /\ pressed = TRUE /\ foundRoot = FALSE /\ emergencyFiles = "none"
  /\ device = TRUE /\ disk = "plain" /\ mounted = FALSE
  /\ atDone = [root |-> FALSE, files |-> FALSE]

MCInit == (ScreenInit /\ NoMenu) \/ (ScreenOver /\ Init)
MCNext == (ScreenNext /\ UNCHANGED vars) \/ (Next /\ UNCHANGED screenVars)
MCSpec == MCInit /\ [][MCNext]_<<screenVars, vars>> /\ ScreenFairness /\ Fairness
=============================================================================
