CONSTANTS
  Disks = {"plain", "files"}
  MaxPolls = 2
  Models = {"631", "635"}
  BootItems = 8
  Blank = {2, 6}
  Long = {0, 3, 4, 5}
  Images = 2
  MaxTimeouts = 2
  MaxFaults = 1
SPECIFICATION MCSpec
INVARIANTS GraceKept FoundCounts ChoiceIsShown LegendTellsKeys ActedOnlyConfirmed
PROPERTIES WaitEnds DialogsEnd
\* Once the unit boots or restores, or the menu has acted, the screen is over.
CHECK_DEADLOCK FALSE
