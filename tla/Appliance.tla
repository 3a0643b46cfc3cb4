------------------------------ MODULE Appliance ------------------------------
(***************************************************************************)
(* What the normal kernel promises about the primary disk: a system is     *)
(* started only from a complete installation; an installation is destroyed *)
(* before another one appears; and only images that can be extracted are   *)
(* ever installed.                                                         *)
(***************************************************************************)
CONSTANTS
  Installable,  \* images that can be extracted
  None          \* no installation, nothing running

VARIABLES
  installed,    \* the image a boot would start, if any
  running       \* the image that is running, if any

applianceVars == <<installed, running>>

Init == installed = None /\ running = None

Install(i) ==
  /\ installed = None /\ running = None
  /\ installed' = i /\ UNCHANGED running

Destroy == running = None /\ installed' = None /\ UNCHANGED running

Start ==
  /\ running = None /\ installed # None
  /\ running' = installed /\ UNCHANGED installed

Stop == running' = None /\ UNCHANGED installed

Next == Destroy \/ Start \/ Stop \/ \E i \in Installable : Install(i)

Spec == Init /\ [][Next]_applianceVars
=============================================================================
