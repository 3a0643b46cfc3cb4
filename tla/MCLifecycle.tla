---------------------------- MODULE MCLifecycle -----------------------------
(* Two or three images: new is the newest and old the oldest.               *)
EXTENDS Lifecycle

CONSTANTS new, mid, old

MCImages == {new, old}
MCNewest == <<new, old>>
ThreeImages == {new, mid, old}
ThreeNewest == <<new, mid, old>>
NewAndOld == {new, old}
MCOddNames == {NoImage}
OnlyNew == {new}
OnlyOld == {old}

NoFr == [state |-> "absent", options |-> {}]
Fr(o) == [state |-> "ok", options |-> o]
SomeFr == {NoFr, Fr({"xlog"}), Fr({"ignoreNet"}), Fr({"preserve"})}
AnyFr == SomeFr \cup {Fr({"clear"}), Fr({"preserve", "clear"})}
ClearFr == {NoFr, Fr({"clear"}), Fr({"preserve", "clear", "xlog"})}
XlogFr == {Fr({"preserve", "xlog"})}
AllMenu == {"resume", "poweroff", "latest", "original", "choose", "erase"}
AllUsbs == {"none", "json", "unusable", old}
NoUsbs == {"none"}
=============================================================================
