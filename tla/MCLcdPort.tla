---------------------------- MODULE MCLcdPort ----------------------------
(* LcdPort with either a spinner or keys, each of which multiplies the states. *)
EXTENDS LcdPort

MCInit == Init /\ (keys = 0 \/ \A t \in Spinners : At(t, "off"))
MCSpec == MCInit /\ [][Next]_vars /\ Fairness
=============================================================================
