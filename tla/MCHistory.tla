----------------------------- MODULE MCHistory ------------------------------
(* Two images and one name without the prefix; counts saturate one past the *)
(* limit, where Check no longer tells them apart.                           *)
EXTENDS HistoryProc, TLC

CONSTANTS a, b, odd

MCImages == {a, b}
MCOddNames == {odd}
Symmetry == Permutations(MCImages)
=============================================================================
