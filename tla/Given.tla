------------------------------- MODULE Given -------------------------------
(* The input of one call of a part that keeps no state.                      *)
VARIABLE given
=============================================================================
