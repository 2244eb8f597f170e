------------------------------ MODULE MCQueue ------------------------------
(* Queue with four elements, so that a callback can remove its own entry   *)
(* and another and keep one in front and one behind, and an address more   *)
(* for the entry that is removed and held.                                 *)
EXTENDS Queue
CONSTANTS d1, d2, d3, d4
MCData == {d1, d2, d3, d4}
=============================================================================
