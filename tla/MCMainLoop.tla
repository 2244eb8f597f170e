---------------------------- MODULE MCMainLoop ----------------------------
(* MainLoop with a table of six descriptors in a process of seven, so that *)
(* the second update runs into both limits.                                *)
EXTENDS MainLoop
MCPlaces == 1..3
=============================================================================
