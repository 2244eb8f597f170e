------------------------------- MODULE MCAtt -------------------------------
(* Att with a few operations: enough for a command on either side of a     *)
(* request, a request behind a pending one and one sent from a callback.   *)
EXTENDS Att
=============================================================================
