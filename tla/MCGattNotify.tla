--------------------------- MODULE MCGattNotify ---------------------------
(* Registrations for GattNotify: one that writes the CCC and two that wait *)
(* behind it, or follow it.                                                *)
EXTENDS GattNotify, TLC

CONSTANTS r1, r2, r3, r4

MCRegs == {r1, r2, r3, r4}
MCPair == {r1, r2}
=============================================================================
