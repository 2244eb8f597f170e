----------------------------- MODULE MCBleWait -----------------------------
(* Values for the constants of BleWait: two op codes, and enough requests  *)
(* for the same op code to be asked twice, in a row and with another one   *)
(* in between.                                                             *)
EXTENDS BleWait

MCOps == {"checksum", "execute"}
=============================================================================
