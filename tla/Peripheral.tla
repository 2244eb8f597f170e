---------------------------- MODULE Peripheral ----------------------------
(***************************************************************************)
(* The nRF5 bootloader, as dfu.c drives it over the control point and the  *)
(* packet characteristic.  It is not part of this repository: everything   *)
(* here is external, and is what dfu.c (and the Nordic DFU protocol it     *)
(* follows) relies on.                                                     *)
(*                                                                         *)
(* The bootloader keeps one object per object type.  The bytes themselves  *)
(* are abstracted to one bit: does what the object holds equal the first   *)
(* "off" bytes of the package the client is sending?  Two CRC-32 values    *)
(* are equal exactly when the contents are (collisions are not modelled).  *)
(***************************************************************************)
EXTENDS Integers

COMMAND == "COMMAND"
DATA    == "DATA"
ObjType == {COMMAND, DATA}

(* off    bytes received so far, what SELECT and CALCULATE_CHECKSUM report  *)
(* bytes  whether they are the first off bytes of the package              *)
(* exOff  bytes up to the last executed object, exBytes the same for those *)
(* size   length announced by the last CREATE, 0 when no object is open    *)
Bytes  == {"package", "other"}
Object == [off : Nat, bytes : Bytes, exOff : Nat, exBytes : Bytes, size : Nat]

FreshObject(n) ==
  [off |-> 0, bytes |-> "package", exOff |-> 0, exBytes |-> "package", size |-> n]
EmptyObject == FreshObject(0)

\* n bytes of some other package, left by another program or firmware.
ForeignObject(n) ==
  [off |-> n, bytes |-> "other", exOff |-> n, exBytes |-> "other", size |-> 0]

(* CREATE discards what was received after the last execute.  A new init   *)
(* command starts the update over: the progress of both types is erased.   *)
Truncated(o, n) ==
  [off |-> o.exOff, bytes |-> o.exBytes, exOff |-> o.exOff, exBytes |-> o.exBytes, size |-> n]
Created(objs, t, n) ==
  IF t = COMMAND
  THEN [u \in ObjType |-> IF u = COMMAND THEN FreshObject(n) ELSE EmptyObject]
  ELSE [objs EXCEPT ![t] = Truncated(objs[t], n)]

\* An object has a length, and data is only taken after an init command.
CreateAllowed(objs, t, n) == n > 0 /\ (t = DATA => objs[COMMAND].exOff > 0)

(* n bytes of the package, taken from position pos, arrive.  A chunk that  *)
(* does not fit the open object is refused; no answer tells the client.    *)
Written(o, pos, n, intact) ==
  IF o.off + n > o.exOff + o.size THEN o
  ELSE [off     |-> o.off + n,
        bytes   |-> IF intact /\ pos = o.off THEN o.bytes ELSE "other",
        exOff   |-> o.exOff, exBytes |-> o.exBytes, size |-> o.size]

Acknowledged(o) ==
  [off |-> o.off, bytes |-> o.bytes, exOff |-> o.off, exBytes |-> o.bytes, size |-> o.size]
Executed(objs, t) == [objs EXCEPT ![t] = Acknowledged(objs[t])]

\* The open object is full and not executed yet: EXECUTE has to succeed.
Complete(o) == o.size > 0 /\ o.off = o.exOff + o.size

(* A partly filled object is never executed.  Executing again what was     *)
(* executed before changes nothing, and may be refused.                    *)
ExecuteAllowed(o) == Complete(o) \/ o.off = o.exOff

\* What a reset may leave: nothing lost, only executed objects kept, or nothing.
AfterReset(objs) ==
  {objs, [t \in ObjType |-> Truncated(objs[t], 0)], [t \in ObjType |-> EmptyObject]}
=============================================================================
