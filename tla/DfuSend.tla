----------------------------- MODULE DfuSend -----------------------------
(***************************************************************************)
(* dfuSendPackage() of dfu.c: send one package (the init packet as         *)
(* COMMAND, the firmware as DATA) to the bootloader, resuming what an      *)
(* earlier transfer left there when that can be trusted.                   *)
(*                                                                         *)
(* Every ble_wait_setup / ble_send_cp / ble_wait_run triple is one action: *)
(* the bootloader acts only on requests, so nothing interleaves with it.   *)
(* What can go wrong with a request is in Fails.  Data chunks are queued   *)
(* by the client and leave before the request that follows them; they are  *)
(* applied to the object one by one.                                       *)
(***************************************************************************)
EXTENDS Peripheral, FiniteSets

CONSTANTS
  Len,        \* Len[t]: bytes of the package sent as type t
  BlockSize,  \* BlockSize[t]: the object size SELECT reports for type t
  Payload,    \* min(GATT_PAYLOAD(mtu), MAX_DFU_PAYLOAD), bytes of a chunk
  MaxFaults,  \* faults of the radio or the bootloader in one program run
  StrictSizes \* the bootloader refuses a data object shorter than a block, the last excepted

(* Nothing here is checked by dfu.c: an empty package "succeeds" without a *)
(* byte sent, and a block size of 0 divides by zero at line 134.           *)
ASSUME SizesAssumption ==
  /\ Len \in [ObjType -> Nat \ {0}]
  /\ BlockSize \in [ObjType -> Nat \ {0}]
  /\ Payload \in Nat \ {0}
  /\ MaxFaults \in Nat
  /\ StrictSizes \in BOOLEAN

(* The bootloader starts the update over at every CREATE of an init        *)
(* command, so an init packet has to fit one object.                       *)
ASSUME InitFitsAssumption == Len[COMMAND] <= BlockSize[COMMAND]

VARIABLES
  objs,          \* the bootloader's objects
  conn,          \* "up"; "lost": disconnected; "fatal": up, but mainloop.c's fatalError_ is set;
                 \* "silent": up, but what the main loop waits for will not come
  faults,        \* faults so far in this run of the program
  pc,            \* where dfuSendPackage (and, in Dfu, dfu) is
  type,          \* packageType
  dontResume,    \* the static flag
  send,          \* bytes the bootloader has acknowledged
  idx,           \* currentBlockIndex
  transferSize,  \* size of the object to create next
  code           \* the value returned: SUCCESS or any other

envVars  == <<objs, conn, faults>>
sendVars == <<pc, type, dontResume, send, idx, transferSize, code>>

SendPC == {"select", "resume", "create", "stream", "execute", "finish",
           "next", "again", "returned"}
Code == {"SUCCESS", "FAILED"}

Smaller(a, b) == IF a < b THEN a ELSE b

\* Mutants of the two operators below: the CRC ignored, the operands swapped.
CrcIgnored(o) == o.off <= Len[type]
ClipSwapped(n, offset) == Smaller(n, offset - Len[type])

\* crc32_compute(packageData, returnedOffset, 0) == returnedCRC32
CrcMatches(o) == o.bytes = "package" /\ o.off <= Len[type]

(* "if (transferSize > packageDataLength - offset)": the subtraction is    *)
(* unsigned and an offset past the end would leave the size alone.         *)
Clip(n, offset) == IF offset <= Len[type] THEN Smaller(n, Len[type] - offset) ELSE n

---------------------------------------------------------------------------
(* The ways a request that would turn the objects into "effect" can end    *)
(* with a code other than SUCCESS.  mustServe: an obedient bootloader      *)
(* would have served it.                                                   *)
Disconnected(effect) ==
  conn \in {"up", "silent"} /\ conn' = "lost" /\ objs' \in {objs, effect} /\ UNCHANGED faults
WriteRejected == conn = "up" /\ conn' = "fatal" /\ UNCHANGED <<objs, faults>>
Faulty(effect) ==
  /\ conn = "up" /\ faults < MaxFaults
  /\ faults' = faults + 1 /\ objs' \in {objs, effect} /\ UNCHANGED conn
Refused(mustServe) == conn = "up" /\ ~mustServe /\ UNCHANGED envVars

Fails(effect, mustServe) ==
  \/ Disconnected(effect)
  \/ WriteRejected
  \/ Faulty(effect)
  \/ Refused(mustServe)

Answered(effect) == conn = "up" /\ objs' = effect /\ UNCHANGED <<conn, faults>>

Return(c) == pc' = "returned" /\ code' = c

---------------------------------------------------------------------------
\* Sending starts at offset n; with nothing left to send the package is done.
BeginTransfer(n) ==
  /\ send' = n
  /\ transferSize' = Smaller(Smaller(Len[type], BlockSize[type]), Len[type] - n)
  /\ IF transferSize' = 0 THEN Return("SUCCESS") ELSE pc' = "create" /\ UNCHANGED code
  /\ UNCHANGED <<type, idx>>

\* Mutant: the flag is not set.
GiveUpQuietly ==
  /\ Return("FAILED")
  /\ UNCHANGED <<type, dontResume, send, idx, transferSize>>

GiveUpResuming ==
  /\ dontResume' = TRUE
  /\ Return("FAILED")
  /\ UNCHANGED <<type, send, idx, transferSize>>

\* What SELECT found: nothing, something to resume, or something unusable.
Selected ==
  LET o          == objs[type]
      restarting == type = COMMAND /\ dontResume
      onBoundary == o.off % BlockSize[type] = 0 \/ o.off = Len[type]
  IN \/ /\ o.off = 0 \/ (CrcMatches(o) /\ restarting)
        /\ BeginTransfer(0) /\ UNCHANGED dontResume
     \/ /\ o.off > 0 /\ CrcMatches(o) /\ ~restarting /\ onBoundary
        /\ send' = o.off /\ pc' = "resume"
        /\ UNCHANGED <<type, dontResume, idx, transferSize, code>>
     \/ /\ o.off > 0 /\ CrcMatches(o) /\ ~restarting /\ ~onBoundary
        /\ GiveUpResuming
     \/ /\ o.off > 0 /\ ~CrcMatches(o) /\ type = DATA
        /\ GiveUpResuming
     \/ /\ o.off > 0 /\ ~CrcMatches(o) /\ type = COMMAND
        /\ BeginTransfer(0) /\ UNCHANGED dontResume

FailedHere == Return("FAILED") /\ UNCHANGED <<type, dontResume, send, idx, transferSize>>

(* The only request that can be the first one after a failed request: once *)
(* the link or the main loop is gone it fails without reaching anybody.    *)
Select ==
  /\ pc = "select"
  /\ \/ Answered(objs) /\ Selected
     \/ Fails(objs, TRUE) /\ FailedHere
     \/ conn \in {"lost", "fatal"} /\ UNCHANGED envVars /\ FailedHere

(* The bootloader decodes an init packet when it executes it, and refuses  *)
(* a part of one (external).                                               *)
Entire == type = COMMAND => objs[COMMAND].off = Len[COMMAND]
Served == ExecuteAllowed(objs[type]) /\ Entire

ExecuteAnswered == Served /\ Answered(Executed(objs, type))
ExecuteFails ==
  Fails(IF Served THEN Executed(objs, type) ELSE objs, Complete(objs[type]) /\ Entire)

\* EXECUTE acknowledges the data found by SELECT.
Resume ==
  /\ pc = "resume"
  /\ \/ ExecuteAnswered /\ BeginTransfer(send) /\ UNCHANGED dontResume
     \/ ExecuteFails /\ GiveUpResuming

(* "specifying using smaller transfers than this seems to fail" (line 178):*)
(* a bootloader may refuse them, and a strict one does (external).         *)
RegularSize ==
  type = DATA => transferSize = Smaller(BlockSize[DATA], Len[DATA] - objs[DATA].exOff)
Creatable == CreateAllowed(objs, type, transferSize) /\ (StrictSizes => RegularSize)

\* CREATE, from one of its three places; the loop then streams from "send".
CreateAt(place) ==
  /\ pc = place
  /\ LET effect == Created(objs, type, transferSize)
     IN \/ /\ Creatable /\ Answered(effect)
           /\ pc' = "stream" /\ idx' = 0
           /\ UNCHANGED <<type, dontResume, send, transferSize, code>>
        \/ Fails(IF Creatable THEN effect ELSE objs, Creatable /\ RegularSize) /\ FailedHere

Create      == CreateAt("create")  \* before the loop
CreateNext  == CreateAt("next")    \* after a block was executed
CreateAgain == CreateAt("again")   \* after a CRC error

MoreToStream == send + idx < Len[type] /\ idx < BlockSize[type]

\* A chunk stops at the end of the package and at the end of the block.
ChunkLength == Smaller(Smaller(Payload, Len[type] - send - idx), BlockSize[type] - idx)

Chunk(n, fate) ==
  objs' = IF fate = "dropped" THEN objs
          ELSE [objs EXCEPT ![type] = Written(objs[type], send + idx, n, fate = "intact")]

Stream ==
  /\ pc = "stream" /\ MoreToStream
  /\ \/ Chunk(ChunkLength, "intact") /\ UNCHANGED faults
     \/ /\ faults < MaxFaults /\ faults' = faults + 1
        /\ \E fate \in {"dropped", "corrupted"} : Chunk(ChunkLength, fate)
  /\ idx' = idx + ChunkLength
  /\ UNCHANGED <<conn, pc, type, dontResume, send, transferSize, code>>

\* ble_send_data_noresp has no room for the chunk.
StreamFails ==
  /\ pc = "stream" /\ MoreToStream
  /\ faults < MaxFaults /\ faults' = faults + 1
  /\ UNCHANGED <<objs, conn>>
  /\ FailedHere

\* What the answer to CALCULATE_CHECKSUM decides; "acknowledged" becomes "send".
CheckedAs(acknowledged) ==
  LET o == objs[type]
  IN \/ o.off = 0 /\ FailedHere
     \/ /\ o.off > 0 /\ CrcMatches(o)
        /\ send' = acknowledged
        /\ pc' = IF send' >= Len[type] THEN "finish" ELSE "execute"
        /\ UNCHANGED <<type, dontResume, idx, transferSize, code>>
     \/ /\ o.off > 0 /\ ~CrcMatches(o)
        /\ transferSize' = Clip(transferSize, o.off)
        /\ pc' = "again"
        /\ UNCHANGED <<type, dontResume, send, idx, code>>

\* Mutant: what was sent counts, not what the bootloader reports.
CheckedBySent == CheckedAs(send + idx)

Checked == CheckedAs(objs[type].off)

\* CALCULATE_CHECKSUM after a block.
Checksum ==
  /\ pc = "stream" /\ ~MoreToStream
  /\ \/ Answered(objs) /\ Checked
     \/ Fails(objs, TRUE) /\ FailedHere

\* EXECUTE of a block that is not the last.
Execute ==
  /\ pc = "execute"
  /\ \/ /\ ExecuteAnswered
        /\ transferSize' = Clip(transferSize, send)
        /\ pc' = "next"
        /\ UNCHANGED <<type, dontResume, send, idx, code>>
     \/ ExecuteFails /\ FailedHere

\* EXECUTE of the last one.
Finish ==
  /\ pc = "finish"
  /\ \/ /\ ExecuteAnswered /\ Return("SUCCESS")
        /\ UNCHANGED <<type, dontResume, send, idx, transferSize>>
     \/ ExecuteFails /\ FailedHere

SendNext ==
  \/ Select \/ Resume \/ Create \/ CreateNext \/ CreateAgain
  \/ Stream \/ StreamFails \/ Checksum \/ Execute \/ Finish

SendTypeOK ==
  /\ objs \in [ObjType -> Object]
  /\ conn \in {"up", "lost", "fatal", "silent"}
  /\ faults \in 0..MaxFaults
  /\ type \in ObjType
  /\ dontResume \in BOOLEAN
  /\ send \in Nat /\ idx \in Nat /\ transferSize \in Nat
  /\ code \in Code
=============================================================================
