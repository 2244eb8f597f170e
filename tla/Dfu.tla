------------------------------- MODULE Dfu -------------------------------
(***************************************************************************)
(* dfu() of dfu.c: connect, switch a running application into its          *)
(* bootloader if need be, then send the init packet and the firmware, the  *)
(* whole sequence up to maxRetries times.  A run of the program may be     *)
(* killed at any point and started again; the bootloader keeps what the    *)
(* reset in between leaves it.                                             *)
(***************************************************************************)
EXTENDS DfuSend

CONSTANTS
  RetryCounts,  \* values of the -c option
  Foreign,      \* lengths of the foreign objects a bootloader may hold at first
  MaxRuns       \* runs of the program

ASSUME RunsAssumption ==
  RetryCounts \subseteq Int /\ Foreign \subseteq Nat \ {0} /\ MaxRuns \in Nat

VARIABLES
  mode,        \* what the device runs: "app" or "bootloader"
  retryCount,  \* the argument of dfu()
  retries,     \* attempts made
  done,
  verdict,     \* the value dfu() returns, "none" before it does
  runs         \* runs of the program so far

loopVars == <<mode, retryCount, retries, done, verdict, runs>>
vars == <<envVars, sendVars, loopVars>>

LoopPC == {"open", "btnless", "reopen", "loop", "closed", "aborted"}

\* int8_t maxRetries = retryCount + 1
Int8(n) == ((n + 128) % 256) - 128
maxRetries == Int8(retryCount + 1)

Init ==
  /\ objs \in [ObjType -> {EmptyObject} \cup {ForeignObject(n) : n \in Foreign}]
  /\ conn = "lost" /\ faults = 0
  /\ pc = "open" /\ type = COMMAND /\ dontResume = FALSE
  /\ send = 0 /\ idx = 0 /\ transferSize = 0 /\ code = "FAILED"
  /\ mode \in {"app", "bootloader"}
  /\ retryCount \in RetryCounts /\ retries = 0 /\ done = FALSE
  /\ verdict = "none" /\ runs = 1

Leave(v) == pc' = "closed" /\ verdict' = v
localVars == <<type, dontResume, send, idx, transferSize, code>>

(* ble_open: discovery has to find the handles.  The same call opens the   *)
(* connection to the bootloader after the buttonless switch.               *)
Open ==
  /\ pc \in {"open", "reopen"}
  /\ \/ /\ conn' = "up"
        /\ pc' = IF mode = "app" /\ pc = "open" THEN "btnless" ELSE "loop"
        /\ UNCHANGED verdict
     \/ conn' = "lost" /\ Leave("FAILED")
  /\ UNCHANGED <<objs, faults, localVars, mode, retryCount, retries, done, runs>>

(* The buttonless service: register for notifications, ask for the         *)
(* bootloader, wait for the disconnect.  No notification can match while   *)
(* notify_waiting_for_op is -1, so the wait returns -1 whether the device  *)
(* heard the command or not.                                               *)
Buttonless ==
  /\ pc = "btnless"
  /\ \/ /\ conn' = "lost"
        /\ mode' \in {"app", "bootloader"}
        /\ pc' = "reopen" /\ UNCHANGED verdict
     \/ conn = "up" /\ conn' \in {"up", "lost"} /\ Leave("FAILED") /\ UNCHANGED mode
  /\ UNCHANGED <<objs, faults, localVars, retryCount, retries, done, runs>>

TriesLeft == retries < maxRetries /\ ~done

(* The head of the retry loop: register for notifications, send the init   *)
(* packet first.  A device still running its application has no control    *)
(* point to register.  When fatalError_ is set the registration made by an *)
(* earlier attempt is found and nothing is waited for: it succeeds.        *)
Attempt ==
  /\ pc = "loop" /\ TriesLeft
  /\ mode = "bootloader" /\ conn # "lost"
  /\ type' = COMMAND /\ pc' = "select"
  /\ UNCHANGED <<envVars, dontResume, send, idx, transferSize, code, loopVars>>

(* The client is not ready, it knows no control point, or the bootloader   *)
(* refuses the write that enables notifications.                           *)
RegisterFails ==
  /\ pc = "loop" /\ TriesLeft /\ conn # "fatal"
  /\ Leave("FAILED")
  /\ UNCHANGED <<envVars, localVars, mode, retryCount, retries, done, runs>>

(* The link is lost while that write waits for its answer, which only the  *)
(* first attempt's does.  dfu() leaves its loop, and ble_close unregisters *)
(* what was never registered: the assertion of gatt-client.c 2991 ends the *)
(* process (GattNotify shows how), and dfu() has returned nothing.         *)
RegisterAborts ==
  /\ pc = "loop" /\ TriesLeft /\ mode = "bootloader" /\ conn = "up" /\ retries = 0
  /\ conn' = "lost" /\ pc' = "aborted"
  /\ UNCHANGED <<objs, faults, localVars, loopVars>>

\* dfuSendPackage has returned: the firmware after the init packet, or the next try.
ReturnedAs(success, attempts) ==
  /\ pc = "returned"
  /\ IF type = COMMAND /\ success
     THEN type' = DATA /\ pc' = "select" /\ UNCHANGED <<done, retries>>
     ELSE /\ done' = success
          /\ retries' = attempts
          /\ pc' = "loop" /\ UNCHANGED type
  /\ UNCHANGED <<envVars, dontResume, send, idx, transferSize, code,
                 mode, retryCount, verdict, runs>>

\* Mutants: the code is not looked at; the attempt is not counted.
ReturnedUnchecked == ReturnedAs(TRUE, retries + 1)
ReturnedUncounted == ReturnedAs(code = "SUCCESS", retries)

Returned == ReturnedAs(code = "SUCCESS", retries + 1)

LoopEnds ==
  /\ pc = "loop" /\ ~TriesLeft
  /\ Leave(IF done THEN "SUCCESS" ELSE "FAILED")
  /\ UNCHANGED <<envVars, localVars, mode, retryCount, retries, done, runs>>

(* The program is started again, after it ended or after it was killed.    *)
(* Statics start over; the device may have been reset.                     *)
RunAgain ==
  /\ runs < MaxRuns /\ runs' = runs + 1
  /\ objs' \in AfterReset(objs) /\ mode' \in {"app", "bootloader"}
  /\ conn' = "lost" /\ faults' = 0
  /\ pc' = "open" /\ dontResume' = FALSE
  /\ retries' = 0 /\ done' = FALSE /\ verdict' = "none"
  /\ UNCHANGED <<type, send, idx, transferSize, code, retryCount>>

ProgramNext ==
  \/ SendNext /\ UNCHANGED loopVars
  \/ Open \/ Buttonless \/ Attempt \/ RegisterFails \/ RegisterAborts \/ Returned \/ LoopEnds

(* Where the main loop runs until a notification comes or the device       *)
(* disconnects: behind the write of each request, and of the one that      *)
(* sends the application into its bootloader.                              *)
Waiting ==
  \/ pc \in {"select", "resume", "create", "next", "again", "execute", "finish", "btnless"}
  \/ pc = "stream" /\ ~MoreToStream

(* The peer acknowledges the write, which stops the ATT timer, and then    *)
(* does not do what it is waited for.  epoll_wait has no timeout: only the *)
(* loss of the link, or the user, ends this wait.                          *)
PeerFallsSilent ==
  /\ Waiting /\ conn = "up" /\ conn' = "silent"
  /\ UNCHANGED <<objs, faults, sendVars, loopVars>>

Next == ProgramNext \/ PeerFallsSilent \/ RunAgain

Spec == Init /\ [][Next]_vars

(* The program is sequential and keeps running while its requests are      *)
(* answered or fail.  Nothing makes a silent link break, and nobody has to *)
(* start the program again.                                                *)
FairSpec == Spec /\ WF_vars(conn # "silent" /\ ProgramNext)
---------------------------------------------------------------------------
TypeOK ==
  /\ SendTypeOK
  /\ pc \in SendPC \cup LoopPC
  /\ mode \in {"app", "bootloader"}
  /\ retryCount \in Int /\ retries \in Nat
  /\ done \in BOOLEAN
  /\ verdict \in Code \cup {"none"}
  /\ runs \in Nat

Holds(t) == objs[t].exBytes = "package" /\ objs[t].exOff = Len[t]

(* dfu() returns SUCCESS only when the bootloader has executed the whole   *)
(* init packet and, behind it, the whole firmware, byte for byte (dfu.c    *)
(* 401-407, 427), whichever mix of resumed and repeated blocks led there.  *)
SuccessMeansInstalled == verdict = "SUCCESS" => Holds(COMMAND) /\ Holds(DATA)

(* While the firmware is being sent the device holds exactly the init      *)
(* packet that goes with it: an init packet resumed from an earlier run    *)
(* never lets the firmware in under another one (dfu.c 402-404).           *)
DataAfterInit == type = DATA /\ pc \in SendPC => Holds(COMMAND)

(* While a block is streamed the client's count of acknowledged bytes is   *)
(* the bootloader's count of executed bytes, and those are the package's:  *)
(* a retransmission starts where the bootloader expects it (dfu.c 205-340).*)
InStep == pc = "stream" => objs[type].exBytes = "package" /\ objs[type].exOff = send

(* The bootloader is never asked to execute bytes that are not the         *)
(* package's, and executes none before the init packet (dfu.c 138, 279,    *)
(* 290).                                                                   *)
ExecutedIsVerified ==
  [][\A t \in ObjType : objs'[t].exOff > objs[t].exOff =>
       /\ objs'[t].exBytes = "package" /\ objs'[t].exOff <= Len[t]
       /\ t = DATA => Holds(COMMAND)]_vars

(* The dontResume flag makes retries worth their name: every attempt that  *)
(* fails with the connection still usable is paid for by a fault, except   *)
(* one, which meets leftovers it cannot resume; after that one the init    *)
(* packet is sent afresh and the leftovers are gone (dfu.c 72, 130-169).   *)
AttemptsSuffice ==
  pc = "loop" /\ conn = "up" /\ ~done => retries <= faults + 1

\* A retransmission into an object smaller than the data it will be sent.
Undersized ==
  pc = "again" /\ transferSize < Smaller(BlockSize[type], Len[type] - send)

(* dfu() returns (dfu.c 205-340, 387-416), but for three exceptions:       *)
(*  - the peer acknowledges a request, never notifies, and keeps the link  *)
(*    up: nothing ends the wait (mainloop.c 149);                          *)
(*  - the retransmission loop, which counts nothing, goes round for ever:  *)
(*    only once an object was created too small for what is sent into it;  *)
(*  - the link is lost during the first attempt's registration: an         *)
(*    assertion ends the process (gatt-client.c 2991).                     *)
Returns ==
  \/ <>[](conn = "silent")
  \/ []<>Undersized
  \/ verdict = "none" ~> verdict # "none" \/ pc = "aborted"

(* What the update promises about the device, seen through the objects of  *)
(* the bootloader.                                                         *)
Promise == INSTANCE Update WITH
  Length    <- Len[DATA],
  accepted  <- Holds(COMMAND),
  installed <- IF objs[DATA].exBytes = "package" THEN objs[DATA].exOff ELSE 0
KeepsPromise == Promise!Spec

(* "CRC error, retry the transmission ... will now retransmit the data"    *)
(* (dfu.c 316-318): the object created for the retransmission has the size *)
(* of the data that is sent again.                                         *)
RetransmissionFits ==
  pc = "again" => transferSize = Smaller(BlockSize[type], Len[type] - send)

(* "-c retry_count" (nrfdfu.c 8) and "Too many retries, the operation      *)
(* failed!!!" (dfu.c 422): dfu() gives up on the device only after the     *)
(* first attempt and retryCount more.                                      *)
RetriesHonoured ==
  pc = "loop" /\ ~TriesLeft /\ ~done => retries > retryCount
=============================================================================
