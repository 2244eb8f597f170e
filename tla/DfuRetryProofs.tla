-------------------------- MODULE DfuRetryProofs --------------------------
(***************************************************************************)
(* Proof that retrying is worth it (AttemptsSuffice of Dfu), on top of the *)
(* invariant of DfuProofs.                                                 *)
(*                                                                         *)
(* An attempt that fails has to be paid for: by a fault, or by setting     *)
(* dontResume, which is never reset while the program runs.  Budget says   *)
(* that the attempts made so far are paid for, and that the attempt under  *)
(* way is undisturbed unless it is paid for too.  Undisturbed follows an   *)
(* attempt no fault has touched: the bootloader holds exactly what was     *)
(* streamed, in an object of the size the client will fill, so nothing it  *)
(* is asked can be refused; and once dontResume is set nothing is left to  *)
(* be resumed.                                                             *)
(***************************************************************************)
EXTENDS DfuProofs

\* How many failed attempts the faults and the flag pay for.
Allowance == IF dontResume THEN faults + 1 ELSE faults

\* The object being filled starts behind the executed ones and ends with the block.
Regular(o) ==
  /\ o.size = Smaller(BlockSize[type], Len[type] - o.exOff)
  /\ type = COMMAND => o.exOff = 0
  /\ transferSize = o.size

Undisturbed ==
  /\ pc = "select" /\ type = DATA /\ dontResume => objs[DATA].off = 0
  /\ pc = "resume" => ~dontResume
  /\ pc \in {"create", "next"} =>
       transferSize = Smaller(BlockSize[type], Len[type] - send)
  /\ pc = "stream" => /\ Regular(objs[type])
                      /\ objs[type].off = send + idx /\ objs[type].bytes = "package"
                      /\ idx <= objs[type].size
  /\ pc \in {"execute", "finish"} => Regular(objs[type]) /\ Complete(objs[type])
  /\ pc # "again"
  /\ pc = "returned" => code = "SUCCESS"
  /\ pc \in {"stream", "execute", "finish", "returned"} /\ type = COMMAND /\ dontResume =>
       objs[DATA].off = 0

Budget ==
  /\ (conn = "up" \/ pc \in {"open", "btnless", "reopen"}) /\ ~done => retries <= Allowance
  /\ conn = "up" /\ pc \in SendPC => retries < Allowance \/ Undisturbed

USE SizesAssumption, InitFitsAssumption, RunsAssumption

---------------------------------------------------------------------------
\* The allowance, apart from its two cases.
LEMMA AllowanceIs ==
  ASSUME IInv
  PROVE  /\ retries \in Nat /\ faults \in Nat /\ Allowance \in Nat
         /\ dontResume => Allowance = faults + 1
         /\ ~dontResume => Allowance = faults
<1>1. retries \in Nat /\ faults \in Nat
  BY DEF IInv, TypeOK, SendTypeOK
<1>2. CASE dontResume
  BY <1>1, <1>2 DEF Allowance
<1>3. CASE ~dontResume
  BY <1>1, <1>3 DEF Allowance
<1> QED BY <1>2, <1>3

LEMMA AllowanceIsNext ==
  ASSUME IInv'
  PROVE  /\ retries' \in Nat /\ faults' \in Nat /\ Allowance' \in Nat
         /\ dontResume' => Allowance' = faults' + 1
         /\ ~dontResume' => Allowance' = faults'
<1>1. retries' \in Nat /\ faults' \in Nat
  BY DEF IInv, TypeOK, SendTypeOK
<1>2. dontResume' => Allowance' = faults' + 1
  BY Zenon DEF Allowance
<1>3. ~dontResume' => Allowance' = faults'
  BY Zenon DEF Allowance
<1>4. Allowance' = faults' \/ Allowance' = faults' + 1
  BY <1>2, <1>3, Zenon
<1>5. Allowance' \in Nat
  BY <1>1, <1>4
<1> QED BY <1>1, <1>2, <1>3, <1>5, Zenon

\* In the middle of a package no attempt has succeeded yet.
LEMMA NotDone == IInv /\ pc \in SendPC => ~done
BY DEF IInv, Order, SendPC

(* A request that fails with the link still up either took a fault or was  *)
(* one the bootloader need not have served.                                *)
LEMMA FailsCosts ==
  ASSUME NEW STATE effect, NEW STATE must, Fails(effect, must), conn' = "up"
  PROVE  conn = "up" /\ (faults' = faults + 1 \/ (faults' = faults /\ objs' = objs /\ ~must))
BY DEF Fails, Disconnected, WriteRejected, Faulty, Refused, envVars

(* A failure is within the budget when it took a fault, when it set the    *)
(* flag, or when it was paid for already.                                  *)
LEMMA FailureInBudget ==
  ASSUME IInv, IInv', Budget, pc \in SendPC, Return("FAILED"), UNCHANGED loopVars,
         dontResume => dontResume',
         conn' = "up" =>
           /\ conn = "up"
           /\ \/ faults' = faults + 1
              \/ faults' = faults /\ (retries < Allowance \/ (~dontResume /\ dontResume'))
  PROVE  Budget'
<1>1. pc' = "returned" /\ retries' = retries /\ ~done
  BY NotDone DEF Return, loopVars
<1>2. CASE conn' = "up"
  <2>1. retries <= Allowance
    BY <1>1, <1>2 DEF Budget
  <2>2. retries' < Allowance'
    BY <1>1, <1>2, <2>1, AllowanceIs, AllowanceIsNext
  <2> QED BY <2>2, AllowanceIsNext DEF Budget
<1>3. CASE conn' # "up"
  BY <1>1, <1>3 DEF Budget
<1> QED BY <1>2, <1>3

(* A step that neither fails nor takes a fault only has to keep the        *)
(* attempt undisturbed.                                                    *)
LEMMA QuietInBudget ==
  ASSUME IInv, IInv', Budget, pc \in SendPC, pc' \in SendPC, UNCHANGED loopVars,
         UNCHANGED <<conn, faults, dontResume>>,
         conn = "up" /\ Undisturbed => Undisturbed'
  PROVE  Budget'
<1>1. Allowance' = Allowance /\ retries' = retries /\ done' = done
  BY DEF Allowance, loopVars
<1>2. pc \notin {"open", "btnless", "reopen"} /\ pc' \notin {"open", "btnless", "reopen"}
  BY DEF SendPC
<1> QED BY <1>1, <1>2 DEF Budget

---------------------------------------------------------------------------
\* Without a fault SELECT meets leftovers it cannot resume only while it may resume.
LEMMA SelectInBudget ==
  ASSUME IInv, IInv', Budget, Select, UNCHANGED loopVars
  PROVE  Budget'
<1>1. pc = "select" /\ pc \in SendPC /\ type \in ObjType /\ objs[type].off \in Nat
  BY DEF Select, SendPC, IInv, TypeOK, SendTypeOK, Object
<1>2. CASE FailedHere /\ (Fails(objs, TRUE) \/ (conn \in {"lost", "fatal"} /\ UNCHANGED envVars))
  <2>1. conn' = "up" => conn = "up" /\ faults' = faults + 1
    BY <1>2, FailsCosts DEF envVars
  <2> QED BY <1>1, <1>2, <2>1, FailureInBudget DEF FailedHere
<1>3. CASE Answered(objs) /\ Selected
  <2>1. conn = "up" /\ objs' = objs /\ UNCHANGED <<conn, faults>>
    BY <1>3 DEF Answered
  <2>2. retries < Allowance \/ (type = DATA /\ dontResume => objs[type].off = 0)
    BY <1>1, <2>1 DEF Budget, Undisturbed
  <2>3. CASE GiveUpResuming /\ objs[type].off > 0 /\ (type = DATA \/ ~dontResume)
    <3>1. retries < Allowance \/ ~dontResume
      BY <2>2, <2>3, <1>1
    <3> QED BY <1>1, <2>1, <2>3, <3>1, FailureInBudget DEF GiveUpResuming
  <2>4. CASE BeginTransfer(0) /\ UNCHANGED dontResume
    <3>1. Undisturbed'
      BY <1>1, <2>4 DEF Undisturbed, BeginTransfer, Smaller, Return, SizesAssumption
    <3>2. pc' \in SendPC
      BY <2>4 DEF BeginTransfer, Return, SendPC
    <3> QED BY <1>1, <2>1, <2>4, <3>1, <3>2, QuietInBudget
  <2>5. CASE /\ objs[type].off > 0 /\ (type = DATA \/ ~dontResume)
             /\ pc' = "resume" /\ UNCHANGED dontResume
    <3>1. Undisturbed => Undisturbed'
      BY <1>1, <2>5 DEF Undisturbed
    <3> QED BY <1>1, <2>1, <2>5, <3>1, QuietInBudget DEF SendPC
  <2> QED BY <1>1, <1>3, <2>3, <2>4, <2>5 DEF Selected, ObjType
<1> QED BY <1>2, <1>3 DEF Select

\* What EXECUTE leaves of the objects it does not execute.
LEMMA OtherObject ==
  ASSUME IInv, ExecuteAnswered, type = COMMAND
  PROVE  objs'[DATA] = objs[DATA]
BY DEF ExecuteAnswered, Answered, Executed, IInv, TypeOK, SendTypeOK, ObjType, COMMAND, DATA

LEMMA ResumeInBudget ==
  ASSUME IInv, IInv', Budget, Resume, UNCHANGED loopVars
  PROVE  Budget'
<1>1. pc = "resume" /\ pc \in SendPC /\ type \in ObjType /\ send \in Nat
      /\ send <= Len[type]
  BY DEF Resume, SendPC, IInv, TypeOK, SendTypeOK, Believed, CrcMatches
<1>2. conn = "up" => retries < Allowance \/ ~dontResume
  BY <1>1 DEF Budget, Undisturbed
<1>3. CASE ExecuteFails /\ GiveUpResuming
  <2>1. conn' = "up" => conn = "up" /\ (faults' = faults + 1 \/ faults' = faults)
    BY <1>3 DEF ExecuteFails, Fails, Disconnected, WriteRejected, Faulty, Refused, envVars
  <2> QED BY <1>1, <1>2, <1>3, <2>1, FailureInBudget DEF GiveUpResuming
<1>4. CASE ExecuteAnswered /\ BeginTransfer(send) /\ UNCHANGED dontResume
  <2>1. UNCHANGED <<conn, faults>>
    BY <1>4 DEF ExecuteAnswered, Answered
  <2>2. Undisturbed => Undisturbed'
    BY <1>1, <1>4 DEF Undisturbed, BeginTransfer, Smaller, Return, SizesAssumption, ObjType
  <2>3. pc' \in SendPC
    BY <1>4 DEF BeginTransfer, Return, SendPC
  <2> QED BY <1>1, <1>4, <2>1, <2>2, <2>3, QuietInBudget
<1> QED BY <1>3, <1>4 DEF Resume
---------------------------------------------------------------------------
\* Streaming and executing an undisturbed object leads to its end.
LEMMA CreateInBudget ==
  ASSUME IInv, IInv', Budget, NEW place \in {"create", "next", "again"}, CreateAt(place),
         UNCHANGED loopVars
  PROVE  Budget'
<1>1. /\ pc = place /\ pc \in SendPC /\ type \in ObjType /\ send \in Nat /\ send < Len[type]
      /\ transferSize \in Nat /\ Sound(objs)
      /\ type = COMMAND => send = 0
      /\ type = DATA => Holds(COMMAND) /\ objs[DATA].exOff = send
  BY InvEnv DEF CreateAt, SendPC, IInv, TypeOK, SendTypeOK, Believed, Order, EnvOK, ObjType
<1> DEFINE whole == transferSize = Smaller(BlockSize[type], Len[type] - send)
<1>2. Undisturbed => pc # "again" /\ whole
  BY <1>1 DEF Undisturbed
<1>3. whole => transferSize > 0 /\ Creatable /\ RegularSize
  <2>1. whole => transferSize > 0
    BY <1>1 DEF Smaller, SizesAssumption
  <2>2. type = DATA => objs[COMMAND].exOff > 0
    BY <1>1 DEF Holds, SizesAssumption, ObjType
  <2>3. whole => RegularSize
    BY <1>1 DEF RegularSize
  <2> QED BY <2>1, <2>2, <2>3 DEF Creatable, CreateAllowed
<1> DEFINE effect == Created(objs, type, transferSize)
<1>4. CASE /\ Answered(effect) /\ pc' = "stream" /\ idx' = 0
           /\ UNCHANGED <<type, dontResume, send, transferSize, code>>
  <2>1. UNCHANGED <<conn, faults>> /\ objs' = effect
    BY <1>4 DEF Answered
  <2>2. /\ objs'[type].off = send /\ objs'[type].exOff = send /\ objs'[type].bytes = "package"
        /\ objs'[type].size = transferSize
        /\ type = COMMAND => objs'[DATA].off = 0
    <3>1. objs'[type].exOff = send /\ objs'[type].exBytes = "package"
      BY <1>4 DEF IInv, Believed
    <3>2. CASE type = DATA
      <4>1. objs'[DATA] = Truncated(objs[DATA], transferSize)
        BY <1>1, <2>1, <3>2 DEF Created, Sound, COMMAND, DATA
      <4> QED BY <3>1, <3>2, <4>1 DEF Truncated, COMMAND, DATA
    <3>3. CASE type = COMMAND
      <4>1. objs'[COMMAND] = FreshObject(transferSize) /\ objs'[DATA] = EmptyObject
        BY <2>1, <3>3 DEF Created, ObjType, COMMAND, DATA
      <4> QED BY <1>1, <3>3, <4>1 DEF EmptyObject, FreshObject
    <3> QED BY <1>1, <3>2, <3>3 DEF ObjType
  <2>3. Undisturbed => Undisturbed'
    BY <1>1, <1>2, <1>3, <1>4, <2>2 DEF Undisturbed, Regular
  <2> QED BY <1>1, <1>4, <2>1, <2>3, QuietInBudget DEF SendPC
<1>5. CASE Fails(IF Creatable THEN effect ELSE objs, Creatable /\ RegularSize) /\ FailedHere
  <2> DEFINE result == IF Creatable THEN effect ELSE objs
             must   == Creatable /\ RegularSize
  <2>1. conn' = "up" =>
          conn = "up" /\ (faults' = faults + 1 \/ (faults' = faults /\ ~must))
    <3>1. Fails(result, must)
      BY <1>5
    <3> HIDE DEF result, must
    <3> QED BY <3>1, FailsCosts
  <2>2. conn = "up" => retries < Allowance \/ must
    BY <1>1, <1>2, <1>3 DEF Budget
  <2> QED BY <1>1, <1>5, <2>1, <2>2, FailureInBudget DEF FailedHere
<1> QED BY <1>4, <1>5 DEF CreateAt

LEMMA StreamInBudget ==
  ASSUME IInv, IInv', Budget, Stream, UNCHANGED loopVars
  PROVE  Budget'
<1>1. /\ pc = "stream" /\ pc' = "stream" /\ pc \in SendPC /\ MoreToStream
      /\ type \in ObjType /\ send \in Nat /\ idx \in Nat /\ Sound(objs)
      /\ objs[type].exOff = send
      /\ UNCHANGED <<conn, type, dontResume, send, transferSize, code>>
  BY InvEnv DEF Stream, SendPC, IInv, TypeOK, SendTypeOK, Believed, EnvOK
<1> DEFINE n == ChunkLength
<1>2. /\ n \in Nat \ {0} /\ send + idx + n <= Len[type] /\ idx + n <= BlockSize[type]
      /\ idx' = idx + n
  BY <1>1, ChunkFits DEF Stream
<1> HIDE DEF n
<1>3. CASE Chunk(ChunkLength, "intact") /\ UNCHANGED faults
  <2>1. ASSUME Undisturbed PROVE Undisturbed'
    <3>1. /\ objs[type].size = Smaller(BlockSize[type], Len[type] - send)
          /\ objs[type].off = send + idx /\ objs[type].bytes = "package"
          /\ type = COMMAND /\ dontResume => objs[DATA].off = 0
      BY <1>1, <2>1 DEF Undisturbed, Regular
    <3>2. idx + n <= objs[type].size
      BY <1>1, <1>2, <3>1 DEF Smaller, SizesAssumption
    <3>3. Written(objs[type], send + idx, n, TRUE) =
            [off |-> send + idx + n, bytes |-> "package", exOff |-> objs[type].exOff,
             exBytes |-> objs[type].exBytes, size |-> objs[type].size]
      <4>1. objs[type].size \in Nat
        BY <1>1 DEF Sound, Object
      <4>2. ~(objs[type].off + n > objs[type].exOff + objs[type].size)
        BY <1>1, <1>2, <3>1, <3>2, <4>1
      <4> QED BY <3>1, <4>2 DEF Written
    <3>4. /\ objs'[type] = Written(objs[type], send + idx, n, TRUE)
          /\ \A u \in ObjType \ {type} : objs'[u] = objs[u]
      BY <1>1, <1>3 DEF Chunk, Sound, n
    <3>5. /\ objs'[type].off = send + idx + n /\ objs'[type].bytes = "package"
          /\ objs'[type].exOff = objs[type].exOff /\ objs'[type].size = objs[type].size
          /\ type = COMMAND => objs'[DATA] = objs[DATA]
      <4> DEFINE w == Written(objs[type], send + idx, n, TRUE)
      <4> HIDE DEF w
      <4>0. w = [off |-> send + idx + n, bytes |-> "package", exOff |-> objs[type].exOff,
                 exBytes |-> objs[type].exBytes, size |-> objs[type].size]
        BY <3>3, Zenon DEF w
      <4>1. /\ w.off = send + idx + n /\ w.bytes = "package"
            /\ w.exOff = objs[type].exOff /\ w.size = objs[type].size
        BY <4>0
      <4>2. objs'[type] = w
        BY <3>4 DEF w
      <4>3. type = COMMAND => objs'[DATA] = objs[DATA]
        BY <3>4 DEF ObjType, COMMAND, DATA
      <4> QED BY <4>1, <4>2, <4>3
    <3> QED BY <1>1, <1>2, <2>1, <3>1, <3>2, <3>5 DEF Undisturbed, Regular
  <2> QED BY <1>1, <1>3, <2>1, QuietInBudget DEF SendPC
<1>4. CASE faults' = faults + 1
  <2>1. retries' = retries /\ done' = done /\ dontResume' = dontResume
    BY <1>1 DEF loopVars
  <2>2. conn = "up" => retries' < Allowance'
    <3>1. conn = "up" => retries <= Allowance
      BY <1>1, NotDone DEF Budget
    <3> QED BY <1>4, <2>1, <3>1, AllowanceIs, AllowanceIsNext
  <2> QED BY <1>1, <2>2, AllowanceIsNext DEF Budget
<1> QED BY <1>3, <1>4 DEF Stream

LEMMA StreamFailsInBudget ==
  ASSUME IInv, IInv', Budget, StreamFails, UNCHANGED loopVars
  PROVE  Budget'
BY FailureInBudget DEF StreamFails, FailedHere, SendPC

\* A block that was streamed undisturbed is complete, and is the package's.
LEMMA ChecksumInBudget ==
  ASSUME IInv, IInv', Budget, Checksum, UNCHANGED loopVars
  PROVE  Budget'
<1>1. /\ pc = "stream" /\ pc \in SendPC /\ ~MoreToStream
      /\ type \in ObjType /\ send \in Nat /\ idx \in Nat /\ send < Len[type]
      /\ objs[type].exOff = send /\ objs[type].off \in Nat
  BY InvEnv DEF Checksum, SendPC, IInv, TypeOK, SendTypeOK, Believed, EnvOK, Sound, Object
<1>2. Undisturbed =>
        /\ Regular(objs[type]) /\ Complete(objs[type])
        /\ objs[type].off > 0 /\ CrcMatches(objs[type])
        /\ type = COMMAND /\ dontResume => objs[DATA].off = 0
  <2> SUFFICES ASSUME Undisturbed
               PROVE  /\ Regular(objs[type]) /\ Complete(objs[type])
                      /\ objs[type].off > 0 /\ CrcMatches(objs[type])
                      /\ type = COMMAND /\ dontResume => objs[DATA].off = 0
    OBVIOUS
  <2>1. /\ Regular(objs[type]) /\ idx <= objs[type].size
        /\ objs[type].off = send + idx /\ objs[type].bytes = "package"
        /\ type = COMMAND /\ dontResume => objs[DATA].off = 0
    BY <1>1 DEF Undisturbed
  <2>2. objs[type].size = Smaller(BlockSize[type], Len[type] - send)
    BY <1>1, <2>1 DEF Regular
  <2>3. idx = objs[type].size /\ objs[type].size > 0 /\ send + idx <= Len[type]
    BY <1>1, <2>1, <2>2 DEF Smaller, MoreToStream, SizesAssumption
  <2> QED BY <1>1, <2>1, <2>3 DEF Complete, CrcMatches
<1>3. CASE Fails(objs, TRUE) /\ FailedHere
  <2>1. conn' = "up" => conn = "up" /\ faults' = faults + 1
    BY <1>3, FailsCosts
  <2> QED BY <1>1, <1>3, <2>1, FailureInBudget DEF FailedHere
<1>4. CASE Answered(objs) /\ Checked
  <2>1. conn = "up" /\ objs' = objs /\ UNCHANGED <<conn, faults>>
    BY <1>4 DEF Answered
  <2>2. CASE objs[type].off = 0 /\ FailedHere
    <3>1. retries < Allowance
      BY <1>1, <1>2, <2>1, <2>2 DEF Budget
    <3> QED BY <1>1, <2>1, <2>2, <3>1, FailureInBudget DEF FailedHere
  <2>3. CASE /\ pc' = IF send' >= Len[type] THEN "finish" ELSE "execute"
             /\ UNCHANGED <<type, dontResume, idx, transferSize, code>>
    <3>1. Undisturbed => Undisturbed'
      BY <1>1, <1>2, <2>1, <2>3 DEF Undisturbed, Regular
    <3> QED BY <1>1, <2>1, <2>3, <3>1, QuietInBudget DEF SendPC
  <2>4. CASE /\ ~CrcMatches(objs[type]) /\ pc' = "again"
             /\ UNCHANGED <<type, dontResume, send, idx, code>>
    BY <1>1, <1>2, <2>1, <2>4, QuietInBudget DEF SendPC
  <2> QED BY <1>4, <2>2, <2>3, <2>4 DEF Checked, CheckedAs
<1> QED BY <1>3, <1>4 DEF Checksum

(* The bootloader serves EXECUTE of an undisturbed object: it is full, and *)
(* an init packet is entire because it fits one object.                    *)
LEMMA ExecuteMustServe ==
  ASSUME IInv, Undisturbed, pc \in {"execute", "finish"}
  PROVE  Complete(objs[type]) /\ Entire
<1>1. /\ type \in ObjType /\ objs[type].size = Smaller(BlockSize[type], Len[type] - objs[type].exOff)
      /\ type = COMMAND => objs[type].exOff = 0
      /\ Complete(objs[type])
  BY DEF Undisturbed, Regular, IInv, TypeOK, SendTypeOK
<1>2. type = COMMAND => objs[type].off = Len[COMMAND]
  BY <1>1 DEF Complete, Smaller, SizesAssumption, InitFitsAssumption, ObjType
<1> QED BY <1>1, <1>2 DEF Entire

LEMMA ExecuteCosts ==
  ASSUME IInv, Budget, ExecuteFails, pc \in {"execute", "finish"}, conn' = "up"
  PROVE  /\ conn = "up"
         /\ faults' = faults + 1 \/ (faults' = faults /\ retries < Allowance)
<1> DEFINE result == IF Served THEN Executed(objs, type) ELSE objs
           must   == Complete(objs[type]) /\ Entire
<1>1. Fails(result, must)
  BY DEF ExecuteFails
<1>2. pc \in SendPC
  BY DEF SendPC
<1>3. conn = "up" => retries < Allowance \/ must
  BY <1>2, ExecuteMustServe DEF Budget
<1> HIDE DEF result, must
<1> QED BY <1>1, <1>3, FailsCosts

LEMMA ExecuteInBudget ==
  ASSUME IInv, IInv', Budget, Execute, UNCHANGED loopVars
  PROVE  Budget'
<1>1. /\ pc = "execute" /\ pc \in SendPC /\ type \in ObjType
      /\ send \in Nat /\ send < Len[type] /\ objs[type].off = send /\ objs[type].exOff \in Nat
  BY InvEnv DEF Execute, SendPC, IInv, TypeOK, SendTypeOK, Believed, EnvOK, Sound, Object
<1>2. CASE ExecuteFails /\ FailedHere
  BY <1>1, <1>2, ExecuteCosts, FailureInBudget DEF FailedHere
<1>3. CASE /\ ExecuteAnswered /\ transferSize' = Clip(transferSize, send) /\ pc' = "next"
           /\ UNCHANGED <<type, dontResume, send, idx, code>>
  <2>1. UNCHANGED <<conn, faults>>
    BY <1>3 DEF ExecuteAnswered, Answered
  <2>2. Undisturbed => transferSize' = Smaller(BlockSize[type], Len[type] - send)
    <3>1. Undisturbed => /\ transferSize = Smaller(BlockSize[type], Len[type] - objs[type].exOff)
                         /\ send = objs[type].exOff + transferSize
      BY <1>1 DEF Undisturbed, Regular, Complete
    <3>2. Undisturbed => transferSize = BlockSize[type]
      BY <1>1, <3>1 DEF Smaller, SizesAssumption
    <3> QED BY <1>1, <1>3, <3>2 DEF Clip
  <2>3. Undisturbed => Undisturbed'
    BY <1>1, <1>3, <2>2 DEF Undisturbed
  <2> QED BY <1>1, <1>3, <2>1, <2>3, QuietInBudget DEF SendPC
<1> QED BY <1>2, <1>3 DEF Execute

LEMMA FinishInBudget ==
  ASSUME IInv, IInv', Budget, Finish, UNCHANGED loopVars
  PROVE  Budget'
<1>1. pc = "finish" /\ pc \in SendPC
  BY DEF Finish, SendPC
<1>2. CASE ExecuteFails /\ FailedHere
  BY <1>1, <1>2, ExecuteCosts, FailureInBudget DEF FailedHere
<1>3. CASE /\ ExecuteAnswered /\ Return("SUCCESS")
           /\ UNCHANGED <<type, dontResume, send, idx, transferSize>>
  <2>1. UNCHANGED <<conn, faults>>
    BY <1>3 DEF ExecuteAnswered, Answered
  <2>2. Undisturbed => Undisturbed'
    BY <1>1, <1>3, OtherObject DEF Undisturbed, Return
  <2> QED BY <1>1, <1>3, <2>1, <2>2, QuietInBudget DEF Return, SendPC
<1> QED BY <1>2, <1>3 DEF Finish

---------------------------------------------------------------------------
\* The loop counts an attempt when it returns, and starts the next one undisturbed.
LEMMA LoopInBudget ==
  ASSUME IInv, IInv', Budget, LoopNext
  PROVE  Budget'
<1>1. CASE Open \/ Buttonless \/ RegisterFails \/ RegisterAborts \/ LoopEnds
  <2>1. /\ pc' \notin SendPC /\ UNCHANGED <<faults, dontResume, retries, done>>
        /\ (conn' = "up" \/ pc' \in {"open", "btnless", "reopen"}) =>
             (conn = "up" \/ pc \in {"open", "btnless", "reopen"})
    BY <1>1 DEF Open, Buttonless, RegisterFails, RegisterAborts, LoopEnds, Leave, localVars,
       loopVars, envVars, SendPC
  <2>2. Allowance' = Allowance
    BY <2>1 DEF Allowance
  <2> QED BY <2>1, <2>2 DEF Budget
<1>2. CASE Attempt
  <2>1. /\ pc = "loop" /\ pc' = "select" /\ type' = COMMAND
        /\ UNCHANGED <<conn, faults, dontResume, retries, done>>
    BY <1>2 DEF Attempt, envVars, loopVars
  <2>2. Undisturbed'
    BY <2>1 DEF Undisturbed, COMMAND, DATA
  <2>3. Allowance' = Allowance
    BY <2>1 DEF Allowance
  <2> QED BY <2>1, <2>2, <2>3 DEF Budget
<1>3. CASE Returned
  <2>1. /\ pc = "returned" /\ pc \in SendPC /\ type \in ObjType /\ ~done
        /\ UNCHANGED <<objs, conn, faults, dontResume>>
    BY <1>3, NotDone DEF Returned, ReturnedAs, SendPC, envVars, IInv, TypeOK, SendTypeOK
  <2>2. Allowance' = Allowance
    BY <2>1 DEF Allowance
  <2>3. CASE type = COMMAND /\ code = "SUCCESS"
    <3>1. type' = DATA /\ pc' = "select" /\ UNCHANGED <<done, retries>>
      BY <1>3, <2>3 DEF Returned, ReturnedAs
    <3>2. Undisturbed => Undisturbed'
      BY <2>1, <2>3, <3>1 DEF Undisturbed
    <3> QED BY <2>1, <2>2, <3>1, <3>2 DEF Budget, SendPC
  <2>4. CASE ~(type = COMMAND /\ code = "SUCCESS")
    <3>1. pc' = "loop" /\ retries' = retries + 1 /\ done' = (code = "SUCCESS")
      BY <1>3, <2>4, Zenon DEF Returned, ReturnedAs
    <3>2. CASE code = "SUCCESS"
      <4>1. done'
        BY <3>1, <3>2, Zenon
      <4> QED BY <3>1, <4>1 DEF Budget, SendPC
    <3>3. CASE code # "SUCCESS"
      <4>1. conn = "up" => retries < Allowance
        BY <2>1, <3>3 DEF Budget, Undisturbed
      <4>2. conn' = "up" => retries' <= Allowance'
        BY <2>1, <2>2, <3>1, <4>1, AllowanceIs
      <4> QED BY <3>1, <4>2 DEF Budget, SendPC
    <3> QED BY <3>2, <3>3
  <2> QED BY <2>3, <2>4
<1>4. CASE PeerFallsSilent
  <2>1. /\ conn' # "up" /\ pc' = pc /\ UNCHANGED <<faults, dontResume, retries, done>>
    BY <1>4 DEF PeerFallsSilent, sendVars, loopVars
  <2>2. Allowance' = Allowance
    BY <2>1 DEF Allowance
  <2> QED BY <2>1, <2>2 DEF Budget
<1> QED BY <1>1, <1>2, <1>3, <1>4 DEF LoopNext

LEMMA BudgetKept ==
  ASSUME IInv, IInv', Budget, [Next]_vars
  PROVE  Budget'
<1>1. CASE SendNext /\ UNCHANGED loopVars
  <2>1. CASE Create \/ CreateNext \/ CreateAgain
    BY <1>1, <2>1, CreateInBudget DEF Create, CreateNext, CreateAgain
  <2> QED BY <1>1, <2>1, SelectInBudget, ResumeInBudget, StreamInBudget, StreamFailsInBudget,
             ChecksumInBudget, ExecuteInBudget, FinishInBudget DEF SendNext
<1>2. CASE LoopNext
  BY <1>2, LoopInBudget
<1>3. CASE RunAgain
  <2>1. retries' = 0 /\ conn' = "lost"
    BY <1>3 DEF RunAgain
  <2>2. 0 <= Allowance'
    BY AllowanceIsNext
  <2> QED BY <2>1, <2>2 DEF Budget
<1>4. CASE UNCHANGED vars
  BY <1>4 DEF Budget, Allowance, Undisturbed, Regular, Complete, vars, envVars, sendVars, loopVars
<1> QED BY <1>1, <1>2, <1>3, <1>4 DEF Next, ProgramNext, LoopNext

LEMMA BudgetInit == Init => Budget
<1> SUFFICES ASSUME Init PROVE Budget
  OBVIOUS
<1>1. IInv
  BY InitInv
<1>2. retries = 0 /\ conn = "lost"
  BY DEF Init
<1>3. 0 <= Allowance
  BY <1>1, AllowanceIs
<1> QED BY <1>2, <1>3 DEF Budget

---------------------------------------------------------------------------
(* Whatever the sizes, the leftovers and the bootloader's strictness: an   *)
(* attempt that fails with the link up took a fault, but for one, the one  *)
(* that met leftovers it could not resume (dfu.c 72, 130-169, 399-416).    *)
THEOREM EveryFailureIsPaidFor == Spec => []AttemptsSuffice
<1>1. Budget /\ IInv /\ [Next]_vars => Budget'
  BY BudgetKept, StepInv
<1>2. IInv /\ Budget => AttemptsSuffice
  <2> SUFFICES ASSUME IInv, Budget, pc = "loop", conn = "up", ~done
               PROVE  retries <= faults + 1
    BY DEF AttemptsSuffice
  <2>1. retries <= Allowance
    BY DEF Budget
  <2> QED BY <2>1, AllowanceIs
<1> QED BY <1>1, <1>2, BudgetInit, Invariance, PTL DEF Spec
=============================================================================
