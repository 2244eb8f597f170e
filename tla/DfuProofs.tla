----------------------------- MODULE DfuProofs -----------------------------
(***************************************************************************)
(* Proofs about Dfu, for packages, blocks and chunks of any size, any      *)
(* number of faults and any number of runs of the program.                 *)
(*                                                                         *)
(* The inductive invariant relates, for each place of dfuSendPackage, what *)
(* the client believes (send) to what the bootloader holds (objs):         *)
(*  - Stored says what the bootloader's bookkeeping always satisfies;      *)
(*  - Believed says, at each program point, how much of the package is     *)
(*    known to be received or executed there;                              *)
(*  - Order says what the control flow of dfu() keeps about the two        *)
(*    packages, "done" and the verdict.                                    *)
(***************************************************************************)
EXTENDS Dfu, TLAPS

StoredObject(o) ==
  /\ o.exOff <= o.off
  /\ o.bytes = "package" => o.exBytes = "package"
  /\ o.off = 0 => o.bytes = "package"
  /\ o.exOff = 0 => o.exBytes = "package"
Stored == \A t \in ObjType : StoredObject(objs[t])

Believed ==
  /\ pc \in {"resume", "execute", "finish"} => CrcMatches(objs[type]) /\ send = objs[type].off
  /\ pc = "execute" => send < Len[type]
  /\ pc = "finish" => send = Len[type]
  /\ pc \in {"create", "stream", "next", "again"} => send < Len[type]
  /\ pc \in {"create", "stream", "next", "again"} /\ type = COMMAND => send = 0
  /\ pc \in {"create", "next", "again"} /\ type = DATA =>
       objs[DATA].exBytes = "package" /\ objs[DATA].exOff = send
  /\ pc = "stream" => objs[type].exBytes = "package" /\ objs[type].exOff = send

Order ==
  /\ type = DATA /\ pc \in SendPC => Holds(COMMAND)
  /\ pc = "returned" /\ code = "SUCCESS" => Holds(type)
  /\ done => pc \in {"loop", "closed"} /\ Holds(COMMAND) /\ Holds(DATA)
  /\ verdict = "none" <=> pc # "closed"
  /\ verdict = "SUCCESS" => done

IInv == TypeOK /\ Stored /\ Believed /\ Order

---------------------------------------------------------------------------
(* What the bootloader's operations do to its bookkeeping.                 *)

Sound(os) == os \in [ObjType -> Object] /\ \A t \in ObjType : StoredObject(os[t])

\* Executing an object keeps the bookkeeping, and executes what was received.
LEMMA ExecutedSound ==
  ASSUME NEW os, Sound(os), NEW t \in ObjType
  PROVE  /\ Sound(Executed(os, t))
         /\ Executed(os, t)[t].exOff = os[t].off
         /\ Executed(os, t)[t].exBytes = os[t].bytes
         /\ \A u \in ObjType \ {t} : Executed(os, t)[u] = os[u]
BY DEF Sound, Executed, Acknowledged, StoredObject, Object, Bytes

\* Creating a data object takes back what was not executed.
LEMMA CreatedDataSound ==
  ASSUME NEW os, Sound(os), NEW n \in Nat
  PROVE  /\ Sound(Created(os, DATA, n))
         /\ Created(os, DATA, n)[DATA].exOff = os[DATA].exOff
         /\ Created(os, DATA, n)[DATA].exBytes = os[DATA].exBytes
         /\ Created(os, DATA, n)[COMMAND] = os[COMMAND]
BY DEF Sound, Created, Truncated, StoredObject, Object, Bytes, ObjType, COMMAND, DATA

\* Creating an init command object starts from nothing.
LEMMA CreatedCommandSound ==
  ASSUME NEW os, NEW n \in Nat
  PROVE  /\ Sound(Created(os, COMMAND, n))
         /\ Created(os, COMMAND, n)[COMMAND].exOff = 0
         /\ Created(os, COMMAND, n)[COMMAND].exBytes = "package"
         /\ Created(os, COMMAND, n)[DATA].exOff = 0
BY DEF Sound, Created, StoredObject, Object, Bytes, ObjType, COMMAND, DATA,
       EmptyObject, FreshObject

\* A chunk adds to what was received and leaves what was executed alone.
LEMMA WrittenSound ==
  ASSUME NEW o \in Object, StoredObject(o), NEW p \in Nat, NEW n \in Nat \ {0},
         NEW b \in BOOLEAN
  PROVE  /\ Written(o, p, n, b) \in Object
         /\ StoredObject(Written(o, p, n, b))
         /\ Written(o, p, n, b).exOff = o.exOff
         /\ Written(o, p, n, b).exBytes = o.exBytes
BY DEF Written, StoredObject, Object, Bytes

\* A reset keeps the bookkeeping.
LEMMA ResetSound ==
  ASSUME NEW os, Sound(os), NEW ns \in AfterReset(os)
  PROVE  Sound(ns)
BY DEF Sound, AfterReset, Truncated, EmptyObject, FreshObject, StoredObject, Object, Bytes,
       ObjType, COMMAND, DATA

---------------------------------------------------------------------------
(* The steps of dfuSendPackage.  Each keeps the rest of the program state  *)
(* and changes the objects only of the type being sent, or of both when an *)
(* init command object is created.                                         *)

USE SizesAssumption, InitFitsAssumption, RunsAssumption

EnvOK ==
  /\ Sound(objs) /\ conn \in {"up", "lost", "fatal", "silent"} /\ faults \in 0..MaxFaults

\* A request that fails leaves its effect or nothing.
LEMMA FailsEnv ==
  ASSUME NEW STATE effect, NEW STATE must, EnvOK, Sound(effect), Fails(effect, must)
  PROVE  /\ objs' \in {objs, effect}
         /\ conn' \in {"up", "lost", "fatal", "silent"} /\ faults' \in 0..MaxFaults
BY DEF Fails, Disconnected, WriteRejected, Faulty, Refused, EnvOK, envVars, SizesAssumption

\* Every way out of dfuSendPackage with a failure keeps the invariant.
LEMMA FailurePreserves ==
  ASSUME IInv, pc \in SendPC, EnvOK', type = DATA => objs'[COMMAND] = objs[COMMAND],
         dontResume' \in BOOLEAN, Return("FAILED"),
         UNCHANGED <<type, send, idx, transferSize>>, UNCHANGED loopVars
  PROVE  IInv'
<1>1. TypeOK'
  BY DEF IInv, TypeOK, SendTypeOK, EnvOK, Sound, Return, loopVars, SendPC, Code
<1>2. Stored' /\ Believed'
  BY DEF EnvOK, Sound, Stored, Believed, Return, SendPC
<1>3. Order'
  BY DEF IInv, Order, Holds, Return, loopVars, SendPC, COMMAND, DATA
<1> QED BY <1>1, <1>2, <1>3 DEF IInv

LEMMA InvEnv == IInv => EnvOK
BY DEF IInv, TypeOK, SendTypeOK, Stored, EnvOK, Sound

LEMMA AnsweredEnv ==
  ASSUME NEW STATE effect, IInv, Sound(effect), Answered(effect)
  PROVE  EnvOK' /\ objs' = effect
BY InvEnv DEF Answered, EnvOK, Sound

LEMMA SelectPreserves == IInv /\ Select /\ UNCHANGED loopVars => IInv'
<1> SUFFICES ASSUME IInv, Select, UNCHANGED loopVars PROVE IInv'
  OBVIOUS
<1> USE InvEnv
<1>1. CASE FailedHere /\ (Fails(objs, TRUE) \/ UNCHANGED envVars)
  <2>1. EnvOK' /\ objs' = objs
    BY <1>1, FailsEnv DEF EnvOK, Sound, envVars
  <2> QED BY <1>1, <2>1, FailurePreserves
          DEF Select, FailedHere, SendPC, IInv, TypeOK, SendTypeOK
<1>2. CASE Answered(objs) /\ Selected
  <2>1. EnvOK' /\ objs' = objs
    BY <1>2 DEF Answered, EnvOK, Sound
  <2>2. CASE GiveUpResuming
    BY <2>1, <2>2, FailurePreserves DEF Select, GiveUpResuming, SendPC
  <2>3. CASE BeginTransfer(0) /\ UNCHANGED dontResume /\ (type = COMMAND \/ objs[type].off = 0)
    <3>1. /\ transferSize' = Smaller(Len[type], BlockSize[type]) /\ transferSize' \in Nat \ {0}
          /\ pc' = "create" /\ send' = 0 /\ UNCHANGED <<type, idx, code, dontResume>>
      BY <2>3 DEF BeginTransfer, Smaller, IInv, TypeOK, SendTypeOK, SizesAssumption, ObjType
    <3>2. TypeOK'
      BY <2>1, <3>1 DEF IInv, TypeOK, SendTypeOK, EnvOK, Sound, loopVars, SendPC, Code
    <3>3. Stored' /\ Believed'
      BY <2>1, <2>3, <3>1 DEF EnvOK, Sound, Stored, StoredObject, Believed, IInv, TypeOK,
         SendTypeOK, SizesAssumption, Object, Bytes, ObjType, COMMAND, DATA
    <3>4. Order'
      BY <2>1, <3>1 DEF IInv, Order, Holds, loopVars, SendPC, COMMAND, DATA, Select
    <3> QED BY <3>2, <3>3, <3>4 DEF IInv
  <2>4. CASE /\ objs[type].off > 0 /\ CrcMatches(objs[type])
             /\ send' = objs[type].off /\ pc' = "resume"
             /\ UNCHANGED <<type, dontResume, idx, transferSize, code>>
    <3>1. TypeOK'
      BY <2>1, <2>4 DEF IInv, TypeOK, SendTypeOK, EnvOK, Sound, loopVars, SendPC, Code, Object
    <3>2. Stored' /\ Believed'
      BY <2>1, <2>4 DEF EnvOK, Sound, Stored, Believed, CrcMatches
    <3>3. Order'
      BY <2>1, <2>4 DEF IInv, Order, Holds, loopVars, SendPC, COMMAND, DATA, Select
    <3> QED BY <3>1, <3>2, <3>3 DEF IInv
  <2> QED BY <1>2, <2>2, <2>3, <2>4 DEF Selected
<1> QED BY <1>1, <1>2 DEF Select

---------------------------------------------------------------------------
\* A served EXECUTE, and one that fails.
LEMMA ExecuteServed ==
  ASSUME IInv, ExecuteAnswered
  PROVE  /\ EnvOK'
         /\ objs'[type].exOff = objs[type].off
         /\ objs'[type].exBytes = objs[type].bytes
         /\ type = COMMAND => objs[COMMAND].off = Len[COMMAND]
         /\ type = DATA => objs'[COMMAND] = objs[COMMAND]
<1>1. EnvOK /\ Sound(objs) /\ type \in ObjType
  BY InvEnv DEF EnvOK, IInv, TypeOK, SendTypeOK
<1>2. /\ Sound(Executed(objs, type))
      /\ Executed(objs, type)[type].exOff = objs[type].off
      /\ Executed(objs, type)[type].exBytes = objs[type].bytes
      /\ \A u \in ObjType \ {type} : Executed(objs, type)[u] = objs[u]
  BY <1>1, ExecutedSound
<1>3. objs' = Executed(objs, type) /\ EnvOK'
  BY <1>1, <1>2 DEF ExecuteAnswered, Answered, EnvOK
<1> QED BY <1>2, <1>3 DEF ExecuteAnswered, Served, Entire, ObjType, COMMAND, DATA

LEMMA ExecuteUnserved ==
  ASSUME IInv, ExecuteFails
  PROVE  EnvOK' /\ (type = DATA => objs'[COMMAND] = objs[COMMAND])
<1>1. EnvOK /\ Sound(objs) /\ type \in ObjType
  BY InvEnv DEF EnvOK, IInv, TypeOK, SendTypeOK
<1>2. /\ Sound(Executed(objs, type))
      /\ \A u \in ObjType \ {type} : Executed(objs, type)[u] = objs[u]
  BY <1>1, ExecutedSound
<1>3. /\ objs' \in {objs, Executed(objs, type)}
      /\ conn' \in {"up", "lost", "fatal", "silent"} /\ faults' \in 0..MaxFaults
  BY <1>1 DEF ExecuteFails, Fails, Disconnected, WriteRejected, Faulty, Refused,
     EnvOK, envVars, SizesAssumption
<1> QED BY <1>1, <1>2, <1>3 DEF EnvOK, ObjType, COMMAND, DATA

LEMMA ResumePreserves == IInv /\ Resume /\ UNCHANGED loopVars => IInv'
<1> SUFFICES ASSUME IInv, Resume, UNCHANGED loopVars PROVE IInv'
  OBVIOUS
<1>1. /\ EnvOK' /\ pc = "resume"
      /\ type = DATA => objs'[COMMAND] = objs[COMMAND]
  BY ExecuteServed, ExecuteUnserved DEF Resume
<1>2. CASE ExecuteFails /\ GiveUpResuming
  BY <1>1, <1>2, FailurePreserves DEF GiveUpResuming, SendPC
<1>3. CASE ExecuteAnswered /\ BeginTransfer(send) /\ UNCHANGED dontResume
  <2>0. /\ objs[type].off = send /\ objs[type].bytes = "package"
        /\ send \in Nat /\ send <= Len[type]
    BY <1>1 DEF IInv, Believed, CrcMatches, TypeOK, SendTypeOK
  <2>1. /\ objs'[type].exOff = send /\ objs'[type].exBytes = "package"
        /\ send \in Nat /\ send <= Len[type]
        /\ type = COMMAND => send = Len[COMMAND]
    BY <1>3, <2>0, ExecuteServed
  <2>2. /\ transferSize' \in Nat /\ send' = send /\ UNCHANGED <<type, idx, dontResume>>
        /\ (pc' = "returned" /\ code' = "SUCCESS" /\ send = Len[type])
           \/ (pc' = "create" /\ UNCHANGED code /\ send < Len[type])
    BY <1>3, <2>1 DEF BeginTransfer, Return, Smaller, IInv, TypeOK, SendTypeOK,
       SizesAssumption, ObjType
  <2>3. TypeOK'
    BY <1>1, <2>1, <2>2 DEF IInv, TypeOK, SendTypeOK, EnvOK, Sound, loopVars, SendPC, Code
  <2>4. Stored' /\ Believed'
    BY <1>1, <2>1, <2>2 DEF EnvOK, Sound, Stored, Believed, IInv, TypeOK, SendTypeOK,
       ObjType, COMMAND, DATA
  <2>5. Order'
    BY <1>1, <2>1, <2>2 DEF IInv, Order, Holds, loopVars, SendPC, ObjType, COMMAND, DATA,
       TypeOK, SendTypeOK
  <2> QED BY <2>3, <2>4, <2>5 DEF IInv
<1> QED BY <1>2, <1>3 DEF Resume

LEMMA ExecutePreserves == IInv /\ Execute /\ UNCHANGED loopVars => IInv'
<1> SUFFICES ASSUME IInv, Execute, UNCHANGED loopVars PROVE IInv'
  OBVIOUS
<1>1. /\ EnvOK' /\ pc = "execute"
      /\ type = DATA => objs'[COMMAND] = objs[COMMAND]
  BY ExecuteServed, ExecuteUnserved DEF Execute
<1>2. CASE ExecuteFails /\ FailedHere
  BY <1>1, <1>2, FailurePreserves DEF FailedHere, SendPC, IInv, TypeOK, SendTypeOK
<1>3. CASE /\ ExecuteAnswered /\ transferSize' = Clip(transferSize, send) /\ pc' = "next"
           /\ UNCHANGED <<type, dontResume, send, idx, code>>
  <2>0. /\ objs[type].off = send /\ objs[type].bytes = "package"
        /\ send \in Nat /\ send < Len[type] /\ type \in {COMMAND, DATA} /\ Len[COMMAND] \in Nat
    BY <1>1 DEF IInv, Believed, CrcMatches, TypeOK, SendTypeOK, ObjType, SizesAssumption
  <2>1. /\ objs'[type].exOff = send /\ objs'[type].exBytes = "package"
        /\ send \in Nat /\ send < Len[type] /\ type = DATA
    BY <1>3, <2>0, ExecuteServed
  <2>2. transferSize' \in Nat
    BY <1>3, <2>1 DEF Clip, Smaller, IInv, TypeOK, SendTypeOK, SizesAssumption, ObjType
  <2>3. TypeOK'
    BY <1>1, <1>3, <2>2 DEF IInv, TypeOK, SendTypeOK, EnvOK, Sound, loopVars, SendPC, Code
  <2>4. Stored' /\ Believed'
    BY <1>1, <1>3, <2>1 DEF EnvOK, Sound, Stored, Believed, COMMAND, DATA
  <2>5. Order'
    BY <1>1, <1>3, <2>1 DEF IInv, Order, Holds, loopVars, SendPC, COMMAND, DATA
  <2> QED BY <2>3, <2>4, <2>5 DEF IInv
<1> QED BY <1>2, <1>3 DEF Execute

LEMMA FinishPreserves == IInv /\ Finish /\ UNCHANGED loopVars => IInv'
<1> SUFFICES ASSUME IInv, Finish, UNCHANGED loopVars PROVE IInv'
  OBVIOUS
<1>1. /\ EnvOK' /\ pc = "finish"
      /\ type = DATA => objs'[COMMAND] = objs[COMMAND]
  BY ExecuteServed, ExecuteUnserved DEF Finish
<1>2. CASE ExecuteFails /\ FailedHere
  BY <1>1, <1>2, FailurePreserves DEF FailedHere, SendPC, IInv, TypeOK, SendTypeOK
<1>3. CASE /\ ExecuteAnswered /\ Return("SUCCESS")
           /\ UNCHANGED <<type, dontResume, send, idx, transferSize>>
  <2>0. objs[type].off = Len[type] /\ objs[type].bytes = "package"
    BY <1>1 DEF IInv, Believed, CrcMatches
  <2>1. objs'[type].exOff = Len[type] /\ objs'[type].exBytes = "package"
    BY <1>3, <2>0, ExecuteServed
  <2>2. TypeOK'
    BY <1>1, <1>3 DEF IInv, TypeOK, SendTypeOK, EnvOK, Sound, loopVars, SendPC, Code, Return
  <2>3. Stored' /\ Believed'
    BY <1>1, <1>3 DEF EnvOK, Sound, Stored, Believed, Return
  <2>4. Order'
    BY <1>1, <1>3, <2>1 DEF IInv, Order, Holds, loopVars, SendPC, COMMAND, DATA, Return
  <2> QED BY <2>2, <2>3, <2>4 DEF IInv
<1> QED BY <1>2, <1>3 DEF Finish

---------------------------------------------------------------------------
\* A new object starts where the last executed one ended.
LEMMA CreatedEnv ==
  ASSUME IInv
  PROVE  LET effect == Created(objs, type, transferSize)
         IN /\ Sound(effect)
            /\ type = DATA => /\ effect[COMMAND] = objs[COMMAND]
                              /\ effect[DATA].exOff = objs[DATA].exOff
                              /\ effect[DATA].exBytes = objs[DATA].exBytes
            /\ type = COMMAND => effect[COMMAND].exOff = 0 /\ effect[COMMAND].exBytes = "package"
<1>1. Sound(objs) /\ transferSize \in Nat /\ type \in ObjType
  BY InvEnv DEF EnvOK, IInv, TypeOK, SendTypeOK
<1>2. CASE type = DATA
  BY <1>1, <1>2, CreatedDataSound DEF COMMAND, DATA
<1>3. CASE type = COMMAND
  BY <1>1, <1>3, CreatedCommandSound DEF COMMAND, DATA
<1> QED BY <1>1, <1>2, <1>3 DEF ObjType

LEMMA CreatePreserves ==
  IInv /\ (Create \/ CreateNext \/ CreateAgain) /\ UNCHANGED loopVars => IInv'
<1> SUFFICES ASSUME IInv, NEW place \in {"create", "next", "again"}, CreateAt(place),
                    UNCHANGED loopVars
             PROVE  IInv'
  BY DEF Create, CreateNext, CreateAgain
<1> DEFINE effect == Created(objs, type, transferSize)
<1>1. /\ Sound(effect) /\ Sound(objs) /\ EnvOK /\ pc = place
      /\ type = DATA => /\ effect[COMMAND] = objs[COMMAND]
                        /\ effect[DATA].exOff = objs[DATA].exOff
                        /\ effect[DATA].exBytes = objs[DATA].exBytes
      /\ type = COMMAND => effect[COMMAND].exOff = 0 /\ effect[COMMAND].exBytes = "package"
  BY CreatedEnv, InvEnv DEF EnvOK, CreateAt
<1>2. CASE /\ Creatable /\ Answered(effect) /\ pc' = "stream" /\ idx' = 0
           /\ UNCHANGED <<type, dontResume, send, transferSize, code>>
  <2>1. EnvOK' /\ objs' = effect
    BY <1>1, <1>2 DEF Answered, EnvOK
  <2> HIDE DEF effect
  <2>2. TypeOK'
    BY <1>2, <2>1 DEF IInv, TypeOK, SendTypeOK, EnvOK, Sound, loopVars, SendPC, Code
  <2>3. Stored' /\ Believed'
    BY <1>1, <1>2, <2>1 DEF EnvOK, Sound, Stored, Believed, IInv, TypeOK, SendTypeOK,
       ObjType, COMMAND, DATA
  <2>4. Order'
    BY <1>1, <1>2, <2>1 DEF IInv, Order, Holds, loopVars, SendPC, COMMAND, DATA
  <2> QED BY <2>2, <2>3, <2>4 DEF IInv
<1>3. CASE Fails(IF Creatable THEN effect ELSE objs, Creatable /\ RegularSize) /\ FailedHere
  <2>1. objs' \in {objs, effect} /\ conn' \in {"up", "lost", "fatal", "silent"} /\ faults' \in 0..MaxFaults
    <3> HIDE DEF effect
    <3> QED BY <1>1, <1>3 DEF Fails, Disconnected, WriteRejected, Faulty, Refused, EnvOK,
            envVars, SizesAssumption
  <2>2. EnvOK' /\ (type = DATA => objs'[COMMAND] = objs[COMMAND])
    <3> HIDE DEF effect
    <3> QED BY <1>1, <2>1 DEF EnvOK
  <2> QED BY <1>1, <1>3, <2>2, FailurePreserves
          DEF FailedHere, SendPC, IInv, TypeOK, SendTypeOK
<1> QED BY <1>2, <1>3 DEF CreateAt

---------------------------------------------------------------------------
\* A chunk is never empty and stays inside the package and the block.
LEMMA ChunkFits ==
  ASSUME IInv, MoreToStream
  PROVE  /\ ChunkLength \in Nat \ {0}
         /\ send + idx + ChunkLength <= Len[type] /\ idx + ChunkLength <= BlockSize[type]
BY DEF IInv, TypeOK, SendTypeOK, MoreToStream, ChunkLength, Smaller, SizesAssumption

LEMMA StreamPreserves == IInv /\ Stream /\ UNCHANGED loopVars => IInv'
<1> SUFFICES ASSUME IInv, Stream, UNCHANGED loopVars PROVE IInv'
  OBVIOUS
<1>1. /\ ChunkLength \in Nat \ {0} /\ send + idx \in Nat /\ type \in ObjType
      /\ Sound(objs) /\ EnvOK /\ pc = "stream" /\ pc' = "stream"
  BY ChunkFits, InvEnv DEF Stream, EnvOK, IInv, TypeOK, SendTypeOK
<1>2. /\ Sound(objs')
      /\ objs'[type].exOff = objs[type].exOff /\ objs'[type].exBytes = objs[type].exBytes
      /\ type = DATA => objs'[COMMAND] = objs[COMMAND]
  <2> SUFFICES ASSUME NEW fate \in {"intact", "dropped", "corrupted"}, Chunk(ChunkLength, fate)
               PROVE  /\ Sound(objs')
                      /\ objs'[type].exOff = objs[type].exOff
                      /\ objs'[type].exBytes = objs[type].exBytes
                      /\ type = DATA => objs'[COMMAND] = objs[COMMAND]
    BY DEF Stream
  <2>1. CASE fate = "dropped"
    BY <1>1, <2>1 DEF Chunk
  <2>2. CASE fate # "dropped"
    <3>1. PICK intact \in BOOLEAN :
            objs' = [objs EXCEPT ![type] = Written(objs[type], send + idx, ChunkLength, intact)]
      BY <2>2 DEF Chunk
    <3> DEFINE w == Written(objs[type], send + idx, ChunkLength, intact)
    <3>2. objs[type] \in Object /\ StoredObject(objs[type])
      BY <1>1 DEF Sound
    <3> HIDE DEF w
    <3>3. w \in Object /\ StoredObject(w) /\ w.exOff = objs[type].exOff
          /\ w.exBytes = objs[type].exBytes
      <4>1. send + idx \in Nat /\ ChunkLength \in Nat \ {0} /\ intact \in BOOLEAN
        BY <1>1
      <4> QED
        BY <3>2, <4>1, WrittenSound, SMT DEF w
    <3>4. objs' = [objs EXCEPT ![type] = w]
      BY <3>1 DEF w
    <3> QED BY <1>1, <3>3, <3>4 DEF Sound, COMMAND, DATA
  <2> QED BY <2>1, <2>2
<1>3. EnvOK'
  BY <1>1, <1>2 DEF Stream, EnvOK, SizesAssumption
<1>4. TypeOK'
  BY <1>1, <1>3 DEF Stream, IInv, TypeOK, SendTypeOK, EnvOK, Sound, loopVars, SendPC, Code
<1>5. Stored' /\ Believed'
  BY <1>1, <1>2 DEF Stream, IInv, Sound, Stored, Believed
<1>6. Order'
  BY <1>1, <1>2 DEF Stream, IInv, Order, Holds, loopVars, SendPC, COMMAND, DATA
<1> QED BY <1>4, <1>5, <1>6 DEF IInv

LEMMA StreamFailsPreserves == IInv /\ StreamFails /\ UNCHANGED loopVars => IInv'
<1> SUFFICES ASSUME IInv, StreamFails, UNCHANGED loopVars PROVE IInv'
  OBVIOUS
<1>1. EnvOK' /\ objs' = objs
  BY InvEnv DEF StreamFails, EnvOK, Sound, SizesAssumption
<1> QED BY <1>1, FailurePreserves
        DEF StreamFails, FailedHere, SendPC, IInv, TypeOK, SendTypeOK

LEMMA ChecksumPreserves == IInv /\ Checksum /\ UNCHANGED loopVars => IInv'
<1> SUFFICES ASSUME IInv, Checksum, UNCHANGED loopVars PROVE IInv'
  OBVIOUS
<1> USE InvEnv
<1>0. EnvOK' /\ objs' = objs /\ pc = "stream"
  BY DEF Checksum, Answered, Fails, Disconnected, WriteRejected, Faulty, Refused,
     EnvOK, Sound, envVars, SizesAssumption
<1>1. CASE FailedHere
  BY <1>0, <1>1, FailurePreserves DEF FailedHere, SendPC, IInv, TypeOK, SendTypeOK
<1>2. CASE /\ objs[type].off > 0 /\ CrcMatches(objs[type]) /\ send' = objs[type].off
           /\ pc' = (IF objs[type].off >= Len[type] THEN "finish" ELSE "execute")
           /\ UNCHANGED <<type, dontResume, idx, transferSize, code>>
  <2>1. TypeOK'
    BY <1>0, <1>2 DEF IInv, TypeOK, SendTypeOK, EnvOK, Sound, Object, loopVars, SendPC, Code
  <2>2. Stored' /\ Believed'
    <3>1. objs[type].off \in Nat /\ Len[type] \in Nat /\ CrcMatches(objs'[type])
      BY <1>0, <1>2 DEF IInv, TypeOK, SendTypeOK, Object, SizesAssumption
    <3>2. Believed'
      BY <1>0, <1>2, <3>1 DEF Believed, CrcMatches
    <3> QED BY <1>0, <3>2 DEF EnvOK, Sound, Stored
  <2>3. Order'
    BY <1>0, <1>2 DEF IInv, Order, Holds, loopVars, SendPC, COMMAND, DATA
  <2> QED BY <2>1, <2>2, <2>3 DEF IInv
<1>3. CASE /\ transferSize' = Clip(transferSize, objs[type].off) /\ pc' = "again"
           /\ UNCHANGED <<type, dontResume, send, idx, code>>
  <2>1. transferSize' \in Nat
    BY <1>3 DEF Clip, Smaller, IInv, TypeOK, SendTypeOK, SizesAssumption, Object
  <2>2. TypeOK'
    BY <1>0, <1>3, <2>1 DEF IInv, TypeOK, SendTypeOK, EnvOK, Sound, loopVars, SendPC, Code
  <2>3. send < Len[type] /\ (type = COMMAND => send = 0)
    BY <1>0 DEF IInv, Believed
  <2>4. Stored' /\ Believed'
    BY <1>0, <1>3, <2>3 DEF EnvOK, Sound, Stored, Believed, IInv, DATA
  <2>5. Order'
    BY <1>0, <1>3 DEF IInv, Order, Holds, loopVars, SendPC, COMMAND, DATA
  <2> QED BY <2>2, <2>4, <2>5 DEF IInv
<1> QED BY <1>1, <1>2, <1>3 DEF Checksum, Checked, CheckedAs

---------------------------------------------------------------------------
(* The steps of dfu() around dfuSendPackage.                               *)

LEMMA InitInv == Init => IInv
<1> SUFFICES ASSUME Init PROVE IInv
  OBVIOUS
<1>1. objs \in [ObjType -> Object] /\ Stored
  BY DEF Init, Stored, StoredObject, Object, Bytes, EmptyObject, FreshObject, ForeignObject,
     RunsAssumption
<1>2. TypeOK
  <2>1. dontResume \in BOOLEAN /\ done \in BOOLEAN
    BY Zenon DEF Init
  <2>2. SendTypeOK
    BY <1>1, <2>1 DEF Init, SendTypeOK, Code, SizesAssumption, ObjType
  <2> QED BY <2>1, <2>2 DEF Init, TypeOK, LoopPC, RunsAssumption
<1>3. Believed /\ Order
  BY DEF Init, Believed, Order, SendPC, COMMAND, DATA
<1> QED BY <1>1, <1>2, <1>3 DEF IInv

LoopNext ==
  \/ Open \/ Buttonless \/ Attempt \/ RegisterFails \/ RegisterAborts \/ Returned \/ LoopEnds
  \/ PeerFallsSilent

LEMMA LoopPreserves ==
  IInv /\ LoopNext => IInv'
<1> SUFFICES ASSUME IInv, LoopNext PROVE IInv'
  OBVIOUS
<1>1. objs' = objs /\ Stored'
  BY DEF IInv, Stored, LoopNext, Open, Buttonless, Attempt, RegisterFails, RegisterAborts,
     PeerFallsSilent, Returned, ReturnedAs, LoopEnds, envVars
<1>2. CASE Open
  BY <1>1, <1>2 DEF IInv, TypeOK, SendTypeOK, Believed, Order, Open, Leave, localVars,
     SendPC, LoopPC, Code, Holds
<1>3. CASE Buttonless
  BY <1>1, <1>3 DEF IInv, TypeOK, SendTypeOK, Believed, Order, Buttonless, Leave, localVars,
     SendPC, LoopPC, Code, Holds
<1>4. CASE Attempt
  BY <1>1, <1>4 DEF IInv, TypeOK, SendTypeOK, Believed, Order, Attempt, TriesLeft, envVars,
     loopVars, SendPC, LoopPC, Code, Holds, ObjType, COMMAND, DATA
<1>5. CASE RegisterFails
  BY <1>1, <1>5 DEF IInv, TypeOK, SendTypeOK, Believed, Order, RegisterFails, TriesLeft, Leave,
     localVars, envVars, SendPC, LoopPC, Code, Holds
<1>8. CASE RegisterAborts
  BY <1>1, <1>8 DEF IInv, TypeOK, SendTypeOK, Believed, Order, RegisterAborts, TriesLeft,
     localVars, loopVars, SendPC, LoopPC, Code, Holds
<1>9. CASE PeerFallsSilent
  BY <1>1, <1>9 DEF IInv, TypeOK, SendTypeOK, Believed, Order, PeerFallsSilent, CrcMatches,
     sendVars, loopVars, SendPC, LoopPC, Code, Holds
<1>6. CASE Returned
  <2>0. done' \in BOOLEAN
    <3>1. done' = (code = "SUCCESS") \/ done' = done
      BY <1>6, Zenon DEF Returned, ReturnedAs
    <3>2. done \in BOOLEAN
      BY Zenon DEF IInv, TypeOK
    <3> QED BY <3>1, <3>2, Zenon
  <2>1. TypeOK'
    BY <1>1, <1>6, <2>0 DEF IInv, TypeOK, SendTypeOK, Returned, ReturnedAs, envVars, SendPC, LoopPC, Code,
       ObjType
  <2>2. Believed'
    BY <1>1, <1>6 DEF Believed, Returned, ReturnedAs
  <2>3. Order'
    BY <1>1, <1>6 DEF IInv, TypeOK, SendTypeOK, Order, Returned, ReturnedAs, Holds, SendPC, Code, ObjType,
       COMMAND, DATA
  <2> QED BY <1>1, <2>1, <2>2, <2>3 DEF IInv
<1>7. CASE LoopEnds
  BY <1>1, <1>7 DEF IInv, TypeOK, SendTypeOK, Believed, Order, LoopEnds, Leave, envVars,
     localVars, SendPC, LoopPC, Code, Holds
<1> QED BY <1>2, <1>3, <1>4, <1>5, <1>6, <1>7, <1>8, <1>9 DEF LoopNext

LEMMA RunAgainPreserves == IInv /\ RunAgain => IInv'
<1> SUFFICES ASSUME IInv, RunAgain PROVE IInv'
  OBVIOUS
<1>1. Sound(objs')
  BY InvEnv, ResetSound DEF RunAgain, EnvOK
<1>2. TypeOK' /\ Stored'
  <2>1. dontResume' \in BOOLEAN /\ done' \in BOOLEAN
    BY Zenon DEF RunAgain
  <2>2. SendTypeOK'
    BY <1>1, <2>1 DEF RunAgain, IInv, TypeOK, SendTypeOK, Sound, SizesAssumption
  <2> QED BY <1>1, <2>1, <2>2 DEF RunAgain, IInv, TypeOK, Sound, Stored, LoopPC
<1>3. Believed' /\ Order'
  BY DEF RunAgain, Believed, Order, SendPC
<1> QED BY <1>2, <1>3 DEF IInv

LEMMA StepInv == IInv /\ [Next]_vars => IInv'
<1> SUFFICES ASSUME IInv, [Next]_vars PROVE IInv'
  OBVIOUS
<1>1. CASE SendNext /\ UNCHANGED loopVars
  BY <1>1, SelectPreserves, ResumePreserves, CreatePreserves, StreamPreserves,
     StreamFailsPreserves, ChecksumPreserves, ExecutePreserves, FinishPreserves DEF SendNext
<1>2. CASE LoopNext
  BY <1>2, LoopPreserves
<1>3. CASE RunAgain
  BY <1>3, RunAgainPreserves
<1>4. CASE UNCHANGED vars
  BY <1>4 DEF IInv, TypeOK, SendTypeOK, Stored, Believed, Order, CrcMatches, Holds,
     vars, envVars, sendVars, loopVars
<1> QED BY <1>1, <1>2, <1>3, <1>4 DEF Next, ProgramNext, LoopNext

---------------------------------------------------------------------------
\* The invariant holds in every reachable state (dfu.c 71-430).
THEOREM Invariance == Spec => []IInv
BY InitInv, StepInv, PTL DEF Spec

\* Every variable keeps its type, every program counter its range.
THEOREM TypeCorrect == Spec => []TypeOK
<1>1. IInv => TypeOK
  BY DEF IInv
<1> QED BY <1>1, Invariance, PTL

(* dfu() returns SUCCESS only when the bootloader has executed the whole   *)
(* init packet and the whole firmware (dfu.c 401-407, 427).                *)
THEOREM SuccessIsInstalled == Spec => []SuccessMeansInstalled
<1>1. IInv => SuccessMeansInstalled
  BY DEF IInv, Order, SuccessMeansInstalled
<1> QED BY <1>1, Invariance, PTL

\* The firmware is sent only behind its own init packet (dfu.c 402-404).
THEOREM InitBeforeData == Spec => []DataAfterInit
<1>1. IInv => DataAfterInit
  BY DEF IInv, Order, DataAfterInit
<1> QED BY <1>1, Invariance, PTL

(* While it streams, client and bootloader agree on what is acknowledged   *)
(* (dfu.c 205-340).                                                        *)
THEOREM ClientInStep == Spec => []InStep
<1>1. IInv => InStep
  BY DEF IInv, Believed, InStep
<1> QED BY <1>1, Invariance, PTL

---------------------------------------------------------------------------
(* What a step does to what the bootloader has executed: nothing, or it    *)
(* forgets everything, or it adds the verified bytes it holds.             *)

Kept == \A t \in ObjType : /\ objs'[t].exOff = objs[t].exOff
                           /\ objs'[t].exBytes = objs[t].exBytes
Erased == \A t \in ObjType : objs'[t].exOff = 0 /\ objs'[t].exBytes = "package"
Grown ==
  /\ pc \in {"resume", "execute", "finish"}
  /\ objs' = Executed(objs, type)
  /\ type = COMMAND => objs[COMMAND].off = Len[COMMAND]

LEMMA ExecuteProgress ==
  ASSUME IInv, ExecuteAnswered \/ ExecuteFails, pc \in {"resume", "execute", "finish"}
  PROVE  Kept \/ Grown
<1>1. \/ objs' = objs
      \/ objs' = Executed(objs, type) /\ Served
  BY DEF ExecuteAnswered, ExecuteFails, Answered, Fails, Disconnected, WriteRejected, Faulty,
     Refused, envVars
<1> QED BY <1>1 DEF Kept, Grown, Served, Entire

LEMMA CreateProgress ==
  ASSUME IInv, NEW place, CreateAt(place)
  PROVE  Kept \/ Erased
<1> DEFINE effect == Created(objs, type, transferSize)
<1>1. objs' = objs \/ objs' = effect
  BY DEF CreateAt, Answered, Fails, Disconnected, WriteRejected, Faulty, Refused, envVars
<1>2. transferSize \in Nat /\ type \in ObjType /\ Sound(objs)
  BY InvEnv DEF IInv, TypeOK, SendTypeOK, EnvOK
<1>3. CASE objs' = effect /\ type = DATA
  <2>1. /\ effect[DATA].exOff = objs[DATA].exOff /\ effect[DATA].exBytes = objs[DATA].exBytes
        /\ effect[COMMAND] = objs[COMMAND]
    BY <1>2, <1>3, CreatedDataSound
  <2> QED BY <1>3, <2>1 DEF Kept, ObjType
<1>4. CASE objs' = effect /\ type = COMMAND
  <2>1. \A t \in ObjType : effect[t].exOff = 0 /\ effect[t].exBytes = "package"
    BY <1>4 DEF Created, FreshObject, EmptyObject
  <2> QED BY <1>4, <2>1 DEF Erased
<1>5. CASE objs' = objs
  BY <1>5 DEF Kept
<1> QED BY <1>1, <1>2, <1>3, <1>4, <1>5 DEF ObjType

LEMMA StreamProgress == ASSUME IInv, Stream PROVE Kept
<1>1. /\ ChunkLength \in Nat \ {0} /\ send + idx \in Nat /\ type \in ObjType /\ Sound(objs)
  BY ChunkFits, InvEnv DEF Stream, EnvOK, IInv, TypeOK, SendTypeOK
<1>2. PICK fate \in {"intact", "dropped", "corrupted"} : Chunk(ChunkLength, fate)
  BY DEF Stream
<1>3. CASE fate = "dropped"
  BY <1>2, <1>3 DEF Chunk, Kept
<1>4. CASE fate # "dropped"
  <2>1. PICK intact \in BOOLEAN :
          objs' = [objs EXCEPT ![type] = Written(objs[type], send + idx, ChunkLength, intact)]
    BY <1>2, <1>4 DEF Chunk
  <2> DEFINE w == Written(objs[type], send + idx, ChunkLength, intact)
  <2>2. objs[type] \in Object /\ StoredObject(objs[type])
    BY <1>1 DEF Sound
  <2> HIDE DEF w
  <2>3. w.exOff = objs[type].exOff /\ w.exBytes = objs[type].exBytes
    <3>1. send + idx \in Nat /\ ChunkLength \in Nat \ {0} /\ intact \in BOOLEAN
      BY <1>1
    <3> QED
      BY <2>2, <3>1, WrittenSound, SMT DEF w
  <2>4. objs' = [objs EXCEPT ![type] = w]
    BY <2>1 DEF w
  <2> QED BY <1>1, <2>3, <2>4 DEF Kept, Sound
<1> QED BY <1>3, <1>4

LEMMA SendProgress == ASSUME IInv, SendNext PROVE pc \in SendPC /\ (Kept \/ Erased \/ Grown)
<1>1. CASE Select \/ Checksum \/ StreamFails
  <2>1. objs' = objs
    BY <1>1 DEF Select, Checksum, StreamFails, Answered, Fails, Disconnected, WriteRejected,
       Faulty, Refused, envVars
  <2> QED BY <1>1, <2>1 DEF Kept, Select, Checksum, StreamFails, SendPC
<1>2. CASE Resume \/ Execute \/ Finish
  BY <1>2, ExecuteProgress DEF Resume, Execute, Finish, SendPC
<1>3. CASE Create \/ CreateNext \/ CreateAgain
  BY <1>3, CreateProgress DEF Create, CreateNext, CreateAgain, CreateAt, SendPC
<1>4. CASE Stream
  BY <1>4, StreamProgress DEF Stream, SendPC
<1> QED BY <1>1, <1>2, <1>3, <1>4 DEF SendNext

\* What the invariant says where an object may be executed.
LEMMA BeforeExecute ==
  ASSUME IInv, pc \in {"resume", "execute", "finish"}
  PROVE  /\ type \in ObjType /\ objs[type].bytes = "package" /\ objs[type].off <= Len[type]
         /\ objs[type].exOff <= objs[type].off /\ objs[type].exBytes = "package"
         /\ objs[type].off \in Nat /\ objs[type].exOff \in Nat
         /\ type = DATA => Holds(COMMAND)
         /\ verdict = "none" /\ Sound(objs)
<1>1. type \in ObjType /\ objs \in [ObjType -> Object]
  BY DEF IInv, TypeOK, SendTypeOK
<1>2. objs[type].bytes = "package" /\ objs[type].off <= Len[type]
  BY DEF IInv, Believed, CrcMatches
<1>3. StoredObject(objs[type]) /\ Sound(objs)
  BY <1>1, InvEnv DEF IInv, Stored, EnvOK
<1>4. (type = DATA => Holds(COMMAND)) /\ verdict = "none"
  BY DEF IInv, Order, SendPC
<1> QED BY <1>1, <1>2, <1>3, <1>4 DEF StoredObject, Object

LEMMA StepProgress ==
  ASSUME IInv, [Next]_vars
  PROVE  \/ Kept
         \/ Erased /\ (RunAgain \/ pc \in SendPC)
         \/ Grown
<1>1. CASE SendNext
  BY <1>1, SendProgress
<1>2. CASE LoopNext \/ UNCHANGED vars
  <2>1. objs' = objs
    BY <1>2 DEF LoopNext, Open, Buttonless, Attempt, RegisterFails, RegisterAborts,
       PeerFallsSilent, Returned, ReturnedAs, LoopEnds, envVars, vars
  <2> QED BY <2>1 DEF Kept
<1>3. CASE RunAgain
  <2>1. objs \in [ObjType -> Object]
    BY DEF IInv, TypeOK, SendTypeOK
  <2> QED BY <1>3, <2>1 DEF RunAgain, AfterReset, Truncated, EmptyObject, FreshObject, Kept, Erased
<1> QED BY <1>1, <1>2, <1>3 DEF Next, ProgramNext, LoopNext

(* Only the package's own bytes are ever executed, and of the firmware     *)
(* none before the init packet (dfu.c 138, 279, 290).                      *)
THEOREM OnlyVerifiedExecuted == Spec => ExecutedIsVerified
<1> DEFINE Verified == \A t \in ObjType : objs'[t].exOff > objs[t].exOff =>
      /\ objs'[t].exBytes = "package" /\ objs'[t].exOff <= Len[t]
      /\ t = DATA => Holds(COMMAND)
<1>1. IInv /\ [Next]_vars => [Verified]_vars
  <2> SUFFICES ASSUME IInv, [Next]_vars PROVE Verified
    OBVIOUS
  <2>0. \A t \in ObjType : objs[t].exOff \in Nat
    BY DEF IInv, TypeOK, SendTypeOK, Object
  <2>1. CASE Kept
    BY <2>0, <2>1 DEF Kept
  <2>2. CASE Erased
    BY <2>0, <2>2 DEF Erased
  <2>3. CASE Grown
    <3>1. pc \in {"resume", "execute", "finish"}
      BY <2>3 DEF Grown
    <3>2. /\ objs'[type].exOff = objs[type].off /\ objs'[type].exBytes = objs[type].bytes
          /\ \A u \in ObjType \ {type} : objs'[u] = objs[u]
      BY <2>3, <3>1, BeforeExecute, ExecutedSound DEF Grown
    <3> QED BY <2>0, <3>1, <3>2, BeforeExecute
  <2> QED BY <2>1, <2>2, <2>3, StepProgress
<1> QED BY <1>1, Invariance, PTL DEF Spec, ExecutedIsVerified

---------------------------------------------------------------------------
(* The refinement.  Two abbreviations for the mapping of Dfu.              *)

installed == IF objs[DATA].exBytes = "package" THEN objs[DATA].exOff ELSE 0

LEMMA InitRefines == Init => Promise!Init
<1> SUFFICES ASSUME Init PROVE Promise!Init
  OBVIOUS
<1>1. Len[COMMAND] # 0
  BY DEF SizesAssumption, ObjType
<1>2. \A t \in ObjType : objs[t].exBytes = "package" => objs[t].exOff = 0
  BY DEF Init, EmptyObject, FreshObject, ForeignObject
<1>3. Holds(COMMAND) = FALSE
  BY <1>1, <1>2 DEF Holds, ObjType
<1>4. installed = 0
  BY <1>2 DEF installed, ObjType
<1> QED BY <1>3, <1>4 DEF Promise!Init, Init, installed

\* Unchanged objects: only the verdict can move.
LEMMA QuietRefines ==
  ASSUME IInv, [Next]_vars, Kept
  PROVE  [Promise!Next]_(Promise!updateVars)
<1>1. Holds(COMMAND)' = Holds(COMMAND)
  BY DEF Kept, Holds, ObjType
<1>2. installed' = installed
  BY DEF Kept, installed, ObjType
<1>3. \/ verdict' = verdict
      \/ verdict' = "none"
      \/ verdict = "none" /\ verdict' = "FAILED"
      \/ verdict = "none" /\ verdict' = "SUCCESS" /\ done
  <2>1. CASE SendNext /\ UNCHANGED loopVars
    BY <2>1 DEF loopVars
  <2>2. CASE Open \/ Buttonless \/ RegisterFails
    BY <2>2 DEF Open, Buttonless, RegisterFails, Leave, IInv, Order
  <2>3. CASE Attempt \/ Returned \/ RegisterAborts \/ PeerFallsSilent
    BY <2>3 DEF Attempt, Returned, ReturnedAs, RegisterAborts, PeerFallsSilent, loopVars
  <2>4. CASE LoopEnds
    BY <2>4 DEF LoopEnds, Leave, IInv, Order
  <2>5. CASE RunAgain \/ UNCHANGED vars
    BY <2>5 DEF RunAgain, vars, loopVars
  <2> QED BY <2>1, <2>2, <2>3, <2>4, <2>5 DEF Next, ProgramNext
<1>4. done => Holds(COMMAND) /\ installed = Len[DATA]
  BY DEF IInv, Order, Holds, installed
<1>5. CASE verdict' = verdict
  BY <1>1, <1>2, <1>5 DEF Promise!updateVars, installed
<1>6. CASE verdict' = "none"
  BY <1>1, <1>2, <1>6 DEF Promise!Next, Promise!RunAgain, installed
<1>7. CASE verdict = "none" /\ verdict' = "FAILED"
  BY <1>1, <1>2, <1>7 DEF Promise!Next, Promise!Fail, installed
<1>8. CASE verdict = "none" /\ verdict' = "SUCCESS" /\ done
  BY <1>1, <1>2, <1>4, <1>8 DEF Promise!Next, Promise!Succeed, installed
<1> QED BY <1>3, <1>5, <1>6, <1>7, <1>8

\* Starting over, by a CREATE of an init command or by a reset.
LEMMA ErasedRefines ==
  ASSUME IInv, [Next]_vars, Erased, RunAgain \/ pc \in SendPC
  PROVE  [Promise!Next]_(Promise!updateVars)
<1>1. Len[COMMAND] # 0
  BY DEF SizesAssumption, ObjType
<1>2. Holds(COMMAND)' = FALSE /\ installed' = 0
  BY <1>1 DEF Erased, Holds, installed, ObjType
<1>3. CASE RunAgain
  BY <1>2, <1>3 DEF RunAgain, Promise!Next, Promise!RunAgain, installed
<1>4. CASE pc \in SendPC /\ ~RunAgain
  <2>1. verdict = "none"
    BY <1>4 DEF IInv, Order, SendPC
  <2>2. verdict' = "none"
    BY <1>4, <2>1 DEF Next, ProgramNext, Open, Buttonless, Attempt, RegisterFails, RegisterAborts,
       PeerFallsSilent, Returned, ReturnedAs, LoopEnds, loopVars, vars, SendPC
  <2> QED BY <1>2, <2>1, <2>2 DEF Promise!Next, Promise!StartOver, installed
<1> QED BY <1>3, <1>4

\* An EXECUTE: of the init packet, or of verified bytes of the firmware.
LEMMA GrownRefines ==
  ASSUME IInv, [Next]_vars, Grown, ~Kept
  PROVE  [Promise!Next]_(Promise!updateVars)
<1>1. pc \in {"resume", "execute", "finish"} /\ ~(UNCHANGED vars)
  BY DEF Grown, Kept, vars, envVars
<1>2. /\ objs'[type].exOff = objs[type].off /\ objs'[type].exBytes = "package"
      /\ \A u \in ObjType \ {type} : objs'[u] = objs[u]
      /\ objs[type].off <= Len[type] /\ objs[type].off \in Nat
      /\ objs[type].exOff \in Nat /\ objs[type].exOff <= objs[type].off
      /\ objs[type].exBytes = "package"
      /\ type \in ObjType /\ (type = DATA => Holds(COMMAND)) /\ verdict = "none"
  BY <1>1, BeforeExecute, ExecutedSound DEF Grown
<1>3. verdict' = "none"
  BY <1>1, <1>2 DEF Next, ProgramNext, Open, Buttonless, Attempt, RegisterFails, RegisterAborts,
     PeerFallsSilent, Returned, ReturnedAs, LoopEnds, loopVars, RunAgain
<1>4. CASE type = COMMAND
  <2>1. Holds(COMMAND)' = TRUE
    BY <1>2, <1>4 DEF Grown, Holds
  <2>2. installed' = installed
    BY <1>2, <1>4 DEF installed, ObjType, COMMAND, DATA
  <2> QED BY <1>2, <1>3, <2>1, <2>2 DEF Promise!Next, Promise!Accept, installed
<1>5. CASE type = DATA
  <2>1. Holds(COMMAND)' = Holds(COMMAND) /\ Holds(COMMAND)
    BY <1>2, <1>5 DEF Holds, ObjType, COMMAND, DATA
  <2>2. /\ installed' = objs[DATA].off /\ installed = objs[DATA].exOff /\ Len[DATA] \in Nat
        /\ objs[DATA].off \in Nat /\ objs[DATA].exOff \in Nat
        /\ objs[DATA].exOff <= objs[DATA].off /\ objs[DATA].off <= Len[DATA]
    BY <1>2, <1>5 DEF installed, SizesAssumption, ObjType
  <2>3. CASE objs[DATA].off = objs[DATA].exOff
    BY <1>2, <1>3, <2>1, <2>2, <2>3 DEF Promise!updateVars, installed
  <2>4. CASE objs[DATA].off > objs[DATA].exOff
    <3>1. installed' \in (installed + 1)..Len[DATA]
      BY <2>2, <2>4
    <3> QED BY <1>2, <1>3, <2>1, <3>1 DEF Promise!Next, Promise!Install, installed
  <2> QED BY <2>2, <2>3, <2>4
<1> QED BY <1>2, <1>4, <1>5 DEF ObjType

(* dfu() implements Update: the firmware grows front to back behind an     *)
(* accepted init packet, and success is reported only at its end.          *)
THEOREM UpdateImplemented == Spec => KeepsPromise
<1>1. IInv /\ [Next]_vars => [Promise!Next]_(Promise!updateVars)
  BY StepProgress, QuietRefines, ErasedRefines, GrownRefines
<1> QED BY <1>1, InitRefines, Invariance, PTL DEF Spec, KeepsPromise, Promise!Spec
=============================================================================
