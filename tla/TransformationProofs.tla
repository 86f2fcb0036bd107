------------------------ MODULE TransformationProofs ------------------------
(***************************************************************************)
(* Proofs about Transformation: its type invariant, the life of the        *)
(* rewrite driver under any schedule of the rewrite threads, and, for      *)
(* rewrite threads that write only inside the plugin's calls, that no byte *)
(* is lost and that the plugin implements BodyStream.                      *)
(***************************************************************************)
EXTENDS Transformation, TLAPS

-----------------------------------------------------------------------------
(* The inductive invariant. *)

(* What each position of the ATS thread says of the driver. *)
DriverInv ==
  /\ pc = "new" =>
       /\ driver = "none" /\ ~rewriteDriver
       /\ ~completedCleanly /\ ~inputDone /\ offered = 0
  /\ pc # "new" /\ ~rewriteDriver => driver = "recycled" /\ bytesReceived = 0
  /\ rewriteDriver /\ pc \notin {"finish", "dtorFinish", "destroyed"} =>
       driver = IF completedCleanly THEN "recycled" ELSE "parsing"
  /\ pc \in {"finish", "dtorFinish"} =>
       rewriteDriver /\ driver = "finishing" /\ ~completedCleanly
  /\ pc = "parse" => rewriteDriver
  /\ pc = "destroyed" => driver = "recycled"
  /\ completedCleanly => inputDone

(* write_mutex_ is held exactly while its owner is inside Write, and nobody *)
(* is inside Write without a driver to call it.                             *)
LockInv ==
  /\ \A w \in Writers : wpc[w] # "idle" <=> mutex = w
  /\ driver \in {"none", "recycled"} => WritersIdle

(* How far handleInputComplete() is. *)
CompletionInv ==
  /\ pc \in {"finish", "output"} => inputDone
  /\ pc = "parse" => ~inputDone
  /\ outputDone => inputDone /\ pc \in {"idle", "dtorFinish", "destroyed"}

(* Where the bytes are when rewrite threads write only inside the plugin's *)
(* calls: the drain, which those calls exclude, sees a quiet buffer.       *)
BytesInv ==
  /\ pc \notin InDriver => WritersIdle
  /\ \A w \in Writers : wpc[w] = "appending" => wval[w] = buffer
  /\ NoByteLost
  /\ bytesWritten = Len(produced) + IF pc = "produce" THEN Len(buffer) ELSE 0
  /\ pc \in {"new", "idle", "output"} => buffer = << >>

IInv ==
  /\ TypeOK
  /\ DriverInv
  /\ LockInv
  /\ CompletionInv
  /\ ~AsyncWriter => BytesInv

-----------------------------------------------------------------------------
(* Type correctness. *)

(* Every initial state satisfies the inductive invariant. *)
LEMMA InitIInv == Init => IInv
<1> SUFFICES ASSUME Init PROVE IInv
  OBVIOUS
<1> USE ConstantsAssumption DEF Init
<1>1. TypeOK
  <2>1. /\ wpc \in [Writers -> {"idle", "locked", "appending", "unlock"}]
        /\ \A S : << >> \in Seq(S)
    OBVIOUS
  <2>2. wval \in [Writers -> Seq(Byte)]
    BY <2>1
  <2> QED
    BY <2>1, <2>2 DEF TypeOK
<1>2. DriverInv
  BY DEF DriverInv
<1>3. LockInv
  BY <1>1 DEF LockInv, WritersIdle, TypeOK
<1>4. CompletionInv
  BY DEF CompletionInv
<1>5. BytesInv
  <2>1. produced \o buffer = out
    BY DEF Init
  <2> QED
    BY <2>1 DEF BytesInv, InDriver, WritersIdle, NoByteLost
<1> QED
  BY <1>1, <1>2, <1>3, <1>4, <1>5 DEF IInv

(* Every step leaves every variable in its type. *)
LEMMA TypeStep == TypeOK /\ DriverInv /\ [Next]_vars => TypeOK'
<1> SUFFICES ASSUME TypeOK, DriverInv, [Next]_vars PROVE TypeOK'
  OBVIOUS
<1> USE ConstantsAssumption
    DEF TypeOK, AfterDrain, driverVars, bodyVars, inputVars, writerVars
<1>1. CASE \E started \in BOOLEAN : Construct(started)
  BY <1>1 DEF Construct, DriverInv
<1>2. CASE \E n \in ChunkSizes : ConsumeNoDriver(n)
  BY <1>2 DEF ConsumeNoDriver
<1>3. CASE \E n \in ChunkSizes : Consume(n)
  BY <1>3 DEF Consume, ConsumeCounting
<1>4. CASE InputComplete
  BY <1>4 DEF InputComplete, StartCompletion
<1>5. CASE Destroy
  BY <1>5 DEF Destroy, DestroyFinishing
<1>6. CASE ParseTextReturns
  BY <1>6 DEF ParseTextReturns
<1>7. CASE DrainLock
  BY <1>7 DEF DrainLock
<1>8. CASE DrainCount
  BY <1>8 DEF DrainCount, CountBytes
<1>9. CASE DrainProduce
  BY <1>9 DEF DrainProduce
<1>10. CASE DrainClear
  BY <1>10 DEF DrainClear
<1>11. CASE FinishParseReturns
  BY <1>11 DEF FinishParseReturns, FinishParseGoesOn
<1>12. CASE SetOutputComplete
  BY <1>12 DEF SetOutputComplete
<1>13. CASE DestroyFinishReturns
  BY <1>13 DEF DestroyFinishReturns
<1>14. ASSUME NEW w \in Writers, WriteLock(w) \/ WriteStep(w) PROVE TypeOK'
  <2>1. CASE WriteLock(w)
    BY <2>1 DEF WriteLock, TakeLock
  <2>2. CASE WriteAppendBegin(w)
    BY <2>2 DEF WriteAppendBegin
  <2>3. CASE \E b \in Byte : WriteAppendEnd(w, b)
    BY <2>3 DEF WriteAppendEnd
  <2>4. CASE WriteUnlock(w)
    BY <2>4 DEF WriteUnlock, ReturnWith
  <2> QED
    BY <1>14, <2>1, <2>2, <2>3, <2>4 DEF WriteStep
<1>15. CASE UNCHANGED vars
  BY <1>15 DEF vars
<1> QED
  BY <1>1, <1>2, <1>3, <1>4, <1>5, <1>6, <1>7, <1>8, <1>9, <1>10, <1>11,
     <1>12, <1>13, <1>14, <1>15
  DEF Next, CallbackStep, Terminated

-----------------------------------------------------------------------------
(* The life of the driver. *)

LifeInv == DriverInv /\ LockInv /\ CompletionInv

LEMMA LifeStep == TypeOK /\ LifeInv /\ [Next]_vars => LifeInv'
<1> SUFFICES ASSUME TypeOK, LifeInv, [Next]_vars PROVE LifeInv'
  OBVIOUS
<1> USE ConstantsAssumption
    DEF TypeOK, LifeInv, DriverInv, LockInv, CompletionInv, WritersIdle,
        AfterDrain, driverVars, bodyVars, inputVars, writerVars
<1>1. CASE \E started \in BOOLEAN : Construct(started)
  BY <1>1 DEF Construct
<1>2. CASE \E n \in ChunkSizes : ConsumeNoDriver(n)
  BY <1>2 DEF ConsumeNoDriver
<1>3. CASE \E n \in ChunkSizes : Consume(n)
  BY <1>3 DEF Consume, ConsumeCounting
<1>4. CASE InputComplete
  BY <1>4 DEF InputComplete, StartCompletion
<1>5. CASE Destroy
  BY <1>5 DEF Destroy, DestroyFinishing
<1>6. CASE ParseTextReturns
  BY <1>6 DEF ParseTextReturns
<1>7. CASE DrainLock
  BY <1>7 DEF DrainLock
<1>8. CASE DrainCount
  BY <1>8 DEF DrainCount, CountBytes
<1>9. CASE DrainProduce
  BY <1>9 DEF DrainProduce
<1>10. CASE DrainClear
  BY <1>10 DEF DrainClear
<1>11. CASE FinishParseReturns
  BY <1>11 DEF FinishParseReturns, FinishParseGoesOn
<1>12. CASE SetOutputComplete
  BY <1>12 DEF SetOutputComplete
<1>13. CASE DestroyFinishReturns
  BY <1>13 DEF DestroyFinishReturns
<1>14. ASSUME NEW w \in Writers, WriteLock(w) \/ WriteStep(w) PROVE LifeInv'
  <2>1. CASE WriteLock(w)
    BY <2>1 DEF WriteLock, TakeLock, MayWrite
  <2>2. CASE WriteAppendBegin(w)
    BY <2>2 DEF WriteAppendBegin
  <2>3. CASE \E b \in Byte : WriteAppendEnd(w, b)
    BY <2>3 DEF WriteAppendEnd
  <2>4. CASE WriteUnlock(w)
    BY <2>4 DEF WriteUnlock, ReturnWith
  <2> QED
    BY <1>14, <2>1, <2>2, <2>3, <2>4 DEF WriteStep
<1>15. CASE UNCHANGED vars
  BY <1>15 DEF vars
<1> QED
  BY <1>1, <1>2, <1>3, <1>4, <1>5, <1>6, <1>7, <1>8, <1>9, <1>10, <1>11,
     <1>12, <1>13, <1>14, <1>15
  DEF Next, CallbackStep, Terminated

-----------------------------------------------------------------------------
(* The bytes, when rewrite threads write only inside the plugin's calls. *)

(* Appending to the second of two sequences appends to both together. *)
LEMMA AppendConcat ==
  ASSUME NEW S, NEW s \in Seq(S), NEW t \in Seq(S), NEW e \in S
  PROVE  s \o Append(t, e) = Append(s \o t, e)
  OBVIOUS

LEMMA BytesStep ==
  ASSUME ~AsyncWriter, TypeOK, TypeOK', LifeInv, BytesInv, [Next]_vars
  PROVE  BytesInv'
<1> USE ConstantsAssumption
    DEF TypeOK, LifeInv, DriverInv, LockInv, CompletionInv, BytesInv,
        NoByteLost, WritersIdle, AfterDrain, InDriver, MayWrite,
        driverVars, bodyVars, inputVars, writerVars
<1>1. CASE \E started \in BOOLEAN : Construct(started)
  BY <1>1 DEF Construct
<1>2. CASE \E n \in ChunkSizes : ConsumeNoDriver(n)
  BY <1>2 DEF ConsumeNoDriver
<1>3. CASE \E n \in ChunkSizes : Consume(n)
  BY <1>3 DEF Consume, ConsumeCounting
<1>4. CASE InputComplete
  BY <1>4 DEF InputComplete, StartCompletion
<1>5. CASE Destroy
  BY <1>5 DEF Destroy, DestroyFinishing
<1>6. CASE ParseTextReturns
  BY <1>6 DEF ParseTextReturns
<1>7. CASE DrainLock
  BY <1>7 DEF DrainLock
<1>8. CASE DrainCount
  BY <1>8 DEF DrainCount, CountBytes
<1>9. CASE DrainProduce
  BY <1>9 DEF DrainProduce
<1>10. CASE DrainClear
  BY <1>10 DEF DrainClear
<1>11. CASE FinishParseReturns
  BY <1>11 DEF FinishParseReturns, FinishParseGoesOn
<1>12. CASE SetOutputComplete
  BY <1>12 DEF SetOutputComplete
<1>13. CASE DestroyFinishReturns
  BY <1>13 DEF DestroyFinishReturns
<1>14. ASSUME NEW w \in Writers, WriteLock(w) \/ WriteStep(w) PROVE BytesInv'
  <2>1. CASE WriteLock(w)
    BY <2>1 DEF WriteLock, TakeLock
  <2>2. CASE WriteAppendBegin(w)
    BY <2>2 DEF WriteAppendBegin
  <2>3. CASE \E b \in Byte : WriteAppendEnd(w, b)
    <3>1. PICK b \in Byte : WriteAppendEnd(w, b)
      BY <2>3
    <3> USE <3>1 DEF WriteAppendEnd, driverVars, inputVars
    <3>2. mutex = w /\ \A v \in Writers \ {w} : wpc[v] = "idle"
      OBVIOUS
    <3>3. pc \in InDriver /\ wval[w] = buffer /\ produced \o buffer = out
      OBVIOUS
    <3>4. NoByteLost'
      <4>1. /\ buffer' = Append(buffer, b) /\ out' = Append(out, b)
            /\ produced' = produced /\ pc' = pc /\ pc # "clear"
        BY <3>3
      <4>2. produced \o Append(buffer, b) = Append(produced \o buffer, b)
        BY AppendConcat
      <4>3. produced' \o buffer' = out'
        BY <3>3, <4>1, <4>2
      <4> QED
        BY <4>1, <4>3 DEF NoByteLost
    <3>5. \A v \in Writers : wpc'[v] = "appending" => wval'[v] = buffer'
      BY <3>2
    <3> QED
      BY <3>3, <3>4, <3>5
  <2>4. CASE WriteUnlock(w)
    BY <2>4 DEF WriteUnlock, ReturnWith
  <2> QED
    BY <1>14, <2>1, <2>2, <2>3, <2>4 DEF WriteStep
<1>15. CASE UNCHANGED vars
  BY <1>15 DEF vars
<1> QED
  BY <1>1, <1>2, <1>3, <1>4, <1>5, <1>6, <1>7, <1>8, <1>9, <1>10, <1>11,
     <1>12, <1>13, <1>14, <1>15
  DEF Next, CallbackStep, Terminated

-----------------------------------------------------------------------------
(* The theorems. *)

LEMMA IInvStep == IInv /\ [Next]_vars => IInv'
<1> SUFFICES ASSUME IInv, [Next]_vars PROVE IInv'
  OBVIOUS
<1>1. TypeOK'
  BY TypeStep DEF IInv
<1>2. LifeInv'
  BY LifeStep DEF IInv, LifeInv
<1>3. ~AsyncWriter => BytesInv'
  BY <1>1, BytesStep DEF IInv, LifeInv
<1> QED
  BY <1>1, <1>2, <1>3 DEF IInv, LifeInv

(* IInv holds throughout every execution. *)
THEOREM Invariance == Spec => []IInv
  BY InitIInv, IInvStep, PTL DEF Spec

(* The variables keep their types, in every instance and whatever the      *)
(* rewrite threads do, and bytes_received_ is what ATS offered to a plugin *)
(* with a driver (TypeOK).                                                 *)
THEOREM TypeCorrect == Spec => []TypeOK
<1>1. IInv => TypeOK
  BY DEF IInv
<1> QED
  BY <1>1, Invariance, PTL

(* Also when rewrite threads call Write between the plugin's calls, the    *)
(* destructor returns with the driver given back and nobody inside Write,  *)
(* and FinishParse is never called through a NULL driver (NoUseAfterFree). *)
THEOREM LifecycleSafe == Spec => []NoUseAfterFree
<1>1. IInv => NoUseAfterFree
  BY DEF IInv, DriverInv, LockInv, NoUseAfterFree, InDriver
<1> QED
  BY <1>1, Invariance, PTL

(* A driver that went back to the server context is never finished again   *)
(* by this plugin (DriverReturnedOnce).                                    *)
THEOREM DriverOnce == Spec => DriverReturnedOnce
<1>1. IInv /\ [Next]_vars => [driver = "recycled" => driver' = "recycled"]_vars
  <2> SUFFICES ASSUME IInv, [Next]_vars, driver = "recycled"
               PROVE  driver' = "recycled"
    BY DEF vars
  <2> USE DEF IInv, TypeOK, DriverInv
  <2>1. CASE \E started \in BOOLEAN : Construct(started)
    BY <2>1 DEF Construct
  <2>2. CASE InputComplete
    BY <2>2 DEF InputComplete, StartCompletion
  <2>3. CASE Destroy
    BY <2>3 DEF Destroy, DestroyFinishing
  <2>4. CASE FinishParseReturns \/ DestroyFinishReturns
    BY <2>4 DEF FinishParseReturns, FinishParseGoesOn, DestroyFinishReturns
  <2>5. CASE UNCHANGED driver
    BY <2>5
  <2> QED
    BY <2>1, <2>2, <2>3, <2>4, <2>5
    DEF Next, CallbackStep, WriteStep, Terminated, vars, driverVars,
        ConsumeNoDriver, Consume, ConsumeCounting, ParseTextReturns,
        DrainLock, DrainCount, CountBytes,
        DrainProduce, DrainClear, SetOutputComplete, WriteLock, TakeLock,
        WriteAppendBegin, WriteAppendEnd, WriteUnlock, ReturnWith
<1> QED
  BY <1>1, Invariance, PTL DEF Spec, DriverReturnedOnce

(* With rewrite threads that write only inside the plugin's calls, every   *)
(* byte written is produced or waits in buffer_, in order (NoByteLost).    *)
THEOREM SyncNoByteLost == ~AsyncWriter => (Spec => []NoByteLost)
<1> SUFFICES ASSUME ~AsyncWriter PROVE Spec => []NoByteLost
  OBVIOUS
<1>1. IInv => NoByteLost
  BY DEF IInv, BytesInv
<1> QED
  BY <1>1, Invariance, PTL

(* Under the same condition the plugin's own check of the total it counted *)
(* never fails (SanityCheck).                                              *)
THEOREM SyncSanityCheck == ~AsyncWriter => (Spec => []SanityCheck)
<1> SUFFICES ASSUME ~AsyncWriter PROVE Spec => []SanityCheck
  OBVIOUS
<1>1. IInv => SanityCheck
  BY DEF IInv, TypeOK, CompletionInv, BytesInv, SanityCheck
<1> QED
  BY <1>1, Invariance, PTL

(* A step of the plugin is a step of BodyStream or leaves it alone. *)
LEMMA StreamStep ==
  ASSUME ~AsyncWriter, IInv, [Next]_vars
  PROVE  [Stream!Next]_(Stream!vars)
<1> USE DEF Stream!vars
<1>1. CASE DrainProduce
  <2>1. ~outputDone /\ produced \in Seq(Byte) /\ buffer \in Seq(Byte)
    BY <1>1 DEF IInv, TypeOK, CompletionInv, DrainProduce
  <2>2. produced' = out /\ out' = out /\ outputDone' = outputDone
    BY <1>1 DEF IInv, BytesInv, NoByteLost, DrainProduce, writerVars
  <2>3. out \in Seq(Byte) /\ Len(produced) <= Len(out)
    BY <1>1, <2>1 DEF IInv, TypeOK, BytesInv, NoByteLost, DrainProduce
  <2>4. /\ Len(out) \in Len(produced) .. Len(out)
        /\ SubSeq(out, 1, Len(out)) = out
    BY <2>1, <2>3
  <2>5. Stream!Deliver
    BY <2>1, <2>2, <2>4 DEF Stream!Deliver
  <2> QED
    BY <2>5 DEF Stream!Next
<1>2. CASE SetOutputComplete
  <2>1. ~outputDone /\ buffer = << >> /\ produced \o buffer = out
    BY <1>2 DEF IInv, CompletionInv, BytesInv, NoByteLost, SetOutputComplete
  <2>2. produced = out
    BY <2>1 DEF IInv, TypeOK
  <2>3. Stream!Complete
    BY <1>2, <2>1, <2>2
    DEF Stream!Complete, SetOutputComplete, bodyVars, writerVars
  <2> QED
    BY <2>3 DEF Stream!Next
<1>3. ASSUME NEW w \in Writers, NEW b \in Byte, WriteAppendEnd(w, b)
      PROVE  [Stream!Next]_(Stream!vars)
  BY <1>3 DEF WriteAppendEnd, Stream!Next, Stream!Write
<1>4. CASE UNCHANGED <<out, produced, outputDone>>
  BY <1>4
<1> QED
  BY <1>1, <1>2, <1>3, <1>4
  DEF Next, CallbackStep, WriteStep, Terminated, vars, bodyVars, writerVars,
      Construct, ConsumeNoDriver, Consume, ConsumeCounting,
      InputComplete, StartCompletion, Destroy, DestroyFinishing,
      ParseTextReturns, DrainLock, DrainCount, CountBytes, DrainClear,
      FinishParseReturns, FinishParseGoesOn, DestroyFinishReturns, WriteLock,
      TakeLock, WriteAppendBegin,
      WriteUnlock, ReturnWith

(* Under the same condition the plugin implements BodyStream: the client   *)
(* gets the rewritten bytes in order, each once, all of them before the    *)
(* response is complete (ImplementsBodyStream).                            *)
THEOREM SyncImplementsBodyStream ==
  ~AsyncWriter => (Spec => ImplementsBodyStream)
<1> SUFFICES ASSUME ~AsyncWriter PROVE Spec => ImplementsBodyStream
  OBVIOUS
<1>1. Init => Stream!Init
  BY DEF Init, Stream!Init
<1>2. IInv /\ [Next]_vars => [Stream!Next]_(Stream!vars)
  BY StreamStep
<1> QED
  BY <1>1, <1>2, Invariance, PTL DEF Spec, ImplementsBodyStream, Stream!Spec
=============================================================================
