--------------------------- MODULE Transformation ---------------------------
(***************************************************************************)
(* AtsPagespeedTransformationPlugin and ProtectedStringWriter              *)
(* (src/src/ats_pagespeed.cpp:58-183): one response body on its way from   *)
(* ATS through a PageSpeed rewrite driver back to ATS.                     *)
(*                                                                         *)
(* Two kinds of threads act.  The ATS thread runs the plugin's callbacks,  *)
(* one at a time: the constructor, consume() for each piece of the body,   *)
(* handleInputComplete() at its end, the destructor.  Rewrite threads call *)
(* ProtectedStringWriter::Write, which appends to the buffer_ the          *)
(* callbacks drain.  The rewrite driver itself is not part of this         *)
(* repository; of it the model keeps what the plugin relies on: it writes  *)
(* only between StartParse and the return of FinishParse.                  *)
(*                                                                         *)
(* The ScopedMutexLock of lines 117 and 133 has no name: it is a temporary *)
(* whose destructor runs at the end of the same statement.  The drain that *)
(* follows it holds no lock.  Write's append is two steps, because nothing *)
(* orders it with a drain on another thread.                               *)
(***************************************************************************)
EXTENDS Naturals, Sequences

CONSTANTS
  Byte,           \* the values a unit of rewritten output can have
  Writers,        \* the rewrite threads that may call Write
  AsyncWriter,    \* TRUE: they may also call it between the plugin's calls
  ChunkSizes,     \* the lengths of the data ATS passes to consume()
  MaxIn,          \* bound: bytes of input
  MaxOut,         \* bound: units of output the driver writes
  Free            \* the owner of write_mutex_ when nobody holds it

ASSUME ConstantsAssumption ==
  /\ Free \notin Writers
  /\ AsyncWriter \in BOOLEAN
  /\ ChunkSizes \subseteq Nat \ {0}
  /\ MaxIn \in Nat
  /\ MaxOut \in Nat

VARIABLES
  pc,               \* where the ATS thread is
  rewriteDriver,    \* rewrite_driver_ # NULL
  driver,           \* the life of the driver it points (or pointed) to
  buffer,           \* buffer_
  mutex,            \* the owner of write_mutex_
  bytesWritten,     \* bytes_written_
  bytesReceived,    \* bytes_received_
  completedCleanly, \* completed_cleanly_
  inputDone,        \* handleInputComplete() has been called
  outputDone,       \* setOutputComplete() has been called
  produced,         \* everything passed to produce()
  wpc,              \* where each rewrite thread is in Write
  wval,             \* the string each append started from
  offered,          \* history: bytes ATS passed to consume()
  out               \* history: everything rewrite threads wrote

bodyVars   == <<buffer, bytesWritten, produced>>
driverVars == <<rewriteDriver, driver>>
inputVars  == <<bytesReceived, offered, inputDone>>
writerVars == <<mutex, wpc, wval, out>>
vars == <<pc, driverVars, bodyVars, completedCleanly, inputVars, outputDone,
          writerVars>>

(* The ATS thread is inside ParseText, FinishParse or the destructor's     *)
(* FinishParse.                                                            *)
InDriver == {"parse", "finish", "dtorFinish"}

Init ==
  /\ pc = "new"
  /\ rewriteDriver = FALSE
  /\ driver = "none"
  /\ buffer = << >>
  /\ mutex = Free
  /\ bytesWritten = 0
  /\ bytesReceived = 0
  /\ completedCleanly = FALSE
  /\ inputDone = FALSE
  /\ outputDone = FALSE
  /\ produced = << >>
  /\ wpc = [w \in Writers |-> "idle"]
  /\ wval = [w \in Writers |-> << >>]
  /\ offered = 0
  /\ out = << >>

-----------------------------------------------------------------------------
(* ProtectedStringWriter::Write, on a rewrite thread. *)

(* When the driver may call Write. *)
MayWrite ==
  /\ driver \in {"parsing", "finishing"}
  /\ AsyncWriter \/ pc \in InDriver

WritersIdle == \A w \in Writers : wpc[w] = "idle"

TakeLock(w) ==
  /\ MayWrite
  /\ Len(out) < MaxOut
  /\ wpc[w] = "idle"
  /\ mutex' = w
  /\ wpc' = [wpc EXCEPT ![w] = "locked"]
  /\ UNCHANGED <<pc, driverVars, bodyVars, completedCleanly, inputVars,
                 outputDone, wval, out>>

(* Mutant: Write does not wait for write_mutex_. *)
WriteLockUnguarded(w) == TakeLock(w)

WriteLock(w) == mutex = Free /\ TakeLock(w)

WriteAppendBegin(w) ==
  /\ wpc[w] = "locked"
  /\ wval' = [wval EXCEPT ![w] = buffer]
  /\ wpc' = [wpc EXCEPT ![w] = "appending"]
  /\ UNCHANGED <<pc, driverVars, bodyVars, completedCleanly, inputVars,
                 outputDone, mutex, out>>

(* The append finishes with what it read at its begin and its own piece. *)
WriteAppendEnd(w, b) ==
  /\ wpc[w] = "appending"
  /\ buffer' = Append(wval[w], b)
  /\ out' = Append(out, b)
  /\ wval' = [wval EXCEPT ![w] = << >>]
  /\ wpc' = [wpc EXCEPT ![w] = "unlock"]
  /\ UNCHANGED <<pc, driverVars, bytesWritten, produced, completedCleanly,
                 inputVars, outputDone, mutex>>

ReturnWith(w, owner) ==
  /\ wpc[w] = "unlock"
  /\ mutex' = owner
  /\ wpc' = [wpc EXCEPT ![w] = "idle"]
  /\ UNCHANGED <<pc, driverVars, bodyVars, completedCleanly, inputVars,
                 outputDone, wval, out>>

(* Mutant: Write returns without unlocking. *)
WriteKeepsLock(w) == ReturnWith(w, mutex)

WriteUnlock(w) == ReturnWith(w, Free)

-----------------------------------------------------------------------------
(* The constructor: Init() takes a driver and calls StartParse.  When that *)
(* fails the driver goes back to the server context at once.               *)
Construct(started) ==
  /\ pc = "new"
  /\ pc' = "idle"
  /\ rewriteDriver' = started
  /\ driver' = IF started THEN "parsing" ELSE "recycled"
  /\ UNCHANGED <<bodyVars, completedCleanly, inputVars, outputDone,
                 writerVars>>

(* consume() without a driver returns at once: the data is dropped. *)
ConsumeNoDriver(n) ==
  /\ pc = "idle" /\ ~inputDone
  /\ ~rewriteDriver
  /\ offered + n <= MaxIn
  /\ offered' = offered + n
  /\ UNCHANGED <<pc, driverVars, bodyVars, completedCleanly, bytesReceived,
                 inputDone, outputDone, writerVars>>

(* consume() up to its call of ParseText. *)
ConsumeCounting(n, received) ==
  /\ pc = "idle" /\ ~inputDone
  /\ rewriteDriver
  /\ offered + n <= MaxIn
  /\ offered' = offered + n
  /\ bytesReceived' = received
  /\ pc' = "parse"
  /\ UNCHANGED <<driverVars, bodyVars, completedCleanly, inputDone,
                 outputDone, writerVars>>

(* Mutant: bytes_received_ is assigned the length, not increased by it. *)
ConsumeCountsLast(n) == ConsumeCounting(n, n)

Consume(n) == ConsumeCounting(n, bytesReceived + n)

ParseTextReturns ==
  /\ pc = "parse"
  /\ AsyncWriter \/ WritersIdle
  /\ pc' = "lock"
  /\ UNCHANGED <<driverVars, bodyVars, completedCleanly, inputVars,
                 outputDone, writerVars>>

(* The statement ScopedMutexLock(...) waits for write_mutex_ and releases  *)
(* it again before the next statement.                                     *)
DrainLock ==
  /\ pc = "lock"
  /\ mutex = Free
  /\ pc' = "size"
  /\ UNCHANGED <<driverVars, bodyVars, completedCleanly, inputVars,
                 outputDone, writerVars>>

(* Where the drain of buffer_ returns to: consume() is over,               *)
(* handleInputComplete() goes on to setOutputComplete().                   *)
AfterDrain == IF inputDone THEN "output" ELSE "idle"

(* buffer_.size(), counted and then tested. *)
CountBytes(n) ==
  /\ pc = "size"
  /\ bytesWritten' = bytesWritten + n
  /\ pc' = IF buffer # << >> THEN "produce" ELSE AfterDrain
  /\ UNCHANGED <<driverVars, buffer, produced, completedCleanly, inputVars,
                 outputDone, writerVars>>

(* Mutant: the final drain is not counted. *)
DrainCountsConsumeOnly == CountBytes(IF inputDone THEN 0 ELSE Len(buffer))

DrainCount == CountBytes(Len(buffer))

DrainProduce ==
  /\ pc = "produce"
  /\ produced' = produced \o buffer
  /\ pc' = "clear"
  /\ UNCHANGED <<driverVars, buffer, bytesWritten, completedCleanly,
                 inputVars, outputDone, writerVars>>

DrainClear ==
  /\ pc = "clear"
  /\ buffer' = << >>
  /\ pc' = AfterDrain
  /\ UNCHANGED <<driverVars, bytesWritten, produced, completedCleanly,
                 inputVars, outputDone, writerVars>>

(* handleInputComplete() up to FinishParse, which a body that was received *)
(* needs first.                                                            *)
StartCompletion(withoutBody) ==
  /\ pc = "idle" /\ ~inputDone
  /\ inputDone' = TRUE
  /\ IF bytesReceived > 0
     THEN pc' = "finish" /\ driver' = "finishing"
     ELSE pc' = withoutBody /\ UNCHANGED driver
  /\ UNCHANGED <<rewriteDriver, bodyVars, completedCleanly, bytesReceived,
                 offered, outputDone, writerVars>>

(* Mutant: without input the response is not declared complete. *)
InputCompleteNeedsData == StartCompletion("idle")

InputComplete == StartCompletion("output")

(* FinishParse blocks until the driver has written everything; the driver  *)
(* is then back with the server context.                                   *)
FinishParseGoesOn(next) ==
  /\ pc = "finish"
  /\ WritersIdle
  /\ driver' = "recycled"
  /\ completedCleanly' = TRUE
  /\ pc' = next
  /\ UNCHANGED <<rewriteDriver, bodyVars, inputVars, outputDone, writerVars>>

(* Mutant: handleInputComplete() without its drain. *)
FinishParseSkipsDrain == FinishParseGoesOn("output")

FinishParseReturns == FinishParseGoesOn("lock")

SetOutputComplete ==
  /\ pc = "output"
  /\ outputDone' = TRUE
  /\ pc' = "idle"
  /\ UNCHANGED <<driverVars, bodyVars, completedCleanly, inputVars,
                 writerVars>>

(* ATS destroys the plugin at the end of the transaction, which a client   *)
(* that goes away can bring about between any two callbacks.               *)
DestroyFinishing(unfinished) ==
  /\ pc = "idle"
  /\ IF unfinished
     THEN pc' = "dtorFinish" /\ driver' = "finishing"
     ELSE pc' = "destroyed" /\ UNCHANGED driver
  /\ UNCHANGED <<rewriteDriver, bodyVars, completedCleanly, inputVars,
                 outputDone, writerVars>>

(* Mutants: a destructor that ignores completed_cleanly_; one that does    *)
(* not finish the driver at all.                                           *)
DestroyFinishesAgain == DestroyFinishing(rewriteDriver)
DestroyAbandonsDriver == DestroyFinishing(FALSE)

Destroy == DestroyFinishing(rewriteDriver /\ ~completedCleanly)

DestroyFinishReturns ==
  /\ pc = "dtorFinish"
  /\ WritersIdle
  /\ driver' = "recycled"
  /\ pc' = "destroyed"
  /\ UNCHANGED <<rewriteDriver, bodyVars, completedCleanly, inputVars,
                 outputDone, writerVars>>

(* The plugin is gone and so is everything it owned. *)
Terminated == pc = "destroyed" /\ UNCHANGED vars

-----------------------------------------------------------------------------
(* The steps inside a callback, which run to its return once it started. *)
CallbackStep ==
  \/ ParseTextReturns
  \/ DrainLock \/ DrainCount \/ DrainProduce \/ DrainClear
  \/ FinishParseReturns
  \/ SetOutputComplete
  \/ DestroyFinishReturns

(* The steps inside Write, which run to its return once it has the lock. *)
WriteStep(w) ==
  \/ WriteAppendBegin(w)
  \/ \E b \in Byte : WriteAppendEnd(w, b)
  \/ WriteUnlock(w)

Next ==
  \/ \E started \in BOOLEAN : Construct(started)
  \/ \E n \in ChunkSizes : ConsumeNoDriver(n) \/ Consume(n)
  \/ InputComplete
  \/ Destroy
  \/ CallbackStep
  \/ \E w \in Writers : WriteLock(w) \/ WriteStep(w)
  \/ Terminated

Spec == Init /\ [][Next]_vars

(* A callback that started, and a Write that has the lock, keep running.   *)
(* Nothing makes ATS call back again or the driver write more.             *)
Fairness ==
  /\ WF_vars(CallbackStep)
  /\ \A w \in Writers : WF_vars(WriteStep(w))

FairSpec == Spec /\ Fairness

-----------------------------------------------------------------------------
(* Besides the types: bytes_received_ (ats_pagespeed.cpp:113), on which     *)
(* handleInputComplete() decides, is all that ATS offered to a plugin that *)
(* has a driver, and zero for one that has none and drops the body.        *)
TypeOK ==
  /\ pc \in {"new", "idle", "parse", "lock", "size", "produce", "clear",
             "finish", "output", "dtorFinish", "destroyed"}
  /\ rewriteDriver \in BOOLEAN
  /\ driver \in {"none", "parsing", "finishing", "recycled"}
  /\ buffer \in Seq(Byte)
  /\ mutex \in Writers \cup {Free}
  /\ bytesWritten \in Nat
  /\ completedCleanly \in BOOLEAN
  /\ inputDone \in BOOLEAN
  /\ outputDone \in BOOLEAN
  /\ produced \in Seq(Byte)
  /\ wpc \in [Writers -> {"idle", "locked", "appending", "unlock"}]
  /\ wval \in [Writers -> Seq(Byte)]
  /\ offered \in Nat
  /\ bytesReceived = IF rewriteDriver THEN offered ELSE 0
  /\ out \in Seq(Byte)

-----------------------------------------------------------------------------
(* Properties.  Those marked [sync] are promised only if ~AsyncWriter. *)

(* [sync] Between callbacks and inside them, what was passed to produce()  *)
(* followed by what waits in buffer_ is exactly what the rewrite threads   *)
(* wrote: concurrent Writes do not overwrite one another, and a drain      *)
(* (ats_pagespeed.cpp:118-123, 134-140) neither loses, repeats nor         *)
(* reorders a byte.  Between produce() and clear() the bytes are in both.  *)
NoByteLost ==
  IF pc = "clear" THEN produced = out ELSE produced \o buffer = out

(* [sync] The check the plugin makes of itself at ats_pagespeed.cpp:145:   *)
(* the total setOutputComplete() reports is the total it counted.          *)
SanityCheck == outputDone => bytesWritten = Len(produced)

(* [sync] The plugin implements the promise made to the client: an ordered *)
(* stream of the rewritten bytes, complete when it is declared complete.   *)
Stream == INSTANCE BodyStream WITH delivered <- produced, complete <- outputDone
ImplementsBodyStream == Stream!Spec

(* Nothing of the plugin is used after it is freed: the destructor returns *)
(* only when no rewrite thread is inside Write and the driver, which still *)
(* points to the plugin's writer, can no longer call it; and               *)
(* handleInputComplete() never calls FinishParse through a NULL driver.    *)
NoUseAfterFree ==
  /\ pc = "destroyed" => driver = "recycled" /\ WritersIdle
  /\ pc \in InDriver => rewriteDriver

(* A driver is given back to the server context once: after FinishParse or *)
(* ReleaseRewriteDriver it may serve another response, so no later         *)
(* callback nor the destructor finishes it again.                          *)
DriverReturnedOnce == [][driver = "recycled" => driver' = "recycled"]_vars

(* Every callback ATS makes returns, whatever the rewrite threads do with  *)
(* write_mutex_ meanwhile.                                                 *)
CallbacksReturn ==
  (pc \notin {"new", "idle", "destroyed"}) ~> (pc \in {"idle", "destroyed"})

(* A response whose input is complete is eventually declared complete,     *)
(* also when its driver could not be started or its body was empty.        *)
OutputCompletes == inputDone ~> outputDone
=============================================================================
