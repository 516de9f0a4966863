----------------------------- MODULE VidBufProofs -----------------------------
(***************************************************************************)
(* Theorems about VidBuf, for any number of threads and buffers.           *)
(***************************************************************************)
EXTENDS VidBufInv, TLAPS

(* Where a call may be, one fact for each place. *)
LEMMA LabelFacts ==
/\ "idle" \in Labels /\ "qbuf_test" \in Labels /\ "qbuf_set" \in Labels
/\ "qbuf_kick" \in Labels /\ "attempt" \in Labels /\ "next" \in Labels
/\ "start" \in Labels /\ "request" \in Labels /\ "check" \in Labels
/\ "complete" \in Labels /\ "signal" \in Labels /\ "dq_enter" \in Labels
/\ "gefb1" \in Labels /\ "gefb2" \in Labels /\ "count_active" \in Labels
/\ "no_active" \in Labels /\ "wait" \in Labels /\ "after_wait" \in Labels
/\ "gnib_read" \in Labels /\ "gnib_write" \in Labels /\ "deliver" \in Labels
/\ "on_enter" \in Labels /\ "on_test" \in Labels /\ "on_clear" \in Labels
/\ "off_enter" \in Labels /\ "off_test" \in Labels /\ "off_set" \in Labels
/\ "off_drain" \in Labels /\ "off_wait" \in Labels /\ "poll_wait" \in Labels
/\ "poll_requeue" \in Labels
/\ "idle" \in CoreLabels /\ "check" \in CoreLabels
/\ "complete" \in CoreLabels /\ "signal" \in CoreLabels
BY DEF Labels, CoreLabels

(* A step keeps the types; what the application gets back is a buffer. *)
LEMMA TypeStep ==
ASSUME TypeOK, BufInRange, [Next]_vars
PROVE  TypeOK'
<1> USE ProcAssumption, NumAssumption, LabelFacts
    DEF TypeOK, Procs, Goto, At, bufVars, evVars, appVars
<1>1. ASSUME NEW t \in Threads, CallStep(t) PROVE TypeOK'
  <2>1. ASSUME NEW i \in Indices, QBuf(t, i) PROVE TypeOK'
    BY <2>1 DEF QBuf, Call
  <2>2. CASE DQBuf(t)
    BY <2>2 DEF DQBuf, Call
  <2>3. CASE StreamOn(t)
    BY <2>3 DEF StreamOn, Call
  <2>4. CASE StreamOff(t)
    BY <2>4 DEF StreamOff, Call
  <2>5. CASE Poll(t)
    BY <2>5 DEF Poll, Call
  <2>q. QED BY <1>1, <2>1, <2>2, <2>3, <2>4, <2>5 DEF CallStep
<1>2. ASSUME NEW t \in Threads, EnterStep(t) PROVE TypeOK'
  <2>1. CASE DQBufEnter(t)
    BY <2>1 DEF DQBufEnter, EnterCriticalSection
  <2>2. CASE StreamOnEnter(t)
    BY <2>2 DEF StreamOnEnter, EnterCriticalSection
  <2>3. CASE StreamOffEnter(t)
    BY <2>3 DEF StreamOffEnter, EnterCriticalSection
  <2>q. QED BY <1>2, <2>1, <2>2, <2>3 DEF EnterStep
<1>3. ASSUME NEW t \in Threads, StartStep(t) PROVE TypeOK'
  <2>1. CASE QBufTest(t)
    BY <2>1 DEF QBufTest
  <2>2. CASE QBufSet(t)
    BY <2>2 DEF QBufSet, SetState, States
  <2>3. CASE QBufKick(t)
    BY <2>3 DEF QBufKick
  <2>4. CASE AttemptDMAStart(t)
    <3>1. signalled' \in BOOLEAN
      BY <2>4 DEF AttemptDMAStart, SetEvent
    <3>2. QED BY <2>4, <3>1 DEF AttemptDMAStart, SetEvent
  <2>5. CASE GetNextAvailableQueuedBuffer(t)
    BY <2>5 DEF GetNextAvailableQueuedBuffer, SetState, States, Buffers
  <2>6. CASE NoQueuedBuffer(t)
    <3>1. signalled' \in BOOLEAN
      BY <2>6 DEF NoQueuedBuffer, SetEvent
    <3>2. QED BY <2>6, <3>1 DEF NoQueuedBuffer, SetEvent
  <2>7. CASE StartDma(t)
    BY <2>7 DEF StartDma
  <2>8. CASE CaptureRequestForData(t)
    <3>1. buf[t] \in Buffers /\ t # Core
      BY <2>8 DEF CaptureRequestForData, BufInRange, Working
    <3>2. QED BY <2>8, <3>1 DEF CaptureRequestForData
  <2>q. QED BY <1>3, <2>1, <2>2, <2>3, <2>4, <2>5, <2>6, <2>7, <2>8 DEF StartStep
<1>4. ASSUME NEW t \in Threads, DequeueStep(t) PROVE TypeOK'
  <2>1. CASE GetEarliestFilledBuffer(t)
    BY <2>1 DEF GetEarliestFilledBuffer, SetState, States, Buffers
  <2>2. CASE NoFilledBuffer(t)
    BY <2>2 DEF NoFilledBuffer, Fail, ExitCriticalSection
  <2>3. CASE StillNoFilledBuffer(t)
    BY <2>3 DEF StillNoFilledBuffer
  <2>4. CASE AfterWait(t)
    BY <2>4 DEF AfterWait, Fail, ExitCriticalSection
  <2>5. CASE CountActiveDMABuffers(t)
    BY <2>5 DEF CountActiveDMABuffers
  <2>6. CASE NoActiveBuffer(t)
    BY <2>6 DEF NoActiveBuffer, Fail, ExitCriticalSection
  <2>7. CASE WaitForDMA(t)
    BY <2>7 DEF WaitForDMA, ClearEvent
  <2>8. CASE WaitTimeout(t)
    BY <2>8 DEF WaitTimeout, Fail, ExitCriticalSection
  <2>9. CASE GetNonIdleBuffer(t)
    <3>1. CASE NonIdle = {}
      BY <2>9, <3>1 DEF GetNonIdleBuffer, Fail, ExitCriticalSection
    <3>2. CASE NonIdle # {}
      <4>1. PICK i \in Buffers : buf' = [buf EXCEPT ![t] = i]
        BY <2>9, <3>2 DEF GetNonIdleBuffer
      <4>2. i \in Nat
        BY DEF Buffers
      <4>q. QED BY <2>9, <3>2, <4>1, <4>2 DEF GetNonIdleBuffer
    <3>q. QED BY <3>1, <3>2
  <2>10. CASE TakeNonIdleBuffer(t)
    BY <2>10 DEF TakeNonIdleBuffer, SetState, States
  <2>11. CASE Deliver(t)
    <3>1. buf[t] \in Buffers /\ t # Core
      BY <2>11 DEF Deliver, BufInRange, Working
    <3>2. QED BY <2>11, <3>1 DEF Deliver, ExitCriticalSection
  <2>q. QED BY <1>4, <2>1, <2>2, <2>3, <2>4, <2>5, <2>6, <2>7, <2>8, <2>9, <2>10, <2>11 DEF DequeueStep
<1>5. ASSUME NEW t \in Threads, StreamStep(t) PROVE TypeOK'
  <2>1. CASE StreamOnSet(t)
    BY <2>1 DEF StreamOnSet, ExitCriticalSection, Streaming
  <2>2. CASE StreamOnClear(t)
    <3>1. signalled' \in BOOLEAN
      BY <2>2 DEF StreamOnClear
    <3>2. QED BY <2>2, <3>1 DEF StreamOnClear, ExitCriticalSection
  <2>3. CASE StreamOffTest(t)
    BY <2>3 DEF StreamOffTest, ExitCriticalSection
  <2>4. CASE StreamOffSet(t)
    BY <2>4 DEF StreamOffSet, Streaming
  <2>5. CASE StreamOffCount(t)
    BY <2>5 DEF StreamOffCount
  <2>6. CASE StreamOffWait(t)
    BY <2>6 DEF StreamOffWait, ClearEvent
  <2>7. CASE PollWait(t)
    <3>1. signalled' \in BOOLEAN
      BY <2>7 DEF PollWait, ClearEvent
    <3>2. QED BY <2>7, <3>1 DEF PollWait, ClearEvent
  <2>8. CASE QueueActiveDMABuffers(t)
    BY <2>8 DEF QueueActiveDMABuffers, States
  <2>q. QED BY <1>5, <2>1, <2>2, <2>3, <2>4, <2>5, <2>6, <2>7, <2>8 DEF StreamStep
<1>6. ASSUME NEW p \in Procs, CompleteStep(p) PROVE TypeOK'
  <2>1. CASE CompleteCheck(p)
    BY <2>1 DEF CompleteCheck
  <2>2. CASE CompleteActiveDMABuffer(p)
    <3>1. NextCap \in Nat
      BY DEF NextCap
    <3>2. QED BY <2>2, <3>1 DEF CompleteActiveDMABuffer, SetState, States
  <2>3. CASE SignalCompletion(p)
    BY <2>3 DEF SignalCompletion, SetEvent
  <2>q. QED BY <1>6, <2>1, <2>2, <2>3 DEF CompleteStep
<1>7. CASE CoreStep
  <2>1. PICK i \in Buffers : CoreAnswer(i)
    BY <1>7 DEF CoreStep
  <2>2. dma[i] - 1 \in Nat /\ i \in Nat
    BY <2>1 DEF CoreAnswer, Buffers
  <2>3. dma' \in [Buffers -> Nat]
    BY <2>1, <2>2 DEF CoreAnswer
  <2>q. QED BY <2>1, <2>2, <2>3 DEF CoreAnswer
<1>8. CASE BulkStep
  <2>1. CASE CompleteActiveDMABuffers
    BY <2>1 DEF CompleteActiveDMABuffers, States
  <2>2. CASE RequeueDMAdBuffers
    BY <2>2 DEF RequeueDMAdBuffers, States
  <2>q. QED BY <1>8, <2>1, <2>2 DEF BulkStep
<1>9. CASE UNCHANGED vars
  BY <1>9 DEF vars
<1>q. QED
  BY <1>1, <1>2, <1>3, <1>4, <1>5, <1>6, <1>7, <1>8, <1>9 DEF Next, KernelStep

(* A process that gets to work on a buffer has just looked it up. *)
LEMMA BufStep ==
  ASSUME TypeOK, BufInRange, [Next]_vars
  PROVE  BufInRange'
<1> USE ProcAssumption, NumAssumption
    DEF TypeOK, Procs, Goto, At, bufVars, evVars, appVars, BufInRange, Working
<1>1. ASSUME NEW t \in Threads, CallStep(t) PROVE BufInRange'
  BY <1>1 DEF CallStep, Call, QBuf, DQBuf, StreamOn, StreamOff, Poll
<1>2. ASSUME NEW t \in Threads, EnterStep(t) PROVE BufInRange'
  BY <1>2 DEF EnterStep, EnterCriticalSection, DQBufEnter, StreamOnEnter, StreamOffEnter
<1>3. ASSUME NEW t \in Threads, StartStep(t) PROVE BufInRange'
  BY <1>3 DEF StartStep, QBufTest, QBufSet, QBufKick, AttemptDMAStart,
     GetNextAvailableQueuedBuffer, NoQueuedBuffer, StartDma, CaptureRequestForData
<1>4. ASSUME NEW t \in Threads, DequeueStep(t) PROVE BufInRange'
  BY <1>4 DEF DequeueStep, GetEarliestFilledBuffer, NoFilledBuffer, StillNoFilledBuffer,
     AfterWait, CountActiveDMABuffers, NoActiveBuffer, WaitForDMA, WaitTimeout,
     GetNonIdleBuffer, TakeNonIdleBuffer, Deliver, Fail
<1>5. ASSUME NEW t \in Threads, StreamStep(t) PROVE BufInRange'
  BY <1>5 DEF StreamStep, StreamOnSet, StreamOnClear, StreamOffTest, StreamOffSet,
     StreamOffCount, StreamOffWait, PollWait, QueueActiveDMABuffers
<1>6. ASSUME NEW p \in Procs, CompleteStep(p) PROVE BufInRange'
  BY <1>6 DEF CompleteStep, CompleteCheck, CompleteActiveDMABuffer, SignalCompletion
<1>7. CASE CoreStep
  BY <1>7 DEF CoreStep, CoreAnswer
<1>8. CASE BulkStep
  BY <1>8 DEF BulkStep, CompleteActiveDMABuffers, RequeueDMAdBuffers
<1>9. CASE UNCHANGED vars
  BY <1>9 DEF vars
<1>q. QED
  BY <1>1, <1>2, <1>3, <1>4, <1>5, <1>6, <1>7, <1>8, <1>9 DEF Next, KernelStep

(* The types hold at first, and nobody works on a buffer. *)
LEMMA TypeInit == Init => TypeOK /\ BufInRange
<1>1. Init => signalled \in BOOLEAN
  BY DEF Init
<1>2. Init => TypeOK
  BY <1>1, ProcAssumption, NumAssumption, LabelFacts
  DEF Init, TypeOK, States, Streaming, Procs, Buffers
<1>3. Init => BufInRange
  BY DEF Init, BufInRange, Working, Procs
<1>q. QED BY <1>2, <1>3

(* Every variable keeps its type, in every build and for every application: *)
(* the completion context never runs a thread's code, the event's count     *)
(* never goes below zero and DQBUF never returns a buffer there is not.     *)
THEOREM TypeCorrect == Spec => []TypeOK
<1>1. TypeOK /\ BufInRange /\ [Next]_vars => (TypeOK /\ BufInRange)'
  BY TypeStep, BufStep
<1>q. QED
  BY TypeInit, <1>1, PTL DEF Spec

-------------------------------------------------------------------------------
(* A step keeps the semaphore in step with the critical section: who enters  *)
(* finds it free, and who leaves was inside alone.                           *)
LEMMA SemStep ==
  ASSUME TypeOK, SemInv, ~Signals, [Next]_vars
  PROVE  SemInv'
<1> USE ProcAssumption
    DEF TypeOK, Procs, Goto, At, SemInv, MutualExclusion, InSection,
        bufVars, evVars, appVars, ExitCriticalSection, Fail
<1>1. ASSUME NEW t \in Threads, CallStep(t) PROVE SemInv'
  BY <1>1 DEF CallStep, Call, QBuf, DQBuf, StreamOn, StreamOff, Poll
<1>2. ASSUME NEW t \in Threads, EnterStep(t) PROVE SemInv'
  BY <1>2 DEF EnterStep, EnterCriticalSection, DQBufEnter, StreamOnEnter, StreamOffEnter
<1>3. ASSUME NEW t \in Threads, StartStep(t) PROVE SemInv'
  BY <1>3 DEF StartStep, QBufTest, QBufSet, QBufKick, AttemptDMAStart,
     GetNextAvailableQueuedBuffer, NoQueuedBuffer, StartDma, CaptureRequestForData
<1>4. ASSUME NEW t \in Threads, DequeueStep(t) PROVE SemInv'
  BY <1>4 DEF DequeueStep, GetEarliestFilledBuffer, NoFilledBuffer, StillNoFilledBuffer,
     AfterWait, CountActiveDMABuffers, NoActiveBuffer, WaitForDMA, WaitTimeout,
     GetNonIdleBuffer, TakeNonIdleBuffer, Deliver
<1>5. ASSUME NEW t \in Threads, StreamStep(t) PROVE SemInv'
  BY <1>5 DEF StreamStep, StreamOnSet, StreamOnClear, StreamOffTest, StreamOffSet,
     StreamOffCount, StreamOffWait, PollWait, QueueActiveDMABuffers
<1>6. ASSUME NEW p \in Procs, CompleteStep(p) PROVE SemInv'
  BY <1>6 DEF CompleteStep, CompleteCheck, CompleteActiveDMABuffer, SignalCompletion
<1>7. CASE CoreStep
  BY <1>7 DEF CoreStep, CoreAnswer
<1>8. CASE BulkStep
  BY <1>8 DEF BulkStep, CompleteActiveDMABuffers, RequeueDMAdBuffers
<1>9. CASE UNCHANGED vars
  BY <1>9 DEF vars
<1>q. QED
  BY <1>1, <1>2, <1>3, <1>4, <1>5, <1>6, <1>7, <1>8, <1>9 DEF Next, KernelStep

(* While no signal interrupts a sleeper, the sections of DQBUF, STREAMON and *)
(* STREAMOFF between EnterCriticalSection and ExitCriticalSection exclude    *)
(* each other, whatever way each of them is left.                            *)
THEOREM CriticalSectionExclusive ==
  ASSUME ~Signals
  PROVE  Spec => []MutualExclusion
<1>1. Init => SemInv
  BY DEF Init, SemInv, MutualExclusion, InSection, Procs
<1>2. TypeOK /\ SemInv /\ [Next]_vars => SemInv'
  BY SemStep
<1>3. SemInv => MutualExclusion
  BY DEF SemInv
<1>q. QED
  BY <1>1, <1>2, <1>3, TypeCorrect, PTL DEF Spec

-------------------------------------------------------------------------------
NeverPolls == \A t \in Threads : "poll" \notin Calls[t]

NoPollInv == \A t \in Threads : pc[t] \notin {"poll_wait", "poll_requeue"}

(* A step that queues a buffer, or that turns streaming on, leaves a thread  *)
(* behind that goes on to look for queued buffers, and such a thread stops   *)
(* only when it finds none or finds streaming off.                           *)
LEMMA ForgottenStep ==
  ASSUME TypeOK, NoPollInv, NoForgottenBuffer, ~CoreBulk, NeverPolls, [Next]_vars
  PROVE  (NoPollInv /\ NoForgottenBuffer)'
<1> DEFINE Goal == (NoPollInv /\ NoForgottenBuffer)'
<1> USE ProcAssumption
    DEF TypeOK, Procs, Goto, At, NoPollInv, NoForgottenBuffer, NeverPolls, Scanning, In,
        bufVars, evVars, appVars, SetState
<1>1. ASSUME NEW t \in Threads, CallStep(t) PROVE Goal
  BY <1>1 DEF CallStep, Call, QBuf, DQBuf, StreamOn, StreamOff, Poll
<1>2. ASSUME NEW t \in Threads, EnterStep(t) PROVE Goal
  BY <1>2 DEF EnterStep, EnterCriticalSection, DQBufEnter, StreamOnEnter, StreamOffEnter
<1>3. ASSUME NEW t \in Threads, StartStep(t) PROVE Goal
  BY <1>3 DEF StartStep, QBufTest, QBufSet, QBufKick, AttemptDMAStart,
     GetNextAvailableQueuedBuffer, NoQueuedBuffer, StartDma, CaptureRequestForData
<1>4. ASSUME NEW t \in Threads, DequeueStep(t) PROVE Goal
  BY <1>4 DEF DequeueStep, GetEarliestFilledBuffer, NoFilledBuffer, StillNoFilledBuffer,
     AfterWait, CountActiveDMABuffers, NoActiveBuffer, WaitForDMA, WaitTimeout,
     GetNonIdleBuffer, TakeNonIdleBuffer, Deliver, Fail
<1>5. ASSUME NEW t \in Threads, StreamStep(t) PROVE Goal
  BY <1>5 DEF StreamStep, StreamOnSet, StreamOnClear, StreamOffTest, StreamOffSet,
     StreamOffCount, StreamOffWait, PollWait, QueueActiveDMABuffers, Streaming
<1>6. ASSUME NEW p \in Procs, CompleteStep(p) PROVE Goal
  BY <1>6 DEF CompleteStep, CompleteCheck, CompleteActiveDMABuffer, SignalCompletion
<1>7. CASE CoreStep
  BY <1>7 DEF CoreStep, CoreAnswer
<1>8. CASE BulkStep
  BY <1>8 DEF BulkStep, CompleteActiveDMABuffers, RequeueDMAdBuffers
<1>9. CASE UNCHANGED vars
  BY <1>9 DEF vars
<1>q. QED
  BY <1>1, <1>2, <1>3, <1>4, <1>5, <1>6, <1>7, <1>8, <1>9 DEF Next, KernelStep

(* While streaming is on no queued buffer is left to itself: the order of    *)
(* QBUF's store and test and of STREAMON's store and search is enough, with  *)
(* no lock that covers both.  Two things break it and are assumed away: the  *)
(* timeout of poll() and the core's requeue, which queue without a search.   *)
THEOREM NothingForgotten ==
  ASSUME ~CoreBulk, NeverPolls
  PROVE  Spec => []NoForgottenBuffer
<1>1. Init => NoPollInv /\ NoForgottenBuffer
  BY DEF Init, NoPollInv, NoForgottenBuffer, Procs
<1>2. TypeOK /\ NoPollInv /\ NoForgottenBuffer /\ [Next]_vars
        => (NoPollInv /\ NoForgottenBuffer)'
  BY ForgottenStep
<1>q. QED
  BY <1>1, <1>2, TypeCorrect, PTL DEF Spec
-------------------------------------------------------------------------------
BlockingPlaces == {"gefb2", "count_active", "no_active", "wait", "after_wait",
                   "gnib_read", "gnib_write"}

(* Between its test for IDLE and its store, CompleteActiveDMABuffer has the  *)
(* spinlock, and without GetNonIdleBuffer all who store a state need it.     *)
IdleInv ==
  /\ \A t \in Threads : pc[t] \notin BlockingPlaces
  /\ \A p \in Procs : At(p, "complete") => spin = p /\ state[buf[p]] # "IDLE"

(* A step leaves an idle buffer idle or queues it. *)
LEMMA IdleStep ==
  ASSUME TypeOK, BufInRange, IdleInv, NonBlock, [Next]_vars
  PROVE  /\ IdleInv'
         /\ \A i \in Buffers : state[i] = "IDLE" => state'[i] \in {"IDLE", "QUEUED"}
<1> DEFINE Goal ==
      /\ IdleInv'
      /\ \A i \in Buffers : state[i] = "IDLE" => state'[i] \in {"IDLE", "QUEUED"}
<1> USE ProcAssumption
    DEF TypeOK, Procs, Goto, At, SetState, SpinFree, In, IdleInv, BlockingPlaces,
        bufVars, evVars, appVars
<1>1. ASSUME NEW t \in Threads, CallStep(t) PROVE Goal
  BY <1>1 DEF CallStep, Call, QBuf, DQBuf, StreamOn, StreamOff, Poll
<1>2. ASSUME NEW t \in Threads, EnterStep(t) PROVE Goal
  BY <1>2 DEF EnterStep, EnterCriticalSection, DQBufEnter, StreamOnEnter, StreamOffEnter
<1>3. ASSUME NEW t \in Threads, StartStep(t) PROVE Goal
  BY <1>3 DEF StartStep, QBufTest, QBufSet, QBufKick, AttemptDMAStart, FirstOf,
     GetNextAvailableQueuedBuffer, NoQueuedBuffer, StartDma, CaptureRequestForData
<1>4. ASSUME NEW t \in Threads, DequeueStep(t) PROVE Goal
  BY <1>4 DEF DequeueStep, GetEarliestFilledBuffer, NoFilledBuffer, StillNoFilledBuffer,
     AfterWait, CountActiveDMABuffers, NoActiveBuffer, WaitForDMA, WaitTimeout,
     GetNonIdleBuffer, TakeNonIdleBuffer, Deliver, Fail, Earliest, Selectable
<1>5. ASSUME NEW t \in Threads, StreamStep(t) PROVE Goal
  BY <1>5 DEF StreamStep, StreamOnSet, StreamOnClear, StreamOffTest, StreamOffSet,
     StreamOffCount, StreamOffWait, PollWait, QueueActiveDMABuffers
<1>6. ASSUME NEW p \in Procs, CompleteStep(p) PROVE Goal
  BY <1>6 DEF CompleteStep, CompleteCheck, CompleteActiveDMABuffer, SignalCompletion
<1>7. ASSUME NEW i \in Buffers, CoreAnswer(i) PROVE Goal
  BY <1>7 DEF CoreAnswer
<1>8. CASE BulkStep
  BY <1>8 DEF BulkStep, CompleteActiveDMABuffers, RequeueDMAdBuffers
<1>9. CASE UNCHANGED vars
  BY <1>9 DEF vars
<1>q. QED
  BY <1>1, <1>2, <1>3, <1>4, <1>5, <1>6, <1>7, <1>8, <1>9 DEF Next, KernelStep, CoreStep

(* On a file that does not block, a buffer that DQBUF has selected is never  *)
(* completed again, however late its completion comes: whatever poll(), the  *)
(* core's bulk entry points, signals or a careless application do.           *)
THEOREM NeverDequeuedTwice ==
  ASSUME NonBlock
  PROVE  Spec => IdleOnlyRequeued
<1> DEFINE Kept == \A i \in Buffers :
                     state[i] = "IDLE" => state'[i] \in {"IDLE", "QUEUED"}
           Inv == TypeOK /\ BufInRange /\ IdleInv
<1>1. Init => Inv
  BY TypeInit DEF Init, IdleInv, At, Procs, BlockingPlaces
<1>2. Inv /\ [Next]_vars => Inv' /\ [Kept]_vars
  BY TypeStep, BufStep, IdleStep
<1>3. Spec => [][Kept]_vars
  BY <1>1, <1>2, PTL DEF Spec
<1>q. QED
  BY <1>3 DEF IdleOnlyRequeued

-------------------------------------------------------------------------------
(* What a disciplined application is promised: each buffer has one owner, *)
(* the card writes only to buffers given to it, and the queue implements   *)
(* FrameQueue.                                                             *)

(* The types the steps below need. *)
QueueTypes ==
  /\ state \in [Buffers -> States]
  /\ dma \in [Buffers -> Nat]
  /\ held \in SUBSET Buffers
  /\ pc \in [Procs -> Labels]
  /\ pc[Core] \in CoreLabels
  /\ buf \in [Procs -> Nat]

(* The types that the queue depends on. *)
LEMMA QueueTypesHold == TypeOK => QueueTypes
  BY DEF TypeOK, QueueTypes

(* A step hands a buffer over from one owner to the next, never to two. *)
LEMMA OwnStep ==
  ASSUME QueueTypes, OwnInv, Disciplined, [Next]_vars
  PROVE  OwnInv'
<1> USE ProcAssumption
    DEF QueueTypes, Procs, Goto, At, Disciplined, OwnInv, Carries, Queueing, Filling,
        Delivering, Avoided, In, bufVars, evVars, appVars, SetState
<1>1. ASSUME NEW t \in Threads, CallStep(t) PROVE OwnInv'
  <2>1. ASSUME NEW i \in Indices, QBuf(t, i) PROVE OwnInv'
    BY <2>1 DEF QBuf, Call
  <2>2. CASE DQBuf(t)
    BY <2>2 DEF DQBuf, Call
  <2>3. CASE StreamOn(t)
    BY <2>3 DEF StreamOn, Call
  <2>4. CASE StreamOff(t)
    BY <2>4 DEF StreamOff, Call
  <2>5. CASE Poll(t)
    BY <2>5 DEF Poll, Call
  <2>q. QED BY <1>1, <2>1, <2>2, <2>3, <2>4, <2>5 DEF CallStep
<1>2. ASSUME NEW t \in Threads, EnterStep(t) PROVE OwnInv'
  BY <1>2 DEF EnterStep, EnterCriticalSection, DQBufEnter, StreamOnEnter, StreamOffEnter
<1>3. ASSUME NEW t \in Threads, StartStep(t) PROVE OwnInv'
  <2>1. CASE QBufTest(t)
    BY <2>1 DEF QBufTest
  <2>2. CASE QBufSet(t)
    BY <2>2 DEF QBufSet
  <2>3. CASE QBufKick(t)
    BY <2>3 DEF QBufKick
  <2>4. CASE AttemptDMAStart(t)
    BY <2>4 DEF AttemptDMAStart
  <2>5. CASE GetNextAvailableQueuedBuffer(t)
    BY <2>5 DEF GetNextAvailableQueuedBuffer, FirstOf
  <2>6. CASE NoQueuedBuffer(t)
    BY <2>6 DEF NoQueuedBuffer
  <2>7. CASE StartDma(t)
    BY <2>7 DEF StartDma
  <2>8. CASE CaptureRequestForData(t)
    BY <2>8 DEF CaptureRequestForData
  <2>q. QED
    BY <1>3, <2>1, <2>2, <2>3, <2>4, <2>5, <2>6, <2>7, <2>8 DEF StartStep
<1>4. ASSUME NEW t \in Threads, DequeueStep(t) PROVE OwnInv'
  <2>1. CASE GetEarliestFilledBuffer(t)
    BY <2>1 DEF GetEarliestFilledBuffer, Earliest, Selectable
  <2>2. CASE NoFilledBuffer(t)
    BY <2>2 DEF NoFilledBuffer, Fail
  <2>3. CASE Deliver(t)
    BY <2>3 DEF Deliver
  <2>q. QED
    BY <1>4, <2>1, <2>2, <2>3
    DEF DequeueStep, GetEarliestFilledBuffer, NoFilledBuffer, StillNoFilledBuffer,
        AfterWait, CountActiveDMABuffers, NoActiveBuffer, WaitForDMA, WaitTimeout,
        GetNonIdleBuffer, TakeNonIdleBuffer
<1>5. ASSUME NEW t \in Threads, StreamStep(t) PROVE OwnInv'
  BY <1>5 DEF StreamStep, StreamOnSet, StreamOnClear, StreamOffTest, StreamOffSet,
     StreamOffCount, StreamOffWait, PollWait, QueueActiveDMABuffers
<1>6. ASSUME NEW p \in Procs, CompleteStep(p) PROVE OwnInv'
  <2>1. CASE CompleteCheck(p)
    BY <2>1 DEF CompleteCheck
  <2>2. CASE CompleteActiveDMABuffer(p)
    BY <2>2 DEF CompleteActiveDMABuffer
  <2>3. CASE SignalCompletion(p)
    BY <2>3 DEF SignalCompletion
  <2>q. QED BY <1>6, <2>1, <2>2, <2>3 DEF CompleteStep
<1>7. ASSUME NEW i \in Buffers, CoreAnswer(i) PROVE OwnInv'
  BY <1>7 DEF CoreAnswer
<1>8. CASE BulkStep
  BY <1>8 DEF BulkStep, CompleteActiveDMABuffers, RequeueDMAdBuffers
<1>9. CASE UNCHANGED vars
  BY <1>9 DEF vars
<1>q. QED
  BY <1>1, <1>2, <1>3, <1>4, <1>5, <1>6, <1>7, <1>8, <1>9 DEF Next, KernelStep, CoreStep

(* At first the application has every buffer. *)
LEMMA OwnInit == Init => OwnInv
  BY DEF Init, OwnInv, Carries, Queueing, Filling, Delivering, Avoided, Procs

(* For an application that keeps to the interface, and however STREAMOFF    *)
(* falls between the steps of AttemptDMAStart: the card holds one request   *)
(* for a buffer that is marked active, and the application not that buffer. *)
THEOREM CardWritesOwnBuffers ==
  ASSUME Disciplined
  PROVE  Spec => []DmaTargetsActive
<1>1. TypeOK /\ OwnInv /\ [Next]_vars => OwnInv'
  BY OwnStep, QueueTypesHold
<1>2. OwnInv => DmaTargetsActive
  BY DEF OwnInv, DmaTargetsActive
<1>q. QED
  BY OwnInit, <1>1, <1>2, TypeCorrect, PTL DEF Spec

-------------------------------------------------------------------------------
(* The four steps of the driver that change the queue; all others only look. *)
LEMMA QueueSteps ==
  ASSUME OwnInv, Disciplined, [Next]_vars
  PROVE  \/ UNCHANGED bufVars
         \/ \E t \in Threads : \/ QBufSet(t)
                             \/ GetNextAvailableQueuedBuffer(t)
                             \/ GetEarliestFilledBuffer(t)
         \/ \E p \in Procs : CompleteActiveDMABuffer(p)
<1> USE DEF OwnInv, Avoided, Disciplined, At, bufVars, Procs
<1>1. ASSUME NEW t \in Threads, CallStep(t) PROVE UNCHANGED bufVars
  BY <1>1 DEF CallStep, QBuf, DQBuf, StreamOn, StreamOff, Poll
<1>2. ASSUME NEW t \in Threads, EnterStep(t) PROVE UNCHANGED bufVars
  BY <1>2 DEF EnterStep, EnterCriticalSection, DQBufEnter, StreamOnEnter, StreamOffEnter
<1>3. ASSUME NEW t \in Threads, StartStep(t)
      PROVE  UNCHANGED bufVars \/ QBufSet(t) \/ GetNextAvailableQueuedBuffer(t)
  BY <1>3 DEF StartStep, QBufTest, QBufKick, AttemptDMAStart, NoQueuedBuffer, StartDma,
     CaptureRequestForData
<1>4. ASSUME NEW t \in Threads, DequeueStep(t)
      PROVE  UNCHANGED bufVars \/ GetEarliestFilledBuffer(t)
  BY <1>4 DEF DequeueStep, NoFilledBuffer, StillNoFilledBuffer, AfterWait,
     CountActiveDMABuffers, NoActiveBuffer, WaitForDMA, WaitTimeout, GetNonIdleBuffer,
     TakeNonIdleBuffer, Deliver
<1>5. ASSUME NEW t \in Threads, StreamStep(t) PROVE UNCHANGED bufVars
  BY <1>5 DEF StreamStep, StreamOnSet, StreamOnClear, StreamOffTest, StreamOffSet,
     StreamOffCount, StreamOffWait, PollWait, QueueActiveDMABuffers
<1>6. ASSUME NEW p \in Procs, CompleteStep(p)
      PROVE  UNCHANGED bufVars \/ CompleteActiveDMABuffer(p)
  BY <1>6 DEF CompleteStep, CompleteCheck, SignalCompletion
<1>7. ASSUME CoreStep PROVE UNCHANGED bufVars
  BY <1>7 DEF CoreStep, CoreAnswer
<1>8. ~BulkStep
  BY DEF BulkStep, CompleteActiveDMABuffers, RequeueDMAdBuffers
<1>9. ASSUME UNCHANGED vars PROVE UNCHANGED bufVars
  BY <1>9 DEF vars
<1>q. QED
  BY <1>1, <1>2, <1>3, <1>4, <1>5, <1>6, <1>7, <1>8, <1>9 DEF Next, KernelStep

(* A completion takes a number above all those given out before. *)
LEMMA CapStep ==
  ASSUME TypeOK, OwnInv, CapInv, Disciplined, CapWrap = 0, [Next]_vars
  PROVE  CapInv'
<1> USE DEF CapInv, In, SetState, TypeOK
<1>1. CASE UNCHANGED bufVars
  BY <1>1 DEF bufVars
<1>2. ASSUME NEW t \in Threads, QBufSet(t) PROVE CapInv'
  BY <1>2 DEF QBufSet
<1>3. ASSUME NEW t \in Threads, GetNextAvailableQueuedBuffer(t) PROVE CapInv'
  BY <1>3 DEF GetNextAvailableQueuedBuffer
<1>4. ASSUME NEW t \in Threads, GetEarliestFilledBuffer(t) PROVE CapInv'
  BY <1>4 DEF GetEarliestFilledBuffer
<1>5. ASSUME NEW p \in Procs, CompleteActiveDMABuffer(p) PROVE CapInv'
  BY <1>5 DEF CompleteActiveDMABuffer, NextCap
<1>q. QED BY QueueSteps, <1>1, <1>2, <1>3, <1>4, <1>5

-------------------------------------------------------------------------------
(* The refinement: a step of the driver is a step of FrameQueue or none. *)
WhereAll  == [i \in Buffers |-> Where(i)]
BeforeAll == {p \in In("DONE") \X In("DONE") : capNum[p[1]] < capNum[p[2]]}

(* Setting the state of one buffer moves that buffer and no other. *)
LEMMA MoveOne ==
  ASSUME TypeOK, NEW i \in Buffers, NEW s \in States, SetState(i, s)
  PROVE  FQ!Move(i, Where(i), Where(i)')
<1>1. \A j \in Buffers \ {i} : Where(j)' = Where(j)
  BY DEF TypeOK, SetState, Where
<1>2. [j \in Buffers |-> Where(j)]'
        = [[j \in Buffers |-> Where(j)] EXCEPT ![i] = Where(i)']
  BY <1>1
<1>q. QED BY <1>2 DEF FQ!Move

(* The order concerns filled buffers only. *)
LEMMA SameOrder ==
  ASSUME TypeOK, NEW i \in Buffers, NEW s \in States \ {"DONE"}, SetState(i, s),
         state[i] # "DONE", \A j \in Buffers \ {i} : capNum'[j] = capNum[j]
  PROVE  UNCHANGED BeforeAll
<1>1. In("DONE")' = In("DONE") /\ i \notin In("DONE")
  BY DEF TypeOK, SetState, In
<1>2. \A j \in In("DONE") : capNum'[j] = capNum[j]
  BY <1>1 DEF In
<1>q. QED BY <1>1, <1>2 DEF BeforeAll

(* A step of the driver is one of FrameQueue, or leaves the queue alone. *)
LEMMA QueueStep ==
  ASSUME TypeOK, OwnInv, CapInv, Disciplined, CapWrap = 0, [Next]_vars
  PROVE  FQ!Next \/ UNCHANGED <<WhereAll, BeforeAll>>
<1>1. CASE UNCHANGED bufVars
  BY <1>1 DEF bufVars, WhereAll, BeforeAll, Where, In
<1>2. ASSUME NEW t \in Threads, QBufSet(t) PROVE FQ!Next
  <2>1. PICK i \in Buffers : i = buf[t] /\ state[i] \in {"PREPARED", "IDLE"}
    BY <1>2 DEF QBufSet, At, OwnInv, Carries, Queueing, Procs
  <2>2. SetState(i, "QUEUED") /\ \A j \in Buffers \ {i} : capNum'[j] = capNum[j]
    BY <1>2, <2>1 DEF QBufSet, TypeOK
  <2>3. Where(i) = "app" /\ Where(i)' = "queued"
    BY <2>1, <2>2 DEF Where, SetState, TypeOK
  <2>4. FQ!Move(i, "app", "queued")
    BY <2>1, <2>2, <2>3, MoveOne DEF States
  <2>5. UNCHANGED BeforeAll
    BY <2>1, <2>2, SameOrder DEF States
  <2>q. QED BY <2>1, <2>4, <2>5 DEF FQ!Next, FQ!Queue, BeforeAll
<1>3. ASSUME NEW t \in Threads, GetNextAvailableQueuedBuffer(t) PROVE FQ!Next
  <2>1. PICK i \in Buffers : state[i] = "QUEUED" /\ SetState(i, "ACTIVE")
    BY <1>3 DEF GetNextAvailableQueuedBuffer, FirstOf, In
  <2>2. Where(i) = "queued" /\ Where(i)' = "filling"
    BY <2>1 DEF Where, SetState, TypeOK
  <2>3. FQ!Move(i, "queued", "filling")
    BY <2>1, <2>2, MoveOne DEF States
  <2>4. UNCHANGED BeforeAll
    BY <1>3, <2>1, SameOrder DEF States, GetNextAvailableQueuedBuffer
  <2>q. QED BY <2>3, <2>4 DEF FQ!Next, FQ!Start, BeforeAll
<1>4. ASSUME NEW t \in Threads, GetEarliestFilledBuffer(t) PROVE FQ!Next
  <2>1. PICK i \in Buffers : Earliest(i) /\ SetState(i, "IDLE")
    BY <1>4 DEF GetEarliestFilledBuffer
  <2>2. i \in In("DONE") /\ \A j \in In("DONE") \ {i} : capNum[i] < capNum[j]
    BY <2>1 DEF Earliest, Selectable, CapInv, In, TypeOK
  <2>3. Where(i) = "filled" /\ Where(i)' = "app"
    BY <2>1, <2>2 DEF Where, SetState, TypeOK, In
  <2>4. FQ!Move(i, "filled", "app")
    BY <2>1, <2>3, MoveOne DEF States
  <2>5. FQ!Filled = In("DONE")
    BY DEF FQ!Filled, In, Where, TypeOK, States
  <2>6. \A j \in FQ!Filled \ {i} : <<i, j>> \in BeforeAll
    BY <2>2, <2>5 DEF BeforeAll
  <2>7. In("DONE")' = In("DONE") \ {i} /\ UNCHANGED capNum
    BY <1>4, <2>1 DEF SetState, TypeOK, In, GetEarliestFilledBuffer
  <2>8. BeforeAll' = {p \in BeforeAll : p[1] # i /\ p[2] # i}
    BY <2>7 DEF BeforeAll
  <2>q. QED BY <2>4, <2>6, <2>8 DEF FQ!Next, FQ!Deliver, BeforeAll
<1>5. ASSUME NEW p \in Procs, CompleteActiveDMABuffer(p) PROVE FQ!Next
  <2>1. PICK i \in Buffers : i = buf[p] /\ state[i] = "ACTIVE" /\ SetState(i, "DONE")
    BY <1>5 DEF CompleteActiveDMABuffer, At, OwnInv, Carries, Filling
  <2>2. Where(i) = "filling" /\ Where(i)' = "filled"
    BY <2>1 DEF Where, SetState, TypeOK
  <2>3. FQ!Move(i, "filling", "filled")
    BY <2>1, <2>2, MoveOne DEF States
  <2>4. FQ!Filled = In("DONE")
    BY DEF FQ!Filled, In, Where, TypeOK, States
  <2>5. In("DONE")' = In("DONE") \cup {i} /\ i \notin In("DONE")
    BY <2>1 DEF SetState, TypeOK, In
  <2>6. \A j \in In("DONE") : capNum'[j] = capNum[j] /\ capNum[j] < capNum'[i]
    BY <1>5, <2>1, <2>5 DEF CompleteActiveDMABuffer, NextCap, CapInv, TypeOK, In
  <2>7. ~(capNum'[i] < capNum'[i]) /\ \A j \in In("DONE") : ~(capNum'[i] < capNum'[j])
    BY <1>5, <2>1, <2>5, <2>6 DEF CompleteActiveDMABuffer, NextCap, CapInv, TypeOK, In
  <2>8. BeforeAll' = BeforeAll \cup (In("DONE") \X {i})
    BY <2>5, <2>6, <2>7 DEF BeforeAll
  <2>q. QED BY <2>1, <2>3, <2>4, <2>8 DEF FQ!Next, FQ!Finish, BeforeAll
<1>q. QED
  BY QueueSteps, <1>1, <1>2, <1>3, <1>4, <1>5

(* The queue does what FrameQueue promises: for an application that keeps to *)
(* the interface, and as long as the completion counter does not wrap, each  *)
(* buffer goes round from the application to the queue, the card and back,   *)
(* and DQBUF hands out filled buffers in the order of their completion.      *)
THEOREM QueueRefinesFrameQueue ==
  ASSUME Disciplined, CapWrap = 0
  PROVE  Spec => FrameQueueSpec
<1> DEFINE Inv == TypeOK /\ BufInRange /\ OwnInv /\ CapInv
<1>1. Init => Inv
  BY TypeInit, OwnInit DEF Init, CapInv, In
<1>2. Inv /\ [Next]_vars => Inv'
  BY TypeStep, BufStep, OwnStep, CapStep, QueueTypesHold
<1>3. Init => FQ!Init
  BY DEF Init, FQ!Init, Where, In
<1>4. Inv /\ [Next]_vars => [FQ!Next]_FQ!vars
  BY QueueStep DEF FQ!vars, WhereAll, BeforeAll
<1>q. QED
  BY <1>1, <1>2, <1>3, <1>4, PTL DEF Spec, FrameQueueSpec, FQ!Spec

-------------------------------------------------------------------------------
(* All four parts hold at first. *)
LEMMA QueueInit == Init => TypeOK /\ QueueInv
  BY TypeInit, OwnInit
  DEF Init, QueueInv, CapInv, In, SemInv, MutualExclusion, InSection, Procs

(* The four parts hold together: no buffer has two owners, none is worked on *)
(* that is not there, the critical section has one thread at most and no two *)
(* filled buffers carry the same number - for an application that keeps to   *)
(* the interface, until a signal ends a wait or the counter wraps.           *)
THEOREM QueueAlways ==
  ASSUME Disciplined, ~Signals, CapWrap = 0
  PROVE  Spec => []QueueInv
<1>1. TypeOK /\ QueueInv /\ [Next]_vars => (TypeOK /\ QueueInv)'
  BY TypeStep, BufStep, SemStep, OwnStep, CapStep, QueueTypesHold DEF QueueInv
<1>q. QED
  BY QueueInit, <1>1, PTL DEF Spec

-------------------------------------------------------------------------------
(* The thread that dequeues is the only one to stop the stream or to poll:   *)
(* both may use up a completion, and neither is in the critical section.     *)
OneWaiter ==
  \A t, u \in Threads :
    "dqbuf" \in Calls[t] /\ Calls[u] \cap {"streamoff", "poll"} # {} => t = u

(* A thread is only in calls that it makes, and one that has found no filled *)
(* buffer and goes to sleep is called for each that is completed since.      *)
WakeInv ==
  /\ \A t \in Threads :
       pc[t] \in {"dq_enter", "gefb1", "count_active", "wait"} => "dqbuf" \in Calls[t]
  /\ \A t \in Threads :
       pc[t] \in {"off_enter", "off_test", "off_set", "off_drain", "off_wait"} =>
         "streamoff" \in Calls[t]
  /\ \A t \in Threads : pc[t] = "poll_wait" => "poll" \in Calls[t]
  /\ \A t \in Threads :
       pc[t] \in {"count_active", "wait"} /\ In("DONE") # {} =>
         signalled \/ \E p \in Procs : At(p, "signal")

(* A step takes no completion away from a thread that is about to sleep: who *)
(* clears the event is in the critical section, or is that thread itself.    *)
LEMMA WakeStep ==
  ASSUME TypeOK, SemInv, WakeInv, ~Signals, ~CoreBulk, CapWrap = 0, OneWaiter, [Next]_vars
  PROVE  WakeInv'
<1> USE ProcAssumption
    DEF TypeOK, Procs, Goto, At, WakeInv, OneWaiter, In, SetState, Selectable, SetEvent,
        bufVars, evVars, appVars, Fail
<1>x. \A t, u \in Threads :
        pc[t] \in {"count_active", "wait"} /\ pc[u] \in {"wait", "on_clear"} => t = u
  BY DEF SemInv, MutualExclusion, InSection
<1>1. ASSUME NEW t \in Threads, CallStep(t) PROVE WakeInv'
  BY <1>1 DEF CallStep, Call, QBuf, DQBuf, StreamOn, StreamOff, Poll
<1>2. ASSUME NEW t \in Threads, EnterStep(t) PROVE WakeInv'
  BY <1>2 DEF EnterStep, EnterCriticalSection, DQBufEnter, StreamOnEnter, StreamOffEnter
<1>3. ASSUME NEW t \in Threads, StartStep(t) PROVE WakeInv'
  <2>1. CASE QBufTest(t) \/ QBufSet(t) \/ QBufKick(t)
    BY <2>1 DEF QBufTest, QBufSet, QBufKick
  <2>2. CASE AttemptDMAStart(t) \/ NoQueuedBuffer(t)
    BY <2>2 DEF AttemptDMAStart, NoQueuedBuffer
  <2>3. CASE GetNextAvailableQueuedBuffer(t)
    BY <2>3 DEF GetNextAvailableQueuedBuffer
  <2>4. CASE StartDma(t) \/ CaptureRequestForData(t)
    BY <2>4 DEF StartDma, CaptureRequestForData
  <2>q. QED BY <1>3, <2>1, <2>2, <2>3, <2>4 DEF StartStep
<1>4. ASSUME NEW t \in Threads, DequeueStep(t) PROVE WakeInv'
  BY <1>4, <1>x DEF DequeueStep, GetEarliestFilledBuffer, NoFilledBuffer, StillNoFilledBuffer,
     AfterWait, CountActiveDMABuffers, NoActiveBuffer, WaitForDMA, WaitTimeout,
     GetNonIdleBuffer, TakeNonIdleBuffer, Deliver
<1>5. ASSUME NEW t \in Threads, StreamStep(t) PROVE WakeInv'
  BY <1>5, <1>x DEF StreamStep, StreamOnSet, StreamOnClear, StreamOffTest, StreamOffSet,
     StreamOffCount, StreamOffWait, PollWait, QueueActiveDMABuffers
<1>6. ASSUME NEW p \in Procs, CompleteStep(p) PROVE WakeInv'
  BY <1>6 DEF CompleteStep, CompleteCheck, CompleteActiveDMABuffer, SignalCompletion
<1>7. CASE CoreStep
  BY <1>7 DEF CoreStep, CoreAnswer
<1>8. ~BulkStep
  BY DEF BulkStep, CompleteActiveDMABuffers, RequeueDMAdBuffers
<1>9. CASE UNCHANGED vars
  BY <1>9 DEF vars
<1>q. QED
  BY <1>1, <1>2, <1>3, <1>4, <1>5, <1>6, <1>7, <1>8, <1>9 DEF Next, KernelStep

(* A blocking DQBUF never sleeps through a completion, in however many       *)
(* threads the application queues and starts, as long as only the thread     *)
(* that dequeues stops the stream or polls: a second thread in STREAMOFF     *)
(* waits for the same event without the lock and can use the completion up.  *)
THEOREM WakeupKept ==
  ASSUME ~Signals, ~CoreBulk, CapWrap = 0, OneWaiter
  PROVE  Spec => []NoMissedWakeup
<1>1. Init => SemInv /\ WakeInv
  BY DEF Init, SemInv, MutualExclusion, InSection, WakeInv, Procs
<1>2. TypeOK /\ SemInv /\ WakeInv /\ [Next]_vars => (SemInv /\ WakeInv)'
  BY SemStep, WakeStep
<1>3. WakeInv => NoMissedWakeup
  BY DEF WakeInv, NoMissedWakeup, At
<1>q. QED
  BY <1>1, <1>2, <1>3, TypeCorrect, PTL DEF Spec

===============================================================================
