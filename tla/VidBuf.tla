-------------------------------- MODULE VidBuf --------------------------------
(***************************************************************************)
(* The streaming buffer queue of one capture handle: VIDIOC_QBUF, DQBUF,   *)
(* STREAMON, STREAMOFF and poll() as they run in the application's         *)
(* threads, and the binary core that fills buffers and completes them.     *)
(*                                                                         *)
(* One step is one section under the handle's spinlock, or one access to   *)
(* shared state outside it; a thread's place between steps is pc.  The     *)
(* buffers exist from the start, as VIDIOC_REQBUFS leaves them.            *)
(***************************************************************************)
EXTENDS Naturals, FiniteSets

CONSTANTS
  Threads,      (* the application's threads that share the handle         *)
  Core,         (* the completion context of the binary core               *)
  None,         (* no process                                              *)
  NumBuffers,   (* h->numbuffers                                           *)
  Calls,        (* the calls each thread makes                             *)
  Indices,      (* the buffer indices the application passes to QBUF       *)
  NonBlock,     (* the file is open with O_NONBLOCK                        *)
  Polite,       (* the application queues only buffers it holds            *)
  Signals,      (* a signal may interrupt a thread that sleeps on pSem     *)
  CoreBulk,     (* the core also completes or requeues buffers in bulk     *)
  CapWrap,      (* CapNum counts modulo this; 0: it never wraps            *)
  Budget        (* bound on QBUF, STREAMON, bulk requeues and signals      *)

CallNames == {"qbuf", "dqbuf", "streamon", "streamoff", "poll"}

Buffers == 0 .. NumBuffers - 1
Procs   == Threads \cup {Core}

ASSUME ProcAssumption ==
  /\ Core \notin Threads
  /\ None \notin Procs
  /\ Calls \in [Threads -> SUBSET CallNames]

ASSUME NumAssumption ==
  /\ NumBuffers \in Nat \ {0}
  /\ Indices \subseteq Nat
  /\ CapWrap \in Nat
  /\ Budget \in Nat

ASSUME FlagAssumption ==
  /\ NonBlock \in BOOLEAN
  /\ Polite \in BOOLEAN
  /\ Signals \in BOOLEAN
  /\ CoreBulk \in BOOLEAN

States    == {"PREPARED", "QUEUED", "ACTIVE", "DONE", "IDLE"}
Streaming == {"NOT_STARTED", "ON", "OFF"}

VARIABLES
  state,        (* buffers[i]->state                                       *)
  capNum,       (* buffers[i]->CapNum                                      *)
  lastCap,      (* the device's CapNum counter                             *)
  streaming,    (* h->streaming                                            *)
  spin,         (* who is inside h->pSpinlock between two steps            *)
  sem,          (* the count of h->pSem                                    *)
  signalled,    (* MultiBufferEvent: signalled                             *)
  count,        (* MultiBufferEvent: completions not yet waited for        *)
  dma,          (* requests the core holds, for each buffer                *)
  held,         (* the buffers the application may touch                   *)
  pc, buf,      (* where each process is, and the buffer it works on       *)
  found,        (* AttemptDMAStart's local found                           *)
  ret,          (* what the thread's last DQBUF returned                   *)
  budget        (* calls left (bound)                                      *)

bufVars == <<state, capNum, lastCap>>
evVars  == <<signalled, count>>
appVars == <<held, ret, budget>>
vars == <<bufVars, streaming, spin, sem, evVars, dma, appVars, pc, buf, found>>

-------------------------------------------------------------------------------
(* Helpers *)

Goto(p, l)     == pc' = [pc EXCEPT ![p] = l]
At(p, l)       == pc[p] = l
In(s)          == {i \in Buffers : state[i] = s}
SetState(i, s) == state' = [state EXCEPT ![i] = s]

(* i is the buffer that a search going up from index 0 finds first. *)
FirstOf(i, S) == i \in S /\ \A j \in S : i <= j

SpinFree == spin = None

(* CaptureSetMultiBufferEvent: OSSetEvent with or without an increment. *)
SetEvent(increment) ==
  /\ signalled' = TRUE
  /\ count' = count + increment

(* Mutant: counts down without the test. *)
ClearEvent_Unguarded ==
  /\ count' = count - 1
  /\ signalled' = (signalled /\ count > 1)

(* OsClearEvent: one completion is used up; the event stays set while *)
(* others are left.                                                    *)
ClearEvent ==
  /\ count' = IF count > 0 THEN count - 1 ELSE 0
  /\ signalled' = (signalled /\ count > 1)

(* down_interruptible(h->pSem), its result unused: a thread that a signal *)
(* wakes from its sleep enters all the same.                              *)
EnterCriticalSection(t, from, to) ==
  /\ At(t, from)
  /\ \/ sem > 0 /\ sem' = sem - 1 /\ UNCHANGED budget
     \/ Signals /\ sem = 0 /\ budget > 0 /\ budget' = budget - 1 /\ UNCHANGED sem
  /\ Goto(t, to)
  /\ UNCHANGED <<bufVars, streaming, spin, evVars, dma, held, ret, buf, found>>

ExitCriticalSection == sem' = sem + 1

Call(t, c) == At(t, "idle") /\ c \in Calls[t]

-------------------------------------------------------------------------------
(* rgb133_qbuf *)

QBuf(t, i) ==
  /\ Call(t, "qbuf")
  /\ budget > 0
  /\ Polite => i \in held
  /\ budget' = budget - 1
  /\ IF i > NumBuffers
       THEN UNCHANGED <<pc, buf, held>>                      \* -EINVAL
       ELSE /\ Goto(t, "qbuf_test")
            /\ buf' = [buf EXCEPT ![t] = i]
            /\ held' = held \ {i}
  /\ UNCHANGED <<bufVars, streaming, spin, sem, evVars, dma, ret, found>>

QBufTest(t) ==
  /\ At(t, "qbuf_test") /\ SpinFree
  /\ buf[t] \in Buffers
  /\ Goto(t, IF state[buf[t]] = "QUEUED" THEN "attempt" ELSE "qbuf_set")
  /\ UNCHANGED <<bufVars, streaming, spin, sem, evVars, dma, appVars, buf, found>>

QBufSet(t) ==
  /\ At(t, "qbuf_set") /\ SpinFree
  /\ SetState(buf[t], "QUEUED")
  /\ capNum' = [capNum EXCEPT ![buf[t]] = 0]
  /\ Goto(t, "qbuf_kick")
  /\ UNCHANGED <<lastCap, streaming, spin, sem, evVars, dma, appVars, buf, found>>

(* Mutant: QBUF leaves the start to STREAMON. *)
QBufKick_NoStart(t) ==
  /\ At(t, "qbuf_kick")
  /\ Goto(t, "idle")
  /\ UNCHANGED <<bufVars, streaming, spin, sem, evVars, dma, appVars, buf, found>>

QBufKick(t) ==
  /\ At(t, "qbuf_kick")
  /\ Goto(t, IF streaming = "ON" THEN "attempt" ELSE "idle")
  /\ UNCHANGED <<bufVars, streaming, spin, sem, evVars, dma, appVars, buf, found>>

-------------------------------------------------------------------------------
(* AttemptDMAStart and rgb133_startdma *)

AttemptDMAStart(t) ==
  /\ At(t, "attempt")
  /\ found' = [found EXCEPT ![t] = 0]
  /\ IF streaming = "ON"
       THEN Goto(t, "next") /\ UNCHANGED evVars
       ELSE Goto(t, "idle") /\ SetEvent(0)
  /\ UNCHANGED <<bufVars, streaming, spin, sem, dma, appVars, buf>>

GetNextAvailableQueuedBuffer(t) ==
  /\ At(t, "next") /\ SpinFree
  /\ \E i \in Buffers :
       /\ FirstOf(i, In("QUEUED"))
       /\ SetState(i, "ACTIVE")
       /\ buf' = [buf EXCEPT ![t] = i]
  /\ found' = [found EXCEPT ![t] = 1]
  /\ Goto(t, "start")
  /\ UNCHANGED <<capNum, lastCap, streaming, spin, sem, evVars, dma, appVars>>

NoQueuedBuffer(t) ==
  /\ At(t, "next") /\ SpinFree
  /\ In("QUEUED") = {}
  /\ IF found[t] = 1 THEN UNCHANGED evVars ELSE SetEvent(0)
  /\ Goto(t, "idle")
  /\ UNCHANGED <<bufVars, streaming, spin, sem, dma, appVars, buf, found>>

(* A stream that has stopped meanwhile: complete the buffer at once. *)
StartDma(t) ==
  /\ At(t, "start")
  /\ Goto(t, IF streaming = "ON" THEN "request" ELSE "check")
  /\ UNCHANGED <<bufVars, streaming, spin, sem, evVars, dma, appVars, buf, found>>

CaptureRequestForData(t) ==
  /\ At(t, "request")
  /\ dma' = [dma EXCEPT ![buf[t]] = @ + 1]
  /\ Goto(t, "next")
  /\ UNCHANGED <<bufVars, streaming, spin, sem, evVars, appVars, buf, found>>

-------------------------------------------------------------------------------
(* CompleteActiveDMABuffer, from the core or from rgb133_startdma.  Its two *)
(* steps are one section of the spinlock: only code that takes no lock can  *)
(* come between them.                                                       *)

(* Mutant: the test for IDLE is gone. *)
CompleteCheck_Always(p) ==
  /\ At(p, "check") /\ SpinFree
  /\ spin' = p /\ Goto(p, "complete")
  /\ UNCHANGED <<bufVars, streaming, sem, evVars, dma, appVars, buf, found>>

CompleteCheck(p) ==
  /\ At(p, "check") /\ SpinFree
  /\ IF state[buf[p]] # "IDLE"
       THEN spin' = p /\ Goto(p, "complete")
       ELSE UNCHANGED spin /\ Goto(p, "signal")
  /\ UNCHANGED <<bufVars, streaming, sem, evVars, dma, appVars, buf, found>>

NextCap == IF CapWrap = 0 THEN lastCap + 1 ELSE (lastCap + 1) % CapWrap

(* Mutant: the buffer is marked done but gets no number. *)
CompleteActiveDMABuffer_Unnumbered(p) ==
  /\ At(p, "complete") /\ spin = p
  /\ lastCap' = NextCap
  /\ SetState(buf[p], "DONE")
  /\ spin' = None
  /\ Goto(p, "signal")
  /\ UNCHANGED <<capNum, streaming, sem, evVars, dma, appVars, buf, found>>

CompleteActiveDMABuffer(p) ==
  /\ At(p, "complete") /\ spin = p
  /\ lastCap' = NextCap
  /\ capNum' = [capNum EXCEPT ![buf[p]] = NextCap]
  /\ SetState(buf[p], "DONE")
  /\ spin' = None
  /\ Goto(p, "signal")
  /\ UNCHANGED <<streaming, sem, evVars, dma, appVars, buf, found>>

(* Mutant: the event is only set for a thread that already waits. *)
SignalCompletion_IfAwaited(p) ==
  /\ At(p, "signal")
  /\ IF \E t \in Threads : pc[t] \in {"wait", "off_wait"}
       THEN SetEvent(1)
       ELSE UNCHANGED evVars
  /\ Goto(p, IF p = Core THEN "idle" ELSE "next")
  /\ UNCHANGED <<bufVars, streaming, spin, sem, dma, appVars, buf, found>>

SignalCompletion(p) ==
  /\ At(p, "signal")
  /\ SetEvent(1)
  /\ Goto(p, IF p = Core THEN "idle" ELSE "next")
  /\ UNCHANGED <<bufVars, streaming, spin, sem, dma, appVars, buf, found>>

(* The core: it answers its requests in any order, and may use the two *)
(* bulk entry points the driver exports to it.                         *)
CoreAnswer(i) ==
  /\ At(Core, "idle")
  /\ dma[i] > 0
  /\ dma' = [dma EXCEPT ![i] = @ - 1]
  /\ buf' = [buf EXCEPT ![Core] = i]
  /\ Goto(Core, "check")
  /\ UNCHANGED <<bufVars, streaming, spin, sem, evVars, appVars, found>>

CompleteActiveDMABuffers ==
  /\ CoreBulk /\ At(Core, "idle") /\ SpinFree
  /\ state' = [i \in Buffers |-> IF state[i] = "ACTIVE" THEN "DONE" ELSE state[i]]
  /\ UNCHANGED <<capNum, lastCap, streaming, spin, sem, evVars, dma, appVars,
                 pc, buf, found>>

RequeueDMAdBuffers ==
  /\ CoreBulk /\ At(Core, "idle") /\ SpinFree
  /\ budget > 0
  /\ budget' = budget - 1
  /\ state' = [i \in Buffers |-> IF state[i] = "DONE" THEN "QUEUED" ELSE state[i]]
  /\ UNCHANGED <<capNum, lastCap, streaming, spin, sem, evVars, dma, held, ret,
                 pc, buf, found>>

-------------------------------------------------------------------------------
(* rgb133_dqbuf.  From gefb1 to the end it is inside the critical section. *)

Fail(t, r) ==
  /\ ret' = [ret EXCEPT ![t] = r]
  /\ ExitCriticalSection
  /\ Goto(t, "idle")

DQBuf(t) ==
  /\ Call(t, "dqbuf")
  /\ ret' = [ret EXCEPT ![t] = "none"]
  /\ Goto(t, "dq_enter")
  /\ UNCHANGED <<bufVars, streaming, spin, sem, evVars, dma, held, budget, buf, found>>

DQBufEnter(t) == EnterCriticalSection(t, "dq_enter", "gefb1")

(* GetEarliestDoneBuffer: the least CapNum, the first of equals; the number *)
(* that reads as -1 is never below the initial one.                         *)
Selectable == {i \in In("DONE") : CapWrap = 0 \/ capNum[i] # CapWrap - 1}

(* Mutant: the first filled buffer of the array. *)
Earliest_First(i) == i \in Selectable /\ \A j \in Selectable \ {i} : i < j

Earliest(i) ==
  /\ i \in Selectable
  /\ \A j \in Selectable \ {i} :
       capNum[i] < capNum[j] \/ (capNum[i] = capNum[j] /\ i < j)

(* GetEarliestFilledBuffer, when there is one. *)
GetEarliestFilledBuffer(t) ==
  /\ pc[t] \in {"gefb1", "gefb2"} /\ SpinFree
  /\ \E i \in Buffers :
       /\ Earliest(i)
       /\ SetState(i, "IDLE")
       /\ buf' = [buf EXCEPT ![t] = i]
  /\ Goto(t, "deliver")
  /\ UNCHANGED <<capNum, lastCap, streaming, spin, sem, evVars, dma, appVars, found>>

(* Mutant: after STREAMOFF a file that does not block takes any buffer. *)
NoFilledBuffer_Reclaim(t) ==
  /\ At(t, "gefb1") /\ SpinFree
  /\ Selectable = {}
  /\ CASE streaming = "OFF" -> Goto(t, "gnib_read") /\ UNCHANGED <<ret, sem>>
       [] NonBlock /\ streaming # "OFF" -> Fail(t, "EAGAIN")
       [] OTHER -> Goto(t, "count_active") /\ UNCHANGED <<ret, sem>>
  /\ UNCHANGED <<bufVars, streaming, spin, evVars, dma, held, budget, buf, found>>

(* ... and when there is none: at the first attempt and at the second. *)
NoFilledBuffer(t) ==
  /\ At(t, "gefb1") /\ SpinFree
  /\ Selectable = {}
  /\ IF NonBlock
       THEN Fail(t, "EAGAIN")
       ELSE Goto(t, "count_active") /\ UNCHANGED <<ret, sem>>
  /\ UNCHANGED <<bufVars, streaming, spin, evVars, dma, held, budget, buf, found>>

StillNoFilledBuffer(t) ==
  /\ At(t, "gefb2") /\ SpinFree
  /\ Selectable = {}
  /\ Goto(t, "after_wait")
  /\ UNCHANGED <<bufVars, streaming, spin, sem, evVars, dma, appVars, buf, found>>

AfterWait(t) ==
  /\ At(t, "after_wait")
  /\ IF streaming = "OFF"
       THEN Goto(t, "gnib_read") /\ UNCHANGED <<ret, sem>>
       ELSE Fail(t, "EAGAIN")
  /\ UNCHANGED <<bufVars, streaming, spin, evVars, dma, held, budget, buf, found>>

CountActiveDMABuffers(t) ==
  /\ At(t, "count_active") /\ SpinFree
  /\ Goto(t, IF In("ACTIVE") # {} THEN "wait" ELSE "no_active")
  /\ UNCHANGED <<bufVars, streaming, spin, sem, evVars, dma, appVars, buf, found>>

(* Mutant: look again until a buffer is there. *)
NoActiveBuffer_Retry(t) ==
  /\ At(t, "no_active")
  /\ Goto(t, IF streaming = "OFF" THEN "gnib_read" ELSE "gefb1")
  /\ UNCHANGED <<bufVars, streaming, spin, sem, evVars, dma, appVars, buf, found>>

NoActiveBuffer(t) ==
  /\ At(t, "no_active")
  /\ IF streaming \in {"ON", "OFF"}
       THEN Goto(t, "gnib_read") /\ UNCHANGED <<ret, sem>>
       ELSE Fail(t, "EINVAL")
  /\ UNCHANGED <<bufVars, streaming, spin, evVars, dma, held, budget, buf, found>>

(* OSWaitForSingleObject on MultiBufferEvent, for at most a second. *)
WaitForDMA(t) ==
  /\ At(t, "wait")
  /\ signalled
  /\ ClearEvent
  /\ Goto(t, "gefb2")
  /\ UNCHANGED <<bufVars, streaming, spin, sem, dma, appVars, buf, found>>

WaitTimeout(t) ==
  /\ At(t, "wait")
  /\ Fail(t, "EINVAL")
  /\ UNCHANGED <<bufVars, streaming, spin, evVars, dma, held, budget, buf, found>>

(* GetNonIdleBuffer looks for a buffer and takes it without the spinlock. *)
NonIdle == {i \in Buffers : state[i] \in {"ACTIVE", "QUEUED", "DONE"}}

GetNonIdleBuffer(t) ==
  /\ At(t, "gnib_read")
  /\ IF NonIdle = {}
       THEN Fail(t, "EINVAL") /\ UNCHANGED buf
       ELSE /\ \E i \in Buffers :
                 FirstOf(i, NonIdle) /\ buf' = [buf EXCEPT ![t] = i]
            /\ Goto(t, "gnib_write")
            /\ UNCHANGED <<ret, sem>>
  /\ UNCHANGED <<bufVars, streaming, spin, evVars, dma, held, budget, found>>

TakeNonIdleBuffer(t) ==
  /\ At(t, "gnib_write")
  /\ SetState(buf[t], "IDLE")
  /\ Goto(t, "deliver")
  /\ UNCHANGED <<capNum, lastCap, streaming, spin, sem, evVars, dma, appVars, buf, found>>

Deliver(t) ==
  /\ At(t, "deliver")
  /\ held' = held \cup {buf[t]}
  /\ ret' = [ret EXCEPT ![t] = "OK"]
  /\ ExitCriticalSection
  /\ Goto(t, "idle")
  /\ UNCHANGED <<bufVars, streaming, spin, evVars, dma, budget, buf, found>>

-------------------------------------------------------------------------------
(* rgb133_streamon and rgb133_streamoff *)

StreamOn(t) ==
  /\ Call(t, "streamon")
  /\ budget > 0
  /\ budget' = budget - 1
  /\ Goto(t, "on_enter")
  /\ UNCHANGED <<bufVars, streaming, spin, sem, evVars, dma, held, ret, buf, found>>

StreamOnEnter(t) == EnterCriticalSection(t, "on_enter", "on_test")

StreamOnSet(t) ==
  /\ At(t, "on_test")
  /\ IF streaming = "ON"
       THEN ExitCriticalSection /\ Goto(t, "idle") /\ UNCHANGED streaming
       ELSE streaming' = "ON" /\ Goto(t, "on_clear") /\ UNCHANGED sem
  /\ UNCHANGED <<bufVars, spin, evVars, dma, appVars, buf, found>>

(* CaptureClearMultiBufferEvent, in the core: a reset of the event. *)
StreamOnClear(t) ==
  /\ At(t, "on_clear")
  /\ signalled' = FALSE
  /\ count' = 0
  /\ ExitCriticalSection
  /\ Goto(t, "attempt")
  /\ UNCHANGED <<bufVars, streaming, spin, dma, appVars, buf, found>>

StreamOff(t) ==
  /\ Call(t, "streamoff")
  /\ Goto(t, "off_enter")
  /\ UNCHANGED <<bufVars, streaming, spin, sem, evVars, dma, appVars, buf, found>>

StreamOffEnter(t) == EnterCriticalSection(t, "off_enter", "off_test")

(* Mutant: the early way out leaves the critical section once more. *)
StreamOffTest_ExitsTwice(t) ==
  /\ At(t, "off_test")
  /\ sem' = sem + IF streaming = "ON" THEN 1 ELSE 2
  /\ Goto(t, IF streaming = "ON" THEN "off_set" ELSE "idle")
  /\ UNCHANGED <<bufVars, streaming, spin, evVars, dma, appVars, buf, found>>

StreamOffTest(t) ==
  /\ At(t, "off_test")
  /\ ExitCriticalSection
  /\ Goto(t, IF streaming = "ON" THEN "off_set" ELSE "idle")
  /\ UNCHANGED <<bufVars, streaming, spin, evVars, dma, appVars, buf, found>>

(* The mode is written after the critical section has been left. *)
StreamOffSet(t) ==
  /\ At(t, "off_set")
  /\ streaming' = "OFF"
  /\ Goto(t, "off_drain")
  /\ UNCHANGED <<bufVars, spin, sem, evVars, dma, appVars, buf, found>>

(* APIDisableCapture and CaptureWaitForData are the core's: the handler     *)
(* counts on no result of theirs and looks for active buffers itself, so    *)
(* they may return with requests in flight.                                 *)
StreamOffCount(t) ==
  /\ At(t, "off_drain") /\ SpinFree
  /\ Goto(t, IF In("ACTIVE") # {} THEN "off_wait" ELSE "idle")
  /\ UNCHANGED <<bufVars, streaming, spin, sem, evVars, dma, appVars, buf, found>>

(* A wait without a timeout. *)
StreamOffWait(t) ==
  /\ At(t, "off_wait")
  /\ signalled
  /\ ClearEvent
  /\ Goto(t, "idle")
  /\ UNCHANGED <<bufVars, streaming, spin, sem, dma, appVars, buf, found>>

-------------------------------------------------------------------------------
(* rgb133_poll on a handle with mapped buffers.  The wait is the core's:   *)
(* whether it uses up a completion is its choice, and it may time out.     *)

Poll(t) ==
  /\ Call(t, "poll")
  /\ Goto(t, IF In("ACTIVE") \cup In("DONE") # {} THEN "poll_wait" ELSE "idle")
  /\ UNCHANGED <<bufVars, streaming, spin, sem, evVars, dma, appVars, buf, found>>

PollWait(t) ==
  /\ At(t, "poll_wait")
  /\ \/ signalled /\ (ClearEvent \/ UNCHANGED evVars) /\ Goto(t, "idle")
     \/ Goto(t, "poll_requeue") /\ UNCHANGED evVars
  /\ UNCHANGED <<bufVars, streaming, spin, sem, dma, appVars, buf, found>>

QueueActiveDMABuffers(t) ==
  /\ At(t, "poll_requeue") /\ SpinFree
  /\ state' = [i \in Buffers |-> IF state[i] = "ACTIVE" THEN "QUEUED" ELSE state[i]]
  /\ Goto(t, "idle")
  /\ UNCHANGED <<capNum, lastCap, streaming, spin, sem, evVars, dma, appVars, buf, found>>

-------------------------------------------------------------------------------
(* Specification *)

Init ==
  /\ state = [i \in Buffers |-> "PREPARED"]
  /\ capNum = [i \in Buffers |-> 0]
  /\ lastCap = 0
  /\ streaming = "NOT_STARTED"
  /\ spin = None
  /\ sem = 1
  /\ signalled = FALSE /\ count = 0
  /\ dma = [i \in Buffers |-> 0]
  /\ held = Buffers
  /\ pc = [p \in Procs |-> "idle"]
  /\ buf = [p \in Procs |-> 0]
  /\ found = [t \in Threads |-> 0]
  /\ ret = [t \in Threads |-> "none"]
  /\ budget = Budget

(* What a thread does of its own accord. *)
CallStep(t) ==
  \/ \E i \in Indices : QBuf(t, i)
  \/ DQBuf(t) \/ StreamOn(t) \/ StreamOff(t) \/ Poll(t)

StartStep(t) ==
  \/ QBufTest(t) \/ QBufSet(t) \/ QBufKick(t)
  \/ AttemptDMAStart(t) \/ GetNextAvailableQueuedBuffer(t) \/ NoQueuedBuffer(t)
  \/ StartDma(t) \/ CaptureRequestForData(t)

DequeueStep(t) ==
  \/ GetEarliestFilledBuffer(t) \/ NoFilledBuffer(t) \/ StillNoFilledBuffer(t)
  \/ AfterWait(t) \/ CountActiveDMABuffers(t) \/ NoActiveBuffer(t)
  \/ WaitForDMA(t) \/ WaitTimeout(t)
  \/ GetNonIdleBuffer(t) \/ TakeNonIdleBuffer(t) \/ Deliver(t)

StreamStep(t) ==
  \/ StreamOnSet(t) \/ StreamOnClear(t)
  \/ StreamOffTest(t) \/ StreamOffSet(t) \/ StreamOffCount(t) \/ StreamOffWait(t)
  \/ PollWait(t) \/ QueueActiveDMABuffers(t)

EnterStep(t) == DQBufEnter(t) \/ StreamOnEnter(t) \/ StreamOffEnter(t)

CompleteStep(p) ==
  CompleteCheck(p) \/ CompleteActiveDMABuffer(p) \/ SignalCompletion(p)

CoreStep == \E i \in Buffers : CoreAnswer(i)

BulkStep == CompleteActiveDMABuffers \/ RequeueDMAdBuffers

(* What happens to a call once it is made. *)
KernelStep(t) ==
  StartStep(t) \/ DequeueStep(t) \/ StreamStep(t) \/ CompleteStep(t)

Next ==
  \/ \E t \in Threads : CallStep(t) \/ EnterStep(t) \/ KernelStep(t)
  \/ CompleteStep(Core) \/ CoreStep \/ BulkStep

Spec == Init /\ [][Next]_vars

(* The kernel schedules every thread that can run; a Linux semaphore wakes  *)
(* its sleepers in turn; the card finishes the DMAs it was given.           *)
Fairness ==
  /\ \A t \in Threads : WF_vars(KernelStep(t)) /\ SF_vars(EnterStep(t))
  /\ WF_vars(CompleteStep(Core)) /\ WF_vars(CoreStep)

FairSpec == Spec /\ Fairness

-------------------------------------------------------------------------------
(* Properties *)

Labels ==
  {"idle", "qbuf_test", "qbuf_set", "qbuf_kick", "attempt", "next", "start",
   "request", "check", "complete", "signal", "dq_enter", "gefb1", "gefb2",
   "count_active", "no_active", "wait", "after_wait", "gnib_read", "gnib_write",
   "deliver", "on_enter", "on_test", "on_clear", "off_enter", "off_test",
   "off_set", "off_drain", "off_wait", "poll_wait", "poll_requeue"}

CoreLabels == {"idle", "check", "complete", "signal"}

(* Every variable has its type; the core's context runs completions only. *)
TypeOK ==
  /\ state \in [Buffers -> States]
  /\ capNum \in [Buffers -> Nat]
  /\ lastCap \in Nat
  /\ streaming \in Streaming
  /\ spin \in Procs \cup {None}
  /\ sem \in Nat
  /\ signalled \in BOOLEAN
  /\ count \in Nat
  /\ dma \in [Buffers -> Nat]
  /\ held \in SUBSET Buffers
  /\ pc \in [Procs -> Labels]
  /\ pc[Core] \in CoreLabels
  /\ buf \in [Procs -> Nat]
  /\ found \in [Threads -> {0, 1}]
  /\ ret \in [Threads -> {"none", "OK", "EAGAIN", "EINVAL"}]
  /\ budget \in 0 .. Budget

(* A buffer selected for DQBUF leaves the idle state only by being queued    *)
(* again: a completion that comes late never marks it done, to be handed out *)
(* a second time (the comment in CompleteActiveDMABuffer).                   *)
IdleOnlyRequeued ==
  [][\A i \in Buffers : state[i] = "IDLE" => state'[i] \in {"IDLE", "QUEUED"}]_vars

(* The card only ever writes to a buffer that is marked as its target, that  *)
(* the application does not hold and that was handed to it once: neither     *)
(* DQBUF, nor a stream stopped half way through rgb133_startdma, nor a       *)
(* second thread in AttemptDMAStart may break this.                          *)
DmaTargetsActive ==
  \A i \in Buffers :
    dma[i] > 0 => state[i] = "ACTIVE" /\ i \notin held /\ dma[i] = 1

(* QBUF tests the mode after it has queued the buffer and STREAMON sets the  *)
(* mode before it looks for queued buffers: while streaming is on, a queued  *)
(* buffer is never left behind without a thread that will still look for it. *)
Scanning == {"qbuf_kick", "attempt", "next", "start", "request", "check",
             "complete", "signal", "on_clear"}

NoForgottenBuffer ==
  streaming = "ON" /\ In("QUEUED") # {} => \E t \in Threads : pc[t] \in Scanning

(* A blocking DQBUF does not sleep through a completion: while it waits and  *)
(* a filled buffer is there, the event is set or about to be (the count kept *)
(* by OSSetEvent and OsClearEvent).                                          *)
NoMissedWakeup ==
  (\E t \in Threads : At(t, "wait")) /\ In("DONE") # {} =>
    signalled \/ \E p \in Procs : At(p, "signal")

(* EnterCriticalSection and ExitCriticalSection: one thread at a time. *)
InSection(t) ==
  pc[t] \in {"gefb1", "gefb2", "count_active", "no_active", "wait", "after_wait",
            "gnib_read", "gnib_write", "deliver", "on_test", "on_clear", "off_test"}

MutualExclusion ==
  \A t, u \in Threads : InSection(t) /\ InSection(u) => t = u

(* Every call comes to its end: no wait of DQBUF, STREAMOFF or poll() lasts  *)
(* for ever.                                                                 *)
CallsReturn == \A t \in Threads : pc[t] # "idle" ~> pc[t] = "idle"

(* The queue promises what FrameQueue states: each buffer in one place, and  *)
(* filled buffers dequeued in the order in which they were completed.        *)
Where(i) ==
  CASE state[i] \in {"PREPARED", "IDLE"} -> "app"
    [] state[i] = "QUEUED" -> "queued"
    [] state[i] = "ACTIVE" -> "filling"
    [] state[i] = "DONE" -> "filled"

FQ == INSTANCE FrameQueue WITH
        where  <- [i \in Buffers |-> Where(i)],
        before <- {p \in In("DONE") \X In("DONE") : capNum[p[1]] < capNum[p[2]]}

FrameQueueSpec == FQ!Spec
===============================================================================
