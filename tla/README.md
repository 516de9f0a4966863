# A TLA+ model of the RGB133 capture driver

The repository holds the open half of a Linux driver for Datapath Vision video
capture cards: a V4L2 and ALSA driver that talks to the applications and to the
kernel, linked with a capture engine that is shipped without source (here: *the
core*), some command line tools and a Qt control panel. This directory models
the driver's own logic in TLA+, checks it with TLC on small instances, and
proves the most important results with TLAPS for instances of any size.

Paths below are relative to the repository (`src/src/rgb133ioctl.c` is
`rgb133ioctl.c` in its `src` directory).

## 1. The system

| component | state | operations | what is hard about it | what makes it correct |
|---|---|---|---|---|
| Streaming queue (`rgb133ioctl.c`, `rgb133vidbuf.c`) | `buffers[i]->state`, `CapNum`, `h->streaming`, `h->pSem`, `h->pSpinlock`, `MultiBufferEvent` | QBUF, DQBUF, STREAMON, STREAMOFF, poll; completion by the core | threads of the application, the core's completions and three kinds of locking; a buffer is handed over four times per frame | one owner per buffer; the card writes only to active buffers; a dequeued buffer is not dequeued again; buffers leave in the order in which they were filled; no queued buffer is forgotten; waits end |
| Executive resource (`OSAPI.c`) | lists of owners and waiters, counters | acquire exclusive, acquire shared, release | hand-over from the releasing thread to sleeping ones, recursion, entries cast between two types | exclusive access is exclusive; counters agree with lists; waiters are served |
| OS events (`OSAPI.c`) | `signalled`, `count`, `timeout`, a wait queue | set, reset, clear, wait with a timeout | setters take no lock, timeouts are marked in the event and not in the waiter | no set event is slept through, a timeout reaches the one who waits for it |
| Handle lifecycle (`rgb133.c` 220–825) | list of handles, per-handle allocations, DMA and audio channels | open, close | partial failure with locks taken, close while the core still works | what open took, every exit of open and close gives back |
| Buffer allocation (`rgb133ioctl.c` 1204–1476, `rgb133vidbuf.c` 35–175, 565–1135) | `numbuffers`, `buffers[]`, pages, VMA counts | REQBUFS, QUERYBUF, mmap, fork and unmap of mappings | re-request while mapped or streaming; failure in the middle | no page is freed while mapped or while the card writes to it |
| read() path (`rgb133.c` 1681) | one buffer, the handle's event | read, poll | shares locks and event with the queue | one frame per read |
| Control device and events (`rgb133.c` 840–1300, 2218–2340) | `dev->events`, notification events of the inputs | open, poll, read, write, close | the list is looked at before its lock is taken; boards come while applications ask | no change of an input is missed; a node names the right input |
| Signal transitions (`rgb133ioctl.c` 2002–2560) | capture mode, the two pictures that stand in for frames | called from DQBUF and read | formats, limits and pictures are as old as the signal they were made for | copies stay within buffers, limits are those of the signal |
| Formats and parameters (`rgb133ioctl.c`, `rgb133v4l2.c`, `rgb133mapping.c`) | format, cropping, parameters of the handle | some forty ioctls | boundaries of conversions | values stay within the card's limits, get returns what set stored |
| Windows layer (`rgb133win.c`) | lists, work items, MDLs, registry | push, pop, flush, queue, run | called by the core from any context | lists stay rings, each request of work is followed by a run, pages are released once |
| Kernel wrappers (`rgb133kernel.c`, `rgb133timer.c`, `rgb133time.c`, `rgb133math.c`) | none, or a timer | one kernel call each | – | – |
| DMA mapping (`rgb133sg.c`) | scatter-gather tables | build, free | page offsets and lengths | the table covers the buffer exactly |
| Audio PCM (`rgb133audio.c`, `rgb133sndcard.c`) | substream, hardware pointer | open, hw_params, prepare, trigger, pointer, close | the core's period callback against trigger and close | a stream that can run has the parameters its hardware was told; pointer stays in the ring |
| Audio mixer (`rgb133audiocontrol.c`) | a copy of the levels | get and put of controls | what to do when the hardware refuses; who is told | copy and hardware agree; watchers are told |
| Peek/poke, PCIe status, interrupt glue | – | single accesses | – | – |
| Probe, remove, module init (`rgb133.c`) | `rgb133_devices`, counts, maps of nodes | probe, remove | a dozen steps that may fail, and labels that fall through | what is registered does not outlive what it works on |
| Capture tools (`apps/utils`) | buffers, threads, a ring of sound | capture with read(), mmap or user memory; copy sound | SIGINT at any moment, failing calls, a ring without a brake | memory outlives its use; sound is played in order; the tool ends |
| Vision panel, scripts | – | – | – | – |

The components meet in few places. The core calls the driver's exported
functions (`CompleteActiveDMABuffer`, `CompleteActiveDMABuffers`,
`RequeueDMAdBuffers`, the `OS…` and Windows functions) from its own context;
the driver calls the core through `Capture…` and `API…` functions. The queue
and poll() share one event per handle. The queue, read() and close share
`h->pSem` and `h->pSpinlock`. The executive resource is used by the core, and in
the open code by `rgb133drm.c`.

The tools use the driver through its files; the sound card is the ALSA half of
the same board; probe builds the table that the control device answers from.

`PROJECT.json` lists each component with its status, the hazards with the lines
at which they bite and the properties that cover them, and for every definition
the source lines it stands for.

## 2. Modules and plan

| module | models | proofs |
|---|---|---|
| `VidBuf` (with `FrameQueue`, `VidBufInv`) | the streaming queue and poll() of one handle | `VidBufProofs` |
| `OSResource` (with `RWLock`) | the executive resource | `OSResourceProofs` |
| `OSEvent` | events and timed waits | `OSEventProofs` |
| `Handle` | open and close, REQBUFS, mappings, what is allocated | `HandleProofs` |
| `Boards`, `Driver`, `Control` | tables of boards; probe and remove; the control device on top of them | `ControlProofs` |
| `Formats`, `Controls`, `Format` | tables and arithmetic of formats and controls; the ioctls on top of them | `FormatProofs` |
| `WinLists`, `WinWork`, `WinDma`, `WinStrings` | the Windows layer | `WinProofs` |
| `Audio` | PCM callbacks and mixer | `ToolProofs` |
| `CaptureAudio`, `CaptureTool` | the two capture tools | `ToolProofs` |
| `Periphery` | the last seven modules side by side, for one run | `ToolProofs` |

`MC…` modules hold the instances that TLC checks. What the plan has left, in order:

1. The no-signal and transition paths of DQBUF, in VidBuf's states.
2. Two clients of the control device.

## 3. Streaming queue: VidBuf

### State and actions

`VidBuf` models one capture handle. Its application has any number of threads
(`Threads`), each making the calls that `Calls` gives it, and the core has one
completion context (`Core`). A process's place in the code is `pc`, the buffer it
has in hand is `buf`. A step is one section under `h->pSpinlock` or one access to
shared state outside it; what lies between two steps of a handler may interleave
with everything else.

| code | definitions |
|---|---|
| `rgb133_qbuf` | `QBuf` (range check), `QBufTest`, `QBufSet` (two sections of the spinlock), `QBufKick` |
| `AttemptDMAStart`, `GetNextAvailableQueuedBuffer`, `rgb133_startdma` | `AttemptDMAStart`, `GetNextAvailableQueuedBuffer`, `NoQueuedBuffer`, `StartDma`, `CaptureRequestForData` |
| `CompleteActiveDMABuffer` and the event after it | `CompleteCheck`, `CompleteActiveDMABuffer`, `SignalCompletion` |
| the core's bulk calls | `CompleteActiveDMABuffers`, `RequeueDMAdBuffers` |
| `rgb133_dqbuf` | `DQBuf`, `DQBufEnter`, `GetEarliestFilledBuffer`, `NoFilledBuffer`, `CountActiveDMABuffers`, `NoActiveBuffer`, `WaitForDMA`, `WaitTimeout`, `StillNoFilledBuffer`, `AfterWait`, `Deliver` |
| `GetNonIdleBuffer`, without the spinlock | `GetNonIdleBuffer`, `TakeNonIdleBuffer` |
| `rgb133_streamon`, `rgb133_streamoff` | `StreamOn…`, `StreamOff…` |
| `rgb133_poll` | `Poll`, `PollWait`, `QueueActiveDMABuffers` |
| `OSSetEvent`, `OsClearEvent` | `SetEvent`, `ClearEvent` |
| `down_interruptible` whose result is dropped | `EnterCriticalSection` |

`CompleteActiveDMABuffer` is one section of the spinlock in the code but two
steps here, with `spin` held between them, because `GetNonIdleBuffer` and other
code that takes no lock can come between the test and the store.

`held` is the application's side of the interface: the buffers it may touch.
`dma` counts what the card was asked to do.

What the core does is external: `CoreAnswer` completes its requests in any order
and at any time, `APIDisableCapture` and `CaptureWaitForData` in STREAMOFF may
return with requests in flight (the handler counts active buffers itself after
them), and whether poll()'s wait uses up a completion is its choice.

`FrameQueue` is the promise: each buffer is with the application, queued, being
filled, or filled; filled buffers leave in the order of their completion.

### Constants and their runs

`NonBlock` is O_NONBLOCK; `Polite` makes the application queue only buffers it
holds; `Signals`, `CoreBulk` switch on interrupted sleeps and the bulk calls;
`CapWrap` is the modulus of `CapNum` (in the code 2^32, compared as an unsigned
64-bit number; 0 stands for a counter that never wraps); `Budget` bounds the
calls that would otherwise go on for ever (QBUF, STREAMON, bulk requeues,
signals).

| run | instance | what it shows |
|---|---|---|
| `VidBuf_nonblock` | 2 threads, 2 buffers, budget 4 | types, the inductive invariant `QueueInv`, `DmaTargetsActive`, `NoForgottenBuffer`, `MutualExclusion`, refinement of `FrameQueue` |
| `VidBuf_reclaim` | 2 threads, 2 buffers, careless application, poll, bulk calls, signals, indices beyond the end, a counter that wraps | `IdleOnlyRequeued`: a dequeued buffer is not completed again |
| `VidBuf_blocking` | 1 thread, blocking file, fairness | `NoMissedWakeup`, `CallsReturn` |
| `VidBuf_gnib_race` | 2 threads, blocking | violation: DQBUF after STREAMOFF against a completion |

Two buffers and two threads are enough for every interaction the code has: a
buffer in each of two different states, two buffers completed in an order that
is not that of their indices, a thread inside each of two handlers. Four budgeted
calls let a buffer be queued, filled, dequeued and queued again while the stream
stops and starts.

Two things the code does are outside these runs, and the properties are stated
for configurations without them. `rgb133_dqbuf` and its neighbours drop the result
of `down_interruptible` (`rgb133vidbuf.c` 232): a thread that a signal interrupts
is in the critical section without the semaphore and ups it all the same, so
`MutualExclusion` is for processes that get no signals. And STREAMOFF waits for
the event that DQBUF waits for, without a timeout (`rgb133ioctl.c` 3110): a
completion wakes one of them, and with DQBUF in a second thread STREAMOFF can wait
for ever. `CallsReturn` is for one thread at a time.

### Fairness

`FairSpec` assumes that a thread inside a call goes on when it can (the kernel
schedules it), that a thread waiting for `h->pSem` gets it if it is free again and
again (Linux semaphores queue their waiters), and that the core answers the
requests it has. It does not assume that the application makes any call, nor that
a wait with a timeout times out before it is woken.

### Proofs

`VidBufInv` states the inductive invariants, `VidBufProofs` proves, for any number
of threads and buffers:

- `TypeCorrect`. A buffer that DQBUF hands out must be a buffer: `BufInRange`
  strengthens the type invariant, and `TypeStep`, `BufStep` prove both together.
- `CriticalSectionExclusive`, without signals, from `SemInv`: the semaphore is zero
  whenever a thread is inside.
- `NothingForgotten`, without poll() and bulk requeues: QBUF looks at the mode after
  it has queued the buffer, STREAMON the other way round.
- `NeverDequeuedTwice`, for non-blocking files: an idle buffer becomes queued or
  stays idle. It needs the test for IDLE in `CompleteCheck` together with the
  spinlock that is held until the store.
- `CardWritesOwnBuffers`, for a disciplined application (`Disciplined`: non-blocking,
  queues only what it holds, does not poll, no bulk calls). The invariant is
  `OwnInv`: each buffer has exactly one owner among the application, the calls that
  carry it, the queue and the card. `DmaTargetsActive` alone is not inductive: that
  QBUF may write the state in a second section of the spinlock is safe only because
  nobody else can have the buffer meanwhile.
- `QueueRefinesFrameQueue`, for a disciplined application and a counter that does not
  wrap: with `CapInv` (numbers of filled buffers are distinct and not above the
  counter) every step is a step of `FrameQueue` or leaves it alone.
- `QueueAlways`: `QueueInv`, the conjunction of these invariants that the run
  `VidBuf_nonblock` checks, for a disciplined application without signals.
- `WakeupKept`, for blocking files: DQBUF never sleeps through a completion. The
  property speaks of a thread asleep; the invariant `WakeInv` of one that has had its
  first look and found nothing: if a buffer is filled after that, the event is set or
  whoever filled it is about to set it. Whoever clears the event is in the critical
  section, and so not next to that thread (`SemInv`), or is that thread itself. This
  needs `OneWaiter`: only the thread that dequeues stops the stream or polls, because
  both of those use up a completion without holding the semaphore. Other threads may
  queue and start as they like.

These assumptions are needed: with a blocking file (`VidBuf_gnib_race`) or signals
the properties fail. Of `Disciplined` no part can be left out: on the instance of
`VidBuf_nonblock` TLC finds `DmaTargetsActive` violated when the second thread polls
(poll() queues buffers again that the card still has), when the core makes bulk
calls, when the file blocks (`GetNonIdleBuffer` gives away what the card has), and
when the application queues what it does not hold. So there is nothing more to
prove about who owns a buffer: beyond the assumption nobody owns it alone. That
the counter does not wrap is needed too: with
`CapWrap = 4`, one thread and a budget of 6 TLC finds a behaviour in which a buffer
filled after the wrap leaves before one that was filled earlier.

## 4. Executive resource: OSResource

### State and actions

Every call is one section under the resource's spinlock, so each path through a
call is one action: `ExclusiveFree`, `ExclusiveRecursive`, `ExclusiveBusy`,
`SharedFree`, `SharedRecursive`, `SharedBusy`, and `Release` with its three ends
`Leave`, `HandToExclusive`, `HandToShared`. A thread that queued itself sleeps
(`pc`) until its semaphore is up (`upped`) and then returns (`Acquired`). The order
of the lists is kept, because the exclusive recursion looks at the head of the
owners and a release takes the first entry of its thread. `numActive` is an
unsigned number whose value below zero counts as not zero. `hold` records what
each thread was told, independently of the lists: the properties are about it.
`stale` marks an `up()` on an entry that has no semaphore; what follows is
undefined and not modelled. Calls that return FALSE change nothing.

`RWLock` is the promise: one exclusive or several shared holders, exclusive
waiters first and in their order, shared waiters all together.

| run | instance | what it shows |
|---|---|---|
| `OSResource_lock` | 3 threads, depth 2, fairness | types, `ResourceInv`, `ExclusiveAlone`, refinement of `RWLock`, `WriterServed`, `ReaderServed` |
| `OSResource_nested` | nested shared acquisitions, one access asked for while holding the other | `HoldersListed`: the list still accounts for everything |

Three threads give an owner and two waiters of the same or of different kinds.
`MaxDepth` bounds the recursion and, with nested shared acquisitions, how far
`numActive` falls below zero. In `OSResource_nested` a thread may ask for one access
while it has the other: it waits for itself, as the code makes it, the system
really stops, and the deadlock check is off. The fairness of `OSResource_lock` is
that a woken thread runs, and that nobody keeps the resource for ever.

### Proofs

`OSResourceProofs` proves, for any number of threads, `ResourceTypeCorrect`, and
for threads that do not nest shared acquisitions `CountersAgree`
(`Spec => []ResourceInv`), `ExclusiveExcludes` and `ResourceRefinesRWLock`.
`ExclusiveAlone` speaks of what threads were told, a release decides by
`numActive`; the invariant `ResourceInv` ties the two together through the list of
owners. Its heart is that `numActive` is the number of owners while access is
shared and the recursion depth of the one owner while it is exclusive, so that it
reaches zero exactly when the last acquisition goes (`Unowned`, `LastOwner`). The
assumption is needed: a nested shared acquisition is counted in the thread's entry
and not in `numActive`, so that after the first of two releases the resource looks
free and an exclusive owner comes in next to the shared one.

`NoAcquisitionLost` (`HoldersListed`) has no such assumption: also when acquisitions
nest, and `numActive` is wrong, the entries of a thread add up to what it was told it
has. The invariant `KeepInv` counts, besides, what a thread was granted and not told
of yet (its semaphore is up and it still sleeps), and says that a thread waits in
one list, once, and not after it was granted. Most of the proof is about the sum over the
list, a recursive fold. That a fold has a value at all (`SumExists`) and that the
order of adding does not matter (`SumPart`, `SumMoved`) is induction, which goes through the
least counterexample: `Least` takes it from the library's well-founded orders,
`SetInduction` states induction for a set of numbers instead of a predicate. On them
rest `CntAppend`, `CntChanged` and `CntRemoved`: what an entry more, another depth and an
entry less make of the count of each thread.

## 5. OS events: OSEvent

### State and actions

`OSEvent` models one event object with any number of waiting threads, the timers
on their stacks, and contexts of the core that set and reset it. A step is one
access to shared state: setters and timer functions take no lock, waiters hold
`pmlock` (`lock`) except while they sleep. `line` is the event's wait queue;
`WakeUp` is the kernel's `wake_up`, which takes the first of the exclusive waiters
(a synchronization event) or all others (a notification event) out of the queue.

| code | definitions |
|---|---|
| `OSSetEvent` | `OSSetEvent` (the count), `Signal`, `SetterWakes` |
| `OsResetEvent` | `OsResetEvent`, `Reset` |
| `WaitQueueTimerFn` | `TimerFires`, `TimerWakes` |
| `OSWaitForSingleObject`, its loop | `Wait`, `Lock`, `Test`, `PrepareToWait`, `FinishWait`, `Schedule` |
| ... and its end | `TimedOut`; `NotTimedOut`, `CancelTimer`, `Keep` |
| `OsClearEvent` | `ClearEvent`, `Decrement`, `Compare`, `Unset`, and the return `Unlock` |

`counted` says whether the setters of this event pass an increment, which the core
decides per event. `credit` is a history variable: how often an event without a
count became signalled, less the waits it ended with success. A timer that is
still armed when its wait has returned lies on a stack frame that is gone; the
model lets it fire as if the frame were intact, and lets its thread make no other
timed wait before it has.

| run | instance | what it shows |
|---|---|---|
| `OSEvent_wait` | 3 threads, one of them with a timeout, 1 setter, 3 calls that set or reset, both types, with and without a count, fairness | types, `NoFlagSleptThrough`, `OneWaiterPerSignal`, `SignalTaken` |

Three threads give one that is woken, one that comes along and takes the mark
first, and one that still sleeps; three calls let the event be set twice around a
reset. The deadlock check is off: threads that wait without a timeout for an event
that nobody sets again sleep for ever. The fairness is that setters and timer
functions that have begun go on, that a thread that can run is run, and that the
mutex serves those who queue for it; that anybody sets the event is not assumed.

Two things happen here that the properties do not exclude. The timer marks the
event and not the wait: a mark left by a wait that ended otherwise ends the next
one early, which then returns with its timer armed. And of an event with a count,
a completion that comes between the decrement and the store of the mark in
`OsClearEvent` leaves no mark. VidBuf's grain hides both: it takes `OSSetEvent` and
`OsClearEvent` as one step each and lets a timeout reach the thread whose timer it
is.

### Proofs

`OSEventProofs` proves, for any number of threads, timers and setters:

- `EventTypeCorrect`, together with `CountInv`: an event without a count is never
  decremented.
- `OneSuccessPerSignal`, from `LockInv` (who is between lock and unlock is the
  holder) and `CreditInv`: a wait that will succeed has the signal it saw to its
  credit, although a reset and another signal may come before it clears the event.
- `NoWakeupLost`, for waits in kernel mode and events without a count. That somebody
  is awake is not inductive, because the one who is awake may take the other flag
  or only the signal. `FlagInv` gives each flag somebody of its own: signal and
  timeout together need two different takers, of whom one looks at both flags.
  `LineInv` is needed for a wakeup to reach a sleeper: the only thread in the queue
  that does not sleep is the last one. With a count the statement is false: a wait
  may leave the event signalled while another thread sleeps.

## 6. Handles, buffers and mappings: Handle

### State and actions

`Handle` is about memory: what open(), REQBUFS, QBUF and mmap() allocate and what
the calls after them give back. `heap` is the set of what is allocated, each
object a tuple of its handle, its kind, the REQBUFS that made it (a *generation*),
the buffer and the plane. `hs` has what a handle keeps: pointers are generations
(0 is NULL), so that a pointer to something freed can be told from one to its
successor. `maps` are the private data of areas, with the counter the driver keeps
and the areas there really are. `card` counts the requests that the core has not
completed, by the generation and the index of the buffer they fill. `stuck` says that the device's lock is taken and
nobody will release it; `messy` (a history) that something happened after which
the handle is known to leave memory behind.

| code | definitions |
|---|---|
| `rgb133_open` | `Open`, `OpenWithoutCapture`, `OpenFails` with `OpenLeaves` for each error exit |
| `rgb133_reqbufs`, `__rgb133_buffer_reqbuf_setup`, `…_dma_setup`, `AllocAndSetupIrp` | `Reqbufs`, `MayRequest`, `Discarded`, `NewParts`, `DmaSetup`, `Irp`, `SetupFails` |
| `StopDmaStreamingAndFreeBuffers` | the action of that name |
| `rgb133_qbuf`, `rgb133_startdma`, `rgb133_dqbuf` | `Qbuf` with `UserptrSetup`, `Issued`; `Dqbuf` with `GetNonIdleBuffer`, `UserptrFree` |
| `rgb133_streamon`, `rgb133_streamoff`, `CompleteActiveDMABuffer` | the actions of those names |
| `rgb133_mmap`, `rgb133_vm_open`, `rgb133_vm_close` | `Mmap`, `MmapMapper`, `VmOpen`, `Fork`, `Unmap` |
| `rgb133_close`, `__rgb133_buffer_mmap_dma_free` | `Close`, `CloseFails`, `CloseBuffers`, `BufferParts`, `IoctlsIn` |

A call is one step: one thread per handle, calls of different handles meet only in
the device's lock. Of what VidBuf models in detail the states of buffers are left.
A completion names an index only, so it goes to the buffer that is there by then.
`Failures` names the steps that may fail; two allocations whose result the
code does not test (the array `h->buffers`, the request of a mapped buffer) are not
among them, because what follows is undefined. Mapping a buffer for the second time
does nothing in the driver and has no action.

`CaptureWaitForData` is the core's. STREAMOFF counts the active buffers after it and
waits for one event if there are any, REQBUFS(0) counts none; so the model lets both
return with buffers active, and what frees buffers afterwards asks for no more than
the code does. That `APICloseCapture`, where it succeeds, ends all requests is assumed.
DQBUF that may block hands out, when nothing is filled, any buffer that is not idle:
after STREAMOFF, or while none is active. What the card may be given is therefore up
to the application, and `Careful` names files whose application opens with O_NONBLOCK
and gives its buffers up only when it has got back all it queued. What holds of all
files, and what only of these, is said with the properties.

mmap() does not look at the entry of the array it is asked for. Where a REQBUFS failed,
or made fewer buffers, the entry is NULL (past the end of an array it is whatever is
there; the model has NULL): the area gets private data without a buffer, which
`rgb133_vm_open` and `rgb133_vm_close` do not count, so it is never freed, and a page
fault in such an area follows a NULL pointer (`rgb133vidbuf.c` 184).

| run | instance | what it shows |
|---|---|---|
| `Handle_memory` | 2 files, one of them careful, 2 buffers, formats of 1 and 2 planes, 3 REQBUFS, 2 mappings, every failure, 5 calls | `NoDanglingPointer`, `CloseReturnsAll`, `ActiveNotFreed` |
| `Handle_remap` | the same with the careful file | violation of `MappedBufferExists`: REQBUFS frees a buffer that is mapped |

Five calls are enough for open, request, map or queue, start, and one that comes
at the wrong time; dequeuing, completing, unmapping and closing are not counted.
`ActiveNotFreed` is about the memory, the lists and the request of a buffer that the
card is still to fill. That the driver refuses REQBUFS while streaming, that QBUF takes
no buffer that is out, and that a completion is what makes a buffer done are what it
rests on: without the refusal even a careful application's buffers are freed under
the card. Of other files it does not hold, and the driver has nothing that would
make it: in the model, with `Careful` empty, the calls open, REQBUFS, QBUF, STREAMON, STREAMOFF,
REQBUFS free a buffer the card has a request for (`rgb133ioctl.c` 3104–3113, then
1313–1327), REQBUFS(0) in place of the last two does (1209–1240), and a blocking DQBUF
after STREAMOFF frees the DMA lists of user memory (2893, 2959). All three need that
`CaptureWaitForData` may return early, as the count at 3106 provides for.
Signals are off: with them `vm_open` may miss an area and `NoDanglingPointer` fails,
for the private data is freed while an area is left.

`CloseReturnsAll` is for handles that are not `messy`, and what makes one messy is
what the code leaks: an open() or a close that fails (after the messages also with
the device's lock taken), buffers that were requested and never mapped (close frees
them only when `h->mmapped`), buffers of user memory that are requested anew, a
change of the number of planes under allocated buffers. The IO structures of every
REQBUFS but the last stay behind in any case, and so does the private data of areas
that were mapped from an empty entry. REQBUFS also reports success when
memory failed for a buffer other than the last.

### Proofs

`HandleProofs` proves the run's three properties for any number of files, buffers,
planes, requests and mappings, and whichever steps fail. A call changes only its
own handle and what that handle has allocated (`Own`), so each proof looks at one
handle at a time and at the areas apart from them.

- `PointsAlways`, with signals too: `PointInv` says of each pointer what has to be
  allocated for it (`Points`).
- `CountAlways`, without signals: the driver's count is the number of areas, or zero
  if they have no buffer, and the private data are there while areas are. A signal ends the wait
  for the lock in `vm_open` or `vm_close`, which then do not count.
- `PointersGood` (`NoDanglingPointer`) combines the two.
- `ActiveStays` (`ActiveNotFreed`), with signals too. `CardInv` (`CardAlways`) says that the
  card has one request for each active buffer of a careful file and none besides:
  QBUF starts only buffers that are idle or new, a completion ends the request and the
  activity together, and DQBUF hands out only what was completed. It has to name the
  REQBUFS that made the buffer: a late completion of an earlier one would mark a
  successor as done. So who has everything back has no request open
  (`BackMeansNoRequest`), and the other calls free nothing of an active buffer
  (`CallKeepsFilled`).
- `ReturnsAll` (`CloseReturnsAll`), without signals: `TidyInv` says that all that is
  allocated for a handle that is not `messy` can still be reached from the handle or
  from one of its areas, or is an IO structure of a REQBUFS before the last or the
  private data of an area without a buffer. Close
  frees what is reached. The property alone, about closed handles, says nothing of
  the steps before the last.

## 7. Boards and the control device: Boards, Driver, Control

### State and actions

`Boards` has the tables: which devices the driver takes, what it calls them, how many
nodes they get. `Driver` has one action for each step of `rgb133_probe`,
`rgb133_create_control_device` and `rgb133_remove` at which others can look in:
`ProbeAlloc`, `ProbeHardware`, `CreateControl`, `ControlReady`, `RegisterNode`,
`ProbeIndexed`, `ProbeDone`, and the removal from `RemoveNodes` to `RemoveDevice`.
A failing step unwinds (`Released`, `Unwind`) and the bus goes on to the next board,
which takes the same slot. `devs` is `rgb133_devices`; `pDE` is *freed* when the
pointer is still set after its memory has gone.

`Control` adds applications. `PollStart`, `PollLook`, `PollAppend`, `PollEnd` are
`rgb133_poll`, channel by channel, with the look at the list before its lock;
`ReadTest` and `ReadTake` are the test and the locked part of `read()`. `known` and
`version` tell what the applications have learnt of each input. `SystemInfo`,
`DeviceInfo`, `FlashInfo` are the answers of read(), `SetDeviceParms` and
`WriteFlash` the writes. When a call follows a pointer that is not there, `oops`
says which one and nothing happens any more.

| run | instance | what it shows |
|---|---|---|
| `Control_poll` | a two-channel and a one-channel board, inputs as nodes or not, six failures of probe steps, 1 application, budget 4, fairness | `NothingOutlivesItsBase`, `NodesFound`, `InputsFollow`, `ChangeSignalled`, `ChangesDelivered` |

Two boards of different widths let numbers of devices, of boards and of channels
differ; the budget counts changes, opens and writes, so that an input changes
before, during and after a poll. The deadlock check is off because a loaded driver
that nobody uses may stand still. The fairness is that loading goes on, and that
an application with the device open polls, reads and looks.

In the run, open() between the registration of the control device's node and
`video_set_drvdata` finds no device and sets `oops`; the properties of events are
for behaviours without it. What the run leaves out, and what the code does there:
with two applications both may find the list not empty, and the second follows a
head that is gone; a step that fails when the control device can already be polled
(a node of the second board) leaves a freed extension in the table, and poll()
follows it. Allocations of list entries and copies to the application do not fail
here, and boards are not unplugged while the driver is loaded.

### Proofs

`ControlProofs` proves the run's four safety properties, for any number of
applications and any list of boards, as far as `DriverAssumption` bounds it: no board
has more channels or nodes than the arrays have room for.

`NothingEverOutlivesItsBase` is for any failing steps, late ones included. The
property is not inductive: that the interrupt goes before the extension in `rgb133_remove` follows
from the order of steps, so `RemoveInv` says what each step of the removal has
behind it, `ProbeInv` what each step of a probe has made, and `BaseInv` states the
property slot by slot. `Shapes` and the slots' records are kept opaque.

`EveryNodeFound` (`NodesFound`), also for any failing steps: the number of each node an
application may use leads to its board and channel, and a value written to it
arrives there. `NodeInv` relates the four places that have to agree: where a probe
stands (`PlaceInv`), the maps of the slots to what has been registered (`GrowInv`,
`Table`), `devicesCount` to the nodes in the maps (`CountInv`), and what was written to
what the input has (`WriteInv`). The search for a number goes through all slots of
the table and meets entries not in use, which are zero: it finds the right one
because no number but zero is in two places (`MatchPlaces`) and the node with number
zero comes first (`MatchFirst`).

`ChangesSignalled` (`ChangeSignalled`): a change that the applications do not know of is
signalled, or the one that took its event is about to look. It is for finitely many
applications, and boards of which only the first may fail once it has its hardware
(`FailsEarly`). That is needed: with a failure of a later board TLC finds the
property violated, because the events of that board's inputs, for which an
application may be polling by then, go with its extension. The run has failures of
the first board for this reason. `StepInv` says which slots have an extension at each
step of a probe, `OpenInv` that open handles are counted and only of a device that is
there, `SignalInv` that an event belongs to an extension that lives.

`InputsAlwaysFollow` (`InputsFollow`), for any boards and any failing steps, also when
read() is called in the middle of a probe and when boards have no nodes: the ranges
of inputs that SYSTEM_INFO answers for the devices follow one another without a
gap, are as wide as DEVICE_INFO says and end at the number of all inputs.
`SystemInfo` adds up the widths by a recursive function over the devices; that there
is one (`RunsExists`) is again induction by the least counterexample. What the driver
has to keep for it is that a slot which counts has its board until it is removed
(`BoardInv`).

## 8. Formats and controls: Formats, Controls, Format

### State and actions

`Formats` and `Controls` are tables and arithmetic: the list of pixel formats and what
enumeration makes of it, the three ways the code computes the size of an image
(modulo the width of an unsigned int), alignment, frame sizes and intervals, the
time `CalculateLostReadTime` waits, which controls a kind of signal has, menus and
limits. Facts about them are `ASSUME`s that TLC evaluates over all formats and over
ranges of sizes, rates and times: enumeration meets each format once, a format
comes back from the core as it went (but `Y8` as `GREY`), the three sizes agree,
menus match their limits.

`Format` is the state machine on top: `SFmtPixelFormat`, `SFmtFail`, `SFmtDone` are
`rgb133_s_fmt_vid_cap` around the call of the core that sets the pixel format, at
which a streaming thread can come in; `GFmt` takes the core's format over into the
handle; `Reqbufs`, `QBuf`, `StartDma`, `Complete`, `Dqbuf` are what the image's size is used
for: allocating, letting the card write, and copying one of two pictures into a
buffer when there is no frame. `SInput` has the failing close, which leaves the
handle as it was, and the failing open; a handle that counts as mapped loses its
buffers, and buffers that were never mapped stay (`BuffersAfter`; the application maps
before it queues, and all user memory counts as mapped). `SInput`, `QueryCtrl`, `SCtrl` change and ask inputs
and controls, whose limits are cached for each channel. `over` collects what was
copied or written past its end.

| run | instance | what it shows |
|---|---|---|
| `Format_once` | 2 inputs with 2 signals each, formats `BGR24`, `Y8`, `NV12`, sizes with and without height, 1 buffer of either kind, 2 changes | `FillsFit`, `FormatStays`, `PolicedWhenQueried` |

The formats are one of swapped colours, one that is told as another and one of two
planes; 16 bits for an unsigned int leave the small sizes as they are, and that a
size may be zero is a case of its own. The core's calls fail at will. Inputs that
are nodes of their own cannot be changed, so the run has `expose` off.

The application keeps to V4L2 (`tidy`), and it sets no other format once it has
streamed (`Resizes`): the pictures keep the size of the format at the first start,
and with a larger format set later `FillsFit` fails (`rgb133ioctl.c` 1923). Cropping
and composing rectangles go to the core, which checks them.

### Proofs

`FormatProofs` proves the run's three properties for any subset of the driver's
formats, any sizes, buffers, inputs and controls. The first two assume `SizesFit`:
no image of these sizes overflows an unsigned int (`8 * w * h` is below the modulus). The arithmetic
is in lemmas of its own: `SizesEqual`, the ways of computing the size give the same
number for two formats of the same layout, which for planar formats needs that the
width is a multiple of an even number (`EvenMultiple`).

- `ImageAgreed` and `FormatKept` (`FormatStays`): the handle's format is the one that was
  set, or another that the core takes for the same, and the buffers, the card and
  the handle have one idea of its size (`ImgInv`). A format that is half set counts
  as none (`CtlInv`), because a streaming thread can come in at the core's call.
- `NothingOverrun` (`FillsFit`), for applications that keep their format once they have
  streamed: with `PicInv` the pictures have the size of the image that was set.
- `Policed` (`PolicedWhenQueried`), from `StaticLimits` alone: a change of the signal moves
  no limits but those of the dynamic controls. `LimInv` says of which channels and
  controls the cached limits are those of the present signal.
- `RateAlwaysKept` and `AlwaysPaced` say for all numbers what two of the `ASSUME`s say for
  some: a rate that is read and set again loses at most a thousandth of a Hertz, as
  long as the denominator does not overflow (`GetSampleRate` multiplies unsigned
  int, which ends at 4290 Hertz), and a picture without signal is held back for as long
  as makes it one frame time after the last one.

## 9. Around the capture path: Periphery

Six parts share no state, and `Periphery` runs them side by side in one run:
`part` says which of them a behaviour is of. `Periphery_parts` checks all of them,
with fairness where it says so below; the deadlock check is off because the tools
end and lists need no caller.

### The Windows layer: WinLists, WinWork, WinDma, WinStrings

`WinLists` has the links of rings (`InsertTailList`, `RemoveEntryList`, …) and of
interlocked lists, next to the sequence each should hold; `ListsMatch` compares the
two, and each returned value with what it should be. That the core removes only
entries that are on a ring or whose links were cleared, and flushes no list that
is in use (flushing takes another lock), is assumed. Two rings, one interlocked
list and three entries give an empty ring, one entry, and neighbours on both sides.

`WinWork` has work items and DPCs on the kernel's work: `IoQueueWorkItem`,
`KeInsertQueueDpc`, and the kernel's worker (external) that reads the routine, lets
the work be queued again and calls it. `RequestRuns`: each request is followed by a
call that starts after it, given that the worker goes on. Two callers and one work
of each kind; the core gives a work item the same routine every time.

`WinDma` has `rgb133_get_page_info` and the lists of `rgb133sg.c`, with pages of two
bytes (a buffer within a page, across one boundary, over a whole page and parts of
two others) and two buffers that may share a page. `InitKernelDma` locks as many
pages as the kernel likes, `UninitKernelDma` releases them. `DmaMapSg` is what
`dma_map_sg` may answer: any runs of pages as one element each, or none at all. As in
the code, `LinuxGetScatterGatherList` then fills as many elements of `pSGArray` as there
are, or leaves it as the last mapping did, copies one element per page whatever the
answer was, and calls the core. `BoardHasBuffer`: of a mapping that did not fail the
elements made are the first of the list and cover exactly the bytes of the buffer, if
all of it could be locked. The list does not end there: after a merge it goes on with
entries that are empty or left from an earlier mapping, and after a mapping that
failed it has no others (`rgb133win.c` 1278–1321). `PagesHeld`: references to a page are the user buffers that locked
it. Each buffer has memory of its own. `CaptureGetLiveBuffer` would answer with the
first buffer to a handle that is reading, but `rgb133_set_reading` is only ever called
with 0 (`rgb133vidbuf.c` 307), so that case is left out.

`WinStrings` has wide strings, names in the registry and delays, as operators with
three `ASSUME`s over all short strings.

### The sound card: Audio

`Audio` has the PCM's callbacks in the orders that ALSA allows, and the mixer. A
call of the core that fails leaves the hardware as it was. `CapsInForce`: a stream
that can run has the parameters its hardware was told, whichever calls failed;
`MixerTold`: the copy of the levels agrees with the hardware and watchers know of
every mute. They do not of volumes: `volume_put` finds out that a level has changed
and returns that it has not. The card of the run is analogue, which has the most
controls. Not modelled are the pointer callback and the notification of periods,
whose positions come from the core.

### The tools: CaptureAudio, CaptureTool

`CaptureAudio` has the ring between `read_in` and `write_out`, frame by frame:
`ReadIn`, `Count`, `Signal` against `Look`, `Play`, `PlayFails`, `Account`.
`PlaysInOrder` is for as long as playing keeps up (nothing holds the reader back)
and no period was given up half way (after an underrun in the middle of a period
the next one runs past the end of the ring). Periods of two frames let calls take a
part of one; four periods, because playing starts at three; 17 frames go twice
round the ring. The choice of devices and parameters is in operators.

`CaptureTool` has `main()` of Capture and its thread: `SetupValues`, opening, memory,
`QueueBuffer` to `Drain`, SIGINT at any moment, one call that fails. The driver is its
promise to a client: who has each buffer. `HeldMemoryExists`: memory is given back
when the driver has none of it, unless a call failed, when the thread just returns
and user memory is freed while the driver holds it. `Ends`: the tool comes to its end,
given that both threads run and the board goes on filling. 18 command lines have
every way of capturing and what `SetupValues` refuses; three buffers let one be
queued, one filled and one with the application. Not modelled: a failing
`pthread_create`, `EWOULDBLOCK`, a read() that does not return.

| run | instance | what it shows |
|---|---|---|
| `Periphery_parts` | as above | `ListsMatch`, `RequestRuns`, `BoardHasBuffer`, `PagesHeld`, `CapsInForce`, `MixerTold`, `PlaysInOrder`, `HeldMemoryExists`, `Ends` |

### Proofs

Each part has a specification of its own (`ListSpec`, `WorkSpec`, `DmaSpec`, `AudioSpec`,
`AudioAppSpec`, `ToolSpec`), and most theorems are about those. `PeripheryImplementsParts`
(in `ToolProofs`) shows that `Periphery`, which the run checks, implements all of them, and
`PeripherySafe` that it therefore has every safety property proved of a part.

- `WinProofs`: `ListsAlwaysMatch`, for any number of heads and entries. `RingsInv` says
  that the links of each ring lead through its sequence in both directions
  (`Linked`) and that no entry is on two lists or twice on one. The links are one
  array for all rings, so a call could damage another ring than its own; that it
  does not (`OneRing`) follows from the lists having no entry in common. `LinkTail`,
  `LinkHead` and `LinkOut` are about a single ring of any length, as a sequence with
  an entry put at its end, put at its front, or taken from anywhere.
- `WinProofs` also: `BoardAlwaysHasBuffer` and `PagesAlwaysHeld`, for any size of a page and
  any buffers. `MapInv` says that the pages of a buffer are those of its memory as
  far as they were locked, `ListInv` that the core's list begins with the elements of
  the mapping in force, however pages were merged, `RefInv` counts references. Under
  them lies the arithmetic of pages (`PageFacts`, `RunEnds` for runs of them) and
  `SGCovers`: the elements follow one another from the first byte to the last, with
  no gap.
- `WinProofs` on work: `OwedIsAlwaysComing`, for any number of works and callers, is the
  safety half of `RequestRuns`: a request that was made and not answered is with the
  kernel, or the worker has let the work be queued again and is about to call.
  `Prepared` is needed for it: a call answers a request only with the right routine,
  and the worker reads it before the last caller has set it.
- `WinProofs` on strings: `StringsSurvive`, `CopiesEnd` and `FirstTagAnswers`, for strings
  of any characters, up to the 64 that `wcslen` looks at: the way to a wide string and
  back, comparing, copying with a limit, and the registry's search. A comparison
  stops at the first difference, which is at the end of the wide string at the
  latest (`Differs`), so a tag that is longer than the name is no match.
- `ToolProofs`: `CapsStayInForce` and `MixerAlwaysTold`, for any parameters, levels and
  subscribers. The properties are inductive but for little: that a PCM which is not
  closed has its substream, and that the tables have an entry for each control.
- `ToolProofs` also: `FramesPlayInOrder`, for any period and number of periods. The
  property speaks of the frames that are counted as ready; the invariant of all
  that were captured and not accounted as played: the reader is ahead of the
  writer by as many, they lie in the ring in their order (`PlaceInv`), and what the
  writer has left of its period ends at the end of a period (`CountInv`). Both hold
  until an overrun or a torn period (`OrderInv`). `HeldMemoryAlwaysExists`, for any number of buffers and
  any command line: `GivenInv` compares how many buffers the driver can still have
  with the turns left of the last loop. `DefaultIsFirst`, for any number of sound
  cards: the default device is the first one listed, unless a card before it is broken.

## 10. What is only model-checked, and what is not modelled

Liveness (`CallsReturn`, `WriterServed`, `ReaderServed`, `SignalTaken`,
`ChangesDelivered`, `RequestRuns`, `Ends`) is checked by TLC only: it is out of reach of
the proof system, as is ENABLED. Every safety invariant, action property and refinement
that a passing run checks is a theorem, under the assumptions named there. Where an
assumption restricts the application or the core the runs do too, and the text says
what goes wrong beyond it.

Of the `ASSUME`s about pure functions, those on sizes (`SizesEqual`), rates, times, strings
and default devices are proved for all values; those on tables (`RoundTrip`, `EnumerationComplete`,
`MenusMatch`, `TablesAgree`) range over all the tables have and need none.

Not modelled:

- in the queue: the waits of the no-signal and transition paths of DQBUF, whose
  conditions the core computes, and read() interleaved with it, which the two
  exclude; and the mark `dev->transition`, which `SignalTransition` and
  `NoSignalTransition` set and nothing in the repository reads or clears;
- in OSEvent: waits with a timeout of zero or an absolute one, which return at
  once, and waits that a signal interrupts, which no caller asks for;
- Enumerate, GetFormat, CaptureCmdLine and the discovery of devices: they split
  options and print what one ioctl after another returns;
- parts without logic of their own: wrappers, interrupt registration, register
  access and PCI Express status, the Qt panel, the scripts;
- the core, which has no source here. Its calls and answers are external
  definitions, nondeterministic where the code does not know them.
