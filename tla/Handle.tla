-------------------------------- MODULE Handle --------------------------------
(***************************************************************************)
(* The life of capture handles: open() and close(), the buffers that       *)
(* VIDIOC_REQBUFS allocates, their mappings into processes, and the memory *)
(* all of them hold.  What happens to a buffer while it streams is in      *)
(* VidBuf; here it is enough that it is queued, active or back.            *)
(*                                                                         *)
(* Each call is one step: an application of one thread per handle.  Calls  *)
(* of different handles meet in the device's lock.  Any one allocation of  *)
(* a call may fail, except two whose result the code does not test.        *)
(***************************************************************************)
EXTENDS Naturals, FiniteSets

CONSTANTS
  Files,        (* open files of one capture device, each opened once        *)
  Careful,      (* those opened with O_NONBLOCK whose application gives      *)
                (* buffers up only after it got back all that it queued      *)
  MaxFrame,     (* RGB133_MAX_FRAME: buffers of a handle                     *)
  Planes,       (* numbers of planes of the pixel formats                    *)
  MaxReq,       (* bound on REQBUFS calls of a handle                        *)
  MaxMaps,      (* bound on mappings                                         *)
  Signals,      (* a signal may interrupt the wait for vm_area_lock          *)
  Failures,     (* allocations and calls of the core that may fail           *)
  Budget        (* bound on calls                                            *)

ASSUME HandleAssumption ==
  /\ 0 \notin Files                (* 0 is no file *)
  /\ Careful \subseteq Files
  /\ MaxFrame \in Nat \ {0}
  /\ Planes \subseteq Nat \ {0}
  /\ Planes # {}
  /\ MaxReq \in Nat
  /\ MaxMaps \in Nat
  /\ Signals \in BOOLEAN
  /\ Budget \in Nat

Index    == 0 .. MaxFrame - 1
Gens     == 1 .. MaxReq          (* which REQBUFS allocated it; 0 is NULL    *)
Memories == {"MMAP", "USERPTR"}
BufStates == {"PREPARED", "QUEUED", "ACTIVE", "DONE", "IDLE"}
Streams  == {"NOT_STARTED", "ON", "STOPPED", "OFF"}
MaxPlane == CHOOSE n \in Planes : \A m \in Planes : m <= n

VARIABLES
  hs,           (* the handles                                               *)
  heap,         (* what is allocated                                         *)
  maps,         (* rgb133_vm_privdata and the areas that share it            *)
  stuck,        (* dev->pLock is taken and nobody will release it            *)
  card,         (* requests of a handle the core has not completed, by the   *)
                (* REQBUFS and the index of the buffer they fill             *)
  budget

vars == <<hs, heap, maps, stuck, card, budget>>

(* An allocation: its handle, what it is, which REQBUFS made it, the buffer *)
(* and the plane it belongs to.                                             *)
Obj(f, kind, g, i, p) == <<f, kind, g, i, p>>

Kinds == {"h", "pSem", "pSpinlock", "irp", "messages", "nosignal",
          "buffers", "ioctlsin", "in", "buf", "memory", "dma", "bufirp",
          "message", "lost", "pd"}

HandleParts(f, kinds) == {Obj(f, k, 0, 0, 0) : k \in kinds}

(* The handle a file gets; buffers[i] is 0 or the REQBUFS it comes from. *)
NewHandle ==
  [open |-> "none", buffers |-> 0, slot |-> [i \in Index |-> 0],
   state |-> [i \in Index |-> "PREPARED"], numbuffers |-> 0, ioctlsin |-> 0,
   memorytype |-> "none", mmapped |-> FALSE,
   planes |-> CHOOSE n \in Planes : TRUE,
   streaming |-> "NOT_STARTED", requests |-> 0, memOf |-> [g \in Gens |-> "MMAP"],
   bmapped |-> [i \in Index |-> FALSE], messy |-> FALSE]

NoMap == [f |-> 0, g |-> 0, i |-> 0, count |-> 0, areas |-> 0]

NoRequests == [x \in Gens \X Index |-> 0]

Call == budget > 0 /\ budget' = budget - 1

-------------------------------------------------------------------------------
(* open *)

(* What open() leaves allocated when it fails at each of its steps.  From *)
(* the messages on it also leaves with the device's lock.                 *)
OpenLeaves(at) ==
  CASE at \in {"h", "sem", "spinlock"} -> {}
    [] at = "channel"                  -> {"h"}
    [] at = "irp"                      -> {"h", "pSem", "pSpinlock"}
    [] at \in {"capture", "enable", "messages"} -> {"h", "pSem", "pSpinlock", "irp"}

OpenSteps == {"h", "channel", "sem", "spinlock", "irp", "capture", "enable", "messages"}

OpenFails(f) ==
  /\ hs[f].open = "none" /\ ~stuck /\ Call
  /\ \E at \in OpenSteps \cap Failures :
       /\ heap' = heap \cup HandleParts(f, OpenLeaves(at))
       /\ stuck' = (at = "messages")
       /\ hs' = [hs EXCEPT ![f].open = "failed", ![f].messy = TRUE]
  /\ UNCHANGED <<maps, card>>

(* The core has no capture for the handle (-EBADRQC, -EIO): open succeeds *)
(* without one and without messages.                                      *)
OpenWithoutCapture(f) ==
  /\ hs[f].open = "none" /\ ~stuck /\ Call
  /\ "nocapture" \in Failures
  /\ heap' = heap \cup HandleParts(f, {"h", "pSem", "pSpinlock", "irp"})
  /\ hs' = [hs EXCEPT ![f].open = "bare"]
  /\ UNCHANGED <<maps, stuck, card>>

Open(f) ==
  /\ hs[f].open = "none" /\ ~stuck /\ Call
  /\ heap' = heap \cup HandleParts(f, {"h", "pSem", "pSpinlock", "irp", "messages"})
  /\ hs' = [hs EXCEPT ![f].open = "open"]
  /\ UNCHANGED <<maps, stuck, card>>

-------------------------------------------------------------------------------
(* Buffers *)

DmaParts(f, g, i, n) == {Obj(f, "dma", g, i, p) : p \in 0 .. n - 1}

(* __rgb133_buffer_mmap_dma_free: the buffer and what it points to; of the *)
(* planes those of the format that is set now.                             *)
(* Mutant: the request stays. *)
BufferParts_KeepIrp(f, i) ==
  LET g == hs[f].slot[i]
  IN  IF g = 0 THEN {}
      ELSE {Obj(f, k, g, i, 0) : k \in {"buf",
              IF hs[f].memOf[g] = "MMAP" THEN "memory" ELSE "message"}}
           \cup DmaParts(f, g, i, hs[f].planes)

BufferParts(f, i) ==
  LET g == hs[f].slot[i]
  IN  IF g = 0 THEN {}
      ELSE {Obj(f, k, g, i, 0) : k \in {"buf", "bufirp",
              IF hs[f].memOf[g] = "MMAP" THEN "memory" ELSE "message"}}
           \cup DmaParts(f, g, i, hs[f].planes)

AllBufferParts(f) == UNION {BufferParts(f, i) : i \in 0 .. hs[f].numbuffers - 1}

(* The IO request structures: the array and as many entries as there are *)
(* buffers now.                                                          *)
IoctlsIn(f) ==
  LET g == hs[f].ioctlsin
  IN  IF g = 0 THEN {}
      ELSE {Obj(f, "ioctlsin", g, 0, 0)} \cup
           {Obj(f, "in", g, i, 0) : i \in 0 .. hs[f].numbuffers - 1}

BufferArray(f) ==
  IF hs[f].buffers = 0 THEN {} ELSE {Obj(f, "buffers", hs[f].buffers, 0, 0)}

(* rgb133_is_streaming *)
IsStreaming(f) == hs[f].streaming = "ON"

NoSlots == [i \in Index |-> 0]
Active(f) == \E i \in Index : hs[f].slot[i] # 0 /\ hs[f].state[i] = "ACTIVE"
Mapped(f) == \E k \in 1 .. MaxMaps : maps[k].f = f /\ maps[k].areas > 0

(* What a careful application knows: all it queued came back. *)
AllBack(f) ==
  \A i \in Index : hs[f].slot[i] # 0 => hs[f].state[i] \in {"PREPARED", "IDLE"}

MayGiveUp(f) == f \in Careful => AllBack(f)

(* REQBUFS of no buffers.  CaptureWaitForData is the core's and may return *)
(* before all is done: nothing is counted after it.                        *)
StopDmaStreamingAndFreeBuffers(f) ==
  /\ hs[f].open = "open" /\ Call
  /\ MayGiveUp(f)
  /\ LET frees == hs[f].mmapped
         arr   == hs[f].buffers # 0
         mm    == {i \in 0 .. hs[f].numbuffers - 1 :
                     hs[f].slot[i] # 0 /\ hs[f].memOf[hs[f].slot[i]] = "MMAP"}
     IN  /\ heap' = IF ~frees THEN heap
                    ELSE heap \ (IoctlsIn(f) \cup BufferArray(f) \cup
                         IF arr THEN UNION {BufferParts(f, i) : i \in mm} ELSE {})
         /\ hs' = [hs EXCEPT ![f] =
              IF ~frees THEN [hs[f] EXCEPT !.streaming = "STOPPED"]
              ELSE [hs[f] EXCEPT
                      !.streaming = "STOPPED", !.ioctlsin = 0, !.buffers = 0,
                      !.slot = IF arr THEN NoSlots ELSE hs[f].slot,
                      !.numbuffers = IF arr THEN 0 ELSE hs[f].numbuffers,
                      !.mmapped = ~arr,
                      !.messy = hs[f].messy \/ \E i \in Index \ mm : hs[f].slot[i] # 0]]
  /\ UNCHANGED <<maps, stuck, card>>

(* What of a REQBUFS fails: nothing, the format, the structure, memory, DMA *)
(* lists (p planes done) or request of buffer i, or the IO structures.      *)
NoFailure == [at |-> "nothing", i |-> 0, p |-> 0]

(* rgb133_mmap_buffer_setup: an unknown pixel format, an odd width or no *)
(* picture at all.                                                       *)
FormatRejected == [at : {"format"} \cap Failures, i : {0}, p : {0}]

ReqFailures(f, mem, n) ==
  {NoFailure} \cup FormatRejected \cup
  [at : {"ioctlsin"} \cap Failures, i : {0}, p : {0}] \cup
  [at : {"in", "buf"} \cap Failures, i : 0 .. n - 1, p : {0}] \cup
  (IF mem = "MMAP"
     THEN [at : {"memory"} \cap Failures, i : 0 .. n - 1, p : {0}] \cup
          [at : {"dma"} \cap Failures, i : 0 .. n - 1, p : 0 .. hs[f].planes]
     ELSE [at : {"bufirp"} \cap Failures, i : 0 .. n - 1, p : {0}])

(* __rgb133_buffer_reqbuf_dma_setup: memory whose lists cannot be made is *)
(* lost, its address not yet stored.                                      *)
DmaSetup(f, g, i, e) ==
  IF e.i # i \/ e.at \notin {"memory", "dma"}
    THEN {Obj(f, "memory", g, i, 0)} \cup DmaParts(f, g, i, hs[f].planes)
    ELSE IF e.at = "memory" THEN {}
         ELSE {Obj(f, "lost", g, i, 0)} \cup DmaParts(f, g, i, e.p)

(* AllocAndSetupIrp: a request with its stack and file, or nothing. *)
Irp(f, g, i, e) == IF e.at = "bufirp" /\ e.i = i THEN {} ELSE {Obj(f, "bufirp", g, i, 0)}

(* The loop of __rgb133_buffer_reqbuf_setup, without the structures. *)
NewParts(f, g, mem, n, e) ==
  LET made == IF e.at = "buf" THEN 0 .. e.i - 1 ELSE 0 .. n - 1
  IN  UNION {(IF mem = "MMAP" THEN DmaSetup(f, g, i, e) ELSE {}) \cup
             Irp(f, g, i, e) : i \in made}

(* Each mapped buffer sets the result anew: a failure is reported only when *)
(* it is that of the last one.                                              *)
SetupFails(n, e) ==
  \/ e.at \in {"buf", "bufirp"}
  \/ e.at \in {"memory", "dma"} /\ e.i = n - 1

(* What goes away before the new buffers are made: mapped buffers with all *)
(* they have; of others only the structures of queued ones.                *)
Discarded(f, mem) ==
  IF mem = "MMAP" THEN IF hs[f].buffers = 0 THEN {} ELSE AllBufferParts(f)
  ELSE {Obj(f, "buf", hs[f].slot[i], i, 0) :
          i \in {j \in 0 .. hs[f].numbuffers - 1 :
                   hs[f].slot[j] # 0 /\ hs[f].state[j] = "QUEUED"}}

(* A handle of which buffers that were not freed go out of reach. *)
Abandons(f, mem) ==
  \/ mem = "USERPTR" /\ \E i \in Index : hs[f].slot[i] # 0
  \/ mem = "MMAP" /\ \E i \in Index : i >= hs[f].numbuffers /\ hs[f].slot[i] # 0

(* Mutant: requests while streaming are not refused. *)
MayRequest_Always(f) == TRUE

MayRequest(f) == ~IsStreaming(f)

Reqbufs(f, mem, n) ==
  /\ hs[f].open = "open" /\ Call
  /\ hs[f].requests < MaxReq
  /\ MayRequest(f) /\ (IsStreaming(f) \/ MayGiveUp(f))
  /\ \E e \in ReqFailures(f, mem, n) :
       LET g    == hs[f].requests + 1
           new  == NewParts(f, g, mem, n, e)
           strs == {Obj(f, "buf", g, i, 0) : i \in 0 .. n - 1}
           arr  == {Obj(f, "buffers", g, 0, 0)}
           ioar == {Obj(f, "ioctlsin", g, 0, 0)}
           ioin == {Obj(f, "in", g, i, 0) : i \in 0 .. n - 1}
           kept == heap \ Discarded(f, mem)
           base == [hs[f] EXCEPT
                      !.requests = g, !.memOf[g] = mem,
                      !.mmapped = @ /\ ~(mem = "MMAP" /\ hs[f].buffers # 0),
                      !.messy = @ \/ e # NoFailure \/ Abandons(f, mem)]
           fresh == [base EXCEPT
                      !.buffers = g, !.numbuffers = n,
                      !.state = [i \in Index |-> "PREPARED"],
                      !.bmapped = [i \in Index |-> FALSE],
                      !.slot = [i \in Index |-> IF i < n THEN g ELSE 0]]
       IN  CASE e.at = "format" ->                              \* -EINVAL
                  /\ heap' = heap \ (IF mem = "MMAP" THEN Discarded(f, mem) ELSE {})
                  /\ hs' = [hs EXCEPT ![f] =
                       IF mem = "MMAP" /\ hs[f].buffers # 0
                         THEN [base EXCEPT !.numbuffers = 0, !.slot = NoSlots]
                         ELSE base]
             [] SetupFails(n, e) ->                             \* -ENOMEM
                  /\ heap' = (kept \ BufferArray(f)) \cup arr \cup new
                  /\ hs' = [hs EXCEPT ![f] = [fresh EXCEPT !.numbuffers = 0,
                                                           !.slot = NoSlots]]
             [] e.at = "ioctlsin" ->
                  /\ heap' = (kept \ BufferArray(f)) \cup arr \cup new \cup strs
                  /\ hs' = [hs EXCEPT ![f] = [fresh EXCEPT !.ioctlsin = 0]]
             [] e.at = "in" ->
                  /\ heap' = (kept \ BufferArray(f)) \cup arr \cup new \cup strs \cup ioar
                  /\ hs' = [hs EXCEPT ![f] = [fresh EXCEPT !.ioctlsin = g]]
             [] OTHER ->
                  /\ heap' = (kept \ BufferArray(f)) \cup arr \cup new \cup strs
                             \cup ioar \cup ioin
                  /\ hs' = [hs EXCEPT ![f] =
                       [fresh EXCEPT !.ioctlsin = g, !.memorytype = mem,
                                     !.mmapped = @ \/ mem = "USERPTR"]]
  /\ UNCHANGED <<maps, stuck, card>>

-------------------------------------------------------------------------------
(* Streaming, as far as the memory of buffers is concerned.  Starting a DMA *)
(* allocates the picture that is shown without a signal, once.              *)

Started(f, st) ==
  IF hs[f].slot = NoSlots THEN st
  ELSE [i \in Index |-> IF st[i] = "QUEUED" THEN "ACTIVE" ELSE st[i]]

Starts(f, st) == \E i \in Index : Started(f, st)[i] # st[i]

(* The card gets a request for each buffer that becomes active. *)
Issued(f, st) ==
  [x \in Gens \X Index |->
     IF x[1] = hs[f].slot[x[2]] /\ Started(f, st)[x[2]] # st[x[2]]
       THEN card[f][x] + 1 ELSE card[f][x]]

NoSignalPicture(f) == {Obj(f, "nosignal", 0, 0, 0)}

(* rgb133_userptr_buffer_setup, with the lists of the first n planes made. *)
UserptrSetup(f, g, i, n) == {Obj(f, "message", g, i, 0)} \cup DmaParts(f, g, i, n)

(* VIDIOC_QBUF of a buffer the application holds. *)
Qbuf(f, i) ==
  /\ hs[f].open = "open" /\ Call
  /\ i < hs[f].numbuffers /\ hs[f].slot[i] # 0
  /\ hs[f].state[i] \in {"PREPARED", "IDLE"}
  /\ LET g   == hs[f].slot[i]
         st  == [hs[f].state EXCEPT ![i] = "QUEUED"]
         on  == hs[f].streaming = "ON"
         usr == hs[f].memorytype = "USERPTR"
     IN  /\ hs[f].memorytype = hs[f].memOf[g]
         /\ \/ /\ heap' = heap \cup
                   (IF usr THEN UserptrSetup(f, g, i, hs[f].planes) ELSE {}) \cup
                   (IF on /\ Starts(f, st) THEN NoSignalPicture(f) ELSE {})
                /\ hs' = [hs EXCEPT ![f].state = IF on THEN Started(f, st) ELSE st]
                /\ card' = IF on THEN [card EXCEPT ![f] = Issued(f, st)] ELSE card
             \/ /\ usr /\ "dma" \in Failures
                /\ \E p \in 0 .. hs[f].planes :
                     heap' = heap \cup UserptrSetup(f, g, i, p)
                /\ hs' = [hs EXCEPT ![f].messy = TRUE]
                /\ UNCHANGED card
  /\ UNCHANGED <<maps, stuck>>

Streamon(f) ==
  /\ hs[f].open = "open" /\ Call
  /\ hs[f].streaming # "ON"
  /\ heap' = heap \cup (IF Starts(f, hs[f].state) THEN NoSignalPicture(f) ELSE {})
  /\ hs' = [hs EXCEPT ![f].streaming = "ON", ![f].state = Started(f, @)]
  /\ card' = [card EXCEPT ![f] = Issued(f, hs[f].state)]
  /\ UNCHANGED <<maps, stuck>>

(* STREAMOFF waits for the core and then, if buffers are active, for one  *)
(* event, which any of them or an earlier one set: some may stay active.  *)
Streamoff(f) ==
  /\ hs[f].open = "open" /\ Call
  /\ hs[f].streaming = "ON"
  /\ hs' = [hs EXCEPT ![f].streaming = "OFF"]
  /\ UNCHANGED <<heap, maps, stuck, card>>

(* The core completes a request.  It names an index: the buffer that is    *)
(* there now is done, whichever REQBUFS made it, unless it is idle.        *)
CompleteActiveDMABuffer(f, g, i) ==
  /\ card[f][<<g, i>>] > 0
  /\ card' = [card EXCEPT ![f][<<g, i>>] = @ - 1]
  /\ hs' = IF hs[f].slot[i] # 0 /\ hs[f].state[i] # "IDLE"
             THEN [hs EXCEPT ![f].state[i] = "DONE"]
             ELSE hs
  /\ UNCHANGED <<heap, maps, stuck, budget>>

(* rgb133_userptr_buffer_free: the DMA lists of a user pointer go with the *)
(* frame.                                                                  *)
UserptrFree(f, i) == DmaParts(f, hs[f].slot[i], i, hs[f].planes)

Done(f, i) == hs[f].slot[i] # 0 /\ hs[f].state[i] = "DONE"

NonIdle(f) ==
  {i \in 0 .. hs[f].numbuffers - 1 :
     hs[f].slot[i] # 0 /\ hs[f].state[i] \in {"QUEUED", "ACTIVE", "DONE"}}

(* What a call that may block returns if it finds no completed buffer: after *)
(* STREAMOFF, or if none is active, the first that is not idle.              *)
GetNonIdleBuffer(f, i) ==
  /\ \A j \in Index : ~Done(f, j)
  /\ hs[f].streaming = "OFF" \/ (hs[f].streaming = "ON" /\ ~Active(f))
  /\ i \in NonIdle(f) /\ \A j \in NonIdle(f) : i <= j

Dqbuf(f, i) ==
  /\ hs[f].open = "open"
  /\ Done(f, i) \/ (f \notin Careful /\ GetNonIdleBuffer(f, i))
  /\ hs' = [hs EXCEPT ![f].state[i] = "IDLE"]
  /\ heap' = IF hs[f].memOf[hs[f].slot[i]] = "USERPTR"
               THEN heap \ UserptrFree(f, i)
               ELSE heap
  /\ UNCHANGED <<maps, stuck, card, budget>>

(* VIDIOC_S_FMT does not ask whether there are buffers. *)
SetFormat(f, n) ==
  /\ hs[f].open = "open" /\ Call
  /\ n # hs[f].planes
  /\ hs' = [hs EXCEPT ![f].planes = n,
                      ![f].messy = @ \/ hs[f].slot # NoSlots]
  /\ UNCHANGED <<heap, maps, stuck, card>>

(* read() of a handle that has no mapped buffers. *)
Read(f) ==
  /\ hs[f].open = "open" /\ Call
  /\ ~hs[f].mmapped
  /\ heap' = heap \cup NoSignalPicture(f)
  /\ UNCHANGED <<hs, maps, stuck, card>>

-------------------------------------------------------------------------------
(* Mappings *)

(* rgb133_vm_open, when it gets vm_area_lock.  An area without a buffer is *)
(* not counted.                                                            *)
(* Mutant: the first area is not counted. *)
VmOpen_Uncounted(k, m) == [m EXCEPT !.areas = @ + 1, !.count = IF m.areas = 0 THEN @ ELSE @ + 1]

VmOpen(k, m) ==
  [m EXCEPT !.areas = @ + 1, !.count = IF m.g = 0 THEN @ ELSE @ + 1]

(* __rgb133_buffer_mmap_mapper: the private data of an area. *)
MmapMapper(f, i) == [f |-> f, g |-> hs[f].slot[i], i |-> i, count |-> 0, areas |-> 0]

(* mmap() of a buffer that was not mapped before.  (Of one that was it     *)
(* returns 0 and changes nothing: such an area has no operations.)  The    *)
(* entry of the array is not looked at: it may be NULL, in an array of a   *)
(* REQBUFS that failed or past one of fewer buffers.                       *)
Mmap(f, k, i) ==
  /\ hs[f].open = "open" /\ Call
  /\ maps[k] = NoMap /\ \A j \in 1 .. k - 1 : maps[j] # NoMap
  /\ hs[f].buffers # 0 /\ (hs[f].slot[i] # 0 => ~hs[f].bmapped[i])
  /\ maps' = [maps EXCEPT ![k] = VmOpen(k, MmapMapper(f, i))]
  /\ heap' = heap \cup {Obj(f, "pd", k, 0, 0)}
  /\ hs' = [hs EXCEPT ![f].mmapped = TRUE, ![f].bmapped[i] = @ \/ hs[f].slot[i] # 0]
  /\ UNCHANGED <<stuck, card>>

(* fork() or a split of the area; a signal may keep vm_open from counting. *)
Fork(k) ==
  /\ maps[k].areas > 0 /\ Call
  /\ \/ maps' = [maps EXCEPT ![k] = VmOpen(k, @)]
     \/ Signals /\ maps' = [maps EXCEPT ![k].areas = @ + 1]
  /\ UNCHANGED <<hs, heap, stuck, card>>

(* munmap() or exit: rgb133_vm_close frees the private data at zero, but *)
(* not that of an area without a buffer.                                 *)
Unmap(k) ==
  /\ maps[k].areas > 0
  /\ \/ /\ maps[k].g # 0
        /\ maps' = [maps EXCEPT ![k].areas = @ - 1, ![k].count = @ - 1]
        /\ heap' = IF maps[k].count = 1 THEN heap \ {Obj(maps[k].f, "pd", k, 0, 0)} ELSE heap
     \/ /\ Signals \/ maps[k].g = 0
        /\ maps' = [maps EXCEPT ![k].areas = @ - 1]
        /\ UNCHANGED heap
  /\ UNCHANGED <<hs, stuck, card, budget>>

-------------------------------------------------------------------------------
(* close: the kernel calls it when no area is left.  APICloseCapture of the *)
(* core, if it does not fail, ends what the card does for the handle.       *)

Closed(f) == [NewHandle EXCEPT !.open = "closed", !.requests = hs[f].requests,
                               !.memOf = hs[f].memOf]

(* Mutant: user pointer buffers are not torn down. *)
CloseBuffers_MmapOnly(f) ==
  IF hs[f].mmapped /\ hs[f].buffers # 0 /\ hs[f].memorytype = "MMAP"
    THEN AllBufferParts(f) ELSE {}

(* The buffers themselves only if the handle counts as mapped. *)
CloseBuffers(f) ==
  IF hs[f].mmapped /\ hs[f].buffers # 0 THEN AllBufferParts(f) ELSE {}

Close(f) ==
  /\ hs[f].open \in {"open", "bare"} /\ ~stuck
  /\ ~Mapped(f)
  /\ heap' = heap \ (CloseBuffers(f) \cup IoctlsIn(f) \cup BufferArray(f) \cup
       HandleParts(f, {"h", "pSem", "pSpinlock", "irp", "messages", "nosignal"}))
  /\ hs' = [hs EXCEPT ![f] = [Closed(f) EXCEPT !.messy =
       hs[f].messy \/ (~hs[f].mmapped /\ hs[f].slot # NoSlots)]]
  /\ card' = [card EXCEPT ![f] = NoRequests]
  /\ UNCHANGED <<maps, stuck, budget>>

(* The core refuses to close: only the request is freed. *)
CloseFails(f) ==
  /\ hs[f].open \in {"open", "bare"} /\ ~stuck
  /\ ~Mapped(f)
  /\ "close" \in Failures
  /\ heap' = heap \ HandleParts(f, {"irp"})
  /\ hs' = [hs EXCEPT ![f] = [Closed(f) EXCEPT !.messy = TRUE]]
  /\ UNCHANGED <<maps, stuck, card, budget>>

-------------------------------------------------------------------------------

Init ==
  /\ hs = [f \in Files |-> NewHandle]
  /\ heap = {}
  /\ maps = [k \in 1 .. MaxMaps |-> NoMap]
  /\ stuck = FALSE
  /\ card = [f \in Files |-> NoRequests]
  /\ budget = Budget

Next ==
  \/ \E f \in Files :
       \/ OpenFails(f) \/ OpenWithoutCapture(f) \/ Open(f)
       \/ StopDmaStreamingAndFreeBuffers(f)
       \/ \E mem \in Memories, n \in 1 .. MaxFrame : Reqbufs(f, mem, n)
       \/ Streamon(f) \/ Streamoff(f) \/ Read(f)
       \/ \E n \in Planes : SetFormat(f, n)
       \/ \E i \in Index : Qbuf(f, i) \/ Dqbuf(f, i)
       \/ \E g \in Gens, i \in Index : CompleteActiveDMABuffer(f, g, i)
       \/ \E k \in 1 .. MaxMaps, i \in Index : Mmap(f, k, i)
       \/ Close(f) \/ CloseFails(f)
  \/ \E k \in 1 .. MaxMaps : Fork(k) \/ Unmap(k)

Spec == Init /\ [][Next]_vars

-------------------------------------------------------------------------------
(* Properties *)

Objects ==
  {Obj(f, k, g, i, p) : f \in Files, k \in Kinds,
     g \in 0 .. IF MaxReq > MaxMaps THEN MaxReq ELSE MaxMaps,
     i \in Index, p \in 0 .. MaxPlane}

Handles ==
  [open : {"none", "failed", "bare", "open", "closed"}, buffers : {0} \cup Gens,
   slot : [Index -> {0} \cup Gens], state : [Index -> BufStates],
   numbuffers : 0 .. MaxFrame, ioctlsin : {0} \cup Gens,
   memorytype : Memories \cup {"none"}, mmapped : BOOLEAN, planes : Planes,
   streaming : Streams, requests : 0 .. MaxReq, memOf : [Gens -> Memories],
   bmapped : [Index -> BOOLEAN], messy : BOOLEAN]

(* The handles, the heap, the mappings and the requests keep their types. *)
TypeOK ==
  /\ hs \in [Files -> Handles]
  /\ heap \subseteq Objects
  /\ maps \in [1 .. MaxMaps -> [f : Files \cup {0}, g : {0} \cup Gens, i : Index,
                                count : Nat, areas : Nat]]
  /\ stuck \in BOOLEAN
  /\ card \in [Files -> [Gens \X Index -> Nat]]
  /\ budget \in 0 .. Budget

(* Every pointer a handle keeps after an ioctl, failed or not, is NULL or *)
(* points to memory that is still allocated: the array of buffers, its    *)
(* entries, the IO structures, and the private data of every area.        *)
NoDanglingPointer ==
  /\ \A f \in Files :
       /\ BufferArray(f) \subseteq heap
       /\ \A i \in Index : hs[f].slot[i] # 0 => Obj(f, "buf", hs[f].slot[i], i, 0) \in heap
       /\ hs[f].slot # NoSlots => hs[f].buffers # 0
       /\ hs[f].ioctlsin # 0 => Obj(f, "ioctlsin", hs[f].ioctlsin, 0, 0) \in heap
       /\ hs[f].open \in {"open", "bare"} =>
            HandleParts(f, {"h", "pSem", "pSpinlock", "irp"}) \subseteq heap
  /\ \A k \in 1 .. MaxMaps :
       maps[k].areas > 0 => Obj(maps[k].f, "pd", k, 0, 0) \in heap

(* A page that is mapped into a process belongs to a buffer that exists: no *)
(* REQBUFS, STREAMOFF or close takes it away while an area is left.         *)
MappedBufferExists ==
  \A k \in 1 .. MaxMaps :
    maps[k].areas > 0 /\ maps[k].g # 0 =>
      Obj(maps[k].f, "buf", maps[k].g, maps[k].i, 0) \in heap

(* What is allocated for the buffer of index i that REQBUFS g made. *)
Memory(f, g, i) ==
  {o \in heap : o[1] = f /\ o[3] = g /\ o[4] = i /\
                o[2] \in {"buf", "memory", "dma", "bufirp", "message"}}

(* Of a careful application's file no memory, list or request of a buffer *)
(* is freed while the card has a request to fill it: REQBUFS is refused   *)
(* while streaming, DQBUF that may not block hands out only what the core *)
(* completed, and QBUF asks no second time for a buffer that is out.      *)
ActiveNotFreed ==
  [][\A f \in Careful, g \in Gens, i \in Index :
       card[f][<<g, i>>] > 0 /\ card'[f][<<g, i>>] > 0 => Memory(f, g, i) \subseteq heap']_vars

(* A handle whose calls all succeeded, whose format did not change under  *)
(* its buffers and which mapped them leaves nothing allocated behind, but *)
(* the IO structures of its REQBUFS calls except the last and the private *)
(* data of areas that were mapped from an empty entry of the array.       *)
CloseReturnsAll ==
  \A f \in Files :
    hs[f].open = "closed" /\ ~hs[f].messy =>
      \A o \in heap : o[1] = f =>
        \/ o[2] \in {"ioctlsin", "in"} /\ o[3] < hs[f].requests
        \/ o[2] = "pd" /\ o[3] \in 1 .. MaxMaps /\ maps[o[3]].g = 0

===============================================================================
