------------------------------ MODULE HandleProofs ------------------------------
(***************************************************************************)
(* Theorems about the memory of handles, for any number of files, buffers, *)
(* planes, requests and mappings, and whichever steps fail.                *)
(***************************************************************************)
EXTENDS Handle, TLAPS

(* What a handle has from open() on. *)
Core == {"h", "pSem", "pSpinlock", "irp"}

(* Pointers of a handle, given as a record, into what is allocated. *)
Points(f, r, H) ==
  /\ r.buffers # 0 => Obj(f, "buffers", r.buffers, 0, 0) \in H
  /\ \A i \in Index : r.slot[i] # 0 =>
       Obj(f, "buf", r.slot[i], i, 0) \in H /\ i < r.numbuffers /\ r.buffers # 0
  /\ r.ioctlsin # 0 => Obj(f, "ioctlsin", r.ioctlsin, 0, 0) \in H
  /\ r.ioctlsin <= r.requests
  /\ r.open \in {"open", "bare"} => HandleParts(f, Core) \subseteq H

Areas == [f : Files \cup {0}, g : {0} \cup Gens, i : Index, count : Nat, areas : Nat]

(* What an area needs; the count is that of the areas, if they have a buffer. *)
Counted(m, k, H) ==
  /\ m \in Areas
  /\ m.count = IF m.g = 0 THEN 0 ELSE m.areas
  /\ m.areas > 0 => Obj(m.f, "pd", k, 0, 0) \in H

TypeInv  == hs \in [Files -> Handles]
PointInv == \A f \in Files : Points(f, hs[f], heap)
MapInv   == DOMAIN maps = 1 .. MaxMaps
CountInv == \A k \in 1 .. MaxMaps : Counted(maps[k], k, heap)

(* A call of one file changes its handle and what it has allocated; the *)
(* private data of areas stay.                                          *)
Own(f) ==
  /\ \A o \in heap : o[1] # f \/ o[2] = "pd" => o \in heap'
  /\ \A o \in heap' : o[1] # f => o \in heap
  /\ hs' = [hs EXCEPT ![f] = hs'[f]]

(* It leaves the handle sound. *)
Sound(f) ==
  /\ Own(f)
  /\ hs'[f] \in Handles
  /\ Points(f, hs'[f], heap')

(* The planes are numbered. *)
LEMMA PlanesTyped == Planes \subseteq Nat \ {0} /\ MaxFrame \in Nat \ {0} /\ MaxReq \in Nat
BY HandleAssumption DEF HandleAssumption

(* A new handle has nothing and owns nothing. *)
LEMMA NewHandleIs ==
  /\ NewHandle \in Handles
  /\ NewHandle.open = "none" /\ NewHandle.buffers = 0 /\ NewHandle.slot = NoSlots
  /\ NewHandle.ioctlsin = 0 /\ NewHandle.requests = 0 /\ NewHandle.numbuffers = 0
  /\ NewHandle.messy = FALSE
<1>1. (CHOOSE n \in Planes : TRUE) \in Planes
  BY HandleAssumption DEF HandleAssumption
<1>2. QED BY <1>1, PlanesTyped DEF NewHandle, Handles, NoSlots, BufStates, Streams, Memories

-------------------------------------------------------------------------------
(* What the sets of parts hold *)

(* The parts of buffers belong to the file and are of the buffers' kinds. *)
LEMMA BufferPartsKind ==
ASSUME NEW f, NEW i, NEW o \in BufferParts(f, i)
PROVE  /\ o[1] = f /\ o[4] = i /\ o[3] = hs[f].slot[i]
       /\ o[2] \in {"buf", "bufirp", "memory", "message", "dma"}
BY DEF BufferParts, DmaParts, Obj

(* So are those of all buffers. *)
LEMMA AllBufferPartsKind ==
ASSUME NEW f, NEW o \in AllBufferParts(f)
PROVE  o[1] = f /\ o[2] \in {"buf", "bufirp", "memory", "message", "dma"}
BY BufferPartsKind DEF AllBufferParts

(* The structures of IO requests. *)
LEMMA IoctlsInKind ==
ASSUME NEW f, NEW o \in IoctlsIn(f)
PROVE  o[1] = f /\ o[2] \in {"ioctlsin", "in"} /\ o[3] = hs[f].ioctlsin
BY DEF IoctlsIn, Obj

(* The array of buffers. *)
LEMMA BufferArrayKind ==
ASSUME NEW f, NEW o \in BufferArray(f)
PROVE  o[1] = f /\ o[2] = "buffers"
BY DEF BufferArray, Obj

(* What close() frees whatever the handle did. *)
LEMMA HandlePartsKind ==
ASSUME NEW f, NEW kinds, NEW o \in HandleParts(f, kinds)
PROVE  o[1] = f /\ o[2] \in kinds /\ o = Obj(f, o[2], 0, 0, 0)
BY DEF HandleParts, Obj

(* What REQBUFS gives up. *)
LEMMA DiscardedKind ==
ASSUME NEW f, NEW mem, NEW o \in Discarded(f, mem)
PROVE  o[1] = f /\ o[2] \in {"buf", "bufirp", "memory", "message", "dma"}
<1>1. CASE mem = "MMAP"
  BY <1>1, AllBufferPartsKind DEF Discarded
<1>2. CASE mem # "MMAP"
  BY <1>2 DEF Discarded, Obj
<1>3. QED BY <1>1, <1>2

(* What REQBUFS makes with each buffer. *)
LEMMA NewPartsKind ==
ASSUME NEW f, NEW g, NEW mem, NEW n, NEW e, NEW o \in NewParts(f, g, mem, n, e)
PROVE  o[1] = f /\ o[2] \in {"memory", "dma", "lost", "bufirp"}
<1>1. PICK i : o \in DmaSetup(f, g, i, e) \/ o \in Irp(f, g, i, e)
  BY DEF NewParts
<1>2. CASE o \in DmaSetup(f, g, i, e)
  BY <1>2 DEF DmaSetup, DmaParts, Obj
<1>3. CASE o \in Irp(f, g, i, e)
  BY <1>3 DEF Irp, Obj
<1>4. QED BY <1>1, <1>2, <1>3

-------------------------------------------------------------------------------
(* open *)

(* The handle of a failed or refused open has no pointers. *)
LEMMA OpenFailsStep ==
ASSUME TypeInv, PointInv, NEW f \in Files, OpenFails(f)
PROVE  Sound(f)
<1>1. hs[f] \in Handles /\ Points(f, hs[f], heap) /\ hs \in [Files -> Handles]
  BY DEF TypeInv, PointInv
<1>2. PICK at : heap' = heap \cup HandleParts(f, OpenLeaves(at))
  BY DEF OpenFails
<1>3. /\ hs'[f] = [hs[f] EXCEPT !.open = "failed", !.messy = TRUE]
      /\ hs' = [hs EXCEPT ![f] = hs'[f]]
  BY <1>1 DEF OpenFails
<1>4. Own(f)
  BY <1>2, <1>3, HandlePartsKind DEF Own
<1>5. hs'[f] \in Handles
  BY <1>1, <1>3 DEF Handles
<1>6. Points(f, hs'[f], heap')
  BY <1>1, <1>2, <1>3 DEF Points, Handles
<1>7. QED BY <1>4, <1>5, <1>6 DEF Sound

(* An opened handle has its core. *)
LEMMA OpenStep ==
ASSUME TypeInv, PointInv, NEW f \in Files, Open(f) \/ OpenWithoutCapture(f)
PROVE  Sound(f)
<1>1. hs[f] \in Handles /\ Points(f, hs[f], heap) /\ hs \in [Files -> Handles]
  BY DEF TypeInv, PointInv
<1>2. PICK kinds : Core \subseteq kinds /\ heap' = heap \cup HandleParts(f, kinds)
  BY DEF Open, OpenWithoutCapture, Core
<1>3. PICK o \in {"open", "bare"} :
        /\ hs'[f] = [hs[f] EXCEPT !.open = o]
        /\ hs' = [hs EXCEPT ![f] = hs'[f]]
  BY <1>1 DEF Open, OpenWithoutCapture
<1>4. Own(f)
  BY <1>2, <1>3, HandlePartsKind DEF Own
<1>5. hs'[f] \in Handles
  BY <1>1, <1>3 DEF Handles
<1>6. HandleParts(f, Core) \subseteq heap'
  BY <1>2 DEF HandleParts
<1>7. Points(f, hs'[f], heap')
  BY <1>1, <1>2, <1>3, <1>6 DEF Points, Handles
<1>8. QED BY <1>4, <1>5, <1>7 DEF Sound

-------------------------------------------------------------------------------
(* Buffers *)

(* The ioctl takes the pointers away with what they point to. *)
LEMMA StopStep ==
ASSUME TypeInv, PointInv, NEW f \in Files, StopDmaStreamingAndFreeBuffers(f)
PROVE  Sound(f)
<1>1. hs[f] \in Handles /\ Points(f, hs[f], heap) /\ hs \in [Files -> Handles]
  BY DEF TypeInv, PointInv
<1>2. hs[f].open = "open"
  BY DEF StopDmaStreamingAndFreeBuffers
<1>3. CASE ~hs[f].mmapped
  <2>1. /\ hs'[f] = [hs[f] EXCEPT !.streaming = "STOPPED"]
        /\ hs' = [hs EXCEPT ![f] = hs'[f]]
        /\ heap' = heap
    BY <1>1, <1>3 DEF StopDmaStreamingAndFreeBuffers
  <2>2. Own(f)
    BY <2>1 DEF Own
  <2>3. hs'[f] \in Handles
    BY <1>1, <2>1 DEF Handles, Streams
  <2>4. Points(f, hs'[f], heap')
    BY <1>1, <1>2, <2>1 DEF Points, Handles, Active
  <2>5. QED BY <2>2, <2>3, <2>4 DEF Sound
<1>4. CASE hs[f].mmapped
  <2> DEFINE arr == hs[f].buffers # 0
             mm == {i \in 0 .. hs[f].numbuffers - 1 :
                      hs[f].slot[i] # 0 /\ hs[f].memOf[hs[f].slot[i]] = "MMAP"}
             gone == IoctlsIn(f) \cup BufferArray(f) \cup
                       IF arr THEN UNION {BufferParts(f, i) : i \in mm} ELSE {}
  <2>1. /\ hs'[f] = [hs[f] EXCEPT !.streaming = "STOPPED", !.ioctlsin = 0, !.buffers = 0,
                             !.slot = IF arr THEN NoSlots ELSE hs[f].slot,
                             !.numbuffers = IF arr THEN 0 ELSE hs[f].numbuffers,
                             !.mmapped = ~arr,
                             !.messy = hs[f].messy \/ \E i \in Index \ mm : hs[f].slot[i] # 0]
        /\ hs' = [hs EXCEPT ![f] = hs'[f]]
        /\ heap' = heap \ gone
    BY <1>1, <1>4 DEF StopDmaStreamingAndFreeBuffers
  <2>2. \A o \in gone : o[1] = f /\ o[2] \in {"ioctlsin", "in", "buffers", "buf", "bufirp",
                                               "memory", "message", "dma"}
    BY IoctlsInKind, BufferArrayKind, BufferPartsKind
  <2> HIDE DEF gone, mm
  <2>3. Own(f)
    BY <2>1, <2>2 DEF Own
  <2>4. hs'[f] \in Handles
    <3>1. NoSlots \in [Index -> {0} \cup Gens] /\ 0 \in 0 .. MaxFrame
      BY PlanesTyped DEF NoSlots
    <3>2. QED BY <1>1, <2>1, <3>1 DEF Handles, Streams
  <2>5. HandleParts(f, Core) \subseteq heap'
    BY <1>1, <1>2, <2>1, <2>2, HandlePartsKind DEF Points, Core
  <2>6. \A i \in Index : hs'[f].slot[i] = 0
    BY <1>1, <2>1 DEF Points, NoSlots, Handles
  <2>7. Points(f, hs'[f], heap')
    BY <1>1, <2>1, <2>5, <2>6 DEF Points, Handles
  <2>8. QED BY <2>3, <2>4, <2>7 DEF Sound
<1>5. QED BY <1>3, <1>4, <1>1 DEF Handles

(* REQBUFS, as far as every outcome has it in common: what goes, what comes, *)
(* and the handle before the new array of buffers is set.                    *)
Gone(f, mem) == Discarded(f, mem) \cup BufferArray(f)

Base(f, mem, e) ==
  [hs[f] EXCEPT !.requests = hs[f].requests + 1,
                !.memOf = [hs[f].memOf EXCEPT ![hs[f].requests + 1] = mem],
                !.mmapped = hs[f].mmapped /\ ~(mem = "MMAP" /\ hs[f].buffers # 0),
                !.messy = hs[f].messy \/ e # NoFailure \/ Abandons(f, mem)]

Fresh(f, mem, n, e) ==
  [Base(f, mem, e) EXCEPT
     !.buffers = hs[f].requests + 1, !.numbuffers = n,
     !.state = [i \in Index |-> "PREPARED"],
     !.bmapped = [i \in Index |-> FALSE],
     !.slot = [i \in Index |-> IF i < n THEN hs[f].requests + 1 ELSE 0]]

(* The structures and IO structures of the new buffers. *)
Structs(f, n) == {Obj(f, "buf", hs[f].requests + 1, i, 0) : i \in 0 .. n - 1}
Ins(f, n)     == {Obj(f, "in", hs[f].requests + 1, i, 0) : i \in 0 .. n - 1}
NewArr(f)     == {Obj(f, "buffers", hs[f].requests + 1, 0, 0)}
NewIos(f)     == {Obj(f, "ioctlsin", hs[f].requests + 1, 0, 0)}
News(f, mem, n, e) == NewParts(f, hs[f].requests + 1, mem, n, e)

(* The five outcomes of REQBUFS. *)
ReqRejected(f, mem, e) ==
  /\ e.at = "format"
  /\ heap' = heap \ (IF mem = "MMAP" THEN Discarded(f, mem) ELSE {})
  /\ hs' = [hs EXCEPT ![f] =
       IF mem = "MMAP" /\ hs[f].buffers # 0
         THEN [Base(f, mem, e) EXCEPT !.numbuffers = 0, !.slot = NoSlots]
         ELSE Base(f, mem, e)]

ReqNoBuffers(f, mem, n, e) ==
  /\ e # NoFailure
  /\ heap' = (heap \ Gone(f, mem)) \cup NewArr(f) \cup News(f, mem, n, e)
  /\ hs' = [hs EXCEPT ![f] = [Fresh(f, mem, n, e) EXCEPT !.numbuffers = 0, !.slot = NoSlots]]

ReqNoStructures(f, mem, n, e) ==
  /\ e # NoFailure
  /\ heap' = (heap \ Gone(f, mem)) \cup NewArr(f) \cup News(f, mem, n, e) \cup Structs(f, n)
  /\ hs' = [hs EXCEPT ![f] = [Fresh(f, mem, n, e) EXCEPT !.ioctlsin = 0]]

ReqFewStructures(f, mem, n, e) ==
  /\ e # NoFailure
  /\ heap' = (heap \ Gone(f, mem)) \cup NewArr(f) \cup News(f, mem, n, e) \cup Structs(f, n)
              \cup NewIos(f)
  /\ hs' = [hs EXCEPT ![f] = [Fresh(f, mem, n, e) EXCEPT !.ioctlsin = hs[f].requests + 1]]

ReqDone(f, mem, n, e) ==
  /\ heap' = (heap \ Gone(f, mem)) \cup NewArr(f) \cup News(f, mem, n, e) \cup Structs(f, n)
              \cup NewIos(f) \cup Ins(f, n)
  /\ hs' = [hs EXCEPT ![f] = [Fresh(f, mem, n, e) EXCEPT
                !.ioctlsin = hs[f].requests + 1, !.memorytype = mem,
                !.mmapped = (hs[f].mmapped /\ ~(mem = "MMAP" /\ hs[f].buffers # 0))
                              \/ mem = "USERPTR"]]

(* These are all. *)
LEMMA ReqOutcomes ==
ASSUME TypeInv, NEW f \in Files, NEW mem \in Memories, NEW n \in 1 .. MaxFrame, Reqbufs(f, mem, n)
PROVE  \E e : \/ ReqRejected(f, mem, e)
              \/ ReqNoBuffers(f, mem, n, e)
              \/ ReqNoStructures(f, mem, n, e)
              \/ ReqFewStructures(f, mem, n, e)
              \/ ReqDone(f, mem, n, e)
<1>1. hs[f] \in Handles
  BY DEF TypeInv
<1> DEFINE g     == hs[f].requests + 1
           new(e)  == NewParts(f, g, mem, n, e)
           strs  == {Obj(f, "buf", g, i, 0) : i \in 0 .. n - 1}
           arr   == {Obj(f, "buffers", g, 0, 0)}
           ioar  == {Obj(f, "ioctlsin", g, 0, 0)}
           ioin  == {Obj(f, "in", g, i, 0) : i \in 0 .. n - 1}
           kept  == heap \ Discarded(f, mem)
           base(e)  == [hs[f] EXCEPT
                      !.requests = g, !.memOf[g] = mem,
                      !.mmapped = @ /\ ~(mem = "MMAP" /\ hs[f].buffers # 0),
                      !.messy = @ \/ e # NoFailure \/ Abandons(f, mem)]
           fresh(e) == [base(e) EXCEPT
                      !.buffers = g, !.numbuffers = n,
                      !.state = [i \in Index |-> "PREPARED"],
                      !.bmapped = [i \in Index |-> FALSE],
                      !.slot = [i \in Index |-> IF i < n THEN g ELSE 0]]
<1>2. PICK e :
       CASE e.at = "format" ->
                  /\ heap' = heap \ (IF mem = "MMAP" THEN Discarded(f, mem) ELSE {})
                  /\ hs' = [hs EXCEPT ![f] =
                       IF mem = "MMAP" /\ hs[f].buffers # 0
                         THEN [base(e) EXCEPT !.numbuffers = 0, !.slot = NoSlots]
                         ELSE base(e)]
         [] SetupFails(n, e) ->
                  /\ heap' = (kept \ BufferArray(f)) \cup arr \cup new(e)
                  /\ hs' = [hs EXCEPT ![f] = [fresh(e) EXCEPT !.numbuffers = 0,
                                                           !.slot = NoSlots]]
         [] e.at = "ioctlsin" ->
                  /\ heap' = (kept \ BufferArray(f)) \cup arr \cup new(e) \cup strs
                  /\ hs' = [hs EXCEPT ![f] = [fresh(e) EXCEPT !.ioctlsin = 0]]
         [] e.at = "in" ->
                  /\ heap' = (kept \ BufferArray(f)) \cup arr \cup new(e) \cup strs \cup ioar
                  /\ hs' = [hs EXCEPT ![f] = [fresh(e) EXCEPT !.ioctlsin = g]]
         [] OTHER ->
                  /\ heap' = (kept \ BufferArray(f)) \cup arr \cup new(e) \cup strs
                             \cup ioar \cup ioin
                  /\ hs' = [hs EXCEPT ![f] =
                       [fresh(e) EXCEPT !.ioctlsin = g, !.memorytype = mem,
                                     !.mmapped = @ \/ mem = "USERPTR"]]
  BY DEF Reqbufs
<1>3. base(e) = Base(f, mem, e)
  BY <1>1 DEF Base, Handles
<1>4. fresh(e) = Fresh(f, mem, n, e)
  BY <1>3 DEF Fresh
<1>5. /\ NoFailure.at = "nothing" /\ ~SetupFails(n, NoFailure)
      /\ SetupFails(n, e) => e.at \notin {"format", "ioctlsin", "in"} /\ e # NoFailure
  BY DEF NoFailure, SetupFails
<1>6. kept \ BufferArray(f) = heap \ Gone(f, mem)
  BY DEF Gone
<1>7. /\ new(e) = News(f, mem, n, e) /\ strs = Structs(f, n) /\ arr = NewArr(f)
      /\ ioar = NewIos(f) /\ ioin = Ins(f, n)
  BY DEF News, Structs, NewArr, NewIos, Ins
<1> HIDE DEF kept, new, strs, arr, ioar, ioin, base, fresh
<1>8. CASE e.at = "format"
  BY <1>2, <1>3, <1>5, <1>8 DEF ReqRejected
<1>9. CASE e.at # "format" /\ SetupFails(n, e)
  BY <1>2, <1>4, <1>5, <1>6, <1>7, <1>9 DEF ReqNoBuffers
<1>10. CASE e.at = "ioctlsin" /\ ~SetupFails(n, e)
  BY <1>2, <1>4, <1>5, <1>6, <1>7, <1>10 DEF ReqNoStructures
<1>11. CASE e.at = "in" /\ ~SetupFails(n, e)
  BY <1>2, <1>4, <1>5, <1>6, <1>7, <1>11 DEF ReqFewStructures
<1>12. CASE e.at \notin {"format", "ioctlsin", "in"} /\ ~SetupFails(n, e)
  <2>1. fresh(e).mmapped = (hs[f].mmapped /\ ~(mem = "MMAP" /\ hs[f].buffers # 0))
    BY <1>1, <1>4 DEF Fresh, Base, Handles
  <2>2. QED BY <1>2, <1>4, <1>6, <1>7, <1>12, <2>1 DEF ReqDone
<1>13. QED BY <1>8, <1>9, <1>10, <1>11, <1>12

(* The handle has its type and its core pointers throughout a REQBUFS. *)
LEMMA ReqHandle ==
ASSUME TypeInv, NEW f \in Files, NEW mem \in Memories, NEW n \in 1 .. MaxFrame, NEW e,
       hs[f].requests < MaxReq, hs[f].open = "open"
PROVE  /\ Base(f, mem, e) \in Handles /\ Fresh(f, mem, n, e) \in Handles
       /\ hs[f].requests + 1 \in Gens
       /\ Base(f, mem, e).open = "open" /\ Fresh(f, mem, n, e).open = "open"
       /\ Base(f, mem, e).buffers = hs[f].buffers
       /\ Base(f, mem, e).ioctlsin = hs[f].ioctlsin
       /\ Base(f, mem, e).slot = hs[f].slot
       /\ Base(f, mem, e).numbuffers = hs[f].numbuffers
       /\ Base(f, mem, e).state = hs[f].state
       /\ Base(f, mem, e).requests = hs[f].requests + 1
       /\ Fresh(f, mem, n, e).requests = hs[f].requests + 1
       /\ Fresh(f, mem, n, e).buffers = hs[f].requests + 1
       /\ Fresh(f, mem, n, e).ioctlsin = hs[f].ioctlsin
       /\ Fresh(f, mem, n, e).numbuffers = n
       /\ \A i \in Index : /\ Fresh(f, mem, n, e).state[i] = "PREPARED"
                          /\ Fresh(f, mem, n, e).slot[i] = IF i < n THEN hs[f].requests + 1 ELSE 0
<1>1. hs[f] \in Handles /\ MaxReq \in Nat /\ MaxFrame \in Nat
  BY PlanesTyped DEF TypeInv
<1>2. hs[f].requests + 1 \in Gens /\ hs[f].requests + 1 \in 0 .. MaxReq
  BY <1>1 DEF Handles, Gens
<1>3. /\ Base(f, mem, e) \in Handles
      /\ Base(f, mem, e).open = "open"
      /\ Base(f, mem, e).buffers = hs[f].buffers
      /\ Base(f, mem, e).ioctlsin = hs[f].ioctlsin
      /\ Base(f, mem, e).slot = hs[f].slot
      /\ Base(f, mem, e).numbuffers = hs[f].numbuffers
      /\ Base(f, mem, e).state = hs[f].state
      /\ Base(f, mem, e).requests = hs[f].requests + 1
  BY <1>1, <1>2 DEF Base, Handles
<1> DEFINE b == Base(f, mem, e)
           g == hs[f].requests + 1
           st == [i \in Index |-> "PREPARED"]
           bm == [i \in Index |-> FALSE]
           sl == [i \in Index |-> IF i < n THEN g ELSE 0]
<1>4. st \in [Index -> BufStates] /\ bm \in [Index -> BOOLEAN] /\ sl \in [Index -> {0} \cup Gens]
  BY <1>2 DEF BufStates
<1>5. n \in 0 .. MaxFrame
  BY <1>1
<1> HIDE DEF b, g, st, bm, sl
<1>6. Fresh(f, mem, n, e) = [b EXCEPT !.buffers = g, !.numbuffers = n, !.state = st,
                                      !.bmapped = bm, !.slot = sl]
  BY DEF Fresh, b, g, st, bm, sl
<1>7. b \in Handles /\ g \in Gens /\ b.open = "open" /\ b.requests = g /\ b.ioctlsin = hs[f].ioctlsin
  BY <1>2, <1>3 DEF b, g
<1>8. /\ Fresh(f, mem, n, e) \in Handles
      /\ Fresh(f, mem, n, e).open = "open"
      /\ Fresh(f, mem, n, e).requests = g
      /\ Fresh(f, mem, n, e).buffers = g
      /\ Fresh(f, mem, n, e).ioctlsin = hs[f].ioctlsin
      /\ Fresh(f, mem, n, e).numbuffers = n
      /\ Fresh(f, mem, n, e).state = st /\ Fresh(f, mem, n, e).slot = sl
  BY <1>4, <1>5, <1>6, <1>7 DEF Handles
<1>9. QED BY <1>2, <1>3, <1>8 DEF st, sl, g

(* What REQBUFS gives up is the file's, and nothing of its core. *)
LEMMA GoneKind ==
ASSUME NEW f, NEW mem, NEW o \in Gone(f, mem)
PROVE  o[1] = f /\ o[2] \in {"buffers", "buf", "bufirp", "memory", "message", "dma"}
BY DiscardedKind, BufferArrayKind DEF Gone

(* What it makes is the file's. *)
LEMMA MadeKind ==
ASSUME NEW f, NEW mem, NEW n, NEW e,
       NEW o \in NewArr(f) \cup News(f, mem, n, e) \cup Structs(f, n) \cup NewIos(f) \cup Ins(f, n)
PROVE  o[1] = f
BY NewPartsKind DEF NewArr, News, Structs, NewIos, Ins, Obj

(* A handle that lost old buffers, got an array and the given structures. *)
LEMMA ReqPoints ==
ASSUME TypeInv, NEW f \in Files, NEW mem \in Memories, NEW n \in 1 .. MaxFrame, NEW e, NEW Made,
       Points(f, hs[f], heap), hs[f].requests < MaxReq, hs[f].open = "open",
       heap' = (heap \ Gone(f, mem)) \cup Made,
       \A o \in Made : o[1] = f,
       hs' = [hs EXCEPT ![f] = hs'[f]]
PROVE  Own(f) /\ HandleParts(f, Core) \subseteq heap'
       /\ (hs[f].ioctlsin # 0 => Obj(f, "ioctlsin", hs[f].ioctlsin, 0, 0) \in heap')
<1>1. Own(f)
  BY GoneKind DEF Own
<1>2. HandleParts(f, Core) \subseteq heap'
  BY GoneKind, HandlePartsKind DEF Points, Core
<1>3. \A g : Obj(f, "ioctlsin", g, 0, 0) \notin Gone(f, mem)
  BY GoneKind DEF Obj
<1>4. QED BY <1>1, <1>2, <1>3 DEF Points

(* No outcome of REQBUFS leaves a pointer to what it gave up. *)
LEMMA ReqbufsStep ==
ASSUME TypeInv, PointInv, NEW f \in Files, NEW mem \in Memories, NEW n \in 1 .. MaxFrame,
       Reqbufs(f, mem, n)
PROVE  Sound(f)
<1>1. hs[f] \in Handles /\ Points(f, hs[f], heap) /\ hs \in [Files -> Handles]
  BY DEF TypeInv, PointInv
<1>2. hs[f].requests < MaxReq /\ hs[f].open = "open" /\ hs[f].streaming # "ON"
  BY DEF Reqbufs, MayRequest, IsStreaming
<1>3. PICK e : \/ ReqRejected(f, mem, e)
               \/ ReqNoBuffers(f, mem, n, e)
               \/ ReqNoStructures(f, mem, n, e)
               \/ ReqFewStructures(f, mem, n, e)
               \/ ReqDone(f, mem, n, e)
  BY ReqOutcomes
<1> DEFINE b == Base(f, mem, e)
           r == Fresh(f, mem, n, e)
           g == hs[f].requests + 1
<1>4. /\ b \in Handles /\ r \in Handles /\ g \in Gens
      /\ b.open = "open" /\ r.open = "open"
      /\ b.buffers = hs[f].buffers /\ b.ioctlsin = hs[f].ioctlsin /\ b.slot = hs[f].slot
      /\ b.numbuffers = hs[f].numbuffers /\ b.state = hs[f].state /\ b.requests = g
      /\ r.requests = g /\ r.buffers = g /\ r.ioctlsin = hs[f].ioctlsin /\ r.numbuffers = n
      /\ \A i \in Index : r.state[i] = "PREPARED" /\ r.slot[i] = IF i < n THEN g ELSE 0
  BY <1>2, ReqHandle
<1>5. /\ NoSlots \in [Index -> {0} \cup Gens] /\ 0 \in 0 .. MaxFrame
      /\ \A i \in Index : NoSlots[i] = 0
  BY PlanesTyped DEF NoSlots
<1>6. g \in Nat \ {0} /\ hs[f].requests \in Nat /\ hs[f].ioctlsin <= g /\ 0 <= g /\ g <= g
  BY <1>1, <1>4, PlanesTyped DEF Points, Handles, Gens
<1> HIDE DEF b, r, g
<1>7. ASSUME ReqRejected(f, mem, e) PROVE Sound(f)
  <2> DEFINE lost == mem = "MMAP" /\ hs[f].buffers # 0
             w == IF lost THEN [b EXCEPT !.numbuffers = 0, !.slot = NoSlots] ELSE b
  <2>1. hs' = [hs EXCEPT ![f] = w]
    BY <1>7 DEF ReqRejected, b
  <2>2. hs'[f] = w /\ hs' = [hs EXCEPT ![f] = hs'[f]]
    BY <1>1, <2>1
  <2>3. heap' = heap \ (IF lost THEN Discarded(f, mem) ELSE {})
    BY <1>7 DEF ReqRejected, Discarded
  <2>4. /\ w \in Handles /\ w.open = "open" /\ w.buffers = hs[f].buffers
        /\ w.ioctlsin = hs[f].ioctlsin /\ w.state = hs[f].state /\ w.requests = g
        /\ ~lost => w.slot = hs[f].slot /\ w.numbuffers = hs[f].numbuffers
        /\ lost => \A i \in Index : w.slot[i] = 0
    BY <1>4, <1>5 DEF Handles
  <2> HIDE DEF lost, w
  <2>5. Own(f)
    BY <2>2, <2>3, DiscardedKind DEF Own
  <2>6. HandleParts(f, Core) \subseteq heap'
    BY <1>1, <1>2, <2>3, DiscardedKind, HandlePartsKind DEF Points, Core
  <2>7. \A k : Obj(f, "ioctlsin", k, 0, 0) \notin Discarded(f, mem) /\
               Obj(f, "buffers", k, 0, 0) \notin Discarded(f, mem)
    BY DiscardedKind DEF Obj
  <2>8. Points(f, hs'[f], heap')
    BY <1>1, <1>6, <2>2, <2>3, <2>4, <2>6, <2>7 DEF Points
  <2>10. QED BY <2>2, <2>4, <2>5, <2>8 DEF Sound
<1>8. ASSUME ReqNoBuffers(f, mem, n, e) PROVE Sound(f)
  <2> DEFINE Made == NewArr(f) \cup News(f, mem, n, e)
  <2>1. heap' = (heap \ Gone(f, mem)) \cup Made
    BY <1>8 DEF ReqNoBuffers
  <2>2. \A o \in Made : o[1] = f
    BY MadeKind
  <2>3. hs'[f] = [r EXCEPT !.numbuffers = 0, !.slot = NoSlots] /\ hs' = [hs EXCEPT ![f] = hs'[f]]
    BY <1>1, <1>8 DEF ReqNoBuffers, r, g
  <2> HIDE DEF Made
  <2>4. /\ Own(f) /\ HandleParts(f, Core) \subseteq heap'
        /\ (hs[f].ioctlsin # 0 => Obj(f, "ioctlsin", hs[f].ioctlsin, 0, 0) \in heap')
    BY <1>1, <1>2, <2>1, <2>2, <2>3, ReqPoints
  <2>5. /\ Obj(f, "buffers", g, 0, 0) \in heap'
    BY <2>1 DEF g, Made, NewArr
  <2>6. /\ hs'[f] \in Handles /\ hs'[f].open = "open" /\ hs'[f].requests = g
        /\ hs'[f].buffers = g /\ hs'[f].ioctlsin = hs[f].ioctlsin
        /\ \A i \in Index : hs'[f].slot[i] = 0
    <3>1. hs'[f].slot = NoSlots
      BY <1>4, <2>3 DEF Handles
    <3>2. hs'[f] \in Handles
      BY <1>4, <1>5, <2>3 DEF Handles
    <3>3. QED BY <1>4, <1>5, <2>3, <3>1, <3>2 DEF Handles
  <2>7. Points(f, hs'[f], heap')
    BY <1>1, <1>4, <1>6, <2>4, <2>5, <2>6 DEF Points, Index
  <2>9. QED BY <2>4, <2>6, <2>7 DEF Sound
<1>9. ASSUME ReqNoStructures(f, mem, n, e) PROVE Sound(f)
  <2> DEFINE Made == NewArr(f) \cup News(f, mem, n, e) \cup Structs(f, n)
  <2>1. heap' = (heap \ Gone(f, mem)) \cup Made
    BY <1>9 DEF ReqNoStructures
  <2>2. \A o \in Made : o[1] = f
    BY MadeKind
  <2>3. hs'[f] = [r EXCEPT !.ioctlsin = 0] /\ hs' = [hs EXCEPT ![f] = hs'[f]]
    BY <1>1, <1>9 DEF ReqNoStructures, r, g
  <2> HIDE DEF Made
  <2>4. /\ Own(f) /\ HandleParts(f, Core) \subseteq heap'
        /\ (hs[f].ioctlsin # 0 => Obj(f, "ioctlsin", hs[f].ioctlsin, 0, 0) \in heap')
    BY <1>1, <1>2, <2>1, <2>2, <2>3, ReqPoints
  <2>5. /\ Obj(f, "buffers", g, 0, 0) \in heap'
        /\ \A i \in 0 .. n - 1 : Obj(f, "buf", g, i, 0) \in heap'
    BY <2>1 DEF g, Made, NewArr, Structs
  <2>6. /\ hs'[f] \in Handles /\ hs'[f].open = "open" /\ hs'[f].requests = g
        /\ hs'[f].buffers = g /\ hs'[f].ioctlsin = 0
        /\ hs'[f].numbuffers = n /\ hs'[f].slot = r.slot /\ hs'[f].state = r.state
    BY <1>4, <1>5, <2>3 DEF Handles
  <2>7. Points(f, hs'[f], heap')
    BY <1>1, <1>4, <1>6, <2>4, <2>5, <2>6 DEF Points, Index
  <2>9. QED BY <2>4, <2>6, <2>7 DEF Sound
<1>10. ASSUME ReqFewStructures(f, mem, n, e) PROVE Sound(f)
  <2> DEFINE Made == NewArr(f) \cup News(f, mem, n, e) \cup Structs(f, n) \cup NewIos(f)
  <2>1. heap' = (heap \ Gone(f, mem)) \cup Made
    BY <1>10 DEF ReqFewStructures
  <2>2. \A o \in Made : o[1] = f
    BY MadeKind
  <2>3. hs'[f] = [r EXCEPT !.ioctlsin = g] /\ hs' = [hs EXCEPT ![f] = hs'[f]]
    BY <1>1, <1>10 DEF ReqFewStructures, r, g
  <2> HIDE DEF Made
  <2>4. /\ Own(f) /\ HandleParts(f, Core) \subseteq heap'
        /\ (hs[f].ioctlsin # 0 => Obj(f, "ioctlsin", hs[f].ioctlsin, 0, 0) \in heap')
    BY <1>1, <1>2, <2>1, <2>2, <2>3, ReqPoints
  <2>5. /\ Obj(f, "buffers", g, 0, 0) \in heap'
        /\ \A i \in 0 .. n - 1 : Obj(f, "buf", g, i, 0) \in heap'
        /\ Obj(f, "ioctlsin", g, 0, 0) \in heap'
    BY <2>1 DEF g, Made, NewArr, Structs, NewIos
  <2>6. /\ hs'[f] \in Handles /\ hs'[f].open = "open" /\ hs'[f].requests = g
        /\ hs'[f].buffers = g /\ hs'[f].ioctlsin = g
        /\ hs'[f].numbuffers = n /\ hs'[f].slot = r.slot /\ hs'[f].state = r.state
    BY <1>4, <1>5, <2>3 DEF Handles
  <2>7. Points(f, hs'[f], heap')
    BY <1>1, <1>4, <1>6, <2>4, <2>5, <2>6 DEF Points, Index
  <2>9. QED BY <2>4, <2>6, <2>7 DEF Sound
<1>11. ASSUME ReqDone(f, mem, n, e) PROVE Sound(f)
  <2> DEFINE Made == NewArr(f) \cup News(f, mem, n, e) \cup Structs(f, n) \cup NewIos(f) \cup Ins(f, n)
  <2>1. heap' = (heap \ Gone(f, mem)) \cup Made
    BY <1>11 DEF ReqDone
  <2>2. \A o \in Made : o[1] = f
    BY MadeKind
  <2>3. hs'[f] = [r EXCEPT
                  !.ioctlsin = g, !.memorytype = mem,
                  !.mmapped = (hs[f].mmapped /\ ~(mem = "MMAP" /\ hs[f].buffers # 0)) \/ mem = "USERPTR"] /\ hs' = [hs EXCEPT ![f] = hs'[f]]
    BY <1>1, <1>11 DEF ReqDone, r, g
  <2> HIDE DEF Made
  <2>4. /\ Own(f) /\ HandleParts(f, Core) \subseteq heap'
        /\ (hs[f].ioctlsin # 0 => Obj(f, "ioctlsin", hs[f].ioctlsin, 0, 0) \in heap')
    BY <1>1, <1>2, <2>1, <2>2, <2>3, ReqPoints
  <2>5. /\ Obj(f, "buffers", g, 0, 0) \in heap'
        /\ \A i \in 0 .. n - 1 : Obj(f, "buf", g, i, 0) \in heap'
        /\ Obj(f, "ioctlsin", g, 0, 0) \in heap'
    BY <2>1 DEF g, Made, NewArr, Structs, NewIos
  <2>6. /\ hs'[f] \in Handles /\ hs'[f].open = "open" /\ hs'[f].requests = g
        /\ hs'[f].buffers = g /\ hs'[f].ioctlsin = g
        /\ hs'[f].numbuffers = n /\ hs'[f].slot = r.slot /\ hs'[f].state = r.state
    <3> DEFINE m == (hs[f].mmapped /\ ~(mem = "MMAP" /\ hs[f].buffers # 0)) \/ mem = "USERPTR"
    <3>1. m \in BOOLEAN /\ mem \in Memories
      OBVIOUS
    <3> HIDE DEF m
    <3>2. hs'[f] = [r EXCEPT !.ioctlsin = g, !.memorytype = mem, !.mmapped = m]
      BY <2>3 DEF m
    <3>3. g \in {0} \cup Gens /\ mem \in Memories \cup {"none"}
      BY <1>4, <3>1
    <3>4. [r EXCEPT !.ioctlsin = g, !.memorytype = mem, !.mmapped = m] \in Handles
      BY <1>4, <3>1, <3>3 DEF Handles
    <3>5. QED BY <1>4, <3>2, <3>4 DEF Handles
  <2>7. Points(f, hs'[f], heap')
    BY <1>1, <1>4, <1>6, <2>4, <2>5, <2>6 DEF Points, Index
  <2>9. QED BY <2>4, <2>6, <2>7 DEF Sound
<1>12. QED BY <1>3, <1>7, <1>8, <1>9, <1>10, <1>11

-------------------------------------------------------------------------------
(* Streaming, reading and mapping *)

(* Pointers that do not change, into a heap that keeps what they point to. *)
LEMMA PointsKept ==
ASSUME NEW f, NEW r, NEW w, NEW H, NEW H2, Points(f, r, H),
       \A o \in H : o[2] \in Core \cup {"buf", "buffers", "ioctlsin"} => o \in H2,
       w.buffers = r.buffers, w.slot = r.slot, w.numbuffers = r.numbuffers,
       w.ioctlsin = r.ioctlsin, w.requests = r.requests, w.open = r.open
PROVE  Points(f, w, H2)
<1>1. r.open \in {"open", "bare"} => HandleParts(f, Core) \subseteq H2
  BY HandlePartsKind DEF Points
<1>2. QED BY <1>1 DEF Points, Obj

(* A call that only adds to the heap, or gives lists of planes back. *)
LEMMA OwnHeap ==
ASSUME TypeInv, NEW f \in Files, NEW w, hs' = [hs EXCEPT ![f] = w],
       \A o \in heap' : o[1] # f => o \in heap,
       \A o \in heap : o \in heap' \/ (o[1] = f /\ o[2] = "dma")
PROVE  Own(f) /\ hs'[f] = w
<1>1. hs'[f] = w
  BY DEF TypeInv
<1>2. QED BY <1>1 DEF Own

(* Started states are states; a buffer becomes active only there. *)
LEMMA StartedTyped ==
ASSUME NEW f, NEW st \in [Index -> BufStates]
PROVE  Started(f, st) \in [Index -> BufStates]
BY DEF Started, BufStates

(* The parts a user pointer gets and gives back. *)
LEMMA UserptrKind ==
ASSUME NEW f
PROVE  /\ \A g, i, n : \A o \in UserptrSetup(f, g, i, n) : o[1] = f
       /\ \A g, i, n : \A o \in DmaParts(f, g, i, n) : o[1] = f /\ o[2] = "dma" /\ o[4] = i
       /\ \A o \in NoSignalPicture(f) : o[1] = f
BY DEF UserptrSetup, DmaParts, NoSignalPicture, Obj

(* VIDIOC_QBUF leaves the pointers of the handle as they are. *)
LEMMA QbufStep ==
ASSUME TypeInv, PointInv, NEW f \in Files, NEW i \in Index, Qbuf(f, i)
PROVE  Sound(f)
<1>1. hs[f] \in Handles /\ Points(f, hs[f], heap) /\ hs \in [Files -> Handles]
  BY DEF TypeInv, PointInv
<1> DEFINE st == [hs[f].state EXCEPT ![i] = "QUEUED"]
           on == hs[f].streaming = "ON"
           next == IF on THEN Started(f, st) ELSE st
<1>2. st \in [Index -> BufStates] /\ next \in [Index -> BufStates]
  <2>1. st \in [Index -> BufStates]
    BY <1>1 DEF Handles, BufStates
  <2>2. QED BY <2>1, StartedTyped
<1>3. PICK w \in {[hs[f] EXCEPT !.state = next], [hs[f] EXCEPT !.messy = TRUE]} :
        hs' = [hs EXCEPT ![f] = w]
  BY <1>1 DEF Qbuf
<1>4. \A o \in heap' : o[1] # f => o \in heap
  BY UserptrKind DEF Qbuf
<1>5. heap \subseteq heap'
  BY DEF Qbuf
<1>6. Own(f) /\ hs'[f] = w
  BY <1>3, <1>4, <1>5, OwnHeap
<1> HIDE DEF st, on, next
<1>8. /\ w \in Handles
      /\ w.buffers = hs[f].buffers /\ w.slot = hs[f].slot /\ w.numbuffers = hs[f].numbuffers
      /\ w.ioctlsin = hs[f].ioctlsin /\ w.requests = hs[f].requests /\ w.open = hs[f].open
      /\ w.state \in {next, hs[f].state} /\ w.streaming = hs[f].streaming
  BY <1>1, <1>2 DEF Handles
<1>9. Points(f, w, heap')
  BY <1>1, <1>5, <1>8, PointsKept
<1>11. QED BY <1>6, <1>8, <1>9 DEF Sound

(* STREAMON starts what is queued. *)
LEMMA StreamonStep ==
ASSUME TypeInv, PointInv, NEW f \in Files, Streamon(f)
PROVE  Sound(f)
<1>1. hs[f] \in Handles /\ Points(f, hs[f], heap) /\ hs \in [Files -> Handles]
  BY DEF TypeInv, PointInv
<1> DEFINE w == [hs[f] EXCEPT !.streaming = "ON", !.state = Started(f, hs[f].state)]
<1>2. hs' = [hs EXCEPT ![f] = w]
  BY <1>1 DEF Streamon, Handles
<1>3. \A o \in heap' : o[1] # f => o \in heap
  BY UserptrKind DEF Streamon
<1>4. \A o \in heap : o \in heap' \/ (o[1] = f /\ o[2] = "dma")
  BY UserptrKind DEF Streamon
<1>5. /\ w \in Handles
      /\ w.buffers = hs[f].buffers /\ w.slot = hs[f].slot /\ w.numbuffers = hs[f].numbuffers
      /\ w.ioctlsin = hs[f].ioctlsin /\ w.requests = hs[f].requests /\ w.open = hs[f].open
  BY <1>1, StartedTyped DEF Handles, Streams
<1> HIDE DEF w
<1>7. Own(f) /\ hs'[f] = w
  BY <1>2, <1>3, <1>4, OwnHeap
<1>8. Points(f, w, heap')
  BY <1>1, <1>4, <1>5, PointsKept DEF Core
<1>9. QED BY <1>5, <1>7, <1>8 DEF Sound

(* STREAMOFF waits for the active buffers. *)
LEMMA StreamoffStep ==
ASSUME TypeInv, PointInv, NEW f \in Files, Streamoff(f)
PROVE  Sound(f)
<1>1. hs[f] \in Handles /\ Points(f, hs[f], heap) /\ hs \in [Files -> Handles]
  BY DEF TypeInv, PointInv
<1> DEFINE w == [hs[f] EXCEPT !.streaming = "OFF"]
<1>2. hs' = [hs EXCEPT ![f] = w]
  BY <1>1 DEF Streamoff, Handles
<1>3. \A o \in heap' : o[1] # f => o \in heap
  BY UserptrKind DEF Streamoff
<1>4. \A o \in heap : o \in heap' \/ (o[1] = f /\ o[2] = "dma")
  BY UserptrKind DEF Streamoff
<1>5. /\ w \in Handles
      /\ w.buffers = hs[f].buffers /\ w.slot = hs[f].slot /\ w.numbuffers = hs[f].numbuffers
      /\ w.ioctlsin = hs[f].ioctlsin /\ w.requests = hs[f].requests /\ w.open = hs[f].open
  BY <1>1, StartedTyped DEF Handles, Streams
<1> HIDE DEF w
<1>7. Own(f) /\ hs'[f] = w
  BY <1>2, <1>3, <1>4, OwnHeap
<1>8. Points(f, w, heap')
  BY <1>1, <1>4, <1>5, PointsKept DEF Core
<1>9. QED BY <1>5, <1>7, <1>8 DEF Sound

(* The card is done with a buffer. *)
LEMMA CompleteActiveDMABufferStep ==
ASSUME TypeInv, PointInv, NEW f \in Files, NEW g \in Gens, NEW i \in Index,
       CompleteActiveDMABuffer(f, g, i)
PROVE  Sound(f)
<1>1. hs[f] \in Handles /\ Points(f, hs[f], heap) /\ hs \in [Files -> Handles]
  BY DEF TypeInv, PointInv
<1> DEFINE d == [hs[f] EXCEPT !.state = [hs[f].state EXCEPT ![i] = "DONE"]]
<1>2. PICK w \in {hs[f], d} : hs' = [hs EXCEPT ![f] = w]
  BY <1>1 DEF CompleteActiveDMABuffer, Handles
<1>3. heap' = heap
  BY DEF CompleteActiveDMABuffer
<1>4. /\ d \in Handles
      /\ d.buffers = hs[f].buffers /\ d.slot = hs[f].slot /\ d.numbuffers = hs[f].numbuffers
      /\ d.ioctlsin = hs[f].ioctlsin /\ d.requests = hs[f].requests /\ d.open = hs[f].open
  BY <1>1 DEF Handles, BufStates
<1> HIDE DEF d
<1>5. Own(f) /\ hs'[f] = w
  BY <1>2, <1>3, OwnHeap
<1>6. Points(f, w, heap') /\ w \in Handles
  BY <1>1, <1>3, <1>4, PointsKept DEF Core
<1>7. QED BY <1>5, <1>6 DEF Sound

(* DQBUF gives the lists of a user pointer back. *)
LEMMA DqbufStep ==
ASSUME TypeInv, PointInv, NEW f \in Files, NEW i \in Index, Dqbuf(f, i)
PROVE  Sound(f)
<1>1. hs[f] \in Handles /\ Points(f, hs[f], heap) /\ hs \in [Files -> Handles]
  BY DEF TypeInv, PointInv
<1> DEFINE w == [hs[f] EXCEPT !.state = [hs[f].state EXCEPT ![i] = "IDLE"]]
<1>2. hs' = [hs EXCEPT ![f] = w]
  BY <1>1 DEF Dqbuf, Handles
<1>3. \A o \in heap' : o[1] # f => o \in heap
  BY UserptrKind DEF Dqbuf, UserptrFree
<1>4. \A o \in heap : o \in heap' \/ (o[1] = f /\ o[2] = "dma")
  BY UserptrKind DEF Dqbuf, UserptrFree
<1>5. /\ w \in Handles
      /\ w.buffers = hs[f].buffers /\ w.slot = hs[f].slot /\ w.numbuffers = hs[f].numbuffers
      /\ w.ioctlsin = hs[f].ioctlsin /\ w.requests = hs[f].requests /\ w.open = hs[f].open
  BY <1>1, StartedTyped DEF Handles, BufStates
<1> HIDE DEF w
<1>7. Own(f) /\ hs'[f] = w
  BY <1>2, <1>3, <1>4, OwnHeap
<1>8. Points(f, w, heap')
  BY <1>1, <1>4, <1>5, PointsKept DEF Core
<1>9. QED BY <1>5, <1>7, <1>8 DEF Sound

(* S_FMT changes no pointer. *)
LEMMA SetFormatStep ==
ASSUME TypeInv, PointInv, NEW f \in Files, NEW n \in Planes, SetFormat(f, n)
PROVE  Sound(f)
<1>1. hs[f] \in Handles /\ Points(f, hs[f], heap) /\ hs \in [Files -> Handles]
  BY DEF TypeInv, PointInv
<1> DEFINE w == [hs[f] EXCEPT !.planes = n, !.messy = hs[f].messy \/ hs[f].slot # NoSlots]
<1>2. hs' = [hs EXCEPT ![f] = w]
  BY <1>1 DEF SetFormat, Handles
<1>3. \A o \in heap' : o[1] # f => o \in heap
  BY UserptrKind DEF SetFormat
<1>4. \A o \in heap : o \in heap' \/ (o[1] = f /\ o[2] = "dma")
  BY UserptrKind DEF SetFormat
<1>5. /\ w \in Handles
      /\ w.buffers = hs[f].buffers /\ w.slot = hs[f].slot /\ w.numbuffers = hs[f].numbuffers
      /\ w.ioctlsin = hs[f].ioctlsin /\ w.requests = hs[f].requests /\ w.open = hs[f].open
  BY <1>1, StartedTyped DEF Handles
<1> HIDE DEF w
<1>7. Own(f) /\ hs'[f] = w
  BY <1>2, <1>3, <1>4, OwnHeap
<1>8. Points(f, w, heap')
  BY <1>1, <1>4, <1>5, PointsKept DEF Core
<1>9. QED BY <1>5, <1>7, <1>8 DEF Sound

(* read() changes no pointer. *)
LEMMA ReadStep ==
ASSUME TypeInv, PointInv, NEW f \in Files, Read(f)
PROVE  Sound(f)
<1>1. hs[f] \in Handles /\ Points(f, hs[f], heap) /\ hs \in [Files -> Handles]
  BY DEF TypeInv, PointInv
<1> DEFINE w == hs[f]
<1>2. hs' = [hs EXCEPT ![f] = w]
  BY <1>1 DEF Read, Handles
<1>3. \A o \in heap' : o[1] # f => o \in heap
  BY UserptrKind DEF Read
<1>4. \A o \in heap : o \in heap' \/ (o[1] = f /\ o[2] = "dma")
  BY UserptrKind DEF Read
<1>5. /\ w \in Handles
      /\ w.buffers = hs[f].buffers /\ w.slot = hs[f].slot /\ w.numbuffers = hs[f].numbuffers
      /\ w.ioctlsin = hs[f].ioctlsin /\ w.requests = hs[f].requests /\ w.open = hs[f].open
  BY <1>1, StartedTyped DEF Handles
<1> HIDE DEF w
<1>7. Own(f) /\ hs'[f] = w
  BY <1>2, <1>3, <1>4, OwnHeap
<1>8. Points(f, w, heap')
  BY <1>1, <1>4, <1>5, PointsKept DEF Core
<1>9. QED BY <1>5, <1>7, <1>8 DEF Sound

(* mmap() adds the private data of the area. *)
LEMMA MmapStep ==
ASSUME TypeInv, PointInv, NEW f \in Files, NEW k \in 1 .. MaxMaps, NEW i \in Index, Mmap(f, k, i)
PROVE  Sound(f)
<1>1. hs[f] \in Handles /\ Points(f, hs[f], heap) /\ hs \in [Files -> Handles]
  BY DEF TypeInv, PointInv
<1> DEFINE w == [hs[f] EXCEPT !.mmapped = TRUE, !.bmapped = [hs[f].bmapped EXCEPT ![i] = @ \/ hs[f].slot[i] # 0]]
<1>2. hs' = [hs EXCEPT ![f] = w]
  BY <1>1 DEF Mmap, Handles
<1>3. \A o \in heap' : o[1] # f => o \in heap
  BY UserptrKind DEF Mmap, Obj
<1>4. \A o \in heap : o \in heap' \/ (o[1] = f /\ o[2] = "dma")
  BY UserptrKind DEF Mmap, Obj
<1>5. /\ w \in Handles
      /\ w.buffers = hs[f].buffers /\ w.slot = hs[f].slot /\ w.numbuffers = hs[f].numbuffers
      /\ w.ioctlsin = hs[f].ioctlsin /\ w.requests = hs[f].requests /\ w.open = hs[f].open
  BY <1>1, StartedTyped DEF Handles
<1> HIDE DEF w
<1>7. Own(f) /\ hs'[f] = w
  BY <1>2, <1>3, <1>4, OwnHeap
<1>8. Points(f, w, heap')
  BY <1>1, <1>4, <1>5, PointsKept DEF Core
<1>9. QED BY <1>5, <1>7, <1>8 DEF Sound

-------------------------------------------------------------------------------
(* close *)

(* The handle that is left has no pointers, whichever way close() went. *)
LEMMA CloseStep ==
ASSUME TypeInv, PointInv, NEW f \in Files, Close(f) \/ CloseFails(f)
PROVE  Sound(f)
<1>1. hs[f] \in Handles /\ Points(f, hs[f], heap) /\ hs \in [Files -> Handles]
  BY DEF TypeInv, PointInv
<1>2. PICK m \in BOOLEAN : hs' = [hs EXCEPT ![f] = [Closed(f) EXCEPT !.messy = m]]
  BY <1>1 DEF Close, CloseFails, Handles
<1> DEFINE w == [Closed(f) EXCEPT !.messy = m]
<1>3. /\ w \in Handles /\ w.open = "closed" /\ w.buffers = 0 /\ w.slot = NoSlots
      /\ w.ioctlsin = 0 /\ w.requests = hs[f].requests
  BY <1>1, NewHandleIs DEF Closed, Handles
<1> HIDE DEF w
<1>4. hs'[f] = w /\ hs' = [hs EXCEPT ![f] = hs'[f]]
  BY <1>1, <1>2 DEF w
<1>5. \A o \in CloseBuffers(f) \cup IoctlsIn(f) \cup BufferArray(f) \cup
        HandleParts(f, {"h", "pSem", "pSpinlock", "irp", "messages", "nosignal"}) :
        o[1] = f /\ o[2] # "pd"
  BY AllBufferPartsKind, IoctlsInKind, BufferArrayKind, HandlePartsKind DEF CloseBuffers
<1>6. \A o \in HandleParts(f, {"irp"}) : o[1] = f /\ o[2] # "pd"
  BY HandlePartsKind
<1>7. Own(f)
  BY <1>4, <1>5, <1>6 DEF Own, Close, CloseFails
<1>8. Points(f, w, heap')
  <2>1. 0 <= hs[f].requests
    BY <1>1, PlanesTyped DEF Handles
  <2>2. QED BY <1>3, <2>1 DEF Points, NoSlots
<1>9. QED BY <1>3, <1>4, <1>7, <1>8 DEF Sound

-------------------------------------------------------------------------------
(* The invariant *)

(* The calls of a file. *)
Calls(f) ==
  \/ OpenFails(f) \/ OpenWithoutCapture(f) \/ Open(f)
  \/ StopDmaStreamingAndFreeBuffers(f)
  \/ \E mem \in Memories, n \in 1 .. MaxFrame : Reqbufs(f, mem, n)
  \/ Streamon(f) \/ Streamoff(f) \/ Read(f)
  \/ \E n \in Planes : SetFormat(f, n)
  \/ \E i \in Index : Qbuf(f, i) \/ Dqbuf(f, i)
  \/ \E g \in Gens, i \in Index : CompleteActiveDMABuffer(f, g, i)
  \/ \E k \in 1 .. MaxMaps, i \in Index : Mmap(f, k, i)
  \/ Close(f) \/ CloseFails(f)

(* Every call leaves its handle sound. *)
LEMMA CallsSound ==
ASSUME TypeInv, PointInv, NEW f \in Files, Calls(f)
PROVE  Sound(f)
BY OpenFailsStep, OpenStep, StopStep, ReqbufsStep, StreamonStep, StreamoffStep, ReadStep,
   SetFormatStep, QbufStep, CompleteActiveDMABufferStep, DqbufStep, MmapStep, CloseStep DEF Calls

(* A step is a call of a file, a new area or one that goes. *)
LEMMA NextIs ==
ASSUME Next
PROVE  (\E f \in Files : Calls(f)) \/ (\E k \in 1 .. MaxMaps : Fork(k) \/ Unmap(k))
BY DEF Next, Calls

(* Areas of other calls than mmap. *)
LEMMA CallsMaps ==
ASSUME NEW f \in Files, Calls(f)
PROVE  UNCHANGED maps \/ \E k \in 1 .. MaxMaps, i \in Index : Mmap(f, k, i)
BY DEF Calls, OpenFails, OpenWithoutCapture, Open, StopDmaStreamingAndFreeBuffers, Reqbufs, Streamon,
       Streamoff, Read, SetFormat, Qbuf, CompleteActiveDMABuffer, Dqbuf, Close, CloseFails

(* A sound handle among others that keep what they have. *)
LEMMA OthersPoint ==
ASSUME TypeInv, PointInv, NEW f \in Files, Sound(f)
PROVE  TypeInv' /\ PointInv'
<1>1. hs' = [hs EXCEPT ![f] = hs'[f]] /\ hs \in [Files -> Handles] /\ hs'[f] \in Handles
  BY DEF Sound, Own, TypeInv
<1>2. TypeInv'
  BY <1>1 DEF TypeInv
<1>3. ASSUME NEW g \in Files PROVE Points(g, hs'[g], heap')
  <2>1. CASE g = f
    BY <2>1 DEF Sound
  <2>2. CASE g # f
    <3>1. hs'[g] = hs[g] /\ Points(g, hs[g], heap)
      BY <1>1, <2>2 DEF PointInv
    <3>2. \A o \in heap : o[1] = g => o \in heap'
      BY <2>2 DEF Sound, Own
    <3>3. Points(g, hs[g], heap')
      BY <3>1, <3>2 DEF Points, HandleParts, Obj
    <3>4. QED BY <3>1, <3>3
  <2>3. QED BY <2>1, <2>2
<1>4. QED BY <1>2, <1>3 DEF PointInv, Points

(* One area more. *)
LEMMA VmOpenCounts ==
ASSUME NEW m \in Areas, NEW k
PROVE  /\ VmOpen(k, m) \in Areas
       /\ VmOpen(k, m).f = m.f /\ VmOpen(k, m).g = m.g /\ VmOpen(k, m).areas = m.areas + 1
       /\ VmOpen(k, m).count = IF m.g = 0 THEN m.count ELSE m.count + 1
<1>1. m.areas + 1 \in Nat /\ m.count + 1 \in Nat
  BY DEF Areas
<1>2. QED BY <1>1 DEF VmOpen, Areas

(* One area less, counted or not. *)
LEMMA VmCloseCounts ==
ASSUME NEW m \in Areas, NEW k
PROVE  /\ m.areas > 0 /\ m.count > 0 =>
            LET l == [m EXCEPT !.areas = @ - 1, !.count = @ - 1]
            IN  /\ l \in Areas /\ l.f = m.f /\ l.g = m.g
                /\ l.areas = m.areas - 1 /\ l.count = m.count - 1
       /\ m.areas > 0 =>
            LET l == [m EXCEPT !.areas = @ - 1]
            IN  /\ l \in Areas /\ l.f = m.f /\ l.g = m.g
                /\ l.areas = m.areas - 1 /\ l.count = m.count
<1>1. m.areas \in Nat /\ m.count \in Nat
  BY DEF Areas
<1> DEFINE u(a, c) == [m EXCEPT !.areas = a, !.count = c]
<1>2. ASSUME NEW a \in Nat, NEW c \in Nat
      PROVE  u(a, c) \in Areas /\ u(a, c).f = m.f /\ u(a, c).g = m.g
             /\ u(a, c).areas = a /\ u(a, c).count = c
  BY DEF Areas
<1>3. [m EXCEPT !.areas = @ - 1, !.count = @ - 1] = u(m.areas - 1, m.count - 1)
  BY DEF Areas
<1>4. [m EXCEPT !.areas = @ - 1] = u(m.areas - 1, m.count)
  BY DEF Areas
<1> HIDE DEF u
<1>5. /\ m.areas > 0 => m.areas - 1 \in Nat
      /\ m.count > 0 => m.count - 1 \in Nat
  BY <1>1
<1>6. QED BY <1>1, <1>2, <1>3, <1>4, <1>5

(* The areas keep their private data, and the count is that of the areas. *)
LEMMA CallsCount ==
ASSUME TypeInv, MapInv, CountInv, NEW f \in Files, Calls(f), Sound(f)
PROVE  MapInv' /\ CountInv'
<1>1. \A o \in heap : o[2] = "pd" => o \in heap'
  BY DEF Sound, Own
<1>2. CASE UNCHANGED maps
  BY <1>1, <1>2 DEF MapInv, CountInv, Counted, Obj
<1>3. ASSUME NEW k \in 1 .. MaxMaps, NEW i \in Index, Mmap(f, k, i)
      PROVE  MapInv' /\ CountInv'
  <2> DEFINE m == VmOpen(k, MmapMapper(f, i))
  <2>1. maps' = [maps EXCEPT ![k] = m] /\ Obj(f, "pd", k, 0, 0) \in heap'
    BY <1>3 DEF Mmap
  <2>2. hs[f].slot[i] \in {0} \cup Gens
    <3>1. hs[f] \in Handles
      BY DEF TypeInv
    <3>2. QED BY <3>1 DEF Handles
  <2>3. MmapMapper(f, i) \in Areas /\ MmapMapper(f, i).areas = 0 /\ MmapMapper(f, i).count = 0
        /\ MmapMapper(f, i).f = f
    BY <2>2 DEF MmapMapper, Areas
  <2>4. Counted(m, k, heap')
    BY <2>1, <2>3, VmOpenCounts DEF Counted
  <2> HIDE DEF m
  <2>5. MapInv'
    BY <2>1 DEF MapInv
  <2>6. ASSUME NEW j \in 1 .. MaxMaps PROVE Counted(maps'[j], j, heap')
    BY <1>1, <2>1, <2>4 DEF MapInv, CountInv, Counted, Obj
  <2>7. QED BY <2>5, <2>6 DEF CountInv, Counted
<1>4. QED BY <1>2, <1>3, CallsMaps

(* fork and munmap change no handle, and of the heap only private data. *)
LEMMA AreasPoint ==
ASSUME TypeInv, PointInv, NEW k \in 1 .. MaxMaps, Fork(k) \/ Unmap(k)
PROVE  /\ hs' = hs /\ heap' \subseteq heap
       /\ \A o \in heap : o[2] # "pd" \/ o[3] # k => o \in heap'
       /\ TypeInv' /\ PointInv'
<1>1. hs' = hs /\ heap' \subseteq heap /\ \A o \in heap : o[2] # "pd" \/ o[3] # k => o \in heap'
  BY DEF Fork, Unmap, Obj
<1>2. TypeInv'
  BY <1>1 DEF TypeInv
<1>3. PointInv'
  <2>1. ASSUME NEW f \in Files PROVE Points(f, hs[f], heap')
    BY <1>1, PointsKept DEF PointInv, Core
  <2>2. QED BY <1>1, <2>1 DEF PointInv
<1>4. QED BY <1>1, <1>2, <1>3

(* They keep the count of the areas, unless a signal interrupts them. *)
LEMMA AreasCount ==
ASSUME Signals = FALSE, TypeInv, PointInv, MapInv, CountInv, NEW k \in 1 .. MaxMaps,
       Fork(k) \/ Unmap(k)
PROVE  /\ MapInv' /\ CountInv'
       /\ \E m : /\ maps' = [maps EXCEPT ![k] = m] /\ m.f = maps[k].f /\ m.g = maps[k].g
                 /\ m.areas > 0 \/ m.g = 0 \/ Obj(m.f, "pd", k, 0, 0) \notin heap'
<1>1. \A o \in heap : o[2] # "pd" \/ o[3] # k => o \in heap'
  BY AreasPoint
<1>2. Counted(maps[k], k, heap) /\ maps[k].areas > 0
  BY DEF CountInv, Fork, Unmap
<1>3. maps[k] \in Areas /\ maps[k].count = IF maps[k].g = 0 THEN 0 ELSE maps[k].areas
  BY <1>2 DEF Counted
<1>4. maps[k].count \in Nat /\ maps[k].areas \in Nat
  BY <1>3 DEF Areas
<1>5. PICK m : /\ maps' = [maps EXCEPT ![k] = m] /\ Counted(m, k, heap')
               /\ m.f = maps[k].f /\ m.g = maps[k].g
               /\ m.areas > 0 \/ m.g = 0 \/ Obj(m.f, "pd", k, 0, 0) \notin heap'
  <2>1. CASE Fork(k)
    <3>1. maps' = [maps EXCEPT ![k] = VmOpen(k, maps[k])] /\ heap' = heap
      BY <2>1 DEF Fork
    <3>2. Counted(VmOpen(k, maps[k]), k, heap')
      BY <1>2, <1>4, <3>1, VmOpenCounts DEF Counted
    <3>3. /\ VmOpen(k, maps[k]).f = maps[k].f /\ VmOpen(k, maps[k]).g = maps[k].g
          /\ VmOpen(k, maps[k]).areas > 0
      BY <1>3, <1>4, VmOpenCounts
    <3>4. QED BY <3>1, <3>2, <3>3
  <2>2. CASE Unmap(k) /\ maps[k].g # 0
    <3> DEFINE m == [maps[k] EXCEPT !.areas = @ - 1, !.count = @ - 1]
    <3>1. /\ maps' = [maps EXCEPT ![k] = m]
          /\ heap' = IF maps[k].count = 1 THEN heap \ {Obj(maps[k].f, "pd", k, 0, 0)} ELSE heap
      BY <1>2, <2>2 DEF Unmap
    <3>2. /\ m \in Areas /\ m.f = maps[k].f /\ m.g = maps[k].g /\ m.areas = maps[k].areas - 1
          /\ m.count = maps[k].count - 1
      BY <1>2, <1>3, <2>2, VmCloseCounts
    <3> HIDE DEF m
    <3>3. Counted(m, k, heap')
      BY <1>2, <1>3, <1>4, <2>2, <3>1, <3>2 DEF Counted
    <3>4. m.areas > 0 \/ Obj(m.f, "pd", k, 0, 0) \notin heap'
      BY <1>2, <1>3, <1>4, <2>2, <3>1, <3>2
    <3>5. QED BY <3>1, <3>2, <3>3, <3>4
  <2>3. CASE Unmap(k) /\ maps[k].g = 0
    <3> DEFINE m == [maps[k] EXCEPT !.areas = @ - 1]
    <3>1. maps' = [maps EXCEPT ![k] = m] /\ heap' = heap
      BY <2>3 DEF Unmap
    <3>2. /\ m \in Areas /\ m.f = maps[k].f /\ m.g = maps[k].g /\ m.areas = maps[k].areas - 1
          /\ m.count = maps[k].count
      BY <1>2, <1>3, VmCloseCounts
    <3> HIDE DEF m
    <3>3. Counted(m, k, heap')
      BY <1>2, <1>3, <1>4, <2>3, <3>1, <3>2 DEF Counted
    <3>4. QED BY <2>3, <3>1, <3>2, <3>3
  <2>4. QED BY <2>1, <2>2, <2>3
<1>6. MapInv'
  BY <1>5 DEF MapInv
<1>7. ASSUME NEW j \in 1 .. MaxMaps PROVE Counted(maps'[j], j, heap')
  BY <1>1, <1>5 DEF MapInv, CountInv, Counted, Obj
<1>8. QED BY <1>5, <1>6, <1>7 DEF CountInv, Counted

(* The pointers of every handle are good from the start, whatever fails and *)
(* whatever signals come.                                                   *)
THEOREM PointsAlways == Spec => [](TypeInv /\ PointInv)
<1>1. Init => TypeInv /\ PointInv
  <2>1. \A f \in Files : Points(f, NewHandle, {})
    BY NewHandleIs DEF Points, NoSlots
  <2>2. QED BY <2>1, NewHandleIs DEF Init, TypeInv, PointInv
<1>2. TypeInv /\ PointInv /\ [Next]_vars => (TypeInv /\ PointInv)'
  <2> SUFFICES ASSUME TypeInv, PointInv, [Next]_vars PROVE (TypeInv /\ PointInv)'
    OBVIOUS
  <2>1. CASE UNCHANGED vars
    BY <2>1 DEF vars, TypeInv, PointInv
  <2>2. CASE Next
    BY <2>2, NextIs, CallsSound, OthersPoint, AreasPoint
  <2>3. QED BY <2>1, <2>2
<1>3. QED BY <1>1, <1>2, PTL DEF Spec

(* Areas count their users, when no signal interrupts vm_open and vm_close. *)
THEOREM CountAlways == ASSUME Signals = FALSE PROVE Spec => [](MapInv /\ CountInv)
<1>1. Init => MapInv /\ CountInv
  <2>1. NoMap \in Areas
    BY PlanesTyped DEF NoMap, Areas, Index
  <2>2. \A k : Counted(NoMap, k, {})
    BY <2>1 DEF Counted, NoMap
  <2>3. QED BY <2>2 DEF Init, MapInv, CountInv
<1>2. TypeInv /\ PointInv /\ MapInv /\ CountInv /\ [Next]_vars => (MapInv /\ CountInv)'
  <2> SUFFICES ASSUME TypeInv, PointInv, MapInv, CountInv, [Next]_vars PROVE (MapInv /\ CountInv)'
    OBVIOUS
  <2>1. CASE UNCHANGED vars
    BY <2>1 DEF vars, MapInv, CountInv, Counted
  <2>2. CASE Next
    BY <2>2, NextIs, CallsSound, CallsCount, AreasCount
  <2>3. QED BY <2>1, <2>2
<1>3. QED BY <1>1, <1>2, PointsAlways, PTL DEF Spec

(* Every pointer a handle keeps, whichever calls failed, is NULL or points to *)
(* memory that is still allocated.                                            *)
THEOREM PointersGood == ASSUME Signals = FALSE PROVE Spec => []NoDanglingPointer
<1>1. TypeInv /\ PointInv /\ CountInv => NoDanglingPointer
  <2> SUFFICES ASSUME TypeInv, PointInv, CountInv PROVE NoDanglingPointer
    OBVIOUS
  <2>1. ASSUME NEW f \in Files, hs[f].slot # NoSlots PROVE \E i \in Index : hs[f].slot[i] # 0
    <3>1. hs[f].slot \in [Index -> {0} \cup Gens]
      BY DEF TypeInv, Handles
    <3>2. QED BY <2>1, <3>1 DEF NoSlots
  <2>2. QED BY <2>1 DEF PointInv, CountInv, Points, Counted, NoDanglingPointer, BufferArray, Core
<1>2. QED BY <1>1, PointsAlways, CountAlways, PTL

-------------------------------------------------------------------------------
(* What the card fills *)

CardTyped == card \in [Files -> [Gens \X Index -> Nat]]

(* Of a careful application's file the card has one request for each active *)
(* buffer, and none for others.  (A handle the core refused to close keeps  *)
(* all it has.)                                                             *)
CardOf(f) ==
  hs[f].open # "closed" =>
    \A g \in Gens, i \in Index :
      card[f][<<g, i>>] > 0 =>
        card[f][<<g, i>>] = 1 /\ hs[f].slot[i] = g /\ hs[f].state[i] = "ACTIVE"

CardInv == CardTyped /\ \A f \in Careful : CardOf(f)

(* A call changes the requests of its file only. *)
LEMMA CallsCard ==
ASSUME CardTyped, NEW f \in Files, Calls(f)
PROVE  CardTyped' /\ card' = [card EXCEPT ![f] = card'[f]]
<1> DEFINE Cards == [Gens \X Index -> Nat]
<1>1. card[f] \in Cards
  BY DEF CardTyped
<1>2. NoRequests \in Cards
  BY DEF NoRequests
<1>3. ASSUME NEW st PROVE Issued(f, st) \in Cards
  BY <1>1 DEF Issued
<1>4. ASSUME NEW g \in Gens, NEW i \in Index, CompleteActiveDMABuffer(f, g, i)
      PROVE  \E c \in Cards : card' = [card EXCEPT ![f] = c]
  <2>1. card[f][<<g, i>>] \in Nat /\ card[f][<<g, i>>] > 0
    BY <1>1, <1>4 DEF CompleteActiveDMABuffer
  <2>2. [card[f] EXCEPT ![<<g, i>>] = card[f][<<g, i>>] - 1] \in Cards
    BY <1>1, <2>1
  <2>3. card' = [card EXCEPT ![f] = [card[f] EXCEPT ![<<g, i>>] = card[f][<<g, i>>] - 1]]
    BY <1>1, <1>4 DEF CompleteActiveDMABuffer, CardTyped
  <2>4. QED BY <2>2, <2>3
<1>5. ASSUME NEW i \in Index, Qbuf(f, i)
      PROVE  card' = card \/ \E st : card' = [card EXCEPT ![f] = Issued(f, st)]
  BY <1>5 DEF Qbuf
<1>6. \/ card' = card
      \/ card' = [card EXCEPT ![f] = NoRequests]
      \/ \E st : card' = [card EXCEPT ![f] = Issued(f, st)]
      \/ \E g \in Gens, i \in Index : CompleteActiveDMABuffer(f, g, i)
  BY <1>5 DEF Calls, OpenFails, OpenWithoutCapture, Open, StopDmaStreamingAndFreeBuffers, Reqbufs,
     Streamon, Streamoff, Read, SetFormat, Dqbuf, Mmap, Close, CloseFails
<1>7. \E c \in Cards : card' = [card EXCEPT ![f] = c]
  <2>1. CASE card' = card
    BY <1>1, <2>1 DEF CardTyped
  <2>2. QED BY <1>2, <1>3, <1>4, <1>6, <2>1
<1> HIDE DEF Cards
<1>8. CardTyped' /\ card' = [card EXCEPT ![f] = card'[f]]
  <2>1. PICK c \in Cards : card' = [card EXCEPT ![f] = c]
    BY <1>7
  <2>2. card \in [Files -> Cards] /\ card'[f] = c
    BY <2>1 DEF CardTyped, Cards
  <2>3. card' \in [Files -> Cards]
    BY <2>1, <2>2
  <2>4. QED BY <2>1, <2>2, <2>3 DEF CardTyped, Cards
<1>9. QED BY <1>8

(* A careful application gives up nothing the card still fills. *)
LEMMA BackMeansNoRequest ==
ASSUME CardTyped, NEW f \in Files, CardOf(f), AllBack(f), hs[f].open # "closed",
       NEW g \in Gens, NEW i \in Index
PROVE  card[f][<<g, i>>] = 0
<1>1. card[f][<<g, i>>] \in Nat /\ g # 0
  BY DEF CardTyped, Gens
<1>2. ~(card[f][<<g, i>>] > 0)
  BY <1>1 DEF CardOf, AllBack
<1>3. QED BY <1>1, <1>2

(* Nor does it ask for new buffers before. *)
LEMMA ReqbufsBack ==
ASSUME NEW f \in Careful, NEW mem, NEW n, Reqbufs(f, mem, n)
PROVE  AllBack(f) /\ card' = card /\ hs[f].open = "open"
<1>1. MayRequest(f) /\ (IsStreaming(f) \/ MayGiveUp(f))
  BY DEF Reqbufs
<1>2. AllBack(f)
  BY <1>1 DEF MayRequest, MayGiveUp
<1>3. hs[f].open = "open"
  BY DEF Reqbufs
<1>4. card' = card
  BY DEF Reqbufs
<1>5. QED BY <1>2, <1>3, <1>4

(* The requests stay those of the active buffers if these stay active. *)
LEMMA CardStays ==
ASSUME NEW f, CardOf(f), card'[f] = card[f], hs'[f].slot = hs[f].slot,
       hs[f].open = "closed" => hs'[f].open = "closed",
       \A i \in Index : hs[f].state[i] = "ACTIVE" => hs'[f].state[i] = "ACTIVE"
PROVE  CardOf(f)'
BY DEF CardOf

(* Steps that leave the requests and the handles leave this too. *)
LEMMA CardKept ==
ASSUME CardInv, card' = card, hs' = hs
PROVE  CardInv'
<1>1. CardTyped'
  BY DEF CardInv, CardTyped
<1>2. ASSUME NEW f \in Careful PROVE CardOf(f)'
  BY CardStays DEF CardInv
<1>3. QED BY <1>1, <1>2 DEF CardInv

(* Queued buffers that become active had no request. *)
LEMMA CardIssued ==
ASSUME CardTyped, NEW f \in Files, CardOf(f), NEW st \in [Index -> BufStates],
       hs[f].open = "open",
       \A i \in Index : st[i] # hs[f].state[i] => hs[f].state[i] # "ACTIVE" /\ st[i] # "ACTIVE",
       card'[f] = Issued(f, st), hs'[f].slot = hs[f].slot, hs'[f].state = Started(f, st)
PROVE  CardOf(f)'
<1> SUFFICES ASSUME NEW g \in Gens, NEW i \in Index, card'[f][<<g, i>>] > 0
             PROVE  card'[f][<<g, i>>] = 1 /\ hs[f].slot[i] = g /\ Started(f, st)[i] = "ACTIVE"
  BY DEF CardOf
<1>1. card[f][<<g, i>>] \in Nat
  BY DEF CardTyped
<1>2. /\ Started(f, st)[i] = st[i] \/ (st[i] = "QUEUED" /\ Started(f, st)[i] = "ACTIVE")
      /\ st[i] = "ACTIVE" => Started(f, st)[i] = "ACTIVE"
  BY DEF Started
<1>3. card'[f][<<g, i>>] = IF g = hs[f].slot[i] /\ Started(f, st)[i] # st[i]
                             THEN card[f][<<g, i>>] + 1 ELSE card[f][<<g, i>>]
  BY DEF Issued
<1>4. card[f][<<g, i>>] > 0 =>
        card[f][<<g, i>>] = 1 /\ hs[f].slot[i] = g /\ hs[f].state[i] = "ACTIVE"
  BY DEF CardOf
<1>5. QED BY <1>1, <1>2, <1>3, <1>4

(* Every call of a careful application keeps that. *)
LEMMA CallsCardOf ==
ASSUME TypeInv, CardInv, NEW f \in Careful, Calls(f)
PROVE  CardOf(f)'
<1>1. /\ f \in Files /\ hs[f] \in Handles /\ hs \in [Files -> Handles] /\ CardTyped /\ CardOf(f)
      /\ card[f] \in [Gens \X Index -> Nat]
  BY HandleAssumption DEF HandleAssumption, TypeInv, CardInv, CardTyped
<1>2. ASSUME OpenFails(f) \/ OpenWithoutCapture(f) \/ Open(f) \/ Streamoff(f) \/ Read(f)
      PROVE  CardOf(f)'
  BY <1>1, <1>2, CardStays DEF OpenFails, OpenWithoutCapture, Open, Streamoff, Read, Handles
<1>3. ASSUME StopDmaStreamingAndFreeBuffers(f) PROVE CardOf(f)'
  <2>1. card' = card /\ hs[f].open = "open" /\ AllBack(f)
    BY <1>3 DEF StopDmaStreamingAndFreeBuffers, MayGiveUp
  <2>2. \A g \in Gens, i \in Index : card[f][<<g, i>>] = 0
    BY <1>1, <2>1, BackMeansNoRequest
  <2>3. QED BY <2>1, <2>2 DEF CardOf
<1>4. ASSUME NEW mem \in Memories, NEW n \in 1 .. MaxFrame, Reqbufs(f, mem, n) PROVE CardOf(f)'
  <2>1. card' = card /\ hs[f].open = "open" /\ AllBack(f)
    BY <1>4, ReqbufsBack
  <2>2. \A g \in Gens, i \in Index : card[f][<<g, i>>] = 0
    BY <1>1, <2>1, BackMeansNoRequest
  <2>3. QED BY <2>1, <2>2 DEF CardOf
<1>5. ASSUME Streamon(f) PROVE CardOf(f)'
  <2>1. /\ hs' = [hs EXCEPT ![f] = [hs[f] EXCEPT !.streaming = "ON", !.state = Started(f, hs[f].state)]]
        /\ card' = [card EXCEPT ![f] = Issued(f, hs[f].state)] /\ hs[f].open = "open"
    BY <1>1, <1>5 DEF Streamon, Handles
  <2>2. /\ hs'[f].slot = hs[f].slot /\ hs'[f].state = Started(f, hs[f].state)
        /\ card'[f] = Issued(f, hs[f].state) /\ hs[f].state \in [Index -> BufStates]
    BY <1>1, <2>1 DEF Handles, CardTyped
  <2>3. QED BY <1>1, <2>1, <2>2, CardIssued
<1>6. ASSUME NEW n \in Planes, SetFormat(f, n) PROVE CardOf(f)'
  BY <1>1, <1>6, CardStays DEF SetFormat, Handles
<1>7. ASSUME NEW i \in Index, Qbuf(f, i) PROVE CardOf(f)'
  <2> DEFINE st == [hs[f].state EXCEPT ![i] = "QUEUED"]
             on == hs[f].streaming = "ON"
  <2>1. /\ hs[f].open = "open" /\ hs[f].state[i] \in {"PREPARED", "IDLE"}
        /\ st \in [Index -> BufStates]
        /\ \A j \in Index : st[j] # hs[f].state[j] => hs[f].state[j] # "ACTIVE" /\ st[j] # "ACTIVE"
    BY <1>1, <1>7 DEF Qbuf, Handles, BufStates
  <2>2. \/ /\ hs' = [hs EXCEPT ![f] = [hs[f] EXCEPT !.state = IF on THEN Started(f, st) ELSE st]]
           /\ card' = IF on THEN [card EXCEPT ![f] = Issued(f, st)] ELSE card
        \/ hs' = [hs EXCEPT ![f] = [hs[f] EXCEPT !.messy = TRUE]] /\ card' = card
    BY <1>1, <1>7 DEF Qbuf
  <2> HIDE DEF st, on
  <2>3. CASE hs' = [hs EXCEPT ![f] = [hs[f] EXCEPT !.messy = TRUE]] /\ card' = card
    BY <1>1, <2>3, CardStays DEF Handles
  <2>4. CASE /\ ~on /\ card' = card
             /\ hs' = [hs EXCEPT ![f] = [hs[f] EXCEPT !.state = st]]
    <3>1. hs'[f].slot = hs[f].slot /\ hs'[f].state = st /\ hs'[f].open = hs[f].open
      BY <1>1, <2>4 DEF Handles
    <3>2. \A j \in Index : hs[f].state[j] = "ACTIVE" => st[j] = "ACTIVE"
      BY <2>1
    <3>3. QED BY <1>1, <2>4, <3>1, <3>2, CardStays
  <2>5. CASE /\ on /\ card' = [card EXCEPT ![f] = Issued(f, st)]
             /\ hs' = [hs EXCEPT ![f] = [hs[f] EXCEPT !.state = Started(f, st)]]
    <3>1. hs'[f].slot = hs[f].slot /\ hs'[f].state = Started(f, st) /\ card'[f] = Issued(f, st)
      BY <1>1, <2>5 DEF Handles, CardTyped
    <3>2. QED BY <1>1, <2>1, <3>1, CardIssued
  <2>6. QED BY <2>2, <2>3, <2>4, <2>5
<1>8. ASSUME NEW g \in Gens, NEW i \in Index, CompleteActiveDMABuffer(f, g, i) PROVE CardOf(f)'
  <2>1. /\ card[f][<<g, i>>] > 0
        /\ card' = [card EXCEPT ![f] = [card[f] EXCEPT ![<<g, i>>] = card[f][<<g, i>>] - 1]]
    BY <1>1, <1>8 DEF CompleteActiveDMABuffer, CardTyped
  <2>2. /\ hs'[f].open = hs[f].open /\ hs'[f].slot = hs[f].slot
        /\ \A j \in Index : j # i => hs'[f].state[j] = hs[f].state[j]
    BY <1>1, <1>8 DEF CompleteActiveDMABuffer, Handles
  <2>3. SUFFICES ASSUME hs[f].open # "closed", NEW c \in Gens, NEW j \in Index, card'[f][<<c, j>>] > 0
                 PROVE  /\ card'[f][<<c, j>>] = 1 /\ hs'[f].slot[j] = c /\ hs'[f].state[j] = "ACTIVE"
    BY <2>2 DEF CardOf
  <2>4. card[f][<<g, i>>] = 1 /\ hs[f].slot[i] = g
    BY <1>1, <2>1, <2>3 DEF CardOf
  <2>5. card'[f][<<g, i>>] = 0 /\ \A x \in Gens \X Index : x # <<g, i>> => card'[f][x] = card[f][x]
    BY <1>1, <2>1, <2>4 DEF CardTyped
  <2>6. <<c, j>> # <<g, i>> /\ card[f][<<c, j>>] = card'[f][<<c, j>>]
    BY <2>3, <2>5
  <2>7. card[f][<<c, j>>] = 1 /\ hs[f].slot[j] = c /\ hs[f].state[j] = "ACTIVE"
    BY <1>1, <2>3, <2>6 DEF CardOf
  <2>8. j # i
    BY <2>4, <2>6, <2>7
  <2>9. QED BY <2>2, <2>6, <2>7, <2>8
<1>9. ASSUME NEW i \in Index, Dqbuf(f, i) PROVE CardOf(f)'
  <2>1. hs[f].state[i] = "DONE" /\ card' = card
    BY <1>9 DEF Dqbuf, Done
  <2>2. /\ hs'[f].open = hs[f].open /\ hs'[f].slot = hs[f].slot
        /\ \A j \in Index : j # i => hs'[f].state[j] = hs[f].state[j]
    BY <1>1, <1>9 DEF Dqbuf, Handles
  <2>3. QED BY <1>1, <2>1, <2>2, CardStays
<1>10. ASSUME NEW k \in 1 .. MaxMaps, NEW i \in Index, Mmap(f, k, i) PROVE CardOf(f)'
  BY <1>1, <1>10, CardStays DEF Mmap, Handles
<1>11. ASSUME Close(f) \/ CloseFails(f) PROVE CardOf(f)'
  <2>1. Closed(f).open = "closed" /\ \A m : [Closed(f) EXCEPT !.messy = m].open = "closed"
    BY NewHandleIs DEF Closed, Handles
  <2>2. hs'[f].open = "closed"
    <3>1. PICK m : hs' = [hs EXCEPT ![f] = [Closed(f) EXCEPT !.messy = m]]
      BY <1>11 DEF Close, CloseFails
    <3>2. hs'[f] = [Closed(f) EXCEPT !.messy = m]
      BY <1>1, <3>1
    <3>3. QED BY <2>1, <3>2
  <2>3. QED BY <2>2 DEF CardOf
<1>12. QED BY <1>2, <1>3, <1>4, <1>5, <1>6, <1>7, <1>8, <1>9, <1>10, <1>11 DEF Calls

(* The requests of careful applications' files are those of active buffers, *)
(* whatever other files do.                                                 *)
THEOREM CardAlways == Spec => []CardInv
<1>1. Init => CardInv
  <2>1. \A f \in Files, g \in Gens, i \in Index : NoRequests[<<g, i>>] = 0
    BY DEF NoRequests
  <2>2. NoRequests \in [Gens \X Index -> Nat]
    BY DEF NoRequests
  <2>3. QED BY <2>1, <2>2, HandleAssumption DEF Init, CardInv, CardTyped, CardOf, HandleAssumption
<1>2. TypeInv /\ PointInv /\ CardInv /\ [Next]_vars => CardInv'
  <2> SUFFICES ASSUME TypeInv, PointInv, CardInv, [Next]_vars PROVE CardInv'
    OBVIOUS
  <2>1. CASE UNCHANGED vars
    BY <2>1, CardKept DEF vars
  <2>2. ASSUME NEW f \in Files, Calls(f) PROVE CardInv'
    <3>1. CardTyped' /\ card' = [card EXCEPT ![f] = card'[f]] /\ hs' = [hs EXCEPT ![f] = hs'[f]]
      BY <2>2, CallsCard, CallsSound DEF CardInv, Sound, Own
    <3>2. ASSUME NEW g \in Careful PROVE CardOf(g)'
      <4>1. CASE g = f
        BY <2>2, <4>1, CallsCardOf
      <4>2. CASE g # f
        <5>1. card'[g] = card[g] /\ hs'[g] = hs[g] /\ CardOf(g)
          BY <3>1, <4>2, HandleAssumption DEF HandleAssumption, CardInv, CardTyped, TypeInv
        <5>2. QED BY <5>1 DEF CardOf
      <4>3. QED BY <4>1, <4>2
    <3>3. QED BY <3>1, <3>2 DEF CardInv
  <2>3. ASSUME NEW k \in 1 .. MaxMaps, Fork(k) \/ Unmap(k) PROVE CardInv'
    <3>1. card' = card /\ hs' = hs
      BY <2>3 DEF Fork, Unmap
    <3>2. QED BY <3>1, CardKept
  <2>4. QED BY <2>1, <2>2, <2>3, NextIs
<1>3. QED BY <1>1, <1>2, PointsAlways, PTL DEF Spec

(* A call frees nothing that the card fills for its file. *)
LEMMA CallKeepsFilled ==
ASSUME TypeInv, CardInv, NEW f \in Careful, Calls(f), NEW g \in Gens, NEW i \in Index,
       card[f][<<g, i>>] > 0, card'[f][<<g, i>>] > 0
PROVE  Memory(f, g, i) \subseteq heap'
<1>1. f \in Files /\ CardTyped /\ CardOf(f) /\ g # 0
  BY HandleAssumption DEF HandleAssumption, CardInv, Gens
<1>2. ASSUME \/ StopDmaStreamingAndFreeBuffers(f)
             \/ \E mem \in Memories, n \in 1 .. MaxFrame : Reqbufs(f, mem, n)
      PROVE  FALSE
  <2>1. AllBack(f) /\ hs[f].open = "open"
    BY <1>2, ReqbufsBack DEF StopDmaStreamingAndFreeBuffers, MayGiveUp
  <2>2. card[f][<<g, i>>] = 0
    BY <1>1, <2>1, BackMeansNoRequest
  <2>3. QED BY <2>2
<1>3. ASSUME Close(f) PROVE FALSE
  <2>1. card'[f] = NoRequests
    BY <1>1, <1>3 DEF Close, CardTyped
  <2>2. QED BY <2>1 DEF NoRequests
<1>4. ASSUME NEW j \in Index, Dqbuf(f, j) PROVE Memory(f, g, i) \subseteq heap'
  <2>1. /\ hs[f].open = "open" /\ hs[f].state[j] = "DONE"
        /\ heap' = heap \/ heap' = heap \ DmaParts(f, hs[f].slot[j], j, hs[f].planes)
    BY <1>4 DEF Dqbuf, Done, UserptrFree
  <2>2. j # i
    BY <1>1, <2>1 DEF CardOf
  <2>3. ASSUME NEW o \in Memory(f, g, i) PROVE o \in heap'
    <3>1. o \in heap /\ o[4] = i
      BY <2>3 DEF Memory
    <3>2. o \notin DmaParts(f, hs[f].slot[j], j, hs[f].planes)
      BY <2>2, <3>1, UserptrKind
    <3>3. QED BY <2>1, <3>1, <3>2
  <2>4. QED BY <2>3
<1>5. ASSUME CloseFails(f) PROVE Memory(f, g, i) \subseteq heap'
  BY <1>5, HandlePartsKind DEF CloseFails, Memory
<1>6. \/ heap \subseteq heap' \/ CloseFails(f) \/ \E j \in Index : Dqbuf(f, j)
  BY <1>2, <1>3 DEF Calls, OpenFails, OpenWithoutCapture, Open, Streamon,
     Streamoff, Read, SetFormat, Qbuf, CompleteActiveDMABuffer, Mmap
<1>7. QED BY <1>4, <1>5, <1>6 DEF Memory

(* Of a careful application's file no memory, list or request of a buffer is *)
(* freed while the card has a request to fill it, by no call of any file,    *)
(* failed or not, whatever the applications of other files do.               *)
THEOREM ActiveStays == Spec => ActiveNotFreed
<1> DEFINE Stays == \A f \in Careful, g \in Gens, i \in Index :
       card[f][<<g, i>>] > 0 /\ card'[f][<<g, i>>] > 0 => Memory(f, g, i) \subseteq heap'
<1>1. TypeInv /\ PointInv /\ CardInv /\ [Next]_vars => [Stays]_vars
  <2> SUFFICES ASSUME TypeInv, PointInv, CardInv, Next, NEW f \in Careful, NEW g \in Gens,
                      NEW i \in Index, card[f][<<g, i>>] > 0, card'[f][<<g, i>>] > 0
               PROVE  Memory(f, g, i) \subseteq heap'
    OBVIOUS
  <2>1. ASSUME NEW c \in Files, Calls(c) PROVE Memory(f, g, i) \subseteq heap'
    <3>1. CASE c = f
      BY <2>1, <3>1, CallKeepsFilled
    <3>2. CASE c # f
      BY <2>1, <3>2, CallsSound DEF Sound, Own, Memory
    <3>3. QED BY <3>1, <3>2
  <2>2. ASSUME NEW k \in 1 .. MaxMaps, Fork(k) \/ Unmap(k) PROVE Memory(f, g, i) \subseteq heap'
    BY <2>2, AreasPoint DEF Memory
  <2>3. QED BY <2>1, <2>2, NextIs
<1>2. QED BY <1>1, PointsAlways, CardAlways, PTL DEF Spec, ActiveNotFreed

-------------------------------------------------------------------------------
(* What close returns *)

(* What close() frees whatever the handle did. *)
Basics == {"h", "pSem", "pSpinlock", "irp", "messages", "nosignal"}

(* The private data of an area of the file. *)
AreaOf(f, o) ==
  \E k \in 1 .. MaxMaps : o = Obj(f, "pd", k, 0, 0) /\ maps[k].f = f /\ maps[k].areas > 0

(* IO structures of REQBUFS calls before the last; areas without a buffer. *)
Left(f, o) ==
  \/ o[2] \in {"ioctlsin", "in"} /\ o[3] \in Nat /\ o[3] < hs[f].requests
  \/ \E k \in 1 .. MaxMaps : o = Obj(f, "pd", k, 0, 0) /\ maps[k].f = f /\ maps[k].g = 0

(* What a handle still reaches, but for those. *)
Owned(f, o) ==
  \/ o \in HandleParts(f, Basics)
  \/ o \in BufferArray(f)
  \/ o \in AllBufferParts(f)
  \/ o \in IoctlsIn(f)
  \/ AreaOf(f, o)

TidyHandle(f) ==
  ~hs[f].messy => \A o \in heap : o[1] = f =>
                    Left(f, o) \/ (hs[f].open # "closed" /\ Owned(f, o))

TidyInv == \A f \in Files : TidyHandle(f)

(* No call touches an area that is or was in use. *)
LEMMA AreasKept ==
ASSUME MapInv, NEW f \in Files, Calls(f), NEW k \in 1 .. MaxMaps, maps[k].f # 0
PROVE  maps'[k] = maps[k]
<1>1. ASSUME NEW j \in 1 .. MaxMaps, NEW i \in Index, Mmap(f, j, i) PROVE maps'[k] = maps[k]
  <2>1. maps[j].f = 0
    BY <1>1 DEF Mmap, NoMap
  <2>2. QED BY <1>1, <2>1 DEF Mmap, MapInv
<1>2. QED BY <1>1, CallsMaps

(* A call that frees nothing and changes no pointer loses nothing. *)
LEMMA OwnedKept ==
ASSUME NEW f \in Files, NEW o,
       hs'[f].buffers = hs[f].buffers, hs'[f].slot = hs[f].slot,
       hs'[f].numbuffers = hs[f].numbuffers, hs'[f].ioctlsin = hs[f].ioctlsin,
       hs'[f].memOf = hs[f].memOf, hs'[f].requests = hs[f].requests,
       hs'[f].planes = hs[f].planes \/ \A i \in Index : hs[f].slot[i] = 0,
       hs[f].numbuffers \in 0 .. MaxFrame,
       \A k \in 1 .. MaxMaps : maps[k].f # 0 => maps'[k] = maps[k]
PROVE  (Owned(f, o) => Owned(f, o)') /\ (Left(f, o) => Left(f, o)')
<1>1. o \in BufferArray(f) => o \in BufferArray(f)'
  BY DEF BufferArray
<1>2. o \in IoctlsIn(f) => o \in IoctlsIn(f)'
  BY DEF IoctlsIn
<1>3. ASSUME o \in AllBufferParts(f) PROVE o \in AllBufferParts(f)'
  <2>1. PICK i \in 0 .. hs[f].numbuffers - 1 : o \in BufferParts(f, i)
    BY <1>3 DEF AllBufferParts
  <2>2. hs[f].slot[i] # 0 /\ i \in Index
    BY <2>1, PlanesTyped DEF BufferParts, Index
  <2>3. hs'[f].planes = hs[f].planes
    BY <2>2
  <2>4. o \in BufferParts(f, i)'
    BY <2>1, <2>2, <2>3 DEF BufferParts
  <2>5. QED BY <2>1, <2>4 DEF AllBufferParts
<1>0. f # 0
  BY HandleAssumption DEF HandleAssumption
<1>4. ASSUME AreaOf(f, o) PROVE AreaOf(f, o)'
  <2>1. PICK k \in 1 .. MaxMaps : o = Obj(f, "pd", k, 0, 0) /\ maps[k].f = f /\ maps[k].areas > 0
    BY <1>4 DEF AreaOf
  <2>2. maps'[k] = maps[k]
    BY <1>0, <2>1
  <2>3. QED BY <2>1, <2>2 DEF AreaOf
<1>5. o \in HandleParts(f, Basics) => o \in HandleParts(f, Basics)'
  BY DEF HandleParts, Obj
<1>6. Left(f, o) => Left(f, o)'
  BY <1>0 DEF Left
<1>7. QED BY <1>1, <1>2, <1>3, <1>4, <1>5, <1>6 DEF Owned

(* The handle keeps its pointers; if it had none its format may change. *)
SamePointers(f) ==
  /\ hs'[f].buffers = hs[f].buffers /\ hs'[f].slot = hs[f].slot
  /\ hs'[f].numbuffers = hs[f].numbuffers /\ hs'[f].ioctlsin = hs[f].ioctlsin
  /\ hs'[f].memOf = hs[f].memOf /\ hs'[f].requests = hs[f].requests
  /\ hs'[f].planes = hs[f].planes \/ hs'[f].messy \/ \A i \in Index : hs[f].slot[i] = 0
  /\ hs[f].messy => hs'[f].messy
  /\ hs[f].open # "closed" => hs'[f].open # "closed"

(* All calls but three. *)
LEMMA CallsSame ==
ASSUME TypeInv, NEW f \in Files, Calls(f)
PROVE  \/ SamePointers(f)
       \/ StopDmaStreamingAndFreeBuffers(f)
       \/ \E mem \in Memories, n \in 1 .. MaxFrame : Reqbufs(f, mem, n)
       \/ Close(f) \/ CloseFails(f)
<1>1. hs[f] \in Handles /\ hs \in [Files -> Handles]
  BY DEF TypeInv
<1>2. ASSUME OpenFails(f) \/ OpenWithoutCapture(f) \/ Open(f) PROVE SamePointers(f)
  BY <1>1, <1>2 DEF OpenFails, OpenWithoutCapture, Open, SamePointers, Handles
<1>3. ASSUME Streamon(f) \/ Streamoff(f) \/ Read(f) PROVE SamePointers(f)
  BY <1>1, <1>3 DEF Streamon, Streamoff, Read, SamePointers, Handles
<1>4. ASSUME NEW n \in Planes, SetFormat(f, n) PROVE SamePointers(f)
  BY <1>1, <1>4 DEF SetFormat, SamePointers, Handles, NoSlots
<1>5. ASSUME NEW i \in Index, Qbuf(f, i) PROVE SamePointers(f)
  <2>1. PICK st : \/ hs' = [hs EXCEPT ![f] = [hs[f] EXCEPT !.state = st]]
                  \/ hs' = [hs EXCEPT ![f] = [hs[f] EXCEPT !.messy = TRUE]]
    BY <1>1, <1>5 DEF Qbuf
  <2>2. QED BY <1>1, <2>1 DEF SamePointers, Handles
<1>6. ASSUME NEW g \in Gens, NEW i \in Index, CompleteActiveDMABuffer(f, g, i) \/ Dqbuf(f, i)
      PROVE  SamePointers(f)
  <2>1. hs' = hs \/ \E st : hs' = [hs EXCEPT ![f] = [hs[f] EXCEPT !.state = st]]
    BY <1>1, <1>6 DEF CompleteActiveDMABuffer, Dqbuf
  <2>2. QED BY <1>1, <2>1 DEF SamePointers, Handles
<1>9. ASSUME NEW i \in Index, Dqbuf(f, i) PROVE SamePointers(f)
  <2>1. PICK st : hs' = [hs EXCEPT ![f] = [hs[f] EXCEPT !.state = st]]
    BY <1>1, <1>9 DEF Dqbuf
  <2>2. QED BY <1>1, <2>1 DEF SamePointers, Handles
<1>7. ASSUME NEW k \in 1 .. MaxMaps, NEW i \in Index, Mmap(f, k, i) PROVE SamePointers(f)
  BY <1>1, <1>7 DEF Mmap, SamePointers, Handles
<1>8. QED BY <1>2, <1>3, <1>4, <1>5, <1>6, <1>7, <1>9 DEF Calls

(* What such a call allocates the handle reaches. *)
LEMMA CallsOwn ==
ASSUME TypeInv, PointInv, MapInv, NEW f \in Files, Calls(f), SamePointers(f), ~hs'[f].messy,
       NEW o \in heap', o \notin heap
PROVE  \/ Owned(f, o)' /\ hs'[f].open # "closed"
       \/ StopDmaStreamingAndFreeBuffers(f)
       \/ \E mem \in Memories, n \in 1 .. MaxFrame : Reqbufs(f, mem, n)
       \/ Close(f) \/ CloseFails(f)
<1>1. hs[f] \in Handles /\ hs \in [Files -> Handles] /\ Points(f, hs[f], heap)
  BY DEF TypeInv, PointInv
<1>2. ASSUME o \in HandleParts(f, Basics), hs'[f].open # "closed" PROVE Owned(f, o)' /\ hs'[f].open # "closed"
  BY <1>2 DEF Owned, HandleParts, Obj
<1>3. ASSUME OpenFails(f) PROVE FALSE
  BY <1>1, <1>3 DEF OpenFails, Handles
<1>4. ASSUME OpenWithoutCapture(f) \/ Open(f) PROVE o \in HandleParts(f, Basics) /\ hs'[f].open # "closed"
  BY <1>1, <1>4 DEF OpenWithoutCapture, Open, HandleParts, Basics, Handles
<1>5. NoSignalPicture(f) \subseteq HandleParts(f, Basics)
  BY DEF NoSignalPicture, HandleParts, Basics, Obj
<1>6. ASSUME Streamon(f) \/ Streamoff(f) \/ Read(f)
      PROVE  o \in HandleParts(f, Basics) /\ hs'[f].open # "closed"
  BY <1>1, <1>5, <1>6 DEF Streamon, Streamoff, Read, SamePointers
<1>7. ASSUME NEW n \in Planes, SetFormat(f, n) PROVE FALSE
  BY <1>7 DEF SetFormat
<1>8. ASSUME NEW i \in Index, Dqbuf(f, i) \/ \E g \in Gens : CompleteActiveDMABuffer(f, g, i)
      PROVE  FALSE
  BY <1>8 DEF CompleteActiveDMABuffer, Dqbuf
<1>9. ASSUME NEW i \in Index, Qbuf(f, i) PROVE Owned(f, o)' /\ hs'[f].open # "closed"
  <2>1. hs[f].open = "open" /\ hs'[f].open # "closed" /\ i < hs[f].numbuffers /\ hs[f].slot[i] # 0
    BY <1>9 DEF Qbuf, SamePointers
  <2>2. hs[f].memorytype = hs[f].memOf[hs[f].slot[i]]
    BY <1>9 DEF Qbuf
  <2>3. hs' # [hs EXCEPT ![f].messy = TRUE]
    BY <1>1 DEF Handles
  <2>4. \/ o \in NoSignalPicture(f)
        \/ hs[f].memorytype = "USERPTR" /\ o \in UserptrSetup(f, hs[f].slot[i], i, hs[f].planes)
    BY <1>9, <2>3 DEF Qbuf
  <2>5. ASSUME hs[f].memorytype = "USERPTR", o \in UserptrSetup(f, hs[f].slot[i], i, hs[f].planes)
        PROVE  o \in AllBufferParts(f)'
    <3>1. hs'[f].planes = hs[f].planes /\ hs'[f].slot = hs[f].slot /\ hs'[f].memOf = hs[f].memOf
      BY <2>1 DEF SamePointers
    <3>2. o \in BufferParts(f, i)'
      BY <2>1, <2>2, <2>5, <3>1 DEF BufferParts, UserptrSetup
    <3>3. i \in 0 .. hs'[f].numbuffers - 1
      BY <1>1, <2>1 DEF Index, SamePointers, Handles
    <3>4. QED BY <3>2, <3>3 DEF AllBufferParts
  <2>6. QED BY <1>2, <1>5, <2>1, <2>4, <2>5 DEF Owned
<1>10. ASSUME NEW k \in 1 .. MaxMaps, NEW i \in Index, Mmap(f, k, i)
       PROVE  Owned(f, o)' /\ hs'[f].open # "closed"
  <2>1. o = Obj(f, "pd", k, 0, 0) /\ hs'[f].open # "closed"
    BY <1>10 DEF Mmap, SamePointers
  <2>2. maps'[k] = VmOpen(k, MmapMapper(f, i))
    BY <1>10 DEF Mmap, MapInv
  <2>3. maps'[k].f = f /\ maps'[k].areas > 0
    <3>1. hs[f].slot[i] \in {0} \cup Gens
      BY <1>1 DEF Handles
    <3>2. MmapMapper(f, i) \in Areas /\ MmapMapper(f, i).areas = 0 /\ MmapMapper(f, i).f = f
      BY <3>1 DEF MmapMapper, Areas
    <3>3. QED BY <2>2, <3>2, VmOpenCounts
  <2>4. AreaOf(f, o)'
    BY <2>1, <2>3 DEF AreaOf
  <2>5. QED BY <2>1, <2>4 DEF Owned
<1>11. QED BY <1>2, <1>3, <1>4, <1>6, <1>7, <1>8, <1>9, <1>10 DEF Calls

(* So nothing is lost but at the calls that free. *)
LEMMA CallsTidy ==
ASSUME TypeInv, PointInv, MapInv, TidyInv, NEW f \in Files, Calls(f)
PROVE  \/ TidyHandle(f)'
       \/ StopDmaStreamingAndFreeBuffers(f)
       \/ \E mem \in Memories, n \in 1 .. MaxFrame : Reqbufs(f, mem, n)
       \/ Close(f) \/ CloseFails(f)
<1> DEFINE Frees == \/ StopDmaStreamingAndFreeBuffers(f)
                    \/ \E mem \in Memories, n \in 1 .. MaxFrame : Reqbufs(f, mem, n)
                    \/ Close(f) \/ CloseFails(f)
<1>1. SUFFICES ASSUME ~Frees, ~hs'[f].messy, NEW o \in heap', o[1] = f
               PROVE  Left(f, o)' \/ (hs'[f].open # "closed" /\ Owned(f, o)')
  BY DEF TidyHandle
<1>2. SamePointers(f)
  BY <1>1, CallsSame
<1>3. CASE o \notin heap
  BY <1>1, <1>2, <1>3, CallsOwn
<1>4. CASE o \in heap
  <2>1. Left(f, o) \/ (hs[f].open # "closed" /\ Owned(f, o))
    BY <1>1, <1>2, <1>4 DEF TidyInv, TidyHandle, SamePointers
  <2>2. hs[f].numbuffers \in 0 .. MaxFrame
    BY DEF TypeInv, Handles
  <2>3. (Owned(f, o) => Owned(f, o)') /\ (Left(f, o) => Left(f, o)')
    BY <1>1, <1>2, <2>2, AreasKept, OwnedKept DEF SamePointers
  <2>4. QED BY <1>2, <2>1, <2>3 DEF SamePointers
<1>5. QED BY <1>3, <1>4

(* The ioctl that stops streaming gives back all it takes from the handle. *)
LEMMA StopTidy ==
ASSUME TypeInv, PointInv, MapInv, TidyInv, NEW f \in Files, Calls(f), StopDmaStreamingAndFreeBuffers(f)
PROVE  TidyHandle(f)'
<1>1. hs[f] \in Handles /\ hs \in [Files -> Handles] /\ Points(f, hs[f], heap) /\ hs[f].open = "open"
  BY DEF TypeInv, PointInv, StopDmaStreamingAndFreeBuffers
<1>2. SUFFICES ASSUME ~hs'[f].messy, NEW o \in heap', o[1] = f
               PROVE  Left(f, o)' \/ (hs'[f].open # "closed" /\ Owned(f, o)')
  BY DEF TidyHandle
<1>3. UNCHANGED maps /\ heap' \subseteq heap
  BY DEF StopDmaStreamingAndFreeBuffers
<1>4. CASE ~hs[f].mmapped
  <2>1. hs'[f] = [hs[f] EXCEPT !.streaming = "STOPPED"]
    BY <1>1, <1>4 DEF StopDmaStreamingAndFreeBuffers
  <2>2. SamePointers(f) /\ hs'[f].planes = hs[f].planes /\ hs'[f].open = "open" /\ ~hs[f].messy
    BY <1>1, <1>2, <2>1 DEF SamePointers, Handles
  <2>3. (Owned(f, o) => Owned(f, o)') /\ (Left(f, o) => Left(f, o)')
    BY <1>1, <1>3, <2>2, OwnedKept DEF SamePointers, Handles
  <2>4. QED BY <1>2, <1>3, <2>2, <2>3 DEF TidyInv, TidyHandle
<1>5. CASE hs[f].mmapped
  <2> DEFINE arr == hs[f].buffers # 0
             mm == {i \in 0 .. hs[f].numbuffers - 1 :
                      hs[f].slot[i] # 0 /\ hs[f].memOf[hs[f].slot[i]] = "MMAP"}
             gone == IoctlsIn(f) \cup BufferArray(f) \cup
                       IF arr THEN UNION {BufferParts(f, i) : i \in mm} ELSE {}
  <2>1. /\ hs'[f] = [hs[f] EXCEPT !.streaming = "STOPPED", !.ioctlsin = 0, !.buffers = 0,
                             !.slot = IF arr THEN NoSlots ELSE hs[f].slot,
                             !.numbuffers = IF arr THEN 0 ELSE hs[f].numbuffers,
                             !.mmapped = ~arr,
                             !.messy = hs[f].messy \/ \E i \in Index \ mm : hs[f].slot[i] # 0]
        /\ heap' = heap \ gone
    BY <1>1, <1>5 DEF StopDmaStreamingAndFreeBuffers
  <2>2. /\ ~hs[f].messy /\ \A i \in Index \ mm : hs[f].slot[i] = 0
        /\ hs'[f].open = "open" /\ hs'[f].requests = hs[f].requests
    BY <1>1, <1>2, <2>1 DEF Handles
  <2>3. ASSUME o \in AllBufferParts(f) PROVE FALSE
    <3>1. PICK i \in 0 .. hs[f].numbuffers - 1 : o \in BufferParts(f, i)
      BY <2>3 DEF AllBufferParts
    <3>2. hs[f].slot[i] # 0 /\ i \in Index
      BY <1>1, <3>1, PlanesTyped DEF BufferParts, Index, Handles
    <3>3. arr /\ i \in mm
      BY <1>1, <2>2, <3>2 DEF Points
    <3>4. QED BY <2>1, <3>1, <3>3
  <2>4. o \notin BufferArray(f) /\ o \notin IoctlsIn(f)
    BY <2>1
  <2>5. Left(f, o) \/ Owned(f, o)
    BY <1>2, <1>3, <2>2 DEF TidyInv, TidyHandle
  <2>6. Left(f, o) => Left(f, o)'
    BY <1>3, <2>2 DEF Left
  <2>7. o \in HandleParts(f, Basics) \/ AreaOf(f, o) => Owned(f, o)'
    BY <1>3 DEF Owned, HandleParts, Obj, AreaOf
  <2>8. QED BY <2>2, <2>3, <2>4, <2>5, <2>6, <2>7 DEF Owned
<1>6. QED BY <1>1, <1>4, <1>5 DEF Handles

(* REQBUFS in which nothing fails and that abandons nothing. *)
LEMMA ReqTidy ==
ASSUME TypeInv, PointInv, MapInv, TidyInv, NEW f \in Files,
       NEW mem \in Memories, NEW n \in 1 .. MaxFrame, Reqbufs(f, mem, n)
PROVE  TidyHandle(f)'
<1>1. /\ hs[f] \in Handles /\ hs \in [Files -> Handles] /\ Points(f, hs[f], heap)
      /\ hs[f].open = "open" /\ hs[f].requests < MaxReq /\ UNCHANGED maps
  BY DEF TypeInv, PointInv, Reqbufs
<1>2. SUFFICES ASSUME ~hs'[f].messy, NEW o \in heap', o[1] = f
               PROVE  Left(f, o)' \/ (hs'[f].open # "closed" /\ Owned(f, o)')
  BY DEF TidyHandle
<1>3. PICK e : \/ ReqRejected(f, mem, e)
               \/ ReqNoBuffers(f, mem, n, e)
               \/ ReqNoStructures(f, mem, n, e)
               \/ ReqFewStructures(f, mem, n, e)
               \/ ReqDone(f, mem, n, e)
  BY ReqOutcomes
<1>4. /\ Base(f, mem, e) \in Handles /\ Fresh(f, mem, n, e) \in Handles
      /\ Fresh(f, mem, n, e).messy = Base(f, mem, e).messy
      /\ Base(f, mem, e).messy = (hs[f].messy \/ e # NoFailure \/ Abandons(f, mem))
  <2>1. Base(f, mem, e) \in Handles /\ Fresh(f, mem, n, e) \in Handles
    BY <1>1, ReqHandle
  <2>2. Base(f, mem, e).messy = (hs[f].messy \/ e # NoFailure \/ Abandons(f, mem))
    <3> DEFINE m == hs[f].messy \/ e # NoFailure \/ Abandons(f, mem)
    <3>1. DOMAIN hs[f] = DOMAIN NewHandle /\ "messy" \in DOMAIN hs[f]
      BY <1>1, NewHandleIs DEF Handles
    <3> HIDE DEF m
    <3>2. Base(f, mem, e).messy = m
      BY <3>1 DEF Base, m
    <3>3. QED BY <3>2 DEF m
  <2>3. QED BY <2>1, <2>2 DEF Fresh, Handles
<1>5. ReqDone(f, mem, n, e)
  <2>1. ASSUME ReqRejected(f, mem, e) PROVE FALSE
    <3>1. e # NoFailure
      BY <2>1 DEF ReqRejected, NoFailure
    <3>2. hs'[f].messy = Base(f, mem, e).messy
      BY <1>1, <1>4, <2>1 DEF ReqRejected, Handles
    <3>3. QED BY <1>2, <1>4, <3>1, <3>2
  <2>2. ASSUME \/ ReqNoBuffers(f, mem, n, e) \/ ReqNoStructures(f, mem, n, e)
               \/ ReqFewStructures(f, mem, n, e)
        PROVE  FALSE
    <3>1. \/ hs'[f] = [Fresh(f, mem, n, e) EXCEPT !.numbuffers = 0, !.slot = NoSlots]
          \/ \E a : hs'[f] = [Fresh(f, mem, n, e) EXCEPT !.ioctlsin = a]
      BY <1>1, <2>2 DEF ReqNoBuffers, ReqNoStructures, ReqFewStructures
    <3>2. e # NoFailure
      BY <2>2 DEF ReqNoBuffers, ReqNoStructures, ReqFewStructures
    <3>3. hs'[f].messy = Fresh(f, mem, n, e).messy
      BY <1>4, <3>1 DEF Handles
    <3>4. QED BY <1>2, <1>4, <3>2, <3>3
  <2>3. QED BY <1>3, <2>1, <2>2
<1> DEFINE g == hs[f].requests + 1
           r == Fresh(f, mem, n, e)
<1>6. /\ hs'[f].open = "open" /\ hs'[f].requests = g /\ hs'[f].buffers = g
      /\ hs'[f].ioctlsin = g /\ hs'[f].numbuffers = n
      /\ \A i \in Index : hs'[f].slot[i] = IF i < n THEN g ELSE 0
      /\ hs'[f].memOf = r.memOf /\ hs'[f].planes = r.planes /\ hs'[f].messy = r.messy
  <2>1. hs'[f] = [r EXCEPT !.ioctlsin = g, !.memorytype = mem,
                    !.mmapped = (hs[f].mmapped /\ ~(mem = "MMAP" /\ hs[f].buffers # 0))
                                   \/ mem = "USERPTR"]
    BY <1>1, <1>5 DEF ReqDone
  <2>2. /\ r.open = "open" /\ r.requests = g /\ r.buffers = g /\ r.numbuffers = n
        /\ \A i \in Index : r.slot[i] = IF i < n THEN g ELSE 0
    BY <1>1, ReqHandle
  <2> HIDE DEF r, g
  <2>3. r \in Handles
    BY <1>4 DEF r
  <2>4. QED BY <2>1, <2>2, <2>3 DEF Handles
<1>7. g \in Gens /\ g \in Nat \ {0} /\ hs[f].ioctlsin < g /\ hs[f].requests < g
  <2>1. g \in Gens
    BY <1>1, ReqHandle
  <2>2. hs[f].ioctlsin \in {0} \cup Gens /\ hs[f].requests \in 0 .. MaxReq /\ hs[f].ioctlsin <= hs[f].requests
    BY <1>1 DEF Handles, Points
  <2>3. QED BY <2>1, <2>2, PlanesTyped DEF Gens
<1>8. r.memOf[g] = mem /\ r.planes = hs[f].planes
  <2>1. Base(f, mem, e).memOf = [hs[f].memOf EXCEPT ![g] = mem] /\ Base(f, mem, e).planes = hs[f].planes
    BY <1>1 DEF Base, Handles
  <2>2. r.memOf = Base(f, mem, e).memOf /\ r.planes = Base(f, mem, e).planes
    BY <1>4 DEF Fresh, Handles
  <2>3. DOMAIN hs[f].memOf = Gens
    BY <1>1 DEF Handles
  <2>4. QED BY <1>7, <2>1, <2>2, <2>3
<1>9. ~hs[f].messy /\ e = NoFailure /\ ~Abandons(f, mem)
  BY <1>2, <1>4, <1>6
<1> HIDE DEF g, r
<1>10. CASE o \in heap /\ o \notin Gone(f, mem)
  <2>1. Left(f, o) \/ Owned(f, o)
    BY <1>2, <1>9, <1>10 DEF TidyInv, TidyHandle
  <2>2. ASSUME Left(f, o) PROVE Left(f, o)'
    <3>1. hs'[f].requests = hs[f].requests + 1
      BY <1>6 DEF g
    <3>2. hs[f].requests \in Nat
      BY <1>1, PlanesTyped DEF Handles
    <3>3. QED BY <1>1, <2>2, <3>1, <3>2 DEF Left
  <2>3. ASSUME o \in IoctlsIn(f) PROVE Left(f, o)'
    <3>1. o[2] \in {"ioctlsin", "in"} /\ o[3] = hs[f].ioctlsin
      BY <2>3, IoctlsInKind
    <3>2. hs[f].ioctlsin \in Nat
      BY <1>1 DEF Handles, Gens
    <3>3. QED BY <1>6, <1>7, <3>1, <3>2 DEF Left
  <2>4. o \notin BufferArray(f)
    BY <1>10 DEF Gone
  <2>5. ASSUME o \in AllBufferParts(f) PROVE FALSE
    <3>1. PICK i \in 0 .. hs[f].numbuffers - 1 : o \in BufferParts(f, i)
      BY <2>5 DEF AllBufferParts
    <3>2. hs[f].slot[i] # 0 /\ i \in Index
      BY <1>1, <3>1, PlanesTyped DEF BufferParts, Index, Handles
    <3>3. mem # "USERPTR"
      BY <1>9, <3>2 DEF Abandons
    <3>4. mem = "MMAP" /\ hs[f].buffers # 0
      BY <1>1, <3>2, <3>3 DEF Memories, Points
    <3>5. QED BY <1>10, <2>5, <3>4 DEF Gone, Discarded
  <2>6. o \in HandleParts(f, Basics) \/ AreaOf(f, o) => Owned(f, o)'
    BY <1>1 DEF Owned, HandleParts, Obj, AreaOf
  <2>7. QED BY <1>6, <2>1, <2>2, <2>3, <2>4, <2>5, <2>6 DEF Owned
<1>11. CASE o \notin heap \ Gone(f, mem)
  <2>1. o \in NewArr(f) \cup News(f, mem, n, NoFailure) \cup Structs(f, n) \cup NewIos(f) \cup Ins(f, n)
    BY <1>5, <1>9, <1>11 DEF ReqDone
  <2>2. o \in NewArr(f) => o \in BufferArray(f)'
    BY <1>6, <1>7 DEF NewArr, BufferArray, g
  <2>3. o \in NewIos(f) \cup Ins(f, n) => o \in IoctlsIn(f)'
    BY <1>6, <1>7 DEF NewIos, Ins, IoctlsIn, g
  <2>4. ASSUME NEW i \in 0 .. n - 1
        PROVE  BufferParts(f, i)' = {Obj(f, k, g, i, 0) : k \in {"buf", "bufirp",
                                       IF mem = "MMAP" THEN "memory" ELSE "message"}}
                                      \cup DmaParts(f, g, i, hs[f].planes)
    <3>1. i \in Index /\ i < n
      BY PlanesTyped DEF Index
    <3>2. hs'[f].slot[i] = g /\ g # 0 /\ hs'[f].memOf[g] = mem /\ hs'[f].planes = hs[f].planes
      BY <1>6, <1>7, <1>8, <3>1
    <3>3. QED BY <3>2 DEF BufferParts
  <2>5. ASSUME NEW i \in 0 .. n - 1, o \in BufferParts(f, i)' PROVE o \in AllBufferParts(f)'
    BY <1>6, <2>5 DEF AllBufferParts
  <2>6. ASSUME o \in Structs(f, n) PROVE o \in AllBufferParts(f)'
    <3>1. PICK i \in 0 .. n - 1 : o = Obj(f, "buf", g, i, 0)
      BY <2>6 DEF Structs, g
    <3>2. QED BY <2>4, <2>5, <3>1
  <2>7. ASSUME o \in News(f, mem, n, NoFailure) PROVE o \in AllBufferParts(f)'
    <3>1. PICK i \in 0 .. n - 1 :
            o \in (IF mem = "MMAP" THEN DmaSetup(f, g, i, NoFailure) ELSE {}) \cup Irp(f, g, i, NoFailure)
      BY <2>7 DEF News, NewParts, NoFailure, g
    <3>2. o = Obj(f, "bufirp", g, i, 0) \/
          (mem = "MMAP" /\ o \in {Obj(f, "memory", g, i, 0)} \cup DmaParts(f, g, i, hs[f].planes))
      BY <3>1 DEF DmaSetup, Irp, NoFailure
    <3>3. QED BY <2>4, <2>5, <3>2
  <2>8. QED BY <1>6, <2>1, <2>2, <2>3, <2>6, <2>7 DEF Owned
<1>12. QED BY <1>10, <1>11

(* close() of a handle that is in order. *)
LEMMA CloseTidy ==
ASSUME TypeInv, PointInv, TidyInv, NEW f \in Files, Close(f) \/ CloseFails(f)
PROVE  TidyHandle(f)'
<1>1. hs[f] \in Handles /\ hs \in [Files -> Handles] /\ Points(f, hs[f], heap)
  BY DEF TypeInv, PointInv
<1>2. SUFFICES ASSUME ~hs'[f].messy, NEW o \in heap', o[1] = f
               PROVE  Left(f, o)'
  BY DEF TidyHandle
<1>3. /\ \A m \in BOOLEAN : /\ [Closed(f) EXCEPT !.messy = m].messy = m
                            /\ [Closed(f) EXCEPT !.messy = m].requests = hs[f].requests
  BY NewHandleIs DEF Closed, Handles
<1>4. CASE CloseFails(f)
  BY <1>1, <1>2, <1>3, <1>4 DEF CloseFails
<1>5. CASE Close(f)
  <2>1. /\ hs'[f].messy = (hs[f].messy \/ (~hs[f].mmapped /\ hs[f].slot # NoSlots))
        /\ hs'[f].requests = hs[f].requests /\ hs[f].open # "closed" /\ ~Mapped(f)
        /\ maps' = maps
    BY <1>1, <1>3, <1>5 DEF Close, Handles
  <2>2. /\ o \in heap /\ o \notin CloseBuffers(f) /\ o \notin IoctlsIn(f) /\ o \notin BufferArray(f)
        /\ o \notin HandleParts(f, Basics)
    BY <1>5 DEF Close, Basics
  <2>3. Left(f, o) \/ Owned(f, o)
    BY <1>2, <2>1, <2>2 DEF TidyInv, TidyHandle
  <2>4. ASSUME o \in AllBufferParts(f) PROVE FALSE
    <3>1. PICK i \in 0 .. hs[f].numbuffers - 1 : o \in BufferParts(f, i)
      BY <2>4 DEF AllBufferParts
    <3>2. hs[f].slot[i] # 0 /\ i \in Index
      BY <1>1, <3>1, PlanesTyped DEF BufferParts, Index, Handles
    <3>3. hs[f].mmapped /\ hs[f].buffers # 0
      BY <1>1, <1>2, <2>1, <3>2 DEF Points, NoSlots
    <3>4. QED BY <2>2, <2>4, <3>3 DEF CloseBuffers
  <2>5. ~AreaOf(f, o)
    BY <2>1 DEF AreaOf, Mapped
  <2>6. QED BY <2>1, <2>2, <2>3, <2>4, <2>5 DEF Owned, Left
<1>6. QED BY <1>4, <1>5

(* Nothing that is of use gets lost, in calls of the file and of others. *)
LEMMA NextTidy ==
ASSUME Signals = FALSE, TypeInv, PointInv, MapInv, CountInv, TidyInv, Next
PROVE  TidyInv'
<1>1. ASSUME NEW f \in Files, Calls(f), NEW g \in Files PROVE TidyHandle(g)'
  <2>1. CASE g = f
    BY <1>1, <2>1, CallsTidy, StopTidy, ReqTidy, CloseTidy
  <2>2. CASE g # f
    <3>1. hs'[g] = hs[g] /\ \A o \in heap' : o[1] = g => o \in heap
      BY <1>1, <2>2, CallsSound DEF Sound, Own, TypeInv
    <3>2. hs[g].numbuffers \in 0 .. MaxFrame
      BY DEF TypeInv, Handles
    <3>3. \A o : (Owned(g, o) => Owned(g, o)') /\ (Left(g, o) => Left(g, o)')
      BY <1>1, <3>1, <3>2, AreasKept, OwnedKept
    <3>4. QED BY <3>1, <3>3 DEF TidyInv, TidyHandle
  <2>3. QED BY <2>1, <2>2
<1>2. ASSUME NEW k \in 1 .. MaxMaps, Fork(k) \/ Unmap(k), NEW g \in Files PROVE TidyHandle(g)'
  <2>1. hs' = hs /\ heap' \subseteq heap
    BY <1>2, AreasPoint
  <2>2. PICK m : /\ maps' = [maps EXCEPT ![k] = m] /\ m.f = maps[k].f /\ m.g = maps[k].g
                 /\ m.areas > 0 \/ m.g = 0 \/ Obj(m.f, "pd", k, 0, 0) \notin heap'
    BY <1>2, AreasCount
  <2>3. \A j \in 1 .. MaxMaps : maps'[j].f = maps[j].f /\ maps'[j].g = maps[j].g
    BY <2>2 DEF MapInv
  <2>4. ASSUME NEW o \in heap', AreaOf(g, o) PROVE AreaOf(g, o)' \/ Left(g, o)'
    <3>1. PICK j \in 1 .. MaxMaps : o = Obj(g, "pd", j, 0, 0) /\ maps[j].f = g /\ maps[j].areas > 0
      BY <2>4 DEF AreaOf
    <3>2. maps'[j].f = g /\ (maps'[j].areas > 0 \/ maps'[j].g = 0)
      BY <2>2, <2>3, <2>4, <3>1 DEF MapInv
    <3>3. QED BY <3>1, <3>2 DEF AreaOf, Left
  <2>5. ASSUME NEW o \in heap' PROVE Left(g, o) => Left(g, o)'
    BY <2>1, <2>3 DEF Left
  <2>6. ASSUME NEW o \in heap' PROVE Owned(g, o) => Owned(g, o)' \/ Left(g, o)'
    BY <2>1, <2>4 DEF Owned, HandleParts, BufferArray, AllBufferParts, BufferParts, IoctlsIn
  <2>7. QED BY <2>1, <2>5, <2>6 DEF TidyInv, TidyHandle
<1>3. QED BY <1>1, <1>2, NextIs DEF TidyInv

(* A handle whose calls all succeeded leaves nothing behind when it is closed, *)
(* but the IO structures of its REQBUFS calls except the last and the private  *)
(* data of areas mapped from an empty entry.                                   *)
THEOREM ReturnsAll == ASSUME Signals = FALSE PROVE Spec => []CloseReturnsAll
<1>1. Init => TidyInv
  BY DEF Init, TidyInv, TidyHandle
<1>2. TypeInv /\ PointInv /\ MapInv /\ CountInv /\ TidyInv /\ [Next]_vars => TidyInv'
  <2> SUFFICES ASSUME TypeInv, PointInv, MapInv, CountInv, TidyInv, [Next]_vars PROVE TidyInv'
    OBVIOUS
  <2>1. CASE UNCHANGED vars
    <3>1. hs' = hs /\ heap' = heap /\ maps' = maps
      BY <2>1 DEF vars
    <3>2. QED BY <3>1 DEF TidyInv, TidyHandle, Owned, Left, HandleParts, BufferArray, AllBufferParts,
                          BufferParts, IoctlsIn, AreaOf, DmaParts
  <2>2. QED BY <2>1, NextTidy
<1>3. TidyInv => CloseReturnsAll
  BY DEF TidyInv, TidyHandle, CloseReturnsAll, Left, Obj
<1>4. QED BY <1>1, <1>2, <1>3, PointsAlways, CountAlways, PTL DEF Spec
================================================================================
