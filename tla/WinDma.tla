--------------------------------- MODULE WinDma --------------------------------
(***************************************************************************)
(* Memory for DMA: the pages of a buffer are locked and listed when it is  *)
(* made (rgb133sg.c, MmProbeAndLockPages), the list is mapped for the      *)
(* board and copied to one in Windows form each time the core starts a     *)
(* transfer (GetScatterGatherList), unmapped after it, and the pages are   *)
(* released with the buffer.  Addresses are numbers, of a page and a byte  *)
(* in it; a page stands for the frame that holds it.                       *)
(*                                                                         *)
(* dma_map_sg may merge neighbouring pages, and may fail; the driver goes  *)
(* on all the same, with what the array of elements held before.           *)
(***************************************************************************)
EXTENDS Naturals, Sequences, FiniteSets

CONSTANTS
  PageSize,
  MaxAddress,   (* bound on the addresses of buffers                         *)
  Buffers       (* indices of the buffers of a handle                        *)

ASSUME DmaAssumption ==
  /\ PageSize \in Nat \ {0} /\ MaxAddress \in Nat
  /\ Buffers \subseteq Nat /\ IsFiniteSet(Buffers)

VARIABLES
  mdl,          (* start, size and access mode of each buffer, or NoMdl      *)
  pmap,         (* its pages; NoPage where locking fell short                *)
  refs,         (* references to each page                                   *)
  sgArray,      (* pSGArray: the elements of the last mappings of a buffer   *)
  segs,         (* SG_length: elements dma_map_sg made last, 0 if it failed  *)
  winSGL,       (* the list in Windows form, as the core has it              *)
  mapped        (* buffers whose list the core has for a transfer            *)

dmaVars == <<mdl, pmap, refs, sgArray, segs, winSGL, mapped>>

NoMdl  == [start |-> 0, size |-> 0, mode |-> "none"]
NoPage == MaxAddress + 1
Page   == 0 .. MaxAddress

-------------------------------------------------------------------------------
(* rgb133_get_page_info *)
FirstPage(m) == m.start \div PageSize
LastPage(m)  == (m.start + m.size - 1) \div PageSize
PageCount(m) == LastPage(m) - FirstPage(m) + 1
Offset(m)    == m.start % PageSize

(* Mutant: the tail of a buffer in one page counts from the page's start. *)
PageTail_SinglePage(m) == 1 + ((m.start + m.size - 1) % PageSize)

PageTail(m) == LET tail == 1 + ((m.start + m.size - 1) % PageSize) IN
  IF PageCount(m) = 1 THEN tail - Offset(m) ELSE tail

(* rgb133_kernel_dma_fill_sg_list: the part of the buffer in its i-th page. *)
SGOffset(m, i) == IF i = 1 THEN Offset(m) ELSE 0
SGLength(m, i) == IF i = PageCount(m) THEN PageTail(m) ELSE PageSize - SGOffset(m, i)

(* dma_map_sg: the page each element begins with.  Pages that follow each  *)
(* other may become one element; no elements when nothing can be mapped.   *)
DmaMapSg(m) ==
  {<<>>} \cup
  {at \in UNION {[1 .. n -> 1 .. PageCount(m)] : n \in 1 .. PageCount(m)} :
     at[1] = 1 /\ \A k \in 2 .. Len(at) : at[k - 1] < at[k]}

(* The bytes of the buffer in its pages from the i-th to the j-th. *)
RunLength(m, i, j) ==
  IF i = j THEN SGLength(m, i)
  ELSE SGLength(m, i) + (j - i - 1) * PageSize + SGLength(m, j)

Element(m, pages, at, k) ==
  LET last == IF k = Len(at) THEN PageCount(m) ELSE at[k + 1] - 1 IN
  [src |-> pages[at[k]] * PageSize + SGOffset(m, at[k]), size |-> RunLength(m, at[k], last)]

NoElement == [src |-> 0, size |-> 0]

(* rgb133_kernel_dma_fill_sg_array: the elements there are now, before what *)
(* is left of earlier mappings.  (Destinations stay in the driver and are   *)
(* left out.)                                                               *)
SGArray(m, pages, at, old) ==
  [i \in 1 .. PageCount(m) |-> IF i <= Len(at) THEN Element(m, pages, at, i) ELSE old[i]]

-------------------------------------------------------------------------------
DmaInit ==
  /\ mdl = [b \in Buffers |-> NoMdl]
  /\ pmap = [b \in Buffers |-> <<>>]
  /\ refs = [p \in Page |-> 0]
  /\ sgArray = [b \in Buffers |-> <<>>]
  /\ segs = [b \in Buffers |-> 0]
  /\ winSGL = [b \in Buffers |-> <<>>]
  /\ mapped = {}

Made(b) == mdl[b] # NoMdl
InMap(p, pages) == \E i \in DOMAIN pages : pages[i] = p

(* Of user memory the kernel may lock the first pages only. *)
MmProbeAndLockPages(m, got) ==
  [i \in 1 .. PageCount(m) |-> IF i <= got THEN FirstPage(m) + i - 1 ELSE NoPage]

(* rgb133_init_kernel_dma, which is not told how many were locked; memory  *)
(* of the kernel needs no lock.  The application gives each buffer memory  *)
(* of its own.                                                             *)
InitKernelDma(b, m, got) ==
  /\ ~Made(b)
  /\ got \in 0 .. PageCount(m)
  /\ m.mode = "kernel" => got = PageCount(m)
  /\ \A c \in Buffers : mdl[c].start # m.start
  /\ mdl' = [mdl EXCEPT ![b] = m]
  /\ pmap' = [pmap EXCEPT ![b] = MmProbeAndLockPages(m, got)]
  /\ refs' = [p \in Page |-> IF m.mode = "user" /\ InMap(p, pmap'[b]) THEN refs[p] + 1 ELSE refs[p]]
  /\ sgArray' = [sgArray EXCEPT ![b] = [i \in 1 .. PageCount(m) |-> NoElement]]
  /\ segs' = [segs EXCEPT ![b] = 0]
  /\ UNCHANGED <<winSGL, mapped>>

(* CaptureGetLiveBuffer: the buffer at an address.  (It would be the first *)
(* one of a handle that is reading, but nothing ever sets that flag.)      *)
CaptureGetLiveBuffer(va) == {b \in Buffers : Made(b) /\ mdl[b].start = va}

(* As many elements as the buffer has pages are copied to the list and     *)
(* given to the core, however many dma_map_sg made.                        *)
LinuxGetScatterGatherList(va) ==
  \E b \in CaptureGetLiveBuffer(va) : \E at \in DmaMapSg(mdl[b]) :
    /\ b \notin mapped
    /\ segs' = [segs EXCEPT ![b] = Len(at)]
    /\ sgArray' = [sgArray EXCEPT ![b] = SGArray(mdl[b], pmap[b], at, @)]
    /\ winSGL' = [winSGL EXCEPT ![b] = sgArray'[b]]
    /\ mapped' = mapped \cup {b}
    /\ UNCHANGED <<mdl, pmap, refs>>

LinuxPutScatterGatherList(b) ==
  /\ b \in mapped
  /\ mapped' = mapped \ {b}
  /\ UNCHANGED <<mdl, pmap, refs, sgArray, segs, winSGL>>

(* Mutant: as many pages as the size makes, wherever the buffer starts. *)
MmUnlockPages_BySize(b) ==
  LET pages == {pmap[b][i] : i \in 1 .. (mdl[b].size + PageSize - 1) \div PageSize} IN
  IF mdl[b].mode = "user" THEN pages ELSE {}

MmUnlockPages(b) ==
  LET pages == {pmap[b][i] : i \in 1 .. PageCount(mdl[b])} IN
  IF mdl[b].mode = "user" THEN pages ELSE {}

(* rgb133_uninit_kernel_dma, once the core is done with the buffer. *)
UninitKernelDma(b) ==
  /\ Made(b) /\ b \notin mapped
  /\ refs' = [p \in Page |-> IF p \in MmUnlockPages(b) THEN refs[p] - 1 ELSE refs[p]]
  /\ mdl' = [mdl EXCEPT ![b] = NoMdl]
  /\ pmap' = [pmap EXCEPT ![b] = <<>>]
  /\ sgArray' = [sgArray EXCEPT ![b] = <<>>]
  /\ winSGL' = [winSGL EXCEPT ![b] = <<>>]
  /\ UNCHANGED <<segs, mapped>>

Mdl == {m \in [start : 1 .. MaxAddress, size : 1 .. MaxAddress, mode : {"user", "kernel"}] :
          m.start + m.size <= MaxAddress}

DmaNext ==
  \/ \E b \in Buffers :
       \/ \E m \in Mdl, got \in 0 .. MaxAddress : InitKernelDma(b, m, got)
       \/ LinuxPutScatterGatherList(b) \/ UninitKernelDma(b)
  \/ \E va \in 0 .. MaxAddress : LinuxGetScatterGatherList(va)

DmaSpec == DmaInit /\ [][DmaNext]_dmaVars

-------------------------------------------------------------------------------
(* The elements cover [start, start + size) in order. *)
Covers(sgl, m) ==
  /\ sgl # <<>> /\ sgl[1].src = m.start
  /\ sgl[Len(sgl)].src + sgl[Len(sgl)].size = m.start + m.size
  /\ \A i \in 1 .. Len(sgl) :
       sgl[i].size > 0 /\ (i > 1 => sgl[i].src = sgl[i - 1].src + sgl[i - 1].size)

Locked(b) == NoPage \notin {pmap[b][i] : i \in DOMAIN pmap[b]}

(* Whatever the alignment of a buffer and the pages that are merged: of a  *)
(* mapping that did not fail, the elements dma_map_sg made are the first   *)
(* of the core's list and cover exactly the bytes of the buffer, if all of *)
(* its pages could be locked.                                              *)
BoardHasBuffer ==
  \A b \in mapped : segs[b] # 0 /\ Locked(b) =>
    segs[b] <= Len(winSGL[b]) /\ Covers(SubSeq(winSGL[b], 1, segs[b]), mdl[b])

(* A page has a reference for every user buffer on it that was locked; the *)
(* last one goes with the buffer, in full or in part.                      *)
PagesHeld ==
  \A p \in Page :
    refs[p] = Cardinality({b \in Buffers : mdl[b].mode = "user" /\ InMap(p, pmap[b])})
===============================================================================
