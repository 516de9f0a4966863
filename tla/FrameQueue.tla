------------------------------ MODULE FrameQueue ------------------------------
(***************************************************************************)
(* What the streaming interface of one capture handle promises an          *)
(* application, with every lock, event and thread of the driver left out.  *)
(*                                                                         *)
(* Each buffer the handle owns is in exactly one place: with the           *)
(* application, queued for capture, being filled by the card, or filled    *)
(* and waiting to be dequeued.  Filled buffers leave in the order in which *)
(* they were filled.                                                       *)
(***************************************************************************)

CONSTANT Buffers      (* the buffers VIDIOC_REQBUFS created                *)

VARIABLES
  where,              (* the place each buffer is in                       *)
  before              (* <<i, j>>: filled i was completed before filled j  *)

vars == <<where, before>>

Places == {"app", "queued", "filling", "filled"}

Filled == {i \in Buffers : where[i] = "filled"}

TypeOK ==
  /\ where \in [Buffers -> Places]
  /\ before \in SUBSET (Buffers \X Buffers)

Move(i, from, to) ==
  /\ where[i] = from
  /\ where' = [where EXCEPT ![i] = to]

Init ==
  /\ where = [i \in Buffers |-> "app"]
  /\ before = {}

(* VIDIOC_QBUF: the application gives a buffer away. *)
Queue(i) == Move(i, "app", "queued") /\ UNCHANGED before

(* The driver turns a queued buffer into a DMA target. *)
Start(i) == Move(i, "queued", "filling") /\ UNCHANGED before

(* The capture of i is over: i is now the latest of the filled buffers. *)
Finish(i) ==
  /\ Move(i, "filling", "filled")
  /\ before' = before \cup (Filled \X {i})

(* VIDIOC_DQBUF: only the buffer that was filled first may leave. *)
Deliver(i) ==
  /\ \A j \in Filled \ {i} : <<i, j>> \in before
  /\ Move(i, "filled", "app")
  /\ before' = {p \in before : p[1] # i /\ p[2] # i}

Next == \E i \in Buffers : Queue(i) \/ Start(i) \/ Finish(i) \/ Deliver(i)

Spec == Init /\ [][Next]_vars
===============================================================================
