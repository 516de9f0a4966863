------------------------------ MODULE VidBufInv -------------------------------
(***************************************************************************)
(* Inductive invariants of VidBuf: what has to hold between the steps of   *)
(* rgb133_qbuf, rgb133_dqbuf and AttemptDMAStart for its properties to be  *)
(* preserved.  MCVidBuf checks them, VidBufProofs proves them.             *)
(***************************************************************************)
EXTENDS VidBuf

(* The application keeps to the interface: it queues only buffers it holds,  *)
(* does not block in DQBUF and does not poll; and the core completes each    *)
(* request by itself.                                                        *)
Disciplined ==
  /\ NonBlock /\ Polite /\ ~CoreBulk
  /\ \A t \in Threads : "poll" \notin Calls[t]

(* A process that works on a buffer works on one that exists. *)
Working == {"start", "request", "check", "complete", "signal", "gnib_write", "deliver"}

BufInRange == \A p \in Procs : pc[p] \in Working => buf[p] \in Buffers

(* h->pSem is free or taken by the one thread in the critical section. *)
SemInv ==
  /\ sem \in {0, 1}
  /\ \A t \in Threads : InSection(t) => sem = 0
  /\ MutualExclusion

(* The calls that a disciplined application never makes. *)
Avoided == {"gefb2", "count_active", "no_active", "wait", "after_wait",
            "gnib_read", "gnib_write", "poll_wait", "poll_requeue"}

Queueing(p)   == pc[p] \in {"qbuf_test", "qbuf_set"}
Filling(p)    == pc[p] \in {"start", "request", "check", "complete"}
Delivering(p) == pc[p] = "deliver"
Carries(p)    == Queueing(p) \/ Filling(p) \/ Delivering(p)

(* Each buffer has one owner: the application, a call that carries it, the   *)
(* queue, or the card.                                                       *)
OwnInv ==
  /\ \A t \in Threads : pc[t] \notin Avoided
  /\ \A i \in held : state[i] \in {"PREPARED", "IDLE"}
  /\ \A p \in Procs : Carries(p) => buf[p] \in Buffers \ held
  /\ \A p \in Procs : Queueing(p) => state[buf[p]] \in {"PREPARED", "IDLE"}
  /\ \A p \in Procs : Delivering(p) => state[buf[p]] = "IDLE"
  /\ \A p \in Procs : Filling(p) => state[buf[p]] = "ACTIVE" /\ dma[buf[p]] = 0
  /\ \A p, q \in Procs : Carries(p) /\ Carries(q) /\ buf[p] = buf[q] => p = q
  /\ \A i \in Buffers : dma[i] = 0 \/ (dma[i] = 1 /\ state[i] = "ACTIVE")

(* Filled buffers are numbered in the order in which they were completed. *)
CapInv ==
  /\ \A i \in Buffers : capNum[i] <= lastCap
  /\ \A i, j \in In("DONE") : capNum[i] = capNum[j] => i = j

(* All of it: what the lock, the marks and the numbers guarantee together. *)
QueueInv == BufInRange /\ SemInv /\ OwnInv /\ CapInv
===============================================================================
