------------------------------- MODULE MCVidBuf -------------------------------
(* Model values and scenarios for the runs of VidBuf.                       *)
EXTENDS VidBufInv, TLC

CONSTANTS t1, t2

(* Two threads of one application: both queue and dequeue, the second also  *)
(* starts and stops the stream.                                             *)
TwoCallers == (t1 :> {"qbuf", "dqbuf"})
              @@ (t2 :> {"qbuf", "dqbuf", "streamon", "streamoff"})

(* One thread captures, all else is in the other one.                       *)
CaptureAndControl == (t1 :> {"qbuf", "dqbuf"}) @@ (t2 :> {"qbuf", "streamon", "streamoff"})

(* One thread dequeues; the other queues, polls and controls the stream.    *)
DequeueAndPoll == (t1 :> {"dqbuf"}) @@ (t2 :> {"qbuf", "poll", "streamon", "streamoff"})

(* An application of one thread that does not poll.                         *)
OneCaller == (t1 :> {"qbuf", "dqbuf", "streamon", "streamoff"})

InRange == 0 .. NumBuffers - 1
InRangeOrBeyond == (0 .. NumBuffers + 1) \ {NumBuffers}
===============================================================================
