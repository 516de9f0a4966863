------------------------------- MODULE MCOSEvent -------------------------------
(* Model values for the runs of OSEvent: two threads wait without a timeout  *)
(* and one with it, as STREAMOFF and DQBUF wait for MultiBufferEvent.        *)
EXTENDS OSEvent, TLC

CONSTANTS t1, t2, t3, s1
================================================================================
