----------------------------- MODULE MCOSResource -----------------------------
(* Model values for the runs of OSResource: three threads are enough for an  *)
(* owner, a waiter and a second waiter of the same or of the other kind.     *)
EXTENDS OSResource

CONSTANTS t1, t2, t3

Alike == Permutations({t1, t2, t3})
===============================================================================
