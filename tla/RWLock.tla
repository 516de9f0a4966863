-------------------------------- MODULE RWLock --------------------------------
(***************************************************************************)
(* What an OSRESOURCE promises its users: one exclusive holder or several  *)
(* shared ones, exclusive waiters served before shared ones and in the     *)
(* order in which they came, shared waiters admitted all together.         *)
(***************************************************************************)
EXTENDS Sequences

CONSTANT Threads

VARIABLES
  holders,            (* the threads the resource was granted to           *)
  exclusive,          (* it was granted for exclusive access               *)
  line,               (* the exclusive waiters, the oldest first           *)
  crowd               (* the shared waiters                                *)

vars == <<holders, exclusive, line, crowd>>

TypeOK ==
  /\ holders \in SUBSET Threads
  /\ exclusive \in BOOLEAN
  /\ line \in Seq(Threads)
  /\ crowd \in SUBSET Threads

Init ==
  /\ holders = {}
  /\ exclusive = FALSE
  /\ line = <<>>
  /\ crowd = {}

(* OSAcquireResourceSharedLite: at once, unless a writer is in or waits. *)
Read(t) ==
  /\ ~exclusive /\ line = <<>>
  /\ holders' = holders \cup {t}
  /\ UNCHANGED <<exclusive, line, crowd>>

WaitToRead(t) ==
  /\ exclusive \/ line # <<>>
  /\ crowd' = crowd \cup {t}
  /\ UNCHANGED <<holders, exclusive, line>>

(* OSAcquireResourceExclusiveLite: at once, if nobody is in. *)
Write(t) ==
  /\ holders = {}
  /\ holders' = {t}
  /\ exclusive' = TRUE
  /\ UNCHANGED <<line, crowd>>

WaitToWrite(t) ==
  /\ holders # {}
  /\ line' = Append(line, t)
  /\ UNCHANGED <<holders, exclusive, crowd>>

(* OSReleaseResourceLite: the last holder hands the resource over. *)
Leave(t) ==
  /\ t \in holders /\ holders # {t}
  /\ holders' = holders \ {t}
  /\ UNCHANGED <<exclusive, line, crowd>>

LeaveToWriter(t) ==
  /\ holders = {t}
  /\ line # <<>>
  /\ holders' = {Head(line)}
  /\ exclusive' = TRUE
  /\ line' = Tail(line)
  /\ UNCHANGED crowd

LeaveToReaders(t) ==
  /\ holders = {t}
  /\ line = <<>>
  /\ holders' = crowd
  /\ exclusive' = FALSE
  /\ crowd' = {}
  /\ UNCHANGED line

Next ==
  \E t \in Threads :
    \/ Read(t) \/ WaitToRead(t) \/ Write(t) \/ WaitToWrite(t)
    \/ Leave(t) \/ LeaveToWriter(t) \/ LeaveToReaders(t)

Spec == Init /\ [][Next]_vars
===============================================================================
