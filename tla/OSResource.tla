------------------------------ MODULE OSResource ------------------------------
(***************************************************************************)
(* The executive resource of OSAPI.c: a lock for exclusive or shared       *)
(* access, with two queues of waiters.  Every call is one section under    *)
(* the resource's spinlock; a thread that has to wait sleeps afterwards on *)
(* a semaphore of its own, which the releasing thread ups.                 *)
(*                                                                         *)
(* A call that returns FALSE, because it was told not to wait or because   *)
(* kmalloc failed, changes nothing and is not an action here; neither is   *)
(* the release of a resource the caller does not own.                      *)
(***************************************************************************)
EXTENDS Integers, SequencesExt

CONSTANTS
  Threads,
  SharedNests,  (* a thread may acquire shared access while it has it      *)
  Upgrades,     (* a thread may acquire one access while it has the other  *)
  MaxDepth      (* bound on the acquisitions one thread holds, and on how  *)
                (* far numActive falls below zero                          *)

ASSUME ConstAssumption ==
  /\ SharedNests \in BOOLEAN
  /\ Upgrades \in BOOLEAN
  /\ MaxDepth \in Nat

VARIABLES
  owners,             (* Owners: threadId and numRecursive of each entry   *)
  exclusiveWaiters,   (* ExclusiveWaiters, the oldest at the head          *)
  sharedWaiters,      (* SharedWaiters, the oldest at the head             *)
  numActive,          (* an unsigned number: below zero it is not zero     *)
  numSharedWaiters,
  ownedExclusive,
  pc,                 (* running, or asleep in one of the two calls        *)
  upped,              (* the sleeping threads whose semaphore is up        *)
  hold,               (* the access each thread was told it has, how often *)
  stale               (* up() was called on an entry that has no semaphore *)

resVars == <<owners, exclusiveWaiters, sharedWaiters, numActive,
             numSharedWaiters, ownedExclusive>>
vars == <<resVars, pc, upped, hold, stale>>

Owner(t)   == [id |-> t, num |-> 1]
OwnerIds   == {owners[k].id : k \in DOMAIN owners}
OwnedBy(t) == t \in OwnerIds

(* The entry of t that a search from the head of Owners finds. *)
FirstOf(t, k) ==
  /\ k \in DOMAIN owners /\ owners[k].id = t
  /\ \A j \in 1 .. k - 1 : owners[j].id # t

(* What is undefined once the memory was corrupted is not followed up. *)
Running(t) == pc[t] = "run" /\ ~stale

Told(t, mode) == hold' = [hold EXCEPT ![t] = [mode |-> mode, depth |-> @.depth + 1]]

Sleep(t, where) == pc' = [pc EXCEPT ![t] = where]

-------------------------------------------------------------------------------
(* OSAcquireResourceExclusiveLite *)

MayAcquireExclusive(t) ==
  /\ Running(t)
  /\ hold[t].depth < MaxDepth
  /\ hold[t].mode = "shared" => Upgrades

ExclusiveFree(t) ==
  /\ MayAcquireExclusive(t)
  /\ numActive = 0
  /\ owners' = Append(owners, Owner(t))
  /\ numActive' = 1
  /\ ownedExclusive' = TRUE
  /\ Told(t, "exclusive")
  /\ UNCHANGED <<exclusiveWaiters, sharedWaiters, numSharedWaiters, pc, upped, stale>>

OwnsExclusively(t) == ownedExclusive /\ owners # <<>> /\ owners[1].id = t

ExclusiveRecursive(t) ==
  /\ MayAcquireExclusive(t)
  /\ numActive # 0 /\ OwnsExclusively(t)
  /\ owners' = [owners EXCEPT ![1].num = @ + 1]
  /\ numActive' = numActive + 1
  /\ Told(t, "exclusive")
  /\ UNCHANGED <<exclusiveWaiters, sharedWaiters, numSharedWaiters, ownedExclusive,
                 pc, upped, stale>>

(* Mutant: the newest waiter goes to the head of the list. *)
ExclusiveBusy_AtHead(t) ==
  /\ MayAcquireExclusive(t)
  /\ numActive # 0 /\ ~OwnsExclusively(t)
  /\ exclusiveWaiters' = <<t>> \o exclusiveWaiters
  /\ Sleep(t, "exclusive")
  /\ UNCHANGED <<owners, sharedWaiters, numActive, numSharedWaiters, ownedExclusive,
                 upped, hold, stale>>

ExclusiveBusy(t) ==
  /\ MayAcquireExclusive(t)
  /\ numActive # 0 /\ ~OwnsExclusively(t)
  /\ exclusiveWaiters' = Append(exclusiveWaiters, t)
  /\ Sleep(t, "exclusive")
  /\ UNCHANGED <<owners, sharedWaiters, numActive, numSharedWaiters, ownedExclusive,
                 upped, hold, stale>>

-------------------------------------------------------------------------------
(* OSAcquireResourceSharedLite *)

MayAcquireShared(t) ==
  /\ Running(t)
  /\ hold[t].depth < MaxDepth
  /\ hold[t].mode = "shared" => SharedNests
  /\ hold[t].mode = "exclusive" => Upgrades

(* Mutant: waiting for exclusive access is no obstacle. *)
SharedTerms_Overtake(t) == numActive = 0 \/ (~ownedExclusive /\ ~OwnedBy(t))

(* Mutant: an exclusive owner is no obstacle. *)
SharedTerms_Always(t) == numActive = 0 \/ (~OwnedBy(t) /\ exclusiveWaiters = <<>>)

SharedTerms(t) ==
  \/ numActive = 0
  \/ ~ownedExclusive /\ ~OwnedBy(t) /\ exclusiveWaiters = <<>>

SharedFree(t) ==
  /\ MayAcquireShared(t)
  /\ SharedTerms(t)
  /\ owners' = Append(owners, Owner(t))
  /\ numActive' = numActive + 1
  /\ ownedExclusive' = FALSE
  /\ Told(t, "shared")
  /\ UNCHANGED <<exclusiveWaiters, sharedWaiters, numSharedWaiters, pc, upped, stale>>

(* The entry counts the acquisition, numActive does not. *)
SharedRecursive(t) ==
  /\ MayAcquireShared(t)
  /\ ~SharedTerms(t) /\ ~ownedExclusive
  /\ numActive + MaxDepth > 0
  /\ \E k \in DOMAIN owners :
       FirstOf(t, k) /\ owners' = [owners EXCEPT ![k].num = @ + 1]
  /\ Told(t, "shared")
  /\ UNCHANGED <<exclusiveWaiters, sharedWaiters, numActive, numSharedWaiters,
                 ownedExclusive, pc, upped, stale>>

SharedBusy(t) ==
  /\ MayAcquireShared(t)
  /\ ~SharedTerms(t)
  /\ ownedExclusive \/ ~OwnedBy(t)
  /\ sharedWaiters' = Append(sharedWaiters, t)
  /\ numSharedWaiters' = numSharedWaiters + 1
  /\ Sleep(t, "shared")
  /\ UNCHANGED <<owners, exclusiveWaiters, numActive, ownedExclusive, upped, hold, stale>>

-------------------------------------------------------------------------------
(* down() returns in either call: the thread was made an owner meanwhile. *)

Acquired(t) ==
  /\ ~stale
  /\ pc[t] # "run" /\ t \in upped
  /\ Told(t, pc[t])
  /\ pc' = [pc EXCEPT ![t] = "run"]
  /\ upped' = upped \ {t}
  /\ UNCHANGED <<resVars, stale>>

-------------------------------------------------------------------------------
(* OSReleaseResourceLite *)

(* Mutant: the entry stays when its last acquisition is released. *)
Remaining_Kept(k) == [owners EXCEPT ![k].num = @ - 1]

(* Mutant: the entry goes with the first of its acquisitions. *)
Remaining_Gone(k) == RemoveAt(owners, k)

(* The owners' list after entry k gave up one acquisition. *)
Remaining(k) ==
  IF owners[k].num > 1
    THEN [owners EXCEPT ![k].num = @ - 1]
    ELSE RemoveAt(owners, k)

StillExclusive(k) == ownedExclusive /\ owners[k].num > 1

(* Nobody to hand over to, or acquisitions left. *)
Leave(k) ==
  /\ numActive # 1 \/ (exclusiveWaiters = <<>> /\ sharedWaiters = <<>>)
  /\ owners' = Remaining(k)
  /\ ownedExclusive' = StillExclusive(k)
  /\ numActive' = numActive - 1
  /\ UNCHANGED <<exclusiveWaiters, sharedWaiters, numSharedWaiters, upped, stale>>

HandToExclusive(k) ==
  /\ numActive = 1 /\ exclusiveWaiters # <<>>
  /\ owners' = Append(Remaining(k), Owner(Head(exclusiveWaiters)))
  /\ exclusiveWaiters' = Tail(exclusiveWaiters)
  /\ ownedExclusive' = TRUE
  /\ numActive' = 1
  /\ upped' = upped \cup {Head(exclusiveWaiters)}
  /\ UNCHANGED <<sharedWaiters, numSharedWaiters, stale>>

(* Mutant: the count of shared waiters is not reset. *)
HandToShared_KeepsCount(k) ==
  /\ numActive = 1 /\ exclusiveWaiters = <<>> /\ sharedWaiters # <<>>
  /\ owners' = [j \in DOMAIN sharedWaiters |-> Owner(sharedWaiters[j])]
               \o [j \in DOMAIN Remaining(k) |-> Owner(Remaining(k)[j].id)]
  /\ sharedWaiters' = <<>>
  /\ ownedExclusive' = FALSE
  /\ numActive' = numSharedWaiters
  /\ upped' = upped \cup ToSet(sharedWaiters)
  /\ stale' = (Remaining(k) # <<>>)
  /\ UNCHANGED <<exclusiveWaiters, numSharedWaiters>>

(* Mutant: only one shared waiter is moved. *)
HandToShared_One(k) ==
  /\ numActive = 1 /\ exclusiveWaiters = <<>> /\ sharedWaiters # <<>>
  /\ owners' = <<Owner(Last(sharedWaiters))>>
               \o [j \in DOMAIN Remaining(k) |-> Owner(Remaining(k)[j].id)]
  /\ sharedWaiters' = Front(sharedWaiters)
  /\ numSharedWaiters' = numSharedWaiters - 1
  /\ ownedExclusive' = FALSE
  /\ numActive' = 1
  /\ upped' = upped \cup {Last(sharedWaiters)}
  /\ stale' = (Remaining(k) # <<>>)
  /\ UNCHANGED exclusiveWaiters

(* All shared waiters move to the head of the owners' list in their order;  *)
(* then every entry of that list is reset and upped, one that was there     *)
(* before and has no semaphore included.                                    *)
HandToShared(k) ==
  /\ numActive = 1 /\ exclusiveWaiters = <<>> /\ sharedWaiters # <<>>
  /\ owners' = [j \in DOMAIN sharedWaiters |-> Owner(sharedWaiters[j])]
               \o [j \in DOMAIN Remaining(k) |-> Owner(Remaining(k)[j].id)]
  /\ sharedWaiters' = <<>>
  /\ numSharedWaiters' = 0
  /\ ownedExclusive' = FALSE
  /\ numActive' = numSharedWaiters
  /\ upped' = upped \cup ToSet(sharedWaiters)
  /\ stale' = (Remaining(k) # <<>>)
  /\ UNCHANGED exclusiveWaiters

Release(t) ==
  /\ Running(t)
  /\ \E k \in DOMAIN owners :
       FirstOf(t, k) /\ (Leave(k) \/ HandToExclusive(k) \/ HandToShared(k))
  /\ hold' = [hold EXCEPT ![t] = IF @.depth > 1
                                   THEN [mode |-> @.mode, depth |-> @.depth - 1]
                                   ELSE [mode |-> "none", depth |-> 0]]
  /\ UNCHANGED pc

-------------------------------------------------------------------------------
(* Specification *)

Init ==
  /\ owners = <<>> /\ exclusiveWaiters = <<>> /\ sharedWaiters = <<>>
  /\ numActive = 0 /\ numSharedWaiters = 0
  /\ ownedExclusive = FALSE
  /\ pc = [t \in Threads |-> "run"]
  /\ upped = {}
  /\ hold = [t \in Threads |-> [mode |-> "none", depth |-> 0]]
  /\ stale = FALSE

Acquire(t) ==
  \/ ExclusiveFree(t) \/ ExclusiveRecursive(t) \/ ExclusiveBusy(t)
  \/ SharedFree(t) \/ SharedRecursive(t) \/ SharedBusy(t)

Next == \E t \in Threads : Acquire(t) \/ Acquired(t) \/ Release(t)

Spec == Init /\ [][Next]_vars

(* A thread that was woken runs, and nobody keeps the resource for ever or *)
(* goes on acquiring it again without ever giving it up.                   *)
LastRelease(t) == hold[t].depth = 1 /\ Release(t)

Fairness ==
  \A t \in Threads :
    WF_vars(Acquired(t)) /\ WF_vars(Release(t)) /\ SF_vars(LastRelease(t))

FairSpec == Spec /\ Fairness

-------------------------------------------------------------------------------
(* Properties *)

Modes == {"exclusive", "shared"}

OwnerEntry == [id : Threads, num : Nat \ {0}]

(* Every variable has its type; an entry of Owners counts at least one. *)
TypeOK ==
  /\ owners \in Seq(OwnerEntry)
  /\ exclusiveWaiters \in Seq(Threads)
  /\ sharedWaiters \in Seq(Threads)
  /\ numActive \in Int
  /\ numSharedWaiters \in Nat
  /\ ownedExclusive \in BOOLEAN
  /\ pc \in [Threads -> Modes \cup {"run"}]
  /\ upped \in SUBSET Threads
  /\ hold \in [Threads -> [mode : Modes \cup {"none"}, depth : Nat]]
  /\ stale \in BOOLEAN

(* A thread that was told it has exclusive access is alone: "Only wake up if *)
(* currently resource is not owned", and no other call admits a thread       *)
(* besides it.                                                               *)
ExclusiveAlone ==
  \A t, u \in Threads :
    hold[t].mode = "exclusive" /\ hold[u].mode # "none" => t = u

(* The counters agree with the lists, each thread is in them once, and those *)
(* who were told they have access are the owners that do not sleep: what a   *)
(* release decides by.                                                       *)
Distinct(s) == \A j, k \in DOMAIN s : s[j] = s[k] => j = k

CountInv ==
  /\ \A j, k \in DOMAIN owners : owners[j].id = owners[k].id => j = k
  /\ ownedExclusive => Len(owners) = 1 /\ numActive = owners[1].num
  /\ ~ownedExclusive => numActive = Len(owners)
                        /\ \A k \in DOMAIN owners : owners[k].num = 1
  /\ numSharedWaiters = Len(sharedWaiters)

WaitInv ==
  /\ Distinct(exclusiveWaiters) /\ Distinct(sharedWaiters)
  /\ \A t \in ToSet(exclusiveWaiters) : pc[t] = "exclusive" /\ t \notin upped
  /\ \A t \in ToSet(sharedWaiters) : pc[t] = "shared" /\ t \notin upped
  /\ owners = <<>> => exclusiveWaiters = <<>> /\ sharedWaiters = <<>>
  /\ sharedWaiters # <<>> => ownedExclusive \/ exclusiveWaiters # <<>>
  /\ ~stale

HoldInv ==
  /\ \A t \in Threads : hold[t].mode = "none" <=> hold[t].depth = 0
  /\ \A t \in Threads : hold[t].mode # "none" => OwnedBy(t) /\ t \notin upped
  /\ \A t \in Threads : hold[t].mode # "none" =>
       (hold[t].mode = "exclusive" <=> ownedExclusive)
  /\ \A k \in DOMAIN owners : owners[k].id \notin upped =>
       hold[owners[k].id].depth = owners[k].num
  /\ \A t \in upped :
       /\ OwnedBy(t)
       /\ pc[t] = IF ownedExclusive THEN "exclusive" ELSE "shared"
       /\ \A k \in DOMAIN owners : owners[k].id = t => owners[k].num = 1

ResourceInv == CountInv /\ WaitInv /\ HoldInv

(* However wrong the counter is, the list loses no acquisition: what a       *)
(* thread was told it has it can release.                                    *)
EntriesOf(t) == {k \in DOMAIN owners : owners[k].id = t}

HoldersListed ==
  ~stale => \A t \in Threads :
    pc[t] = "run" =>
      hold[t].depth = MapThenSumSet(LAMBDA k : owners[k].num, EntriesOf(t))

(* Exclusive waiters get priority: one is served after finitely many holders *)
(* have released the resource, and its wakeup is not lost.                   *)
WriterServed == \A t \in Threads : pc[t] = "exclusive" ~> pc[t] = "run"

(* Once the exclusive waiters stay away, no shared waiter is left asleep.    *)
ReaderServed ==
  <>[](exclusiveWaiters = <<>>) =>
    \A t \in Threads : pc[t] = "shared" ~> pc[t] = "run"

(* The resource implements the lock that RWLock states.                      *)
RW == INSTANCE RWLock WITH
        holders <- OwnerIds,
        exclusive <- ownedExclusive,
        line <- exclusiveWaiters,
        crowd <- ToSet(sharedWaiters)

RWLockSpec == RW!Spec
===============================================================================
