--------------------------- MODULE OSResourceProofs ---------------------------
(***************************************************************************)
(* Theorems about OSResource, for any number of threads.  The last of them *)
(* needs induction over data: sums over sets of entries of any size.       *)
(***************************************************************************)
EXTENDS OSResource, FiniteSetTheorems, WellFoundedInduction, TLAPS

(* Taking one entry out of a list keeps the others and their order. *)
LEMMA RemoveAtFacts ==
ASSUME NEW S, NEW s \in Seq(S), NEW k \in DOMAIN s
PROVE  /\ RemoveAt(s, k) \in Seq(S)
       /\ Len(RemoveAt(s, k)) = Len(s) - 1
       /\ DOMAIN RemoveAt(s, k) = 1 .. Len(s) - 1
       /\ \A j \in 1 .. Len(s) - 1 : RemoveAt(s, k)[j] = IF j < k THEN s[j] ELSE s[j + 1]
<1> DEFINE a == SubSeq(s, 1, k - 1)
           b == SubSeq(s, k + 1, Len(s))
<1>1. k \in 1 .. Len(s) /\ Len(s) \in Nat
  OBVIOUS
<1>2. a \in Seq(S) /\ Len(a) = k - 1 /\ \A j \in 1 .. k - 1 : a[j] = s[j]
  BY <1>1
<1>3. b \in Seq(S) /\ Len(b) = Len(s) - k /\ \A j \in 1 .. Len(s) - k : b[j] = s[j + k]
  BY <1>1
<1>4. RemoveAt(s, k) = a \o b
  BY DEF RemoveAt
<1> HIDE DEF a, b
<1>5. QED BY <1>1, <1>2, <1>3, <1>4

(* What is left of the owners' list when entry k gives up an acquisition. *)
LEMMA RemainingType ==
ASSUME TypeOK, NEW k \in DOMAIN owners
PROVE  Remaining(k) \in Seq(OwnerEntry)
<1>1. CASE owners[k].num > 1
  <2>1. owners[k] \in OwnerEntry /\ k \in 1 .. Len(owners) /\ Len(owners) \in Nat
    BY DEF TypeOK
  <2>2. [owners[k] EXCEPT !.num = @ - 1] \in OwnerEntry
    BY <1>1, <2>1 DEF OwnerEntry
  <2>3. [owners EXCEPT ![k] = [owners[k] EXCEPT !.num = @ - 1]] \in Seq(OwnerEntry)
    BY <2>1, <2>2 DEF TypeOK
  <2>4. Remaining(k) = [owners EXCEPT ![k] = [owners[k] EXCEPT !.num = @ - 1]]
    BY <1>1 DEF Remaining
  <2>5. QED BY <2>3, <2>4
<1>2. CASE ~(owners[k].num > 1)
  BY <1>2, RemoveAtFacts DEF TypeOK, Remaining
<1>3. QED BY <1>1, <1>2

(* A step keeps the types. *)
LEMMA TypeStep ==
ASSUME TypeOK, [Next]_vars
PROVE  TypeOK'
<1> USE DEF Modes
<1>1. ASSUME NEW t \in Threads, ExclusiveFree(t) PROVE TypeOK'
  <2>1. Owner(t) \in OwnerEntry
    BY DEF Owner, OwnerEntry
  <2>2. owners' \in Seq(OwnerEntry)
    BY <1>1, <2>1 DEF TypeOK, ExclusiveFree
  <2>3. QED BY <1>1, <2>2 DEF TypeOK, ExclusiveFree, Told
<1>2. ASSUME NEW t \in Threads, ExclusiveRecursive(t) PROVE TypeOK'
  <2>1. owners[1] \in OwnerEntry /\ 1 \in 1 .. Len(owners)
    BY <1>2 DEF TypeOK, ExclusiveRecursive, OwnsExclusively
  <2>2. [owners[1] EXCEPT !.num = @ + 1] \in OwnerEntry
    BY <2>1 DEF OwnerEntry
  <2>3. owners' \in Seq(OwnerEntry)
    BY <1>2, <2>1, <2>2 DEF TypeOK, ExclusiveRecursive
  <2>4. QED BY <1>2, <2>3 DEF TypeOK, ExclusiveRecursive, Told
<1>3. ASSUME NEW t \in Threads, ExclusiveBusy(t) PROVE TypeOK'
  BY <1>3 DEF TypeOK, ExclusiveBusy, Sleep
<1>4. ASSUME NEW t \in Threads, SharedFree(t) PROVE TypeOK'
  <2>1. Owner(t) \in OwnerEntry
    BY DEF Owner, OwnerEntry
  <2>2. owners' \in Seq(OwnerEntry)
    BY <1>4, <2>1 DEF TypeOK, SharedFree
  <2>3. ownedExclusive' \in BOOLEAN
    BY <1>4 DEF SharedFree
  <2>4. hold' \in [Threads -> [mode : Modes \cup {"none"}, depth : Nat]]
    BY <1>4 DEF TypeOK, SharedFree, Told
  <2>5. QED BY <1>4, <2>2, <2>3, <2>4 DEF TypeOK, SharedFree
<1>5. ASSUME NEW t \in Threads, SharedRecursive(t) PROVE TypeOK'
  <2>1. PICK k \in DOMAIN owners : owners' = [owners EXCEPT ![k].num = @ + 1]
    BY <1>5 DEF SharedRecursive
  <2>2. owners[k] \in OwnerEntry /\ k \in 1 .. Len(owners)
    BY DEF TypeOK
  <2>3. [owners[k] EXCEPT !.num = @ + 1] \in OwnerEntry
    BY <2>2 DEF OwnerEntry
  <2>4. owners' \in Seq(OwnerEntry)
    BY <2>1, <2>2, <2>3 DEF TypeOK
  <2>5. QED BY <1>5, <2>4 DEF TypeOK, SharedRecursive, Told
<1>6. ASSUME NEW t \in Threads, SharedBusy(t) PROVE TypeOK'
  BY <1>6 DEF TypeOK, SharedBusy, Sleep
<1>7. ASSUME NEW t \in Threads, Acquired(t) PROVE TypeOK'
  <2>1. pc[t] \in Modes
    BY <1>7 DEF TypeOK, Acquired
  <2>2. QED BY <1>7, <2>1 DEF TypeOK, Acquired, Told, resVars
<1>8. ASSUME NEW t \in Threads, Release(t) PROVE TypeOK'
  <2>1. hold' \in [Threads -> [mode : Modes \cup {"none"}, depth : Nat]] /\ pc' = pc
    <3>1. hold[t] \in [mode : Modes \cup {"none"}, depth : Nat]
      BY DEF TypeOK
    <3> DEFINE left == IF hold[t].depth > 1 THEN [mode |-> hold[t].mode, depth |-> hold[t].depth - 1]
                                            ELSE [mode |-> "none", depth |-> 0]
    <3>2. left \in [mode : Modes \cup {"none"}, depth : Nat]
      BY <3>1
    <3>3. hold' = [hold EXCEPT ![t] = left] /\ pc' = pc
      BY <1>8 DEF Release
    <3> HIDE DEF left
    <3>4. QED BY <3>2, <3>3 DEF TypeOK
  <2>2. PICK k \in DOMAIN owners : Leave(k) \/ HandToExclusive(k) \/ HandToShared(k)
    BY <1>8 DEF Release
  <2>3. Remaining(k) \in Seq(OwnerEntry)
    BY RemainingType
  <2>4. CASE Leave(k)
    BY <2>1, <2>3, <2>4 DEF TypeOK, Leave, StillExclusive
  <2>5. CASE HandToExclusive(k)
    <3>1. Head(exclusiveWaiters) \in Threads /\ Tail(exclusiveWaiters) \in Seq(Threads)
      BY <2>5 DEF TypeOK, HandToExclusive
    <3>2. Owner(Head(exclusiveWaiters)) \in OwnerEntry
      BY <3>1 DEF Owner, OwnerEntry
    <3>3. owners' \in Seq(OwnerEntry)
      BY <2>3, <2>5, <3>2 DEF HandToExclusive
    <3>4. QED BY <2>1, <2>5, <3>1, <3>3 DEF TypeOK, HandToExclusive
  <2>6. CASE HandToShared(k)
    <3>1. \A j \in DOMAIN sharedWaiters : Owner(sharedWaiters[j]) \in OwnerEntry
      BY DEF TypeOK, Owner, OwnerEntry
    <3>2. [j \in DOMAIN sharedWaiters |-> Owner(sharedWaiters[j])] \in Seq(OwnerEntry)
      <4>1. DOMAIN sharedWaiters = 1 .. Len(sharedWaiters) /\ Len(sharedWaiters) \in Nat
        BY DEF TypeOK
      <4>2. QED BY <3>1, <4>1
    <3>3. \A j \in DOMAIN Remaining(k) : Owner(Remaining(k)[j].id) \in OwnerEntry
      <4>1. \A j \in DOMAIN Remaining(k) : Remaining(k)[j] \in OwnerEntry
        BY <2>3
      <4>2. QED BY <4>1 DEF Owner, OwnerEntry
    <3>4. [j \in DOMAIN Remaining(k) |-> Owner(Remaining(k)[j].id)] \in Seq(OwnerEntry)
      <4>1. /\ DOMAIN Remaining(k) = 1 .. Len(Remaining(k))
            /\ Len(Remaining(k)) \in Nat
        BY <2>3
      <4>2. QED BY <3>3, <4>1
    <3>5. owners' \in Seq(OwnerEntry)
      BY <2>6, <3>2, <3>4 DEF HandToShared
    <3>6. ToSet(sharedWaiters) \subseteq Threads
      BY DEF TypeOK, ToSet
    <3>7. stale' \in BOOLEAN
      BY <2>6 DEF HandToShared
    <3>8. ownedExclusive' \in BOOLEAN /\ upped' \in SUBSET Threads
      BY <2>6, <3>6 DEF TypeOK, HandToShared
    <3>9. /\ sharedWaiters' = <<>> /\ exclusiveWaiters' = exclusiveWaiters
          /\ numSharedWaiters' = 0 /\ numActive' = numSharedWaiters
      BY <2>6 DEF HandToShared
    <3>10. QED BY <2>1, <3>5, <3>7, <3>8, <3>9 DEF TypeOK
  <2>7. QED BY <2>2, <2>4, <2>5, <2>6
<1>9. CASE UNCHANGED vars
  BY <1>9 DEF TypeOK, vars, resVars
<1>10. QED
  BY <1>1, <1>2, <1>3, <1>4, <1>5, <1>6, <1>7, <1>8, <1>9 DEF Next, Acquire

(* The types hold at first. *)
LEMMA TypeInit == Init => TypeOK
<1> SUFFICES ASSUME Init PROVE TypeOK
  OBVIOUS
<1>1. ownedExclusive \in BOOLEAN /\ stale \in BOOLEAN
  BY DEF Init
<1>2. hold \in [Threads -> [mode : Modes \cup {"none"}, depth : Nat]]
  BY DEF Init
<1>3. QED BY <1>1, <1>2 DEF Init, TypeOK, Modes

(* TypeOK: the variables keep their types, for any number of threads and *)
(* with nested acquisitions of either kind.                              *)
THEOREM ResourceTypeCorrect == Spec => []TypeOK
<1>1. TypeOK /\ [Next]_vars => TypeOK'
  BY TypeStep
<1>2. QED BY TypeInit, <1>1, PTL DEF Spec

(* An entry of Owners is a record of a thread and a positive number. *)
LEMMA EntryFacts ==
ASSUME TypeOK, NEW k \in DOMAIN owners
PROVE  /\ k \in 1 .. Len(owners) /\ Len(owners) \in Nat
       /\ owners[k].id \in Threads
       /\ owners[k].num \in Nat \ {0}
<1>1. owners[k] \in OwnerEntry /\ k \in 1 .. Len(owners) /\ Len(owners) \in Nat
  BY DEF TypeOK
<1>2. QED BY <1>1 DEF OwnerEntry

(* A resource with no active owner has no owner, no waiter and no sleeper. *)
LEMMA Unowned ==
ASSUME TypeOK, ResourceInv, numActive = 0
PROVE  /\ owners = <<>> /\ OwnerIds = {}
       /\ exclusiveWaiters = <<>> /\ sharedWaiters = <<>>
       /\ ~ownedExclusive /\ upped = {}
       /\ \A t \in Threads : hold[t].mode = "none" /\ hold[t].depth = 0
<1>1. Len(owners) \in Nat /\ DOMAIN owners = 1 .. Len(owners)
  BY DEF TypeOK
<1>2. ~ownedExclusive
  <2>1. SUFFICES ASSUME ownedExclusive PROVE FALSE
    OBVIOUS
  <2>2. 1 \in DOMAIN owners /\ numActive = owners[1].num
    BY <1>1, <2>1 DEF ResourceInv, CountInv
  <2>3. QED BY <2>2, EntryFacts
<1>3. owners = <<>>
  BY <1>1, <1>2 DEF ResourceInv, CountInv, TypeOK
<1>4. OwnerIds = {}
  BY <1>3 DEF OwnerIds
<1>5. QED BY <1>2, <1>3, <1>4 DEF ResourceInv, WaitInv, HoldInv, OwnedBy

(* When one acquisition is left, its thread is alone with the resource. *)
LEMMA LastOwner ==
ASSUME TypeOK, ResourceInv, numActive = 1,
       NEW t \in Threads, pc[t] = "run", NEW k \in DOMAIN owners, owners[k].id = t
PROVE  /\ k = 1 /\ Len(owners) = 1 /\ owners[k].num = 1
       /\ OwnerIds = {t} /\ upped = {} /\ Remaining(k) = <<>>
       /\ hold[t].depth = 1
       /\ \A u \in Threads : hold[u].mode # "none" => u = t
<1>1. Len(owners) \in Nat /\ DOMAIN owners = 1 .. Len(owners)
  BY DEF TypeOK
<1>2. Len(owners) = 1 /\ k = 1 /\ owners[1].num = 1
  BY <1>1 DEF ResourceInv, CountInv
<1>3. OwnerIds = {t}
  BY <1>1, <1>2 DEF OwnerIds
<1>4. t \notin upped
  BY DEF ResourceInv, HoldInv
<1>5. upped = {}
  BY <1>3, <1>4 DEF ResourceInv, HoldInv, OwnedBy
<1>6. Remaining(k) = <<>>
  <2>1. Remaining(k) = RemoveAt(owners, k)
    BY <1>2 DEF Remaining
  <2>2. Len(Remaining(k)) = 0 /\ Remaining(k) \in Seq(OwnerEntry)
    BY <1>2, <2>1, RemoveAtFacts DEF TypeOK
  <2>3. QED BY <2>2
<1>7. hold[t].depth = 1
  BY <1>2, <1>4 DEF ResourceInv, HoldInv
<1>8. QED BY <1>2, <1>3, <1>5, <1>6, <1>7 DEF ResourceInv, HoldInv, OwnedBy

(* What a thread that runs and is an owner was told is what its entry says. *)
LEMMA RunningOwner ==
ASSUME TypeOK, ResourceInv,
       NEW t \in Threads, pc[t] = "run", NEW k \in DOMAIN owners, owners[k].id = t
PROVE  /\ t \notin upped
       /\ hold[t].depth = owners[k].num /\ hold[t].mode # "none"
       /\ hold[t].mode = "exclusive" <=> ownedExclusive
<1>1. t \notin upped
  BY DEF ResourceInv, HoldInv
<1>2. hold[t].depth = owners[k].num
  BY <1>1 DEF ResourceInv, HoldInv
<1>3. hold[t].mode # "none"
  BY <1>2, EntryFacts DEF ResourceInv, HoldInv
<1>4. QED BY <1>1, <1>2, <1>3 DEF ResourceInv, HoldInv

(* The resource is granted at once to a thread that finds it unowned. *)
LEMMA GrantUnowned ==
ASSUME TypeOK, ResourceInv, numActive = 0, NEW t \in Threads,
       NEW mode \in Modes,
       owners' = Append(owners, Owner(t)), numActive' = 1,
       ownedExclusive' <=> mode = "exclusive", Told(t, mode),
       UNCHANGED <<exclusiveWaiters, sharedWaiters, numSharedWaiters, pc, upped, stale>>
PROVE  ResourceInv'
<1>1. owners' = <<Owner(t)>>
  BY Unowned
<1>2. /\ Len(owners') = 1 /\ DOMAIN owners' = {1}
      /\ owners'[1].id = t /\ owners'[1].num = 1
  <2>1. Len(owners') = 1 /\ DOMAIN owners' = {1} /\ owners'[1] = Owner(t)
    BY <1>1
  <2>2. Owner(t).id = t /\ Owner(t).num = 1
    BY DEF Owner
  <2>3. QED BY <2>1, <2>2
<1>3. OwnerIds' = {t}
  BY <1>2 DEF OwnerIds
<1>4. CountInv'
  BY <1>2, Unowned DEF ResourceInv, CountInv
<1>5. WaitInv'
  BY <1>1, Unowned DEF ResourceInv, WaitInv, ToSet, Distinct
<1>6. HoldInv'
  <2>1. hold'[t] = [mode |-> mode, depth |-> 1] /\ mode \in {"exclusive", "shared"}
    BY Unowned DEF TypeOK, Told, Modes
  <2>2. \A u \in Threads \ {t} : hold'[u].mode = "none" /\ hold'[u].depth = 0
    BY Unowned DEF TypeOK, Told
  <2>3. upped' = {} /\ hold'[t].mode = mode /\ hold'[t].depth = 1
    BY <2>1, Unowned
  <2>4. mode = "exclusive" <=> ownedExclusive'
    OBVIOUS
  <2>5. \A u \in Threads : hold'[u].mode = "none" <=> hold'[u].depth = 0
    BY <2>1, <2>2, <2>3
  <2>6. \A u \in Threads : hold'[u].mode # "none" => u = t
    BY <2>2
  <2>7. \A j \in DOMAIN owners' : hold'[owners'[j].id].depth = owners'[j].num
    BY <1>2, <2>3
  <2>8. QED BY <1>3, <2>3, <2>4, <2>5, <2>6, <2>7 DEF HoldInv, OwnedBy
<1>7. QED BY <1>4, <1>5, <1>6 DEF ResourceInv

(* A free resource is acquired exclusively. *)
LEMMA ExclusiveFreeStep ==
ASSUME TypeOK, ResourceInv, NEW t \in Threads, ExclusiveFree(t)
PROVE  ResourceInv'
<1>1. ownedExclusive' <=> "exclusive" = "exclusive"
  BY DEF ExclusiveFree
<1>2. QED BY <1>1, GrantUnowned DEF ExclusiveFree, Modes

(* The exclusive owner acquires it again. *)
LEMMA ExclusiveRecursiveStep ==
ASSUME TypeOK, ResourceInv, NEW t \in Threads, ExclusiveRecursive(t)
PROVE  ResourceInv'
<1>1. /\ Len(owners) = 1 /\ DOMAIN owners = {1} /\ 1 \in DOMAIN owners
      /\ owners[1].id = t /\ ownedExclusive /\ pc[t] = "run"
      /\ numActive = owners[1].num
  BY DEF ExclusiveRecursive, MayAcquireExclusive, Running, OwnsExclusively,
         ResourceInv, CountInv, TypeOK
<1>2. owners[1] \in OwnerEntry
  <2>1. 1 \in 1 .. Len(owners)
    BY <1>1
  <2>2. QED BY <2>1 DEF TypeOK
<1>3. /\ Len(owners') = 1 /\ DOMAIN owners' = {1}
      /\ owners'[1].id = t /\ owners'[1].num = owners[1].num + 1
  BY <1>1, <1>2 DEF ExclusiveRecursive, TypeOK, OwnerEntry
<1>4. OwnerIds = {t} /\ OwnerIds' = {t}
  BY <1>1, <1>3 DEF OwnerIds
<1>5. upped = {} /\ hold[t].depth = owners[1].num
  BY <1>1, <1>4, RunningOwner DEF ResourceInv, HoldInv, OwnedBy
<1>6. CountInv'
  BY <1>1, <1>3 DEF ExclusiveRecursive, ResourceInv, CountInv
<1>7. WaitInv'
  BY <1>1, <1>3 DEF ExclusiveRecursive, ResourceInv, WaitInv, ToSet, Distinct
<1>8. HoldInv'
  BY <1>1, <1>2, <1>3, <1>4, <1>5
     DEF ExclusiveRecursive, ResourceInv, HoldInv, OwnedBy, Told, TypeOK, OwnerEntry
<1>9. QED BY <1>6, <1>7, <1>8 DEF ResourceInv

(* A list grows by a thread that was not in it. *)
LEMMA AppendFacts ==
ASSUME NEW S, NEW s \in Seq(S), NEW e
PROVE  /\ Len(Append(s, e)) = Len(s) + 1
       /\ DOMAIN Append(s, e) = 1 .. Len(s) + 1
       /\ \A j \in 1 .. Len(s) : Append(s, e)[j] = s[j]
       /\ Append(s, e)[Len(s) + 1] = e
       /\ Append(s, e) # <<>>
OBVIOUS

(* A thread that was in no line joins one at its end. *)
LEMMA QueueUp ==
ASSUME NEW s \in Seq(Threads), Distinct(s), NEW t \in Threads, t \notin ToSet(s)
PROVE  /\ Distinct(Append(s, t))
       /\ ToSet(Append(s, t)) = ToSet(s) \cup {t}
       /\ Append(s, t) # <<>>
<1>1. DOMAIN s = 1 .. Len(s) /\ Len(s) \in Nat
  OBVIOUS
<1>2. \A j \in 1 .. Len(s) : s[j] # t
  BY <1>1 DEF ToSet
<1>3. Distinct(Append(s, t))
  BY <1>1, <1>2, AppendFacts DEF Distinct
<1>4. ToSet(Append(s, t)) = ToSet(s) \cup {t}
  <2>1. /\ \A j \in 1 .. Len(s) : Append(s, t)[j] = s[j]
        /\ Append(s, t)[Len(s) + 1] = t
        /\ DOMAIN Append(s, t) = 1 .. Len(s) + 1
    BY AppendFacts
  <2>2. DOMAIN Append(s, t) = 1 .. Len(s) \cup {Len(s) + 1}
    BY <1>1, <2>1
  <2>3. QED BY <1>1, <2>1, <2>2, Zenon DEF ToSet
<1>5. QED BY <1>3, <1>4, AppendFacts

(* A thread goes to sleep in the line for exclusive access. *)
LEMMA ExclusiveBusyStep ==
ASSUME TypeOK, ResourceInv, NEW t \in Threads, ExclusiveBusy(t)
PROVE  ResourceInv'
<1> USE DEF ExclusiveBusy, MayAcquireExclusive, Running, Sleep
<1>1. t \notin upped /\ t \notin ToSet(exclusiveWaiters) /\ t \notin ToSet(sharedWaiters)
  BY DEF ResourceInv, WaitInv, HoldInv
<1>2. owners # <<>>
  BY EntryFacts DEF ResourceInv, CountInv, TypeOK
<1>3. /\ Distinct(exclusiveWaiters') /\ exclusiveWaiters' # <<>>
      /\ ToSet(exclusiveWaiters') = ToSet(exclusiveWaiters) \cup {t}
  BY <1>1, QueueUp DEF TypeOK, ResourceInv, WaitInv
<1>4. \A u \in Threads : pc'[u] = IF u = t THEN "exclusive" ELSE pc[u]
  BY DEF TypeOK
<1>5. ToSet(exclusiveWaiters) \subseteq Threads /\ ToSet(sharedWaiters) \subseteq Threads
  BY DEF TypeOK, ToSet
<1>6. CountInv'
  BY DEF ResourceInv, CountInv
<1>7. WaitInv'
  BY <1>1, <1>2, <1>3, <1>4, <1>5 DEF ResourceInv, WaitInv
<1>8. HoldInv'
  BY <1>1, <1>4 DEF ResourceInv, HoldInv, OwnedBy, OwnerIds, TypeOK
<1>9. QED BY <1>6, <1>7, <1>8 DEF ResourceInv

(* A thread goes to sleep in the line for shared access. *)
LEMMA SharedBusyStep ==
ASSUME TypeOK, ResourceInv, NEW t \in Threads, SharedBusy(t)
PROVE  ResourceInv'
<1> USE DEF SharedBusy, MayAcquireShared, Running, Sleep
<1>1. t \notin upped /\ t \notin ToSet(exclusiveWaiters) /\ t \notin ToSet(sharedWaiters)
  BY DEF ResourceInv, WaitInv, HoldInv
<1>2. owners # <<>>
  BY EntryFacts DEF SharedTerms, ResourceInv, CountInv, TypeOK
<1>3. /\ Distinct(sharedWaiters') /\ sharedWaiters' # <<>>
      /\ ToSet(sharedWaiters') = ToSet(sharedWaiters) \cup {t}
  BY <1>1, QueueUp DEF TypeOK, ResourceInv, WaitInv
<1>4. \A u \in Threads : pc'[u] = IF u = t THEN "shared" ELSE pc[u]
  BY DEF TypeOK
<1>5. ToSet(exclusiveWaiters) \subseteq Threads /\ ToSet(sharedWaiters) \subseteq Threads
  BY DEF TypeOK, ToSet
<1>6. ownedExclusive \/ exclusiveWaiters # <<>>
  BY DEF SharedTerms
<1>7. CountInv'
  BY AppendFacts DEF ResourceInv, CountInv, TypeOK
<1>8. WaitInv'
  BY <1>1, <1>2, <1>3, <1>4, <1>5, <1>6 DEF ResourceInv, WaitInv
<1>9. HoldInv'
  BY <1>1, <1>4 DEF ResourceInv, HoldInv, OwnedBy, OwnerIds, TypeOK
<1>10. QED BY <1>7, <1>8, <1>9 DEF ResourceInv

(* Shared access is granted at once. *)
LEMMA SharedFreeStep ==
ASSUME TypeOK, ResourceInv, NEW t \in Threads, SharedFree(t)
PROVE  ResourceInv'
<1>1. CASE numActive = 0
  <2>1. (ownedExclusive' <=> "shared" = "exclusive") /\ numActive' = 1
    BY <1>1 DEF SharedFree
  <2>2. QED BY <1>1, <2>1, GrantUnowned DEF SharedFree, Modes
<1>2. CASE numActive # 0
  <2>1. ~ownedExclusive /\ ~OwnedBy(t) /\ exclusiveWaiters = <<>> /\ pc[t] = "run"
    BY <1>2 DEF SharedFree, SharedTerms, MayAcquireShared, Running
  <2>2. Len(owners) \in Nat /\ DOMAIN owners = 1 .. Len(owners)
    BY DEF TypeOK
  <2>3. /\ Len(owners') = Len(owners) + 1 /\ DOMAIN owners' = 1 .. Len(owners) + 1
        /\ \A j \in 1 .. Len(owners) : owners'[j] = owners[j]
        /\ owners'[Len(owners) + 1] = Owner(t) /\ owners' # <<>>
    BY AppendFacts DEF SharedFree, TypeOK
  <2>4. Owner(t).id = t /\ Owner(t).num = 1
    BY DEF Owner
  <2>5. \A j \in 1 .. Len(owners) : owners[j].id # t
    BY <2>1, <2>2 DEF OwnedBy, OwnerIds
  <2>6. OwnerIds' = OwnerIds \cup {t}
    BY <2>2, <2>3, <2>4 DEF OwnerIds
  <2>7. CountInv'
    <3>1. \A j, k \in DOMAIN owners' : owners'[j].id = owners'[k].id => j = k
      BY <2>2, <2>3, <2>4, <2>5 DEF ResourceInv, CountInv
    <3>2. \A k \in DOMAIN owners' : owners'[k].num = 1
      BY <2>1, <2>2, <2>3, <2>4 DEF ResourceInv, CountInv
    <3>3. ~ownedExclusive' /\ numActive' = Len(owners')
      BY <2>1, <2>3 DEF SharedFree, ResourceInv, CountInv
    <3>4. QED BY <3>1, <3>2, <3>3 DEF SharedFree, ResourceInv, CountInv
  <2>8. WaitInv'
    BY <2>1, <2>3 DEF SharedFree, ResourceInv, WaitInv
  <2>9. HoldInv'
    <3>1. hold[t].mode = "none" /\ hold[t].depth = 0 /\ t \notin upped
      BY <2>1 DEF ResourceInv, HoldInv
    <3>2. /\ \A u \in Threads \ {t} : hold'[u] = hold[u]
          /\ hold'[t].mode = "shared" /\ hold'[t].depth = 1
      BY <3>1 DEF SharedFree, Told, TypeOK
    <3>3. ~ownedExclusive' /\ upped' = upped /\ pc' = pc
      BY DEF SharedFree
    <3>4. \A u \in Threads : hold'[u].mode = "none" <=> hold'[u].depth = 0
      BY <3>2 DEF ResourceInv, HoldInv
    <3>5. \A u \in Threads : hold'[u].mode # "none" =>
            u \in OwnerIds' /\ u \notin upped' /\ hold'[u].mode # "exclusive"
      BY <2>1, <2>6, <3>1, <3>2, <3>3 DEF ResourceInv, HoldInv, OwnedBy
    <3>6. \A j \in DOMAIN owners' : owners'[j].id \notin upped' =>
            hold'[owners'[j].id].depth = owners'[j].num
      BY <2>2, <2>3, <2>4, <2>5, <3>2, <3>3, EntryFacts DEF ResourceInv, HoldInv
    <3>7. \A u \in upped' :
            /\ u \in OwnerIds' /\ pc'[u] = "shared"
            /\ \A j \in DOMAIN owners' : owners'[j].id = u => owners'[j].num = 1
      BY <2>1, <2>2, <2>3, <2>4, <2>6, <3>1, <3>3 DEF ResourceInv, HoldInv, OwnedBy
    <3>8. QED BY <3>3, <3>4, <3>5, <3>6, <3>7 DEF HoldInv, OwnedBy
  <2>10. QED BY <2>7, <2>8, <2>9 DEF ResourceInv
<1>3. QED BY <1>1, <1>2

(* Shared access is never acquired twice: the caller would have it already. *)
LEMMA SharedRecursiveStep ==
ASSUME ~SharedNests, TypeOK, ResourceInv, NEW t \in Threads, SharedRecursive(t)
PROVE  FALSE
<1>1. PICK k \in DOMAIN owners : owners[k].id = t
  BY DEF SharedRecursive, FirstOf
<1>2. hold[t].mode # "none" /\ hold[t].mode # "exclusive"
  BY <1>1, RunningOwner DEF SharedRecursive, MayAcquireShared, Running
<1>3. hold[t].mode # "shared"
  BY DEF SharedRecursive, MayAcquireShared
<1>4. hold[t].mode \in {"none", "exclusive", "shared"}
  BY DEF TypeOK, Modes
<1>5. QED BY <1>2, <1>3, <1>4

(* A thread that was woken finds itself among the owners. *)
LEMMA AcquiredStep ==
ASSUME TypeOK, ResourceInv, NEW t \in Threads, Acquired(t)
PROVE  ResourceInv'
<1> USE DEF Acquired, resVars
<1>1. /\ OwnedBy(t) /\ t \in upped /\ pc[t] = (IF ownedExclusive THEN "exclusive" ELSE "shared")
      /\ \A k \in DOMAIN owners : owners[k].id = t => owners[k].num = 1
  BY DEF ResourceInv, HoldInv
<1>2. hold[t].mode = "none" /\ hold[t].depth = 0
  BY <1>1 DEF ResourceInv, HoldInv
<1>3. /\ \A u \in Threads \ {t} : hold'[u] = hold[u] /\ pc'[u] = pc[u]
      /\ hold'[t].mode = pc[t] /\ hold'[t].depth = 1
  BY <1>2 DEF Told, TypeOK
<1>4. t \notin ToSet(exclusiveWaiters) /\ t \notin ToSet(sharedWaiters)
  BY <1>1 DEF ResourceInv, WaitInv
<1>5. ToSet(exclusiveWaiters) \subseteq Threads /\ ToSet(sharedWaiters) \subseteq Threads
  BY DEF TypeOK, ToSet
<1>6. CountInv'
  BY DEF ResourceInv, CountInv
<1>7. WaitInv'
  BY <1>3, <1>4, <1>5 DEF ResourceInv, WaitInv
<1>8. HoldInv'
  <2>1. \A u \in Threads : hold'[u].mode = "none" <=> hold'[u].depth = 0
    BY <1>1, <1>3 DEF ResourceInv, HoldInv
  <2>2. \A u \in Threads : hold'[u].mode # "none" =>
          /\ u \in OwnerIds /\ u \notin upped'
          /\ hold'[u].mode = "exclusive" <=> ownedExclusive
    BY <1>1, <1>3 DEF ResourceInv, HoldInv, OwnedBy
  <2>3. \A k \in DOMAIN owners : owners[k].id \notin upped' =>
          hold'[owners[k].id].depth = owners[k].num
    BY <1>1, <1>3, EntryFacts DEF ResourceInv, HoldInv
  <2>4. \A u \in upped' :
          /\ u \in OwnerIds
          /\ pc'[u] = IF ownedExclusive THEN "exclusive" ELSE "shared"
          /\ \A k \in DOMAIN owners : owners[k].id = u => owners[k].num = 1
    BY <1>3 DEF ResourceInv, HoldInv, OwnedBy, TypeOK
  <2>5. QED BY <2>1, <2>2, <2>3, <2>4 DEF HoldInv, OwnedBy, OwnerIds
<1>9. QED BY <1>6, <1>7, <1>8 DEF ResourceInv

(* What the list of owners looks like without entry k. *)
LEMMA OwnerLeaves ==
ASSUME TypeOK, ResourceInv, NEW t \in Threads, NEW k \in DOMAIN owners, owners[k].id = t,
       owners' = RemoveAt(owners, k)
PROVE  /\ owners' \in Seq(OwnerEntry) /\ Len(owners') = Len(owners) - 1
       /\ DOMAIN owners' = 1 .. Len(owners) - 1
       /\ \A j \in 1 .. Len(owners) - 1 :
            owners'[j] = IF j < k THEN owners[j] ELSE owners[j + 1]
       /\ \A j \in DOMAIN owners' : \E i \in DOMAIN owners : i # k /\ owners'[j] = owners[i]
       /\ OwnerIds' = OwnerIds \ {t}
<1>1. /\ k \in 1 .. Len(owners) /\ Len(owners) \in Nat /\ DOMAIN owners = 1 .. Len(owners)
  BY DEF TypeOK
<1>2. /\ owners' \in Seq(OwnerEntry) /\ Len(owners') = Len(owners) - 1
      /\ DOMAIN owners' = 1 .. Len(owners) - 1
      /\ \A j \in 1 .. Len(owners) - 1 :
           owners'[j] = IF j < k THEN owners[j] ELSE owners[j + 1]
  <2>1. owners \in Seq(OwnerEntry)
    BY DEF TypeOK
  <2>2. QED BY <2>1, RemoveAtFacts
<1>3. \A j \in DOMAIN owners : j # k => owners[j].id # t
  BY DEF ResourceInv, CountInv
<1>4. \A j \in DOMAIN owners' : \E i \in DOMAIN owners : i # k /\ owners'[j] = owners[i]
  <2>1. SUFFICES ASSUME NEW j \in DOMAIN owners'
                 PROVE  \E i \in DOMAIN owners : i # k /\ owners'[j] = owners[i]
    OBVIOUS
  <2>2. CASE j < k
    BY <1>3, <1>2, <2>2
  <2>3. CASE ~(j < k)
    <3>1. j + 1 \in DOMAIN owners /\ j + 1 # k /\ owners'[j] = owners[j + 1]
      BY <1>1, <1>2, <2>3
    <3>2. QED BY <3>1
  <2>4. QED BY <2>2, <2>3
<1>5. \A i \in DOMAIN owners : i # k => \E j \in DOMAIN owners' : owners'[j] = owners[i]
  <2>1. SUFFICES ASSUME NEW i \in DOMAIN owners, i # k
                 PROVE  \E j \in DOMAIN owners' : owners'[j] = owners[i]
    OBVIOUS
  <2>2. CASE i < k
    BY <1>1, <1>2, <2>1, <2>2
  <2>3. CASE i > k
    <3>1. i - 1 \in DOMAIN owners' /\ owners'[i - 1] = owners[i]
      BY <1>1, <1>2, <2>1, <2>3
    <3>2. QED BY <3>1
  <2>4. QED BY <1>1, <2>1, <2>2, <2>3
<1>6. OwnerIds' = OwnerIds \ {t}
  BY <1>3, <1>4, <1>5 DEF OwnerIds
<1>7. QED BY <1>2, <1>4, <1>6

(* After a release that hands nothing over. *)
LEMMA LeaveStep ==
ASSUME TypeOK, ResourceInv, NEW t \in Threads, Release(t),
       NEW k \in DOMAIN owners, owners[k].id = t, Leave(k)
PROVE  ResourceInv'
<1> USE DEF Leave
<1>1. pc[t] = "run" /\ pc' = pc
  BY DEF Release, Running
<1>2. /\ t \notin upped /\ hold[t].depth = owners[k].num /\ hold[t].mode # "none"
      /\ hold[t].mode = "exclusive" <=> ownedExclusive
  BY <1>1, RunningOwner
<1>3. /\ k \in 1 .. Len(owners) /\ Len(owners) \in Nat /\ DOMAIN owners = 1 .. Len(owners)
      /\ owners[k].num \in Nat \ {0}
  BY EntryFacts DEF TypeOK
<1>4. /\ \A u \in Threads \ {t} : hold'[u] = hold[u]
      /\ hold[t].depth > 1 => hold'[t] = [mode |-> hold[t].mode, depth |-> hold[t].depth - 1]
      /\ ~(hold[t].depth > 1) => hold'[t] = [mode |-> "none", depth |-> 0]
  BY DEF Release, TypeOK
<1>5. CASE owners[k].num > 1
  <2>1. ownedExclusive /\ Len(owners) = 1 /\ numActive = owners[1].num /\ k = 1
    BY <1>3, <1>5 DEF ResourceInv, CountInv
  <2>2. owners[1] \in OwnerEntry
    <3>1. 1 \in 1 .. Len(owners)
      BY <2>1
    <3>2. QED BY <3>1 DEF TypeOK
  <2>3. owners' = [owners EXCEPT ![1].num = @ - 1]
    BY <1>5, <2>1 DEF Remaining
  <2>4. /\ Len(owners') = 1 /\ DOMAIN owners' = {1}
        /\ owners'[1].id = t /\ owners'[1].num = owners[1].num - 1
    BY <2>1, <2>2, <2>3 DEF TypeOK, OwnerEntry
  <2>5. OwnerIds = {t} /\ OwnerIds' = {t}
    BY <1>3, <2>1, <2>4 DEF OwnerIds
  <2>6. upped = {} /\ upped' = {}
    BY <1>2, <2>5 DEF ResourceInv, HoldInv, OwnedBy
  <2>7. ownedExclusive'
    BY <1>5, <2>1 DEF StillExclusive
  <2>8. CountInv'
    BY <2>1, <2>4, <2>7 DEF ResourceInv, CountInv
  <2>9. WaitInv'
    BY <1>1, <2>1, <2>4, <2>7 DEF ResourceInv, WaitInv
  <2>10. hold'[t].mode = "exclusive" /\ hold'[t].depth = owners[1].num - 1
    BY <1>2, <1>4, <1>5, <2>1
  <2>11. \A u \in Threads \ {t} : hold'[u].mode = "none" /\ hold'[u].depth = 0
    BY <1>4, <2>5 DEF ResourceInv, HoldInv, OwnedBy
  <2>12. HoldInv'
    BY <1>5, <1>3, <2>1, <2>4, <2>5, <2>6, <2>7, <2>10, <2>11 DEF HoldInv, OwnedBy
  <2>13. QED BY <2>8, <2>9, <2>12 DEF ResourceInv
<1>6. CASE ~(owners[k].num > 1)
  <2>1. owners[k].num = 1 /\ hold'[t].mode = "none" /\ hold'[t].depth = 0
    BY <1>2, <1>3, <1>4, <1>6
  <2>2. numActive = Len(owners)
    BY <1>3, <2>1 DEF ResourceInv, CountInv
  <2>3. ~ownedExclusive'
    BY <1>6 DEF StillExclusive
  <2>4. owners' = RemoveAt(owners, k)
    BY <1>6 DEF Remaining
  <2>5. /\ owners' \in Seq(OwnerEntry) /\ Len(owners') = Len(owners) - 1
        /\ DOMAIN owners' = 1 .. Len(owners) - 1
        /\ \A j \in 1 .. Len(owners) - 1 :
             owners'[j] = IF j < k THEN owners[j] ELSE owners[j + 1]
        /\ OwnerIds' = OwnerIds \ {t}
    BY <2>4, OwnerLeaves
  <2>6. \A j \in DOMAIN owners : j # k => owners[j].id # t
    BY DEF ResourceInv, CountInv
  <2>7. \A j \in DOMAIN owners' : \E i \in DOMAIN owners : i # k /\ owners'[j] = owners[i]
    BY <2>4, OwnerLeaves
  <2>8. OwnerIds' = OwnerIds \ {t}
    BY <2>5
  <2>10. ~ownedExclusive \/ Len(owners) = 1
    BY DEF ResourceInv, CountInv
  <2>11. owners' = <<>> => exclusiveWaiters = <<>> /\ sharedWaiters = <<>>
    <3>1. SUFFICES ASSUME owners' = <<>>
                   PROVE  exclusiveWaiters = <<>> /\ sharedWaiters = <<>>
      OBVIOUS
    <3>2. Len(owners') = 0
      BY <3>1
    <3>3. Len(owners) = 1
      <4>1. Len(owners') = Len(owners) - 1
        BY <2>5
      <4>2. Len(owners) \in Nat
        BY <1>3
      <4>3. QED BY <3>2, <4>1, <4>2
    <3>4. numActive = 1
      BY <2>2, <3>3
    <3>5. exclusiveWaiters = <<>> /\ sharedWaiters = <<>>
      BY <3>4
    <3>6. QED BY <3>5
  <2>12. CountInv'
    <3>1. \A i, j \in DOMAIN owners' : owners'[i].id = owners'[j].id => i = j
      <4>1. SUFFICES ASSUME NEW i \in DOMAIN owners', NEW j \in DOMAIN owners',
                            owners'[i].id = owners'[j].id
                     PROVE  i = j
        OBVIOUS
      <4> DEFINE was(n) == IF n < k THEN n ELSE n + 1
      <4>2. \A n \in DOMAIN owners' : was(n) \in DOMAIN owners /\ owners'[n] = owners[was(n)]
        BY <1>3, <2>5
      <4>3. was(i) = was(j)
        BY <4>1, <4>2 DEF ResourceInv, CountInv
      <4>4. i \in Int /\ j \in Int /\ k \in Int
        BY <1>3, <2>5
      <4>5. QED BY <4>3, <4>4
    <3>2. \A j \in DOMAIN owners' : owners'[j].num = 1
      BY <1>3, <2>1, <2>7, <2>10 DEF ResourceInv, CountInv
    <3>3. numActive' = Len(owners')
      BY <2>2, <2>5
    <3>4. QED BY <2>3, <3>1, <3>2, <3>3 DEF ResourceInv, CountInv
  <2>13. WaitInv'
    <3>1. sharedWaiters # <<>> => exclusiveWaiters # <<>>
      BY <2>2, <2>10 DEF ResourceInv, WaitInv
    <3>2. QED BY <1>1, <2>11, <3>1 DEF ResourceInv, WaitInv
  <2>14. HoldInv'
    <3>1. \A u \in Threads : hold'[u].mode = "none" <=> hold'[u].depth = 0
      BY <1>4, <2>1 DEF ResourceInv, HoldInv
    <3>2. ownedExclusive => upped = {} /\ \A u \in Threads : hold'[u].mode = "none"
      <4>1. SUFFICES ASSUME ownedExclusive PROVE upped = {} /\ \A u \in Threads : hold'[u].mode = "none"
        OBVIOUS
      <4>2. OwnerIds = {t}
        <5>1. DOMAIN owners = {k}
          <6>1. Len(owners) = 1
            BY <2>10, <4>1
          <6>2. 1 .. 1 = {1}
            OBVIOUS
          <6>3. k = 1
            BY <1>3, <6>1
          <6>4. QED BY <1>3, <6>1, <6>2, <6>3
        <5>2. QED BY <5>1 DEF OwnerIds
      <4>3. QED BY <1>2, <1>4, <2>1, <4>2 DEF ResourceInv, HoldInv, OwnedBy
    <3>3. \A u \in Threads : hold'[u].mode # "none" =>
            u \in OwnerIds' /\ u \notin upped' /\ hold'[u].mode # "exclusive"
      BY <1>4, <2>1, <2>8, <3>2 DEF ResourceInv, HoldInv, OwnedBy
    <3>4. \A j \in DOMAIN owners' : owners'[j].id \notin upped' =>
            hold'[owners'[j].id].depth = owners'[j].num
      <4>1. SUFFICES ASSUME NEW j \in DOMAIN owners', owners'[j].id \notin upped'
                     PROVE  hold'[owners'[j].id].depth = owners'[j].num
        OBVIOUS
      <4>2. PICK i \in DOMAIN owners : i # k /\ owners'[j] = owners[i]
        BY <2>7
      <4>3. owners[i].id \in Threads \ {t} /\ owners[i].id \notin upped
        BY <2>6, <4>1, <4>2, EntryFacts
      <4>4. QED BY <1>4, <4>2, <4>3 DEF ResourceInv, HoldInv
    <3>5. \A u \in upped' :
            /\ u \in OwnerIds' /\ pc'[u] = "shared"
            /\ \A j \in DOMAIN owners' : owners'[j].id = u => owners'[j].num = 1
      <4>1. ~ownedExclusive \/ upped' = {}
        BY <3>2
      <4>2. \A j \in DOMAIN owners' : owners'[j].num = 1
        BY <2>3, <2>12 DEF CountInv
      <4>3. QED BY <1>1, <1>2, <2>8, <4>1, <4>2 DEF ResourceInv, HoldInv, OwnedBy
    <3>6. QED BY <2>3, <3>1, <3>3, <3>4, <3>5 DEF HoldInv, OwnedBy
  <2>15. QED BY <2>12, <2>13, <2>14 DEF ResourceInv
<1>7. QED BY <1>5, <1>6

(* The lists that a hand-over makes out of nothing left. *)
LEMMA HandToExclusiveStep ==
ASSUME TypeOK, ResourceInv, NEW t \in Threads, Release(t),
       NEW k \in DOMAIN owners, owners[k].id = t, HandToExclusive(k)
PROVE  ResourceInv'
<1> DEFINE w == Head(exclusiveWaiters)
<1>1. pc[t] = "run" /\ pc' = pc
  BY DEF Release, Running
<1>2. /\ OwnerIds = {t} /\ upped = {} /\ Remaining(k) = <<>> /\ hold[t].depth = 1
      /\ \A u \in Threads : hold[u].mode # "none" => u = t
  BY <1>1, LastOwner DEF HandToExclusive
<1>3. hold'[t] = [mode |-> "none", depth |-> 0] /\ \A u \in Threads \ {t} : hold'[u] = hold[u]
  BY <1>2 DEF Release, TypeOK
<1>4. \A u \in Threads : hold'[u].mode = "none" /\ hold'[u].depth = 0
  BY <1>2, <1>3 DEF ResourceInv, HoldInv
<1>5. /\ Len(exclusiveWaiters) \in Nat \ {0}
      /\ DOMAIN exclusiveWaiters = 1 .. Len(exclusiveWaiters)
      /\ w = exclusiveWaiters[1]
      /\ DOMAIN Tail(exclusiveWaiters) = 1 .. Len(exclusiveWaiters) - 1
      /\ \A j \in 1 .. Len(exclusiveWaiters) - 1 :
           Tail(exclusiveWaiters)[j] = exclusiveWaiters[j + 1]
  BY DEF HandToExclusive, TypeOK
<1>6. w \in ToSet(exclusiveWaiters) /\ w \in Threads /\ pc[w] = "exclusive"
  <2>1. w \in ToSet(exclusiveWaiters)
    BY <1>5 DEF ToSet
  <2>2. ToSet(exclusiveWaiters) \subseteq Threads
    BY DEF ToSet, TypeOK
  <2>3. QED BY <2>1, <2>2 DEF ResourceInv, WaitInv
<1>7. owners' = <<Owner(w)>>
  BY <1>2 DEF HandToExclusive
<1>8. /\ Len(owners') = 1 /\ DOMAIN owners' = {1}
      /\ owners'[1].id = w /\ owners'[1].num = 1
  <2>1. Len(owners') = 1 /\ DOMAIN owners' = {1} /\ owners'[1] = Owner(w)
    BY <1>7
  <2>2. Owner(w).id = w /\ Owner(w).num = 1
    BY DEF Owner
  <2>3. QED BY <2>1, <2>2
<1>9. OwnerIds' = {w}
  BY <1>8 DEF OwnerIds
<1>10. upped' = {w} /\ ownedExclusive' /\ numActive' = 1
  BY <1>2 DEF HandToExclusive
<1>11. CountInv'
  BY <1>8, <1>10 DEF HandToExclusive, ResourceInv, CountInv
<1>12. WaitInv'
  <2>1. exclusiveWaiters' = Tail(exclusiveWaiters) /\ sharedWaiters' = sharedWaiters /\ stale' = stale
    BY DEF HandToExclusive
  <2>2. Distinct(exclusiveWaiters')
    BY <1>5, <2>1 DEF ResourceInv, WaitInv, Distinct
  <2>3. \A u \in ToSet(exclusiveWaiters') : u \in ToSet(exclusiveWaiters) /\ u # w
    <3>1. SUFFICES ASSUME NEW j \in DOMAIN exclusiveWaiters'
                   PROVE  /\ exclusiveWaiters'[j] \in ToSet(exclusiveWaiters)
                          /\ exclusiveWaiters'[j] # w
      BY DEF ToSet
    <3>2. /\ j + 1 \in DOMAIN exclusiveWaiters /\ j + 1 # 1 /\ 1 \in DOMAIN exclusiveWaiters
          /\ exclusiveWaiters'[j] = exclusiveWaiters[j + 1]
      BY <1>5, <2>1, <3>1
    <3>3. exclusiveWaiters[j + 1] # exclusiveWaiters[1]
      BY <3>2 DEF ResourceInv, WaitInv, Distinct
    <3>4. QED BY <1>5, <3>2, <3>3 DEF ToSet
  <2>4. \A u \in ToSet(sharedWaiters) : u # w
    BY <1>6 DEF ResourceInv, WaitInv
  <2>5. owners' # <<>>
    BY <1>7
  <2>6. QED BY <1>1, <1>10, <2>1, <2>2, <2>3, <2>4, <2>5 DEF ResourceInv, WaitInv
<1>13. HoldInv'
  BY <1>1, <1>4, <1>6, <1>8, <1>9, <1>10 DEF HoldInv, OwnedBy
<1>14. QED BY <1>11, <1>12, <1>13 DEF ResourceInv

(* All shared waiters become owners, in their order. *)
LEMMA AdmitCrowd ==
ASSUME TypeOK, ResourceInv, NEW t \in Threads, Release(t),
       NEW k \in DOMAIN owners, owners[k].id = t, HandToShared(k)
PROVE  /\ OwnerIds = {t} /\ upped = {} /\ Remaining(k) = <<>>
       /\ \A u \in Threads : hold'[u].mode = "none" /\ hold'[u].depth = 0
       /\ Len(owners') = Len(sharedWaiters) /\ DOMAIN owners' = DOMAIN sharedWaiters
       /\ owners' # <<>>
       /\ \A j \in DOMAIN owners' : owners'[j].id = sharedWaiters[j] /\ owners'[j].num = 1
       /\ OwnerIds' = ToSet(sharedWaiters)
<1>1. pc[t] = "run" /\ pc' = pc
  BY DEF Release, Running
<1>2. /\ OwnerIds = {t} /\ upped = {} /\ Remaining(k) = <<>> /\ hold[t].depth = 1
      /\ \A u \in Threads : hold[u].mode # "none" => u = t
  BY <1>1, LastOwner DEF HandToShared
<1>3. hold'[t] = [mode |-> "none", depth |-> 0] /\ \A u \in Threads \ {t} : hold'[u] = hold[u]
  BY <1>2 DEF Release, TypeOK
<1>4. \A u \in Threads : hold'[u].mode = "none" /\ hold'[u].depth = 0
  BY <1>2, <1>3 DEF ResourceInv, HoldInv
<1>5. /\ Len(sharedWaiters) \in Nat \ {0}
      /\ DOMAIN sharedWaiters = 1 .. Len(sharedWaiters)
  BY DEF HandToShared, TypeOK
<1>6. ToSet(sharedWaiters) \subseteq Threads /\ \A u \in ToSet(sharedWaiters) : pc[u] = "shared"
  BY DEF ToSet, TypeOK, ResourceInv, WaitInv
<1> DEFINE admitted == [j \in DOMAIN sharedWaiters |-> Owner(sharedWaiters[j])]
<1>7. owners' = admitted
  <2>1. [j \in DOMAIN Remaining(k) |-> Owner(Remaining(k)[j].id)] = <<>>
    BY <1>2
  <2>2. \A j \in DOMAIN sharedWaiters : Owner(sharedWaiters[j]) \in OwnerEntry
    BY DEF TypeOK, Owner, OwnerEntry
  <2>3. admitted \in Seq(OwnerEntry)
    BY <1>5, <2>2
  <2>4. owners' = admitted \o <<>>
    BY <2>1 DEF HandToShared
  <2> HIDE DEF admitted
  <2>5. QED BY <2>3, <2>4
<1>8. /\ Len(owners') = Len(sharedWaiters) /\ DOMAIN owners' = 1 .. Len(sharedWaiters)
      /\ owners' # <<>>
      /\ \A j \in DOMAIN owners' : owners'[j] = Owner(sharedWaiters[j])
  BY <1>5, <1>7
<1>9. \A j \in DOMAIN owners' : owners'[j].id = sharedWaiters[j] /\ owners'[j].num = 1
  BY <1>8 DEF Owner
<1>10. OwnerIds' = ToSet(sharedWaiters)
  BY <1>5, <1>8, <1>9 DEF OwnerIds, ToSet
<1>11. QED BY <1>2, <1>4, <1>5, <1>8, <1>9, <1>10

(* The last release passes the resource to all who wait for shared access. *)
LEMMA HandToSharedStep ==
ASSUME TypeOK, ResourceInv, NEW t \in Threads, Release(t),
       NEW k \in DOMAIN owners, owners[k].id = t, HandToShared(k)
PROVE  ResourceInv'
<1>1. pc' = pc
  BY DEF Release
<1>2. upped = {} /\ Remaining(k) = <<>>
  BY AdmitCrowd
<1>4. \A u \in Threads : hold'[u].mode = "none" /\ hold'[u].depth = 0
  BY AdmitCrowd
<1>6. ToSet(sharedWaiters) \subseteq Threads /\ \A u \in ToSet(sharedWaiters) : pc[u] = "shared"
  BY DEF ToSet, TypeOK, ResourceInv, WaitInv
<1>8. Len(owners') = Len(sharedWaiters) /\ DOMAIN owners' = DOMAIN sharedWaiters /\ owners' # <<>>
  BY AdmitCrowd
<1>9. \A j \in DOMAIN owners' : owners'[j].id = sharedWaiters[j] /\ owners'[j].num = 1
  BY AdmitCrowd
<1>10. OwnerIds' = ToSet(sharedWaiters)
  BY AdmitCrowd
<1>11. /\ upped' = ToSet(sharedWaiters) /\ ~ownedExclusive' /\ numActive' = Len(sharedWaiters)
       /\ ~stale' /\ sharedWaiters' = <<>> /\ numSharedWaiters' = 0
       /\ exclusiveWaiters' = <<>>
  BY <1>2 DEF HandToShared, ResourceInv, CountInv
<1>12. CountInv'
  <2>1. \A i, j \in DOMAIN owners' : owners'[i].id = owners'[j].id => i = j
    BY <1>8, <1>9 DEF ResourceInv, WaitInv, Distinct
  <2>2. numSharedWaiters' = Len(sharedWaiters')
    BY <1>11
  <2>3. QED BY <1>8, <1>9, <1>11, <2>1, <2>2 DEF CountInv
<1>13. WaitInv'
  BY <1>8, <1>11 DEF WaitInv, Distinct, ToSet
<1>14. HoldInv'
  <2>1. \A j \in DOMAIN owners' : owners'[j].id \in upped'
    BY <1>10, <1>11 DEF OwnerIds
  <2>2. QED BY <1>1, <1>4, <1>6, <1>9, <1>10, <1>11, <2>1 DEF HoldInv, OwnedBy
<1>15. QED BY <1>12, <1>13, <1>14 DEF ResourceInv

(* The counters, the lists and what the threads were told agree for ever, if *)
(* no thread nests shared acquisitions.                                      *)
LEMMA InvStep ==
ASSUME ~SharedNests, TypeOK, ResourceInv, [Next]_vars
PROVE  ResourceInv'
<1>1. ASSUME NEW t \in Threads, Acquire(t) PROVE ResourceInv'
  BY <1>1, ExclusiveFreeStep, ExclusiveRecursiveStep, ExclusiveBusyStep,
     SharedFreeStep, SharedRecursiveStep, SharedBusyStep DEF Acquire
<1>2. ASSUME NEW t \in Threads, Acquired(t) PROVE ResourceInv'
  BY <1>2, AcquiredStep
<1>3. ASSUME NEW t \in Threads, Release(t) PROVE ResourceInv'
  <2>1. PICK k \in DOMAIN owners :
          /\ owners[k].id = t
          /\ Leave(k) \/ HandToExclusive(k) \/ HandToShared(k)
    BY <1>3 DEF Release, FirstOf
  <2>2. owners[k].id = t
    BY <2>1
  <2>3. CASE Leave(k)
    BY <1>3, <2>2, <2>3, LeaveStep
  <2>4. CASE HandToExclusive(k)
    BY <1>3, <2>2, <2>4, HandToExclusiveStep
  <2>5. CASE HandToShared(k)
    BY <1>3, <2>2, <2>5, HandToSharedStep
  <2>6. QED BY <2>1, <2>3, <2>4, <2>5
<1>4. CASE UNCHANGED vars
  <2>1. UNCHANGED <<owners, exclusiveWaiters, sharedWaiters, numActive, numSharedWaiters,
                    ownedExclusive, pc, upped, hold, stale>>
    BY <1>4 DEF vars, resVars
  <2>2. QED BY <2>1 DEF ResourceInv, CountInv, WaitInv, HoldInv, OwnedBy, OwnerIds,
                        Distinct, ToSet
<1>5. QED BY <1>1, <1>2, <1>3, <1>4 DEF Next

(* A resource nobody has agrees with its counters. *)
LEMMA InvInit == Init => ResourceInv
<1> SUFFICES ASSUME Init PROVE ResourceInv
  OBVIOUS
<1>1. CountInv
  BY DEF Init, CountInv
<1>2. WaitInv
  BY DEF Init, WaitInv, Distinct, ToSet
<1>3. HoldInv
  BY DEF Init, HoldInv
<1>4. QED BY <1>1, <1>2, <1>3 DEF ResourceInv

(* An exclusive owner is alone: its entry is the only one. *)
LEMMA Alone == TypeOK /\ ResourceInv => ExclusiveAlone
<1> SUFFICES ASSUME TypeOK, ResourceInv, NEW t \in Threads, NEW u \in Threads,
                    hold[t].mode = "exclusive", hold[u].mode # "none"
             PROVE  t = u
  BY DEF ExclusiveAlone
<1>1. ownedExclusive /\ OwnedBy(t) /\ OwnedBy(u)
  BY DEF ResourceInv, HoldInv
<1>2. Len(owners) = 1
  BY <1>1 DEF ResourceInv, CountInv
<1>3. \A j, k \in DOMAIN owners : j = k
  <2>1. DOMAIN owners = 1 .. 1
    BY <1>2 DEF TypeOK
  <2>2. QED BY <2>1
<1>4. QED BY <1>1, <1>3 DEF OwnedBy, OwnerIds

(* ResourceInv: without nested shared acquisitions the counters of the      *)
(* resource always agree with its lists.                                    *)
THEOREM CountersAgree ==
ASSUME ~SharedNests
PROVE  Spec => []ResourceInv
<1>1. TypeOK /\ ResourceInv /\ [Next]_vars => TypeOK' /\ ResourceInv'
  BY TypeStep, InvStep
<1>2. QED BY TypeInit, InvInit, <1>1, PTL DEF Spec

(* ExclusiveAlone: OSAcquireResourceExclusiveLite excludes every other      *)
(* access, for any number of threads, if none nests shared acquisitions.    *)
THEOREM ExclusiveExcludes ==
ASSUME ~SharedNests
PROVE  Spec => []ExclusiveAlone
BY ResourceTypeCorrect, CountersAgree, Alone, PTL

(* Who owns the resource after a release that hands nothing over. *)
LEMMA LeaveOwners ==
ASSUME TypeOK, ResourceInv, NEW t \in Threads, pc[t] = "run",
       NEW k \in DOMAIN owners, owners[k].id = t, Leave(k)
PROVE  \/ OwnerIds' = OwnerIds /\ ownedExclusive' = ownedExclusive
       \/ OwnerIds' = OwnerIds \ {t} /\ OwnerIds # {t} /\ ownedExclusive' = ownedExclusive
       \/ /\ OwnerIds = {t} /\ OwnerIds' = {} /\ ~ownedExclusive'
          /\ exclusiveWaiters = <<>> /\ sharedWaiters = <<>>
<1>1. /\ k \in 1 .. Len(owners) /\ Len(owners) \in Nat /\ DOMAIN owners = 1 .. Len(owners)
      /\ owners[k].num \in Nat \ {0}
  BY EntryFacts DEF TypeOK
<1>2. CASE owners[k].num > 1
  <2>1. ownedExclusive = TRUE /\ ownedExclusive' = TRUE
    <3>1. ownedExclusive
      BY <1>2 DEF ResourceInv, CountInv
    <3>2. ownedExclusive'
      BY <1>2, <3>1 DEF Leave, StillExclusive
    <3>3. QED BY <3>1, <3>2
  <2>2. owners' = [owners EXCEPT ![k].num = @ - 1]
    BY <1>2 DEF Leave, Remaining
  <2>3. DOMAIN owners' = DOMAIN owners /\ \A j \in DOMAIN owners : owners'[j].id = owners[j].id
    <3>1. \A j \in DOMAIN owners : owners[j] \in OwnerEntry
      BY <1>1 DEF TypeOK
    <3>2. QED BY <2>2, <3>1 DEF OwnerEntry
  <2>4. OwnerIds' = OwnerIds
    BY <2>3 DEF OwnerIds
  <2>5. QED BY <2>1, <2>4
<1>3. CASE ~(owners[k].num > 1)
  <2>1. ~ownedExclusive' /\ owners' = RemoveAt(owners, k)
    BY <1>3 DEF Leave, StillExclusive, Remaining
  <2>2. Len(owners') = Len(owners) - 1 /\ OwnerIds' = OwnerIds \ {t}
    BY <2>1, OwnerLeaves
  <2>3. numActive = Len(owners)
    BY <1>1, <1>3 DEF ResourceInv, CountInv
  <2>4. CASE Len(owners) = 1
    <3>1. OwnerIds = {t}
      <4>1. \A j \in DOMAIN owners : j = k
        BY <1>1, <2>4
      <4>2. QED BY <4>1 DEF OwnerIds
    <3>2. exclusiveWaiters = <<>> /\ sharedWaiters = <<>>
      BY <2>3, <2>4 DEF Leave
    <3>3. QED BY <2>1, <2>2, <3>1, <3>2
  <2>5. CASE Len(owners) # 1
    <3>1. ownedExclusive = FALSE /\ ownedExclusive' = FALSE
      <4>1. ~ownedExclusive
        BY <2>5 DEF ResourceInv, CountInv
      <4>2. QED BY <2>1, <4>1 DEF TypeOK, Leave, StillExclusive
    <3>2. PICK j \in DOMAIN owners : j # k
      <4>1. IF k = 1 THEN 2 \in DOMAIN owners ELSE 1 \in DOMAIN owners
        BY <1>1, <2>5
      <4>2. QED BY <4>1
    <3>3. owners[j].id # t /\ owners[j].id \in OwnerIds
      BY <3>2 DEF ResourceInv, CountInv, OwnerIds
    <3>4. QED BY <2>2, <3>1, <3>3
  <2>6. QED BY <2>4, <2>5
<1>4. QED BY <1>2, <1>3

(* Every call is a step of RWLock or leaves its state alone. *)
LEMMA RWStep ==
ASSUME ~SharedNests, TypeOK, ResourceInv, [Next]_vars
PROVE  [RW!Next]_(RW!vars)
<1> USE DEF RW!vars
<1>1. ASSUME NEW t \in Threads, ExclusiveFree(t) PROVE RW!Write(t)
  <2>1. OwnerIds = {} /\ owners' = <<Owner(t)>>
    BY <1>1, Unowned DEF ExclusiveFree
  <2>2. DOMAIN owners' = {1} /\ owners'[1] = Owner(t) /\ Owner(t).id = t
    BY <2>1 DEF Owner
  <2>3. OwnerIds' = {t}
    BY <2>2 DEF OwnerIds
  <2>4. QED BY <1>1, <2>1, <2>3 DEF RW!Write, ExclusiveFree
<1>2. ASSUME NEW t \in Threads, ExclusiveRecursive(t) PROVE UNCHANGED RW!vars
  <2>1. owners' = [owners EXCEPT ![1].num = @ + 1] /\ 1 \in DOMAIN owners
    BY <1>2 DEF ExclusiveRecursive, OwnsExclusively, TypeOK
  <2>2. \A j \in DOMAIN owners : owners[j] \in OwnerEntry
    BY DEF TypeOK
  <2>3. DOMAIN owners' = DOMAIN owners /\ \A j \in DOMAIN owners : owners'[j].id = owners[j].id
    BY <2>1, <2>2 DEF OwnerEntry
  <2>4. OwnerIds' = OwnerIds
    BY <2>3 DEF OwnerIds
  <2>5. QED BY <1>2, <2>4 DEF ExclusiveRecursive
<1>3. ASSUME NEW t \in Threads, ExclusiveBusy(t) PROVE RW!WaitToWrite(t)
  <2>1. Len(owners) # 0
    BY <1>3, EntryFacts DEF ExclusiveBusy, ResourceInv, CountInv, TypeOK
  <2>2. 1 \in DOMAIN owners
    BY <2>1 DEF TypeOK
  <2>3. OwnerIds # {}
    BY <2>2 DEF OwnerIds
  <2>4. OwnerIds' = OwnerIds
    BY <1>3 DEF ExclusiveBusy, OwnerIds
  <2>5. QED BY <1>3, <2>3, <2>4 DEF RW!WaitToWrite, ExclusiveBusy
<1>4. ASSUME NEW t \in Threads, SharedFree(t) PROVE RW!Read(t)
  <2>1. ~ownedExclusive /\ exclusiveWaiters = <<>>
    BY <1>4, Unowned DEF SharedFree, SharedTerms
  <2>2. DOMAIN owners = 1 .. Len(owners) /\ Len(owners) \in Nat
    BY DEF TypeOK
  <2>3. /\ DOMAIN owners' = DOMAIN owners \cup {Len(owners) + 1}
        /\ \A j \in DOMAIN owners : owners'[j] = owners[j]
        /\ owners'[Len(owners) + 1] = Owner(t)
    BY <1>4, <2>2, AppendFacts DEF SharedFree, TypeOK
  <2>4. Owner(t).id = t
    BY DEF Owner
  <2>5. OwnerIds' = OwnerIds \cup {t}
    BY <2>3, <2>4, Zenon DEF OwnerIds
  <2>6. ownedExclusive' = ownedExclusive
    BY <1>4, <2>1 DEF SharedFree, TypeOK
  <2>7. QED BY <1>4, <2>1, <2>5, <2>6 DEF RW!Read, SharedFree
<1>5. ASSUME NEW t \in Threads, SharedBusy(t) PROVE RW!WaitToRead(t)
  <2>1. ownedExclusive \/ exclusiveWaiters # <<>>
    BY <1>5 DEF SharedBusy, SharedTerms
  <2>2. Distinct(sharedWaiters) /\ t \notin ToSet(sharedWaiters)
    BY <1>5 DEF SharedBusy, MayAcquireShared, Running, ResourceInv, WaitInv
  <2>3. ToSet(sharedWaiters') = ToSet(sharedWaiters) \cup {t}
    BY <1>5, <2>2, QueueUp DEF SharedBusy, TypeOK
  <2>4. OwnerIds' = OwnerIds
    BY <1>5 DEF SharedBusy, OwnerIds
  <2>5. QED BY <1>5, <2>1, <2>3, <2>4 DEF RW!WaitToRead, SharedBusy
<1>6. ASSUME NEW t \in Threads, Acquired(t) PROVE UNCHANGED RW!vars
  BY <1>6 DEF Acquired, resVars, OwnerIds, ToSet
<1>7. ASSUME NEW t \in Threads, Release(t)
      PROVE  RW!Leave(t) \/ RW!LeaveToWriter(t) \/ RW!LeaveToReaders(t) \/ UNCHANGED RW!vars
  <2>1. PICK k \in DOMAIN owners :
          owners[k].id = t /\ (Leave(k) \/ HandToExclusive(k) \/ HandToShared(k))
    BY <1>7 DEF Release, FirstOf
  <2>2. owners[k].id = t /\ pc[t] = "run" /\ t \in OwnerIds
    BY <1>7, <2>1 DEF Release, Running, OwnerIds
  <2>3. CASE Leave(k)
    <3>1. exclusiveWaiters' = exclusiveWaiters /\ sharedWaiters' = sharedWaiters
      BY <2>3 DEF Leave
    <3>2. sharedWaiters = <<>> => ToSet(sharedWaiters) = {}
      BY DEF ToSet
    <3>3. ToSet(sharedWaiters') = ToSet(sharedWaiters)
      BY <3>1
    <3>4. \/ OwnerIds' = OwnerIds /\ ownedExclusive' = ownedExclusive
          \/ OwnerIds' = OwnerIds \ {t} /\ OwnerIds # {t} /\ ownedExclusive' = ownedExclusive
          \/ /\ OwnerIds = {t} /\ OwnerIds' = {} /\ ~ownedExclusive'
             /\ exclusiveWaiters = <<>> /\ sharedWaiters = <<>>
      BY <2>2, <2>3, LeaveOwners
    <3>5. CASE OwnerIds' = OwnerIds /\ ownedExclusive' = ownedExclusive
      BY <3>1, <3>3, <3>5
    <3>6. CASE OwnerIds' = OwnerIds \ {t} /\ OwnerIds # {t} /\ ownedExclusive' = ownedExclusive
      BY <2>2, <3>1, <3>3, <3>6 DEF RW!Leave
    <3>7. CASE /\ OwnerIds = {t} /\ OwnerIds' = {} /\ ~ownedExclusive'
               /\ exclusiveWaiters = <<>> /\ sharedWaiters = <<>>
      <4>1. ownedExclusive' = FALSE
        BY <3>7, TypeStep DEF TypeOK
      <4>2. QED BY <3>1, <3>2, <3>3, <3>7, <4>1 DEF RW!LeaveToReaders
    <3>8. QED BY <3>4, <3>5, <3>6, <3>7
  <2>4. CASE HandToExclusive(k)
    <3>1. OwnerIds = {t} /\ owners' = <<Owner(Head(exclusiveWaiters))>>
      <4>1. OwnerIds = {t} /\ Remaining(k) = <<>>
        BY <2>2, <2>4, LastOwner DEF HandToExclusive
      <4>2. QED BY <2>4, <4>1 DEF HandToExclusive
    <3>2. OwnerIds' = {Head(exclusiveWaiters)}
      <4>1. DOMAIN owners' = {1} /\ owners'[1] = Owner(Head(exclusiveWaiters))
        BY <3>1
      <4>2. Owner(Head(exclusiveWaiters)).id = Head(exclusiveWaiters)
        BY DEF Owner
      <4>3. QED BY <4>1, <4>2 DEF OwnerIds
    <3>3. QED BY <2>4, <3>1, <3>2 DEF RW!LeaveToWriter, HandToExclusive
  <2>5. CASE HandToShared(k)
    <3>1. OwnerIds = {t} /\ OwnerIds' = ToSet(sharedWaiters)
      BY <1>7, <2>2, <2>5, AdmitCrowd
    <3>2. ToSet(sharedWaiters') = {}
      BY <2>5 DEF HandToShared, ToSet
    <3>3. QED BY <2>5, <3>1, <3>2 DEF RW!LeaveToReaders, HandToShared
  <2>6. QED BY <2>1, <2>3, <2>4, <2>5
<1>8. CASE UNCHANGED vars
  BY <1>8 DEF vars, resVars, OwnerIds, ToSet
<1>9. ASSUME NEW t \in Threads, SharedRecursive(t) PROVE FALSE
  BY <1>9, SharedRecursiveStep
<1>10. QED
  BY <1>1, <1>2, <1>3, <1>4, <1>5, <1>6, <1>7, <1>8, <1>9 DEF Next, Acquire, RW!Next

(* RWLockSpec: the resource implements the lock of RWLock, exclusive access *)
(* in the order of the requests included, for any number of threads that do *)
(* not nest shared acquisitions.                                            *)
THEOREM ResourceRefinesRWLock ==
ASSUME ~SharedNests
PROVE  Spec => RWLockSpec
<1>1. Init => RW!Init
  BY DEF Init, RW!Init, OwnerIds, ToSet
<1>2. TypeOK /\ ResourceInv /\ [Next]_vars => [RW!Next]_(RW!vars)
  BY RWStep
<1>3. QED
  BY ResourceTypeCorrect, CountersAgree, <1>1, <1>2, PTL DEF Spec, RWLockSpec, RW!Spec

-------------------------------------------------------------------------------
(* Sums over finite sets *)

(* A set of numbers that is not empty has a least one. *)
LEMMA Least ==
ASSUME NEW S \in SUBSET Nat, S # {}
PROVE  \E m \in S : \A n \in S : m <= n
<1> DEFINE R == OpToRel(<, Nat)
<1>1. IsWellFoundedOn(R, Nat)
  BY NatLessThanWellFounded
<1>2. \A m, n \in Nat : <<n, m>> \in R <=> n < m
  BY DEF OpToRel
<1> HIDE DEF R
<1>3. PICK m \in S : \A n \in S : ~(<<n, m>> \in R)
  BY <1>1, WFMin
<1>4. ASSUME NEW n \in S PROVE m <= n
  <2>1. m \in Nat /\ n \in Nat /\ ~(<<n, m>> \in R)
    BY <1>3
  <2>2. ~(n < m)
    BY <1>2, <2>1, Zenon
  <2>3. QED BY <2>1, <2>2
<1>5. QED BY <1>4

(* Induction: a set that has 0, and with a number the next one, has all of *)
(* them.                                                                   *)
LEMMA SetInduction ==
ASSUME NEW S, 0 \in S, \A n \in Nat : n \in S => n + 1 \in S
PROVE  Nat \subseteq S
<1> SUFFICES ASSUME Nat \ S # {} PROVE FALSE
  OBVIOUS
<1>1. PICK m \in Nat \ S : \A n \in Nat \ S : m <= n
  <2>1. Nat \ S \in SUBSET Nat
    OBVIOUS
  <2>2. QED BY <2>1, Least
<1>2. m - 1 \in Nat /\ m - 1 \in S
  BY <1>1
<1>3. QED BY <1>1, <1>2

(* What HoldersListed adds up, for any list and any set of its indices. *)
Total(q, S) == MapThenSumSet(LAMBDA k : q[k].num, S)
Chosen(s) == CHOOSE x \in s : TRUE

(* The subsets of D that have no more than n elements. *)
Smaller(D, n) == {s \in SUBSET D : Cardinality(s) <= n}

(* g adds up the entries of q over every subset of D: the recursive function *)
(* that the community modules' fold stands for.                              *)
Body(q, g, s) == IF s = {} THEN 0 ELSE q[Chosen(s)].num + g[s \ {Chosen(s)}]
SumsUp(D, q, g) == g = [s \in SUBSET D |-> Body(q, g, s)]

(* What is chosen from a set is in it. *)
LEMMA ChosenIn == \A s : s # {} => Chosen(s) \in s
BY DEF Chosen

(* A set less one of its elements has one element less. *)
LEMMA Without ==
ASSUME NEW D, IsFiniteSet(D), NEW s \in SUBSET D, NEW x \in s
PROVE  /\ s \ {x} \in SUBSET D /\ IsFiniteSet(s) /\ IsFiniteSet(s \ {x})
       /\ Cardinality(s) \in Nat \ {0} /\ Cardinality(s \ {x}) = Cardinality(s) - 1
       /\ Cardinality(s \ {x}) \in Nat
<1>1. IsFiniteSet(s)
  BY FS_Subset
<1>2. IsFiniteSet(s \ {x}) /\ Cardinality(s \ {x}) = Cardinality(s) - 1
  BY <1>1, FS_RemoveElement
<1>3. Cardinality(s) \in Nat /\ Cardinality(s \ {x}) \in Nat
  BY <1>1, <1>2, FS_CardinalityType
<1>4. QED BY <1>1, <1>2, <1>3

(* There is a function that adds up, by induction over the size of the sets. *)
LEMMA SumExists ==
ASSUME NEW D, IsFiniteSet(D), NEW q
PROVE  \E g : SumsUp(D, q, g)
<1> DEFINE Good(n) == \E g : g = [s \in Smaller(D, n) |-> Body(q, g, s)]
           N == {n \in Nat : Good(n)}
<1>1. 0 \in N
  <2> DEFINE g == [s \in Smaller(D, 0) |-> 0]
  <2>1. \A s \in Smaller(D, 0) : s = {}
    <3>1. ASSUME NEW s \in Smaller(D, 0), NEW x \in s PROVE FALSE
      <4>1. s \in SUBSET D /\ Cardinality(s) <= 0
        BY DEF Smaller
      <4>2. Cardinality(s) \in Nat \ {0}
        BY <4>1, Without
      <4>3. QED BY <4>1, <4>2
    <3>2. QED BY <3>1
  <2>2. \A s \in Smaller(D, 0) : Body(q, g, s) = 0
    BY <2>1 DEF Body
  <2>3. g = [s \in Smaller(D, 0) |-> Body(q, g, s)]
    BY <2>2
  <2>4. QED BY <2>3
<1>2. ASSUME NEW n \in Nat, n \in N PROVE n + 1 \in N
  <2>1. PICK g : g = [s \in Smaller(D, n) |-> Body(q, g, s)]
    BY <1>2
  <2> DEFINE h == [s \in Smaller(D, n + 1) |-> Body(q, g, s)]
  <2>2. ASSUME NEW s \in Smaller(D, n), s \in Smaller(D, n + 1) PROVE g[s] = h[s]
    <3>1. g[s] = Body(q, g, s)
      BY <2>1
    <3>2. QED BY <2>2, <3>1
  <2>3. ASSUME NEW s \in Smaller(D, n + 1), s # {}
        PROVE  /\ s \ {Chosen(s)} \in Smaller(D, n)
               /\ s \ {Chosen(s)} \in Smaller(D, n + 1)
    <3>1. Chosen(s) \in s /\ s \in SUBSET D /\ Cardinality(s) <= n + 1
      BY <2>3, ChosenIn DEF Smaller
    <3>2. /\ s \ {Chosen(s)} \in SUBSET D /\ Cardinality(s) \in Nat
          /\ Cardinality(s \ {Chosen(s)}) = Cardinality(s) - 1
      BY <3>1, Without
    <3>3. QED BY <3>1, <3>2 DEF Smaller
  <2> HIDE DEF h
  <2>4. ASSUME NEW s \in Smaller(D, n + 1) PROVE Body(q, g, s) = Body(q, h, s)
    BY <2>2, <2>3 DEF Body
  <2>5. h = [s \in Smaller(D, n + 1) |-> Body(q, h, s)]
    BY <2>4 DEF h
  <2>6. QED BY <2>5
<1>3. Nat \subseteq N
  <2> HIDE DEF N
  <2>1. QED BY <1>1, <1>2, SetInduction
<1>4. Cardinality(D) \in N
  BY <1>3, FS_CardinalityType
<1>5. Smaller(D, Cardinality(D)) = SUBSET D
  BY FS_Subset, FS_CardinalityType DEF Smaller
<1>6. QED BY <1>4, <1>5 DEF SumsUp

(* The empty set is small, and a small set less an element is smaller. *)
LEMMA SmallerLess ==
ASSUME NEW D, IsFiniteSet(D), NEW n \in Nat
PROVE  /\ \A s \in Smaller(D, 0) : s = {}
       /\ \A s \in Smaller(D, n + 1) : \A x \in s : s \ {x} \in Smaller(D, n)
       /\ \A s \in SUBSET D : s \in Smaller(D, Cardinality(D)) /\ Cardinality(D) \in Nat
<1>1. ASSUME NEW s \in Smaller(D, 0), NEW x \in s PROVE FALSE
  <2>1. s \in SUBSET D /\ Cardinality(s) <= 0
    BY DEF Smaller
  <2>2. Cardinality(s) \in Nat \ {0}
    BY <2>1, Without
  <2>3. QED BY <2>1, <2>2
<1>2. ASSUME NEW s \in Smaller(D, n + 1), NEW x \in s PROVE s \ {x} \in Smaller(D, n)
  <2>1. s \in SUBSET D /\ Cardinality(s) <= n + 1
    BY DEF Smaller
  <2>2. /\ s \ {x} \in SUBSET D /\ Cardinality(s) \in Nat
        /\ Cardinality(s \ {x}) = Cardinality(s) - 1
    BY <2>1, Without
  <2>3. QED BY <2>1, <2>2 DEF Smaller
<1>3. \A s \in SUBSET D : s \in Smaller(D, Cardinality(D)) /\ Cardinality(D) \in Nat
  BY FS_Subset, FS_CardinalityType DEF Smaller
<1>4. QED BY <1>1, <1>2, <1>3

(* Every function that adds up gives the sum. *)
LEMMA SumsAgree ==
ASSUME NEW D, IsFiniteSet(D), NEW q, NEW g, SumsUp(D, q, g),
       NEW S \in SUBSET D
PROVE  Total(q, S) = g[S]
<1> DEFINE h == CHOOSE h : SumsUp(S, q, h)
<1>1. Total(q, S) = h[S]
  BY DEF Total, MapThenSumSet, MapThenFoldSet, SumsUp, Body, Chosen
<1>2. IsFiniteSet(S)
  BY FS_Subset
<1>3. SumsUp(S, q, h)
  BY <1>2, SumExists
<1> HIDE DEF h
<1> DEFINE N == {n \in Nat : \A s \in Smaller(S, n) : h[s] = g[s]}
<1>4. \A s \in SUBSET S : h[s] = Body(q, h, s) /\ g[s] = Body(q, g, s)
  BY <1>3 DEF SumsUp
<1>5. \A s \in SUBSET S : s # {} => Chosen(s) \in s
  BY ChosenIn
<1>6. \A n \in Nat : Smaller(S, n) \subseteq SUBSET S
  BY DEF Smaller
<1>7. 0 \in N
  <2>1. \A s \in Smaller(S, 0) : s = {}
    BY <1>2, SmallerLess
  <2>2. QED BY <1>4, <1>6, <2>1 DEF Body
<1>8. ASSUME NEW n \in Nat, n \in N PROVE n + 1 \in N
  <2>1. ASSUME NEW s \in Smaller(S, n + 1) PROVE h[s] = g[s]
    <3>1. s \in SUBSET S
      BY <1>6
    <3>2. s # {} => s \ {Chosen(s)} \in Smaller(S, n)
      BY <1>2, <1>5, <3>1, SmallerLess
    <3>3. s # {} => h[s \ {Chosen(s)}] = g[s \ {Chosen(s)}]
      BY <1>8, <3>2
    <3>4. QED BY <1>4, <3>1, <3>3 DEF Body
  <2> DEFINE Agree(m) == \A s \in Smaller(S, m) : h[s] = g[s]
  <2>2. Agree(n + 1)
    BY <2>1
  <2> HIDE DEF Agree
  <2>3. QED BY <2>2 DEF Agree
<1>9. Nat \subseteq N
  <2> HIDE DEF N
  <2>1. QED BY <1>7, <1>8, SetInduction
<1>10. S \in Smaller(S, Cardinality(S)) /\ Cardinality(S) \in Nat
  BY <1>2, SmallerLess
<1>11. QED BY <1>1, <1>9, <1>10

(* A sum over a finite set is that of the rest and of any of its elements. *)
LEMMA SumPart ==
ASSUME NEW D, IsFiniteSet(D), NEW q, \A x \in D : q[x].num \in Nat
PROVE  /\ Total(q, D) \in Nat
       /\ D = {} => Total(q, D) = 0
       /\ \A y \in D : Total(q, D) = q[y].num + Total(q, D \ {y})
<1>1. PICK g : SumsUp(D, q, g)
  BY SumExists
<1>2. \A s \in SUBSET D : g[s] = Body(q, g, s)
  BY <1>1 DEF SumsUp
<1> DEFINE Parts(s) == g[s] \in Nat /\ \A y \in s : g[s] = q[y].num + g[s \ {y}]
           N == {n \in Nat : \A s \in Smaller(D, n) : Parts(s)}
<1>3. \A n \in Nat : Smaller(D, n) \subseteq SUBSET D
  BY DEF Smaller
<1>4. g[{}] = 0
  BY <1>2 DEF Body
<1>5. 0 \in N
  <2>1. ASSUME NEW s \in Smaller(D, 0) PROVE Parts(s)
    <3>1. s = {}
      BY SmallerLess
    <3>2. QED BY <1>4, <3>1
  <2>2. QED BY <2>1, Zenon
<1>6. ASSUME NEW n \in Nat, n \in N PROVE n + 1 \in N
  <2>1. ASSUME NEW s \in Smaller(D, n + 1) PROVE Parts(s)
    <3>1. CASE s = {}
      BY <1>4, <3>1
    <3>2. CASE s # {}
      <4> DEFINE c == Chosen(s)
      <4>1. c \in s /\ s \in SUBSET D
        BY <1>3, <3>2, ChosenIn
      <4>2. g[s] = q[c].num + g[s \ {c}]
        BY <1>2, <3>2, <4>1 DEF Body
      <4> HIDE DEF c
      <4>3. s \ {c} \in Smaller(D, n)
        BY <4>1, SmallerLess
      <4>4. Parts(s \ {c})
        BY <1>6, <4>3
      <4>5. g[s] \in Nat
        BY <4>1, <4>2, <4>4
      <4>6. ASSUME NEW y \in s, y # c PROVE g[s] = q[y].num + g[s \ {y}]
        <5>1. g[s \ {c}] = q[y].num + g[(s \ {c}) \ {y}]
          BY <4>4, <4>6
        <5>2. s \ {y} \in Smaller(D, n)
          BY SmallerLess
        <5>3. g[s \ {y}] = q[c].num + g[(s \ {y}) \ {c}]
          BY <1>6, <4>1, <4>6, <5>2
        <5>4. (s \ {y}) \ {c} = (s \ {c}) \ {y}
          OBVIOUS
        <5>5. g[(s \ {c}) \ {y}] \in Nat
          <6>1. s \ {y} # {} /\ c \in s \ {y}
            BY <4>1, <4>6
          <6>2. (s \ {c}) \ {y} \in Smaller(D, n)
            <7>1. (s \ {c}) \ {y} \subseteq s \ {c} /\ s \ {c} \in SUBSET D /\ y \in s \ {c}
              BY <4>1, <4>6
            <7>2. Cardinality(s \ {c}) <= n
              BY <4>3 DEF Smaller
            <7>3. /\ Cardinality((s \ {c}) \ {y}) = Cardinality(s \ {c}) - 1
                  /\ Cardinality(s \ {c}) \in Nat
              <8> DEFINE w == s \ {c}
              <8>1. w \in SUBSET D /\ y \in w
                BY <7>1
              <8> HIDE DEF w
              <8>2. Cardinality(w \ {y}) = Cardinality(w) - 1 /\ Cardinality(w) \in Nat
                BY <8>1, Without
              <8>3. QED BY <8>2 DEF w
            <7>4. (s \ {c}) \ {y} \in SUBSET D
              BY <7>1
            <7>5. QED BY <7>2, <7>3, <7>4 DEF Smaller
          <6>3. QED BY <1>6, <6>2
        <5>6. q[y].num \in Nat /\ q[c].num \in Nat
          BY <4>1
        <5>7. g[s] = q[c].num + (q[y].num + g[(s \ {c}) \ {y}])
          BY <4>2, <5>1
        <5>8. q[y].num + g[s \ {y}] = q[y].num + (q[c].num + g[(s \ {c}) \ {y}])
          BY <5>3, <5>4
        <5>9. QED BY <5>5, <5>6, <5>7, <5>8
      <4>7. QED BY <4>2, <4>5, <4>6
    <3>3. QED BY <3>1, <3>2
  <2>2. QED BY <2>1
<1>7. Nat \subseteq N
  <2> HIDE DEF N
  <2>1. QED BY <1>5, <1>6, SetInduction
<1>8. D \in Smaller(D, Cardinality(D)) /\ Cardinality(D) \in Nat
  BY SmallerLess
<1>9. Parts(D)
  BY <1>7, <1>8
<1>10. ASSUME NEW S \in SUBSET D PROVE Total(q, S) = g[S]
  BY <1>1, SumsAgree
<1>11. QED BY <1>4, <1>9, <1>10

(* A sum stays the same when its elements are moved. *)
LEMMA SumMoved ==
ASSUME NEW S, NEW T, IsFiniteSet(S), IsFiniteSet(T), NEW q, NEW r, NEW b \in [S -> T],
       \A x, y \in S : b[x] = b[y] => x = y,
       \A y \in T : \E x \in S : b[x] = y,
       \A x \in S : q[x].num \in Nat /\ r[b[x]].num = q[x].num
PROVE  Total(q, S) = Total(r, T)
<1> DEFINE Of(s) == {b[x] : x \in s}
           N == {n \in Nat : \A s \in Smaller(S, n) : Total(q, s) = Total(r, Of(s))}
<1>1. ASSUME NEW s \in SUBSET S
      PROVE  /\ IsFiniteSet(s) /\ \A x \in s : q[x].num \in Nat
             /\ IsFiniteSet(Of(s)) /\ \A y \in Of(s) : r[y].num \in Nat
  <2>1. Of(s) \in SUBSET T
    OBVIOUS
  <2>2. QED BY <2>1, FS_Subset
<1>2. 0 \in N
  <2>1. ASSUME NEW s \in Smaller(S, 0) PROVE Total(q, s) = Total(r, Of(s))
    <3>1. s = {} /\ Of(s) = {} /\ s \in SUBSET S
      BY SmallerLess
    <3>2. Total(q, s) = 0
      BY <1>1, <3>1, SumPart
    <3>3. Total(r, Of(s)) = 0
      <4> HIDE DEF Of
      <4>1. QED BY <1>1, <3>1, SumPart
    <3>4. QED BY <3>2, <3>3
  <2>2. QED BY <2>1
<1>3. ASSUME NEW n \in Nat, n \in N PROVE n + 1 \in N
  <2>1. ASSUME NEW s \in Smaller(S, n + 1), NEW y \in s PROVE Total(q, s) = Total(r, Of(s))
    <3>1. s \in SUBSET S /\ s \ {y} \in Smaller(S, n)
      BY SmallerLess DEF Smaller
    <3>2. Total(q, s \ {y}) = Total(r, Of(s \ {y}))
      BY <1>3, <3>1
    <3>3. Of(s \ {y}) = Of(s) \ {b[y]} /\ b[y] \in Of(s)
      BY <3>1
    <3> HIDE DEF Of
    <3>4. Total(q, s) = q[y].num + Total(q, s \ {y})
      BY <1>1, <3>1, SumPart
    <3>5. Total(r, Of(s)) = r[b[y]].num + Total(r, Of(s) \ {b[y]})
      BY <1>1, <3>1, <3>3, SumPart
    <3>6. r[b[y]].num = q[y].num
      BY <3>1
    <3>7. QED BY <3>2, <3>3, <3>4, <3>5, <3>6
  <2>2. ASSUME NEW s \in Smaller(S, n + 1), s = {} PROVE s \in Smaller(S, 0)
    BY <2>2, FS_EmptySet DEF Smaller
  <2>3. \A s \in Smaller(S, n + 1) : Total(q, s) = Total(r, Of(s))
    <3> HIDE DEF Of
    <3>1. QED BY <1>2, <2>1, <2>2
  <2>4. QED BY <2>3
<1>4. Nat \subseteq N
  <2> HIDE DEF N
  <2>1. QED BY <1>2, <1>3, SetInduction
<1>5. S \in Smaller(S, Cardinality(S)) /\ Cardinality(S) \in Nat
  BY SmallerLess
<1>6. Of(S) = T
  OBVIOUS
<1>7. Total(q, S) = Total(r, Of(S))
  <2> HIDE DEF Of
  <2>1. QED BY <1>4, <1>5
<1>8. QED BY <1>6, <1>7

-------------------------------------------------------------------------------
(* What the entries of a thread count *)

(* The entries of thread t in a list, and what they count together. *)
Ent(s, t) == {j \in DOMAIN s : s[j].id = t}
Cnt(s, t) == Total(s, Ent(s, t))

(* A thread has finitely many entries, and each counts. *)
LEMMA EntFacts ==
ASSUME NEW s \in Seq(OwnerEntry), NEW t
PROVE  /\ IsFiniteSet(Ent(s, t)) /\ Ent(s, t) \subseteq 1 .. Len(s)
       /\ \A j \in Ent(s, t) : s[j].num \in Nat \ {0}
<1>1. Len(s) \in Nat /\ DOMAIN s = 1 .. Len(s)
  OBVIOUS
<1>2. IsFiniteSet(1 .. Len(s))
  BY <1>1, FS_Interval
<1>3. Ent(s, t) \subseteq 1 .. Len(s)
  BY <1>1 DEF Ent
<1>4. \A j \in 1 .. Len(s) : s[j] \in OwnerEntry
  OBVIOUS
<1>5. \A j \in Ent(s, t) : s[j].num \in Nat \ {0}
  BY <1>3, <1>4 DEF OwnerEntry
<1>6. QED BY <1>2, <1>3, <1>5, FS_Subset

(* The sum over a set of entries only depends on what they count. *)
LEMMA SumSame ==
ASSUME NEW S, IsFiniteSet(S), NEW q, NEW r,
       \A j \in S : q[j].num \in Nat /\ r[j].num = q[j].num
PROVE  Total(q, S) = Total(r, S)
<1> DEFINE b == [j \in S |-> j]
<1>1. /\ b \in [S -> S] /\ \A x, y \in S : b[x] = b[y] => x = y
      /\ \A y \in S : \E x \in S : b[x] = y
      /\ \A x \in S : q[x].num \in Nat /\ r[b[x]].num = q[x].num
  OBVIOUS
<1> HIDE DEF b
<1>2. /\ \A x, y \in S : b[x] = b[y] => x = y
      /\ \A y \in S : \E x \in S : b[x] = y
      /\ \A x \in S : q[x].num \in Nat /\ r[b[x]].num = q[x].num
  BY <1>1
<1>3. b \in [S -> S]
  BY <1>1
<1>4. QED BY <1>2, <1>3, SumMoved, SMTT(40)

(* An entry counts for its own thread. *)
LEMMA CntFacts ==
ASSUME NEW s \in Seq(OwnerEntry), NEW t
PROVE  /\ Cnt(s, t) \in Nat
       /\ Ent(s, t) = {} => Cnt(s, t) = 0
       /\ \A k \in Ent(s, t) : /\ Cnt(s, t) = s[k].num + Total(s, Ent(s, t) \ {k})
                               /\ Total(s, Ent(s, t) \ {k}) \in Nat
                               /\ Cnt(s, t) >= s[k].num /\ s[k].num \in Nat \ {0}
<1>1. IsFiniteSet(Ent(s, t)) /\ \A j \in Ent(s, t) : s[j].num \in Nat \ {0}
  BY EntFacts
<1>2. \A j \in Ent(s, t) : s[j].num \in Nat
  BY <1>1
<1>3. /\ Cnt(s, t) \in Nat
      /\ Ent(s, t) = {} => Cnt(s, t) = 0
      /\ \A k \in Ent(s, t) : Cnt(s, t) = s[k].num + Total(s, Ent(s, t) \ {k})
  BY <1>1, <1>2, SumPart DEF Cnt
<1>4. ASSUME NEW k \in Ent(s, t)
      PROVE  /\ Total(s, Ent(s, t) \ {k}) \in Nat
             /\ Cnt(s, t) >= s[k].num /\ s[k].num \in Nat \ {0}
  <2> DEFINE S == Ent(s, t) \ {k}
  <2>1. IsFiniteSet(S) /\ \A j \in S : s[j].num \in Nat
    BY <1>1, <1>2, FS_Subset
  <2>2. Cnt(s, t) = s[k].num + Total(s, S) /\ s[k].num \in Nat \ {0}
    BY <1>1, <1>3
  <2> HIDE DEF S
  <2>3. Total(s, S) \in Nat
    BY <2>1, SumPart
  <2>4. Cnt(s, t) >= s[k].num
    BY <2>2, <2>3
  <2>5. QED BY <2>2, <2>3, <2>4 DEF S
<1>5. QED BY <1>3, <1>4

(* A list that grows by an entry counts it for its thread. *)
LEMMA CntAppend ==
ASSUME NEW s \in Seq(OwnerEntry), NEW u \in Threads, NEW t
PROVE  Cnt(Append(s, Owner(u)), t) = Cnt(s, t) + (IF t = u THEN 1 ELSE 0)
<1> DEFINE r == Append(s, Owner(u))
           n == Len(s) + 1
<1>1. Owner(u) \in OwnerEntry /\ Owner(u).id = u /\ Owner(u).num = 1
  BY DEF Owner, OwnerEntry
<1>2. r \in Seq(OwnerEntry)
  BY <1>1
<1>3. /\ Len(s) \in Nat /\ DOMAIN s = 1 .. Len(s) /\ DOMAIN r = 1 .. n
      /\ \A j \in 1 .. Len(s) : r[j] = s[j]
      /\ r[n] = Owner(u)
  BY AppendFacts
<1> HIDE DEF r
<1>4. Ent(r, t) \ {n} = Ent(s, t)
  BY <1>3 DEF Ent
<1>5. n \in Ent(r, t) <=> t = u
  BY <1>1, <1>3 DEF Ent
<1>6. Total(s, Ent(s, t)) = Total(r, Ent(s, t))
  <2>1. \A j \in Ent(s, t) : s[j].num \in Nat /\ r[j].num = s[j].num
    BY <1>3, EntFacts
  <2>2. QED BY <2>1, EntFacts, SumSame
<1>7. CASE t = u
  <2>1. n \in Ent(r, t)
    BY <1>5, <1>7
  <2>2. Cnt(r, t) = r[n].num + Total(r, Ent(r, t) \ {n})
    BY <1>2, <2>1, CntFacts
  <2>3. Cnt(r, t) = 1 + Cnt(s, t) /\ Cnt(s, t) \in Nat
    BY <1>1, <1>3, <1>4, <1>6, <2>2, CntFacts DEF Cnt
  <2>4. QED BY <1>7, <2>3 DEF r
<1>8. CASE t # u
  <2>1. Ent(r, t) = Ent(s, t)
    BY <1>4, <1>5, <1>8
  <2>2. Cnt(r, t) = Cnt(s, t) /\ Cnt(s, t) \in Nat
    BY <1>6, <2>1, CntFacts DEF Cnt
  <2>3. QED BY <1>8, <2>2 DEF r
<1>9. QED BY <1>7, <1>8

(* An entry that counts more or less does so for its thread. *)
LEMMA CntChanged ==
ASSUME NEW s \in Seq(OwnerEntry), NEW r \in Seq(OwnerEntry), NEW k \in DOMAIN s,
       DOMAIN r = DOMAIN s, r[k].id = s[k].id,
       \A j \in DOMAIN s : j # k => r[j] = s[j], NEW t
PROVE  Cnt(r, t) = IF t = s[k].id THEN Cnt(s, t) - s[k].num + r[k].num ELSE Cnt(s, t)
<1>1. Ent(r, t) = Ent(s, t) /\ (k \in Ent(s, t) <=> t = s[k].id)
  BY DEF Ent
<1> DEFINE S == Ent(s, t) \ {k}
<1>2. Total(s, S) = Total(r, S)
  <2>1. \A j \in S : j \in DOMAIN s /\ j # k /\ s[j].num \in Nat
    BY EntFacts DEF Ent
  <2>2. IsFiniteSet(S)
    BY EntFacts, FS_Subset
  <2>3. \A j \in S : s[j].num \in Nat /\ r[j].num = s[j].num
    BY <2>1
  <2> HIDE DEF S
  <2>4. QED BY <2>2, <2>3, SumSame
<1>3. CASE t = s[k].id
  <2>1. k \in Ent(s, t) /\ k \in Ent(r, t)
    BY <1>1, <1>3
  <2>2. Cnt(s, t) = s[k].num + Total(s, S) /\ Total(s, S) \in Nat /\ s[k].num \in Nat
    BY <2>1, CntFacts
  <2>3. Cnt(r, t) = r[k].num + Total(r, S) /\ r[k].num \in Nat
    <3>1. /\ Cnt(r, t) = r[k].num + Total(r, Ent(r, t) \ {k})
          /\ r[k].num \in Nat
      BY <2>1, CntFacts
    <3>2. Ent(r, t) \ {k} = S
      BY <1>1
    <3>3. QED BY <3>1, <3>2
  <2> HIDE DEF S
  <2>4. Cnt(r, t) = Cnt(s, t) - s[k].num + r[k].num
    BY <1>2, <2>2, <2>3
  <2>5. QED BY <1>3, <2>4
<1>4. CASE t # s[k].id
  <2>1. S = Ent(s, t) /\ S = Ent(r, t)
    BY <1>1, <1>4
  <2>2. QED BY <1>2, <1>4, <2>1 DEF Cnt
<1>5. QED BY <1>3, <1>4

(* An entry that leaves the list no longer counts for its thread. *)
LEMMA CntRemoved ==
ASSUME NEW s \in Seq(OwnerEntry), NEW k \in DOMAIN s, NEW t
PROVE  Cnt(RemoveAt(s, k), t) = IF t = s[k].id THEN Cnt(s, t) - s[k].num ELSE Cnt(s, t)
<1> DEFINE r == RemoveAt(s, k)
           S == Ent(s, t) \ {k}
           b == [j \in S |-> IF j < k THEN j ELSE j - 1]
<1>1. /\ r \in Seq(OwnerEntry) /\ DOMAIN r = 1 .. Len(s) - 1
      /\ \A j \in 1 .. Len(s) - 1 : r[j] = IF j < k THEN s[j] ELSE s[j + 1]
  BY RemoveAtFacts
<1> HIDE DEF r
<1>2. Len(s) \in Nat /\ DOMAIN s = 1 .. Len(s) /\ k \in 1 .. Len(s)
  OBVIOUS
<1>3. ASSUME NEW j \in S
      PROVE  b[j] \in Ent(r, t) /\ r[b[j]] = s[j] /\ s[j].num \in Nat
  <2>1. j \in 1 .. Len(s) /\ j # k /\ s[j].id = t /\ s[j].num \in Nat
    BY <1>2, EntFacts DEF Ent
  <2>2. b[j] = IF j < k THEN j ELSE j - 1
    OBVIOUS
  <2>3. b[j] \in 1 .. Len(s) - 1 /\ r[b[j]] = s[j]
    <3>1. CASE j < k
      BY <1>1, <1>2, <2>1, <2>2, <3>1
    <3>2. CASE ~(j < k)
      <4>1. b[j] = j - 1 /\ j - 1 \in 1 .. Len(s) - 1 /\ ~(j - 1 < k) /\ j - 1 + 1 = j
        BY <1>2, <2>1, <2>2, <3>2
      <4>2. QED BY <1>1, <4>1
    <3>3. QED BY <3>1, <3>2
  <2>4. QED BY <1>1, <2>1, <2>3 DEF Ent
<1>4. \A x, y \in S : b[x] = b[y] => x = y
  <2>1. \A x \in S : x \in 1 .. Len(s) /\ x # k /\ b[x] = IF x < k THEN x ELSE x - 1
    BY <1>2 DEF Ent
  <2> HIDE DEF S, b
  <2>2. QED BY <1>2, <2>1
<1>5. ASSUME NEW y \in Ent(r, t) PROVE \E x \in S : b[x] = y
  <2>1. y \in 1 .. Len(s) - 1 /\ r[y].id = t /\ r[y] = IF y < k THEN s[y] ELSE s[y + 1]
    BY <1>1 DEF Ent
  <2>2. CASE y < k
    <3>1. y \in S /\ b[y] = y
      BY <1>2, <2>1, <2>2 DEF Ent
    <3>2. QED BY <3>1
  <2>3. CASE ~(y < k)
    <3>1. y + 1 \in 1 .. Len(s) /\ y + 1 # k /\ ~(y + 1 < k) /\ y + 1 - 1 = y
      BY <1>2, <2>1, <2>3
    <3>2. s[y + 1].id = t
      BY <2>1, <2>3
    <3>3. y + 1 \in S
      BY <1>2, <3>1, <3>2 DEF Ent
    <3>4. \A z \in S : ~(z < k) => b[z] = z - 1
      OBVIOUS
    <3> HIDE DEF S, b
    <3>5. b[y + 1] = (y + 1) - 1
      BY <3>1, <3>3, <3>4, Zenon
    <3>6. (y + 1) - 1 = y
      BY <2>1
    <3>7. b[y + 1] = y
      BY <3>5, <3>6, Zenon
    <3>8. QED BY <3>3, <3>7
  <2>4. QED BY <2>2, <2>3
<1>6. IsFiniteSet(S) /\ IsFiniteSet(Ent(r, t))
  BY <1>1, EntFacts, FS_Subset
<1>7. Total(s, S) = Cnt(r, t)
  <2>1. b \in [S -> Ent(r, t)]
    BY <1>3
  <2>2. \A x \in S : s[x].num \in Nat /\ r[b[x]].num = s[x].num
    BY <1>3
  <2> HIDE DEF S, b
  <2>3. QED BY <1>4, <1>5, <1>6, <2>1, <2>2, SumMoved DEF Cnt
<1>8. CASE t = s[k].id
  <2>1. k \in Ent(s, t)
    BY <1>8 DEF Ent
  <2>2. Cnt(s, t) = s[k].num + Total(s, S) /\ Total(s, S) \in Nat /\ s[k].num \in Nat
    BY <2>1, CntFacts
  <2> HIDE DEF S
  <2>3. Cnt(r, t) = Cnt(s, t) - s[k].num
    BY <1>7, <2>2
  <2>4. QED BY <1>8, <2>3 DEF r
<1>9. CASE t # s[k].id
  <2>1. S = Ent(s, t)
    BY <1>9 DEF Ent
  <2>2. QED BY <1>7, <1>9, <2>1 DEF r, Cnt
<1>10. QED BY <1>8, <1>9

-------------------------------------------------------------------------------
(* No acquisition is lost *)

(* The entries of a thread count what it was told it has, and one more when *)
(* its semaphore is up and it still sleeps.  Those whose semaphore is up    *)
(* wait in no list, and those who wait do so once.                          *)
KeepInv ==
  ~stale =>
    /\ Distinct(exclusiveWaiters) /\ Distinct(sharedWaiters)
    /\ \A t \in ToSet(exclusiveWaiters) : pc[t] = "exclusive" /\ t \notin upped
    /\ \A t \in ToSet(sharedWaiters) : pc[t] = "shared" /\ t \notin upped
    /\ \A t \in upped : pc[t] # "run"
    /\ \A t \in Threads :
         Cnt(owners, t) = hold[t].depth + IF t \in upped THEN 1 ELSE 0

(* What was granted to a thread that it was not told of yet. *)
Asked(t) == IF t \in upped THEN 1 ELSE 0

(* A thread is told of an acquisition that the list counts. *)
LEMMA KeptWhenTold ==
ASSUME TypeOK, KeepInv, ~stale, NEW t \in Threads, pc[t] = "run", NEW mode, Told(t, mode),
       \A u \in Threads : Cnt(owners', u) = Cnt(owners, u) + (IF u = t THEN 1 ELSE 0),
       UNCHANGED <<exclusiveWaiters, sharedWaiters, pc, upped, stale>>
PROVE  KeepInv'
<1>1. \A u \in Threads : hold'[u].depth = hold[u].depth + (IF u = t THEN 1 ELSE 0)
  BY DEF Told, TypeOK
<1>2. t \notin upped
  BY DEF KeepInv
<1>3. \A u \in Threads : hold[u].depth \in Nat
  BY DEF TypeOK
<1>4. \A u \in Threads :
        Cnt(owners', u) = hold'[u].depth + IF u \in upped THEN 1 ELSE 0
  BY <1>1, <1>3 DEF KeepInv
<1>5. QED BY <1>4 DEF KeepInv, Distinct, ToSet

(* A thread that runs is in no list of waiters. *)
LEMMA RunsUnlisted ==
ASSUME KeepInv, ~stale, NEW t, pc[t] = "run"
PROVE  t \notin ToSet(exclusiveWaiters) /\ t \notin ToSet(sharedWaiters) /\ t \notin upped
BY DEF KeepInv

(* A list without repetition grows by one that was not in it. *)
LEMMA DistinctAppend ==
ASSUME NEW S, NEW s \in Seq(S), Distinct(s), NEW t, t \notin ToSet(s)
PROVE  Distinct(Append(s, t)) /\ ToSet(Append(s, t)) = ToSet(s) \cup {t}
<1>1. /\ DOMAIN Append(s, t) = 1 .. Len(s) + 1 /\ DOMAIN s = 1 .. Len(s) /\ Len(s) \in Nat
      /\ \A j \in 1 .. Len(s) : Append(s, t)[j] = s[j]
      /\ Append(s, t)[Len(s) + 1] = t
  BY AppendFacts
<1>2. \A j \in 1 .. Len(s) : s[j] # t
  BY <1>1 DEF ToSet
<1>3. Distinct(Append(s, t))
  BY <1>1, <1>2 DEF Distinct
<1>4. ToSet(Append(s, t)) = ToSet(s) \cup {t}
  <2>1. ASSUME NEW e \in ToSet(Append(s, t)) PROVE e \in ToSet(s) \cup {t}
    BY <1>1 DEF ToSet
  <2>2. t \in ToSet(Append(s, t))
    <3>1. Len(s) + 1 \in DOMAIN Append(s, t)
      BY <1>1
    <3>2. QED BY <1>1, <3>1 DEF ToSet
  <2>3. ASSUME NEW e \in ToSet(s) PROVE e \in ToSet(Append(s, t))
    <3>1. PICK j \in 1 .. Len(s) : s[j] = e
      BY <1>1 DEF ToSet
    <3>2. j \in DOMAIN Append(s, t) /\ Append(s, t)[j] = e
      BY <1>1, <3>1
    <3>3. QED BY <3>2 DEF ToSet
  <2>4. QED BY <2>1, <2>2, <2>3
<1>5. QED BY <1>3, <1>4

(* A call that acquires, or goes to sleep, loses no acquisition. *)
LEMMA KeptAcquire ==
ASSUME TypeOK, KeepInv, NEW t \in Threads, Acquire(t)
PROVE  KeepInv'
<1>1. ~stale /\ pc[t] = "run"
  BY DEF Acquire, ExclusiveFree, ExclusiveRecursive, ExclusiveBusy, SharedFree,
         SharedRecursive, SharedBusy, MayAcquireExclusive, MayAcquireShared, Running
<1>2. owners \in Seq(OwnerEntry)
  BY DEF TypeOK
<1>3. CASE ExclusiveFree(t) \/ SharedFree(t)
  <2>1. \A u \in Threads : Cnt(owners', u) = Cnt(owners, u) + (IF u = t THEN 1 ELSE 0)
    <3>1. owners' = Append(owners, Owner(t))
      BY <1>3 DEF ExclusiveFree, SharedFree
    <3>2. QED BY <1>2, <3>1, CntAppend
  <2>2. \E mode : Told(t, mode)
    BY <1>3 DEF ExclusiveFree, SharedFree
  <2>3. UNCHANGED <<exclusiveWaiters, sharedWaiters, pc, upped, stale>>
    BY <1>3 DEF ExclusiveFree, SharedFree
  <2>4. QED BY <1>1, <2>1, <2>2, <2>3, KeptWhenTold
<1>4. CASE ExclusiveRecursive(t) \/ SharedRecursive(t)
  <2>1. PICK k \in DOMAIN owners :
          owners[k].id = t /\ owners' = [owners EXCEPT ![k].num = @ + 1]
    <3>1. CASE ExclusiveRecursive(t)
      <4>1. 1 \in DOMAIN owners
        BY <1>2, <3>1 DEF ExclusiveRecursive, OwnsExclusively
      <4>2. QED BY <3>1, <4>1 DEF ExclusiveRecursive, OwnsExclusively
    <3>2. CASE SharedRecursive(t)
      BY <3>2 DEF SharedRecursive, FirstOf
    <3>3. QED BY <1>4, <3>1, <3>2
  <2> DEFINE e == [owners[k] EXCEPT !.num = @ + 1]
  <2>2. owners[k] \in OwnerEntry /\ owners' = [owners EXCEPT ![k] = e]
    BY <1>2, <2>1
  <2>3. /\ e \in OwnerEntry /\ e.id = t /\ e.num = owners[k].num + 1
        /\ owners[k].num \in Nat
    BY <2>1, <2>2 DEF OwnerEntry
  <2> HIDE DEF e
  <2>4. /\ owners' \in Seq(OwnerEntry) /\ DOMAIN owners' = DOMAIN owners
        /\ owners'[k].id = owners[k].id /\ owners'[k].num = owners[k].num + 1
        /\ \A j \in DOMAIN owners : j # k => owners'[j] = owners[j]
    <3>1. owners' \in Seq(OwnerEntry) /\ DOMAIN owners' = DOMAIN owners
      BY <1>2, <2>2, <2>3
    <3>2. owners'[k] = e /\ \A j \in DOMAIN owners : j # k => owners'[j] = owners[j]
      BY <1>2, <2>2
    <3>3. owners[k].id = t
      BY <2>1
    <3>4. QED BY <2>3, <3>1, <3>2, <3>3
  <2>5. ASSUME NEW u \in Threads
        PROVE  Cnt(owners', u) = Cnt(owners, u) + (IF u = t THEN 1 ELSE 0)
    <3>1. Cnt(owners', u) = IF u = t THEN Cnt(owners, u) - owners[k].num + owners'[k].num
                                     ELSE Cnt(owners, u)
      <4> DEFINE after == owners'
      <4>1. /\ after \in Seq(OwnerEntry) /\ DOMAIN after = DOMAIN owners
            /\ after[k].id = owners[k].id
            /\ \A j \in DOMAIN owners : j # k => after[j] = owners[j]
        BY <2>4
      <4> HIDE DEF after
      <4>2. Cnt(after, u) = IF u = t THEN Cnt(owners, u) - owners[k].num + after[k].num
                                     ELSE Cnt(owners, u)
        BY <1>2, <2>1, <4>1, CntChanged
      <4>3. QED BY <4>2 DEF after
    <3>2. Cnt(owners, u) \in Nat
      BY <1>2, CntFacts
    <3>3. QED BY <2>3, <2>4, <3>1, <3>2
  <2>6. \E mode : Told(t, mode)
    BY <1>4 DEF ExclusiveRecursive, SharedRecursive
  <2>7. UNCHANGED <<exclusiveWaiters, sharedWaiters, pc, upped, stale>>
    BY <1>4 DEF ExclusiveRecursive, SharedRecursive
  <2>8. QED BY <1>1, <2>5, <2>6, <2>7, KeptWhenTold
<1>5. CASE ExclusiveBusy(t)
  <2>1. /\ Distinct(exclusiveWaiters')
        /\ ToSet(exclusiveWaiters') = ToSet(exclusiveWaiters) \cup {t}
    BY <1>1, <1>5, RunsUnlisted, DistinctAppend DEF ExclusiveBusy, TypeOK, KeepInv
  <2>2. pc' = [pc EXCEPT ![t] = "exclusive"] /\ pc \in [Threads -> Modes \cup {"run"}]
    BY <1>5 DEF ExclusiveBusy, Sleep, TypeOK
  <2>3. t \notin ToSet(sharedWaiters) /\ t \notin upped
    BY <1>1, RunsUnlisted
  <2>4. UNCHANGED <<owners, sharedWaiters, upped, hold, stale>>
    BY <1>5 DEF ExclusiveBusy
  <2>5. pc'[t] = "exclusive" /\ \A u : u # t => pc'[u] = pc[u]
    BY <2>2
  <2>6. QED BY <1>1, <2>1, <2>3, <2>4, <2>5 DEF KeepInv
<1>6. CASE SharedBusy(t)
  <2>1. /\ Distinct(sharedWaiters')
        /\ ToSet(sharedWaiters') = ToSet(sharedWaiters) \cup {t}
    BY <1>1, <1>6, RunsUnlisted, DistinctAppend DEF SharedBusy, TypeOK, KeepInv
  <2>2. pc' = [pc EXCEPT ![t] = "shared"] /\ pc \in [Threads -> Modes \cup {"run"}]
    BY <1>6 DEF SharedBusy, Sleep, TypeOK
  <2>3. t \notin ToSet(exclusiveWaiters) /\ t \notin upped
    BY <1>1, RunsUnlisted
  <2>4. UNCHANGED <<owners, exclusiveWaiters, upped, hold, stale>>
    BY <1>6 DEF SharedBusy
  <2>5. pc'[t] = "shared" /\ \A u : u # t => pc'[u] = pc[u]
    BY <2>2
  <2>6. QED BY <1>1, <2>1, <2>3, <2>4, <2>5 DEF KeepInv
<1>7. QED BY <1>3, <1>4, <1>5, <1>6 DEF Acquire

(* A thread that wakes up was counted when it was made an owner. *)
LEMMA KeptAcquired ==
ASSUME TypeOK, KeepInv, NEW t \in Threads, Acquired(t)
PROVE  KeepInv'
<1>1. ~stale /\ t \in upped /\ upped' = upped \ {t} /\ pc' = [pc EXCEPT ![t] = "run"]
  BY DEF Acquired
<1>2. UNCHANGED <<owners, exclusiveWaiters, sharedWaiters, stale>>
  BY DEF Acquired, resVars
<1>3. \A u \in Threads : /\ hold'[u].depth = hold[u].depth + (IF u = t THEN 1 ELSE 0)
                         /\ hold[u].depth \in Nat
  BY DEF Acquired, Told, TypeOK
<1>4. t \notin ToSet(exclusiveWaiters) /\ t \notin ToSet(sharedWaiters)
  BY <1>1 DEF KeepInv
<1>5. \A u : u # t => pc'[u] = pc[u]
  BY <1>1 DEF TypeOK
<1>6. ASSUME NEW u \in Threads
      PROVE  Cnt(owners', u) = hold'[u].depth + IF u \in upped' THEN 1 ELSE 0
  <2>1. Cnt(owners, u) = hold[u].depth + IF u \in upped THEN 1 ELSE 0
    BY <1>1 DEF KeepInv
  <2>2. CASE u = t
    BY <1>1, <1>2, <1>3, <2>1, <2>2
  <2>3. CASE u # t
    BY <1>1, <1>2, <1>3, <2>1, <2>3
  <2>4. QED BY <2>2, <2>3
<1>7. Distinct(exclusiveWaiters) /\ Distinct(sharedWaiters)
  BY <1>1 DEF KeepInv
<1>8. /\ \A u \in ToSet(exclusiveWaiters) : pc'[u] = "exclusive" /\ u \notin upped'
      /\ \A u \in ToSet(sharedWaiters) : pc'[u] = "shared" /\ u \notin upped'
      /\ \A u \in upped' : pc'[u] # "run"
  BY <1>1, <1>4, <1>5 DEF KeepInv
<1>9. QED BY <1>2, <1>6, <1>7, <1>8 DEF KeepInv

(* What is left of the list counts one acquisition less, for its thread. *)
LEMMA CntRemaining ==
ASSUME TypeOK, NEW k \in DOMAIN owners, NEW u
PROVE  /\ Remaining(k) \in Seq(OwnerEntry)
       /\ Cnt(Remaining(k), u) = Cnt(owners, u) - (IF u = owners[k].id THEN 1 ELSE 0)
       /\ Cnt(owners, u) \in Nat
       /\ u = owners[k].id => Cnt(owners, u) >= 1
<1>1. owners \in Seq(OwnerEntry) /\ owners[k] \in OwnerEntry /\ owners[k].num \in Nat \ {0}
  BY EntryFacts DEF TypeOK
<1>2. Cnt(owners, u) \in Nat
  BY <1>1, CntFacts
<1>3. ASSUME u = owners[k].id PROVE Cnt(owners, u) >= 1
  <2>1. k \in Ent(owners, u)
    BY <1>3 DEF Ent
  <2>2. Cnt(owners, u) >= owners[k].num
    BY <1>1, <2>1, CntFacts
  <2>3. QED BY <1>1, <1>2, <2>2
<1>4. Cnt(Remaining(k), u) = Cnt(owners, u) - (IF u = owners[k].id THEN 1 ELSE 0)
  <2>1. CASE owners[k].num > 1
    <3> DEFINE e == [owners[k] EXCEPT !.num = @ - 1]
    <3>1. Remaining(k) = [owners EXCEPT ![k] = e]
      BY <2>1 DEF Remaining
    <3>2. e \in OwnerEntry /\ e.id = owners[k].id /\ e.num = owners[k].num - 1
      BY <1>1, <2>1 DEF OwnerEntry
    <3> HIDE DEF e
    <3>3. /\ Remaining(k) \in Seq(OwnerEntry) /\ DOMAIN Remaining(k) = DOMAIN owners
          /\ Remaining(k)[k].id = owners[k].id /\ Remaining(k)[k].num = owners[k].num - 1
          /\ \A j \in DOMAIN owners : j # k => Remaining(k)[j] = owners[j]
      BY <1>1, <3>1, <3>2
    <3>4. Cnt(Remaining(k), u) =
            IF u = owners[k].id THEN Cnt(owners, u) - owners[k].num + Remaining(k)[k].num
                                ELSE Cnt(owners, u)
      BY <1>1, <3>3, CntChanged
    <3>5. QED BY <1>1, <1>2, <3>3, <3>4
  <2>2. CASE ~(owners[k].num > 1)
    <3>1. Remaining(k) = RemoveAt(owners, k) /\ owners[k].num = 1
      BY <1>1, <2>2 DEF Remaining
    <3>2. QED BY <1>1, <1>2, <3>1, CntRemoved
  <2>3. QED BY <2>1, <2>2
<1>5. QED BY <1>2, <1>3, <1>4, RemainingType

(* A list of threads without repetition, made owners, counts each once. *)
LEMMA CntWaiters ==
ASSUME NEW s \in Seq(Threads), Distinct(s), NEW r, r = [j \in DOMAIN s |-> Owner(s[j])], NEW t
PROVE  Cnt(r, t) = IF t \in ToSet(s) THEN 1 ELSE 0
<1>1. \A j \in DOMAIN s : Owner(s[j]) \in OwnerEntry /\ Owner(s[j]).id = s[j] /\ Owner(s[j]).num = 1
  BY DEF Owner, OwnerEntry
<1>2. /\ r \in Seq(OwnerEntry) /\ DOMAIN r = DOMAIN s
      /\ \A j \in DOMAIN s : r[j].id = s[j] /\ r[j].num = 1
  <2>1. DOMAIN s = 1 .. Len(s) /\ Len(s) \in Nat
    OBVIOUS
  <2>2. QED BY <1>1, <2>1
<1>3. CASE t \in ToSet(s)
  <2>1. PICK k \in DOMAIN s : s[k] = t
    BY <1>3 DEF ToSet
  <2>2. k \in Ent(r, t) /\ Ent(r, t) \ {k} = {}
    BY <1>2, <2>1 DEF Ent, Distinct
  <2>3. Cnt(r, t) = r[k].num + Total(r, Ent(r, t) \ {k})
    BY <1>2, <2>2, CntFacts
  <2>4. Total(r, Ent(r, t) \ {k}) = 0
    <3>1. IsFiniteSet({}) /\ \A x \in {} : r[x].num \in Nat
      BY FS_EmptySet
    <3>2. Total(r, {}) = 0
      BY <3>1, SumPart
    <3>3. QED BY <2>2, <3>2, Zenon
  <2>5. r[k].num = 1
    BY <1>2, <2>1
  <2>6. Cnt(r, t) = 1
    BY <2>3, <2>4, <2>5
  <2>7. QED BY <1>3, <2>6
<1>4. CASE t \notin ToSet(s)
  <2>1. Ent(r, t) = {}
    BY <1>2, <1>4 DEF Ent, ToSet
  <2>2. QED BY <1>2, <1>4, <2>1, CntFacts
<1>5. QED BY <1>3, <1>4

(* A release loses no acquisition but the one given up. *)
LEMMA KeptRelease ==
ASSUME TypeOK, KeepInv, NEW t \in Threads, Release(t)
PROVE  KeepInv'
<1>1. ~stale /\ pc[t] = "run" /\ pc' = pc
  BY DEF Release, Running
<1>2. PICK k \in DOMAIN owners :
        owners[k].id = t /\ (Leave(k) \/ HandToExclusive(k) \/ HandToShared(k))
  BY DEF Release, FirstOf
<1>3. t \notin ToSet(exclusiveWaiters) /\ t \notin ToSet(sharedWaiters) /\ t \notin upped
  BY <1>1, RunsUnlisted
<1>4. /\ Remaining(k) \in Seq(OwnerEntry)
      /\ \A u \in Threads : /\ Cnt(Remaining(k), u) = Cnt(owners, u) - (IF u = t THEN 1 ELSE 0)
                            /\ Cnt(owners, u) \in Nat
      /\ Cnt(owners, t) >= 1
  BY <1>2, CntRemaining
<1>5. \A u \in Threads : /\ Cnt(owners, u) = hold[u].depth + Asked(u)
                         /\ hold[u].depth \in Nat
  BY <1>1 DEF KeepInv, TypeOK, Asked
<1>6. \A u \in Threads : hold'[u].depth = hold[u].depth - (IF u = t THEN 1 ELSE 0)
  <2>1. hold[t].depth >= 1 /\ hold[t].depth \in Nat
    BY <1>3, <1>4, <1>5 DEF Asked
  <2>2. hold'[t].depth = hold[t].depth - 1 /\ \A u \in Threads : u # t => hold'[u] = hold[u]
    BY <2>1 DEF Release, TypeOK
  <2>3. QED BY <1>5, <2>2
<1>7. \A u \in Threads : Cnt(Remaining(k), u) = hold'[u].depth + Asked(u)
  <2>1. \A u \in Threads : Asked(u) \in Nat
    BY DEF Asked
  <2>2. QED BY <1>4, <1>5, <1>6, <2>1
<1>8. CASE Leave(k)
  BY <1>1, <1>7, <1>8 DEF Leave, KeepInv, Asked, Distinct, ToSet
<1>9. CASE HandToExclusive(k)
  <2> DEFINE w == Head(exclusiveWaiters)
             rest == Tail(exclusiveWaiters)
  <2>1. /\ w \in Threads /\ rest \in Seq(Threads)
        /\ w \in ToSet(exclusiveWaiters) /\ ToSet(rest) \subseteq ToSet(exclusiveWaiters)
        /\ w \notin ToSet(rest) /\ Distinct(rest)
    <3>1. /\ exclusiveWaiters \in Seq(Threads) /\ exclusiveWaiters # <<>>
          /\ Distinct(exclusiveWaiters)
      BY <1>1, <1>9 DEF HandToExclusive, TypeOK, KeepInv
    <3>2. /\ Len(exclusiveWaiters) \in Nat \ {0} /\ w = exclusiveWaiters[1]
          /\ DOMAIN exclusiveWaiters = 1 .. Len(exclusiveWaiters)
          /\ DOMAIN rest = 1 .. Len(exclusiveWaiters) - 1
          /\ \A j \in 1 .. Len(exclusiveWaiters) - 1 :
               rest[j] = exclusiveWaiters[j + 1] /\ j + 1 \in 1 .. Len(exclusiveWaiters)
      BY <3>1
    <3>3. w \in Threads /\ rest \in Seq(Threads) /\ 1 \in DOMAIN exclusiveWaiters
      BY <3>1, <3>2
    <3> HIDE DEF w, rest
    <3>4. w \in ToSet(exclusiveWaiters) /\ ToSet(rest) \subseteq ToSet(exclusiveWaiters)
      BY <3>2, <3>3 DEF ToSet
    <3>5. w \notin ToSet(rest)
      <4>1. ASSUME NEW j \in 1 .. Len(exclusiveWaiters) - 1, rest[j] = w PROVE FALSE
        <5>1. exclusiveWaiters[j + 1] = exclusiveWaiters[1] /\ j + 1 # 1
          BY <3>2, <4>1
        <5>2. QED BY <3>1, <3>2, <3>3, <5>1 DEF Distinct
      <4>2. QED BY <3>2, <4>1 DEF ToSet
    <3>6. Distinct(rest)
      <4>1. ASSUME NEW i \in DOMAIN rest, NEW j \in DOMAIN rest, rest[i] = rest[j]
            PROVE  i = j
        <5>1. i + 1 = j + 1
          BY <3>1, <3>2, <4>1 DEF Distinct
        <5>2. QED BY <3>2, <5>1
      <4>2. QED BY <4>1 DEF Distinct
    <3>7. QED BY <3>3, <3>4, <3>5, <3>6
  <2> HIDE DEF w, rest
  <2>2. /\ owners' = Append(Remaining(k), Owner(w)) /\ exclusiveWaiters' = rest
        /\ upped' = upped \cup {w} /\ UNCHANGED <<sharedWaiters, stale>>
    BY <1>9 DEF HandToExclusive, w, rest
  <2>3. pc[w] = "exclusive" /\ w \notin upped /\ w \notin ToSet(sharedWaiters)
    BY <1>1, <2>1 DEF KeepInv
  <2>4. ASSUME NEW u \in Threads
        PROVE  Cnt(owners', u) = hold'[u].depth + IF u \in upped' THEN 1 ELSE 0
    <3>1. Cnt(owners', u) = Cnt(Remaining(k), u) + (IF u = w THEN 1 ELSE 0)
      BY <1>4, <2>1, <2>2, CntAppend
    <3>2. hold'[u].depth \in Int
      BY <1>5, <1>6
    <3>3. CASE u = w
      <4>1. Asked(u) = 0
        BY <2>3, <3>3 DEF Asked
      <4>2. QED BY <1>7, <2>2, <3>1, <3>2, <3>3, <4>1
    <3>4. CASE u # w
      <4>1. u \in upped' <=> u \in upped
        BY <2>2, <3>4
      <4>2. QED BY <1>7, <3>1, <3>2, <3>4, <4>1 DEF Asked
    <3>5. QED BY <3>3, <3>4
  <2>5. /\ \A u \in ToSet(exclusiveWaiters') : pc'[u] = "exclusive" /\ u \notin upped'
        /\ \A u \in ToSet(sharedWaiters') : pc'[u] = "shared" /\ u \notin upped'
        /\ \A u \in upped' : pc'[u] # "run"
    BY <1>1, <2>1, <2>2, <2>3 DEF KeepInv
  <2>6. Distinct(exclusiveWaiters') /\ Distinct(sharedWaiters')
    BY <1>1, <2>1, <2>2 DEF KeepInv
  <2>7. QED BY <2>4, <2>5, <2>6 DEF KeepInv
<1>10. CASE HandToShared(k)
  <2>1. SUFFICES ASSUME ~stale' PROVE KeepInv'
    BY DEF KeepInv
  <2>2. Remaining(k) = <<>>
    BY <1>10, <2>1 DEF HandToShared
  <2> DEFINE new == [j \in DOMAIN sharedWaiters |-> Owner(sharedWaiters[j])]
  <2>3. owners' = new
    <3>1. owners' = new \o [j \in DOMAIN Remaining(k) |-> Owner(Remaining(k)[j].id)]
      BY <1>10 DEF HandToShared
    <3>2. [j \in DOMAIN Remaining(k) |-> Owner(Remaining(k)[j].id)] = <<>>
      BY <2>2
    <3>3. new \in Seq(OwnerEntry)
      <4>1. \A j \in DOMAIN sharedWaiters : Owner(sharedWaiters[j]) \in OwnerEntry
        BY DEF TypeOK, Owner, OwnerEntry
      <4>2. DOMAIN sharedWaiters = 1 .. Len(sharedWaiters) /\ Len(sharedWaiters) \in Nat
        BY DEF TypeOK
      <4>3. QED BY <4>1, <4>2
    <3> HIDE DEF new
    <3>4. QED BY <3>1, <3>2, <3>3
  <2>4. /\ sharedWaiters' = <<>> /\ upped' = upped \cup ToSet(sharedWaiters)
        /\ exclusiveWaiters = <<>> /\ exclusiveWaiters' = <<>>
    BY <1>10 DEF HandToShared
  <2>5. sharedWaiters \in Seq(Threads) /\ Distinct(sharedWaiters)
    BY <1>1 DEF TypeOK, KeepInv
  <2>6. ASSUME NEW u \in Threads
        PROVE  Cnt(owners', u) = hold'[u].depth + IF u \in upped' THEN 1 ELSE 0
    <3>1. Cnt(owners', u) = IF u \in ToSet(sharedWaiters) THEN 1 ELSE 0
      BY <2>3, <2>5, CntWaiters
    <3>2. Cnt(Remaining(k), u) = 0
      <4>1. Ent(Remaining(k), u) = {}
        BY <2>2 DEF Ent
      <4>2. QED BY <1>4, <4>1, CntFacts
    <3>3. hold'[u].depth \in Nat /\ Asked(u) \in Nat
      <4>1. hold'[u].depth + Asked(u) = 0 /\ Asked(u) \in {0, 1} /\ hold[u].depth \in Nat
        BY <1>5, <1>7, <3>2 DEF Asked
      <4>2. u = t => hold[u].depth >= 1
        BY <1>3, <1>4, <1>5 DEF Asked
      <4>3. QED BY <1>6, <4>1, <4>2
    <3>4. hold'[u].depth = 0 /\ u \notin upped
      BY <1>7, <3>2, <3>3 DEF Asked
    <3>5. QED BY <2>4, <3>1, <3>4
  <2>7. \A u \in upped' : pc'[u] # "run"
    BY <1>1, <2>4 DEF KeepInv
  <2>8. ToSet(<<>>) = {} /\ Distinct(<<>>)
    BY DEF ToSet, Distinct
  <2>9. QED BY <2>4, <2>6, <2>7, <2>8 DEF KeepInv
<1>11. QED BY <1>2, <1>8, <1>9, <1>10

(* A step loses no acquisition. *)
LEMMA KeptStep ==
ASSUME TypeOK, KeepInv, [Next]_vars
PROVE  KeepInv'
<1>1. CASE UNCHANGED vars
  BY <1>1 DEF vars, resVars, KeepInv, Distinct, ToSet
<1>2. QED BY <1>1, KeptAcquire, KeptAcquired, KeptRelease DEF Next

(* Nobody was told of an acquisition at first. *)
LEMMA KeptInit == Init => KeepInv
<1> SUFFICES ASSUME Init PROVE KeepInv
  OBVIOUS
<1>1. \A t \in Threads : Cnt(owners, t) = 0
  <2>1. owners \in Seq(OwnerEntry) /\ \A t \in Threads : Ent(owners, t) = {}
    BY DEF Init, Ent
  <2>2. QED BY <2>1, CntFacts
<1>2. \A t \in Threads : hold[t].depth = 0 /\ t \notin upped
  BY DEF Init
<1>3. QED BY <1>1, <1>2 DEF Init, KeepInv, Distinct, ToSet

(* HoldersListed: however threads nest their acquisitions, and whatever the *)
(* counter of OSReleaseResourceLite says by then, a thread that runs finds   *)
(* in Owners every acquisition it was told of, until up() is called on an    *)
(* entry without a semaphore.                                                *)
THEOREM NoAcquisitionLost == Spec => []HoldersListed
<1>1. TypeOK /\ KeepInv /\ [Next]_vars => TypeOK' /\ KeepInv'
  BY TypeStep, KeptStep
<1>2. TypeOK /\ KeepInv => HoldersListed
  <2>1. SUFFICES ASSUME TypeOK, KeepInv, ~stale, NEW t \in Threads, pc[t] = "run"
                 PROVE  hold[t].depth = Total(owners, EntriesOf(t))
    BY DEF HoldersListed, Total
  <2>2. t \notin upped /\ Cnt(owners, t) = hold[t].depth + 0 /\ hold[t].depth \in Nat
    BY <2>1 DEF KeepInv, TypeOK
  <2>3. QED BY <2>2 DEF Cnt, Ent, EntriesOf
<1>3. QED BY TypeInit, KeptInit, <1>1, <1>2, PTL DEF Spec
================================================================================
