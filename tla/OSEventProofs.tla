----------------------------- MODULE OSEventProofs -----------------------------
(***************************************************************************)
(* Theorems about OSEvent, for any number of waiters, timers and setters.   *)
(***************************************************************************)
EXTENDS OSEvent, TLAPS

(* Taking one entry out of a queue keeps the others and their order. *)
LEMMA RemoveAtFacts ==
ASSUME NEW S, NEW s \in Seq(S), NEW k \in DOMAIN s
PROVE  /\ RemoveAt(s, k) \in Seq(S)
       /\ Len(RemoveAt(s, k)) = Len(s) - 1
       /\ DOMAIN RemoveAt(s, k) = 1 .. Len(s) - 1
       /\ \A j \in 1 .. Len(s) - 1 : RemoveAt(s, k)[j] = IF j < k THEN s[j] ELSE s[j + 1]
<1> DEFINE a == SubSeq(s, 1, k - 1)
           b == SubSeq(s, k + 1, Len(s))
<1>1. k \in 1 .. Len(s) /\ Len(s) \in Nat
  OBVIOUS
<1>2. a \in Seq(S) /\ Len(a) = k - 1 /\ \A j \in 1 .. k - 1 : a[j] = s[j]
  BY <1>1
<1>3. b \in Seq(S) /\ Len(b) = Len(s) - k /\ \A j \in 1 .. Len(s) - k : b[j] = s[j + k]
  BY <1>1
<1>4. RemoveAt(s, k) = a \o b
  BY DEF RemoveAt
<1> HIDE DEF a, b
<1>5. QED BY <1>1, <1>2, <1>3, <1>4

-------------------------------------------------------------------------------
(* Types *)

(* A step keeps the types; without a count there is nothing to decrement. *)
LEMMA TypeStep ==
ASSUME TypeOK, CountInv, [Next]_vars
PROVE  TypeOK' /\ CountInv'
<1> USE DEF TypeOK, CountInv, eventVars
<1>1. ASSUME NEW s \in Setters, OSSetEvent(s) PROVE TypeOK' /\ CountInv'
  BY <1>1 DEF OSSetEvent
<1>2. ASSUME NEW s \in Setters, Signal(s) PROVE TypeOK' /\ CountInv'
  BY <1>2 DEF Signal
<1>3. ASSUME NEW s \in Setters, OsResetEvent(s) PROVE TypeOK' /\ CountInv'
  BY <1>3 DEF OsResetEvent
<1>4. ASSUME NEW s \in Setters, Reset(s) PROVE TypeOK' /\ CountInv'
  BY <1>4 DEF Reset
<1>5. ASSUME WakeUp PROVE line' \in Seq(Threads)
  BY <1>5 DEF WakeUp
<1>6. ASSUME NEW s \in Setters, SetterWakes(s) PROVE TypeOK' /\ CountInv'
  BY <1>5, <1>6 DEF SetterWakes
<1>7. ASSUME NEW t \in Threads, TimerFires(t) PROVE TypeOK' /\ CountInv'
  BY <1>7 DEF TimerFires
<1>8. ASSUME NEW t \in Threads, TimerWakes(t) PROVE TypeOK' /\ CountInv'
  BY <1>5, <1>8 DEF TimerWakes
<1>9. ASSUME NEW t \in Threads, Wait(t) PROVE TypeOK' /\ CountInv'
  BY <1>9 DEF Wait, Goto, Places
<1>10. ASSUME NEW t \in Threads, Lock(t) PROVE TypeOK' /\ CountInv'
  BY <1>10 DEF Lock, Goto, Places
<1>11. ASSUME NEW t \in Threads, Test(t) PROVE TypeOK' /\ CountInv'
  BY <1>11 DEF Test, Goto, Places
<1>12. ASSUME NEW t \in Threads, PrepareToWait(t) PROVE TypeOK' /\ CountInv'
  BY <1>12 DEF PrepareToWait, Goto, Places
<1>13. ASSUME NEW t \in Threads, FinishWait(t) PROVE TypeOK' /\ CountInv'
  <2>1. line' \in Seq(Threads)
    BY <1>13, RemoveAtFacts DEF FinishWait
  <2>2. QED BY <1>13, <2>1 DEF FinishWait, Goto, Places
<1>14. ASSUME NEW t \in Threads, Schedule(t) PROVE TypeOK' /\ CountInv'
  BY <1>14 DEF Schedule, Goto, Places
<1>15. ASSUME NEW t \in Threads, TimedOut(t) PROVE TypeOK' /\ CountInv'
  BY <1>15 DEF TimedOut, Goto, Places
<1>16. ASSUME NEW t \in Threads, NotTimedOut(t) PROVE TypeOK' /\ CountInv'
  BY <1>16 DEF NotTimedOut, Goto, Places
<1>17. ASSUME NEW t \in Threads, CancelTimer(t) PROVE TypeOK' /\ CountInv'
  BY <1>17 DEF CancelTimer, Goto, Places
<1>18. ASSUME NEW t \in Threads, Keep(t) PROVE TypeOK' /\ CountInv'
  BY <1>18 DEF Keep, Goto, Places
<1>19. ASSUME NEW t \in Threads, ClearEvent(t) PROVE TypeOK' /\ CountInv'
  BY <1>19 DEF ClearEvent, Goto, Places
<1>20. ASSUME NEW t \in Threads, Decrement(t) PROVE TypeOK' /\ CountInv'
  BY <1>20 DEF Decrement, Goto, Places
<1>21. ASSUME NEW t \in Threads, Compare(t) PROVE TypeOK' /\ CountInv'
  BY <1>21 DEF Compare, Goto, Places
<1>22. ASSUME NEW t \in Threads, Unset(t) PROVE TypeOK' /\ CountInv'
  BY <1>22 DEF Unset, Goto, Places
<1>23. ASSUME NEW t \in Threads, Unlock(t) PROVE TypeOK' /\ CountInv'
  BY <1>23 DEF Unlock, Goto, Places
<1>24. CASE UNCHANGED vars
  BY <1>24 DEF vars
<1>25. QED
  BY <1>1, <1>2, <1>3, <1>4, <1>6, <1>7, <1>8, <1>9, <1>10, <1>11, <1>12, <1>13,
     <1>14, <1>15, <1>16, <1>17, <1>18, <1>19, <1>20, <1>21, <1>22, <1>23, <1>24
  DEF Next, Sets, Timer, GoesOn, EndsWait

(* The types hold at first, when nobody waits. *)
LEMMA InitTypes == Init => TypeOK /\ CountInv
<1> SUFFICES ASSUME Init PROVE TypeOK /\ CountInv
  OBVIOUS
<1>1. line \in Seq(Threads) /\ count \in IF counted THEN Int ELSE {0}
  BY DEF Init
<1>2. signalled \in BOOLEAN /\ timeout \in BOOLEAN
  BY DEF Init
<1>3. QED BY <1>1, <1>2 DEF Init, TypeOK, CountInv, Places

(* TypeOK: the event's fields, its queue and every place keep their types for *)
(* any number of threads; an event set without an increment has no count.     *)
THEOREM EventTypeCorrect == Spec => []TypeOK
<1>1. TypeOK /\ CountInv /\ [Next]_vars => TypeOK' /\ CountInv'
  BY TypeStep
<1>2. QED BY InitTypes, <1>1, PTL DEF Spec

-------------------------------------------------------------------------------
(* One wait for each signal *)

(* The thread between lock and unlock is the one that the mutex names. *)
LEMMA LockStep ==
ASSUME TypeOK, LockInv, [Next]_vars
PROVE  LockInv'
<1> USE DEF TypeOK, LockInv, Holding, eventVars
<1>1. ASSUME NEW s \in Setters, OSSetEvent(s) PROVE LockInv'
  BY <1>1 DEF OSSetEvent
<1>2. ASSUME NEW s \in Setters, Signal(s) PROVE LockInv'
  BY <1>2 DEF Signal
<1>3. ASSUME NEW s \in Setters, SetterWakes(s) PROVE LockInv'
  BY <1>3 DEF SetterWakes
<1>4. ASSUME NEW s \in Setters, OsResetEvent(s) PROVE LockInv'
  BY <1>4 DEF OsResetEvent
<1>5. ASSUME NEW s \in Setters, Reset(s) PROVE LockInv'
  BY <1>5 DEF Reset
<1>6. ASSUME NEW t \in Threads, TimerFires(t) PROVE LockInv'
  BY <1>6 DEF TimerFires
<1>7. ASSUME NEW t \in Threads, TimerWakes(t) PROVE LockInv'
  BY <1>7 DEF TimerWakes
<1>8. ASSUME NEW t \in Threads, Wait(t) PROVE LockInv'
  BY <1>8 DEF Wait, Goto
<1>9. ASSUME NEW t \in Threads, Lock(t) PROVE LockInv'
  BY <1>9, NoneAssumption DEF Lock, Goto
<1>10. ASSUME NEW t \in Threads, Test(t) PROVE LockInv'
  BY <1>10 DEF Test, Goto
<1>11. ASSUME NEW t \in Threads, PrepareToWait(t) PROVE LockInv'
  BY <1>11 DEF PrepareToWait, Goto
<1>12. ASSUME NEW t \in Threads, FinishWait(t) PROVE LockInv'
  BY <1>12 DEF FinishWait, Goto
<1>13. ASSUME NEW t \in Threads, Schedule(t) PROVE LockInv'
  BY <1>13 DEF Schedule, Goto
<1>14. ASSUME NEW t \in Threads, TimedOut(t) PROVE LockInv'
  BY <1>14 DEF TimedOut, Goto
<1>15. ASSUME NEW t \in Threads, NotTimedOut(t) PROVE LockInv'
  BY <1>15 DEF NotTimedOut, Goto
<1>16. ASSUME NEW t \in Threads, CancelTimer(t) PROVE LockInv'
  BY <1>16 DEF CancelTimer, Goto
<1>17. ASSUME NEW t \in Threads, Keep(t) PROVE LockInv'
  BY <1>17 DEF Keep, Goto
<1>18. ASSUME NEW t \in Threads, ClearEvent(t) PROVE LockInv'
  BY <1>18 DEF ClearEvent, Goto
<1>19. ASSUME NEW t \in Threads, Decrement(t) PROVE LockInv'
  BY <1>19 DEF Decrement, Goto
<1>20. ASSUME NEW t \in Threads, Compare(t) PROVE LockInv'
  BY <1>20 DEF Compare, Goto
<1>21. ASSUME NEW t \in Threads, Unset(t) PROVE LockInv'
  BY <1>21 DEF Unset, Goto
<1>22. ASSUME NEW t \in Threads, Unlock(t) PROVE LockInv'
  BY <1>22 DEF Unlock, Goto
<1>23. CASE UNCHANGED vars
  BY <1>23 DEF vars
<1>24. QED
  BY <1>1, <1>2, <1>3, <1>4, <1>5, <1>6, <1>7, <1>8, <1>9, <1>10, <1>11, <1>12,
     <1>13, <1>14, <1>15, <1>16, <1>17, <1>18, <1>19, <1>20, <1>21, <1>22,
     <1>23
  DEF Next, Sets, Timer, GoesOn, EndsWait

(* Every wait that is about to succeed has the signal it saw to its credit. *)
LEMMA CreditStep ==
ASSUME TypeOK, CountInv, LockInv, CreditInv, [Next]_vars
PROVE  CreditInv'
<1> USE DEF TypeOK, CountInv, LockInv, CreditInv, Holding, eventVars
<1>1. ASSUME NEW s \in Setters, OSSetEvent(s) PROVE CreditInv'
  BY <1>1 DEF OSSetEvent
<1>2. ASSUME NEW s \in Setters, Signal(s) PROVE CreditInv'
  BY <1>2 DEF Signal
<1>3. ASSUME NEW s \in Setters, SetterWakes(s) PROVE CreditInv'
  BY <1>3 DEF SetterWakes
<1>4. ASSUME NEW s \in Setters, OsResetEvent(s) PROVE CreditInv'
  BY <1>4 DEF OsResetEvent
<1>5. ASSUME NEW s \in Setters, Reset(s) PROVE CreditInv'
  BY <1>5 DEF Reset
<1>6. ASSUME NEW t \in Threads, TimerFires(t) PROVE CreditInv'
  BY <1>6 DEF TimerFires
<1>7. ASSUME NEW t \in Threads, TimerWakes(t) PROVE CreditInv'
  BY <1>7 DEF TimerWakes
<1>8. ASSUME NEW t \in Threads, Wait(t) PROVE CreditInv'
  BY <1>8 DEF Wait, Goto
<1>9. ASSUME NEW t \in Threads, Lock(t) PROVE CreditInv'
  BY <1>9, NoneAssumption DEF Lock, Goto
<1>10. ASSUME NEW t \in Threads, Test(t) PROVE CreditInv'
  BY <1>10 DEF Test, Flagged, Goto
<1>11. ASSUME NEW t \in Threads, PrepareToWait(t) PROVE CreditInv'
  BY <1>11 DEF PrepareToWait, Goto
<1>12. ASSUME NEW t \in Threads, FinishWait(t) PROVE CreditInv'
  BY <1>12 DEF FinishWait, Goto
<1>13. ASSUME NEW t \in Threads, Schedule(t) PROVE CreditInv'
  BY <1>13 DEF Schedule, Goto
<1>14. ASSUME NEW t \in Threads, TimedOut(t) PROVE CreditInv'
  BY <1>14 DEF TimedOut, Goto
<1>15. ASSUME NEW t \in Threads, NotTimedOut(t) PROVE CreditInv'
  BY <1>15 DEF NotTimedOut, Goto
<1>16. ASSUME NEW t \in Threads, CancelTimer(t) PROVE CreditInv'
  BY <1>16 DEF CancelTimer, Goto
<1>17. ASSUME NEW t \in Threads, Keep(t) PROVE CreditInv'
  BY <1>17 DEF Keep, Goto
<1>18. ASSUME NEW t \in Threads, ClearEvent(t) PROVE CreditInv'
  BY <1>18 DEF ClearEvent, Goto
<1>19. ASSUME NEW t \in Threads, Decrement(t) PROVE CreditInv'
  BY <1>19 DEF Decrement, Goto
<1>20. ASSUME NEW t \in Threads, Compare(t) PROVE CreditInv'
  BY <1>20 DEF Compare, Goto
<1>21. ASSUME NEW t \in Threads, Unset(t) PROVE CreditInv'
  BY <1>21 DEF Unset, Goto
<1>22. ASSUME NEW t \in Threads, Unlock(t) PROVE CreditInv'
  BY <1>22 DEF Unlock, Goto
<1>23. CASE UNCHANGED vars
  BY <1>23 DEF vars
<1>24. QED
  BY <1>1, <1>2, <1>3, <1>4, <1>5, <1>6, <1>7, <1>8, <1>9, <1>10, <1>11, <1>12,
     <1>13, <1>14, <1>15, <1>16, <1>17, <1>18, <1>19, <1>20, <1>21, <1>22,
     <1>23
  DEF Next, Sets, Timer, GoesOn, EndsWait

(* OneWaiterPerSignal: each time a synchronization event without a count      *)
(* becomes signalled, at most one wait ends with success, however many        *)
(* threads wait, whatever their WaitMode, and whenever timers fire and the    *)
(* event is reset.                                                            *)
THEOREM OneSuccessPerSignal == Spec => []OneWaiterPerSignal
<1> DEFINE Inv == TypeOK /\ CountInv /\ LockInv /\ CreditInv
<1>1. Init => Inv
  <2>1. Init => LockInv /\ CreditInv
    BY DEF Init, LockInv, CreditInv, Holding
  <2>2. QED BY <2>1, InitTypes
<1>2. Inv /\ [Next]_vars => Inv'
  BY TypeStep, LockStep, CreditStep
<1>3. Inv => OneWaiterPerSignal
  BY DEF CreditInv, OneWaiterPerSignal
<1>4. QED BY <1>1, <1>2, <1>3, PTL DEF Spec

-------------------------------------------------------------------------------
(* No wakeup is lost *)

(* wake_up takes threads out at the front, so the others keep their order. *)
LEMMA LineWoken ==
ASSUME TypeOK, LineInv, WakeUp, UNCHANGED pc
PROVE  LineInv'
<1>1. CASE line' = <<>>
  BY <1>1 DEF LineInv
<1>2. CASE Synchronization /\ line # <<>> /\ line' = Tail(line)
  <2>1. /\ line' \in Seq(Threads) /\ Len(line') = Len(line) - 1 /\ Len(line) \in Nat
        /\ \A i \in 1 .. Len(line') : i + 1 \in 1 .. Len(line) /\ line'[i] = line[i + 1]
    BY <1>2 DEF TypeOK
  <2>2. DOMAIN line' = 1 .. Len(line') /\ DOMAIN line = 1 .. Len(line)
    BY <2>1 DEF TypeOK
  <2>3. ASSUME NEW i \in DOMAIN line'
        PROVE  \/ pc[line'[i]] = "asleep"
               \/ pc[line'[i]] = "recheck" /\ i = Len(line')
    <3>1. i \in Nat /\ i + 1 \in DOMAIN line /\ line'[i] = line[i + 1]
      BY <2>1, <2>2
    <3>2. QED BY <2>1, <3>1 DEF LineInv
  <2>4. ASSUME NEW i \in DOMAIN line', NEW j \in DOMAIN line', line'[i] = line'[j]
        PROVE  i = j
    <3>1. /\ i \in Nat /\ i + 1 \in DOMAIN line /\ line'[i] = line[i + 1]
          /\ j \in Nat /\ j + 1 \in DOMAIN line /\ line'[j] = line[j + 1]
      BY <2>1, <2>2
    <3>2. i + 1 = j + 1
      BY <2>4, <3>1 DEF LineInv
    <3>3. QED BY <3>1, <3>2
  <2>5. QED BY <2>3, <2>4 DEF LineInv
<1>3. QED BY <1>1, <1>2 DEF WakeUp

(* A thread that is not in the queue may go anywhere. *)
LEMMA LineOutside ==
ASSUME TypeOK, LineInv, NEW t \in Threads, t \notin ToSet(line),
       UNCHANGED line, NEW place, Goto(t, place)
PROVE  LineInv'
<1>1. \A i \in DOMAIN line : line[i] # t /\ line[i] \in Threads
  BY DEF ToSet, TypeOK
<1>2. \A i \in DOMAIN line : pc'[line[i]] = pc[line[i]]
  BY <1>1 DEF Goto, TypeOK
<1>3. QED BY <1>2 DEF LineInv

(* Who is in the queue sleeps, or is about to look again. *)
LEMMA InLine ==
ASSUME LineInv, NEW t \in ToSet(line)
PROVE  pc[t] \in {"asleep", "recheck"}
BY DEF LineInv, ToSet

(* Threads enter the queue and leave it out of turn only while they hold pmlock. *)
LEMMA LineStep ==
ASSUME TypeOK, LockInv, LineInv, [Next]_vars
PROVE  LineInv'
<1> USE DEF eventVars
<1>1. ASSUME NEW s \in Setters, OSSetEvent(s) PROVE LineInv'
  BY <1>1 DEF OSSetEvent, LineInv
<1>2. ASSUME NEW s \in Setters, Signal(s) PROVE LineInv'
  BY <1>2 DEF Signal, LineInv
<1>3. ASSUME NEW s \in Setters, SetterWakes(s) PROVE LineInv'
  BY <1>3, LineWoken DEF SetterWakes
<1>4. ASSUME NEW s \in Setters, OsResetEvent(s) PROVE LineInv'
  BY <1>4 DEF OsResetEvent, LineInv
<1>5. ASSUME NEW s \in Setters, Reset(s) PROVE LineInv'
  BY <1>5 DEF Reset, LineInv
<1>6. ASSUME NEW t \in Threads, TimerFires(t) PROVE LineInv'
  BY <1>6 DEF TimerFires, LineInv
<1>7. ASSUME NEW t \in Threads, TimerWakes(t) PROVE LineInv'
  BY <1>7, LineWoken DEF TimerWakes
<1>8. ASSUME NEW t \in Threads, Wait(t) PROVE LineInv'
  <2>1. t \notin ToSet(line)
    BY <1>8, InLine DEF Wait
  <2>2. QED BY <1>8, <2>1, LineOutside DEF Wait
<1>9. ASSUME NEW t \in Threads, Lock(t) PROVE LineInv'
  <2>1. t \notin ToSet(line)
    BY <1>9, InLine DEF Lock
  <2>2. QED BY <1>9, <2>1, LineOutside DEF Lock
<1>10. ASSUME NEW t \in Threads, Test(t) PROVE LineInv'
  <2>1. t \notin ToSet(line)
    BY <1>10, InLine DEF Test
  <2>2. QED BY <1>10, <2>1, LineOutside DEF Test
<1>11. ASSUME NEW t \in Threads, PrepareToWait(t) PROVE LineInv'
  <2>1. t \notin ToSet(line)
    BY <1>11, InLine DEF PrepareToWait
  <2>2. \A i \in DOMAIN line : /\ line[i] \in Threads /\ line[i] # t
                               /\ pc[line[i]] = "asleep" /\ pc'[line[i]] = "asleep"
    <3>1. ASSUME NEW i \in DOMAIN line PROVE line[i] \in Threads /\ line[i] # t
      BY <2>1 DEF TypeOK, ToSet
    <3>2. lock = t
      BY <1>11 DEF LockInv, Holding, PrepareToWait
    <3>3. QED BY <1>11, <3>1, <3>2 DEF LineInv, LockInv, Holding, PrepareToWait, Goto, TypeOK
  <2>3. /\ Len(line') = Len(line) + 1 /\ DOMAIN line' = 1 .. Len(line) + 1
        /\ \A i \in DOMAIN line : line'[i] = line[i]
        /\ line'[Len(line) + 1] = t
        /\ DOMAIN line = 1 .. Len(line) /\ Len(line) \in Nat
    BY <1>11 DEF PrepareToWait, TypeOK
  <2>4. pc'[t] = "recheck"
    BY <1>11 DEF PrepareToWait, Goto, TypeOK
  <2>5. \A i \in DOMAIN line' : i \in DOMAIN line \/ i = Len(line')
    BY <2>3
  <2>6. QED BY <2>2, <2>3, <2>4, <2>5 DEF LineInv
<1>12. ASSUME NEW t \in Threads, FinishWait(t) PROVE LineInv'
  <2>1. CASE t \notin ToSet(line)
    BY <1>12, <2>1, LineOutside DEF FinishWait
  <2>2. CASE t \in ToSet(line)
    <3>1. PICK k \in DOMAIN line : line[k] = t /\ line' = RemoveAt(line, k)
      BY <1>12, <2>2 DEF FinishWait
    <3>2. k = Len(line) /\ Len(line) \in Nat /\ DOMAIN line = 1 .. Len(line)
      BY <1>12, <3>1 DEF LineInv, FinishWait, TypeOK
    <3>3. /\ DOMAIN line' = 1 .. Len(line) - 1
          /\ \A i \in DOMAIN line' : i \in DOMAIN line /\ i # k /\ line'[i] = line[i]
      <4>1. line \in Seq(Threads)
        BY DEF TypeOK
      <4>2. /\ DOMAIN line' = 1 .. Len(line) - 1
            /\ \A i \in 1 .. Len(line) - 1 : line'[i] = IF i < k THEN line[i] ELSE line[i + 1]
        BY <3>1, <4>1, RemoveAtFacts
      <4>3. QED BY <3>2, <4>2
    <3>4. \A i \in DOMAIN line' : pc[line[i]] = "asleep" /\ line[i] # t /\ line[i] \in Threads
      BY <3>1, <3>2, <3>3 DEF LineInv, TypeOK
    <3>5. \A i \in DOMAIN line' : pc'[line'[i]] = "asleep"
      BY <1>12, <3>3, <3>4 DEF FinishWait, Goto, TypeOK
    <3>6. QED BY <3>3, <3>5 DEF LineInv
  <2>3. QED BY <2>1, <2>2
<1>13. ASSUME NEW t \in Threads, Schedule(t) PROVE LineInv'
  BY <1>13 DEF Schedule, Goto, LineInv, TypeOK
<1>14. ASSUME NEW t \in Threads, TimedOut(t) PROVE LineInv'
  <2>1. t \notin ToSet(line)
    BY <1>14, InLine DEF TimedOut
  <2>2. QED BY <1>14, <2>1, LineOutside DEF TimedOut
<1>15. ASSUME NEW t \in Threads, NotTimedOut(t) PROVE LineInv'
  <2>1. t \notin ToSet(line)
    BY <1>15, InLine DEF NotTimedOut
  <2>2. QED BY <1>15, <2>1, LineOutside DEF NotTimedOut
<1>16. ASSUME NEW t \in Threads, CancelTimer(t) PROVE LineInv'
  <2>1. t \notin ToSet(line)
    BY <1>16, InLine DEF CancelTimer
  <2>2. QED BY <1>16, <2>1, LineOutside DEF CancelTimer
<1>17. ASSUME NEW t \in Threads, Keep(t) PROVE LineInv'
  <2>1. t \notin ToSet(line)
    BY <1>17, InLine DEF Keep
  <2>2. QED BY <1>17, <2>1, LineOutside DEF Keep
<1>18. ASSUME NEW t \in Threads, ClearEvent(t) PROVE LineInv'
  <2>1. t \notin ToSet(line)
    BY <1>18, InLine DEF ClearEvent
  <2>2. QED BY <1>18, <2>1, LineOutside DEF ClearEvent
<1>19. ASSUME NEW t \in Threads, Decrement(t) PROVE LineInv'
  <2>1. t \notin ToSet(line)
    BY <1>19, InLine DEF Decrement
  <2>2. QED BY <1>19, <2>1, LineOutside DEF Decrement
<1>20. ASSUME NEW t \in Threads, Compare(t) PROVE LineInv'
  <2>1. t \notin ToSet(line)
    BY <1>20, InLine DEF Compare
  <2>2. QED BY <1>20, <2>1, LineOutside DEF Compare
<1>21. ASSUME NEW t \in Threads, Unset(t) PROVE LineInv'
  <2>1. t \notin ToSet(line)
    BY <1>21, InLine DEF Unset
  <2>2. QED BY <1>21, <2>1, LineOutside DEF Unset
<1>22. ASSUME NEW t \in Threads, Unlock(t) PROVE LineInv'
  <2>1. t \notin ToSet(line)
    BY <1>22, InLine DEF Unlock
  <2>2. QED BY <1>22, <2>1, LineOutside DEF Unlock
<1>23. CASE UNCHANGED vars
  BY <1>23 DEF vars, LineInv
<1>24. QED
  BY <1>1, <1>2, <1>3, <1>4, <1>5, <1>6, <1>7, <1>8, <1>9, <1>10, <1>11, <1>12,
     <1>13, <1>14, <1>15, <1>16, <1>17, <1>18, <1>19, <1>20, <1>21, <1>22,
     <1>23
  DEF Next, Sets, Timer, GoesOn, EndsWait

(* What keeps the flags covered: no new flag, no new sleeper, and everybody   *)
(* who would take a flag still will.                                          *)
LEMMA FlagKept ==
ASSUME FlagInv, UNCHANGED <<type, counted>>,
       timeout' => timeout, signalled' => signalled, Asleep' \subseteq Asleep,
       WakesToCome \subseteq WakesToCome', Looking \subseteq Looking',
       Taking \subseteq Taking'
PROVE  FlagInv'
<1>1. Ready \subseteq Ready' /\ Bound \subseteq Bound'
  BY DEF Ready, Bound
<1>2. QED BY <1>1 DEF FlagInv, Flagged, Synchronization

(* Who looks, takes or sleeps when one thread goes on and the queue stays.    *)
LEMMA Others ==
ASSUME TypeOK, NEW t \in Threads, NEW place, Goto(t, place),
       \A u \in Threads \ {t} : u \in ToSet(line') <=> u \in ToSet(line)
PROVE  /\ Asleep' \ {t} = Asleep \ {t}
       /\ Looking' \ {t} = Looking \ {t}
       /\ Taking' \ {t} = Taking \ {t}
<1>1. \A u \in Threads \ {t} : pc'[u] = pc[u]
  BY DEF Goto, TypeOK
<1>2. Asleep' \ {t} = Asleep \ {t}
  BY <1>1 DEF Asleep
<1>3. Looking' \ {t} = Looking \ {t}
  BY <1>1 DEF Looking
<1>4. Taking' \ {t} = Taking \ {t}
  BY <1>1 DEF Taking
<1>5. QED BY <1>2, <1>3, <1>4

(* A wake_up replaces one to come by a thread that it wakes, unless none     *)
(* sleeps any more.                                                          *)
LEMMA FlagWoken ==
ASSUME TypeOK, LineInv, FlagInv, WakeUp, UNCHANGED eventVars, UNCHANGED pc, NEW w,
       \A x \in WakesToCome : x # w => x \in WakesToCome'
PROVE  FlagInv'
<1>1. CASE Asleep' = {}
  BY <1>1 DEF FlagInv
<1>2. CASE Asleep' # {}
  <2>1. line' # <<>>
    BY <1>2 DEF Asleep, ToSet
  <2>2. Synchronization /\ line # <<>> /\ line' = Tail(line)
    BY <2>1 DEF WakeUp
  <2>3. /\ Len(line) \in Nat /\ Len(line) > 1 /\ DOMAIN line = 1 .. Len(line)
        /\ DOMAIN line' = 1 .. Len(line) - 1
        /\ \A i \in 1 .. Len(line) - 1 : line'[i] = line[i + 1]
    BY <2>1, <2>2 DEF TypeOK
  <2> DEFINE h == line[1]
  <2>4. 1 \in DOMAIN line
    BY <2>3
  <2>5. h \in Threads /\ h \in ToSet(line) /\ pc[h] = "asleep"
    BY <2>3, <2>4 DEF LineInv, TypeOK, ToSet
  <2>6. ToSet(line') \subseteq ToSet(line)
    BY <2>3 DEF ToSet
  <2>7. h \notin ToSet(line')
    <3>1. SUFFICES ASSUME h \in ToSet(line') PROVE FALSE
      OBVIOUS
    <3>2. PICK i \in 1 .. Len(line) - 1 : line[i + 1] = h
      BY <2>3, <3>1 DEF ToSet
    <3>3. i + 1 \in DOMAIN line
      BY <2>3
    <3>4. i + 1 = 1
      BY <2>4, <3>2, <3>3 DEF LineInv
    <3>5. QED BY <3>4
  <2> HIDE DEF h
  <2>8. Looking \subseteq Looking' /\ Taking' = Taking /\ Asleep' \subseteq Asleep
    BY <2>6 DEF Looking, Taking, Asleep
  <2>9. h \in Looking' /\ h \notin Looking /\ h \notin Taking
    BY <2>5, <2>7 DEF Looking, Taking
  <2>10. <<"waiter", h>> \in Ready'
    BY <2>9 DEF Ready
  <2>11. \A x \in Ready \cup Bound : x # w => x \in Ready' \cup Bound'
    BY <2>8 DEF Ready, Bound
  <2>12. <<"waiter", h>> \notin Ready \cup Bound
    BY <2>9 DEF Ready, Bound, WakesToCome
  <2>13. ASSUME ~counted, signalled, timeout
         PROVE  \E a \in Ready', b \in Ready' \cup Bound' : a # b
    <3>1. PICK a \in Ready, b \in Ready \cup Bound : a # b
      BY <1>2, <2>2, <2>8, <2>13 DEF FlagInv
    <3>2. PICK c \in {a, b} : c # w
      BY <3>1
    <3>3. c \in Ready' \cup Bound' /\ c # <<"waiter", h>>
      BY <2>11, <2>12, <3>1, <3>2
    <3>4. QED BY <2>10, <3>3
  <2>14. QED BY <2>2, <2>10, <2>13 DEF FlagInv, Synchronization, eventVars
<1>3. QED BY <1>1, <1>2

(* A new flag brings a wake_up of its own.  *)
LEMMA FlagRaised ==
ASSUME FlagInv, NEW w, w \notin Ready, w \in WakesToCome',
       WakesToCome \subseteq WakesToCome', UNCHANGED <<type, counted, line, pc>>,
       (signalled' <=> signalled) \/ (timeout' <=> timeout)
PROVE  FlagInv'
<1>1. /\ Asleep' = Asleep /\ Looking' = Looking /\ Taking' = Taking
  BY DEF Asleep, Looking, Taking
<1>2. Ready \subseteq Ready' /\ Bound' = Bound /\ w \in Ready'
  BY <1>1 DEF Ready, Bound
<1>3. w \notin Bound
  BY DEF WakesToCome, Bound
<1>4. QED BY <1>1, <1>2, <1>3 DEF FlagInv, Flagged, Synchronization

(* A step keeps every flag covered. *)
LEMMA FlagStep ==
ASSUME TypeOK, CountInv, LockInv, LineInv, FlagInv, Modes = {"KernelMode"}, [Next]_vars
PROVE  FlagInv'
<1> USE DEF eventVars
<1>1. ASSUME NEW s \in Setters, OSSetEvent(s) PROVE FlagInv'
  <2>1. UNCHANGED <<line, pc>> /\ WakesToCome' = WakesToCome
    BY <1>1 DEF OSSetEvent, WakesToCome, TypeOK
  <2>2. Asleep' = Asleep /\ Looking' = Looking /\ Taking' = Taking
    BY <2>1 DEF Asleep, Looking, Taking
  <2>3. QED BY <1>1, <2>1, <2>2, FlagKept DEF OSSetEvent
<1>2. ASSUME NEW s \in Setters, Signal(s) PROVE FlagInv'
  <2>1. <<"setter", s>> \notin Ready
    BY <1>2 DEF Signal, Ready, WakesToCome
  <2>2. <<"setter", s>> \in WakesToCome' /\ WakesToCome \subseteq WakesToCome'
    BY <1>2 DEF Signal, WakesToCome, TypeOK
  <2>3. QED BY <1>2, <2>1, <2>2, FlagRaised DEF Signal
<1>3. ASSUME NEW s \in Setters, SetterWakes(s) PROVE FlagInv'
  <2>1. \A x \in WakesToCome : x # <<"setter", s>> => x \in WakesToCome'
    BY <1>3 DEF SetterWakes, WakesToCome, TypeOK
  <2>2. QED BY <1>3, <2>1, FlagWoken DEF SetterWakes
<1>4. ASSUME NEW s \in Setters, OsResetEvent(s) PROVE FlagInv'
  <2>1. UNCHANGED <<line, pc>> /\ WakesToCome' = WakesToCome
    BY <1>4 DEF OsResetEvent, WakesToCome, TypeOK
  <2>2. Asleep' = Asleep /\ Looking' = Looking /\ Taking' = Taking
    BY <2>1 DEF Asleep, Looking, Taking
  <2>3. QED BY <1>4, <2>1, <2>2, FlagKept DEF OsResetEvent
<1>5. ASSUME NEW s \in Setters, Reset(s) PROVE FlagInv'
  <2>1. UNCHANGED <<line, pc>> /\ WakesToCome' = WakesToCome
    BY <1>5 DEF Reset, WakesToCome, TypeOK
  <2>2. Asleep' = Asleep /\ Looking' = Looking /\ Taking' = Taking
    BY <2>1 DEF Asleep, Looking, Taking
  <2>3. QED BY <1>5, <2>1, <2>2, FlagKept DEF Reset
<1>6. ASSUME NEW t \in Threads, TimerFires(t) PROVE FlagInv'
  <2>1. <<"timer", t>> \notin Ready
    BY <1>6 DEF TimerFires, Ready, WakesToCome
  <2>2. <<"timer", t>> \in WakesToCome' /\ WakesToCome \subseteq WakesToCome'
    BY <1>6 DEF TimerFires, WakesToCome, TypeOK
  <2>3. QED BY <1>6, <2>1, <2>2, FlagRaised DEF TimerFires
<1>7. ASSUME NEW t \in Threads, TimerWakes(t) PROVE FlagInv'
  <2>1. \A x \in WakesToCome : x # <<"timer", t>> => x \in WakesToCome'
    BY <1>7 DEF TimerWakes, WakesToCome, TypeOK
  <2>2. QED BY <1>7, <2>1, FlagWoken DEF TimerWakes
<1>8. ASSUME NEW t \in Threads, Wait(t) PROVE FlagInv'
  <2>1. Goto(t, "lock") /\ WakesToCome' = WakesToCome
    BY <1>8 DEF Wait, WakesToCome, TypeOK
  <2>2. \A u \in Threads \ {t} : u \in ToSet(line') <=> u \in ToSet(line)
    BY <1>8 DEF Wait
  <2>3. /\ t \notin Asleep'
        /\ t \in Looking => t \in Looking'
        /\ t \in Taking => t \in Taking'
    BY <1>8, <2>1 DEF Wait, Goto, Asleep, Looking, Taking, TypeOK
  <2>4. Asleep' \subseteq Asleep /\ Looking \subseteq Looking' /\ Taking \subseteq Taking'
    BY <2>1, <2>2, <2>3, Others
  <2>5. QED BY <1>8, <2>1, <2>4, FlagKept DEF Wait
<1>9. ASSUME NEW t \in Threads, Lock(t) PROVE FlagInv'
  <2>1. Goto(t, "test") /\ WakesToCome' = WakesToCome
    BY <1>9 DEF Lock, WakesToCome, TypeOK
  <2>2. \A u \in Threads \ {t} : u \in ToSet(line') <=> u \in ToSet(line)
    BY <1>9 DEF Lock
  <2>3. /\ t \notin Asleep'
        /\ t \in Looking => t \in Looking'
        /\ t \in Taking => t \in Taking'
    BY <1>9, <2>1 DEF Lock, Goto, Asleep, Looking, Taking, TypeOK
  <2>4. Asleep' \subseteq Asleep /\ Looking \subseteq Looking' /\ Taking \subseteq Taking'
    BY <2>1, <2>2, <2>3, Others
  <2>5. QED BY <1>9, <2>1, <2>4, FlagKept DEF Lock
<1>10. ASSUME NEW t \in Threads, Test(t) PROVE FlagInv'
  <2>1. Goto(t, IF Flagged THEN "done" ELSE "prepare") /\ WakesToCome' = WakesToCome
    BY <1>10 DEF Test, WakesToCome, TypeOK
  <2>2. \A u \in Threads \ {t} : u \in ToSet(line') <=> u \in ToSet(line)
    BY <1>10 DEF Test
  <2>3. /\ t \notin Asleep'
        /\ t \in Looking => t \in Looking'
        /\ t \in Taking => t \in Taking'
    BY <1>10, <2>1 DEF Test, Goto, Asleep, Looking, Taking, TypeOK
  <2>4. Asleep' \subseteq Asleep /\ Looking \subseteq Looking' /\ Taking \subseteq Taking'
    BY <2>1, <2>2, <2>3, Others
  <2>5. QED BY <1>10, <2>1, <2>4, FlagKept DEF Test
<1>11. ASSUME NEW t \in Threads, PrepareToWait(t) PROVE FlagInv'
  <2>0. \A u : u \in ToSet(line') <=> u \in ToSet(line) \/ u = t
    <3>1. /\ DOMAIN line = 1 .. Len(line) /\ DOMAIN line' = 1 .. Len(line) + 1
          /\ Len(line) \in Nat /\ line'[Len(line) + 1] = t
          /\ \A i \in 1 .. Len(line) : line'[i] = line[i]
      BY <1>11 DEF PrepareToWait, TypeOK
    <3>2. QED BY <3>1 DEF ToSet
  <2>1. Goto(t, "recheck") /\ WakesToCome' = WakesToCome
    BY <1>11 DEF PrepareToWait, WakesToCome, TypeOK
  <2>2. \A u \in Threads \ {t} : u \in ToSet(line') <=> u \in ToSet(line)
    BY <1>11, <2>0 DEF PrepareToWait
  <2>3. /\ t \notin Asleep'
        /\ t \in Looking => t \in Looking'
        /\ t \in Taking => t \in Taking'
    BY <1>11, <2>1 DEF PrepareToWait, Goto, Asleep, Looking, Taking, TypeOK
  <2>4. Asleep' \subseteq Asleep /\ Looking \subseteq Looking' /\ Taking \subseteq Taking'
    BY <2>1, <2>2, <2>3, Others
  <2>5. QED BY <1>11, <2>1, <2>4, FlagKept DEF PrepareToWait
<1>12. ASSUME NEW t \in Threads, FinishWait(t) PROVE FlagInv'
  <2>0. \A u \in Threads \ {t} : u \in ToSet(line') <=> u \in ToSet(line)
    <3>1. CASE t \notin ToSet(line)
      BY <1>12, <3>1 DEF FinishWait
    <3>2. CASE t \in ToSet(line)
      <4>1. PICK k \in DOMAIN line : line[k] = t /\ line' = RemoveAt(line, k)
        BY <1>12, <3>2 DEF FinishWait
      <4>2. /\ DOMAIN line = 1 .. Len(line) /\ DOMAIN line' = 1 .. Len(line) - 1
            /\ Len(line) \in Nat
            /\ \A i \in 1 .. Len(line) - 1 : line'[i] = IF i < k THEN line[i] ELSE line[i + 1]
        BY <4>1, RemoveAtFacts DEF TypeOK
      <4>3. ASSUME NEW u \in ToSet(line), u # t PROVE u \in ToSet(line')
        <5>1. PICK i \in 1 .. Len(line) : line[i] = u
          BY <4>2 DEF ToSet
        <5>2. i # k
          BY <4>1, <4>3, <5>1
        <5>3. CASE i < k
          BY <4>2, <5>1, <5>3 DEF ToSet
        <5>4. CASE i > k
          <6>1. i - 1 \in 1 .. Len(line) - 1 /\ line'[i - 1] = u
            BY <4>2, <5>1, <5>4
          <6>2. QED BY <4>2, <6>1 DEF ToSet
        <5>5. QED BY <4>2, <5>2, <5>3, <5>4
      <4>4. ASSUME NEW u \in ToSet(line') PROVE u \in ToSet(line)
        <5>1. PICK i \in 1 .. Len(line) - 1 : line'[i] = u
          BY <4>2, <4>4 DEF ToSet
        <5>2. i \in DOMAIN line /\ i + 1 \in DOMAIN line /\ (u = line[i] \/ u = line[i + 1])
          BY <4>2, <5>1
        <5>3. QED BY <5>2 DEF ToSet
      <4>5. QED BY <4>3, <4>4
    <3>3. QED BY <3>1, <3>2
  <2>1. Goto(t, "test") /\ WakesToCome' = WakesToCome
    BY <1>12 DEF FinishWait, WakesToCome, TypeOK
  <2>2. \A u \in Threads \ {t} : u \in ToSet(line') <=> u \in ToSet(line)
    BY <1>12, <2>0 DEF FinishWait
  <2>3. /\ t \notin Asleep'
        /\ t \in Looking => t \in Looking'
        /\ t \in Taking => t \in Taking'
    BY <1>12, <2>1 DEF FinishWait, Goto, Asleep, Looking, Taking, TypeOK
  <2>4. Asleep' \subseteq Asleep /\ Looking \subseteq Looking' /\ Taking \subseteq Taking'
    BY <2>1, <2>2, <2>3, Others
  <2>5. QED BY <1>12, <2>1, <2>4, FlagKept DEF FinishWait
<1>13. ASSUME NEW t \in Threads, Schedule(t) PROVE FlagInv'
  <2>1. ~signalled' /\ ~timeout'
    BY <1>13 DEF Schedule, Flagged
  <2>2. QED BY <2>1 DEF FlagInv, Flagged
<1>14. ASSUME NEW t \in Threads, TimedOut(t) PROVE FlagInv'
  <2>1. /\ Goto(t, "idle") /\ WakesToCome' = WakesToCome /\ Taking' = Taking
        /\ UNCHANGED <<line, type, counted, signalled>> /\ timeout /\ ~timeout'
    BY <1>14 DEF TimedOut, Goto, WakesToCome, Taking, TypeOK
  <2>2. Asleep' \subseteq Asleep /\ \A u \in Looking : u # t => u \in Looking'
    <3>1. t \notin Asleep'
      BY <2>1 DEF Goto, Asleep, TypeOK
    <3>2. QED BY <2>1, <3>1, Others
  <2>3. \A x \in Ready \cup Bound : x # <<"waiter", t>> => x \in Ready' \cup Bound'
    BY <2>1, <2>2 DEF Ready, Bound
  <2>4. QED BY <2>1, <2>2, <2>3 DEF FlagInv, Flagged, Synchronization
<1>15. ASSUME NEW t \in Threads, NotTimedOut(t) PROVE FlagInv'
  <2>1. /\ Goto(t, "cancel") /\ WakesToCome' = WakesToCome
        /\ UNCHANGED <<line, type, counted, signalled>> /\ ~timeout /\ ~timeout'
    BY <1>15 DEF NotTimedOut, WakesToCome
  <2>2. t \notin Asleep' /\ t \in Taking'
    BY <2>1 DEF Goto, Asleep, Taking, TypeOK
  <2>3. /\ Asleep' \subseteq Asleep /\ \A u \in Looking : u # t => u \in Looking'
        /\ Taking \subseteq Taking'
    BY <2>1, <2>2, Others
  <2>4. Ready \cup Bound \subseteq Ready' \cup Bound'
    BY <2>1, <2>2, <2>3 DEF Ready, Bound
  <2>5. QED BY <2>1, <2>3, <2>4 DEF FlagInv, Flagged, Synchronization
<1>16. ASSUME NEW t \in Threads, CancelTimer(t) PROVE FlagInv'
  <2>1. Goto(t, "clear") /\ WakesToCome' = WakesToCome
    BY <1>16 DEF CancelTimer, WakesToCome, TypeOK
  <2>2. \A u \in Threads \ {t} : u \in ToSet(line') <=> u \in ToSet(line)
    BY <1>16 DEF CancelTimer
  <2>3. /\ t \notin Asleep'
        /\ t \in Looking => t \in Looking'
        /\ t \in Taking => t \in Taking'
    BY <1>16, <2>1 DEF CancelTimer, Goto, Asleep, Looking, Taking, TypeOK
  <2>4. Asleep' \subseteq Asleep /\ Looking \subseteq Looking' /\ Taking \subseteq Taking'
    BY <2>1, <2>2, <2>3, Others
  <2>5. QED BY <1>16, <2>1, <2>4, FlagKept DEF CancelTimer
<1>17. ASSUME NEW t \in Threads, Keep(t) PROVE FlagInv'
  <2>1. /\ Goto(t, "idle") /\ WakesToCome' = WakesToCome /\ ~Synchronization
        /\ UNCHANGED <<line, type, counted, timeout>> /\ (signalled' => signalled)
    BY <1>17 DEF Keep, WakesToCome, Synchronization, TypeOK
  <2>2. t \notin Asleep' /\ t \notin Looking
    BY <1>17, <2>1 DEF Keep, Goto, Asleep, Looking, TypeOK
  <2>3. Asleep' \subseteq Asleep /\ Looking \subseteq Looking'
    BY <2>1, <2>2, Others
  <2>4. Ready \subseteq Ready'
    BY <2>1, <2>3 DEF Ready
  <2>5. QED BY <2>1, <2>3, <2>4 DEF FlagInv, Flagged, Synchronization
<1>18. ASSUME NEW t \in Threads, ClearEvent(t) PROVE FlagInv'
  <2>1. Goto(t, IF count > 0 THEN "decrement" ELSE "compare") /\ WakesToCome' = WakesToCome
    BY <1>18 DEF ClearEvent, WakesToCome, TypeOK
  <2>2. \A u \in Threads \ {t} : u \in ToSet(line') <=> u \in ToSet(line)
    BY <1>18 DEF ClearEvent
  <2>3. /\ t \notin Asleep'
        /\ t \in Looking => t \in Looking'
        /\ t \in Taking => t \in Taking'
    BY <1>18, <2>1 DEF ClearEvent, Goto, Asleep, Looking, Taking, TypeOK
  <2>4. Asleep' \subseteq Asleep /\ Looking \subseteq Looking' /\ Taking \subseteq Taking'
    BY <2>1, <2>2, <2>3, Others
  <2>5. QED BY <1>18, <2>1, <2>4, FlagKept DEF ClearEvent
<1>19. ASSUME NEW t \in Threads, Decrement(t) PROVE FlagInv'
  <2>1. Goto(t, "compare") /\ WakesToCome' = WakesToCome
    BY <1>19 DEF Decrement, WakesToCome, TypeOK
  <2>2. \A u \in Threads \ {t} : u \in ToSet(line') <=> u \in ToSet(line)
    BY <1>19 DEF Decrement
  <2>3. /\ t \notin Asleep'
        /\ t \in Looking => t \in Looking'
        /\ t \in Taking => t \in Taking'
    BY <1>19, <2>1 DEF Decrement, Goto, Asleep, Looking, Taking, TypeOK
  <2>4. Asleep' \subseteq Asleep /\ Looking \subseteq Looking' /\ Taking \subseteq Taking'
    BY <2>1, <2>2, <2>3, Others
  <2>5. QED BY <1>19, <2>1, <2>4, FlagKept DEF Decrement
<1>20. ASSUME NEW t \in Threads, Compare(t) PROVE FlagInv'
  <2>1. CASE counted
    BY <1>20, <2>1 DEF Compare, FlagInv
  <2>2. CASE ~counted
    <3>1. /\ Goto(t, "unset") /\ WakesToCome' = WakesToCome /\ UNCHANGED line
      BY <1>20, <2>2 DEF Compare, WakesToCome, TypeOK
    <3>2. t \notin Asleep' /\ t \notin Looking /\ t \in Taking'
      BY <1>20, <3>1 DEF Compare, Goto, Asleep, Looking, Taking, TypeOK
    <3>3. Asleep' \subseteq Asleep /\ Looking \subseteq Looking' /\ Taking \subseteq Taking'
      BY <3>1, <3>2, Others
    <3>4. QED BY <1>20, <3>1, <3>3, FlagKept DEF Compare
  <2>3. QED BY <2>1, <2>2
<1>21. ASSUME NEW t \in Threads, Unset(t) PROVE FlagInv'
  <2>1. /\ Goto(t, "unlock") /\ WakesToCome' = WakesToCome /\ ~signalled'
        /\ UNCHANGED <<line, type, counted, timeout>> /\ (signalled' => signalled)
    BY <1>21 DEF Unset, WakesToCome, Synchronization, TypeOK
  <2>2. t \notin Asleep' /\ t \notin Looking
    BY <1>21, <2>1 DEF Unset, Goto, Asleep, Looking, TypeOK
  <2>3. Asleep' \subseteq Asleep /\ Looking \subseteq Looking'
    BY <2>1, <2>2, Others
  <2>4. Ready \subseteq Ready'
    BY <2>1, <2>3 DEF Ready
  <2>5. QED BY <2>1, <2>3, <2>4 DEF FlagInv, Flagged, Synchronization
<1>22. ASSUME NEW t \in Threads, Unlock(t) PROVE FlagInv'
  <2>1. Goto(t, "idle") /\ WakesToCome' = WakesToCome
    BY <1>22 DEF Unlock, WakesToCome, TypeOK
  <2>2. \A u \in Threads \ {t} : u \in ToSet(line') <=> u \in ToSet(line)
    BY <1>22 DEF Unlock
  <2>3. /\ t \notin Asleep'
        /\ t \in Looking => t \in Looking'
        /\ t \in Taking => t \in Taking'
    BY <1>22, <2>1 DEF Unlock, Goto, Asleep, Looking, Taking, TypeOK
  <2>4. Asleep' \subseteq Asleep /\ Looking \subseteq Looking' /\ Taking \subseteq Taking'
    BY <2>1, <2>2, <2>3, Others
  <2>5. QED BY <1>22, <2>1, <2>4, FlagKept DEF Unlock
<1>23. CASE UNCHANGED vars
  <2>1. UNCHANGED <<line, pc, type, counted, signalled, timeout>> /\ WakesToCome' = WakesToCome
    BY <1>23 DEF vars, WakesToCome
  <2>2. Asleep' = Asleep /\ Looking' = Looking /\ Taking' = Taking
    BY <2>1 DEF Asleep, Looking, Taking
  <2>3. QED BY <2>1, <2>2, FlagKept
<1>24. QED
  BY <1>1, <1>2, <1>3, <1>4, <1>5, <1>6, <1>7, <1>8, <1>9, <1>10, <1>11, <1>12,
     <1>13, <1>14, <1>15, <1>16, <1>17, <1>18, <1>19, <1>20, <1>21, <1>22,
     <1>23
  DEF Next, Sets, Timer, GoesOn, EndsWait

(* NoFlagSleptThrough: however many threads wait, with whatever timeouts, and *)
(* however often the event is set without a count and reset, no thread sleeps *)
(* while the event is signalled or a timeout is marked, unless somebody is    *)
(* awake to take the mark or about to wake a sleeper.                         *)
THEOREM NoWakeupLost ==
ASSUME Modes = {"KernelMode"}
PROVE  Spec => []NoFlagSleptThrough
<1> DEFINE Inv == TypeOK /\ CountInv /\ LockInv /\ LineInv /\ FlagInv
<1>1. Init => Inv
  <2>1. Init => LockInv /\ LineInv /\ FlagInv
    BY DEF Init, LockInv, LineInv, FlagInv, Flagged, Holding
  <2>2. QED BY <2>1, InitTypes
<1>2. Inv /\ [Next]_vars => Inv'
  BY TypeStep, LockStep, LineStep, FlagStep
<1>3. Inv => NoFlagSleptThrough
  BY DEF FlagInv, NoFlagSleptThrough, Ready, Bound, Flagged
<1>4. QED BY <1>1, <1>2, <1>3, PTL DEF Spec
================================================================================
