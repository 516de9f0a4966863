-------------------------------- MODULE OSEvent --------------------------------
(* The event object of OSAPI.c (OSSetEvent, OsResetEvent, OsClearEvent,     *)
(* WaitQueueTimerFn, OSWaitForSingleObject), at the grain of its accesses to *)
(* shared state: setters and timers take no lock, waiters hold pmlock except *)
(* while they sleep.                                                         *)
EXTENDS Integers, Sequences, SequencesExt

CONSTANTS
  Threads,     \* threads that wait for the event
  Timed,       \* those among them whose waits have a timeout
  Setters,     \* contexts of the core that set or reset the event
  Types,       \* event types: subset of {"Notification", "Synchronization"}
  Modes,       \* WaitMode of the waits: subset of {"KernelMode", "UserMode"}
  Counting,    \* whether the event's setters pass an increment: subset of BOOLEAN
  None,        \* no holder of pmlock
  Budget       \* bound: calls that set or reset the event

ASSUME TimedAssumption == Timed \subseteq Threads
ASSUME TypesAssumption == Types \subseteq {"Notification", "Synchronization"}
ASSUME ModesAssumption == Modes \subseteq {"KernelMode", "UserMode"}
ASSUME CountingAssumption == Counting \subseteq BOOLEAN
ASSUME NoneAssumption == None \notin Threads
ASSUME BudgetAssumption == Budget \in Nat

VARIABLES
  type, signalled, timeout, count,  \* the fields of OSEVENT
  counted, \* whether its setters pass an increment
  line,    \* its wait queue, the first to be woken first
  lock,    \* the thread that holds pmlock, or None
  pc,      \* where each waiting thread is
  mode,    \* the WaitMode of its call
  timer,   \* the timer on its stack: "off", "armed", or "fired", about to wake
  setter,  \* where each setter is
  calls,   \* calls that set or reset the event so far
  credit   \* history, without a count: times the event became signalled, less
           \* the waits it ended

eventVars == <<type, signalled, timeout, count, counted>>
vars == <<type, signalled, timeout, count, counted, line, lock, pc, mode, timer,
          setter, calls, credit>>

Synchronization == type = "Synchronization"
Flagged == signalled \/ timeout

Goto(t, place) == pc' = [pc EXCEPT ![t] = place]

-------------------------------------------------------------------------------
(* OSSetEvent and OsResetEvent *)

OSSetEvent(s) ==
  /\ setter[s] = "idle" /\ calls < Budget
  /\ count' = count + (IF counted THEN 1 ELSE 0)
  /\ setter' = [setter EXCEPT ![s] = "signal"]
  /\ calls' = calls + 1
  /\ UNCHANGED <<type, counted, signalled, timeout, line, lock, pc, mode, timer, credit>>

Signal(s) ==
  /\ setter[s] = "signal"
  /\ signalled' = TRUE
  /\ credit' = credit + (IF signalled \/ counted THEN 0 ELSE 1)
  /\ setter' = [setter EXCEPT ![s] = "wake"]
  /\ UNCHANGED <<type, counted, timeout, count, line, lock, pc, mode, timer, calls>>

(* Mutant: the waiters for a notification event are exclusive, too. *)
WakeUp_Exclusive == line' = IF line # <<>> THEN Tail(line) ELSE <<>>

(* wake_up: one exclusive waiter, or all that are not exclusive.  Who is      *)
(* woken leaves the queue; a thread that has not slept yet will not.          *)
WakeUp == line' = IF Synchronization /\ line # <<>> THEN Tail(line) ELSE <<>>

SetterWakes(s) ==
  /\ setter[s] = "wake"
  /\ WakeUp
  /\ setter' = [setter EXCEPT ![s] = "idle"]
  /\ UNCHANGED <<eventVars, lock, pc, mode, timer, calls, credit>>

OsResetEvent(s) ==
  /\ setter[s] = "idle" /\ calls < Budget
  /\ count' = 0
  /\ setter' = [setter EXCEPT ![s] = "reset"]
  /\ calls' = calls + 1
  /\ UNCHANGED <<type, counted, signalled, timeout, line, lock, pc, mode, timer, credit>>

Reset(s) ==
  /\ setter[s] = "reset"
  /\ signalled' = FALSE
  /\ setter' = [setter EXCEPT ![s] = "idle"]
  /\ UNCHANGED <<type, counted, timeout, count, line, lock, pc, mode, timer, calls, credit>>

-------------------------------------------------------------------------------
(* WaitQueueTimerFn.  A timer whose wait has returned still fires: the stack *)
(* it lies on is taken to be as it was.                                      *)

TimerFires(t) ==
  /\ timer[t] = "armed"
  /\ timeout' = TRUE
  /\ timer' = [timer EXCEPT ![t] = "fired"]
  /\ UNCHANGED <<type, counted, signalled, count, line, lock, pc, mode, setter, calls, credit>>

TimerWakes(t) ==
  /\ timer[t] = "fired"
  /\ WakeUp
  /\ timer' = [timer EXCEPT ![t] = "off"]
  /\ UNCHANGED <<eventVars, lock, pc, mode, setter, calls, credit>>

-------------------------------------------------------------------------------
(* OSWaitForSingleObject.  A thread whose timer is still pending from an     *)
(* earlier wait makes no other timed wait: setting up an armed timer is      *)
(* undefined.                                                                *)

Wait(t) ==
  /\ pc[t] = "idle"
  /\ timer[t] = "off"
  /\ timer' = [timer EXCEPT ![t] = IF t \in Timed THEN "armed" ELSE "off"]
  /\ \E m \in Modes : mode' = [mode EXCEPT ![t] = m]
  /\ Goto(t, "lock")
  /\ UNCHANGED <<eventVars, line, lock, setter, calls, credit>>

(* The mutex is taken, at first or after schedule() has returned. *)
Lock(t) ==
  /\ pc[t] = "lock" \/ (pc[t] = "asleep" /\ t \notin ToSet(line))
  /\ lock = None
  /\ lock' = t
  /\ Goto(t, "test")
  /\ UNCHANGED <<eventVars, line, mode, timer, setter, calls, credit>>

Test(t) ==
  /\ pc[t] = "test"
  /\ Goto(t, IF Flagged THEN "done" ELSE "prepare")
  /\ UNCHANGED <<eventVars, line, lock, mode, timer, setter, calls, credit>>

PrepareToWait(t) ==
  /\ pc[t] = "prepare"
  /\ line' = Append(line, t)
  /\ Goto(t, "recheck")
  /\ UNCHANGED <<eventVars, lock, mode, timer, setter, calls, credit>>

(* finish_wait takes a thread out of the queue that nobody has woken. *)
FinishWait(t) ==
  /\ pc[t] = "recheck"
  /\ Flagged
  /\ IF t \in ToSet(line)
       THEN \E k \in DOMAIN line : line[k] = t /\ line' = RemoveAt(line, k)
       ELSE UNCHANGED line
  /\ Goto(t, "test")
  /\ UNCHANGED <<eventVars, lock, mode, timer, setter, calls, credit>>

(* Mutant: the flags are not looked at again once the thread is in the queue. *)
Schedule_Unchecked(t) ==
  /\ pc[t] = "recheck"
  /\ lock' = None
  /\ Goto(t, "asleep")
  /\ UNCHANGED <<eventVars, line, mode, timer, setter, calls, credit>>

Schedule(t) ==
  /\ pc[t] = "recheck"
  /\ ~Flagged
  /\ lock' = None
  /\ Goto(t, "asleep")
  /\ UNCHANGED <<eventVars, line, mode, timer, setter, calls, credit>>

-------------------------------------------------------------------------------
(* The end of a wait *)

TimedOut(t) ==
  /\ pc[t] = "done"
  /\ timeout
  /\ timeout' = FALSE
  /\ lock' = None
  /\ Goto(t, "idle")
  /\ UNCHANGED <<type, counted, signalled, count, line, mode, timer, setter, calls, credit>>

NotTimedOut(t) ==
  /\ pc[t] = "done"
  /\ ~timeout
  /\ Goto(t, "cancel")
  /\ UNCHANGED <<eventVars, line, lock, mode, timer, setter, calls, credit>>

(* del_timer does not wait for a timer function that runs already. *)
CancelTimer(t) ==
  /\ pc[t] = "cancel"
  /\ timer' = [timer EXCEPT ![t] = IF @ = "armed" THEN "off" ELSE @]
  /\ Goto(t, "clear")
  /\ UNCHANGED <<eventVars, line, lock, mode, setter, calls, credit>>

(* The return of STATUS_SUCCESS by a wait that does not clear the event. *)
Keep(t) ==
  /\ pc[t] = "clear"
  /\ ~Synchronization \/ mode[t] = "UserMode"
  /\ lock' = None
  /\ Goto(t, "idle")
  /\ UNCHANGED <<eventVars, line, mode, timer, setter, calls, credit>>

(* Mutant: the mutex is given up before the event is cleared. *)
ClearEvent_Unlocked(t) ==
  /\ pc[t] = "clear"
  /\ Synchronization /\ mode[t] = "KernelMode"
  /\ Goto(t, IF count > 0 THEN "decrement" ELSE "compare")
  /\ lock' = None
  /\ UNCHANGED <<eventVars, line, mode, timer, setter, calls, credit>>

(* Mutant: the count is decremented whatever it is. *)
ClearEvent_Unguarded(t) ==
  /\ pc[t] = "clear"
  /\ Synchronization /\ mode[t] = "KernelMode"
  /\ Goto(t, "decrement")
  /\ UNCHANGED <<eventVars, line, lock, mode, timer, setter, calls, credit>>

(* OsClearEvent: three accesses, each of which a setter may precede. *)
ClearEvent(t) ==
  /\ pc[t] = "clear"
  /\ Synchronization /\ mode[t] = "KernelMode"
  /\ Goto(t, IF count > 0 THEN "decrement" ELSE "compare")
  /\ UNCHANGED <<eventVars, line, lock, mode, timer, setter, calls, credit>>

Decrement(t) ==
  /\ pc[t] = "decrement"
  /\ count' = count - 1
  /\ Goto(t, "compare")
  /\ UNCHANGED <<type, counted, signalled, timeout, line, lock, mode, timer, setter, calls, credit>>

Compare(t) ==
  /\ pc[t] = "compare"
  /\ Goto(t, IF count = 0 THEN "unset" ELSE "unlock")
  /\ UNCHANGED <<eventVars, line, lock, mode, timer, setter, calls, credit>>

Unset(t) ==
  /\ pc[t] = "unset"
  /\ signalled' = FALSE
  /\ Goto(t, "unlock")
  /\ UNCHANGED <<type, counted, timeout, count, line, lock, mode, timer, setter, calls, credit>>

Unlock(t) ==
  /\ pc[t] = "unlock"
  /\ lock' = None
  /\ credit' = credit - (IF counted THEN 0 ELSE 1)
  /\ Goto(t, "idle")
  /\ UNCHANGED <<eventVars, line, mode, timer, setter, calls>>

-------------------------------------------------------------------------------
(* Specification *)

Init ==
  /\ type \in Types /\ counted \in Counting
  /\ signalled = FALSE /\ timeout = FALSE /\ count = 0
  /\ line = <<>> /\ lock = None
  /\ pc = [t \in Threads |-> "idle"]
  /\ mode \in [Threads -> Modes]
  /\ timer = [t \in Threads |-> "off"]
  /\ setter = [s \in Setters |-> "idle"]
  /\ calls = 0 /\ credit = 0

Sets(s) == OSSetEvent(s) \/ Signal(s) \/ SetterWakes(s) \/ OsResetEvent(s) \/ Reset(s)

Timer(t) == TimerFires(t) \/ TimerWakes(t)

EndsWait(t) ==
  \/ TimedOut(t) \/ NotTimedOut(t) \/ CancelTimer(t) \/ Keep(t)
  \/ ClearEvent(t) \/ Decrement(t) \/ Compare(t) \/ Unset(t) \/ Unlock(t)

GoesOn(t) == Test(t) \/ PrepareToWait(t) \/ FinishWait(t) \/ Schedule(t) \/ EndsWait(t)

Next ==
  \/ \E s \in Setters : Sets(s)
  \/ \E t \in Threads : Timer(t) \/ Wait(t) \/ Lock(t) \/ GoesOn(t)

Spec == Init /\ [][Next]_vars

(* A setter and a timer function that have begun come to their end, and a    *)
(* thread that can run is run; the mutex queues the threads that want it.    *)
Fairness ==
  /\ \A s \in Setters : WF_vars(Signal(s) \/ SetterWakes(s) \/ Reset(s))
  /\ \A t \in Threads :
       WF_vars(TimerWakes(t)) /\ SF_vars(Lock(t)) /\ WF_vars(GoesOn(t))

FairSpec == Spec /\ Fairness

-------------------------------------------------------------------------------
(* Properties *)

Places == {"idle", "lock", "test", "prepare", "recheck", "asleep", "done",
           "cancel", "clear", "decrement", "compare", "unset", "unlock"}

TypeOK ==
  /\ type \in Types /\ counted \in Counting
  /\ signalled \in BOOLEAN /\ timeout \in BOOLEAN
  /\ count \in IF counted THEN Int ELSE {0}
  /\ line \in Seq(Threads)
  /\ lock \in Threads \cup {None}
  /\ pc \in [Threads -> Places]
  /\ mode \in [Threads -> Modes]
  /\ timer \in [Threads -> {"off", "armed", "fired"}]
  /\ setter \in [Setters -> {"idle", "signal", "wake", "reset"}]
  /\ calls \in Nat /\ credit \in Int

Asleep == {t \in Threads : pc[t] = "asleep" /\ t \in ToSet(line)}

(* Waiters that will look at the flags, or at least at the signal, again.     *)
Looking ==
  {t \in Threads : \/ pc[t] \in {"lock", "test", "prepare", "recheck", "done"}
                   \/ pc[t] = "asleep" /\ t \notin ToSet(line)}
Taking ==
  {t \in Threads : pc[t] \in {"cancel", "clear", "decrement", "compare", "unset"}}

(* Setters and timers whose wake_up is still to come.                         *)
WakesToCome == {<<"setter", s>> : s \in {s \in Setters : setter[s] = "wake"}}
               \cup {<<"timer", t>> : t \in {t \in Threads : timer[t] = "fired"}}

(* No wakeup is lost: whenever a flag is set and a thread sleeps, somebody    *)
(* is awake who will take the flag, or a wake_up is still to come.  With a    *)
(* count, one waiter may leave the event signalled and the next one asleep.   *)
NoFlagSleptThrough ==
  ~counted /\ Flagged /\ Asleep # {} => Looking \cup Taking # {} \/ WakesToCome # {}

(* The places at which a thread holds pmlock. *)
Holding == {"test", "prepare", "recheck", "done", "cancel", "clear", "decrement",
            "compare", "unset", "unlock"}

LockInv == \A t \in Threads : pc[t] \in Holding => lock = t

(* Every thread in the queue sleeps but for the holder of pmlock, the last one. *)
LineInv ==
  /\ \A i \in DOMAIN line :
       \/ pc[line[i]] = "asleep"
       \/ pc[line[i]] = "recheck" /\ i = Len(line)
  /\ \A i, j \in DOMAIN line : line[i] = line[j] => i = j

CountInv == ~counted => \A t \in Threads : pc[t] # "decrement"

(* Who will take either flag, and who will take the signal only. *)
Ready == {<<"waiter", t>> : t \in Looking} \cup WakesToCome
Bound == {<<"waiter", t>> : t \in Taking}

(* Each flag of a synchronization event has somebody of its own to take it    *)
(* as long as a thread sleeps; one wake_up serves all of a notification event. *)
FlagInv ==
  ~counted /\ Asleep # {} =>
    IF Synchronization
      THEN /\ timeout => Ready # {}
           /\ signalled => Ready \cup Bound # {}
           /\ signalled /\ timeout =>
                \E a \in Ready, b \in Ready \cup Bound : a # b
      ELSE Flagged => WakesToCome # {}

(* A wait that will end with success has a signal to its credit, and another  *)
(* signal a credit of its own.                                                *)
CreditInv ==
  /\ credit >= 0
  /\ ~counted =>
       /\ signalled => credit >= 1
       /\ \A t \in Threads :
            /\ pc[t] \in {"cancel", "clear", "compare", "unset", "unlock"} => credit >= 1
            /\ pc[t] = "done" => timeout \/ credit >= 1
            /\ pc[t] = "unlock" /\ signalled => credit >= 2

(* "single thread waiting for event becomes eligible for execution and event *)
(* is automatically reset": each time the event becomes signalled at most    *)
(* one wait on a synchronization event ends with success.                    *)
OneWaiterPerSignal == credit >= 0

(* An event that is signalled while a thread sleeps ends the sleep of that   *)
(* thread, or it is taken by another.                                        *)
SignalTaken ==
  \A t \in Threads : (~counted /\ signalled /\ t \in Asleep) ~> (~signalled \/ t \notin Asleep)

================================================================================
