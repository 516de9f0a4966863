-------------------------------- MODULE WinWork --------------------------------
(***************************************************************************)
(* Work items and DPCs of the core, which the Windows layer keeps as work  *)
(* of the kernel.  A work item is given its routine each time it is        *)
(* queued, a DPC once.  Callers queue while the kernel's worker takes the  *)
(* work up: it reads the routine, then lets the work be queued again, then *)
(* calls the routine.                                                      *)
(*                                                                         *)
(* The core gives each work item the same routine every time.  Removing a  *)
(* DPC from the queue and freeing a work item do nothing: neither has an   *)
(* action here.                                                            *)
(***************************************************************************)
EXTENDS Naturals

CONSTANTS
  WorkItems, Dpcs,
  Callers,      (* threads of the core                                       *)
  Routine       (* what is to be run for each of them                        *)

ASSUME WorkAssumption == WorkItems \cap Dpcs = {}

VARIABLES
  func,         (* the routine in the work; NULL before the first            *)
  pending,      (* works the kernel has been given and not taken up          *)
  worker,       (* for each work, what the kernel does about it              *)
  caller,       (* each caller and the work it is about to schedule          *)
  owed          (* works asked for whose routine has not started since       *)

workVars == <<func, pending, worker, caller, owed>>

Works == WorkItems \cup Dpcs
Null  == "NULL"
Idle  == [pc |-> "idle", func |-> Null]
Free  == "free"

(* IoAllocateWorkItem leaves the routine out, KeInitializeDpc sets it. *)
KernelInitWork == [w \in Works |-> IF w \in Dpcs THEN Routine[w] ELSE Null]

WorkInit ==
  /\ func = KernelInitWork
  /\ pending = {} /\ owed = {}
  /\ worker = [w \in Works |-> Idle]
  /\ caller = [t \in Callers |-> Free]

-------------------------------------------------------------------------------
(* schedule_work: work that is pending is not queued twice. *)
ScheduleWork(w) ==
  /\ pending' = pending \cup {w}
  /\ owed' = owed \cup {w}

(* KernelPrepareWork, whether the work is pending or not; then schedule_work. *)
IoQueueWorkItem(t, w) ==
  /\ caller[t] = Free
  /\ func' = [func EXCEPT ![w] = Routine[w]]
  /\ caller' = [caller EXCEPT ![t] = w]
  /\ UNCHANGED <<pending, worker, owed>>

(* Mutant: a work whose routine runs is not scheduled again. *)
Scheduled_UnlessBusy(t) ==
  /\ caller[t] # Free
  /\ IF worker[caller[t]].pc = "idle" THEN ScheduleWork(caller[t])
     ELSE owed' = owed \cup {caller[t]} /\ UNCHANGED pending
  /\ caller' = [caller EXCEPT ![t] = Free]
  /\ UNCHANGED <<func, worker>>

Scheduled(t) ==
  /\ caller[t] # Free
  /\ ScheduleWork(caller[t])
  /\ caller' = [caller EXCEPT ![t] = Free]
  /\ UNCHANGED <<func, worker>>

KeInsertQueueDpc(t, w) ==
  /\ caller[t] = Free
  /\ ScheduleWork(w)
  /\ UNCHANGED <<func, worker, caller>>

-------------------------------------------------------------------------------
(* The kernel: a work is not run twice at a time. *)
Take(w) ==
  /\ w \in pending /\ worker[w].pc = "idle"
  /\ worker' = [worker EXCEPT ![w] = [pc |-> "taken", func |-> func[w]]]
  /\ UNCHANGED <<func, pending, caller, owed>>

MayRequeue(w) ==
  /\ worker[w].pc = "taken"
  /\ pending' = pending \ {w}
  /\ worker' = [worker EXCEPT ![w].pc = "call"]
  /\ UNCHANGED <<func, caller, owed>>

Call(w) ==
  /\ worker[w].pc = "call"
  /\ worker' = [worker EXCEPT ![w].pc = "running"]
  /\ owed' = IF worker[w].func = Routine[w] THEN owed \ {w} ELSE owed
  /\ UNCHANGED <<func, pending, caller>>

Return(w) ==
  /\ worker[w].pc = "running"
  /\ worker' = [worker EXCEPT ![w] = Idle]
  /\ UNCHANGED <<func, pending, caller, owed>>

Kernel(w) == Take(w) \/ MayRequeue(w) \/ Call(w) \/ Return(w)

WorkNext ==
  \/ \E t \in Callers : \/ \E w \in WorkItems : IoQueueWorkItem(t, w)
                        \/ Scheduled(t)
                        \/ \E w \in Dpcs : KeInsertQueueDpc(t, w)
  \/ \E w \in Works : Kernel(w)

WorkSpec == WorkInit /\ [][WorkNext]_workVars

-------------------------------------------------------------------------------
(* Whatever callers do while the worker runs, each request of a work is    *)
(* followed by a call of its routine that starts after the request.        *)
RequestRuns == \A w \in Works : w \in owed ~> w \notin owed
===============================================================================
