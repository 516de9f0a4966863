----------------------------- MODULE ControlProofs -----------------------------
(***************************************************************************)
(* Theorems about the driver's boards and its control device, for any      *)
(* machine, any steps of a probe that fail, and any applications.          *)
(***************************************************************************)
EXTENDS Control, FiniteSetTheorems, WellFoundedInduction, TLAPS

(* What each step of the driver's thread has, and the next one relies on. *)
ProbeInv ==
  /\ deviceIndex \in 0 .. MaxDevices
  /\ prober.step \in {"hardware", "control", "controldata", "nodes"} =>
       deviceIndex < MaxDevices /\ devs[Me].pDE = "live" /\ devs[Me].board # 0
  /\ prober.step \in {"control", "controldata", "nodes"} => devs[Me].lock = TRUE
  /\ prober.step = "controldata" => ctrl.lock = TRUE

RemoveInv ==
  /\ prober.step \in {"remove", "removecontrol", "removelock", "removeirq", "removedevice"} =>
       prober.board \in Nat
  /\ prober.step \in {"removecontrol", "removelock", "removeirq", "removedevice"} =>
       prober.board < deviceIndex /\ devs[prober.board].up = {}
  /\ prober.step = "removedevice" => devs[prober.board].irq = FALSE

(* The shape of the records, and the property itself. *)
SlotFields == {"board", "pDE", "irq", "lock", "devices", "map", "up"}

SlotInv(d) ==
  /\ DOMAIN d = SlotFields
  /\ d.irq \in BOOLEAN /\ d.lock \in BOOLEAN
  /\ d.irq = TRUE => d.pDE = "live"
  /\ d.up # {} => d.lock = TRUE /\ d.board # 0

Shapes ==
  /\ DOMAIN devs = Slot
  /\ DOMAIN ctrl = {"node", "lock", "made"}
  /\ DOMAIN prober = {"step", "board", "local"}

BaseInv ==
  /\ \A s \in Slot : SlotInv(devs[s])
  /\ ctrl.lock \in BOOLEAN
  /\ ctrl.node # "none" => ctrl.lock = TRUE

DriverInv == Shapes /\ BaseInv /\ ProbeInv /\ RemoveInv

(* Every slot has a board's extension, in every state. *)
LEMMA SlotFacts ==
/\ \A s \in Slot : s \in Nat /\ s < MaxDevices
/\ \A s \in Nat : s < MaxDevices => s \in Slot
/\ MaxDevices \in Nat /\ MaxDevices > 0
/\ \A b \in Bus : b \in Nat /\ b # 0
BY DriverAssumption DEF Slot, Bus

(* A step that changes one slot only. *)
LEMMA OneSlot ==
ASSUME Shapes, \A s \in Slot : SlotInv(devs[s]),
       NEW k \in Slot, NEW d, devs' = [devs EXCEPT ![k] = d], SlotInv(d)
PROVE  /\ DOMAIN devs' = Slot
       /\ \A s \in Slot : SlotInv(devs'[s])
       /\ devs'[k] = d
<1>1. DOMAIN devs' = Slot /\ devs'[k] = d /\ \A s \in Slot : s # k => devs'[s] = devs[s]
  BY DEF Shapes
<1>2. ASSUME NEW s \in Slot PROVE SlotInv(devs'[s])
  <2>1. CASE s = k
    BY <1>1, <2>1
  <2>2. CASE s # k
    <3>1. devs'[s] = devs[s] /\ SlotInv(devs[s])
      BY <1>1, <2>2
    <3>2. QED BY <3>1
  <2>3. QED BY <2>1, <2>2
<1>3. QED BY <1>1, <1>2

(* A new extension breaks no rule. *)
LEMMA BlankFacts ==
/\ SlotInv(Blank)
/\ \A b : SlotInv([Blank EXCEPT !.board = b, !.pDE = "live"])
BY DEF SlotInv, SlotFields, Blank

(* Nor does a released one. *)
LEMMA ReleasedFacts ==
ASSUME NEW d, SlotInv(d)
PROVE  SlotInv(Released(d))
BY DEF SlotInv, SlotFields, Released

(* The bus goes on to the next board with a new probe. *)
LEMMA NextBoardFacts ==
ASSUME Shapes, NextBoard
PROVE  prober'.step = "probe" /\ DOMAIN prober' = {"step", "board", "local"}
BY DEF NextBoard

(* The last steps of a probe that goes back to the bus. *)
LEMMA UnwindStep ==
ASSUME DriverInv, Unwind, deviceIndex < MaxDevices, UNCHANGED deviceIndex,
       DOMAIN ctrl' = {"node", "lock", "made"}, ctrl'.lock \in BOOLEAN,
       ctrl'.node # "none" => ctrl'.lock = TRUE
PROVE  DriverInv'
<1>1. Me \in Slot /\ SlotInv(devs[Me])
  BY SlotFacts DEF DriverInv, ProbeInv, BaseInv, Me
<1>2. /\ DOMAIN devs' = Slot
      /\ \A s \in Slot : SlotInv(devs'[s])
  <2>1. devs' = [devs EXCEPT ![Me] = Released(devs[Me])]
    BY DEF Unwind
  <2>2. SlotInv(Released(devs[Me]))
    BY <1>1, ReleasedFacts
  <2>3. QED BY <1>1, <2>1, <2>2, OneSlot DEF DriverInv, BaseInv
<1>3. prober'.step = "probe" /\ DOMAIN prober' = {"step", "board", "local"}
  BY NextBoardFacts DEF Unwind, DriverInv
<1>4. QED BY <1>2, <1>3 DEF DriverInv, Shapes, BaseInv, ProbeInv, RemoveInv

(* Loading: the slot that is being probed changes, and no other. *)
LEMMA LoadStep ==
ASSUME DriverInv, Load
PROVE  DriverInv'
<1> USE SlotFacts
<1>1. Shapes /\ BaseInv /\ ProbeInv /\ RemoveInv
  BY DEF DriverInv
<1>2. CASE ModuleInit \/ ProbeRefused \/ ModuleLoaded
  <2>1. UNCHANGED <<devs, deviceIndex, ctrl>>
    BY <1>2 DEF ModuleInit, ProbeRefused, ModuleLoaded
  <2>2. prober'.step \in {"probe", "idle"} /\ DOMAIN prober' = {"step", "board", "local"}
    BY <1>2 DEF ModuleInit, ProbeRefused, ModuleLoaded, NextBoard, Idle
  <2>3. QED BY <1>1, <2>1, <2>2 DEF DriverInv, Shapes, BaseInv, ProbeInv, RemoveInv
<1>3. CASE ProbeAlloc
  <2>1. Me \in Slot /\ prober.board \in Bus /\ prober.board # 0
    BY <1>1, <1>3 DEF ProbeAlloc, ProbeInv, Me
  <2>2. UNCHANGED <<deviceIndex, ctrl>>
    BY <1>3 DEF ProbeAlloc
  <2>3. CASE /\ devs' = [devs EXCEPT ![Me] = [Blank EXCEPT !.board = prober.board, !.pDE = "live"]]
             /\ prober' = [prober EXCEPT !.step = "hardware"]
    <3> DEFINE d == [Blank EXCEPT !.board = prober.board, !.pDE = "live"]
    <3>1. SlotInv(d) /\ d.pDE = "live" /\ d.board = prober.board
      BY BlankFacts DEF Blank
    <3> HIDE DEF d
    <3>2. devs' = [devs EXCEPT ![Me] = d]
      BY <2>3 DEF d
    <3>3. DOMAIN devs' = Slot /\ (\A s \in Slot : SlotInv(devs'[s])) /\ devs'[Me] = d
      BY <1>1, <2>1, <3>1, <3>2, OneSlot DEF BaseInv
    <3>4. prober'.step = "hardware" /\ DOMAIN prober' = {"step", "board", "local"}
      BY <1>1, <2>3 DEF Shapes
    <3>5. QED BY <1>1, <1>3, <2>1, <2>2, <3>1, <3>3, <3>4
              DEF DriverInv, Shapes, BaseInv, ProbeInv, RemoveInv, ProbeAlloc, Me
  <2>4. CASE devs' = [devs EXCEPT ![Me] = Blank] /\ NextBoard
    <3>1. DOMAIN devs' = Slot /\ \A s \in Slot : SlotInv(devs'[s])
      BY <1>1, <2>1, <2>4, BlankFacts, OneSlot DEF BaseInv
    <3>2. QED BY <1>1, <2>2, <2>4, <3>1, NextBoardFacts
              DEF DriverInv, Shapes, BaseInv, ProbeInv, RemoveInv
  <2>5. QED BY <1>3, <2>3, <2>4 DEF ProbeAlloc
<1>4. CASE ProbeHardware
  <2>1. /\ Me \in Slot /\ deviceIndex < MaxDevices /\ UNCHANGED <<deviceIndex, ctrl>>
        /\ devs[Me].pDE = "live" /\ devs[Me].board # 0 /\ SlotInv(devs[Me])
    BY <1>1, <1>4 DEF ProbeHardware, ProbeInv, BaseInv, Me, At
  <2>2. CASE /\ devs' = [devs EXCEPT ![Me].irq = TRUE, ![Me].lock = TRUE]
             /\ prober' = [prober EXCEPT !.step = IF deviceIndex = 0 THEN "control" ELSE "nodes"]
    <3> DEFINE d == [devs[Me] EXCEPT !.irq = TRUE, !.lock = TRUE]
    <3>1. SlotInv(d) /\ d.pDE = "live" /\ d.board # 0 /\ d.lock = TRUE
      BY <2>1 DEF SlotInv, SlotFields
    <3>2. devs' = [devs EXCEPT ![Me] = d]
      BY <1>1, <2>1, <2>2 DEF Shapes
    <3> HIDE DEF d
    <3>3. DOMAIN devs' = Slot /\ (\A s \in Slot : SlotInv(devs'[s])) /\ devs'[Me] = d
      BY <1>1, <2>1, <3>1, <3>2, OneSlot DEF BaseInv
    <3>4. prober'.step \in {"control", "nodes"} /\ DOMAIN prober' = {"step", "board", "local"}
      BY <1>1, <2>2 DEF Shapes
    <3>5. QED BY <1>1, <2>1, <3>1, <3>3, <3>4
              DEF DriverInv, Shapes, BaseInv, ProbeInv, RemoveInv, Me
  <2>3. CASE Unwind
    BY <1>1, <2>1, <2>3, UnwindStep DEF DriverInv, Shapes, BaseInv
  <2>4. QED BY <1>4, <2>2, <2>3 DEF ProbeHardware, Unwind
<1>5. CASE CreateControl
  <2>1. deviceIndex < MaxDevices /\ UNCHANGED deviceIndex
    BY <1>1, <1>5 DEF CreateControl, ProbeInv, At
  <2>2. CASE /\ ctrl' = [node |-> "registered", lock |-> TRUE, made |-> ctrl.made + 1]
             /\ prober' = [prober EXCEPT !.step = "controldata"]
             /\ UNCHANGED devs
    BY <1>1, <1>5, <2>1, <2>2
       DEF CreateControl, At, DriverInv, Shapes, BaseInv, ProbeInv, RemoveInv, Me
  <2>3. CASE ctrl' = [ctrl EXCEPT !.lock = TRUE] /\ Unwind
    <3>1. DOMAIN ctrl' = {"node", "lock", "made"} /\ ctrl'.lock = TRUE
      BY <1>1, <2>3 DEF Shapes
    <3>2. QED BY <2>1, <2>3, <3>1, UnwindStep
  <2>4. QED BY <1>5, <2>2, <2>3 DEF CreateControl
<1>6. CASE ControlReady
  BY <1>1, <1>6 DEF ControlReady, At, DriverInv, Shapes, BaseInv, ProbeInv, RemoveInv, Me
<1>7. CASE RegisterNode
  <2> DEFINE l == prober.local
             n == OverrideDevices(Machine[prober.board], expose)
  <2>1. /\ Me \in Slot /\ deviceIndex < MaxDevices /\ UNCHANGED <<deviceIndex, ctrl>>
        /\ devs[Me].pDE = "live" /\ devs[Me].board # 0 /\ devs[Me].lock = TRUE
        /\ SlotInv(devs[Me])
    BY <1>1, <1>7 DEF RegisterNode, ProbeInv, BaseInv, Me, At
  <2>2. CASE /\ devs' = [devs EXCEPT ![Me].devices = n, ![Me].up = @ \cup {l},
                                     ![Me].map[l] = devicesCount + l]
             /\ prober' = [prober EXCEPT !.local = l + 1]
    <3> DEFINE d == [devs[Me] EXCEPT !.devices = n, !.up = @ \cup {l},
                                     !.map = [@ EXCEPT ![l] = devicesCount + l]]
    <3> HIDE DEF n, l
    <3>1. SlotInv(d) /\ d.pDE = "live" /\ d.board # 0 /\ d.lock = TRUE
      BY <2>1 DEF SlotInv, SlotFields
    <3>2. devs' = [devs EXCEPT ![Me] = d]
      BY <1>1, <2>1, <2>2 DEF Shapes, SlotInv, SlotFields
    <3> HIDE DEF d
    <3>3. DOMAIN devs' = Slot /\ (\A s \in Slot : SlotInv(devs'[s])) /\ devs'[Me] = d
      BY <1>1, <2>1, <3>1, <3>2, OneSlot DEF BaseInv
    <3>4. prober'.step = "nodes" /\ DOMAIN prober' = {"step", "board", "local"}
      BY <1>1, <1>7, <2>2 DEF Shapes, RegisterNode, At
    <3>5. QED BY <1>1, <2>1, <3>1, <3>3, <3>4
              DEF DriverInv, Shapes, BaseInv, ProbeInv, RemoveInv, Me
  <2>3. CASE Unwind
    BY <1>1, <2>1, <2>3, UnwindStep DEF DriverInv, Shapes, BaseInv
  <2>4. QED BY <1>7, <2>2, <2>3 DEF RegisterNode
<1>8. CASE ProbeIndexed
  <2>1. /\ deviceIndex < MaxDevices /\ deviceIndex' = deviceIndex + 1
        /\ UNCHANGED <<devs, ctrl>>
    BY <1>1, <1>8 DEF ProbeIndexed, ProbeInv, At
  <2>2. prober'.step = "count" /\ DOMAIN prober' = {"step", "board", "local"}
    BY <1>1, <1>8 DEF Shapes, ProbeIndexed
  <2>3. QED BY <1>1, <2>1, <2>2 DEF DriverInv, Shapes, BaseInv, ProbeInv, RemoveInv
<1>9. CASE ProbeDone
  <2>1. UNCHANGED <<devs, deviceIndex, ctrl>>
    BY <1>9 DEF ProbeDone
  <2>2. prober'.step = "probe" /\ DOMAIN prober' = {"step", "board", "local"}
    BY <1>1, <1>9, NextBoardFacts DEF ProbeDone
  <2>3. QED BY <1>1, <2>1, <2>2 DEF DriverInv, Shapes, BaseInv, ProbeInv, RemoveInv
<1>10. QED BY <1>2, <1>3, <1>4, <1>5, <1>6, <1>7, <1>8, <1>9 DEF Load

(* Unloading: what stands on the lock or on the interrupt goes before it. *)
LEMMA UnloadStep ==
ASSUME DriverInv, Unload \/ ModuleExit
PROVE  DriverInv'
<1> USE SlotFacts
<1>1. Shapes /\ BaseInv /\ ProbeInv /\ RemoveInv
  BY DEF DriverInv
<1>2. CASE ModuleExit
  <2>1. UNCHANGED <<devs, deviceIndex, ctrl>>
    BY <1>2 DEF ModuleExit
  <2>2. prober'.step = "remove" /\ prober'.board = 0 /\ DOMAIN prober' = {"step", "board", "local"}
    BY <1>2 DEF ModuleExit
  <2>3. QED BY <1>1, <2>1, <2>2 DEF DriverInv, Shapes, BaseInv, ProbeInv, RemoveInv
<1>3. ASSUME prober.step \in {"removecontrol", "removelock", "removeirq", "removedevice"} \/ RemoveNodes
      PROVE  /\ Removing \in Slot /\ Removing < deviceIndex /\ SlotInv(devs[Removing])
             /\ Removing = prober.board
  BY <1>1, <1>3 DEF RemoveNodes, ProbeInv, RemoveInv, BaseInv, Removing, At
<1>4. CASE RemoveNodes
  <2>1. Removing \in Slot /\ Removing < deviceIndex /\ SlotInv(devs[Removing]) /\ Removing = prober.board
    BY <1>3, <1>4
  <2> DEFINE d == [devs[Removing] EXCEPT !.up = {}]
  <2>2. SlotInv(d) /\ d.up = {}
    BY <2>1 DEF SlotInv, SlotFields
  <2>3. devs' = [devs EXCEPT ![Removing] = d]
    BY <1>4 DEF RemoveNodes
  <2> HIDE DEF d
  <2>4. DOMAIN devs' = Slot /\ (\A s \in Slot : SlotInv(devs'[s])) /\ devs'[Removing] = d
    BY <1>1, <2>1, <2>2, <2>3, OneSlot DEF BaseInv
  <2>5. /\ prober'.step = "removecontrol" /\ prober'.board = Removing
        /\ DOMAIN prober' = {"step", "board", "local"} /\ UNCHANGED <<deviceIndex, ctrl>>
    BY <1>1, <1>4, <2>1 DEF Shapes, RemoveNodes
  <2>6. QED BY <1>1, <2>1, <2>2, <2>4, <2>5 DEF DriverInv, Shapes, BaseInv, ProbeInv, RemoveInv
<1>5. CASE RemoveControl
  <2>1. /\ DOMAIN ctrl' = {"node", "lock", "made"} /\ ctrl'.node = "none" /\ ctrl'.lock = FALSE
        /\ prober'.step = "removelock" /\ prober'.board = prober.board
        /\ DOMAIN prober' = {"step", "board", "local"} /\ UNCHANGED <<devs, deviceIndex>>
        /\ prober.step = "removecontrol"
    BY <1>1, <1>5 DEF Shapes, RemoveControl, At
  <2>2. QED BY <1>1, <2>1 DEF DriverInv, Shapes, BaseInv, ProbeInv, RemoveInv
<1>6. CASE RemoveLock
  <2>1. Removing \in Slot /\ Removing < deviceIndex /\ SlotInv(devs[Removing]) /\ Removing = prober.board
    BY <1>3, <1>6 DEF RemoveLock, At
  <2>2. devs[Removing].up = {}
    BY <1>1, <1>6, <2>1 DEF RemoveInv, RemoveLock, At
  <2> DEFINE d == [devs[Removing] EXCEPT !.lock = FALSE]
  <2>3. SlotInv(d) /\ d.up = {}
    BY <2>1, <2>2 DEF SlotInv, SlotFields
  <2>4. devs' = [devs EXCEPT ![Removing] = d]
    BY <1>6 DEF RemoveLock
  <2> HIDE DEF d
  <2>5. DOMAIN devs' = Slot /\ (\A s \in Slot : SlotInv(devs'[s])) /\ devs'[Removing] = d
    BY <1>1, <2>1, <2>3, <2>4, OneSlot DEF BaseInv
  <2>6. /\ prober'.step = "removeirq" /\ prober'.board = Removing
        /\ DOMAIN prober' = {"step", "board", "local"} /\ UNCHANGED <<deviceIndex, ctrl>>
    BY <1>1, <1>6, <2>1 DEF Shapes, RemoveLock
  <2>7. QED BY <1>1, <2>1, <2>3, <2>5, <2>6 DEF DriverInv, Shapes, BaseInv, ProbeInv, RemoveInv
<1>7. CASE RemoveIrq
  <2>1. Removing \in Slot /\ Removing < deviceIndex /\ SlotInv(devs[Removing]) /\ Removing = prober.board
    BY <1>3, <1>7 DEF RemoveIrq, At
  <2>2. devs[Removing].up = {}
    BY <1>1, <1>7, <2>1 DEF RemoveInv, RemoveIrq, At
  <2> DEFINE d == [devs[Removing] EXCEPT !.irq = FALSE]
  <2>3. SlotInv(d) /\ d.up = {} /\ d.irq = FALSE
    BY <2>1, <2>2 DEF SlotInv, SlotFields
  <2>4. devs' = [devs EXCEPT ![Removing] = d]
    BY <1>7 DEF RemoveIrq
  <2> HIDE DEF d
  <2>5. DOMAIN devs' = Slot /\ (\A s \in Slot : SlotInv(devs'[s])) /\ devs'[Removing] = d
    BY <1>1, <2>1, <2>3, <2>4, OneSlot DEF BaseInv
  <2>6. /\ prober'.step = "removedevice" /\ prober'.board = Removing
        /\ DOMAIN prober' = {"step", "board", "local"} /\ UNCHANGED <<deviceIndex, ctrl>>
    BY <1>1, <1>7, <2>1 DEF Shapes, RemoveIrq
  <2>7. QED BY <1>1, <2>1, <2>3, <2>5, <2>6 DEF DriverInv, Shapes, BaseInv, ProbeInv, RemoveInv
<1>8. CASE RemoveDevice
  <2>1. Removing \in Slot /\ Removing < deviceIndex /\ SlotInv(devs[Removing]) /\ Removing = prober.board
    BY <1>3, <1>8 DEF RemoveDevice, At
  <2>2. devs[Removing].up = {} /\ devs[Removing].irq = FALSE
    BY <1>1, <1>8, <2>1 DEF RemoveInv, RemoveDevice, At
  <2> DEFINE d == [devs[Removing] EXCEPT !.pDE = "none", !.board = 0]
  <2>3. SlotInv(d)
    BY <2>1, <2>2 DEF SlotInv, SlotFields
  <2>4. devs' = [devs EXCEPT ![Removing] = d]
    BY <1>1, <1>8, <2>1 DEF RemoveDevice, Shapes
  <2> HIDE DEF d
  <2>5. DOMAIN devs' = Slot /\ \A s \in Slot : SlotInv(devs'[s])
    BY <1>1, <2>1, <2>3, <2>4, OneSlot DEF BaseInv
  <2>6. /\ prober'.step = "remove" /\ prober'.board \in Nat
        /\ DOMAIN prober' = {"step", "board", "local"} /\ UNCHANGED <<deviceIndex, ctrl>>
    BY <1>1, <1>8, <2>1 DEF Shapes, RemoveDevice
  <2>7. QED BY <1>1, <2>5, <2>6 DEF DriverInv, Shapes, BaseInv, ProbeInv, RemoveInv
<1>9. CASE ModuleOut
  <2>1. DOMAIN devs' = Slot /\ \A s \in Slot : SlotInv(devs'[s])
    BY <1>9, BlankFacts DEF ModuleOut
  <2>2. prober' = Idle /\ deviceIndex' = 0 /\ ctrl' = NoControl
    BY <1>9 DEF ModuleOut
  <2>3. QED BY <2>1, <2>2 DEF DriverInv, Shapes, BaseInv, ProbeInv, RemoveInv, Idle, NoControl
<1>10. QED BY <1>2, <1>4, <1>5, <1>6, <1>7, <1>8, <1>9 DEF Unload

(* Applications change none of the driver's tables. *)
LEMMA DriverStepOrNot ==
ASSUME [Next]_vars
PROVE  Load \/ Unload \/ ModuleExit \/ UNCHANGED driverVars
<1>1. CASE UNCHANGED vars
  BY <1>1 DEF vars
<1>2. CASE DriverStep(Load) \/ DriverStep(Exit) \/ DriverStep(Unload)
  BY <1>2 DEF DriverStep, Exit
<1>3. ASSUME NEW n \in Input, Change(n) PROVE UNCHANGED driverVars
  BY <1>3 DEF Change
<1>4. ASSUME NEW c \in Clients, Calls(c) PROVE UNCHANGED driverVars
  BY <1>4 DEF Calls, Open, Close, PollStart, PollLook, PollAppend, PollEnd, ReadTest, ReadTake, Look
<1>5. ASSUME NEW c \in Clients, NEW ld \in Node, NEW v \in Values, SetDeviceParms(c, ld, v)
      PROVE  UNCHANGED driverVars
  BY <1>5 DEF SetDeviceParms
<1>6. ASSUME NEW c \in Clients, NEW ld \in Node, WriteFlash(c, ld) PROVE UNCHANGED driverVars
  BY <1>6 DEF WriteFlash
<1>7. QED BY <1>1, <1>2, <1>3, <1>4, <1>5, <1>6 DEF Next

(* The steps that change the settings of the inputs, and the others *)
LEMMA StepKinds ==
ASSUME [Next]_vars
PROVE  \/ DriverStep(Load) \/ DriverStep(Exit) \/ DriverStep(Unload)
       \/ \E c \in Clients, ld \in Node, v \in Values : SetDeviceParms(c, ld, v)
       \/ UNCHANGED <<driverVars, parms, written>>
BY DEF Next, vars, dataVars, Change, Calls, Open, Close, PollStart, PollLook, PollAppend, PollEnd, ReadTest,
       ReadTake, Look, WriteFlash

(* Before the module is loaded no board is known and no probe runs. *)
LEMMA InitDriver ==
ASSUME Init
PROVE  DriverInv
<1>1. DOMAIN devs = Slot /\ \A s \in Slot : SlotInv(devs[s])
  BY BlankFacts DEF Init, DriverInit
<1>2. prober = Idle /\ deviceIndex = 0 /\ ctrl = NoControl
  BY DEF Init, DriverInit
<1>3. QED BY <1>1, <1>2, SlotFacts
          DEF DriverInv, Shapes, BaseInv, ProbeInv, RemoveInv, Idle, NoControl

(* A call on the control device leaves the boards alone; the module does not. *)
LEMMA DriverKept ==
ASSUME DriverInv, [Next]_vars
PROVE  DriverInv'
<1>1. CASE UNCHANGED driverVars
  BY <1>1 DEF driverVars, DriverInv, Shapes, BaseInv, ProbeInv, RemoveInv, Me, SlotInv
<1>2. QED BY <1>1, DriverStepOrNot, LoadStep, UnloadStep

(* Whatever boards the machine has and whichever steps of their probes      *)
(* fail, an interrupt handler of rgb133.c is registered only while the      *)
(* extension it works on exists, and a node only while its lock does.       *)
THEOREM NothingEverOutlivesItsBase == Spec => []NothingOutlivesItsBase
<1>1. DriverInv => NothingOutlivesItsBase
  BY DEF DriverInv, BaseInv, SlotInv, NothingOutlivesItsBase
<1>2. QED BY <1>1, InitDriver, DriverKept, PTL DEF Spec

-------------------------------------------------------------------------------
(* The numbers of the nodes *)

(* Boards whose nodes are counted.  The slot after them is the one that is *)
(* being probed, until its nodes are counted too.                          *)
Counted == IF At("count") THEN deviceIndex - 1 ELSE deviceIndex

(* The number is that of a registered node of a counted board. *)
Home(s, l, ld) == s < Counted /\ l \in devs[s].up /\ devs[s].map[l] = ld

Prepared == {"hardware", "control", "controldata"}
Probing  == Prepared \cup {"probe", "nodes", "count"}
Removal  == {"remove", "removecontrol", "removelock", "removeirq", "removedevice"}

PlaceInv ==
  /\ expose \in BOOLEAN /\ devicesCount \in Nat
  /\ prober.step \in Probing => module = "loading"
  /\ prober.step \in Removal => module = "unloading"
  /\ module = "out" => deviceIndex = 0 /\ devicesCount = 0
  /\ prober.step = "count" => deviceIndex > 0
  /\ prober.step \in Prepared \cup {"nodes"} => prober.board \in Bus
  /\ prober.step \in Prepared \cup {"probe"} => prober.local = 0

SlotMap(d) == DOMAIN d.map = Local /\ d.up \subseteq Local

(* A board whose first local devices have nodes, numbered from first on *)
Numbered(d, first, n) ==
  /\ d.up = 0 .. n - 1
  /\ \A l \in Local : d.map[l] = IF l < n THEN first + l ELSE 0
  /\ d.devices # -1 <=> n > 0

GrowInv ==
  /\ prober.step \in Prepared => Numbered(devs[Me], devicesCount, 0)
  /\ prober.step \in {"nodes", "count"} =>
       prober.local \in 0 .. MaxLocal /\ Numbered(devs[Counted], devicesCount, prober.local)

CountInv ==
  /\ Counted = 0 => devicesCount = 0
  /\ devicesCount <= Counted * MaxLocal

(* The numbers are those of the nodes, each of one, and the first board's *)
(* first node has the first.                                              *)
Table ==
  /\ \A ld \in 0 .. devicesCount - 1 : \E s \in Slot, l \in Local : Home(s, l, ld)
  /\ \A s, t \in Slot, l, k \in Local, ld \in 0 .. devicesCount - 1 :
       Home(s, l, ld) /\ Home(t, k, ld) => s = t /\ l = k
  /\ \A s \in Slot : s < Counted =>
       \A l \in Local : IF l \in devs[s].up THEN devs[s].map[l] \in 0 .. devicesCount - 1
                        ELSE devs[s].map[l] = 0
  /\ Counted > 0 =>
       IF devs[0].devices = -1 THEN devs[0].up = {} ELSE 0 \in devs[0].up /\ devs[0].map[0] = 0

NodeInv ==
  /\ PlaceInv /\ GrowInv /\ CountInv /\ \A s \in Slot : SlotMap(devs[s])
  /\ module # "unloading" => Table

(* How many nodes a board gets is a number. *)
LEMMA OverrideInt ==
ASSUME NEW b, NEW e
PROVE  OverrideDevices(b, e) \in Int
<1>1. \A r \in Rows : r.first \in Int /\ r.other \in Int
  BY DEF Rows, VisionRows, VisionSCRows, VisionLCRows, All, Row
<1>2. CASE \E row \in Rows : Same(row, b)
  <2>1. (CHOOSE r \in Rows : Same(r, b)) \in Rows
    BY <1>2
  <2>2. QED BY <1>1, <1>2, <2>1 DEF OverrideDevices
<1>3. QED BY <1>2 DEF OverrideDevices

(* The next local device of a board has a place in the map. *)
LEMMA NextLocal ==
ASSUME PlaceInv, GrowInv, At("nodes"), prober.local < OverrideDevices(Machine[prober.board], expose)
PROVE  /\ prober.local \in Local /\ prober.local + 1 \in 0 .. MaxLocal
       /\ OverrideDevices(Machine[prober.board], expose) # -1
<1>1. prober.board \in DOMAIN Machine
  BY DriverAssumption DEF PlaceInv, Bus, At
<1>2. OverrideDevices(Machine[prober.board], expose) <= MaxLocal
  BY <1>1, DriverAssumption DEF PlaceInv
<1>3. prober.local \in 0 .. MaxLocal /\ MaxLocal \in Nat
  BY DriverAssumption DEF GrowInv, At
<1>4. QED BY <1>2, <1>3, OverrideInt DEF Local

(* The driver's thread goes on in one phase. *)
LEMMA PlaceStep ==
ASSUME DriverInv, NodeInv, Load \/ Unload \/ ModuleExit
PROVE  PlaceInv'
<1>1. Shapes /\ PlaceInv /\ deviceIndex \in Nat
  BY SlotFacts DEF DriverInv, ProbeInv, NodeInv
<1>2. CASE ModuleInit \/ ProbeRefused \/ ModuleLoaded \/ ModuleExit \/ ModuleOut
  BY <1>1, <1>2 DEF PlaceInv, ModuleInit, ProbeRefused, ModuleLoaded, ModuleExit, ModuleOut, NextBoard, At,
                    Idle, Shapes, Prepared, Probing, Removal
<1>3. CASE ProbeAlloc \/ ProbeHardware \/ CreateControl \/ ControlReady
  BY <1>1, <1>3 DEF PlaceInv, ProbeAlloc, ProbeHardware, CreateControl, ControlReady, Unwind, NextBoard, At,
                    Shapes, Prepared, Probing, Removal
<1>4. CASE RegisterNode \/ ProbeIndexed
  BY <1>1, <1>4 DEF PlaceInv, RegisterNode, ProbeIndexed, Unwind, NextBoard, At,
                    Shapes, Prepared, Probing, Removal
<1>5. CASE ProbeDone
  <2>1. prober.local \in Nat
    BY <1>5, DriverAssumption DEF ProbeDone, At, NodeInv, GrowInv
  <2>2. QED BY <1>1, <1>5, <2>1 DEF PlaceInv, ProbeDone, NextBoard, At, Prepared, Probing, Removal
<1>6. CASE RemoveNodes \/ RemoveControl \/ RemoveLock \/ RemoveIrq \/ RemoveDevice
  BY <1>1, <1>6 DEF PlaceInv, RemoveNodes, RemoveControl, RemoveLock, RemoveIrq, RemoveDevice, At,
                    Shapes, Prepared, Probing, Removal
<1>7. QED BY <1>2, <1>3, <1>4, <1>5, <1>6 DEF Load, Unload

(* A step of the driver's thread changes one slot, at most. *)
LEMMA LoadChanges ==
ASSUME DriverInv, NodeInv, Load
PROVE  /\ \A s \in Slot : s # Me => devs'[s] = devs[s]
       /\ prober.step \in {"idle", "count"} => devs' = devs
BY DEF Load, ModuleInit, ProbeAlloc, ProbeRefused, ProbeHardware, CreateControl, ControlReady, RegisterNode,
       ProbeIndexed, ProbeDone, ModuleLoaded, Unwind, At, DriverInv, Shapes, NodeInv, PlaceInv, Probing

(* The slot of a board whose next node is registered *)
LEMMA RegisterFacts ==
ASSUME DriverInv, NodeInv, RegisterNode, prober'.step = "nodes"
PROVE  /\ Counted = Me /\ Me \in Slot
       /\ SlotMap(devs'[Me])
       /\ prober'.local = prober.local + 1 /\ prober'.local \in 0 .. MaxLocal
       /\ Numbered(devs'[Me], devicesCount, prober.local + 1)
<1> DEFINE l == prober.local
           n == OverrideDevices(Machine[prober.board], expose)
<1>1. /\ At("nodes") /\ Counted = Me /\ Me \in Slot /\ l \in Local /\ l + 1 \in 0 .. MaxLocal /\ n # -1
      /\ DOMAIN devs = Slot /\ DOMAIN devs[Me] = SlotFields /\ SlotMap(devs[Me])
      /\ Numbered(devs[Me], devicesCount, l)
  BY SlotFacts, NextLocal
     DEF RegisterNode, DriverInv, Shapes, BaseInv, SlotInv, ProbeInv, NodeInv, GrowInv, Counted, At, Me
<1>2. /\ devs' = [devs EXCEPT ![Me].devices = n, ![Me].up = @ \cup {l}, ![Me].map[l] = devicesCount + l]
      /\ prober' = [prober EXCEPT !.local = l + 1]
  BY <1>1 DEF RegisterNode, Unwind, NextBoard, At, DriverInv, Shapes
<1> DEFINE d == [devs[Me] EXCEPT !.devices = n, !.up = @ \cup {l}, !.map = [@ EXCEPT ![l] = devicesCount + l]]
<1>3. devs' = [devs EXCEPT ![Me] = d] /\ prober'.local = l + 1
  BY <1>1, <1>2 DEF DriverInv, Shapes, SlotFields, SlotMap
<1>4. /\ d.devices = n /\ d.up = devs[Me].up \cup {l}
      /\ d.map = [devs[Me].map EXCEPT ![l] = devicesCount + l]
  BY <1>1 DEF SlotFields
<1> HIDE DEF d, n
<1>5. devs'[Me] = d
  BY <1>1, <1>3
<1>6. d.up = 0 .. l
  BY <1>1, <1>4 DEF Numbered, Local
<1>7. ASSUME NEW k \in Local PROVE d.map[k] = IF k < l + 1 THEN devicesCount + k ELSE 0
  <2>1. k \in Int /\ l \in Int
    BY <1>1 DEF Local
  <2>2. CASE k = l
    BY <1>1, <1>4, <2>1, <2>2 DEF SlotMap
  <2>3. CASE k # l
    <3>1. d.map[k] = devs[Me].map[k]
      BY <1>1, <1>4, <2>3 DEF SlotMap
    <3>2. k < l + 1 <=> k < l
      BY <2>1, <2>3
    <3>3. QED BY <1>1, <3>1, <3>2 DEF Numbered
  <2>4. QED BY <2>2, <2>3
<1>8. SlotMap(d)
  BY <1>1, <1>4 DEF SlotMap
<1>9. (l + 1) - 1 = l /\ l + 1 > 0
  BY <1>1 DEF Local
<1>10. Numbered(d, devicesCount, l + 1)
  BY <1>1, <1>4, <1>6, <1>7, <1>9 DEF Numbered
<1>11. QED BY <1>1, <1>3, <1>5, <1>8, <1>10

(* A new extension and a released one have their maps. *)
LEMMA BlankMaps ==
/\ SlotMap(Blank) /\ \A b : SlotMap([Blank EXCEPT !.board = b, !.pDE = "live"])
/\ \A b, first : Numbered([Blank EXCEPT !.board = b, !.pDE = "live"], first, 0)
<1>1. 0 .. 0 - 1 = {}
  OBVIOUS
<1>2. \A b : /\ [Blank EXCEPT !.board = b, !.pDE = "live"].map = [l \in Local |-> 0]
             /\ [Blank EXCEPT !.board = b, !.pDE = "live"].up = {}
             /\ [Blank EXCEPT !.board = b, !.pDE = "live"].devices = -1
  BY DEF Blank
<1>3. \A l \in Local : ~(l < 0)
  BY DriverAssumption DEF Local
<1>4. QED BY <1>1, <1>2, <1>3 DEF SlotMap, Numbered, Blank

(* One slot changes, and keeps its map. *)
LEMMA OneMap ==
ASSUME Shapes, \A s \in Slot : SlotMap(devs[s]), NEW k \in Slot, NEW d, SlotMap(d),
       devs' = [devs EXCEPT ![k] = d]
PROVE  devs'[k] = d /\ \A s \in Slot : SlotMap(devs'[s])
<1>1. devs'[k] = d /\ \A s \in Slot : s # k => devs'[s] = devs[s]
  BY DEF Shapes
<1>2. ASSUME NEW s \in Slot PROVE SlotMap(devs'[s])
  <2>1. CASE s = k
    BY <1>1, <2>1
  <2>2. CASE s # k
    <3>1. devs'[s] = devs[s] /\ SlotMap(devs[s])
      BY <1>1, <2>2
    <3>2. QED BY <3>1
  <2>3. QED BY <2>1, <2>2
<1>3. QED BY <1>1, <1>2

(* A probe that goes back *)
LEMMA UnwindMaps ==
ASSUME DriverInv, NodeInv, Unwind, Me \in Slot
PROVE  (\A s \in Slot : SlotMap(devs'[s])) /\ GrowInv'
<1>1. SlotMap(Released(devs[Me]))
  BY DEF NodeInv, SlotMap, Released, DriverInv, BaseInv, SlotInv, SlotFields
<1>2. \A s \in Slot : SlotMap(devs'[s])
  BY <1>1, OneMap DEF Unwind, NodeInv, DriverInv
<1>3. prober'.step = "probe"
  BY NextBoardFacts DEF Unwind, DriverInv
<1>4. QED BY <1>2, <1>3 DEF GrowInv, Prepared

(* The maps as the driver's thread goes on *)
LEMMA GrowStep ==
ASSUME DriverInv, NodeInv, Load \/ Unload \/ ModuleExit
PROVE  (\A s \in Slot : SlotMap(devs'[s])) /\ GrowInv'
<1>1. /\ Shapes /\ \A s \in Slot : SlotMap(devs[s]) /\ SlotInv(devs[s])
      /\ prober.step \in Prepared \cup {"nodes"} => Me \in Slot
      /\ PlaceInv /\ GrowInv /\ deviceIndex \in 0 .. MaxDevices
  BY SlotFacts DEF DriverInv, BaseInv, ProbeInv, NodeInv, Me, Prepared
<1>2. CASE ModuleInit \/ ProbeRefused \/ ModuleLoaded \/ ModuleExit \/ ProbeDone
  <2>1. devs' = devs /\ prober'.step \in {"probe", "idle", "remove"}
    BY <1>2, NextBoardFacts DEF ModuleInit, ProbeRefused, ModuleLoaded, ModuleExit, ProbeDone, Idle, DriverInv
  <2>2. QED BY <1>1, <2>1 DEF GrowInv, Prepared
<1>3. CASE ProbeAlloc
  <2>1. Me \in Slot /\ Me' = Me /\ UNCHANGED devicesCount
    BY <1>1, <1>3, SlotFacts DEF ProbeAlloc, Me
  <2>2. CASE devs' = [devs EXCEPT ![Me] = Blank] /\ NextBoard
    <3>1. prober'.step = "probe"
      BY <2>2, <1>1, NextBoardFacts
    <3>2. QED BY <1>1, <2>1, <2>2, <3>1, BlankMaps, OneMap DEF GrowInv, Prepared
  <2>3. CASE /\ devs' = [devs EXCEPT ![Me] = [Blank EXCEPT !.board = prober.board, !.pDE = "live"]]
             /\ prober' = [prober EXCEPT !.step = "hardware"]
    <3> DEFINE d == [Blank EXCEPT !.board = prober.board, !.pDE = "live"]
    <3>1. SlotMap(d) /\ Numbered(d, devicesCount, 0)
      BY BlankMaps
    <3> HIDE DEF d
    <3>2. devs' = [devs EXCEPT ![Me] = d]
      BY <2>3 DEF d
    <3>3. devs'[Me] = d /\ \A s \in Slot : SlotMap(devs'[s])
      BY <1>1, <2>1, <3>1, <3>2, OneMap
    <3>4. prober'.step = "hardware"
      BY <1>1, <2>3 DEF Shapes
    <3>5. QED BY <2>1, <3>1, <3>3, <3>4 DEF GrowInv
  <2>4. QED BY <1>3, <2>2, <2>3 DEF ProbeAlloc
<1>4. CASE ProbeHardware
  <2>1. /\ Me \in Slot /\ Me' = Me /\ UNCHANGED devicesCount /\ At("hardware")
        /\ prober.local = 0 /\ Numbered(devs[Me], devicesCount, 0)
    BY <1>1, <1>4 DEF ProbeHardware, Me, At, Prepared, PlaceInv, GrowInv
  <2>2. CASE Unwind
    BY <2>1, <2>2, UnwindMaps
  <2>3. CASE /\ devs' = [devs EXCEPT ![Me].irq = TRUE, ![Me].lock = TRUE]
             /\ prober' = [prober EXCEPT !.step = IF deviceIndex = 0 THEN "control" ELSE "nodes"]
    <3> DEFINE d == [devs[Me] EXCEPT !.irq = TRUE, !.lock = TRUE]
    <3>1. d.map = devs[Me].map /\ d.up = devs[Me].up /\ d.devices = devs[Me].devices
      BY <1>1, <2>1 DEF SlotInv, SlotFields
    <3>2. devs' = [devs EXCEPT ![Me] = d]
      BY <1>1, <2>1, <2>3 DEF Shapes
    <3> HIDE DEF d
    <3>3. SlotMap(d) /\ Numbered(d, devicesCount, 0)
      BY <1>1, <2>1, <3>1 DEF SlotMap, Numbered
    <3>4. devs'[Me] = d /\ \A s \in Slot : SlotMap(devs'[s])
      BY <1>1, <2>1, <3>2, <3>3, OneMap
    <3>5. prober'.step \in {"control", "nodes"} /\ prober'.local = 0
      BY <1>1, <2>1, <2>3 DEF Shapes
    <3>6. QED BY <2>1, <3>3, <3>4, <3>5, DriverAssumption DEF GrowInv, Counted, At, Me
  <2>4. QED BY <1>4, <2>2, <2>3 DEF ProbeHardware, Unwind
<1>5. CASE CreateControl \/ ControlReady
  <2>1. /\ Me \in Slot /\ Me' = Me /\ UNCHANGED devicesCount
        /\ prober.local = 0 /\ Numbered(devs[Me], devicesCount, 0)
    BY <1>1, <1>5 DEF CreateControl, ControlReady, Me, At, Prepared, PlaceInv, GrowInv
  <2>2. CASE Unwind
    BY <2>1, <2>2, UnwindMaps
  <2>3. CASE /\ UNCHANGED devs
             /\ \/ prober' = [prober EXCEPT !.step = "controldata"]
                \/ prober' = [prober EXCEPT !.step = "nodes"]
    <3>1. prober'.step \in {"controldata", "nodes"} /\ prober'.local = 0
      BY <1>1, <2>1, <2>3 DEF Shapes
    <3>2. QED BY <1>1, <2>1, <2>3, <3>1, DriverAssumption DEF GrowInv, Counted, At, Me
  <2>4. QED BY <1>5, <2>2, <2>3 DEF CreateControl, ControlReady
<1>6. CASE RegisterNode
  <2>1. Me \in Slot
    BY <1>1, <1>6 DEF RegisterNode, At
  <2>2. CASE Unwind
    BY <2>1, <2>2, UnwindMaps
  <2>3. CASE ~Unwind
    <3>1. prober'.step = "nodes" /\ Me' = Me /\ UNCHANGED devicesCount
      BY <1>1, <1>6, <2>3 DEF RegisterNode, At, Shapes, Me
    <3>2. \A s \in Slot : s # Me => devs'[s] = devs[s]
      BY <1>6, LoadChanges DEF Load
    <3>3. QED BY <1>1, <1>6, <3>1, <3>2, RegisterFacts DEF GrowInv, Counted, At, Me, Prepared
  <2>4. QED BY <2>2, <2>3
<1>7. CASE ProbeIndexed
  <2>1. /\ devs' = devs /\ UNCHANGED devicesCount /\ prober'.step = "count" /\ prober'.local = prober.local
        /\ deviceIndex' = deviceIndex + 1 /\ At("nodes")
    BY <1>1, <1>7 DEF ProbeIndexed, Shapes
  <2>2. Counted' = Counted
    BY <1>1, <2>1 DEF Counted, At
  <2>3. QED BY <1>1, <2>1, <2>2 DEF GrowInv, At, Prepared
<1>8. CASE Unload
  <2>1. prober'.step \in Removal \cup {"idle"}
    <3>1. CASE ModuleOut
      BY <3>1 DEF ModuleOut, Idle
    <3>2. CASE RemoveNodes \/ RemoveControl \/ RemoveLock
      BY <1>1, <3>2 DEF RemoveNodes, RemoveControl, RemoveLock, Shapes, Removal
    <3>3. CASE RemoveIrq \/ RemoveDevice
      BY <1>1, <3>3 DEF RemoveIrq, RemoveDevice, Shapes, Removal
    <3>4. QED BY <1>8, <3>1, <3>2, <3>3 DEF Unload
  <2>2. \A s \in Slot : SlotMap(devs'[s])
    <3>1. CASE ModuleOut
      BY <3>1, BlankMaps DEF ModuleOut
    <3>2. CASE RemoveControl
      BY <1>1, <3>2 DEF RemoveControl
    <3>3. ASSUME NEW s \in Slot, RemoveNodes \/ RemoveLock \/ RemoveIrq \/ RemoveDevice PROVE SlotMap(devs'[s])
      <4>1. devs'[s].map = devs[s].map /\ devs'[s].up \in {devs[s].up, {}}
        BY <1>1, <3>3 DEF RemoveNodes, RemoveLock, RemoveIrq, RemoveDevice, Shapes, SlotInv, SlotFields
      <4>2. QED BY <1>1, <4>1 DEF SlotMap
    <3>4. QED BY <1>8, <3>1, <3>2, <3>3 DEF Unload
  <2>3. QED BY <2>1, <2>2 DEF GrowInv, Removal, Prepared
<1>9. QED BY <1>2, <1>3, <1>4, <1>5, <1>6, <1>7, <1>8 DEF Load

(* The numbers while no board's nodes are counted *)
LEMMA TableKept ==
ASSUME Table, Counted' = Counted, UNCHANGED devicesCount, Counted \in Nat, Counted <= MaxDevices,
       \A s \in Slot : s < Counted => devs'[s] = devs[s]
PROVE  Table'
<1>1. \A s \in Slot, l \in Local, ld \in 0 .. devicesCount - 1 : Home(s, l, ld)' <=> Home(s, l, ld)
  BY DEF Home
<1>2. Counted > 0 => 0 \in Slot /\ devs'[0] = devs[0]
  BY DriverAssumption DEF Slot
<1>3. \A s \in Slot : s < Counted =>
       \A l \in Local : IF l \in devs'[s].up THEN devs'[s].map[l] \in 0 .. devicesCount - 1
                        ELSE devs'[s].map[l] = 0
  BY DEF Table
<1>4. \A s, t \in Slot, l, k \in Local, ld \in 0 .. devicesCount - 1 :
        Home(s, l, ld)' /\ Home(t, k, ld)' => s = t /\ l = k
  BY <1>1 DEF Table
<1>5. \A ld \in 0 .. devicesCount - 1 : \E s \in Slot, l \in Local : Home(s, l, ld)'
  BY <1>1 DEF Table
<1>6. Counted > 0 =>
       IF devs'[0].devices = -1 THEN devs'[0].up = {} ELSE 0 \in devs'[0].up /\ devs'[0].map[0] = 0
  BY <1>2 DEF Table
<1>7. QED BY <1>3, <1>4, <1>5, <1>6 DEF Table

(* The nodes of the next board are counted: their numbers follow the others. *)
LEMMA TableGrown ==
ASSUME Table, NEW n \in 0 .. MaxLocal, Counted \in Slot, devicesCount \in Nat,
       Numbered(devs[Counted], devicesCount, n), SlotMap(devs[Counted]),
       Counted' = Counted + 1, devicesCount' = devicesCount + n, UNCHANGED devs,
       Counted = 0 => devicesCount = 0
PROVE  /\ Table'
       /\ \A s \in Slot, l \in Local, ld \in 0 .. devicesCount - 1 : Home(s, l, ld)' => Home(s, l, ld)
<1> USE DriverAssumption DEF Slot, Local
<1>1. /\ \A l \in Local : l \in devs[Counted].up <=> l < n
      /\ \A l \in Local : l < n => devs[Counted].map[l] = devicesCount + l
      /\ \A l \in Local : ~(l < n) => devs[Counted].map[l] = 0
  BY DEF Numbered
<1>2. \A s \in Slot : s < Counted' <=> s < Counted \/ s = Counted
  OBVIOUS
<1>3. \A s \in Slot, l \in Local : \A ld :
        Home(s, l, ld)' <=> Home(s, l, ld) \/ (s = Counted /\ l < n /\ ld = devicesCount + l)
  BY <1>1, <1>2 DEF Home
<1>4. \A s \in Slot, l \in Local : \A ld : Home(s, l, ld) => ld \in 0 .. devicesCount - 1
  BY DEF Home, Table
<1>5. ASSUME NEW ld \in 0 .. devicesCount + n - 1 PROVE \E s \in Slot, l \in Local : Home(s, l, ld)'
  <2>1. CASE ld < devicesCount
    <3>1. ld \in 0 .. devicesCount - 1
      BY <2>1
    <3>2. QED BY <1>3, <3>1 DEF Table
  <2>2. CASE ld >= devicesCount
    <3>1. ld - devicesCount \in Local /\ ld - devicesCount < n /\ ld = devicesCount + (ld - devicesCount)
      BY <2>2
    <3>2. QED BY <1>3, <3>1
  <2>3. QED BY <2>1, <2>2
<1>6. ASSUME NEW s \in Slot, NEW t \in Slot, NEW l \in Local, NEW k \in Local,
             NEW ld \in 0 .. devicesCount + n - 1, Home(s, l, ld)', Home(t, k, ld)'
      PROVE  s = t /\ l = k
  <2>1. CASE ld < devicesCount
    <3>1. ld \in 0 .. devicesCount - 1 /\ Home(s, l, ld) /\ Home(t, k, ld)
      BY <1>3, <1>6, <2>1
    <3>2. QED BY <3>1 DEF Table
  <2>2. CASE ~(ld < devicesCount)
    <3>1. ~Home(s, l, ld) /\ ~Home(t, k, ld)
      BY <1>4, <2>2
    <3>2. s = Counted /\ ld = devicesCount + l /\ t = Counted /\ ld = devicesCount + k
      BY <1>3, <1>6, <3>1
    <3>3. QED BY <3>2
  <2>3. QED BY <2>1, <2>2
<1>7. ASSUME NEW s \in Slot, s < Counted', NEW l \in Local
      PROVE  IF l \in devs[s].up THEN devs[s].map[l] \in 0 .. devicesCount + n - 1 ELSE devs[s].map[l] = 0
  <2>1. CASE s < Counted
    <3>1. IF l \in devs[s].up THEN devs[s].map[l] \in 0 .. devicesCount - 1 ELSE devs[s].map[l] = 0
      BY <2>1 DEF Table
    <3>2. 0 .. devicesCount - 1 \subseteq 0 .. devicesCount + n - 1
      OBVIOUS
    <3>3. QED BY <3>1, <3>2
  <2>2. CASE s = Counted
    BY <1>1, <2>2
  <2>3. QED BY <1>2, <1>7, <2>1, <2>2
<1>8. IF devs[0].devices = -1 THEN devs[0].up = {} ELSE 0 \in devs[0].up /\ devs[0].map[0] = 0
  <2>1. CASE Counted > 0
    BY <2>1 DEF Table
  <2>2. CASE Counted = 0
    <3>1. devicesCount = 0 /\ 0 \in Local
      BY <2>2
    <3>2. CASE n = 0
      BY <2>2, <3>2 DEF Numbered
    <3>3. CASE n > 0
      BY <1>1, <2>2, <3>1, <3>3 DEF Numbered
    <3>4. QED BY <3>2, <3>3
  <2>3. QED BY <2>1, <2>2
<1>9. Table'
  BY <1>5, <1>6, <1>7, <1>8 DEF Table
<1>10. QED BY <1>3, <1>9

(* Either nothing changes in the boards whose nodes are counted, or those of *)
(* the next board are counted.                                               *)
LEMMA LoadCounts ==
ASSUME DriverInv, NodeInv, Load
PROVE  /\ Counted \in Nat /\ Counted <= MaxDevices
       /\ \/ /\ Counted' = Counted /\ UNCHANGED devicesCount
             /\ \A s \in Slot : s < Counted => devs'[s] = devs[s]
          \/ /\ At("count") /\ Counted \in Slot /\ Counted' = Counted + 1
             /\ devicesCount' = devicesCount + prober.local /\ UNCHANGED devs
<1>1. Shapes /\ PlaceInv /\ deviceIndex \in 0 .. MaxDevices /\ MaxDevices \in Nat
  BY SlotFacts DEF DriverInv, ProbeInv, NodeInv
<1>2. Counted \in Nat /\ Counted <= MaxDevices
  BY <1>1 DEF Counted, At, PlaceInv
<1>3. CASE ModuleInit \/ ProbeRefused \/ ModuleLoaded
  <2>1. /\ prober.step \in {"probe", "idle"} \/ module = "out"
        /\ UNCHANGED <<devs, deviceIndex, devicesCount>>
        /\ prober'.step \in {"probe", "idle"}
    BY <1>3 DEF ModuleInit, ProbeRefused, ModuleLoaded, NextBoard, Idle, At
  <2>2. prober.step # "count" /\ prober'.step # "count"
    BY <1>1, <1>3, <2>1 DEF ModuleInit, ProbeRefused, ModuleLoaded, At, PlaceInv, Probing
  <2>3. QED BY <1>2, <1>3, <2>2 DEF ModuleInit, ProbeRefused, ModuleLoaded, Counted, At
<1>4. CASE ProbeAlloc \/ ProbeHardware \/ CreateControl \/ ControlReady \/ RegisterNode
  <2>1. prober.step # "count" /\ UNCHANGED <<deviceIndex, devicesCount>>
    BY <1>4 DEF ProbeAlloc, ProbeHardware, CreateControl, ControlReady, RegisterNode, At
  <2>2. prober'.step # "count"
    BY <1>1, <1>4, <2>1
       DEF ProbeAlloc, ProbeHardware, CreateControl, ControlReady, RegisterNode, Unwind, NextBoard, Shapes
  <2>3. \A s \in Slot : s < Counted => s # Me
    BY <2>1, SlotFacts, <1>1 DEF Counted, At, Me
  <2>4. \A s \in Slot : s < Counted => devs'[s] = devs[s]
    BY <1>4, <2>3, LoadChanges DEF Load
  <2>5. QED BY <1>2, <2>1, <2>2, <2>4 DEF Counted, At
<1>5. CASE ProbeIndexed
  <2>1. /\ devs' = devs /\ UNCHANGED devicesCount /\ prober'.step = "count"
        /\ deviceIndex' = deviceIndex + 1 /\ At("nodes")
    BY <1>1, <1>5 DEF ProbeIndexed, Shapes
  <2>2. QED BY <1>1, <1>2, <2>1 DEF Counted, At
<1>6. CASE ProbeDone
  <2>1. /\ devs' = devs /\ devicesCount' = devicesCount + prober.local /\ prober'.step = "probe"
        /\ deviceIndex' = deviceIndex /\ At("count") /\ deviceIndex > 0
    BY <1>1, <1>6 DEF ProbeDone, NextBoard, PlaceInv, At
  <2>2. Counted \in Slot
    BY <1>1, <2>1, SlotFacts DEF Counted
  <2>3. QED BY <1>1, <1>2, <2>1, <2>2 DEF Counted, At
<1>7. QED BY <1>3, <1>4, <1>5, <1>6 DEF Load

(* A board more has room for its nodes. *)
LEMMA Room ==
ASSUME NEW c \in Nat, NEW m \in Nat, NEW d \in Nat, NEW n \in 0 .. m, d <= c * m
PROVE  d + n <= (c + 1) * m
<1>1. (c + 1) * m = c * m + m /\ c * m \in Nat
  OBVIOUS
<1>2. \A x \in Nat : d <= x => d + n <= x + m
  OBVIOUS
<1>3. QED BY <1>1, <1>2

(* The numbers, as the driver's thread goes on *)
LEMMA NodeStep ==
ASSUME DriverInv, NodeInv, Load \/ Unload \/ ModuleExit
PROVE  NodeInv'
<1>1. PlaceInv' /\ GrowInv' /\ \A s \in Slot : SlotMap(devs'[s])
  BY PlaceStep, GrowStep
<1>2. CASE Load
  <2>1. module # "unloading"
    BY <1>2 DEF Load, ModuleInit, ProbeAlloc, ProbeRefused, ProbeHardware, CreateControl, ControlReady,
                RegisterNode, ProbeIndexed, ProbeDone, ModuleLoaded, At, NodeInv, PlaceInv, Prepared, Probing
  <2>2. Table /\ CountInv /\ devicesCount \in Nat /\ Counted \in Nat /\ Counted <= MaxDevices
    BY <1>2, <2>1, LoadCounts DEF NodeInv, PlaceInv
  <2>3. CASE /\ Counted' = Counted /\ UNCHANGED devicesCount
             /\ \A s \in Slot : s < Counted => devs'[s] = devs[s]
    BY <1>1, <2>2, <2>3, TableKept DEF NodeInv, CountInv
  <2>4. CASE /\ At("count") /\ Counted \in Slot /\ Counted' = Counted + 1
             /\ devicesCount' = devicesCount + prober.local /\ UNCHANGED devs
    <3>1. prober.local \in 0 .. MaxLocal /\ Numbered(devs[Counted], devicesCount, prober.local)
          /\ SlotMap(devs[Counted])
      BY <2>4 DEF NodeInv, GrowInv, At
    <3>2. Table'
      BY <2>2, <2>4, <3>1, TableGrown DEF CountInv
    <3>3. devicesCount + prober.local <= (Counted + 1) * MaxLocal
      BY <2>2, <3>1, Room, DriverAssumption DEF CountInv
    <3>4. Counted' # 0
      BY <2>2, <2>4
    <3>5. CountInv'
      BY <2>4, <3>3, <3>4 DEF CountInv
    <3>6. QED BY <1>1, <3>2, <3>5 DEF NodeInv
  <2>5. QED BY <1>2, <2>3, <2>4, LoadCounts
<1>3. CASE ModuleOut
  <2>1. /\ deviceIndex' = 0 /\ devicesCount' = 0 /\ prober'.step = "idle"
    BY <1>3 DEF ModuleOut, Idle
  <2>2. Counted' = 0
    BY <2>1 DEF Counted, At
  <2>3. CountInv'
    BY <2>1, <2>2, DriverAssumption DEF CountInv
  <2>4. \A s \in Slot : ~(s < 0)
    BY SlotFacts
  <2>5. Table'
    BY <2>1, <2>2, <2>4 DEF Table
  <2>6. QED BY <1>1, <2>3, <2>5 DEF NodeInv
<1>4. CASE (Unload /\ ~ModuleOut) \/ ModuleExit
  <2>1. UNCHANGED <<deviceIndex, devicesCount>> /\ module' = "unloading"
        /\ prober.step # "count" /\ prober'.step # "count"
    <3>1. CASE ModuleExit
      BY <3>1 DEF ModuleExit, NodeInv, PlaceInv, Probing
    <3>2. CASE Unload /\ ~ModuleOut
      <4>1. UNCHANGED <<deviceIndex, devicesCount, module>> /\ prober.step \in Removal
        BY <3>2 DEF Unload, RemoveNodes, RemoveControl, RemoveLock, RemoveIrq, RemoveDevice, At, Removal
      <4>2. module = "unloading" /\ prober.step # "count"
        BY <4>1 DEF NodeInv, PlaceInv, Removal
      <4>3. prober'.step # "count"
        BY <1>1, <4>1, <4>2 DEF PlaceInv, Probing
      <4>4. QED BY <4>1, <4>2, <4>3
    <3>3. QED BY <1>4, <3>1, <3>2
  <2>2. Counted' = Counted
    BY <2>1 DEF Counted, At
  <2>3. QED BY <1>1, <2>1, <2>2 DEF NodeInv, CountInv
<1>5. QED BY <1>2, <1>3, <1>4

(* What ReadControlMatchDevice can find: the place of a node with the number, *)
(* or, for the number zero, a place of the map that is not in use.            *)
LEMMA MatchPlaces ==
ASSUME NodeInv, Table, deviceIndex \in Nat, NEW ld \in 0 .. devicesCount - 1, NEW m \in Matches(ld), ld # 0
PROVE  m \in Slot \X Local /\ Home(m[1], m[2], ld)
<1>1. /\ m \in Slot \X Local /\ m[1] \in Slot /\ m[2] \in Local /\ m[1] < deviceIndex
      /\ devs[m[1]].map[m[2]] = ld
  BY DEF Matches
<1>2. CASE m[1] < Counted
  BY <1>1, <1>2 DEF Table, Home
<1>3. CASE ~(m[1] < Counted)
  <2>1. At("count") /\ m[1] = Counted
    BY <1>1, <1>3, SlotFacts DEF Counted
  <2>2. IF m[2] < prober.local THEN ld = devicesCount + m[2] ELSE ld = 0
    BY <1>1, <2>1 DEF NodeInv, GrowInv, Numbered, At
  <2>3. QED BY <1>1, <2>2, DriverAssumption DEF Local, NodeInv, PlaceInv
<1>4. QED BY <1>1, <1>2, <1>3

(* The first place has the number zero, and is found first. *)
LEMMA MatchFirst ==
ASSUME Table, CountInv, Counted \in Nat, deviceIndex \in Nat, devicesCount \in Nat, devicesCount > 0,
       Counted <= deviceIndex
PROVE  Match(0) = <<0, 0>> /\ 0 \in Slot /\ 0 \in Local /\ 0 < Counted /\ devs[0].map[0] = 0
<1>1. 0 \in Slot /\ 0 \in Local /\ 0 < Counted
  BY DriverAssumption DEF Slot, Local, CountInv
<1>2. devs[0].map[0] = 0
  BY <1>1 DEF Table
<1>3. <<0, 0>> \in Matches(0)
  BY <1>1, <1>2 DEF Matches
<1>4. \A o \in Matches(0) : o[1] \in Nat /\ o[2] \in Nat /\ o = <<o[1], o[2]>>
  BY DEF Matches, Slot, Local
<1> DEFINE First(m) == \A o \in Matches(0) : m[1] < o[1] \/ (m[1] = o[1] /\ m[2] <= o[2])
<1>5. First(<<0, 0>>)
  BY <1>4
<1>6. \A m \in Matches(0) : First(m) => m = <<0, 0>>
  BY <1>3, <1>4
<1>7. Match(0) = CHOOSE m \in Matches(0) : First(m)
  BY DEF Match
<1> HIDE DEF First
<1>8. QED BY <1>1, <1>2, <1>3, <1>5, <1>6, <1>7

(* The node with a number is found by it. *)
LEMMA MatchHome ==
ASSUME NodeInv, Table, deviceIndex \in Nat, Counted \in Nat, Counted <= deviceIndex,
       NEW s \in Slot, NEW l \in Local, NEW ld \in 0 .. devicesCount - 1, Home(s, l, ld),
       ld # 0 \/ devs[0].devices # -1
PROVE  Match(ld) = <<s, l>>
<1>0. devicesCount \in Nat /\ CountInv
  BY DEF NodeInv, PlaceInv
<1>1. CASE ld = 0
  <2>1. Match(0) = <<0, 0>> /\ 0 \in Slot /\ 0 \in Local /\ 0 < Counted /\ devicesCount > 0
    BY <1>0, <1>1, MatchFirst
  <2>2. Home(0, 0, 0)
    BY <1>1, <2>1 DEF Table, Home
  <2>3. s = 0 /\ l = 0
    BY <1>1, <2>1, <2>2 DEF Table
  <2>4. QED BY <1>1, <2>1, <2>3
<1>2. CASE ld # 0
  <2>1. <<s, l>> \in Matches(ld)
    BY SlotFacts DEF Matches, Home
  <2>2. \A m \in Matches(ld) : m = <<s, l>>
    <3> SUFFICES ASSUME NEW m \in Matches(ld) PROVE m = <<s, l>>
      OBVIOUS
    <3>1. m \in Slot \X Local /\ Home(m[1], m[2], ld)
      BY <1>2, MatchPlaces
    <3>2. m[1] \in Slot /\ m[2] \in Local /\ m = <<m[1], m[2]>>
      BY <3>1
    <3>3. m[1] = s /\ m[2] = l
      BY <3>1, <3>2 DEF Table
    <3>4. QED BY <3>2, <3>3
  <2>3. Matches(ld) = {<<s, l>>}
    BY <2>1, <2>2
  <2>4. \A o \in Matches(ld) : s < o[1] \/ (s = o[1] /\ l <= o[2])
    BY <2>3 DEF Local
  <2>5. QED BY <2>3, <2>4 DEF Match
<1>3. QED BY <1>1, <1>2

(* Nothing else is found by it. *)
LEMMA MatchPlace ==
ASSUME NodeInv, Table, deviceIndex \in Nat, Counted \in Nat, Counted <= deviceIndex,
       NEW ld \in 0 .. devicesCount - 1
PROVE  /\ Match(ld) \in Slot \X Local /\ Matches(ld) # {}
       /\ devs[Match(ld)[1]].map[Match(ld)[2]] = ld
<1>1. PICK s \in Slot, l \in Local : Home(s, l, ld)
  BY DEF Table
<1>2. devicesCount \in Nat /\ CountInv
  BY DEF NodeInv, PlaceInv
<1>3. <<s, l>> \in Matches(ld)
  BY <1>1, SlotFacts DEF Matches, Home
<1>4. CASE ld = 0
  BY <1>2, <1>3, <1>4, MatchFirst
<1>5. CASE ld # 0
  <2>1. Match(ld) = <<s, l>>
    BY <1>1, <1>5, MatchHome
  <2>2. QED BY <1>1, <1>3, <2>1 DEF Home
<1>6. QED BY <1>4, <1>5

-------------------------------------------------------------------------------
(* What was last set for a node is what its input has *)

Counts == deviceIndex \in Nat /\ Counted \in Nat /\ Counted <= deviceIndex /\ Counted <= MaxDevices

WriteInv ==
  /\ DOMAIN written = Node /\ DOMAIN parms = Slot \X Local
  /\ module = "out" => \A ld \in Node : written[ld] = Unset
  /\ expose /\ module \in {"loading", "loaded"} =>
       \A ld \in Node : written[ld] # Unset =>
         /\ ld < devicesCount
         /\ \A s \in Slot, l \in Local :
              Home(s, l, ld) /\ (ld # 0 \/ devs[0].devices # -1) => parms[<<s, l>>] = written[ld]

(* No more boards are counted than have begun a probe, or than there may be. *)
LEMMA CountsFacts ==
ASSUME DriverInv, NodeInv
PROVE  Counts
BY SlotFacts DEF DriverInv, ProbeInv, NodeInv, PlaceInv, Counts, Counted, At

(* Every number in use is one of the numbers there are. *)
LEMMA NumbersAreNodes ==
ASSUME NodeInv, Counts
PROVE  0 .. devicesCount - 1 \subseteq Node
<1>1. /\ Counted \in Nat /\ MaxDevices \in Nat /\ MaxLocal \in Nat /\ devicesCount \in Nat
      /\ devicesCount <= Counted * MaxLocal /\ Counted <= MaxDevices
  BY DriverAssumption DEF NodeInv, CountInv, PlaceInv, Counts
<1>2. Counted * MaxLocal <= MaxDevices * MaxLocal
  <2>1. PICK k \in Nat : MaxDevices = Counted + k
    BY <1>1
  <2>2. (Counted + k) * MaxLocal = Counted * MaxLocal + k * MaxLocal
    BY <1>1
  <2>3. k * MaxLocal \in Nat /\ Counted * MaxLocal \in Nat
    BY <1>1
  <2>4. QED BY <2>1, <2>2, <2>3
<1>3. Counted * MaxLocal \in Nat /\ MaxDevices * MaxLocal \in Nat
  BY <1>1
<1>4. QED BY <1>1, <1>2, <1>3 DEF Node

(* The driver's thread goes on. *)
LEMMA WriteDriverStep ==
ASSUME DriverInv, NodeInv, WriteInv, DriverStep(Load) \/ DriverStep(Exit) \/ DriverStep(Unload)
PROVE  WriteInv'
<1>1. CASE Load /\ UNCHANGED <<parms, written>>
  <2>1. UNCHANGED expose /\ module' \in {"loading", "loaded"} /\ module \in {"out", "loading"}
    BY <1>1 DEF Load, ModuleInit, ProbeAlloc, ProbeRefused, ProbeHardware, CreateControl, ControlReady,
                RegisterNode, ProbeIndexed, ProbeDone, ModuleLoaded, At, NodeInv, PlaceInv, Prepared, Probing
  <2>2. CASE module = "out"
    BY <1>1, <2>1, <2>2 DEF WriteInv
  <2>3. CASE module = "loading"
    <3>1. Table /\ devicesCount \in Nat /\ CountInv /\ Counts
      BY <2>3, CountsFacts DEF NodeInv, PlaceInv
    <3>2. /\ \A s \in Slot, l \in Local, ld \in 0 .. devicesCount - 1 : Home(s, l, ld)' => Home(s, l, ld)
          /\ devicesCount' >= devicesCount /\ devicesCount' \in Nat
          /\ Counted > 0 => devs'[0] = devs[0]
      <4>1. CASE /\ Counted' = Counted /\ UNCHANGED devicesCount
                 /\ \A s \in Slot : s < Counted => devs'[s] = devs[s]
        <5>1. 0 \in Slot
          BY SlotFacts
        <5>2. QED BY <3>1, <4>1, <5>1 DEF Home
      <4>2. CASE /\ At("count") /\ Counted \in Slot /\ Counted' = Counted + 1
                 /\ devicesCount' = devicesCount + prober.local /\ UNCHANGED devs
        <5>1. prober.local \in 0 .. MaxLocal /\ Numbered(devs[Counted], devicesCount, prober.local)
              /\ SlotMap(devs[Counted])
          BY <4>2 DEF NodeInv, GrowInv, At
        <5>2. QED BY <3>1, <4>2, <5>1, TableGrown, DriverAssumption DEF CountInv
      <4>3. QED BY <1>1, <4>1, <4>2, LoadCounts
    <3>3. ASSUME NEW ld \in Node, written[ld] # Unset, expose
          PROVE  /\ ld < devicesCount'
                 /\ \A s \in Slot, l \in Local :
                      Home(s, l, ld)' /\ (ld # 0 \/ devs'[0].devices # -1) => parms[<<s, l>>] = written[ld]
      <4>1. ld < devicesCount /\ ld \in Nat /\ ld \in 0 .. devicesCount - 1
        BY <2>3, <3>1, <3>3 DEF WriteInv, Node
      <4>2. Counted > 0
        BY <3>1, <4>1 DEF CountInv, Counts
      <4>3. \A s \in Slot, l \in Local :
              Home(s, l, ld) /\ (ld # 0 \/ devs[0].devices # -1) => parms[<<s, l>>] = written[ld]
        BY <2>3, <3>3 DEF WriteInv
      <4>4. devs'[0] = devs[0] /\ ld < devicesCount'
        BY <3>1, <3>2, <4>1, <4>2
      <4>5. QED BY <3>2, <4>1, <4>3, <4>4
    <3>4. QED BY <1>1, <2>1, <2>3, <3>3 DEF WriteInv
  <2>4. QED BY <2>1, <2>2, <2>3
<1>2. CASE /\ module' = "out"
           /\ parms' = [n \in Input |-> Unset] /\ written' = [n \in Node |-> Unset]
  BY <1>2 DEF WriteInv, Input
<1>3. CASE module' = "unloading" /\ UNCHANGED <<parms, written>>
  BY <1>3 DEF WriteInv
<1>4. CASE DriverStep(Load)
  <2>1. module' # "out"
    BY <1>4 DEF DriverStep, Load, ModuleInit, ProbeAlloc, ProbeRefused, ProbeHardware, CreateControl,
                ControlReady, RegisterNode, ProbeIndexed, ProbeDone, ModuleLoaded, At, NodeInv, PlaceInv,
                Prepared, Probing
  <2>2. QED BY <1>1, <1>4, <2>1 DEF DriverStep
<1>5. CASE DriverStep(Exit)
  BY <1>3, <1>5 DEF DriverStep, Exit, ModuleExit
<1>6. CASE DriverStep(Unload)
  <2>1. module = "unloading"
    BY <1>6 DEF DriverStep, Unload, RemoveNodes, RemoveControl, RemoveLock, RemoveIrq, RemoveDevice,
                ModuleOut, At, NodeInv, PlaceInv, Removal
  <2>2. module' \in {"unloading", "out"}
    BY <1>6, <2>1 DEF DriverStep, Unload, RemoveNodes, RemoveControl, RemoveLock, RemoveIrq, RemoveDevice,
                ModuleOut
  <2>3. QED BY <1>2, <1>3, <1>6, <2>1, <2>2 DEF DriverStep
<1>7. QED BY <1>4, <1>5, <1>6

(* An application sets the parameters of a node. *)
LEMMA SetStep ==
ASSUME DriverInv, NodeInv, WriteInv, NEW c \in Clients, NEW ld \in Node, NEW v \in Values,
       SetDeviceParms(c, ld, v)
PROVE  WriteInv'
<1>1. UNCHANGED driverVars /\ Counts
  BY CountsFacts DEF SetDeviceParms
<1>2. UNCHANGED <<expose, devs, deviceIndex, devicesCount, module, prober>>
  BY <1>1 DEF driverVars
<1>3. \A s, l, n : Home(s, l, n)' <=> Home(s, l, n)
  BY <1>2 DEF Home, Counted, At
<1>4. CASE UNCHANGED <<parms, written>>
  BY <1>2, <1>3, <1>4 DEF WriteInv
<1>5. CASE /\ parms' = [parms EXCEPT ![Target(ld)] = v]
           /\ written' = [written EXCEPT ![ld] = v]
  <2>1. DOMAIN written' = DOMAIN written /\ DOMAIN parms' = DOMAIN parms
    BY <1>5
  <2>2. ld \in Exposed
    BY DEF SetDeviceParms
  <2>3. module # "out"
    BY <2>2 DEF Exposed, NodeInv, PlaceInv
  <2>4. ASSUME expose, module \in {"loading", "loaded"}, NEW n \in Node, written'[n] # Unset
        PROVE  /\ n < devicesCount
               /\ \A s \in Slot, l \in Local :
                    Home(s, l, n) /\ (n # 0 \/ devs[0].devices # -1) => parms'[<<s, l>>] = written'[n]
    <3>1. ld \in 0 .. devicesCount - 1 /\ Table /\ Target(ld) = Match(ld)
      BY <2>2, <2>4 DEF Exposed, NodeInv, Target
    <3>2. Match(ld) \in Slot \X Local /\ devs[Match(ld)[1]].map[Match(ld)[2]] = ld
      BY <1>1, <3>1, MatchPlace DEF Counts
    <3>3. CASE n = ld
      <4>1. ld < devicesCount /\ written'[n] = v /\ parms'[Match(ld)] = v
        BY <1>5, <3>1, <3>2, <3>3 DEF WriteInv, NodeInv, PlaceInv
      <4>2. \A s \in Slot, l \in Local :
              Home(s, l, n) /\ (n # 0 \/ devs[0].devices # -1) => Match(ld) = <<s, l>>
        BY <1>1, <3>1, <3>3, MatchHome DEF Counts
      <4>3. QED BY <3>3, <4>1, <4>2
    <3>4. CASE n # ld
      <4>1. written'[n] = written[n] /\ written[n] # Unset /\ n < devicesCount
        BY <1>5, <2>4, <3>4 DEF WriteInv
      <4>2. ASSUME NEW s \in Slot, NEW l \in Local, Home(s, l, n) PROVE parms'[<<s, l>>] = parms[<<s, l>>]
        <5>1. <<s, l>> # Match(ld)
          BY <3>2, <3>4, <4>2 DEF Home
        <5>2. QED BY <1>5, <3>1, <5>1 DEF WriteInv
      <4>3. QED BY <2>4, <4>1, <4>2 DEF WriteInv
    <3>5. QED BY <3>3, <3>4
  <2>5. QED BY <1>2, <1>3, <2>1, <2>3, <2>4 DEF WriteInv
<1>6. QED BY <1>4, <1>5 DEF SetDeviceParms

(* What else there is changes neither numbers nor settings. *)
LEMMA WriteOther ==
ASSUME NodeInv, WriteInv, UNCHANGED <<driverVars, parms, written>>
PROVE  WriteInv'
<1>1. UNCHANGED <<expose, devs, deviceIndex, devicesCount, module, prober>>
  BY DEF driverVars
<1>2. \A s, l, n : Home(s, l, n)' <=> Home(s, l, n)
  BY <1>1 DEF Home, Counted, At
<1>3. QED BY <1>1, <1>2 DEF WriteInv

(* The numbers do not depend on what the applications do. *)
LEMMA NodeOther ==
ASSUME NodeInv, UNCHANGED driverVars
PROVE  NodeInv'
<1>1. UNCHANGED <<expose, devs, deviceIndex, devicesCount, module, prober>>
  BY DEF driverVars
<1>2. Counted' = Counted /\ \A s, l, n : Home(s, l, n)' <=> Home(s, l, n)
  BY <1>1 DEF Home, Counted, At
<1>3. PlaceInv' /\ GrowInv' /\ CountInv' /\ (Table => Table')
  BY <1>1, <1>2 DEF NodeInv, PlaceInv, GrowInv, CountInv, Table, Counted, At, Me
<1>4. QED BY <1>1, <1>3 DEF NodeInv

(* Where an application's call leads to a node, what was set for it is there. *)
LEMMA FoundInv ==
ASSUME DriverInv, NodeInv, WriteInv
PROVE  NodesFound
<1> SUFFICES ASSUME expose, module \in {"loading", "loaded"}, NEW ld \in Exposed,
                    ~(ld = 0 /\ devs[0].devices = -1)
             PROVE  /\ Matches(ld) # {}
                    /\ Match(ld)[2] \in devs[Match(ld)[1]].up
                    /\ written[ld] # Unset => parms[Match(ld)] = written[ld]
  BY DEF NodesFound
<1>1. Table /\ Counts /\ ld \in 0 .. devicesCount - 1 /\ ld \in Node
  BY CountsFacts, NumbersAreNodes DEF NodeInv, Exposed
<1>2. PICK s \in Slot, l \in Local : Home(s, l, ld)
  BY <1>1 DEF Table
<1>3. Match(ld) = <<s, l>> /\ Matches(ld) # {}
  BY <1>1, <1>2, MatchHome, MatchPlace DEF Counts
<1>4. QED BY <1>1, <1>2, <1>3 DEF Home, WriteInv

(* At first no node is given out and nothing was written to one. *)
LEMMA InitNodes ==
ASSUME Init
PROVE  NodeInv /\ WriteInv
<1>1. /\ devs = [s \in Slot |-> Blank] /\ prober.step = "idle" /\ deviceIndex = 0 /\ devicesCount = 0
      /\ module = "out" /\ expose \in BOOLEAN
      /\ parms = [n \in Input |-> Unset] /\ written = [n \in Node |-> Unset]
  BY DriverAssumption DEF Init, DriverInit, Idle
<1>2. Counted = 0 /\ \A s \in Slot : ~(s < 0) /\ SlotMap(devs[s])
  <2>1. Counted = 0
    BY <1>1 DEF Counted, At
  <2>2. ASSUME NEW s \in Slot PROVE ~(s < 0) /\ devs[s] = Blank
    BY <1>1, SlotFacts
  <2>3. QED BY <2>1, <2>2, BlankMaps
<1>3. PlaceInv /\ GrowInv /\ CountInv /\ Table
  BY <1>1, <1>2, DriverAssumption
     DEF PlaceInv, GrowInv, CountInv, Table, Prepared, Probing, Removal
<1>4. WriteInv
  BY <1>1 DEF WriteInv, Input
<1>5. QED BY <1>2, <1>3, <1>4 DEF NodeInv

(* Every number an application may use leads to a registered node, and what *)
(* was last set for a node is what its input has, at every moment of a      *)
(* probe, whichever of its steps fail.                                      *)
THEOREM EveryNodeFound == Spec => []NodesFound
<1> DEFINE Inv == DriverInv /\ NodeInv /\ WriteInv
<1>1. Init => Inv
  BY InitDriver, InitNodes
<1>2. Inv /\ [Next]_vars => Inv'
  <2> SUFFICES ASSUME DriverInv, NodeInv, WriteInv, [Next]_vars PROVE Inv'
    OBVIOUS
  <2>1. DriverInv'
    BY DriverKept
  <2>2. CASE DriverStep(Load) \/ DriverStep(Exit) \/ DriverStep(Unload)
    <3>1. Load \/ Unload \/ ModuleExit
      BY <2>2 DEF DriverStep, Exit
    <3>2. QED BY <2>1, <2>2, <3>1, NodeStep, WriteDriverStep
  <2>3. ASSUME NEW c \in Clients, NEW ld \in Node, NEW v \in Values, SetDeviceParms(c, ld, v) PROVE Inv'
    <3>1. UNCHANGED driverVars
      BY <2>3 DEF SetDeviceParms
    <3>2. QED BY <2>1, <2>3, <3>1, NodeOther, SetStep
  <2>4. CASE UNCHANGED <<driverVars, parms, written>>
    BY <2>1, <2>4, NodeOther, WriteOther
  <2>5. QED BY <2>2, <2>3, <2>4, StepKinds
<1>3. Inv => NodesFound
  BY FoundInv
<1>4. QED BY <1>1, <1>2, <1>3, PTL DEF Spec

-------------------------------------------------------------------------------
(* Changes are signalled *)

(* Once a board has its memory its probe fails only before there is a control *)
(* device: the boards that fail later take their extension with them, and the *)
(* events of their inputs.                                                    *)
FailsEarly ==
  \A b \in Bus : /\ <<b, "register">> \notin Failing
                 /\ b # 1 => <<b, "hardware">> \notin Failing /\ <<b, "irq">> \notin Failing

OpenOnes == {c \in Clients : IsOpen(c)}

(* When there is a control device, and which slots have an extension *)
StepInv ==
  /\ prober.step \in Probing => prober.board \in Nat /\ deviceIndex <= prober.board
  /\ prober.step \in Probing \ {"count"} => deviceIndex < prober.board
  /\ prober.step \in {"control", "controldata"} => deviceIndex = 0
  /\ module = "loading" /\ deviceIndex = 0 /\ prober.step \notin {"controldata", "nodes"} =>
       ctrl.node = "none"
  /\ module = "out" => ctrl.node = "none"
  /\ \A s \in Slot : devs[s].pDE = "live" =>
       s < deviceIndex \/ (s = deviceIndex /\ prober.step \in Prepared \cup {"nodes"})

KindInv ==
  /\ module \in {"out", "loading", "loaded", "unloading"}
  /\ ctrl.node \in {"none", "registered", "ready"} /\ ctrl.made \in Nat

(* The handles that are open are counted, and only of a device that is there. *)
ClientFields == {"pc", "slot", "ch", "head", "hit", "at"}
OpenInv ==
  /\ DOMAIN client = Clients /\ \A c \in Clients : DOMAIN client[c] = ClientFields
  /\ users = Cardinality(OpenOnes)
  /\ OpenOnes # {} => ctrl.node = "ready" /\ module \in {"loading", "loaded"}

SignalInv ==
  /\ DOMAIN known = Input /\ DOMAIN version = Input
  /\ \A n \in flags : n[1] \in Slot /\ devs[n[1]].pDE = "live"
  /\ \A n \in Input : users > 0 /\ known[n] # version[n] =>
       n \in flags \/ \E c \in Clients : client[c].pc = "look" /\ client[c].at = n

(* A node more leaves the extension as it is. *)
LEMMA RegisterKeeps ==
ASSUME DriverInv, RegisterNode, <<prober.board, "register">> \notin Failing, Me \in Slot
PROVE  devs'[Me].pDE = devs[Me].pDE /\ prober'.step = "nodes"
<1>1. DOMAIN devs = Slot /\ DOMAIN devs[Me] = SlotFields /\ DOMAIN prober = {"step", "board", "local"}
  BY DEF DriverInv, Shapes, BaseInv, SlotInv
<1> DEFINE n == OverrideDevices(Machine[prober.board], expose)
           l == prober.local
           d == [devs[Me] EXCEPT !.devices = n, !.up = @ \cup {l}, !.map = [@ EXCEPT ![l] = devicesCount + l]]
<1>2. devs' = [devs EXCEPT ![Me].devices = n, ![Me].up = @ \cup {l}, ![Me].map[l] = devicesCount + l]
  BY DEF RegisterNode, May
<1>3. devs' = [devs EXCEPT ![Me] = d]
  BY <1>1, <1>2 DEF SlotFields
<1>4. d.pDE = devs[Me].pDE
  BY <1>1 DEF SlotFields
<1> HIDE DEF d
<1>5. prober'.step = "nodes"
  BY <1>1 DEF RegisterNode, May, At
<1>6. QED BY <1>1, <1>3, <1>4, <1>5

(* The steps of the driver's thread as it removes boards *)
LEMMA UnloadSteps ==
ASSUME DriverInv, NodeInv, Unload \/ ModuleExit
PROVE  /\ prober'.step \notin Probing /\ prober.step \notin Probing
       /\ \A s \in Slot : devs'[s].pDE = "live" => devs[s].pDE = "live"
       /\ UNCHANGED deviceIndex \/ module' = "out"
       /\ module' = "unloading" \/ (module' = "out" /\ ctrl' = NoControl)
<1>1. Shapes /\ PlaceInv /\ \A s \in Slot : DOMAIN devs[s] = SlotFields
  BY DEF DriverInv, NodeInv, BaseInv, SlotInv
<1>2. CASE ModuleExit
  <2>1. prober.step \notin Probing
    BY <1>1, <1>2 DEF ModuleExit, PlaceInv
  <2>2. QED BY <1>2, <2>1 DEF ModuleExit, Prepared, Probing
<1>3. CASE ModuleOut
  BY <1>3 DEF ModuleOut, At, Idle, Prepared, Probing, Blank
<1>4. CASE RemoveNodes \/ RemoveControl \/ RemoveLock \/ RemoveIrq \/ RemoveDevice
  <2>1. prober.step \in Removal /\ UNCHANGED <<deviceIndex, module>>
    BY <1>4 DEF RemoveNodes, RemoveControl, RemoveLock, RemoveIrq, RemoveDevice, At, Removal
  <2>2. prober'.step \in Removal
    <3>1. CASE RemoveNodes \/ RemoveControl \/ RemoveLock
      BY <1>1, <3>1 DEF RemoveNodes, RemoveControl, RemoveLock, Shapes, Removal
    <3>2. CASE RemoveIrq \/ RemoveDevice
      BY <1>1, <3>2 DEF RemoveIrq, RemoveDevice, Shapes, Removal
    <3>3. QED BY <1>4, <3>1, <3>2
  <2>3. ASSUME NEW s \in Slot, devs'[s].pDE = "live" PROVE devs[s].pDE = "live"
    <3>1. CASE RemoveNodes \/ RemoveControl \/ RemoveLock
      BY <1>1, <2>3, <3>1 DEF RemoveNodes, RemoveControl, RemoveLock, Shapes, SlotFields
    <3>2. CASE RemoveIrq
      BY <1>1, <2>3, <3>2 DEF RemoveIrq, Shapes, SlotFields
    <3>3. CASE RemoveDevice
      BY <1>1, <2>3, <3>3 DEF RemoveDevice, Shapes, SlotFields
    <3>4. QED BY <1>4, <3>1, <3>2, <3>3
  <2>4. QED BY <1>1, <2>1, <2>2, <2>3 DEF PlaceInv, Removal, Prepared, Probing
<1>5. QED BY <1>2, <1>3, <1>4 DEF Unload

(* The driver's thread goes on: without failures of later boards there is *)
(* always an extension where there was one, until the module is removed.  *)
LEMMA LiveKept ==
ASSUME FailsEarly, DriverInv, NodeInv, StepInv, Load, ctrl.node = "ready",
       NEW s \in Slot, devs[s].pDE = "live"
PROVE  devs'[s].pDE = "live"
<1>1. /\ s < deviceIndex \/ (s = deviceIndex /\ prober.step \in Prepared \cup {"nodes"})
      /\ deviceIndex \in Nat /\ s \in Nat /\ DOMAIN devs = Slot /\ DOMAIN devs[s] = SlotFields
  BY SlotFacts DEF StepInv, DriverInv, ProbeInv, Shapes, BaseInv, SlotInv
<1>2. CASE s # Me
  BY <1>2, LoadChanges
<1>3. CASE s = Me
  <2>1. prober.step \in Prepared \cup {"nodes"} /\ module = "loading" /\ prober.board \in Bus
    BY <1>1, <1>3 DEF Me, NodeInv, PlaceInv, Probing
  <2>2. CASE ProbeHardware
    <3>1. prober.step = "hardware" /\ deviceIndex < prober.board
      BY <2>1, <2>2 DEF ProbeHardware, At, StepInv, Probing, Prepared
    <3>2. prober.board # 1
      BY <1>1, <2>1, <3>1 DEF StepInv
    <3>3. devs' = [devs EXCEPT ![Me].irq = TRUE, ![Me].lock = TRUE]
      BY <2>1, <2>2, <3>2 DEF ProbeHardware, FailsEarly, May
    <3>4. QED BY <1>1, <1>3, <3>3 DEF SlotFields
  <2>3. CASE CreateControl
    BY <2>1, <2>3 DEF CreateControl, At, StepInv
  <2>4. CASE ControlReady \/ ProbeIndexed
    BY <2>4 DEF ControlReady, ProbeIndexed
  <2>5. CASE RegisterNode
    <3>1. devs'[Me].pDE = devs[Me].pDE
      BY <1>1, <1>3, <2>1, <2>5, RegisterKeeps DEF FailsEarly
    <3>2. QED BY <1>3, <3>1
  <2>6. QED BY <2>1, <2>2, <2>3, <2>4, <2>5
            DEF Load, ModuleInit, ProbeAlloc, ProbeRefused, ProbeDone, ModuleLoaded, At, Prepared
<1>4. QED BY <1>2, <1>3

(* What its steps need and leave *)
LEMMA StepStep ==
ASSUME FailsEarly, DriverInv, NodeInv, StepInv, Load \/ Unload \/ ModuleExit
PROVE  StepInv'
<1>1. Shapes /\ PlaceInv /\ deviceIndex \in Nat /\ \A s \in Slot : DOMAIN devs[s] = SlotFields
  BY SlotFacts DEF DriverInv, ProbeInv, NodeInv, BaseInv, SlotInv
<1> DEFINE LiveSlots == \A s \in Slot : devs[s].pDE = "live" =>
             s < deviceIndex \/ (s = deviceIndex /\ prober.step \in Prepared \cup {"nodes"})
           Order == /\ prober.step \in Probing => prober.board \in Nat /\ deviceIndex <= prober.board
                    /\ prober.step \in Probing \ {"count"} => deviceIndex < prober.board
                    /\ prober.step \in {"control", "controldata"} => deviceIndex = 0
           Created == /\ module = "loading" /\ deviceIndex = 0 /\ prober.step \notin {"controldata", "nodes"} =>
                           ctrl.node = "none"
                      /\ module = "out" => ctrl.node = "none"
<1>2. LiveSlots /\ Order /\ Created
  BY DEF StepInv
<1>3. CASE ModuleInit
  <2>1. Order' /\ Created'
    BY <1>1, <1>2, <1>3 DEF ModuleInit, PlaceInv, Probing
  <2>2. LiveSlots'
    BY <1>1, <1>2, <1>3 DEF ModuleInit, PlaceInv, Probing, Prepared
  <2>3. QED BY <2>1, <2>2 DEF StepInv
<1>4. CASE ModuleLoaded
  <2>1. prober'.step = "idle" /\ prober.step = "probe" /\ module' = "loaded"
        /\ UNCHANGED <<devs, deviceIndex, ctrl>>
    BY <1>4 DEF ModuleLoaded, Idle, At
  <2>2. QED BY <1>2, <2>1 DEF StepInv, Probing, Prepared
<1>5. CASE ProbeAlloc \/ ProbeRefused
  <2>1. /\ prober.step = "probe" /\ module = "loading" /\ prober.board \in Nat /\ deviceIndex < prober.board
        /\ UNCHANGED <<deviceIndex, ctrl, module>>
    BY <1>1, <1>2, <1>5 DEF ProbeAlloc, ProbeRefused, At, PlaceInv, Probing
  <2>2. CASE prober'.step = "probe" /\ prober'.board = prober.board + 1
             /\ (UNCHANGED devs \/ devs' = [devs EXCEPT ![Me] = Blank])
    <3>1. LiveSlots'
      BY <1>1, <1>2, <2>1, <2>2 DEF Prepared, Shapes, Blank
    <3>2. Order' /\ Created'
      BY <1>1, <1>2, <2>1, <2>2 DEF Probing
    <3>3. QED BY <3>1, <3>2 DEF StepInv
  <2>3. CASE /\ devs' = [devs EXCEPT ![Me] = [Blank EXCEPT !.board = prober.board, !.pDE = "live"]]
             /\ prober' = [prober EXCEPT !.step = "hardware"]
    <3>1. prober'.step = "hardware" /\ prober'.board = prober.board
      BY <1>1, <2>3 DEF Shapes
    <3>2. \A s \in Slot : s # deviceIndex => devs'[s] = devs[s]
      BY <1>1, <2>3 DEF Shapes, Me
    <3>3. LiveSlots'
      BY <1>1, <1>2, <2>1, <3>1, <3>2 DEF Prepared
    <3>4. Order' /\ Created'
      BY <1>1, <1>2, <2>1, <3>1 DEF Probing
    <3>5. QED BY <3>3, <3>4 DEF StepInv
  <2>4. QED BY <1>5, <2>2, <2>3 DEF ProbeAlloc, ProbeRefused, NextBoard
<1>6. CASE ProbeHardware \/ CreateControl \/ ControlReady \/ RegisterNode
  <2>1. /\ prober.step \in Prepared \cup {"nodes"} /\ module = "loading" /\ prober.board \in Bus
        /\ deviceIndex < prober.board /\ prober.board \in Nat /\ UNCHANGED <<deviceIndex, module>>
        /\ Me \in Slot
    BY <1>1, <1>2, <1>6, SlotFacts DEF ProbeHardware, CreateControl, ControlReady, RegisterNode, At, PlaceInv,
                                       Probing, Prepared, DriverInv, ProbeInv, Me
  <2>2. \A s \in Slot : s # deviceIndex => devs'[s] = devs[s]
    BY <1>6, LoadChanges DEF Load, Me
  <2>3. CASE Unwind /\ ctrl'.node = "none"
    <3>1. prober'.step = "probe" /\ prober'.board = prober.board + 1
      BY <2>3 DEF Unwind, NextBoard
    <3>2. devs'[Me].pDE = "freed"
      BY <1>1, <2>1, <2>3 DEF Unwind, Released, Shapes, SlotFields
    <3>3. LiveSlots'
      BY <1>2, <2>1, <2>2, <3>1, <3>2 DEF Me, Prepared
    <3>4. Order' /\ Created'
      BY <1>1, <1>2, <2>1, <2>3, <3>1 DEF Probing
    <3>5. QED BY <3>3, <3>4 DEF StepInv
  <2>4. CASE /\ prober'.board = prober.board
             /\ prober'.step \in {"controldata", "nodes"}
                \/ (prober'.step = "control" /\ deviceIndex = 0 /\ ctrl'.node = "none")
             /\ prober'.step \in {"control", "controldata"} => deviceIndex = 0
    <3>1. LiveSlots'
      BY <1>2, <2>1, <2>2, <2>4 DEF Prepared
    <3>2. Order' /\ Created'
      BY <1>1, <1>2, <2>1, <2>4 DEF Probing
    <3>3. QED BY <3>1, <3>2 DEF StepInv
  <2>5. CASE ProbeHardware
    <3>1. prober.step = "hardware" /\ UNCHANGED ctrl /\ (deviceIndex = 0 => ctrl.node = "none")
      BY <1>2, <2>1, <2>5 DEF ProbeHardware, At
    <3>2. CASE Unwind
      <4>1. CASE prober.board = 1
        BY <1>1, <2>1, <2>3, <3>1, <3>2, <4>1
      <4>2. CASE prober' = [prober EXCEPT !.step = IF deviceIndex = 0 THEN "control" ELSE "nodes"]
        <5>1. prober'.step \in {"control", "nodes"}
          BY <1>1, <4>2 DEF Shapes
        <5>2. prober'.step = "probe"
          BY <3>2, NextBoardFacts DEF Unwind, DriverInv
        <5>3. QED BY <5>1, <5>2
      <4>3. CASE May(prober.board, "hardware") \/ May(prober.board, "irq")
        BY <2>1, <4>1, <4>3 DEF FailsEarly, May
      <4>4. QED BY <2>5, <4>2, <4>3 DEF ProbeHardware
    <3>3. CASE prober' = [prober EXCEPT !.step = IF deviceIndex = 0 THEN "control" ELSE "nodes"]
      BY <1>1, <2>4, <3>1, <3>3 DEF Shapes
    <3>4. QED BY <2>5, <3>2, <3>3 DEF ProbeHardware, Unwind
  <2>6. CASE CreateControl
    <3>1. prober.step = "control" /\ deviceIndex = 0 /\ ctrl.node = "none"
      BY <1>2, <2>1, <2>6 DEF CreateControl, At
    <3>2. CASE ctrl' = [ctrl EXCEPT !.lock = TRUE] /\ Unwind
      <4>1. ctrl'.node = "none"
        BY <1>1, <3>1, <3>2 DEF Shapes
      <4>2. QED BY <2>3, <3>2, <4>1
    <3>3. CASE prober' = [prober EXCEPT !.step = "controldata"]
      BY <1>1, <2>4, <3>1, <3>3 DEF Shapes
    <3>4. QED BY <2>6, <3>2, <3>3 DEF CreateControl
  <2>7. CASE ControlReady
    <3>1. prober' = [prober EXCEPT !.step = "nodes"]
      BY <2>7 DEF ControlReady
    <3>2. QED BY <1>1, <2>4, <3>1 DEF Shapes
  <2>8. CASE RegisterNode
    <3>1. prober'.step = "nodes"
      BY <2>1, <2>8, RegisterKeeps DEF FailsEarly
    <3>2. prober'.board = prober.board
      BY <1>1, <2>1, <2>8 DEF RegisterNode, FailsEarly, May, Shapes
    <3>3. QED BY <2>4, <3>1, <3>2
  <2>9. QED BY <1>6, <2>5, <2>6, <2>7, <2>8
<1>7. CASE ProbeIndexed
  <2>1. /\ prober.step = "nodes" /\ prober'.step = "count" /\ prober'.board = prober.board
        /\ deviceIndex' = deviceIndex + 1 /\ UNCHANGED <<devs, ctrl, module>>
    BY <1>1, <1>7 DEF ProbeIndexed, At, Shapes
  <2>2. LiveSlots'
    BY <1>1, <1>2, <2>1, SlotFacts DEF Prepared
  <2>3. Order' /\ Created'
    BY <1>1, <1>2, <2>1 DEF Probing, PlaceInv
  <2>4. QED BY <2>2, <2>3 DEF StepInv
<1>8. CASE ProbeDone
  <2>1. /\ prober.step = "count" /\ prober'.step = "probe" /\ prober'.board = prober.board + 1
        /\ deviceIndex > 0 /\ UNCHANGED <<deviceIndex, devs, ctrl, module>>
    BY <1>1, <1>8 DEF ProbeDone, At, NextBoard, PlaceInv
  <2>2. LiveSlots' /\ Order' /\ Created'
    BY <1>1, <1>2, <2>1 DEF Prepared, Probing, PlaceInv
  <2>3. QED BY <2>2 DEF StepInv
<1>9. CASE ModuleOut
  BY <1>9 DEF ModuleOut, StepInv, Idle, NoControl, Blank, Prepared, Probing
<1>10. CASE (Unload /\ ~ModuleOut) \/ ModuleExit
  <2>1. /\ prober'.step \notin Probing /\ prober.step \notin Probing
        /\ \A s \in Slot : devs'[s].pDE = "live" => devs[s].pDE = "live"
    BY <1>10, UnloadSteps
  <2>2. UNCHANGED deviceIndex /\ module' = "unloading"
    <3>1. CASE ModuleExit
      BY <3>1 DEF ModuleExit
    <3>2. CASE Unload /\ ~ModuleOut
      BY <1>1, <3>2 DEF Unload, RemoveNodes, RemoveControl, RemoveLock, RemoveIrq, RemoveDevice, At, Removal,
                        PlaceInv
    <3>3. QED BY <1>10, <3>1, <3>2
  <2>3. LiveSlots' /\ Order' /\ Created'
    BY <1>2, <2>1, <2>2 DEF Removal, Prepared, Probing
  <2>4. QED BY <2>3 DEF StepInv
<1>11. QED BY <1>3, <1>4, <1>5, <1>6, <1>7, <1>8, <1>9, <1>10 DEF Load

(* A step keeps the stages of the module and of the control node. *)
LEMMA KindStep ==
ASSUME DriverInv, KindInv, [Next]_vars
PROVE  KindInv'
<1>1. DOMAIN ctrl = {"node", "lock", "made"}
  BY DEF DriverInv, Shapes
<1>2. CASE UNCHANGED driverVars
  BY <1>2 DEF KindInv, driverVars
<1>3. CASE ModuleInit \/ ModuleLoaded \/ ModuleExit \/ ModuleOut
  BY <1>3 DEF KindInv, ModuleInit, ModuleLoaded, ModuleExit, ModuleOut, NoControl
<1>4. CASE ProbeAlloc \/ ProbeRefused \/ ProbeHardware \/ RegisterNode \/ ProbeIndexed \/ ProbeDone
  BY <1>4 DEF KindInv, ProbeAlloc, ProbeRefused, ProbeHardware, RegisterNode, ProbeIndexed, ProbeDone
<1>5. CASE CreateControl \/ ControlReady \/ RemoveControl
  <2>1. module' = module /\ ctrl'.node \in {ctrl.node, "registered", "ready", "none"}
        /\ ctrl'.made \in {ctrl.made, ctrl.made + 1}
    <3>1. CASE CreateControl
      BY <1>1, <3>1 DEF CreateControl
    <3>2. CASE ControlReady \/ RemoveControl
      BY <1>1, <3>2 DEF ControlReady, RemoveControl
    <3>3. QED BY <1>5, <3>1, <3>2
  <2>2. QED BY <2>1 DEF KindInv
<1>6. CASE RemoveNodes \/ RemoveLock \/ RemoveIrq \/ RemoveDevice
  BY <1>6 DEF KindInv, RemoveNodes, RemoveLock, RemoveIrq, RemoveDevice
<1>7. QED BY <1>2, <1>3, <1>4, <1>5, <1>6, DriverStepOrNot DEF Load, Unload

(* A handle that goes on with a call stays open, and no other changes. *)
Ongoing(c) == PollStart(c) \/ PollLook(c) \/ PollAppend(c) \/ PollEnd(c) \/ ReadTest(c) \/ ReadTake(c) \/ Look(c)

(* A step inside a call of a client changes no other client and no board. *)
LEMMA OngoingFacts ==
ASSUME OpenInv, NEW c \in Clients, Ongoing(c)
PROVE  /\ DOMAIN client' = Clients /\ \A d \in Clients : d # c => client'[d] = client[d]
       /\ DOMAIN client'[c] = ClientFields /\ client'[c].pc # "closed" /\ client[c].pc # "closed"
       /\ UNCHANGED <<module, ctrl, devs, users, version>>
<1>1. DOMAIN client = Clients /\ DOMAIN client[c] = ClientFields
  BY DEF OpenInv
<1>2. UNCHANGED <<driverVars, users, version>>
  BY DEF Ongoing, PollStart, PollLook, PollAppend, PollEnd, ReadTest, ReadTake, Look
<1>3. UNCHANGED <<module, ctrl, devs, users, version>>
  BY <1>2 DEF driverVars
<1>4. CASE PollStart(c)
  BY <1>1, <1>3, <1>4 DEF PollStart, Closed, ClientFields
<1>5. CASE PollLook(c)
  <2>1. client[c].pc = "scan"
    BY <1>5 DEF PollLook
  <2>2. \/ UNCHANGED client
        \/ \E s : client' = [client EXCEPT ![c] = [client[c] EXCEPT !.slot = s, !.ch = 0]]
        \/ \E j : client' = [client EXCEPT ![c] = [client[c] EXCEPT !.ch = j]]
        \/ \E h : client' = [client EXCEPT ![c] = [client[c] EXCEPT !.pc = "append", !.head = h]]
    BY <1>1, <1>5 DEF PollLook
  <2>3. QED BY <1>1, <1>3, <2>1, <2>2 DEF ClientFields
<1>6. CASE PollAppend(c)
  <2>1. client' = [client EXCEPT ![c] = [client[c] EXCEPT !.pc = "scan", !.ch = client[c].ch + 1, !.hit = TRUE]]
    BY <1>1, <1>6 DEF PollAppend, ClientFields
  <2>2. QED BY <1>1, <1>3, <1>6, <2>1 DEF PollAppend, ClientFields
<1>7. CASE PollEnd(c) \/ ReadTest(c)
  BY <1>1, <1>3, <1>7 DEF PollEnd, ReadTest, Do, ClientFields
<1>8. CASE ReadTake(c)
  BY <1>1, <1>3, <1>8 DEF ReadTake, ClientFields
<1>9. CASE Look(c)
  BY <1>1, <1>3, <1>9 DEF Look, Closed, ClientFields
<1>10. QED BY <1>4, <1>5, <1>6, <1>7, <1>8, <1>9 DEF Ongoing

(* The count of open handles *)
LEMMA OpenStep ==
ASSUME IsFiniteSet(Clients), FailsEarly, DriverInv, NodeInv, StepInv, KindInv, OpenInv, [Next]_vars
PROVE  OpenInv'
<1>1. IsFiniteSet(OpenOnes)
  BY FS_Subset DEF OpenOnes
<1>2. users = Cardinality(OpenOnes) /\ DOMAIN client = Clients
      /\ \A c \in Clients : DOMAIN client[c] = ClientFields
  BY DEF OpenInv
<1>3. ASSUME NEW c \in Clients, Ongoing(c) PROVE OpenInv'
  <2>1. OpenOnes' = OpenOnes
    BY <1>3, OngoingFacts DEF OpenOnes, IsOpen
  <2>2. QED BY <1>3, <2>1, OngoingFacts DEF OpenInv
<1>4. ASSUME NEW c \in Clients, Open(c) PROVE OpenInv'
  <2>1. UNCHANGED <<module, ctrl>> /\ c \notin OpenOnes
    BY <1>4 DEF Open, driverVars, OpenOnes
  <2>2. CASE UNCHANGED <<users, client>>
    BY <2>1, <2>2 DEF OpenInv, OpenOnes, IsOpen
  <2>3. CASE /\ ctrl.node # "registered" /\ users' = users + 1
             /\ client' = [client EXCEPT ![c] = [Closed EXCEPT !.pc = "idle"]]
    <3>1. /\ DOMAIN client' = Clients /\ \A d \in Clients : d # c => client'[d] = client[d]
          /\ DOMAIN client'[c] = ClientFields /\ client'[c].pc = "idle"
      BY <1>2, <2>3 DEF Closed, ClientFields
    <3>2. OpenOnes' = OpenOnes \cup {c}
      BY <3>1 DEF OpenOnes, IsOpen
    <3>3. Cardinality(OpenOnes \cup {c}) = Cardinality(OpenOnes) + 1
      BY <1>1, <2>1, FS_AddElement
    <3>4. ctrl.node = "ready" /\ module \in {"loading", "loaded"}
      BY <1>4, <2>3 DEF Open, StepInv, KindInv
    <3>5. QED BY <1>2, <2>1, <2>3, <3>1, <3>2, <3>3, <3>4 DEF OpenInv
  <2>4. QED BY <1>4, <2>2, <2>3 DEF Open
<1>5. ASSUME NEW c \in Clients, Close(c) PROVE OpenInv'
  <2>1. UNCHANGED <<module, ctrl>> /\ c \in OpenOnes /\ users' = users - 1
    BY <1>5 DEF Close, driverVars, OpenOnes, IsOpen
  <2>2. /\ DOMAIN client' = Clients /\ \A d \in Clients : d # c => client'[d] = client[d]
        /\ DOMAIN client'[c] = ClientFields /\ client'[c].pc = "closed"
    BY <1>2, <1>5 DEF Close, Closed, ClientFields
  <2>3. OpenOnes' = OpenOnes \ {c}
    BY <2>2 DEF OpenOnes, IsOpen
  <2>4. Cardinality(OpenOnes \ {c}) = Cardinality(OpenOnes) - 1
    BY <1>1, <2>1, FS_RemoveElement
  <2>5. QED BY <1>2, <2>1, <2>2, <2>3, <2>4 DEF OpenInv
<1>6. CASE UNCHANGED <<driverVars, client, users>>
  BY <1>6 DEF driverVars, OpenInv, OpenOnes, IsOpen
<1>7. ASSUME NEW step, DriverStep(step)
      PROVE  OpenOnes' = OpenOnes /\ DOMAIN client' = Clients
             /\ (\A c \in Clients : DOMAIN client'[c] = ClientFields)
             /\ users' = IF ctrl'.made > ctrl.made THEN 0 ELSE users
  BY <1>2, <1>7 DEF DriverStep, OpenOnes, IsOpen
<1>8. Cardinality({}) = 0
  BY FS_EmptySet
<1>9. CASE DriverStep(Load)
  <2>1. CASE CreateControl
    <3>1. OpenOnes = {}
      BY <2>1 DEF CreateControl, At, StepInv, NodeInv, PlaceInv, Prepared, Probing, OpenInv
    <3>2. QED BY <1>2, <1>7, <1>8, <1>9, <3>1 DEF OpenInv
  <2>2. CASE Load /\ ~CreateControl
    <3>1. /\ ctrl'.made = ctrl.made /\ module' \in {"loading", "loaded"} /\ module \in {"out", "loading"}
          /\ ctrl.node = "ready" => ctrl'.node = "ready"
      <4>1. DOMAIN ctrl = {"node", "lock", "made"}
        BY DEF DriverInv, Shapes
      <4>2. module' \in {"loading", "loaded"} /\ module \in {"out", "loading"}
        BY <2>2 DEF Load, ModuleInit, ProbeAlloc, ProbeRefused, ProbeHardware, CreateControl, ControlReady,
                    RegisterNode, ProbeIndexed, ProbeDone, ModuleLoaded, At, NodeInv, PlaceInv, Prepared, Probing
      <4>3. UNCHANGED ctrl \/ ctrl' = [ctrl EXCEPT !.node = "ready"]
        BY <2>2 DEF Load, ModuleInit, ProbeAlloc, ProbeRefused, ProbeHardware, ControlReady,
                    RegisterNode, ProbeIndexed, ProbeDone, ModuleLoaded
      <4>4. QED BY <4>1, <4>2, <4>3
    <3>2. users' = users
      BY <1>7, <1>9, <3>1 DEF KindInv
    <3>3. QED BY <1>2, <1>7, <1>9, <3>1, <3>2 DEF OpenInv
  <2>3. QED BY <1>9, <2>1, <2>2 DEF DriverStep
<1>10. CASE DriverStep(Exit) \/ DriverStep(Unload)
  <2>1. OpenOnes = {}
    <3>1. CASE DriverStep(Exit)
      BY <3>1 DEF DriverStep, Exit, OpenOnes
    <3>2. CASE DriverStep(Unload)
      BY <3>2 DEF DriverStep, Unload, RemoveNodes, RemoveControl, RemoveLock, RemoveIrq, RemoveDevice,
                  ModuleOut, At, NodeInv, PlaceInv, Removal, OpenInv
    <3>3. QED BY <1>10, <3>1, <3>2
  <2>2. QED BY <1>2, <1>7, <1>8, <1>10, <2>1 DEF OpenInv
<1>11. QED
  BY <1>3, <1>4, <1>5, <1>6, <1>9, <1>10
  DEF Next, vars, clientVars, Change, Calls, Ongoing, SetDeviceParms, WriteFlash

(* A change is signalled, or the one who took its event looks. *)
LEMMA SignalStep ==
ASSUME IsFiniteSet(Clients), FailsEarly, DriverInv, NodeInv, StepInv, KindInv, OpenInv, SignalInv, [Next]_vars
PROVE  SignalInv'
<1> DEFINE Looks(c, n) == client[c].pc = "look" /\ client[c].at = n
           Noted(n) == n \in flags \/ \E c \in Clients : Looks(c, n)
<1>1. /\ DOMAIN known = Input /\ DOMAIN version = Input
      /\ \A n \in flags : n[1] \in Slot /\ devs[n[1]].pDE = "live"
      /\ \A n \in Input : users > 0 /\ known[n] # version[n] => Noted(n)
  BY DEF SignalInv
<1>2. CASE UNCHANGED <<driverVars, flags, client, users, known, version>>
  BY <1>1, <1>2 DEF SignalInv, driverVars
<1>3. ASSUME NEW n \in Input, Change(n) PROVE SignalInv'
  <2>1. /\ UNCHANGED <<devs, client, users, known>> /\ flags' = flags \cup {n}
        /\ DOMAIN version' = Input /\ \A m \in Input : m # n => version'[m] = version[m]
    BY <1>1, <1>3 DEF Change, driverVars, clientVars
  <2>2. n[1] \in Slot /\ devs[n[1]].pDE = "live"
    BY <1>3 DEF Change, Inputs
  <2>3. QED BY <1>1, <2>1, <2>2 DEF SignalInv
<1>4. ASSUME NEW c \in Clients, Ongoing(c) PROVE SignalInv'
  <2>1. /\ DOMAIN client' = Clients /\ \A d \in Clients : d # c => client'[d] = client[d]
        /\ UNCHANGED <<devs, users, version>>
    BY <1>4, OngoingFacts
  <2>2. CASE Look(c)
    <3>1. /\ client[c].pc = "look" /\ known' = [known EXCEPT ![client[c].at] = version[client[c].at]]
          /\ UNCHANGED flags
      BY <2>2 DEF Look
    <3>2. ASSUME NEW n \in Input, users > 0, known'[n] # version[n]
          PROVE  n \in flags \/ \E d \in Clients : client'[d].pc = "look" /\ client'[d].at = n
      <4>1. n # client[c].at /\ known'[n] = known[n]
        BY <1>1, <3>1, <3>2
      <4>2. QED BY <1>1, <2>1, <3>2, <4>1
    <3>3. QED BY <1>1, <2>1, <3>1, <3>2 DEF SignalInv
  <2>3. CASE ReadTake(c) /\ events # <<>>
    <3>1. /\ client[c].pc = "read" /\ flags' = flags \ {events[1][2]} /\ UNCHANGED known
          /\ client'[c].pc = "look" /\ client'[c].at = events[1][2]
      BY <2>3 DEF ReadTake, OpenInv, ClientFields
    <3>2. QED BY <1>1, <2>1, <3>1 DEF SignalInv
  <2>4. CASE ~Look(c) /\ ~(ReadTake(c) /\ events # <<>>)
    <3>1. client[c].pc # "look" /\ UNCHANGED <<flags, known>>
      BY <1>4, <2>4 DEF Ongoing, PollStart, PollLook, PollAppend, PollEnd, ReadTest, ReadTake
    <3>2. QED BY <1>1, <2>1, <3>1 DEF SignalInv
  <2>5. QED BY <2>2, <2>3, <2>4
<1>5. ASSUME NEW c \in Clients, Open(c) PROVE SignalInv'
  <2>1. client[c].pc = "closed" /\ UNCHANGED <<devs, version>>
    BY <1>5 DEF Open, IsOpen, driverVars
  <2>2. CASE UNCHANGED <<flags, users, client, known>>
    BY <1>1, <2>1, <2>2 DEF SignalInv
  <2>3. CASE users = 0 /\ known' = version /\ flags' = {n \in flags : n[1] \notin Scanned}
    BY <1>1, <2>1, <2>3 DEF SignalInv
  <2>4. CASE /\ users # 0 /\ UNCHANGED <<flags, known>>
             /\ client' = [client EXCEPT ![c] = [Closed EXCEPT !.pc = "idle"]]
    <3>1. users > 0
      BY <2>4, FS_Subset, FS_CardinalityType DEF OpenInv, OpenOnes
    <3>2. \A d \in Clients : d # c => client'[d] = client[d]
      BY <2>4 DEF OpenInv
    <3>3. QED BY <1>1, <2>1, <2>4, <3>1, <3>2 DEF SignalInv
  <2>5. QED BY <1>5, <2>2, <2>3, <2>4 DEF Open
<1>6. ASSUME NEW c \in Clients, Close(c) PROVE SignalInv'
  <2>1. /\ client[c].pc # "look" /\ UNCHANGED <<devs, flags, known, version>>
        /\ \A d \in Clients : d # c => client'[d] = client[d]
        /\ users' > 0 => users > 0
    <3>1. users \in Nat /\ users' = users - 1
      BY <1>6, FS_Subset, FS_CardinalityType DEF OpenInv, OpenOnes, Close
    <3>2. QED BY <1>6, <3>1 DEF Close, driverVars, OpenInv
  <2>2. QED BY <1>1, <2>1 DEF SignalInv
<1>7. ASSUME NEW step, DriverStep(step)
      PROVE  /\ flags' = {n \in flags : devs'[n[1]].pDE = "live"} /\ UNCHANGED <<client, version>>
             /\ users' = (IF ctrl'.made > ctrl.made THEN 0 ELSE users) /\ known' \in {known, version}
  BY <1>7 DEF DriverStep
<1>8. ASSUME NEW step, DriverStep(step), users > 0 => \A n \in flags : devs'[n[1]].pDE = "live"
      PROVE  SignalInv'
  <2>1. users' > 0 => users > 0 /\ flags' = flags
    BY <1>7, <1>8
  <2>2. \A n \in flags' : n[1] \in Slot /\ devs'[n[1]].pDE = "live"
    BY <1>1, <1>7, <1>8
  <2>3. QED BY <1>1, <1>7, <1>8, <2>1, <2>2 DEF SignalInv
<1>9. users > 0 => ctrl.node = "ready" /\ module \in {"loading", "loaded"} /\ OpenOnes # {}
  BY FS_EmptySet DEF OpenInv
<1>10. CASE DriverStep(Load)
  <2>1. users > 0 => \A n \in flags : devs'[n[1]].pDE = "live"
    BY <1>1, <1>9, <1>10, LiveKept DEF DriverStep
  <2>2. QED BY <1>8, <1>10, <2>1
<1>11. CASE DriverStep(Exit) \/ DriverStep(Unload)
  <2>1. ~(users > 0)
    <3>1. CASE DriverStep(Exit)
      BY <1>9, <3>1 DEF DriverStep, Exit, OpenOnes
    <3>2. CASE DriverStep(Unload)
      BY <1>9, <3>2 DEF DriverStep, Unload, RemoveNodes, RemoveControl, RemoveLock, RemoveIrq, RemoveDevice,
                        ModuleOut, At, NodeInv, PlaceInv, Removal
    <3>3. QED BY <1>11, <3>1, <3>2
  <2>2. QED BY <1>8, <1>11, <2>1
<1>12. QED
  BY <1>2, <1>3, <1>4, <1>5, <1>6, <1>10, <1>11
  DEF Next, vars, clientVars, Calls, Ongoing, SetDeviceParms, WriteFlash

(* A change that the applications do not know of is signalled, or the one that *)
(* took its event is about to look, for any number of applications and any     *)
(* boards, of which only the first may fail once it has its memory.            *)
THEOREM ChangesSignalled ==
ASSUME IsFiniteSet(Clients), FailsEarly
PROVE  Spec => []ChangeSignalled
<1> DEFINE Inv == DriverInv /\ NodeInv /\ StepInv /\ KindInv /\ OpenInv /\ SignalInv
<1>1. Init => Inv
  <2> SUFFICES ASSUME Init PROVE StepInv /\ KindInv /\ OpenInv /\ SignalInv
    BY InitDriver, InitNodes
  <2>1. /\ devs = [s \in Slot |-> Blank] /\ prober.step = "idle" /\ deviceIndex = 0
        /\ module = "out" /\ ctrl = NoControl
        /\ flags = {} /\ users = 0 /\ client = [c \in Clients |-> Closed]
        /\ known = [n \in Input |-> 0] /\ version = [n \in Input |-> 0]
    BY DEF Init, DriverInit, Idle
  <2>2. OpenOnes = {}
    BY <2>1 DEF OpenOnes, IsOpen, Closed
  <2>3. StepInv
    BY <2>1 DEF StepInv, NoControl, Blank, Prepared, Probing
  <2>4. KindInv /\ SignalInv
    BY <2>1 DEF KindInv, SignalInv, NoControl
  <2>5. OpenInv
    BY <2>1, <2>2, FS_EmptySet DEF OpenInv, Closed, ClientFields
  <2>6. QED BY <2>3, <2>4, <2>5
<1>2. Inv /\ [Next]_vars => Inv'
  <2> SUFFICES ASSUME Inv, [Next]_vars PROVE NodeInv' /\ StepInv'
    BY DriverKept, KindStep, OpenStep, SignalStep
  <2>1. CASE Load \/ Unload \/ ModuleExit
    BY <2>1, NodeStep, StepStep
  <2>2. CASE UNCHANGED driverVars
    BY <2>2, NodeOther DEF StepInv, driverVars
  <2>3. QED BY <2>1, <2>2, DriverStepOrNot
<1>3. Inv => ChangeSignalled
  BY DEF SignalInv, ChangeSignalled
<1>4. QED BY <1>1, <1>2, <1>3, PTL DEF Spec

-------------------------------------------------------------------------------
(* The inputs of the devices follow one another *)

(* The slot of a board that was probed has the board, until it is removed. *)
BoardInv ==
  /\ prober.step \in Prepared \cup {"nodes"} => devs[Me].board \in Bus
  /\ module # "unloading" => \A s \in Slot : s < deviceIndex => devs[s].board \in Bus

(* The driver's thread goes on: it changes the slot of the board it probes. *)
LEMMA BoardStep ==
ASSUME DriverInv, NodeInv, BoardInv, Load \/ Unload \/ ModuleExit
PROVE  BoardInv'
<1>1. /\ Shapes /\ PlaceInv /\ deviceIndex \in Nat
      /\ \A s \in Slot : SlotInv(devs[s]) /\ s \in Nat
  BY SlotFacts DEF DriverInv, BaseInv, ProbeInv, NodeInv
<1>2. \A s \in Slot : s < deviceIndex => s # Me
  BY <1>1 DEF Me
<1>3. CASE ModuleInit \/ ProbeRefused \/ ModuleLoaded \/ ModuleOut \/ ModuleExit
  <2>1. prober'.step \in {"probe", "idle", "remove"}
    BY <1>3 DEF ModuleInit, ProbeRefused, ModuleLoaded, ModuleOut, ModuleExit, NextBoard, Idle
  <2>2. \/ deviceIndex' = 0
        \/ module' = "unloading"
        \/ UNCHANGED <<devs, deviceIndex>> /\ module # "unloading"
    BY <1>1, <1>3 DEF ModuleInit, ProbeRefused, ModuleLoaded, ModuleOut, ModuleExit, PlaceInv, Probing, At
  <2>3. QED BY <1>1, <2>1, <2>2 DEF BoardInv, Prepared
<1>4. CASE ProbeAlloc
  <2>1. deviceIndex < MaxDevices /\ Me \in Slot /\ module = "loading" /\ deviceIndex' = deviceIndex
    BY <1>1, <1>4, SlotFacts DEF ProbeAlloc, Me, At, PlaceInv, Probing
  <2>2. \A s \in Slot : s < deviceIndex => devs'[s] = devs[s]
    BY <1>1, <1>2, <1>4 DEF ProbeAlloc, Shapes
  <2>3. prober'.step \in Prepared \cup {"nodes"} => devs'[Me].board \in Bus
    <3>1. CASE devs' = [devs EXCEPT ![Me] = [Blank EXCEPT !.board = prober.board, !.pDE = "live"]]
      <4>1. prober.board \in Bus /\ devs'[Me].board = prober.board
        BY <1>1, <1>4, <2>1, <3>1 DEF ProbeAlloc, Shapes, Blank
      <4>2. QED BY <4>1
    <3>2. CASE NextBoard
      BY <3>2 DEF NextBoard, Prepared
    <3>3. QED BY <1>4, <3>1, <3>2 DEF ProbeAlloc
  <2>4. QED BY <2>1, <2>2, <2>3 DEF BoardInv, Me
<1>5. CASE ProbeHardware \/ CreateControl \/ ControlReady \/ RegisterNode
  <2>1. /\ prober.step \in Prepared \cup {"nodes"} /\ deviceIndex' = deviceIndex
        /\ module = "loading" /\ module' = module
        /\ Me \in Slot /\ DOMAIN devs[Me] = SlotFields
    BY <1>1, <1>5, SlotFacts
       DEF ProbeHardware, CreateControl, ControlReady, RegisterNode, At, Prepared, Probing, PlaceInv,
           DriverInv, ProbeInv, SlotInv, Me
  <2>2. \A s \in Slot : s < deviceIndex => devs'[s] = devs[s]
    BY <1>2, <1>5, LoadChanges DEF Load
  <2>3. prober'.step \in Prepared \cup {"nodes"} => devs'[Me].board = devs[Me].board
    <3>1. NextBoard => prober'.step \notin Prepared \cup {"nodes"}
      BY DEF NextBoard, Prepared
    <3>2. CASE ProbeHardware
      <4>1. CASE devs' = [devs EXCEPT ![Me].irq = TRUE, ![Me].lock = TRUE]
        BY <1>1, <2>1, <4>1 DEF Shapes, SlotFields
      <4>2. QED BY <3>1, <3>2, <4>1 DEF ProbeHardware
    <3>3. CASE CreateControl \/ ControlReady
      BY <3>1, <3>3 DEF CreateControl, ControlReady, Unwind
    <3>4. CASE RegisterNode
      <4> DEFINE n == OverrideDevices(Machine[prober.board], expose)
                 l == prober.local
      <4>1. CASE devs' = [devs EXCEPT ![Me].devices = n, ![Me].up = @ \cup {l},
                                      ![Me].map[l] = devicesCount + l]
        <5> HIDE DEF n
        <5>1. QED BY <1>1, <2>1, <4>1 DEF Shapes, SlotFields
      <4>2. QED BY <3>1, <3>4, <4>1 DEF RegisterNode, Unwind
    <3>5. QED BY <1>5, <3>2, <3>3, <3>4
  <2>4. Me' = Me /\ devs[Me].board \in Bus
    BY <2>1 DEF Me, BoardInv
  <2>5. QED BY <2>1, <2>2, <2>3, <2>4 DEF BoardInv
<1>6. CASE ProbeIndexed
  <2>1. /\ UNCHANGED <<devs, module>> /\ deviceIndex' = deviceIndex + 1 /\ prober'.step = "count"
        /\ prober.step = "nodes" /\ module = "loading"
    BY <1>1, <1>6 DEF ProbeIndexed, At, Shapes, PlaceInv, Probing
  <2>2. devs[Me].board \in Bus
    BY <2>1 DEF BoardInv
  <2>3. \A s \in Slot : s < deviceIndex + 1 => s < deviceIndex \/ s = Me
    BY <1>1 DEF Me
  <2>4. QED BY <2>1, <2>2, <2>3 DEF BoardInv, Prepared
<1>7. CASE ProbeDone
  BY <1>1, <1>7 DEF ProbeDone, NextBoard, BoardInv, Prepared
<1>8. CASE Unload /\ ~ModuleOut
  <2>1. prober.step \in Removal /\ module' = module
    BY <1>8 DEF Unload, RemoveNodes, RemoveControl, RemoveLock, RemoveIrq, RemoveDevice, At, Removal
  <2>2. module' = "unloading" /\ prober'.step \notin Prepared \cup {"nodes"}
    <3>1. module = "unloading"
      BY <1>1, <2>1 DEF PlaceInv
    <3>2. PlaceInv'
      BY PlaceStep
    <3>3. QED BY <2>1, <3>1, <3>2 DEF PlaceInv, Probing
  <2>3. QED BY <2>2 DEF BoardInv
<1>9. QED BY <1>3, <1>4, <1>5, <1>6, <1>7, <1>8 DEF Load, Unload

(* A set of numbers that is not empty has a least one. *)
LEMMA Least ==
ASSUME NEW S \in SUBSET Nat, S # {}
PROVE  \E m \in S : \A n \in S : m <= n
<1> DEFINE R == OpToRel(<, Nat)
<1>1. IsWellFoundedOn(R, Nat)
  BY NatLessThanWellFounded
<1>2. \A m, n \in Nat : <<n, m>> \in R <=> n < m
  BY DEF OpToRel
<1> HIDE DEF R
<1>3. PICK m \in S : \A n \in S : ~(<<n, m>> \in R)
  BY <1>1, WFMin
<1>4. ASSUME NEW n \in S PROVE m <= n
  <2>1. m \in Nat /\ n \in Nat /\ ~(<<n, m>> \in R)
    BY <1>3
  <2>2. ~(n < m)
    BY <1>2, <2>1, Zenon
  <2>3. QED BY <2>1, <2>2
<1>5. QED BY <1>4

(* Induction: a set that has 0, and with a number the next one, has all of *)
(* them.                                                                   *)
LEMMA SetInduction ==
ASSUME NEW S, 0 \in S, \A n \in Nat : n \in S => n + 1 \in S
PROVE  Nat \subseteq S
<1> SUFFICES ASSUME Nat \ S # {} PROVE FALSE
  OBVIOUS
<1>1. PICK m \in Nat \ S : \A n \in Nat \ S : m <= n
  <2>1. Nat \ S \in SUBSET Nat
    OBVIOUS
  <2>2. QED BY <2>1, Least
<1>2. m - 1 \in Nat /\ m - 1 \in S
  BY <1>1
<1>3. QED BY <1>1, <1>2

(* f gives, for each of n devices of widths w, the inputs before it. *)
Before(f, w, i) == IF i = 0 THEN 0 ELSE f[i - 1] + w[i - 1]
Runs(n, w, f) == f = [i \in 0 .. n |-> Before(f, w, i)]

(* There is such a function, by induction over the number of devices. *)
LEMMA RunsExists ==
ASSUME NEW n \in Nat, NEW w
PROVE  \E f : Runs(n, w, f)
<1> DEFINE N == {m \in Nat : \E f : Runs(m, w, f)}
<1>1. 0 \in N
  <2> DEFINE f == [i \in 0 .. 0 |-> 0]
  <2>1. f = [i \in 0 .. 0 |-> Before(f, w, i)]
    BY DEF Before
  <2>2. QED BY <2>1 DEF Runs
<1>2. ASSUME NEW m \in Nat, m \in N PROVE m + 1 \in N
  <2>1. PICK f : Runs(m, w, f)
    BY <1>2
  <2> DEFINE g == [i \in 0 .. m + 1 |-> Before(f, w, i)]
  <2>2. ASSUME NEW i \in 0 .. m PROVE g[i] = f[i]
    BY <2>1 DEF Runs
  <2> HIDE DEF g
  <2>3. ASSUME NEW i \in 0 .. m + 1 PROVE Before(g, w, i) = Before(f, w, i)
    <3>1. i # 0 => i - 1 \in 0 .. m
      OBVIOUS
    <3>2. QED BY <2>2, <3>1 DEF Before
  <2>4. g = [i \in 0 .. m + 1 |-> Before(g, w, i)]
    BY <2>3 DEF g
  <2>5. QED BY <2>4 DEF Runs
<1>3. Nat \subseteq N
  <2> HIDE DEF N
  <2>1. QED BY <1>1, <1>2, SetInduction
<1>4. QED BY <1>3

(* Its values are numbers, when the widths are. *)
LEMMA RunsFacts ==
ASSUME NEW n \in Nat, NEW w, NEW f, Runs(n, w, f), \A i \in 0 .. n - 1 : w[i] \in Nat
PROVE  /\ \A i \in 0 .. n : f[i] \in Nat
       /\ f[0] = 0 /\ \A i \in 1 .. n : f[i] = f[i - 1] + w[i - 1]
<1>1. \A i \in 0 .. n : f[i] = IF i = 0 THEN 0 ELSE f[i - 1] + w[i - 1]
  BY DEF Runs, Before
<1> DEFINE N == {m \in Nat : m <= n => f[m] \in Nat}
<1>2. 0 \in N
  BY <1>1
<1>3. ASSUME NEW m \in Nat, m \in N PROVE m + 1 \in N
  <2>1. SUFFICES ASSUME m + 1 <= n PROVE f[m + 1] \in Nat
    OBVIOUS
  <2>2. f[m] \in Nat /\ w[m] \in Nat
    BY <1>3, <2>1
  <2>3. f[m + 1] = f[(m + 1) - 1] + w[(m + 1) - 1]
    BY <1>1, <2>1
  <2>4. QED BY <2>2, <2>3
<1>4. Nat \subseteq N
  <2> HIDE DEF N
  <2>1. QED BY <1>2, <1>3, SetInduction
<1>5. QED BY <1>1, <1>4

(* What SYSTEM_INFO answers from: how many devices there are, how many inputs *)
(* each has, and the first one of each.                                      *)
Devices == IF expose THEN devicesCount ELSE deviceIndex
Width(i) ==
  IF expose THEN (IF Matches(i) = {} THEN 0 ELSE 1)
  ELSE IF devs[i].board = 0 THEN 0 ELSE Channels[devs[i].board]
Widths == [i \in 0 .. Devices |-> Width(i)]
Firsts == CHOOSE f : Runs(Devices, Widths, f)

(* The answer itself. *)
LEMMA SystemInfoFacts ==
/\ SystemInfo.devices = Devices /\ SystemInfo.inputs = Firsts[Devices]
/\ \A i \in 0 .. Devices - 1 : /\ SystemInfo.map[i].min = Firsts[i]
                               /\ SystemInfo.map[i].max = Firsts[i] + Widths[i] - 1
<1>1. SystemInfo = [devices |-> Devices, inputs |-> Firsts[Devices],
                    map |-> [i \in 0 .. Devices - 1 |->
                               [min |-> Firsts[i], max |-> Firsts[i] + Widths[i] - 1]]]
  BY DEF SystemInfo, Devices, Firsts, Widths, Width, Runs, Before
<1>2. QED BY <1>1

(* Each device shows as many channels as it is given inputs. *)
LEMMA WidthFacts ==
ASSUME DriverInv, NodeInv, BoardInv, module \in {"loading", "loaded"}
PROVE  /\ Devices \in Nat
       /\ \A i \in 0 .. Devices - 1 : Widths[i] \in Nat /\ Widths[i] = DeviceInfo(i).channels
<1>1. Table /\ Counts /\ devicesCount \in Nat /\ expose \in BOOLEAN
  BY CountsFacts DEF NodeInv, PlaceInv
<1>2. Devices \in Nat
  BY <1>1 DEF Devices, Counts
<1>3. ASSUME NEW i \in 0 .. Devices - 1
      PROVE  Widths[i] \in Nat /\ Widths[i] = DeviceInfo(i).channels
  <2>1. Widths[i] = Width(i)
    BY <1>2 DEF Widths
  <2>2. CASE expose
    <3>1. Match(i) \in Slot \X Local /\ Matches(i) # {}
      BY <1>1, <2>2, MatchPlace DEF Devices, Counts
    <3>2. BoardAsked(i) # -1
      BY <2>2, <3>1, SlotFacts DEF BoardAsked
    <3>3. DeviceInfo(i).channels = 1 /\ Width(i) = 1
      BY <2>2, <3>1, <3>2 DEF DeviceInfo, Width
    <3>4. QED BY <2>1, <3>3
  <2>3. CASE ~expose
    <3>1. i \in Slot /\ i < deviceIndex
      BY <1>1, <2>3, SlotFacts DEF Devices, DriverInv, ProbeInv
    <3>2. devs[i].board \in Bus
      BY <3>1 DEF BoardInv
    <3>3. devs[i].board # 0 /\ Channels[devs[i].board] \in Nat
      BY <3>2, SlotFacts, DriverAssumption DEF Bus
    <3>4. DeviceInfo(i).channels = Channels[devs[i].board] /\ Width(i) = Channels[devs[i].board]
      BY <2>3, <3>3 DEF DeviceInfo, Width
    <3>5. QED BY <2>1, <3>3, <3>4
  <2>4. QED BY <1>1, <2>2, <2>3
<1>4. QED BY <1>2, <1>3

(* The answers agree. *)
LEMMA Follow ==
ASSUME DriverInv, NodeInv, BoardInv
PROVE  InputsFollow
<1> SUFFICES ASSUME module \in {"loading", "loaded"}
    PROVE  /\ \A i \in 0 .. Devices - 1 :
                /\ SystemInfo.map[i].max - SystemInfo.map[i].min + 1 = DeviceInfo(i).channels
                /\ SystemInfo.map[i].min = IF i = 0 THEN 0 ELSE SystemInfo.map[i - 1].max + 1
           /\ Devices > 0 => SystemInfo.inputs = SystemInfo.map[Devices - 1].max + 1
  BY SystemInfoFacts DEF InputsFollow
<1>1. /\ Devices \in Nat
      /\ \A i \in 0 .. Devices - 1 : Widths[i] \in Nat /\ Widths[i] = DeviceInfo(i).channels
  BY WidthFacts
<1>2. Runs(Devices, Widths, Firsts)
  BY <1>1, RunsExists DEF Firsts
<1>3. /\ \A i \in 0 .. Devices : Firsts[i] \in Nat
      /\ Firsts[0] = 0 /\ \A i \in 1 .. Devices : Firsts[i] = Firsts[i - 1] + Widths[i - 1]
  BY <1>1, <1>2, RunsFacts
<1>4. ASSUME NEW i \in 0 .. Devices - 1
      PROVE  /\ SystemInfo.map[i].max - SystemInfo.map[i].min + 1 = DeviceInfo(i).channels
             /\ SystemInfo.map[i].min = IF i = 0 THEN 0 ELSE SystemInfo.map[i - 1].max + 1
  <2>1. /\ SystemInfo.map[i].min = Firsts[i] /\ Firsts[i] \in Nat
        /\ SystemInfo.map[i].max = Firsts[i] + Widths[i] - 1
        /\ Widths[i] \in Nat /\ Widths[i] = DeviceInfo(i).channels
    BY <1>1, <1>3, SystemInfoFacts
  <2>2. SystemInfo.map[i].max - SystemInfo.map[i].min + 1 = DeviceInfo(i).channels
    BY <2>1
  <2>3. CASE i = 0
    BY <1>3, <2>1, <2>2, <2>3
  <2>4. CASE i # 0
    <3>1. i - 1 \in 0 .. Devices - 1 /\ i \in 1 .. Devices
      BY <1>1, <2>4
    <3>2. /\ SystemInfo.map[i - 1].max = Firsts[i - 1] + Widths[i - 1] - 1
          /\ Firsts[i - 1] \in Nat /\ Widths[i - 1] \in Nat
          /\ Firsts[i] = Firsts[i - 1] + Widths[i - 1]
      BY <1>1, <1>3, <3>1, SystemInfoFacts
    <3>3. QED BY <2>1, <2>2, <2>4, <3>2
  <2>5. QED BY <2>3, <2>4
<1>5. ASSUME Devices > 0 PROVE SystemInfo.inputs = SystemInfo.map[Devices - 1].max + 1
  <2>1. Devices - 1 \in 0 .. Devices - 1 /\ Devices \in 1 .. Devices
    BY <1>1, <1>5
  <2>2. /\ SystemInfo.map[Devices - 1].max = Firsts[Devices - 1] + Widths[Devices - 1] - 1
        /\ Firsts[Devices - 1] \in Nat /\ Widths[Devices - 1] \in Nat
        /\ Firsts[Devices] = Firsts[Devices - 1] + Widths[Devices - 1]
        /\ SystemInfo.inputs = Firsts[Devices]
    BY <1>1, <1>3, <2>1, SystemInfoFacts
  <2>3. QED BY <2>2
<1>6. QED BY <1>4, <1>5

(* InputsFollow: whatever boards the machine has, whichever of their probes  *)
(* fail, and with inputs as nodes or not, VW_MAGIC_SYSTEM_INFO numbers the   *)
(* inputs of the devices one after the other without a gap, as many for each *)
(* as VW_MAGIC_DEVICE_INFO says.                                             *)
THEOREM InputsAlwaysFollow == Spec => []InputsFollow
<1> DEFINE Inv == DriverInv /\ NodeInv /\ BoardInv
<1>1. Init => Inv
  <2>1. Init => BoardInv
    BY SlotFacts DEF Init, DriverInit, Idle, BoardInv, Prepared
  <2>2. QED BY <2>1, InitDriver, InitNodes
<1>2. Inv /\ [Next]_vars => Inv'
  <2> SUFFICES ASSUME DriverInv, NodeInv, BoardInv, [Next]_vars PROVE Inv'
    OBVIOUS
  <2>1. DriverInv'
    BY DriverKept
  <2>2. CASE UNCHANGED driverVars
    <3>1. BoardInv'
      BY <2>2 DEF driverVars, BoardInv, Me
    <3>2. QED BY <2>1, <2>2, <3>1, NodeOther
  <2>3. QED BY <2>1, <2>2, DriverStepOrNot, NodeStep, BoardStep
<1>3. Inv => InputsFollow
  BY Follow
<1>4. QED BY <1>1, <1>2, <1>3, PTL DEF Spec
===============================================================================
