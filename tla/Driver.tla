-------------------------------- MODULE Driver --------------------------------
(***************************************************************************)
(* Loading and unloading the driver: rgb133_init probes the boards of the  *)
(* machine one after the other, rgb133_exit removes them.  A probe fills   *)
(* the next slot of rgb133_devices, acquires memory, the interrupt and a   *)
(* lock, registers one video node per local device, and takes all of it    *)
(* back when a step fails.  The first probe also creates the control       *)
(* device, through which applications query the table while it grows.      *)
(***************************************************************************)
EXTENDS Boards, Sequences, FiniteSets

CONSTANTS
  Machine,      (* the boards, in the order in which the bus presents them   *)
  Channels,     (* their numbers of channels, which the core reports         *)
  Exposes,      (* the values of rgb133_expose_inputs the module is given    *)
  MaxDevices,   (* slots for boards: RGB133_MAX_DEVICES - 1                  *)
  MaxLocal,     (* entries of pDevMap, 8 in the code                         *)
  Failing       (* <<board, step>> of the steps of a probe that may fail     *)

ASSUME DriverAssumption ==
  /\ MaxDevices \in Nat \ {0} /\ MaxLocal \in Nat \ {0}
  /\ Machine \in Seq(Boards) /\ Machine # <<>>
  /\ Channels \in Seq(1 .. MaxLocal) /\ Len(Channels) = Len(Machine)
  /\ \A b \in DOMAIN Machine, e \in BOOLEAN : OverrideDevices(Machine[b], e) <= MaxLocal
  /\ Exposes \subseteq BOOLEAN

Bus   == 1 .. Len(Machine)
Slot  == 0 .. MaxDevices - 1
Local == 0 .. MaxLocal - 1

VARIABLES
  module,       (* out, loading, loaded, unloading                           *)
  expose,       (* rgb133_expose_inputs                                      *)
  devs,         (* rgb133_devices, but for the control device                *)
  deviceIndex,  (* rgb133_device_index: boards probed with success           *)
  devicesCount, (* rgb133_devices_count: their nodes                         *)
  ctrl,         (* the control device                                        *)
  prober,       (* the thread in init or exit: its step, board and node      *)
  region        (* boards whose PCI region is reserved                       *)

driverVars == <<module, expose, devs, deviceIndex, devicesCount, ctrl, prober, region>>

(* A slot after memset.  pDE is none, live, or freed: a pointer that is still *)
(* set to memory that was given back.  map is pDevMap, with the index of each *)
(* local device; up are the local devices whose node is registered.           *)
Blank == [board |-> 0, pDE |-> "none", irq |-> FALSE, lock |-> FALSE, devices |-> -1,
          map |-> [l \in Local |-> 0], up |-> {}]

(* The control device; node is none, registered, or ready once it has its *)
(* driver data; made counts how often it was created.                     *)
NoControl == [node |-> "none", lock |-> FALSE, made |-> 0]

Idle == [step |-> "idle", board |-> 0, local |-> 0]

May(b, step) == <<b, step>> \in Failing
At(step) == prober.step = step
Me == deviceIndex                                 (* the slot being probed    *)
Nodes(s) == IF devs[s].devices > 0 THEN devs[s].devices ELSE 0

DriverInit ==
  /\ module = "out" /\ expose \in Exposes
  /\ devs = [s \in Slot |-> Blank] /\ deviceIndex = 0 /\ devicesCount = 0
  /\ ctrl = NoControl /\ prober = Idle /\ region = {}

-------------------------------------------------------------------------------
(* Loading *)

(* rgb133_init up to pci_register_driver *)
ModuleInit ==
  /\ module = "out"
  /\ module' = "loading"
  /\ prober' = [step |-> "probe", board |-> 1, local |-> 0]
  /\ UNCHANGED <<expose, devs, deviceIndex, devicesCount, ctrl, region>>

(* The bus goes on to the next board when a probe returns. *)
NextBoard == prober' = [step |-> "probe", board |-> prober.board + 1, local |-> 0]

(* rgb133_probe up to DeviceAllocMemory.  Of the steps that may fail, the *)
(* mapping of the registers is the one that leaves the region reserved.   *)
ProbeAlloc ==
  /\ At("probe") /\ prober.board \in Bus /\ deviceIndex < MaxDevices
  /\ LET b == prober.board IN
     \/ /\ b \notin region
        /\ devs' = [devs EXCEPT ![Me] = [Blank EXCEPT !.board = b, !.pDE = "live"]]
        /\ region' = region \cup {b}
        /\ prober' = [prober EXCEPT !.step = "hardware"]
     \/ /\ b \in region \/ \E step \in {"enable", "ioremap", "pDE"} : May(b, step)
        /\ devs' = [devs EXCEPT ![Me] = Blank]
        /\ region' \in {region} \cup (IF May(b, "ioremap") THEN {region \cup {b}} ELSE {})
        /\ NextBoard
  /\ UNCHANGED <<module, expose, deviceIndex, devicesCount, ctrl>>

(* No slot is left: -ENODEV *)
ProbeRefused ==
  /\ At("probe") /\ prober.board \in Bus /\ deviceIndex >= MaxDevices
  /\ NextBoard
  /\ UNCHANGED <<module, expose, devs, deviceIndex, devicesCount, ctrl, region>>

(* Mutant: the memory of the extension goes first, the interrupt stays. *)
Released_KeepIrq(slot) == [slot EXCEPT !.board = 0, !.pDE = "freed", !.lock = FALSE, !.up = {}]

(* The labels err4 and below: the pointer in the slot is left as it is. *)
Released(slot) == [slot EXCEPT !.board = 0, !.pDE = "freed", !.irq = FALSE, !.lock = FALSE, !.up = {}]

(* DeviceInitializeHardware, request_irq and the lock of the device *)
ProbeHardware ==
  /\ At("hardware")
  /\ LET b == prober.board IN
     \/ /\ devs' = [devs EXCEPT ![Me].irq = TRUE, ![Me].lock = TRUE]
        /\ prober' = [prober EXCEPT !.step = IF deviceIndex = 0 THEN "control" ELSE "nodes"]
        /\ UNCHANGED region
     \/ /\ May(b, "hardware") \/ May(b, "irq")
        /\ devs' = [devs EXCEPT ![Me] = Released(@)]
        /\ region' = region \ {b}
        /\ NextBoard
  /\ UNCHANGED <<module, expose, deviceIndex, devicesCount, ctrl>>

(* err: the registered nodes, the lock, the interrupt and all before it *)
Unwind ==
  /\ devs' = [devs EXCEPT ![Me] = Released(@)]
  /\ region' = region \ {prober.board}
  /\ NextBoard

(* rgb133_create_control_device up to the registration of its node *)
CreateControl ==
  /\ At("control")
  /\ \/ /\ ctrl' = [node |-> "registered", lock |-> TRUE, made |-> ctrl.made + 1]
        /\ prober' = [prober EXCEPT !.step = "controldata"]
        /\ UNCHANGED <<devs, region>>
     \/ /\ May(prober.board, "control")
        /\ ctrl' = [ctrl EXCEPT !.lock = TRUE]
        /\ Unwind
  /\ UNCHANGED <<module, expose, deviceIndex, devicesCount>>

(* video_set_drvdata and the entry of the control device in its map *)
ControlReady ==
  /\ At("controldata")
  /\ ctrl' = [ctrl EXCEPT !.node = "ready"]
  /\ prober' = [prober EXCEPT !.step = "nodes"]
  /\ UNCHANGED <<module, expose, devs, deviceIndex, devicesCount, region>>

(* Mutant: the nodes of all boards are numbered from zero. *)
RegisterNode_FromZero ==
  /\ At("nodes")
  /\ LET b == prober.board
         n == OverrideDevices(Machine[b], expose)
         l == prober.local IN
     /\ l < n
     /\ \/ /\ devs' = [devs EXCEPT ![Me].devices = n, ![Me].up = @ \cup {l}, ![Me].map[l] = l]
           /\ prober' = [prober EXCEPT !.local = l + 1]
           /\ UNCHANGED region
        \/ May(b, "register") /\ Unwind
  /\ UNCHANGED <<module, expose, deviceIndex, devicesCount, ctrl>>

(* Register the node of the next local device, and give it its driver data *)
(* and its entry in the map.                                               *)
RegisterNode ==
  /\ At("nodes")
  /\ LET b == prober.board
         n == OverrideDevices(Machine[b], expose)
         l == prober.local IN
     /\ l < n
     /\ \/ /\ devs' = [devs EXCEPT ![Me].devices = n, ![Me].up = @ \cup {l},
                                   ![Me].map[l] = devicesCount + l]
           /\ prober' = [prober EXCEPT !.local = l + 1]
           /\ UNCHANGED region
        \/ May(b, "register") /\ Unwind
  /\ UNCHANGED <<module, expose, deviceIndex, devicesCount, ctrl>>

(* All nodes are there: the board counts. *)
ProbeIndexed ==
  /\ At("nodes") /\ prober.local >= OverrideDevices(Machine[prober.board], expose)
  /\ deviceIndex' = deviceIndex + 1
  /\ prober' = [prober EXCEPT !.step = "count"]
  /\ UNCHANGED <<module, expose, devs, devicesCount, ctrl, region>>

(* Then its nodes count. *)
ProbeDone ==
  /\ At("count")
  /\ devicesCount' = devicesCount + prober.local
  /\ NextBoard
  /\ UNCHANGED <<module, expose, devs, deviceIndex, ctrl, region>>

(* rgb133_init after pci_register_driver: interrupts are enabled on every *)
(* board and the driver is ready, whether or not the boards answer.       *)
ModuleLoaded ==
  /\ At("probe") /\ prober.board \notin Bus
  /\ module' = "loaded" /\ prober' = Idle
  /\ UNCHANGED <<expose, devs, deviceIndex, devicesCount, ctrl, region>>

-------------------------------------------------------------------------------
(* Unloading *)

(* rgb133_exit: removes the boards from the first to the last. *)
ModuleExit ==
  /\ module = "loaded"
  /\ module' = "unloading"
  /\ prober' = [step |-> "remove", board |-> 0, local |-> 0]
  /\ UNCHANGED <<expose, devs, deviceIndex, devicesCount, ctrl, region>>

Removing == prober.board                          (* the slot being removed   *)

(* rgb133_remove: the nodes of the board *)
RemoveNodes ==
  /\ At("remove") /\ Removing < deviceIndex
  /\ devs' = [devs EXCEPT ![Removing].up = {}]
  /\ prober' = [prober EXCEPT !.step = "removecontrol"]
  /\ UNCHANGED <<module, expose, deviceIndex, devicesCount, ctrl, region>>

(* The first board that is removed takes the control device with it. *)
RemoveControl ==
  /\ At("removecontrol")
  /\ ctrl' = [ctrl EXCEPT !.node = "none", !.lock = FALSE]
  /\ prober' = [prober EXCEPT !.step = "removelock"]
  /\ UNCHANGED <<module, expose, devs, deviceIndex, devicesCount, region>>

RemoveLock ==
  /\ At("removelock")
  /\ devs' = [devs EXCEPT ![Removing].lock = FALSE]
  /\ prober' = [prober EXCEPT !.step = "removeirq"]
  /\ UNCHANGED <<module, expose, deviceIndex, devicesCount, ctrl, region>>

(* DeviceDisableAllInterrupts and free_irq *)
RemoveIrq ==
  /\ At("removeirq")
  /\ devs' = [devs EXCEPT ![Removing].irq = FALSE]
  /\ prober' = [prober EXCEPT !.step = "removedevice"]
  /\ UNCHANGED <<module, expose, deviceIndex, devicesCount, ctrl, region>>

(* DeviceUninitializeHardware, the extension and the region *)
RemoveDevice ==
  /\ At("removedevice")
  /\ devs' = [devs EXCEPT ![Removing].pDE = "none", ![Removing].board = 0]
  /\ region' = region \ {devs[Removing].board}
  /\ prober' = [prober EXCEPT !.step = "remove", !.board = Removing + 1]
  /\ UNCHANGED <<module, expose, deviceIndex, devicesCount, ctrl>>

(* The module's memory is gone; what is left is what it did not give back. *)
ModuleOut ==
  /\ At("remove") /\ Removing >= deviceIndex
  /\ module' = "out" /\ prober' = Idle
  /\ devs' = [s \in Slot |-> Blank] /\ deviceIndex' = 0 /\ devicesCount' = 0
  /\ ctrl' = NoControl
  /\ UNCHANGED <<expose, region>>

Load == \/ ModuleInit \/ ProbeAlloc \/ ProbeRefused \/ ProbeHardware \/ CreateControl
        \/ ControlReady \/ RegisterNode \/ ProbeIndexed \/ ProbeDone \/ ModuleLoaded

Unload == \/ RemoveNodes \/ RemoveControl \/ RemoveLock \/ RemoveIrq \/ RemoveDevice \/ ModuleOut

-------------------------------------------------------------------------------
(* ReadControlMatchDevice: the slot and the local device whose map has the *)
(* number; the smallest slot first, then the smallest place.               *)
Matches(ld) == {m \in Slot \X Local : m[1] < deviceIndex /\ devs[m[1]].map[m[2]] = ld}

Match(ld) ==
  CHOOSE m \in Matches(ld) :
    \A o \in Matches(ld) : m[1] < o[1] \/ (m[1] = o[1] /\ m[2] <= o[2])

(* Mutant: the last input is the first of the next device. *)
SystemInfo_OffByOne ==
  LET devices == IF expose THEN devicesCount ELSE deviceIndex
      width[i \in 0 .. devices] ==
        IF expose THEN (IF Matches(i) = {} THEN 0 ELSE 1)
        ELSE IF devs[i].board = 0 THEN 0 ELSE Channels[devs[i].board]
      inputs[i \in 0 .. devices] == IF i = 0 THEN 0 ELSE inputs[i - 1] + width[i - 1]
  IN  [devices |-> devices, inputs |-> inputs[devices],
       map |-> [i \in 0 .. devices - 1 |-> [min |-> inputs[i], max |-> inputs[i] + width[i]]]]

(* What VW_MAGIC_SYSTEM_INFO answers: the first and the last input of each *)
(* device, in the order of the devices.                                    *)
SystemInfo ==
  LET devices == IF expose THEN devicesCount ELSE deviceIndex
      width[i \in 0 .. devices] ==
        IF expose THEN (IF Matches(i) = {} THEN 0 ELSE 1)
        ELSE IF devs[i].board = 0 THEN 0 ELSE Channels[devs[i].board]
      inputs[i \in 0 .. devices] == IF i = 0 THEN 0 ELSE inputs[i - 1] + width[i - 1]
  IN  [devices |-> devices, inputs |-> inputs[devices],
       map |-> [i \in 0 .. devices - 1 |-> [min |-> inputs[i], max |-> inputs[i] + width[i] - 1]]]

(* The device that VW_MAGIC_READ_REG, READ_FLASH and the like work on: its *)
(* slot, or -1, and then nothing is read.                                  *)
BoardAsked(d) ==
  IF ~expose THEN d ELSE IF Matches(d) = {} THEN -1 ELSE Match(d)[1]

(* VW_MAGIC_DEVICE_INFO: which board it is, and how many channels it shows *)
DeviceInfo(d) ==
  [board    |-> IF BoardAsked(d) = -1 THEN 0 ELSE devs[BoardAsked(d)].board,
   channels |-> IF ~expose THEN Channels[devs[d].board] ELSE IF BoardAsked(d) = -1 THEN 0 ELSE 1]

(* VW_MAGIC_FLASH_INFO: the board and the local device that are asked *)
FlashInfo(d) == <<BoardAsked(d), IF expose /\ Matches(d) # {} THEN Match(d)[2] ELSE 0>>
===============================================================================
