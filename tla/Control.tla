-------------------------------- MODULE Control -------------------------------
(***************************************************************************)
(* The control device: applications open it to hear of changes of the      *)
(* inputs, to query the boards and to set their parameters, while boards   *)
(* are still being probed.  poll() turns the notification events of the    *)
(* boards into a list of entries; a read takes the first entry, clears the *)
(* event and tells the application which input to look at.                 *)
(*                                                                         *)
(* oops is what a call has dereferenced that is not there; the system ends *)
(* with it.                                                                *)
(***************************************************************************)
EXTENDS Driver

CONSTANTS
  Clients,      (* applications, each with one handle of the control device  *)
  Values,       (* settings of an input                                      *)
  Budget        (* bound on changes, open()s and write()s together           *)

ASSUME ControlAssumption == Values # {} /\ Budget \in Nat

VARIABLES
  flags,        (* inputs whose notification event is signalled              *)
  events,       (* dev->events: the list of entries <<id, input>>            *)
  users,        (* dev->ctrlUsers                                            *)
  client,       (* what each application does                                *)
  known,        (* what the applications know of each input                  *)
  version,      (* how often each input has changed                          *)
  parms,        (* the settings of each input                                *)
  written,      (* what was last set for each node                           *)
  flashed,      (* slots whose flash was written                             *)
  budget,
  oops

clientVars == <<events, users, client>>
dataVars   == <<parms, written, flashed>>
vars == <<driverVars, flags, clientVars, known, version, dataVars, budget, oops>>

Input == Slot \X Local                            (* a channel of a slot      *)
Node  == 0 .. (MaxDevices * MaxLocal - 1)

Closed == [pc |-> "closed", slot |-> 0, ch |-> 0, head |-> 0, hit |-> FALSE, at |-> <<0, 0>>]
Unset  == "unset"

Init ==
  /\ DriverInit
  /\ flags = {} /\ events = <<>> /\ users = 0
  /\ client = [c \in Clients |-> Closed]
  /\ known = [n \in Input |-> 0] /\ version = [n \in Input |-> 0]
  /\ parms = [n \in Input |-> Unset] /\ written = [n \in Node |-> Unset] /\ flashed = {}
  /\ budget = Budget /\ oops = "none"

Channel(s) == 0 .. Channels[devs[s].board] - 1
Inputs == UNION {{<<s, j>> : j \in Channel(s)} : s \in {d \in Slot : devs[d].pDE = "live"}}

IsOpen(c) == client[c].pc # "closed"
Do(c, pc) == client' = [client EXCEPT ![c].pc = pc]
Spend == budget > 0 /\ budget' = budget - 1

(* Slots that poll() and open() look at: from the first one up to one that *)
(* has no extension.                                                       *)
Scanned == {s \in Slot : \A r \in 0 .. s : devs[r].pDE # "none"}

-------------------------------------------------------------------------------
(* The core signals that an input has changed. *)
Change(n) ==
  /\ n \in Inputs /\ Spend
  /\ version' = [version EXCEPT ![n] = @ + 1]
  /\ flags' = flags \cup {n}
  /\ UNCHANGED <<driverVars, clientVars, known, dataVars, oops>>

(* rgb133_open of the control device: the first user starts afresh, with *)
(* what the inputs are now.  The node is there before its driver data.   *)
Open(c) ==
  /\ ~IsOpen(c) /\ ctrl.node # "none" /\ module # "unloading" /\ Spend
  /\ IF ctrl.node = "registered"
     THEN oops' = "drvdata" /\ UNCHANGED <<flags, users, client, known>>
     ELSE /\ users' = users + 1
          /\ client' = [client EXCEPT ![c] = [Closed EXCEPT !.pc = "idle"]]
          /\ IF users # 0 THEN UNCHANGED <<flags, oops>>
             ELSE /\ flags' = {n \in flags : n[1] \notin Scanned}
                  /\ oops' = IF \E s \in Scanned : devs[s].pDE = "freed" THEN "pDE" ELSE oops
          /\ known' = IF users = 0 THEN version ELSE known
  /\ UNCHANGED <<driverVars, events, version, dataVars>>

(* rgb133_close: the last user takes the list with it. *)
Close(c) ==
  /\ client[c].pc \in {"idle", "sleep", "ready"}
  /\ client' = [client EXCEPT ![c] = Closed]
  /\ users' = users - 1
  /\ events' = IF users' = 0 THEN <<>> ELSE events
  /\ UNCHANGED <<driverVars, flags, known, version, dataVars, budget, oops>>

-------------------------------------------------------------------------------
(* poll() *)

PollStart(c) ==
  /\ client[c].pc = "idle" \/ (client[c].pc = "sleep" /\ flags # {})
  /\ client' = [client EXCEPT ![c] = [Closed EXCEPT !.pc = "scan"]]
  /\ UNCHANGED <<driverVars, flags, events, users, known, version, dataVars, budget, oops>>

(* Mutant: the last channel is left out. *)
PastLast_SkipsLast(s, j) == j + 1 \notin Channel(s)

PastLast(s, j) == j \notin Channel(s)

(* The next channel of the scan; for one that is signalled an entry is made *)
(* and the list is looked at, without the lock.                             *)
PollLook(c) ==
  /\ client[c].pc = "scan" /\ client[c].slot \in Scanned
  /\ LET s == client[c].slot
         j == client[c].ch IN
     IF devs[s].pDE = "freed"
     THEN oops' = "pDE" /\ UNCHANGED client
     ELSE /\ UNCHANGED oops
          /\ client' = [client EXCEPT ![c] =
               IF PastLast(s, j) THEN [@ EXCEPT !.slot = s + 1, !.ch = 0]
               ELSE IF <<s, j>> \notin flags THEN [@ EXCEPT !.ch = j + 1]
               ELSE [@ EXCEPT !.pc = "append", !.head = IF events = <<>> THEN 0 ELSE events[1][1]]]
  /\ UNCHANGED <<driverVars, flags, events, users, known, version, dataVars, budget>>

Ids == {events[i][1] : i \in 1 .. Len(events)}
FreshId == CHOOSE i \in 1 .. Len(events) + 1 : i \notin Ids

(* The entry goes to the end of the list that was seen, which may have been *)
(* freed; if none was seen it becomes the list.                             *)
PollAppend(c) ==
  /\ client[c].pc = "append"
  /\ LET entry == <<FreshId, <<client[c].slot, client[c].ch>>>>
         head  == client[c].head IN
     \/ /\ head = 0
        /\ events' = <<entry>> /\ UNCHANGED oops
     \/ /\ head \in Ids
        /\ events' = Append(events, entry) /\ UNCHANGED oops
     \/ /\ head # 0 /\ head \notin Ids
        /\ oops' = "tail" /\ UNCHANGED events
  /\ client' = [client EXCEPT ![c].pc = "scan", ![c].ch = @ + 1, ![c].hit = TRUE]
  /\ UNCHANGED <<driverVars, flags, users, known, version, dataVars, budget>>

(* POLLIN if an entry was made; otherwise the caller sleeps. *)
PollEnd(c) ==
  /\ client[c].pc = "scan" /\ client[c].slot \notin Scanned
  /\ Do(c, IF client[c].hit THEN "ready" ELSE "sleep")
  /\ UNCHANGED <<driverVars, flags, events, users, known, version, dataVars, budget, oops>>

-------------------------------------------------------------------------------
(* read() of VW_MAGIC_SIGNAL_EVENT, by an application that poll() woke *)

ReadTest(c) ==
  /\ client[c].pc = "ready"
  /\ Do(c, IF events = <<>> THEN "idle" ELSE "read")
  /\ UNCHANGED <<driverVars, flags, events, users, known, version, dataVars, budget, oops>>

(* Mutant: the event of the entry is cleared with all others of its board. *)
ReadTake_ClearBoard(c) ==
  /\ client[c].pc = "read"
  /\ IF events = <<>>
     THEN oops' = "head" /\ UNCHANGED <<flags, events, client>>
     ELSE /\ flags' = {n \in flags : n[1] # events[1][2][1]}
          /\ events' = Tail(events)
          /\ client' = [client EXCEPT ![c].pc = "look", ![c].at = events[1][2]]
          /\ UNCHANGED oops
  /\ UNCHANGED <<driverVars, users, known, version, dataVars, budget>>

(* Under the lock: clear the event of the first entry and free the entry. *)
ReadTake(c) ==
  /\ client[c].pc = "read"
  /\ IF events = <<>>
     THEN oops' = "head" /\ UNCHANGED <<flags, events, client>>
     ELSE /\ flags' = flags \ {events[1][2]}
          /\ events' = Tail(events)
          /\ client' = [client EXCEPT ![c].pc = "look", ![c].at = events[1][2]]
          /\ UNCHANGED oops
  /\ UNCHANGED <<driverVars, users, known, version, dataVars, budget>>

(* read() of VW_MAGIC_DEVICE: the application looks at the input it was *)
(* told of.                                                             *)
Look(c) ==
  /\ client[c].pc = "look"
  /\ known' = [known EXCEPT ![client[c].at] = version[client[c].at]]
  /\ client' = [client EXCEPT ![c] = [Closed EXCEPT !.pc = "idle"]]
  /\ UNCHANGED <<driverVars, flags, events, users, version, dataVars, budget, oops>>

-------------------------------------------------------------------------------
(* write() *)

(* The input behind a node: in the map when inputs are exposed as nodes; *)
(* otherwise the slot of the number and the input of the request.        *)
Target(ld) == IF expose THEN Match(ld) ELSE <<ld, 0>>
Exposed == 0 .. (IF expose THEN devicesCount ELSE deviceIndex) - 1

(* VW_MAGIC_SET_DEVICE_PARMS does not test that a board was found. *)
SetDeviceParms(c, ld, v) ==
  /\ client[c].pc = "idle" /\ ld \in Exposed /\ Spend
  /\ IF expose /\ Matches(ld) = {}
     THEN oops' = "device" /\ UNCHANGED <<parms, written>>
     ELSE /\ parms' = [parms EXCEPT ![Target(ld)] = v]
          /\ written' = [written EXCEPT ![ld] = v]
          /\ UNCHANGED oops
  /\ UNCHANGED <<driverVars, flags, clientVars, known, version, flashed>>

(* VW_MAGIC_WRITE_FLASH: only through the first node of a board *)
WriteFlash(c, ld) ==
  /\ client[c].pc = "idle" /\ ld \in Exposed /\ Spend
  /\ flashed' = IF FlashInfo(ld)[2] = 0 THEN flashed \cup {FlashInfo(ld)[1]} ELSE flashed
  /\ UNCHANGED <<driverVars, flags, clientVars, known, version, parms, written, oops>>

(* The module is in use while a handle is open. *)
Exit == ModuleExit /\ \A c \in Clients : ~IsOpen(c)

DriverStep(step) ==
  /\ step
  /\ flags' = {n \in flags : devs'[n[1]].pDE = "live"}
  /\ IF ctrl'.made > ctrl.made THEN events' = <<>> /\ users' = 0
                                           ELSE UNCHANGED <<events, users>>
  /\ IF module' = "out" /\ module # "out"
     THEN /\ known' = version
          /\ parms' = [n \in Input |-> Unset] /\ written' = [n \in Node |-> Unset]
     ELSE UNCHANGED <<known, parms, written>>
  /\ UNCHANGED <<client, version, flashed, budget, oops>>

Calls(c) == Open(c) \/ Close(c) \/ PollStart(c) \/ PollLook(c) \/ PollAppend(c) \/ PollEnd(c)
            \/ ReadTest(c) \/ ReadTake(c) \/ Look(c)

Next ==
  /\ oops = "none"
  /\ \/ DriverStep(Load)
     \/ DriverStep(Exit)
     \/ DriverStep(Unload)
     \/ \E n \in Input : Change(n)
     \/ \E c \in Clients : Calls(c)
     \/ \E c \in Clients, ld \in Node, v \in Values : SetDeviceParms(c, ld, v)
     \/ \E c \in Clients, ld \in Node : WriteFlash(c, ld)

Spec == Init /\ [][Next]_vars

(* The driver's thread and the applications go on: an application that has *)
(* the control device open polls, reads and looks, again and again.        *)
Fairness ==
  /\ WF_vars(oops = "none" /\ DriverStep(Load))
  /\ \A c \in Clients :
       WF_vars(oops = "none" /\ (PollStart(c) \/ PollLook(c) \/ PollAppend(c) \/ PollEnd(c)
                                \/ ReadTest(c) \/ ReadTake(c) \/ Look(c)))

FairSpec == Spec /\ Fairness

-------------------------------------------------------------------------------
(* Properties *)

(* Every variable has its type. *)
TypeOK ==
  /\ module \in {"out", "loading", "loaded", "unloading"}
  /\ expose \in BOOLEAN
  /\ devs \in [Slot -> [board : Bus \cup {0}, pDE : {"none", "live", "freed"}, irq : BOOLEAN,
                       lock : BOOLEAN, devices : -1 .. MaxLocal, map : [Local -> Node],
                       up : SUBSET Local]]
  /\ deviceIndex \in 0 .. MaxDevices
  /\ devicesCount \in 0 .. MaxDevices * MaxLocal
  /\ ctrl \in [node : {"none", "registered", "ready"}, lock : BOOLEAN, made : Nat]
  /\ region \subseteq Bus
  /\ flags \subseteq Input
  /\ \A i \in 1 .. Len(events) : events[i][1] \in Nat /\ events[i][2] \in Input
  /\ users \in Nat
  /\ \A c \in Clients : client[c].slot \in 0 .. MaxDevices /\ client[c].ch \in 0 .. MaxLocal
  /\ known \in [Input -> Nat] /\ version \in [Input -> Nat]
  /\ parms \in [Input -> Values \cup {Unset}] /\ written \in [Node -> Values \cup {Unset}]

(* An interrupt handler is registered only while the extension it works on *)
(* exists, and a node only while its device has the lock that open()       *)
(* takes: in rgb133_probe, on its error exits and in rgb133_remove.        *)
NothingOutlivesItsBase ==
  /\ \A s \in Slot : devs[s].irq => devs[s].pDE = "live"
  /\ \A s \in Slot : devs[s].up # {} => devs[s].lock /\ devs[s].board # 0
  /\ ctrl.node # "none" => ctrl.lock

(* Every number an application may use names a registered node, and what   *)
(* was last set for a node is what its input has: no two nodes share an    *)
(* input.  This is asked at every moment, also in the middle of a probe.   *)
(* The first node is excepted when the first board has none, for the maps  *)
(* of boards without nodes are all zero.                                   *)
NodesFound ==
  expose /\ module \in {"loading", "loaded"} =>
    \A ld \in Exposed :
      \/ ld = 0 /\ devs[0].devices = -1
      \/ /\ Matches(ld) # {}
         /\ Match(ld)[2] \in devs[Match(ld)[1]].up
         /\ written[ld] # Unset => parms[Match(ld)] = written[ld]

(* What SYSTEM_INFO answers: the inputs of the devices follow one another, *)
(* each device has as many as DEVICE_INFO says, and together they are all, *)
(* also in the middle of a probe and when some boards have no nodes.       *)
InputsFollow ==
  module \in {"loading", "loaded"} =>
    LET si == SystemInfo IN
    /\ \A i \in 0 .. si.devices - 1 :
         /\ si.map[i].max - si.map[i].min + 1 = DeviceInfo(i).channels
         /\ si.map[i].min = IF i = 0 THEN 0 ELSE si.map[i - 1].max + 1
    /\ si.devices > 0 => si.inputs = si.map[si.devices - 1].max + 1

(* A change that the applications do not know of is signalled, or the      *)
(* application that took its event is about to look: an input that changes *)
(* between poll(), read() and the look is not missed.                      *)
ChangeSignalled ==
  oops = "none" => \A n \in Input :
    users > 0 /\ known[n] # version[n] =>
      n \in flags \/ \E c \in Clients : client[c].pc = "look" /\ client[c].at = n

(* Every change is learnt of, by an application that keeps polling and     *)
(* reading, whatever stale or repeated entries come first.                 *)
ChangesDelivered ==
  \A n \in Input : known[n] # version[n] ~> (known[n] = version[n] \/ users = 0 \/ oops # "none")

===============================================================================
