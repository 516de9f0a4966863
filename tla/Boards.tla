-------------------------------- MODULE Boards --------------------------------
(***************************************************************************)
(* The capture boards the driver knows.  rgb133.c decides by the PCI       *)
(* device and subsystem of a board whether it is probed at all, how many   *)
(* video nodes it gets and what it is called, in three tables that have to *)
(* agree.  A board is a record of its device, its subsystem, whether this  *)
(* is the first of the functions of a card (DeviceIsInputOrdinalZero), and *)
(* its number of channels.                                                 *)
(***************************************************************************)
EXTENDS Integers

(* RGB133_MAX_CHANNEL_PER_CARD *)
MaxChannels == 8

Row(d, s, first, other) == [device |-> d, subsystem |-> s, first |-> first, other |-> other]
All(d, s, n) == Row(d, s, n, n)

(* The INCLUDE_VISION rows of SetOverrideDevices, up to VisionHD4. *)
VisionRows ==
  {All("DGC133", "DGC133", 1), All("DGC133", "DGC139", 1), All("DGC133", "DGC150", 1),
   All("DGC139", "DGC1139", 1), All("DGC144", "DGC144", 8), All("DGC150", "DGC1150", 1),
   Row("DGC151", "DGC151", 1, 4), Row("DGC151", "DGC1151", 1, 4),
   All("DGC153", "DGC1153", 1), All("DGC154", "DGC1154", 1), All("DGC159", "DGC159", 2),
   All("DGC161", "DGC161", 1)}

(* The VisionAV and VisionSC rows. *)
VisionSCRows ==
  {Row("DGC165", "DGC165", 2, 1), Row("DGC167", "DGC167", 2, 1), Row("DGC168", "DGC168", 2, 1),
   All("DGC179", "DGC179", 2), All("DGC182", "DGC182", 4), All("DGC184", "DGC184", 4),
   All("DGC214", "DGC214", 2), All("DGC224", "DGC224", 2)}

(* The INCLUDE_VISIONLC rows. *)
VisionLCRows ==
  {All("DGC186", "DGC186", 4), All("DGC199", "DGC199", 4), All("DGC200", "DGC200", 1),
   All("DGC204", "DGC204", 1), All("DGC205", "DGC205", 2)}

Rows == VisionRows \cup VisionSCRows \cup VisionLCRows

Same(row, b) == row.device = b.device /\ row.subsystem = b.subsystem

(* SetOverrideDevices: how many video nodes a board gets; -1, and so none, *)
(* for one that is not in the table.                                       *)
OverrideDevices(b, expose) ==
  IF \E row \in Rows : Same(row, b)
  THEN LET row == CHOOSE r \in Rows : Same(r, b)
       IN  IF ~expose THEN 1 ELSE IF b.first THEN row.first ELSE row.other
  ELSE -1

(* SetCoreDeviceName: the devices with their subsystems, by product. *)
VisionNames ==
  [DGC133 |-> {"DGC133", "DGC139", "DGC150"}, DGC139 |-> {"DGC1139"}, DGC144 |-> {"DGC144"},
   DGC150 |-> {"DGC1150"}, DGC151 |-> {"DGC151", "DGC1151"}, DGC153 |-> {"DGC1153"},
   DGC154 |-> {"DGC1154"}, DGC159 |-> {"DGC159"}, DGC161 |-> {"DGC161"}]

VisionSCNames ==
  [DGC165 |-> {"DGC165"}, DGC167 |-> {"DGC167"}, DGC168 |-> {"DGC168"}, DGC179 |-> {"DGC179"},
   DGC182 |-> {"DGC182"}, DGC184 |-> {"DGC184"}, DGC214 |-> {"DGC214"}, DGC224 |-> {"DGC224"},
   DGC186 |-> {"DGC186"}, DGC199 |-> {"DGC199"}, DGC200 |-> {"DGC200"}, DGC204 |-> {"DGC204"},
   DGC205 |-> {"DGC205"}]

Named(b) ==
  \/ b.device \in DOMAIN VisionNames /\ b.subsystem \in VisionNames[b.device]
  \/ b.device \in DOMAIN VisionSCNames /\ b.subsystem \in VisionSCNames[b.device]

(* rgb133_pci_tbl: a listed device is probed whatever its subsystem. *)
Listed ==
  {"DGC133", "DGC139", "DGC144", "DGC150", "DGC151", "DGC153", "DGC154", "DGC159", "DGC161",
   "DGC165", "DGC167", "DGC168", "DGC179", "DGC182", "DGC184", "DGC214", "DGC224", "DGC186",
   "DGC199", "DGC200", "DGC204", "DGC205"}

Boards == [device : Listed, subsystem : {row.subsystem : row \in Rows} \cup {"other"},
           first : BOOLEAN]

(* The tables agree: a board has nodes when it has a name, every listed    *)
(* device has some product, and no board has more nodes than a board has   *)
(* channels.                                                               *)
ASSUME TablesAgree ==
  /\ \A b \in Boards : \A e \in BOOLEAN :
       /\ Named(b) <=> OverrideDevices(b, e) > 0
       /\ OverrideDevices(b, e) <= MaxChannels
  /\ \A d \in Listed : \E row \in Rows : row.device = d
  /\ \A row \in Rows : row.device \in Listed
===============================================================================
