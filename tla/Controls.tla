-------------------------------- MODULE Controls ------------------------------
(***************************************************************************)
(* The controls of a channel: which there are, which of them the signal    *)
(* switches off, whose limits it moves, and the items of their menus.      *)
(***************************************************************************)
EXTENDS Naturals

(* rgb133_qctrl_defaults *)
IntegerControls ==
  {"BRIGHTNESS", "CONTRAST", "SATURATION", "HUE", "BLACK_LEVEL", "HOR_POS", "HOR_SIZE", "PHASE",
   "VERT_POS", "R_COL_BRIGHTNESS", "R_COL_CONTRAST", "G_COL_BRIGHTNESS", "G_COL_CONTRAST",
   "B_COL_BRIGHTNESS", "B_COL_CONTRAST", "HOR_TIME", "VER_TIME"}
BooleanControls == {"VFLIP", "LIVESTREAM"}
MenuControls == {"FORCE_DETECT", "SCALING", "SCALING_AR", "HDCP", "COLOURDOMAIN",
                 "INPUT_GANGING", "SIGNAL_TYPE", "VIDEO_STANDARD"}
AllControls == IntegerControls \cup BooleanControls \cup MenuControls

(* Their limits before the core is asked for those of the integers *)
DefaultLimits(id) ==
  CASE id \in IntegerControls -> <<0, 0>>
    [] id \in BooleanControls -> <<0, 1>>
    [] id = "FORCE_DETECT" -> <<0, 2>>    [] id = "SCALING" -> <<0, 3>>
    [] id = "SCALING_AR" -> <<0, 9>>      [] id = "HDCP" -> <<0, 1>>
    [] id = "COLOURDOMAIN" -> <<0, 12>>   [] id = "INPUT_GANGING" -> <<0, 7>>
    [] id = "SIGNAL_TYPE" -> <<0, 11>>    [] id = "VIDEO_STANDARD" -> <<0, 9>>

(* The limits that depend on the signal; the others are set once. *)
DynamicControls == {"HOR_TIME", "VER_TIME", "HOR_POS", "HOR_SIZE", "VERT_POS"}

(* The items of the menus: those of detection, scaling and HDCP, *)
DetectItems == [FORCE_DETECT |-> 3, SCALING |-> 4, SCALING_AR |-> 10, HDCP |-> 2]
(* of colours and ganging, *)
ColourItems == [COLOURDOMAIN |-> 13, INPUT_GANGING |-> 8]
(* and of the types of signals and the standards of video *)
SignalItems == [SIGNAL_TYPE |-> 12, VIDEO_STANDARD |-> 10]

(* VIDIOC_QUERYMENU answers for an item; ganged are the types of ganging *)
(* that the device supports.                                             *)
QueryMenu(id, index, ganged) ==
  \/ id \in DOMAIN DetectItems /\ index < DetectItems[id]
  \/ id \in DOMAIN ColourItems /\ index < ColourItems[id]
     /\ (id = "INPUT_GANGING" => index \in ganged)
  \/ id \in DOMAIN SignalItems /\ index < SignalItems[id]

(* Controls that no signal switches off; the first three only the device *)
DeviceControls  == {"FORCE_DETECT", "HDCP", "INPUT_GANGING"}
ReadFree == DeviceControls \cup {"SCALING", "SCALING_AR", "LIVESTREAM", "SIGNAL_TYPE"}
WriteFree == DeviceControls \cup {"SCALING", "SCALING_AR", "LIVESTREAM"}

(* rgb133_ctrl_disabled: what a type of signal leaves to be adjusted *)
EnabledFor(type) ==
  CASE type \in {"DVI", "SDI", "DVI_DUAL_LINK"} ->
         {"BRIGHTNESS", "CONTRAST", "VFLIP", "COLOURDOMAIN"}
    [] type = "NOSIGNAL" -> {}
    [] type = "VIDEO" ->
         {"BRIGHTNESS", "CONTRAST", "BLACK_LEVEL", "VFLIP", "HOR_POS", "HOR_SIZE", "PHASE",
          "VERT_POS", "R_COL_BRIGHTNESS", "R_COL_CONTRAST", "G_COL_BRIGHTNESS",
          "G_COL_CONTRAST", "B_COL_BRIGHTNESS", "B_COL_CONTRAST", "HOR_TIME", "VER_TIME",
          "COLOURDOMAIN"}
    [] OTHER ->
         {"BRIGHTNESS", "CONTRAST", "SATURATION", "HUE", "VFLIP", "HOR_POS", "VERT_POS",
          "VIDEO_STANDARD"}

(* What QUERYCTRL flags, what G_CTRL answers and what S_CTRL takes up, with *)
(* the device controls that the core reports as enabled                     *)
Disabled(id, type, device) ==
  IF id \in ReadFree THEN id \in DeviceControls /\ id \notin device
  ELSE id \notin EnabledFor(type)
Readable(id, type, device) == id \in AllControls /\ ~Disabled(id, type, device)
Settable(id, type, device) ==
  /\ IF id \in WriteFree THEN id \in DeviceControls => id \in device
     ELSE id \in EnabledFor(type)
  /\ id # "SIGNAL_TYPE"

Types == {"NOSIGNAL", "DVI", "DVI_DUAL_LINK", "SDI", "VIDEO", "3WIRE_SOG",
          "4WIRE_COMPOSITE_SYNC", "5WIRE_SEPARATE_SYNCS", "YPRPB", "CVBS", "YC", "UNKNOWN"}

(* Every item that the limits of a menu allow can be asked for its name, and *)
(* no other; what can be set can be read, and is not flagged as disabled.    *)
ASSUME MenusMatch ==
  /\ \A id \in MenuControls, index \in 0 .. 20 :
       QueryMenu(id, index, 0 .. 7) <=> index <= DefaultLimits(id)[2]
  /\ \A id \in AllControls, type \in Types, device \in SUBSET DeviceControls :
       Settable(id, type, device) =>
         Readable(id, type, device) /\ ~Disabled(id, type, device)
===============================================================================
