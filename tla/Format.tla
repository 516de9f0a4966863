--------------------------------- MODULE Format -------------------------------
(***************************************************************************)
(* The ioctls that set the image of a capture handle, the input it shows   *)
(* and the controls of that input, together with what the image's size is  *)
(* used for: the buffers, and the two pictures that stand in for a frame   *)
(* when there is none.  One picture is copied into a buffer before the     *)
(* card is asked to fill it, the other when the buffer comes back without  *)
(* a frame.  Each picture is allocated when it is first needed.            *)
(*                                                                         *)
(* The application has a thread that sets formats and controls and one     *)
(* that streams.  It keeps to V4L2: it sets a format while it does not     *)
(* stream and has no buffers, and streams when the last attempt succeeded. *)
(***************************************************************************)
EXTENDS Formats, Controls

CONSTANTS
  Channels,     (* inputs of the device                                      *)
  Exposes,      (* values of rgb133_expose_inputs                            *)
  Fmts,         (* formats, widths and heights that the application asks for *)
  Widths,
  Heights,
  MaxW, MaxH,   (* VideoTimings.HorAddrTime and VerAddrTime of the device    *)
  alignMask,    (* DeviceGetAlignmentMask                                    *)
  Buffers,      (* indices of buffers                                        *)
  Memories,     (* MMAP, USERPTR                                             *)
  Ids,          (* controls the application uses                             *)
  Modes,        (* what may be connected to an input                         *)
  TypeOf,       (* its type of signal                                        *)
  LimitsOf,     (* <<control, mode>> -> the limits the core reports          *)
  Resizes,      (* the application may set another format once it has        *)
                (* streamed                                                  *)
  Changes       (* bound on changes of signals, inputs and the way of scaling *)

ASSUME FormatAssumption ==
  /\ Channels # {} /\ Exposes \subseteq BOOLEAN /\ Exposes # {}
  /\ Fmts \subseteq PixelFormats /\ Widths \subseteq Nat /\ Heights \subseteq Nat
  /\ MaxW \in Nat \ {0} /\ MaxH \in Nat \ {0}
  /\ alignMask \in Nat /\ (alignMask + 1) % 2 = 0         (* lines of whole words *)
  /\ Memories \subseteq {"MMAP", "USERPTR"} /\ Ids \subseteq AllControls
  /\ Modes # {} /\ Resizes \in BOOLEAN /\ Changes \in Nat

(* The signal moves no limits but those of the dynamic controls. *)
ASSUME StaticLimits ==
  \A id \in Ids \ DynamicControls, m, n \in Modes : LimitsOf[<<id, m>>] = LimitsOf[<<id, n>>]

VARIABLES
  expose, channel,  (* rgb133_expose_inputs, h->channel                      *)
  cap,              (* h->sCapture                                           *)
  hw,               (* the core's capture: whether it is open, its format    *)
  ctl,              (* a VIDIOC_S_FMT in progress                            *)
  bufs, memory,     (* the size of each buffer, 0 if there is none; their kind *)
  queue,            (* the state of each buffer                              *)
  streaming,
  pictures,         (* sizes of pNoSignalBufIn and pNoSignalBufOut, or 0     *)
  mode,             (* what is connected to each input                       *)
  limits, inited,   (* dev->V4L2Ctrls, dev->init                             *)
  value,            (* the settings of the controls in the core              *)
  set, tidy, streamed, fresh, over,          (* histories, see Init          *)
  changes

imageVars  == <<channel, cap, hw, ctl>>
bufferVars == <<bufs, memory, queue, streaming, pictures>>
inputVars  == <<mode, limits, inited, value>>
history    == <<set, tidy, streamed, fresh, over>>
vars == <<expose, imageVars, bufferVars, inputVars, history, changes>>

Idle  == [pc |-> "idle", fmt |-> None, w |-> 0, h |-> 0]
NoBuf == [i \in Buffers |-> 0]
Out   == [i \in Buffers |-> "out"]
Zero  == [In |-> 0, Out |-> 0]
Cached(m) == [id \in Ids |-> LimitsOf[<<id, m>>]]

(* set is the format last set with success, and its size; tidy: the last     *)
(* attempt to set one succeeded; streamed: frames have been asked for since  *)
(* open() or the last change of input; fresh: channels whose limits were     *)
(* asked for since their signal changed; over: what was copied or written    *)
(* past its end.                                                             *)
Init ==
  /\ expose \in Exposes /\ channel \in Channels
  /\ cap = [w |-> 0, h |-> 0, srcw |-> 0, srch |-> 0, pix |-> None, bpp |-> 0, size |-> 0,
            planes |-> 1, scaling |-> 0]
  /\ hw = [open |-> TRUE, pix |-> 3] /\ ctl = Idle
  /\ bufs = NoBuf /\ memory \in Memories /\ queue = Out /\ streaming = FALSE
  /\ pictures = Zero
  /\ mode \in [Channels -> Modes]
  /\ limits = [ch \in Channels |-> IF ch = channel THEN Cached(mode[ch])
                                   ELSE [id \in Ids |-> DefaultLimits(id)]]
  /\ inited = {channel} /\ value = [ch \in Channels |-> [id \in Ids |-> 0]]
  /\ set = <<None, 0>> /\ tidy = FALSE /\ streamed = FALSE
  /\ fresh = {} /\ over = {} /\ changes = Changes

Change == changes > 0 /\ changes' = changes - 1

NoBuffers == \A i \in Buffers : bufs[i] = 0 /\ queue[i] = "out"

-------------------------------------------------------------------------------
(* Formats *)

(* The width or height that is captured for the one asked for *)
Captured(asked, max) ==
  IF cap.scaling = 0 /\ ~(asked > 0 /\ asked <= max) THEN max ELSE asked

Source(source, captured, max) == IF source = 0 \/ source > max THEN captured ELSE source

(* rgb133_s_fmt_vid_cap up to CaptureSetPixelFormat, which the core may refuse *)
SFmtPixelFormat(fmt, w, h) ==
  /\ ctl.pc = "idle" /\ hw.open /\ NoBuffers /\ ~streaming /\ (streamed => Resizes)
  /\ LET cw == Captured(w, MaxW)
         ch == Captured(h, MaxH) IN
     /\ cap' = [cap EXCEPT !.srcw = Source(@, cw, MaxW), !.srch = Source(@, ch, MaxH)]
     /\ \/ /\ hw' = [hw EXCEPT !.pix = V4LToWin(fmt)]
           /\ ctl' = [pc |-> "set", fmt |-> fmt, w |-> cw, h |-> ch]
        \/ UNCHANGED <<hw, ctl>>
  /\ tidy' = FALSE
  /\ UNCHANGED <<expose, channel, bufferVars, inputVars, set, streamed, fresh, over, changes>>

(* The rest of it: alignment and CaptureSetScaleAndAOI may fail, and then *)
(* the core keeps the format.                                             *)
SFmtFail ==
  /\ ctl.pc = "set"
  /\ ctl' = Idle
  /\ UNCHANGED <<expose, channel, cap, hw, bufferVars, inputVars, history, changes>>

SFmtDone ==
  /\ ctl.pc = "set" /\ Aligned(ctl.fmt, ctl.w, ctl.h, alignMask)
  /\ cap' = [cap EXCEPT !.w = ctl.w, !.h = ctl.h, !.pix = ctl.fmt,
                        !.bpp = v4lBytesPerPixel(ctl.fmt),
                        !.size = SFmtImageSize(ctl.fmt, ctl.w, ctl.h), !.planes = PlanesOf(ctl.fmt)]
  /\ set' = <<ctl.fmt, SFmtImageSize(ctl.fmt, ctl.w, ctl.h)>> /\ tidy' = TRUE
  /\ ctl' = Idle
  /\ UNCHANGED <<expose, channel, hw, bufferVars, inputVars, streamed, fresh, over, changes>>

(* rgb133V4L2AssignDimensions *)
Dimensions == <<IF cap.w # 0 THEN cap.w ELSE cap.srcw, IF cap.h # 0 THEN cap.h ELSE cap.srch>>

(* Mutant: the order of colours is not corrected. *)
CoreFormat_NotCorrected == WinToV4L(hw.pix)

CoreFormat == CorrectBGRPixFmt(WinToV4L(hw.pix), cap.pix)

(* rgb133_g_fmt_vid_cap: the format that the core has, which the handle *)
(* takes over with the size it makes.                                   *)
GFmt ==
  /\ hw.open
  /\ cap' = [cap EXCEPT !.pix = CoreFormat,
                        !.size = AssignImageSize(CoreFormat, Dimensions[1], Dimensions[2])]
  /\ UNCHANGED <<expose, channel, hw, ctl, bufferVars, inputVars, history, changes>>

-------------------------------------------------------------------------------
(* Buffers *)

Reqbufs ==
  /\ NoBuffers /\ ~streaming /\ tidy /\ memory = "MMAP"
  /\ BufferSize(cap.pix, cap.w, cap.h) # 0
  /\ bufs' = [i \in Buffers |-> BufferSize(cap.pix, cap.w, cap.h)]
  /\ UNCHANGED <<expose, imageVars, memory, queue, streaming, pictures, inputVars, history,
                 changes>>

ReqbufsZero ==
  /\ ~streaming /\ ~NoBuffers /\ \A i \in Buffers : queue[i] = "out"
  /\ bufs' = NoBuf
  /\ UNCHANGED <<expose, imageVars, memory, queue, streaming, pictures, inputVars, history,
                 changes>>

(* VIDIOC_QBUF; the application's memory is as large as S_FMT has told it, and *)
(* its length becomes the size of the image.                                   *)
QBuf(i) ==
  /\ queue[i] = "out" /\ tidy /\ ctl = Idle
  /\ IF memory = "MMAP" THEN bufs[i] # 0 /\ UNCHANGED <<bufs, cap>>
     ELSE /\ set[2] # 0 /\ bufs' = [bufs EXCEPT ![i] = set[2]]
          /\ cap' = [cap EXCEPT !.size = set[2]]
  /\ queue' = [queue EXCEPT ![i] = "queued"]
  /\ UNCHANGED <<expose, channel, hw, ctl, memory, streaming, pictures, inputVars, history,
                 changes>>

StreamOn ==
  /\ ~streaming /\ ~NoBuffers /\ tidy /\ hw.open
  /\ streaming' = TRUE /\ streamed' = TRUE
  /\ UNCHANGED <<expose, imageVars, bufs, memory, queue, pictures, inputVars, set, tidy,
                 fresh, over, changes>>

StreamOff ==
  /\ streaming /\ \A i \in Buffers : queue[i] # "active"
  /\ streaming' = FALSE /\ queue' = Out
  /\ bufs' = IF memory = "MMAP" THEN bufs ELSE NoBuf
  /\ UNCHANGED <<expose, imageVars, memory, pictures, inputVars, history, changes>>

(* A picture, made now unless it is there, and what a copy of the whole *)
(* image from it into a buffer runs past.                               *)
Made(picture) == IF pictures[picture] = 0 THEN cap.size ELSE pictures[picture]
Overrun(picture, i) ==
  (IF cap.size > Made(picture) THEN {"picture"} ELSE {})
    \cup (IF cap.size > bufs[i] THEN {"buffer"} ELSE {})

(* rgb133_startdma *)
StartDma(i) ==
  /\ streaming /\ queue[i] = "queued" /\ hw.open
  /\ pictures' = [pictures EXCEPT !.In = Made("In")] /\ streamed' = TRUE
  /\ over' = over \cup Overrun("In", i)
  /\ queue' = [queue EXCEPT ![i] = "active"]
  /\ UNCHANGED <<expose, imageVars, bufs, memory, streaming, inputVars, set, tidy, fresh,
                 changes>>

(* The card writes a frame, or the request comes back without one. *)
Complete(i) ==
  /\ queue[i] = "active"
  /\ \/ /\ queue' = [queue EXCEPT ![i] = "done"]
        /\ over' = over \cup
             IF AssignImageSize(WinToV4L(hw.pix), Dimensions[1], Dimensions[2]) > bufs[i]
             THEN {"card"} ELSE {}
     \/ queue' = [queue EXCEPT ![i] = "nosignal"] /\ UNCHANGED over
  /\ UNCHANGED <<expose, imageVars, bufs, memory, streaming, pictures, inputVars, set, tidy,
                 streamed, fresh, changes>>

(* VIDIOC_DQBUF: GetEarliestFilledBuffer *)
Dqbuf(i) ==
  /\ queue[i] \in {"done", "nosignal"}
  /\ IF queue[i] = "done" THEN UNCHANGED <<pictures, over>>
     ELSE /\ pictures' = [pictures EXCEPT !.Out = Made("Out")]
          /\ over' = over \cup Overrun("Out", i)
  /\ queue' = [queue EXCEPT ![i] = "out"]
  /\ bufs' = IF memory = "MMAP" THEN bufs ELSE [bufs EXCEPT ![i] = 0]
  /\ UNCHANGED <<expose, imageVars, memory, streaming, inputVars, set, tidy, streamed, fresh,
                 changes>>

-------------------------------------------------------------------------------
(* Inputs *)

(* VIDIOC_ENUM_INPUT and VIDIOC_G_INPUT: the channel an index stands for, and *)
(* the index of the channel in use                                            *)
EnumInput(i) == IF expose THEN channel ELSE i
GInput == IF expose THEN 0 ELSE channel

(* Mutant: the pictures stay. *)
PicturesAfter_Kept == pictures

(* What a change of input leaves of the pictures *)
PicturesAfter == Zero

(* The limits of a channel that is opened for the first time are asked for. *)
Opened(ch) ==
  /\ limits' = IF ch \in inited THEN limits ELSE [limits EXCEPT ![ch] = Cached(mode[ch])]
  /\ inited' = inited \cup {ch}

(* The buffers that a change of input leaves: those of a handle that counts as *)
(* mapped are freed.  Buffers that the application has not mapped stay; it     *)
(* maps them before it queues one, and does not use them after the change.     *)
BuffersAfter ==
  \/ bufs' = NoBuf /\ queue' = Out
  \/ memory = "MMAP" /\ queue = Out /\ UNCHANGED <<bufs, queue>>

(* rgb133_s_input: the capture is closed, with the stream, the buffers and the *)
(* pictures, and opened for the other channel; either may fail, closing with   *)
(* nothing changed but the core's capture, which was disabled.  Inputs that    *)
(* are nodes of their own cannot be changed.                                   *)
SInput(ch) ==
  /\ ch # channel /\ ~expose /\ ctl = Idle /\ hw.open
  /\ \A i \in Buffers : queue[i] # "active"
  /\ \/ /\ channel' = ch /\ streaming' = FALSE /\ BuffersAfter /\ pictures' = PicturesAfter
        /\ \/ hw' = [hw EXCEPT !.pix = 3] /\ Opened(ch)
           \/ hw' = [hw EXCEPT !.open = FALSE] /\ UNCHANGED <<limits, inited>>
        /\ tidy' = FALSE /\ streamed' = FALSE
     \/ /\ hw' \in {hw, [hw EXCEPT !.open = FALSE]}
        /\ UNCHANGED <<channel, bufs, queue, streaming, pictures, limits, inited, tidy, streamed>>
  /\ Change
  /\ UNCHANGED <<expose, cap, ctl, memory, mode, value, set, fresh, over>>

-------------------------------------------------------------------------------
(* Controls *)

(* The signal of an input changes. *)
Signal(ch, m) ==
  /\ mode[ch] # m
  /\ mode' = [mode EXCEPT ![ch] = m] /\ fresh' = fresh \ {ch}
  /\ Change
  /\ UNCHANGED <<expose, imageVars, bufferVars, limits, inited, value, set, tidy, streamed,
                 over>>

(* Mutant: only the limits that never change are assigned. *)
Refreshed_Static(ch) ==
  [limits EXCEPT ![ch] =
     [id \in Ids |-> IF id \in DynamicControls THEN @[id] ELSE Cached(mode[ch])[id]]]

(* rgb133V4L2AssignPrivateControlLimits for RGB133_DYNAMIC_CONTROLS *)
Refreshed(ch) ==
  [limits EXCEPT ![ch] =
     [id \in Ids |-> IF id \in DynamicControls THEN Cached(mode[ch])[id] ELSE @[id]]]

(* VIDIOC_QUERYCTRL of any control: the answer is copied first. *)
QueryCtrl ==
  /\ limits' = Refreshed(channel) /\ fresh' = fresh \cup {channel}
  /\ UNCHANGED <<expose, imageVars, bufferVars, mode, inited, value, set, tidy, streamed,
                 over, changes>>

(* VIDIOC_S_CTRL of a control of the core *)
SCtrl(id, v) ==
  /\ Settable(id, TypeOf[mode[channel]], DeviceControls) /\ id # "SCALING" /\ hw.open
  /\ v >= limits[channel][id][1] /\ v <= limits[channel][id][2]
  /\ value' = [value EXCEPT ![channel][id] = v]
  /\ UNCHANGED <<expose, imageVars, bufferVars, mode, limits, inited, history, changes>>

(* The way of scaling is the handle's; it stays set if the core then fails. *)
SCtrlScaling(v) ==
  /\ "SCALING" \in Ids /\ hw.open /\ v <= limits[channel]["SCALING"][2]
  /\ cap' = [cap EXCEPT !.scaling = v]
  /\ Change
  /\ UNCHANGED <<expose, channel, hw, ctl, bufferVars, inputVars, history>>

Values == 0 .. 3

Next ==
  \/ \E fmt \in Fmts, w \in Widths, h \in Heights : SFmtPixelFormat(fmt, w, h)
  \/ SFmtFail \/ SFmtDone \/ GFmt
  \/ Reqbufs \/ ReqbufsZero \/ StreamOn \/ StreamOff
  \/ \E i \in Buffers : QBuf(i) \/ StartDma(i) \/ Complete(i) \/ Dqbuf(i)
  \/ \E ch \in Channels : SInput(ch)
  \/ \E ch \in Channels, m \in Modes : Signal(ch, m)
  \/ QueryCtrl
  \/ \E id \in Ids \ {"SCALING"}, v \in Values : SCtrl(id, v)
  \/ \E v \in 0 .. 1 : SCtrlScaling(v)

Spec == Init /\ [][Next]_vars

-------------------------------------------------------------------------------
(* Properties *)

(* Every variable has its type. *)
TypeOK ==
  /\ expose \in BOOLEAN /\ channel \in Channels
  /\ cap.w \in Nat /\ cap.h \in Nat /\ cap.pix \in PixelFormats \cup {None}
  /\ cap.size \in 0 .. Modulus - 1 /\ cap.bpp \in -1 .. 4 /\ cap.planes \in 1 .. 3
  /\ hw \in [open : BOOLEAN, pix : Win] /\ ctl.pc \in {"idle", "set"}
  /\ bufs \in [Buffers -> Nat] /\ memory \in Memories
  /\ queue \in [Buffers -> {"out", "queued", "active", "done", "nosignal"}]
  /\ streaming \in BOOLEAN /\ pictures \in [{"In", "Out"} -> Nat]
  /\ mode \in [Channels -> Modes] /\ inited \subseteq Channels
  /\ value \in [Channels -> [Ids -> Nat]] /\ fresh \subseteq Channels
  /\ over \subseteq {"picture", "buffer", "card"}

(* No copy of a picture and no frame of the card runs past the end of the    *)
(* picture or of the buffer, although the size of the image is kept by the   *)
(* handle, and S_FMT, G_FMT, QBUF and S_INPUT write it, or what it is made   *)
(* from, one after the other.                                                *)
FillsFit == over = {}

(* A format that was set with success stays the handle's format, and its     *)
(* size the size of its image, whatever is asked or changed afterwards: what *)
(* G_FMT takes over from the core is that same format, and Y8 is GREY.       *)
(* Images without width or height, which S_FMT accepts once a way of scaling *)
(* is set, are excepted: G_FMT takes the size of the source for them.        *)
FormatStays ==
  tidy /\ set[2] # 0 =>
    /\ cap.size = set[2]
    /\ cap.pix = set[1] \/ (cap.pix = "GREY" /\ set[1] = "Y8")

(* A value of a control that the core is given lies within the limits of the *)
(* present signal, if the application has queried a control of the input     *)
(* since the signal last changed: the limits of S_CTRL are as old as that.   *)
PolicedWhenQueried ==
  [][\A id \in Ids :
       value'[channel][id] # value[channel][id] /\ channel \in fresh =>
         /\ value'[channel][id] >= LimitsOf[<<id, mode[channel]>>][1]
         /\ value'[channel][id] <= LimitsOf[<<id, mode[channel]>>][2]]_vars

===============================================================================
