------------------------------- MODULE CaptureTool -----------------------------
(***************************************************************************)
(* The Capture tool: main() opens the control and the capture device, sets *)
(* up memory and parameters, and a thread captures a number of frames, or  *)
(* captures until SIGINT tells it to stop.  A call may fail, once in a     *)
(* behaviour; the driver behind the calls is its promise to a client: it   *)
(* holds the buffers it was given until it gives them back.                *)
(***************************************************************************)
EXTENDS Integers, Sequences

CONSTANTS
  NumBuffers,      (* NUM_STREAMING_BUFFERS                                  *)
  CommandLines     (* what ParseCommandLine may leave                        *)

ASSUME CaptureToolAssumption == NumBuffers \in Nat \ {0}

VARIABLES
  main,         (* where main() is                                           *)
  args, values, (* the command line, and what SetupValues makes of it        *)
  files, lists, (* open files, and lists allocated while opening             *)
  memory,       (* the buffers that have memory, or a mapping                *)
  thread,       (* where the thread is, its index, and frames captured       *)
  threadStop,   (* CaptureThreadStop                                         *)
  owner, streaming, (* the driver: who has each buffer, and the board runs   *)
  fault         (* a call has failed                                         *)

toolVars == <<main, args, values, files, lists, memory, thread, threadStop, owner, streaming, fault>>

Slots == 0 .. NumBuffers - 1
driverVars == <<owner, streaming>>

-------------------------------------------------------------------------------
(* The command line.  What is not given is {}, what is given {value}; a    *)
(* rate is in hundredths of a Hertz; an error is {}, a success {values}.   *)

(* V4L2's name of each four character code, without the padding. *)
v4l2chroma_to_fourcc ==
  [GREY |-> "GREY", Y800 |-> "Y800", Y8 |-> "Y8", RV15 |-> "RGB555", RV16 |-> "RGB565",
   RV24 |-> "RGB24", RV32 |-> "RGB32", YUY2 |-> "YUYV", UYVY |-> "UYVY", NV12 |-> "NV12",
   YV12 |-> "YVU420", AR30 |-> "RGB10", AY30 |-> "Y410"]

IsSupportedPixelFormat(pixfmt) ==
  IF pixfmt \in DOMAIN v4l2chroma_to_fourcc THEN {v4l2chroma_to_fourcc[pixfmt]} ELSE {}

(* TokenizeComposing, TokenizeCropping: four numbers; more are ignored. *)
Tokenize(numbers) == IF Len(numbers) < 4 THEN {} ELSE {SubSeq(numbers, 1, 4)}

Lifted(given, default, Valid(_)) ==
  IF given = {} THEN {default} ELSE {v \in given : Valid(v)}

Clamped(delay) == IF delay < 0 THEN 0 ELSE IF delay > 10000 THEN 10000 ELSE delay

SetupValues(a) ==
  LET Fits(n)    == n \in 0 .. 4096       \* unsigned: a negative number is too large
      IOTypes(s) == s \in {"read", "mmap", "userptr"}
      Rates(r)   == r > 0 /\ r <= 100000
      default    == [width |-> 640, height |-> 480] IN
  {[count   |-> IF a.count = 0 THEN -1 ELSE a.count,
    width   |-> w, height |-> h, pixfmt |-> p, io |-> io, rate |-> r,
    compose |-> m, crop |-> c, delay |-> Clamped(a.delay)] :
      w \in Lifted(a.width, default.width, Fits),
      h \in IF a.height = {} /\ a.width # {} THEN {(n * 3) \div 4 : n \in a.width}
            ELSE Lifted(a.height, default.height, Fits),
      p \in IF a.pixfmt = {} THEN {"RGB565"} ELSE UNION {IsSupportedPixelFormat(x) : x \in a.pixfmt},
      io \in Lifted(a.io, "read", IOTypes),
      r \in Lifted(a.rate, 0, Rates),
      m \in IF a.compose = <<>> THEN {<<>>} ELSE Tokenize(a.compose),
      c \in IF a.crop = <<>> THEN {<<>>} ELSE Tokenize(a.crop)}

-------------------------------------------------------------------------------
ToolInit ==
  /\ main = "setup" /\ args \in CommandLines /\ values = {}
  /\ files = {} /\ lists = {} /\ memory = {}
  /\ thread = [pc |-> "none", i |-> 0, frame |-> 0]
  /\ threadStop = FALSE
  /\ owner = [b \in Slots |-> "app"] /\ streaming = FALSE
  /\ fault = FALSE

Value(field) == (CHOOSE v \in values : TRUE)[field]
Fails == ~fault /\ fault' = TRUE
Goes(from, to) == main = from /\ main' = to

Setup ==
  /\ values' = SetupValues(args)
  /\ Goes("setup", IF values' = {} THEN "done" ELSE "control")
  /\ UNCHANGED <<args, files, lists, memory, thread, threadStop, driverVars, fault>>

(* The loop over the control devices of Vision and VisionLC. *)
OpenCaptureDeviceControl ==
  /\ \/ Goes("control", "open") /\ files' = {"control"} /\ UNCHANGED fault
     \/ Fails /\ Goes("control", "done") /\ UNCHANGED files
  /\ UNCHANGED <<args, values, lists, memory, thread, threadStop, driverVars>>

(* The lists of inputs, standards and formats. *)
Enumerated == {"inputs", "standards", "formats"}

(* A failure takes back what this function did, and ends the program. *)
OpenCaptureDevice ==
  /\ \/ Goes("open", "memory") /\ files' = files \cup {"device"} /\ lists' = Enumerated /\ UNCHANGED fault
     \/ Fails /\ Goes("open", "done") /\ UNCHANGED <<files, lists>>
  /\ UNCHANGED <<args, values, memory, thread, threadStop, driverVars>>

(* One buffer for reading, else all of them.  When a mapping fails, the    *)
(* ones before stay; when an allocation does, they are freed.              *)
Wanted == IF Value("io") = "read" THEN {0} ELSE Slots

InitialiseBuffers ==
  /\ \/ Goes("memory", "parameters") /\ memory' = Wanted /\ UNCHANGED fault
     \/ /\ Fails /\ Goes("memory", "out")
        /\ IF Value("io") = "mmap" THEN \E n \in 0 .. NumBuffers - 1 : memory' = 0 .. n - 1
           ELSE memory' = {}
  /\ UNCHANGED <<args, values, files, lists, thread, threadStop, driverVars>>

(* InitialiseCapture and StartCapture: the calls that set and get the      *)
(* rate, the rectangles and liveStream, then the thread and its arguments. *)
InitialiseCapture ==
  /\ \/ Goes("parameters", "start") /\ UNCHANGED fault
     \/ Fails /\ Goes("parameters", "out")
  /\ UNCHANGED <<args, values, files, lists, memory, thread, threadStop, driverVars>>

StartCapture ==
  /\ \/ /\ Goes("start", "join") /\ UNCHANGED fault
        /\ thread' = [thread EXCEPT !.pc = IF Value("io") = "read" THEN "loop" ELSE "queue"]
     \/ Fails /\ Goes("start", "out") /\ UNCHANGED thread
  /\ UNCHANGED <<args, values, files, lists, memory, threadStop, driverVars>>

JoinCaptureThread ==
  /\ Goes("join", "uninitialise") /\ thread.pc = "ended"
  /\ UNCHANGED <<args, values, files, lists, memory, thread, threadStop, driverVars, fault>>

UninitialiseBuffers ==
  /\ Goes("uninitialise", "out")
  /\ memory' = memory \ Wanted
  /\ UNCHANGED <<args, values, files, lists, thread, threadStop, driverVars, fault>>

(* The driver takes its buffers back when the file is closed. *)
CloseCaptureDevice ==
  /\ Goes("out", "done")
  /\ files' = {} /\ lists' = {}
  /\ owner' = [b \in Slots |-> "app"] /\ streaming' = FALSE
  /\ UNCHANGED <<args, values, memory, thread, threadStop, fault>>

signal_handler ==
  /\ main # "done" /\ ~threadStop /\ threadStop' = TRUE
  /\ UNCHANGED <<main, args, values, files, lists, memory, thread, driverVars, fault>>

-------------------------------------------------------------------------------
(* CaptureThreadFunc. *)
mainVars == <<main, args, values, files, lists, memory>>
Ended == thread' = [thread EXCEPT !.pc = "ended"]

(* Queue every buffer, then start. *)
QueueBuffer ==
  /\ thread.pc = "queue"
  /\ \/ /\ thread' = [thread EXCEPT !.i = @ + 1, !.pc = IF thread.i = NumBuffers - 1 THEN "on" ELSE @]
        /\ owner' = [owner EXCEPT ![thread.i] = "queued"] /\ UNCHANGED fault
     \/ Fails /\ Ended /\ UNCHANGED owner
  /\ UNCHANGED <<mainVars, threadStop, streaming>>

StreamOn ==
  /\ thread.pc = "on"
  /\ \/ thread' = [thread EXCEPT !.pc = "loop"] /\ streaming' = TRUE /\ UNCHANGED fault
     \/ Fails /\ Ended /\ UNCHANGED streaming
  /\ UNCHANGED <<mainVars, threadStop, owner>>

Loop ==
  /\ thread.pc = "loop"
  /\ thread' = [thread EXCEPT !.pc =
       IF ~threadStop THEN "take" ELSE IF Value("io") = "read" THEN "ended" ELSE "off"]
  /\ UNCHANGED <<mainVars, threadStop, driverVars, fault>>

(* Mutant: one frame is too few to stop at. *)
Reached_Single(n) == Value("count") > 1 /\ n >= Value("count")

(* The number of frames that was asked for; none below zero. *)
Reached(n) == Value("count") > 0 /\ n >= Value("count")

(* Frames are counted as far as they matter. *)
Counted == IF thread.frame < Value("count") THEN thread.frame + 1 ELSE thread.frame

Read ==
  /\ thread.pc = "take" /\ Value("io") = "read"
  /\ \/ /\ thread' = [thread EXCEPT !.pc = "loop", !.frame = Counted] /\ UNCHANGED fault
        /\ threadStop' = (threadStop \/ Reached(Counted))
     \/ Fails /\ Ended /\ UNCHANGED threadStop
  /\ UNCHANGED <<mainVars, driverVars>>

(* poll() and DQBUF; nothing within the time of poll(): look again. *)
Dequeue ==
  /\ thread.pc = "take" /\ Value("io") # "read"
  /\ \/ \E b \in Slots :
          /\ owner[b] = "done" /\ owner' = [owner EXCEPT ![b] = "app"]
          /\ thread' = [pc |-> "requeue", i |-> b, frame |-> Counted] /\ UNCHANGED fault
          /\ threadStop' = (threadStop \/ Reached(Counted))
     \/ /\ \A b \in Slots : owner[b] # "done"
        /\ thread' = [thread EXCEPT !.pc = "loop"] /\ UNCHANGED <<owner, threadStop, fault>>
     \/ Fails /\ Ended /\ UNCHANGED <<owner, threadStop>>
  /\ UNCHANGED <<mainVars, streaming>>

Requeue ==
  /\ thread.pc = "requeue"
  /\ \/ /\ owner' = [owner EXCEPT ![thread.i] = "queued"]
        /\ thread' = [thread EXCEPT !.pc = "loop"] /\ UNCHANGED fault
     \/ Fails /\ Ended /\ UNCHANGED owner
  /\ UNCHANGED <<mainVars, threadStop, streaming>>

StreamOff ==
  /\ thread.pc = "off" /\ thread' = [thread EXCEPT !.pc = "drain", !.i = 0]
  /\ \/ streaming' = FALSE /\ UNCHANGED fault
     \/ Fails /\ UNCHANGED streaming
  /\ UNCHANGED <<mainVars, threadStop, owner>>

(* Mutant: the last buffer is forgotten. *)
Drained_Short(i) == i >= NumBuffers - 2

Drained(i) == i >= NumBuffers - 1

(* As many DQBUFs as there are buffers; each takes one the driver has. *)
Drain ==
  /\ thread.pc = "drain"
  /\ \/ /\ UNCHANGED fault
        /\ \E b \in Slots : owner[b] # "app" /\ owner' = [owner EXCEPT ![b] = "app"]
     \/ (\A b \in Slots : owner[b] = "app") /\ UNCHANGED <<owner, fault>>
     \/ Fails /\ UNCHANGED owner
  /\ thread' = [thread EXCEPT !.i = @ + 1, !.pc = IF Drained(thread.i) THEN "ended" ELSE @]
  /\ UNCHANGED <<mainVars, threadStop, streaming>>

(* The board fills a buffer. *)
Fill ==
  /\ streaming
  /\ \E b \in Slots : owner[b] = "queued" /\ owner' = [owner EXCEPT ![b] = "done"]
  /\ UNCHANGED <<mainVars, thread, threadStop, streaming, fault>>

Main ==
  \/ Setup \/ OpenCaptureDeviceControl \/ OpenCaptureDevice \/ InitialiseBuffers
  \/ InitialiseCapture \/ StartCapture \/ JoinCaptureThread \/ UninitialiseBuffers
  \/ CloseCaptureDevice

CaptureThreadFunc ==
  \/ QueueBuffer \/ StreamOn \/ Loop \/ Read \/ Dequeue \/ Requeue \/ StreamOff \/ Drain

ToolNext == Main \/ CaptureThreadFunc \/ Fill \/ signal_handler

ToolSpec == ToolInit /\ [][ToolNext]_toolVars

-------------------------------------------------------------------------------
(* Memory is freed or unmapped only when the driver has none of it and the *)
(* thread that uses it has ended, wherever the interrupt falls; unless a   *)
(* call has failed, when the thread just returns.                          *)
HeldMemoryExists ==
  /\ ~fault => \A b \in Slots : owner[b] # "app" => b \in memory
  /\ thread.pc \notin {"none", "ended"} => Wanted \subseteq memory
===============================================================================
