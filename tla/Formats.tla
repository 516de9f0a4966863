-------------------------------- MODULE Formats -------------------------------
(***************************************************************************)
(* Pixel formats, sizes of images and frame rates: the tables and the      *)
(* conversions between what V4L2 applications say and what the core of the *)
(* driver, written for Windows, understands.                               *)
(***************************************************************************)
EXTENDS Integers, Sequences, FiniteSets

CONSTANT Modulus    (* of unsigned int: 2^32 in the code, less in the runs    *)

ASSUME ModulusAssumption == Modulus \in Nat /\ Modulus >= 2 ^ 10

None == "0"         (* the zero fourcc                                        *)

(* fourccPixelFormats: the place of a format is the core's number for it, up *)
(* to the formats that only Linux has.                                       *)
fourccPixelFormats ==
  <<None, "RGB555", "RGB565", "RGB32", None, "GREY", None, "YUYV", "YVYU", "UYVY", "R8", "G8",
    "B8", "RGB24", None, "NV12", "YVU420", None, None, "RGB10", "Y410", "BGR24", "BGR32", "Y8",
    None>>
Last     == Len(fourccPixelFormats) - 1           (* RGB133_SPPT_PIXEL_FORMATS *)
Win      == 0 .. Last
Fourcc(i) == fourccPixelFormats[i + 1]
PixelFormats == {Fourcc(i) : i \in Win} \ {None}

v4lBytesPerPixel(fmt) ==
  CASE fmt \in {"RGB555", "RGB565", "YVYU", "YUYV", "UYVY"} -> 2
    [] fmt \in {"RGB24", "BGR24"} -> 3
    [] fmt \in {"RGB32", "BGR32", "RGB10", "Y410"} -> 4
    [] fmt \in {"R8", "G8", "B8", "GREY", "Y8", "NV12", "YVU420"} -> 1
    [] OTHER -> -1

IsV4L2PixelFormat(fmt) ==
  fmt \in PixelFormats \ {"R8", "G8", "B8", "RGB10", "Y410", "Y8"}

-------------------------------------------------------------------------------
(* What a device offers: dev says whether it does 10 bits and YV12, and     *)
(* whether the module was loaded with the formats that V4L2 lacks disabled. *)

Devices == [tenBit : BOOLEAN, yv12 : BOOLEAN, onlyV4L2 : BOOLEAN]

Supported(fmt, dev) ==
  /\ fmt \in {"RGB10", "Y410"} => dev.tenBit
  /\ fmt = "YVU420" => dev.yv12

Offered(dev) ==
  {i \in Win : /\ Fourcc(i) # None /\ Supported(Fourcc(i), dev)
               /\ dev.onlyV4L2 => IsV4L2PixelFormat(Fourcc(i))}

v4lSupportedPixelFormatsReal(dev) == Cardinality(Offered(dev))

(* The place of the format that has the given number among those offered; *)
(* the last place if there are not so many.                               *)
v4lGetExistingFormatIndex(dev, index) ==
  IF index >= v4lSupportedPixelFormatsReal(dev) THEN Last
  ELSE CHOOSE i \in Offered(dev) : Cardinality({j \in Offered(dev) : j < i}) = index

(* VIDIOC_ENUM_FMT: a format, or None for -EINVAL *)
EnumFmt(dev, index) ==
  IF index >= v4lSupportedPixelFormatsReal(dev) THEN None
  ELSE Fourcc(v4lGetExistingFormatIndex(dev, index))

-------------------------------------------------------------------------------
(* Between the fourcc of Linux and the number of the core *)

WinToV4L(i) == IF i \in Win THEN Fourcc(i) ELSE None

V4LToWin(fmt) ==
  CASE fmt = "BGR32" -> 3 [] fmt = "BGR24" -> 13 [] fmt = "Y8" -> 5
    [] fmt \notin PixelFormats -> 0
    [] OTHER -> CHOOSE i \in Win : Fourcc(i) = fmt

(* The core does not know the order of colours; the handle does. *)
CorrectBGRPixFmt(fmt, ofHandle) ==
  CASE fmt = "RGB24" /\ ofHandle = "BGR24" -> "BGR24"
    [] fmt = "RGB32" /\ ofHandle = "BGR32" -> "BGR32"
    [] OTHER -> fmt

-------------------------------------------------------------------------------
(* The size of an image is computed three times: by S_FMT, by G_FMT and by *)
(* REQBUFS.  All arithmetic is unsigned.                                   *)

U(n) == n % Modulus
Planar(fmt) == fmt \in {"NV12", "YVU420"}

PlanesOf(fmt) == CASE fmt = "NV12" -> 2 [] fmt = "YVU420" -> 3 [] OTHER -> 1

SFmtImageSize(fmt, w, h) ==
  LET line == U(w * U(v4lBytesPerPixel(fmt))) IN
  IF Planar(fmt) THEN U(U(line * h) + U((line \div 2) * h)) ELSE U(line * h)

AssignImageSize(fmt, w, h) ==
  LET bytesperline == U(w * U(v4lBytesPerPixel(fmt))) IN
  IF Planar(fmt) THEN U(U(h * bytesperline) + U(h * bytesperline) \div 2) ELSE U(h * bytesperline)

(* rgb133_mmap_buffer_setup; 0 for -EINVAL *)
BufferSize(fmt, w, h) ==
  IF v4lBytesPerPixel(fmt) = -1 \/ (Planar(fmt) /\ w % 2 = 1) THEN 0
  ELSE LET size == U(U(w * v4lBytesPerPixel(fmt)) * h)
       IN  IF Planar(fmt) THEN U(size * 3) \div 2 ELSE size

(* What VIDIOC_S_FMT demands of an image that is composed of one part: lines *)
(* of whole words, and an even number of them if the format has planes.      *)
Aligned(fmt, w, h, alignMask) ==
  LET Bpp == IF v4lBytesPerPixel(fmt) = -1 THEN 0 ELSE v4lBytesPerPixel(fmt) IN
  /\ (w * Bpp) % (alignMask + 1) = 0
  /\ Planar(fmt) => h % 2 = 0

(* VIDIOC_ENUM_FRAMESIZES, if the application may choose: the smallest width *)
(* whose lines are whole words.                                              *)
MinWidth(fmt) ==
  CHOOSE w \in 1 .. 4 : /\ (w * v4lBytesPerPixel(fmt)) % 4 = 0
                        /\ \A v \in 1 .. w - 1 : (v * v4lBytesPerPixel(fmt)) % 4 # 0

(* The sizes it answers for the values of the options dumb_buffer_width and *)
(* _height: a range, one size, or none (-EINVAL).                           *)
FrameSizes(fmt, dw, dh, current, max) ==
  LET least(a, b) == IF a < b THEN a ELSE b IN
  CASE dw = -1 /\ dh = -1 -> <<<<MinWidth(fmt), 1>>, max>>
    [] dw = 0 /\ dh = 0   -> <<current, current>>
    [] dw > 0 /\ dh > 0   -> LET d == <<least(dw, max[1]), least(dh, max[2])>> IN <<d, d>>
    [] OTHER -> <<>>

-------------------------------------------------------------------------------
(* Rates, in thousandths of a Hertz *)

(* VIDIOC_S_PARM: the rate of a time per frame, or 0 if it is not one; the *)
(* product is unsigned int.                                                *)
GetSampleRate(numerator, denominator) ==
  IF numerator = 0 \/ denominator = 0 THEN 0 ELSE U(denominator * 1000) \div numerator

(* VIDIOC_G_PARM: the denominator over 1001; the product is unsigned long, *)
(* the denominator unsigned int.                                           *)
AssignTimePerFrame(SampleRate, VerFrequency) ==
  U((1001 * (IF SampleRate = 0 THEN VerFrequency ELSE SampleRate)) \div 1000)

(* VIDIOC_ENUM_FRAMEINTERVALS: the rates, for the option dumb_buffer_rate *)
FrameIntervals(rate, input) ==
  CASE rate = -1 -> <<(input + 500) \div 1000, 1>>
    [] rate = 0  -> <<input \div 1000>>
    [] rate > 0  -> <<IF rate > input THEN input ELSE rate>>
    [] OTHER     -> <<>>

(* CalculateLostReadTime: how long a picture that does not come from the    *)
(* card is held back, so that pictures come at the rate of frames.  now and *)
(* later are the times of this call and the last one, adjust what was added *)
(* by the last one; the comparison is unsigned.                             *)
CalculateLostReadTime(timeout, now, later, adjust) ==
  LET delta == later - now - adjust IN
  IF now # 0 /\ delta >= 0 /\ timeout >= delta THEN timeout - delta ELSE 0

(* The fields of a frame that the core is told to deliver *)
AssignDeinterlace(field) ==
  CASE field = "BOB" -> "bob" [] field = "ALTERNATE" -> "alternate"
    [] field = "TOP" -> "field0" [] field = "BOTTOM" -> "field1" [] OTHER -> "frame"

DeviceCaps(control) ==
  {"READWRITE"} \cup IF control THEN {} ELSE {"VIDEO_CAPTURE", "STREAMING"}

-------------------------------------------------------------------------------
(* Facts about them, which TLC evaluates *)

(* Enumeration by index meets every format that is offered once, and every  *)
(* one it meets can be set and has a size.                                   *)
ASSUME EnumerationComplete ==
  \A dev \in Devices :
    LET n == v4lSupportedPixelFormatsReal(dev) IN
    /\ {EnumFmt(dev, k) : k \in 0 .. n - 1} = {Fourcc(i) : i \in Offered(dev)}
    /\ \A k \in 0 .. n - 1 :
         V4LToWin(EnumFmt(dev, k)) # 0 /\ v4lBytesPerPixel(EnumFmt(dev, k)) > 0

(* The core's number leads back to the format it was made from; only Y8 is *)
(* told as GREY.                                                           *)
ASSUME RoundTrip ==
  \A fmt \in PixelFormats :
    CorrectBGRPixFmt(WinToV4L(V4LToWin(fmt)), fmt) = IF fmt = "Y8" THEN "GREY" ELSE fmt

(* The three sizes agree on every image that VIDIOC_S_FMT accepts and whose *)
(* size does not overflow.                                                  *)
ASSUME SizesAgree ==
  \A fmt \in PixelFormats, w \in 0 .. 9, h \in 0 .. 5 :
    Aligned(fmt, w, h, 3) =>
      /\ SFmtImageSize(fmt, w, h) = AssignImageSize(fmt, w, h)
      /\ SFmtImageSize(fmt, w, h) = BufferSize(fmt, w, h)

(* A rate that is read and set again loses at most a thousandth of a Hertz, *)
(* as long as its denominator does not overflow.                            *)
ASSUME RateKept ==
  \A rate \in 0 .. 300 : 1001 * rate < Modulus =>
    GetSampleRate(1001, AssignTimePerFrame(rate, 0)) \in rate - 1 .. rate

(* Pictures without signal come one frame time apart, if the application is *)
(* back within that time, whatever was added the last time.                 *)
ASSUME Paced ==
  \A timeout \in 0 .. 4, now \in 1 .. 3, adjust \in 0 .. 4, busy \in 0 .. 6 :
    LET again == CalculateLostReadTime(timeout, now, now + adjust + busy, adjust) IN
    again + busy = IF busy <= timeout THEN timeout ELSE busy
===============================================================================
