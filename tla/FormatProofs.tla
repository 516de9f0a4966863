----------------------------- MODULE FormatProofs -----------------------------
(***************************************************************************)
(* Theorems about formats, sizes of images and limits of controls, for any *)
(* formats, widths, heights, inputs, buffers and controls.                 *)
(***************************************************************************)
EXTENDS Format, TLAPS

-------------------------------------------------------------------------------
(* Formats and sizes *)

(* The table has these formats. *)
LEMMA PixelFormatsAre ==
  /\ Last = 24
  /\ PixelFormats = {"RGB555", "RGB565", "RGB32", "GREY", "YUYV", "YVYU", "UYVY", "R8", "G8", "B8",
                     "RGB24", "NV12", "YVU420", "RGB10", "Y410", "BGR24", "BGR32", "Y8"}
  /\ Fourcc(3) = "RGB32" /\ Fourcc(13) = "RGB24" /\ Fourcc(5) = "GREY"
<1>1. Last = 24
  BY DEF Last, fourccPixelFormats
<1>2. \A i \in 0 .. 24 : Fourcc(i) \in {None, "RGB555", "RGB565", "RGB32", "GREY", "YUYV", "YVYU",
                     "UYVY", "R8", "G8", "B8",
                     "RGB24", "NV12", "YVU420", "RGB10", "Y410", "BGR24", "BGR32", "Y8"}
  BY DEF Fourcc, fourccPixelFormats
<1>3. /\ Fourcc(1) = "RGB555" /\ Fourcc(2) = "RGB565" /\ Fourcc(3) = "RGB32" /\ Fourcc(5) = "GREY"
      /\ Fourcc(7) = "YUYV" /\ Fourcc(8) = "YVYU" /\ Fourcc(9) = "UYVY" /\ Fourcc(10) = "R8"
      /\ Fourcc(11) = "G8" /\ Fourcc(12) = "B8" /\ Fourcc(13) = "RGB24" /\ Fourcc(15) = "NV12"
      /\ Fourcc(16) = "YVU420" /\ Fourcc(19) = "RGB10" /\ Fourcc(20) = "Y410"
      /\ Fourcc(21) = "BGR24" /\ Fourcc(22) = "BGR32" /\ Fourcc(23) = "Y8"
  BY DEF Fourcc, fourccPixelFormats
<1>4. \A i \in {1, 2, 3, 5, 7, 8, 9, 10, 11, 12, 13, 15, 16, 19, 20, 21, 22, 23} : Fourcc(i) \in PixelFormats
  BY <1>1, <1>3 DEF PixelFormats, Win, None
<1>5. QED BY <1>1, <1>2, <1>3, <1>4 DEF PixelFormats, Win

(* The core's number leads back to a format of the same layout. *)
Back(fmt) == WinToV4L(V4LToWin(fmt))

(* What a pixel format is after it went to the core and back. *)
LEMMA FormatBack ==
ASSUME NEW fmt \in PixelFormats
PROVE  Back(fmt) = CASE fmt = "BGR32" -> "RGB32" [] fmt = "BGR24" -> "RGB24"
                     [] fmt = "Y8" -> "GREY" [] OTHER -> fmt
<1>1. CASE fmt \in {"BGR32", "BGR24", "Y8"}
  BY <1>1, PixelFormatsAre DEF Back, V4LToWin, WinToV4L, Win
<1>2. CASE fmt \notin {"BGR32", "BGR24", "Y8"}
  <2>1. \E i \in Win : Fourcc(i) = fmt
    BY DEF PixelFormats
  <2>2. V4LToWin(fmt) = CHOOSE i \in Win : Fourcc(i) = fmt
    BY <1>2 DEF V4LToWin
  <2>3. V4LToWin(fmt) \in Win /\ Fourcc(V4LToWin(fmt)) = fmt
    BY <2>1, <2>2
  <2>4. QED BY <1>2, <2>3 DEF Back, WinToV4L
<1>3. QED BY <1>1, <1>2

(* The formats a handle may have after G_FMT when fmt was set. *)
Told(pix, fmt) == pix = fmt \/ (pix = "GREY" /\ fmt = "Y8")

(* Two formats whose images are equally large. *)
SameLayout(a, b) == v4lBytesPerPixel(a) = v4lBytesPerPixel(b) /\ Planar(a) = Planar(b)

(* The way to the core and back keeps the layout of a picture. *)
LEMMA LayoutsKept ==
ASSUME NEW fmt \in PixelFormats, NEW pix, Told(pix, fmt)
PROVE  /\ SameLayout(pix, fmt)
       /\ SameLayout(Back(fmt), fmt)
       /\ Told(CorrectBGRPixFmt(Back(fmt), pix), fmt)
       /\ v4lBytesPerPixel(fmt) \in 1 .. 4
       /\ Planar(fmt) => v4lBytesPerPixel(fmt) = 1
<1>1. SameLayout(pix, fmt)
  BY DEF Told, SameLayout, v4lBytesPerPixel, Planar
<1>2. SameLayout(Back(fmt), fmt)
  BY FormatBack DEF SameLayout, v4lBytesPerPixel, Planar
<1>3. Told(CorrectBGRPixFmt(Back(fmt), pix), fmt)
  BY FormatBack DEF Told, CorrectBGRPixFmt
<1>4. v4lBytesPerPixel(fmt) \in 1 .. 4 /\ (Planar(fmt) => v4lBytesPerPixel(fmt) = 1)
  BY PixelFormatsAre DEF v4lBytesPerPixel, Planar
<1>5. QED BY <1>1, <1>2, <1>3, <1>4

(* Numbers below the modulus stay. *)
LEMMA Small ==
ASSUME NEW n \in Nat, n < Modulus
PROVE  U(n) = n
BY ModulusAssumption DEF U

(* Zero fits in an unsigned number. *)
LEMMA Zero0 == U(0) = 0
BY ModulusAssumption DEF U

(* No image is so large that its size overflows. *)
Fits(w, h) == 8 * (w * h) < Modulus

(* Images of packed formats. *)
LEMMA PackedSize ==
ASSUME NEW fmt, NEW w \in Nat, NEW h \in Nat, Fits(w, h), w # 0, h # 0,
       v4lBytesPerPixel(fmt) \in 1 .. 4, ~Planar(fmt)
PROVE  LET p == (w * v4lBytesPerPixel(fmt)) * h
       IN  p \in Nat /\ p # 0 /\ SFmtImageSize(fmt, w, h) = p /\ AssignImageSize(fmt, w, h) = p
             /\ BufferSize(fmt, w, h) = p
<1> DEFINE b == v4lBytesPerPixel(fmt)
           l == w * b
           p == l * h
<1>1. b \in 1 .. 4 /\ Modulus \in Nat
  BY ModulusAssumption
<1>2. w * h \in Nat /\ 1 <= w * h /\ b <= 4 * (w * h)
  <2>1. w * h \in Nat /\ 1 <= w * h
    OBVIOUS
  <2>2. QED BY <1>1, <2>1
<1>3. l \in Nat /\ p \in Nat /\ p = b * (w * h)
  BY <1>1
<1>4. p <= 4 * (w * h) /\ l <= p /\ 1 <= l
  <2>1. \A a \in Nat : a <= a * h
    OBVIOUS
  <2>2. \A a \in Nat : b * a <= 4 * a
    BY <1>1
  <2>3. 1 <= w * b
    BY <1>1
  <2>4. QED BY <1>2, <1>3, <2>1, <2>2, <2>3
<1> HIDE DEF b, l, p
<1>5. U(b) = b /\ U(l) = l /\ U(p) = p
  BY <1>1, <1>2, <1>3, <1>4, Small DEF Fits
<1>6. h * l = p /\ l = w * b
  BY <1>1, <1>3 DEF p, l
<1>7. SFmtImageSize(fmt, w, h) = p
  BY <1>5, <1>6 DEF SFmtImageSize, b, p
<1>8. AssignImageSize(fmt, w, h) = p
  BY <1>5, <1>6 DEF AssignImageSize, b
<1>9. BufferSize(fmt, w, h) = p
  BY <1>1, <1>5, <1>6 DEF BufferSize, b, p
<1>10. QED BY <1>3, <1>4, <1>7, <1>8, <1>9 DEF p, l, b

(* Images of planar formats: one and a half bytes for each point. *)
LEMMA PlanarSize ==
ASSUME NEW fmt, NEW v \in Nat, NEW h \in Nat, Fits(2 * v, h), v # 0, h # 0,
       v4lBytesPerPixel(fmt) = 1, Planar(fmt)
PROVE  LET p == 3 * (v * h)
       IN  p \in Nat /\ p # 0 /\ SFmtImageSize(fmt, 2 * v, h) = p
             /\ AssignImageSize(fmt, 2 * v, h) = p /\ BufferSize(fmt, 2 * v, h) = p
<1> DEFINE w == 2 * v
           q == v * h
<1>1. w \in Nat /\ q \in Nat /\ Modulus \in Nat /\ w % 2 = 0 /\ w \div 2 = v
  BY ModulusAssumption
<1>2. w * h = 2 * q /\ h * w = 2 * q
  OBVIOUS
<1>3. 1 <= q /\ v <= q
  <2>1. \A a \in Nat : a <= a * h
    OBVIOUS
  <2>2. QED BY <2>1
<1>4. 8 * (w * h) < Modulus
  BY DEF Fits
<1>5. v * h = q
  OBVIOUS
<1>6. w = 2 * v
  OBVIOUS
<1> HIDE DEF w, q
<1>7. 16 * q < Modulus
  BY <1>1, <1>2, <1>4
<1>8. U(1) = 1 /\ U(w) = w /\ U(q) = q /\ U(2 * q) = 2 * q /\ U(3 * q) = 3 * q /\ U(6 * q) = 6 * q
  BY <1>1, <1>3, <1>6, <1>7, Small
<1>9. (2 * q) \div 2 = q /\ (6 * q) \div 2 = 3 * q /\ 2 * q + q = 3 * q /\ (2 * q) * 3 = 6 * q
  BY <1>1
<1>10. SFmtImageSize(fmt, w, h) = 3 * q
  BY <1>1, <1>2, <1>5, <1>8, <1>9 DEF SFmtImageSize
<1>11. AssignImageSize(fmt, w, h) = 3 * q
  BY <1>1, <1>2, <1>5, <1>8, <1>9 DEF AssignImageSize
<1>12. BufferSize(fmt, w, h) = 3 * q
  BY <1>1, <1>2, <1>5, <1>8, <1>9 DEF BufferSize
<1>13. QED BY <1>1, <1>3, <1>10, <1>11, <1>12 DEF q, w

(* A multiple of an even number is even. *)
LEMMA EvenMultiple ==
ASSUME NEW w \in Nat, NEW m \in Nat \ {0}, m % 2 = 0, w % m = 0
PROVE  \E v \in Nat : w = 2 * v
<1> DEFINE j == m \div 2
           q == w \div m
<1>1. j \in Nat /\ m = 2 * j
  OBVIOUS
<1>2. q \in Nat /\ w = m * q
  OBVIOUS
<1> HIDE DEF j, q
<1>3. j * q \in Nat /\ w = 2 * (j * q)
  BY <1>1, <1>2
<1>4. QED BY <1>3

(* An image without width or height has no size. *)
LEMMA EmptySize ==
ASSUME NEW fmt, NEW w \in Nat, NEW h \in Nat, w = 0 \/ h = 0, v4lBytesPerPixel(fmt) \in 1 .. 4
PROVE  SFmtImageSize(fmt, w, h) = 0 /\ BufferSize(fmt, w, h) = 0
<1> DEFINE b == v4lBytesPerPixel(fmt)
           line == U(w * U(b))
           lb == U(w * b)
<1>1. Modulus \in Nat /\ Modulus > 0 /\ \A n \in Nat : U(n) \in Nat
  BY ModulusAssumption DEF U
<1>2. b \in Nat /\ U(b) \in Nat /\ w * U(b) \in Nat /\ w * b \in Nat
  BY <1>1
<1>3. line \in Nat /\ lb \in Nat
  BY <1>1, <1>2
<1>4. w = 0 => line = 0 /\ lb = 0
  BY <1>1, <1>2, Zero0
<1> HIDE DEF b, line, lb
<1>5. line * h = 0 /\ (line \div 2) * h = 0 /\ lb * h = 0
  BY <1>3, <1>4
<1>6. SFmtImageSize(fmt, w, h) = 0
  BY <1>5, Zero0 DEF SFmtImageSize, line, b
<1>7. BufferSize(fmt, w, h) = 0
  BY <1>5, Zero0 DEF BufferSize, lb, b
<1>8. QED BY <1>6, <1>7

(* The sizes that S_FMT, G_FMT and REQBUFS compute agree on every image that  *)
(* S_FMT accepts, and none of them overflows.                                 *)
LEMMA SizesEqual ==
ASSUME NEW fmt \in PixelFormats, NEW pix, SameLayout(pix, fmt), NEW w \in Nat, NEW h \in Nat,
       Fits(w, h), Aligned(fmt, w, h, alignMask)
PROVE  /\ SFmtImageSize(fmt, w, h) \in Nat
       /\ BufferSize(pix, w, h) = SFmtImageSize(fmt, w, h)
       /\ SFmtImageSize(fmt, w, h) # 0 =>
            w # 0 /\ h # 0 /\ AssignImageSize(pix, w, h) = SFmtImageSize(fmt, w, h)
<1>1. /\ v4lBytesPerPixel(fmt) \in 1 .. 4 /\ v4lBytesPerPixel(pix) \in 1 .. 4
      /\ v4lBytesPerPixel(pix) = v4lBytesPerPixel(fmt) /\ Planar(pix) = Planar(fmt)
      /\ Planar(fmt) => v4lBytesPerPixel(fmt) = 1
  BY LayoutsKept DEF SameLayout, Told
<1>2. CASE w = 0 \/ h = 0
  BY <1>1, <1>2, EmptySize
<1>3. CASE w # 0 /\ h # 0 /\ ~Planar(fmt)
  BY <1>1, <1>3, PackedSize
<1>4. CASE w # 0 /\ h # 0 /\ Planar(fmt)
  <2>1. alignMask + 1 \in Nat \ {0} /\ (alignMask + 1) % 2 = 0
    BY FormatAssumption DEF FormatAssumption
  <2>2. w % (alignMask + 1) = 0
    BY <1>1, <1>4 DEF Aligned
  <2>3. PICK v \in Nat : w = 2 * v
    BY <2>1, <2>2, EvenMultiple
  <2>4. v # 0 /\ Fits(2 * v, h)
    BY <1>4, <2>3
  <2> DEFINE p == 3 * (v * h)
  <2>5. /\ p \in Nat /\ SFmtImageSize(fmt, 2 * v, h) = p
    BY <1>1, <1>4, <2>4, PlanarSize
  <2>6. AssignImageSize(pix, 2 * v, h) = p /\ BufferSize(pix, 2 * v, h) = p
    <3>1. v4lBytesPerPixel(pix) = 1
      BY <1>1, <1>4
    <3>2. Planar(pix)
      BY <1>1, <1>4
    <3>3. v \in Nat /\ h \in Nat /\ v # 0 /\ h # 0
      BY <1>4, <2>4
    <3>4. QED BY <2>4, <3>1, <3>2, <3>3, PlanarSize
  <2> HIDE DEF p
  <2>7. QED BY <1>4, <2>3, <2>5, <2>6
<1>5. QED BY <1>2, <1>3, <1>4

-------------------------------------------------------------------------------
(* The image that was set *)

Ws == Widths \cup {MaxW}
Hs == Heights \cup {MaxH}

SizesFit == \A w \in Ws, h \in Hs : Fits(w, h)

Shapes ==
  /\ DOMAIN cap = {"w", "h", "srcw", "srch", "pix", "bpp", "size", "planes", "scaling"}
  /\ DOMAIN hw = {"open", "pix"}
  /\ DOMAIN bufs = Buffers /\ DOMAIN queue = Buffers /\ DOMAIN pictures = {"In", "Out"}

(* While a format is being set the one before no longer counts. *)
CtlInv ==
  /\ ctl.pc \in {"idle", "set"}
  /\ ctl.pc = "set" =>
       ctl.fmt \in Fmts /\ ctl.w \in Ws /\ ctl.h \in Hs /\ hw.pix = V4LToWin(ctl.fmt) /\ ~tidy

(* The handle, the core and the application agree on the format. *)
ImageInv ==
  tidy =>
    /\ set[1] \in Fmts /\ cap.w \in Ws /\ cap.h \in Hs
    /\ Aligned(set[1], cap.w, cap.h, alignMask)
    /\ set[2] = SFmtImageSize(set[1], cap.w, cap.h)
    /\ hw.pix = V4LToWin(set[1])
    /\ Told(cap.pix, set[1])
    /\ set[2] # 0 => cap.size = set[2]

(* Buffers are as large as it. *)
BufInv ==
  /\ ~NoBuffers => set[2] # 0 /\ ctl.pc # "set"
  /\ \A i \in Buffers :
       /\ bufs[i] \in {0, set[2]}
       /\ queue[i] # "out" => tidy /\ bufs[i] # 0
       /\ queue[i] \in {"active", "done", "nosignal"} => streamed

ImgInv == Shapes /\ CtlInv /\ ImageInv /\ BufInv

(* What the constants are. *)
LEMMA SizesTyped ==
  /\ Ws \subseteq Nat /\ Hs \subseteq Nat /\ Fmts \subseteq PixelFormats
  /\ 0 \in Nat
BY FormatAssumption DEF FormatAssumption, Ws, Hs

(* The image of a format that was set, whatever the handle then takes it for. *)
LEMMA ImageSizes ==
ASSUME SizesFit, ImageInv, tidy, NEW pix, SameLayout(pix, set[1])
PROVE  /\ set[2] \in Nat
       /\ BufferSize(pix, cap.w, cap.h) = set[2]
       /\ set[2] # 0 => /\ Dimensions = <<cap.w, cap.h>>
                        /\ AssignImageSize(pix, Dimensions[1], Dimensions[2]) = set[2]
<1>1. set[1] \in PixelFormats /\ cap.w \in Nat /\ cap.h \in Nat /\ Fits(cap.w, cap.h)
  BY SizesTyped DEF ImageInv, SizesFit
<1>2. set[2] = SFmtImageSize(set[1], cap.w, cap.h) /\ Aligned(set[1], cap.w, cap.h, alignMask)
  BY DEF ImageInv
<1>3. /\ set[2] \in Nat
      /\ BufferSize(pix, cap.w, cap.h) = set[2]
      /\ set[2] # 0 => cap.w # 0 /\ cap.h # 0 /\ AssignImageSize(pix, cap.w, cap.h) = set[2]
  BY <1>1, <1>2, SizesEqual
<1>4. cap.w # 0 /\ cap.h # 0 => Dimensions = <<cap.w, cap.h>>
  BY DEF Dimensions
<1>5. QED BY <1>3, <1>4

(* S_FMT gives the format before up. *)
LEMMA SFmtPixelFormatStep ==
ASSUME ImgInv, NEW fmt \in Fmts, NEW w \in Widths, NEW h \in Heights, SFmtPixelFormat(fmt, w, h)
PROVE  ImgInv' /\ ~tidy' /\ NoBuffers'
<1>1. /\ ctl.pc = "idle" /\ NoBuffers /\ ~tidy' /\ bufs' = bufs /\ queue' = queue /\ set' = set
      /\ streamed' = streamed /\ pictures' = pictures
  BY DEF SFmtPixelFormat, bufferVars
<1>2. Captured(w, MaxW) \in Ws /\ Captured(h, MaxH) \in Hs
  BY DEF Captured, Ws, Hs
<1>3. Shapes'
  BY <1>1 DEF SFmtPixelFormat, ImgInv, Shapes
<1>4. CtlInv'
  <2>1. CASE UNCHANGED <<hw, ctl>>
    BY <1>1, <2>1 DEF CtlInv
  <2>2. CASE /\ hw' = [hw EXCEPT !.pix = V4LToWin(fmt)]
             /\ ctl' = [pc |-> "set", fmt |-> fmt, w |-> Captured(w, MaxW), h |-> Captured(h, MaxH)]
    BY <1>1, <1>2, <2>2 DEF CtlInv, ImgInv, Shapes
  <2>3. QED BY <2>1, <2>2 DEF SFmtPixelFormat
<1>5. ImageInv'
  BY <1>1 DEF ImageInv
<1>6. NoBuffers'
  BY <1>1 DEF NoBuffers
<1>7. BufInv'
  BY <1>1, <1>6 DEF ImgInv, BufInv, NoBuffers
<1>8. QED BY <1>1, <1>3, <1>4, <1>5, <1>6, <1>7 DEF ImgInv

(* A format that the core took and the handle did not. *)
LEMMA SFmtFailStep ==
ASSUME ImgInv, SFmtFail
PROVE  ImgInv'
<1>1. ctl' = Idle /\ UNCHANGED <<cap, hw, bufs, queue, pictures, set, tidy, streamed>>
  BY DEF SFmtFail, bufferVars, history
<1>2. Shapes' /\ CtlInv'
  BY <1>1 DEF ImgInv, Shapes, CtlInv, Idle
<1>3. ImageInv'
  BY <1>1 DEF ImgInv, ImageInv
<1>4. BufInv'
  BY <1>1 DEF ImgInv, BufInv, NoBuffers, Idle
<1>5. QED BY <1>2, <1>3, <1>4 DEF ImgInv

(* The format that was set. *)
LEMMA SFmtDoneStep ==
ASSUME ImgInv, SFmtDone
PROVE  ImgInv'
<1>1. /\ ctl.pc = "set" /\ ctl.fmt \in Fmts /\ ctl.w \in Ws /\ ctl.h \in Hs
      /\ hw.pix = V4LToWin(ctl.fmt) /\ ~tidy /\ NoBuffers
  BY DEF SFmtDone, ImgInv, CtlInv, BufInv
<1>2. /\ set' = <<ctl.fmt, SFmtImageSize(ctl.fmt, ctl.w, ctl.h)>> /\ tidy' = TRUE /\ ctl' = Idle
      /\ Aligned(ctl.fmt, ctl.w, ctl.h, alignMask)
      /\ UNCHANGED <<hw, bufs, queue, pictures, streamed>>
  BY DEF SFmtDone, bufferVars
<1>3. /\ cap'.w = ctl.w /\ cap'.h = ctl.h /\ cap'.pix = ctl.fmt
      /\ cap'.size = SFmtImageSize(ctl.fmt, ctl.w, ctl.h) /\ DOMAIN cap' = DOMAIN cap
  BY DEF SFmtDone, ImgInv, Shapes
<1>4. Shapes' /\ CtlInv'
  BY <1>2, <1>3 DEF ImgInv, Shapes, CtlInv, Idle
<1>5. ImageInv'
  BY <1>1, <1>2, <1>3 DEF ImageInv, Told
<1>6. BufInv'
  BY <1>1, <1>2 DEF ImgInv, BufInv, NoBuffers
<1>7. QED BY <1>4, <1>5, <1>6 DEF ImgInv

(* G_FMT takes over what the core has: the same image. *)
LEMMA GFmtStep ==
ASSUME SizesFit, ImgInv, GFmt
PROVE  ImgInv'
<1>1. UNCHANGED <<hw, ctl, bufs, queue, pictures, set, tidy, streamed>>
  BY DEF GFmt, bufferVars, history
<1>2. /\ cap'.w = cap.w /\ cap'.h = cap.h /\ cap'.pix = CoreFormat
      /\ cap'.size = AssignImageSize(CoreFormat, Dimensions[1], Dimensions[2])
      /\ DOMAIN cap' = DOMAIN cap
  BY DEF GFmt, ImgInv, Shapes
<1>3. Shapes' /\ CtlInv'
  BY <1>1, <1>2 DEF ImgInv, Shapes, CtlInv
<1>4. ASSUME tidy PROVE Told(CoreFormat, set[1]) /\ (set[2] # 0 => cap'.size = set[2])
  <2>1. set[1] \in PixelFormats /\ Told(cap.pix, set[1]) /\ hw.pix = V4LToWin(set[1])
    BY <1>4, SizesTyped DEF ImgInv, ImageInv
  <2>2. Told(CoreFormat, set[1])
    BY <2>1, LayoutsKept DEF CoreFormat, Back
  <2>3. SameLayout(CoreFormat, set[1])
    BY <2>1, <2>2, LayoutsKept
  <2>4. QED BY <1>2, <1>4, <2>2, <2>3, ImageSizes DEF ImgInv
<1>5. ImageInv'
  BY <1>1, <1>2, <1>4 DEF ImgInv, ImageInv
<1>6. BufInv'
  BY <1>1 DEF ImgInv, BufInv, NoBuffers
<1>7. QED BY <1>3, <1>5, <1>6 DEF ImgInv

(* REQBUFS makes buffers of that size. *)
LEMMA ReqbufsStep ==
ASSUME SizesFit, ImgInv, Reqbufs
PROVE  ImgInv'
<1>1. /\ tidy /\ BufferSize(cap.pix, cap.w, cap.h) # 0
      /\ bufs' = [i \in Buffers |-> BufferSize(cap.pix, cap.w, cap.h)]
      /\ NoBuffers /\ UNCHANGED <<cap, hw, ctl, queue, pictures, set, tidy, streamed>>
  BY DEF Reqbufs, imageVars, history
<1>2. set[1] \in PixelFormats /\ Told(cap.pix, set[1])
  BY <1>1, SizesTyped DEF ImgInv, ImageInv
<1>3. BufferSize(cap.pix, cap.w, cap.h) = set[2]
  BY <1>1, <1>2, LayoutsKept, ImageSizes DEF ImgInv
<1>4. Shapes' /\ CtlInv' /\ ImageInv'
  BY <1>1 DEF ImgInv, Shapes, CtlInv, ImageInv
<1>5. BufInv'
  BY <1>1, <1>3 DEF ImgInv, BufInv, NoBuffers, CtlInv
<1>6. QED BY <1>4, <1>5 DEF ImgInv

(* REQBUFS of none. *)
LEMMA ReqbufsZeroStep ==
ASSUME ImgInv, ReqbufsZero
PROVE  ImgInv'
<1>1. /\ bufs' = NoBuf /\ \A i \in Buffers : queue[i] = "out"
      /\ UNCHANGED <<cap, hw, ctl, queue, pictures, set, tidy, streamed>>
  BY DEF ReqbufsZero, imageVars, history
<1>2. Shapes' /\ CtlInv' /\ ImageInv'
  BY <1>1 DEF ImgInv, Shapes, CtlInv, ImageInv, NoBuf
<1>3. BufInv'
  BY <1>1 DEF ImgInv, BufInv, NoBuffers, NoBuf
<1>4. QED BY <1>2, <1>3 DEF ImgInv

(* A buffer is queued. *)
LEMMA QBufStep ==
ASSUME ImgInv, NEW i \in Buffers, QBuf(i)
PROVE  ImgInv'
<1>1. /\ queue[i] = "out" /\ tidy /\ queue' = [queue EXCEPT ![i] = "queued"]
      /\ UNCHANGED <<hw, ctl, pictures, set, tidy, streamed>>
  BY DEF QBuf, history
<1>2. \/ bufs' = bufs /\ cap' = cap /\ bufs[i] # 0
      \/ /\ set[2] # 0 /\ bufs' = [bufs EXCEPT ![i] = set[2]]
         /\ cap' = [cap EXCEPT !.size = set[2]]
  BY DEF QBuf
<1>3. /\ cap'.w = cap.w /\ cap'.h = cap.h /\ cap'.pix = cap.pix /\ DOMAIN cap' = DOMAIN cap
      /\ cap'.size = cap.size \/ cap'.size = set[2]
  BY <1>2 DEF ImgInv, Shapes
<1>4. /\ set[2] # 0 /\ bufs'[i] = set[2]
      /\ \A j \in Buffers : j # i => bufs'[j] = bufs[j] /\ queue'[j] = queue[j]
      /\ queue'[i] = "queued"
  BY <1>1, <1>2 DEF ImgInv, Shapes, BufInv, NoBuffers
<1>5. Shapes'
  BY <1>1, <1>2, <1>3 DEF ImgInv, Shapes
<1>6. CtlInv'
  BY <1>1 DEF ImgInv, CtlInv
<1>7. ImageInv'
  BY <1>1, <1>3 DEF ImgInv, ImageInv
<1>8. BufInv'
  BY <1>1, <1>4 DEF ImgInv, BufInv, CtlInv
<1>9. QED BY <1>5, <1>6, <1>7, <1>8 DEF ImgInv

(* A step of the stream: a buffer goes on, with the size it has. *)
LEMMA StreamStep ==
ASSUME ImgInv, NEW i \in Buffers, StartDma(i) \/ Complete(i) \/ Dqbuf(i)
PROVE  ImgInv'
<1>1. UNCHANGED <<cap, hw, ctl, set, tidy>>
  BY DEF StartDma, Complete, Dqbuf, imageVars
<1>2. queue[i] # "out" /\ tidy /\ set[2] # 0
  BY DEF StartDma, Complete, Dqbuf, ImgInv, BufInv, NoBuffers
<1>3. DOMAIN pictures' = DOMAIN pictures
  BY DEF StartDma, Complete, Dqbuf
<1>4. PICK q \in {"out", "active", "done", "nosignal"} : queue' = [queue EXCEPT ![i] = q]
  BY DEF StartDma, Complete, Dqbuf
<1>5. /\ bufs' = bufs \/ (q = "out" /\ bufs' = [bufs EXCEPT ![i] = 0])
      /\ streamed => streamed'
      /\ q # "out" => streamed'
  <2>1. CASE StartDma(i)
    BY <2>1 DEF StartDma
  <2>2. CASE Complete(i)
    BY <2>2 DEF Complete, ImgInv, BufInv
  <2>3. CASE Dqbuf(i)
    <3>1. q = "out"
      BY <1>4, <2>3 DEF Dqbuf, ImgInv, Shapes
    <3>2. QED BY <2>3, <3>1 DEF Dqbuf
  <2>4. QED BY <2>1, <2>2, <2>3
<1>6. Shapes'
  BY <1>1, <1>3, <1>4, <1>5 DEF ImgInv, Shapes
<1>7. CtlInv' /\ ImageInv'
  BY <1>1 DEF ImgInv, CtlInv, ImageInv
<1>8. BufInv'
  <2>1. ASSUME NEW j \in Buffers
        PROVE  /\ bufs'[j] \in {0, set[2]}
               /\ queue'[j] # "out" => bufs'[j] # 0
               /\ queue'[j] \in {"active", "done", "nosignal"} => streamed'
    <3>1. CASE j = i
      BY <1>2, <1>4, <1>5, <3>1 DEF ImgInv, Shapes, BufInv
    <3>2. CASE j # i
      BY <1>4, <1>5, <3>2 DEF ImgInv, Shapes, BufInv
    <3>3. QED BY <3>1, <3>2
  <2>2. QED BY <1>1, <1>2, <2>1 DEF BufInv, ImgInv, CtlInv
<1>9. QED BY <1>6, <1>7, <1>8 DEF ImgInv

(* The stream is switched on or off. *)
LEMMA SwitchStep ==
ASSUME ImgInv, StreamOn \/ StreamOff
PROVE  ImgInv'
<1>1. UNCHANGED <<cap, hw, ctl, pictures, set, tidy>> /\ (streamed => streamed')
  BY DEF StreamOn, StreamOff, imageVars, history
<1>2. \/ bufs' = bufs /\ queue' = queue
      \/ (bufs' = bufs \/ bufs' = NoBuf) /\ queue' = Out
  BY DEF StreamOn, StreamOff
<1>3. Shapes' /\ CtlInv' /\ ImageInv'
  BY <1>1, <1>2 DEF ImgInv, Shapes, CtlInv, ImageInv, NoBuf, Out
<1>4. BufInv'
  <2>1. CASE bufs' = bufs /\ queue' = queue
    BY <1>1, <2>1 DEF ImgInv, BufInv, NoBuffers
  <2>2. CASE (bufs' = bufs \/ bufs' = NoBuf) /\ queue' = Out
    BY <1>1, <2>2 DEF ImgInv, BufInv, NoBuffers, NoBuf, Out
  <2>3. QED BY <1>2, <2>1, <2>2
<1>5. QED BY <1>3, <1>4 DEF ImgInv

(* Another input: the format has to be set anew. *)
LEMMA SInputStep ==
ASSUME ImgInv, NEW ch \in Channels, SInput(ch)
PROVE  ImgInv'
<1>1. ctl = Idle /\ UNCHANGED <<cap, ctl, set>> /\ (tidy' => tidy)
  BY DEF SInput
<1>2. (bufs' = NoBuf /\ queue' = Out) \/ UNCHANGED <<bufs, queue>>
  BY DEF SInput, BuffersAfter
<1>3. \/ ~tidy' /\ (queue' = Out)
      \/ UNCHANGED <<tidy, streamed, queue>>
  BY DEF SInput, BuffersAfter
<1>4. (hw' = [hw EXCEPT !.pix = 3] /\ ~tidy') \/ hw' \in {hw, [hw EXCEPT !.open = FALSE]}
  BY DEF SInput
<1>5. pictures' \in {Zero, pictures}
  BY DEF SInput, PicturesAfter
<1>6. Shapes'
  BY <1>1, <1>2, <1>4, <1>5 DEF ImgInv, Shapes, NoBuf, Out, Zero
<1>7. CtlInv' /\ ImageInv'
  <2>1. tidy' => hw'.pix = hw.pix
    BY <1>4 DEF ImgInv, Shapes
  <2>2. QED BY <1>1, <2>1 DEF ImgInv, CtlInv, ImageInv, Idle
<1>8. BufInv'
  <2>1. \A i \in Buffers : bufs'[i] \in {0, bufs[i]} /\ (queue'[i] # "out" => queue'[i] = queue[i])
    BY <1>2 DEF NoBuf, Out
  <2>2. ~NoBuffers' => ~NoBuffers
    BY <1>2 DEF NoBuffers, NoBuf, Out
  <2>3. ASSUME NEW i \in Buffers, queue'[i] # "out"
        PROVE  UNCHANGED <<tidy, streamed, queue, bufs>>
    BY <1>2, <1>3, <2>3 DEF Out
  <2>4. QED BY <1>1, <2>1, <2>2, <2>3 DEF ImgInv, BufInv
<1>9. QED BY <1>6, <1>7, <1>8 DEF ImgInv

(* What changes neither image nor buffers; the way of scaling counts only *)
(* when the next format is set.                                           *)
LEMMA OtherStep ==
ASSUME ImgInv,
       \/ \E ch \in Channels, m \in Modes : Signal(ch, m)
       \/ QueryCtrl
       \/ \E id \in Ids \ {"SCALING"}, v \in Values : SCtrl(id, v)
       \/ \E v \in 0 .. 1 : SCtrlScaling(v)
       \/ UNCHANGED vars
PROVE  ImgInv' /\ UNCHANGED <<pictures, tidy, streamed, set, over>>
<1>1. UNCHANGED <<hw, ctl, bufs, queue, pictures, set, tidy, streamed, over>>
  BY DEF Signal, QueryCtrl, SCtrl, SCtrlScaling, vars, imageVars, bufferVars, history
<1>2. /\ cap'.w = cap.w /\ cap'.h = cap.h /\ cap'.pix = cap.pix /\ cap'.size = cap.size
      /\ DOMAIN cap' = DOMAIN cap
  <2>1. ASSUME NEW v, SCtrlScaling(v) PROVE cap' = [cap EXCEPT !.scaling = v]
    BY <2>1 DEF SCtrlScaling
  <2>2. cap' = cap \/ \E v : cap' = [cap EXCEPT !.scaling = v]
    BY <2>1 DEF Signal, QueryCtrl, SCtrl, vars, imageVars
  <2>3. QED BY <2>2 DEF ImgInv, Shapes
<1>3. Shapes' /\ CtlInv'
  BY <1>1, <1>2 DEF ImgInv, Shapes, CtlInv
<1>4. ImageInv'
  BY <1>1, <1>2 DEF ImgInv, ImageInv
<1>5. BufInv'
  BY <1>1 DEF ImgInv, BufInv, NoBuffers
<1>6. QED BY <1>1, <1>3, <1>4, <1>5 DEF ImgInv

(* In the beginning no format is set. *)
LEMMA InitImg ==
ASSUME Init
PROVE  ImgInv
<1>1. /\ ~tidy /\ ctl = Idle /\ bufs = NoBuf /\ queue = Out /\ pictures = Zero
  BY DEF Init
<1>2. Shapes
  BY <1>1 DEF Init, Shapes, NoBuf, Out, Zero
<1>3. CtlInv /\ ImageInv /\ BufInv
  BY <1>1 DEF CtlInv, ImageInv, BufInv, NoBuffers, NoBuf, Out, Idle
<1>4. QED BY <1>2, <1>3 DEF ImgInv

(* Handle, core and buffers agree on the image, always. *)
THEOREM ImageAgreed == ASSUME SizesFit PROVE Spec => []ImgInv
<1>1. ImgInv /\ [Next]_vars => ImgInv'
  BY SFmtPixelFormatStep, SFmtFailStep, SFmtDoneStep, GFmtStep, ReqbufsStep, ReqbufsZeroStep, QBufStep,
     StreamStep, SwitchStep, SInputStep, OtherStep DEF Next
<1>2. QED BY <1>1, InitImg, PTL DEF Spec

(* A format that was set with success stays the handle's format and its size *)
(* the size of its image: G_FMT, QBUF, controls and signals do not change it. *)
THEOREM FormatKept == ASSUME SizesFit PROVE Spec => []FormatStays
<1>1. ImgInv => FormatStays
  BY DEF ImgInv, ImageInv, FormatStays, Told
<1>2. QED BY <1>1, ImageAgreed, PTL

-------------------------------------------------------------------------------
(* Pictures and frames *)

(* A picture is as large as the image; before one is made nothing streamed. *)
PicInv ==
  \A p \in {"In", "Out"} :
    pictures[p] # 0 => tidy /\ streamed /\ pictures[p] = set[2]

(* The copy of an image that was set runs past nothing. *)
LEMMA NoOverrun ==
ASSUME SizesFit, ImgInv, PicInv, NEW i \in Buffers, NEW p \in {"In", "Out"}, queue[i] # "out"
PROVE  Overrun(p, i) = {} /\ Made(p) = set[2] /\ tidy
<1>1. tidy /\ set[2] # 0 /\ bufs[i] = set[2]
  BY DEF ImgInv, BufInv, NoBuffers
<1>2. set[2] \in Nat
  <2>1. set[1] \in PixelFormats /\ SameLayout(set[1], set[1])
    BY <1>1, SizesTyped DEF ImgInv, ImageInv, SameLayout
  <2>2. QED BY <1>1, <2>1, ImageSizes DEF ImgInv
<1>3. cap.size = set[2] /\ Made(p) = set[2]
  BY <1>1 DEF ImgInv, ImageInv, PicInv, Made
<1>4. QED BY <1>1, <1>2, <1>3 DEF Overrun

(* Nor does the frame that the card writes. *)
LEMMA CardFits ==
ASSUME SizesFit, ImgInv, NEW i \in Buffers, queue[i] # "out"
PROVE  ~(AssignImageSize(WinToV4L(hw.pix), Dimensions[1], Dimensions[2]) > bufs[i])
<1>1. tidy /\ set[2] # 0 /\ bufs[i] = set[2]
  BY DEF ImgInv, BufInv, NoBuffers
<1>2. set[1] \in PixelFormats /\ hw.pix = V4LToWin(set[1]) /\ Told(cap.pix, set[1])
  BY <1>1, SizesTyped DEF ImgInv, ImageInv
<1>3. SameLayout(WinToV4L(hw.pix), set[1])
  BY <1>2, LayoutsKept DEF Back
<1>4. set[2] \in Nat /\ AssignImageSize(WinToV4L(hw.pix), Dimensions[1], Dimensions[2]) = set[2]
  BY <1>1, <1>3, ImageSizes DEF ImgInv
<1>5. QED BY <1>1, <1>4

(* An application that keeps its format once it has streamed. *)
LEMMA PicStep ==
ASSUME Resizes = FALSE, SizesFit, ImgInv, PicInv, over = {}, [Next]_vars
PROVE  PicInv' /\ over' = {}
<1>1. ASSUME NEW fmt \in Fmts, NEW w \in Widths, NEW h \in Heights, SFmtPixelFormat(fmt, w, h)
      PROVE  PicInv' /\ over' = {}
  BY <1>1 DEF SFmtPixelFormat, bufferVars, PicInv
<1>2. CASE SFmtFail \/ GFmt
  BY <1>2 DEF SFmtFail, GFmt, bufferVars, history, PicInv
<1>3. CASE SFmtDone
  BY <1>3 DEF SFmtDone, bufferVars, PicInv, ImgInv, CtlInv
<1>4. CASE Reqbufs \/ ReqbufsZero
  BY <1>4 DEF Reqbufs, ReqbufsZero, history, PicInv
<1>5. CASE StreamOn \/ StreamOff
  BY <1>5 DEF StreamOn, StreamOff, history, PicInv
<1>6. ASSUME NEW i \in Buffers, QBuf(i) PROVE PicInv' /\ over' = {}
  BY <1>6 DEF QBuf, history, PicInv
<1>7. ASSUME NEW i \in Buffers, StartDma(i) PROVE PicInv' /\ over' = {}
  <2>1. Overrun("In", i) = {} /\ Made("In") = set[2] /\ tidy
    BY <1>7, NoOverrun DEF StartDma
  <2>2. /\ pictures' = [pictures EXCEPT !.In = set[2]] /\ streamed' = TRUE
        /\ over' = over \cup {} /\ UNCHANGED <<set, tidy>>
    BY <1>7, <2>1 DEF StartDma
  <2>3. PicInv'
    BY <2>1, <2>2 DEF PicInv, ImgInv, Shapes
  <2>4. QED BY <2>2, <2>3
<1>8. ASSUME NEW i \in Buffers, Complete(i) PROVE PicInv' /\ over' = {}
  <2>1. over' = over
    BY <1>8, CardFits DEF Complete
  <2>2. UNCHANGED <<pictures, set, tidy, streamed>>
    BY <1>8 DEF Complete
  <2>3. QED BY <2>1, <2>2 DEF PicInv
<1>9. ASSUME NEW i \in Buffers, Dqbuf(i) PROVE PicInv' /\ over' = {}
  <2>1. UNCHANGED <<set, tidy, streamed>>
    BY <1>9 DEF Dqbuf
  <2>2. CASE queue[i] = "done"
    BY <1>9, <2>1, <2>2 DEF Dqbuf, PicInv
  <2>3. CASE queue[i] = "nosignal"
    <3>1. Overrun("Out", i) = {} /\ Made("Out") = set[2] /\ tidy /\ streamed
      BY <2>3, NoOverrun DEF ImgInv, BufInv
    <3>2. pictures' = [pictures EXCEPT !.Out = set[2]] /\ over' = over \cup {}
      BY <1>9, <2>3, <3>1 DEF Dqbuf
    <3>3. PicInv'
      BY <2>1, <3>1, <3>2 DEF PicInv, ImgInv, Shapes
    <3>4. QED BY <3>2, <3>3
  <2>4. QED BY <1>9, <2>2, <2>3 DEF Dqbuf
<1>10. ASSUME NEW ch \in Channels, SInput(ch) PROVE PicInv' /\ over' = {}
  BY <1>10 DEF SInput, PicturesAfter, Zero, PicInv
<1>11. CASE \/ \E ch \in Channels, m \in Modes : Signal(ch, m)
            \/ QueryCtrl
            \/ \E id \in Ids \ {"SCALING"}, v \in Values : SCtrl(id, v)
            \/ \E v \in 0 .. 1 : SCtrlScaling(v)
            \/ UNCHANGED vars
  <2>1. UNCHANGED <<pictures, tidy, streamed, set, over>>
    BY <1>11, OtherStep
  <2>2. QED BY <2>1 DEF PicInv
<1>12. QED BY <1>1, <1>2, <1>3, <1>4, <1>5, <1>6, <1>7, <1>8, <1>9, <1>10, <1>11 DEF Next

(* No copy of a picture and no frame of the card runs past the end of the *)
(* picture or of the buffer, if the application does not set another      *)
(* format once it has streamed.                                           *)
THEOREM NothingOverrun == ASSUME Resizes = FALSE, SizesFit PROVE Spec => []FillsFit
<1>1. Init => PicInv /\ over = {}
  BY DEF Init, PicInv, Zero
<1>2. ImgInv /\ PicInv /\ over = {} /\ [Next]_vars => PicInv' /\ (over = {})'
  BY PicStep
<1>3. over = {} => FillsFit
  BY DEF FillsFit
<1>4. QED BY <1>1, <1>2, <1>3, ImageAgreed, PTL DEF Spec

-------------------------------------------------------------------------------
(* Limits *)

(* The limits of an input that was opened are those of its signal, as far as *)
(* they do not change or were asked for since.                               *)
LimInv ==
  /\ DOMAIN limits = Channels /\ \A ch \in Channels : DOMAIN limits[ch] = Ids
  /\ DOMAIN hw = {"open", "pix"}
  /\ mode \in [Channels -> Modes] /\ channel \in Channels
  /\ hw.open => channel \in inited
  /\ \A ch \in Channels, id \in Ids :
       (ch \in inited /\ id \notin DynamicControls) \/ (ch \in fresh /\ id \in DynamicControls) =>
         limits[ch][id] = LimitsOf[<<id, mode[ch]>>]

(* A step keeps the limits of the controls. *)
LEMMA LimStep ==
ASSUME LimInv, [Next]_vars
PROVE  LimInv'
<1>1. CASE UNCHANGED <<channel, mode, limits, inited, fresh, hw>>
  BY <1>1 DEF LimInv
<1>2. ASSUME NEW fmt, NEW w, NEW h, SFmtPixelFormat(fmt, w, h) PROVE LimInv'
  <2>1. UNCHANGED <<channel, mode, limits, inited, fresh>>
    BY <1>2 DEF SFmtPixelFormat, inputVars
  <2>2. hw'.open = hw.open /\ DOMAIN hw' = DOMAIN hw
    BY <1>2 DEF SFmtPixelFormat, LimInv
  <2>3. QED BY <2>1, <2>2 DEF LimInv
<1>3. ASSUME NEW ch \in Channels, SInput(ch) PROVE LimInv'
  <2>1. UNCHANGED <<mode, fresh>>
    BY <1>3 DEF SInput
  <2>2. CASE /\ channel' \in {channel, ch} /\ UNCHANGED <<limits, inited>>
             /\ hw' = [hw EXCEPT !.open = FALSE]
    BY <2>1, <2>2 DEF LimInv
  <2>3. CASE UNCHANGED <<channel, limits, inited, hw>>
    BY <2>1, <2>3 DEF LimInv
  <2>4. CASE channel' = ch /\ hw' = [hw EXCEPT !.pix = 3] /\ Opened(ch)
    <3>1. inited' = inited \cup {ch} /\ DOMAIN hw' = {"open", "pix"}
      BY <2>4 DEF Opened, LimInv
    <3>2. CASE ch \in inited
      <4>1. limits' = limits /\ inited' = inited
        BY <2>4, <3>2 DEF Opened
      <4>2. QED BY <2>1, <2>4, <3>1, <3>2, <4>1 DEF LimInv
    <3>3. CASE ch \notin inited
      <4>1. limits' = [limits EXCEPT ![ch] = Cached(mode[ch])]
        BY <2>4, <3>3 DEF Opened
      <4>2. limits'[ch] = Cached(mode[ch]) /\ \A d \in Channels \ {ch} : limits'[d] = limits[d]
        BY <4>1 DEF LimInv
      <4>3. /\ DOMAIN Cached(mode[ch]) = Ids
            /\ \A id \in Ids : Cached(mode[ch])[id] = LimitsOf[<<id, mode[ch]>>]
        BY DEF Cached
      <4>4. DOMAIN limits' = Channels /\ \A d \in Channels : DOMAIN limits'[d] = Ids
        BY <4>1, <4>2, <4>3 DEF LimInv
      <4>5. QED BY <2>1, <2>4, <3>1, <4>2, <4>3, <4>4 DEF LimInv
    <3>4. QED BY <3>2, <3>3
  <2>5. QED BY <1>3, <2>2, <2>3, <2>4 DEF SInput
<1>4. ASSUME NEW ch \in Channels, NEW m \in Modes, Signal(ch, m) PROVE LimInv'
  <2>1. /\ mode' = [mode EXCEPT ![ch] = m] /\ fresh' = fresh \ {ch}
        /\ UNCHANGED <<channel, limits, inited, hw>>
    BY <1>4 DEF Signal, imageVars
  <2>2. mode' \in [Channels -> Modes] /\ mode'[ch] = m /\ \A d \in Channels \ {ch} : mode'[d] = mode[d]
    BY <2>1 DEF LimInv
  <2>3. ASSUME NEW d \in Channels, NEW id \in Ids,
               (d \in inited /\ id \notin DynamicControls) \/ (d \in fresh' /\ id \in DynamicControls)
        PROVE  limits[d][id] = LimitsOf[<<id, mode'[d]>>]
    <3>1. limits[d][id] = LimitsOf[<<id, mode[d]>>]
      BY <2>1, <2>3 DEF LimInv
    <3>2. CASE d # ch
      BY <2>2, <3>1, <3>2
    <3>3. CASE d = ch
      BY <2>1, <2>2, <2>3, <3>1, <3>3, StaticLimits DEF LimInv
    <3>4. QED BY <3>2, <3>3
  <2>4. QED BY <2>1, <2>2, <2>3 DEF LimInv
<1>5. CASE QueryCtrl
  <2>1. /\ limits' = Refreshed(channel) /\ fresh' = fresh \cup {channel}
        /\ UNCHANGED <<channel, mode, inited, hw>>
    BY <1>5 DEF QueryCtrl, imageVars
  <2> DEFINE new == [id \in Ids |-> IF id \in DynamicControls THEN Cached(mode[channel])[id]
                                     ELSE limits[channel][id]]
  <2>2. limits' = [limits EXCEPT ![channel] = new]
    BY <2>1 DEF Refreshed
  <2>3. /\ DOMAIN new = Ids
        /\ \A id \in Ids : new[id] = IF id \in DynamicControls THEN LimitsOf[<<id, mode[channel]>>]
                                      ELSE limits[channel][id]
    BY DEF Cached
  <2> HIDE DEF new
  <2>4. limits'[channel] = new /\ \A d \in Channels \ {channel} : limits'[d] = limits[d]
    BY <2>2 DEF LimInv
  <2>5. DOMAIN limits' = Channels /\ \A d \in Channels : DOMAIN limits'[d] = Ids
    BY <2>2, <2>3, <2>4 DEF LimInv
  <2>6. QED BY <2>1, <2>3, <2>4, <2>5 DEF LimInv
<1>6. QED
  BY <1>1, <1>2, <1>3, <1>4, <1>5
  DEF Next, SFmtFail, SFmtDone, GFmt, Reqbufs, ReqbufsZero, StreamOn, StreamOff, QBuf, StartDma, Complete,
      Dqbuf, SCtrl, SCtrlScaling, vars, imageVars, inputVars, history

(* The settings of a channel are those of the controls in use. *)
ValInv == DOMAIN value = Channels /\ \A ch \in Channels : DOMAIN value[ch] = Ids

(* A step keeps a value for every control of every channel. *)
LEMMA ValStep ==
ASSUME ValInv, LimInv, [Next]_vars
PROVE  ValInv'
<1>1. CASE UNCHANGED value
  BY <1>1 DEF ValInv
<1>2. ASSUME NEW id, NEW v, value' = [value EXCEPT ![channel] = [value[channel] EXCEPT ![id] = v]]
      PROVE  ValInv'
  <2>1. DOMAIN value' = Channels
    BY <1>2 DEF ValInv
  <2>2. \A ch \in Channels : DOMAIN value'[ch] = DOMAIN value[ch]
    BY <1>2 DEF ValInv, LimInv
  <2>3. QED BY <2>1, <2>2 DEF ValInv
<1>3. UNCHANGED value \/ \E id, v : value' = [value EXCEPT ![channel][id] = v]
  BY DEF Next, SFmtPixelFormat, SFmtFail, SFmtDone, GFmt, Reqbufs, ReqbufsZero, StreamOn, StreamOff, QBuf,
         StartDma, Complete, Dqbuf, SInput, Signal, QueryCtrl, SCtrl, SCtrlScaling, vars, inputVars
<1>4. QED BY <1>1, <1>2, <1>3

(* The setting of a control is changed by S_CTRL of that control alone. *)
LEMMA ChangedByCtrl ==
ASSUME ValInv, LimInv, Next, NEW id \in Ids, value'[channel][id] # value[channel][id]
PROVE  \E v \in Values : SCtrl(id, v) /\ value'[channel][id] = v
<1>1. PICK c \in Ids \ {"SCALING"}, v \in Values : SCtrl(c, v)
  BY DEF Next, SFmtPixelFormat, SFmtFail, SFmtDone, GFmt, Reqbufs, ReqbufsZero, StreamOn, StreamOff, QBuf,
         StartDma, Complete, Dqbuf, SInput, Signal, QueryCtrl, SCtrlScaling, inputVars
<1>2. value' = [value EXCEPT ![channel] = [value[channel] EXCEPT ![c] = v]]
  BY <1>1 DEF SCtrl
<1>3. value'[channel] = [value[channel] EXCEPT ![c] = v]
  BY <1>2 DEF ValInv, LimInv
<1>4. id = c /\ value'[channel][id] = v
  BY <1>3 DEF ValInv, LimInv
<1>5. QED BY <1>1, <1>4

(* A value that the core is given lies within the limits of the present signal, *)
(* if a control of the input was queried since the signal last changed.         *)
THEOREM Policed == Spec => PolicedWhenQueried
<1> DEFINE Within == \A id \in Ids :
       value'[channel][id] # value[channel][id] /\ channel \in fresh =>
         /\ value'[channel][id] >= LimitsOf[<<id, mode[channel]>>][1]
         /\ value'[channel][id] <= LimitsOf[<<id, mode[channel]>>][2]
<1>1. Init => LimInv
  <2> SUFFICES ASSUME Init PROVE LimInv
    OBVIOUS
  <2>1. /\ hw.open /\ DOMAIN hw = {"open", "pix"} /\ channel \in Channels /\ mode \in [Channels -> Modes]
        /\ inited = {channel} /\ fresh = {}
        /\ limits = [ch \in Channels |-> IF ch = channel THEN Cached(mode[ch])
                                         ELSE [id \in Ids |-> DefaultLimits(id)]]
    BY DEF Init
  <2>2. DOMAIN limits = Channels /\ \A ch \in Channels : DOMAIN limits[ch] = Ids
    BY <2>1 DEF Cached
  <2>3. \A id \in Ids : limits[channel][id] = LimitsOf[<<id, mode[channel]>>]
    BY <2>1 DEF Cached
  <2>4. QED BY <2>1, <2>2, <2>3 DEF LimInv
<1>2. Init => ValInv
  BY DEF Init, ValInv
<1>3. ValInv /\ LimInv /\ [Next]_vars => [Within]_vars
  <2> SUFFICES ASSUME ValInv, LimInv, Next, NEW id \in Ids, value'[channel][id] # value[channel][id],
                      channel \in fresh
               PROVE  /\ value'[channel][id] >= LimitsOf[<<id, mode[channel]>>][1]
                      /\ value'[channel][id] <= LimitsOf[<<id, mode[channel]>>][2]
    OBVIOUS
  <2>1. PICK v \in Values : SCtrl(id, v) /\ value'[channel][id] = v
    BY ChangedByCtrl
  <2>2. hw.open /\ v >= limits[channel][id][1] /\ v <= limits[channel][id][2]
    BY <2>1 DEF SCtrl
  <2>3. limits[channel][id] = LimitsOf[<<id, mode[channel]>>]
    BY <2>2 DEF LimInv
  <2>4. QED BY <2>1, <2>2, <2>3
<1>4. QED BY <1>1, <1>2, <1>3, LimStep, ValStep, PTL DEF Spec, PolicedWhenQueried

-------------------------------------------------------------------------------
(* Rates *)

(* Any rate whose denominator does not overflow, below some 4290 Hertz in the *)
(* code, loses at most a thousandth of a Hertz when the application reads it  *)
(* and sets it again.                                                         *)
THEOREM RateAlwaysKept ==
  \A rate \in Nat : 1001 * rate < Modulus =>
    GetSampleRate(1001, AssignTimePerFrame(rate, 0)) \in rate - 1 .. rate
<1> SUFFICES ASSUME NEW rate \in Nat, 1001 * rate < Modulus
             PROVE  GetSampleRate(1001, AssignTimePerFrame(rate, 0)) \in rate - 1 .. rate
  OBVIOUS
<1> DEFINE d == (1001 * rate) \div 1000
           s == (d * 1000) \div 1001
<1>1. 1001 * rate \in Nat /\ Modulus \in Nat
  BY ModulusAssumption
<1>2. d \in Nat /\ d * 1000 <= 1001 * rate /\ 1001 * rate < d * 1000 + 1000
  OBVIOUS
<1>3. AssignTimePerFrame(rate, 0) = d
  <2>1. d < Modulus
    BY <1>1, <1>2
  <2>2. (IF rate = 0 THEN 0 ELSE rate) = rate
    OBVIOUS
  <2>3. AssignTimePerFrame(rate, 0) = U(d)
    BY <2>2 DEF AssignTimePerFrame
  <2> HIDE DEF d
  <2>4. QED BY <1>2, <2>1, <2>3, Small
<1> HIDE DEF d
<1>4. s \in Nat /\ s * 1001 <= d * 1000 /\ d * 1000 < s * 1001 + 1001
  BY <1>2
<1>5. d * 1000 \in Nat /\ d * 1000 < Modulus
  BY <1>1, <1>2
<1>6. GetSampleRate(1001, d) = IF d = 0 THEN 0 ELSE s
  BY <1>5, Small DEF GetSampleRate
<1> HIDE DEF s
<1>7. CASE d = 0
  <2>1. rate = 0
    BY <1>7, <1>2
  <2>2. QED BY <1>3, <1>6, <1>7, <2>1
<1>8. CASE d # 0
  <2>1. rate - 1 <= s /\ s <= rate
    BY <1>2, <1>4
  <2>2. QED BY <1>3, <1>4, <1>6, <1>8, <2>1
<1>9. QED BY <1>7, <1>8

(* Pictures without signal come one frame time apart whatever the frame time *)
(* is, if the application is back within it, and whatever was added the last *)
(* time; else as soon as the application asks.                               *)
THEOREM AlwaysPaced ==
  \A timeout, adjust, busy \in Nat, now \in Nat \ {0} :
    LET again == CalculateLostReadTime(timeout, now, now + adjust + busy, adjust) IN
    again + busy = IF busy <= timeout THEN timeout ELSE busy
<1> SUFFICES ASSUME NEW timeout \in Nat, NEW adjust \in Nat, NEW busy \in Nat, NEW now \in Nat \ {0}
             PROVE  CalculateLostReadTime(timeout, now, now + adjust + busy, adjust) + busy
                    = IF busy <= timeout THEN timeout ELSE busy
  OBVIOUS
<1>1. (now + adjust + busy) - now - adjust = busy
  OBVIOUS
<1>2. CalculateLostReadTime(timeout, now, now + adjust + busy, adjust)
      = IF busy <= timeout THEN timeout - busy ELSE 0
  BY <1>1 DEF CalculateLostReadTime
<1>3. QED BY <1>2
================================================================================
