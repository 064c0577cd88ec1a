----------------------------- MODULE UvcFormat ------------------------------
(***************************************************************************)
(* The formats of a video stream: how uvcvideo_kmod/uvc_driver.c reads     *)
(* them from the descriptors of a camera, and how uvc_v4l2.c and           *)
(* uvc_video.c choose among them what a program is given.  A descriptor is *)
(* a record: its kind, whether it is as long as its kind asks, and the     *)
(* fields that are used.  An interval is in units of a second / Unit.      *)
(***************************************************************************)
EXTENDS Integers, SequencesExt

CONSTANTS
  Unit,           \* 10000000 in the code
  Word,           \* stands for 2 ^ 32
  RestrictRate,   \* UVC_QUIRK_RESTRICT_FRAME_RATE
  OldVersion      \* dev->uvc_version < 0x0110

ASSUME UnitAssumption == Unit \in Nat \ {0} /\ Word \in Nat \ {0}
ASSUME QuirksAssumption == RestrictRate \in BOOLEAN /\ OldVersion \in BOOLEAN

Saturated == Word - 1

-----------------------------------------------------------------------------
\* uvc_parse_format: the frames that may follow a format, and the rest.
FrameOf == [FORMAT_UNCOMPRESSED |-> "FRAME_UNCOMPRESSED", FORMAT_MJPEG |-> "FRAME_MJPEG",
            FORMAT_FRAME_BASED |-> "FRAME_FRAME_BASED", FORMAT_DV |-> "none"]
IsFormat(d) == d.kind \in DOMAIN FrameOf

DummyFrame == [index |-> 0, width |-> 0, height |-> 0, size |-> 0, default |-> 1,
               stepwise |-> FALSE, intervals |-> <<1>>]

ParseFormat(d) ==
  [index |-> d.index,
   fcc |-> IF d.kind \in {"FORMAT_MJPEG", "FORMAT_DV"} THEN d.kind ELSE d.fcc,
   bpp |-> IF d.kind \in {"FORMAT_MJPEG", "FORMAT_DV"} THEN 0 ELSE d.bpp,
   compressed |-> CASE d.kind = "FORMAT_UNCOMPRESSED" -> FALSE
                    [] d.kind = "FORMAT_FRAME_BASED" -> d.compressed
                    [] OTHER -> TRUE,
   frames |-> IF d.kind = "FORMAT_DV" THEN <<DummyFrame>> ELSE <<>>]

\* A null interval counts as 1; the default is brought between the bounds.
FrameSize(format, d) ==
  IF format.compressed
  THEN IF d.kind = "FRAME_FRAME_BASED" THEN 0 ELSE d.size
  ELSE (format.bpp * d.width * d.height) \div 8

ParseFrame(format, d) ==
  LET intervals == [i \in DOMAIN d.intervals |-> IF d.intervals[i] = 0 THEN 1 ELSE d.intervals[i]]
      highest == intervals[IF d.stepwise THEN 2 ELSE Len(intervals)]
      default == Min({highest, Max({intervals[1], d.default})})
  IN [index |-> d.index, width |-> d.width, height |-> d.height,
      size |-> FrameSize(format, d), default |-> default,
      stepwise |-> d.stepwise /\ ~RestrictRate,
      intervals |-> IF RestrictRate THEN <<default>> ELSE intervals]

\* uvc_parse_streaming: one descriptor after the other.  "stage" is what may
\* still follow in the format that is being read.
ParseStep(s, d) ==
  LET last == Len(s.formats)
      format == s.formats[last]
      framed == s.stage = "frames" /\ d.kind = FrameOf[s.kind]
      still == s.stage = "frames" /\ d.kind = "STILL_IMAGE_FRAME"
      color == s.stage \in {"frames", "color"} /\ d.kind = "COLORFORMAT"
  IN CASE s.failed -> s
       [] (IsFormat(d) \/ framed \/ color) /\ ~d.complete -> [s EXCEPT !.failed = TRUE]
       [] IsFormat(d) /\ d.complete ->
            [s EXCEPT !.formats = Append(@, ParseFormat(d)), !.stage = "frames", !.kind = d.kind]
       [] framed /\ d.complete ->
            [s EXCEPT !.formats[last].frames = Append(@, ParseFrame(format, d))]
       [] still -> [s EXCEPT !.stage = "color"]
       [] OTHER -> [s EXCEPT !.stage = "none"]

\* The class-specific descriptors that follow each other, from the first one on.
ClassSpecific(ds) ==
  LET IsStandard(d) == d.kind = "STANDARD"
      IsClassSpecific(d) == d.kind # "STANDARD"
      first == SelectInSeq(ds, IsClassSpecific)
      rest == IF first = 0 THEN <<>> ELSE SubSeq(ds, first, Len(ds))
      next == SelectInSeq(rest, IsStandard)
  IN IF next = 0 THEN rest ELSE SubSeq(rest, 1, next - 1)

HasHeader(ds) ==
  ds # <<>> /\ Head(ds).kind \in {"INPUT_HEADER", "OUTPUT_HEADER"} /\ Head(ds).complete

\* The formats, none when the interface is not used.
Parse(ds) ==
  LET begin == [formats |-> <<>>, stage |-> "none", kind |-> "none", failed |-> FALSE]
      s == FoldLeft(ParseStep, begin, Tail(ClassSpecific(ds)))
  IN IF ~HasHeader(ClassSpecific(ds)) \/ s.failed THEN <<>> ELSE s.formats

\* wMaxPacketSize: bytes, and further transactions in a microframe.
PacketBytes(w) == (w % 2048) * (1 + ((w \div 2048) % 4))
MaxPacketSize(packets) == Max({PacketBytes(w) : w \in packets})

\* uvc_init_video: of the alternate settings the smallest that carries the
\* bandwidth, which is not the one the camera has asked for.
Bandwidth == 768
FastEnough(packets) == {w \in packets : PacketBytes(w) >= Bandwidth}

-----------------------------------------------------------------------------
\* uvc_v4l2_try_format: the first format of that name, or the default one,
\* and the first of the frames that are nearest in size.
Distance(frame, w, h) ==
  frame.width * frame.height + w * h - 2 * Min({frame.width, w}) * Min({frame.height, h})

TryFormat(formats, default, fcc) ==
  LET found == {i \in DOMAIN formats : formats[i].fcc = fcc}
  IN IF found = {} THEN default ELSE Min(found)

\* Mutant of TryFrame: the last frame that is larger, if there is one.
TryFrameLarger(format, w, h) ==
  LET larger == {i \in DOMAIN format.frames :
                   format.frames[i].width >= w /\ format.frames[i].height >= h}
  IN IF larger = {} THEN Len(format.frames) ELSE Max(larger)

TryFrame(format, w, h) ==
  LET at(i) == Distance(format.frames[i], w, h)
  IN Min({i \in DOMAIN format.frames : \A j \in DOMAIN format.frames : at(i) <= at(j)})

\* uvc_try_frame_interval: in a list, up to the last that does not take it
\* farther away; in a range, rounded to a step in the arithmetic of a word.
Gap(a, b) == IF a > b THEN a - b ELSE b - a

\* Mutant of NearestListed: the last that is not longer.
LastListed(list, interval) ==
  LET shorter == {i \in DOMAIN list : list[i] <= interval}
  IN list[IF shorter = {} THEN 1 ELSE Max(shorter)]

NearestListed(list, interval) ==
  LET away == {i \in 2 .. Len(list) : Gap(interval, list[i]) > Gap(interval, list[i - 1])}
  IN list[IF away = {} THEN Len(list) ELSE Min(away) - 1]

NearestStep(low, high, step, interval) ==
  LET steps == ((interval - low + (step \div 2)) % Word) \div step
  IN Min({high, (low + steps * step) % Word})

TryFrameInterval(frame, interval) ==
  IF frame.stepwise
  THEN NearestStep(frame.intervals[1], frame.intervals[2], frame.intervals[3], interval)
  ELSE NearestListed(frame.intervals, interval)

-----------------------------------------------------------------------------
\* uvc_simplify_fraction: the terms of the continued fraction, until one is
\* as large as the threshold, folded back into a fraction.
Terms == 8
Threshold == 333

ContinuedFraction(x, y) ==
  LET Step(s, n) ==
        IF s.done \/ s.y = 0 THEN s
        ELSE IF s.x \div s.y >= Threshold
        THEN [s EXCEPT !.done = TRUE,
                !.terms = IF n <= 2 THEN Append(@, s.x \div s.y) ELSE @]
        ELSE [s EXCEPT !.terms = Append(@, s.x \div s.y), !.x = s.y, !.y = s.x % s.y]
  IN FoldLeft(Step, [terms |-> <<>>, x |-> x, y |-> y, done |-> FALSE],
              [n \in 1 .. Terms |-> n]).terms

Simplify(x, y) ==
  LET Back(term, f) == <<term * f[1] + f[2], f[1]>>
  IN FoldRight(Back, ContinuedFraction(x, y), <<1, 0>>)

\* uvc_fraction_to_interval: the multiplier is halved until the product fits.
FractionToInterval(numerator, denominator) ==
  IF denominator = 0 \/ numerator \div denominator >= Saturated \div Unit THEN Saturated
  ELSE LET halves == CHOOSE k \in 0 .. 31 :
             /\ numerator <= Saturated \div (Unit \div 2 ^ k)
             /\ \A j \in 0 .. k - 1 : numerator > Saturated \div (Unit \div 2 ^ j)
           d == denominator \div 2 ^ halves
       IN IF d = 0 THEN 0 ELSE (numerator * (Unit \div 2 ^ halves)) \div d

-----------------------------------------------------------------------------
\* uvc_fixup_video_ctrl: what the camera says of the size of a frame, and
\* with UVC_QUIRK_FIX_BANDWIDTH of the bandwidth, is computed instead.
Fixup(format, frame, size) ==
  IF ~format.compressed \/ (size = 0 /\ OldVersion) THEN frame.size ELSE size

EstimatedBandwidth(format, frame, interval, highSpeed) ==
  LET usable == IF interval > Unit \div 100 THEN interval ELSE frame.intervals[1]
      second == ((frame.width * frame.height) \div 8) * format.bpp * (Unit \div usable + 1)
      packet == (second \div 1000) \div (IF highSpeed THEN 8 ELSE 1)
  IN Max({1024, packet + 12})

-----------------------------------------------------------------------------
\* VIDIOC_ENUM_FRAMESIZES and VIDIOC_ENUM_FRAMEINTERVALS, for a format that is
\* asked for by its name: the sizes of the first one of that name, and of the
\* first of its frames of a size the intervals, as fractions.
Named(formats, fcc) == formats[Min({i \in DOMAIN formats : formats[i].fcc = fcc})]

EnumFrameSizes(formats, fcc) ==
  LET frames == Named(formats, fcc).frames
  IN {[fcc |-> fcc, w |-> frames[i].width, h |-> frames[i].height] : i \in DOMAIN frames}

FrameOfSize(frames, size) ==
  frames[Min({i \in DOMAIN frames : frames[i].width = size.w /\ frames[i].height = size.h})]

EnumIntervals(formats, size) ==
  LET frame == FrameOfSize(Named(formats, size.fcc).frames, size)
  IN IF frame.stepwise THEN {}
     ELSE {Simplify(frame.intervals[i], Unit) : i \in DOMAIN frame.intervals}

-----------------------------------------------------------------------------
\* Independent of the above: what is nearest, by the pixels two sizes do not
\* share, and by the distance of two intervals.
Pixels(w, h) == (1 .. w) \X (1 .. h)
Unshared(a, b) == Cardinality((a \ b) \cup (b \ a))
NearestFrame(format, frame, w, h) ==
  \A i \in DOMAIN format.frames :
    LET other == format.frames[i]
    IN Unshared(Pixels(frame.width, frame.height), Pixels(w, h))
         <= Unshared(Pixels(other.width, other.height), Pixels(w, h))

Offers(frame, x) ==
  IF frame.stepwise
  THEN LET low == frame.intervals[1]  high == frame.intervals[2]
       IN low <= x /\ x <= high /\ (x = high \/ (x - low) % frame.intervals[3] = 0)
  ELSE x \in ToSet(frame.intervals)

=============================================================================
