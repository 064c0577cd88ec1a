----------------------------- MODULE MCUvcV4l2 ------------------------------
(* A small camera for UvcV4l2, with the intervals of real ones.            *)
EXTENDS UvcV4l2

FormatD(kind, index, fcc, bpp, compressed) ==
  [kind |-> kind, complete |-> TRUE, index |-> index, fcc |-> fcc, bpp |-> bpp,
   compressed |-> compressed]
FrameD(kind, index, w, h, default, stepwise, intervals) ==
  [kind |-> kind, complete |-> TRUE, index |-> index, width |-> w, height |-> h,
   size |-> 9, default |-> default, stepwise |-> stepwise, intervals |-> intervals]
Extra(kind, complete) == [kind |-> kind, complete |-> complete]

Uncompressed == <<
  FormatD("FORMAT_UNCOMPRESSED", 1, "YUYV", 16, FALSE),
  FrameD("FRAME_UNCOMPRESSED", 1, 3, 2, 333333, FALSE, <<166666, 333333, 666666>>),
  FrameD("FRAME_UNCOMPRESSED", 2, 2, 4, 0, FALSE, <<400000, 500000, 1000000, 2000000>>),
  Extra("STILL_IMAGE_FRAME", TRUE), Extra("COLORFORMAT", TRUE)>>
Compressed == <<
  FormatD("FORMAT_MJPEG", 2, "none", 0, TRUE),
  FrameD("FRAME_MJPEG", 1, 4, 3, 333333, TRUE, <<333333, 666666, 0>>)>>
Header == Extra("INPUT_HEADER", TRUE)
Plain ==
  <<Extra("STANDARD", TRUE), Header, Extra("VENDOR", TRUE)>> \o Uncompressed \o Compressed
    \o <<Extra("STANDARD", TRUE), FormatD("FORMAT_DV", 9, "none", 0, TRUE)>>
Coded == <<
  Header, FormatD("FORMAT_FRAME_BASED", 1, "H264", 12, TRUE),
  FrameD("FRAME_FRAME_BASED", 1, 2, 2, 416667, FALSE, <<333333, 333667, 416667, 417083>>),
  FrameD("FRAME_MJPEG", 2, 9, 9, 333333, FALSE, <<333333>>),
  FormatD("FORMAT_DV", 3, "none", 0, TRUE), FormatD("FORMAT_MJPEG", 4, "none", 0, TRUE)>>

\* Streaming interfaces that are not used: no header, a cut format.
Headless == Uncompressed
Cut == <<Header>> \o Uncompressed \o <<Extra("FORMAT_MJPEG", FALSE)>>
Cameras == {Plain, Coded, Headless, Cut}
Asks == {[fcc |-> "YUYV", w |-> 2, h |-> 2], [fcc |-> "other", w |-> 1, h |-> 4],
         [fcc |-> "FORMAT_MJPEG", w |-> 4, h |-> 4]}
Rates == {<<1, 30>>, <<1001, 30000>>}
====
