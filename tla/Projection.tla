----------------------------- MODULE Projection -----------------------------
(***************************************************************************)
(* The geometry of setDisplayProjection in kosapi screenrecord.cpp: the   *)
(* layer-stack rect of the main display (its size, swapped when the       *)
(* device is rotated), and the content rect inside the video frame that   *)
(* keeps the display's aspect ratio.  The code computes the aspect in     *)
(* float, so the arithmetic is IEEE-754 binary32 with round-to-nearest-   *)
(* even, and the (uint32_t) casts truncate.                                *)
(*                                                                         *)
(* A binary32 value is a record [m, e] standing for m * 2^e.  Every       *)
(* intermediate integer stays below 2^31: quotients are produced one bit  *)
(* at a time, and a product with a 24-bit mantissa is split in two 12-bit *)
(* halves.  Sizes are below 2^12, as any display's are.                   *)
(***************************************************************************)
EXTENDS Integers

P12 == 2^12
P23 == 2^23
P24 == 2^24

\* Round-to-nearest-even of a quotient q with remainder r over d.
RoundHalfEven(q, r, d) ==
    IF 2 * r > d \/ (2 * r = d /\ q % 2 = 1) THEN q + 1 ELSE q

\* Long division of r / d, r < d: appends quotient bits to q until q has
\* 24 significant bits; t counts the bits appended.
RECURSIVE DivBits(_, _, _, _)
DivBits(q, r, d, t) ==
    IF q >= P23 THEN [q |-> q, r |-> r, t |-> t]
    ELSE LET b == IF 2 * r >= d THEN 1 ELSE 0
         IN DivBits(2 * q + b, 2 * r - b * d, d, t + 1)

\* The binary32 value nearest n / d, for 0 < n < 2^24 and 0 < d < 2^24
\* (n \div d < 2^23).  A carry out of the mantissa is still exact.
F32Div(n, d) ==
    LET s == DivBits(n \div d, n % d, d, 0)
    IN [m |-> RoundHalfEven(s.q, s.r, d), e |-> -s.t]

\* The float operations of the code, on an integer below 2^12 that the
\* conversion to float keeps exact.

\* The exact product w * m (below 2^36) as A * 2^12 + B, with A = w * (m \div
\* 2^12) and B = w * (m % 2^12), shifted right by k: its high part.
MulHi(A, B, k) == A * 2^(12 - k) + B \div 2^k

\* The fewest low bits, from k on, that the product must drop to fit in 24
\* bits (A is tested first, so MulHi never overflows).
RECURSIVE MulShift(_, _, _)
MulShift(A, B, k) ==
    IF A < 2^(12 + k) /\ MulHi(A, B, k) < P24 THEN k ELSE MulShift(A, B, k + 1)

\* w * f, the dropped bits rounded.
F32MulInt(w, f) ==
    LET A == w * (f.m \div P12)
        B == w * (f.m % P12)
        k == MulShift(A, B, 0)
    IN IF k = 0 THEN [m |-> MulHi(A, B, 0), e |-> f.e]
       ELSE [m |-> RoundHalfEven(MulHi(A, B, k), B % 2^k, 2^k), e |-> f.e + k]

\* h / f = (h / m) * 2^-e.
F32DivBy(h, f) == LET q == F32Div(h, f.m) IN [q EXCEPT !.e = q.e - f.e]

\* (uint32_t) of a non-negative float: truncation.
TruncU32(f) == IF f.e >= 0 THEN f.m * 2^f.e ELSE f.m \div 2^(-f.e)

-----------------------------------------------------------------------------
(* setDisplayProjection *)

SourceSizeUnrotated(dpy, deviceRotated) == dpy

\* layerStackRect: the display's w by h, swapped when the device is rotated.
SourceSize(dpy, deviceRotated) ==
    IF deviceRotated THEN <<dpy[2], dpy[1]>> ELSE dpy

\* The content rect for a source of sw x sh in a video of vw x vh (gRotate
\* is never set, so videoWidth and videoHeight are gVideoWidth and
\* gVideoHeight): displayAspect = (float) sh / (float) sw; the height is
\* reduced if videoHeight > (uint32_t)(videoWidth * displayAspect), the
\* width restricted to (uint32_t)(videoHeight / displayAspect) otherwise;
\* the offsets centre it.
setDisplayProjection(dpy, deviceRotated, video) ==
    LET src    == SourceSize(dpy, deviceRotated)
        aspect == F32Div(src[2], src[1])
        vw == video[1]
        vh == video[2]
        byW == TruncU32(F32MulInt(vw, aspect))
        out == IF vh > byW THEN <<vw, byW>>
               ELSE <<TruncU32(F32DivBy(vh, aspect)), vh>>
    IN [src |-> src, offX |-> (vw - out[1]) \div 2, offY |-> (vh - out[2]) \div 2,
        outW |-> out[1], outH |-> out[2]]

\* The content rect lies inside the video frame, centred to within a
\* pixel, fills its width or its height, and keeps the aspect of the
\* display as shown (sw x sh) to within one pixel of the other side.
ContentFits(p, shown, video) ==
    LET vw == video[1]
        vh == video[2]
        sw == shown[1]
        sh == shown[2]
    IN /\ p.outW <= vw /\ p.outH <= vh
       /\ (vw - p.outW - p.offX) - p.offX \in {0, 1}
       /\ (vh - p.outH - p.offY) - p.offY \in {0, 1}
       /\ p.outW = vw \/ p.outH = vh
       /\ p.outW = vw => -sw <= p.outH * sw - vw * sh /\ p.outH * sw - vw * sh <= sw
       /\ p.outH = vh => -sh <= p.outW * sh - vh * sw /\ p.outW * sh - vh * sw <= sh

=============================================================================
