------------------------------- MODULE Raster -------------------------------
(***************************************************************************)
(* The core raster modules (core/raster.py) as operators on images.  An    *)
(* image is what PIL makes of a PNG: a mode, a size, a palette (mode "P")  *)
(* and a pixel at every position.  A pixel has a shade v, for its colour,  *)
(* or in mode "P" the index of one, and an alpha a.  Where a is 0 the      *)
(* pixel is clear: its shade is hidden and not gone.  Bytes that are no    *)
(* PNG have the mode "junk".                                               *)
(***************************************************************************)
EXTENDS Integers, Sequences

CONSTANTS
    White,                \* the largest value of a channel; 255 in the code
    Bicubic(_, _, _, _)   \* PIL's filter: of a plane, its size and the new one, at a place

ASSUME WhiteAssumption == White \in Nat \ {0}

Rect(w, h) == (0 .. w - 1) \X (0 .. h - 1)

\* Python's round() of a / b, to the even number where it is in the middle.
Round(a, b) ==
    LET low == a \div b
        rest == 2 * (a % b)
    IN  IF rest < b \/ (rest = b /\ low % 2 = 0) THEN low ELSE low + 1

\* base ** exponent, for a whole exponent.
Power(base, exponent) ==
    LET power[k \in 0 .. exponent] == IF k = 0 THEN 1 ELSE base * power[k - 1]
    IN  power[exponent]

\* The value of a pixel, through the palette where there is one.
Shade(img, p) == IF img.mode = "P" THEN img.palette[img.px[p].v + 1] ELSE img.px[p].v

\* What _decode makes of a PNG: a pixel has the value of a channel, or the index
\* of an entry of the palette, whose alpha is then that of the entry.  (A single
\* colour declared transparent in mode "RGB" or "L" is no alpha to _flatten.)
IsPicture(img) ==
    /\ img = [mode |-> img.mode, w |-> img.w, h |-> img.h, palette |-> img.palette, px |-> img.px]
    /\ img.mode \in {"RGB", "RGBA", "L", "P"}
    /\ img.w \in Nat \ {0} /\ img.h \in Nat \ {0}
    /\ img.palette \in Seq(0 .. White)
    /\ img.px \in [Rect(img.w, img.h) -> [v : Nat, a : 0 .. White]]
    /\ \A p \in Rect(img.w, img.h) :
          img.px[p].v < (IF img.mode = "P" THEN Len(img.palette) ELSE White + 1)
    /\ img.mode = "P" => \A p, q \in Rect(img.w, img.h) :
          img.px[p].v = img.px[q].v => img.px[p].a = img.px[q].a
    /\ img.mode \in {"RGB", "L"} => \A p \in Rect(img.w, img.h) : img.px[p].a = White

\* has_alpha of _flatten: a channel, or transparency of a palette image.
HasAlpha(img) == img.mode \in {"RGBA", "P"}

\* An image in mode "RGB" or "L" with the given shades.
Opaque(img, mode, shades) ==
    [mode |-> mode, w |-> img.w, h |-> img.h, palette |-> << >>,
     px |-> [p \in Rect(img.w, img.h) |-> [v |-> shades[p], a |-> White]]]

\* _flatten, composed onto white, and convert().
Flat(img) ==
    [p \in Rect(img.w, img.h) |->
        LET a == img.px[p].a IN
        IF HasAlpha(img) THEN Round(Shade(img, p) * a + White * (White - a), White)
        ELSE Shade(img, p)]

-----------------------------------------------------------------------------
CropBad(img, x, y, w, h) ==
    \/ w <= 0 \/ h <= 0
    \/ x < 0 \/ y < 0 \/ x + w > img.w \/ y + h > img.h

Cropped(img, x, y, w, h) ==
    [img EXCEPT !.w = w, !.h = h,
                !.px = [p \in Rect(w, h) |-> img.px[<<p[1] + x, p[2] + y>>]]]

\* Mutant: rotated without being flattened first.
RotatedUnflattened(img) ==
    Opaque([w |-> img.h, h |-> img.w], "RGB",
           [p \in Rect(img.h, img.w) |-> Shade(img, <<img.w - 1 - p[2], p[1]>>)])

\* A quarter turn counter-clockwise; the canvas expands to fit.
Rotated(img) ==
    Opaque([w |-> img.h, h |-> img.w], "RGB",
           [p \in Rect(img.h, img.w) |-> Flat(img)[<<img.w - 1 - p[2], p[1]>>]])

LevelsBad(black, white, inverseGamma) ==
    ~(0 <= black /\ black < white /\ white <= White) \/ inverseGamma <= 0

\* The table; the exponent is 1 / gamma.
Levelled(img, black, white, inverseGamma) ==
    LET span == white - black
        place(v) == IF v < black THEN 0 ELSE IF v > white THEN span ELSE v - black
        table == [v \in 0 .. White |-> Round(White * Power(place(v), inverseGamma), Power(span, inverseGamma))]
    IN  Opaque(img, "RGB", [p \in Rect(img.w, img.h) |-> table[Flat(img)[p]]])

ThresholdBad(level) == ~(0 <= level /\ level <= White)

Thresholded(img, level) ==
    Opaque(img, "L", [p \in Rect(img.w, img.h) |-> IF Flat(img)[p] > level THEN White ELSE 0])

Inverted(img) ==
    Opaque(img, "RGB", [p \in Rect(img.w, img.h) |-> White - Flat(img)[p]])

-----------------------------------------------------------------------------
Longest(img) == IF img.w > img.h THEN img.w ELSE img.h

\* The size ImageOps.contain gives an image in a square of side n: the longest
\* side becomes n, the other one is rounded.
Contain(img, n) ==
    IF img.w > img.h THEN <<n, Round(img.h * n, img.w)>>
    ELSE <<Round(img.w * n, img.h), n>>

\* The filter overshoots at an edge; a channel does not.
Clip(x) == IF x \in 0 .. White THEN x ELSE IF x > White THEN White ELSE 0

\* Colours are filtered multiplied by their alpha, and divided by it again.
Multiplied(pixel) == Round(pixel.v * pixel.a, White)
Divided(v, a) == IF a \in {0, White} THEN v ELSE Clip((White * v) \div a)

\* resize() without the filter: the pixel under the middle of the new one.
Nearest(img, w, h, p) ==
    img.px[<<((2 * p[1] + 1) * img.w) \div (2 * w), ((2 * p[2] + 1) * img.h) \div (2 * h)>>]

\* And with it: each channel, the alpha if there is one, is a mix of its neighbours.
Mixed(img, w, h, p) ==
    LET area == Rect(img.w, img.h)
        filtered(plane) == Clip(Bicubic(plane, <<img.w, img.h>>, <<w, h>>, p))
        a == IF img.mode = "RGBA" THEN filtered([q \in area |-> img.px[q].a]) ELSE White
    IN  [v |-> Divided(filtered([q \in area |-> Multiplied(img.px[q])]), a), a |-> a]

\* resize(): indices of a palette cannot be mixed.
Resized(img, w, h) ==
    [img EXCEPT !.w = w, !.h = h,
                !.px = [p \in Rect(w, h) |->
                            IF img.mode = "P" THEN Nearest(img, w, h, p) ELSE Mixed(img, w, h, p)]]

\* Mutant: the shorter side decides whether the image is small enough.
IdentityShort(img, draft, max_dimension) == ~draft \/ (img.w <= max_dimension \/ img.h <= max_dimension)

\* The cases in which image.downsample hands on the bytes it got.
Identity(img, draft, max_dimension) == ~draft \/ Longest(img) <= max_dimension

\* Refused, or too thin to be shrunk: PIL raises for a size of 0.
DownsampleBad(img, draft, max_dimension) ==
    /\ draft
    /\ \/ img.mode = "junk" \/ max_dimension <= 0
       \/ /\ ~Identity(img, draft, max_dimension)
          /\ 0 \in {Contain(img, max_dimension)[1], Contain(img, max_dimension)[2]}

Downsampled(img, draft, max_dimension) ==
    LET size == Contain(img, max_dimension) IN
    IF Identity(img, draft, max_dimension) THEN img ELSE Resized(img, size[1], size[2])

=============================================================================
