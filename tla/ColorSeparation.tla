-------------------------- MODULE ColorSeparation --------------------------
(***************************************************************************)
(* The core modules as a client composes them (ADR 0011): a chain of       *)
(* raster nodes and posterize, then per palette entry a mask, a trace and  *)
(* a recolouring, and a tree of merges.  The executor runs the branches in *)
(* any order; every step here is one module's run.                         *)
(***************************************************************************)
EXTENDS Raster, FiniteSetsExt

CONSTANTS
    Depth,     \* values of a palette index, a byte: 256 in the code
    Sources,   \* images the client may upload
    Crops,     \* rectangles <<x, y, w, h>> it may ask for
    Levels,    \* and <<black, white, 1 / gamma>>
    Limits,    \* max_dimension
    Palettes,  \* sequences of shades given to posterize,
    Colors,    \* or numbers of colours
    Grows,     \* values of grow
    MaxNodes   \* bound on the nodes of the chain

ASSUME DepthAssumption == Depth \in Nat \ {0, 1}

\* What the client uploads is a PNG, whose palette a byte can index, or junk.
ASSUME SourcesAssumption ==
    \A img \in Sources : img.mode = "junk" \/ (IsPicture(img) /\ Len(img.palette) <= Depth)

\* _int_param, _float_param and _validate_palette let nothing else through.
ASSUME ParametersAssumption ==
    /\ Crops \subseteq Int \X Int \X Int \X Int
    /\ Levels \subseteq Int \X Int \X Int
    /\ Limits \subseteq Int /\ Colors \subseteq Int /\ Grows \subseteq Int
    /\ Palettes \subseteq Seq(0 .. White)

VARIABLES
    draft,   \* the job's draft flag
    image,   \* the last result of the chain
    twin,    \* what the same chain makes of another source (history)
    nodes,   \* nodes of the chain run so far
    stage,   \* "chain", "masks", "merge" or "failed"
    at,      \* at[k]: how far the branch of index k is
    grow,    \* grow[k]: its parameter
    svg,     \* svg[k]: what the branch has made: a set of pixels, then an SVG
    stack    \* SVGs still to be merged, the lowest first

vars == <<draft, image, twin, nodes, stage, at, grow, svg, stack>>
branchVars == <<at, grow, svg, stack>>

Entries == 0 .. Depth - 1
Area == Rect(image.w, image.h)

\* Pictures that differ at most in what clear pixels hide.
SameButHidden(a, b) ==
    /\ a.mode = b.mode /\ a.w = b.w /\ a.h = b.h
    /\ \A p \in Rect(a.w, a.h) :
          a.px[p].a = b.px[p].a /\ (a.px[p].a # 0 => Shade(a, p) = Shade(b, p))

\* The sources to compare with: what hides something else, and at full quality
\* what a client makes that flattens before it uploads.
Twins(img) ==
    { other \in Sources : SameButHidden(img, other) }
    \cup (IF draft \/ img.mode = "junk" THEN {} ELSE {Opaque(img, "RGB", Flat(img))})

SeparationInit ==
    /\ draft \in BOOLEAN
    /\ image \in Sources
    /\ twin \in Twins(image)
    /\ nodes = 0
    /\ stage = "chain"
    /\ at = [k \in Entries |-> "none"]
    /\ grow = [k \in Entries |-> 0]
    /\ svg = [k \in Entries |-> {}]
    /\ stack = << >>

-----------------------------------------------------------------------------
(* The chain.  A module that raises fails the job.                         *)

Fail == stage' = "failed" /\ UNCHANGED <<draft, image, twin, nodes, branchVars>>

Node(bad, result, ofTwin) ==
    /\ stage = "chain" /\ nodes < MaxNodes
    /\ IF bad THEN Fail
       ELSE /\ image' = result
            /\ twin' = ofTwin
            /\ nodes' = nodes + 1
            /\ UNCHANGED <<draft, stage, branchVars>>

Junk == image.mode = "junk"

Crop(x, y, w, h) ==
    Node(Junk \/ CropBad(image, x, y, w, h), Cropped(image, x, y, w, h), Cropped(twin, x, y, w, h))

Rotate == Node(Junk, Rotated(image), Rotated(twin))

Level(b, w, e) == Node(Junk \/ LevelsBad(b, w, e), Levelled(image, b, w, e), Levelled(twin, b, w, e))

Threshold(v) == Node(Junk \/ ThresholdBad(v), Thresholded(image, v), Thresholded(twin, v))

Invert == Node(Junk, Inverted(image), Inverted(twin))

Downsample(n) ==
    Node(DownsampleBad(image, draft, n), Downsampled(image, draft, n), Downsampled(twin, draft, n))

-----------------------------------------------------------------------------
(* posterize.                                                              *)

\* Mutant: one entry more than a byte can index.
PaletteBadLong(palette) ==
    \/ ~(2 <= Len(palette) /\ Len(palette) <= Depth + 1)
    \/ \E i, j \in DOMAIN palette : i # j /\ palette[i] = palette[j]

\* _validate_palette
PaletteBad(palette) ==
    \/ ~(2 <= Len(palette) /\ Len(palette) <= Depth)
    \/ \E i, j \in DOMAIN palette : i # j /\ palette[i] = palette[j]

Distance(a, b) == IF a > b THEN a - b ELSE b - a

\* argmin: the first of the nearest entries, kept in a byte.
NearestEntry(palette, v) ==
    Min({ i \in DOMAIN palette : \A j \in DOMAIN palette :
                Distance(v, palette[i]) <= Distance(v, palette[j]) }) - 1

\* The indices are put into mode "P" with the palette in the given order.
Indexed(palette, shades, index) ==
    [mode |-> "P", w |-> image.w, h |-> image.h, palette |-> palette,
     px |-> [p \in Area |-> [v |-> index[shades[p]] % Depth, a |-> White]]]

ToPalette(palette, shades) ==
    Indexed(palette, shades, [v \in 0 .. White |-> NearestEntry(palette, v)])

\* Mutant: colours are read where they are hidden.
PosterizeUnflattened(palette) ==
    LET raw(img) == [p \in Rect(img.w, img.h) |-> Shade(img, p)] IN
    Node(Junk \/ PaletteBad(palette), ToPalette(palette, raw(image)), ToPalette(palette, raw(twin)))

Posterize(palette) ==
    Node(Junk \/ PaletteBad(palette), ToPalette(palette, Flat(image)), ToPalette(palette, Flat(twin)))

\* Both parameters given.
PosterizeBoth == Node(TRUE, image, twin)

\* With `colors`: median cut finds at most so many ranges of colour, each used.
PosterizeAuto(colors) ==
    IF Junk \/ ~(2 <= colors /\ colors <= Depth) THEN Node(TRUE, image, twin)
    ELSE \E n \in 1 .. colors : \E index \in [0 .. White -> 0 .. n - 1] :
        LET palette == [i \in 1 .. n |-> Min({ v \in 0 .. White : index[v] = i - 1 })] IN
        /\ { index[Flat(image)[p]] : p \in Area } = 0 .. n - 1
        /\ \A v, w \in 0 .. White : v <= w => index[v] <= index[w]
        /\ Node(FALSE, Indexed(palette, Flat(image), index), Indexed(palette, Flat(twin), index))

-----------------------------------------------------------------------------
(* The branches and the merges.                                            *)

Branches == 0 .. Len(image.palette) - 1

Near(p, q, n) == Distance(p[1], q[1]) <= n /\ Distance(p[2], q[2]) <= n

\* Mutant: MinFilter(grow + 1), a square of half the size.
RadiusHalf(n) == n \div 2

\* Mutant: the size of the square taken for its radius.
RadiusSize(n) == IF n > 0 THEN 2 * n + 1 ELSE 0

\* The radius of MinFilter(2 * grow + 1).
Radius(n) == n

MaskBad(k, n) == image.mode # "P" \/ ~(0 <= k /\ k < Depth) \/ n < 0

\* colormask: the black pixels of the mask, none where no pixel has the index.
\* What a pixel's alpha is plays no part.
Mask(k, n) ==
    /\ stage \in {"chain", "masks"}
    /\ IF Junk \/ MaskBad(k, n) THEN Fail
       ELSE /\ at[k] = "none"
            /\ stage' = "masks"
            /\ at' = [at EXCEPT ![k] = "mask"]
            /\ grow' = [grow EXCEPT ![k] = n]
            /\ svg' = [svg EXCEPT ![k] = { q \in Area : \E p \in Area :
                                    image.px[p].v = k /\ Near(p, q, Radius(n)) }]
            /\ UNCHANGED <<draft, image, twin, nodes, stack>>

\* Pixels of a region with none outside it beside them: what two tracings of
\* adjacent regions agree on.
Core(region) == { p \in region : \A q \in Area : Near(p, q, 1) => q \in region }

\* potrace: the outline follows the region to within a pixel (Branch takes the
\* least and the most it may cover).
Trace(k, area) ==
    /\ stage = "masks" /\ at[k] = "mask"
    /\ at' = [at EXCEPT ![k] = "trace"]
    /\ svg' = [svg EXCEPT ![k] = << [tag |-> "metadata"], [tag |-> "g", area |-> area, fill |-> 0] >>]
    /\ UNCHANGED <<draft, image, twin, nodes, stage, grow, stack>>

\* No binary, a parameter out of range, a timeout, an exit code.
TraceFails(k) == stage = "masks" /\ at[k] = "mask" /\ Fail

\* colorize, with the palette's entry; the last branch makes the merges possible.
Colorize(k) ==
    LET colored == [i \in DOMAIN svg[k] |->
            IF svg[k][i].tag = "g" THEN [svg[k][i] EXCEPT !.fill = image.palette[k + 1]]
            ELSE svg[k][i]]
        all == [svg EXCEPT ![k] = colored]
        last == \A j \in Branches \ {k} : at[j] = "color"
    IN
    /\ stage = "masks" /\ at[k] = "trace" /\ k \in Branches
    /\ at' = [at EXCEPT ![k] = "color"]
    /\ svg' = all
    /\ stage' = IF last THEN "merge" ELSE stage
    /\ stack' = IF last THEN [i \in 1 .. Len(image.palette) |-> all[i - 1]] ELSE stack
    /\ UNCHANGED <<draft, image, twin, nodes, grow>>

Drawn(child) == child.tag # "metadata"

\* Mutant: all children are taken over.
MergedAll(under, over) == under \o over

\* merge: what `over` draws is put on top of `under`.
Merged(under, over) ==
    LET taken[i \in 0 .. Len(over)] ==
            IF i = 0 THEN under
            ELSE IF Drawn(over[i]) THEN Append(taken[i - 1], over[i])
            ELSE taken[i - 1]
    IN  taken[Len(over)]

Merge(i) ==
    /\ stage = "merge" /\ i + 1 \in DOMAIN stack
    /\ stack' = SubSeq(stack, 1, i - 1) \o <<Merged(stack[i], stack[i + 1])>>
                    \o SubSeq(stack, i + 2, Len(stack))
    /\ UNCHANGED <<draft, image, twin, nodes, stage, at, grow, svg>>

AllMerged == stage = "merge" /\ Len(stack) = 1

Chain ==
    \/ \E c \in Crops : Crop(c[1], c[2], c[3], c[4])
    \/ Rotate
    \/ \E l \in Levels : Level(l[1], l[2], l[3])
    \/ \E v \in -1 .. White : Threshold(v)
    \/ Invert
    \/ \E n \in Limits : Downsample(n)
    \/ \E palette \in Palettes : Posterize(palette)
    \/ \E colors \in Colors : PosterizeAuto(colors)
    \/ PosterizeBoth

Branch(k) ==
    \/ \E n \in Grows : Mask(k, n)
    \/ at[k] = "mask" /\ \E area \in {Core(svg[k]), svg[k]} : Trace(k, area)
    \/ TraceFails(k)
    \/ Colorize(k)

SeparationNext ==
    \/ Chain
    \/ \E k \in Entries : Branch(k)
    \/ Mask(Depth, 0)
    \/ \E i \in DOMAIN stack : Merge(i)

SeparationSpec == SeparationInit /\ [][SeparationNext]_vars

-----------------------------------------------------------------------------
(* Properties.                                                             *)

\* "Transparent must composite to white first [...] not drop alpha and read as
\* already-black" (test_raster_modules.py), at any node of a chain: what a clear
\* pixel hides never shows, however often the picture is cropped, shrunk, mixed or
\* flattened; and at full quality it makes no difference which node flattens.
TransparencyIsPaper == ~Junk => Flat(image) = Flat(twin)

\* "Shrinks so the longest side is at most max_dimension. Never upscales."
\* (DownsampleModule): in draft a downsampled image fits, is no larger than it
\* was, and is not empty; at full quality it is the image that came in.
DownsampleFits ==
    [][\A n \in Limits : Downsample(n) /\ stage' # "failed" =>
           /\ draft => Longest(image') <= n /\ image'.w \in 1 .. image.w /\ image'.h \in 1 .. image.h
           /\ ~draft => image' = image]_vars

\* "nearest entry by CIELAB distance, PLTE in the supplied order, ties to the
\* lowest index" (PosterizeModule), and an index never wraps: through the palette
\* the client gave, each index shows an entry none is nearer than, nor as near
\* and before it.
IndexMeansColour ==
    [][\A palette \in Palettes : Posterize(palette) /\ stage' # "failed" =>
           \A p \in Area :
               LET i == image'.px[p].v + 1
                   far(j) == Distance(Flat(image)[p], palette[j])
               IN  \A j \in DOMAIN palette : far(i) < far(j) \/ (far(i) = far(j) /\ i <= j)]_vars

\* "the tree shape doesn't change the result" (ADR 0009): whichever neighbours are
\* merged first, the result is the layers in the order of the palette under one
\* metadata element.
TreeShapeIsNothing ==
    AllMerged => stack[1] = <<svg[0][1]>> \o [i \in 1 .. Len(image.palette) |-> svg[i - 1][2]]

\* The colour a viewer sees at p, if any: the last child that covers it.
Covering(p) == { i \in DOMAIN stack[1] : Drawn(stack[1][i]) /\ p \in stack[1][i].area }
Seen(p) == stack[1][Max(Covering(p))].fill

\* "the merged SVG covers the canvas by construction" (ADR 0021): when every
\* branch grows, no seam is left, however the traces of adjacent regions differ,
\* unused entries of the palette included.
SeamsAreCovered ==
    AllMerged /\ (\A k \in Branches : grow[k] >= 1) => \A p \in Area : Covering(p) # {}

\* And what covers a seam is a neighbour: the colour seen at a pixel is that of
\* its own index, or of a pixel no farther than that colour's branch grows.
TrapsStayNear ==
    AllMerged => \A p \in Area : Covering(p) # {} =>
        \E q \in Area : /\ Seen(p) = image.palette[image.px[q].v + 1]
                        /\ Near(p, q, grow[image.px[q].v])

\* "Transparency must not trace as solid black (alpha composited onto white)"
\* (test_potrace.py): from the source to the last merge, what is drawn where no
\* branch grows is what the picture shows on paper, so that nothing hidden is
\* traced.  (The exception are pixels that come to colormask with an alpha, in a
\* palette image nobody flattened: it goes by their indices.  README, findings.)
DrawnIsShown ==
    AllMerged /\ (\A k \in Branches : grow[k] = 0) =>
        \A p \in Area : Covering(p) # {} /\ image.px[p].a = White => Seen(p) = Flat(twin)[p]

=============================================================================
