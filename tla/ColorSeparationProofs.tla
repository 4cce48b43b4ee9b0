----------------------- MODULE ColorSeparationProofs -----------------------
(***************************************************************************)
(* Proofs for the core modules: what a chain of raster nodes, a separation *)
(* and its merges keep, for pictures, palettes and chains of any size.     *)
(***************************************************************************)
EXTENDS ColorSeparation, SeqLemmas, SequenceTheorems, TLAPS

-----------------------------------------------------------------------------
(* The inductive invariant.                                                *)

\* Flattened two pictures look the same.
Alike(a, b) ==
    /\ IsPicture(a) /\ IsPicture(b)
    /\ a.w = b.w /\ a.h = b.h
    /\ Flat(a) = Flat(b)

\* A byte can index the palette.
Indexable(img) == Len(img.palette) <= Depth

\* What two runs of one chain have made so far: in draft, where pixels are mixed,
\* flattening alike is too little.
Paired(d, a, b) == Alike(a, b) /\ Indexable(a) /\ (d => SameButHidden(a, b))

\* The nodes of a chain hand on pictures, which show nothing of what was hidden.
ChainInv ==
    /\ draft \in BOOLEAN
    /\ ~Junk => Paired(draft, image, twin)

\* The mask of branch k: what has its index, and what is near.
Region(k) == { q \in Area : \E p \in Area : image.px[p].v = k /\ Near(p, q, Radius(grow[k])) }

Metadata == [tag |-> "metadata"]
Layer(area, fill) == [tag |-> "g", area |-> area, fill |-> fill]

\* A branch has the mask of its index, the tracing of that, then its colour.
BranchOK(k) ==
    /\ at[k] \in {"none", "mask", "trace", "color"}
    /\ at[k] # "none" => ~Junk /\ image.mode = "P" /\ grow[k] \in Nat /\ (at[k] = "color" => k \in Branches)
    /\ at[k] = "mask" => svg[k] = Region(k)
    /\ at[k] \in {"trace", "color"} => \E area \in {Core(Region(k)), Region(k)} :
          svg[k] = <<Metadata, Layer(area, IF at[k] = "trace" THEN 0 ELSE image.palette[k + 1])>>

BranchInv ==
    /\ stage \in {"chain", "masks", "merge", "failed"}
    /\ DOMAIN at = Entries /\ DOMAIN grow = Entries /\ DOMAIN svg = Entries
    /\ stage = "chain" => \A k \in Entries : at[k] = "none"
    /\ \A k \in Entries : BranchOK(k)

\* The layers of the branches from a on, up to and without b.
Stacked(a, b) == [i \in 1 .. b - a + 1 |-> IF i = 1 THEN Metadata ELSE svg[a + i - 2][2]]

\* cuts says where the stack is cut into SVGs.
IsCut(cuts) ==
    /\ cuts[1] = 0 /\ cuts[Len(stack) + 1] = Len(image.palette)
    /\ \A i \in 1 .. Len(stack) : cuts[i] < cuts[i + 1] /\ stack[i] = Stacked(cuts[i], cuts[i + 1])

\* What is still to be merged are the layers in the palette's order, cut into
\* SVGs that have their metadata each.
StackInv ==
    stage = "merge" =>
        /\ ~Junk /\ image.mode = "P"
        /\ \A k \in Branches : at[k] = "color"
        /\ stack \in Seq(Range(stack))
        /\ \E cuts \in [1 .. Len(stack) + 1 -> Nat] : IsCut(cuts)

SeparationInv == ChainInv /\ BranchInv /\ StackInv

-----------------------------------------------------------------------------
(* Arithmetic.                                                             *)

LEMMA ProductGrows ==
    ASSUME NEW a \in Nat, NEW b \in Nat, NEW c \in Nat, a <= b
    PROVE  a * c \in Nat /\ b * c \in Nat /\ a * c <= b * c /\ c * a <= c * b
  OBVIOUS

LEMMA ProductGrowsStrictly ==
    ASSUME NEW a \in Nat, NEW b \in Nat, NEW c \in Nat, a < b, c # 0
    PROVE  a * c < b * c /\ c * a < c * b
  OBVIOUS

LEMMA DivFacts ==
    ASSUME NEW a \in Nat, NEW b \in Nat \ {0}
    PROVE  a \div b \in Nat /\ a % b \in 0 .. b - 1 /\ a = b * (a \div b) + (a % b)
  <1>1. a \div b \in Nat
    OBVIOUS
  <1>2. a % b \in 0 .. b - 1
    OBVIOUS
  <1>3. a = b * (a \div b) + (a % b)
    OBVIOUS
  <1> QED BY <1>1, <1>2, <1>3

\* A quotient is less than what its dividend is less than, divided.
LEMMA DivBelow ==
    ASSUME NEW a \in Nat, NEW b \in Nat \ {0}, NEW c \in Nat, a < b * c
    PROVE  a \div b \in 0 .. c - 1
  <1>1. a \div b \in Nat /\ b * (a \div b) <= a
    BY DivFacts
  <1>2. SUFFICES ASSUME c <= a \div b PROVE FALSE
    BY <1>1
  <1>3. b * c <= b * (a \div b)
    BY <1>1, <1>2, ProductGrows
  <1> QED BY <1>1, <1>3

LEMMA ModSmall ==
    ASSUME NEW a \in Nat, NEW b \in Nat \ {0}, a < b
    PROVE  a % b = a
  <1>1. a \div b \in 0 .. 1 - 1
    BY DivBelow
  <1>2. a \div b = 0
    BY <1>1
  <1> QED BY <1>2, DivFacts

\* Round stays at or below a whole number that the quotient is not above.
LEMMA RoundBounds ==
    ASSUME NEW a \in Nat, NEW b \in Nat \ {0}, NEW c \in Nat, a <= b * c
    PROVE  Round(a, b) \in 0 .. c
  <1>1. a \div b \in Nat /\ a % b \in 0 .. b - 1 /\ a = b * (a \div b) + (a % b)
    BY DivFacts
  <1>2. CASE a < b * c
    <2>1. a \div b \in 0 .. c - 1
      BY <1>2, DivBelow
    <2> QED BY <1>1, <2>1 DEF Round
  <1>3. CASE a = b * c
    <2>1. a < b * (c + 1)
      BY <1>3
    <2>2. a \div b \in 0 .. c
      BY <2>1, DivBelow
    <2>3. CASE a \div b < c
      BY <1>1, <2>2, <2>3 DEF Round
    <2>4. CASE a \div b = c
      <3>1. a % b = 0
        BY <1>1, <1>3, <2>4
      <3> QED BY <2>4, <3>1 DEF Round
    <2> QED BY <2>2, <2>3, <2>4
  <1> QED BY <1>2, <1>3

\* A power by the one before it.
LEMMA PowerFacts ==
    ASSUME NEW base \in Nat, NEW exponent \in Nat
    PROVE  \E f \in [0 .. exponent -> Nat] :
              /\ f[0] = 1 /\ \A k \in 1 .. exponent : f[k] = base * f[k - 1]
              /\ Power(base, exponent) = f[exponent]
  <1> DEFINE body(f) == [k \in 0 .. exponent |-> IF k = 0 THEN 1 ELSE base * f[k - 1]]
             power == CHOOSE f : f = body(f)
             step == [x \in Nat |-> base * x]
             Good(f) == f[0] = 1 /\ \A k \in 1 .. exponent : f[k] = base * f[k - 1]
  <1>1. Power(base, exponent) = power[exponent]
    BY DEF Power
  <1>2. PICK f \in [0 .. exponent -> Nat] : Good(f)
    <2>1. step \in [Nat -> Nat] /\ 1 \in Nat
      OBVIOUS
    <2>2. Iterations(exponent, Nat, 1, step) # {}
      <3> HIDE DEF step
      <3> QED BY <2>1, Iterate
    <2>3. PICK f \in [0 .. exponent -> Nat] : f[0] = 1 /\ \A k \in 1 .. exponent : f[k] = step[f[k - 1]]
      <3> HIDE DEF step
      <3> QED BY <2>2 DEF Iterations
    <2>4. \A k \in 1 .. exponent : f[k - 1] \in Nat
      OBVIOUS
    <2>5. Good(f)
      BY <2>3, <2>4
    <2> QED BY <2>5
  <1>3. f = body(f)
    BY <1>2
  <1>4. power = body(power)
    <2> HIDE DEF body
    <2> QED BY <1>3
  <1> DEFINE H == { k \in 0 .. exponent : power[k] = f[k] }
  <1> HIDE DEF power
  <1>5. 0 \in H
    BY <1>2, <1>4
  <1>6. ASSUME NEW k \in 1 .. exponent, k - 1 \in H PROVE k \in H
    <2>1. k \in 0 .. exponent /\ k # 0 /\ power[k - 1] = f[k - 1]
      BY <1>6
    <2>2. power[k] = base * power[k - 1]
      BY <1>4, <2>1
    <2> QED BY <1>2, <2>1, <2>2
  <1>7. exponent \in H
    <2> HIDE DEF H
    <2>1. 0 .. exponent \subseteq H
      BY <1>5, <1>6, UpTo
    <2> QED BY <2>1
  <1>8. Power(base, exponent) = f[exponent]
    BY <1>1, <1>7
  <1> QED BY <1>2, <1>8

\* Powers grow with the base.
LEMMA PowerGrows ==
    ASSUME NEW a \in Nat, NEW b \in Nat, a <= b, NEW e \in Nat
    PROVE  Power(a, e) \in Nat /\ Power(b, e) \in Nat /\ Power(a, e) <= Power(b, e)
  <1>1. PICK f \in [0 .. e -> Nat] :
              /\ f[0] = 1 /\ \A k \in 1 .. e : f[k] = a * f[k - 1]
              /\ Power(a, e) = f[e]
    BY PowerFacts
  <1>2. PICK g \in [0 .. e -> Nat] :
              /\ g[0] = 1 /\ \A k \in 1 .. e : g[k] = b * g[k - 1]
              /\ Power(b, e) = g[e]
    BY PowerFacts
  <1> DEFINE H == { k \in 0 .. e : f[k] <= g[k] }
  <1>3. 0 \in H
    BY <1>1, <1>2
  <1>4. ASSUME NEW k \in 1 .. e, k - 1 \in H PROVE k \in H
    <2>1. k \in 0 .. e /\ f[k - 1] \in Nat /\ g[k - 1] \in Nat /\ f[k - 1] <= g[k - 1]
      BY <1>4
    <2>2. a * f[k - 1] <= a * g[k - 1] /\ a * g[k - 1] <= b * g[k - 1]
      BY <2>1, ProductGrows
    <2>3. f[k] = a * f[k - 1] /\ g[k] = b * g[k - 1]
      BY <1>1, <1>2
    <2>4. f[k] \in Nat /\ g[k] \in Nat /\ a * g[k - 1] \in Nat
      BY <2>1
    <2> QED BY <2>1, <2>2, <2>3, <2>4
  <1>5. e \in H
    <2> HIDE DEF H
    <2>1. 0 .. e \subseteq H
      BY <1>3, <1>4, UpTo
    <2> QED BY <2>1
  <1>6. f[e] \in Nat /\ g[e] \in Nat
    OBVIOUS
  <1> QED BY <1>1, <1>2, <1>5, <1>6

LEMMA PowerPositive ==
    ASSUME NEW b \in Nat \ {0}, NEW e \in Nat
    PROVE  Power(b, e) \in Nat \ {0}
  <1>1. PICK g \in [0 .. e -> Nat] :
              /\ g[0] = 1 /\ \A k \in 1 .. e : g[k] = b * g[k - 1]
              /\ Power(b, e) = g[e]
    BY PowerFacts
  <1> DEFINE H == { k \in 0 .. e : g[k] # 0 }
  <1>2. 0 \in H
    BY <1>1
  <1>3. ASSUME NEW k \in 1 .. e, k - 1 \in H PROVE k \in H
    <2>1. k \in 0 .. e /\ g[k - 1] \in Nat /\ g[k - 1] # 0
      BY <1>3
    <2>2. 0 < b * g[k - 1]
      BY <2>1
    <2> QED BY <1>1, <2>1, <2>2
  <1>4. e \in H
    <2> HIDE DEF H
    <2>1. 0 .. e \subseteq H
      BY <1>2, <1>3, UpTo
    <2> QED BY <2>1
  <1> QED BY <1>1, <1>4

-----------------------------------------------------------------------------
(* Pictures.                                                               *)

LEMMA ShadeType ==
    ASSUME NEW img, IsPicture(img), NEW p \in Rect(img.w, img.h)
    PROVE  Shade(img, p) \in 0 .. White /\ img.px[p].a \in 0 .. White
  <1>1. img.px[p].v \in Nat /\ img.px[p].a \in 0 .. White
    BY DEF IsPicture
  <1>2. CASE img.mode = "P"
    <2>1. img.px[p].v + 1 \in 1 .. Len(img.palette)
      BY <1>1, <1>2 DEF IsPicture
    <2>2. img.palette \in Seq(0 .. White)
      BY DEF IsPicture
    <2>3. img.palette[img.px[p].v + 1] \in 0 .. White
      BY <2>1, <2>2, ElementOfSeq
    <2> QED BY <1>1, <1>2, <2>3 DEF Shade
  <1>3. CASE img.mode # "P"
    BY WhiteAssumption, <1>1, <1>3 DEF IsPicture, Shade
  <1> QED BY <1>2, <1>3

\* A shade laid on white stays in a channel.
LEMMA OnWhite ==
    ASSUME NEW s \in 0 .. White, NEW a \in 0 .. White
    PROVE  Round(s * a + White * (White - a), White) \in 0 .. White
  <1>1. White \in Nat \ {0} /\ s \in Nat /\ a \in Nat /\ White - a \in Nat /\ s <= White
    BY WhiteAssumption
  <1>2. s * a \in Nat /\ White * a \in Nat /\ s * a <= White * a
    BY <1>1, ProductGrows
  <1>3. White * a + White * (White - a) = White * White
    BY <1>1
  <1>4. White * (White - a) \in Nat
    BY <1>1
  <1> DEFINE x == s * a
             y == White * a
             z == White * (White - a)
             n == White * White
  <1>5. x \in Nat /\ y \in Nat /\ z \in Nat /\ x <= y /\ y + z = n
    BY <1>2, <1>3, <1>4
  <1>6. x + z \in Nat /\ x + z <= n
    <2> HIDE DEF x, y, z, n
    <2> QED BY <1>5
  <1> QED BY <1>1, <1>6, RoundBounds

LEMMA FlatType ==
    ASSUME NEW img, IsPicture(img)
    PROVE  Flat(img) \in [Rect(img.w, img.h) -> 0 .. White]
  <1>1. ASSUME NEW p \in Rect(img.w, img.h) PROVE Flat(img)[p] \in 0 .. White
    <2> DEFINE s == Shade(img, p)
               a == img.px[p].a
    <2>1. s \in 0 .. White /\ a \in 0 .. White
      BY ShadeType
    <2>2. Flat(img)[p] = IF HasAlpha(img) THEN Round(s * a + White * (White - a), White) ELSE s
      BY DEF Flat
    <2> HIDE DEF s, a
    <2> QED BY <2>1, <2>2, OnWhite
  <1>2. Flat(img) = [p \in Rect(img.w, img.h) |-> Flat(img)[p]]
    BY DEF Flat
  <1> QED BY <1>1, <1>2

\* What a clear pixel hides is not seen on white.
LEMMA HiddenIsHidden ==
    ASSUME NEW a, NEW b, IsPicture(a), IsPicture(b), SameButHidden(a, b)
    PROVE  Alike(a, b)
  <1>1. a.w = b.w /\ a.h = b.h /\ a.mode = b.mode
    BY DEF SameButHidden
  <1>2. ASSUME NEW p \in Rect(a.w, a.h) PROVE Flat(a)[p] = Flat(b)[p]
    <2> DEFINE s == Shade(a, p)
               t == Shade(b, p)
               x == a.px[p].a
    <2>1. /\ s \in 0 .. White /\ x \in 0 .. White /\ t \in 0 .. White /\ b.px[p].a = x
          /\ x # 0 => s = t
      BY <1>1, ShadeType DEF SameButHidden
    <2>2. Flat(a)[p] = IF HasAlpha(a) THEN Round(s * x + White * (White - x), White) ELSE s
      BY DEF Flat
    <2>3. Flat(b)[p] = IF HasAlpha(b) THEN Round(t * b.px[p].a + White * (White - b.px[p].a), White) ELSE t
      BY <1>1 DEF Flat
    <2>4. HasAlpha(a) = HasAlpha(b)
      BY <1>1 DEF HasAlpha
    <2>5. ~HasAlpha(a) => x = White
      BY DEF HasAlpha, IsPicture
    <2> HIDE DEF s, t, x
    <2>6. CASE x # 0
      BY <2>1, <2>2, <2>3, <2>4, <2>6
    <2>7. CASE x = 0
      <3>1. s * x = 0 /\ t * x = 0
        BY <2>1, <2>7
      <3>2. HasAlpha(a)
        BY <2>5, <2>7, WhiteAssumption
      <3> QED BY <2>1, <2>2, <2>3, <2>4, <3>1, <3>2
    <2> QED BY <2>6, <2>7
  <1>3. Flat(a) = [p \in Rect(a.w, a.h) |-> Flat(a)[p]] /\ Flat(b) = [p \in Rect(a.w, a.h) |-> Flat(b)[p]]
    BY <1>1 DEF Flat
  <1>4. Flat(a) = Flat(b)
    BY <1>2, <1>3
  <1> QED BY <1>1, <1>4 DEF Alike

\* A picture made from shades shows them.
LEMMA OpaqueFacts ==
    ASSUME NEW img, img.w \in Nat \ {0}, img.h \in Nat \ {0}, NEW mode \in {"RGB", "L"},
           NEW shades \in [Rect(img.w, img.h) -> 0 .. White]
    PROVE  LET made == Opaque(img, mode, shades) IN
           /\ IsPicture(made) /\ made.mode = mode /\ made.palette = << >>
           /\ made.w = img.w /\ made.h = img.h
           /\ Flat(made) = shades
  <1> DEFINE made == Opaque(img, mode, shades)
  <1>1. /\ made = [mode |-> made.mode, w |-> made.w, h |-> made.h,
                   palette |-> made.palette, px |-> made.px]
        /\ made.mode = mode /\ made.w = img.w /\ made.h = img.h /\ made.palette = << >>
        /\ made.px = [p \in Rect(img.w, img.h) |-> [v |-> shades[p], a |-> White]]
    BY DEF Opaque
  <1> HIDE DEF made
  <1>2. \A p \in Rect(img.w, img.h) : shades[p] \in Nat /\ shades[p] < White + 1 /\ White \in 0 .. White
    BY WhiteAssumption
  <1>3. made.px \in [Rect(made.w, made.h) -> [v : Nat, a : 0 .. White]]
    BY <1>1, <1>2
  <1>6. \A p \in Rect(img.w, img.h) :
            made.px[p].v \in Nat /\ made.px[p].v < White + 1 /\ made.px[p].a = White
    BY <1>1, <1>2
  <1>7. << >> \in Seq(0 .. White)
    OBVIOUS
  <1>4. IsPicture(made)
    BY <1>1, <1>3, <1>6, <1>7 DEF IsPicture
  <1>5. Flat(made) = shades
    BY <1>1 DEF Flat, HasAlpha, Shade
  <1> QED BY <1>1, <1>4, <1>5 DEF made

\* A picture of pixels taken from another ...
Sample(img, w, h, from) ==
    [img EXCEPT !.w = w, !.h = h, !.px = [p \in Rect(w, h) |-> img.px[from[p]]]]

\* ... shows what that one shows there.
LEMMA SampleFacts ==
    ASSUME NEW img, IsPicture(img), NEW w \in Nat \ {0}, NEW h \in Nat \ {0},
           NEW from \in [Rect(w, h) -> Rect(img.w, img.h)]
    PROVE  LET made == Sample(img, w, h, from) IN
           /\ IsPicture(made) /\ made.mode = img.mode /\ made.palette = img.palette
           /\ made.w = w /\ made.h = h
           /\ Flat(made) = [p \in Rect(w, h) |-> Flat(img)[from[p]]]
  <1> DEFINE made == Sample(img, w, h, from)
  <1>0. made = [img EXCEPT !.w = w, !.h = h, !.px = [p \in Rect(w, h) |-> img.px[from[p]]]]
    BY DEF Sample
  <1> HIDE DEF made
  <1>1. img = [mode |-> img.mode, w |-> img.w, h |-> img.h, palette |-> img.palette, px |-> img.px]
    BY DEF IsPicture
  <1>2. /\ made = [mode |-> made.mode, w |-> made.w, h |-> made.h,
                   palette |-> made.palette, px |-> made.px]
        /\ made.mode = img.mode /\ made.w = w /\ made.h = h /\ made.palette = img.palette
        /\ made.px = [p \in Rect(w, h) |-> img.px[from[p]]]
    BY <1>0, <1>1
  <1>3. \A p \in Rect(w, h) : from[p] \in Rect(img.w, img.h) /\ made.px[p] = img.px[from[p]]
    BY <1>2
  <1>4. made.px \in [Rect(made.w, made.h) -> [v : Nat, a : 0 .. White]]
    BY <1>2, <1>3 DEF IsPicture
  <1>5. IsPicture(made)
    BY <1>2, <1>3, <1>4 DEF IsPicture
  <1>6. ASSUME NEW p \in Rect(w, h) PROVE Flat(made)[p] = Flat(img)[from[p]]
    BY <1>2, <1>3 DEF Flat, HasAlpha, Shade
  <1>7. Flat(made) = [p \in Rect(w, h) |-> Flat(img)[from[p]]]
    BY <1>2, <1>6 DEF Flat
  <1> QED BY <1>2, <1>5, <1>7 DEF made

LEMMA SampleHidden ==
    ASSUME NEW a, NEW b, IsPicture(a), IsPicture(b), SameButHidden(a, b),
           NEW w \in Nat \ {0}, NEW h \in Nat \ {0}, NEW from \in [Rect(w, h) -> Rect(a.w, a.h)]
    PROVE  SameButHidden(Sample(a, w, h, from), Sample(b, w, h, from))
  <1> DEFINE ca == Sample(a, w, h, from)
             cb == Sample(b, w, h, from)
  <1>1. /\ a = [mode |-> a.mode, w |-> a.w, h |-> a.h, palette |-> a.palette, px |-> a.px]
        /\ b = [mode |-> b.mode, w |-> b.w, h |-> b.h, palette |-> b.palette, px |-> b.px]
    BY DEF IsPicture
  <1>2. /\ ca.mode = a.mode /\ ca.w = w /\ ca.h = h /\ ca.palette = a.palette
        /\ ca.px = [p \in Rect(w, h) |-> a.px[from[p]]]
    BY <1>1 DEF Sample
  <1>3. /\ cb.mode = b.mode /\ cb.w = w /\ cb.h = h /\ cb.palette = b.palette
        /\ cb.px = [p \in Rect(w, h) |-> b.px[from[p]]]
    BY <1>1 DEF Sample
  <1> HIDE DEF ca, cb
  <1>4. ASSUME NEW p \in Rect(w, h)
        PROVE  ca.px[p].a = cb.px[p].a /\ (ca.px[p].a # 0 => Shade(ca, p) = Shade(cb, p))
    <2>1. from[p] \in Rect(a.w, a.h) /\ ca.px[p] = a.px[from[p]] /\ cb.px[p] = b.px[from[p]]
      BY <1>2, <1>3
    <2>2. Shade(ca, p) = Shade(a, from[p]) /\ Shade(cb, p) = Shade(b, from[p])
      BY <1>2, <1>3, <2>1 DEF Shade
    <2> QED BY <2>1, <2>2 DEF SameButHidden
  <1>5. SameButHidden(ca, cb)
    BY <1>2, <1>3, <1>4 DEF SameButHidden
  <1> QED BY <1>5 DEF ca, cb

-----------------------------------------------------------------------------
(* What each raster module makes of two pictures that look the same.      *)

LEMMA CroppedAlike ==
    ASSUME NEW d \in BOOLEAN, NEW a, NEW b, Paired(d, a, b),
           NEW x \in Int, NEW y \in Int, NEW w \in Int, NEW h \in Int, ~CropBad(a, x, y, w, h)
    PROVE  Paired(d, Cropped(a, x, y, w, h), Cropped(b, x, y, w, h))
  <1> DEFINE from == [p \in Rect(w, h) |-> <<p[1] + x, p[2] + y>>]
             ca == Cropped(a, x, y, w, h)
             cb == Cropped(b, x, y, w, h)
  <1>1. /\ w \in Nat \ {0} /\ h \in Nat \ {0}
        /\ a.w \in Nat /\ a.h \in Nat
        /\ 0 <= x /\ 0 <= y /\ x + w <= a.w /\ y + h <= a.h
    BY DEF CropBad, Paired, Alike, IsPicture
  <1>2. ASSUME NEW p \in Rect(w, h) PROVE <<p[1] + x, p[2] + y>> \in Rect(a.w, a.h)
    <2>1. p[1] \in 0 .. w - 1 /\ p[2] \in 0 .. h - 1
      BY DEF Rect
    <2>2. p[1] + x \in 0 .. a.w - 1 /\ p[2] + y \in 0 .. a.h - 1
      BY <1>1, <2>1
    <2> QED BY <2>2 DEF Rect
  <1>3. from \in [Rect(w, h) -> Rect(a.w, a.h)]
    BY <1>2
  <1>4. ca = Sample(a, w, h, from) /\ cb = Sample(b, w, h, from)
    BY DEF Cropped, Sample
  <1> HIDE DEF from, ca, cb
  <1>5. /\ IsPicture(ca) /\ ca.palette = a.palette /\ ca.w = w /\ ca.h = h
        /\ Flat(ca) = [p \in Rect(w, h) |-> Flat(a)[from[p]]]
    BY <1>1, <1>3, <1>4, SampleFacts DEF Paired, Alike
  <1>6. /\ IsPicture(cb) /\ cb.w = w /\ cb.h = h
        /\ Flat(cb) = [p \in Rect(w, h) |-> Flat(b)[from[p]]]
    BY <1>1, <1>3, <1>4, SampleFacts DEF Paired, Alike
  <1>7. d => SameButHidden(ca, cb)
    BY <1>1, <1>3, <1>4, SampleHidden DEF Paired, Alike
  <1> QED BY <1>5, <1>6, <1>7 DEF Paired, Alike, Indexable, ca, cb

\* The places a smaller picture is sampled at are in the larger one.
LEMMA SamplePlace ==
    ASSUME NEW p \in Nat, NEW m \in Nat \ {0}, NEW n \in Nat \ {0}, p < m
    PROVE  ((2 * p + 1) * n) \div (2 * m) \in 0 .. n - 1
  <1>1. 2 * p + 1 \in Nat /\ 2 * m \in Nat \ {0} /\ 2 * p + 1 < 2 * m
    OBVIOUS
  <1> DEFINE q == 2 * p + 1
             d == 2 * m
  <1> HIDE DEF q, d
  <1>2. q \in Nat /\ d \in Nat \ {0} /\ q * n < d * n /\ q * n \in Nat
    BY <1>1, ProductGrowsStrictly DEF q, d
  <1>3. (q * n) \div d \in 0 .. n - 1
    BY <1>2, DivBelow
  <1> QED BY <1>3 DEF q, d

LEMMA ClipType ==
    ASSUME NEW x
    PROVE  Clip(x) \in 0 .. White
  BY WhiteAssumption DEF Clip

\* Indices are not mixed: the pixels of the smaller picture are some of the larger.
LEMMA NearestAlike ==
    ASSUME NEW a, NEW b, IsPicture(a), IsPicture(b), SameButHidden(a, b), Indexable(a),
           a.mode = "P", NEW w \in Nat \ {0}, NEW h \in Nat \ {0}
    PROVE  Paired(TRUE, Resized(a, w, h), Resized(b, w, h))
  <1> DEFINE from == [p \in Rect(w, h) |-> <<((2 * p[1] + 1) * a.w) \div (2 * w),
                                             ((2 * p[2] + 1) * a.h) \div (2 * h)>>]
             ca == Resized(a, w, h)
             cb == Resized(b, w, h)
  <1>1. a.w \in Nat \ {0} /\ a.h \in Nat \ {0} /\ b.w = a.w /\ b.h = a.h /\ b.mode = "P"
    BY DEF SameButHidden, IsPicture
  <1>2. ASSUME NEW p \in Rect(w, h)
        PROVE  <<((2 * p[1] + 1) * a.w) \div (2 * w), ((2 * p[2] + 1) * a.h) \div (2 * h)>> \in Rect(a.w, a.h)
    <2>1. p[1] \in Nat /\ p[1] < w /\ p[2] \in Nat /\ p[2] < h
      BY DEF Rect
    <2>2. /\ ((2 * p[1] + 1) * a.w) \div (2 * w) \in 0 .. a.w - 1
          /\ ((2 * p[2] + 1) * a.h) \div (2 * h) \in 0 .. a.h - 1
      BY <1>1, <2>1, SamplePlace
    <2> QED BY <2>2 DEF Rect
  <1>3. from \in [Rect(w, h) -> Rect(a.w, a.h)]
    BY <1>2
  <1>4. ca = Sample(a, w, h, from) /\ cb = Sample(b, w, h, from)
    BY <1>1 DEF Resized, Nearest, Sample
  <1> HIDE DEF from, ca, cb
  <1>5. IsPicture(ca) /\ ca.palette = a.palette
    BY <1>3, <1>4, SampleFacts
  <1>6. IsPicture(cb)
    BY <1>1, <1>3, <1>4, SampleFacts
  <1>7. SameButHidden(ca, cb)
    BY <1>3, <1>4, SampleHidden
  <1>8. Alike(ca, cb)
    BY <1>5, <1>6, <1>7, HiddenIsHidden
  <1> QED BY <1>5, <1>7, <1>8 DEF Paired, Indexable, ca, cb

\* Where nothing is hidden that alpha does not take out before the filter, the
\* filter gives one picture.
LEMMA MultipliedAlike ==
    ASSUME NEW a, NEW b, IsPicture(a), IsPicture(b), SameButHidden(a, b), a.mode # "P"
    PROVE  /\ [q \in Rect(a.w, a.h) |-> a.px[q].a] = [q \in Rect(b.w, b.h) |-> b.px[q].a]
           /\ [q \in Rect(a.w, a.h) |-> Multiplied(a.px[q])] = [q \in Rect(b.w, b.h) |-> Multiplied(b.px[q])]
  <1>1. a.w = b.w /\ a.h = b.h /\ a.mode = b.mode
    BY DEF SameButHidden
  <1>2. ASSUME NEW q \in Rect(a.w, a.h)
        PROVE  a.px[q].a = b.px[q].a /\ Multiplied(a.px[q]) = Multiplied(b.px[q])
    <2> DEFINE s == a.px[q].v
               t == b.px[q].v
               x == a.px[q].a
    <2>1. s \in Nat /\ t \in Nat /\ x \in 0 .. White
      BY <1>1 DEF IsPicture
    <2>2. b.px[q].a = x /\ (x # 0 => s = t)
      BY <1>1 DEF SameButHidden, Shade
    <2>3. Multiplied(a.px[q]) = Round(s * x, White) /\ Multiplied(b.px[q]) = Round(t * x, White)
      BY <2>2 DEF Multiplied
    <2> HIDE DEF s, t, x
    <2>4. s * x = t * x
      <3>1. CASE x = 0
        BY <2>1, <3>1
      <3>2. CASE x # 0
        BY <2>2, <3>2
      <3> QED BY <3>1, <3>2
    <2>5. a.px[q].a = b.px[q].a
      BY <2>2 DEF x
    <2> QED BY <2>3, <2>4, <2>5
  <1> QED BY <1>1, <1>2

LEMMA MixedAlike ==
    ASSUME NEW a, NEW b, IsPicture(a), IsPicture(b), SameButHidden(a, b), Indexable(a),
           a.mode # "P", NEW w \in Nat \ {0}, NEW h \in Nat \ {0}
    PROVE  Paired(TRUE, Resized(a, w, h), Resized(b, w, h))
  <1> DEFINE ca == Resized(a, w, h)
             cb == Resized(b, w, h)
  <1>1. a.w = b.w /\ a.h = b.h /\ a.mode = b.mode /\ b.mode # "P"
    BY DEF SameButHidden
  <1>2. ASSUME NEW p \in Rect(w, h) PROVE Mixed(a, w, h, p) = Mixed(b, w, h, p)
    <2> DEFINE alphas(img) == [q \in Rect(img.w, img.h) |-> img.px[q].a]
               colours(img) == [q \in Rect(img.w, img.h) |-> Multiplied(img.px[q])]
               filtered(img, plane) == Clip(Bicubic(plane, <<img.w, img.h>>, <<w, h>>, p))
               alpha(img) == IF img.mode = "RGBA" THEN filtered(img, alphas(img)) ELSE White
    <2>1. alphas(a) = alphas(b) /\ colours(a) = colours(b)
      BY MultipliedAlike
    <2>2. Mixed(a, w, h, p) = [v |-> Divided(filtered(a, colours(a)), alpha(a)), a |-> alpha(a)]
      BY DEF Mixed
    <2>3. Mixed(b, w, h, p) = [v |-> Divided(filtered(b, colours(b)), alpha(b)), a |-> alpha(b)]
      BY DEF Mixed
    <2> HIDE DEF alphas, colours
    <2>4. alpha(a) = alpha(b) /\ filtered(a, colours(a)) = filtered(b, colours(b))
      BY <1>1, <2>1
    <2> HIDE DEF alpha, filtered
    <2> QED BY <2>2, <2>3, <2>4
  <1>3. ASSUME NEW p \in Rect(w, h)
        PROVE  /\ Mixed(a, w, h, p) \in [v : 0 .. White, a : 0 .. White]
               /\ a.mode # "RGBA" => Mixed(a, w, h, p).a = White
    <2> DEFINE filtered(plane) == Clip(Bicubic(plane, <<a.w, a.h>>, <<w, h>>, p))
               x == IF a.mode = "RGBA" THEN filtered([q \in Rect(a.w, a.h) |-> a.px[q].a]) ELSE White
               y == filtered([q \in Rect(a.w, a.h) |-> Multiplied(a.px[q])])
    <2>1. Mixed(a, w, h, p) = [v |-> Divided(y, x), a |-> x]
      BY DEF Mixed
    <2>2. x \in 0 .. White /\ y \in 0 .. White
      BY ClipType, WhiteAssumption
    <2>3. a.mode # "RGBA" => x = White
      OBVIOUS
    <2> HIDE DEF x, y
    <2>4. Divided(y, x) \in 0 .. White
      BY <2>2, ClipType DEF Divided
    <2> QED BY <2>1, <2>2, <2>3, <2>4
  <1>4. /\ a = [mode |-> a.mode, w |-> a.w, h |-> a.h, palette |-> a.palette, px |-> a.px]
        /\ b = [mode |-> b.mode, w |-> b.w, h |-> b.h, palette |-> b.palette, px |-> b.px]
    BY DEF IsPicture
  <1>5. /\ ca = [mode |-> ca.mode, w |-> ca.w, h |-> ca.h, palette |-> ca.palette, px |-> ca.px]
        /\ ca.mode = a.mode /\ ca.w = w /\ ca.h = h /\ ca.palette = a.palette
        /\ ca.px = [p \in Rect(w, h) |-> Mixed(a, w, h, p)]
    <2>1. PICK f : f = [p \in Rect(w, h) |-> Mixed(a, w, h, p)]
      OBVIOUS
    <2>2. f = [p \in Rect(w, h) |-> IF a.mode = "P" THEN Nearest(a, w, h, p) ELSE Mixed(a, w, h, p)]
      BY <2>1
    <2>3. ca = [a EXCEPT !.w = w, !.h = h, !.px = f]
      BY <2>2, Zenon DEF Resized
    <2> HIDE DEF ca
    <2>4. ca = [mode |-> a.mode, w |-> w, h |-> h, palette |-> a.palette, px |-> f]
      BY <1>4, <2>3
    <2> QED BY <2>1, <2>4
  <1>6. /\ cb = [mode |-> cb.mode, w |-> cb.w, h |-> cb.h, palette |-> cb.palette, px |-> cb.px]
        /\ cb.mode = a.mode /\ cb.w = w /\ cb.h = h /\ cb.palette = b.palette
        /\ cb.px = [p \in Rect(w, h) |-> Mixed(b, w, h, p)]
    <2>1. PICK f : f = [p \in Rect(w, h) |-> Mixed(b, w, h, p)]
      OBVIOUS
    <2>2. f = [p \in Rect(w, h) |-> IF b.mode = "P" THEN Nearest(b, w, h, p) ELSE Mixed(b, w, h, p)]
      BY <1>1, <2>1
    <2>3. cb = [b EXCEPT !.w = w, !.h = h, !.px = f]
      BY <2>2, Zenon DEF Resized
    <2> HIDE DEF cb
    <2>4. cb = [mode |-> b.mode, w |-> w, h |-> h, palette |-> b.palette, px |-> f]
      BY <1>4, <2>3
    <2> QED BY <1>1, <2>1, <2>4
  <1>7. ca.px = cb.px
    BY <1>2, <1>5, <1>6
  <1> HIDE DEF ca, cb
  <1>8. ASSUME NEW p \in Rect(w, h)
        PROVE  /\ ca.px[p] \in [v : Nat, a : 0 .. White] /\ ca.px[p].v < White + 1
               /\ a.mode # "RGBA" => ca.px[p].a = White
    <2>1. ca.px[p] = Mixed(a, w, h, p)
      BY <1>5
    <2>2. ca.px[p] \in [v : 0 .. White, a : 0 .. White] /\ (a.mode # "RGBA" => ca.px[p].a = White)
      BY <1>3, <2>1
    <2> QED BY <2>2, WhiteAssumption
  <1>9. ca.px \in [Rect(w, h) -> [v : Nat, a : 0 .. White]]
    BY <1>5, <1>8
  <1>10. IsPicture(ca)
    BY <1>5, <1>8, <1>9 DEF IsPicture
  <1>11. IsPicture(cb)
    BY <1>1, <1>6, <1>7, <1>8, <1>9 DEF IsPicture
  <1>12. SameButHidden(ca, cb)
    BY <1>5, <1>6, <1>7 DEF SameButHidden, Shade
  <1>13. Alike(ca, cb)
    BY <1>10, <1>11, <1>12, HiddenIsHidden
  <1> QED BY <1>5, <1>12, <1>13 DEF Paired, Indexable, ca, cb

\* Modules that flatten first make one picture of the two.
LEMMA OpaqueAlike ==
    ASSUME NEW img, img.w \in Nat \ {0}, img.h \in Nat \ {0}, NEW mode \in {"RGB", "L"},
           NEW shades \in [Rect(img.w, img.h) -> 0 .. White]
    PROVE  LET made == Opaque(img, mode, shades) IN \A d \in BOOLEAN : Paired(d, made, made)
  <1> DEFINE made == Opaque(img, mode, shades)
  <1>1. IsPicture(made) /\ made.palette = << >>
    BY OpaqueFacts
  <1> HIDE DEF made
  <1>2. SameButHidden(made, made)
    BY DEF SameButHidden
  <1>3. ASSUME NEW d \in BOOLEAN PROVE Paired(d, made, made)
    BY <1>1, <1>2, DepthAssumption DEF Paired, Alike, Indexable
  <1> QED BY <1>3 DEF made

LEMMA RotatedAlike ==
    ASSUME NEW d \in BOOLEAN, NEW a, NEW b, Paired(d, a, b)
    PROVE  Paired(d, Rotated(a), Rotated(b))
  <1> DEFINE turned == [w |-> a.h, h |-> a.w]
             shades == [p \in Rect(a.h, a.w) |-> Flat(a)[<<a.w - 1 - p[2], p[1]>>]]
  <1>1. a.w \in Nat \ {0} /\ a.h \in Nat \ {0} /\ b.w = a.w /\ b.h = a.h /\ Flat(b) = Flat(a)
    BY DEF Paired, Alike, IsPicture
  <1>2. Rotated(a) = Opaque(turned, "RGB", shades) /\ Rotated(b) = Opaque(turned, "RGB", shades)
    BY <1>1 DEF Rotated
  <1>3. ASSUME NEW p \in Rect(a.h, a.w) PROVE <<a.w - 1 - p[2], p[1]>> \in Rect(a.w, a.h)
    <2>1. p[1] \in 0 .. a.h - 1 /\ p[2] \in 0 .. a.w - 1
      BY DEF Rect
    <2>2. a.w - 1 - p[2] \in 0 .. a.w - 1
      BY <1>1, <2>1
    <2> QED BY <2>1, <2>2 DEF Rect
  <1>4. shades \in [Rect(a.h, a.w) -> 0 .. White]
    BY <1>3, FlatType DEF Paired, Alike
  <1>5. /\ turned.w \in Nat \ {0} /\ turned.h \in Nat \ {0}
        /\ shades \in [Rect(turned.w, turned.h) -> 0 .. White]
    BY <1>1, <1>4
  <1> HIDE DEF turned, shades
  <1> QED BY <1>2, <1>5, OpaqueAlike

LEMMA ThresholdedAlike ==
    ASSUME NEW d \in BOOLEAN, NEW a, NEW b, Paired(d, a, b), NEW level \in Int
    PROVE  Paired(d, Thresholded(a, level), Thresholded(b, level))
  <1> DEFINE shades == [p \in Rect(a.w, a.h) |-> IF Flat(a)[p] > level THEN White ELSE 0]
  <1>1. a.w \in Nat \ {0} /\ a.h \in Nat \ {0} /\ b.w = a.w /\ b.h = a.h /\ Flat(b) = Flat(a)
    BY DEF Paired, Alike, IsPicture
  <1>2. shades \in [Rect(a.w, a.h) -> 0 .. White]
    BY WhiteAssumption
  <1>3. Thresholded(a, level) = Opaque(a, "L", shades) /\ Thresholded(b, level) = Opaque(a, "L", shades)
    BY <1>1 DEF Thresholded, Opaque
  <1> HIDE DEF shades
  <1> QED BY <1>1, <1>2, <1>3, OpaqueAlike

LEMMA InvertedAlike ==
    ASSUME NEW d \in BOOLEAN, NEW a, NEW b, Paired(d, a, b)
    PROVE  Paired(d, Inverted(a), Inverted(b))
  <1> DEFINE shades == [p \in Rect(a.w, a.h) |-> White - Flat(a)[p]]
  <1>1. a.w \in Nat \ {0} /\ a.h \in Nat \ {0} /\ b.w = a.w /\ b.h = a.h /\ Flat(b) = Flat(a)
    BY DEF Paired, Alike, IsPicture
  <1>2. ASSUME NEW p \in Rect(a.w, a.h) PROVE White - Flat(a)[p] \in 0 .. White
    <2>1. Flat(a)[p] \in 0 .. White
      BY FlatType DEF Paired, Alike
    <2> QED BY <2>1, WhiteAssumption
  <1>3. shades \in [Rect(a.w, a.h) -> 0 .. White]
    BY <1>2
  <1>4. Inverted(a) = Opaque(a, "RGB", shades) /\ Inverted(b) = Opaque(a, "RGB", shades)
    BY <1>1 DEF Inverted, Opaque
  <1> HIDE DEF shades
  <1> QED BY <1>1, <1>3, <1>4, OpaqueAlike

\* The table of image.levels has values of a channel.
LEMMA LevelledAlike ==
    ASSUME NEW d \in BOOLEAN, NEW a, NEW b, Paired(d, a, b), NEW black \in Int, NEW white \in Int, NEW e \in Int,
           ~LevelsBad(black, white, e)
    PROVE  Paired(d, Levelled(a, black, white, e), Levelled(b, black, white, e))
  <1> DEFINE span == white - black
             place(v) == IF v < black THEN 0 ELSE IF v > white THEN span ELSE v - black
             table == [v \in 0 .. White |-> Round(White * Power(place(v), e), Power(span, e))]
             shades == [p \in Rect(a.w, a.h) |-> table[Flat(a)[p]]]
  <1>1. a.w \in Nat \ {0} /\ a.h \in Nat \ {0} /\ b.w = a.w /\ b.h = a.h /\ Flat(b) = Flat(a)
    BY DEF Paired, Alike, IsPicture
  <1>2. span \in Nat \ {0} /\ e \in Nat
    BY DEF LevelsBad
  <1>3. ASSUME NEW v \in 0 .. White
        PROVE  Round(White * Power(place(v), e), Power(span, e)) \in 0 .. White
    <2>1. place(v) \in Nat /\ place(v) <= span
      BY <1>2, WhiteAssumption DEF LevelsBad
    <2> HIDE DEF place, span
    <2>2. Power(span, e) \in Nat \ {0}
      BY <1>2, PowerPositive
    <2>3. Power(place(v), e) \in Nat /\ Power(place(v), e) <= Power(span, e)
      BY <1>2, <2>1, PowerGrows
    <2>4. /\ White * Power(place(v), e) \in Nat
          /\ White * Power(place(v), e) <= White * Power(span, e)
      BY <2>2, <2>3, ProductGrows, WhiteAssumption
    <2>5. White * Power(span, e) = Power(span, e) * White
      BY <2>2, WhiteAssumption
    <2> QED BY <2>2, <2>4, <2>5, RoundBounds, WhiteAssumption
  <1>4. table \in [0 .. White -> 0 .. White]
    BY <1>3
  <1>5. Levelled(a, black, white, e) = Opaque(a, "RGB", shades) /\ Levelled(b, black, white, e) = Opaque(a, "RGB", shades)
    BY <1>1 DEF Levelled, Opaque
  <1> HIDE DEF table
  <1>6. shades \in [Rect(a.w, a.h) -> 0 .. White]
    BY <1>4, FlatType DEF Paired, Alike
  <1> HIDE DEF shades
  <1> QED BY <1>1, <1>5, <1>6, OpaqueAlike

\* A picture that is shrunk fits, grows in no direction and does not vanish.
LEMMA ContainFits ==
    ASSUME NEW img, IsPicture(img), NEW n \in Nat \ {0}, Longest(img) > n,
           0 \notin {Contain(img, n)[1], Contain(img, n)[2]}
    PROVE  /\ Contain(img, n)[1] \in 1 .. img.w /\ Contain(img, n)[2] \in 1 .. img.h
           /\ Contain(img, n)[1] <= n /\ Contain(img, n)[2] <= n
  <1>1. img.w \in Nat \ {0} /\ img.h \in Nat \ {0}
    BY DEF IsPicture
  <1>2. CASE img.w > img.h
    <2>1. n < img.w
      BY <1>1, <1>2 DEF Longest
    <2>2. img.h * n \in Nat /\ img.h * n <= img.w * n /\ img.h * n <= img.w * img.h
      <3>1. img.h * n <= img.w * n /\ img.h * n \in Nat
        BY <1>1, <1>2, ProductGrows
      <3>2. n * img.h <= img.w * img.h
        BY <1>1, <2>1, ProductGrows
      <3>3. n * img.h = img.h * n
        BY <1>1
      <3> QED BY <3>1, <3>2, <3>3
    <2>3. Round(img.h * n, img.w) \in 0 .. n /\ Round(img.h * n, img.w) \in 0 .. img.h
      BY <1>1, <2>2, RoundBounds
    <2>4. Contain(img, n)[1] = n /\ Contain(img, n)[2] = Round(img.h * n, img.w)
      BY <1>2 DEF Contain
    <2> QED BY <1>1, <2>1, <2>3, <2>4
  <1>3. CASE ~(img.w > img.h)
    <2>1. n < img.h /\ img.w <= img.h
      BY <1>1, <1>3 DEF Longest
    <2>2. img.w * n \in Nat /\ img.w * n <= img.h * n /\ img.w * n <= img.h * img.w
      <3>1. img.w * n <= img.h * n /\ img.w * n \in Nat
        BY <1>1, <2>1, ProductGrows
      <3>2. n * img.w <= img.h * img.w
        BY <1>1, <2>1, ProductGrows
      <3>3. n * img.w = img.w * n
        BY <1>1
      <3> QED BY <3>1, <3>2, <3>3
    <2>3. Round(img.w * n, img.h) \in 0 .. n /\ Round(img.w * n, img.h) \in 0 .. img.w
      BY <1>1, <2>2, RoundBounds
    <2>4. Contain(img, n)[2] = n /\ Contain(img, n)[1] = Round(img.w * n, img.h)
      BY <1>3 DEF Contain
    <2> QED BY <1>1, <2>1, <2>3, <2>4
  <1> QED BY <1>2, <1>3

LEMMA DownsampledAlike ==
    ASSUME NEW d \in BOOLEAN, NEW a, NEW b, Paired(d, a, b), NEW n \in Int,
           ~DownsampleBad(a, d, n)
    PROVE  Paired(d, Downsampled(a, d, n), Downsampled(b, d, n))
  <1>1. a.w \in Nat \ {0} /\ a.h \in Nat \ {0} /\ b.w = a.w /\ b.h = a.h
    BY DEF Paired, Alike, IsPicture
  <1>2. Identity(a, d, n) <=> Identity(b, d, n)
    BY <1>1 DEF Identity, Longest
  <1>3. CASE Identity(a, d, n)
    BY <1>2, <1>3 DEF Downsampled
  <1>4. CASE ~Identity(a, d, n)
    <2>1. d /\ Longest(a) > n /\ n \in Nat \ {0}
      BY <1>1, <1>4 DEF Identity, DownsampleBad, Longest
    <2>2. 0 \notin {Contain(a, n)[1], Contain(a, n)[2]}
      BY <1>4, <2>1 DEF DownsampleBad
    <2>3. Contain(a, n)[1] \in Nat \ {0} /\ Contain(a, n)[2] \in Nat \ {0}
      BY <1>1, <2>1, <2>2, ContainFits DEF Paired, Alike
    <2>4. Contain(b, n) = Contain(a, n)
      BY <1>1 DEF Contain
    <2> DEFINE u == Contain(a, n)[1]
               v == Contain(a, n)[2]
    <2>5. Downsampled(a, d, n) = Resized(a, u, v) /\ Downsampled(b, d, n) = Resized(b, u, v)
      BY <1>2, <1>4, <2>4 DEF Downsampled
    <2> HIDE DEF u, v
    <2>6. IsPicture(a) /\ IsPicture(b) /\ SameButHidden(a, b) /\ Indexable(a)
      BY <2>1 DEF Paired, Alike
    <2>7. Paired(TRUE, Resized(a, u, v), Resized(b, u, v))
      BY <2>3, <2>6, NearestAlike, MixedAlike DEF u, v
    <2> QED BY <2>1, <2>5, <2>7
  <1> QED BY <1>3, <1>4

-----------------------------------------------------------------------------
(* posterize.                                                              *)

\* The smallest of finitely many numbers, and the largest.
LEMMA MinFacts ==
    ASSUME NEW S \in SUBSET Nat, NEW m \in Nat, \A x \in S : x <= m, S # {}
    PROVE  Min(S) \in S /\ \A x \in S : Min(S) <= x
  <1>1. IsFiniteSet(S)
    BY FS_BoundedSetOfNaturals
  <1>2. \E x \in S : \A y \in S : x <= y
    BY <1>1, FirstOf
  <1> QED BY <1>2 DEF Min

LEMMA MaxFacts ==
    ASSUME NEW S \in SUBSET Nat, NEW m \in Nat, \A x \in S : x <= m, S # {}
    PROVE  Max(S) \in S /\ \A x \in S : x <= Max(S)
  <1>1. IsFiniteSet(S)
    BY FS_BoundedSetOfNaturals
  <1>2. \E x \in S : \A y \in S : y <= x
    BY <1>1, LastOf
  <1>3. \E x \in S : \A y \in S : x >= y
    BY <1>2
  <1>4. Max(S) \in S /\ \A y \in S : Max(S) >= y
    BY <1>3 DEF Max
  <1> QED BY <1>4

\* Of the entries of a palette one is nearest, and the first of those is taken.
LEMMA NearestFacts ==
    ASSUME NEW palette \in Seq(0 .. White), palette # << >>, NEW v \in 0 .. White
    PROVE  LET i == NearestEntry(palette, v) + 1
               far(j) == Distance(v, palette[j])
           IN  /\ i \in DOMAIN palette /\ NearestEntry(palette, v) \in 0 .. Len(palette) - 1
               /\ \A j \in DOMAIN palette : far(i) < far(j) \/ (far(i) = far(j) /\ i <= j)
  <1> DEFINE far(j) == Distance(v, palette[j])
             dom == DOMAIN palette
             Near1 == { i \in dom : \A j \in dom : far(i) <= far(j) }
             fars == { far(j) : j \in dom }
  <1>1. Len(palette) \in Nat \ {0} /\ dom = 1 .. Len(palette)
    OBVIOUS
  <1>2. ASSUME NEW j \in dom PROVE far(j) \in 0 .. White
    <2>1. palette[j] \in 0 .. White
      BY <1>1, ElementOfSeq
    <2> QED BY <2>1, WhiteAssumption DEF Distance
  <1> HIDE DEF far
  <1>3. fars \in SUBSET Nat /\ fars # {} /\ \A x \in fars : x <= White
    <2>1. 1 \in dom
      BY <1>1
    <2> HIDE DEF dom
    <2> QED BY <1>2, <2>1, WhiteAssumption
  <1>4. PICK i \in dom : \A j \in dom : far(i) <= far(j)
    <2>1. Min(fars) \in fars /\ \A x \in fars : Min(fars) <= x
      <3> HIDE DEF fars
      <3> QED BY <1>3, MinFacts, WhiteAssumption
    <2> QED BY <2>1
  <1>5. Near1 \in SUBSET Nat /\ Near1 # {} /\ \A x \in Near1 : x <= Len(palette)
    BY <1>1, <1>4
  <1>6. Min(Near1) \in Near1 /\ \A x \in Near1 : Min(Near1) <= x
    <2> HIDE DEF Near1
    <2> QED BY <1>1, <1>5, MinFacts
  <1>7. NearestEntry(palette, v) = Min(Near1) - 1
    BY DEF NearestEntry, far
  <1> DEFINE m == Min(Near1)
  <1>8. m \in dom /\ m \in Nat /\ NearestEntry(palette, v) + 1 = m
    BY <1>1, <1>6, <1>7
  <1>9. ASSUME NEW j \in dom PROVE far(m) < far(j) \/ (far(m) = far(j) /\ m <= j)
    <2>1. far(m) \in Nat /\ far(j) \in Nat /\ far(m) <= far(j)
      BY <1>2, <1>6, <1>8
    <2>2. CASE far(m) = far(j)
      <3>1. \A k \in dom : far(j) <= far(k)
        BY <1>6, <2>2
      <3>2. j \in Near1
        BY <3>1
      <3> QED BY <1>6, <2>2, <3>2
    <2> QED BY <2>1, <2>2
  <1>10. NearestEntry(palette, v) \in 0 .. Len(palette) - 1
    BY <1>1, <1>7, <1>8
  <1> HIDE DEF m, dom
  <1>11. \A j \in dom : Distance(v, palette[m]) < Distance(v, palette[j])
                          \/ (Distance(v, palette[m]) = Distance(v, palette[j]) /\ m <= j)
    BY <1>9 DEF far
  <1> QED BY <1>8, <1>10, <1>11 DEF dom

\* Indices that the palette has and a byte holds are kept as they are.
LEMMA IndexedFacts ==
    ASSUME ~Junk, IsPicture(image), NEW palette \in Seq(0 .. White), Len(palette) <= Depth,
           NEW shades \in [Area -> 0 .. White], NEW index \in [0 .. White -> 0 .. Len(palette) - 1]
    PROVE  LET made == Indexed(palette, shades, index) IN
           /\ \A d \in BOOLEAN : Paired(d, made, made)
           /\ \A p \in Area : made.px[p].v = index[shades[p]]
  <1> DEFINE made == Indexed(palette, shades, index)
  <1>1. ASSUME NEW p \in Area PROVE index[shades[p]] % Depth = index[shades[p]]
    <2>1. index[shades[p]] \in 0 .. Len(palette) - 1 /\ Len(palette) \in Nat
      OBVIOUS
    <2> DEFINE x == index[shades[p]]
    <2> HIDE DEF x
    <2>2. x \in Nat /\ x < Depth
      BY <2>1, DepthAssumption DEF x
    <2>3. x % Depth = x
      BY <2>2, DepthAssumption, ModSmall
    <2> QED BY <2>3 DEF x
  <1>2. /\ made = [mode |-> made.mode, w |-> made.w, h |-> made.h,
                   palette |-> made.palette, px |-> made.px]
        /\ made.mode = "P" /\ made.w = image.w /\ made.h = image.h /\ made.palette = palette
    BY DEF Indexed
  <1>9. made.px = [p \in Area |-> [v |-> index[shades[p]] % Depth, a |-> White]]
    BY DEF Indexed
  <1> HIDE DEF made
  <1>3. ASSUME NEW p \in Area
        PROVE  /\ made.px[p] \in [v : Nat, a : 0 .. White]
               /\ made.px[p].v = index[shades[p]] /\ made.px[p].v < Len(palette)
               /\ made.px[p].a = White
    <2>1. index[shades[p]] \in 0 .. Len(palette) - 1 /\ Len(palette) \in Nat
      OBVIOUS
    <2>2. made.px[p] = [v |-> index[shades[p]] % Depth, a |-> White]
      BY <1>9
    <2>3. index[shades[p]] % Depth = index[shades[p]]
      BY <1>1
    <2>4. made.px[p] = [v |-> index[shades[p]], a |-> White]
      BY <2>2, <2>3, Zenon
    <2> DEFINE x == index[shades[p]]
    <2>5. x \in Nat /\ x < Len(palette)
      BY <2>1
    <2>6. made.px[p] = [v |-> x, a |-> White]
      BY <2>4
    <2> HIDE DEF x
    <2>7. made.px[p] \in [v : Nat, a : 0 .. White] /\ made.px[p].v = x /\ made.px[p].a = White
      BY <2>5, <2>6, WhiteAssumption
    <2> QED BY <2>5, <2>7 DEF x
  <1>4. made.px = [p \in Area |-> made.px[p]]
    BY <1>9
  <1>5. made.px \in [Area -> [v : Nat, a : 0 .. White]]
    BY <1>3, <1>4
  <1>6. Area = Rect(made.w, made.h)
    BY <1>2 DEF Area
  <1>7. \A p \in Area : /\ made.px[p].v = index[shades[p]] /\ made.px[p].v < Len(palette)
                         /\ made.px[p].a = White
    BY <1>3
  <1>8. IsPicture(made)
    BY <1>2, <1>5, <1>6, <1>7 DEF IsPicture
  <1>10. SameButHidden(made, made)
    BY DEF SameButHidden
  <1>11. ASSUME NEW d \in BOOLEAN PROVE Paired(d, made, made)
    BY <1>2, <1>8, <1>10 DEF Paired, Alike, Indexable
  <1> QED BY <1>7, <1>11 DEF made

-----------------------------------------------------------------------------
(* The chain.                                                              *)

\* A node that succeeded.
Goes == stage = "chain" /\ ChainInv' /\ UNCHANGED <<draft, stage, branchVars>>

\* A node ends the job, or hands on two pictures that look the same.
LEMMA NodeGoes ==
    ASSUME ChainInv, NEW bad \in BOOLEAN, NEW result, NEW ofTwin, Node(bad, result, ofTwin),
           ~bad => Paired(draft, result, ofTwin)
    PROVE  (stage = "chain" /\ Fail) \/ Goes
  <1>1. CASE bad
    BY <1>1 DEF Node
  <1>2. CASE ~bad
    BY <1>2 DEF Node, Goes, ChainInv
  <1> QED BY <1>1, <1>2

LEMMA PosterizeGoes ==
    ASSUME ChainInv, NEW palette \in Palettes, Posterize(palette)
    PROVE  (stage = "chain" /\ Fail) \/ Goes
  <1> DEFINE bad == Junk \/ PaletteBad(palette)
             result == ToPalette(palette, Flat(image))
             ofTwin == ToPalette(palette, Flat(twin))
             index == [v \in 0 .. White |-> NearestEntry(palette, v)]
  <1>1. bad \in BOOLEAN /\ Node(bad, result, ofTwin)
    BY DEF Posterize, Junk, PaletteBad
  <1>2. ASSUME ~bad PROVE Paired(draft, result, ofTwin)
    <2>1. palette \in Seq(0 .. White) /\ 2 <= Len(palette) /\ Len(palette) <= Depth
      BY <1>2, ParametersAssumption DEF PaletteBad
    <2>2. palette # << >>
      BY <2>1
    <2>3. index \in [0 .. White -> 0 .. Len(palette) - 1]
      BY <2>1, <2>2, NearestFacts
    <2>4. ~Junk /\ IsPicture(image) /\ Flat(image) = Flat(twin)
      BY <1>2 DEF ChainInv, Paired, Alike
    <2>5. Flat(image) \in [Area -> 0 .. White]
      BY <2>4, FlatType DEF Area
    <2>6. /\ result = Indexed(palette, Flat(image), index)
          /\ ofTwin = Indexed(palette, Flat(image), index)
      BY <2>4 DEF ToPalette
    <2> HIDE DEF index, result, ofTwin
    <2>7. draft \in BOOLEAN
      BY DEF ChainInv
    <2> QED BY <2>1, <2>3, <2>4, <2>5, <2>6, <2>7, IndexedFacts
  <1> HIDE DEF bad, result, ofTwin
  <1> QED BY <1>1, <1>2, NodeGoes

LEMMA PosterizeAutoGoes ==
    ASSUME ChainInv, NEW colors \in Colors, PosterizeAuto(colors)
    PROVE  (stage = "chain" /\ Fail) \/ Goes
  <1>1. CASE Junk \/ ~(2 <= colors /\ colors <= Depth)
    BY <1>1 DEF PosterizeAuto, Node
  <1>2. CASE ~(Junk \/ ~(2 <= colors /\ colors <= Depth))
    <2>0. PICK n \in 1 .. colors : \E index \in [0 .. White -> 0 .. n - 1] :
            LET palette == [i \in 1 .. n |-> Min({ v \in 0 .. White : index[v] = i - 1 })] IN
            /\ { index[Flat(image)[p]] : p \in Area } = 0 .. n - 1
            /\ Node(FALSE, Indexed(palette, Flat(image), index), Indexed(palette, Flat(twin), index))
      BY <1>2 DEF PosterizeAuto
    <2>1. PICK index \in [0 .. White -> 0 .. n - 1] :
            LET palette == [i \in 1 .. n |-> Min({ v \in 0 .. White : index[v] = i - 1 })] IN
            /\ { index[Flat(image)[p]] : p \in Area } = 0 .. n - 1
            /\ Node(FALSE, Indexed(palette, Flat(image), index), Indexed(palette, Flat(twin), index))
      BY <2>0
    <2> DEFINE used(i) == { v \in 0 .. White : index[v] = i - 1 }
               palette == [i \in 1 .. n |-> Min(used(i))]
    <2>2. ~Junk /\ IsPicture(image) /\ Flat(image) = Flat(twin)
      BY <1>2 DEF ChainInv, Paired, Alike
    <2>3. Flat(image) \in [Area -> 0 .. White]
      BY <2>2, FlatType DEF Area
    <2>4. n \in Nat \ {0} /\ n <= Depth
      BY <1>2, DepthAssumption, ParametersAssumption
    <2>5. ASSUME NEW i \in 1 .. n PROVE Min(used(i)) \in 0 .. White
      <3>1. i - 1 \in 0 .. n - 1
        BY <2>4
      <3>2. PICK p \in Area : index[Flat(image)[p]] = i - 1
        BY <2>1, <3>1
      <3>3. Flat(image)[p] \in used(i)
        BY <2>3, <3>2
      <3>4. used(i) \in SUBSET Nat /\ \A x \in used(i) : x <= White /\ x \in 0 .. White
        BY WhiteAssumption
      <3> HIDE DEF used
      <3> QED BY <3>3, <3>4, MinFacts, WhiteAssumption
    <2>6. palette \in [1 .. n -> 0 .. White]
      BY <2>5
    <2>7. palette \in Seq(0 .. White) /\ Len(palette) = n
      <3> HIDE DEF palette
      <3> QED BY <2>4, <2>6, FunctionIsSeq
    <2>8. Node(FALSE, Indexed(palette, Flat(image), index), Indexed(palette, Flat(image), index))
      BY <2>1, <2>2
    <2> HIDE DEF palette
    <2>9. Paired(draft, Indexed(palette, Flat(image), index), Indexed(palette, Flat(image), index))
      <3>1. index \in [0 .. White -> 0 .. Len(palette) - 1]
        BY <2>7
      <3>2. draft \in BOOLEAN
        BY DEF ChainInv
      <3> DEFINE made == Indexed(palette, Flat(image), index)
      <3>3. Len(palette) <= Depth
        BY <2>4, <2>7
      <3>4. \A d \in BOOLEAN : Paired(d, made, made)
        BY <2>2, <2>3, <2>7, <3>1, <3>3, IndexedFacts
      <3> HIDE DEF made
      <3>5. Paired(draft, made, made)
        BY <3>2, <3>4
      <3> QED BY <3>5 DEF made
    <2> QED BY <2>8, <2>9, NodeGoes
  <1> QED BY <1>1, <1>2

LEMMA ChainGoes ==
    ASSUME ChainInv, Chain
    PROVE  (stage = "chain" /\ Fail) \/ Goes
  <1>1. ASSUME NEW c \in Crops, Crop(c[1], c[2], c[3], c[4]) PROVE (stage = "chain" /\ Fail) \/ Goes
    <2>1. c[1] \in Int /\ c[2] \in Int /\ c[3] \in Int /\ c[4] \in Int
      BY ParametersAssumption
    <2> DEFINE bad == Junk \/ CropBad(image, c[1], c[2], c[3], c[4])
               result == Cropped(image, c[1], c[2], c[3], c[4])
               ofTwin == Cropped(twin, c[1], c[2], c[3], c[4])
    <2>2. bad \in BOOLEAN /\ Node(bad, result, ofTwin)
      BY <1>1 DEF Crop, Junk, CropBad
    <2>3. ~bad => Paired(draft, result, ofTwin)
      BY <2>1, CroppedAlike DEF ChainInv
    <2> HIDE DEF bad, result, ofTwin
    <2> QED BY <2>2, <2>3, NodeGoes
  <1>2. ASSUME Rotate PROVE (stage = "chain" /\ Fail) \/ Goes
    <2>1. Junk \in BOOLEAN /\ Node(Junk, Rotated(image), Rotated(twin))
      BY <1>2 DEF Rotate, Junk
    <2>2. ~Junk => Paired(draft, Rotated(image), Rotated(twin))
      BY RotatedAlike DEF ChainInv
    <2> QED BY <2>1, <2>2, NodeGoes
  <1>3. ASSUME NEW l \in Levels, Level(l[1], l[2], l[3]) PROVE (stage = "chain" /\ Fail) \/ Goes
    <2>1. l[1] \in Int /\ l[2] \in Int /\ l[3] \in Int
      BY ParametersAssumption
    <2> DEFINE bad == Junk \/ LevelsBad(l[1], l[2], l[3])
               result == Levelled(image, l[1], l[2], l[3])
               ofTwin == Levelled(twin, l[1], l[2], l[3])
    <2>2. bad \in BOOLEAN /\ Node(bad, result, ofTwin)
      BY <1>3 DEF Level, Junk, LevelsBad
    <2>3. ~bad => Paired(draft, result, ofTwin)
      BY <2>1, LevelledAlike DEF ChainInv
    <2> HIDE DEF bad, result, ofTwin
    <2> QED BY <2>2, <2>3, NodeGoes
  <1>4. ASSUME NEW v \in -1 .. White, Threshold(v) PROVE (stage = "chain" /\ Fail) \/ Goes
    <2> DEFINE bad == Junk \/ ThresholdBad(v)
               result == Thresholded(image, v)
               ofTwin == Thresholded(twin, v)
    <2>1. bad \in BOOLEAN /\ Node(bad, result, ofTwin)
      BY <1>4 DEF Threshold, Junk, ThresholdBad
    <2>2. ~bad => Paired(draft, result, ofTwin)
      <3>1. v \in Int
        BY WhiteAssumption
      <3> QED BY <3>1, ThresholdedAlike DEF ChainInv
    <2> HIDE DEF bad, result, ofTwin
    <2> QED BY <2>1, <2>2, NodeGoes
  <1>5. ASSUME Invert PROVE (stage = "chain" /\ Fail) \/ Goes
    <2>1. Junk \in BOOLEAN /\ Node(Junk, Inverted(image), Inverted(twin))
      BY <1>5 DEF Invert, Junk
    <2>2. ~Junk => Paired(draft, Inverted(image), Inverted(twin))
      BY InvertedAlike DEF ChainInv
    <2> QED BY <2>1, <2>2, NodeGoes
  <1>6. ASSUME NEW n \in Limits, Downsample(n) PROVE (stage = "chain" /\ Fail) \/ Goes
    <2> DEFINE bad == DownsampleBad(image, draft, n)
               result == Downsampled(image, draft, n)
               ofTwin == Downsampled(twin, draft, n)
    <2>1. bad \in BOOLEAN /\ Node(bad, result, ofTwin)
      BY <1>6 DEF Downsample, DownsampleBad
    <2>2. CASE Junk
      <3>1. CASE bad
        BY <2>1, <3>1 DEF Node
      <3>2. CASE ~bad
        <4>1. result = image
          BY <2>2, <3>2 DEF DownsampleBad, Downsampled, Identity, Junk, ChainInv
        <4> HIDE DEF bad, result, ofTwin
        <4> QED BY <2>1, <2>2, <3>2, <4>1 DEF Node, Goes, ChainInv, Junk
      <3> QED BY <3>1, <3>2
    <2>3. CASE ~Junk
      <3>1. ~bad => Paired(draft, result, ofTwin)
        BY <2>3, DownsampledAlike, ParametersAssumption DEF ChainInv
      <3> HIDE DEF bad, result, ofTwin
      <3> QED BY <2>1, <3>1, NodeGoes
    <2> QED BY <2>2, <2>3
  <1>7. ASSUME PosterizeBoth PROVE (stage = "chain" /\ Fail) \/ Goes
    BY <1>7 DEF PosterizeBoth, Node
  <1> QED BY <1>1, <1>2, <1>3, <1>4, <1>5, <1>6, <1>7, PosterizeGoes, PosterizeAutoGoes DEF Chain

-----------------------------------------------------------------------------
(* merge.                                                                  *)

LEMMA StackedLen ==
    ASSUME NEW a \in Nat, NEW b \in Nat, a <= b
    PROVE  /\ Len(Stacked(a, b)) = b - a + 1 /\ DOMAIN Stacked(a, b) = 1 .. b - a + 1
           /\ Stacked(a, b) \in Seq(Range(Stacked(a, b)))
  <1> DEFINE s == Stacked(a, b)
  <1>1. b - a + 1 \in Nat /\ DOMAIN s = 1 .. b - a + 1
    BY DEF Stacked
  <1>2. s \in [1 .. b - a + 1 -> Range(s)]
    BY DEF Stacked, Range
  <1> HIDE DEF s
  <1>3. s \in Seq(Range(s)) /\ Len(s) = b - a + 1
    BY <1>1, <1>2, FunctionIsSeq
  <1> QED BY <1>1, <1>3 DEF s

\* One layer more.
LEMMA StackedAppend ==
    ASSUME NEW a \in Nat, NEW m \in Nat, a <= m
    PROVE  Append(Stacked(a, m), svg[m][2]) = Stacked(a, m + 1)
  <1> DEFINE s == Stacked(a, m)
             e == svg[m][2]
             t == Stacked(a, m + 1)
             n == m - a + 1
             S == Range(s) \cup {e}
  <1>1. n \in Nat /\ Len(s) = n /\ s \in Seq(Range(s))
    BY StackedLen
  <1>2. Range(s) \subseteq S /\ e \in S
    OBVIOUS
  <1>3. Len(t) = n + 1 /\ t \in Seq(Range(t))
    <2>1. m + 1 \in Nat /\ a <= m + 1 /\ (m + 1) - a + 1 = n + 1
      OBVIOUS
    <2> QED BY <2>1, StackedLen
  <1>4. t[n + 1] = e
    BY DEF Stacked
  <1>5. \A i \in 1 .. n : t[i] = s[i]
    BY DEF Stacked
  <1> HIDE DEF s, e, t, n, S
  <1>6. s \in Seq(S)
    BY <1>1, <1>2, SeqMonotonic
  <1>7. /\ Append(s, e) \in Seq(S) /\ Len(Append(s, e)) = n + 1
        /\ \A i \in 1 .. n : Append(s, e)[i] = s[i]
        /\ Append(s, e)[n + 1] = e
    BY <1>1, <1>2, <1>6
  <1>8. \A i \in 1 .. n + 1 : i \in 1 .. n \/ i = n + 1
    BY <1>1
  <1> DEFINE u == Append(s, e)
             U == S \cup Range(t)
  <1> HIDE DEF u
  <1>9. u \in Seq(U) /\ t \in Seq(U)
    BY <1>3, <1>7, SeqMonotonic DEF u
  <1>10. Len(u) = Len(t) /\ \A i \in 1 .. Len(u) : u[i] = t[i]
    BY <1>3, <1>4, <1>5, <1>7, <1>8 DEF u
  <1>11. u = t
    <2> HIDE DEF U
    <2> QED BY <1>9, <1>10, SeqEqual
  <1> QED BY <1>11 DEF s, e, t, u

\* Two neighbours are merged into the layers of both.
LEMMA MergedStacked ==
    ASSUME NEW a \in Nat, NEW b \in Nat, NEW c \in Nat, a < b, b < c,
           \A k \in b .. c - 1 : svg[k][2].tag = "g"
    PROVE  Merged(Stacked(a, b), Stacked(b, c)) = Stacked(a, c)
  <1> DEFINE under == Stacked(a, b)
             over == Stacked(b, c)
             n == Len(over)
             body(g) == [i \in 0 .. n |-> IF i = 0 THEN under
                                          ELSE IF Drawn(over[i]) THEN Append(g[i - 1], over[i])
                                          ELSE g[i - 1]]
             taken == CHOOSE g : g = body(g)
             f == [i \in 0 .. n |-> Stacked(a, IF i = 0 THEN b ELSE b + i - 1)]
  <1>1. Merged(under, over) = taken[n]
    BY DEF Merged
  <1>2. n = c - b + 1 /\ n \in Nat \ {0}
    <2>1. b <= c /\ c - b + 1 \in Nat \ {0}
      OBVIOUS
    <2> QED BY <2>1, StackedLen
  <1>3. ~Drawn(over[1])
    BY <1>2 DEF Stacked, Drawn, Metadata
  <1>4. ASSUME NEW i \in 2 .. n PROVE Drawn(over[i]) /\ over[i] = svg[b + i - 2][2]
    <2>1. over[i] = svg[b + i - 2][2]
      BY <1>2 DEF Stacked
    <2>2. b + i - 2 \in b .. c - 1
      BY <1>2
    <2>3. over[i].tag = "g"
      BY <2>1, <2>2
    <2> QED BY <2>1, <2>3 DEF Drawn
  <1> HIDE DEF n, over, under
  <1>5. ASSUME NEW i \in 0 .. n PROVE f[i] = body(f)[i]
    <2>1. CASE i = 0
      BY <2>1 DEF under
    <2>2. CASE i = 1
      <3>1. 0 \in 0 .. n /\ f[0] = Stacked(a, b) /\ f[1] = Stacked(a, b + 1 - 1)
        BY <1>2, <2>2
      <3>2. b + 1 - 1 = b
        OBVIOUS
      <3>3. body(f)[1] = f[0]
        BY <1>3, <2>2, <3>1
      <3> QED BY <2>2, <3>1, <3>2, <3>3
    <2>3. CASE i >= 2
      <3> DEFINE m == b + i - 2
      <3>1. i \in 2 .. n /\ i - 1 \in 0 .. n /\ i - 1 # 0 /\ i # 0
        BY <1>2, <2>3
      <3>2. b + (i - 1) - 1 = m /\ b + i - 1 = m + 1 /\ m \in Nat /\ a <= m
        BY <2>3
      <3>3. f[i - 1] = Stacked(a, m) /\ f[i] = Stacked(a, m + 1)
        BY <3>1, <3>2
      <3>4. over[i] = svg[m][2] /\ Drawn(over[i])
        BY <1>4, <3>1
      <3>5. Append(Stacked(a, m), svg[m][2]) = Stacked(a, m + 1)
        BY <3>2, StackedAppend
      <3> HIDE DEF m, f
      <3>6. body(f)[i] = Append(f[i - 1], over[i])
        BY <3>1, <3>4
      <3> QED BY <3>3, <3>4, <3>5, <3>6
    <2> QED BY <1>2, <2>1, <2>2, <2>3
  <1>6. f = body(f)
    BY <1>5
  <1>7. taken = body(taken)
    <2> HIDE DEF body, f
    <2> QED BY <1>6
  <1> DEFINE H == { i \in 0 .. n : taken[i] = f[i] }
  <1> HIDE DEF taken, f
  <1>8. 0 \in H
    BY <1>2, <1>6, <1>7
  <1>9. ASSUME NEW i \in 1 .. n, i - 1 \in H PROVE i \in H
    <2>1. i \in 0 .. n /\ i # 0 /\ taken[i - 1] = f[i - 1]
      BY <1>2, <1>9
    <2>2. taken[i] = IF Drawn(over[i]) THEN Append(taken[i - 1], over[i]) ELSE taken[i - 1]
      BY <1>7, <2>1
    <2>3. f[i] = IF Drawn(over[i]) THEN Append(f[i - 1], over[i]) ELSE f[i - 1]
      BY <1>6, <2>1
    <2> QED BY <2>1, <2>2, <2>3
  <1>10. n \in H
    <2> HIDE DEF H
    <2>1. 0 .. n \subseteq H
      BY <1>2, <1>8, <1>9, UpTo
    <2> QED BY <1>2, <2>1
  <1>11. f[n] = Stacked(a, c)
    <2>1. n \in 0 .. n /\ n # 0 /\ b + n - 1 = c
      BY <1>2
    <2> QED BY <2>1 DEF f
  <1> QED BY <1>1, <1>10, <1>11 DEF under, over

\* The neighbours at i and i + 1 of a sequence are replaced by one.
Join(s, i, e) == SubSeq(s, 1, i - 1) \o <<e>> \o SubSeq(s, i + 2, Len(s))

IsJoin(S, s, i, e) ==
    /\ Join(s, i, e) \in Seq(S) /\ Len(Join(s, i, e)) = Len(s) - 1
    /\ \A j \in 1 .. Len(s) - 1 :
          Join(s, i, e)[j] = IF j < i THEN s[j] ELSE IF j = i THEN e ELSE s[j + 1]

LEMMA JoinAt ==
    ASSUME NEW S, NEW s \in Seq(S), NEW i \in 1 .. Len(s) - 1, NEW e \in S
    PROVE  IsJoin(S, s, i, e)
  <1> DEFINE u == SubSeq(s, 1, i - 1)
             v == SubSeq(s, i + 2, Len(s))
             x == u \o <<e>>
             t == x \o v
  <1>1. Len(s) \in Nat /\ i \in Nat /\ 1 <= i /\ i < Len(s)
    OBVIOUS
  <1>2. u \in Seq(S) /\ Len(u) = i - 1 /\ \A j \in 1 .. i - 1 : u[j] = s[j]
    BY <1>1
  <1>3. v \in Seq(S) /\ Len(v) = Len(s) - i - 1 /\ \A j \in 1 .. Len(s) - i - 1 : v[j] = s[i + 1 + j]
    BY <1>1
  <1> HIDE DEF u, v
  <1>4. <<e>> \in Seq(S) /\ Len(<<e>>) = 1 /\ <<e>>[1] = e
    OBVIOUS
  <1>5. x \in Seq(S) /\ Len(x) = i /\ (\A j \in 1 .. i - 1 : x[j] = s[j]) /\ x[i] = e
    BY <1>1, <1>2, <1>4
  <1> HIDE DEF x
  <1>6. t \in Seq(S) /\ Len(t) = Len(s) - 1
    <2>1. t \in Seq(S) /\ Len(t) = Len(x) + Len(v)
      BY <1>3, <1>5, ConcatProperties
    <2> QED BY <1>1, <1>3, <1>5, <2>1
  <1>7. ASSUME NEW j \in 1 .. Len(s) - 1
        PROVE  t[j] = IF j < i THEN s[j] ELSE IF j = i THEN e ELSE s[j + 1]
    <2>1. t[j] = IF j <= i THEN x[j] ELSE v[j - i]
      <3>1. j \in 1 .. Len(x) + Len(v)
        BY <1>1, <1>3, <1>5
      <3> QED BY <1>3, <1>5, <3>1, ConcatProperties
    <2>2. CASE j < i
      BY <1>1, <1>5, <2>1, <2>2
    <2>3. CASE j = i
      BY <1>1, <1>5, <2>1, <2>3
    <2>4. CASE j > i
      <3>1. j - i \in 1 .. Len(s) - i - 1 /\ i + 1 + (j - i) = j + 1
        BY <1>1, <2>4
      <3>2. v[j - i] = s[j + 1]
        BY <1>3, <3>1
      <3> QED BY <1>1, <2>1, <2>4, <3>2
    <2>5. j < i \/ j = i \/ j > i
      BY <1>1
    <2> QED BY <2>2, <2>3, <2>4, <2>5, Zenon
  <1>8. Join(s, i, e) = t
    BY DEF Join, u, v, x
  <1> HIDE DEF t
  <1> QED BY <1>6, <1>7, <1>8 DEF IsJoin

-----------------------------------------------------------------------------
(* The invariant is inductive.                                             *)

LEMMA SeparationInit_Inv == SeparationInit => SeparationInv
  <1> SUFFICES ASSUME SeparationInit PROVE SeparationInv
    OBVIOUS
  <1>1. ChainInv
    <2>1. ASSUME ~Junk PROVE Paired(draft, image, twin)
      <3>1. IsPicture(image) /\ Indexable(image)
        BY <2>1, SourcesAssumption DEF SeparationInit, Junk, Indexable
      <3>2. CASE twin \in Sources /\ SameButHidden(image, twin)
        <4>1. IsPicture(twin)
          BY <2>1, <3>2, SourcesAssumption DEF SameButHidden, Junk
        <4> QED BY <3>1, <3>2, <4>1, HiddenIsHidden DEF Paired
      <3>3. CASE ~draft /\ twin = Opaque(image, "RGB", Flat(image))
        <4>1. image.w \in Nat \ {0} /\ image.h \in Nat \ {0}
          BY <3>1 DEF IsPicture
        <4>2. Flat(image) \in [Rect(image.w, image.h) -> 0 .. White]
          BY <3>1, FlatType
        <4>3. IsPicture(twin) /\ twin.w = image.w /\ twin.h = image.h /\ Flat(twin) = Flat(image)
          BY <3>3, <4>1, <4>2, OpaqueFacts
        <4> QED BY <3>1, <3>3, <4>3 DEF Paired, Alike
      <3> QED BY <2>1, <3>2, <3>3 DEF SeparationInit, Twins, Junk
    <2> QED BY <2>1 DEF SeparationInit, ChainInv
  <1>2. BranchInv
    BY DEF SeparationInit, BranchInv, BranchOK
  <1>3. StackInv
    BY DEF SeparationInit, StackInv
  <1> QED BY <1>1, <1>2, <1>3 DEF SeparationInv

\* A branch that a step leaves alone is as it was.
LEMMA BranchKept ==
    ASSUME NEW k \in Entries, BranchOK(k), image' = image,
           at'[k] = at[k], grow'[k] = grow[k], svg'[k] = svg[k]
    PROVE  BranchOK(k)'
  <1>1. Region(k)' = Region(k)
    BY DEF Region, Area, Near, Distance, Radius
  <1>2. Core(Region(k))' = Core(Region(k))
    BY <1>1 DEF Core, Area, Near, Distance
  <1>3. Junk' = Junk /\ Branches' = Branches
    BY DEF Junk, Branches
  <1> QED BY <1>1, <1>2, <1>3 DEF BranchOK

LEMMA FailInv ==
    ASSUME SeparationInv, Fail
    PROVE  SeparationInv'
  <1>1. ChainInv'
    BY DEF SeparationInv, ChainInv, Fail, Junk
  <1>2. BranchInv'
    <2>1. \A k \in Entries : BranchOK(k)'
      BY BranchKept DEF SeparationInv, BranchInv, Fail, branchVars
    <2> QED BY <2>1 DEF SeparationInv, BranchInv, Fail, branchVars
  <1>3. StackInv'
    BY DEF StackInv, Fail
  <1> QED BY <1>1, <1>2, <1>3 DEF SeparationInv

LEMMA ChainStepInv ==
    ASSUME SeparationInv, Chain
    PROVE  SeparationInv'
  <1>1. (stage = "chain" /\ Fail) \/ Goes
    BY ChainGoes DEF SeparationInv
  <1>2. CASE Goes
    <2>1. BranchInv'
      BY <1>2 DEF SeparationInv, BranchInv, BranchOK, Goes, branchVars
    <2>2. StackInv'
      BY <1>2 DEF StackInv, Goes
    <2> QED BY <1>2, <2>1, <2>2 DEF SeparationInv, Goes
  <1> QED BY <1>1, <1>2, FailInv

LEMMA MaskInv ==
    ASSUME SeparationInv, NEW k \in Entries, NEW n \in Grows, Mask(k, n)
    PROVE  SeparationInv'
  <1>1. CASE Junk \/ MaskBad(k, n)
    BY <1>1, FailInv DEF Mask
  <1>2. CASE ~(Junk \/ MaskBad(k, n))
    <2>1. /\ stage' = "masks"
          /\ at' = [at EXCEPT ![k] = "mask"]
          /\ grow' = [grow EXCEPT ![k] = n]
          /\ svg' = [svg EXCEPT ![k] = { q \in Area : \E p \in Area :
                                    image.px[p].v = k /\ Near(p, q, Radius(n)) }]
          /\ UNCHANGED <<draft, image, twin, nodes, stack>>
      BY <1>2 DEF Mask
    <2>2. n \in Nat /\ image.mode = "P"
      BY <1>2, ParametersAssumption DEF MaskBad
    <2>3. DOMAIN at = Entries /\ DOMAIN grow = Entries /\ DOMAIN svg = Entries
      BY DEF SeparationInv, BranchInv
    <2>4. ASSUME NEW j \in Entries PROVE BranchOK(j)'
      <3>1. CASE j = k
        <4>1. at'[k] = "mask" /\ grow'[k] = n
          BY <2>1, <2>3
        <4>2. svg'[k] = { q \in Area : \E p \in Area : image.px[p].v = k /\ Near(p, q, Radius(n)) }
          BY <2>1, <2>3
        <4>3. Region(k)' = { q \in Area : \E p \in Area : image.px[p].v = k /\ Near(p, q, Radius(n)) }
          BY <2>1, <4>1 DEF Region, Area, Near, Distance, Radius
        <4>4. ~Junk' /\ image'.mode = "P"
          BY <1>2, <2>1, <2>2 DEF Junk
        <4> QED BY <2>2, <3>1, <4>1, <4>2, <4>3, <4>4 DEF BranchOK
      <3>2. CASE j # k
        BY <2>1, <2>3, <3>2, BranchKept DEF SeparationInv, BranchInv
      <3> QED BY <3>1, <3>2
    <2>5. BranchInv'
      BY <2>1, <2>3, <2>4 DEF BranchInv
    <2>6. ChainInv'
      BY <2>1 DEF SeparationInv, ChainInv, Junk
    <2>7. StackInv'
      BY <2>1 DEF StackInv
    <2> QED BY <2>5, <2>6, <2>7 DEF SeparationInv
  <1> QED BY <1>1, <1>2

LEMMA TraceInv ==
    ASSUME SeparationInv, NEW k \in Entries, NEW area \in {Core(svg[k]), svg[k]}, Trace(k, area)
    PROVE  SeparationInv'
  <1>1. /\ stage = "masks" /\ at[k] = "mask"
        /\ at' = [at EXCEPT ![k] = "trace"]
        /\ svg' = [svg EXCEPT ![k] = <<Metadata, Layer(area, 0)>>]
        /\ UNCHANGED <<draft, image, twin, nodes, stage, grow, stack>>
    BY DEF Trace, Metadata, Layer
  <1>2. DOMAIN at = Entries /\ DOMAIN grow = Entries /\ DOMAIN svg = Entries
    BY DEF SeparationInv, BranchInv
  <1>3. ASSUME NEW j \in Entries PROVE BranchOK(j)'
    <2>1. CASE j = k
      <3>1. BranchOK(k)
        BY DEF SeparationInv, BranchInv
      <3>2. at'[k] = "trace" /\ svg'[k] = <<Metadata, Layer(area, 0)>>
        BY <1>1, <1>2
      <3>3. Region(k)' = Region(k)
        BY <1>1 DEF Region, Area, Near, Distance, Radius
      <3>4. Core(Region(k))' = Core(Region(k))
        BY <1>1, <3>3 DEF Core, Area, Near, Distance
      <3>5. area \in {Core(Region(k))', Region(k)'}
        BY <1>1, <3>1, <3>3, <3>4 DEF BranchOK
      <3>6. Junk' = Junk /\ Branches' = Branches
        BY <1>1 DEF Junk, Branches
      <3> QED BY <1>1, <2>1, <3>1, <3>2, <3>5, <3>6 DEF BranchOK
    <2>2. CASE j # k
      BY <1>1, <1>2, <2>2, BranchKept DEF SeparationInv, BranchInv
    <2> QED BY <2>1, <2>2
  <1>4. BranchInv'
    BY <1>1, <1>2, <1>3 DEF SeparationInv, BranchInv
  <1>5. ChainInv'
    BY <1>1 DEF SeparationInv, ChainInv, Junk
  <1>6. StackInv'
    BY <1>1 DEF StackInv
  <1> QED BY <1>4, <1>5, <1>6 DEF SeparationInv

LEMMA BranchesAreEntries ==
    ASSUME ChainInv, ~Junk
    PROVE  Branches \subseteq Entries /\ Len(image.palette) \in Nat
  <1>1. image.palette \in Seq(0 .. White) /\ Len(image.palette) <= Depth
    BY DEF ChainInv, Paired, Alike, IsPicture, Indexable
  <1>2. Len(image.palette) \in Nat
    BY <1>1
  <1> QED BY <1>1, <1>2, DepthAssumption DEF Branches, Entries

\* What a branch that has its colour adds to the picture.
LEMMA ColouredLayer ==
    ASSUME NEW k \in Entries, BranchOK(k), at[k] = "color"
    PROVE  \E area \in {Core(Region(k)), Region(k)} :
              svg[k][1] = Metadata /\ svg[k][2] = Layer(area, image.palette[k + 1])
              /\ svg[k] = <<svg[k][1], svg[k][2]>>
  BY DEF BranchOK

LEMMA ColorizeInv ==
    ASSUME SeparationInv, NEW k \in Entries, Colorize(k)
    PROVE  SeparationInv'
  <1> DEFINE colored == [i \in DOMAIN svg[k] |->
                IF svg[k][i].tag = "g" THEN [svg[k][i] EXCEPT !.fill = image.palette[k + 1]]
                ELSE svg[k][i]]
             all == [svg EXCEPT ![k] = colored]
             last == \A j \in Branches \ {k} : at[j] = "color"
  <1>1. /\ stage = "masks" /\ at[k] = "trace" /\ k \in Branches
        /\ at' = [at EXCEPT ![k] = "color"]
        /\ svg' = all
        /\ stage' = IF last THEN "merge" ELSE stage
        /\ stack' = IF last THEN [i \in 1 .. Len(image.palette) |-> all[i - 1]] ELSE stack
        /\ UNCHANGED <<draft, image, twin, nodes, grow>>
    BY DEF Colorize
  <1>2. DOMAIN at = Entries /\ DOMAIN grow = Entries /\ DOMAIN svg = Entries
    BY DEF SeparationInv, BranchInv
  <1>3. BranchOK(k) /\ ~Junk /\ image.mode = "P" /\ k \in Branches
    BY <1>1 DEF SeparationInv, BranchInv, BranchOK
  <1>4. PICK area \in {Core(Region(k)), Region(k)} : svg[k] = <<Metadata, Layer(area, 0)>>
    BY <1>1, <1>3 DEF BranchOK
  <1>5. colored = <<Metadata, Layer(area, image.palette[k + 1])>>
    <2>1. DOMAIN svg[k] = 1 .. 2 /\ svg[k][1] = Metadata /\ svg[k][2] = Layer(area, 0)
      BY <1>4
    <2>2. colored[1] = Metadata
      BY <2>1 DEF Metadata
    <2>3. Layer(area, 0).tag = "g"
          /\ [Layer(area, 0) EXCEPT !.fill = image.palette[k + 1]] = Layer(area, image.palette[k + 1])
      BY DEF Layer
    <2>4. colored[2] = Layer(area, image.palette[k + 1])
      BY <2>1, <2>3
    <2>5. colored = [i \in 1 .. 2 |-> colored[i]]
      BY <2>1
    <2> HIDE DEF colored
    <2> QED BY <2>2, <2>4, <2>5
  <1> HIDE DEF colored
  <1>6. ASSUME NEW j \in Entries PROVE BranchOK(j)'
    <2>1. CASE j = k
      <3>1. at'[k] = "color" /\ svg'[k] = <<Metadata, Layer(area, image.palette[k + 1])>>
        BY <1>1, <1>2, <1>5
      <3>2. Region(k)' = Region(k)
        BY <1>1 DEF Region, Area, Near, Distance, Radius
      <3>3. Core(Region(k))' = Core(Region(k))
        BY <1>1, <3>2 DEF Core, Area, Near, Distance
      <3>4. Junk' = Junk /\ Branches' = Branches
        BY <1>1 DEF Junk, Branches
      <3> QED BY <1>1, <1>3, <2>1, <3>1, <3>2, <3>3, <3>4 DEF BranchOK
    <2>2. CASE j # k
      BY <1>1, <1>2, <2>2, BranchKept DEF SeparationInv, BranchInv
    <2> QED BY <2>1, <2>2
  <1>7. BranchInv'
    BY <1>1, <1>2, <1>6 DEF SeparationInv, BranchInv
  <1>8. ChainInv'
    BY <1>1 DEF SeparationInv, ChainInv, Junk
  <1>9. StackInv'
    <2> SUFFICES ASSUME stage' = "merge" PROVE
          /\ ~Junk' /\ image'.mode = "P"
          /\ \A j \in Branches' : at'[j] = "color"
          /\ stack' \in Seq(Range(stack'))
          /\ \E cuts \in [1 .. Len(stack') + 1 -> Nat] : IsCut(cuts)'
      BY DEF StackInv
    <2> DEFINE n == Len(image.palette)
    <2>1. last /\ Branches' = Branches /\ Junk' = Junk
      BY <1>1 DEF Branches, Junk
    <2>2. Branches \subseteq Entries /\ n \in Nat \ {0} /\ Branches = 0 .. n - 1
      BY <1>3, BranchesAreEntries DEF SeparationInv, Branches
    <2>3. \A j \in Branches : at'[j] = "color"
      BY <1>1, <1>2, <1>3, <2>1, <2>2
    <2>4. stack' = [i \in 1 .. n |-> svg'[i - 1]]
      BY <1>1, <2>1
    <2> HIDE DEF n, last, all
    <2>5. stack' \in [1 .. n -> Range(stack')]
      BY <2>4 DEF Range
    <2>6. stack' \in Seq(Range(stack')) /\ Len(stack') = n
      BY <2>2, <2>5, FunctionIsSeq
    <2>20. PICK cuts : cuts = [i \in 1 .. n + 1 |-> i - 1]
      OBVIOUS
    <2>7. cuts \in [1 .. Len(stack') + 1 -> Nat]
      BY <2>2, <2>6, <2>20
    <2>8. ASSUME NEW i \in 1 .. n PROVE cuts[i] < cuts[i + 1] /\ stack'[i] = Stacked(cuts[i], cuts[i + 1])'
      <3>1. i \in 1 .. n + 1 /\ i + 1 \in 1 .. n + 1 /\ cuts[i] = i - 1 /\ cuts[i + 1] = i
            /\ i - 1 \in 0 .. n - 1 /\ i - (i - 1) + 1 = 2 /\ i - 1 + 2 - 2 = i - 1
        BY <2>2, <2>20
      <3>2. i - 1 \in Entries /\ at'[i - 1] = "color"
        BY <2>2, <2>3, <3>1
      <3>3. svg'[i - 1][1] = Metadata /\ svg'[i - 1] = <<svg'[i - 1][1], svg'[i - 1][2]>>
        BY <1>6, <3>2 DEF BranchOK
      <3>4. stack'[i] = svg'[i - 1]
        BY <2>4
      <3>5. Stacked(i - 1, i)' = [j \in 1 .. 2 |-> IF j = 1 THEN Metadata ELSE svg'[i - 1 + j - 2][2]]
        BY <3>1 DEF Stacked, Metadata
      <3>6. ASSUME NEW f, f = [j \in 1 .. 2 |-> IF j = 1 THEN Metadata ELSE svg'[i - 1 + j - 2][2]]
            PROVE  f = <<Metadata, svg'[i - 1][2]>>
        <4>1. f = [j \in 1 .. 2 |-> f[j]]
          BY <3>6
        <4>2. f[1] = Metadata /\ f[2] = svg'[i - 1][2]
          BY <3>1, <3>6
        <4> QED BY <4>1, <4>2
      <3>7. Stacked(cuts[i], cuts[i + 1])' = Stacked(i - 1, i)'
        BY <3>1
      <3>8. stack'[i] = Stacked(i - 1, i)'
        BY <3>3, <3>4, <3>5, <3>6
      <3> QED BY <3>1, <3>7, <3>8
    <2>9. cuts[1] = 0 /\ cuts[n + 1] = n
      BY <2>2, <2>20
    <2>10. Len(image'.palette) = n
      BY <1>1 DEF n
    <2>11. IsCut(cuts)'
      <3>1. cuts[1] = 0 /\ cuts[Len(stack') + 1] = Len(image'.palette)
        BY <2>6, <2>9, <2>10
      <3>2. \A i \in 1 .. Len(stack') : cuts[i] < cuts[i + 1] /\ stack'[i] = Stacked(cuts[i], cuts[i + 1])'
        BY <2>6, <2>8
      <3> QED BY <3>1, <3>2 DEF IsCut
    <2> QED BY <1>1, <1>3, <2>1, <2>3, <2>6, <2>7, <2>11
  <1> QED BY <1>7, <1>8, <1>9 DEF SeparationInv

LEMMA MergeInv ==
    ASSUME SeparationInv, NEW i \in DOMAIN stack, Merge(i)
    PROVE  SeparationInv'
  <1>1. /\ stage = "merge" /\ i + 1 \in DOMAIN stack
        /\ stack' = SubSeq(stack, 1, i - 1) \o <<Merged(stack[i], stack[i + 1])>>
                        \o SubSeq(stack, i + 2, Len(stack))
        /\ UNCHANGED <<draft, image, twin, nodes, stage, at, grow, svg>>
    BY DEF Merge
  <1>2. ChainInv'
    BY <1>1 DEF SeparationInv, ChainInv, Junk
  <1>3. BranchInv'
    <2>1. \A k \in Entries : BranchOK(k)'
      BY <1>1, BranchKept DEF SeparationInv, BranchInv
    <2> QED BY <1>1, <2>1 DEF SeparationInv, BranchInv
  <1>4. StackInv'
    <2> DEFINE n == Len(stack)
               N == Len(image.palette)
               e == Merged(stack[i], stack[i + 1])
               S == Range(stack) \cup {e}
    <2>1. /\ ~Junk /\ image.mode = "P" /\ stack \in Seq(Range(stack))
          /\ \A k \in Branches : at[k] = "color"
      BY <1>1 DEF SeparationInv, StackInv
    <2>2. PICK cuts \in [1 .. n + 1 -> Nat] : IsCut(cuts)
      BY <1>1 DEF SeparationInv, StackInv
    <2>3. n \in Nat /\ i \in 1 .. n - 1 /\ DOMAIN stack = 1 .. n
      BY <1>1, <2>1
    <2>4. Branches \subseteq Entries /\ N \in Nat /\ Branches = 0 .. N - 1
      BY <2>1, BranchesAreEntries DEF SeparationInv, Branches
    <2>5. /\ stack \in Seq(S) /\ e \in S
      BY <2>1, SeqMonotonic
    <2> HIDE DEF n, N, e, S
    <2>6. /\ stack' \in Seq(S) /\ Len(stack') = n - 1
          /\ \A j \in 1 .. n - 1 :
                stack'[j] = IF j < i THEN stack[j] ELSE IF j = i THEN e ELSE stack[j + 1]
      <3>1. stack' = Join(stack, i, e)
        BY <1>1 DEF Join, e
      <3>2. i \in 1 .. Len(stack) - 1
        BY <2>3 DEF n
      <3>3. /\ Join(stack, i, e) \in Seq(S) /\ Len(Join(stack, i, e)) = Len(stack) - 1
            /\ \A j \in 1 .. Len(stack) - 1 :
                  Join(stack, i, e)[j] = IF j < i THEN stack[j] ELSE IF j = i THEN e ELSE stack[j + 1]
        <4>1. IsJoin(S, stack, i, e)
          BY <2>5, <3>2, JoinAt
        <4> QED BY <4>1 DEF IsJoin
      <3> QED BY <3>1, <3>3, Zenon DEF n
    <2>7. stack' \in Seq(Range(stack'))
      <3>1. stack' \in [1 .. n - 1 -> S] /\ n - 1 \in Nat
        BY <2>3, <2>6, LenProperties
      <3>2. stack' \in [1 .. n - 1 -> Range(stack')]
        BY <3>1 DEF Range
      <3> QED BY <3>1, <3>2, FunctionIsSeq
    <2>8. \A j \in 1 .. n : cuts[j] < cuts[j + 1] /\ stack[j] = Stacked(cuts[j], cuts[j + 1])
      BY <2>2 DEF IsCut, n
    <2>9. cuts[1] = 0 /\ cuts[n + 1] = N
      BY <2>2 DEF IsCut, n, N
    <2> DEFINE a == cuts[i]
               b == cuts[i + 1]
               c == cuts[i + 2]
    <2>10. a \in Nat /\ b \in Nat /\ c \in Nat /\ a < b /\ b < c
      <3>1. i \in 1 .. n /\ i + 1 \in 1 .. n /\ i \in 1 .. n + 1 /\ i + 1 \in 1 .. n + 1 /\ i + 2 \in 1 .. n + 1
            /\ (i + 1) + 1 = i + 2
        BY <2>3
      <3> QED BY <2>8, <3>1
    <2>11. ASSUME NEW j \in 1 .. n + 1 PROVE cuts[j] <= N
      <3> DEFINE H == { m \in 0 .. n : cuts[n + 1 - m] <= N }
      <3>1. 0 \in H
        BY <2>3, <2>4, <2>9
      <3>2. ASSUME NEW m \in 1 .. n, m - 1 \in H PROVE m \in H
        <4>1. n + 1 - m \in 1 .. n /\ n + 1 - (m - 1) = (n + 1 - m) + 1 /\ m \in 0 .. n
          BY <2>3
        <4>2. cuts[n + 1 - m] \in Nat /\ cuts[(n + 1 - m) + 1] \in Nat
          BY <2>3, <4>1
        <4>3. cuts[n + 1 - m] < cuts[(n + 1 - m) + 1] /\ cuts[(n + 1 - m) + 1] <= N
          BY <2>8, <3>2, <4>1
        <4> QED BY <2>4, <4>1, <4>2, <4>3
      <3>3. 0 .. n \subseteq H
        <4> HIDE DEF H
        <4> QED BY <2>3, <3>1, <3>2, UpTo
      <3>4. n + 1 - j \in 0 .. n /\ n + 1 - (n + 1 - j) = j
        BY <2>3
      <3> QED BY <3>3, <3>4
    <2>12. ASSUME NEW k \in b .. c - 1 PROVE svg[k][2].tag = "g"
      <3>1. c <= N
        <4>1. i + 2 \in 1 .. n + 1
          BY <2>3
        <4> QED BY <2>11, <4>1
      <3>2. k \in Branches /\ k \in Entries
        BY <2>4, <2>10, <3>1
      <3>3. BranchOK(k) /\ at[k] = "color"
        BY <2>1, <3>2 DEF SeparationInv, BranchInv
      <3>4. PICK area \in {Core(Region(k)), Region(k)} : svg[k][2] = Layer(area, image.palette[k + 1])
        BY <3>2, <3>3, ColouredLayer
      <3> QED BY <3>4 DEF Layer
    <2>13. e = Stacked(a, c)
      <3>1. i \in 1 .. n /\ i + 1 \in 1 .. n /\ (i + 1) + 1 = i + 2
        BY <2>3
      <3>2. stack[i] = Stacked(a, b) /\ stack[i + 1] = Stacked(b, c)
        BY <2>8, <3>1
      <3> HIDE DEF a, b, c
      <3> QED BY <2>10, <2>12, <3>2, MergedStacked DEF e
    <2>20. PICK left : left = [j \in 1 .. n |-> IF j <= i THEN cuts[j] ELSE cuts[j + 1]]
      OBVIOUS
    <2>14. left \in [1 .. Len(stack') + 1 -> Nat]
      <3>1. \A j \in 1 .. n : j \in 1 .. n + 1 /\ j + 1 \in 1 .. n + 1
        BY <2>3
      <3>2. n - 1 + 1 = n
        BY <2>3
      <3> QED BY <2>6, <2>20, <3>1, <3>2
    <2>15. ASSUME NEW j \in 1 .. n - 1
           PROVE  left[j] < left[j + 1] /\ stack'[j] = Stacked(left[j], left[j + 1])
      <3>1. j \in 1 .. n /\ j + 1 \in 1 .. n /\ i \in 1 .. n
        BY <2>3
      <3>2. CASE j < i
        <4>1. left[j] = cuts[j] /\ left[j + 1] = cuts[j + 1] /\ stack'[j] = stack[j]
          BY <2>3, <2>6, <2>20, <3>1, <3>2
        <4> QED BY <2>8, <3>1, <4>1
      <3>3. CASE j = i
        <4>1. left[j] = a /\ left[j + 1] = c /\ stack'[j] = e
          <5>1. ~(i + 1 <= i) /\ (i + 1) + 1 = i + 2 /\ i <= i
            BY <2>3
          <5> QED BY <2>6, <2>20, <3>1, <3>3, <5>1
        <4> HIDE DEF a, b, c
        <4> QED BY <2>10, <2>13, <4>1
      <3>4. CASE j > i
        <4>1. left[j] = cuts[j + 1] /\ left[j + 1] = cuts[(j + 1) + 1] /\ stack'[j] = stack[j + 1]
          <5>1. ~(j + 1 <= i) /\ ~(j <= i) /\ ~(j < i) /\ j # i
            BY <2>3, <3>4
          <5> QED BY <2>6, <2>20, <3>1, <5>1
        <4> QED BY <2>8, <3>1, <4>1
      <3>5. j < i \/ j = i \/ j > i
        BY <2>3
      <3> QED BY <3>2, <3>3, <3>4, <3>5, Zenon
    <2>16. left[1] = 0 /\ left[n] = N
      <3>1. 1 \in 1 .. n /\ n \in 1 .. n /\ 1 <= i /\ ~(n <= i)
        BY <2>3
      <3> QED BY <2>9, <2>20, <3>1
    <2>17. \A x, y : Stacked(x, y)' = Stacked(x, y)
      BY <1>1 DEF Stacked, Metadata
    <2>18. IsCut(left)'
      <3>1. n - 1 + 1 = n /\ Len(image'.palette) = N
        BY <1>1, <2>3 DEF N
      <3>2. left[1] = 0 /\ left[Len(stack') + 1] = Len(image'.palette)
        BY <2>6, <2>16, <3>1
      <3>3. \A j \in 1 .. Len(stack') : left[j] < left[j + 1] /\ stack'[j] = Stacked(left[j], left[j + 1])'
        BY <2>6, <2>15, <2>17
      <3> QED BY <3>2, <3>3 DEF IsCut
    <2>19. Junk' = Junk /\ Branches' = Branches
      BY <1>1 DEF Junk, Branches
    <2> QED BY <1>1, <2>1, <2>7, <2>14, <2>18, <2>19 DEF StackInv
  <1> QED BY <1>2, <1>3, <1>4 DEF SeparationInv

LEMMA SeparationStep ==
    ASSUME SeparationInv, [SeparationNext]_vars
    PROVE  SeparationInv'
  <1>1. CASE Chain
    BY <1>1, ChainStepInv
  <1>2. ASSUME NEW k \in Entries, Branch(k) PROVE SeparationInv'
    <2>1. ASSUME NEW n \in Grows, Mask(k, n) PROVE SeparationInv'
      BY <2>1, MaskInv
    <2>2. ASSUME NEW area \in {Core(svg[k]), svg[k]}, Trace(k, area) PROVE SeparationInv'
      BY <2>2, TraceInv
    <2>3. CASE TraceFails(k)
      BY <2>3, FailInv DEF TraceFails
    <2>4. CASE Colorize(k)
      BY <2>4, ColorizeInv
    <2> QED BY <1>2, <2>1, <2>2, <2>3, <2>4 DEF Branch
  <1>3. CASE Mask(Depth, 0)
    <2>1. MaskBad(Depth, 0)
      BY DepthAssumption DEF MaskBad
    <2> QED BY <1>3, <2>1, FailInv DEF Mask
  <1>4. ASSUME NEW i \in DOMAIN stack, Merge(i) PROVE SeparationInv'
    BY <1>4, MergeInv
  <1>5. CASE UNCHANGED vars
    <2>1. ChainInv'
      BY <1>5 DEF SeparationInv, ChainInv, Junk, vars
    <2>2. BranchInv'
      <3>1. \A k \in Entries : BranchOK(k)'
        BY <1>5, BranchKept DEF SeparationInv, BranchInv, vars
      <3> QED BY <1>5, <3>1 DEF SeparationInv, BranchInv, vars
    <2>3. StackInv'
      <3>1. \A x, y : Stacked(x, y)' = Stacked(x, y)
        BY <1>5 DEF Stacked, Metadata, vars
      <3>2. ASSUME NEW cuts PROVE IsCut(cuts)' = IsCut(cuts)
        BY <1>5, <3>1 DEF IsCut, vars
      <3>3. Junk' = Junk /\ Branches' = Branches
        BY <1>5 DEF Junk, Branches, vars
      <3> QED BY <1>5, <3>2, <3>3 DEF SeparationInv, StackInv, vars
    <2> QED BY <2>1, <2>2, <2>3 DEF SeparationInv
  <1> QED BY <1>1, <1>2, <1>3, <1>4, <1>5 DEF SeparationNext

\* Whatever the client composes, the core modules hand on pictures that never
\* show what a clear pixel hides, nor, at full quality, which of them flattened it;
\* every branch has the mask of its index, the tracing of that, then the palette's
\* colour; and what is left to merge are the layers in order.
THEOREM SeparationCorrect == SeparationSpec => []SeparationInv
  <1>1. SeparationInit => SeparationInv
    BY SeparationInit_Inv
  <1>2. SeparationInv /\ [SeparationNext]_vars => SeparationInv'
    BY SeparationStep
  <1> QED BY <1>1, <1>2, PTL DEF SeparationSpec

-----------------------------------------------------------------------------
(* What follows from it.                                                   *)

\* Clear pixels are paper (_flatten): whatever is hidden in them never shows, at
\* the end of a chain of any length, in draft under any filter; and at full quality
\* it makes no difference which node flattens.
THEOREM TransparencyIsPaperHolds == SeparationSpec => []TransparencyIsPaper
  <1>1. SeparationInv => TransparencyIsPaper
    BY DEF SeparationInv, ChainInv, Paired, Alike, TransparencyIsPaper
  <1> QED BY <1>1, SeparationCorrect, PTL

\* The last SVG has all layers.
LEMMA AllMergedStack ==
    ASSUME SeparationInv, AllMerged
    PROVE  /\ ~Junk /\ image.mode = "P" /\ IsPicture(image) /\ Len(image.palette) \in Nat \ {0}
           /\ Branches \subseteq Entries
           /\ \A k \in Branches : at[k] = "color" /\ BranchOK(k)
           /\ stack[1] = Stacked(0, Len(image.palette))
  <1>1. /\ ~Junk /\ image.mode = "P" /\ \A k \in Branches : at[k] = "color"
        /\ \E cuts \in [1 .. Len(stack) + 1 -> Nat] : IsCut(cuts)
        /\ Len(stack) = 1
    BY DEF SeparationInv, StackInv, AllMerged
  <1>2. Branches \subseteq Entries /\ Len(image.palette) \in Nat /\ IsPicture(image)
    BY <1>1, BranchesAreEntries DEF SeparationInv, ChainInv, Paired, Alike
  <1>3. PICK cuts : IsCut(cuts)
    BY <1>1
  <1>4. cuts[1] = 0 /\ cuts[2] = Len(image.palette) /\ cuts[1] < cuts[2] /\ stack[1] = Stacked(cuts[1], cuts[2])
    <2>1. 1 \in 1 .. 1 /\ 1 + 1 = 2
      OBVIOUS
    <2> QED BY <1>1, <1>3, <2>1 DEF IsCut
  <1> QED BY <1>1, <1>2, <1>4 DEF SeparationInv, BranchInv

\* The shape of the tree of merges does not change the result (merge,
\* ADR 0009): in whatever order neighbours are merged, the layers come out in the
\* palette's order under one metadata element.
THEOREM TreeShapeIsNothingHolds == SeparationSpec => []TreeShapeIsNothing
  <1>1. ASSUME SeparationInv PROVE TreeShapeIsNothing
    <2> SUFFICES ASSUME AllMerged
                 PROVE  stack[1] = <<svg[0][1]>> \o [i \in 1 .. Len(image.palette) |-> svg[i - 1][2]]
      BY DEF TreeShapeIsNothing
    <2> DEFINE n == Len(image.palette)
               layers == [i \in 1 .. n |-> svg[i - 1][2]]
               s == Stacked(0, n)
               t == <<Metadata>> \o layers
    <2>1. n \in Nat \ {0} /\ stack[1] = s
      BY <1>1, AllMergedStack
    <2>2. svg[0][1] = Metadata
      <3>1. 0 \in Branches /\ 0 \in Entries
        BY <1>1, <2>1, AllMergedStack DEF Branches
      <3> QED BY <1>1, <3>1, AllMergedStack, ColouredLayer
    <2>3. Len(s) = n + 1 /\ s \in Seq(Range(s))
      <3>1. 0 \in Nat /\ 0 <= n /\ n - 0 + 1 = n + 1
        BY <2>1
      <3> QED BY <2>1, <3>1, StackedLen
    <2>4. s[1] = Metadata /\ \A i \in 1 .. n : s[i + 1] = svg[i - 1][2]
      BY <2>1 DEF Stacked
    <2>5. layers \in Seq(Range(layers)) /\ Len(layers) = n /\ \A i \in 1 .. n : layers[i] = svg[i - 1][2]
      <3>1. layers \in [1 .. n -> Range(layers)] /\ \A i \in 1 .. n : layers[i] = svg[i - 1][2]
        BY DEF Range
      <3> HIDE DEF layers, n
      <3> QED BY <2>1, <3>1, FunctionIsSeq
    <2> HIDE DEF layers, n, s
    <2> DEFINE U == {Metadata} \cup Range(layers) \cup Range(s)
    <2>6. s \in Seq(U) /\ layers \in Seq(U) /\ <<Metadata>> \in Seq(U)
      BY <2>3, <2>5, SeqMonotonic
    <2> HIDE DEF U
    <2>7. t \in Seq(U) /\ Len(t) = n + 1 /\ t[1] = Metadata /\ \A i \in 1 .. n : t[i + 1] = layers[i]
      BY <2>1, <2>5, <2>6
    <2> HIDE DEF t
    <2>8. \A i \in 1 .. Len(s) : s[i] = t[i]
      <3> TAKE i \in 1 .. Len(s)
      <3>1. CASE i = 1
        BY <2>4, <2>7, <3>1
      <3>2. CASE i # 1
        <4>1. i - 1 \in 1 .. n /\ (i - 1) + 1 = i
          BY <2>1, <2>3, <3>2
        <4> QED BY <2>4, <2>5, <2>7, <4>1
      <3> QED BY <3>1, <3>2
    <2>9. s = t
      BY <2>3, <2>6, <2>7, <2>8, SeqEqual
    <2> QED BY <2>1, <2>2, <2>9 DEF t, layers, n
  <1> QED BY <1>1, SeparationCorrect, PTL

\* What the merged SVG draws at each place.
LEMMA AllMergedChild ==
    ASSUME SeparationInv, AllMerged
    PROVE  /\ DOMAIN stack[1] = 1 .. Len(image.palette) + 1
           /\ ~Drawn(stack[1][1])
           /\ \A k \in Branches : \E area \in {Core(Region(k)), Region(k)} :
                 stack[1][k + 2] = Layer(area, image.palette[k + 1])
  <1> DEFINE n == Len(image.palette)
  <1>1. n \in Nat \ {0} /\ stack[1] = Stacked(0, n) /\ Branches = 0 .. n - 1
    BY AllMergedStack DEF Branches
  <1>2. DOMAIN stack[1] = 1 .. n + 1
    BY <1>1 DEF Stacked
  <1>3. ~Drawn(stack[1][1])
    BY <1>1 DEF Stacked, Drawn, Metadata
  <1>4. ASSUME NEW k \in Branches
        PROVE  \E area \in {Core(Region(k)), Region(k)} : stack[1][k + 2] = Layer(area, image.palette[k + 1])
    <2>1. k \in Entries /\ BranchOK(k) /\ at[k] = "color"
      BY AllMergedStack
    <2>2. PICK area \in {Core(Region(k)), Region(k)} : svg[k][2] = Layer(area, image.palette[k + 1])
      BY <2>1, ColouredLayer
    <2>3. k + 2 \in 1 .. n + 1 /\ k + 2 # 1 /\ 0 + (k + 2) - 2 = k /\ n - 0 + 1 = n + 1
      BY <1>1
    <2>4. stack[1][k + 2] = svg[k][2]
      BY <1>1, <2>3 DEF Stacked
    <2> QED BY <2>2, <2>4
  <1> QED BY <1>2, <1>3, <1>4

LEMMA NearFacts ==
    ASSUME NEW p \in Int \X Int, NEW q \in Int \X Int, NEW n \in Nat
    PROVE  /\ Near(p, p, n) /\ (Near(p, q, n) <=> Near(q, p, n))
           /\ \A m \in Nat : m >= n /\ Near(p, q, n) => Near(p, q, m)
  <1>1. p[1] \in Int /\ p[2] \in Int /\ q[1] \in Int /\ q[2] \in Int
    OBVIOUS
  <1> QED BY <1>1 DEF Near, Distance

\* The merged SVG covers the canvas (colormask, ADR 0021): when every branch
\* grows by a pixel or more, no seam is left between any two regions, however the
\* tracings of them differ.
THEOREM SeamsAreCoveredHolds == SeparationSpec => []SeamsAreCovered
  <1>1. ASSUME SeparationInv PROVE SeamsAreCovered
    <2> SUFFICES ASSUME AllMerged, \A k \in Branches : grow[k] >= 1, NEW p \in Area
                 PROVE  Covering(p) # {}
      BY DEF SeamsAreCovered
    <2> DEFINE k == image.px[p].v
    <2>1. /\ IsPicture(image) /\ image.mode = "P" /\ Len(image.palette) \in Nat \ {0}
          /\ Branches \subseteq Entries /\ \A j \in Branches : at[j] = "color" /\ BranchOK(j)
      BY <1>1, AllMergedStack
    <2>2. k \in Nat /\ k < Len(image.palette)
      BY <2>1 DEF IsPicture, Area
    <2>3. k \in Branches
      BY <2>1, <2>2 DEF Branches
    <2>4. grow[k] \in Nat /\ grow[k] >= 1
      BY <2>1, <2>3 DEF BranchOK
    <2>5. Area \subseteq Int \X Int
      BY <2>1 DEF Area, Rect, IsPicture
    <2> HIDE DEF k
    <2>6. p \in Region(k)
      BY <2>4, <2>5, NearFacts DEF Region, Radius, k
    <2>7. ASSUME NEW q \in Area, Near(p, q, 1) PROVE q \in Region(k)
      <3>1. Near(p, q, grow[k])
        <4>1. p \in Int \X Int /\ q \in Int \X Int /\ 1 \in Nat
          BY <2>5
        <4> QED BY <2>4, <2>7, <4>1, NearFacts
      <3> QED BY <3>1 DEF Region, Radius, k
    <2>8. p \in Core(Region(k))
      BY <2>6, <2>7 DEF Core
    <2>9. PICK area \in {Core(Region(k)), Region(k)} : stack[1][k + 2] = Layer(area, image.palette[k + 1])
      BY <1>1, <2>3, AllMergedChild
    <2>10. Drawn(stack[1][k + 2]) /\ p \in stack[1][k + 2].area
      BY <2>6, <2>8, <2>9 DEF Drawn, Layer
    <2>11. k + 2 \in DOMAIN stack[1]
      <3>1. DOMAIN stack[1] = 1 .. Len(image.palette) + 1
        BY <1>1, AllMergedChild
      <3> QED BY <2>1, <2>2, <3>1 DEF k
    <2> QED BY <2>10, <2>11 DEF Covering
  <1> QED BY <1>1, SeparationCorrect, PTL

\* Seen is a layer of the palette's, whose mask has the pixel or one near it.
LEMMA SeenIsNear ==
    ASSUME SeparationInv
    PROVE  TrapsStayNear
  <1> SUFFICES ASSUME AllMerged, NEW p \in Area, Covering(p) # {}
               PROVE  \E q \in Area : /\ Seen(p) = image.palette[image.px[q].v + 1]
                                      /\ Near(p, q, grow[image.px[q].v])
    BY DEF TrapsStayNear
  <1> DEFINE n == Len(image.palette)
             top == Max(Covering(p))
             k == top - 2
  <1>1. /\ IsPicture(image) /\ n \in Nat \ {0}
        /\ Branches \subseteq Entries /\ \A j \in Branches : at[j] = "color" /\ BranchOK(j)
    BY AllMergedStack
  <1>2. DOMAIN stack[1] = 1 .. n + 1 /\ ~Drawn(stack[1][1])
    BY AllMergedChild
  <1>3. Covering(p) \in SUBSET Nat /\ \A x \in Covering(p) : x <= n + 1
    BY <1>1, <1>2 DEF Covering
  <1>4. top \in Covering(p)
    <2>1. n + 1 \in Nat
      BY <1>1
    <2> QED BY <1>3, <2>1, MaxFacts
  <1> HIDE DEF top
  <1>5. top \in 1 .. n + 1 /\ Drawn(stack[1][top]) /\ p \in stack[1][top].area
    BY <1>2, <1>4 DEF Covering
  <1>6. top # 1
    BY <1>2, <1>5
  <1> HIDE DEF n
  <1>7. k \in 0 .. n - 1 /\ k + 2 = top
    BY <1>1, <1>5, <1>6
  <1> HIDE DEF k
  <1>8. k \in Branches
    BY <1>7 DEF Branches, n
  <1>9. PICK area \in {Core(Region(k)), Region(k)} : stack[1][top] = Layer(area, image.palette[k + 1])
    BY <1>7, <1>8, AllMergedChild
  <1>10. stack[1][top].area = area /\ stack[1][top].fill = image.palette[k + 1]
    BY <1>9 DEF Layer
  <1>11. p \in Region(k)
    BY <1>5, <1>9, <1>10 DEF Core
  <1>12. PICK q \in Area : image.px[q].v = k /\ Near(q, p, grow[k])
    BY <1>11 DEF Region, Radius
  <1>13. Near(p, q, grow[k])
    <2>1. Area \subseteq Int \X Int
      BY <1>1 DEF Area, Rect, IsPicture
    <2>2. grow[k] \in Nat
      BY <1>1, <1>8 DEF BranchOK
    <2> QED BY <1>12, <2>1, <2>2, NearFacts
  <1> QED BY <1>10, <1>12, <1>13 DEF Seen, top

\* What covers a seam is a neighbour (colormask, MinFilter): the colour seen at a
\* pixel is that of a pixel no farther away than its branch grows.
THEOREM TrapsStayNearHolds == SeparationSpec => []TrapsStayNear
  <1>1. SeparationInv => TrapsStayNear
    BY SeenIsNear
  <1> QED BY <1>1, SeparationCorrect, PTL

\* An opaque pixel looks the same on white.
LEMMA OpaqueIsShown ==
    ASSUME NEW img, IsPicture(img), NEW p \in Rect(img.w, img.h), img.px[p].a = White
    PROVE  Flat(img)[p] = Shade(img, p)
  <1> DEFINE s == Shade(img, p)
             w == White
  <1>1. s \in 0 .. w /\ w \in Nat \ {0}
    BY ShadeType, WhiteAssumption
  <1>2. Flat(img)[p] = IF HasAlpha(img) THEN Round(s * w + w * (w - w), w) ELSE s
    BY DEF Flat
  <1> HIDE DEF s, w
  <1>3. s * w + w * (w - w) = w * s /\ s \in Nat /\ w * s \in Nat
    BY <1>1
  <1>4. (w * s) \div w \in Nat /\ (w * s) % w \in 0 .. w - 1
        /\ w * s = w * ((w * s) \div w) + ((w * s) % w)
    BY <1>1, <1>3, DivFacts
  <1>5. (w * s) \div w = s /\ (w * s) % w = 0
    <2> DEFINE d == (w * s) \div w
    <2>1. d \in 0 .. s
      <3>1. w * s < w * (s + 1)
        BY <1>1, <1>3
      <3> QED BY <1>1, <1>3, <3>1, DivBelow
    <2>2. ~(d < s)
      <3> SUFFICES ASSUME d < s PROVE FALSE
        OBVIOUS
      <3>1. w * (d + 1) <= w * s
        BY <1>1, <2>1, ProductGrows
      <3>2. w * (d + 1) = w * d + w
        BY <1>1, <2>1
      <3> DEFINE x == w * s
                 y == w * d
                 m == (w * s) % w
      <3>3. x \in Nat /\ y \in Nat /\ m \in 0 .. w - 1 /\ x = y + m /\ y + w <= x
        BY <1>1, <1>3, <1>4, <2>1, <3>1, <3>2
      <3> HIDE DEF x, y, m
      <3> QED BY <1>1, <3>3
    <2>3. d = s
      BY <1>3, <2>1, <2>2
    <2> QED BY <1>3, <1>4, <2>3
  <1>6. Round(w * s, w) = s
    BY <1>1, <1>5 DEF Round
  <1> QED BY <1>2, <1>3, <1>6 DEF s

\* What is drawn is what the picture shows on paper (raster.py, color.py): along
\* a chain, the branches and the merges of any length nothing that a clear pixel
\* hides is traced, but for clear pixels of a palette image nobody flattened.
THEOREM DrawnIsShownHolds == SeparationSpec => []DrawnIsShown
  <1>1. ASSUME SeparationInv PROVE DrawnIsShown
    <2> SUFFICES ASSUME AllMerged, \A k \in Branches : grow[k] = 0, NEW p \in Area,
                        Covering(p) # {}, image.px[p].a = White
                 PROVE  Seen(p) = Flat(twin)[p]
      BY DEF DrawnIsShown
    <2>1. ~Junk /\ image.mode = "P" /\ IsPicture(image)
      BY <1>1, AllMergedStack
    <2>2. PICK q \in Area : Seen(p) = image.palette[image.px[q].v + 1] /\ Near(p, q, grow[image.px[q].v])
      BY <1>1, SeenIsNear DEF TrapsStayNear
    <2>3. image.px[q].v \in Branches
      <3>1. image.px[q].v \in Nat /\ image.px[q].v < Len(image.palette) /\ Len(image.palette) \in Nat
        BY <2>1 DEF IsPicture, Area
      <3> QED BY <3>1 DEF Branches
    <2>4. Near(p, q, 0)
      BY <2>2, <2>3
    <2>5. p \in Int \X Int /\ q \in Int \X Int
      BY <2>1 DEF Area, Rect, IsPicture
    <2>6. p = q
      BY <2>4, <2>5 DEF Near, Distance
    <2>7. Seen(p) = Shade(image, p)
      BY <2>1, <2>2, <2>6 DEF Shade
    <2>8. Flat(image)[p] = Shade(image, p)
      BY <2>1, OpaqueIsShown DEF Area
    <2>9. Flat(image) = Flat(twin)
      BY <1>1, <2>1 DEF SeparationInv, ChainInv, Paired, Alike
    <2> QED BY <2>7, <2>8, <2>9
  <1> QED BY <1>1, SeparationCorrect, PTL

\* A downsampled image fits, is no larger than it was and is not empty, whatever
\* its size and the limit (DownsampleModule.run); at full quality it is the image
\* that came in.
THEOREM DownsampleFitsHolds == SeparationSpec => DownsampleFits
  <1>1. ASSUME SeparationInv, NEW n \in Limits, Downsample(n), stage' # "failed"
        PROVE  /\ draft => Longest(image') <= n /\ image'.w \in 1 .. image.w /\ image'.h \in 1 .. image.h
               /\ ~draft => image' = image
    <2> DEFINE w == Contain(image, n)[1]
               h == Contain(image, n)[2]
    <2>1. ~DownsampleBad(image, draft, n) /\ image' = Downsampled(image, draft, n)
      BY <1>1 DEF Downsample, Node, Fail
    <2>2. CASE ~draft
      BY <2>1, <2>2 DEF Downsampled, Identity
    <2>3. CASE draft
      <3>1. ~Junk /\ n \in Nat \ {0}
        <4>1. ~(image.mode = "junk" \/ n <= 0)
          BY <2>1, <2>3, Zenon DEF DownsampleBad
        <4>2. n \in Int
          BY ParametersAssumption
        <4> QED BY <4>1, <4>2 DEF Junk
      <3>2. IsPicture(image)
        BY <1>1, <3>1 DEF SeparationInv, ChainInv, Paired, Alike
      <3>3. image.w \in Nat \ {0} /\ image.h \in Nat \ {0}
        BY <3>2 DEF IsPicture
      <3>4. CASE Identity(image, draft, n)
        BY <2>1, <2>3, <3>3, <3>4 DEF Downsampled, Identity
      <3>5. CASE ~Identity(image, draft, n)
        <4>1. Longest(image) > n
          BY <2>3, <3>1, <3>3, <3>5 DEF Identity, Longest
        <4>2. 0 \notin {w, h}
          BY <2>1, <2>3, <3>5 DEF DownsampleBad
        <4>3. w \in 1 .. image.w /\ h \in 1 .. image.h /\ w <= n /\ h <= n
          BY <3>1, <3>2, <4>1, <4>2, ContainFits
        <4> HIDE DEF w, h
        <4>4. image' = Resized(image, w, h)
          BY <2>1, <3>5 DEF Downsampled, w, h
        <4>5. image'.w = w /\ image'.h = h
          BY <3>2, <4>4 DEF Resized, IsPicture
        <4> QED BY <2>3, <3>1, <3>3, <4>3, <4>5 DEF Longest
      <3> QED BY <3>4, <3>5
    <2> QED BY <2>2, <2>3
  <1>2. SeparationInv /\ [SeparationNext]_vars =>
            [\A n \in Limits : Downsample(n) /\ stage' # "failed" =>
                /\ draft => Longest(image') <= n /\ image'.w \in 1 .. image.w /\ image'.h \in 1 .. image.h
                /\ ~draft => image' = image]_vars
    BY <1>1
  <1> QED BY <1>2, SeparationCorrect, PTL DEF SeparationSpec, DownsampleFits

\* An index of a posterized image shows the nearest of the palette's entries, the
\* first of them where several are (PosterizeModule.run), and never wraps, for any
\* palette that passes _validate_palette.
THEOREM IndexMeansColourHolds == SeparationSpec => IndexMeansColour
  <1> DEFINE Means(palette, p) ==
                LET i == image'.px[p].v + 1
                    far(j) == Distance(Flat(image)[p], palette[j])
                IN  \A j \in DOMAIN palette : far(i) < far(j) \/ (far(i) = far(j) /\ i <= j)
  <1>1. ASSUME SeparationInv, NEW palette \in Palettes, Posterize(palette), stage' # "failed", NEW p \in Area
        PROVE  Means(palette, p)
    <2> DEFINE index == [v \in 0 .. White |-> NearestEntry(palette, v)]
               v == Flat(image)[p]
    <2>1. ~Junk /\ ~PaletteBad(palette) /\ image' = ToPalette(palette, Flat(image))
      BY <1>1 DEF Posterize, Node, Fail
    <2>2. palette \in Seq(0 .. White) /\ 2 <= Len(palette) /\ Len(palette) <= Depth
      BY <2>1, ParametersAssumption DEF PaletteBad
    <2>3. palette # << >>
      BY <2>2
    <2>4. index \in [0 .. White -> 0 .. Len(palette) - 1]
      BY <2>2, <2>3, NearestFacts
    <2>5. IsPicture(image) /\ Flat(image) \in [Area -> 0 .. White]
      BY <1>1, <2>1, FlatType DEF SeparationInv, ChainInv, Paired, Alike, Area
    <2>6. v \in 0 .. White /\ index[v] = NearestEntry(palette, v)
      BY <1>1, <2>5
    <2>7. image' = Indexed(palette, Flat(image), index)
      BY <2>1 DEF ToPalette
    <2> HIDE DEF index, v
    <2>8. image'.px[p].v = index[Flat(image)[p]]
      BY <1>1, <2>1, <2>2, <2>4, <2>5, <2>7, IndexedFacts
    <2>9. image'.px[p].v = NearestEntry(palette, v)
      BY <2>6, <2>8 DEF v
    <2> QED BY <2>2, <2>3, <2>6, <2>9, NearestFacts DEF v
  <1>2. SeparationInv /\ [SeparationNext]_vars =>
            [\A palette \in Palettes : Posterize(palette) /\ stage' # "failed" =>
                 \A p \in Area : Means(palette, p)]_vars
    BY <1>1
  <1> QED BY <1>2, SeparationCorrect, PTL DEF SeparationSpec, IndexMeansColour

=============================================================================
