------------------------- MODULE MCColorSeparation -------------------------
(* ColorSeparation for TLC: small pictures with clear and half-clear pixels,  *)
(* palette images, a strip, and bytes that are no picture.                   *)
EXTENDS ColorSeparation

Picture(mode, w, h, palette, values, alphas) ==
    [mode |-> mode, w |-> w, h |-> h, palette |-> palette,
     px |-> [p \in Rect(w, h) |-> LET i == p[2] * w + p[1] + 1 IN [v |-> values[i], a |-> alphas[i]]]]

\* Two and two hide different shades behind the same clear pixels.
ModelSources ==
    { Picture("RGBA", 3, 2, << >>, <<0, 1, 3, 0, 3, 2>>, <<3, 2, 3, 0, 3, 1>>),
      Picture("RGBA", 3, 2, << >>, <<0, 1, 3, 3, 3, 2>>, <<3, 2, 3, 0, 3, 1>>),
      Picture("P", 2, 2, <<0, 2>>, <<0, 1, 1, 0>>, <<3, 0, 0, 3>>),
      Picture("P", 2, 2, <<0, 1, 3>>, <<0, 2, 1, 0>>, <<3, 0, 0, 3>>),
      Picture("RGB", 4, 1, << >>, <<0, 1, 2, 3>>, <<3, 3, 3, 3>>),
      Picture("junk", 0, 0, << >>, << >>, << >>) }

\* A filter with a negative lobe, as the bicubic one has: the pixels a new one
\* covers, less what is around them.
ModelBicubic(plane, from, to, p) ==
    LET within(i, reach) == { x \in 0 .. from[i] - 1 :
                /\ (x + 1) * to[i] > p[i] * from[i] - reach * to[i]
                /\ x * to[i] < (p[i] + 1) * from[i] + reach * to[i] }
        mean(reach) ==
            LET area == within(1, reach) \X within(2, reach)
            IN  Round(MapThenSumSet(LAMBDA q : plane[q], area), Cardinality(area))
    IN  2 * mean(0) - mean(1)

ModelCrops    == { <<1, 0, 2, 1>>, <<0, 0, 2, 2>>, <<2, 0, 2, 2>>, <<0, 1, 0, 1>> }
ModelLevels   == { <<1, 3, 1>>, <<0, 2, 2>>, <<2, 2, 1>> }
ModelPalettes == { <<0, 3>>, <<2, 0, 3>>, <<3, 2, 1, 0>>, <<1, 1>>, <<2>> }

=============================================================================
