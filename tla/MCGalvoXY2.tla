----------------------------- MODULE MCGalvoXY2 -----------------------------
(***************************************************************************)
(* A small instance of GalvoXY2: four points with distances that the       *)
(* number of frames does not divide, both signs on both axes.              *)
(***************************************************************************)
EXTENDS GalvoXY2

Pt(x, y) == [a \in Axis |-> IF a = "x" THEN x ELSE y]
MCPoints == {Pt(0, 0), Pt(4, -4), Pt(-4, 1), Pt(3, 3)}
MCSequences == {0, 1}
MCMinCode == -4

=============================================================================
