------------------------- MODULE MCRenderCoordinator -------------------------
(* Instances of RenderCoordinator: each render its own deck, or two renders *)
(* of one deck beside a third.                                              *)
EXTENDS RenderCoordinator, TLC

CONSTANTS r1, r2, r3, r4, d1, d2, d3, d4

EachItsOwn == r1 :> d1 @@ r2 :> d2 @@ r3 :> d3 @@ r4 :> d4
TwoOfOne   == r1 :> d1 @@ r2 :> d1 @@ r3 :> d2
=============================================================================
