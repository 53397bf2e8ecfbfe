----------------------------- MODULE MCDeferral -----------------------------
(* Knob values on both sides of every clamp of Deferral. *)
EXTENDS Deferral

MCDepthKnobs == -1..7
MCLayerKnobs == {-1, 0, 1, 3, 5, 16}
==============================================================================
