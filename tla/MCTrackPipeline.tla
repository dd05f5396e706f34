--------------------------- MODULE MCTrackPipeline ---------------------------
(***************************************************************************)
(* Instances of TrackPipeline for TLC.                                     *)
(***************************************************************************)
EXTENDS TrackPipeline

CONSTANTS tw1, tw2, dw1, dw2, main, noframe
=============================================================================
