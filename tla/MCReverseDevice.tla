--------------------------- MODULE MCReverseDevice ---------------------------
(***************************************************************************)
(* Instances of ReverseDevice for TLC.                                     *)
(***************************************************************************)
EXTENDS ReverseDevice

CONSTANTS r1, r2, r3, w1, w2, nobody

=============================================================================
