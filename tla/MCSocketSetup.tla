--------------------------- MODULE MCSocketSetup ---------------------------
(***************************************************************************)
(* Instances of SocketSetup for TLC.                                       *)
(***************************************************************************)
EXTENDS SocketSetup, TLC

Symmetry == Permutations(Servers)
=============================================================================
