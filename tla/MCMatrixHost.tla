---------------------------- MODULE MCMatrixHost ----------------------------
(***************************************************************************)
(* Instances of MatrixHost for TLC.                                        *)
(***************************************************************************)
EXTENDS MatrixHost

=============================================================================
