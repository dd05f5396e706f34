---------------------------- MODULE MCNamedPipe ----------------------------
(***************************************************************************)
(* Instances of NamedPipe for TLC.                                         *)
(***************************************************************************)
EXTENDS NamedPipe

=============================================================================
