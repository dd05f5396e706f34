----------------------------- MODULE MCModeset -----------------------------
(***************************************************************************)
(* Instances of Modeset for TLC.                                           *)
(***************************************************************************)
EXTENDS Modeset

\* A card with two CRTCs: connectors with one or two encoders, some of which
\* work with one of the CRTCs only.
MCCards == {[c \in Conn |-> IF c = 1 THEN <<{2}, {1, 2}>> ELSE <<{c - 1}>>],
            [c \in Conn |-> IF c = 3 THEN <<{1}, {2}>> ELSE <<{1}>>]}
=============================================================================
