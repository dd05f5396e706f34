---------------------------- MODULE MCThreadQueue ----------------------------
(***************************************************************************)
(* Instances of ThreadQueue for TLC.                                       *)
(***************************************************************************)
EXTENDS ThreadQueue

CONSTANTS g1, g2, g3, p1, p2, p3

\* test2(), where one putter closes the queue after its last put, two getters
\* take anything it puts and the third waits for the last element only; and
\* two putters of elements nobody takes, one of which does not block, who
\* compete for the places and may put when the queue is closed.
PutCounts == (p1 :> 3) @@ (p2 :> 1) @@ (p3 :> 1)
Filters ==
    [g \in {g1, g2, g3} |-> IF g = g3 THEN {[from |-> p1, no |-> 3]}
                            ELSE {x \in Item : x.from = p1}]
=============================================================================
