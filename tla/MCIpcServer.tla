------------------------------ MODULE MCIpcServer ------------------------------
(***************************************************************************)
(* Instances of IpcServer for TLC.                                         *)
(***************************************************************************)
EXTENDS IpcServer

CONSTANTS c1, c2, c3, acceptor, null, garbage

\* c1 runs the test tst1, and c2 sends more than one on_read takes.
TextAndTest ==
    [c \in Client |-> IF c = c1 THEN <<"tst1", "total", "data", "data">> ELSE <<"text", "text">>]

\* c1 types a line in the middle of the test, c2 types lines, and c3 nothing.
BrokenTest ==
    [c \in Client |-> CASE c = c1 -> <<"tst1", "total", "data", "text">>
                        [] c = c2 -> <<"text", "text", "text">>
                        [] OTHER  -> <<>>]
=============================================================================
