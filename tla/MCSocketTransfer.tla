-------------------------- MODULE MCSocketTransfer --------------------------
(***************************************************************************)
(* Instances of SocketTransfer for TLC.                                    *)
(***************************************************************************)
EXTENDS SocketTransfer

CONSTANTS junk

\* Data and descriptors in turn, with calls larger and smaller than the socket.
MixedPlan ==
    << [kind |-> "data", size |-> 4], [kind |-> "fds", size |-> 3],
       [kind |-> "data", size |-> 2], [kind |-> "fds", size |-> 1] >>
=============================================================================
