--------------------------- MODULE SocketTransfer ---------------------------
(***************************************************************************)
(* readSocket(), writeSocket(), sendFdsThroughSocket() and                 *)
(* receiveFdsThroughSocket() of src/SocketHelper.cpp at the two ends of    *)
(* one Unix domain connection.  Nothing in the repository calls them: the  *)
(* two users here make the same calls in the same order, go on after a     *)
(* success and close after anything else, or die at any moment.            *)
(*                                                                         *)
(* A step is a system call.  One that fails with EINTR or EAGAIN is made   *)
(* again and changes nothing, and so does one that sleeps.  A unit is a    *)
(* byte, or the message of one descriptor, which is sent whole.            *)
(***************************************************************************)
EXTENDS Integers, Sequences

CONSTANTS Plan,     \* the calls: data or descriptors, and how many
          Room,     \* units the socket holds
          Crowded,  \* whether other threads of the receiver may use up its descriptors
          Junk      \* what an uninitialised cmsgBuf holds

Call == [kind : {"data", "fds"}, size : Nat \ {0}]

ASSUME SocketTransferAssumption ==
    /\ Plan \in Seq(Call)
    /\ Room \in Nat \ {0}
    /\ Crowded \in BOOLEAN

VARIABLES
    pipe,      \* what is written and not read
    sender,    \* "runs" or "gone"
    sDone,     \* the sender's calls that have returned
    sPos,      \* bufferSize - leftBytes, or cnt, of its present call
    receiver,  \* "runs", "ended" by a 0, "failed" by a -1, or "gone"
    answers,   \* what the receiver's calls that succeeded have returned
    buffer,    \* what its present call has stored
    rfd,       \* the descriptor in cmsgBuf
    control,   \* whether msg_controllen is large enough for one
    full       \* whether the receiver has no free descriptor

sendVars == <<sender, sDone, sPos>>
recvVars == <<receiver, answers, buffer, rfd, control>>
transferVars == <<pipe, sendVars, recvVars, full>>

TransferInit ==
    /\ pipe = <<>>
    /\ sender = "runs" /\ sDone = 0 /\ sPos = 0
    /\ receiver = "runs" /\ answers = <<>> /\ buffer = <<>>
    /\ rfd = Junk /\ control = TRUE
    /\ full = FALSE

-----------------------------------------------------------------------------
(***************************************************************************)
(* The sender                                                              *)
(***************************************************************************)
Sending == sender = "runs" /\ sDone < Len(Plan)
ToSend == Plan[sDone + 1]
Unit(i) == [call |-> sDone + 1, no |-> i]

\* The call has n units less to send; with the last one it returns.
Sent(n) ==
    /\ sDone' = IF sPos + n = ToSend.size THEN sDone + 1 ELSE sDone
    /\ sPos' = IF sPos + n = ToSend.size THEN 0 ELSE sPos + n
    /\ UNCHANGED <<sender, recvVars, full>>

\* Mutant: what is left is counted, but ptr stays at the beginning.
Write_SamePtr(n) ==
    /\ Sending /\ ToSend.kind = "data"
    /\ n <= ToSend.size - sPos /\ n <= Room - Len(pipe)
    /\ pipe' = pipe \o [i \in 1..n |-> Unit(i)]
    /\ Sent(n)

\* write() takes any part of what is left.
Write(n) ==
    /\ Sending /\ ToSend.kind = "data"
    /\ n <= ToSend.size - sPos /\ n <= Room - Len(pipe)
    /\ pipe' = pipe \o [i \in 1..n |-> Unit(sPos + i)]
    /\ Sent(n)

\* sendmsg() sends one descriptor.
SendFd ==
    /\ Sending /\ ToSend.kind = "fds"
    /\ Len(pipe) < Room
    /\ pipe' = Append(pipe, Unit(sPos + 1))
    /\ Sent(1)

SenderGoes ==
    /\ sender = "runs"
    /\ sender' = "gone"
    /\ UNCHANGED <<pipe, sDone, sPos, recvVars, full>>

\* EPIPE, and with it -1, or SIGPIPE.
SendFails == Sending /\ receiver = "gone" /\ SenderGoes

SenderCloses == sDone = Len(Plan) /\ SenderGoes

-----------------------------------------------------------------------------
(***************************************************************************)
(* The receiver                                                            *)
(***************************************************************************)
Receiving == receiver = "runs" /\ Len(answers) < Len(Plan)
ToReceive == Plan[Len(answers) + 1]
Left == ToReceive.size - Len(buffer)

\* The call has stored got; with the last unit it returns, and the locals of
\* the next call are new.
Stored(got, lastFd, room) ==
    /\ IF Len(got) = ToReceive.size
       THEN answers' = Append(answers, got) /\ buffer' = <<>> /\ rfd' = Junk /\ control' = TRUE
       ELSE answers' = answers /\ buffer' = got /\ rfd' = lastFd /\ control' = room
    /\ UNCHANGED <<receiver, sendVars, full>>

\* read() takes any part of what is there, and no more than what is left.
Read(n) ==
    /\ Receiving /\ ToReceive.kind = "data"
    /\ n <= Left /\ n <= Len(pipe)
    /\ pipe' = SubSeq(pipe, n + 1, Len(pipe))
    /\ Stored(buffer \o SubSeq(pipe, 1, n), rfd, control)

\* recvmsg() takes one message.  The kernel puts its descriptor in cmsgBuf if
\* there is room for it there and in the receiver's table, and says in
\* msg_controllen how much it has put: from the first descriptor that was
\* dropped on there is no room any more.
Arrives == Plan[Head(pipe).call].kind = "fds" /\ control /\ ~full
InCmsg == IF Arrives THEN Head(pipe) ELSE rfd

ReceiveFd ==
    /\ Receiving /\ ToReceive.kind = "fds"
    /\ pipe # <<>>
    /\ pipe' = Tail(pipe)
    /\ Stored(Append(buffer, InCmsg), InCmsg, Arrives)

\* What was in cmsgBuf before may be negative: -1.
ReceiveFdFails ==
    /\ Receiving /\ ToReceive.kind = "fds"
    /\ pipe # <<>> /\ InCmsg = Junk
    /\ pipe' = Tail(pipe)
    /\ receiver' = "failed"
    /\ UNCHANGED <<sendVars, answers, buffer, rfd, control, full>>

\* Mutants: nothing to read is taken for the end; the end is taken for EAGAIN.
ReceiveEnd_Empty ==
    /\ Receiving /\ pipe = <<>>
    /\ receiver' = "ended"
    /\ UNCHANGED <<pipe, sendVars, answers, buffer, rfd, control, full>>
ReceiveEnd_Retry == Receiving /\ pipe = <<>> /\ sender = "gone" /\ UNCHANGED transferVars

\* read() or recvmsg() returns 0 at the end of the stream, and so does the
\* call, whatever it has stored.
ReceiveEnd ==
    /\ Receiving /\ pipe = <<>> /\ sender = "gone"
    /\ receiver' = "ended"
    /\ UNCHANGED <<pipe, sendVars, answers, buffer, rfd, control, full>>

ReceiverGoes ==
    /\ receiver # "gone"
    /\ receiver' = "gone"
    /\ UNCHANGED <<pipe, sendVars, answers, buffer, rfd, control, full>>

ReceiverCloses == ~Receiving /\ ReceiverGoes

\* Other threads of the receiver open and close descriptors.
OthersUseDescriptors ==
    /\ Crowded
    /\ full' = ~full
    /\ UNCHANGED <<pipe, sendVars, recvVars>>

-----------------------------------------------------------------------------
Send == (\E n \in 1..Room : Write(n)) \/ SendFd \/ SendFails \/ SenderCloses

Receive ==
    \/ \E n \in 1..Room : Read(n)
    \/ ReceiveFd \/ ReceiveFdFails \/ ReceiveEnd \/ ReceiverCloses

TransferNext == Send \/ Receive \/ SenderGoes \/ ReceiverGoes \/ OthersUseDescriptors

SafeTransfer == TransferInit /\ [][TransferNext]_transferVars

\* Both processes run until they end; when they die is anybody's guess.
TransferSpec == SafeTransfer /\ WF_transferVars(Send) /\ WF_transferVars(Receive)

-----------------------------------------------------------------------------
(***************************************************************************)
(* Properties                                                              *)
(***************************************************************************)
\* "This API ensures <bufferSize> are received before return"
\* (SocketHelper.cpp:239): a call that succeeds has what the sender's call of
\* the same number has sent, all of it and in order, through any cut of the
\* stream into system calls.
Whole(k) == [i \in 1..Plan[k].size |-> [call |-> k, no |-> i]]
BuffersAsSent == \A k \in DOMAIN answers : Plan[k].kind = "data" => answers[k] = Whole(k)

\* A call for descriptors has those of the sender's call in their order up to
\* the first that was dropped, and from there on the one before it again.
FdsUpToDrop ==
    \A k \in DOMAIN answers : Plan[k].kind = "fds" =>
        \E m \in 0..Plan[k].size :
            answers[k] = [i \in 1..Plan[k].size |->
                            IF m = 0 THEN Junk ELSE [call |-> k, no |-> IF i <= m THEN i ELSE m]]

\* What every call that has succeeded returns.
AnswersAsSent == BuffersAsSent /\ FdsUpToDrop

\* A 0 says that there is nothing more: every call of the sender that has
\* succeeded was answered, and no later one will succeed.
EndIsTheEnd == receiver = "ended" => sDone <= Len(answers) /\ sender = "gone"

\* Both ends finish, whoever dies: no call retries for ever.
BothFinish == <>(sender = "gone" /\ receiver = "gone")
=============================================================================
