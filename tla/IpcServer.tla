------------------------------ MODULE IpcServer ------------------------------
(***************************************************************************)
(* The server of src/tipc.cpp on Linux: main() with an acceptor, the       *)
(* service thread in ipc_io_service::run() with its epoll loop and handle  *)
(* table, one ipc_connection_linux_UDS per client, and the callbacks       *)
(* main() gives them.                                                      *)
(*                                                                         *)
(* Every system call that another process can come between is a step.  The *)
(* clients and the kernel (descriptors, interest list, backlog, sockets)   *)
(* are modelled as the server sees them.  What a client sends is a         *)
(* sequence of units: the four bytes "tst1", whoever types them; the four  *)
(* bytes of the total that follow them; a chunk of the test, 1024 bytes;   *)
(* or four bytes of text, none of which is a byte of "tst1".  sent and     *)
(* rcvd are positions in that sequence, and torn tells whose next unit has *)
(* been read in part.                                                      *)
(***************************************************************************)
EXTENDS Integers, Sequences, FiniteSets

CONSTANTS Client,    \* client processes, each with one connection
          Acceptor,  \* the listening ipc_connection
          NoConn,    \* NULL
          Garbage,   \* what an uninitialised slot of m_map_fast may hold
          Script,    \* what each client sends, at most
          Chunks,    \* chunks of 1024 bytes in the total of tst1
          Handles,   \* bound: the descriptors the server can open
          Backlog,   \* m_numListen
          Unset,     \* the slots of m_map_fast that may not be zero at first
          Nameless   \* the clients whose socket file may be gone at accept()

Conn == Client \cup {Acceptor}
Unit == {"tst1", "total", "data", "text"}
Handle == 1..Handles
First == 1
NoHandle == -1

ASSUME IpcServerAssumption ==
    /\ Acceptor \notin Client
    /\ NoConn \notin Conn /\ Garbage \notin Conn \cup {NoConn}
    /\ Script \in [Client -> Seq(Unit)]
    /\ Chunks \in Nat \ {0}
    /\ Backlog \in Nat \ {0}
    /\ Handles \in Nat \ {0}
    /\ Unset \subseteq Handle
    /\ Nameless \subseteq Client

VARIABLES
    mainPc,       \* main(): before listen(), between its two effects, in join()
    open,         \* the socket every descriptor of the server refers to
    watched,      \* the descriptors in the interest list of m_epollFd
    map,          \* m_map_fast
    dirty,        \* ghost: its slots that were not zero at first
    fd,           \* m_fd of every connection object
    object,       \* whether a client's connection object is there
    connections,  \* main()'s vector
    batch,        \* the events of epoll_wait() that are still to be handled
    pc,           \* where the service thread is
    cur,          \* the connection whose on_read is running
    left,         \* the chunks server_tst1() still waits for
    state,        \* where every client is
    backlog,      \* the connections accept() will return
    sent,         \* units every client has written
    rcvd,         \* units the server has read of them, to their end
    torn,         \* the clients whose next unit has lost its first bytes
    unread,       \* the clients with an answer they have not read
    reset,        \* the sockets whose next read() at the end is ECONNRESET
    passed        \* ghost: the clients whose tst1 was reported complete

table == <<watched, map, fd, open, object, connections>>
stream == <<rcvd, torn, unread, reset>>
service == <<batch, pc, cur, left, passed>>
clients == <<state, sent>>
vars == <<mainPc, dirty, table, service, backlog, clients, stream>>

Objects == {c \in Client : object[c] = "there"} \cup {Acceptor}

\* main() has made the acceptor: its socket has the lowest descriptor, which
\* associate() enters.
Init ==
    /\ mainPc = "created"
    /\ dirty \in SUBSET Unset
    /\ open = [h \in Handle |-> IF h = First THEN Acceptor ELSE NoConn]
    /\ watched = IF First \in dirty THEN {} ELSE {First}
    /\ map = [h \in Handle |->
                IF h = First THEN Acceptor ELSE IF h \in dirty THEN Garbage ELSE NoConn]
    /\ fd = [c \in Conn |-> IF c = Acceptor THEN First ELSE NoHandle]
    /\ object = [c \in Client |-> "none"]
    /\ connections = {}
    /\ batch = {}
    /\ pc = "loop"
    /\ cur = NoConn
    /\ left = 0
    /\ state = [c \in Client |-> "new"]
    /\ backlog = <<>>
    /\ sent = [c \in Client |-> 0]
    /\ rcvd = [c \in Client |-> 0]
    /\ torn = {}
    /\ unread = {}
    /\ reset = {}
    /\ passed = {}

-----------------------------------------------------------------------------
(***************************************************************************)
(* main() and the clients                                                  *)
(***************************************************************************)
\* acceptor->listen(): the socket listens ...
Listen ==
    /\ mainPc = "created"
    /\ mainPc' = "listening"
    /\ UNCHANGED <<dirty, table, service, backlog, clients, stream>>

\* Mutant: m_listening is not set.
MarkListening_None ==
    /\ mainPc = "listening"
    /\ mainPc' = "join, unmarked"
    /\ UNCHANGED <<dirty, table, service, backlog, clients, stream>>

\* ... and m_listening says so.  main() waits in join().
MarkListening ==
    /\ mainPc = "listening"
    /\ mainPc' = "join"
    /\ UNCHANGED <<dirty, table, service, backlog, clients, stream>>

Alive == pc # "dead"

Connect(c) ==
    /\ state[c] = "new"
    /\ Alive /\ mainPc # "created" /\ Len(backlog) <= Backlog
    /\ state' = [state EXCEPT ![c] = "connected"]
    /\ backlog' = Append(backlog, c)
    /\ UNCHANGED <<mainPc, dirty, table, service, sent, stream>>

\* The client does not look at what connect() returns: its writes fail.
ConnectRefused(c) ==
    /\ state[c] = "new"
    /\ ~Alive \/ mainPc = "created"
    /\ state' = [state EXCEPT ![c] = "refused"]
    /\ UNCHANGED <<mainPc, dirty, table, service, backlog, sent, stream>>

Send(c) ==
    /\ state[c] = "connected" /\ Alive
    /\ sent[c] < Len(Script[c])
    /\ sent' = [sent EXCEPT ![c] = @ + 1]
    /\ UNCHANGED <<mainPc, dirty, table, service, backlog, state, stream>>

\* The client's on_read takes the answer.
ReadAnswer(c) ==
    /\ state[c] = "connected" /\ c \in unread
    /\ unread' = unread \ {c}
    /\ UNCHANGED <<mainPc, dirty, table, service, backlog, clients, rcvd, torn, reset>>

\* The client ends, by its user or in on_close.  An answer it has not read
\* resets the connection.
Exit(c) ==
    /\ state[c] = "connected"
    /\ state' = [state EXCEPT ![c] = "gone"]
    /\ unread' = unread \ {c}
    /\ reset' = reset \cup ({c} \cap unread)
    /\ UNCHANGED <<mainPc, dirty, table, service, backlog, sent, rcvd, torn>>

-----------------------------------------------------------------------------
(***************************************************************************)
(* ipc_io_service                                                          *)
(***************************************************************************)
\* associate(): a slot that holds a pointer is taken for one whose handle is
\* in the interest list already.
Associate(c, h) ==
    /\ watched' = IF map[h] = NoConn THEN watched \cup {h} ELSE watched
    /\ map' = [map EXCEPT ![h] = c]

\* Mutant: the destructor closes first, and unassociate() finds no handle.
Destroy_CloseFirst(c) ==
    /\ open' = [open EXCEPT ![fd[c]] = NoConn]
    /\ watched' = watched \ {fd[c]}
    /\ fd' = [fd EXCEPT ![c] = NoHandle]
    /\ object' = [object EXCEPT ![c] = "deleted"]
    /\ UNCHANGED map

\* The destructor: unassociate(), then close().
Destroy(c) ==
    /\ watched' = watched \ {fd[c]}
    /\ map' = [map EXCEPT ![fd[c]] = NoConn]
    /\ open' = [open EXCEPT ![fd[c]] = NoConn]
    /\ fd' = [fd EXCEPT ![c] = NoHandle]
    /\ object' = [object EXCEPT ![c] = "deleted"]

Pending(c) == rcvd[c] < sent[c]

\* What epoll reports of a descriptor: something to read, or the peer gone.
HasInput(h) ==
    \/ open[h] = Acceptor /\ backlog # <<>>
    \/ open[h] \in Client /\ (Pending(open[h]) \/ state[open[h]] = "gone")
HasHangUp(h) == open[h] \in Client /\ state[open[h]] = "gone"

\* EPOLLHUP, which notify() does not look at, while the acceptor's socket
\* does not listen.
HasOther(h) == open[h] = Acceptor /\ mainPc = "created"

\* epoll_wait() returns events.  Level-triggered, and with room for all.
EpollWait ==
    /\ pc = "loop" /\ batch = {}
    /\ batch' = {[fd |-> h, of |-> open[h], in |-> HasInput(h), rdhup |-> HasHangUp(h)] :
                    h \in {g \in watched : HasInput(g) \/ HasHangUp(g) \/ HasOther(g)}}
    /\ batch' # {}
    /\ UNCHANGED <<mainPc, dirty, table, pc, cur, left, passed, backlog, clients, stream>>

\* An event is taken and get(fd) asked whose it is.  The order is epoll's.
\* assert(pconn) is the invariant EventsAreFresh.
Take(e, c) ==
    /\ pc = "loop" /\ e \in batch
    /\ batch' = batch \ {e}
    /\ map[e.fd] = c

-----------------------------------------------------------------------------
(***************************************************************************)
(* ipc_connection_linux_UDS::notify() and on_accept, on_close              *)
(***************************************************************************)
Free == {h \in Handle : open[h] = NoConn}

\* The connection is taken, and the client's socket file found and removed;
\* the new object enters the table and main()'s vector.
Accept(c) ==
    /\ \E h \in Free :
        /\ \A g \in Free : h <= g
        /\ open' = [open EXCEPT ![h] = c]
        /\ fd' = [fd EXCEPT ![c] = h]
        /\ Associate(c, h)
    /\ object' = [object EXCEPT ![c] = "there"]
    /\ connections' = connections \cup {c}

\* stat() fails: the descriptor is closed again.
Turned(c) == Free # {} /\ UNCHANGED table

OnAccept(e) ==
    /\ Take(e, Acceptor) /\ e.in /\ mainPc = "join"
    /\ backlog # <<>> /\ Free # {}
    /\ LET c == Head(backlog)
       IN \/ Accept(c) /\ UNCHANGED state
          \/ c \in Nameless /\ Turned(c) /\ state' = [state EXCEPT ![c] = "gone"]
    /\ backlog' = Tail(backlog)
    /\ UNCHANGED <<mainPc, dirty, pc, cur, left, passed, sent, stream>>

\* accept() fails for want of a descriptor, or nothing is done: the acceptor
\* does not know yet that it listens, or the event is EPOLLHUP.
Ignore(e) ==
    /\ Take(e, Acceptor)
    /\ ~e.in \/ mainPc # "join" \/ Free = {}
    /\ UNCHANGED <<mainPc, dirty, table, pc, cur, left, passed, backlog, clients, stream>>

\* Mutant: every connection whose client has gone is deleted.
OnClose_Sweep(e) ==
    /\ \E c \in Client : Take(e, c) /\ e.rdhup
    /\ LET dead == {c \in connections : state[c] = "gone"}
           handles == {fd[c] : c \in dead}
       IN /\ connections' = connections \ dead
          /\ watched' = watched \ handles
          /\ map' = [h \in Handle |-> IF h \in handles THEN NoConn ELSE map[h]]
          /\ open' = [h \in Handle |-> IF h \in handles THEN NoConn ELSE open[h]]
          /\ fd' = [c \in Conn |-> IF c \in dead THEN NoHandle ELSE fd[c]]
          /\ object' = [c \in Client |-> IF c \in dead THEN "deleted" ELSE object[c]]
    /\ UNCHANGED <<mainPc, dirty, pc, cur, left, passed, backlog, clients, stream>>

\* EPOLLRDHUP is looked at before EPOLLIN; on_close() deletes the connection.
OnClose(e) ==
    /\ e.rdhup
    /\ \E c \in connections :
        /\ Take(e, c)
        /\ connections' = connections \ {c}
        /\ Destroy(c)
    /\ UNCHANGED <<mainPc, dirty, pc, cur, left, passed, backlog, clients, stream>>

OnRead(e) ==
    /\ e.in /\ ~e.rdhup
    /\ \E c \in Client : Take(e, c) /\ cur' = c
    /\ pc' = "header"
    /\ UNCHANGED <<mainPc, dirty, table, left, passed, backlog, clients, stream>>

-----------------------------------------------------------------------------
(***************************************************************************)
(* on_read(), one system call per step                                     *)
(***************************************************************************)
\* Mutant: a read that would block is taken for the end of the stream.
AtEnd_WouldBlock(c) == ~Pending(c) /\ c \notin reset

\* What read() finds when there is no data: the end, or once a reset.
AtEnd(c) == ~Pending(c) /\ state[c] = "gone" /\ c \notin reset
IsReset(c) == ~Pending(c) /\ c \in reset

\* A read() takes what precedes unit n + 1, and a part of that if it tears it.
Takes(n, tears) ==
    /\ rcvd' = [rcvd EXCEPT ![cur] = n]
    /\ torn' = IF tears THEN torn \cup {cur} ELSE torn \ {cur}
TakesNothing == UNCHANGED <<rcvd, torn>>

\* The unit that read() finds first.
Ahead == Script[cur][rcvd[cur] + 1]

\* Four bytes, or all there is: a whole unit if it is a small one; the first
\* bytes of a chunk; or the end of a torn unit and what they reach of the next.
TakesFour ==
    LET n == rcvd[cur] + 1
    IN \/ cur \notin torn /\ Ahead # "data" /\ Takes(n, FALSE)
       \/ Ahead = "data" /\ Takes(n - 1, TRUE)
       \/ cur \in torn /\ Takes(n, n < sent[cur])
       \/ cur \in torn /\ Ahead = "data" /\ Takes(n, FALSE)

\* What fits into the 1024 bytes of buff_rx: all there is, unless a chunk of
\* the test is among it.
TakesTheRest ==
    \E n \in rcvd[cur]..sent[cur], tears \in BOOLEAN :
        /\ tears => n < sent[cur]
        /\ n = rcvd[cur] => tears \/ ~Pending(cur)
        /\ n < sent[cur] => \E i \in rcvd[cur] + 1..n + 1 : Script[cur][i] = "data"
        /\ Takes(n, tears)

Go(to) == pc' = to /\ cur' = IF to = "loop" THEN NoConn ELSE cur

\* The step leaves everything alone but pc and what is read.
Reading(from, to) ==
    /\ pc = from /\ Go(to)
    /\ UNCHANGED <<mainPc, dirty, table, batch, passed, backlog, clients, unread>>

\* A read() that fails ends the callback.
ReadFails ==
    /\ IsReset(cur) /\ pc # "write"
    /\ reset' = reset \ {cur}
    /\ Reading(pc, "loop")
    /\ left' = 0
    /\ TakesNothing

\* Mutant: the four bytes are not compared.
ReadHeader_Any ==
    /\ ~IsReset(cur)
    /\ \/ Pending(cur) /\ TakesFour /\ Reading("header", "total")
       \/ ~Pending(cur) /\ TakesNothing /\ Reading("header", "rest")
    /\ UNCHANGED <<left, reset>>

\* pconn->read(buff_rx, 4, &len): what is there, without blocking.
ReadHeader ==
    /\ ~IsReset(cur)
    /\ \/ /\ Pending(cur) /\ TakesFour
          /\ Reading("header", IF Ahead = "tst1" /\ cur \notin torn THEN "total" ELSE "rest")
       \/ ~Pending(cur) /\ TakesNothing /\ Reading("header", "rest")
    /\ UNCHANGED <<left, reset>>

\* pconn->read(buff_rx + len, sizeof(buff_rx) - len, &len2)
ReadRest ==
    /\ ~IsReset(cur)
    /\ TakesTheRest
    /\ Reading("rest", "one")
    /\ UNCHANGED <<left, reset>>

\* pconn->read(buff_rx, 1): blocks until there is a byte, or the end.
ReadOne ==
    /\ \/ Pending(cur) /\ Takes(rcvd[cur], TRUE)
       \/ Pending(cur) /\ cur \in torn /\ Takes(rcvd[cur] + 1, FALSE)
       \/ AtEnd(cur) /\ TakesNothing
    /\ Reading("one", "write")
    /\ UNCHANGED <<left, reset>>

\* pconn->write(): the answer, or SIGPIPE when the client has gone.
WriteAnswer ==
    /\ pc = "write"
    /\ \/ /\ state[cur] = "gone"
          /\ Go("dead")
          /\ UNCHANGED unread
       \/ /\ state[cur] # "gone"
          /\ Go("loop")
          /\ unread' = unread \cup {cur}
    /\ UNCHANGED <<mainPc, dirty, table, batch, left, passed, backlog, clients, rcvd, torn, reset>>

\* server_tst1(): the total, which stays zero at the end of the stream.  Four
\* bytes of something else are a number too, which may be negative.
ReadTotal ==
    /\ \/ /\ Pending(cur) /\ TakesFour
          /\ left' \in IF Ahead = "total" THEN {Chunks} ELSE {0, Chunks}
          /\ Reading("total", IF left' = 0 THEN "loop" ELSE "chunk")
       \/ /\ AtEnd(cur) /\ TakesNothing
          /\ Reading("total", "loop") /\ left' = 0
    /\ UNCHANGED reset

\* A chunk has been compared; the last one ends the test.
Compared ==
    /\ left' = left - 1
    /\ Go(IF left = 1 THEN "loop" ELSE "chunk")
    /\ passed' = IF left = 1 THEN passed \cup {cur} ELSE passed

\* The thread ends with the process: a chunk that differs throws, and nobody
\* catches it; the report of progress divides by ms0 * 1024 * 1024 / 1000,
\* which is zero for a test of less than a millisecond, and again when the
\* product wraps.
Dies == Go("dead") /\ UNCHANGED <<left, passed>>

\* A chunk is read to its end, or to the end of the stream, for which read()
\* returns 0 too: the buffer then has what it had before, which is equal to
\* the chunk if a chunk was read before, since 1024 is a multiple of 256, and
\* anything if none was.
ReadChunk ==
    /\ pc = "chunk"
    /\ \/ /\ Pending(cur) /\ Ahead = "data" /\ cur \notin torn
          /\ Takes(rcvd[cur] + 1, FALSE)
          /\ Compared \/ Dies
       \/ AtEnd(cur) /\ TakesNothing /\ (Compared \/ Dies)
    /\ UNCHANGED <<mainPc, dirty, table, batch, backlog, clients, unread, reset>>

\* A chunk with something else in it, which differs when it is full (how much
\* of it is text is not counted) or at the end of the stream.
ReadMixed ==
    /\ pc \in {"chunk", "mixed"}
    /\ \/ /\ Pending(cur) /\ (pc = "mixed" \/ Ahead # "data" \/ cur \in torn)
          /\ Takes(rcvd[cur] + 1, FALSE)
          /\ Dies \/ (Go("mixed") /\ UNCHANGED <<left, passed>>)
       \/ pc = "mixed" /\ AtEnd(cur) /\ TakesNothing /\ Dies
    /\ UNCHANGED <<mainPc, dirty, table, batch, backlog, clients, unread, reset>>

-----------------------------------------------------------------------------
Notify(e) == OnAccept(e) \/ Ignore(e) \/ OnClose(e) \/ OnRead(e)

Callback ==
    /\ pc \notin {"loop", "dead"}
    /\ \/ ReadFails \/ ReadHeader \/ ReadRest \/ ReadOne \/ WriteAnswer
       \/ ReadTotal \/ ReadChunk \/ ReadMixed

Service == EpollWait \/ (\E e \in batch : Notify(e)) \/ Callback

Next ==
    \/ Listen \/ MarkListening \/ Service
    \/ \E c \in Client : Connect(c) \/ ConnectRefused(c) \/ Send(c) \/ ReadAnswer(c) \/ Exit(c)

SafeSpec == Init /\ [][Next]_vars

\* The two threads of the server run; what clients do is up to their users.
Spec == SafeSpec /\ WF_vars(Listen) /\ WF_vars(MarkListening) /\ WF_vars(Service)

-----------------------------------------------------------------------------
(***************************************************************************)
(* Properties                                                              *)
(***************************************************************************)
Event == [fd : Handle, of : Conn, in : BOOLEAN, rdhup : BOOLEAN]

\* The types of the variables.
TypeOK ==
    /\ mainPc \in {"created", "listening", "join"}
    /\ open \in [Handle -> Conn \cup {NoConn}]
    /\ watched \subseteq Handle
    /\ map \in [Handle -> Conn \cup {NoConn, Garbage}]
    /\ dirty \subseteq Handle
    /\ fd \in [Conn -> Handle \cup {NoHandle}]
    /\ object \in [Client -> {"none", "there", "deleted"}]
    /\ connections \subseteq Client
    /\ batch \subseteq Event
    /\ pc \in {"loop", "header", "rest", "one", "write", "total", "chunk", "mixed", "dead"}
    /\ cur \in Client \cup {NoConn} /\ (pc \notin {"loop", "dead"} => cur \in connections)
    /\ left \in 0..Chunks
    /\ state \in [Client -> {"new", "refused", "connected", "gone"}]
    /\ backlog \in Seq(Client)
    /\ sent \in [Client -> Nat] /\ rcvd \in [Client -> Nat]
    /\ \A c \in Client : rcvd[c] <= sent[c] /\ sent[c] <= Len(Script[c])
    /\ torn \subseteq {c \in Client : Pending(c)}
    /\ unread \subseteq Client /\ reset \subseteq Client /\ passed \subseteq Client

\* The vector, the handle table, the interest list, m_fd and the descriptors
\* of the kernel say the same, through every reuse of a descriptor: each
\* object has an open descriptor that leads back to it, and that is watched,
\* unless its slot of m_map_fast was not zero at first.
HandlesAgree ==
    /\ connections = Objects \ {Acceptor}
    /\ \A c \in Objects :
        /\ open[fd[c]] = c /\ map[fd[c]] = c
        /\ fd[c] \in watched <=> fd[c] \notin dirty

\* No descriptor is left open, and none watched, that no object has.
NothingLeaks ==
    /\ \A h \in Handle : open[h] # NoConn => open[h] \in Objects
    /\ \A h \in watched : open[h] # NoConn

\* What main() and the service thread keep about a descriptor agrees with the
\* kernel, object by object and descriptor by descriptor.
DescriptorsAgree == HandlesAgree /\ NothingLeaks

\* An event of the batch leads to the object it was reported for, although
\* the callbacks of the events before it delete objects and new ones take
\* their descriptors: get(fd) in run() is neither NULL, which it asserts, nor
\* dangling, nor somebody else.
EventsAreFresh == \A e \in batch : map[e.fd] = e.of /\ e.of \in Objects

\* What ends the service: a client that went before it was answered, or one
\* of whom four bytes "tst1" were read, whose test may differ or divide by
\* zero.  A client that stays and sends other text cannot.
OnlyTestsAndHangUpsKill ==
    pc = "dead" =>
        /\ cur \in Client
        /\ state[cur] = "gone" \/ \E i \in 1..rcvd[cur] : Script[cur][i] = "tst1"

\* The service thread sleeps in a synchronous read, or is no more.
StuckOn(c) ==
    /\ cur = c /\ pc \in {"one", "total", "chunk", "mixed"}
    /\ ~Pending(c) /\ state[c] = "connected"
Stuck == pc = "dead" \/ \E c \in Client : StuckOn(c)

InBacklog(c) == \E i \in DOMAIN backlog : backlog[i] = c

\* A client that has connected is accepted, unless the service stays without a
\* free descriptor, or never knew of the acceptor's.
Accepted ==
    First \notin dirty =>
        \A c \in Client : []<>(Free # {}) => (InBacklog(c) ~> ~InBacklog(c))

\* The object of a client that has gone is deleted, unless its descriptor was
\* never watched.
GoneIsDeleted ==
    \A c \in Client :
        c \in connections /\ state[c] = "gone" ~> object[c] = "deleted" \/ fd[c] \in dirty

\* Nobody is kept waiting, neither by the backlog nor for its object to go,
\* unless the service thread is stuck for ever.
EverybodyIsServed == []<>~Stuck => Accepted /\ GoneIsDeleted

\* "tst1 failed" (tipc.cpp:1142) is thrown for data that is not what the
\* client sends: a test of which something was received, and that ends, has
\* received all of it.
ChunksOf(c) == Cardinality({i \in 1..rcvd[c] : Script[c][i] = "data"})
PassedIsComplete == \A c \in passed : ChunksOf(c) > 0 => ChunksOf(c) >= Chunks
=============================================================================
