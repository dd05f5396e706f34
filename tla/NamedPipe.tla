----------------------------- MODULE NamedPipe -----------------------------
(***************************************************************************)
(* ipc_connection and ipc_io_service on Windows (src/tipc.cpp): one thread *)
(* takes completion packets from a port and notifies the connection whose  *)
(* handle is the packet's key.  To learn that a client has sent something, *)
(* a connection keeps a read of one byte outstanding: the byte is a cache  *)
(* that the next read() begins with.                                       *)
(*                                                                         *)
(* Clients are raw writers.  The server's callbacks are any: on_read() may *)
(* call read() and write() as it likes, as long as it reads something, and *)
(* on_close() deletes the connection.  Pipes and the completion port are   *)
(* Windows's, modelled from how the program uses them.                     *)
(***************************************************************************)
EXTENDS Integers, Sequences, FiniteSets

CONSTANTS
    Clients,   \* each of which connects once
    Handles,   \* the values of handles; one that is closed may come again
    Capacity,  \* bytes in a pipe (BUFSIZE)
    MaxBytes,  \* bound: the bytes a client sends
    MaxWant,   \* bound: the len of a read()
    MaxQueue   \* bound: a callback waits or writes while fewer packets are queued

ASSUME NamedPipeAssumption ==
    /\ Handles # {} /\ Capacity \in Nat \ {0} /\ MaxBytes \in Nat /\ MaxWant \in Nat /\ MaxQueue \in Nat

None == "none"
Acceptor == "acceptor"
NULL == "NULL"  \* no handle

ASSUME NamesDiffer == {None, Acceptor} \cap Clients = {} /\ NULL \notin Handles

VARIABLES
    inst, peer,      \* the state and the client of each pipe instance
    waits,           \* the connects that are pending on it
    pipe,            \* for each client, the bytes that are in its pipe
    sent,            \* how many it has sent; a byte is its number
    hung,            \* the clients that have hung up
    queue,           \* the completion port
    assoc,           \* the connection a handle is associated with
    listener,        \* the acceptor's handle
    handle,          \* the handle of each client's connection, if it exists
    empty, byte0,    \* its m_cache_empty and m_cache_byte0
    pending,         \* the connections whose cache read is pending
    got,             \* what read() has put into the callbacks' buffers
    at, cur,         \* where the service thread is, and in which connection
    want,            \* how much the present ReadFile() asks for
    stray            \* whether the acceptor's m_waitconn_overlapped.hEvent, which
                     \* nobody sets, happens not to be NULL

pipes == <<inst, peer, waits, pipe, sent, hung>>
port == <<queue, assoc, listener, handle>>
cache == <<empty, byte0, pending, got>>
vars == <<pipes, port, cache, at, cur, want, stray>>

Packet(key, of, op, n) == [key |-> key, of |-> of, op |-> op, n |-> n]
Post(p) == queue' = Append(queue, p)

\* listen() has created the first instance.
Init ==
    /\ listener = CHOOSE h \in Handles : TRUE
    /\ inst = [h \in Handles |-> IF h = listener THEN "listening" ELSE "closed"]
    /\ assoc = [h \in Handles |-> IF h = listener THEN Acceptor ELSE None]
    /\ peer = [h \in Handles |-> None] /\ waits = [h \in Handles |-> 0]
    /\ pipe = [c \in Clients |-> <<>>] /\ sent = [c \in Clients |-> 0] /\ hung = {}
    /\ queue = <<>> /\ handle = [c \in Clients |-> NULL]
    /\ empty = [c \in Clients |-> TRUE] /\ byte0 = [c \in Clients |-> 0] /\ pending = {}
    /\ got = [c \in Clients |-> <<>>]
    /\ at = "arm" /\ cur = None /\ want = 0 /\ stray \in BOOLEAN

-----------------------------------------------------------------------------
(***************************************************************************)
(* Clients                                                                 *)
(***************************************************************************)
\* CreateFile() finds an instance that is listening, whether or not the
\* server has called ConnectNamedPipe() for it.
Connect(c) ==
    /\ c \notin hung /\ \A h \in Handles : peer[h] # c
    /\ \E h \in Handles :
           /\ inst[h] = "listening"
           /\ inst' = [inst EXCEPT ![h] = "connected"] /\ peer' = [peer EXCEPT ![h] = c]
           /\ queue' = queue \o [i \in 1 .. waits[h] |-> Packet(h, Acceptor, "wait", 0)]
           /\ waits' = [waits EXCEPT ![h] = 0]
    /\ UNCHANGED <<pipe, sent, hung, assoc, listener, handle, cache, at, cur, want, stray>>

PipeOf(c) == {h \in Handles : peer[h] = c}

\* A byte goes to the cache read, if it is pending.
Send(c) ==
    /\ \E h \in PipeOf(c) : inst[h] = "connected"
    /\ sent[c] < MaxBytes
    /\ sent' = [sent EXCEPT ![c] = @ + 1]
    /\ \/ /\ c \in pending
          /\ byte0' = [byte0 EXCEPT ![c] = sent[c] + 1]
          /\ pending' = pending \ {c}
          /\ Post(Packet(handle[c], c, "cache", 1))
          /\ UNCHANGED pipe
       \/ /\ c \notin pending /\ Len(pipe[c]) < Capacity
          /\ pipe' = [pipe EXCEPT ![c] = Append(@, sent[c] + 1)]
          /\ UNCHANGED <<byte0, pending, queue>>
    /\ UNCHANGED <<inst, peer, waits, hung, assoc, listener, handle, empty, got, at, cur, want, stray>>

\* The client closes its end, or dies: a pending read fails.
HangUp(c) ==
    /\ \E h \in PipeOf(c) :
           /\ inst[h] = "connected"
           /\ inst' = [inst EXCEPT ![h] = "closing"]
    /\ hung' = hung \cup {c}
    /\ IF c \in pending THEN Post(Packet(handle[c], c, "cache", 0)) ELSE UNCHANGED queue
    /\ pending' = pending \ {c}
    /\ UNCHANGED <<peer, waits, pipe, sent, assoc, listener, handle, empty, byte0, got, at, cur, want, stray>>

-----------------------------------------------------------------------------
(***************************************************************************)
(* The acceptor                                                            *)
(***************************************************************************)
\* Mutant: ERROR_PIPE_CONNECTED is taken for one of the other errors.
wait_for_connection_OnlyPending ==
    /\ waits' = [waits EXCEPT ![listener] = IF inst[listener] = "listening" THEN @ + 1 ELSE @]
    /\ UNCHANGED queue

\* ConnectNamedPipe(): a client that is there already is posted; one that has
\* come and gone is an error, which nobody looks at.
wait_for_connection ==
    /\ waits' = [waits EXCEPT ![listener] = IF inst[listener] = "listening" THEN @ + 1 ELSE @]
    /\ IF inst[listener] = "connected"
       THEN Post(Packet(listener, Acceptor, "wait", 0))
       ELSE UNCHANGED queue

\* notify(): a new connection takes the acceptor's handle, and listen()
\* creates another instance of the pipe.
Accept(c, p) ==
    /\ assoc[p.key] = Acceptor
    /\ \E h \in Handles :
           /\ inst[h] = "closed"
           /\ inst' = [inst EXCEPT ![h] = "listening"]
           /\ assoc' = [assoc EXCEPT ![listener] = c, ![h] = Acceptor]
           /\ listener' = h
    /\ handle' = [handle EXCEPT ![c] = listener]
    /\ at' = "arm" /\ cur' = c
    /\ UNCHANGED <<peer, waits, pipe, sent, hung, cache, want>>

\* listen() calls wait_for_connection(), and so does notify(), once on_accept()
\* has set the callbacks.
Arm ==
    /\ at = "arm" /\ wait_for_connection
    /\ at' = IF cur = None THEN "idle" ELSE "announce"
    /\ UNCHANGED <<inst, peer, pipe, sent, hung, assoc, listener, handle, cache, cur, want, stray>>

Announce ==
    /\ at = "announce" /\ wait_for_connection
    /\ at' = "trigger"
    /\ UNCHANGED <<inst, peer, pipe, sent, hung, assoc, listener, handle, cache, cur, want, stray>>

-----------------------------------------------------------------------------
(***************************************************************************)
(* A connection                                                            *)
(***************************************************************************)
Broken(c) == pipe[c] = <<>> /\ c \in hung

\* Mutant: a read that fails on the spot is not reported.
trigger_async_cache_read_Silent(c) ==
    /\ IF pipe[c] # <<>>
       THEN /\ byte0' = [byte0 EXCEPT ![c] = Head(pipe[c])]
            /\ pipe' = [pipe EXCEPT ![c] = Tail(@)]
            /\ Post(Packet(handle[c], c, "cache", 1))
            /\ UNCHANGED pending
       ELSE /\ pending' = IF Broken(c) THEN pending ELSE pending \cup {c}
            /\ UNCHANGED <<byte0, pipe, queue>>
    /\ UNCHANGED <<empty, got>>

\* ReadFile() of one byte: done, pending, or failed; m_error_overlapped is for
\* the last.
trigger_async_cache_read(c) ==
    /\ \/ /\ pipe[c] # <<>>
          /\ byte0' = [byte0 EXCEPT ![c] = Head(pipe[c])]
          /\ pipe' = [pipe EXCEPT ![c] = Tail(@)]
          /\ Post(Packet(handle[c], c, "cache", 1))
          /\ UNCHANGED pending
       \/ /\ pipe[c] = <<>> /\ ~Broken(c)
          /\ pending' = pending \cup {c}
          /\ UNCHANGED <<byte0, pipe, queue>>
       \/ /\ Broken(c)
          /\ Post(Packet(handle[c], c, "error", 0))
          /\ UNCHANGED <<byte0, pipe, pending>>
    /\ UNCHANGED <<empty, got>>

Trigger ==
    /\ at = "trigger"
    /\ trigger_async_cache_read(cur)
    /\ at' = "idle" /\ cur' = None
    /\ UNCHANGED <<inst, peer, waits, sent, hung, assoc, listener, handle, want, stray>>

\* Mutant: on_close() is called after on_read() and its read, and not instead.
NotifyClosed_ReadsOn(c) ==
    /\ handle' = [handle EXCEPT ![c] = NULL]
    /\ assoc' = [assoc EXCEPT ![handle[c]] = None]
    /\ inst' = [inst EXCEPT ![handle[c]] = "closed"]
    /\ peer' = [peer EXCEPT ![handle[c]] = None]
    /\ queue' = Append(Tail(queue), Packet(handle[c], c, "error", 0))
    /\ UNCHANGED <<waits, pipe, sent, hung, listener, cache, at, cur, want>>

\* ERROR_BROKEN_PIPE: on_close() deletes the connection, which closes its handle.
NotifyClosed(c) ==
    /\ handle' = [handle EXCEPT ![c] = NULL]
    /\ assoc' = [assoc EXCEPT ![handle[c]] = None]
    /\ inst' = [inst EXCEPT ![handle[c]] = "closed"]
    /\ peer' = [peer EXCEPT ![handle[c]] = None]
    /\ queue' = Tail(queue)
    /\ UNCHANGED <<waits, pipe, sent, hung, listener, cache, at, cur, want>>

\* The byte has come: on_read() begins.
NotifyRead(c) ==
    /\ empty' = [empty EXCEPT ![c] = FALSE]
    /\ at' = "callback" /\ cur' = c
    /\ queue' = Tail(queue)
    /\ UNCHANGED <<pipes, assoc, listener, handle, byte0, pending, got, want>>

Ignored == queue' = Tail(queue) /\ UNCHANGED <<pipes, assoc, listener, handle, cache, at, cur, want>>

\* run(): packets of the synchronous calls are passed over, known by their
\* event; the others go to whoever has the handle now, who tells them by the
\* addresses of its own OVERLAPPEDs.
Dequeue ==
    /\ at = "idle" /\ queue # <<>>
    /\ LET p == Head(queue) to == assoc[p.key] IN
        \/ p.op = "sync" /\ Ignored
        \/ p.op = "wait" /\ stray /\ Ignored
        \/ /\ p.op = "wait" /\ ~stray /\ to = Acceptor
           /\ Accept(peer[p.key], p) /\ queue' = Tail(queue)
        \/ p.op = "wait" /\ ~stray /\ to # Acceptor /\ Ignored
        \/ p.op \in {"cache", "error"} /\ to = p.of /\ p.n = 0 /\ NotifyClosed(p.of)
        \/ p.op \in {"cache", "error"} /\ to = p.of /\ p.n = 1 /\ NotifyRead(p.of)
    /\ UNCHANGED stray

-----------------------------------------------------------------------------
(***************************************************************************)
(* on_read(), read() and write()                                           *)
(***************************************************************************)
Cached(c) == IF empty[c] THEN <<>> ELSE <<byte0[c]>>

\* Mutant: the cache stays.
TakeCache_Stays(c) == got' = [got EXCEPT ![c] = @ \o Cached(c)] /\ UNCHANGED empty

TakeCache(c) ==
    /\ got' = [got EXCEPT ![c] = @ \o Cached(c)]
    /\ empty' = [empty EXCEPT ![c] = TRUE]

Least(a, b) == IF a < b THEN a ELSE b

\* With lp_cnt: PeekNamedPipe() says how much a ReadFile() gets without waiting,
\* unless there is nothing, or nothing will ever be.
ReadNow(n) ==
    /\ at = "callback" /\ TakeCache(cur)
    /\ want' = Least(n - Len(Cached(cur)), Len(pipe[cur]))
    /\ at' = IF want' > 0 THEN "peeked" ELSE "callback"
    /\ UNCHANGED <<pipes, port, byte0, pending, cur, stray>>

\* Without lp_cnt.
ReadAll(n) ==
    /\ at = "callback" /\ Len(queue) < MaxQueue
    /\ TakeCache(cur)
    /\ want' = n - Len(Cached(cur))
    /\ at' = IF want' > 0 THEN "block" ELSE "callback"
    /\ UNCHANGED <<pipes, port, byte0, pending, cur, stray>>

\* ReadFile() returns what there is; a packet follows it.
ReadFile ==
    /\ at \in {"peeked", "block"} /\ pipe[cur] # <<>>
    /\ LET n == Least(want, Len(pipe[cur])) IN
        /\ got' = [got EXCEPT ![cur] = @ \o SubSeq(pipe[cur], 1, n)]
        /\ pipe' = [pipe EXCEPT ![cur] = SubSeq(@, n + 1, Len(@))]
        /\ want' = IF at = "peeked" THEN 0 ELSE want - n
    /\ Post(Packet(handle[cur], cur, "sync", 0))
    /\ at' = IF want' = 0 THEN "callback" ELSE "block"
    /\ UNCHANGED <<inst, peer, waits, sent, hung, assoc, listener, handle, empty, byte0, pending, cur, stray>>

\* The pipe breaks under a read() that waits; it has waited for a packet, or not.
ReadFileFails ==
    /\ at = "block" /\ Broken(cur)
    /\ want' = 0 /\ at' = "callback"
    /\ queue' \in {queue, Append(queue, Packet(handle[cur], cur, "sync", 0))}
    /\ UNCHANGED <<pipes, assoc, listener, handle, cache, cur, stray>>

\* write(): there is room in the pipe, or WriteFile() is pending and
\* GetOverlappedResult() waits.  One to a client that has gone fails on the spot.
Write ==
    /\ at = "callback" /\ Len(queue) < MaxQueue
    /\ cur \notin hung
    /\ \/ at' = at /\ Post(Packet(handle[cur], cur, "sync", 0))
       \/ at' = "write" /\ UNCHANGED queue
    /\ UNCHANGED <<pipes, assoc, listener, handle, cache, cur, want, stray>>

WriteReturns ==
    /\ at = "write"
    /\ Post(Packet(handle[cur], cur, "sync", 0))
    /\ at' = "callback"
    /\ UNCHANGED <<pipes, assoc, listener, handle, cache, cur, want, stray>>

\* The pipe breaks under a write() that waits.
WriteFails == cur \in hung /\ WriteReturns

\* The client reads what is in its pipe, and makes room for what a write()
\* waits with.  It need not.
Receive(c) == c = cur /\ c \notin hung /\ WriteReturns

\* "user must atleast read one byte inside the callback"
Return ==
    /\ at = "callback" /\ empty[cur]
    /\ at' = "trigger"
    /\ UNCHANGED <<pipes, port, cache, cur, want, stray>>

-----------------------------------------------------------------------------
Service ==
    \/ Dequeue \/ Arm \/ Announce \/ Trigger
    \/ (\E n \in 1 .. MaxWant : ReadNow(n) \/ ReadAll(n))
    \/ ReadFile \/ ReadFileFails \/ Write \/ WriteFails \/ Return

Client == \E c \in Clients : Connect(c) \/ Send(c) \/ Receive(c) \/ HangUp(c)

Next == Service \/ Client

\* The service thread runs, and a callback does not read and write for ever.
Spec == Init /\ [][Next]_vars /\ WF_vars(Service) /\ SF_vars(Return)

-----------------------------------------------------------------------------
(***************************************************************************)
(* Properties                                                              *)
(***************************************************************************)
Packets == {queue[i] : i \in DOMAIN queue}
Count(c) == Cardinality({i \in DOMAIN queue : queue[i].of = c /\ queue[i].op \in {"cache", "error"}})

\* The byte a cache read has got and read() has not taken.
Ahead(c) ==
    IF ~empty[c] \/ \E p \in Packets : p.of = c /\ p.op = "cache" /\ p.n = 1
    THEN <<byte0[c]>> ELSE <<>>

\* The cache is no detour: what callbacks have read, the byte that was read
\* ahead and what is in the pipe are together what the client has sent, in
\* its order, nothing lost and nothing twice.
ByteStream == \A c \in Clients : got[c] \o Ahead(c) \o pipe[c] = [i \in 1 .. sent[c] |-> i]

\* assert(pio != NULL) (tipc.cpp:698), and the OVERLAPPED the thread looks at
\* before (tipc.cpp:686): no packet outlives its connection, although
\* synchronous calls leave packets behind, the acceptor asks for each client
\* twice, and handles are used again.
PacketsHaveOwners ==
    \A p \in Packets :
        /\ assoc[p.key] # None
        /\ p.of # Acceptor => handle[p.of] = p.key /\ assoc[p.key] = p.of

\* assert(m_cache_empty == true) (tipc.cpp:545), and more: a connection waits
\* for one thing at a time, so that reads do not overlap, and it always waits
\* for something, so that it is never forgotten.
OneReadEach ==
    /\ \A c \in Clients :
        Count(c) + Cardinality({c} \cap pending) + Cardinality({c} \cap {cur})
            = (IF handle[c] = NULL THEN 0 ELSE 1)
    /\ at = "trigger" => empty[cur]

\* Once the thread is back in the port, the acceptor will hear of the next
\* client, or of the one that has connected in the meantime.  It never hears
\* again when a client has come and gone before ConnectNamedPipe() was called.
AcceptorIsArmed ==
    at = "idle" /\ ~stray =>
        \/ inst[listener] = "listening" /\ waits[listener] > 0
        \/ \E p \in Packets : p.key = listener /\ p.op = "wait"
        \/ inst[listener] = "closing"

\* The thread waits in a read() for bytes, or in a write() for a reader.
InClientsHands == at \in {"block", "write"}

\* A client that has hung up is deleted, whatever the others do, unless one of
\* them keeps the thread in a read() or a write() for ever: there is one thread
\* for all of them.
HangUpIsNoticed ==
    []<>~InClientsHands =>
        \A c \in Clients : c \in hung /\ handle[c] # NULL ~> handle[c] = NULL
=============================================================================
