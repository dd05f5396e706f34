---------------------------- MODULE SocketSetup ----------------------------
(***************************************************************************)
(* How src/SocketHelper.cpp sets up connections: servers listen on a TCP   *)
(* port or on a name in the file system, clients connect to it, and over a *)
(* name the server accepts only callers that have a name of their own.     *)
(* Processes interleave between any two system calls, may close what they  *)
(* have been given, and may die and be started again.                      *)
(*                                                                         *)
(* A name outlives the socket that is bound to it, a port does not.        *)
(***************************************************************************)
EXTENDS Integers, Sequences, FiniteSets

CONSTANTS
    Servers, Callers,  \* processes; a caller is its pid, and so is its name
    Backlog,           \* maxConnNum
    MaxSockets         \* bound: the sockets that are ever created

Process == Servers \cup Callers
Socket == 1 .. MaxSockets
None == 0
Stdin == -1
NoProcess == "none"

ASSUME SocketSetupAssumption ==
    /\ Servers \cap Callers = {} /\ NoProcess \notin Process
    /\ Backlog \in Nat /\ MaxSockets \in Nat

VARIABLES
    own, family, st,  \* of each socket: whose it is, "unix" or "tcp", its state
    queued,           \* the callers' sockets a listening socket has not accepted
    name,             \* the socket bound to the servers' name, and to each caller's
    port,             \* the socket that has the TCP port
    pc, cur,          \* where each process is in a call, and with which socket
    peer,             \* whom it is accepting
    kept,             \* the sockets its calls have returned
    zero,             \* what descriptor 0 is: Stdin, a socket, or None
    cutter,           \* the socket for which the servers' name was last unlinked
    turned            \* the sockets of the callers that were turned away

sockets == <<own, family, st, queued>>
names == <<name, port, cutter>>
vars == <<sockets, names, pc, cur, peer, kept, zero, turned>>

Created == {s \in Socket : st[s] # "none"}
Open == {s \in Socket : st[s] \notin {"none", "closed"}}

\* The name a process unlinks and binds: the server's, or one made of its pid.
NameOf(p) == IF p \in Servers THEN NoProcess ELSE p

Init ==
    /\ own = [s \in Socket |-> NoProcess] /\ family = [s \in Socket |-> "unix"]
    /\ st = [s \in Socket |-> "none"] /\ queued = [s \in Socket |-> <<>>]
    /\ name = [x \in Callers \cup {NoProcess} |-> None] /\ port = None /\ cutter = None
    /\ pc = [p \in Process |-> "idle"] /\ cur = [p \in Process |-> None]
    /\ peer = [p \in Process |-> None] /\ kept = [p \in Process |-> {}]
    /\ zero \in [Process -> {Stdin, None}] /\ turned = {}

-----------------------------------------------------------------------------
(***************************************************************************)
(* The parts of the calls                                                  *)
(***************************************************************************)
NewSocket(s, p, f) ==
    /\ Cardinality(Created) < MaxSockets /\ s = Cardinality(Created) + 1
    /\ own' = [own EXCEPT ![s] = p] /\ family' = [family EXCEPT ![s] = f]
    /\ zero' = [zero EXCEPT ![p] = IF @ = None THEN s ELSE @]

\* close(): a port is free again, a name is not; who is queued is cut off.
CloseAll(ss) ==
    /\ st' = [s \in Socket |-> IF s \in ss THEN "closed" ELSE st[s]]
    /\ queued' = [s \in Socket |-> IF s \in ss THEN <<>> ELSE queued[s]]
    /\ port' = IF port \in ss THEN None ELSE port
    /\ zero' = [p \in Process |-> IF zero[p] \in ss THEN None ELSE zero[p]]

Returns(p) == pc' = [pc EXCEPT ![p] = "idle"] /\ cur' = [cur EXCEPT ![p] = None]
Keeps(p) == kept' = [kept EXCEPT ![p] = @ \cup {cur[p]}]

\* errout: close() and an error code.
Fails(p) ==
    /\ CloseAll({cur[p]}) /\ Returns(p)
    /\ UNCHANGED <<own, family, name, cutter, peer, kept>>

-----------------------------------------------------------------------------
(***************************************************************************)
(* setupListenSocket() and setupConnectionSocket()                         *)
(***************************************************************************)
\* socket().  When it fails there is nothing to undo.
Create(p, f) ==
    /\ pc[p] = "idle"
    /\ \E s \in Socket :
        /\ NewSocket(s, p, f)
        /\ st' = [st EXCEPT ![s] = "new"]
        /\ cur' = [cur EXCEPT ![p] = s]
    /\ pc' = [pc EXCEPT ![p] = IF f = "unix" THEN "unlink" ELSE "option"]
    /\ UNCHANGED <<queued, names, peer, kept, turned>>

\* createStreamSocket() sets SO_REUSEADDR and returns a descriptor that is taken
\* for an error when it is 0.
SetOption(p) ==
    /\ pc[p] = "option"
    /\ IF zero[p] = cur[p]
       THEN Returns(p)
       ELSE /\ pc' = [pc EXCEPT ![p] = IF p \in Servers THEN "bind" ELSE "connect"]
            /\ UNCHANGED cur
    /\ UNCHANGED <<sockets, names, peer, kept, zero, turned>>

\* Mutant: a caller unlinks the name it is going to connect to.
UnlinkOld_Servers(p) ==
    /\ pc[p] = "unlink"
    /\ name' = [name EXCEPT ![NoProcess] = None]
    /\ cutter' = IF p \in Servers THEN cur[p] ELSE cutter
    /\ pc' = [pc EXCEPT ![p] = "bind"]
    /\ UNCHANGED <<sockets, port, cur, peer, kept, zero, turned>>

\* unlink(serverName), unlink(addr.sun_path): whoever has the name now.
UnlinkOld(p) ==
    /\ pc[p] = "unlink"
    /\ name' = [name EXCEPT ![NameOf(p)] = None]
    /\ cutter' = IF p \in Servers THEN cur[p] ELSE cutter
    /\ pc' = [pc EXCEPT ![p] = "bind"]
    /\ UNCHANGED <<sockets, port, cur, peer, kept, zero, turned>>

\* bind(): the name or the port must be free.
Bind(p) ==
    /\ pc[p] = "bind"
    /\ \/ /\ family[cur[p]] = "unix" /\ name[NameOf(p)] = None
          /\ name' = [name EXCEPT ![NameOf(p)] = cur[p]] /\ UNCHANGED port
       \/ /\ family[cur[p]] = "tcp" /\ port = None
          /\ port' = cur[p] /\ UNCHANGED name
    /\ pc' = [pc EXCEPT ![p] = IF p \in Servers THEN "listen" ELSE "connect"]
    /\ UNCHANGED <<sockets, cutter, cur, peer, kept, zero, turned>>

\* listen(), and setSocketBlockMode() of a TCP socket.
Listen(p) ==
    /\ pc[p] = "listen"
    /\ st' = [st EXCEPT ![cur[p]] = "listening"]
    /\ Keeps(p) /\ Returns(p)
    /\ UNCHANGED <<own, family, queued, names, peer, zero, turned>>

\* connect(): somebody listens at the name or the port.  A name whose socket
\* is closed, or not listening yet, refuses.
ConnectTo(p) == IF family[cur[p]] = "unix" THEN name[NoProcess] ELSE port
Reachable(p) == ConnectTo(p) # None /\ st[ConnectTo(p)] = "listening"

Connect(p) ==
    /\ pc[p] = "connect" /\ Reachable(p)
    /\ Len(queued[ConnectTo(p)]) < Backlog
    /\ st' = [st EXCEPT ![cur[p]] = "connected"]
    /\ queued' = [queued EXCEPT ![ConnectTo(p)] = Append(@, cur[p])]
    /\ Keeps(p) /\ Returns(p)
    /\ UNCHANGED <<own, family, names, peer, zero, turned>>

\* Mutant: the error path forgets close().
SetupFails_NoClose(p) ==
    /\ pc[p] \in {"option", "bind", "listen", "connect"}
    /\ Returns(p)
    /\ UNCHANGED <<sockets, names, peer, kept, zero, turned>>

\* setsockopt(), bind(), listen() and connect() may fail.
SetupFails(p) ==
    /\ pc[p] \in {"option", "bind", "listen", "connect"}
    /\ Fails(p)
    /\ UNCHANGED turned

-----------------------------------------------------------------------------
(***************************************************************************)
(* acceptConnectSocket()                                                   *)
(***************************************************************************)
\* accept(): over TCP that is all (and the caller's address is not handed out:
\* it is written over the parameter).
Accept(p, l) ==
    /\ pc[p] = "idle" /\ l \in kept[p] /\ st[l] = "listening" /\ queued[l] # <<>>
    /\ \E s \in Socket :
        /\ NewSocket(s, p, family[l])
        /\ st' = [st EXCEPT ![s] = "connected"]
        /\ IF family[l] = "tcp"
           THEN kept' = [kept EXCEPT ![p] = @ \cup {s}] /\ UNCHANGED <<pc, cur, peer>>
           ELSE /\ cur' = [cur EXCEPT ![p] = s] /\ pc' = [pc EXCEPT ![p] = "stat"]
                /\ peer' = [peer EXCEPT ![p] = Head(queued[l])]
                /\ UNCHANGED kept
    /\ queued' = [queued EXCEPT ![l] = Tail(@)]
    /\ UNCHANGED <<names, turned>>

Caller(p) == own[peer[p]]

\* stat() of the caller's name.
Stat(p) ==
    /\ pc[p] = "stat" /\ name[Caller(p)] # None
    /\ pc' = [pc EXCEPT ![p] = "unlinkCaller"]
    /\ UNCHANGED <<sockets, names, cur, peer, kept, zero, turned>>

\* Mutant: the result of stat() is tested the wrong way round.
StatFails_Inverted(p) ==
    /\ pc[p] = "stat" /\ name[Caller(p)] # None
    /\ Fails(p)
    /\ turned' = turned \cup {peer[p]}

StatFails(p) ==
    /\ pc[p] = "stat" /\ name[Caller(p)] = None
    /\ Fails(p)
    /\ turned' = turned \cup {peer[p]}

UnlinkCaller(p) ==
    /\ pc[p] = "unlinkCaller"
    /\ name' = [name EXCEPT ![Caller(p)] = None]
    /\ Keeps(p) /\ Returns(p)
    /\ UNCHANGED <<sockets, port, cutter, peer, zero, turned>>

-----------------------------------------------------------------------------
\* The process closes a socket it was given.
Close(p, s) ==
    /\ pc[p] = "idle" /\ s \in kept[p]
    /\ CloseAll({s})
    /\ kept' = [kept EXCEPT ![p] = @ \ {s}]
    /\ UNCHANGED <<own, family, name, cutter, pc, cur, peer, turned>>

\* It dies, and another one takes its place.
Die(p) ==
    /\ \E s \in Open : own[s] = p
    /\ CloseAll({s \in Open : own[s] = p})
    /\ kept' = [kept EXCEPT ![p] = {}] /\ Returns(p)
    /\ UNCHANGED <<own, family, name, cutter, peer, turned>>

Next ==
    \E p \in Process :
        \/ \E f \in {"unix", "tcp"} : Create(p, f)
        \/ SetOption(p) \/ UnlinkOld(p) \/ Bind(p) \/ Listen(p) \/ Connect(p) \/ SetupFails(p)
        \/ \E s \in Socket : Accept(p, s) \/ Close(p, s)
        \/ Stat(p) \/ StatFails(p) \/ UnlinkCaller(p) \/ Die(p)

Spec == Init /\ [][Next]_vars

-----------------------------------------------------------------------------
(***************************************************************************)
(* Properties                                                              *)
(***************************************************************************)
\* Whatever fails, a process has no socket but those its calls have returned
\* and the one it works at; except a TCP socket that became descriptor 0,
\* which "newSocket <= 0" (SocketHelper.cpp:46, 90) gives up without closing.
SetupLeaksNothing ==
    \A s \in Open :
        \/ s \in kept[own[s]] \/ s = cur[own[s]]
        \/ family[s] = "tcp" /\ zero[own[s]] = s

\* A server keeps its port, and keeps its name until another setup has
\* unlinked it: no caller, no error and nobody's death cuts it off.
OnlyAServerCutsOff ==
    \A s \in Open : st[s] = "listening" =>
        IF family[s] = "tcp" THEN port = s ELSE name[NoProcess] = s \/ cutter # s

\* "obtain the client's uid from its calling address" (SocketHelper.cpp:167):
\* a caller that has connected is turned away only when its process, or its
\* successor, called setupConnectionSocket() again before it was accepted,
\* for both have the same name.
OnlyItsDoubleTurnsAway ==
    \A s \in turned : \E d \in Created \ {s} : own[d] = own[s] /\ family[d] = "unix"
=============================================================================
