--------------------------- MODULE IpcServerProofs ---------------------------
(***************************************************************************)
(* What IpcServer keeps for any clients, scripts and descriptors, and      *)
(* whatever the slots of the handle table hold at first.                   *)
(*                                                                         *)
(* The invariant says what every descriptor is for: it is open and has an  *)
(* object, or it is not in the interest list and its slot is as it was at  *)
(* first.  A slot with garbage keeps its first object for ever, since its  *)
(* descriptor is never watched; so no event names it.  An event of a batch *)
(* stands for the only event of its descriptor, so deleting its object     *)
(* makes no other event stale; and a client that waits in the backlog has  *)
(* no object yet, so accepting it makes no second one.                     *)
(***************************************************************************)
EXTENDS IpcServer, SequenceTheorems, TLAPS

\* The types of what a descriptor is for.
TableType ==
    /\ open \in [Handle -> Conn \cup {NoConn}]
    /\ watched \subseteq Handle
    /\ map \in [Handle -> Conn \cup {NoConn, Garbage}]
    /\ dirty \subseteq Handle
    /\ fd \in [Conn -> Handle \cup {NoHandle}]
    /\ object \in [Client -> {"none", "there", "deleted"}]
    /\ connections = {c \in Client : object[c] = "there"}

\* Every object has a descriptor that leads back to it.
ObjectsHaveHandles ==
    \A c \in Objects :
        /\ fd[c] \in Handle /\ open[fd[c]] = c /\ map[fd[c]] = c
        /\ fd[c] \in watched \/ fd[c] \in dirty

\* Every descriptor has an object, or nobody knows it.  Garbage keeps a
\* descriptor out of the interest list.
HandlesHaveObjects ==
    \A h \in Handle :
        /\ IF open[h] = NoConn
           THEN h \notin watched /\ map[h] = IF h \in dirty THEN Garbage ELSE NoConn
           ELSE open[h] \in Objects /\ fd[open[h]] = h
        /\ h \in watched => h \notin dirty

\* The table is a bijection between objects and open descriptors.
TableInv == TableType /\ ObjectsHaveHandles /\ HandlesHaveObjects

\* A batch has one event for each descriptor, which is still open for the
\* socket it was reported for; a callback runs for an object.
BatchInv ==
    /\ batch \subseteq Event
    /\ \A e \in batch : open[e.fd] = e.of /\ e.fd \notin dirty
    /\ \A e, f \in batch : e.fd = f.fd => e = f
    /\ pc \notin {"loop", "dead"} => cur \in connections

\* A client in the backlog is there once and has no object.
BacklogInv ==
    /\ backlog \in Seq(Client)
    /\ \A i \in DOMAIN backlog : object[backlog[i]] = "none" /\ state[backlog[i]] # "new"
    /\ \A i, j \in DOMAIN backlog : backlog[i] = backlog[j] => i = j
    /\ \A c \in Client : state[c] = "new" => object[c] = "none"
    /\ state \in [Client -> {"new", "refused", "connected", "gone"}]

\* What every step preserves.
ServiceInv == TableInv /\ BatchInv /\ BacklogInv

-----------------------------------------------------------------------------
\* An event leads to the object it was reported for.
LEMMA EventLeadsBack ==
    ASSUME TableInv, BatchInv, NEW e \in batch
    PROVE  /\ e.fd \in Handle /\ e.of \in Objects
           /\ map[e.fd] = e.of /\ fd[e.of] = e.fd /\ e.fd \notin dirty
<1>1. e.fd \in Handle /\ e.of \in Conn /\ open[e.fd] = e.of /\ e.fd \notin dirty
  BY DEF BatchInv, Event
<1>2. e.of # NoConn
  BY <1>1, IpcServerAssumption
<1>3. e.of \in Objects /\ fd[e.of] = e.fd
  BY <1>1, <1>2 DEF TableInv, HandlesHaveObjects
<1> QED BY <1>1, <1>3 DEF TableInv, ObjectsHaveHandles

\* The new object of an accepted client enters the table at a descriptor that
\* nobody knew.
LEMMA AcceptKeepsTable ==
    ASSUME TableInv, NEW c \in Client, object[c] = "none", Accept(c), dirty' = dirty
    PROVE  /\ TableInv'
           /\ \A h \in Handle : open[h] # NoConn => open'[h] = open[h]
           /\ \A d \in Client : d # c => object'[d] = object[d]
           /\ connections \subseteq connections'
<1> USE IpcServerAssumption DEF Conn
<1>1. PICK h \in Free :
        /\ open' = [open EXCEPT ![h] = c] /\ fd' = [fd EXCEPT ![c] = h]
        /\ Associate(c, h)
  BY DEF Accept
<1>2. /\ h \in Handle /\ open[h] = NoConn /\ h \notin watched
      /\ map[h] = IF h \in dirty THEN Garbage ELSE NoConn
  BY DEF Free, TableInv, HandlesHaveObjects
<1>3. /\ watched' = IF h \in dirty THEN watched ELSE watched \cup {h}
      /\ map' = [map EXCEPT ![h] = c]
  BY <1>1, <1>2 DEF Associate
<1>4. object' = [object EXCEPT ![c] = "there"] /\ connections' = connections \cup {c}
  BY DEF Accept
<1>5. TableType'
  BY <1>1, <1>2, <1>3, <1>4 DEF TableInv, TableType
<1>6. Objects' = Objects \cup {c} /\ c \notin Objects
  BY <1>4 DEF Objects, TableInv, TableType
<1>7. \A d \in Objects : fd[d] # h /\ d # c /\ d \in Conn
  BY <1>2, <1>6 DEF TableInv, ObjectsHaveHandles, Objects
<1>8. ObjectsHaveHandles'
  <2> SUFFICES ASSUME NEW d \in Objects'
               PROVE  (/\ fd[d] \in Handle /\ open[fd[d]] = d /\ map[fd[d]] = d
                       /\ fd[d] \in watched \/ fd[d] \in dirty)'
    BY DEF ObjectsHaveHandles
  <2>1. CASE d = c
    BY <1>1, <1>2, <1>3, <2>1 DEF TableInv, TableType
  <2>2. CASE d \in Objects
    <3>1. fd'[d] = fd[d] /\ fd[d] # h /\ fd[d] \in Handle
      BY <1>1, <1>7, <2>2 DEF TableInv, TableType, ObjectsHaveHandles
    <3> QED BY <1>1, <1>3, <3>1, <2>2 DEF TableInv, TableType, ObjectsHaveHandles
  <2> QED BY <1>6, <2>1, <2>2
<1>9. HandlesHaveObjects'
  <2> SUFFICES ASSUME NEW g \in Handle
               PROVE  /\ IF open'[g] = NoConn
                         THEN g \notin watched' /\ map'[g] = IF g \in dirty THEN Garbage ELSE NoConn
                         ELSE open'[g] \in Objects' /\ fd'[open'[g]] = g
                      /\ g \in watched' => g \notin dirty
    BY DEF HandlesHaveObjects
  <2>1. CASE g = h
    <3>1. open'[h] = c /\ c # NoConn /\ fd'[c] = h /\ (h \in watched' => h \notin dirty)
      BY <1>1, <1>2, <1>3 DEF TableInv, TableType
    <3> QED BY <1>6, <2>1, <3>1
  <2>2. CASE g # h
    <3>1. open'[g] = open[g] /\ map'[g] = map[g] /\ (g \in watched' <=> g \in watched)
      BY <1>1, <1>3, <2>2 DEF TableInv, TableType
    <3>2. open[g] \in Objects => fd'[open[g]] = fd[open[g]]
      BY <1>1, <1>7 DEF TableInv, TableType
    <3> QED BY <1>6, <3>1, <3>2 DEF TableInv, HandlesHaveObjects
  <2> QED BY <2>1, <2>2
<1>10. \A g \in Handle : open[g] # NoConn => open'[g] = open[g]
  BY <1>1, <1>2 DEF TableInv, TableType
<1> QED BY <1>4, <1>5, <1>8, <1>9, <1>10 DEF TableInv, TableType

\* The destructor takes one object and its descriptor out of the table.
LEMMA DestroyKeepsTable ==
    ASSUME TableInv, NEW c \in connections, fd[c] \notin dirty, Destroy(c), dirty' = dirty,
           connections' = connections \ {c}
    PROVE  /\ TableInv'
           /\ \A h \in Handle : h # fd[c] => open'[h] = open[h]
<1> USE IpcServerAssumption DEF Conn
<1>1. c \in Client /\ c \in Objects /\ object[c] = "there"
  BY DEF TableInv, TableType, Objects
<1>2. PICK h \in Handle : h = fd[c] /\ open[h] = c /\ map[h] = c
  BY <1>1 DEF TableInv, ObjectsHaveHandles
<1>3. /\ watched' = watched \ {h} /\ map' = [map EXCEPT ![h] = NoConn]
      /\ open' = [open EXCEPT ![h] = NoConn] /\ fd' = [fd EXCEPT ![c] = NoHandle]
      /\ object' = [object EXCEPT ![c] = "deleted"]
  BY <1>2 DEF Destroy
<1>4. TableType'
  BY <1>1, <1>2, <1>3 DEF TableInv, TableType
<1>5. Objects' = Objects \ {c}
  BY <1>1, <1>3 DEF Objects, TableInv, TableType
<1>6. \A d \in Objects : d # c => fd[d] # h /\ fd[d] \in Handle /\ fd'[d] = fd[d]
  BY <1>2, <1>3 DEF TableInv, TableType, ObjectsHaveHandles, Objects
<1>7. ObjectsHaveHandles'
  <2> SUFFICES ASSUME NEW d \in Objects, d # c
               PROVE  (/\ fd[d] \in Handle /\ open[fd[d]] = d /\ map[fd[d]] = d
                       /\ fd[d] \in watched \/ fd[d] \in dirty)'
    BY <1>5 DEF ObjectsHaveHandles
  <2> QED BY <1>3, <1>6 DEF TableInv, TableType, ObjectsHaveHandles
<1>8. HandlesHaveObjects'
  <2> SUFFICES ASSUME NEW g \in Handle
               PROVE  /\ IF open'[g] = NoConn
                         THEN g \notin watched' /\ map'[g] = IF g \in dirty THEN Garbage ELSE NoConn
                         ELSE open'[g] \in Objects' /\ fd'[open'[g]] = g
                      /\ g \in watched' => g \notin dirty
    BY DEF HandlesHaveObjects
  <2>1. CASE g = h
    BY <1>2, <1>3, <2>1 DEF TableInv, TableType
  <2>2. CASE g # h
    <3>1. open'[g] = open[g] /\ map'[g] = map[g] /\ (g \in watched' <=> g \in watched)
      BY <1>3, <2>2 DEF TableInv, TableType
    <3>2. open[g] \in Objects => open[g] # c
      BY <1>2, <2>2 DEF TableInv, HandlesHaveObjects, Objects
    <3> QED BY <1>5, <1>6, <3>1, <3>2 DEF TableInv, HandlesHaveObjects
  <2> QED BY <2>1, <2>2
<1> QED BY <1>2, <1>3, <1>4, <1>7, <1>8 DEF TableInv, TableType

-----------------------------------------------------------------------------
\* The steps that leave the table and the backlog alone and take at most
\* events out of the batch.
Quiet ==
    /\ UNCHANGED <<dirty, table, backlog>>
    /\ batch' \subseteq batch
    /\ pc' \notin {"loop", "dead"} => cur' \in connections
    /\ \A c \in Client : state'[c] = "new" => state[c] = "new"
    /\ state' \in [Client -> {"new", "refused", "connected", "gone"}]

\* Such a step cannot disturb the table.
LEMMA QuietKeeps == ServiceInv /\ Quiet => ServiceInv'
<1> SUFFICES ASSUME ServiceInv, Quiet PROVE ServiceInv'
  OBVIOUS
<1>1. TableInv'
  BY DEF ServiceInv, Quiet, table, TableInv, TableType, ObjectsHaveHandles,
         HandlesHaveObjects, Objects
<1>2. BatchInv'
  BY DEF ServiceInv, Quiet, table, BatchInv
<1>3. BacklogInv'
  BY DEF ServiceInv, Quiet, table, BacklogInv
<1> QED BY <1>1, <1>2, <1>3 DEF ServiceInv

\* What the clients, main() and the callbacks do is quiet, but for a new
\* connection.
LEMMA QuietSteps ==
    ASSUME ServiceInv,
           \/ Listen \/ MarkListening \/ Callback \/ UNCHANGED vars
           \/ \E c \in Client : ConnectRefused(c) \/ Send(c) \/ ReadAnswer(c) \/ Exit(c)
           \/ \E e \in batch : Ignore(e) \/ OnRead(e)
    PROVE  Quiet
<1> USE IpcServerAssumption DEF ServiceInv
<1>1. CASE Listen \/ MarkListening \/ UNCHANGED vars
  BY <1>1 DEF Listen, MarkListening, vars, service, clients, BatchInv, BacklogInv, Quiet
<1>2. CASE \E c \in Client : ConnectRefused(c) \/ Send(c) \/ ReadAnswer(c) \/ Exit(c)
  BY <1>2 DEF ConnectRefused, Send, ReadAnswer, Exit, service, clients, BatchInv, BacklogInv,
              Quiet
<1>3. CASE Callback
  <2>1. UNCHANGED <<dirty, table, backlog, batch, state>>
    BY <1>3 DEF Callback, ReadFails, ReadHeader, ReadRest, ReadOne, WriteAnswer, ReadTotal,
                ReadChunk, ReadMixed, Reading, clients
  <2>2. pc' = "loop" \/ cur' = cur
    BY <1>3 DEF Callback, ReadFails, ReadHeader, ReadRest, ReadOne, WriteAnswer, ReadTotal,
                ReadChunk, ReadMixed, Reading, Go, Compared, Dies
  <2>3. cur \in connections
    BY <1>3 DEF Callback, BatchInv
  <2> QED BY <2>1, <2>2, <2>3 DEF Quiet, BacklogInv
<1>4. ASSUME NEW e \in batch, Ignore(e) PROVE Quiet
  BY <1>4 DEF Ignore, Take, clients, BatchInv, BacklogInv, Quiet
<1>5. ASSUME NEW e \in batch, OnRead(e) PROVE Quiet
  <2>1. PICK c \in Client : Take(e, c) /\ cur' = c
    BY <1>5 DEF OnRead
  <2>2. c \in connections
    BY <2>1, EventLeadsBack DEF Take, TableInv, TableType, Objects
  <2> QED BY <1>5, <2>1, <2>2 DEF OnRead, Take, clients, BacklogInv, Quiet
<1> QED BY <1>1, <1>2, <1>3, <1>4, <1>5

\* A new connection is entered at the end of the backlog.
LEMMA ConnectKeeps == ServiceInv /\ (\E c \in Client : Connect(c)) => ServiceInv'
<1> SUFFICES ASSUME ServiceInv, NEW c \in Client, Connect(c) PROVE ServiceInv'
  OBVIOUS
<1>1. TableInv'
  BY DEF Connect, ServiceInv, table, TableInv, TableType, ObjectsHaveHandles,
         HandlesHaveObjects, Objects
<1>2. BatchInv'
  BY DEF Connect, ServiceInv, table, service, BatchInv
<1>3. state' = [state EXCEPT ![c] = "connected"] /\ object' = object /\ state[c] = "new"
  BY DEF Connect, table
<1>4. \A i \in DOMAIN backlog : backlog[i] # c /\ backlog[i] \in Client
  BY <1>3 DEF ServiceInv, BacklogInv
<1>5. backlog' \in Seq(Client) /\ Len(backlog') = Len(backlog) + 1
  BY DEF Connect, ServiceInv, BacklogInv
<1>6. \A i \in DOMAIN backlog' :
        \/ i \in DOMAIN backlog /\ backlog'[i] = backlog[i]
        \/ i = Len(backlog) + 1 /\ backlog'[i] = c
  BY DEF Connect, ServiceInv, BacklogInv
<1>7. \A i, j \in DOMAIN backlog' : backlog'[i] = backlog'[j] => i = j
  BY <1>4, <1>6 DEF ServiceInv, BacklogInv
<1>8. \A i \in DOMAIN backlog' : object'[backlog'[i]] = "none" /\ state'[backlog'[i]] # "new"
  BY <1>3, <1>4, <1>6 DEF ServiceInv, BacklogInv
<1>9. BacklogInv'
  BY <1>3, <1>5, <1>7, <1>8 DEF ServiceInv, BacklogInv
<1> QED BY <1>1, <1>2, <1>9 DEF ServiceInv

\* epoll_wait() reports each watched descriptor at most once.
LEMMA EpollWaitKeeps == ServiceInv /\ EpollWait => ServiceInv'
<1> SUFFICES ASSUME ServiceInv, EpollWait PROVE ServiceInv'
  OBVIOUS
<1>1. UNCHANGED <<dirty, table, backlog, clients, pc, cur>> /\ pc = "loop"
  BY DEF EpollWait
<1>2. TableInv' /\ BacklogInv'
  BY <1>1 DEF ServiceInv, table, clients, TableInv, TableType, ObjectsHaveHandles,
              HandlesHaveObjects, Objects, BacklogInv
<1>3. ASSUME NEW e \in batch'
      PROVE  \E h \in watched :
                e = [fd |-> h, of |-> open[h], in |-> HasInput(h), rdhup |-> HasHangUp(h)]
  BY <1>3 DEF EpollWait
<1>4. ASSUME NEW e \in batch' PROVE e \in Event /\ open[e.fd] = e.of /\ e.fd \notin dirty
  <2>1. PICK h \in watched :
          e = [fd |-> h, of |-> open[h], in |-> HasInput(h), rdhup |-> HasHangUp(h)]
    BY <1>3
  <2>2. h \in Handle /\ open[h] \in Conn /\ h \notin dirty
    BY DEF ServiceInv, TableInv, TableType, HandlesHaveObjects, Objects, Conn
  <2>3. HasInput(h) \in BOOLEAN /\ HasHangUp(h) \in BOOLEAN
    BY DEF HasInput, HasHangUp
  <2> QED BY <2>1, <2>2, <2>3 DEF Event
<1>5. \A e, f \in batch' : e.fd = f.fd => e = f
  BY <1>3
<1> QED BY <1>1, <1>2, <1>4, <1>5 DEF ServiceInv, BatchInv, table

\* Every element of the tail of a sequence is the element after it in the whole.
LEMMA TailShifts ==
  ASSUME NEW S, NEW s \in Seq(S), s # <<>>
  PROVE  \A i \in DOMAIN Tail(s) :
           i \in Nat /\ i + 1 \in DOMAIN s /\ Tail(s)[i] = s[i + 1]
<1>1. /\ Tail(s) \in Seq(S) /\ Len(Tail(s)) = Len(s) - 1
      /\ \A j \in 1 .. Len(Tail(s)) : Tail(s)[j] = s[j + 1]
  BY HeadTailProperties
<1>2. DOMAIN Tail(s) = 1 .. Len(Tail(s)) /\ DOMAIN s = 1 .. Len(s) /\ Len(s) \in Nat
  BY <1>1
<1> QED BY <1>1, <1>2

\* A client that is accepted leaves the backlog; events keep their meaning
\* because the descriptor of none of them is free.
LEMMA OnAcceptKeeps == ServiceInv /\ (\E e \in batch : OnAccept(e)) => ServiceInv'
<1> USE IpcServerAssumption
<1> SUFFICES ASSUME ServiceInv, NEW e \in batch, OnAccept(e) PROVE ServiceInv'
  OBVIOUS
<1>1. PICK c \in Client :
        /\ c = Head(backlog)
        /\ \/ Accept(c) /\ UNCHANGED state
           \/ UNCHANGED table /\ state' = [state EXCEPT ![c] = "gone"]
  BY DEF OnAccept, ServiceInv, BacklogInv, Turned
<1>2. /\ backlog \in Seq(Client) /\ backlog # <<>> /\ backlog' = Tail(backlog)
      /\ pc = "loop" /\ pc' = pc /\ batch' = batch \ {e} /\ dirty' = dirty
  BY DEF OnAccept, Take, ServiceInv, BacklogInv
<1>3. object[c] = "none" /\ state[c] # "new"
  BY <1>1, <1>2 DEF ServiceInv, BacklogInv
<1>4. /\ TableInv'
      /\ \A h \in Handle : open[h] # NoConn => open'[h] = open[h]
      /\ \A d \in Client : d # c => object'[d] = object[d]
  <2>1. CASE Accept(c)
    BY <1>2, <1>3, <2>1, AcceptKeepsTable DEF ServiceInv
  <2>2. CASE UNCHANGED table
    BY <1>2, <2>2 DEF ServiceInv, table, TableInv, TableType, ObjectsHaveHandles,
                HandlesHaveObjects, Objects
  <2> QED BY <1>1, <2>1, <2>2
<1>5. BatchInv'
  <2>1. \A f \in batch : f.fd \in Handle /\ open[f.fd] = f.of /\ open[f.fd] # NoConn
    BY DEF ServiceInv, BatchInv, Event, Conn
  <2> QED BY <1>2, <1>4, <2>1 DEF ServiceInv, BatchInv
<1>6. \A i \in DOMAIN backlog' :
        i \in Nat /\ i + 1 \in DOMAIN backlog /\ backlog'[i] = backlog[i + 1]
  BY <1>2, TailShifts, Zenon
<1>7. \A i \in DOMAIN backlog' : backlog'[i] \in Client /\ backlog'[i] # c
  BY <1>1, <1>2, <1>6 DEF ServiceInv, BacklogInv
<1>8. /\ \A d \in Client : d # c => state'[d] = state[d]
      /\ \A d \in Client : state'[d] = "new" => state[d] = "new" /\ d # c
      /\ state' \in [Client -> {"new", "refused", "connected", "gone"}]
  BY <1>1, <1>3 DEF ServiceInv, BacklogInv
<1>9. \A i, j \in DOMAIN backlog' : backlog'[i] = backlog'[j] => i = j
  BY <1>6 DEF ServiceInv, BacklogInv
<1>10. BacklogInv'
  <2>1. \A i \in DOMAIN backlog' : object'[backlog'[i]] = "none" /\ state'[backlog'[i]] # "new"
    <3> SUFFICES ASSUME NEW i \in DOMAIN backlog'
                 PROVE  object'[backlog'[i]] = "none" /\ state'[backlog'[i]] # "new"
      OBVIOUS
    <3>1. PICK d \in Client : d = backlog'[i] /\ d # c
      BY <1>7
    <3>2. object[d] = "none" /\ state[d] # "new"
      BY <1>6, <3>1 DEF ServiceInv, BacklogInv
    <3> QED BY <1>4, <1>8, <3>1, <3>2
  <2>2. backlog' \in Seq(Client)
    BY <1>2
  <2>3. \A d \in Client : state'[d] = "new" => object'[d] = "none"
    BY <1>4, <1>8 DEF ServiceInv, BacklogInv
  <2> QED BY <1>8, <1>9, <2>1, <2>2, <2>3 DEF BacklogInv
<1> QED BY <1>4, <1>5, <1>10 DEF ServiceInv

\* Deleting the object of one event leaves the other events theirs.
LEMMA OnCloseKeeps == ServiceInv /\ (\E e \in batch : OnClose(e)) => ServiceInv'
<1> USE IpcServerAssumption
<1> SUFFICES ASSUME ServiceInv, NEW e \in batch, OnClose(e) PROVE ServiceInv'
  OBVIOUS
<1>1. PICK c \in connections : Take(e, c) /\ connections' = connections \ {c} /\ Destroy(c)
                               /\ dirty' = dirty
  BY DEF OnClose
<1>2. e.of = c /\ fd[c] = e.fd /\ fd[c] \notin dirty
  BY <1>1, EventLeadsBack DEF ServiceInv, Take
<1>3. TableInv' /\ \A h \in Handle : h # fd[c] => open'[h] = open[h]
  BY <1>1, <1>2, DestroyKeepsTable DEF ServiceInv
<1>4. batch' = batch \ {e} /\ pc' = "loop" /\ UNCHANGED <<backlog, state>>
  BY <1>1 DEF OnClose, Take, clients
<1>5. BatchInv'
  <2>1. \A f \in batch' : f \in Event /\ f \in batch /\ f.fd \in Handle /\ f.fd # fd[c]
    BY <1>2, <1>4 DEF ServiceInv, BatchInv, Event
  <2> QED BY <1>1, <1>3, <1>4, <2>1 DEF ServiceInv, BatchInv
<1>6. \A d \in Client : object[d] = "none" => object'[d] = "none"
  BY <1>1 DEF Destroy, ServiceInv, TableInv, TableType
<1>7. BacklogInv'
  BY <1>4, <1>6 DEF ServiceInv, BacklogInv
<1> QED BY <1>3, <1>5, <1>7 DEF ServiceInv

-----------------------------------------------------------------------------
\* The invariant holds in every reachable state, whatever the slots of the
\* handle table hold at first.
LEMMA ServiceHolds == SafeSpec => []ServiceInv
<1> USE IpcServerAssumption
<1>1. Init => ServiceInv
  <2> SUFFICES ASSUME Init PROVE ServiceInv
    OBVIOUS
  <2>1. First \in Handle
    BY DEF First, Handle
  <2>2. Objects = {Acceptor} /\ Acceptor # NoConn
    BY DEF Init, Objects, Conn
  <2>3. TableType
    BY <2>1 DEF Init, TableType, Conn
  <2>4. ObjectsHaveHandles
    BY <2>1, <2>2 DEF Init, ObjectsHaveHandles, Conn
  <2>5. HandlesHaveObjects
    BY <2>1, <2>2 DEF Init, HandlesHaveObjects, Conn
  <2>6. BatchInv /\ BacklogInv
    BY DEF Init, BatchInv, BacklogInv
  <2> QED BY <2>3, <2>4, <2>5, <2>6 DEF ServiceInv, TableInv
<1>2. ServiceInv /\ [Next]_vars => ServiceInv'
  BY QuietKeeps, QuietSteps, ConnectKeeps, EpollWaitKeeps, OnAcceptKeeps, OnCloseKeeps
  DEF Next, Service, Notify
<1> QED BY <1>1, <1>2, PTL DEF SafeSpec

\* Through every order of accept() and close(), the vector, the table, the
\* interest list and the kernel's descriptors say the same.
THEOREM TablesAgree == SafeSpec => []HandlesAgree
<1>1. ServiceInv => HandlesAgree
  BY IpcServerAssumption
  DEF ServiceInv, TableInv, TableType, ObjectsHaveHandles, HandlesHaveObjects, Objects, HandlesAgree
<1> QED BY <1>1, ServiceHolds, PTL

\* Every open descriptor of the server belongs to an object, and no other is
\* watched.
THEOREM NoHandleLeaks == SafeSpec => []NothingLeaks
<1>1. ServiceInv => NothingLeaks
  BY DEF ServiceInv, TableInv, TableType, HandlesHaveObjects, NothingLeaks
<1> QED BY <1>1, ServiceHolds, PTL

\* Both at once.
THEOREM DescriptorsAlwaysAgree == SafeSpec => []DescriptorsAgree
<1>1. HandlesAgree /\ NothingLeaks => DescriptorsAgree
  BY DEF DescriptorsAgree
<1> QED BY <1>1, TablesAgree, NoHandleLeaks, PTL

\* The assertion of run() holds, and get(fd) leads to the connection the event
\* was reported for, whatever the callbacks before it have deleted.
THEOREM NoStaleEvent == SafeSpec => []EventsAreFresh
<1>1. ServiceInv => EventsAreFresh
  BY EventLeadsBack DEF ServiceInv, EventsAreFresh
<1> QED BY <1>1, ServiceHolds, PTL

-----------------------------------------------------------------------------
(***************************************************************************)
(* Who ends the service, and the types of the rest                         *)
(***************************************************************************)
\* A connected client can leave, but one that has gone does not come back.
LEMMA GoneStays ==
    ASSUME ServiceInv, [Next]_vars, NEW c \in Client, state[c] = "gone"
    PROVE  state'[c] = "gone"
<1> USE DEF ServiceInv, BacklogInv
<1>1. CASE Listen \/ MarkListening \/ UNCHANGED vars
  BY <1>1 DEF Listen, MarkListening, vars, clients
<1>2. CASE \E d \in Client : Connect(d) \/ ConnectRefused(d) \/ Send(d) \/ ReadAnswer(d) \/ Exit(d)
  BY <1>2 DEF Connect, ConnectRefused, Send, ReadAnswer, Exit, clients
<1>3. CASE EpollWait \/ Callback
  BY <1>3 DEF EpollWait, Callback, ReadFails, ReadHeader, ReadRest, ReadOne, WriteAnswer,
              ReadTotal, ReadChunk, ReadMixed, Reading, clients
<1>4. CASE \E e \in batch : Notify(e)
  BY <1>4 DEF Notify, OnAccept, Ignore, OnClose, OnRead, Turned, clients
<1> QED BY <1>1, <1>2, <1>3, <1>4 DEF Next, Service

\* What TypeOK says of the streams and of the test.
StreamType ==
    /\ mainPc \in {"created", "listening", "join"}
    /\ pc \in {"loop", "header", "rest", "one", "write", "total", "chunk", "mixed", "dead"}
    /\ cur \in Client \cup {NoConn}
    /\ left \in 0..Chunks /\ (pc = "chunk" => left > 0)
    /\ sent \in [Client -> Nat] /\ rcvd \in [Client -> Nat]
    /\ \A c \in Client : rcvd[c] <= sent[c] /\ sent[c] <= Len(Script[c])
    /\ torn \subseteq {c \in Client : rcvd[c] < sent[c]}
    /\ unread \subseteq Client /\ reset \subseteq Client /\ passed \subseteq Client

\* What a callback does to the streams: nothing, or it takes up to a unit that
\* has been sent, and tears only such a unit.
Reads ==
    \/ TakesNothing
    \/ \E n \in Nat :
        /\ rcvd[cur] <= n /\ n <= sent[cur]
        /\ rcvd' = [rcvd EXCEPT ![cur] = n]
        /\ \/ torn' = torn \ {cur}
           \/ n < sent[cur] /\ torn' = torn \cup {cur}

\* One way to take what precedes unit n + 1.
LEMMA ReadsUpTo ==
    ASSUME NEW n \in Nat, rcvd[cur] <= n, n <= sent[cur],
           rcvd' = [rcvd EXCEPT ![cur] = n],
           torn' = torn \ {cur} \/ (n < sent[cur] /\ torn' = torn \cup {cur})
    PROVE  Reads
BY DEF Reads

\* A read() that tears only what was sent is such a step.
LEMMA TakesReads ==
    ASSUME NEW n \in Nat, NEW tears \in BOOLEAN, Takes(n, tears),
           rcvd[cur] <= n, n <= sent[cur], tears => n < sent[cur]
    PROVE  Reads
<1>1. CASE tears
  <2>1. rcvd' = [rcvd EXCEPT ![cur] = n] /\ torn' = torn \cup {cur} /\ n < sent[cur]
    BY <1>1, Zenon DEF Takes
  <2> QED BY <2>1 DEF Reads
<1>2. CASE ~tears
  <2>1. rcvd' = [rcvd EXCEPT ![cur] = n] /\ torn' = torn \ {cur}
    BY <1>2, Zenon DEF Takes
  <2> QED BY <2>1 DEF Reads
<1> QED BY <1>1, <1>2

\* Every callback reads so.
LEMMA CallbackReads ==
    ASSUME StreamType, cur \in Client, Callback
    PROVE  Reads
<1>1. /\ sent[cur] \in Nat /\ rcvd[cur] \in Nat /\ rcvd[cur] <= sent[cur]
      /\ Pending(cur) => /\ rcvd[cur] < sent[cur]
                         /\ rcvd[cur] + 1 \in Nat /\ rcvd[cur] + 1 <= sent[cur]
                         /\ rcvd[cur] <= rcvd[cur] + 1
  BY DEF StreamType, Pending
<1>2. ASSUME Pending(cur), Takes(rcvd[cur] + 1, FALSE) PROVE Reads
  BY <1>1, <1>2, TakesReads
<1>3. ASSUME Pending(cur), Takes(rcvd[cur], TRUE) PROVE Reads
  <2>1. rcvd' = [rcvd EXCEPT ![cur] = rcvd[cur]] /\ torn' = torn \cup {cur} /\ Pending(cur)
    BY <1>3, Zenon DEF Takes
  <2>2. rcvd[cur] <= rcvd[cur] /\ rcvd[cur] < sent[cur]
    BY <1>1, <2>1
  <2> QED BY <1>1, <2>1, <2>2, ReadsUpTo
<1>4. ASSUME Pending(cur), TakesFour PROVE Reads
  <2>1. CASE Takes((rcvd[cur] + 1) - 1, TRUE)
    <3>1. (rcvd[cur] + 1) - 1 = rcvd[cur]
      BY <1>1
    <3> QED BY <1>3, <1>4, <2>1, <3>1
  <2>2. CASE Takes(rcvd[cur] + 1, rcvd[cur] + 1 < sent[cur])
    <3>1. Pending(cur)
      BY <1>4, Zenon
    <3>2. PICK n \in Nat : n = rcvd[cur] + 1 /\ rcvd[cur] <= n /\ n <= sent[cur]
      BY <1>1, <3>1
    <3>3. /\ rcvd' = [rcvd EXCEPT ![cur] = n]
          /\ torn' = torn \ {cur} \/ (n < sent[cur] /\ torn' = torn \cup {cur})
      BY <2>2, <3>2 DEF Takes
    <3> QED BY <3>2, <3>3, ReadsUpTo
  <2> QED BY <1>2, <1>4, <2>1, <2>2, Zenon DEF TakesFour
<1>5. ASSUME TakesTheRest PROVE Reads
  <2>1. PICK n \in rcvd[cur]..sent[cur], tears \in BOOLEAN :
          Takes(n, tears) /\ (tears => n < sent[cur])
    BY <1>5, Zenon DEF TakesTheRest
  <2>2. n \in Nat /\ rcvd[cur] <= n /\ n <= sent[cur]
    BY <1>1
  <2> QED BY <2>1, <2>2, TakesReads
<1>6. CASE ReadFails \/ WriteAnswer
  BY <1>6 DEF ReadFails, WriteAnswer, TakesNothing, Reads
<1>7. CASE ReadHeader \/ ReadTotal
  BY <1>4, <1>7 DEF ReadHeader, ReadTotal, Reads
<1>8. CASE ReadRest
  BY <1>5, <1>8 DEF ReadRest
<1>9. CASE ReadOne \/ ReadChunk \/ ReadMixed
  BY <1>2, <1>3, <1>9, Zenon DEF ReadOne, ReadChunk, ReadMixed, Reads
<1> QED BY <1>6, <1>7, <1>8, <1>9 DEF Callback

\* Such a step keeps the positions in the streams within what was sent.
LEMMA ReadsKeepPositions ==
    ASSUME StreamType, cur \in Client, UNCHANGED sent, Reads
    PROVE  /\ rcvd' \in [Client -> Nat]
           /\ \A c \in Client : rcvd[c] <= rcvd'[c] /\ rcvd'[c] <= sent'[c]
           /\ torn' \subseteq {c \in Client : rcvd'[c] < sent'[c]}
<1> USE DEF StreamType
<1>1. CASE TakesNothing
  BY <1>1 DEF TakesNothing
<1>2. ASSUME NEW n \in Nat, rcvd[cur] <= n, n <= sent[cur],
             rcvd' = [rcvd EXCEPT ![cur] = n],
             torn' = torn \ {cur} \/ (n < sent[cur] /\ torn' = torn \cup {cur})
      PROVE  /\ rcvd' \in [Client -> Nat]
             /\ \A c \in Client : rcvd[c] <= rcvd'[c] /\ rcvd'[c] <= sent'[c]
             /\ torn' \subseteq {c \in Client : rcvd'[c] < sent'[c]}
  BY <1>2
<1> QED BY <1>1, <1>2 DEF Reads

\* The callbacks count what they read and how many chunks are left.
LEMMA CallbackKeepsTypes == ServiceInv /\ StreamType /\ Callback => StreamType'
<1> USE IpcServerAssumption
<1> SUFFICES ASSUME ServiceInv, StreamType, Callback PROVE StreamType'
  OBVIOUS
<1>1. cur \in Client
  BY DEF Callback, ServiceInv, BatchInv, TableInv, TableType
<1>2. UNCHANGED <<mainPc, sent>>
  BY DEF Callback, ReadFails, ReadHeader, ReadRest, ReadOne, WriteAnswer, ReadTotal, ReadChunk,
         ReadMixed, Reading, clients
<1>3. /\ rcvd' \in [Client -> Nat]
      /\ \A c \in Client : rcvd'[c] <= sent'[c]
      /\ torn' \subseteq {c \in Client : rcvd'[c] < sent'[c]}
  BY <1>1, <1>2, CallbackReads, ReadsKeepPositions
<1>4. /\ pc' \in {"loop", "header", "rest", "one", "write", "total", "chunk", "mixed", "dead"}
      /\ cur' \in Client \cup {NoConn}
  BY <1>1 DEF Callback, ReadFails, ReadHeader, ReadRest, ReadOne, WriteAnswer, ReadTotal,
              ReadChunk, ReadMixed, Reading, Go, Compared, Dies
<1>5. left' \in 0..Chunks /\ (pc' = "chunk" => left' > 0)
  <2>1. CASE ReadFails \/ ReadHeader \/ ReadRest \/ ReadOne \/ WriteAnswer
    <3>1. left' = left \/ left' = 0
      BY <2>1 DEF ReadFails, ReadHeader, ReadRest, ReadOne, WriteAnswer
    <3>2. pc' # "chunk"
      BY <2>1 DEF ReadFails, ReadHeader, ReadRest, ReadOne, WriteAnswer, Reading, Go
    <3> QED BY <3>1, <3>2 DEF StreamType
  <2>2. CASE ReadTotal
    <3>1. left' \in {0, Chunks} /\ (left' = 0 => pc' = "loop")
      BY <2>2 DEF ReadTotal, Reading, Go
    <3> QED BY <3>1
  <2>3. CASE ReadChunk \/ ReadMixed
    <3>1. \/ pc = "chunk" /\ left' = left - 1 /\ (left = 1 => pc' = "loop")
          \/ left' = left /\ pc' \in {"mixed", "dead"}
      BY <2>3 DEF ReadChunk, ReadMixed, Go, Compared, Dies
    <3> QED BY <3>1 DEF StreamType
  <2> QED BY <2>1, <2>2, <2>3 DEF Callback
<1>6. unread' \subseteq Client /\ reset' \subseteq Client /\ passed' \subseteq Client
  BY <1>1 DEF Callback, ReadFails, ReadHeader, ReadRest, ReadOne, WriteAnswer, ReadTotal,
              ReadChunk, ReadMixed, Reading, Compared, Dies, StreamType
<1> QED BY <1>2, <1>3, <1>4, <1>5, <1>6 DEF StreamType

\* The streams and the test are typed in every reachable state.
LEMMA StreamHolds == SafeSpec => []StreamType
<1> USE IpcServerAssumption
<1>1. Init => StreamType
  BY DEF Init, StreamType
<1>2. ServiceInv /\ StreamType /\ [Next]_vars => StreamType'
  <2> SUFFICES ASSUME ServiceInv, StreamType, [Next]_vars PROVE StreamType'
    OBVIOUS
  <2>1. CASE Listen \/ MarkListening \/ EpollWait \/ UNCHANGED vars
    BY <2>1 DEF Listen, MarkListening, EpollWait, vars, service, clients, stream, StreamType
  <2>2. ASSUME NEW c \in Client,
               Connect(c) \/ ConnectRefused(c) \/ Send(c) \/ ReadAnswer(c) \/ Exit(c)
        PROVE  StreamType'
    <3>1. CASE Connect(c) \/ ConnectRefused(c) \/ ReadAnswer(c) \/ Exit(c)
      <4>1. /\ UNCHANGED <<mainPc, service, sent, rcvd>>
            /\ UNCHANGED torn
            /\ unread' \subseteq unread /\ reset' \subseteq reset \cup {c}
        <5>1. CASE Connect(c)
          BY <5>1 DEF Connect, stream
        <5>2. CASE ConnectRefused(c)
          BY <5>2 DEF ConnectRefused, stream
        <5>3. CASE ReadAnswer(c)
          BY <5>3 DEF ReadAnswer, clients
        <5>4. CASE Exit(c)
          BY <5>4 DEF Exit
        <5> QED BY <3>1, <5>1, <5>2, <5>3, <5>4
      <4> QED BY <4>1 DEF service, StreamType
    <3>2. CASE Send(c)
      <4>1. /\ UNCHANGED <<mainPc, service, stream>>
            /\ sent[c] < Len(Script[c]) /\ sent' = [sent EXCEPT ![c] = sent[c] + 1]
        BY <3>2 DEF Send
      <4>2. sent[c] \in Nat /\ rcvd[c] \in Nat /\ Len(Script[c]) \in Nat
        BY DEF StreamType
      <4>3. sent' \in [Client -> Nat]
        BY <4>1, <4>2 DEF StreamType
      <4>4. rcvd'[c] <= sent'[c] /\ sent'[c] <= Len(Script[c])
        BY <4>1, <4>2 DEF StreamType, stream
      <4>5. \A d \in Client : rcvd'[d] <= sent'[d] /\ sent'[d] <= Len(Script[d])
        BY <4>1, <4>4 DEF StreamType, stream
      <4> QED BY <4>1, <4>3, <4>5 DEF service, stream, StreamType
    <3> QED BY <2>2, <3>1, <3>2
  <2>3. ASSUME NEW e \in batch, Notify(e) PROVE StreamType'
    BY <2>3 DEF Notify, OnAccept, Ignore, OnClose, OnRead, Take, clients, stream, StreamType
  <2> QED BY <2>1, <2>2, <2>3, CallbackKeepsTypes DEF Next, Service
<1> QED BY <1>1, <1>2, ServiceHolds, PTL DEF SafeSpec

\* The types of all variables.
THEOREM TypeCorrect == SafeSpec => []TypeOK
<1>1. ServiceInv /\ StreamType => TypeOK
  BY DEF ServiceInv, TableInv, TableType, BatchInv, BacklogInv, StreamType, TypeOK, Pending
<1> QED BY <1>1, ServiceHolds, StreamHolds, PTL

-----------------------------------------------------------------------------
\* Four bytes "tst1" were read of client c.
Tested(c) == \E i \in 1..rcvd[c] : Script[c][i] = "tst1"

\* server_tst1() runs for a client of whom "tst1" was read, and nothing else
\* ends the service but the answer to a client that has gone.
TestInv ==
    /\ pc \in {"total", "chunk", "mixed"} => Tested(cur)
    /\ pc = "dead" => cur \in Client /\ (state[cur] = "gone" \/ Tested(cur))

\* What was read stays read.
LEMMA TestedStays ==
    ASSUME StreamType, NEW c \in Client, Tested(c),
           rcvd'[c] \in Nat, rcvd[c] <= rcvd'[c]
    PROVE  Tested(c)'
<1>1. PICK i \in 1..rcvd[c] : Script[c][i] = "tst1"
  BY DEF Tested
<1>2. i \in 1..rcvd'[c]
  BY <1>1 DEF StreamType
<1> QED BY <1>1, <1>2 DEF Tested

\* The test begins when an untorn "tst1" is taken.
LEMMA HeaderBegins ==
    ASSUME StreamType, cur \in Client, ReadHeader, pc' = "total"
    PROVE  Tested(cur)'
<1>1. Pending(cur) /\ TakesFour /\ Ahead = "tst1" /\ cur \notin torn
  BY DEF ReadHeader, Reading, Go
<1>2. rcvd' = [rcvd EXCEPT ![cur] = rcvd[cur] + 1]
  BY <1>1 DEF TakesFour, Takes
<1>3. rcvd'[cur] = rcvd[cur] + 1 /\ rcvd[cur] \in Nat
  BY <1>2 DEF StreamType
<1>4. rcvd[cur] + 1 \in 1..rcvd'[cur]
  BY <1>3
<1>5. Script[cur][rcvd[cur] + 1] = "tst1"
  BY <1>1 DEF Ahead
<1>6. cur' = cur
  BY DEF ReadHeader, Reading, Go
<1> QED BY <1>4, <1>5, <1>6 DEF Tested

\* Every callback keeps that.
LEMMA CallbackKeepsTest ==
    ASSUME ServiceInv, StreamType, TestInv, Callback
    PROVE  TestInv'
<1> USE IpcServerAssumption
<1>1. cur \in Client
  BY DEF Callback, ServiceInv, BatchInv, TableInv, TableType
<1>2. UNCHANGED <<state, sent>>
  BY DEF Callback, ReadFails, ReadHeader, ReadRest, ReadOne, WriteAnswer, ReadTotal, ReadChunk,
         ReadMixed, Reading, clients
<1>3. Tested(cur) /\ cur' = cur => Tested(cur)'
  <2>1. rcvd' \in [Client -> Nat] /\ rcvd[cur] <= rcvd'[cur]
    BY <1>1, <1>2, CallbackReads, ReadsKeepPositions
  <2>2. Tested(cur) => \E i \in 1..rcvd'[cur] : Script[cur][i] = "tst1"
    BY <1>1, <2>1 DEF Tested, StreamType
  <2> QED BY <2>2 DEF Tested
<1>4. CASE ReadHeader
  <2>1. pc' = "total" => Tested(cur)'
    BY <1>1, <1>4, HeaderBegins
  <2>2. pc' \in {"total", "rest"} /\ cur' = cur
    BY <1>4 DEF ReadHeader, Reading, Go
  <2> QED BY <2>1, <2>2 DEF TestInv, Tested
<1>5. CASE ReadFails \/ ReadRest \/ ReadOne
  <2>1. pc' \in {"loop", "one", "write"}
    BY <1>5 DEF ReadFails, ReadRest, ReadOne, Reading, Go
  <2> QED BY <2>1 DEF TestInv
<1>6. CASE WriteAnswer
  <2>1. pc' = "loop" \/ (pc' = "dead" /\ cur' = cur /\ state'[cur] = "gone")
    BY <1>2, <1>6 DEF WriteAnswer, Go
  <2> QED BY <1>1, <2>1 DEF TestInv
<1>7. CASE ReadTotal \/ ReadChunk \/ ReadMixed
  <2>1. pc \in {"total", "chunk", "mixed"}
    BY <1>7 DEF ReadTotal, ReadChunk, ReadMixed, Reading
  <2>2. pc' = "loop" \/ cur' = cur
    BY <1>7 DEF ReadTotal, ReadChunk, ReadMixed, Reading, Go, Compared, Dies
  <2>3. pc' = "loop" \/ (cur' = cur /\ Tested(cur)')
    BY <1>3, <2>1, <2>2 DEF TestInv
  <2> QED BY <1>1, <2>3 DEF TestInv, Tested
<1> QED BY <1>4, <1>5, <1>6, <1>7 DEF Callback

\* Only the answer to a client that has gone, and a test, end the service.
THEOREM OnlyTestsEndService == SafeSpec => []OnlyTestsAndHangUpsKill
<1> USE IpcServerAssumption
<1>1. Init => TestInv
  BY DEF Init, TestInv
<1>2. ServiceInv /\ StreamType /\ TestInv /\ [Next]_vars => TestInv'
  <2> SUFFICES ASSUME ServiceInv, StreamType, TestInv, [Next]_vars PROVE TestInv'
    OBVIOUS
  <2>1. CASE Callback
    BY <2>1, CallbackKeepsTest
  <2>2. CASE EpollWait \/ \E e \in batch : Notify(e)
    <3>1. pc' \in {"loop", "header"}
      BY <2>2 DEF EpollWait, Notify, OnAccept, Ignore, OnClose, OnRead, Take
    <3> QED BY <3>1 DEF TestInv
  <2>3. CASE \/ Listen \/ MarkListening \/ UNCHANGED vars
             \/ \E c \in Client :
                  Connect(c) \/ ConnectRefused(c) \/ Send(c) \/ ReadAnswer(c) \/ Exit(c)
    <3>1. UNCHANGED <<pc, cur, rcvd>>
      BY <2>3 DEF Listen, MarkListening, vars, service, stream, Connect, ConnectRefused, Send,
                  ReadAnswer, Exit
    <3>2. cur \in Client /\ state[cur] = "gone" => state'[cur] = "gone"
      BY GoneStays
    <3> QED BY <3>1, <3>2 DEF TestInv, Tested
  <2> QED BY <2>1, <2>2, <2>3 DEF Next, Service
<1>3. TestInv => OnlyTestsAndHangUpsKill
  BY DEF TestInv, Tested, OnlyTestsAndHangUpsKill
<1> QED BY <1>1, <1>2, <1>3, ServiceHolds, StreamHolds, PTL DEF SafeSpec
=============================================================================
