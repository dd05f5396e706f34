-------------------------- MODULE NamedPipeProofs --------------------------
(***************************************************************************)
(* The bytes that reach the callbacks of ipc_connection on Windows, and    *)
(* the packets that are in the completion port, for any number of clients  *)
(* and handles, proved with TLAPS.                                         *)
(***************************************************************************)
EXTENDS NamedPipe, FiniteSetTheorems, SequenceTheorems, TLAPS

-----------------------------------------------------------------------------
(***************************************************************************)
(* The invariant                                                           *)
(***************************************************************************)
ReadOps == {"cache", "error"}
PacketType == [key : Handles, of : Clients \cup {Acceptor}, op : {"wait", "sync"} \cup ReadOps, n : {0, 1}]

\* What is in the port: a packet of c's read, one that brings a byte, and one
\* of a connect on h.
HasRead(c) == \E i \in 1 .. Len(queue) : queue[i].of = c /\ queue[i].op \in ReadOps
HasByte(c) == \E i \in 1 .. Len(queue) : queue[i].of = c /\ queue[i].op = "cache" /\ queue[i].n = 1
HasWait(h) == \E i \in 1 .. Len(queue) : queue[i].key = h /\ queue[i].op = "wait"

\* The types of the variables.
PipeTypeOK ==
    /\ inst \in [Handles -> {"closed", "listening", "connected", "closing"}]
    /\ peer \in [Handles -> Clients \cup {None}] /\ waits \in [Handles -> Nat]
    /\ pipe \in [Clients -> Seq(Nat)] /\ sent \in [Clients -> Nat] /\ hung \in SUBSET Clients
    /\ queue \in Seq(PacketType)
    /\ assoc \in [Handles -> Clients \cup {None, Acceptor}] /\ listener \in Handles
    /\ handle \in [Clients -> Handles \cup {NULL}]
    /\ empty \in [Clients -> BOOLEAN] /\ byte0 \in [Clients -> Nat] /\ pending \in SUBSET Clients
    /\ got \in [Clients -> Seq(Nat)]
    /\ at \in {"arm", "announce", "trigger", "idle", "callback", "peeked", "block", "write"}
    /\ cur \in Clients \cup {None} /\ want \in Nat /\ stray \in BOOLEAN

\* An instance, its client and the connection its handle is associated with.
InstanceOK(h) ==
    /\ inst[h] = "closed" <=> assoc[h] = None
    /\ inst[h] \in {"closed", "listening"} <=> peer[h] = None
    /\ assoc[h] = Acceptor <=> h = listener
    /\ inst[h] = "listening" => h = listener
    /\ assoc[h] \in Clients => peer[h] = assoc[h]
    /\ inst[h] # "listening" => waits[h] = 0
    /\ peer[h] # None => (inst[h] = "closing" <=> peer[h] \in hung)

\* No client has two instances, and handles and connections know each other.
HandlesOK ==
    /\ \A h \in Handles : InstanceOK(h)
    /\ \A h, k \in Handles : peer[h] = peer[k] /\ peer[h] # None => h = k
    /\ \A c \in Clients : \A h \in Handles : handle[c] = h <=> assoc[h] = c

\* Who a packet is for, and what it says.
PacketOK(p) ==
    /\ p.op = "wait" <=> p.of = Acceptor
    /\ p.of = Acceptor => assoc[p.key] # None /\ peer[p.key] # None
    /\ p.of # Acceptor => handle[p.of] = p.key
    /\ p.op = "error" => p.n = 0
    /\ p.op \in ReadOps /\ p.n = 0 => p.of \in hung

\* The packet of a read is the last one that is for its handle.
QueueOK ==
    /\ \A i \in 1 .. Len(queue) : PacketOK(queue[i])
    /\ \A i, j \in 1 .. Len(queue) : i < j /\ queue[i].op \in ReadOps => queue[j].key # queue[i].key

\* A connection waits for a read, has the thread, or its packet is in the port.
WaitOK(c) ==
    /\ c \in pending => pipe[c] = <<>> /\ c # cur /\ c \notin hung /\ ~HasRead(c)
    /\ c = cur => ~HasRead(c)
    /\ handle[c] # NULL <=> c \in pending \/ c = cur \/ HasRead(c)

\* Where the service thread is, and that only a callback finds a cached byte.
ThreadOK ==
    /\ at \in {"announce", "trigger", "callback", "peeked", "block", "write"} => cur \in Clients
    /\ at = "idle" => cur = None
    /\ at \in {"peeked", "block"} => want > 0
    /\ \A c \in Clients : ~empty[c] => at \in {"callback", "write"} /\ cur = c

\* AcceptorIsArmed, and that it is so before the thread is back in the port.
Armed ==
    \A h \in Handles :
        h = listener /\ ~stray /\ at # "arm" =>
            \/ inst[h] = "listening" /\ waits[h] > 0
            \/ HasWait(h)
            \/ inst[h] = "closing"

\* ByteStream by positions: g has been read, a is 1 if x is ahead of q, and n
\* bytes have been sent.
HasAhead(c) == ~empty[c] \/ HasByte(c)
AheadLen(c) == IF HasAhead(c) THEN 1 ELSE 0
StreamIs(g, a, x, q, n) ==
    /\ Len(g) + a + Len(q) = n
    /\ \A i \in 1 .. Len(g) : g[i] = i
    /\ a = 1 => x = Len(g) + 1
    /\ \A i \in 1 .. Len(q) : q[i] = Len(g) + a + i
StreamOK(c) == StreamIs(got[c], AheadLen(c), byte0[c], pipe[c], sent[c])

PipeInv ==
    /\ PipeTypeOK /\ HandlesOK /\ QueueOK /\ ThreadOK /\ Armed
    /\ \A c \in Clients : WaitOK(c) /\ StreamOK(c)

-----------------------------------------------------------------------------
(***************************************************************************)
(* Facts about names, handles and the port                                 *)
(***************************************************************************)
LEMMA Names ==
    /\ None # Acceptor /\ None \notin Clients /\ Acceptor \notin Clients /\ NULL \notin Handles
    /\ \A h \in Handles : h # NULL
    /\ \A c \in Clients : c # None /\ c # Acceptor
<1> QED BY NamesDiffer DEF None, Acceptor

\* The invariant holds when listen() has created the first instance.
LEMMA PipeInitHolds == Init => PipeInv
<1> SUFFICES ASSUME Init PROVE PipeInv
  OBVIOUS
<1>1. listener \in Handles
  BY NamedPipeAssumption DEF Init
<1>2. PipeTypeOK
  BY <1>1 DEF Init, PipeTypeOK, PacketType, pipes
<1>3. HandlesOK
  BY <1>1, Names DEF Init, HandlesOK, InstanceOK
<1>4. queue = <<>> /\ Len(queue) = 0
  BY DEF Init
<1>5. QueueOK /\ \A c \in Clients : ~HasRead(c) /\ ~HasByte(c)
  BY <1>4 DEF QueueOK, HasRead, HasByte
<1>6. ThreadOK /\ Armed
  BY DEF Init, ThreadOK, Armed
<1>7. ASSUME NEW c \in Clients PROVE WaitOK(c) /\ StreamOK(c)
  BY <1>5, Names DEF Init, WaitOK, StreamOK, StreamIs, HasAhead, AheadLen
<1> QED BY <1>2, <1>3, <1>5, <1>6, <1>7 DEF PipeInv

\* No packet of a read is for a handle whose connection has none.
LEMMA NoReadOn ==
    ASSUME PipeTypeOK, QueueOK, NEW h \in Handles, \A d \in Clients : HasRead(d) => handle[d] # h
    PROVE  \A i \in 1 .. Len(queue) : queue[i].op \in ReadOps => queue[i].key # h
<1> SUFFICES ASSUME NEW i \in 1 .. Len(queue), queue[i].op \in ReadOps PROVE queue[i].key # h
  OBVIOUS
<1>1. PICK q \in PacketType : q = queue[i]
  BY DEF PipeTypeOK
<1>2. PacketOK(q) /\ q.op \in ReadOps
  BY <1>1 DEF QueueOK
<1>3. q.of \in Clients /\ handle[q.of] = q.key
  BY <1>2, Names DEF PacketOK, PacketType, ReadOps
<1>4. HasRead(q.of)
  BY <1>1, <1>2 DEF HasRead
<1> QED BY <1>1, <1>3, <1>4

\* A packet goes into the port.
LEMMA Appended ==
    ASSUME PipeTypeOK, QueueOK, NEW p \in PacketType, queue' = Append(queue, p),
           PacketOK(p)', \A q \in PacketType : PacketOK(q) => PacketOK(q)',
           \A i \in 1 .. Len(queue) : queue[i].op \in ReadOps => queue[i].key # p.key
    PROVE  /\ queue' \in Seq(PacketType) /\ QueueOK'
           /\ \A d \in Clients : HasRead(d)' <=> HasRead(d) \/ (p.of = d /\ p.op \in ReadOps)
           /\ \A d \in Clients : HasByte(d)' <=> HasByte(d) \/ (p.of = d /\ p.op = "cache" /\ p.n = 1)
           /\ \A h \in Handles : HasWait(h)' <=> HasWait(h) \/ (p.key = h /\ p.op = "wait")
<1>1. /\ queue \in Seq(PacketType) /\ Len(queue) \in Nat /\ Len(queue') = Len(queue) + 1
      /\ queue' \in Seq(PacketType) /\ queue'[Len(queue) + 1] = p
      /\ \A i \in 1 .. Len(queue) : queue'[i] = queue[i] /\ queue[i] \in PacketType
  BY DEF PipeTypeOK
<1>2. QueueOK'
  <2>1. ASSUME NEW i \in 1 .. Len(queue') PROVE PacketOK(queue[i])'
    <3>1. PICK q \in PacketType : q = queue'[i] /\ (q = p \/ PacketOK(q))
      BY <1>1 DEF QueueOK
    <3>2. PacketOK(q)'
      BY <3>1
    <3> QED BY <3>1, <3>2 DEF PacketOK
  <2>2. ASSUME NEW i \in 1 .. Len(queue'), NEW j \in 1 .. Len(queue'), i < j, queue'[i].op \in ReadOps
        PROVE  queue'[j].key # queue'[i].key
    <3>1. i \in 1 .. Len(queue) /\ queue'[i] = queue[i]
      BY <1>1, <2>2
    <3>2. CASE j \in 1 .. Len(queue)
      BY <1>1, <2>2, <3>1, <3>2 DEF QueueOK
    <3>3. CASE j = Len(queue) + 1
      BY <1>1, <2>2, <3>1, <3>3
    <3> QED BY <1>1, <3>2, <3>3
  <2> QED BY <2>1, <2>2 DEF QueueOK
<1>3. ASSUME NEW d \in Clients PROVE HasRead(d)' <=> HasRead(d) \/ (p.of = d /\ p.op \in ReadOps)
  BY <1>1 DEF HasRead
<1>4. ASSUME NEW d \in Clients
      PROVE  HasByte(d)' <=> HasByte(d) \/ (p.of = d /\ p.op = "cache" /\ p.n = 1)
  BY <1>1 DEF HasByte
<1>5. ASSUME NEW h \in Handles PROVE HasWait(h)' <=> HasWait(h) \/ (p.key = h /\ p.op = "wait")
  BY <1>1 DEF HasWait
<1> QED BY <1>1, <1>2, <1>3, <1>4, <1>5

\* A packet for a connection that has no other read.
LEMMA Posted ==
    ASSUME PipeTypeOK, HandlesOK, QueueOK,
           NEW c \in Clients, handle[c] # NULL, ~HasRead(c),
           NEW o \in {"sync"} \cup ReadOps, NEW n \in {0, 1},
           o = "error" => n = 0, o \in ReadOps /\ n = 0 => c \in hung',
           queue' = Append(queue, Packet(handle[c], c, o, n)),
           UNCHANGED <<assoc, peer, handle>>, hung \subseteq hung'
    PROVE  /\ queue' \in Seq(PacketType) /\ QueueOK'
           /\ \A d \in Clients : HasRead(d)' <=> HasRead(d) \/ (d = c /\ o \in ReadOps)
           /\ \A d \in Clients : HasByte(d)' <=> HasByte(d) \/ (d = c /\ o = "cache" /\ n = 1)
           /\ \A h \in Handles : HasWait(h)' <=> HasWait(h)
<1>1. PICK p \in PacketType : p = Packet(handle[c], c, o, n)
  BY DEF PipeTypeOK, PacketType, Packet
<1>2. p.key = handle[c] /\ p.of = c /\ p.op = o /\ p.n = n /\ o # "wait"
  BY <1>1 DEF Packet, ReadOps
<1>3. PacketOK(p)'
  BY <1>2, Names DEF PacketOK, ReadOps
<1>4. \A q \in PacketType : PacketOK(q) => PacketOK(q)'
  BY DEF PacketOK
<1>5. ASSUME NEW d \in Clients, HasRead(d) PROVE handle[d] # p.key
  BY <1>2, <1>5 DEF HandlesOK, PipeTypeOK
<1>6. p.key \in Handles
  BY DEF PacketType
<1>7. \A i \in 1 .. Len(queue) : queue[i].op \in ReadOps => queue[i].key # p.key
  BY <1>5, <1>6, NoReadOn
<1> QED BY <1>1, <1>2, <1>3, <1>4, <1>7, Appended

\* The thread takes the first packet out of the port.
LEMMA Taken ==
    ASSUME PipeTypeOK, QueueOK, queue # <<>>, queue' = Tail(queue),
           NEW p \in PacketType, p = queue[1],
           \A q \in PacketType :
               PacketOK(q) /\ (p.op \in ReadOps => q.key # p.key) => PacketOK(q)'
    PROVE  /\ queue' \in Seq(PacketType) /\ QueueOK' /\ PacketOK(p)
           /\ \A d \in Clients : HasRead(d) <=> HasRead(d)' \/ (p.of = d /\ p.op \in ReadOps)
           /\ \A d \in Clients : p.of = d /\ p.op \in ReadOps => ~HasRead(d)' /\ ~HasByte(d)'
           /\ \A d \in Clients : HasByte(d) <=> HasByte(d)' \/ (p.of = d /\ p.op = "cache" /\ p.n = 1)
           /\ \A h \in Handles : HasWait(h) <=> HasWait(h)' \/ (p.key = h /\ p.op = "wait")
<1>1. /\ queue \in Seq(PacketType) /\ Len(queue) \in Nat /\ Len(queue) > 0
      /\ queue' \in Seq(PacketType) /\ Len(queue') = Len(queue) - 1
      /\ \A i \in 1 .. Len(queue') : i + 1 \in 1 .. Len(queue) /\ i + 1 > 1 /\ queue'[i] = queue[i + 1]
      /\ \A i \in 1 .. Len(queue) : i = 1 \/ (i - 1 \in 1 .. Len(queue') /\ queue'[i - 1] = queue[i])
      /\ 1 \in 1 .. Len(queue)
      /\ \A i \in 1 .. Len(queue) : queue[i] \in PacketType
  BY DEF PipeTypeOK
<1>2. PacketOK(p)
  BY <1>1 DEF QueueOK
<1>3. \A i \in 1 .. Len(queue') : p.op \in ReadOps => queue'[i].key # p.key
  BY <1>1 DEF QueueOK
<1>4. QueueOK'
  <2>1. ASSUME NEW i \in 1 .. Len(queue') PROVE PacketOK(queue[i])'
    <3>1. PICK q \in PacketType : q = queue'[i] /\ PacketOK(q) /\ (p.op \in ReadOps => q.key # p.key)
      BY <1>1, <1>3 DEF QueueOK
    <3>2. PacketOK(q)'
      BY <3>1
    <3> QED BY <3>1, <3>2 DEF PacketOK
  <2>2. ASSUME NEW i \in 1 .. Len(queue'), NEW j \in 1 .. Len(queue'), i < j, queue'[i].op \in ReadOps
        PROVE  queue'[j].key # queue'[i].key
    <3>1. i + 1 \in 1 .. Len(queue) /\ j + 1 \in 1 .. Len(queue) /\ i + 1 < j + 1
      BY <1>1, <2>2
    <3> QED BY <1>1, <2>2, <3>1 DEF QueueOK
  <2> QED BY <2>1, <2>2 DEF QueueOK
<1>5. ASSUME NEW d \in Clients PROVE HasRead(d) <=> HasRead(d)' \/ (p.of = d /\ p.op \in ReadOps)
  BY <1>1 DEF HasRead
<1>6. ASSUME NEW d \in Clients
      PROVE  HasByte(d) <=> HasByte(d)' \/ (p.of = d /\ p.op = "cache" /\ p.n = 1)
  BY <1>1 DEF HasByte
<1>7. ASSUME NEW h \in Handles PROVE HasWait(h) <=> HasWait(h)' \/ (p.key = h /\ p.op = "wait")
  BY <1>1 DEF HasWait
<1>8. ASSUME NEW d \in Clients, p.of = d, p.op \in ReadOps PROVE ~HasRead(d)' /\ ~HasByte(d)'
  <2>1. p.key = handle[d]
    BY <1>2, <1>8, Names DEF PacketOK
  <2>2. ASSUME NEW i \in 1 .. Len(queue'), queue'[i].of = d PROVE FALSE
    <3>1. PacketOK(queue[i + 1]) /\ queue[i + 1].of = d
      BY <1>1, <2>2 DEF QueueOK
    <3>2. queue'[i].key = handle[d]
      BY <1>1, <2>2, <3>1, Names DEF PacketOK
    <3> QED BY <1>3, <1>8, <2>1, <3>2
  <2> QED BY <2>2 DEF HasRead, HasByte
<1> QED BY <1>1, <1>2, <1>4, <1>5, <1>6, <1>7, <1>8

\* What leaves a part of the invariant alone.
LEMMA HandlesStay ==
    ASSUME HandlesOK, UNCHANGED <<inst, peer, waits, hung, assoc, listener, handle>>
    PROVE  HandlesOK'
<1> QED BY DEF HandlesOK, InstanceOK

LEMMA ArmedStays ==
    ASSUME Armed, UNCHANGED <<inst, waits, listener, stray>>, at = "arm" => at' = "arm",
           \A h \in Handles : HasWait(h) => HasWait(h)'
    PROVE  Armed'
<1> QED BY DEF Armed

LEMMA StreamStays ==
    ASSUME NEW c \in Clients, StreamOK(c), got'[c] = got[c], pipe'[c] = pipe[c],
           sent'[c] = sent[c], byte0'[c] = byte0[c], HasAhead(c)' <=> HasAhead(c)
    PROVE  StreamOK(c)'
<1> QED BY DEF StreamOK, AheadLen

\* What a byte that is sent, read ahead or read does to a stream.
LEMMA StreamMoves ==
    ASSUME NEW g \in Seq(Nat), NEW x \in Nat, NEW q \in Seq(Nat), NEW n \in Nat
    PROVE  /\ \A a \in {0, 1} : StreamIs(g, a, x, q, n) => StreamIs(g, a, x, Append(q, n + 1), n + 1)
           /\ StreamIs(g, 0, x, <<>>, n) => StreamIs(g, 1, n + 1, <<>>, n + 1)
           /\ StreamIs(g, 0, x, q, n) /\ q # <<>> => StreamIs(g, 1, Head(q), Tail(q), n)
           /\ StreamIs(g, 1, x, q, n) => StreamIs(g \o <<x>>, 0, x, q, n)
           /\ StreamIs(g, 0, x, q, n) =>
                  \A k \in 1 .. Len(q) :
                      StreamIs(g \o SubSeq(q, 1, k), 0, x, SubSeq(q, k + 1, Len(q)), n)
<1>1. Len(g) \in Nat /\ Len(q) \in Nat
  OBVIOUS
<1>2. ASSUME NEW a \in {0, 1}, StreamIs(g, a, x, q, n)
      PROVE  StreamIs(g, a, x, Append(q, n + 1), n + 1)
  <2> DEFINE r == Append(q, n + 1)
  <2>1. /\ Len(r) = Len(q) + 1 /\ r[Len(q) + 1] = n + 1
        /\ \A i \in 1 .. Len(q) : r[i] = q[i]
    BY AppendProperties
  <2> HIDE DEF r
  <2>2. StreamIs(g, a, x, r, n + 1)
    <3>1. /\ Len(g) + a + Len(q) = n /\ \A i \in 1 .. Len(g) : g[i] = i
          /\ \A i \in 1 .. Len(q) : q[i] = Len(g) + a + i
      BY <1>2 DEF StreamIs
    <3>2. a = 1 => x = Len(g) + 1
      BY <1>2 DEF StreamIs
    <3>3. ASSUME NEW i \in 1 .. Len(r) PROVE r[i] = Len(g) + a + i
      <4>1. i \in 1 .. Len(q) \/ i = Len(q) + 1
        BY <1>1, <2>1
      <4>2. CASE i \in 1 .. Len(q)
        BY ONLY <2>1, <3>1, <4>2
      <4>3. CASE i = Len(q) + 1
        <5> DEFINE b == Len(g)  c == Len(q)
        <5>1. r[i] = n + 1 /\ b + a + c = n /\ i = c + 1
          BY ONLY <2>1, <3>1, <4>3
        <5>2. a \in Nat /\ b \in Nat /\ c \in Nat
          BY <1>1
        <5> HIDE DEF b, c
        <5>3. r[i] = b + a + i
          BY ONLY <5>1, <5>2
        <5> QED BY ONLY <5>3 DEF b
      <4> QED BY <4>1, <4>2, <4>3
    <3>4. Len(g) + a + Len(r) = n + 1
      <4> DEFINE b == Len(g)  c == Len(q)
      <4>1. Len(r) = c + 1 /\ b + a + c = n
        BY ONLY <2>1, <3>1
      <4>2. a \in Nat /\ b \in Nat /\ c \in Nat
        BY <1>1
      <4> HIDE DEF b, c
      <4>3. b + a + Len(r) = n + 1
        BY ONLY <4>1, <4>2
      <4> QED BY ONLY <4>3 DEF b
    <3> QED BY ONLY <3>1, <3>2, <3>3, <3>4 DEF StreamIs
  <2> QED BY <2>2 DEF r
<1>3. StreamIs(g, 0, x, <<>>, n) => StreamIs(g, 1, n + 1, <<>>, n + 1)
  BY <1>1 DEF StreamIs
<1>4. ASSUME StreamIs(g, 0, x, q, n), q # <<>> PROVE StreamIs(g, 1, Head(q), Tail(q), n)
  <2> DEFINE t == Tail(q)
  <2>1. Len(t) = Len(q) - 1 /\ Len(q) > 0 /\ Head(q) = q[1] /\ \A i \in 1 .. Len(t) : t[i] = q[i + 1]
    BY <1>4, HeadTailProperties
  <2> HIDE DEF t
  <2>2. /\ Len(g) + 0 + Len(q) = n /\ \A i \in 1 .. Len(g) : g[i] = i
        /\ \A i \in 1 .. Len(q) : q[i] = Len(g) + 0 + i
    BY <1>4 DEF StreamIs
  <2>3. Head(q) = Len(g) + 1
    BY ONLY <1>1, <2>1, <2>2
  <2>4. \A i \in 1 .. Len(t) : t[i] = Len(g) + 1 + i
    BY ONLY <1>1, <2>1, <2>2
  <2>5. Len(g) + 1 + Len(t) = n
    <3> DEFINE a == Len(g)  b == Len(q)  c == Len(t)
    <3>1. c = b - 1 /\ a + 0 + b = n /\ a \in Nat /\ b \in Nat
      BY ONLY <1>1, <2>1, <2>2
    <3> HIDE DEF a, b, c
    <3>2. a + 1 + c = n
      BY ONLY <3>1
    <3> QED BY ONLY <3>2 DEF a, b, c
  <2>6. StreamIs(g, 1, Head(q), t, n)
    BY ONLY <2>2, <2>3, <2>4, <2>5 DEF StreamIs
  <2> QED BY <2>6 DEF t
<1>5. ASSUME NEW r \in Seq(Nat), NEW k \in Nat, Len(r) = k, NEW t \in Seq(Nat),
             \A i \in 1 .. Len(g) : g[i] = i, \A i \in 1 .. k : r[i] = Len(g) + i,
             Len(g) + k + Len(t) = n, \A i \in 1 .. Len(t) : t[i] = Len(g) + k + i
      PROVE  StreamIs(g \o r, 0, x, t, n)
  <2> DEFINE s == g \o r
  <2>1. /\ Len(s) = Len(g) + k
        /\ \A i \in 1 .. Len(g) + k : s[i] = IF i <= Len(g) THEN g[i] ELSE r[i - Len(g)]
    BY <1>5, ConcatProperties
  <2> HIDE DEF s
  <2>2. \A i \in 1 .. Len(g) : g[i] = i
    BY <1>5
  <2>3. ASSUME NEW i \in 1 .. Len(s) PROVE s[i] = i
    <3>1. CASE i <= Len(g)
      <4>1. i \in 1 .. Len(g)
        BY <1>1, <3>1
      <4>2. i \in 1 .. Len(g) + k
        BY <1>1, <4>1
      <4>3. s[i] = g[i]
        BY ONLY <2>1, <3>1, <4>2
      <4> QED BY ONLY <2>2, <4>1, <4>3
    <3>2. CASE ~(i <= Len(g))
      <4>1. i - Len(g) \in 1 .. k /\ Len(g) + (i - Len(g)) = i /\ s[i] = r[i - Len(g)]
        BY ONLY <1>1, k \in Nat, i \in 1 .. Len(s), <2>1, <3>2
      <4> QED BY ONLY <1>5, <4>1
    <3> QED BY <3>1, <3>2
  <2>4. Len(t) \in Nat
    OBVIOUS
  <2>5. Len(s) + 0 + Len(t) = n
    <3>1. Len(s) = Len(g) + k /\ Len(g) + k + Len(t) = n
      BY ONLY <1>5, <2>1
    <3> QED BY ONLY <1>1, <2>4, <3>1, k \in Nat
  <2>6. \A i \in 1 .. Len(t) : t[i] = Len(s) + 0 + i
    BY ONLY <1>1, <1>5, <2>1, <2>4, k \in Nat
  <2>7. StreamIs(s, 0, x, t, n)
    BY ONLY <2>3, <2>5, <2>6 DEF StreamIs
  <2> QED BY <2>7 DEF s
<1>6. ASSUME StreamIs(g, 1, x, q, n) PROVE StreamIs(g \o <<x>>, 0, x, q, n)
  <2> DEFINE r == <<x>>
  <2>1. r \in Seq(Nat) /\ Len(r) = 1 /\ r[1] = x
    OBVIOUS
  <2> HIDE DEF r
  <2>2. /\ x = Len(g) + 1 /\ Len(g) + 1 + Len(q) = n
        /\ \A i \in 1 .. Len(q) : q[i] = Len(g) + 1 + i
        /\ \A i \in 1 .. Len(g) : g[i] = i
    BY <1>6 DEF StreamIs
  <2>3. \A i \in 1 .. 1 : r[i] = Len(g) + i
    BY ONLY <1>1, <2>1, <2>2
  <2>4. StreamIs(g \o r, 0, x, q, n)
    BY ONLY <1>5, <2>1, <2>2, <2>3, q \in Seq(Nat)
  <2> QED BY <2>4 DEF r
<1>7. ASSUME StreamIs(g, 0, x, q, n), NEW k \in 1 .. Len(q)
      PROVE  StreamIs(g \o SubSeq(q, 1, k), 0, x, SubSeq(q, k + 1, Len(q)), n)
  <2> DEFINE r == SubSeq(q, 1, k) t == SubSeq(q, k + 1, Len(q))
  <2>1. k \in Nat /\ k >= 1 /\ k <= Len(q) /\ \A i \in 1 .. Len(q) : q[i] \in Nat
    BY <1>1
  <2>2. /\ \A i \in 1 .. Len(q) : q[i] = Len(g) + 0 + i
        /\ \A i \in 1 .. Len(g) : g[i] = i
        /\ Len(g) + 0 + Len(q) = n
    BY <1>7 DEF StreamIs
  <2>3. r \in Seq(Nat) /\ Len(r) = k /\ \A i \in 1 .. k : r[i] = q[i]
    <3>1. \A i \in 1 .. k : q[i] \in Nat
      BY <1>1, <2>1
    <3> QED BY <2>1, <3>1, SubSeqProperties
  <2>4. t \in Seq(Nat) /\ Len(t) = Len(q) - k /\ \A i \in 1 .. Len(q) - k : t[i] = q[k + i]
    <3> DEFINE L == Len(q)
    <3>1. \A i \in k + 1 .. L : q[i] \in Nat
      BY ONLY <1>1, <2>1
    <3>2. L \in Nat /\ k \in Nat /\ k <= L
      BY ONLY <1>1, <2>1
    <3> HIDE DEF L
    <3>3. k + 1 \in Int /\ L \in Int
      BY ONLY <3>2
    <3>4. /\ SubSeq(q, k + 1, L) \in Seq(Nat)
          /\ Len(SubSeq(q, k + 1, L)) = IF k + 1 <= L THEN L - (k + 1) + 1 ELSE 0
          /\ \A i \in 1 .. L - (k + 1) + 1 : SubSeq(q, k + 1, L)[i] = q[k + 1 + i - 1]
      BY ONLY <3>1, <3>3, SubSeqProperties
    <3>5. /\ (IF k + 1 <= L THEN L - (k + 1) + 1 ELSE 0) = L - k
          /\ \A i \in 1 .. L - k : i \in 1 .. L - (k + 1) + 1 /\ k + 1 + i - 1 = k + i
      BY ONLY <3>2
    <3> QED BY ONLY <3>4, <3>5 DEF L
  <2> HIDE DEF r, t
  <2>5. \A i \in 1 .. k : r[i] = Len(g) + i
    <3>1. ASSUME NEW i \in 1 .. k PROVE i \in 1 .. Len(q) /\ Len(g) + 0 + i = Len(g) + i
      BY ONLY <1>1, <2>1, i \in 1 .. k
    <3> QED BY ONLY <2>2, <2>3, <3>1
  <2>6. \A i \in 1 .. Len(t) : t[i] = Len(g) + k + i
    BY ONLY <1>1, <2>1, <2>2, <2>4
  <2>7. Len(g) + k + Len(t) = n
    <3> DEFINE a == Len(g) b == Len(q) c == Len(t)
    <3>1. c = b - k /\ a + 0 + b = n /\ k \in Nat /\ a \in Nat /\ b \in Nat
      BY ONLY <1>1, <2>1, <2>2, <2>4
    <3> HIDE DEF a, b, c
    <3>2. a + k + c = n
      BY ONLY <3>1
    <3> QED BY ONLY <3>2 DEF a, b, c
  <2>8. StreamIs(g \o r, 0, x, t, n)
    BY ONLY <1>5, <2>1, <2>2, <2>3, <2>4, <2>5, <2>6, <2>7
  <2> QED BY <2>8 DEF r, t
<1> QED BY <1>2, <1>3, <1>4, <1>6, <1>7

LEMMA ByteIsRead == \A c \in Clients : HasByte(c) => HasRead(c)
<1> QED BY DEF HasByte, HasRead, ReadOps

-----------------------------------------------------------------------------
(***************************************************************************)
(* The steps of clients                                                    *)
(***************************************************************************)
\* Connect() tells the acceptor as often as it has asked.
LEMMA ConnectKeeps ==
    ASSUME PipeInv, NEW c \in Clients, Connect(c)
    PROVE  PipeInv'
<1> USE DEF PipeInv
<1>1. PICK h \in Handles :
          /\ inst[h] = "listening"
          /\ inst' = [inst EXCEPT ![h] = "connected"] /\ peer' = [peer EXCEPT ![h] = c]
          /\ queue' = queue \o [i \in 1 .. waits[h] |-> Packet(h, Acceptor, "wait", 0)]
          /\ waits' = [waits EXCEPT ![h] = 0]
  BY DEF Connect
<1>2. /\ c \notin hung /\ \A k \in Handles : peer[k] # c
      /\ UNCHANGED <<pipe, sent, hung, assoc, listener, handle, cache, at, cur, want, stray>>
  BY DEF Connect
<1>3. h = listener /\ assoc[h] = Acceptor /\ peer[h] = None
  BY <1>1 DEF HandlesOK, InstanceOK
<1>4. PICK p \in PacketType : p = Packet(h, Acceptor, "wait", 0)
  BY DEF PacketType, Packet
<1>5. p.key = h /\ p.of = Acceptor /\ p.op = "wait" /\ p.n = 0
  BY <1>4 DEF Packet
<1>6. waits[h] \in Nat /\ queue \in Seq(PacketType)
  BY DEF PipeTypeOK
<1>7. [i \in 1 .. waits[h] |-> p] \in Seq(PacketType) /\ Len([i \in 1 .. waits[h] |-> p]) = waits[h]
  BY <1>6
<1>8. queue' = queue \o [i \in 1 .. waits[h] |-> p]
  BY <1>1, <1>4
<1>9. /\ queue' \in Seq(PacketType) /\ Len(queue) \in Nat /\ Len(queue') = Len(queue) + waits[h]
      /\ \A i \in 1 .. Len(queue) : queue'[i] = queue[i] /\ queue[i] \in PacketType
      /\ \A i \in 1 .. Len(queue') : i \in 1 .. Len(queue) \/ queue'[i] = p
  BY <1>6, <1>7, <1>8
<1>10. PipeTypeOK'
  BY <1>1, <1>2, <1>9 DEF PipeTypeOK, cache
<1>11. HandlesOK'
  BY <1>1, <1>2, <1>3, Names DEF HandlesOK, InstanceOK, PipeTypeOK
<1>12. PacketOK(p)'
  BY <1>1, <1>2, <1>3, <1>5, Names DEF PacketOK, ReadOps, PipeTypeOK
<1>13. \A q \in PacketType : PacketOK(q) => PacketOK(q)'
  BY <1>1, <1>2, Names DEF PacketOK, PipeTypeOK, PacketType
<1>14. \A i \in 1 .. Len(queue) : queue[i].op \in ReadOps => queue[i].key # h
  <2>1. \A d \in Clients : handle[d] # h
    BY <1>3, Names DEF HandlesOK
  <2> QED BY <2>1, NoReadOn
<1>15. QueueOK'
  <2>1. ASSUME NEW i \in 1 .. Len(queue') PROVE PacketOK(queue[i])'
    <3>1. PICK q \in PacketType : q = queue'[i] /\ (q = p \/ PacketOK(q))
      BY <1>9 DEF QueueOK
    <3>2. PacketOK(q)'
      BY <1>12, <1>13, <3>1
    <3> QED BY <3>1, <3>2 DEF PacketOK
  <2>2. ASSUME NEW i \in 1 .. Len(queue'), NEW j \in 1 .. Len(queue'), i < j, queue'[i].op \in ReadOps
        PROVE  queue'[j].key # queue'[i].key
    <3>1. i \in 1 .. Len(queue) /\ queue'[i] = queue[i]
      BY <1>5, <1>9, <2>2 DEF ReadOps
    <3>2. CASE j \in 1 .. Len(queue)
      BY <1>9, <2>2, <3>1, <3>2 DEF QueueOK
    <3>3. CASE queue'[j] = p
      BY <1>5, <1>14, <2>2, <3>1, <3>3
    <3> QED BY <1>9, <3>2, <3>3
  <2> QED BY <2>1, <2>2 DEF QueueOK
<1>16. \A i \in 1 .. Len(queue) : i \in 1 .. Len(queue')
  BY <1>6, <1>9
<1>17. \A d \in Clients : (HasRead(d)' <=> HasRead(d)) /\ (HasByte(d)' <=> HasByte(d))
  BY <1>5, <1>9, <1>16, Names DEF HasRead, HasByte, ReadOps
<1>18. ThreadOK'
  BY <1>2 DEF ThreadOK, cache
<1>19. Armed'
  <2>1. ASSUME ~stray, at # "arm" PROVE HasWait(h)'
    <3>1. waits[h] > 0 \/ HasWait(h)
      BY <1>1, <1>3, <2>1 DEF Armed
    <3>2. CASE waits[h] > 0
      <4>1. Len(queue) + 1 \in 1 .. Len(queue') /\ queue'[Len(queue) + 1] = p
        BY <1>6, <1>9, <3>2
      <4> QED BY <1>5, <4>1 DEF HasWait
    <3>3. CASE HasWait(h)
      BY <1>9, <1>16, <3>3 DEF HasWait
    <3> QED BY <3>1, <3>2, <3>3
  <2> QED BY <1>2, <1>3, <2>1 DEF Armed
<1>20. ASSUME NEW d \in Clients PROVE WaitOK(d)' /\ StreamOK(d)'
  <2>1. WaitOK(d)'
    BY <1>2, <1>17 DEF WaitOK, cache
  <2>2. StreamOK(d)'
    BY <1>2, <1>17, StreamStays DEF HasAhead, cache
  <2> QED BY <2>1, <2>2
<1> QED BY <1>10, <1>11, <1>15, <1>18, <1>19, <1>20

\* A byte goes to the read that is pending, or after those in the pipe.
LEMMA SendKeeps ==
    ASSUME PipeInv, NEW c \in Clients, Send(c)
    PROVE  PipeInv'
<1> USE DEF PipeInv
<1>1. /\ sent' = [sent EXCEPT ![c] = @ + 1]
      /\ UNCHANGED <<inst, peer, waits, hung, assoc, listener, handle, empty, got, at, cur, want, stray>>
  BY DEF Send
<1>2. HandlesOK'
  BY <1>1, HandlesStay
<1>3. ThreadOK'
  BY <1>1 DEF ThreadOK
<1>4. CASE /\ c \in pending
           /\ byte0' = [byte0 EXCEPT ![c] = sent[c] + 1]
           /\ pending' = pending \ {c}
           /\ Post(Packet(handle[c], c, "cache", 1))
           /\ UNCHANGED pipe
  <2>1. pipe[c] = <<>> /\ c # cur /\ ~HasRead(c) /\ handle[c] # NULL
    BY <1>4 DEF WaitOK
  <2>2. /\ queue' \in Seq(PacketType) /\ QueueOK'
        /\ \A d \in Clients : HasRead(d)' <=> HasRead(d) \/ d = c
        /\ \A d \in Clients : HasByte(d)' <=> HasByte(d) \/ d = c
        /\ \A h \in Handles : HasWait(h)' <=> HasWait(h)
    BY <1>1, <1>4, <2>1, Posted DEF Post, ReadOps
  <2>3. PipeTypeOK'
    BY <1>1, <1>4, <2>2 DEF PipeTypeOK
  <2>4. Armed'
    BY <1>1, <2>2, ArmedStays
  <2>5. ASSUME NEW d \in Clients PROVE WaitOK(d)'
    BY <1>1, <1>4, <2>1, <2>2 DEF WaitOK
  <2>6. ASSUME NEW d \in Clients, d # c PROVE StreamOK(d)'
    <3>1. got'[d] = got[d] /\ pipe'[d] = pipe[d] /\ sent'[d] = sent[d] /\ byte0'[d] = byte0[d]
      BY <1>1, <1>4, <2>6 DEF PipeTypeOK
    <3>2. HasAhead(d)' <=> HasAhead(d)
      BY <1>1, <2>2, <2>6 DEF HasAhead
    <3> QED BY <3>1, <3>2, StreamStays
  <2>7. StreamOK(c)'
    <3>1. empty[c] /\ ~HasByte(c)
      BY <2>1, ByteIsRead DEF ThreadOK
    <3>2. StreamIs(got[c], 0, byte0[c], <<>>, sent[c])
      BY <2>1, <3>1 DEF StreamOK, HasAhead, AheadLen
    <3>3. /\ byte0'[c] = sent[c] + 1 /\ sent'[c] = sent[c] + 1 /\ got' = got /\ AheadLen(c)' = 1
          /\ pipe'[c] = <<>> /\ sent[c] \in Nat /\ got[c] \in Seq(Nat) /\ byte0[c] \in Nat
      BY <1>1, <1>4, <2>1, <2>2 DEF HasAhead, AheadLen, PipeTypeOK
    <3>4. StreamIs(got'[c], 1, byte0'[c], pipe'[c], sent'[c])
      BY <3>2, <3>3, StreamMoves
    <3> QED BY <3>3, <3>4 DEF StreamOK
  <2> QED BY <1>2, <1>3, <2>2, <2>3, <2>4, <2>5, <2>6, <2>7
<1>5. CASE /\ c \notin pending /\ Len(pipe[c]) < Capacity
           /\ pipe' = [pipe EXCEPT ![c] = Append(@, sent[c] + 1)]
           /\ UNCHANGED <<byte0, pending, queue>>
  <2>1. QueueOK' /\ (\A d \in Clients : (HasRead(d)' <=> HasRead(d)) /\ (HasByte(d)' <=> HasByte(d)))
        /\ \A h \in Handles : HasWait(h)' <=> HasWait(h)
    BY <1>1, <1>5 DEF QueueOK, PacketOK, HasRead, HasByte, HasWait
  <2>2. PipeTypeOK'
    BY <1>1, <1>5 DEF PipeTypeOK
  <2>3. Armed'
    BY <1>1, <2>1, ArmedStays
  <2>4. ASSUME NEW d \in Clients PROVE WaitOK(d)'
    <3>1. d \in pending => pipe'[d] = pipe[d]
      BY <1>5 DEF PipeTypeOK
    <3> QED BY <1>1, <1>5, <2>1, <3>1 DEF WaitOK
  <2>5. ASSUME NEW d \in Clients, d # c PROVE StreamOK(d)'
    <3>1. got'[d] = got[d] /\ pipe'[d] = pipe[d] /\ sent'[d] = sent[d] /\ byte0'[d] = byte0[d]
      BY <1>1, <1>5, <2>5 DEF PipeTypeOK
    <3>2. HasAhead(d)' <=> HasAhead(d)
      BY <1>1, <2>1 DEF HasAhead
    <3> QED BY <3>1, <3>2, StreamStays
  <2>6. StreamOK(c)'
    <3>1. /\ got'[c] = got[c] /\ byte0'[c] = byte0[c] /\ sent'[c] = sent[c] + 1 /\ sent[c] \in Nat
          /\ pipe'[c] = Append(pipe[c], sent[c] + 1) /\ pipe[c] \in Seq(Nat) /\ got[c] \in Seq(Nat)
      BY <1>1, <1>5 DEF PipeTypeOK
    <3>2. HasAhead(c)' <=> HasAhead(c)
      BY <1>1, <2>1 DEF HasAhead
    <3>3. AheadLen(c)' = AheadLen(c) /\ AheadLen(c) \in {0, 1} /\ byte0[c] \in Nat
      BY <3>2 DEF AheadLen, PipeTypeOK
    <3>4. StreamIs(got'[c], AheadLen(c)', byte0'[c], pipe'[c], sent'[c])
      BY <3>1, <3>3, StreamMoves DEF StreamOK
    <3> QED BY <3>4 DEF StreamOK
  <2> QED BY <1>2, <1>3, <2>1, <2>2, <2>3, <2>4, <2>5, <2>6
<1> QED BY <1>4, <1>5 DEF Send

LEMMA QueueStays ==
    ASSUME QueueOK, UNCHANGED <<queue, assoc, peer, handle, hung>>
    PROVE  /\ QueueOK'
           /\ \A d \in Clients : (HasRead(d)' <=> HasRead(d)) /\ (HasByte(d)' <=> HasByte(d))
           /\ \A h \in Handles : HasWait(h)' <=> HasWait(h)
<1> QED BY DEF QueueOK, PacketOK, HasRead, HasByte, HasWait

\* The client's end is closed.
LEMMA HangUpKeeps ==
    ASSUME PipeInv, NEW c \in Clients, HangUp(c)
    PROVE  PipeInv'
<1> USE DEF PipeInv
<1>1. PICK h \in Handles :
          peer[h] = c /\ inst[h] = "connected" /\ inst' = [inst EXCEPT ![h] = "closing"]
  BY DEF HangUp, PipeOf
<1>2. /\ hung' = hung \cup {c} /\ pending' = pending \ {c}
      /\ IF c \in pending THEN Post(Packet(handle[c], c, "cache", 0)) ELSE UNCHANGED queue
      /\ UNCHANGED <<peer, waits, pipe, sent, assoc, listener, handle, empty, byte0, got, at, cur, want, stray>>
  BY DEF HangUp
<1>3. HandlesOK'
  BY <1>1, <1>2, Names DEF HandlesOK, InstanceOK, PipeTypeOK
<1>4. ThreadOK'
  BY <1>2 DEF ThreadOK
<1>5. /\ queue' \in Seq(PacketType) /\ QueueOK'
      /\ \A d \in Clients : HasRead(d)' <=> HasRead(d) \/ (d = c /\ c \in pending)
      /\ \A d \in Clients : HasByte(d)' <=> HasByte(d)
      /\ \A k \in Handles : HasWait(k)' <=> HasWait(k)
  <2>1. CASE c \in pending
    <3>1. ~HasRead(c) /\ handle[c] # NULL
      BY <2>1 DEF WaitOK
    <3>2. queue' = Append(queue, Packet(handle[c], c, "cache", 0)) /\ c \in hung' /\ hung \subseteq hung'
      BY <1>2, <2>1 DEF Post
    <3> QED BY <1>2, <2>1, <3>1, <3>2, Posted DEF ReadOps
  <2>2. CASE c \notin pending
    <3>1. queue' = queue
      BY <1>2, <2>2
    <3>2. QueueOK'
      BY <1>2, <3>1 DEF QueueOK, PacketOK
    <3>3. /\ \A d \in Clients : (HasRead(d)' <=> HasRead(d)) /\ (HasByte(d)' <=> HasByte(d))
          /\ \A k \in Handles : HasWait(k)' <=> HasWait(k)
      BY <3>1 DEF HasRead, HasByte, HasWait
    <3> QED BY <2>2, <3>1, <3>2, <3>3 DEF PipeTypeOK
  <2> QED BY <2>1, <2>2
<1>6. PipeTypeOK'
  BY <1>1, <1>2, <1>5 DEF PipeTypeOK
<1>7. Armed'
  BY <1>1, <1>2, <1>5 DEF Armed, PipeTypeOK
<1>8. ASSUME NEW d \in Clients PROVE WaitOK(d)' /\ StreamOK(d)'
  <2>1. WaitOK(d)'
    BY <1>2, <1>5 DEF WaitOK
  <2>2. HasAhead(d)' <=> HasAhead(d)
    BY <1>2, <1>5 DEF HasAhead
  <2> QED BY <1>2, <2>1, <2>2, StreamStays
<1> QED BY <1>3, <1>4, <1>5, <1>6, <1>7, <1>8

-----------------------------------------------------------------------------
(***************************************************************************)
(* The steps of the acceptor                                               *)
(***************************************************************************)
\* wait_for_connection() arms it, wherever the thread goes from there.
LEMMA wait_for_connectionKeeps ==
    ASSUME PipeInv, wait_for_connection, at \in {"arm", "announce"},
           at' \in {"idle", "announce", "trigger"},
           at' = "idle" => cur = None, at' # "idle" => cur \in Clients,
           UNCHANGED <<inst, peer, pipe, sent, hung, assoc, listener, handle, cache, cur, want, stray>>
    PROVE  PipeInv'
<1> USE DEF PipeInv
<1>1. PICK h \in Handles : h = listener
  BY DEF PipeTypeOK
<1>2. assoc[h] = Acceptor /\ inst[h] # "closed" /\ (inst[h] # "listening" => peer[h] # None)
  BY <1>1, Names DEF HandlesOK, InstanceOK, PipeTypeOK
<1>3. /\ waits' = [waits EXCEPT ![h] = IF inst[h] = "listening" THEN @ + 1 ELSE @]
      /\ IF inst[h] = "connected" THEN queue' = Append(queue, Packet(h, Acceptor, "wait", 0))
         ELSE queue' = queue
  BY <1>1 DEF wait_for_connection, Post
<1>4. PICK p \in PacketType : p = Packet(h, Acceptor, "wait", 0)
  BY DEF PacketType, Packet
<1>5. p.key = h /\ p.of = Acceptor /\ p.op = "wait" /\ p.n = 0
  BY <1>4 DEF Packet
<1>6. HandlesOK'
  <2>1. \A k \in Handles : inst[k] # "listening" => waits'[k] = waits[k]
    BY <1>3 DEF PipeTypeOK
  <2> QED BY <2>1 DEF HandlesOK, InstanceOK
<1>7. /\ queue' \in Seq(PacketType) /\ QueueOK'
      /\ \A d \in Clients : (HasRead(d)' <=> HasRead(d)) /\ (HasByte(d)' <=> HasByte(d))
      /\ inst[h] = "connected" => HasWait(h)'
  <2>1. CASE inst[h] = "connected"
    <3>1. queue' = Append(queue, p)
      BY <1>3, <1>4, <2>1
    <3>2. PacketOK(p)'
      BY <1>2, <1>5, <2>1, Names DEF PacketOK, ReadOps
    <3>3. \A q \in PacketType : PacketOK(q) => PacketOK(q)'
      BY DEF PacketOK
    <3>4. \A d \in Clients : handle[d] # h
      BY <1>2, Names DEF HandlesOK
    <3>5. \A i \in 1 .. Len(queue) : queue[i].op \in ReadOps => queue[i].key # p.key
      BY <1>5, <3>4, NoReadOn
    <3> QED BY <1>5, <3>1, <3>2, <3>3, <3>5, Appended DEF ReadOps
  <2>2. CASE inst[h] # "connected"
    <3>1. queue' = queue
      BY <1>3, <2>2
    <3> QED BY <2>2, <3>1, QueueStays DEF PipeTypeOK
  <2> QED BY <2>1, <2>2
<1>8. PipeTypeOK'
  BY <1>3, <1>7 DEF PipeTypeOK, cache
<1>9. ThreadOK'
  BY DEF ThreadOK, cache
<1>10. Armed'
  <2>1. \/ inst[h] = "listening" /\ waits'[h] > 0
        \/ inst[h] = "connected"
        \/ inst[h] = "closing"
    BY <1>2, <1>3 DEF PipeTypeOK
  <2> QED BY <1>1, <1>7, <2>1 DEF Armed
<1>11. ASSUME NEW d \in Clients PROVE WaitOK(d)' /\ StreamOK(d)'
  <2>1. WaitOK(d)'
    BY <1>7 DEF WaitOK, cache
  <2>2. HasAhead(d)' <=> HasAhead(d)
    BY <1>7 DEF HasAhead, cache
  <2> QED BY <2>1, <2>2, StreamStays DEF cache
<1> QED BY <1>6, <1>7, <1>8, <1>9, <1>10, <1>11

LEMMA ArmKeeps == PipeInv /\ Arm => PipeInv'
<1> SUFFICES ASSUME PipeInv, Arm PROVE PipeInv'
  OBVIOUS
<1>1. wait_for_connection /\ at = "arm" /\ at' = (IF cur = None THEN "idle" ELSE "announce")
  BY DEF Arm
<1>2. cur = None \/ cur \in Clients
  BY DEF PipeInv, PipeTypeOK
<1> QED BY <1>1, <1>2, wait_for_connectionKeeps DEF Arm

LEMMA AnnounceKeeps == PipeInv /\ Announce => PipeInv'
<1> SUFFICES ASSUME PipeInv, Announce PROVE PipeInv'
  OBVIOUS
<1>1. wait_for_connection /\ at = "announce" /\ at' = "trigger" /\ cur \in Clients
  BY DEF Announce, PipeInv, ThreadOK
<1> QED BY <1>1, wait_for_connectionKeeps DEF Announce

-----------------------------------------------------------------------------
(***************************************************************************)
(* The thread in the port                                                  *)
(***************************************************************************)
\* A packet of a synchronous call, and one of a connect that nobody waits for.
LEMMA IgnoredKeeps ==
    ASSUME PipeInv, at = "idle", queue # <<>>, NEW p \in PacketType, p = queue[1], Ignored,
           p.op = "sync" \/ (p.op = "wait" /\ (stray \/ assoc[p.key] # Acceptor)),
           UNCHANGED stray
    PROVE  PipeInv'
<1> USE DEF PipeInv
<1>1. /\ queue' = Tail(queue)
      /\ UNCHANGED <<inst, peer, waits, pipe, sent, hung, assoc, listener, handle, cache, at, cur, want>>
  BY DEF Ignored, pipes
<1>2. p.op \notin ReadOps /\ p.op # "cache"
  BY DEF ReadOps
<1>3. \A q \in PacketType : PacketOK(q) => PacketOK(q)'
  BY <1>1 DEF PacketOK
<1>4. /\ queue' \in Seq(PacketType) /\ QueueOK'
      /\ \A d \in Clients : (HasRead(d)' <=> HasRead(d)) /\ (HasByte(d)' <=> HasByte(d))
      /\ \A h \in Handles : HasWait(h) <=> HasWait(h)' \/ (p.key = h /\ p.op = "wait")
  BY <1>1, <1>2, <1>3, Taken
<1>5. PipeTypeOK' /\ HandlesOK' /\ ThreadOK'
  BY <1>1, <1>4, HandlesStay DEF PipeTypeOK, ThreadOK, cache
<1>6. Armed'
  <2>1. ASSUME NEW h \in Handles, h = listener, ~stray PROVE p.key = h => p.op # "wait"
    BY <2>1 DEF HandlesOK, InstanceOK
  <2> QED BY <1>1, <1>4, <2>1 DEF Armed
<1>7. ASSUME NEW d \in Clients PROVE WaitOK(d)' /\ StreamOK(d)'
  <2>1. WaitOK(d)'
    BY <1>1, <1>4 DEF WaitOK, cache
  <2>2. HasAhead(d)' <=> HasAhead(d)
    BY <1>1, <1>4 DEF HasAhead, cache
  <2> QED BY <1>1, <2>1, <2>2, StreamStays DEF cache
<1> QED BY <1>4, <1>5, <1>6, <1>7

\* A connection is made for the client.
LEMMA AcceptKeeps ==
    ASSUME PipeInv, at = "idle", queue # <<>>, NEW p \in PacketType, p = queue[1],
           p.op = "wait", NEW c, c = peer[p.key], Accept(c, p), queue' = Tail(queue), UNCHANGED stray
    PROVE  PipeInv'
<1> USE DEF PipeInv
<1>1. PICK l \in Handles : l = listener
  BY DEF PipeTypeOK
<1>2. PICK h \in Handles :
          /\ inst[h] = "closed"
          /\ inst' = [inst EXCEPT ![h] = "listening"]
          /\ assoc' = [assoc EXCEPT ![l] = c, ![h] = Acceptor]
          /\ listener' = h
  BY <1>1 DEF Accept
<1>3. /\ assoc[p.key] = Acceptor /\ handle' = [handle EXCEPT ![c] = l]
      /\ at' = "arm" /\ cur' = c
      /\ UNCHANGED <<peer, waits, pipe, sent, hung, cache, want>>
  BY <1>1 DEF Accept
<1>4. /\ 1 \in 1 .. Len(queue) /\ PacketOK(p) /\ p.key \in Handles
  BY DEF QueueOK, PacketType, PipeTypeOK
<1>5. p.key = l /\ assoc[l] = Acceptor /\ c \in Clients /\ peer[l] = c /\ inst[l] # "closed" /\ inst[l] # "listening"
  BY <1>1, <1>3, <1>4, Names DEF HandlesOK, InstanceOK, PacketOK, PipeTypeOK
<1>6. h # l /\ assoc[h] = None /\ peer[h] = None /\ waits[h] = 0 /\ waits[l] = 0
  BY <1>1, <1>2, <1>5 DEF HandlesOK, InstanceOK
<1>7. handle[c] = NULL
  <2>1. ASSUME NEW k \in Handles, handle[c] = k PROVE FALSE
    <3>1. assoc[k] = c
      BY <1>5, <2>1 DEF HandlesOK
    <3>2. peer[k] = c
      BY <1>5, <3>1 DEF HandlesOK, InstanceOK
    <3> QED BY <1>5, <3>1, <3>2, Names DEF HandlesOK
  <2> QED BY <1>5, <2>1 DEF PipeTypeOK
<1>8. c \notin pending /\ ~HasRead(c) /\ ~HasByte(c)
  BY <1>5, <1>7, ByteIsRead DEF WaitOK
<1>9. /\ assoc' \in [Handles -> Clients \cup {None, Acceptor}]
      /\ inst' \in [Handles -> {"closed", "listening", "connected", "closing"}]
      /\ assoc'[l] = c /\ assoc'[h] = Acceptor /\ inst'[h] = "listening"
      /\ \A k \in Handles : k # h => inst'[k] = inst[k] /\ (k # l => assoc'[k] = assoc[k])
  BY <1>2, <1>5, <1>6 DEF PipeTypeOK
<1>10. /\ handle' \in [Clients -> Handles \cup {NULL}] /\ handle'[c] = l
       /\ \A d \in Clients : d # c => handle'[d] = handle[d]
  BY <1>3, <1>5 DEF PipeTypeOK
<1>11. HandlesOK'
  <2>1. ASSUME NEW k \in Handles PROVE InstanceOK(k)'
    <3>1. CASE k = h
      BY <1>2, <1>3, <1>6, <1>9, <3>1, Names DEF InstanceOK
    <3>2. CASE k = l
      BY <1>2, <1>3, <1>5, <1>6, <1>9, <3>2, Names DEF InstanceOK, HandlesOK
    <3>3. CASE k # h /\ k # l
      BY <1>1, <1>2, <1>3, <1>9, <3>3 DEF InstanceOK, HandlesOK
    <3> QED BY <3>1, <3>2, <3>3
  <2>2. \A d \in Clients : \A k \in Handles : handle'[d] = k <=> assoc'[k] = d
    <3>1. \A k \in Handles : assoc[k] # c
      BY <1>5, <1>7, Names DEF HandlesOK
    <3> QED BY <1>5, <1>6, <1>9, <1>10, <3>1, Names DEF HandlesOK
  <2> QED BY <1>3, <2>1, <2>2 DEF HandlesOK
<1>12. ASSUME NEW q \in PacketType, PacketOK(q) PROVE PacketOK(q)'
  <2>1. q.key \in Handles /\ q.of \in Clients \cup {Acceptor}
    BY DEF PacketType
  <2>2. CASE q.of = Acceptor
    <3>1. q.key # h
      BY <1>6, <1>12, <2>2 DEF PacketOK
    <3> QED BY <1>3, <1>5, <1>9, <1>12, <2>1, <2>2, <3>1, Names DEF PacketOK
  <2>3. CASE q.of # Acceptor
    <3>1. q.of # c
      BY <1>7, <1>12, <2>1, <2>3, Names DEF PacketOK
    <3> QED BY <1>3, <1>10, <1>12, <2>1, <2>3, <3>1 DEF PacketOK
  <2> QED BY <2>2, <2>3
<1>13. /\ queue' \in Seq(PacketType) /\ QueueOK'
       /\ \A d \in Clients : (HasRead(d)' <=> HasRead(d)) /\ (HasByte(d)' <=> HasByte(d))
  BY <1>12, Taken DEF ReadOps
<1>14. PipeTypeOK'
  BY <1>1, <1>2, <1>3, <1>5, <1>9, <1>10, <1>13 DEF PipeTypeOK, cache
<1>15. ThreadOK' /\ Armed'
  BY <1>3, <1>5 DEF ThreadOK, Armed, cache
<1>16. ASSUME NEW d \in Clients PROVE WaitOK(d)' /\ StreamOK(d)'
  <2>1. WaitOK(d)'
    <3>1. cur = None /\ None # d
      BY Names DEF ThreadOK
    <3>2. CASE d = c
      BY <1>3, <1>8, <1>10, <1>13, <3>2, Names DEF WaitOK, cache
    <3>3. CASE d # c
      BY <1>3, <1>10, <1>13, <3>1, <3>3 DEF WaitOK, cache
    <3> QED BY <3>2, <3>3
  <2>2. HasAhead(d)' <=> HasAhead(d)
    BY <1>3, <1>13 DEF HasAhead, cache
  <2> QED BY <1>3, <2>1, <2>2, StreamStays DEF cache
<1> QED BY <1>11, <1>13, <1>14, <1>15, <1>16

\* on_close(): no packet is left for the handle that is closed.
LEMMA NotifyClosedKeeps ==
    ASSUME PipeInv, at = "idle", queue # <<>>, NEW p \in PacketType, p = queue[1],
           p.op \in ReadOps, p.n = 0, NEW c, c = p.of, NotifyClosed(c), UNCHANGED stray
    PROVE  PipeInv'
<1> USE DEF PipeInv
<1>1. 1 \in 1 .. Len(queue) /\ PacketOK(p) /\ p.key \in Handles
  BY DEF QueueOK, PacketType, PipeTypeOK
<1>2. PICK k \in Handles : k = p.key
  BY <1>1
<1>3. c \in Clients /\ handle[c] = k /\ c \in hung
  BY <1>1, <1>2, Names DEF PacketOK, PacketType, ReadOps
<1>4. /\ handle' = [handle EXCEPT ![c] = NULL] /\ assoc' = [assoc EXCEPT ![k] = None]
      /\ inst' = [inst EXCEPT ![k] = "closed"] /\ peer' = [peer EXCEPT ![k] = None]
      /\ queue' = Tail(queue)
      /\ UNCHANGED <<waits, pipe, sent, hung, listener, cache, at, cur, want>>
  BY <1>3 DEF NotifyClosed
<1>5. assoc[k] = c /\ peer[k] = c /\ k # listener /\ waits[k] = 0
  BY <1>3, Names DEF HandlesOK, InstanceOK
<1>6. HasRead(c)
  BY <1>1 DEF HasRead
<1>7. c \notin pending /\ c # cur
  BY <1>3, <1>6 DEF WaitOK
<1>8. HandlesOK'
  <2>1. ASSUME NEW h \in Handles PROVE InstanceOK(h)'
    <3>1. CASE h = k
      BY <1>4, <1>5, <3>1, Names DEF InstanceOK, PipeTypeOK
    <3>2. CASE h # k
      BY <1>4, <3>2 DEF InstanceOK, HandlesOK, PipeTypeOK
    <3> QED BY <3>1, <3>2
  <2>2. \A d \in Clients : \A h \in Handles : handle'[d] = h <=> assoc'[h] = d
    BY <1>3, <1>4, <1>5, Names DEF HandlesOK, PipeTypeOK
  <2>3. \A h, j \in Handles : peer'[h] = peer'[j] /\ peer'[h] # None => h = j
    BY <1>4 DEF HandlesOK, PipeTypeOK
  <2> QED BY <2>1, <2>2, <2>3 DEF HandlesOK
<1>9. ASSUME NEW q \in PacketType, PacketOK(q), p.op \in ReadOps => q.key # p.key PROVE PacketOK(q)'
  <2>1. q.key # k /\ q.key \in Handles /\ q.of \in Clients \cup {Acceptor}
    BY <1>2, <1>9 DEF PacketType
  <2>2. assoc'[q.key] = assoc[q.key] /\ peer'[q.key] = peer[q.key]
    BY <1>4, <2>1 DEF PipeTypeOK
  <2>3. q.of # Acceptor => q.of # c /\ handle'[q.of] = handle[q.of]
    BY <1>3, <1>4, <1>9, <2>1 DEF PacketOK, PipeTypeOK
  <2> QED BY <1>4, <1>9, <2>2, <2>3 DEF PacketOK
<1>10. /\ queue' \in Seq(PacketType) /\ QueueOK' /\ ~HasRead(c)'
       /\ \A d \in Clients : HasRead(d) <=> HasRead(d)' \/ d = c
       /\ \A d \in Clients : HasByte(d) <=> HasByte(d)'
       /\ \A h \in Handles : HasWait(h) <=> HasWait(h)'
  BY <1>3, <1>4, <1>9, Taken DEF ReadOps
<1>11. PipeTypeOK' /\ ThreadOK'
  BY <1>4, <1>10 DEF PipeTypeOK, ThreadOK, cache
<1>12. Armed'
  <2>1. \A h \in Handles : h # k => inst'[h] = inst[h]
    BY <1>4 DEF PipeTypeOK
  <2> QED BY <1>4, <1>5, <1>10, <2>1 DEF Armed
<1>13. ASSUME NEW d \in Clients PROVE WaitOK(d)' /\ StreamOK(d)'
  <2>1. WaitOK(d)'
    <3>1. handle'[c] = NULL /\ (d # c => handle'[d] = handle[d])
      BY <1>3, <1>4 DEF PipeTypeOK
    <3>2. CASE d = c
      BY <1>3, <1>4, <1>7, <1>10, <3>1, <3>2 DEF WaitOK, cache
    <3>3. CASE d # c
      BY <1>4, <1>10, <3>1, <3>3 DEF WaitOK, cache
    <3> QED BY <3>2, <3>3
  <2>2. HasAhead(d)' <=> HasAhead(d)
    BY <1>4, <1>10 DEF HasAhead, cache
  <2> QED BY <1>4, <2>1, <2>2, StreamStays DEF cache
<1> QED BY <1>8, <1>10, <1>11, <1>12, <1>13

\* on_read() begins with the byte that has come.
LEMMA NotifyReadKeeps ==
    ASSUME PipeInv, at = "idle", queue # <<>>, NEW p \in PacketType, p = queue[1],
           p.op \in ReadOps, p.n = 1, NEW c, c = p.of, NotifyRead(c), UNCHANGED stray
    PROVE  PipeInv'
<1> USE DEF PipeInv
<1>1. 1 \in 1 .. Len(queue) /\ PacketOK(p)
  BY DEF QueueOK, PipeTypeOK
<1>2. p.op = "cache" /\ c \in Clients /\ handle[c] = p.key /\ p.key \in Handles
  BY <1>1, Names DEF PacketOK, PacketType, ReadOps
<1>3. /\ empty' = [empty EXCEPT ![c] = FALSE] /\ at' = "callback" /\ cur' = c /\ queue' = Tail(queue)
      /\ UNCHANGED <<inst, peer, waits, pipe, sent, hung, assoc, listener, handle, byte0, pending, got, want>>
  BY DEF NotifyRead, pipes
<1>4. HasRead(c) /\ HasByte(c)
  BY <1>1, <1>2 DEF HasRead, HasByte
<1>5. c \notin pending /\ cur = None /\ \A d \in Clients : empty[d]
  BY <1>2, <1>4 DEF WaitOK, ThreadOK
<1>6. \A q \in PacketType : PacketOK(q) => PacketOK(q)'
  BY <1>3 DEF PacketOK
<1>7. /\ queue' \in Seq(PacketType) /\ QueueOK' /\ ~HasRead(c)' /\ ~HasByte(c)'
      /\ \A d \in Clients : HasRead(d) <=> HasRead(d)' \/ d = c
      /\ \A d \in Clients : HasByte(d) <=> HasByte(d)' \/ d = c
      /\ \A h \in Handles : HasWait(h) <=> HasWait(h)'
  BY <1>2, <1>3, <1>6, Taken DEF ReadOps
<1>8. HandlesOK' /\ PipeTypeOK'
  BY <1>2, <1>3, <1>7, HandlesStay DEF PipeTypeOK
<1>9. ThreadOK' /\ Armed'
  BY <1>2, <1>3, <1>5, <1>7 DEF ThreadOK, Armed, PipeTypeOK
<1>10. ASSUME NEW d \in Clients PROVE WaitOK(d)' /\ StreamOK(d)'
  <2>1. WaitOK(d)'
    <3>1. d # cur
      BY <1>5, Names
    <3>2. handle[c] # NULL
      BY <1>2, Names
    <3> QED BY <1>3, <1>5, <1>7, <3>1, <3>2 DEF WaitOK
  <2>2. HasAhead(d)' <=> HasAhead(d)
    BY <1>3, <1>4, <1>7 DEF HasAhead, PipeTypeOK
  <2> QED BY <1>3, <2>1, <2>2, StreamStays
<1> QED BY <1>7, <1>8, <1>9, <1>10

LEMMA DequeueKeeps == PipeInv /\ Dequeue => PipeInv'
<1> SUFFICES ASSUME PipeInv, Dequeue PROVE PipeInv'
  OBVIOUS
<1>1. at = "idle" /\ queue # <<>> /\ UNCHANGED stray
  BY DEF Dequeue
<1>2. PICK p \in PacketType : p = Head(queue) /\ p = queue[1]
  BY <1>1 DEF PipeInv, PipeTypeOK
<1>3. CASE p.op = "sync" /\ Ignored
  BY <1>1, <1>2, <1>3, IgnoredKeeps
<1>4. CASE p.op = "wait" /\ stray /\ Ignored
  BY <1>1, <1>2, <1>4, IgnoredKeeps
<1>5. CASE p.op = "wait" /\ Accept(peer[p.key], p) /\ queue' = Tail(queue)
  <2>1. PICK c : c = peer[p.key]
    OBVIOUS
  <2>2. Accept(c, p)
    BY <1>5, <2>1
  <2> QED BY <1>1, <1>2, <1>5, <2>1, <2>2, AcceptKeeps
<1>6. CASE p.op = "wait" /\ assoc[p.key] # Acceptor /\ Ignored
  BY <1>1, <1>2, <1>6, IgnoredKeeps
<1>7. CASE p.op \in ReadOps /\ p.n = 0 /\ NotifyClosed(p.of)
  BY <1>1, <1>2, <1>7, NotifyClosedKeeps
<1>8. CASE p.op \in ReadOps /\ p.n = 1 /\ NotifyRead(p.of)
  BY <1>1, <1>2, <1>8, NotifyReadKeeps
<1> QED BY <1>2, <1>3, <1>4, <1>5, <1>6, <1>7, <1>8 DEF Dequeue, ReadOps

-----------------------------------------------------------------------------
(***************************************************************************)
(* The thread in a connection                                              *)
(***************************************************************************)
\* The next read: a byte, one that is pending, or one that fails.
LEMMA TriggerKeeps == PipeInv /\ Trigger => PipeInv'
<1> SUFFICES ASSUME PipeInv, Trigger PROVE PipeInv'
  OBVIOUS
<1> USE DEF PipeInv
<1>1. PICK c \in Clients : c = cur
  BY DEF Trigger, ThreadOK
<1>2. /\ at = "trigger" /\ at' = "idle" /\ cur' = None
      /\ UNCHANGED <<inst, peer, waits, sent, hung, assoc, listener, handle, want, stray, empty, got>>
  BY DEF Trigger, trigger_async_cache_read
<1>3. ~HasRead(c) /\ handle[c] # NULL /\ c \notin pending /\ empty[c] /\ ~HasByte(c) /\ c # None
  BY <1>1, <1>2, ByteIsRead, Names DEF WaitOK, ThreadOK
<1>4. HandlesOK'
  BY <1>2, HandlesStay
<1>5. ThreadOK'
  BY <1>2 DEF ThreadOK
<1>6. CASE /\ pipe[c] # <<>>
           /\ byte0' = [byte0 EXCEPT ![c] = Head(pipe[c])]
           /\ pipe' = [pipe EXCEPT ![c] = Tail(@)]
           /\ Post(Packet(handle[c], c, "cache", 1))
           /\ UNCHANGED pending
  <2>1. /\ queue' \in Seq(PacketType) /\ QueueOK'
        /\ \A d \in Clients : HasRead(d)' <=> HasRead(d) \/ d = c
        /\ \A d \in Clients : HasByte(d)' <=> HasByte(d) \/ d = c
        /\ \A h \in Handles : HasWait(h)' <=> HasWait(h)
    BY <1>2, <1>3, <1>6, Posted DEF Post, ReadOps
  <2>2. pipe[c] \in Seq(Nat) /\ Head(pipe[c]) \in Nat /\ Tail(pipe[c]) \in Seq(Nat)
    BY <1>6 DEF PipeTypeOK
  <2>3. PipeTypeOK' /\ Armed'
    BY <1>2, <1>6, <2>1, <2>2, ArmedStays DEF PipeTypeOK
  <2>4. ASSUME NEW d \in Clients PROVE WaitOK(d)'
    <3>1. d \in pending => pipe'[d] = pipe[d] /\ d # cur' /\ d # c
      BY <1>2, <1>3, <1>6, Names DEF PipeTypeOK
    <3>2. d # cur'
      BY <1>2, Names
    <3> QED BY <1>1, <1>2, <1>3, <1>6, <2>1, <3>1, <3>2 DEF WaitOK
  <2>5. ASSUME NEW d \in Clients, d # c PROVE StreamOK(d)'
    <3>1. pipe'[d] = pipe[d] /\ byte0'[d] = byte0[d] /\ (HasAhead(d)' <=> HasAhead(d))
      BY <1>2, <1>6, <2>1, <2>5 DEF PipeTypeOK, HasAhead
    <3> QED BY <1>2, <3>1, StreamStays
  <2>6. StreamOK(c)'
    <3>1. StreamIs(got[c], 0, byte0[c], pipe[c], sent[c])
      BY <1>3 DEF StreamOK, AheadLen, HasAhead
    <3>2. /\ byte0'[c] = Head(pipe[c]) /\ pipe'[c] = Tail(pipe[c]) /\ got' = got /\ sent' = sent
          /\ got[c] \in Seq(Nat) /\ byte0[c] \in Nat /\ sent[c] \in Nat
      BY <1>2, <1>6 DEF PipeTypeOK
    <3>3. StreamIs(got'[c], 1, byte0'[c], pipe'[c], sent'[c])
      BY <1>6, <2>2, <3>1, <3>2, StreamMoves
    <3>4. AheadLen(c)' = 1
      BY <2>1 DEF AheadLen, HasAhead
    <3> QED BY <3>3, <3>4 DEF StreamOK
  <2> QED BY <1>4, <1>5, <2>1, <2>3, <2>4, <2>5, <2>6
<1>7. CASE /\ pipe[c] = <<>> /\ ~Broken(c)
           /\ pending' = pending \cup {c}
           /\ UNCHANGED <<byte0, pipe, queue>>
  <2>1. /\ QueueOK' /\ \A d \in Clients : (HasRead(d)' <=> HasRead(d)) /\ (HasByte(d)' <=> HasByte(d))
        /\ \A h \in Handles : HasWait(h)' <=> HasWait(h)
    BY <1>2, <1>7, QueueStays
  <2>2. PipeTypeOK' /\ Armed'
    BY <1>2, <1>7, <2>1, ArmedStays DEF PipeTypeOK
  <2>3. ASSUME NEW d \in Clients PROVE WaitOK(d)' /\ StreamOK(d)'
    <3>1. c \notin hung /\ d # cur'
      BY <1>2, <1>7, Names DEF Broken
    <3>2. WaitOK(d)'
      BY <1>1, <1>2, <1>3, <1>7, <2>1, <3>1 DEF WaitOK
    <3>3. HasAhead(d)' <=> HasAhead(d)
      BY <1>2, <2>1 DEF HasAhead
    <3> QED BY <1>2, <1>7, <3>2, <3>3, StreamStays
  <2> QED BY <1>4, <1>5, <2>1, <2>2, <2>3
<1>8. CASE /\ Broken(c)
           /\ Post(Packet(handle[c], c, "error", 0))
           /\ UNCHANGED <<byte0, pipe, pending>>
  <2>1. /\ queue' \in Seq(PacketType) /\ QueueOK'
        /\ \A d \in Clients : HasRead(d)' <=> HasRead(d) \/ d = c
        /\ \A d \in Clients : HasByte(d)' <=> HasByte(d)
        /\ \A h \in Handles : HasWait(h)' <=> HasWait(h)
    BY <1>2, <1>3, <1>8, Posted DEF Post, ReadOps, Broken
  <2>2. PipeTypeOK' /\ Armed'
    BY <1>2, <1>8, <2>1, ArmedStays DEF PipeTypeOK
  <2>3. ASSUME NEW d \in Clients PROVE WaitOK(d)' /\ StreamOK(d)'
    <3>1. d # cur'
      BY <1>2, Names
    <3>2. WaitOK(d)'
      BY <1>1, <1>2, <1>3, <1>8, <2>1, <3>1 DEF WaitOK
    <3>3. HasAhead(d)' <=> HasAhead(d)
      BY <1>2, <2>1 DEF HasAhead
    <3> QED BY <1>2, <1>8, <3>2, <3>3, StreamStays
  <2> QED BY <1>4, <1>5, <2>1, <2>2, <2>3
<1> QED BY <1>1, <1>6, <1>7, <1>8 DEF Trigger, trigger_async_cache_read

\* read() begins with the byte of the cache.
LEMMA TakeCacheKeeps ==
    ASSUME PipeInv, at = "callback", TakeCache(cur),
           UNCHANGED <<pipes, port, byte0, pending, cur, stray>>,
           want' \in Nat, \E next \in {"peeked", "block"} :
                              at' = IF want' > 0 THEN next ELSE "callback"
    PROVE  PipeInv'
<1> USE DEF PipeInv
<1>1. PICK c \in Clients : c = cur
  BY DEF ThreadOK
<1>2. /\ got' = [got EXCEPT ![c] = @ \o Cached(c)] /\ empty' = [empty EXCEPT ![c] = TRUE]
      /\ UNCHANGED <<inst, peer, waits, pipe, sent, hung, queue, assoc, listener, handle,
                     byte0, pending, cur, stray>>
  BY <1>1 DEF TakeCache, pipes, port
<1>3. HandlesOK'
  BY <1>2, HandlesStay
<1>4. /\ QueueOK' /\ \A d \in Clients : (HasRead(d)' <=> HasRead(d)) /\ (HasByte(d)' <=> HasByte(d))
      /\ \A h \in Handles : HasWait(h)' <=> HasWait(h)
  BY <1>2, QueueStays
<1>5. at' \in {"callback", "peeked", "block"} /\ (at' # "callback" => want' > 0)
  OBVIOUS
<1>6. Cached(c) \in Seq(Nat) /\ got[c] \in Seq(Nat) /\ got[c] \o Cached(c) \in Seq(Nat)
  BY DEF Cached, PipeTypeOK
<1>7. PipeTypeOK'
  BY <1>2, <1>5, <1>6 DEF PipeTypeOK
<1>8. ThreadOK'
  BY <1>1, <1>2, <1>5 DEF ThreadOK, PipeTypeOK
<1>9. Armed'
  BY <1>2, <1>4, <1>5 DEF Armed
<1>10. ASSUME NEW d \in Clients PROVE WaitOK(d)' /\ StreamOK(d)'
  <2>1. WaitOK(d)'
    BY <1>2, <1>4 DEF WaitOK
  <2>2. CASE d # c
    <3>1. got'[d] = got[d] /\ (HasAhead(d)' <=> HasAhead(d))
      BY <1>2, <1>4, <2>2 DEF HasAhead, PipeTypeOK
    <3> QED BY <1>2, <2>1, <3>1, StreamStays
  <2>3. CASE d = c
    <3>1. ~HasByte(c) /\ ~HasByte(c)' /\ empty'[c] = TRUE /\ got'[c] = got[c] \o Cached(c)
      BY <1>1, <1>2, <1>4, ByteIsRead DEF WaitOK, PipeTypeOK
    <3>2. byte0[c] \in Nat /\ pipe[c] \in Seq(Nat) /\ sent[c] \in Nat
      BY DEF PipeTypeOK
    <3>3. StreamIs(got'[c], 0, byte0[c], pipe[c], sent[c])
      <4>1. CASE empty[c]
        <5>1. got'[c] = got[c]
          BY <1>6, <3>1, <4>1 DEF Cached
        <5>2. AheadLen(c) = 0
          BY <3>1, <4>1 DEF AheadLen, HasAhead
        <5> QED BY <5>1, <5>2 DEF StreamOK
      <4>2. CASE ~empty[c]
        <5>1. AheadLen(c) = 1 /\ got'[c] = got[c] \o <<byte0[c]>>
          BY <3>1, <4>2 DEF AheadLen, HasAhead, Cached
        <5> QED BY <1>6, <3>2, <5>1, StreamMoves DEF StreamOK
      <4> QED BY <4>1, <4>2
    <3>4. AheadLen(c)' = 0
      BY <3>1 DEF AheadLen, HasAhead
    <3>5. StreamOK(c)'
      BY <1>2, <3>3, <3>4 DEF StreamOK
    <3> QED BY <2>1, <2>3, <3>5
  <2> QED BY <2>2, <2>3
<1> QED BY <1>3, <1>4, <1>7, <1>8, <1>9, <1>10

LEMMA CachedLen == ASSUME NEW c \in Clients PROVE Len(Cached(c)) \in {0, 1}
<1> QED BY DEF Cached

LEMMA ReadNowKeeps ==
    ASSUME PipeInv, NEW n \in 1 .. MaxWant, ReadNow(n)
    PROVE  PipeInv'
<1>1. PICK c \in Clients : c = cur
  BY DEF ReadNow, ThreadOK, PipeInv
<1>2. n \in Nat /\ n > 0 /\ Len(Cached(c)) \in {0, 1} /\ Len(pipe[c]) \in Nat
  BY NamedPipeAssumption, CachedLen DEF PipeInv, PipeTypeOK
<1>3. want' = Least(n - Len(Cached(c)), Len(pipe[c]))
  BY <1>1 DEF ReadNow
<1> DEFINE m == Len(Cached(c)) k == Len(pipe[c])
<1>4. m \in {0, 1} /\ k \in Nat /\ want' = Least(n - m, k)
  BY <1>2, <1>3
<1> HIDE DEF m, k
<1>5. want' \in Nat
  BY <1>2, <1>4 DEF Least
<1>6. at = "callback" /\ at' = (IF want' > 0 THEN "peeked" ELSE "callback")
  BY DEF ReadNow
<1> QED BY <1>5, <1>6, TakeCacheKeeps DEF ReadNow

LEMMA ReadAllKeeps ==
    ASSUME PipeInv, NEW n \in 1 .. MaxWant, ReadAll(n)
    PROVE  PipeInv'
<1>1. PICK c \in Clients : c = cur
  BY DEF ReadAll, ThreadOK, PipeInv
<1>2. n \in Nat /\ n > 0 /\ Len(Cached(c)) \in {0, 1}
  BY NamedPipeAssumption, CachedLen
<1>3. want' = n - Len(Cached(c))
  BY <1>1 DEF ReadAll
<1> DEFINE m == Len(Cached(c))
<1>4. m \in {0, 1} /\ want' = n - m
  BY <1>2, <1>3
<1> HIDE DEF m
<1>5. want' \in Nat
  BY <1>2, <1>4
<1>6. at = "callback" /\ at' = (IF want' > 0 THEN "block" ELSE "callback")
  BY DEF ReadAll
<1> QED BY <1>5, <1>6, TakeCacheKeeps DEF ReadAll

\* ReadFile() hands over the first bytes of the pipe.
LEMMA ReadFileKeeps == PipeInv /\ ReadFile => PipeInv'
<1> SUFFICES ASSUME PipeInv, ReadFile PROVE PipeInv'
  OBVIOUS
<1> USE DEF PipeInv
<1>1. PICK c \in Clients : c = cur
  BY DEF ReadFile, ThreadOK
<1> DEFINE n == Least(want, Len(pipe[c]))
<1>2. /\ at \in {"peeked", "block"} /\ pipe[c] # <<>>
      /\ got' = [got EXCEPT ![c] = @ \o SubSeq(pipe[c], 1, n)]
      /\ pipe' = [pipe EXCEPT ![c] = SubSeq(@, n + 1, Len(@))]
      /\ want' = IF at = "peeked" THEN 0 ELSE want - n
      /\ queue' = Append(queue, Packet(handle[c], c, "sync", 0))
      /\ at' = IF want' = 0 THEN "callback" ELSE "block"
      /\ UNCHANGED <<inst, peer, waits, sent, hung, assoc, listener, handle, empty, byte0, pending, cur, stray>>
  BY <1>1 DEF ReadFile, Post
<1>3. want \in Nat /\ want > 0 /\ pipe[c] \in Seq(Nat) /\ got[c] \in Seq(Nat) /\ sent[c] \in Nat /\ byte0[c] \in Nat
  BY <1>2 DEF ThreadOK, PipeTypeOK
<1>4. n \in 1 .. Len(pipe[c]) /\ n \in Nat /\ want - n \in Nat
  <2>1. Len(pipe[c]) \in Nat /\ Len(pipe[c]) > 0
    BY <1>2, <1>3
  <2> QED BY <1>3, <2>1 DEF Least
<1> HIDE DEF n
<1>5. ~HasRead(c) /\ ~HasByte(c) /\ handle[c] # NULL /\ c \notin pending /\ empty[c]
  BY <1>1, <1>2, ByteIsRead DEF WaitOK, ThreadOK
<1>6. /\ queue' \in Seq(PacketType) /\ QueueOK'
      /\ \A d \in Clients : (HasRead(d)' <=> HasRead(d)) /\ (HasByte(d)' <=> HasByte(d))
      /\ \A h \in Handles : HasWait(h)' <=> HasWait(h)
  BY <1>2, <1>5, Posted DEF ReadOps
<1>7. /\ got[c] \o SubSeq(pipe[c], 1, n) \in Seq(Nat)
      /\ SubSeq(pipe[c], n + 1, Len(pipe[c])) \in Seq(Nat)
  BY <1>3, <1>4
<1>8. want' \in Nat /\ at' \in {"callback", "block"} /\ (at' = "block" => want' > 0)
  BY <1>2, <1>3, <1>4
<1>9. PipeTypeOK'
  BY <1>2, <1>6, <1>7, <1>8 DEF PipeTypeOK
<1>10. HandlesOK'
  BY <1>2, HandlesStay
<1>11. ThreadOK'
  <2>1. \A d \in Clients : empty'[d]
    BY <1>2 DEF ThreadOK
  <2> QED BY <1>1, <1>2, <1>8, <2>1 DEF ThreadOK
<1>12. Armed'
  BY <1>2, <1>6, ArmedStays
<1>13. ASSUME NEW d \in Clients PROVE WaitOK(d)' /\ StreamOK(d)'
  <2>1. WaitOK(d)'
    <3>1. d \in pending => pipe'[d] = pipe[d]
      BY <1>2, <1>5 DEF PipeTypeOK
    <3> QED BY <1>2, <1>6, <3>1 DEF WaitOK
  <2>2. CASE d # c
    <3>1. got'[d] = got[d] /\ pipe'[d] = pipe[d] /\ (HasAhead(d)' <=> HasAhead(d))
      BY <1>2, <1>6, <2>2 DEF HasAhead, PipeTypeOK
    <3> QED BY <1>2, <2>1, <3>1, StreamStays
  <2>3. CASE d = c
    <3>1. AheadLen(c) = 0 /\ AheadLen(c)' = 0
      BY <1>2, <1>5, <1>6 DEF AheadLen, HasAhead
    <3>2. StreamIs(got[c], 0, byte0[c], pipe[c], sent[c])
      BY <3>1 DEF StreamOK
    <3>3. /\ got'[c] = got[c] \o SubSeq(pipe[c], 1, n)
          /\ pipe'[c] = SubSeq(pipe[c], n + 1, Len(pipe[c]))
      BY <1>2 DEF PipeTypeOK
    <3>4. StreamIs(got'[c], 0, byte0[c], pipe'[c], sent[c])
      BY <1>3, <1>4, <3>2, <3>3, StreamMoves
    <3>5. StreamOK(c)'
      BY <1>2, <3>1, <3>4 DEF StreamOK
    <3> QED BY <2>1, <2>3, <3>5
  <2> QED BY <2>2, <2>3
<1> QED BY <1>6, <1>9, <1>10, <1>11, <1>12, <1>13

\* A packet of a synchronous call changes nothing else.
LEMMA SyncKeeps ==
    ASSUME PipeInv, at \in {"callback", "block", "write"}, at' = "callback", want' \in Nat,
           NEW c \in Clients, c = cur,
           queue' \in {queue, Append(queue, Packet(handle[c], c, "sync", 0))},
           UNCHANGED <<pipes, assoc, listener, handle, cache, cur, stray>>
    PROVE  PipeInv'
<1> USE DEF PipeInv
<1>1. ~HasRead(c) /\ handle[c] # NULL
  BY DEF WaitOK
<1>2. UNCHANGED <<inst, peer, waits, pipe, sent, hung, assoc, listener, handle, empty, byte0, pending, got, cur, stray>>
  BY DEF pipes, cache
<1>3. /\ queue' \in Seq(PacketType) /\ QueueOK'
      /\ \A d \in Clients : (HasRead(d)' <=> HasRead(d)) /\ (HasByte(d)' <=> HasByte(d))
      /\ \A h \in Handles : HasWait(h)' <=> HasWait(h)
  <2>1. CASE queue' = queue
    BY <1>2, <2>1, QueueStays DEF PipeTypeOK
  <2>2. CASE queue' = Append(queue, Packet(handle[c], c, "sync", 0))
    BY <1>1, <1>2, <2>2, Posted DEF ReadOps
  <2> QED BY <2>1, <2>2
<1>4. PipeTypeOK' /\ HandlesOK' /\ Armed'
  BY <1>2, <1>3, HandlesStay, ArmedStays DEF PipeTypeOK
<1>5. ThreadOK'
  BY <1>2 DEF ThreadOK
<1>6. ASSUME NEW d \in Clients PROVE WaitOK(d)' /\ StreamOK(d)'
  <2>1. WaitOK(d)'
    BY <1>2, <1>3 DEF WaitOK
  <2>2. HasAhead(d)' <=> HasAhead(d)
    BY <1>2, <1>3 DEF HasAhead
  <2> QED BY <1>2, <2>1, <2>2, StreamStays
<1> QED BY <1>3, <1>4, <1>5, <1>6

LEMMA ReadFileFailsKeeps == PipeInv /\ ReadFileFails => PipeInv'
<1> SUFFICES ASSUME PipeInv, ReadFileFails PROVE PipeInv'
  OBVIOUS
<1>1. PICK c \in Clients : c = cur
  BY DEF PipeInv, ReadFileFails, ThreadOK
<1> QED BY <1>1, SyncKeeps DEF ReadFileFails

LEMMA WriteReturnsKeeps == PipeInv /\ WriteReturns => PipeInv'
<1> SUFFICES ASSUME PipeInv, WriteReturns PROVE PipeInv'
  OBVIOUS
<1>1. PICK c \in Clients : c = cur
  BY DEF PipeInv, WriteReturns, ThreadOK
<1>2. want' = want /\ want \in Nat
  BY DEF PipeInv, WriteReturns, PipeTypeOK
<1> QED BY <1>1, <1>2, SyncKeeps DEF WriteReturns, Post

LEMMA WriteKeeps == PipeInv /\ Write /\ at' = at => PipeInv'
<1> SUFFICES ASSUME PipeInv, Write, at' = at PROVE PipeInv'
  OBVIOUS
<1>1. PICK c \in Clients : c = cur
  BY DEF PipeInv, Write, ThreadOK
<1>2. at = "callback" /\ at' = at /\ want' = want /\ want \in Nat
  BY DEF PipeInv, Write, PipeTypeOK
<1>3. queue' = Append(queue, Packet(handle[c], c, "sync", 0))
  BY <1>1, <1>2 DEF Write, Post
<1> QED BY <1>1, <1>2, <1>3, SyncKeeps DEF Write

\* The callback returns, a write() begins to wait, or nothing happens.
LEMMA ReturnKeeps ==
    PipeInv /\ (Return \/ (Write /\ at' # at) \/ UNCHANGED vars) => PipeInv'
<1> SUFFICES ASSUME PipeInv, Return \/ (Write /\ at' # at) \/ UNCHANGED vars PROVE PipeInv'
  OBVIOUS
<1> USE DEF PipeInv
<1>1. UNCHANGED <<inst, peer, waits, pipe, sent, hung, queue, assoc, listener, handle,
                  empty, byte0, pending, got, cur, want, stray>>
  BY DEF Return, Write, vars, pipes, port, cache
<1>2. \/ at' = at
      \/ at = "callback" /\ at' = "trigger" /\ \A d \in Clients : empty[d]
      \/ at = "callback" /\ at' = "write"
  BY DEF Return, Write, vars, ThreadOK
<1>3. /\ QueueOK' /\ \A d \in Clients : (HasRead(d)' <=> HasRead(d)) /\ (HasByte(d)' <=> HasByte(d))
      /\ \A h \in Handles : HasWait(h)' <=> HasWait(h)
  BY <1>1, QueueStays
<1>4. PipeTypeOK' /\ HandlesOK' /\ Armed'
  BY <1>1, <1>2, <1>3, HandlesStay, ArmedStays DEF PipeTypeOK
<1>5. ThreadOK'
  BY <1>1, <1>2 DEF ThreadOK
<1>6. ASSUME NEW d \in Clients PROVE WaitOK(d)' /\ StreamOK(d)'
  <2>1. WaitOK(d)'
    BY <1>1, <1>3 DEF WaitOK
  <2>2. HasAhead(d)' <=> HasAhead(d)
    BY <1>1, <1>3 DEF HasAhead
  <2> QED BY <1>1, <2>1, <2>2, StreamStays
<1> QED BY <1>3, <1>4, <1>5, <1>6

LEMMA PipeHolds == Spec => []PipeInv
<1>1. PipeInv /\ [Next]_vars => PipeInv'
  <2> SUFFICES ASSUME PipeInv, [Next]_vars PROVE PipeInv'
    OBVIOUS
  <2>1. CASE Dequeue \/ Arm \/ Announce \/ Trigger
    BY <2>1, DequeueKeeps, ArmKeeps, AnnounceKeeps, TriggerKeeps
  <2>2. CASE \E n \in 1 .. MaxWant : ReadNow(n) \/ ReadAll(n)
    BY <2>2, ReadNowKeeps, ReadAllKeeps
  <2>3. CASE ReadFile \/ ReadFileFails \/ Write \/ WriteReturns \/ Return \/ UNCHANGED vars
    BY <2>3, ReadFileKeeps, ReadFileFailsKeeps, WriteKeeps, WriteReturnsKeeps, ReturnKeeps
  <2>4. CASE \E c \in Clients : Connect(c) \/ Send(c) \/ HangUp(c)
    BY <2>4, ConnectKeeps, SendKeeps, HangUpKeeps
  <2> QED BY <2>1, <2>2, <2>3, <2>4 DEF Next, Service, Client, WriteFails, Receive
<1> QED BY <1>1, PipeInitHolds, PTL DEF Spec

-----------------------------------------------------------------------------
(***************************************************************************)
(* What follows from the invariant                                         *)
(***************************************************************************)
\* read() of ipc_connection gives a callback what the client has written, in
\* its order: the byte that is read ahead (trigger_async_cache_read) is
\* neither lost nor given twice.
THEOREM CallbacksReadTheStream == Spec => []ByteStream
<1> DEFINE Joined(g, s, q, n) ==
               /\ Len(g) + Len(s) + Len(q) = n /\ \A i \in 1 .. Len(g) : g[i] = i
               /\ \A i \in 1 .. Len(s) : s[i] = Len(g) + i
               /\ \A i \in 1 .. Len(q) : q[i] = Len(g) + Len(s) + i
<1>1. ASSUME NEW g \in Seq(Nat), NEW s \in Seq(Nat), NEW q \in Seq(Nat), NEW n \in Nat, Joined(g, s, q, n)
      PROVE  g \o s \o q = [i \in 1 .. n |-> i]
  <2> DEFINE u == g \o s  v == u \o q  a == Len(g)  b == Len(s)  c == Len(q)
  <2>1. /\ u \in Seq(Nat) /\ Len(u) = a + b
        /\ \A i \in 1 .. a + b : u[i] = IF i <= a THEN g[i] ELSE s[i - a]
    BY ConcatProperties
  <2> HIDE DEF u
  <2>9. u \in Seq(Nat) /\ q \in Seq(Nat)
    BY <2>1
  <2>2. /\ v \in Seq(Nat) /\ Len(v) = Len(u) + c
        /\ \A i \in 1 .. Len(u) + c : v[i] = IF i <= Len(u) THEN u[i] ELSE q[i - Len(u)]
    BY ONLY <2>9, ConcatProperties
  <2>3. a \in Nat /\ b \in Nat /\ c \in Nat /\ a + b + c = n
    BY <1>1
  <2>4. /\ \A i \in 1 .. a : g[i] = i
        /\ \A i \in 1 .. b : s[i] = a + i
        /\ \A i \in 1 .. c : q[i] = a + b + i
    BY <1>1
  <2> HIDE DEF a, b, c, v
  <2>5. ASSUME NEW i \in 1 .. a + b PROVE u[i] = i
    <3>1. CASE i <= a
      BY ONLY <2>1, <2>3, <2>4, <3>1, i \in 1 .. a + b
    <3>2. CASE ~(i <= a)
      <4>1. i - a \in 1 .. b /\ a + (i - a) = i
        BY ONLY <2>3, <3>2, i \in 1 .. a + b
      <4> QED BY ONLY <2>1, <2>4, <3>2, <4>1, i \in 1 .. a + b
    <3> QED BY <3>1, <3>2
  <2>6. ASSUME NEW i \in 1 .. n PROVE v[i] = i
    <3>1. CASE i <= a + b
      <4>1. i \in 1 .. a + b /\ i \in 1 .. a + b + c
        BY ONLY <2>3, <3>1, i \in 1 .. n
      <4> QED BY ONLY <2>1, <2>2, <2>5, <3>1, <4>1
    <3>2. CASE ~(i <= a + b)
      <4>1. i - (a + b) \in 1 .. c /\ a + b + (i - (a + b)) = i /\ i \in 1 .. a + b + c
        BY ONLY <2>3, <3>2, i \in 1 .. n
      <4> QED BY ONLY <2>1, <2>2, <2>4, <3>2, <4>1
    <3> QED BY <3>1, <3>2
  <2>7. Len(v) = n
    BY ONLY <2>1, <2>2, <2>3
  <2>8. v = [i \in 1 .. n |-> i]
    BY <2>2, <2>6, <2>7
  <2> QED BY <2>8 DEF u, v
<1>2. PipeInv => ByteStream
  <2> HIDE DEF Joined
  <2> SUFFICES ASSUME PipeInv, NEW c \in Clients
               PROVE  got[c] \o Ahead(c) \o pipe[c] = [i \in 1 .. sent[c] |-> i]
    BY DEF ByteStream
  <2>1. HasAhead(c) <=> ~empty[c] \/ \E p \in Packets : p.of = c /\ p.op = "cache" /\ p.n = 1
    <3>1. DOMAIN queue = 1 .. Len(queue)
      BY DEF PipeInv, PipeTypeOK
    <3> QED BY <3>1 DEF HasAhead, HasByte, Packets
  <2>2. Ahead(c) = IF HasAhead(c) THEN <<byte0[c]>> ELSE <<>>
    BY <2>1 DEF Ahead
  <2>3. PICK g \in Seq(Nat), q \in Seq(Nat), n \in Nat, x \in Nat :
            g = got[c] /\ q = pipe[c] /\ n = sent[c] /\ x = byte0[c]
    BY DEF PipeInv, PipeTypeOK
  <2>4. StreamIs(g, AheadLen(c), x, q, n)
    BY <2>3 DEF PipeInv, StreamOK
  <2>5. CASE HasAhead(c)
    <3> DEFINE s == <<x>>
    <3>1. s \in Seq(Nat) /\ Len(s) = 1 /\ s[1] = x
      OBVIOUS
    <3>2. Ahead(c) = s /\ AheadLen(c) = 1
      BY <2>2, <2>3, <2>5 DEF AheadLen
    <3> HIDE DEF s
    <3>3. /\ Len(g) + Len(s) + Len(q) = n /\ x = Len(g) + 1
          /\ \A i \in 1 .. Len(g) : g[i] = i
          /\ \A i \in 1 .. Len(q) : q[i] = Len(g) + Len(s) + i
      BY <2>4, <3>1, <3>2 DEF StreamIs
    <3>4. \A i \in 1 .. Len(s) : s[i] = Len(g) + i
      BY <3>1, <3>3
    <3>5. Joined(g, s, q, n)
      BY ONLY <3>3, <3>4 DEF Joined
    <3>6. g \o s \o q = [i \in 1 .. n |-> i]
      BY ONLY <1>1, <3>1, <3>5, g \in Seq(Nat), q \in Seq(Nat), n \in Nat
    <3> QED BY ONLY <2>3, <3>2, <3>6
  <2>6. CASE ~HasAhead(c)
    <3> DEFINE s == <<>>
    <3>1. s \in Seq(Nat) /\ Len(s) = 0
      OBVIOUS
    <3>2. Ahead(c) = s /\ AheadLen(c) = 0
      BY <2>2, <2>6 DEF AheadLen
    <3> HIDE DEF s
    <3>3. /\ Len(g) + Len(s) + Len(q) = n
          /\ \A i \in 1 .. Len(g) : g[i] = i
          /\ \A i \in 1 .. Len(q) : q[i] = Len(g) + Len(s) + i
      BY <2>4, <3>1, <3>2 DEF StreamIs
    <3>4. \A i \in 1 .. Len(s) : s[i] = Len(g) + i
      BY <3>1
    <3>5. Joined(g, s, q, n)
      BY ONLY <3>3, <3>4 DEF Joined
    <3>6. g \o s \o q = [i \in 1 .. n |-> i]
      BY ONLY <1>1, <3>1, <3>5, g \in Seq(Nat), q \in Seq(Nat), n \in Nat
    <3> QED BY ONLY <2>3, <3>2, <3>6
  <2> QED BY <2>5, <2>6
<1> QED BY <1>2, PipeHolds, PTL

\* run() finds a connection for every packet, and it is the one that has
\* asked, although handles are used again: assert(pio != NULL).
THEOREM NoPacketOutlivesItsConnection == Spec => []PacketsHaveOwners
<1>1. PipeInv => PacketsHaveOwners
  <2> SUFFICES ASSUME PipeInv, NEW p \in Packets
               PROVE  /\ assoc[p.key] # None
                      /\ p.of # Acceptor => handle[p.of] = p.key /\ assoc[p.key] = p.of
    BY DEF PacketsHaveOwners
  <2>1. PacketOK(p) /\ p \in PacketType
    <3>1. queue \in Seq(PacketType) /\ \A i \in 1 .. Len(queue) : PacketOK(queue[i])
      BY DEF PipeInv, PipeTypeOK, QueueOK
    <3>2. PICK i \in 1 .. Len(queue) : p = queue[i]
      BY <3>1 DEF Packets
    <3>3. PacketOK(queue[i]) /\ queue[i] \in PacketType
      BY <3>1
    <3> QED BY ONLY <3>2, <3>3
  <2>2. p.key \in Handles /\ p.of \in Clients \cup {Acceptor}
    BY <2>1 DEF PacketType
  <2> QED BY <2>1, <2>2, Names DEF PipeInv, HandlesOK, PacketOK
<1> QED BY <1>1, PipeHolds, PTL

\* notify() and its callbacks keep exactly one read going for a connection, so
\* that assert(m_cache_empty == true) holds and no client is forgotten.
THEOREM OneReadIsPending == Spec => []OneReadEach
<1>1. PipeInv => OneReadEach
  <2> SUFFICES ASSUME PipeInv PROVE OneReadEach
    OBVIOUS
  <2> USE DEF PipeInv
  <2>1. ASSUME NEW c \in Clients
        PROVE  Count(c) + Cardinality({c} \cap pending) + Cardinality({c} \cap {cur})
                   = (IF handle[c] = NULL THEN 0 ELSE 1)
    <3> DEFINE I == {i \in DOMAIN queue : queue[i].of = c /\ queue[i].op \in {"cache", "error"}}
    <3>1. DOMAIN queue = 1 .. Len(queue) /\ Len(queue) \in Nat
      BY DEF PipeTypeOK
    <3>2. HasRead(c) <=> I # {}
      BY <3>1 DEF HasRead, ReadOps
    <3>3. ASSUME NEW i \in I, NEW j \in I, i < j PROVE FALSE
      <4>1. PacketOK(queue[i]) /\ PacketOK(queue[j]) /\ queue[i].of = c /\ queue[j].of = c
        BY <3>1 DEF QueueOK
      <4>2. queue[i].key = handle[c] /\ queue[j].key = handle[c]
        BY <4>1, Names DEF PacketOK
      <4> QED BY <3>1, <3>3, <4>2 DEF QueueOK, ReadOps
    <3>4. I = {} \/ \E i \in I : I = {i}
      <4>1. \A i, j \in I : i \in Int /\ j \in Int
        BY <3>1
      <4> QED BY <3>3, <4>1
    <3>5. Count(c) = (IF HasRead(c) THEN 1 ELSE 0)
      BY <3>2, <3>4, FS_EmptySet, FS_Singleton DEF Count
    <3>6. Cardinality({c} \cap pending) = (IF c \in pending THEN 1 ELSE 0)
      <4>1. {c} \cap pending = (IF c \in pending THEN {c} ELSE {})
        OBVIOUS
      <4> QED BY <4>1, FS_EmptySet, FS_Singleton
    <3>7. Cardinality({c} \cap {cur}) = (IF c = cur THEN 1 ELSE 0)
      <4>1. {c} \cap {cur} = (IF c = cur THEN {c} ELSE {})
        OBVIOUS
      <4> QED BY <4>1, FS_EmptySet, FS_Singleton
    <3>8. WaitOK(c)
      OBVIOUS
    <3> HIDE DEF I, PipeInv
    <3> QED BY <3>5, <3>6, <3>7, <3>8 DEF WaitOK
  <2>2. at = "trigger" => empty[cur]
    BY DEF ThreadOK
  <2> QED BY <2>1, <2>2 DEF OneReadEach
<1> QED BY <1>1, PipeHolds, PTL

\* The thread never goes back to the port with an acceptor that hears of
\* nobody, although notify() and listen() both call wait_for_connection().
THEOREM AcceptorHearsOfTheNext == Spec => []AcceptorIsArmed
<1>1. PipeInv => AcceptorIsArmed
  <2>1. PipeInv => (HasWait(listener) => \E p \in Packets : p.key = listener /\ p.op = "wait")
    BY DEF PipeInv, PipeTypeOK, HasWait, Packets
  <2> QED BY <2>1 DEF AcceptorIsArmed, PipeInv, PipeTypeOK, Armed
<1> QED BY <1>1, PipeHolds, PTL

=============================================================================
