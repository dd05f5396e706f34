------------------------- MODULE ReverseDeviceProofs -------------------------
(***************************************************************************)
(* What ReverseDevice keeps for any readers, writers, sizes and buffer.    *)
(*                                                                         *)
(* The invariant is in three parts: the types with what the mutex excludes,*)
(* where the pointers are while a writer stores them, and which bytes are  *)
(* in the buffer.                                                          *)
(***************************************************************************)
EXTENDS ReverseDevice, TLAPS

-----------------------------------------------------------------------------
\* The two halves of TypeOK: where the threads are, and what is stored.
Places ==
    /\ lock \in Thread \cup {NoThread}
    /\ pc \in [Thread -> ReaderPc \cup WriterPc]
    /\ \A r \in Readers : pc[r] \in ReaderPc
    /\ \A w \in Writers : pc[w] \in WriterPc
    /\ \A t \in Thread : lock = t <=> pc[t] \in InStores \cup {"locked"}
    /\ queue \subseteq {r \in Readers : pc[r] \in {"load", "compare", "asleep"}}

Contents ==
    /\ data \in [1..BufferSize -> Byte]
    /\ readPtr \in 0..BufferSize /\ end \in 0..BufferSize /\ len \in 0..BufferSize
    /\ seen \in [Readers -> 0..BufferSize]
    /\ nwrites \in Nat
    /\ accepted \subseteq Byte
    /\ faulted \subseteq 1..nwrites
    /\ BytesOf(taken) \subseteq Byte
    /\ again \subseteq Byte

\* Every step moves one thread, and takes or releases the mutex and enters or
\* leaves the queue where the code does.
LEMMA PlacesKept == Places /\ [Next]_vars => Places'
<1> USE ReverseDeviceAssumption DEF Places, Thread, InStores, Goto, ReaderPc, WriterPc
<1> SUFFICES ASSUME Places, [Next]_vars PROVE Places'
  OBVIOUS
<1>1. ASSUME NEW t \in Thread, Call(t) \/ LockInterrupted(t) PROVE Places'
  BY <1>1 DEF Call, LockInterrupted
<1>2. ASSUME NEW t \in Thread, Lock(t) PROVE Places'
  BY <1>2 DEF Lock
<1>3. ASSUME NEW r \in Readers, NEW n \in ReadSizes, ReadCopy(r, n) PROVE Places'
  BY <1>3 DEF ReadCopy
<1>4. ASSUME NEW r \in Readers, ReadEmpty(r) PROVE Places'
  <2>1. CASE r \in NonBlock
    BY <1>4, <2>1 DEF ReadEmpty
  <2>2. CASE r \notin NonBlock
    BY <1>4, <2>2 DEF ReadEmpty
  <2> QED BY <2>1, <2>2
<1>5. ASSUME NEW r \in Readers, ReadFault(r) PROVE Places'
  BY <1>5 DEF ReadFault
<1>6. ASSUME NEW r \in Readers, Prepare(r) PROVE Places'
  BY <1>6 DEF Prepare
<1>7. ASSUME NEW r \in Readers, LoadReadPtr(r) PROVE Places'
  BY <1>7 DEF LoadReadPtr
<1>8. ASSUME NEW r \in Readers, Leave(r) PROVE Places'
  BY <1>8 DEF Leave
<1>9. ASSUME NEW r \in Readers, Sleep(r) \/ Awake(r) PROVE Places'
  BY <1>9 DEF Sleep, Awake
<1>10. ASSUME NEW r \in Readers, WaitInterrupted(r) PROVE Places'
  BY <1>10 DEF WaitInterrupted
<1>11. ASSUME NEW w \in Writers, NEW n \in WriteSizes, WriteCopy(w, n) PROVE Places'
  BY <1>11 DEF WriteCopy
<1>12. ASSUME NEW w \in Writers, NEW n \in WriteSizes, NEW m \in 0..n, WriteFault(w, n, m)
       PROVE  Places'
  <2>1. pc[w] = "locked" /\ pc' = [pc EXCEPT ![w] = "out"] /\ lock' = NoThread /\ queue' = queue
    BY <1>12 DEF WriteFault
  <2>2. w \in Thread /\ w \notin Readers /\ lock = w
    BY <2>1
  <2>3. \A t \in Thread : pc'[t] = IF t = w THEN "out" ELSE pc[t]
    BY <2>1
  <2>4. \A t \in Thread : lock' = t <=> pc'[t] \in InStores \cup {"locked"}
    BY <2>1, <2>2, <2>3
  <2>5. queue' \subseteq {r \in Readers : pc'[r] \in {"load", "compare", "asleep"}}
    BY <2>1, <2>2, <2>3
  <2> QED BY <2>1, <2>3, <2>4, <2>5
<1>13. ASSUME NEW w \in Writers, StoreEnd(w) PROVE Places'
  BY <1>13 DEF StoreEnd
<1>14. ASSUME NEW w \in Writers, StoreReadPtr(w) PROVE Places'
  BY <1>14 DEF StoreReadPtr
<1>15. ASSUME NEW w \in Writers, WakeUp(w) PROVE Places'
  BY <1>15 DEF WakeUp
<1>16. CASE UNCHANGED vars
  BY <1>16 DEF vars
<1> QED
  BY <1>1, <1>2, <1>3, <1>4, <1>5, <1>6, <1>7, <1>8, <1>9, <1>10, <1>11, <1>12, <1>13,
     <1>14, <1>15, <1>16 DEF Next, Read, Write

\* What a write leaves in the buffer are bytes.
LEMMA OverwrittenIsData ==
    ASSUME Contents, NEW n \in Nat, NEW m \in Nat, NEW k \in Nat
    PROVE  Overwritten(n, m, k) \in [1..BufferSize -> Byte]
<1>1. ASSUME NEW i \in 1..BufferSize
      PROVE  (IF i > n THEN data[i] ELSE [write |-> IF i <= m THEN k ELSE 0, at |-> i]) \in Byte
  <2>1. CASE i > n
    BY <2>1 DEF Contents
  <2>2. CASE ~(i > n)
    BY <2>2 DEF Byte
  <2> QED BY <2>1, <2>2
<1> QED BY <1>1 DEF Overwritten

\* What a read copies are bytes of the buffer.
LEMMA ChunkFacts ==
    ASSUME Contents, NEW n \in Nat
    PROVE  /\ readPtr + ReadSize(n) \in 0..BufferSize
           /\ \A b \in BytesOf({Chunk(n)}) :
                b \in Byte /\ \E i \in 1..ReadSize(n) : b = data[readPtr + i]
           /\ \A i \in 1..ReadSize(n) : readPtr + i \in 1..BufferSize /\ readPtr + i <= end
<1> USE ReverseDeviceAssumption
<1>1. readPtr + ReadSize(n) \in 0..BufferSize
  BY DEF Contents, ReadSize, Smaller
<1>2. \A i \in 1..ReadSize(n) : readPtr + i \in 1..BufferSize /\ readPtr + i <= end
  BY DEF Contents, ReadSize, Smaller
<1>3. ASSUME NEW b \in BytesOf({Chunk(n)}) PROVE \E i \in 1..ReadSize(n) : b = data[readPtr + i]
  <2>1. b \in {Chunk(n)[i] : i \in DOMAIN Chunk(n)}
    BY Zenon DEF BytesOf
  <2>2. PICK i \in 1..ReadSize(n) : b = Chunk(n)[i]
    BY <2>1 DEF Chunk
  <2> QED BY <2>2 DEF Chunk
<1>4. \A i \in 1..BufferSize : data[i] \in Byte
  BY DEF Contents
<1> QED BY <1>1, <1>2, <1>3, <1>4

\* The stored values keep their types.
LEMMA ContentsKept == Contents /\ [Next]_vars => Contents'
<1> USE ReverseDeviceAssumption
<1> SUFFICES ASSUME Contents, [Next]_vars PROVE Contents'
  OBVIOUS
<1>1. CASE UNCHANGED <<buffer, seen, writes, reads>>
  BY <1>1 DEF Contents, buffer, writes, reads, BytesOf
<1>2. ASSUME NEW r \in Readers, NEW n \in ReadSizes, ReadCopy(r, n) PROVE Contents'
  <2>1. n \in Nat /\ BytesOf({Chunk(n)}) \subseteq Byte /\ readPtr' \in 0..BufferSize
    BY <1>2, ChunkFacts DEF ReadCopy
  <2>2. BytesOf(taken') \subseteq Byte /\ again' \subseteq Byte
    BY <1>2, <2>1 DEF ReadCopy, Return, BytesOf, Contents
  <2> QED BY <1>2, <2>1, <2>2 DEF ReadCopy, Contents, writes
<1>3. ASSUME NEW r \in Readers, LoadReadPtr(r) \/ Leave(r) \/ Sleep(r) PROVE Contents'
  <2>1. seen' \in [Readers -> 0..BufferSize]
    <3>1. 0 \in 0..BufferSize /\ readPtr \in 0..BufferSize /\ seen \in [Readers -> 0..BufferSize]
      BY DEF Contents
    <3> QED BY <1>3, <3>1 DEF LoadReadPtr, Leave, Sleep
  <2>2. UNCHANGED <<buffer, writes, reads>>
    BY <1>3 DEF LoadReadPtr, Leave, Sleep
  <2> QED BY <2>1, <2>2 DEF Contents, buffer, writes, reads, BytesOf
<1>4. ASSUME NEW w \in Writers, NEW n \in WriteSizes, WriteCopy(w, n) PROVE Contents'
  <2>1. data' \in [1..BufferSize -> Byte]
    BY <1>4, OverwrittenIsData DEF WriteCopy, Contents
  <2>2. n \in 0..BufferSize /\ nwrites + 1 \in Nat /\ faulted \subseteq 1..(nwrites + 1)
    BY <1>4 DEF WriteCopy, Contents
  <2>3. UNCHANGED <<readPtr, end, seen, accepted, faulted, reads>> /\ len' = n /\ nwrites' = nwrites + 1
    BY <1>4 DEF WriteCopy
  <2> QED BY <2>1, <2>2, <2>3 DEF Contents, reads, BytesOf
<1>5. ASSUME NEW w \in Writers, NEW n \in WriteSizes, NEW m \in 0..n, WriteFault(w, n, m)
      PROVE  Contents'
  <2>1. data' \in [1..BufferSize -> Byte]
    BY <1>5, OverwrittenIsData DEF WriteFault, Contents
  <2>2. nwrites + 1 \in Nat /\ faulted \cup {nwrites + 1} \subseteq 1..(nwrites + 1)
    BY DEF Contents
  <2>3. /\ UNCHANGED <<readPtr, end, len, seen, accepted, reads>>
        /\ faulted' = faulted \cup {nwrites + 1} /\ nwrites' = nwrites + 1
    BY <1>5 DEF WriteFault
  <2> QED BY <2>1, <2>2, <2>3 DEF Contents, reads, BytesOf
<1>6. ASSUME NEW w \in Writers, StoreEnd(w) \/ StoreReadPtr(w) PROVE Contents'
  <2>1. readPtr' \in 0..BufferSize /\ end' \in 0..BufferSize
    <3>1. 0 \in 0..BufferSize /\ readPtr \in 0..BufferSize /\ end \in 0..BufferSize
          /\ len \in 0..BufferSize
      BY DEF Contents
    <3>2. (end' = len \/ end' = end) /\ (readPtr' = 0 \/ readPtr' = readPtr)
      BY <1>6 DEF StoreEnd, StoreReadPtr
    <3> QED BY <3>1, <3>2
  <2>2. UNCHANGED <<data, seen, writes, reads>>
    BY <1>6 DEF StoreEnd, StoreReadPtr
  <2> QED BY <2>1, <2>2 DEF Contents, writes, reads, BytesOf
<1>7. ASSUME NEW w \in Writers, WakeUp(w) PROVE Contents'
  <2>1. ASSUME NEW i \in 1..len PROVE [write |-> nwrites, at |-> i] \in Byte
    BY DEF Byte, Contents
  <2>2. accepted' \subseteq Byte
    BY <1>7, <2>1 DEF WakeUp, Accept, Contents
  <2> QED BY <1>7, <2>2 DEF WakeUp, Accept, Contents, buffer, reads, BytesOf
<1>8. ASSUME NEW t \in Thread, Call(t) \/ LockInterrupted(t) \/ Lock(t)
      PROVE  UNCHANGED <<buffer, seen, writes, reads>>
  BY <1>8 DEF Call, LockInterrupted, Lock
<1>9. ASSUME NEW r \in Readers,
             ReadFault(r) \/ ReadEmpty(r) \/ Prepare(r) \/ Awake(r) \/ WaitInterrupted(r)
      PROVE  UNCHANGED <<buffer, seen, writes, reads>>
  BY <1>9 DEF ReadFault, ReadEmpty, Prepare, Awake, WaitInterrupted
<1>10. CASE UNCHANGED vars
  BY <1>10 DEF vars, Contents, buffer, writes, reads, BytesOf
<1> QED
  BY <1>1, <1>2, <1>3, <1>4, <1>5, <1>6, <1>7, <1>8, <1>9, <1>10
  DEF Next, Read, Write, Thread

\* The variables have their types, and who holds the mutex, or is in the wait
\* queue, is where the code holds it or waits.
THEOREM TypeCorrect == SafeSpec => []TypeOK
<1>1. TypeOK <=> Places /\ Contents
  BY DEF TypeOK, Places, Contents
<1>2. Init => Places
  BY ReverseDeviceAssumption DEF Init, Places, Thread, InStores, ReaderPc, WriterPc
<1>3. Init => Contents
  <2> SUFFICES ASSUME Init PROVE Contents
    OBVIOUS
  <2>1. \A i \in 1..BufferSize : [write |-> 0, at |-> i] \in Byte
    BY DEF Byte
  <2>2. data \in [1..BufferSize -> Byte]
    BY <2>1 DEF Init
  <2>3. 0 \in 0..BufferSize
    BY ReverseDeviceAssumption
  <2> QED BY <2>2, <2>3 DEF Init, Contents, BytesOf
<1> QED BY <1>1, <1>2, <1>3, PlacesKept, ContentsKept, PTL DEF SafeSpec

\* A thread that has the mutex is the only one that stores; a step that does
\* not belong to write() neither begins nor ends the stores.
LEMMA Exclusion ==
    ASSUME TypeOK, NEW t \in Thread, pc[t] \in InStores \cup {"locked"}
    PROVE  \A w \in Writers : pc[w] \in InStores => w = t
BY ReverseDeviceAssumption DEF TypeOK, Thread

\* The steps that leave the buffer, and what the ghosts say of it, alone.
QuietStep ==
    \/ \E t \in Thread : Call(t) \/ LockInterrupted(t) \/ Lock(t)
    \/ \E r \in Readers :
        \/ ReadFault(r) \/ ReadEmpty(r) \/ Prepare(r) \/ LoadReadPtr(r)
        \/ Leave(r) \/ Sleep(r) \/ Awake(r) \/ WaitInterrupted(r)
    \/ UNCHANGED vars

\* A quiet step neither begins nor ends the stores of a write.
LEMMA QuietFacts ==
    ASSUME TypeOK, QuietStep
    PROVE  /\ UNCHANGED <<buffer, writes, reads>>
           /\ Storing' <=> Storing
           /\ \A w \in Writers : pc'[w] # pc[w] => {pc[w], pc'[w]} \cap InStores = {}
<1> USE ReverseDeviceAssumption
<1>1. UNCHANGED <<buffer, writes, reads>>
  BY DEF QuietStep, Call, LockInterrupted, Lock, ReadFault, ReadEmpty, Prepare, LoadReadPtr,
         Leave, Sleep, Awake, WaitInterrupted, vars, buffer, writes, reads
<1>2. ASSUME NEW w \in Writers, pc'[w] # pc[w] PROVE {pc[w], pc'[w]} \cap InStores = {}
  BY <1>2 DEF QuietStep, Call, LockInterrupted, Lock, ReadFault, ReadEmpty, Prepare,
         LoadReadPtr, Leave, Sleep, Awake, WaitInterrupted, vars, Goto, TypeOK, Thread,
         InStores
<1>3. Storing' <=> Storing
  BY <1>2 DEF Storing
<1> QED BY <1>1, <1>2, <1>3

-----------------------------------------------------------------------------
\* Where the pointers are while a writer stores them.
PointersInv ==
    /\ ~Storing => readPtr <= end
    /\ \A w \in Writers :
        /\ pc[w] \in {"end stored", "wake"} => end = len
        /\ pc[w] \in {"ptr stored", "wake"} => readPtr = 0

\* A reader that has loaded read_ptr and was not woken since has loaded no
\* more than is read by now.
WaitInv ==
    \A r \in queue :
        /\ pc[r] = "compare" /\ ~Storing => seen[r] <= readPtr
        /\ pc[r] = "asleep" => Empty \/ Storing

\* The two together are preserved by every step.
LEMMA PointersHold == SafeSpec => [](PointersInv /\ WaitInv)
<1> USE ReverseDeviceAssumption
<1>1. Init => PointersInv /\ WaitInv
  BY DEF Init, PointersInv, WaitInv, Thread
<1>2. TypeOK /\ PointersInv /\ WaitInv /\ [Next]_vars => PointersInv' /\ WaitInv'
  <2> SUFFICES ASSUME TypeOK, PointersInv, WaitInv, [Next]_vars
               PROVE  PointersInv' /\ WaitInv'
    OBVIOUS
  <2>1. CASE QuietStep
    <3>1. PointersInv'
      BY <2>1, QuietFacts DEF PointersInv, buffer, writes, InStores
    <3>2. ASSUME NEW r \in queue', pc'[r] = "compare", ~Storing' PROVE seen'[r] <= readPtr'
      <4>1. r \in Readers /\ readPtr \in Nat
        BY <3>2, <2>1 DEF QuietStep, Call, LockInterrupted, Lock, ReadFault, ReadEmpty,
           Prepare, LoadReadPtr, Leave, Sleep, Awake, WaitInterrupted, vars, TypeOK
      <4>2. CASE pc[r] = "compare" /\ r \in queue /\ seen'[r] = seen[r]
        BY <3>2, <4>2, <2>1, QuietFacts DEF WaitInv, buffer
      <4>3. CASE seen'[r] = readPtr
        BY <4>1, <4>3, <2>1, QuietFacts DEF buffer
      <4>4. \/ pc[r] = "compare" /\ r \in queue /\ seen'[r] = seen[r]
            \/ seen'[r] = readPtr
        BY <3>2, <4>1, <2>1 DEF QuietStep, Call, LockInterrupted, Lock, ReadFault, ReadEmpty,
           Prepare, LoadReadPtr, Leave, Sleep, Awake, WaitInterrupted, vars, TypeOK, Goto,
           Thread
      <4> QED BY <4>2, <4>3, <4>4
    <3>3. ASSUME NEW r \in queue', pc'[r] = "asleep", ~Storing' PROVE Empty'
      <4>1. r \in Readers /\ readPtr \in Nat /\ end \in Nat /\ seen[r] \in Nat
        BY <3>3, <2>1 DEF QuietStep, Call, LockInterrupted, Lock, ReadFault, ReadEmpty,
           Prepare, LoadReadPtr, Leave, Sleep, Awake, WaitInterrupted, vars, TypeOK
      <4>2. CASE pc[r] = "asleep" /\ r \in queue
        BY <3>3, <4>2, <2>1, QuietFacts DEF WaitInv, buffer, Empty
      <4>3. CASE pc[r] = "compare" /\ r \in queue /\ seen[r] = end
        <5>1. ~Storing /\ readPtr' = readPtr /\ end' = end
          BY <3>3, <2>1, QuietFacts DEF buffer
        <5>2. seen[r] <= readPtr /\ readPtr <= end
          BY <5>1, <4>3 DEF WaitInv, PointersInv
        <5> QED BY <4>1, <4>3, <5>1, <5>2 DEF Empty
      <4>4. \/ pc[r] = "asleep" /\ r \in queue
            \/ pc[r] = "compare" /\ r \in queue /\ seen[r] = end
        BY <3>3, <4>1, <2>1 DEF QuietStep, Call, LockInterrupted, Lock, ReadFault, ReadEmpty,
           Prepare, LoadReadPtr, Leave, Sleep, Awake, WaitInterrupted, vars, TypeOK, Goto,
           Thread
      <4> QED BY <4>2, <4>3, <4>4
    <3> QED BY <3>1, <3>2, <3>3 DEF WaitInv
  <2>2. ASSUME NEW r \in Readers, NEW n \in ReadSizes, ReadCopy(r, n)
        PROVE  PointersInv' /\ WaitInv'
    <3>1. ~Storing /\ ~Storing'
      <4>1. ~Storing
        BY <2>2, Exclusion DEF ReadCopy, Goto, Storing, Thread
      <4> QED BY <4>1, <2>2 DEF ReadCopy, Goto, Storing, TypeOK, Thread
    <3>2. readPtr' <= end' /\ readPtr <= readPtr'
      <4>1. /\ readPtr' = readPtr + ReadSize(n) /\ end' = end /\ n \in Nat
            /\ readPtr \in Nat /\ end \in Nat /\ readPtr <= end
        <5>1. readPtr' = readPtr + ReadSize(n) /\ end' = end
          BY <2>2 DEF ReadCopy
        <5>2. n \in Nat /\ readPtr \in Nat /\ end \in Nat
          BY DEF TypeOK
        <5> QED BY <5>1, <5>2, <3>1 DEF PointersInv
      <4> QED BY <4>1 DEF ReadSize, Smaller
    <3>3. PointersInv'
      BY <2>2, <3>1, <3>2 DEF PointersInv, ReadCopy, Goto, TypeOK, Thread, Storing, InStores
    <3>4. WaitInv'
      <4> SUFFICES ASSUME NEW u \in queue'
                   PROVE  /\ pc'[u] = "compare" => seen'[u] <= readPtr'
                          /\ pc'[u] # "asleep"
        BY DEF WaitInv
      <4>1. u \in Readers /\ u \in queue /\ pc'[u] \in {pc[u], "out"} /\ seen'[u] = seen[u]
        BY <2>2 DEF ReadCopy, Goto, TypeOK, Thread
      <4>2. pc[u] # "asleep"
        BY <2>2, <3>1, <4>1 DEF WaitInv, ReadCopy
      <4>3. pc[u] = "compare" => seen[u] <= readPtr
        BY <3>1, <4>1 DEF WaitInv
      <4>4. seen[u] \in Int /\ readPtr \in Int /\ readPtr' \in Int
        BY <2>2, <4>1 DEF TypeOK, ReadCopy, ReadSize, Smaller
      <4> QED BY <3>2, <4>1, <4>2, <4>3, <4>4
    <3> QED BY <3>3, <3>4
  <2>3. ASSUME NEW w \in Writers, NEW n \in WriteSizes, WriteCopy(w, n)
        PROVE  PointersInv' /\ WaitInv'
    <3>1. Storing'
      BY <2>3 DEF WriteCopy, Goto, Storing, TypeOK, Thread, InStores
    <3>2. \A u \in Writers : pc'[u] \in {"end stored", "ptr stored", "wake"} => FALSE
      BY <2>3, Exclusion DEF WriteCopy, Goto, TypeOK, Thread, InStores
    <3> QED BY <2>3, <3>1, <3>2 DEF PointersInv, WaitInv, WriteCopy, Goto, TypeOK, Thread
  <2>4. ASSUME NEW w \in Writers, NEW n \in WriteSizes, NEW m \in 0..n, WriteFault(w, n, m)
        PROVE  PointersInv' /\ WaitInv'
    <3>1. ~Storing /\ ~Storing'
      <4>1. ~Storing
        BY <2>4, Exclusion DEF WriteFault, Goto, Storing, Thread, InStores
      <4> QED BY <4>1, <2>4 DEF WriteFault, Goto, Storing, TypeOK, Thread, InStores
    <3> QED BY <2>4, <3>1 DEF PointersInv, WaitInv, WriteFault, Goto, TypeOK, Thread,
               Storing, InStores, Empty
  <2>5. ASSUME NEW w \in Writers, StoreEnd(w) \/ StoreReadPtr(w)
        PROVE  PointersInv' /\ WaitInv'
    <3>1. Storing' /\ pc[w] \in InStores
      BY <2>5 DEF StoreEnd, StoreReadPtr, Goto, Storing, TypeOK, Thread, InStores
    <3>2. \A u \in Writers : pc[u] \in InStores => u = w
      BY <3>1, Exclusion DEF Thread
    <3>3. PointersInv'
      BY <2>5, <3>1, <3>2 DEF PointersInv, StoreEnd, StoreReadPtr, Goto, TypeOK, Thread,
         InStores, writes
    <3> QED BY <3>1, <3>3 DEF WaitInv
  <2>6. ASSUME NEW w \in Writers, WakeUp(w) PROVE PointersInv' /\ WaitInv'
    <3>1. pc[w] = "wake" /\ readPtr = 0 /\ end = len /\ len \in Nat
      <4>1. pc[w] = "wake" /\ len \in Nat
        BY <2>6 DEF WakeUp, Goto, TypeOK
      <4> QED BY <4>1 DEF PointersInv
    <3>2. \A u \in Writers : pc'[u] \notin InStores
      BY <2>6, <3>1, Exclusion DEF WakeUp, Goto, TypeOK, Thread, InStores
    <3>3. PointersInv'
      <4>1. readPtr' <= end'
        BY <2>6, <3>1 DEF WakeUp, buffer
      <4> QED BY <3>2, <4>1 DEF PointersInv, InStores
    <3> QED BY <2>6, <3>3 DEF WaitInv, WakeUp
  <2> QED
    BY <2>1, <2>2, <2>3, <2>4, <2>5, <2>6 DEF Next, Read, Write, QuietStep, Thread
<1> QED BY <1>1, <1>2, TypeCorrect, PTL DEF SafeSpec

\* read() never computes a negative size_t: read_ptr is behind end whenever
\* no writer is between its two stores.
THEOREM PointersAreOrdered == SafeSpec => []PointersOrdered
<1>1. PointersInv => PointersOrdered
  BY DEF PointersInv, PointersOrdered
<1> QED BY <1>1, PointersHold, PTL

\* No wake-up is lost although the wait condition is evaluated without the
\* mutex, load by load, in the middle of a write.
THEOREM NoSleeperIsForgotten == SafeSpec => []SleeperNotForgotten
<1>1. WaitInv => SleeperNotForgotten
  BY DEF WaitInv, SleeperNotForgotten
<1> QED BY <1>1, PointersHold, PTL
-----------------------------------------------------------------------------
(***************************************************************************)
(* Which bytes are where                                                   *)
(***************************************************************************)
\* The places a read may take from: what has not been read, or, while the
\* pointers are being stored, what they are going to say.
Window == IF Storing THEN 1..len ELSE (readPtr + 1)..end

\* A byte is in its place, and nothing comes from a write to come.
DataInv ==
    /\ \A i \in 1..BufferSize : data[i].at = i /\ data[i].write <= nwrites
    /\ \A b \in BytesOf(taken) \cup accepted : b.write <= nwrites

\* What may be read has not been returned, and is of one write.
WindowInv ==
    \A i \in Window :
        /\ data[i].write > 0 => data[i] \notin BytesOf(taken)
        /\ \A j \in Window : OneWrite(data[i], data[j])

\* The bytes of the last write are accepted when the readers are woken; from
\* then on they have been returned, or may be read.
Last == [i \in 1..len |-> [write |-> nwrites, at |-> i]]

LastInv ==
    /\ Storing => \A i \in 1..len : data[i] = Last[i]
    /\ Storing => \A b \in accepted : b.write < nwrites
    /\ ~Storing => {b \in accepted : b.write = nwrites} \subseteq BytesOf(taken) \cup Unread

BytesInv == DataInv /\ WindowInv /\ LastInv /\ ReadsAreRight

\* What a step of the buffer may be.
LEMMA StepKinds ==
    ASSUME [Next]_vars
    PROVE  \/ QuietStep
           \/ \E r \in Readers, n \in ReadSizes : ReadCopy(r, n)
           \/ \E w \in Writers, n \in WriteSizes : WriteCopy(w, n)
           \/ \E w \in Writers, n \in WriteSizes : \E m \in 0..n : WriteFault(w, n, m)
           \/ \E w \in Writers : StoreEnd(w) \/ StoreReadPtr(w)
           \/ \E w \in Writers : WakeUp(w)
BY DEF Next, Read, Write, QuietStep, Thread

\* Who returns with the mutex from a call that stored no pointer was alone.
LEMMA NobodyStores ==
    ASSUME TypeOK, NEW t \in Thread, Goto(t, "locked", "out")
    PROVE  ~Storing /\ ~Storing'
<1>1. ~Storing
  BY Exclusion DEF Goto, Storing, InStores
<1> QED BY <1>1 DEF Goto, Storing, TypeOK, InStores, Thread

LEMMA BytesOfUnion ==
    ASSUME NEW A, NEW B
    PROVE  BytesOf(A \cup B) = BytesOf(A) \cup BytesOf(B)
<1>1. ASSUME NEW S, NEW b
      PROVE  b \in BytesOf(S) <=> \E c \in S : b \in {c[i] : i \in DOMAIN c}
  BY Zenon DEF BytesOf
<1>2. ASSUME NEW b PROVE b \in BytesOf(A \cup B) <=> b \in BytesOf(A) \cup BytesOf(B)
  <2>1. b \in BytesOf(A \cup B) <=> \E c \in A \cup B : b \in {c[i] : i \in DOMAIN c}
    BY <1>1
  <2>2. b \in BytesOf(A) <=> \E c \in A : b \in {c[i] : i \in DOMAIN c}
    BY <1>1
  <2>3. b \in BytesOf(B) <=> \E c \in B : b \in {c[i] : i \in DOMAIN c}
    BY <1>1
  <2> QED BY <2>1, <2>2, <2>3, Zenon
<1> QED BY <1>2, Zenon

LEMMA QuietKeepsBytes == TypeOK /\ BytesInv /\ QuietStep => BytesInv'
<1> SUFFICES ASSUME TypeOK, BytesInv, QuietStep PROVE BytesInv'
  OBVIOUS
<1>1. /\ data' = data /\ readPtr' = readPtr /\ end' = end /\ len' = len /\ nwrites' = nwrites
      /\ accepted' = accepted /\ faulted' = faulted /\ taken' = taken /\ again' = again
      /\ Storing' <=> Storing
  BY QuietFacts DEF buffer, writes, reads
<1>2. Window' = Window
  BY <1>1 DEF Window
<1>3. WindowInv'
  BY <1>1, <1>2 DEF BytesInv, WindowInv, OneWrite, BytesOf
<1>4. DataInv' /\ LastInv'
  BY <1>1 DEF BytesInv, DataInv, LastInv, Last, Unread, BytesOf
<1>5. ReadsAreRight'
  BY <1>1 DEF BytesInv, ReadsAreRight, NoByteTwice, ReadsAreOneWrite, OneWrite, BytesOf
<1> QED BY <1>3, <1>4, <1>5 DEF BytesInv

\* A store of a pointer leaves what will be readable as it is.
LEMMA StoreKeepsBytes ==
    ASSUME TypeOK, BytesInv, NEW w \in Writers, StoreEnd(w) \/ StoreReadPtr(w)
    PROVE  BytesInv'
<1>1. Storing /\ Storing'
  BY DEF StoreEnd, StoreReadPtr, Goto, Storing, TypeOK, Thread, InStores
<1>2. /\ data' = data /\ len' = len /\ nwrites' = nwrites /\ accepted' = accepted
      /\ faulted' = faulted /\ taken' = taken /\ again' = again
  BY DEF StoreEnd, StoreReadPtr, writes, reads
<1>3. Window' = Window
  BY <1>1, <1>2 DEF Window
<1>4. WindowInv'
  BY <1>2, <1>3 DEF BytesInv, WindowInv, OneWrite, BytesOf
<1>5. DataInv' /\ LastInv'
  BY <1>1, <1>2 DEF BytesInv, DataInv, LastInv, Last, BytesOf
<1>6. ReadsAreRight'
  BY <1>2 DEF BytesInv, ReadsAreRight, NoByteTwice, ReadsAreOneWrite, OneWrite, BytesOf
<1> QED BY <1>4, <1>5, <1>6 DEF BytesInv

\* A read returns the beginning of the window and leaves the rest.
LEMMA ReadCopyKeepsBytes ==
    ASSUME TypeOK, PointersInv, BytesInv,
           NEW r \in Readers, NEW n \in ReadSizes, ReadCopy(r, n)
    PROVE  BytesInv'
<1> USE ReverseDeviceAssumption
<1> DEFINE back == BytesOf({Chunk(n)})
<1>1. n \in Nat /\ Contents
  BY DEF TypeOK, Contents
<1>2. ~Storing /\ ~Storing'
  BY NobodyStores DEF ReadCopy, Thread
<1>3. /\ data' = data /\ end' = end /\ nwrites' = nwrites /\ accepted' = accepted
      /\ faulted' = faulted /\ readPtr' = readPtr + ReadSize(n)
      /\ taken' = taken \cup {Chunk(n)}
      /\ again' = again \cup {b \in back \cap BytesOf(taken) : b.write > 0}
  BY DEF ReadCopy, writes, Return
<1>4. BytesOf(taken') = BytesOf(taken) \cup back
  BY <1>3, BytesOfUnion
<1>5. readPtr \in Nat /\ end \in Nat /\ ReadSize(n) \in Int /\ end <= BufferSize
  BY <1>1 DEF Contents, ReadSize, Smaller
<1>6. ASSUME NEW b \in back
      PROVE  \E i \in Window : b = data[i] /\ i <= readPtr' /\ i \in 1..BufferSize
  <2>1. PICK i \in 1..ReadSize(n) : b = data[readPtr + i]
    BY <1>1, ChunkFacts
  <2>2. readPtr + i \in 1..BufferSize /\ readPtr + i <= end
    BY <1>1, ChunkFacts
  <2>3. readPtr + i \in Window /\ readPtr + i <= readPtr'
    BY <1>2, <1>3, <1>5, <2>2 DEF Window
  <2> QED BY <2>1, <2>2, <2>3
<1>7. ASSUME NEW i \in Window, i <= readPtr' PROVE data[i] \in back
  <2>1. i - readPtr \in 1..ReadSize(n) /\ readPtr + (i - readPtr) = i
    BY <1>2, <1>3, <1>5, <1>7 DEF Window
  <2>2. Chunk(n)[i - readPtr] = data[i] /\ i - readPtr \in DOMAIN Chunk(n)
    BY <2>1 DEF Chunk
  <2> QED BY <2>2, Zenon DEF BytesOf
<1>8. \A i \in Window' : i \in Window /\ i > readPtr' /\ i \in 1..BufferSize
  <2>1. readPtr' >= readPtr
    <3>1. readPtr <= end
      BY <1>2, Zenon DEF PointersInv
    <3> QED BY <1>1, <1>3, <1>5, <3>1 DEF ReadSize, Smaller
  <2> QED BY <1>2, <1>3, <1>5, <2>1 DEF Window
<1>9. NoByteTwice'
  BY <1>3, <1>6 DEF BytesInv, WindowInv, ReadsAreRight, NoByteTwice
<1>10. ReadsAreOneWrite'
  <2>1. \A b, d \in back : OneWrite(b, d)
    BY <1>6 DEF BytesInv, WindowInv
  <2>2. \A c \in taken : \A b, d \in BytesOf({c}) : OneWrite(b, d)
    BY DEF BytesInv, ReadsAreRight, ReadsAreOneWrite
  <2>3. \A c \in taken' : \A b, d \in BytesOf({c}) : OneWrite(b, d)
    BY <1>3, <2>1, <2>2
  <2> QED BY <1>3, <2>3 DEF ReadsAreOneWrite, OneWrite, BytesOf
<1>11. DataInv'
  <2>1. \A b \in back : b.write <= nwrites
    BY <1>6 DEF BytesInv, DataInv
  <2> QED BY <1>3, <1>4, <2>1 DEF BytesInv, DataInv
<1>12. WindowInv'
  <2>1. ASSUME NEW i \in Window' PROVE data[i] \notin back
    <3> SUFFICES ASSUME data[i] \in back PROVE FALSE
      OBVIOUS
    <3>1. PICK j \in Window : data[i] = data[j] /\ j <= readPtr' /\ j \in 1..BufferSize
      BY <1>6
    <3>2. i = j
      BY <1>8, <2>1, <3>1 DEF BytesInv, DataInv
    <3> QED BY <1>3, <1>5, <1>8, <3>1, <3>2
  <2>2. \A i \in Window' : data[i].write > 0 => data[i] \notin BytesOf(taken')
    BY <1>4, <1>8, <2>1 DEF BytesInv, WindowInv
  <2>3. \A i, j \in Window' : OneWrite(data[i], data[j])
    BY <1>8 DEF BytesInv, WindowInv
  <2> QED BY <1>3, <2>2, <2>3 DEF WindowInv, OneWrite
<1>13. LastInv'
  <2>1. ASSUME NEW b \in Unread PROVE b \in back \cup Unread'
    <3>1. PICK i \in (readPtr + 1)..end : b = data[i]
      BY <2>1 DEF Unread
    <3>2. CASE i <= readPtr'
      BY <1>2, <1>7, <3>1, <3>2 DEF Window
    <3>3. CASE ~(i <= readPtr')
      <4>1. i \in (readPtr' + 1)..end'
        BY <1>3, <1>5, <3>1, <3>3
      <4> QED BY <1>3, <3>1, <4>1 DEF Unread
    <3> QED BY <3>2, <3>3
  <2> QED BY <1>2, <1>3, <1>4, <2>1 DEF BytesInv, LastInv
<1> QED BY <1>9, <1>10, <1>11, <1>12, <1>13 DEF BytesInv, ReadsAreRight

\* What is left in the buffer by n bytes of a new write, m of them good.
LEMMA OverwrittenFacts ==
    ASSUME TypeOK, DataInv, NEW n \in Nat, NEW m \in Nat, data' = Overwritten(n, m, nwrites + 1)
    PROVE  \A i \in 1..BufferSize :
               /\ data'[i].at = i /\ data'[i].write <= nwrites + 1
               /\ i > n => data'[i] = data[i]
               /\ i <= n => data'[i] = [write |-> IF i <= m THEN nwrites + 1 ELSE 0, at |-> i]
<1> SUFFICES ASSUME NEW i \in 1..BufferSize
             PROVE  /\ data'[i].at = i /\ data'[i].write <= nwrites + 1
                    /\ i > n => data'[i] = data[i]
                    /\ i <= n => data'[i] = [write |-> IF i <= m THEN nwrites + 1 ELSE 0, at |-> i]
  OBVIOUS
<1>1. nwrites \in Nat /\ data[i] \in Byte
  BY DEF TypeOK
<1>2. data'[i] = IF i > n THEN data[i] ELSE [write |-> IF i <= m THEN nwrites + 1 ELSE 0, at |-> i]
  BY DEF Overwritten
<1>3. CASE i > n
  BY <1>1, <1>2, <1>3 DEF DataInv, Byte
<1>4. CASE i <= n
  BY <1>1, <1>2, <1>4
<1> QED BY <1>3, <1>4

\* A byte of a write to come has not been returned, nor accepted.
LEMMA NewIsFresh ==
    ASSUME TypeOK, DataInv
    PROVE  \A b \in BytesOf(taken) \cup accepted :
               b.write < nwrites + 1 /\ b.write <= nwrites + 1
<1>1. nwrites \in Nat /\ BytesOf(taken) \cup accepted \subseteq Byte
  BY DEF TypeOK
<1> QED BY <1>1 DEF DataInv, Byte

\* A new write, whose bytes will be all there is to read.
LEMMA WriteCopyKeepsBytes ==
    ASSUME TypeOK, BytesInv, NEW w \in Writers, NEW n \in WriteSizes, WriteCopy(w, n)
    PROVE  BytesInv'
<1> USE ReverseDeviceAssumption
<1>1. /\ data' = Overwritten(n, n, nwrites + 1) /\ len' = n /\ nwrites' = nwrites + 1
      /\ accepted' = accepted /\ faulted' = faulted /\ taken' = taken /\ again' = again
      /\ n \in Nat /\ n <= BufferSize /\ nwrites \in Nat
  BY DEF WriteCopy, reads, TypeOK
<1>0. nwrites \in Int /\ nwrites + 1 > 0
  BY <1>1
<1>2. Storing'
  BY DEF WriteCopy, Goto, Storing, TypeOK, Thread, InStores
<1>3. Window' = 1..n /\ \A i \in 1..n : i \in 1..BufferSize /\ i <= n
  BY <1>1, <1>2 DEF Window
<1>4. \A i \in 1..n : data'[i] = [write |-> nwrites + 1, at |-> i]
  BY <1>1, <1>3, OverwrittenFacts DEF BytesInv
<1>5. DataInv'
  <2>1. \A b \in BytesOf(taken) \cup accepted : b.write <= nwrites + 1
    BY NewIsFresh DEF BytesInv
  <2> QED BY <1>1, <2>1, OverwrittenFacts DEF BytesInv, DataInv, BytesOf
<1>6. WindowInv'
  <2>1. ASSUME NEW i \in 1..n PROVE data'[i].write = nwrites + 1 /\ nwrites + 1 > 0
    <3>1. data'[i] = [write |-> nwrites + 1, at |-> i]
      BY <1>4
    <3> QED BY <1>0, <3>1
  <2>2. \A i \in 1..n : data'[i] \notin BytesOf(taken)
    <3>1. \A b \in BytesOf(taken) : b.write < nwrites + 1
      BY NewIsFresh DEF BytesInv
    <3> QED BY <1>0, <2>1, <3>1
  <2>3. \A i, j \in 1..n : OneWrite(data[i], data[j])'
    BY <2>1 DEF OneWrite
  <2>4. BytesOf(taken)' = BytesOf(taken)
    BY <1>1 DEF BytesOf
  <2> QED BY <1>3, <2>2, <2>3, <2>4 DEF WindowInv
<1>7. LastInv'
  <2>1. \A i \in 1..n : data'[i] = Last'[i]
    BY <1>1, <1>4 DEF Last
  <2>2. \A b \in accepted : b.write < nwrites + 1
    BY NewIsFresh DEF BytesInv
  <2> QED BY <1>1, <1>2, <2>1, <2>2 DEF LastInv
<1>8. ReadsAreRight'
  BY <1>1 DEF BytesInv, ReadsAreRight, NoByteTwice, ReadsAreOneWrite, OneWrite, BytesOf
<1> QED BY <1>5, <1>6, <1>7, <1>8 DEF BytesInv

\* A write that faults leaves its bytes and zeros in the place of unread ones.
LEMMA WriteFaultKeepsBytes ==
    ASSUME TypeOK, BytesInv,
           NEW w \in Writers, NEW n \in WriteSizes, NEW m \in 0..n, WriteFault(w, n, m)
    PROVE  BytesInv'
<1> USE ReverseDeviceAssumption
<1>1. /\ data' = Overwritten(n, m, nwrites + 1) /\ nwrites' = nwrites + 1
      /\ faulted' = faulted \cup {nwrites + 1}
      /\ len' = len /\ readPtr' = readPtr /\ end' = end
      /\ accepted' = accepted /\ taken' = taken /\ again' = again
      /\ n \in Nat /\ m \in Nat /\ nwrites \in Nat
  BY DEF WriteFault, reads, TypeOK
<1>2. ~Storing /\ ~Storing'
  BY NobodyStores DEF WriteFault, Thread
<1>3. Window' = Window /\ Window \subseteq 1..BufferSize
  BY <1>1, <1>2 DEF Window, TypeOK
<1>4. ASSUME NEW b, NEW d, OneWrite(b, d) PROVE OneWrite(b, d)'
  BY <1>1, <1>4 DEF OneWrite
<1>5. ASSUME NEW i \in Window
      PROVE  data'[i] = data[i] \/ data'[i].write \in {0, nwrites + 1}
  <2>1. i \in 1..BufferSize /\ i \in Int /\ n \in Int
    BY <1>1, <1>3
  <2>2. CASE i > n
    BY <1>1, <2>1, <2>2, OverwrittenFacts DEF BytesInv
  <2>3. CASE i <= n
    <3>1. data'[i] = [write |-> IF i <= m THEN nwrites + 1 ELSE 0, at |-> i]
      BY <1>1, <2>1, <2>3, OverwrittenFacts DEF BytesInv
    <3> QED BY <3>1
  <2> QED BY <2>1, <2>2, <2>3
<1>6. DataInv'
  <2>1. \A b \in BytesOf(taken) \cup accepted : b.write <= nwrites + 1
    BY NewIsFresh DEF BytesInv
  <2> QED BY <1>1, <2>1, OverwrittenFacts DEF BytesInv, DataInv, BytesOf
<1>7. WindowInv'
  <2>1. \A i \in Window : data'[i].write > 0 => data'[i] \notin BytesOf(taken)
    BY <1>1, <1>5, NewIsFresh DEF BytesInv, WindowInv
  <2>2. ASSUME NEW i \in Window, NEW j \in Window PROVE OneWrite(data[i], data[j])'
    <3>1. CASE data'[i] = data[i] /\ data'[j] = data[j]
      <4>1. OneWrite(data[i], data[j])
        BY DEF BytesInv, WindowInv
      <4> QED BY <1>1, <3>1, <4>1 DEF OneWrite
    <3>2. CASE {data'[i].write, data'[j].write} \cap {0, nwrites + 1} # {}
      BY <1>1, <3>2 DEF OneWrite
    <3> QED BY <1>5, <3>1, <3>2
  <2>3. BytesOf(taken)' = BytesOf(taken)
    BY <1>1 DEF BytesOf
  <2> QED BY <1>3, <2>1, <2>2, <2>3 DEF WindowInv
<1>8. LastInv'
  <2>1. {b \in accepted : b.write = nwrites + 1} = {}
    BY <1>1, NewIsFresh DEF BytesInv
  <2> QED BY <1>1, <1>2, <2>1 DEF LastInv
<1>9. ReadsAreRight'
  <2>1. \A c \in taken : \A b, d \in BytesOf({c}) : OneWrite(b, d)
    BY DEF BytesInv, ReadsAreRight, ReadsAreOneWrite
  <2>2. ReadsAreOneWrite'
    BY <1>1, <2>1 DEF ReadsAreOneWrite, OneWrite, BytesOf
  <2> QED BY <1>1, <2>2 DEF BytesInv, ReadsAreRight, NoByteTwice
<1> QED BY <1>6, <1>7, <1>8, <1>9 DEF BytesInv

\* The readers are woken: the window is what the pointers say.
LEMMA WakeUpKeepsBytes ==
    ASSUME TypeOK, PointersInv, BytesInv, NEW w \in Writers, WakeUp(w)
    PROVE  BytesInv'
<1> USE ReverseDeviceAssumption
<1>1. /\ data' = data /\ readPtr' = readPtr /\ end' = end /\ nwrites' = nwrites
      /\ faulted' = faulted /\ taken' = taken /\ again' = again
      /\ accepted' = accepted \cup {[write |-> nwrites, at |-> i] : i \in 1..len}
  BY DEF WakeUp, Accept, buffer, reads
<1>2. pc[w] = "wake" /\ readPtr = 0 /\ end = len
  <2>1. pc[w] = "wake"
    BY DEF WakeUp, Goto
  <2> QED BY <2>1 DEF PointersInv
<1>3. Storing /\ ~Storing'
  <2>1. Storing /\ \A u \in Writers : pc[u] \in InStores => u = w
    BY <1>2, Exclusion DEF Storing, Thread, InStores
  <2> QED BY <2>1 DEF WakeUp, Goto, Storing, TypeOK, Thread, InStores
<1>4. Window' = Window /\ Window = 1..len /\ nwrites \in Nat
  BY <1>1, <1>2, <1>3 DEF Window, TypeOK
<1>5. DataInv'
  <2>1. \A b \in accepted' : b.write <= nwrites
    BY <1>1, <1>4 DEF BytesInv, DataInv
  <2> QED BY <1>1, <2>1 DEF BytesInv, DataInv, BytesOf
<1>6. WindowInv'
  BY <1>1, <1>4 DEF BytesInv, WindowInv, OneWrite, BytesOf
<1>7. LastInv'
  <2>1. \A i \in 1..len : data[i] = [write |-> nwrites, at |-> i]
    BY <1>3 DEF BytesInv, LastInv, Last
  <2>2. Unread' = {data[i] : i \in 1..len}
    BY <1>1, <1>2, <1>4 DEF Unread
  <2>3. ASSUME NEW b \in accepted', b.write = nwrites PROVE b \in Unread'
    <3>1. b \notin accepted
      BY <1>3, <1>4, <2>3 DEF BytesInv, LastInv
    <3> QED BY <1>1, <2>1, <2>2, <3>1
  <2> QED BY <1>1, <1>3, <2>3 DEF LastInv
<1>8. ReadsAreRight'
  BY <1>1 DEF BytesInv, ReadsAreRight, NoByteTwice, ReadsAreOneWrite, OneWrite, BytesOf
<1> QED BY <1>5, <1>6, <1>7, <1>8 DEF BytesInv

LEMMA BytesHold == SafeSpec => []BytesInv
<1>1. Init => BytesInv
  <2> SUFFICES ASSUME Init PROVE BytesInv
    OBVIOUS
  <2>1. /\ \A i \in 1..BufferSize : data[i] = [write |-> 0, at |-> i]
        /\ nwrites = 0 /\ accepted = {} /\ readPtr = 0 /\ end = 0 /\ again = {} /\ taken = {}
    BY DEF Init
  <2>2. BytesOf(taken) = {}
    BY <2>1 DEF BytesOf
  <2>3. ~Storing
    BY DEF Init, Storing, InStores, Thread
  <2>4. Window = {}
    BY <2>1, <2>3 DEF Window
  <2>5. DataInv
    <3>1. ASSUME NEW i \in 1..BufferSize PROVE data[i].at = i /\ data[i].write = 0
      <4>1. data[i] = [write |-> 0, at |-> i]
        BY <2>1
      <4> QED BY <4>1
    <3>2. nwrites = 0 /\ BytesOf(taken) \cup accepted = {}
      BY <2>1, <2>2
    <3> QED BY <3>1, <3>2 DEF DataInv
  <2>8. WindowInv
    BY <2>4 DEF WindowInv
  <2>6. LastInv
    BY <2>1, <2>3 DEF LastInv
  <2>7. ReadsAreRight
    BY <2>1 DEF ReadsAreRight, NoByteTwice, ReadsAreOneWrite
  <2> QED BY <2>5, <2>6, <2>7, <2>8 DEF BytesInv
<1>2. TypeOK /\ PointersInv /\ BytesInv /\ [Next]_vars => BytesInv'
  BY StepKinds, QuietKeepsBytes, StoreKeepsBytes, ReadCopyKeepsBytes, WriteCopyKeepsBytes,
     WriteFaultKeepsBytes, WakeUpKeepsBytes
<1> QED BY <1>1, <1>2, TypeCorrect, PointersHold, PTL DEF SafeSpec

\* However writes overtake reads and fault half way, no byte is returned by
\* two reads, and a read mixes two writes only where one of them has faulted.
THEOREM ReadsReturnOneWrite == SafeSpec => []ReadsAreRight
<1>1. BytesInv => ReadsAreRight
  BY DEF BytesInv
<1> QED BY <1>1, BytesHold, PTL

\* A write that was answered with its size can be read to its last byte, until
\* another write replaces it.
THEOREM LastWriteIsReadable == SafeSpec => []LastWriteReadable
<1>1. TypeOK /\ BytesInv => LastWriteReadable
  <2> SUFFICES ASSUME TypeOK, BytesInv, lock = NoThread
               PROVE  {b \in accepted : b.write = nwrites} \subseteq BytesOf(taken) \cup Unread
    BY DEF LastWriteReadable
  <2>1. ~Storing
    BY ReverseDeviceAssumption DEF TypeOK, Storing, Thread
  <2> QED BY <2>1 DEF BytesInv, LastInv
<1> QED BY <1>1, TypeCorrect, BytesHold, PTL
=============================================================================
