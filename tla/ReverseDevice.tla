---------------------------- MODULE ReverseDevice ----------------------------
(***************************************************************************)
(* The character device of src/kernel_module/hello.c: one buffer for the   *)
(* whole system, read() that waits for data, write() that replaces it.     *)
(*                                                                         *)
(* The mutex of the buffer is explicit, because wait_event_interruptible() *)
(* reads read_ptr and end without it: each of its two loads, and each of   *)
(* the two stores of write(), is a step.  data is indexed from 1; readPtr  *)
(* and end are offsets, so that data[readPtr + 1 .. end] has not been read *)
(* yet.  The stores of write() are plain and may be seen in either order.  *)
(*                                                                         *)
(* A byte is told apart by the write it comes from and its place in it;    *)
(* write 0 is the zero fill of kzalloc() and of a copy that faults.        *)
(***************************************************************************)
EXTENDS Integers, Sequences, FiniteSets

CONSTANTS Readers,     \* threads inside reverse_read()
          Writers,     \* threads inside reverse_write()
          NonBlock,    \* the readers that opened the device O_NONBLOCK
          BufferSize,  \* buffer_size
          ReadSizes,   \* the sizes readers ask for
          WriteSizes,  \* the sizes writers offer
          Faults,      \* the threads whose user memory may fault
          MaxWrites,   \* bound: writes that reach the buffer
          NoThread     \* nobody holds the mutex

ASSUME ReverseDeviceAssumption ==
    /\ Readers \cap Writers = {}
    /\ NonBlock \subseteq Readers
    /\ BufferSize \in Nat \ {0}     \* reverse_init() refuses zero
    /\ ReadSizes \subseteq Nat
    /\ WriteSizes \subseteq Nat
    /\ \E n \in WriteSizes : n <= BufferSize
    /\ MaxWrites \in Nat
    /\ NoThread \notin Readers \cup Writers

VARIABLES
    data,      \* buf->data
    readPtr,   \* buf->read_ptr - buf->data
    end,       \* buf->end - buf->data
    lock,      \* the holder of buf->lock
    queue,     \* the readers in buf->read_queue
    pc,        \* where each thread is
    len,       \* the size of the write that has the mutex
    seen,      \* the read_ptr each waiting reader has loaded
    nwrites,   \* ghost: writes that have changed the buffer
    accepted,  \* ghost: the bytes of the writes that were answered with their size
    faulted,   \* ghost: the writes that were answered with -EFAULT
    taken,     \* ghost: what the reads have returned
    again      \* ghost: the bytes that were returned when they had been already

vars == <<data, readPtr, end, lock, queue, pc, len, seen, nwrites, accepted, faulted, taken, again>>
buffer == <<data, readPtr, end>>
writes == <<len, nwrites, accepted, faulted>>
reads == <<taken, again>>

Thread == Readers \cup Writers
Byte == [write : Nat, at : 1..BufferSize]

ReaderPc == {"out", "lock", "locked", "prepare", "load", "compare", "asleep"}
WriterPc == {"out", "lock", "locked", "stores", "end stored", "ptr stored", "wake"}

Smaller(a, b) == IF a < b THEN a ELSE b

\* buffer_alloc(): the buffer is zero and both pointers are equal.
Init ==
    /\ data = [i \in 1..BufferSize |-> [write |-> 0, at |-> i]]
    /\ readPtr = 0
    /\ end = 0
    /\ lock = NoThread
    /\ queue = {}
    /\ pc = [t \in Thread |-> "out"]
    /\ len = 0
    /\ seen = [r \in Readers |-> 0]
    /\ nwrites = 0
    /\ accepted = {}
    /\ faulted = {}
    /\ taken = {}
    /\ again = {}

Goto(t, from, to) == pc[t] = from /\ pc' = [pc EXCEPT ![t] = to]

-----------------------------------------------------------------------------
(***************************************************************************)
(* Both calls                                                              *)
(***************************************************************************)
\* read() or write() begins.  A size is chosen when it is first used.
Call(t) ==
    /\ t \in Readers \/ nwrites < MaxWrites
    /\ Goto(t, "out", "lock")
    /\ UNCHANGED <<buffer, lock, queue, seen, writes, reads>>

\* mutex_lock_interruptible() gets the mutex ...
Lock(t) ==
    /\ lock = NoThread
    /\ Goto(t, "lock", "locked")
    /\ lock' = t
    /\ UNCHANGED <<buffer, queue, seen, writes, reads>>

\* ... or a signal comes first: -ERESTARTSYS.
LockInterrupted(t) ==
    /\ Goto(t, "lock", "out")
    /\ UNCHANGED <<buffer, lock, queue, seen, writes, reads>>

-----------------------------------------------------------------------------
(***************************************************************************)
(* reverse_read()                                                          *)
(***************************************************************************)
Empty == readPtr = end

\* What a read of n bytes copies.
ReadSize(n) == Smaller(n, end - readPtr)
Chunk(n) == [i \in 1..ReadSize(n) |-> data[readPtr + i]]

BytesOf(chunks) == UNION {{c[i] : i \in DOMAIN c} : c \in chunks}

Return(chunk) ==
    /\ taken' = taken \cup {chunk}
    /\ again' = again \cup {b \in BytesOf({chunk}) \cap BytesOf(taken) : b.write > 0}

\* Mutant: read_ptr is not moved.
ReadCopy_NoAdvance(r, n) ==
    /\ ~Empty
    /\ Goto(r, "locked", "out")
    /\ Return(Chunk(n))
    /\ lock' = NoThread
    /\ UNCHANGED <<buffer, queue, seen, writes>>

\* There is data: it is copied, read_ptr moves on and the mutex is released.
ReadCopy(r, n) ==
    /\ ~Empty
    /\ Goto(r, "locked", "out")
    /\ Return(Chunk(n))
    /\ readPtr' = readPtr + ReadSize(n)
    /\ lock' = NoThread
    /\ UNCHANGED <<data, end, queue, seen, writes>>

\* copy_to_user() faults: -EFAULT, and the data stays unread.
ReadFault(r) ==
    /\ ~Empty
    /\ r \in Faults
    /\ Goto(r, "locked", "out")
    /\ lock' = NoThread
    /\ UNCHANGED <<buffer, queue, seen, writes, reads>>

\* There is none: the mutex is released, and the reader waits or is told
\* -EAGAIN.
ReadEmpty(r) ==
    /\ Empty
    /\ Goto(r, "locked", IF r \in NonBlock THEN "out" ELSE "prepare")
    /\ lock' = NoThread
    /\ UNCHANGED <<buffer, queue, seen, writes, reads>>

\* wait_event_interruptible(): the reader enters the wait queue, then
\* evaluates the condition, then sleeps, and begins again when it is woken.
Prepare(r) ==
    /\ Goto(r, "prepare", "load")
    /\ queue' = queue \cup {r}
    /\ UNCHANGED <<buffer, lock, seen, writes, reads>>

LoadReadPtr(r) ==
    /\ Goto(r, "load", "compare")
    /\ seen' = [seen EXCEPT ![r] = readPtr]
    /\ UNCHANGED <<buffer, lock, queue, writes, reads>>

\* The condition holds: back to the mutex.
Leave(r) ==
    /\ seen[r] # end
    /\ Goto(r, "compare", "lock")
    /\ queue' = queue \ {r}
    /\ seen' = [seen EXCEPT ![r] = 0]
    /\ UNCHANGED <<buffer, lock, writes, reads>>

Sleep(r) ==
    /\ seen[r] = end
    /\ Goto(r, "compare", "asleep")
    /\ seen' = [seen EXCEPT ![r] = 0]
    /\ UNCHANGED <<buffer, lock, queue, writes, reads>>

Awake(r) ==
    /\ r \notin queue
    /\ Goto(r, "asleep", "prepare")
    /\ UNCHANGED <<buffer, lock, queue, seen, writes, reads>>

\* A signal ends the wait: -ERESTARTSYS.
WaitInterrupted(r) ==
    /\ Goto(r, "asleep", "out")
    /\ queue' = queue \ {r}
    /\ UNCHANGED <<buffer, lock, seen, writes, reads>>

-----------------------------------------------------------------------------
(***************************************************************************)
(* reverse_write()                                                         *)
(***************************************************************************)
\* The buffer after n bytes of write k, of which m arrived before a fault.
Overwritten(n, m, k) ==
    [i \in 1..BufferSize |->
        IF i > n THEN data[i] ELSE [write |-> IF i <= m THEN k ELSE 0, at |-> i]]

\* The n bytes are copied; a write larger than the buffer was refused with
\* -EFBIG before it took the mutex.
WriteCopy(w, n) ==
    /\ n <= BufferSize
    /\ Goto(w, "locked", "stores")
    /\ data' = Overwritten(n, n, nwrites + 1)
    /\ len' = n
    /\ nwrites' = nwrites + 1
    /\ UNCHANGED <<readPtr, end, lock, queue, seen, accepted, faulted, reads>>

\* copy_from_user() faults after m bytes and fills the rest with zero:
\* -EFAULT, and the pointers stay.
WriteFault(w, n, m) ==
    /\ w \in Faults
    /\ m < n /\ n <= BufferSize
    /\ Goto(w, "locked", "out")
    /\ data' = Overwritten(n, m, nwrites + 1)
    /\ nwrites' = nwrites + 1
    /\ faulted' = faulted \cup {nwrites + 1}
    /\ lock' = NoThread
    /\ UNCHANGED <<readPtr, end, queue, seen, len, accepted, reads>>

StoreEnd(w) ==
    /\ Goto(w, "stores", "end stored") \/ Goto(w, "ptr stored", "wake")
    /\ end' = len
    /\ UNCHANGED <<data, readPtr, lock, queue, seen, writes, reads>>

\* Mutant: read_ptr is not set back.
StoreReadPtr_None(w) ==
    /\ Goto(w, "stores", "ptr stored") \/ Goto(w, "end stored", "wake")
    /\ UNCHANGED <<buffer, lock, queue, seen, writes, reads>>

StoreReadPtr(w) ==
    /\ Goto(w, "stores", "ptr stored") \/ Goto(w, "end stored", "wake")
    /\ readPtr' = 0
    /\ UNCHANGED <<data, end, lock, queue, seen, writes, reads>>

\* The bytes of the write that has the mutex are accepted.
Accept ==
    /\ accepted' = accepted \cup {[write |-> nwrites, at |-> i] : i \in 1..len}
    /\ len' = 0

\* Mutant: one reader is woken.
WakeUp_One(w) ==
    /\ Goto(w, "wake", "out")
    /\ \/ queue = {} /\ UNCHANGED queue
       \/ \E r \in queue : queue' = queue \ {r}
    /\ Accept
    /\ lock' = NoThread
    /\ UNCHANGED <<buffer, seen, nwrites, faulted, reads>>

\* wake_up_interruptible() wakes every reader, and the mutex is released.
WakeUp(w) ==
    /\ Goto(w, "wake", "out")
    /\ queue' = {}
    /\ Accept
    /\ lock' = NoThread
    /\ UNCHANGED <<buffer, seen, nwrites, faulted, reads>>

-----------------------------------------------------------------------------
Read(r) ==
    \/ Lock(r) \/ (\E n \in ReadSizes : ReadCopy(r, n)) \/ ReadEmpty(r)
    \/ Prepare(r) \/ LoadReadPtr(r) \/ Leave(r) \/ Sleep(r) \/ Awake(r)

Write(w) ==
    \/ Lock(w) \/ (\E n \in WriteSizes : WriteCopy(w, n))
    \/ StoreEnd(w) \/ StoreReadPtr(w) \/ WakeUp(w)

Next ==
    \/ \E t \in Thread : Call(t) \/ LockInterrupted(t)
    \/ \E r \in Readers : Read(r) \/ ReadFault(r) \/ WaitInterrupted(r)
    \/ \E w \in Writers : Write(w)
    \/ \E w \in Writers, n \in WriteSizes : \E m \in 0..n : WriteFault(w, n, m)

SafeSpec == Init /\ [][Next]_vars

\* A call that has begun goes on; who waits for the mutex gets it although
\* others take it again and again (the kernel's mutex hands itself over to a
\* waiter that has been passed by).
Spec ==
    /\ SafeSpec
    /\ \A t \in Thread : SF_vars(Lock(t))
    /\ \A r \in Readers : WF_vars(Read(r))
    /\ \A w \in Writers : WF_vars(Write(w))

-----------------------------------------------------------------------------
(***************************************************************************)
(* Properties                                                              *)
(***************************************************************************)
\* A writer that holds the mutex has begun to store the pointers and has not
\* woken the readers yet.
InStores == {"stores", "end stored", "ptr stored", "wake"}
Storing == \E w \in Writers : pc[w] \in InStores

\* The types of the variables; who holds the mutex is where the code holds it.
TypeOK ==
    /\ data \in [1..BufferSize -> Byte]
    /\ readPtr \in 0..BufferSize
    /\ end \in 0..BufferSize
    /\ lock \in Thread \cup {NoThread}
    /\ pc \in [Thread -> ReaderPc \cup WriterPc]
    /\ \A r \in Readers : pc[r] \in ReaderPc
    /\ \A w \in Writers : pc[w] \in WriterPc
    /\ \A t \in Thread : lock = t <=> pc[t] \in InStores \cup {"locked"}
    /\ queue \subseteq {r \in Readers : pc[r] \in {"load", "compare", "asleep"}}
    /\ len \in 0..BufferSize
    /\ seen \in [Readers -> 0..BufferSize]
    /\ nwrites \in Nat
    /\ accepted \subseteq Byte
    /\ faulted \subseteq 1..nwrites
    /\ BytesOf(taken) \subseteq Byte
    /\ again \subseteq Byte

\* end - read_ptr, which read() takes as a size_t, is never negative when a
\* reader has the mutex, although it is for a while when a writer has it.
PointersOrdered == ~Storing => readPtr <= end

\* No lost wake-up: a reader sleeps in the queue only while there is nothing
\* to read or a writer is about to wake it, although the condition is
\* evaluated without the mutex and in the middle of a write.
SleeperNotForgotten ==
    \A r \in queue : pc[r] = "asleep" => Empty \/ Storing

\* No byte of a write is returned by two reads.
NoByteTwice == again = {}

\* What a read returns is from one write, and there is no zero in it that
\* nobody wrote, unless a write has faulted: it leaves its bytes, or zeros, in
\* the place of unread ones.
OneWrite(b, d) ==
    \/ b.write = d.write /\ b.write > 0
    \/ {b.write, d.write} \cap faulted # {}
    \/ 0 \in {b.write, d.write} /\ faulted # {}

ReadsAreOneWrite == \A c \in taken : \A b, d \in BytesOf({c}) : OneWrite(b, d)

\* What reads return, however a write overtakes them.
ReadsAreRight == NoByteTwice /\ ReadsAreOneWrite

Unread == {data[i] : i \in (readPtr + 1) .. end}

\* The bytes of the last write, if it was answered with its size, are all
\* there when the mutex is free: what has not been returned comes next.
LastWriteReadable ==
    lock = NoThread => {b \in accepted : b.write = nwrites} \subseteq BytesOf(taken) \cup Unread

\* A reader that waits while there is something to read comes back, or
\* somebody else has read it.
WaitEnds ==
    \A r \in Readers : pc[r] = "asleep" /\ ~Empty ~> pc[r] \in {"out", "lock"} \/ Empty
=============================================================================
