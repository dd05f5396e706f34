----------------------------- MODULE ThreadQueue -----------------------------
(***************************************************************************)
(* blocking_queue<T> of src/thread_queue.h: a bounded FIFO shared by       *)
(* threads that put elements, threads that get the first element a filter  *)
(* accepts, and a close() that ends the getters.                           *)
(*                                                                         *)
(* The mutex _m is held from the first line of a method to its last,       *)
(* except while a condition variable is waited on.  One evaluation of a    *)
(* wait predicate under the mutex, with what follows it up to the next     *)
(* release of the mutex, is therefore one step.  cv and cvNotfull are the  *)
(* threads asleep on _cv and _cv_notfull; a thread outside of both is      *)
(* about to take the mutex and evaluates its predicate again when it does, *)
(* which is what condition_variable::wait(lock, pred) does on its first    *)
(* evaluation and after every wake-up.                                     *)
(*                                                                         *)
(* The threads are those of src/tthreads.cpp: a getter calls get() until   *)
(* it returns false, a putter puts its elements in order, and a putter     *)
(* that is a closer then calls close().                                    *)
(***************************************************************************)
EXTENDS Integers, Sequences, FiniteSets, SequencesExt

CONSTANTS Getters,      \* threads that run call_from_thread / worker_thread
          Putters,      \* threads that call put()
          PutCount,     \* how many elements each putter puts
          Accepts,      \* the elements each getter's filter accepts
          NonBlocking,  \* the putters that call put(obj, false)
          Closers,      \* the putters that call close() after their last put
          SizeLimit     \* _size_limit, an int

(***************************************************************************)
(* The n-th element a putter puts.  Elements are told apart by who put     *)
(* them and when; nothing else of T matters to the queue.                  *)
(***************************************************************************)
Item == UNION {[from : {p}, no : 1..PutCount[p]] : p \in Putters}

ASSUME ThreadQueueAssumption ==
    /\ Getters \cap Putters = {}
    /\ PutCount \in [Putters -> Nat]
    /\ Accepts \in [Getters -> SUBSET Item]
    /\ NonBlocking \subseteq Putters
    /\ Closers \subseteq Putters
    /\ SizeLimit \in Int

VARIABLES
    q,          \* _q
    closed,     \* _closed
    maxSize,    \* _max_size
    cv,         \* getters asleep on _cv
    cvNotfull,  \* putters asleep on _cv_notfull
    nput,       \* how many calls of put() each putter has had answered
    got,        \* what each getter has received, in order
    gone,       \* the getters whose loop has ended
    done,       \* the putters that have returned
    arrived,    \* ghost: the arrival number of an element, 0 before it is in
    count,      \* ghost: how many elements have been pushed
    peak        \* ghost: the largest size the queue ever had

vars == <<q, closed, maxSize, cv, cvNotfull, nput, got, gone, done, arrived, count, peak>>
ghosts == <<arrived, count, peak>>

-----------------------------------------------------------------------------
\* _q.size() >= _size_limit: the int converts to size_t, so a negative limit
\* is larger than any size.
Full(s) == SizeLimit >= 0 /\ Len(s) >= SizeLimit

\* The positions of the elements the filter of g accepts.
Matches(g) == {i \in DOMAIN q : q[i] \in Accepts[g]}

\* Mutant: the search runs from the back of the deque.
StopsAt_Last(g, it) == it \in Matches(g) /\ \A j \in Matches(g) : j <= it

\* The search from _q.begin() stops at it.
StopsAt(g, it) == it \in Matches(g) /\ \A j \in Matches(g) : it <= j

Larger(a, b) == IF a > b THEN a ELSE b

-----------------------------------------------------------------------------
Init ==
    /\ q = <<>>
    /\ closed = FALSE
    /\ maxSize = 0
    /\ cv = {}
    /\ cvNotfull = {}
    /\ nput = [p \in Putters |-> 0]
    /\ got = [g \in Getters |-> <<>>]
    /\ gone = {}
    /\ done = {}
    /\ arrived = [x \in Item |-> 0]
    /\ count = 0
    /\ peak = 0

-----------------------------------------------------------------------------
(***************************************************************************)
(* get(ret, filter)                                                        *)
(***************************************************************************)
\* ret = *it
Copy(g, it) == got' = [got EXCEPT ![g] = Append(@, q[it])]

\* Mutant: get() does not notify _cv_notfull.
GetTake_NoNotify(g) ==
    /\ g \notin cv \cup gone
    /\ \E it \in DOMAIN q :
        /\ StopsAt(g, it)
        /\ Copy(g, it)
        /\ q' = RemoveAt(q, it)
    /\ maxSize' = Larger(Len(q), maxSize)
    /\ UNCHANGED <<closed, cv, cvNotfull, nput, gone, done, ghosts>>

\* The predicate holds because an element is found: it is copied and erased,
\* and the putters are woken if there is room.
GetTake(g) ==
    /\ g \notin cv \cup gone
    /\ \E it \in DOMAIN q :
        /\ StopsAt(g, it)
        /\ Copy(g, it)
        /\ q' = RemoveAt(q, it)
    /\ maxSize' = Larger(Len(q), maxSize)
    /\ cvNotfull' = IF Full(q') THEN cvNotfull ELSE {}
    /\ UNCHANGED <<closed, cv, nput, gone, done, ghosts>>

\* Mutant: a closed queue answers false without looking for an element.
GetClosed_Early(g) ==
    /\ g \notin cv \cup gone
    /\ closed
    /\ maxSize' = Larger(Len(q), maxSize)
    /\ gone' = gone \cup {g}
    /\ UNCHANGED <<q, closed, cv, cvNotfull, nput, got, done, ghosts>>

\* The predicate holds because the queue is closed: get() returns false and
\* the loop of the getter ends.
GetClosed(g) ==
    /\ g \notin cv \cup gone
    /\ Matches(g) = {}
    /\ closed
    /\ maxSize' = Larger(Len(q), maxSize)
    /\ gone' = gone \cup {g}
    /\ UNCHANGED <<q, closed, cv, cvNotfull, nput, got, done, ghosts>>

\* The predicate does not hold: the getter sleeps on _cv.
GetWait(g) ==
    /\ g \notin cv \cup gone
    /\ Matches(g) = {}
    /\ ~closed
    /\ cv' = cv \cup {g}
    /\ UNCHANGED <<q, closed, maxSize, cvNotfull, nput, got, gone, done, ghosts>>

Get(g) == GetTake(g) \/ GetClosed(g) \/ GetWait(g)

-----------------------------------------------------------------------------
(***************************************************************************)
(* put(obj, blocking)                                                      *)
(***************************************************************************)
CanPut(p) == p \notin cvNotfull \cup done /\ nput[p] < PutCount[p]

\* The element of the put() in progress.
Obj(p) == [from |-> p, no |-> nput[p] + 1]

Push(p) ==
    /\ q' = Append(q, Obj(p))
    /\ nput' = [nput EXCEPT ![p] = @ + 1]
    /\ arrived' = [arrived EXCEPT ![Obj(p)] = count + 1]
    /\ count' = count + 1
    /\ peak' = Larger(Len(q'), peak)

\* Mutant: a woken putter does not evaluate its predicate again.
PutPush_NoRecheck(p) ==
    /\ CanPut(p)
    /\ Full(q) => p \notin NonBlocking /\ count > 0
    /\ Push(p)
    /\ cv' = {}
    /\ UNCHANGED <<closed, maxSize, cvNotfull, got, gone, done>>

\* Mutant: put() notifies one of the threads asleep on _cv.
PutPush_NotifyOne(p) ==
    /\ CanPut(p)
    /\ ~Full(q)
    /\ Push(p)
    /\ \/ cv = {} /\ cv' = {}
       \/ \E g \in cv : cv' = cv \ {g}
    /\ UNCHANGED <<closed, maxSize, cvNotfull, got, gone, done>>

\* There is room: the element goes to the back and every getter is woken.
PutPush(p) ==
    /\ CanPut(p)
    /\ ~Full(q)
    /\ Push(p)
    /\ cv' = {}
    /\ UNCHANGED <<closed, maxSize, cvNotfull, got, gone, done>>

\* A non-blocking put() of a full queue returns false.
PutRefuse(p) ==
    /\ CanPut(p)
    /\ Full(q)
    /\ p \in NonBlocking
    /\ nput' = [nput EXCEPT ![p] = @ + 1]
    /\ UNCHANGED <<q, closed, maxSize, cv, cvNotfull, got, gone, done, ghosts>>

\* A blocking put() of a full queue sleeps on _cv_notfull.
PutWait(p) ==
    /\ CanPut(p)
    /\ Full(q)
    /\ p \notin NonBlocking
    /\ cvNotfull' = cvNotfull \cup {p}
    /\ UNCHANGED <<q, closed, maxSize, cv, nput, got, gone, done, ghosts>>

-----------------------------------------------------------------------------
\* Mutant: close() wakes nobody.
Close_NoNotify(p) ==
    /\ p \in Closers \ done
    /\ nput[p] = PutCount[p]
    /\ closed' = TRUE
    /\ done' = done \cup {p}
    /\ UNCHANGED <<q, maxSize, cv, cvNotfull, nput, got, gone, ghosts>>

\* close(): wakes the getters, and only them.
Close(p) ==
    /\ p \in Closers \ done
    /\ nput[p] = PutCount[p]
    /\ closed' = TRUE
    /\ cv' = {}
    /\ done' = done \cup {p}
    /\ UNCHANGED <<q, maxSize, cvNotfull, nput, got, gone, ghosts>>

\* A putter that does not close returns after its last put().
Return(p) ==
    /\ p \in Putters \ (Closers \cup done)
    /\ nput[p] = PutCount[p]
    /\ done' = done \cup {p}
    /\ UNCHANGED <<q, closed, maxSize, cv, cvNotfull, nput, got, gone, ghosts>>

Put(p) == PutPush(p) \/ PutRefuse(p) \/ PutWait(p) \/ Close(p) \/ Return(p)

\* std::condition_variable::wait may return without a notification.
SpuriousWakeup(t) ==
    /\ t \in cv \cup cvNotfull
    /\ cv' = cv \ {t}
    /\ cvNotfull' = cvNotfull \ {t}
    /\ UNCHANGED <<q, closed, maxSize, nput, got, gone, done, ghosts>>

Next ==
    \/ \E g \in Getters : Get(g)
    \/ \E p \in Putters : Put(p)
    \/ \E t \in Getters \cup Putters : SpuriousWakeup(t)

\* Every thread that has been woken gets the mutex in the end.
Fairness ==
    /\ \A g \in Getters : WF_vars(Get(g))
    /\ \A p \in Putters : WF_vars(Put(p))

SafeSpec == Init /\ [][Next]_vars
Spec == SafeSpec /\ Fairness

-----------------------------------------------------------------------------
(***************************************************************************)
(* Properties                                                              *)
(***************************************************************************)
\* Elements that have been pushed.
Pushed == {x \in Item : arrived[x] > 0}
Taken(g) == ToSet(got[g])

\* The types of the variables; a putter that sleeps is inside put() and a
\* thread that has returned sleeps nowhere.
TypeOK ==
    /\ q \in Seq(Item)
    /\ closed \in BOOLEAN
    /\ maxSize \in Nat
    /\ cv \subseteq Getters \ gone
    /\ cvNotfull \subseteq Putters \ done
    /\ nput \in [Putters -> Nat]
    /\ \A p \in Putters : nput[p] <= PutCount[p]
    /\ \A p \in cvNotfull : nput[p] < PutCount[p]
    /\ got \in [Getters -> Seq(Item)]
    /\ gone \subseteq Getters
    /\ done \subseteq Putters
    /\ arrived \in [Item -> Nat]
    /\ count \in Nat
    /\ peak \in Nat

\* No lost wake-up: a getter sleeps only while no element passes its filter
\* and the queue is open, and a putter sleeps only while the queue is full,
\* whatever mixture of put(), get() and close() came before.
NoLostWakeup ==
    /\ \A g \in cv : Matches(g) = {} /\ ~closed
    /\ cvNotfull # {} => Full(q)

\* An element put into the queue is in exactly one place: still queued at one
\* position, or received once by one getter.
ExactlyOnce ==
    /\ \A i, j \in DOMAIN q : q[i] = q[j] => i = j
    /\ \A g \in Getters : \A i, j \in DOMAIN got[g] : got[g][i] = got[g][j] => i = j
    /\ \A g \in Getters : Taken(g) \cap ToSet(q) = {}
    /\ \A g, h \in Getters : g # h => Taken(g) \cap Taken(h) = {}
    /\ Pushed = ToSet(q) \cup UNION {Taken(g) : g \in Getters}

\* First in, first out for every filter: what a getter has received is in the
\* order of arrival, and nothing it would accept that is still queued arrived
\* before something it has received ("check from the First Input to meet FIFO
\* requirement", thread_queue.h:29).
FifoPerFilter ==
    \A g \in Getters :
        /\ \A i, j \in DOMAIN got[g] : i < j => arrived[got[g][i]] < arrived[got[g][j]]
        /\ \A x \in Taken(g), y \in ToSet(q) \cap Accepts[g] : arrived[x] < arrived[y]

\* The limit of the queue holds although notify_all() wakes every putter for
\* one free place; and although max_size() is updated by get() only, together
\* with the present size it is the high-water mark: once the queue has been
\* drained, what test2() and test3() print is the largest size it ever had.
LimitHolds == SizeLimit >= 0 => Len(q) <= SizeLimit
HighWaterMark == peak = Larger(Len(q), maxSize)
SizesHold == LimitHolds /\ HighWaterMark

\* "nothing will found in the future" (thread_queue.h:41): a getter that was
\* told the queue has ended never leaves an element behind that its filter
\* accepts, as long as nobody puts one after close(), which put() lets him.
NothingFoundInFuture == \A g \in gone : Matches(g) = {}

\* Every thread returns: the getters because the queue is closed after the
\* last put, the putters because the queue is drained.
EverybodyReturns == <>(gone = Getters /\ done = Putters)

-----------------------------------------------------------------------------
(***************************************************************************)
(* The queue is a channel without locks, condition variables or limit.     *)
(***************************************************************************)
Channel == INSTANCE FilterChannel
    WITH chan <- q, shut <- closed, received <- got

\* The queue does what the channel promises, and no sleeping or limit keeps a
\* getter from an element the channel would hand to it.
ImplementsChannel == Channel!Spec
ImplementsChannelSafely == Channel!SafeSpec
=============================================================================
