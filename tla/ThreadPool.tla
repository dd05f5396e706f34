------------------------------ MODULE ThreadPool ------------------------------
(***************************************************************************)
(* ThreadPool of src/thread_pool.h: worker threads that run the tasks of a *)
(* bounded queue, enqueue() that adds a task and hands out its future, and *)
(* stop_all() / ~ThreadPool() that set stop and join the workers.          *)
(*                                                                         *)
(* A step is what a thread does between taking queue_mutex and releasing   *)
(* it (or going to sleep on a condition variable), or one thing it does    *)
(* without the mutex: notify_one() after enqueue() has released it,        *)
(* notify_all() after stop has been set, a join, the end of a task.        *)
(* condition and conditionNotfull are the threads asleep on the two        *)
(* condition variables; a thread outside of them evaluates its predicate   *)
(* when it gets the mutex, the first time and after every wake-up.         *)
(*                                                                         *)
(* Clients are the threads that own the pool.  A task is enqueued by the   *)
(* client that submits it or by the task that spawns it.                   *)
(***************************************************************************)
EXTENDS Integers, Sequences, FiniteSets, SequencesExt

CONSTANTS Workers,     \* the worker threads of the pool
          Clients,     \* the threads that call enqueue() from outside
          Task,        \* the tasks
          Submits,     \* the tasks each client enqueues
          Spawns,      \* the tasks each task enqueues while it runs
          Stoppers,    \* the clients that call stop_all() at their end
          WorkLimits,  \* work_limits
          NoTask       \* not a task

ASSUME ThreadPoolAssumption ==
    /\ IsFiniteSet(Workers) /\ Workers # {}
    /\ IsFiniteSet(Clients)
    /\ Workers \cap Clients = {}
    /\ Submits \in [Clients -> SUBSET Task]
    /\ Spawns \in [Task -> SUBSET Task]
    /\ \A c \in Clients, t \in Task : Submits[c] \cap Spawns[t] = {}
    /\ Stoppers \subseteq Clients
    /\ \A c, d \in Stoppers : c = d   \* a second join of a worker is an error
    /\ WorkLimits \in Nat
    /\ NoTask \notin Task

VARIABLES
    tasks,             \* tasks
    stop,              \* stop
    condition,         \* workers asleep on condition
    conditionNotfull,  \* threads asleep on condition_notfull
    pc,                \* where each thread is
    arg,               \* the task each thread is enqueueing
    running,           \* the task each worker runs
    called,            \* the tasks enqueue() has been called with
    ready,             \* the tasks whose future is ready
    early              \* ghost: the tasks that were queued before stop

vars == <<tasks, stop, condition, conditionNotfull, pc, arg, running, called, ready, early>>

Thread == Workers \cup Clients

\* Where a worker is: about to take the mutex in its loop, inside a task,
\* inside enqueue() called by that task, or gone.
WorkerPc == {"lock", "run", "enqueue", "notify", "exited"}

\* Where a client is: outside the pool, inside enqueue(), or inside
\* stop_all().
ClientPc == {"out", "enqueue", "notify", "stopping", "joining", "stopped"}

Init ==
    /\ tasks = <<>>
    /\ stop = FALSE
    /\ condition = {}
    /\ conditionNotfull = {}
    /\ pc = [th \in Thread |-> IF th \in Workers THEN "lock" ELSE "out"]
    /\ arg = [th \in Thread |-> NoTask]
    /\ running = [w \in Workers |-> NoTask]
    /\ called = {}
    /\ ready = {}
    /\ early = {}

-----------------------------------------------------------------------------
(***************************************************************************)
(* The loop of a worker                                                    *)
(***************************************************************************)
\* The worker has the mutex and is about to evaluate the wait predicate.
AtLoop(w) == pc[w] = "lock" /\ w \notin condition

\* Mutant: the task stays at the front of the queue.
WorkerPop_NoPop(w) ==
    /\ AtLoop(w)
    /\ tasks # <<>>
    /\ running' = [running EXCEPT ![w] = Head(tasks)]
    /\ conditionNotfull' = {}
    /\ pc' = [pc EXCEPT ![w] = "run"]
    /\ UNCHANGED <<tasks, stop, condition, arg, called, ready, early>>

\* Mutant: a worker that takes a task does not wake the blocked enqueue()s.
WorkerPop_NoNotify(w) ==
    /\ AtLoop(w)
    /\ tasks # <<>>
    /\ running' = [running EXCEPT ![w] = Head(tasks)]
    /\ tasks' = Tail(tasks)
    /\ pc' = [pc EXCEPT ![w] = "run"]
    /\ UNCHANGED <<stop, condition, conditionNotfull, arg, called, ready, early>>

\* Mutant: the worker takes the newest task.
WorkerPop_Lifo(w) ==
    /\ AtLoop(w)
    /\ tasks # <<>>
    /\ running' = [running EXCEPT ![w] = Last(tasks)]
    /\ tasks' = Front(tasks)
    /\ conditionNotfull' = {}
    /\ pc' = [pc EXCEPT ![w] = "run"]
    /\ UNCHANGED <<stop, condition, arg, called, ready, early>>

\* The worker takes the first task and wakes the blocked enqueue()s.
WorkerPop(w) ==
    /\ AtLoop(w)
    /\ tasks # <<>>
    /\ running' = [running EXCEPT ![w] = Head(tasks)]
    /\ tasks' = Tail(tasks)
    /\ conditionNotfull' = {}
    /\ pc' = [pc EXCEPT ![w] = "run"]
    /\ UNCHANGED <<stop, condition, arg, called, ready, early>>

\* Mutant: a worker leaves as soon as the pool is stopped.
WorkerExit_NotEmpty(w) ==
    /\ AtLoop(w)
    /\ stop
    /\ pc' = [pc EXCEPT ![w] = "exited"]
    /\ UNCHANGED <<tasks, stop, condition, conditionNotfull, arg, running, called, ready, early>>

\* stop && tasks.empty(): the worker returns.
WorkerExit(w) ==
    /\ AtLoop(w)
    /\ tasks = <<>>
    /\ stop
    /\ pc' = [pc EXCEPT ![w] = "exited"]
    /\ UNCHANGED <<tasks, stop, condition, conditionNotfull, arg, running, called, ready, early>>

\* Nothing to do: the worker sleeps on condition.
WorkerWait(w) ==
    /\ AtLoop(w)
    /\ tasks = <<>>
    /\ ~stop
    /\ condition' = condition \cup {w}
    /\ UNCHANGED <<tasks, stop, conditionNotfull, pc, arg, running, called, ready, early>>

\* The task, which has spawned what it spawns, returns: its future is ready.
FinishTask(w) ==
    /\ pc[w] = "run"
    /\ Spawns[running[w]] \subseteq called
    /\ ready' = ready \cup {running[w]}
    /\ running' = [running EXCEPT ![w] = NoTask]
    /\ pc' = [pc EXCEPT ![w] = "lock"]
    /\ UNCHANGED <<tasks, stop, condition, conditionNotfull, arg, called, early>>

-----------------------------------------------------------------------------
(***************************************************************************)
(* enqueue()                                                               *)
(***************************************************************************)
\* A thread calls enqueue() with t: the packaged_task and its future exist.
CallEnqueue(th, t) ==
    /\ t \notin called
    /\ \/ th \in Clients /\ pc[th] = "out" /\ t \in Submits[th]
       \/ th \in Workers /\ pc[th] = "run" /\ t \in Spawns[running[th]]
    /\ called' = called \cup {t}
    /\ arg' = [arg EXCEPT ![th] = t]
    /\ pc' = [pc EXCEPT ![th] = "enqueue"]
    /\ UNCHANGED <<tasks, stop, condition, conditionNotfull, running, ready, early>>

AtEnqueue(th) == pc[th] = "enqueue" /\ th \notin conditionNotfull

\* The predicate of condition_notfull.wait.
HasRoom == stop \/ Len(tasks) < WorkLimits

\* The task goes to the back of the queue and the mutex is released.
Emplace(th) ==
    /\ AtEnqueue(th)
    /\ HasRoom
    /\ tasks' = Append(tasks, arg[th])
    /\ early' = IF stop THEN early ELSE early \cup {arg[th]}
    /\ arg' = [arg EXCEPT ![th] = NoTask]
    /\ pc' = [pc EXCEPT ![th] = "notify"]
    /\ UNCHANGED <<stop, condition, conditionNotfull, running, called, ready>>

\* The queue is full and the pool runs: enqueue() sleeps.
EnqueueWait(th) ==
    /\ AtEnqueue(th)
    /\ ~HasRoom
    /\ conditionNotfull' = conditionNotfull \cup {th}
    /\ UNCHANGED <<tasks, stop, condition, pc, arg, running, called, ready, early>>

\* Where enqueue() returns to.
Caller(th) == IF th \in Workers THEN "run" ELSE "out"

\* Mutant: enqueue() notifies only when the queue was empty before.
NotifyOne_IfFirst(th) ==
    /\ pc[th] = "notify"
    /\ IF condition = {} \/ Len(tasks) # 1
         THEN UNCHANGED condition
         ELSE \E w \in condition : condition' = condition \ {w}
    /\ pc' = [pc EXCEPT ![th] = Caller(th)]
    /\ UNCHANGED <<tasks, stop, conditionNotfull, arg, running, called, ready, early>>

\* condition.notify_one(), after the mutex has been released: one of the
\* sleeping workers, if there is one, wakes up.
NotifyOne(th) ==
    /\ pc[th] = "notify"
    /\ \/ condition = {} /\ UNCHANGED condition
       \/ \E w \in condition : condition' = condition \ {w}
    /\ pc' = [pc EXCEPT ![th] = Caller(th)]
    /\ UNCHANGED <<tasks, stop, conditionNotfull, arg, running, called, ready, early>>

-----------------------------------------------------------------------------
(***************************************************************************)
(* stop_all() and ~ThreadPool()                                            *)
(***************************************************************************)
\* stop is set under the mutex.
SetStop(c) ==
    /\ c \in Stoppers
    /\ pc[c] = "out"
    /\ Submits[c] \subseteq called
    /\ stop' = TRUE
    /\ pc' = [pc EXCEPT ![c] = "stopping"]
    /\ UNCHANGED <<tasks, condition, conditionNotfull, arg, running, called, ready, early>>

\* Mutant: one worker is notified.
NotifyAll_One(c) ==
    /\ pc[c] = "stopping"
    /\ \/ condition = {} /\ UNCHANGED condition
       \/ \E w \in condition : condition' = condition \ {w}
    /\ pc' = [pc EXCEPT ![c] = "joining"]
    /\ UNCHANGED <<tasks, stop, conditionNotfull, arg, running, called, ready, early>>

\* condition.notify_all(), without the mutex; condition_notfull is not
\* notified.
NotifyAll(c) ==
    /\ pc[c] = "stopping"
    /\ condition' = {}
    /\ pc' = [pc EXCEPT ![c] = "joining"]
    /\ UNCHANGED <<tasks, stop, conditionNotfull, arg, running, called, ready, early>>

\* Every worker has been joined.
Join(c) ==
    /\ pc[c] = "joining"
    /\ \A w \in Workers : pc[w] = "exited"
    /\ pc' = [pc EXCEPT ![c] = "stopped"]
    /\ UNCHANGED <<tasks, stop, condition, conditionNotfull, arg, running, called, ready, early>>

-----------------------------------------------------------------------------
\* wait() may return without a notification.
SpuriousWakeup(th) ==
    /\ th \in condition \cup conditionNotfull
    /\ condition' = condition \ {th}
    /\ conditionNotfull' = conditionNotfull \ {th}
    /\ UNCHANGED <<tasks, stop, pc, arg, running, called, ready, early>>

Enqueue(th) ==
    \/ \E t \in Task : CallEnqueue(th, t)
    \/ Emplace(th)
    \/ EnqueueWait(th)
    \/ NotifyOne(th)

Loop(w) == WorkerPop(w) \/ WorkerExit(w) \/ WorkerWait(w)

Work(w) == Loop(w) \/ FinishTask(w) \/ Enqueue(w)

Use(c) == Enqueue(c) \/ SetStop(c) \/ NotifyAll(c) \/ Join(c)

Next ==
    \/ \E w \in Workers : Work(w)
    \/ \E c \in Clients : Use(c)
    \/ \E th \in Thread : SpuriousWakeup(th)

\* Every thread that is not asleep gets the mutex, and the processor, in the
\* end.
Fairness ==
    /\ \A w \in Workers : WF_vars(Work(w))
    /\ \A c \in Clients : WF_vars(Use(c))

SafeSpec == Init /\ [][Next]_vars
Spec == SafeSpec /\ Fairness

-----------------------------------------------------------------------------
(***************************************************************************)
(* Properties                                                              *)
(***************************************************************************)
\* The types of the variables, and who may be where.
TypeOK ==
    /\ tasks \in Seq(Task)
    /\ stop \in BOOLEAN
    /\ condition \subseteq {w \in Workers : pc[w] = "lock"}
    /\ conditionNotfull \subseteq {th \in Thread : pc[th] = "enqueue"}
    /\ pc \in [Thread -> WorkerPc \cup ClientPc]
    /\ \A w \in Workers : pc[w] \in WorkerPc
    /\ \A c \in Clients : pc[c] \in ClientPc
    /\ arg \in [Thread -> Task \cup {NoTask}]
    /\ \A th \in Thread : arg[th] # NoTask <=> pc[th] = "enqueue"
    /\ running \in [Workers -> Task \cup {NoTask}]
    /\ \A w \in Workers : running[w] # NoTask <=> pc[w] \in {"run", "enqueue", "notify"}
    /\ called \subseteq Task
    /\ ready \subseteq Task
    /\ early \subseteq called
    /\ \A th \in Thread : arg[th] # NoTask => arg[th] \in called

\* A task enqueue() was called with is in exactly one place: about to be
\* queued, queued once, run by one worker, or finished.
InHand == {arg[th] : th \in Thread} \ {NoTask}
InRun == {running[w] : w \in Workers} \ {NoTask}

EveryTaskOnce ==
    /\ called = InHand \cup ToSet(tasks) \cup InRun \cup ready
    /\ \A i, j \in DOMAIN tasks : tasks[i] = tasks[j] => i = j
    /\ \A th, u \in Thread : arg[th] = arg[u] /\ arg[th] # NoTask => th = u
    /\ \A w, v \in Workers : running[w] = running[v] /\ running[w] # NoTask => w = v
    /\ InHand \cap (ToSet(tasks) \cup InRun \cup ready) = {}
    /\ ToSet(tasks) \cap (InRun \cup ready) = {}
    /\ InRun \cap ready = {}

\* Workers that will look at the queue, and threads that will wake one.
Awake == {w \in Workers : AtLoop(w)}
Notifying == {th \in Thread : pc[th] = "notify"}

\* notify_one() after the mutex has been released is enough: while a worker
\* sleeps there is, for every queued task, a worker about to look at the
\* queue or a thread about to wake one.
WakeupsCoverTasks ==
    condition # {} => Len(tasks) <= Cardinality(Awake) + Cardinality(Notifying)

\* A worker that sleeps in a stopped pool is about to be woken, and enqueue()
\* sleeps only while the queue is full.
SleepIsJustified ==
    /\ stop /\ condition # {} => \E c \in Clients : pc[c] = "stopping"
    /\ conditionNotfull # {} => Len(tasks) >= WorkLimits

\* Nobody sleeps in vain, although notify_one() and notify_all() come after the
\* mutex has been released.
NobodySleepsInVain == WakeupsCoverTasks /\ SleepIsJustified

\* "prevent enqueue too many task" (thread_pool.h:119): the limit holds until
\* the pool is stopped.
LimitUntilStop == ~stop => Len(tasks) <= WorkLimits

\* stop_all() returns to a pool that has finished: what was queued before
\* stop, and whatever those tasks went on to enqueue, has run.  What is left
\* was enqueued, after stop, by a client that does not own the end of the
\* pool.
StopDrains ==
    \A c \in Clients :
        pc[c] = "stopped" =>
            /\ early \subseteq ready
            /\ \A t \in ready : Spawns[t] \subseteq ready
            /\ InRun = {}

\* stop_all() returns.
StopReturns == \A c \in Clients : pc[c] = "stopping" ~> pc[c] = "stopped"

\* The future of a task that was asked for becomes ready, unless the pool was
\* stopped before the task was in its queue.
FuturesReady == \A t \in Task : t \in called ~> t \in ready \/ (stop /\ t \notin early)
=============================================================================
