--------------------------- MODULE ThreadPoolProofs ---------------------------
(***************************************************************************)
(* Theorems about ThreadPool, for any numbers of workers and clients, any  *)
(* tasks and any limit.                                                    *)
(***************************************************************************)
EXTENDS ThreadPool, FiniteSetTheorems, TLAPS

-----------------------------------------------------------------------------
(***************************************************************************)
(* Type correctness                                                        *)
(***************************************************************************)
\* The variables have their types, a thread sleeps only where the code waits,
\* and a worker runs a task, or a thread holds one, exactly where it should.
THEOREM TypeCorrect == SafeSpec => []TypeOK
<1> USE ThreadPoolAssumption DEF Thread, WorkerPc, ClientPc
<1>1. Init => TypeOK
  <2> SUFFICES ASSUME Init PROVE TypeOK
    OBVIOUS
  <2>1. tasks \in Seq(Task)
    BY DEF Init
  <2> QED BY <2>1 DEF Init, TypeOK
<1>2. TypeOK /\ [Next]_vars => TypeOK'
  <2> SUFFICES ASSUME TypeOK, [Next]_vars PROVE TypeOK'
    OBVIOUS
  <2> USE DEF TypeOK
  <2>1. ASSUME NEW w \in Workers, WorkerPop(w) PROVE TypeOK'
    <3>1. Head(tasks) \in Task /\ Tail(tasks) \in Seq(Task)
      BY <2>1 DEF WorkerPop
    <3> QED BY <2>1, <3>1 DEF WorkerPop, AtLoop
  <2>2. ASSUME NEW w \in Workers, WorkerExit(w) PROVE TypeOK'
    BY <2>2 DEF WorkerExit, AtLoop
  <2>3. ASSUME NEW w \in Workers, WorkerWait(w) PROVE TypeOK'
    BY <2>3 DEF WorkerWait, AtLoop
  <2>4. ASSUME NEW w \in Workers, FinishTask(w) PROVE TypeOK'
    <3>1. running[w] \in Task
      BY <2>4 DEF FinishTask
    <3> QED BY <2>4, <3>1 DEF FinishTask
  <2>5. ASSUME NEW th \in Thread, NEW t \in Task, CallEnqueue(th, t) PROVE TypeOK'
    BY <2>5 DEF CallEnqueue
  <2>6. ASSUME NEW th \in Thread, Emplace(th) PROVE TypeOK'
    <3>1. arg[th] \in Task /\ tasks' \in Seq(Task)
      BY <2>6 DEF Emplace, AtEnqueue
    <3> QED BY <2>6, <3>1 DEF Emplace, AtEnqueue
  <2>7. ASSUME NEW th \in Thread, EnqueueWait(th) PROVE TypeOK'
    BY <2>7 DEF EnqueueWait, AtEnqueue
  <2>8. ASSUME NEW th \in Thread, NotifyOne(th) PROVE TypeOK'
    BY <2>8 DEF NotifyOne, Caller
  <2>9. ASSUME NEW c \in Clients, SetStop(c) PROVE TypeOK'
    BY <2>9 DEF SetStop
  <2>10. ASSUME NEW c \in Clients, NotifyAll(c) PROVE TypeOK'
    BY <2>10 DEF NotifyAll
  <2>11. ASSUME NEW c \in Clients, Join(c) PROVE TypeOK'
    BY <2>11 DEF Join
  <2>12. ASSUME NEW th \in Thread, SpuriousWakeup(th) PROVE TypeOK'
    BY <2>12 DEF SpuriousWakeup
  <2>13. CASE UNCHANGED vars
    BY <2>13 DEF vars
  <2> QED
    BY <2>1, <2>2, <2>3, <2>4, <2>5, <2>6, <2>7, <2>8, <2>9, <2>10, <2>11, <2>12, <2>13
       DEF Next, Work, Use, Loop, Enqueue
<1> QED BY <1>1, <1>2, PTL DEF SafeSpec

-----------------------------------------------------------------------------
(***************************************************************************)
(* The limit, and sleeping                                                 *)
(***************************************************************************)
\* "prevent enqueue too many task": until stop the queue is never longer than
\* work_limits.
THEOREM LimitHolds == SafeSpec => []LimitUntilStop
<1> USE ThreadPoolAssumption DEF LimitUntilStop
<1>1. Init => LimitUntilStop
  BY DEF Init
<1>2. TypeOK /\ LimitUntilStop /\ [Next]_vars => LimitUntilStop'
  <2> SUFFICES ASSUME TypeOK, LimitUntilStop, [Next]_vars PROVE LimitUntilStop'
    OBVIOUS
  <2>1. ASSUME NEW w \in Workers, WorkerPop(w) PROVE LimitUntilStop'
    <3>1. Len(tasks') = Len(tasks) - 1 /\ Len(tasks) \in Nat
      BY <2>1 DEF WorkerPop, TypeOK
    <3> QED BY <2>1, <3>1 DEF WorkerPop
  <2>2. ASSUME NEW th \in Thread, Emplace(th) PROVE LimitUntilStop'
    <3>1. Len(tasks') = Len(tasks) + 1 /\ Len(tasks) \in Nat
      BY <2>2 DEF Emplace, TypeOK
    <3> QED BY <2>2, <3>1 DEF Emplace, HasRoom
  <2>3. ASSUME NEW w \in Workers, WorkerExit(w) \/ WorkerWait(w) \/ FinishTask(w)
        PROVE  LimitUntilStop'
    BY <2>3 DEF WorkerExit, WorkerWait, FinishTask
  <2>4. ASSUME NEW th \in Thread,
               (\E t \in Task : CallEnqueue(th, t)) \/ EnqueueWait(th) \/ NotifyOne(th)
                  \/ SpuriousWakeup(th)
        PROVE  LimitUntilStop'
    BY <2>4 DEF CallEnqueue, EnqueueWait, NotifyOne, SpuriousWakeup
  <2>5. ASSUME NEW c \in Clients, SetStop(c) \/ NotifyAll(c) \/ Join(c)
        PROVE  LimitUntilStop'
    BY <2>5 DEF SetStop, NotifyAll, Join
  <2>6. CASE UNCHANGED vars
    BY <2>6 DEF vars
  <2> QED
    BY <2>1, <2>2, <2>3, <2>4, <2>5, <2>6 DEF Next, Work, Use, Loop, Enqueue, Thread
<1> QED BY <1>1, <1>2, TypeCorrect, PTL DEF SafeSpec

\* Nobody sleeps without a reason: no worker in a stopped pool, unless
\* stop_all() is just about to wake it, and no enqueue() with room in the
\* queue.
THEOREM NobodySleepsIdly == SafeSpec => []SleepIsJustified
<1> USE ThreadPoolAssumption DEF SleepIsJustified
<1>1. Init => SleepIsJustified
  BY DEF Init
<1>2. TypeOK /\ SleepIsJustified /\ [Next]_vars => SleepIsJustified'
  <2> SUFFICES ASSUME TypeOK, SleepIsJustified, [Next]_vars PROVE SleepIsJustified'
    OBVIOUS
  <2> USE DEF TypeOK, Thread
  <2>0. Len(tasks) \in Nat /\ \A c \in Clients : c \notin Workers
    OBVIOUS
  <2>1. ASSUME NEW w \in Workers, WorkerPop(w) PROVE SleepIsJustified'
    BY <2>0, <2>1 DEF WorkerPop, AtLoop
  <2>2. ASSUME NEW w \in Workers, WorkerExit(w) PROVE SleepIsJustified'
    BY <2>0, <2>2 DEF WorkerExit, AtLoop
  <2>3. ASSUME NEW w \in Workers, WorkerWait(w) PROVE SleepIsJustified'
    BY <2>0, <2>3 DEF WorkerWait, AtLoop
  <2>4. ASSUME NEW w \in Workers, FinishTask(w) PROVE SleepIsJustified'
    BY <2>0, <2>4 DEF FinishTask
  <2>5. ASSUME NEW th \in Thread, NEW t \in Task, CallEnqueue(th, t) PROVE SleepIsJustified'
    BY <2>0, <2>5 DEF CallEnqueue
  <2>6. ASSUME NEW th \in Thread, Emplace(th) PROVE SleepIsJustified'
    <3>1. Len(tasks') = Len(tasks) + 1
      BY <2>6 DEF Emplace
    <3>2. condition' = condition /\ stop' = stop /\ conditionNotfull' = conditionNotfull
      BY <2>6 DEF Emplace
    <3>3. \A c \in Clients : pc[c] = "stopping" => pc'[c] = "stopping"
      BY <2>6 DEF Emplace, AtEnqueue
    <3> QED BY <2>0, <3>1, <3>2, <3>3
  <2>7. ASSUME NEW th \in Thread, EnqueueWait(th) PROVE SleepIsJustified'
    BY <2>0, <2>7 DEF EnqueueWait, HasRoom
  <2>8. ASSUME NEW th \in Thread, NotifyOne(th) PROVE SleepIsJustified'
    BY <2>0, <2>8 DEF NotifyOne
  <2>9. ASSUME NEW c \in Clients, SetStop(c) PROVE SleepIsJustified'
    BY <2>0, <2>9 DEF SetStop
  <2>10. ASSUME NEW c \in Clients, NotifyAll(c) PROVE SleepIsJustified'
    BY <2>0, <2>10 DEF NotifyAll
  <2>11. ASSUME NEW c \in Clients, Join(c) PROVE SleepIsJustified'
    BY <2>0, <2>11 DEF Join
  <2>12. ASSUME NEW th \in Thread, SpuriousWakeup(th) PROVE SleepIsJustified'
    BY <2>0, <2>12 DEF SpuriousWakeup
  <2>13. CASE UNCHANGED vars
    BY <2>13 DEF vars
  <2> QED
    BY <2>1, <2>2, <2>3, <2>4, <2>5, <2>6, <2>7, <2>8, <2>9, <2>10, <2>11, <2>12, <2>13
       DEF Next, Work, Use, Loop, Enqueue
<1> QED BY <1>1, <1>2, TypeCorrect, PTL DEF SafeSpec

-----------------------------------------------------------------------------
(***************************************************************************)
(* Wake-ups cover the queue                                                *)
(***************************************************************************)
\* The two sets the theorem counts are finite.
LEMMA CountsAreFinite ==
    ASSUME TypeOK
    PROVE  /\ IsFiniteSet(Awake) /\ Cardinality(Awake) \in Nat
           /\ IsFiniteSet(Notifying) /\ Cardinality(Notifying) \in Nat
<1>1. IsFiniteSet(Thread)
  BY ThreadPoolAssumption, FS_Union DEF Thread
<1>2. IsFiniteSet(Awake) /\ IsFiniteSet(Notifying)
  BY <1>1, ThreadPoolAssumption, FS_Subset DEF Awake, Notifying
<1> QED BY <1>2, FS_CardinalityType

\* notify_one() for every emplace, sent after the mutex has been released, is
\* enough: as long as a worker sleeps, every queued task has a worker that is
\* about to look at the queue or a notification on its way.
THEOREM WakeupsSuffice == SafeSpec => []WakeupsCoverTasks
<1> USE ThreadPoolAssumption DEF WakeupsCoverTasks
<1>1. Init => WakeupsCoverTasks
  BY DEF Init
<1>2. TypeOK /\ TypeOK' /\ WakeupsCoverTasks /\ [Next]_vars => WakeupsCoverTasks'
  <2> SUFFICES ASSUME TypeOK, TypeOK', WakeupsCoverTasks, [Next]_vars
               PROVE  WakeupsCoverTasks'
    OBVIOUS
  <2>0. /\ Len(tasks) \in Nat /\ Len(tasks') \in Nat
        /\ IsFiniteSet(Awake) /\ Cardinality(Awake) \in Nat
        /\ IsFiniteSet(Notifying) /\ Cardinality(Notifying) \in Nat
        /\ IsFiniteSet(Awake)' /\ Cardinality(Awake)' \in Nat
        /\ IsFiniteSet(Notifying)' /\ Cardinality(Notifying)' \in Nat
    <3>1. Len(tasks) \in Nat /\ Len(tasks') \in Nat
      BY DEF TypeOK
    <3>2. (IsFiniteSet(Awake) /\ Cardinality(Awake) \in Nat
           /\ IsFiniteSet(Notifying) /\ Cardinality(Notifying) \in Nat)'
      <4>1. IsFiniteSet(Thread)
        BY FS_Union DEF Thread
      <4>2. Awake' \subseteq Workers /\ Notifying' \subseteq Thread
        BY DEF Awake, Notifying
      <4>3. IsFiniteSet(Awake') /\ IsFiniteSet(Notifying')
        BY <4>1, <4>2, FS_Subset
      <4> QED BY <4>3, FS_CardinalityType
    <3> QED BY <3>1, <3>2, CountsAreFinite
  \* Steps after which there are as many awake, notifying and queued.
  <2>1. ASSUME condition' \subseteq condition, Len(tasks') <= Len(tasks),
               Awake \subseteq Awake', Notifying \subseteq Notifying'
        PROVE  WakeupsCoverTasks'
    BY <2>0, <2>1, FS_Subset
  <2>2. ASSUME NEW w \in Workers, WorkerPop(w) PROVE WakeupsCoverTasks'
    <3>1. Len(tasks') = Len(tasks) - 1 /\ condition' = condition
      BY <2>2 DEF WorkerPop, TypeOK
    <3>2. Awake' = Awake \ {w} /\ w \in Awake
      BY <2>2 DEF WorkerPop, AtLoop, Awake, TypeOK, Thread
    <3>3. Notifying' = Notifying
      BY <2>2 DEF WorkerPop, AtLoop, Notifying, TypeOK, Thread
    <3>4. Cardinality(Awake') = Cardinality(Awake) - 1
      BY <2>0, <3>2, FS_RemoveElement
    <3> QED BY <2>0, <3>1, <3>3, <3>4
  <2>3. ASSUME NEW w \in Workers, WorkerExit(w) \/ WorkerWait(w) PROVE WakeupsCoverTasks'
    <3>1. Len(tasks') = 0
      BY <2>3 DEF WorkerExit, WorkerWait
    <3> QED BY <2>0, <3>1
  <2>4. ASSUME NEW w \in Workers, FinishTask(w) PROVE WakeupsCoverTasks'
    <3>1. tasks' = tasks /\ condition' = condition
      BY <2>4 DEF FinishTask
    <3>2. Awake \subseteq Awake' /\ Notifying \subseteq Notifying'
      BY <2>4 DEF FinishTask, AtLoop, Awake, Notifying, TypeOK, Thread
    <3> QED BY <2>0, <2>1, <3>1, <3>2
  <2>5. ASSUME NEW th \in Thread, NEW t \in Task, CallEnqueue(th, t) PROVE WakeupsCoverTasks'
    <3>1. tasks' = tasks /\ condition' = condition
      BY <2>5 DEF CallEnqueue
    <3>2. Awake \subseteq Awake' /\ Notifying \subseteq Notifying'
      BY <2>5 DEF CallEnqueue, AtLoop, Awake, Notifying, TypeOK, Thread
    <3> QED BY <2>0, <2>1, <3>1, <3>2
  <2>6. ASSUME NEW th \in Thread, Emplace(th) PROVE WakeupsCoverTasks'
    <3>1. Len(tasks') = Len(tasks) + 1 /\ condition' = condition
      BY <2>6 DEF Emplace, TypeOK
    <3>2. Awake' = Awake
      BY <2>6 DEF Emplace, AtEnqueue, AtLoop, Awake, TypeOK, Thread
    <3>3. Notifying' = Notifying \cup {th} /\ th \notin Notifying
      BY <2>6 DEF Emplace, AtEnqueue, Notifying, TypeOK, Thread
    <3>4. Cardinality(Notifying') = Cardinality(Notifying) + 1
      BY <2>0, <3>3, FS_AddElement
    <3> QED BY <2>0, <3>1, <3>2, <3>4
  <2>7. ASSUME NEW th \in Thread, EnqueueWait(th) PROVE WakeupsCoverTasks'
    <3>1. tasks' = tasks /\ condition' = condition /\ pc' = pc
      BY <2>7 DEF EnqueueWait
    <3> QED BY <2>0, <2>1, <3>1 DEF Awake, Notifying, AtLoop
  <2>8. ASSUME NEW th \in Thread, NotifyOne(th) PROVE WakeupsCoverTasks'
    <3>1. CASE condition = {}
      BY <2>8, <3>1 DEF NotifyOne
    <3>2. CASE condition # {}
      <4>1. PICK w \in condition : condition' = condition \ {w}
        BY <2>8, <3>2 DEF NotifyOne
      <4>2. w \in Workers /\ pc[w] = "lock" /\ pc[th] = "notify"
        BY <2>8, <4>1 DEF NotifyOne, TypeOK
      <4>3. Awake' = Awake \cup {w} /\ w \notin Awake
        BY <2>8, <4>1, <4>2 DEF NotifyOne, Caller, Awake, AtLoop, TypeOK, Thread
      <4>4. Notifying' = Notifying \ {th} /\ th \in Notifying
        BY <2>8, <4>2 DEF NotifyOne, Caller, Notifying, TypeOK, Thread
      <4>5. Cardinality(Awake') = Cardinality(Awake) + 1
        BY <2>0, <4>3, FS_AddElement
      <4>6. Cardinality(Notifying') = Cardinality(Notifying) - 1
        BY <2>0, <4>4, FS_RemoveElement
      <4>7. tasks' = tasks
        BY <2>8 DEF NotifyOne
      <4>8. Len(tasks) <= Cardinality(Awake) + Cardinality(Notifying)
        BY <3>2
      <4> QED BY <2>0, <4>5, <4>6, <4>7, <4>8
    <3> QED BY <3>1, <3>2
  <2>9. ASSUME NEW c \in Clients, SetStop(c) \/ Join(c) PROVE WakeupsCoverTasks'
    <3>1. tasks' = tasks /\ condition' = condition
      BY <2>9 DEF SetStop, Join
    <3>2. Awake \subseteq Awake' /\ Notifying \subseteq Notifying'
      BY <2>9 DEF SetStop, Join, AtLoop, Awake, Notifying, TypeOK, Thread
    <3> QED BY <2>0, <2>1, <3>1, <3>2
  <2>10. ASSUME NEW c \in Clients, NotifyAll(c) PROVE WakeupsCoverTasks'
    BY <2>10 DEF NotifyAll
  <2>11. ASSUME NEW th \in Thread, SpuriousWakeup(th) PROVE WakeupsCoverTasks'
    <3>1. tasks' = tasks /\ condition' \subseteq condition /\ pc' = pc
      BY <2>11 DEF SpuriousWakeup
    <3>2. Awake \subseteq Awake' /\ Notifying \subseteq Notifying'
      BY <3>1 DEF Awake, Notifying, AtLoop
    <3> QED BY <2>0, <2>1, <3>1, <3>2
  <2>12. CASE UNCHANGED vars
    <3>1. tasks' = tasks /\ condition' = condition /\ pc' = pc
      BY <2>12 DEF vars
    <3> QED BY <2>0, <2>1, <3>1 DEF Awake, Notifying, AtLoop
  <2> QED
    BY <2>2, <2>3, <2>4, <2>5, <2>6, <2>7, <2>8, <2>9, <2>10, <2>11, <2>12
       DEF Next, Work, Use, Loop, Enqueue, Thread
<1> QED BY <1>1, <1>2, TypeCorrect, PTL DEF SafeSpec

\* Nobody sleeps in vain.
THEOREM SleepersAreWoken == SafeSpec => []NobodySleepsInVain
<1>1. WakeupsCoverTasks /\ SleepIsJustified => NobodySleepsInVain
  BY DEF NobodySleepsInVain
<1> QED BY <1>1, WakeupsSuffice, NobodySleepsIdly, PTL

-----------------------------------------------------------------------------
(***************************************************************************)
(* Every task once                                                         *)
(***************************************************************************)
Queued == 1 .. Len(tasks)

\* A called task is somewhere.
Somewhere ==
    \A t \in called :
        \/ \E th \in Thread : arg[th] = t
        \/ \E i \in Queued : tasks[i] = t
        \/ \E w \in Workers : running[w] = t
        \/ t \in ready

\* What is somewhere has been called, and is not finished unless it is ready.
Pending ==
    /\ ready \subseteq called
    /\ \A th \in Thread : arg[th] # NoTask => arg[th] \in called \ ready
    /\ \A i \in Queued : tasks[i] \in called \ ready
    /\ \A w \in Workers : running[w] # NoTask => running[w] \in called \ ready

\* It is there once ...
Unique ==
    /\ \A th, u \in Thread : arg[th] = arg[u] /\ arg[th] # NoTask => th = u
    /\ \A i, j \in Queued : tasks[i] = tasks[j] => i = j
    /\ \A w, v \in Workers : running[w] = running[v] /\ running[w] # NoTask => w = v

\* ... and in one place.
Apart ==
    /\ \A th \in Thread, i \in Queued : arg[th] # tasks[i]
    /\ \A th \in Thread, w \in Workers : arg[th] # NoTask => arg[th] # running[w]
    /\ \A i \in Queued, w \in Workers : tasks[i] # running[w]

\* What every step preserves.
TaskInv == Somewhere /\ Pending /\ Unique /\ Apart

\* A worker moves the first task from the queue to itself.
LEMMA PopKeepsTasks ==
    ASSUME TypeOK, TaskInv, NEW w \in Workers, WorkerPop(w)
    PROVE  TaskInv'
<1> DEFINE t == tasks[1]
<1>1. /\ Len(tasks) \in Nat /\ 1 \in Queued
      /\ tasks' \in Seq(Task)
      /\ Len(tasks') = Len(tasks) - 1
      /\ \A i \in Queued' : i + 1 \in Queued /\ tasks'[i] = tasks[i + 1]
      /\ \A i \in Queued : i # 1 => i - 1 \in Queued' /\ tasks'[i - 1] = tasks[i]
  BY DEF WorkerPop, TypeOK, Queued
<1>2. /\ running' = [running EXCEPT ![w] = t]
      /\ running \in [Workers -> Task \cup {NoTask}]
      /\ arg' = arg /\ called' = called /\ ready' = ready
  BY DEF WorkerPop, TypeOK
<1>3. running[w] = NoTask /\ t # NoTask /\ t \in called \ ready
  BY <1>1, ThreadPoolAssumption DEF WorkerPop, AtLoop, TypeOK, TaskInv, Pending, Queued
<1> HIDE DEF t
<1>4. running'[w] = t /\ \A v \in Workers : v # w => running'[v] = running[v]
  BY <1>2
<1>5. t = tasks[1]
  BY DEF t
<1>6. Somewhere'
  <2>1. ASSUME NEW x \in called
        PROVE  \/ \E th \in Thread : arg[th] = x
               \/ \E i \in Queued' : tasks'[i] = x
               \/ \E v \in Workers : running'[v] = x
               \/ x \in ready
    <3>1. CASE \E i \in Queued : tasks[i] = x
      <4>1. PICK i \in Queued : tasks[i] = x
        BY <3>1
      <4>2. CASE i = 1
        BY <1>4, <1>5, <4>1, <4>2
      <4>3. CASE i # 1
        BY <1>1, <4>1, <4>3
      <4> QED BY <4>2, <4>3
    <3>2. CASE \E v \in Workers : running[v] = x
      <4>1. x # NoTask
        BY ThreadPoolAssumption DEF TypeOK
      <4> QED BY <1>3, <1>4, <3>2, <4>1
    <3> QED BY <2>1, <3>1, <3>2 DEF TaskInv, Somewhere
  <2> QED BY <1>2, <2>1 DEF Somewhere
<1>7. Pending'
  BY <1>1, <1>2, <1>3, <1>4 DEF TaskInv, Pending
<1>8. Unique'
  <2>1. \A i, j \in Queued' : tasks'[i] = tasks'[j] => i = j
    <3> SUFFICES ASSUME NEW i \in Queued', NEW j \in Queued', tasks'[i] = tasks'[j]
                 PROVE  i = j
      OBVIOUS
    <3>1. i + 1 = j + 1
      BY <1>1 DEF TaskInv, Unique
    <3>2. i \in Int /\ j \in Int
      BY <1>1 DEF Queued
    <3> QED BY <3>1, <3>2
  <2>2. ASSUME NEW v \in Workers PROVE running[v] # t
    BY <1>1, <1>5 DEF TaskInv, Apart
  <2>3. \A u, v \in Workers : running'[u] = running'[v] /\ running'[u] # NoTask => u = v
    BY <1>4, <2>2 DEF TaskInv, Unique
  <2> QED BY <1>2, <2>1, <2>3 DEF TaskInv, Unique
<1>9. Apart'
  <2>1. ASSUME NEW i \in Queued' PROVE tasks'[i] # t
    <3>1. i + 1 \in Queued /\ i + 1 # 1 /\ tasks'[i] = tasks[i + 1]
      BY <1>1 DEF Queued
    <3> QED BY <1>1, <1>5, <3>1 DEF TaskInv, Unique
  <2>2. ASSUME NEW th \in Thread PROVE arg[th] # t
    BY <1>1, <1>5 DEF TaskInv, Apart
  <2>3. \A th \in Thread, i \in Queued' : arg'[th] # tasks'[i]
    BY <1>1, <1>2 DEF TaskInv, Apart
  <2>4. \A th \in Thread, v \in Workers : arg'[th] # NoTask => arg'[th] # running'[v]
    BY <1>2, <1>4, <2>2 DEF TaskInv, Apart
  <2>5. \A i \in Queued', v \in Workers : tasks'[i] # running'[v]
    BY <1>1, <1>4, <2>1 DEF TaskInv, Apart
  <2> QED BY <2>3, <2>4, <2>5 DEF Apart
<1> QED BY <1>6, <1>7, <1>8, <1>9 DEF TaskInv

\* enqueue() moves the task of its caller to the end of the queue.
LEMMA EmplaceKeepsTasks ==
    ASSUME TypeOK, TaskInv, NEW th \in Thread, Emplace(th)
    PROVE  TaskInv'
<1> DEFINE t == arg[th]
<1>1. t \in Task /\ t # NoTask
  BY ThreadPoolAssumption DEF Emplace, AtEnqueue, TypeOK
<1>2. /\ tasks \in Seq(Task) /\ tasks' = Append(tasks, t)
      /\ arg \in [Thread -> Task \cup {NoTask}] /\ arg' = [arg EXCEPT ![th] = NoTask]
      /\ running' = running /\ called' = called /\ ready' = ready
  BY DEF Emplace, TypeOK
<1> HIDE DEF t
<1>3. arg[th] = t /\ arg'[th] = NoTask /\ \A u \in Thread : u # th => arg'[u] = arg[u]
  BY <1>2 DEF t
<1>4. /\ Len(tasks) \in Nat /\ Len(tasks') = Len(tasks) + 1
      /\ tasks'[Len(tasks) + 1] = t
      /\ \A i \in Queued : i \in Queued' /\ tasks'[i] = tasks[i]
      /\ \A i \in Queued' : i \in Queued \/ i = Len(tasks) + 1
      /\ Len(tasks) + 1 \in Queued' /\ Len(tasks) + 1 \notin Queued
  BY <1>1, <1>2 DEF Queued
<1>5. Somewhere'
  <2>1. ASSUME NEW x \in called
        PROVE  \/ \E u \in Thread : arg'[u] = x
               \/ \E i \in Queued' : tasks'[i] = x
               \/ \E w \in Workers : running[w] = x
               \/ x \in ready
    <3>1. CASE \E u \in Thread : arg[u] = x
      BY <1>3, <1>4, <3>1
    <3>2. CASE \E i \in Queued : tasks[i] = x
      BY <1>4, <3>2
    <3>3. CASE (\E w \in Workers : running[w] = x) \/ x \in ready
      BY <3>3
    <3> QED BY <3>1, <3>2, <3>3 DEF TaskInv, Somewhere
  <2> QED BY <1>2, <2>1 DEF Somewhere
<1>6. Pending'
  BY <1>1, <1>2, <1>3, <1>4 DEF TaskInv, Pending
<1>7. Unique'
  <2>1. \A i \in Queued : tasks[i] # t
    BY <1>3 DEF TaskInv, Apart
  <2>2. \A i, j \in Queued' : tasks'[i] = tasks'[j] => i = j
    BY <1>4, <2>1 DEF TaskInv, Unique
  <2>3. \A u, v \in Thread : arg'[u] = arg'[v] /\ arg'[u] # NoTask => u = v
    BY <1>3 DEF TaskInv, Unique
  <2> QED BY <1>2, <2>2, <2>3 DEF TaskInv, Unique
<1>8. Apart'
  <2>1. ASSUME NEW u \in Thread, NEW i \in Queued' PROVE arg'[u] # tasks'[i]
    <3>1. tasks'[i] \in Task
      BY <1>1, <1>2, <1>4 DEF Queued
    <3>2. CASE u = th
      BY <1>3, <3>1, <3>2, ThreadPoolAssumption
    <3>3. CASE u # th /\ i \in Queued
      BY <1>3, <1>4, <3>3 DEF TaskInv, Apart
    <3>4. CASE u # th /\ i = Len(tasks) + 1
      BY <1>1, <1>3, <1>4, <3>4 DEF TaskInv, Unique
    <3> QED BY <1>4, <3>2, <3>3, <3>4
  <2>2. \A u \in Thread, v \in Workers : arg'[u] # NoTask => arg'[u] # running'[v]
    BY <1>2, <1>3 DEF TaskInv, Apart
  <2>3. ASSUME NEW i \in Queued', NEW v \in Workers PROVE tasks'[i] # running'[v]
    <3>1. CASE i \in Queued
      BY <1>2, <1>4, <3>1 DEF TaskInv, Apart
    <3>2. CASE i = Len(tasks) + 1
      <4>1. tasks'[i] = t
        BY <1>4, <3>2
      <4>2. arg[th] # running[v]
        BY <1>1, <1>3 DEF TaskInv, Apart
      <4> QED BY <1>2, <1>3, <4>1, <4>2
    <3> QED BY <1>4, <3>1, <3>2
  <2> QED BY <2>1, <2>2, <2>3 DEF Apart
<1> QED BY <1>5, <1>6, <1>7, <1>8 DEF TaskInv

\* enqueue() is called with a task that is nowhere yet.
LEMMA CallKeepsTasks ==
    ASSUME TypeOK, TaskInv, NEW th \in Thread, NEW t \in Task, CallEnqueue(th, t)
    PROVE  TaskInv'
<1>1. /\ t \notin called /\ called' = called \cup {t}
      /\ tasks' = tasks /\ running' = running /\ ready' = ready
      /\ arg \in [Thread -> Task \cup {NoTask}] /\ arg' = [arg EXCEPT ![th] = t]
  BY DEF CallEnqueue, TypeOK
<1>2. arg[th] = NoTask /\ t # NoTask
  BY ThreadPoolAssumption DEF CallEnqueue, TypeOK
<1>3. arg'[th] = t /\ \A u \in Thread : u # th => arg'[u] = arg[u]
  BY <1>1
<1>4. Somewhere'
  <2>1. ASSUME NEW x \in called, NEW u \in Thread, arg[u] = x PROVE arg'[u] = x
    <3>1. x # NoTask
      BY ThreadPoolAssumption DEF TypeOK
    <3> QED BY <1>2, <1>3, <2>1, <3>1
  <2> QED BY <1>1, <1>3, <2>1 DEF TaskInv, Somewhere, Queued
<1>5. Pending'
  BY <1>1, <1>3 DEF TaskInv, Pending, Queued
<1>6. Unique'
  BY <1>1, <1>3 DEF TaskInv, Pending, Unique, Queued
<1>7. Apart'
  <2>1. \A i \in Queued : tasks[i] # t
    BY <1>1 DEF TaskInv, Pending
  <2>2. \A v \in Workers : running[v] # t
    BY <1>1, <1>2 DEF TaskInv, Pending
  <2> QED BY <1>1, <1>3, <2>1, <2>2 DEF TaskInv, Apart, Queued
<1> QED BY <1>4, <1>5, <1>6, <1>7 DEF TaskInv

\* A worker's task moves to the finished ones.
LEMMA FinishKeepsTasks ==
    ASSUME TypeOK, TaskInv, NEW w \in Workers, FinishTask(w)
    PROVE  TaskInv'
<1> DEFINE t == running[w]
<1>1. t \in Task /\ t # NoTask
  BY ThreadPoolAssumption DEF FinishTask, TypeOK
<1>2. /\ ready' = ready \cup {t} /\ called' = called /\ tasks' = tasks /\ arg' = arg
      /\ running \in [Workers -> Task \cup {NoTask}]
      /\ running' = [running EXCEPT ![w] = NoTask]
  BY DEF FinishTask, TypeOK
<1> HIDE DEF t
<1>3. running[w] = t /\ running'[w] = NoTask /\ \A v \in Workers : v # w => running'[v] = running[v]
  BY <1>2 DEF t
<1>4. Somewhere'
  BY <1>2, <1>3 DEF TaskInv, Somewhere, Queued
<1>5. Pending'
  <2>1. t \in called
    BY <1>1, <1>3 DEF TaskInv, Pending
  <2>2. \A th \in Thread : arg[th] # NoTask => arg[th] # t
    BY <1>3 DEF TaskInv, Apart
  <2>3. \A i \in Queued : tasks[i] # t
    BY <1>3 DEF TaskInv, Apart
  <2>4. \A v \in Workers : v # w => running[v] # t
    BY <1>1, <1>3 DEF TaskInv, Unique
  <2> QED BY <1>2, <1>3, <2>1, <2>2, <2>3, <2>4 DEF TaskInv, Pending, Queued
<1>6. Unique'
  BY <1>2, <1>3 DEF TaskInv, Unique, Queued
<1>7. Apart'
  <2>1. \A th \in Thread, v \in Workers : arg[th] # NoTask => arg[th] # running'[v]
    BY <1>3 DEF TaskInv, Apart
  <2>2. \A i \in Queued : tasks[i] \in Task
    BY DEF TypeOK, Queued
  <2>3. \A i \in Queued, v \in Workers : tasks[i] # running'[v]
    BY <1>3, <2>2, ThreadPoolAssumption DEF TaskInv, Apart
  <2> QED BY <1>2, <2>1, <2>3 DEF TaskInv, Apart, Queued
<1> QED BY <1>4, <1>5, <1>6, <1>7 DEF TaskInv

\* Sleeping, waking and stopping move no task.
LEMMA OthersKeepTasks ==
    ASSUME TaskInv, UNCHANGED <<tasks, arg, running, called, ready>>
    PROVE  TaskInv'
BY DEF TaskInv, Somewhere, Pending, Unique, Apart, Queued

\* Whatever the interleaving of clients and workers, each task is in one place.
LEMMA TasksHold == SafeSpec => []TaskInv
<1> USE ThreadPoolAssumption
<1>1. Init => TaskInv
  <2> SUFFICES ASSUME Init PROVE TaskInv
    OBVIOUS
  <2>1. Queued = {} /\ called = {} /\ ready = {}
    BY DEF Init, Queued
  <2>2. (\A th \in Thread : arg[th] = NoTask) /\ (\A w \in Workers : running[w] = NoTask)
    BY DEF Init
  <2> QED BY <2>1, <2>2 DEF TaskInv, Somewhere, Pending, Unique, Apart
<1>2. TypeOK /\ TaskInv /\ [Next]_vars => TaskInv'
  <2> SUFFICES ASSUME TypeOK, TaskInv, [Next]_vars PROVE TaskInv'
    OBVIOUS
  <2>1. ASSUME NEW w \in Workers, WorkerPop(w) PROVE TaskInv'
    BY <2>1, PopKeepsTasks
  <2>2. ASSUME NEW w \in Workers, FinishTask(w) PROVE TaskInv'
    BY <2>2, FinishKeepsTasks
  <2>3. ASSUME NEW th \in Thread, NEW t \in Task, CallEnqueue(th, t) PROVE TaskInv'
    BY <2>3, CallKeepsTasks
  <2>4. ASSUME NEW th \in Thread, Emplace(th) PROVE TaskInv'
    BY <2>4, EmplaceKeepsTasks
  <2>5. ASSUME NEW w \in Workers, WorkerExit(w) \/ WorkerWait(w) PROVE TaskInv'
    BY <2>5, OthersKeepTasks DEF WorkerExit, WorkerWait
  <2>6. ASSUME NEW th \in Thread, EnqueueWait(th) \/ NotifyOne(th) \/ SpuriousWakeup(th)
        PROVE  TaskInv'
    BY <2>6, OthersKeepTasks DEF EnqueueWait, NotifyOne, SpuriousWakeup
  <2>7. ASSUME NEW c \in Clients, SetStop(c) \/ NotifyAll(c) \/ Join(c) PROVE TaskInv'
    BY <2>7, OthersKeepTasks DEF SetStop, NotifyAll, Join
  <2>8. CASE UNCHANGED vars
    BY <2>8, OthersKeepTasks DEF vars
  <2> QED
    BY <2>1, <2>2, <2>3, <2>4, <2>5, <2>6, <2>7, <2>8 DEF Next, Work, Use, Loop, Enqueue, Thread
<1> QED BY <1>1, <1>2, TypeCorrect, PTL DEF SafeSpec

\* No task is lost, run twice, or run by two workers.
THEOREM NoTaskLostOrDoubled == SafeSpec => []EveryTaskOnce
<1>1. TypeOK /\ TaskInv => EveryTaskOnce
  <2> SUFFICES ASSUME TypeOK, TaskInv PROVE EveryTaskOnce
    OBVIOUS
  <2>1. DOMAIN tasks = Queued /\ \A i \in Queued : tasks[i] # NoTask
    BY ThreadPoolAssumption DEF TypeOK, Queued
  <2>2. called \subseteq InHand \cup ToSet(tasks) \cup InRun \cup ready
    <3> SUFFICES ASSUME NEW t \in called PROVE t \in InHand \cup ToSet(tasks) \cup InRun \cup ready
      OBVIOUS
    <3>1. t # NoTask
      BY ThreadPoolAssumption DEF TypeOK
    <3> QED BY <2>1, <3>1 DEF TaskInv, Somewhere, InHand, InRun, ToSet
  <2>3. InHand \cup ToSet(tasks) \cup InRun \cup ready \subseteq called
    BY <2>1 DEF TaskInv, Pending, InHand, InRun, ToSet
  <2>4. (InHand \cup ToSet(tasks) \cup InRun) \cap ready = {}
    BY <2>1 DEF TaskInv, Pending, InHand, InRun, ToSet
  <2>5. InHand \cap (ToSet(tasks) \cup InRun) = {} /\ ToSet(tasks) \cap InRun = {}
    BY <2>1 DEF TaskInv, Apart, InHand, InRun, ToSet
  <2>6. /\ \A i, j \in DOMAIN tasks : tasks[i] = tasks[j] => i = j
        /\ \A th, u \in Thread : arg[th] = arg[u] /\ arg[th] # NoTask => th = u
        /\ \A w, v \in Workers : running[w] = running[v] /\ running[w] # NoTask => w = v
    BY <2>1 DEF TaskInv, Unique
  <2> QED BY <2>2, <2>3, <2>4, <2>5, <2>6 DEF EveryTaskOnce
<1> QED BY <1>1, TypeCorrect, TasksHold, PTL

-----------------------------------------------------------------------------
(***************************************************************************)
(* What stop_all() leaves                                                  *)
(***************************************************************************)
\* What has to be run before stop_all() returns: what was queued before stop,
\* and what tasks have enqueued.
Owed(t) == t \in early \/ \E x \in Task : t \in Spawns[x]

AllExited == \A w \in Workers : pc[w] = "exited"

\* Workers leave an empty queue, and after the last of them only clients,
\* late, put tasks there.
DrainInv ==
    /\ \A w \in Workers : pc[w] = "exited" => stop
    /\ \A c \in Clients : pc[c] = "stopped" => AllExited
    /\ AllExited => \A i \in Queued : ~Owed(tasks[i])
    /\ \A th \in Thread : arg[th] # NoTask => arg[th] \notin early
    /\ \A c \in Clients : arg[c] # NoTask => arg[c] \in Submits[c]
    /\ \A t \in ready : Spawns[t] \subseteq called

\* A task joins the queue of a pool that runs, or it is a late client's.
LEMMA EmplaceKeepsDrain ==
    ASSUME TypeOK, TaskInv, DrainInv, NEW th \in Thread, Emplace(th)
    PROVE  DrainInv'
<1> USE ThreadPoolAssumption DEF Thread
<1>1. /\ pc[th] = "enqueue" /\ arg[th] \in Task /\ arg[th] # NoTask
      /\ tasks \in Seq(Task) /\ tasks' = Append(tasks, arg[th])
      /\ early' = IF stop THEN early ELSE early \cup {arg[th]}
      /\ stop' = stop /\ called' = called /\ ready' = ready
      /\ arg \in [Thread -> Task \cup {NoTask}] /\ arg' = [arg EXCEPT ![th] = NoTask]
      /\ pc \in [Thread -> WorkerPc \cup ClientPc] /\ pc' = [pc EXCEPT ![th] = "notify"]
  BY DEF Emplace, AtEnqueue, TypeOK
<1>2. \A u \in Thread : pc'[u] = IF u = th THEN "notify" ELSE pc[u]
  BY <1>1
<1>3. \A u \in Thread : arg'[u] # NoTask => u # th /\ arg'[u] = arg[u] /\ arg[u] # arg[th]
  BY <1>1 DEF TaskInv, Unique
<1>4. \A w \in Workers : pc'[w] = "exited" => stop'
  BY <1>1, <1>2 DEF DrainInv
<1>5. \A c \in Clients : pc'[c] = "stopped" => AllExited'
  BY <1>1, <1>2 DEF DrainInv, AllExited
<1>6. AllExited' => \A i \in Queued' : ~Owed(tasks[i])'
  <2> SUFFICES ASSUME AllExited', NEW i \in Queued' PROVE ~Owed(tasks[i])'
    OBVIOUS
  <2>1. AllExited /\ th \in Clients
    BY <1>2 DEF AllExited
  <2>2. stop /\ early' = early
    BY <1>1, <2>1 DEF DrainInv, AllExited
  <2>3. CASE i \in Queued /\ tasks'[i] = tasks[i]
    BY <2>1, <2>2, <2>3 DEF DrainInv, Owed
  <2>4. CASE tasks'[i] = arg[th]
    <3>1. arg[th] \in Submits[th] /\ arg[th] \notin early
      BY <1>1, <2>1 DEF DrainInv
    <3> QED BY <2>1, <2>2, <2>4, <3>1 DEF Owed
  <2>5. (i \in Queued /\ tasks'[i] = tasks[i]) \/ tasks'[i] = arg[th]
    BY <1>1 DEF Queued
  <2> QED BY <2>3, <2>4, <2>5
<1>7. \A u \in Thread : arg'[u] # NoTask => arg'[u] \notin early'
  BY <1>1, <1>3 DEF DrainInv
<1>8. \A c \in Clients : arg'[c] # NoTask => arg'[c] \in Submits[c]
  BY <1>3 DEF DrainInv
<1>9. \A t \in ready' : Spawns[t] \subseteq called'
  BY <1>1 DEF DrainInv
<1> QED BY <1>4, <1>5, <1>6, <1>7, <1>8, <1>9 DEF DrainInv

\* While a worker is in a task or in its loop the rest does not matter.
LEMMA WorkersKeepDrain ==
    ASSUME TypeOK, DrainInv, NEW w \in Workers, WorkerPop(w) \/ WorkerExit(w) \/ FinishTask(w)
    PROVE  DrainInv'
<1> USE ThreadPoolAssumption DEF Thread
<1>1. pc[w] # "exited" /\ \A c \in Clients : pc[c] # "stopped"
  BY DEF WorkerPop, WorkerExit, FinishTask, AtLoop, DrainInv, AllExited
<1>2. /\ stop' = stop /\ arg' = arg /\ called' = called /\ early' = early
      /\ pc \in [Thread -> WorkerPc \cup ClientPc]
  BY DEF WorkerPop, WorkerExit, FinishTask, TypeOK
<1>3. CASE WorkerPop(w) \/ FinishTask(w)
  <2>1. pc'[w] # "exited" /\ \A u \in Thread : u # w => pc'[u] = pc[u]
    BY <1>2, <1>3 DEF WorkerPop, FinishTask
  <2>2. \A t \in ready' : Spawns[t] \subseteq called
    BY <1>3 DEF WorkerPop, FinishTask, DrainInv
  <2>3. ~AllExited' /\ \A c \in Clients : pc'[c] # "stopped"
    BY <1>1, <2>1 DEF AllExited
  <2> QED BY <1>2, <2>1, <2>2, <2>3 DEF DrainInv
<1>4. CASE WorkerExit(w)
  <2>1. stop /\ tasks' = <<>> /\ ready' = ready /\ \A u \in Thread : u # w => pc'[u] = pc[u]
    BY <1>2, <1>4 DEF WorkerExit
  <2>2. Queued' = {}
    BY <2>1 DEF Queued
  <2>3. \A c \in Clients : pc'[c] # "stopped"
    BY <1>1, <2>1
  <2> QED BY <1>2, <2>1, <2>2, <2>3 DEF DrainInv
<1> QED BY <1>3, <1>4

LEMMA CallKeepsDrain ==
    ASSUME TypeOK, DrainInv, NEW th \in Thread, NEW t \in Task, CallEnqueue(th, t)
    PROVE  DrainInv'
<1> USE ThreadPoolAssumption DEF Thread
<1>1. /\ t \notin called /\ early \subseteq called
      /\ th \in Clients => t \in Submits[th]
      /\ tasks' = tasks /\ stop' = stop /\ early' = early /\ ready' = ready
      /\ called' = called \cup {t}
      /\ arg \in [Thread -> Task \cup {NoTask}] /\ arg' = [arg EXCEPT ![th] = t]
      /\ pc \in [Thread -> WorkerPc \cup ClientPc] /\ pc' = [pc EXCEPT ![th] = "enqueue"]
  BY DEF CallEnqueue, TypeOK
<1>2. pc[th] # "exited" /\ pc[th] # "stopped"
  BY DEF CallEnqueue
<1>3. \A u \in Thread : u # th => pc'[u] = pc[u] /\ arg'[u] = arg[u]
  BY <1>1
<1>4. pc'[th] = "enqueue" /\ arg'[th] = t
  BY <1>1
<1>5. AllExited' <=> AllExited
  BY <1>2, <1>3, <1>4 DEF AllExited
<1>6. Queued' = Queued /\ \A i \in Queued : Owed(tasks[i])' <=> Owed(tasks[i])
  BY <1>1 DEF Queued, Owed
<1> QED BY <1>1, <1>3, <1>4, <1>5, <1>6 DEF DrainInv

\* The steps that move no task and end no worker.
LEMMA OthersKeepDrain ==
    ASSUME TypeOK, DrainInv, UNCHANGED <<tasks, arg, called, ready, early>>,
           stop => stop', AllExited' <=> AllExited,
           \A w \in Workers : pc'[w] = "exited" => pc[w] = "exited",
           \A c \in Clients : pc'[c] = "stopped" => pc[c] = "stopped" \/ AllExited
    PROVE  DrainInv'
<1>1. Queued' = Queued /\ \A i \in Queued : Owed(tasks[i])' <=> Owed(tasks[i])
  BY DEF Queued, Owed
<1> QED BY <1>1 DEF DrainInv

LEMMA DrainHolds == SafeSpec => []DrainInv
<1> USE ThreadPoolAssumption DEF Thread
<1>1. Init => DrainInv
  <2> SUFFICES ASSUME Init PROVE DrainInv
    OBVIOUS
  <2>1. ~AllExited
    BY DEF Init, AllExited
  <2>2. /\ \A w \in Workers : pc[w] # "exited"
        /\ \A c \in Clients : pc[c] # "stopped"
        /\ \A th \in Thread : arg[th] = NoTask
        /\ ready = {}
    BY DEF Init
  <2> QED BY <2>1, <2>2 DEF DrainInv
<1>2. TypeOK /\ TaskInv /\ DrainInv /\ [Next]_vars => DrainInv'
  <2> SUFFICES ASSUME TypeOK, TaskInv, DrainInv, [Next]_vars PROVE DrainInv'
    OBVIOUS
  <2>1. ASSUME NEW w \in Workers, WorkerPop(w) \/ WorkerExit(w) \/ FinishTask(w) PROVE DrainInv'
    BY <2>1, WorkersKeepDrain
  <2>2. ASSUME NEW th \in Thread, NEW t \in Task, CallEnqueue(th, t) PROVE DrainInv'
    BY <2>2, CallKeepsDrain
  <2>3. ASSUME NEW th \in Thread, Emplace(th) PROVE DrainInv'
    BY <2>3, EmplaceKeepsDrain
  <2>4. CASE pc' = pc /\ UNCHANGED <<tasks, stop, arg, called, ready, early>>
    BY <2>4, OthersKeepDrain DEF AllExited
  <2>5. ASSUME NEW th \in Thread, NotifyOne(th) PROVE DrainInv'
    <3>1. /\ UNCHANGED <<tasks, stop, arg, called, ready, early>>
          /\ pc[th] = "notify" /\ pc'[th] \in {"run", "out"}
          /\ \A u \in Thread : u # th => pc'[u] = pc[u]
      BY <2>5 DEF NotifyOne, Caller, TypeOK
    <3>2. AllExited' <=> AllExited
      BY <3>1 DEF AllExited
    <3> QED BY <3>1, <3>2, OthersKeepDrain
  <2>6. ASSUME NEW c \in Clients, SetStop(c) \/ NotifyAll(c) \/ Join(c) PROVE DrainInv'
    <3>1. /\ UNCHANGED <<tasks, arg, called, ready, early>>
          /\ stop => stop'
          /\ \A u \in Thread : u # c => pc'[u] = pc[u]
      BY <2>6 DEF SetStop, NotifyAll, Join, TypeOK
    <3>2. pc'[c] = "stopped" => AllExited
      BY <2>6 DEF SetStop, NotifyAll, Join, TypeOK, AllExited
    <3>3. \A w \in Workers : pc'[w] = pc[w]
      BY <3>1
    <3>4. AllExited' <=> AllExited
      BY <3>3 DEF AllExited
    <3> QED BY <3>1, <3>2, <3>3, <3>4, OthersKeepDrain
  <2>7. ASSUME NEW th \in Thread, EnqueueWait(th) \/ SpuriousWakeup(th)
        PROVE  pc' = pc /\ UNCHANGED <<tasks, stop, arg, called, ready, early>>
    BY <2>7 DEF EnqueueWait, SpuriousWakeup
  <2>8. ASSUME NEW w \in Workers, WorkerWait(w)
        PROVE  pc' = pc /\ UNCHANGED <<tasks, stop, arg, called, ready, early>>
    BY <2>8 DEF WorkerWait
  <2>9. CASE UNCHANGED vars
    BY <2>4, <2>9 DEF vars
  <2> QED
    BY <2>1, <2>2, <2>3, <2>4, <2>5, <2>6, <2>7, <2>8, <2>9 DEF Next, Work, Use, Loop, Enqueue
<1> QED BY <1>1, <1>2, TypeCorrect, TasksHold, PTL DEF SafeSpec

\* When stop_all() returns, what was queued before stop and whatever tasks have
\* enqueued has run, although clients may still be putting tasks there.
THEOREM StopDrainsThePool == SafeSpec => []StopDrains
<1> USE ThreadPoolAssumption DEF Thread
<1>1. TypeOK /\ TaskInv /\ DrainInv => StopDrains
  <2> SUFFICES ASSUME TypeOK, TaskInv, DrainInv, AllExited
               PROVE  early \subseteq ready /\ (\A t \in ready : Spawns[t] \subseteq ready) /\ InRun = {}
    BY DEF StopDrains, DrainInv
  <2>1. \A w \in Workers : running[w] = NoTask /\ arg[w] = NoTask
    BY DEF TypeOK, AllExited
  <2>2. ASSUME NEW t \in called, Owed(t), \A th \in Thread : arg[th] # t PROVE t \in ready
    <3>1. t # NoTask
      BY DEF TypeOK
    <3>2. ~ \E w \in Workers : running[w] = t
      BY <2>1, <3>1
    <3>3. ~ \E i \in Queued : tasks[i] = t
      BY <2>2 DEF DrainInv
    <3> QED BY <2>2, <3>2, <3>3 DEF TaskInv, Somewhere
  <2>3. ASSUME NEW t \in early PROVE t \in ready
    <3>1. t \in called /\ t # NoTask
      BY DEF TypeOK
    <3>2. \A th \in Thread : arg[th] # t
      BY <3>1 DEF DrainInv
    <3> QED BY <2>2, <3>1, <3>2 DEF Owed
  <2>4. ASSUME NEW x \in ready, NEW t \in Spawns[x] PROVE t \in ready
    <3>1. t \in called /\ t # NoTask /\ x \in Task
      BY DEF TypeOK, DrainInv
    <3>2. \A w \in Workers : arg[w] # t
      BY <2>1, <3>1
    <3>3. \A c \in Clients : arg[c] # t
      BY <3>1 DEF DrainInv
    <3> QED BY <2>2, <3>1, <3>2, <3>3 DEF Owed
  <2> QED BY <2>1, <2>3, <2>4 DEF InRun
<1> QED BY <1>1, TypeCorrect, TasksHold, DrainHolds, PTL
=============================================================================
