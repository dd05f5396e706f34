---------------------------- MODULE TrackPipeline ----------------------------
(***************************************************************************)
(* test4() of src/tthreads.cpp: the main thread feeds two ThreadPools, a   *)
(* detector that looks at every Period-th frame and a tracker that looks   *)
(* at every frame and waits for the future of the frame before and, when   *)
(* the frame is one of the detector's, for the future of its detection.    *)
(* At the end main gets the last future, stops the tracker's pool and      *)
(* destroys the detector's.                                                *)
(*                                                                         *)
(* Both pools are the module ThreadPool.  A task is the number of its      *)
(* frame.  tracker::id is an int that track() increments with no lock: its *)
(* load and its store are steps of their own.                              *)
(***************************************************************************)
EXTENDS Integers, Sequences, FiniteSets

CONSTANTS TrackWorkers,   \* the workers of pool[0]
          DetectWorkers,  \* the workers of pool[1]
          Main,           \* the thread that runs test4()
          TaskCnt,        \* task_cnt
          Period,         \* the detector sees frames 0, Period, 2*Period, ...
          WorkLimits,     \* work_limits of both pools
          NoFrame         \* not a frame

ASSUME TrackPipelineAssumption ==
    /\ IsFiniteSet(TrackWorkers) /\ TrackWorkers # {}
    /\ IsFiniteSet(DetectWorkers) /\ DetectWorkers # {}
    /\ Main \notin TrackWorkers \cup DetectWorkers
    /\ TaskCnt \in Nat \ {0}
    /\ Period \in Nat \ {0}
    /\ WorkLimits \in Nat
    /\ NoFrame \notin Int

Frame == 0 .. TaskCnt - 1
DetectFrame == {f \in Frame : f % Period = 0}

VARIABLES
    \* the tracker's pool
    tTasks, tStop, tCondition, tNotfull, tPc, tArg, tRunning, tCalled, tReady, tEarly,
    \* the detector's pool
    dTasks, dStop, dCondition, dNotfull, dPc, dArg, dRunning, dCalled, dReady, dEarly,
    next,   \* i, the frame main submits next
    at,     \* where each worker of the tracker's pool is inside track()
    id,     \* tracker::id
    seen    \* the value of tracker::id each of them has loaded

tvars == <<tTasks, tStop, tCondition, tNotfull, tPc, tArg, tRunning, tCalled, tReady, tEarly>>
dvars == <<dTasks, dStop, dCondition, dNotfull, dPc, dArg, dRunning, dCalled, dReady, dEarly>>
local == <<at, id, seen>>
pipelineVars == <<tvars, dvars, next, local>>

T == INSTANCE ThreadPool WITH
    Workers <- TrackWorkers, Clients <- {Main}, Task <- Frame,
    Submits <- [c \in {Main} |-> Frame], Spawns <- [f \in Frame |-> {}],
    Stoppers <- {Main}, NoTask <- NoFrame,
    tasks <- tTasks, stop <- tStop, condition <- tCondition,
    conditionNotfull <- tNotfull, pc <- tPc, arg <- tArg,
    running <- tRunning, called <- tCalled, ready <- tReady, early <- tEarly

D == INSTANCE ThreadPool WITH
    Workers <- DetectWorkers, Clients <- {Main}, Task <- DetectFrame,
    Submits <- [c \in {Main} |-> DetectFrame], Spawns <- [f \in DetectFrame |-> {}],
    Stoppers <- {Main}, NoTask <- NoFrame,
    tasks <- dTasks, stop <- dStop, condition <- dCondition,
    conditionNotfull <- dNotfull, pc <- dPc, arg <- dArg,
    running <- dRunning, called <- dCalled, ready <- dReady, early <- dEarly

\* Where a worker is inside track(): waiting for prev, waiting for det,
\* about to load id, about to store it, about to return; "none" outside.
TrackPc == {"none", "prev", "det", "load", "store", "return"}

PipelineInit ==
    /\ T!Init
    /\ D!Init
    /\ next = 0
    /\ at = [w \in TrackWorkers |-> "none"]
    /\ id = 0
    /\ seen = [w \in TrackWorkers |-> 0]

-----------------------------------------------------------------------------
(***************************************************************************)
(* main                                                                    *)
(***************************************************************************)
\* main is in the loop of test4(), not inside enqueue() or stop_all().
InLoop == tPc[Main] = "out" /\ dPc[Main] = "out"

\* The detection of frame next is enqueued, or the frame needs none.
DetectionAsked == next \in DetectFrame => next \in dCalled

\* fdet = th_detect.enqueue(&detecter::detect, &d, i)
SubmitDetect ==
    /\ InLoop
    /\ next < TaskCnt
    /\ ~DetectionAsked
    /\ D!CallEnqueue(Main, next)
    /\ UNCHANGED <<tvars, next, local>>

\* fprev = th_track.enqueue(&tracker::track, &t, i, fprev, fdet)
SubmitTrack ==
    /\ InLoop
    /\ next < TaskCnt
    /\ DetectionAsked
    /\ T!CallEnqueue(Main, next)
    /\ next' = next + 1
    /\ UNCHANGED <<dvars, local>>

\* Inside enqueue() of either pool.
InsideEnqueue ==
    \/ /\ T!Emplace(Main) \/ T!EnqueueWait(Main) \/ T!NotifyOne(Main)
       /\ UNCHANGED <<dvars, next, local>>
    \/ /\ D!Emplace(Main) \/ D!EnqueueWait(Main) \/ D!NotifyOne(Main)
       /\ UNCHANGED <<tvars, next, local>>

\* fprev.get() has returned and th_track.stop_all() begins.
StopTrack ==
    /\ InLoop
    /\ next = TaskCnt
    /\ TaskCnt - 1 \in tReady
    /\ T!SetStop(Main)
    /\ UNCHANGED <<dvars, next, local>>

\* The pools are destroyed from the last to the first: ~ThreadPool() of the
\* detector's; nothing is left to join in the tracker's.
DestroyDetect ==
    /\ tPc[Main] = "stopped"
    /\ D!SetStop(Main)
    /\ UNCHANGED <<tvars, next, local>>

InsideStop ==
    \/ /\ T!NotifyAll(Main) \/ T!Join(Main)
       /\ UNCHANGED <<dvars, next, local>>
    \/ /\ D!NotifyAll(Main) \/ D!Join(Main)
       /\ UNCHANGED <<tvars, next, local>>

MainStep ==
    \/ SubmitDetect \/ SubmitTrack \/ InsideEnqueue
    \/ StopTrack \/ DestroyDetect \/ InsideStop

-----------------------------------------------------------------------------
(***************************************************************************)
(* track() and detect()                                                    *)
(***************************************************************************)
TrackerLoop(w) ==
    /\ T!Loop(w)
    /\ at' = [at EXCEPT ![w] = IF tPc'[w] = "run" THEN "prev" ELSE "none"]
    /\ UNCHANGED <<dvars, next, id, seen>>

Goto(w, from, to) ==
    /\ tPc[w] = "run" /\ at[w] = from
    /\ at' = [at EXCEPT ![w] = to]
    /\ UNCHANGED <<tvars, dvars, next>>

\* Mutant: track() does not wait for the frame before.
GetPrev_NoWait(w) ==
    /\ Goto(w, "prev", "det")
    /\ UNCHANGED <<id, seen>>

\* prev.get(), unless prev is not valid(), as for the first frame.
GetPrev(w) ==
    /\ Goto(w, "prev", "det")
    /\ tRunning[w] = 0 \/ tRunning[w] - 1 \in tReady
    /\ UNCHANGED <<id, seen>>

\* det.get(), unless det is not valid().
GetDet(w) ==
    /\ Goto(w, "det", "load")
    /\ tRunning[w] \in DetectFrame => tRunning[w] \in dReady
    /\ UNCHANGED <<id, seen>>

\* id ++
LoadId(w) ==
    /\ Goto(w, "load", "store")
    /\ seen' = [seen EXCEPT ![w] = id]
    /\ UNCHANGED id

\* Mutant: track() is bound to a copy of t, not to &t.
StoreId_OfCopy(w) ==
    /\ Goto(w, "store", "return")
    /\ UNCHANGED <<id, seen>>

StoreId(w) ==
    /\ Goto(w, "store", "return")
    /\ id' = seen[w] + 1
    /\ UNCHANGED seen

\* return AllResult{fid, {}}: the future of the frame is ready.
ReturnTrack(w) ==
    /\ at[w] = "return"
    /\ T!FinishTask(w)
    /\ at' = [at EXCEPT ![w] = "none"]
    /\ UNCHANGED <<dvars, next, id, seen>>

Tracker(w) ==
    \/ TrackerLoop(w)
    \/ GetPrev(w) \/ GetDet(w) \/ LoadId(w) \/ StoreId(w)
    \/ ReturnTrack(w)

Detecter(w) ==
    /\ D!Loop(w) \/ D!FinishTask(w)
    /\ UNCHANGED <<tvars, next, local>>

\* Any wait on a condition variable of either pool may end by itself.
Spurious ==
    \/ /\ \E th \in TrackWorkers \cup {Main} : T!SpuriousWakeup(th)
       /\ UNCHANGED <<dvars, next, local>>
    \/ /\ \E th \in DetectWorkers \cup {Main} : D!SpuriousWakeup(th)
       /\ UNCHANGED <<tvars, next, local>>

PipelineNext ==
    \/ MainStep
    \/ \E w \in TrackWorkers : Tracker(w)
    \/ \E w \in DetectWorkers : Detecter(w)
    \/ Spurious

PipelineFairness ==
    /\ WF_pipelineVars(MainStep)
    /\ \A w \in TrackWorkers : WF_pipelineVars(Tracker(w))
    /\ \A w \in DetectWorkers : WF_pipelineVars(Detecter(w))

SafePipeline == PipelineInit /\ [][PipelineNext]_pipelineVars
PipelineSpec == SafePipeline /\ PipelineFairness

-----------------------------------------------------------------------------
(***************************************************************************)
(* Properties                                                              *)
(***************************************************************************)
\* track() "will be executed sequentially" (tthreads.cpp:256), and it is so
\* with any number of workers: behind prev.get() there is one thread at most,
\* and frames are finished in order, each with its detection.
TrackInSequence ==
    /\ \A v, w \in TrackWorkers :
           {at[v], at[w]} \cap {"none", "prev"} = {} => v = w
    /\ \A f \in tReady :
           /\ \A e \in 0 .. f : e \in tReady
           /\ f \in DetectFrame => f \in dReady

\* When test4() returns every frame has been tracked, every detection has been
\* used, and both pools are idle.
NothingLostAtEnd ==
    dPc[Main] = "stopped" =>
        /\ id = TaskCnt
        /\ tReady = Frame
        /\ dReady = DetectFrame

\* The futures, the limits of two queues and the joins do not wait for one
\* another in a circle: test4() returns.
Test4Returns == <>(dPc[Main] = "stopped")

=============================================================================
