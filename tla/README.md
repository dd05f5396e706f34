# hodgepodge: specifications and proofs

The repository is a collection of C and C++ programs, most of them
demonstrations of one technique. Some of them have a protocol of their own: a
blocking queue, a thread pool and the program that composes two of them, an IPC
library over epoll and over Windows pipes, socket helpers, a kernel character
device, a DRM modesetting program, and a matrix product for OpenCL with the
program that checks it. This directory models them in TLA+, checks the models with
TLC on small instances, and proves the safety properties that matter most with
TLAPS for every instance.

Contents: [inventory](#inventory), [modules](#modules-and-code),
[runs](#runs), [fairness](#fairness), [proofs](#proofs),
[disagreements](#where-code-and-text-disagree), [limits](#not-modelled),
[plan](#plan), [how to run](#how-to-run).

## Inventory

| Part | State | Operations | Meets the others | Hard | Correct when |
|---|---|---|---|---|---|
| `blocking_queue<T>`, `src/thread_queue.h` | a deque, `_closed`, `_max_size`, one mutex, two condition variables | `get` with and without a filter, `put` (blocking or not), `close`, `size`, `max_size` | getter and putter threads of test2 and test3 in `src/tthreads.cpp` | getters with different filters share a condition variable; elements leave from the middle; `close` races with `put` | no wake-up is lost, each element is delivered once, in order per filter, within the limit, and everybody returns after `close` |
| `ThreadPool`, `src/thread_pool.h` | a queue of tasks, `stop`, workers, two condition variables | constructor, worker loop, `enqueue`, `stop_all`, destructor | clients and tasks call `enqueue`; futures carry results back | `notify_one` after the unlock; a bounded queue whose predicate mentions `stop`; `stop_all` at any moment | no task is lost or run twice, nobody sleeps for nothing, a stopped pool is drained, `stop_all` returns |
| test4, `src/tthreads.cpp` | two pools, a chain of shared futures, `tracker::id` | submit, detect, track, the last `get`, `stop_all` | composes two `ThreadPool`s | a task waits for tasks of two bounded pools; a counter without a lock | tracking is sequential and in order, and the program ends |
| reverse device, `src/kernel_module/hello.c` | one buffer with `read_ptr` and `end`, a kernel mutex, a wait queue | `reverse_read`, `reverse_write`, open, release, init, exit | any processes that open the device | the wait condition is evaluated without the mutex while `write` stores the two pointers; signals; faults of user memory | no reader sleeps beside data, sizes are never negative, a byte is read once and reads do not mix writes |
| IPC service on Linux, `src/tipc.cpp` | handle table `m_map_fast`, interest list, connection objects, `main`'s vector | `associate`, `unassociate`, `get`, `run`, `listen`, `accept` in `notify`, `connect`, `read`, `write`, destructor, the callbacks of `main` | server thread, main thread and client processes, over Unix domain sockets | descriptors are reused within a batch of events; callbacks delete objects; blocking reads in callbacks; clients leave at any moment | table, interest list and objects agree; no event is stale; no descriptor leaks; nobody waits for ever but for a service that is stuck; a client that stays and does not send `tst1` cannot end the service |
| IPC on Windows, `src/tipc.cpp` 107-706 | a named pipe per client, one cached byte, overlapped operations, a table from handles to connections | `listen`, `wait_for_connection`, `notify`, `read`, `write`, `trigger_async_cache_read`, `close`, `run` | one service thread, which waits in `read` and `write` for one client at a time, a completion port, client processes | completion packets that outlive what they were for; one byte of the stream that takes another way; handles that change hands | the stream is neither torn nor reordered, each packet finds its connection, a connection waits for exactly one thing, a client that has gone is deleted |
| socket transfer, `src/SocketHelper.cpp` 236-476 | none between calls | `readSocket`, `writeSocket`, `sendFdsThroughSocket`, `receiveFdsThroughSocket` | two processes over a Unix domain stream; no program of the repository calls it | partial transfers, an end in the middle of a call, a full descriptor table | what a successful call returns is what the other end sent |
| socket setup, `src/SocketHelper.cpp` 23-234 | ports, names in the file system | listen, accept, connect, over TCP and over names | servers and callers, any of which may die | names outlive their sockets and are made of process ids; any system call fails | no descriptor is left, a server is cut off by a server only, a caller is turned away for its own doing only |
| DRM modesetting, `src/tdrm1.c` | connectors, CRTCs, a framebuffer for each device | prepare, choose a CRTC, create and map a framebuffer, show, draw, clean up | one process and the card | the choice depends on what earlier connectors took; every call may fail half way; the old configuration is read while it changes | no CRTC is given twice, nothing stays allocated, the screens show in the end what they did before |
| matrix product, `src/myGEMM.cl` | local tiles, the sums of the work-items | load, barrier, multiply, store | work-items of a group, groups on a device | items step in any order between two barriers | the tiled product is the CPU's, term by term |
| its host, `src/topencl.cpp` | the reference product and the file that keeps it | choose a platform, load or compute the reference, build, launch, compare | the kernels; earlier runs of the program, through the file | a run that dies while it saves; transfers and launches that fail and are passed over | a clean report is never wrong, and without such a failure a wrong report has one reason |
| iterators, `src/t5.cpp`, `src/t6.cpp` | small containers | iterate | one thread | boundaries | iteration visits what is there |
| cube viewer, media and library wrappers, language demonstrations, logging, packaging | | | | | see [not modelled](#not-modelled) |

## Modules and code

The models keep every guard, early return and order of effects, and keep of the
data only what the properties tell apart. Each definition that stands for code
is in the `map` of `PROJECT.json` with its lines.

**`FilterChannel`** is what a queue with filters promises, with no lock, limit
or sleeping: an open channel takes elements at its end, a getter takes the first
element its filter accepts, and leaves when the channel is shut and has none.

**`ThreadQueue`** is `blocking_queue`. The mutex is held for a whole method
except while it waits, so a step is one evaluation of a wait predicate with what
follows it up to the next release. `q`, `closed`, `maxSize` are the members,
`cv` and `cvNotfull` the threads asleep; a thread in neither is about to take
the mutex. `GetTake`, `GetClosed`, `GetWait` are the three outcomes of `get`'s
predicate, `PutPush`, `PutRefuse`, `PutWait` those of `put`'s, then `Close`, and
`SpuriousWakeup`, which the C++ standard allows. `got` is what the caller keeps;
`arrived`, `count` and `peak` are ghosts. The end of the module instantiates
`FilterChannel` with the queue's own variables.

**`ThreadPool`** is the class and its users. `WorkerPop`, `WorkerExit` and
`WorkerWait` are the outcomes of the worker's predicate, `FinishTask` the task's
end, `CallEnqueue`, `Emplace`, `EnqueueWait` and `NotifyOne` the parts of
`enqueue` (the notification after the unlock is a step of its own), `SetStop`,
`NotifyAll`, `Join` those of `stop_all`, which the destructor repeats. A task
may enqueue tasks (`Spawns`). `ready` stands for the futures; `early` is a
ghost, the tasks that were queued before `stop`.

**`TrackPipeline`** instantiates `ThreadPool` twice and adds what test4 does:
the main thread that feeds both pools, and `track()` as the steps get the
previous future, get the detection, load `id`, store `id`, return.

**`ReverseDevice`** is the kernel module. Here the mutex is a variable, because
`wait_event_interruptible` works without it: its loads of `read_ptr` and of
`end` are two steps, and so are the stores of `write`, which may be seen in
either order. `queue` is the wait queue, `seen` what a reader has loaded. A byte
is the pair of the write it comes from and its place in it; write 0 is the zero
fill. `WriteFault` and `ReadFault` are `copy_from_user` and `copy_to_user` that
stop half way, the `Interrupted` actions are signals.

**`IpcServer`** is the Linux server: the main thread (`Listen`,
`MarkListening`), the service thread (`EpollWait` takes a batch of events, then
one callback at a time: `OnAccept`, `OnClose`, `OnRead` and the reads and writes
of `main`'s `on_read` and of `server_tst1`), and the clients as far as the
server can tell (`Connect`, `Send`, `ReadAnswer`, `Exit`). `map`, `fd`,
`connections` are `m_map_fast`, `m_fd` and `main`'s vector; `open`, `watched`,
`backlog` are the kernel's. What a client sends is a sequence of units: the four
bytes "tst1" (from the test or typed in a line), a total, a chunk of 1024 bytes,
or four bytes of text without any byte of that word. The server has read a
prefix of it, and `torn` says of whom the next unit has lost its first bytes, to
a `read` of one byte or of four. `ReadTotal` takes whatever is there for a
number, so a line can start a test; `ReadMixed` is a chunk that is not a chunk
and ends in the exception nobody catches; `Dies` is also the division by an
elapsed time of zero (line 1150), a choice at each report since there is no
clock. How much of a chunk is text is not counted. `dirty` are the slots of
`m_map_fast` that are not zero at first, since the constructor does not
initialise it, any of the slots in `Unset`.

**`SocketTransfer`** is the four transfer functions of `SocketHelper.cpp`, a
system call per step, between two users that make the same calls in the same
order. `control` and `rfd` are `msg_controllen` and `cmsgBuf`, which
`receiveFdsThroughSocket` sets up once and `recvmsg` changes.

**`SocketSetup`** is the six functions that set up connections, a system call
per step, for servers and callers over a TCP port and over names; `SetOption` is
the `setsockopt` of a TCP socket, after which descriptor 0 is given up. `name` and
`port` say which socket is bound; a name stays when its socket is closed. `zero`
is what descriptor 0 is, since `newSocket <= 0` asks; `cutter` and `turned` are
ghosts. `Die` is a process that ends anywhere and is started again.

**`NamedPipe`** is the Windows side of `tipc.cpp`. Its state is the class's
(`empty` and `byte0` are `m_cache_empty` and `m_cache_byte0`, `handle` is
`m_oshd`, `assoc` the service's table) and Windows's (`inst`, `pipe`, the
completion port `queue`). `Dequeue` is a round of `run` with the `notify` it
calls; `Accept`, `Arm`, `Announce` and `Trigger` are the steps of a
connection that is taken in; callbacks are any sequence of `read` and `write`
that reads something. Both may wait for the client (`at` is "block" or "write"),
as `GetOverlappedResult` does at lines 480 and 527, and while they do nobody else
is served: `Receive` is the client that reads, `WriteFails` one that has gone. `stray` is `hEvent` of `m_waitconn_overlapped`, which no
constructor sets: `run` passes over the acceptor's packets when it happens not
to be NULL.

**`Modeset`** is `tdrm1.c` from `modeset_open` to `modeset_cleanup`, one step per
call that may fail. `list`, `crtc` and `saved` are `modeset_list` and the
members of its devices; `route` and `shows` are the card's. A device, its
framebuffer and its buffer have their connector's number. `failed` and `before`
are ghosts.

**`MatrixKernel`** is `myGEMM.cl`: an item is where it is in its kernel (`pc`),
its loop counters and its sum; a group has two tiles, and its barriers are
steps of all its items. Floats are named by their place in A and B, and a sum is
the sequence of its terms, so that "equal" means what `matcmp` means for
floats. **`MatrixHost`** extends it: its specification `HostSpec` has the
kernel's steps as `DeviceStep`, with its own variables for the program of
`topencl.cpp` and the file `myGEMM.matD`, which outlives it. `result` is the C
that `matcmp` looks at: the device's cells after `ReadBack`, or, when a launch or
one of the transfers (lines 131 and 183) failed without anybody asking, zeros,
the product of an earlier start or other floats (`Unseen`). `sound` is a ghost:
no such call failed and the device rounds as the CPU does, for `matcmp` compares
floats exactly.

The **`MC...`** modules give the constants values for TLC and define nothing
else; the **`...Proofs`** modules hold the theorems. Definitions with an
underscore (`GetTake_NoNotify`) are variants of an action with a bug someone
could write; each property was seen to fail under one of them.

## Runs

| Run | Instance | Shows |
|---|---|---|
| `queue` | two getters of anything the first putter puts and one that waits for its last element; that putter puts three and closes; two putters of elements nobody accepts, one of which does not block; limit 3 | no wake-up is lost, order per filter, limit and high-water mark, nothing acceptable left behind, everybody returns, and the queue implements the channel with its liveness |
| `pool_stop` | two workers, two clients, four tasks, one of which a task enqueues; limit 1; `stop_all` at any moment | one place per task, enough wake-ups, justified sleeping, the drain, the return of `stop_all`, futures that become ready |
| `pool_nested` (violation) | one worker whose task enqueues into the full pool | `stop_all` does not return |
| `pipeline` | two tracker workers, one detector; four frames, every second detected; limit 2 | the chain of futures alone makes `track()` sequential and in order and keeps the unlocked counter right; test4 returns, with everything tracked |
| `device_read_write` | three readers, one non-blocking; one writer with sizes 0 to 3; a buffer of 2; faults; two writes | no forgotten sleeper, no byte twice, no mixed read, the last write readable, and waiting readers come back |
| `ipc_server` | three clients (one that breaks off the tst1 test with a line, one that sends more than a callback reads, one whose file may have gone), two free descriptors, backlog 1; garbage in the slot of the acceptor, of the last descriptor, of both or of none | table, interest list, objects and descriptors agree, garbage costs the first object of its slot its events, and the others nothing unless that is the acceptor; no event is stale; only a test or a client that has gone ends the service; unless it is stuck for ever clients are accepted and deleted |
| `ipc_test` (violation) | two clients, one leaves during tst1 | a test is reported complete that was not received |
| `socket_transfer` | four calls of data and descriptors, of 1 to 4 units; a socket of 3; ends that die; a descriptor table that is full now and then | data arrives whole, descriptors in order up to the first one dropped, 0 means the end, no call retries for ever |
| `socket_setup` | two servers and a caller, four sockets in all, backlog 2 | no call leaves a descriptor behind but descriptor 0, servers are cut off by servers only, callers are turned away for a name used twice only |
| `named_pipe` | two clients of three bytes, three handles, pipes of two bytes; reads and writes that wait | what was read, the byte ahead and the pipe are the stream; packets find their connection; each connection waits for one thing; the acceptor is armed; clients that have gone are deleted unless the thread waits for another one for ever |
| `modeset` | three connectors, two CRTCs, two kinds of cards in every state they may be found in, any call failing; five levels of colour | CRTCs are shared out rightly, nothing leaks on any path, screens are restored, colours move smoothly |
| `matrix_runs` | 4*4 matrices in tiles of 2*2, four kernels, the program started twice and killed anywhere, any launch or transfer failing unseen | the CPU's sums in every order of the items, reports that are true, and an end |

Why the bounds are enough to meet the cases:

- The queue has fewer places than elements and more sleepers than elements
  anyone may take, so both condition variables hold several threads at once,
  with filters that accept different elements, and `put` meets a closed queue.
- The pool's limit is 1, so clients and a worker sleep on `condition_notfull`
  together, and there are as many tasks as two workers and two clients can hold
  in different places.
- In the pipeline the frames outnumber both limits and both pools; both queues
  fill up while the chain of futures is longer than a queue. More workers than
  test4 starts are harder on the order, not easier.
- The device's buffer is smaller than the largest write (refused) and as large
  as two reads; `MaxWrites = 2` is the bound on writes that reach the buffer,
  which lets a write replace, with another size, one that is half read. Larger
  numbers of writers and writes are left to the proofs.
- The server has fewer descriptors than clients, so a descriptor is reused while
  events of the batch are still to be handled, and `accept` fails for want of
  one. Script lengths bound what clients send; each client connects once. Units
  are torn where a callback takes four bytes of a chunk or one of anything. With
  a clean table two clients have events in one batch; with garbage in the last
  slot the other descriptor goes from client to client.
- The socket holds less than the largest call and more than the smallest, so a
  call is cut by the writer and by the reader at every place.

- Two servers and a caller are enough for each to meet another of its kind: a
  caller that dies and calls again is its own double. Four sockets let a
  listening socket, two callers' and an accepted one exist together; servers are
  interchangeable (symmetry), and no property of this run is about liveness.
- A pipe holds less than a client sends and a `read` may ask for less, as much
  and more than there is. Three handles for an acceptor and two clients mean
  that a handle is used again; `MaxQueue` bounds the packets of synchronous
  calls a callback leaves behind.
- The cards have connectors that compete for one CRTC, one that must leave its
  own because an earlier one took it, and encoders of which the second is
  needed. Five levels with steps below three reach both ends of the colours.
- Two tiles in each direction and two in the depth of the product are the least
  for which the second barrier, the order of the terms and the edges of the
  groups matter; one group runs at a time in the run, any number in the proof.
  The program is started twice, which is the least for a file that was cut short
  to be read.

Deadlock is not checked because these systems really stop: programs end, getters
may wait for a `close` that nobody calls, a server may have no client.

## Fairness

Weak fairness is assumed of each thread's next step, never of a single action.

- `ThreadQueue`, `ThreadPool`, `TrackPipeline`: a thread that is not asleep gets
  the mutex and the processor in the end. A thread that sleeps moves only when
  it has been notified. Spurious wake-ups are possible and not fair, so no
  property rests on them.
- `ReverseDevice`: a call that has begun goes on. Taking the mutex has strong
  fairness, since other threads may take it again and again; the kernel's mutex
  hands itself over to a waiter that has been passed by. Signals, faults and new
  calls are not fair.
- `IpcServer`: the two threads of the server run; clients do what their users do.
  `EverybodyIsServed` has the premise that the service is not stuck for ever, in
  a read that waits for a client that does not send, or dead; a wait that ends
  excuses nobody.
- `SocketTransfer`: both processes run until they end; a user closes after its
  last call. When they die is not fair, and no assumption is made that they do.
- `NamedPipe`: the service thread runs, and a callback returns (strong fairness
  of `Return`: it does not go on reading and writing for ever); clients need
  neither send nor read. So the thread may wait in one client's `read` or `write`
  for ever, and that alone is the premise of `HangUpIsNoticed`.
- `MatrixHost`: the program and the device run while they can, that is, the
  device goes on with some item or barrier that can step; being killed and
  launches that fail are not fair, or a kernel that hangs would end by failing.
  `SocketSetup` and `Modeset` have no liveness properties.

## Proofs

All theorems are about the specifications without their fairness, for every value
of the constants that satisfies the module's named assumptions. Each safety
invariant is part of, or follows from, an inductive invariant with a name of its
own; what that adds is what the paragraphs below say.

**Queue** (`TthreadsProofs`). `TypeCorrect` and `NoWakeupIsLost` are
inductive together: each step that makes an element acceptable or the queue
closed empties `cv`, each that makes room empties `cvNotfull`. Order needs more:
`OrderInv` relates arrival numbers, positions in the deque and what each getter
has received (numbers grow along the deque and along what was received, what a
getter received came before whatever it would accept that is still there, no two
hold the same element, nothing that arrived is missing). From it follow
`FifoHolds`, `ExactlyOnceHolds`, and, with the facts on `RemoveAt`,
`QueueImplementsChannel`: every step is a step of `FilterChannel` or changes
nothing it can see. `SizesAreRight` (the limit and the high-water mark) rests on
the queue growing in `put` only. `NothingIsLeftBehind` has a hypothesis,
`LatePutsUnwanted`: putters other than the one that closes put what no getter
accepts. `put` takes elements after `close` (see below), so without it the
property is false; test2 and test3, whose only putter closes, satisfy it, and so
does the instance of the run.

**Pool** (`ThreadPoolProofs`). `TypeCorrect`, `LimitHolds`, `SleepersAreWoken`,
which is `NobodySleepsIdly` and `WakeupsSuffice`. The latter is inductive as
stated, as an inequality between the length of the queue and the cardinalities of
the awake and the notifying threads, and says why `notify_one` may come after the
unlock. `NoTaskLostOrDoubled` uses `TaskInv`: a called task is somewhere, what is
somewhere has been called and is not ready, it is there once, and the places are
disjoint. `StopDrainsThePool` is about the tasks that are owed, those queued
before `stop` and those tasks have enqueued (`DrainInv`): workers leave an empty
queue of a stopped pool only, and once the last has left only clients, with tasks
that are not owed, can put anything there.

**test4** (`TthreadsProofs`). `PipelineUsesPools` maps each step to a step of
either pool or a stutter, for the tracker's pool and for the detector's. The
pool's theorems are instantiated for both, so that the pipeline's own invariant
needs only what test4 adds: a worker behind `prev.get()` has the frame after one
that is ready, the frames that are ready are the first ones, and the counter is
their number, or one more between the store and the return. Two workers behind
`prev.get()` would have the same frame, which `EveryTaskOnce` of the tracker's
pool excludes. It gives `TrackingIsSequential` and `Test4TracksEverything`.

**Device** (`ReverseDeviceProofs`). `Places` (who holds the mutex and is in the
wait queue is where the code says) and `Contents` (types) give `TypeCorrect`.
`PointersInv` says what `read_ptr` and `end` are between the two stores, and
`WaitInv` that a reader still in the wait queue has loaded no more than has been
read; the latter is why a condition evaluated without the mutex loses no
wake-up. They give `PointersAreOrdered` and `NoSleeperIsForgotten`. What is read
is the subject of `BytesInv`: each byte of the buffer is in its place (`DataInv`),
those that may still be read have not been returned and are of one write
(`WindowInv`), and those of the last write, once accepted, have been returned or
may be read (`LastInv`). It gives `ReadsReturnOneWrite` and `LastWriteIsReadable`.

**IPC server** (`IpcServerProofs`), whatever `m_map_fast` holds at first: every
theorem is for every `Unset`, the whole table included. `ServiceInv` has three parts: the table is a
bijection between objects and open descriptors, and an object is watched unless
its slot was dirty; a batch has one event per descriptor and each is still that
of the socket it was reported for; and a client in the backlog is there once and
has no object. The second part is the reason deleting an object in a callback is
safe: a descriptor is released only by the handling of the one event it has in
the batch. They give `TablesAgree` and `NoHandleLeaks`, together
`DescriptorsAlwaysAgree`, then `NoStaleEvent`. `StreamType` is what `TypeCorrect`
needs besides. `OnlyTestsEndService` needs that a thread in a test has read the
word from its client (`TestInv`).

**IPC on Windows** (`NamedPipeProofs`), with at least one handle. `PipeInv` says
that handles, instances and connections know each other (`HandlesOK`), whom each
packet in the port is for (`QueueOK`), and that a connection has a read pending,
or the thread, or the packet of a read in the port, one of the three (`WaitOK`).
What makes it inductive is that the packet of a read is the last one in the port
for its handle: when the connection is closed by handling it, nothing of that
handle is left for the next client. `StreamOK` is `ByteStream` by positions: the
bytes read, the one ahead if there is one, and the pipe are 1, 2, 3 and so on up
to what was sent. They give `CallbacksReadTheStream`,
`NoPacketOutlivesItsConnection`, `OneReadIsPending` and `AcceptorHearsOfTheNext`.

**Socket transfer** (`SocketProofs`), for every plan of calls, every capacity and
ends that die at any moment. `TransferInv` says that the units in the socket lead,
each to the next, from the reader's place in the plan to the writer's
(`InStep`), and what a call has stored so far: its units in order, for
descriptors in order up to the first one that was dropped and from there the one
before it again (`FdsUpTo`). It gives `AnswersAreAsSent` and `ZeroMeansTheEnd`.

**Socket setup** (`SocketProofs`), for any processes and any numbers of sockets.
`SetupInv` says what each process holds at each place in its call (`Held`,
`Stages`), that sockets keep their number and family (`Numbered`, `Families`) and
that a caller's socket waits in one queue, once, or at one server (`Peers`,
`Queues`, `Once`). It gives `NoDescriptorLeaks`, `ServersStayReachable` and
`CallersAreTurnedAwayByDoubles`. Descriptor 0 is the exception of the first, and
the second permits what a server that fails takes from another one.

**Matrix kernels and their host** (`MatrixKernelProofs`). The inductive invariant
`IInv` says for each item which terms its sum has so far, by its counters `t` and
`k`; for each group that its items are in the same phase between barriers; and
for each tile that what has been loaded is of the tile all items are at.
`CellsRight` alone is not inductive: it says nothing of items that have not stored
yet. `KernelRight` holds for all sizes that divide into groups and tiles, and for
any number of groups at a time. Each step of the host program is a step of the
kernel's module or leaves its variables alone, up to the launch, which starts the
kernel's invariant again (`KernelRightInProgram`). `HostInv` adds that the
reference is the whole product or what the file holds of it, and how far the
program has got since it was last started; it gives `ReportIsTrue`, over any
number of runs killed anywhere and any calls that fail unseen. That theorem says
what survives such a failure (a report without errors is of the whole product)
and what does not need one to go wrong (a cut reference).

**Modesetting** (`ModesetProofs`). `CrtcsAreShared` needs that a connector's
present CRTC is one its encoders can use, and that a set of CRTCs that is not
empty has a least member, which `modeset_find_crtc` would find. That lemma is
proved from the well-foundedness of the naturals, without the library's induction
theorems. `CardIsReleased` relates buffers, framebuffers and mappings to the
list and to the place in the program, `ColoursAreSmooth` is arithmetic modulo
the number of levels. `ScreensAreRestored` needs whose framebuffer each CRTC may
show (`Framebuffers`), that a CRTC stays with its device even when that has left
the list (`CrtcsOwned`), and what has been saved for a connector that has kept
its CRTC (`Kept`).

Only model-checked: everything under fairness (`EverybodyReturns`,
`ImplementsChannel`, `StopReturns`, `FuturesReady`, `Test4Returns`, `WaitEnds`,
`EverybodyIsServed`, `BothFinish`, `HangUpIsNoticed`, `ProgramEnds`), which is
out of the provers' reach. Every invariant the runs check is stated by a theorem.

## Where code and text disagree

With a run that shows it (`findings` in `PROJECT.json`):

- `thread_pool.h:146`: `stop_all` does not notify `condition_notfull`, so a task
  that sleeps in `enqueue` is not woken and the join may never end, against the
  comment at line 116 (`pool_nested`).
- `tipc.cpp:1133`: `server_tst1` takes the end of the stream for a full chunk
  and finds the old bytes right (`ipc_test`).
Without a run:

- `thread_queue.h:65`: `put` never looks at `_closed` and accepts elements after
  `close`, against the comments at lines 33 and 41. `NothingFoundInFuture` holds
  in the run because those who put late there put what nobody accepts.
- `tipc.cpp:994`: the Linux constructor does not initialise `m_map_fast`, the
  Windows one at line 631 does. `associate` (line 212) takes a slot that is not
  NULL for one whose handle is registered already, and its first connection, or
  the acceptor itself, is never watched. `DescriptorsAgree` and
  `EverybodyIsServed` except the objects of such slots; unless the
  acceptor is one of them nobody else pays for it.
- `topencl.cpp:270`: whatever `load_bin` can read is taken for the whole
  reference, and the return value of `save_bin` is not looked at: after a run
  that died while saving, a right product is reported wrong from then on.
  `ReportTrue` names this as the one reason when no call has failed.
- `SocketHelper.cpp:465`: `recvmsg` changes `msg_controllen`, which is set up once
  for the loop. A descriptor the receiver has no room for is replaced by the one
  before it, as are those after it, and the full number is returned, although
  line 409 ensures that all are received. `AnswersAsSent` states what does hold.
- `tdrm1.c:577`: the configuration "before we changed it" (line 545) is read
  after the calls for other devices have changed it. When a connector that was
  dark gets the CRTC of one that was showing, that one moves first, which switches
  its old CRTC off, and what is saved of it is dark: so is the screen after the
  program has ended. `ScreensRestored` is about connectors that keep their CRTC.
- `tdrm1.c:695`: `modeset_cleanup` follows a NULL pointer when `drmModeGetCrtc` has
  failed; `NothingLeaks` is about programs that get to their end.
- `tipc.cpp:310`: `m_waitconn_overlapped` is the one OVERLAPPED that is not
  zeroed, and `run` looks at its `hEvent`: with garbage there no client is ever
  accepted. `AcceptorIsArmed` is about the other case.
- `tipc.cpp:614`: `listen` ignores what `wait_for_connection` returns; a client
  that has come and gone before leaves an acceptor that hears of nobody any more.
- `SocketHelper.cpp:46`: a socket that gets descriptor 0 is taken for an error
  and stays open.
- `SocketHelper.cpp:81`: `accept` writes the caller's address over the parameter,
  and not to where it points.
- `topencl.cpp:183`: nobody asks whether C could be read back; its zeros are then
  compared, or the product an earlier start left on the device, which is reported
  right. `ReportTrue` says so.
- `tipc.cpp:1238`: `on_read` waits for one more byte with the synchronous
  `read`, so one silent client stops the service, although line 98 asks that
  callbacks do not block. `EverybodyIsServed` has the premise that this ends. On
  Windows `write` (line 527) waits for a client that does not read, too.
- `tipc.cpp:1142`: `tst1 failed` is thrown where nobody catches it, so one client
  whose line begins with `tst1` ends the service for all
  (`OnlyTestsAndHangUpsKill` says that nobody else does).
- `tipc.cpp:850`: `EPOLLRDHUP` wins over `EPOLLIN`, so what a client sent before
  it closed is dropped, although line 811 says that `on_read` is called on
  `EPOLLIN`.
- `tipc.cpp:1248`: a client that leaves before it is answered ends the server
  with SIGPIPE.
- `hello.c:172`: a write replaces what was not read, although line 36 speaks of
  a queue of pending work.
- `SocketHelper.cpp:452`: when the stream ends in the middle of
  `receiveFdsThroughSocket` the descriptors it has received stay open, and the
  caller is not told how many there are.

## Not modelled

- The iterators of `t5.cpp` and `t6.cpp`: planned, see below. `tdrm2.cpp` prints
  the version of a driver.
- `tcube.cpp`: OpenGL and floating-point rotation, out of TLC's reach.
- `trtsp.cpp`, `tcvtest.cpp`, `tfreetype.cpp`, `ft2wrap.h`, `teigen3test.cpp`,
  `tusbfs.cpp`: thin calls of libraries that keep the state.
- The language demonstrations (`t1` to `t4`, `tforward` and so on): one thread,
  no state that outlives a call. `HLog`: formatting. `jingo`: symbol visibility.
  Packaging and build files.
- In what is modelled: memory ordering below the mutexes, apart from the two
  plain stores of the device's `write`; the unlocked read of `_max_size`;
  exceptions thrown by tasks, which `packaged_task` stores in the future;
  `m_map` for descriptors from 1024 on; the service's shutdown.

## Plan

Done: the modules above and their proofs.

Next, in this order:

1. An abstract stream of bytes that `NamedPipe` and `SocketTransfer` both
   implement, as theorems: `StreamOK` and `InStep` are nearly the refinement
   mappings.
2. The client side of `ipc_connection`, with `main`'s client branch on Windows.
3. The containers of t5 and t6 as functions against sets, in one run.

## How to run

In this directory:

    tlc -workers 2 -config queue.cfg MCThreadQueue
    tlapm ThreadPoolProofs.tla

`PROJECT.json` lists each run with its module, and each theorem. The largest runs
are `modeset` (1.8 million states, most of them initial states and failures of
single calls), `socket_setup` (1.3 million), `named_pipe` (290,000), `ipc_server`
(294,000), `matrix_runs` (87,000), `device_read_write`
(61,000) and `queue` (43,000); each takes a minute or two at most, the others a
few seconds.
