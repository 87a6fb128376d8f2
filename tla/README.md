# A TLA+ model of OpenCORE in ftke

ftke bundles an Android 2.2 user space for desktop Linux: PacketVideo's OpenCORE
multimedia framework (`src/opencore-linux`, about 1.4 million lines), the Vincent
OpenGL ES rasteriser (`src/ogles`), vendored copies of cairo and pixman, and the
scripts of an emulator image. The logic that is hard to test is OpenCORE's, and it is of
three kinds:

- *Threads.* Each engine thread runs a cooperative scheduler of *active objects* (AOs);
  everything that crosses a thread boundary goes through the request of an AO and a
  handful of small classes. If one of them loses a wake-up, counts a semaphore wrong
  or leaves with a lock held, a player hangs in a way that no test reproduces.
- *Asynchronous commands.* The player engine queues the application's commands,
  executes them by asking its nodes, and has to cancel, to recover from errors and
  to answer for threads that wait, while answers of the nodes are on their way.
- *Protocols.* The 3G-324M terminal sets up a video call over a link that corrupts and loses
  frames, with a peer that starts when it likes and has other capabilities.

These modules model that logic, TLC checks it on small instances, and TLAPS proves the
safety of each of the modelled components for every instance.

Run everything from this directory: `tlc -config X.cfg M` for a run below,
`tlapm MProofs.tla` for the proofs of component `M` (`ThreadSafeProofs` has those of the queue and of the memory
pool; up to a few minutes each).

## The system

| Part (`src/opencore-linux/...`) | State | Operations | What is hard |
|---|---|---|---|
| Priority queue, `oscl/oscl/osclutil` | a heap in a vector | push, pop, remove | removal from the middle |
| AO scheduler, `oscl/oscl/osclproc` | ready queue with a semaphore and a mutex, timer queue, per AO: added, active, status, link | activate, complete (any thread), cancel, add, remove, timers, the blocking loop | completions by other threads between any two steps; waits that are owed; timeouts |
| Scheduler control, same files | the stopper AO, iDoStop, iDoSuspend, iSuspended, iResumeSem, iStopperCrit | start, stop, suspend, resume (any thread), end by an error | flags read without a lock, restarts |
| `baselibs/threadsafe_callback_ao`: callback AO | ring buffer, mutex, semaphore of free slots | ReceiveEvent (any thread), Run | signal only on the first event; full queue |
| ... queue | vector, mutex, semaphore "ready to signal" | AddToQueue, DeQueue (any thread), Run | completion outside the lock |
| ... memory pool | free list, reference count, callback request | allocate, deallocate, addRef, removeRef, notify | deletes itself; unguarded callback request |
| `baselibs/thread_messaging`: interface proxy | two message queues, list of interfaces, two AOs, a thread | register, send, cancel, deliver, start, stop | four locks, cleanup against delivery |
| Player engine, `engines/player` | pending commands by priority, the current one, contexts of what was asked of the nodes, the engine's state, the commands of other threads | commands, node answers, cancel, reset, error handling, roll-over to another source format | a cancel against the answer it cancels; errors while commands wait; threads that wait |
| SRP, `protocols/systems/3g-324m_pvterminal/h324/srp` | per terminal: packets waiting, commands in flight with timers, fragments received, what the peer is believed to support | send, receive, time out | loss, late answers, windows, two ends that decide separately which protocol to speak |
| Call setup, `.../h245/se`, `.../h324/tsc` | master/slave determination, capability exchange, terminal status, timers, retry counts | connect, messages, timeouts, disconnect | crossing determinations; late messages; three components that retry on their own |
| `pvmi/pvmf` ports, media clock; `nodes/*`; author and two-way engines | command queues, port queues, node states | node commands, port data flow, clock | flow control |
| `nodes/streaming`, other protocols | jitter buffer, session states | packets | reordering, loss, timeouts |
| `codecs_v2/omx` | OMX component state, buffers | OMX commands | ownership of buffers between threads |
| codecs, file formats, parsers, graphics | - | pure data | outside a model checker's reach |

Interactions. Every AO is run by the scheduler of its thread; other threads only
call `PendComplete`. The callback AO, the queue and the proxy are AOs, and they
rely on exactly what `ActiveObjects` states. The OMX decoder nodes receive the
callbacks of component threads through a callback AO whose event memory comes
from a memory pool; the player engine gets the commands of other threads through
a thread-safe queue (`PlayerEngine` takes the whole queue at once, as its observer does and
`ThreadSafeQueue` shows to be right); the engines are put into a thread of their own behind an
interface proxy, which starts and stops that thread's scheduler. The call setup's messages
travel over SRP: `CallSetup` assumes of its links what `Srp` shows, delivery in order without
repetition (`Srp!InOrder`), or a failure that ends the call.

`PROJECT.json` lists every component with its status, and under "hazards" the
places where this code is hard to test, each at its line.

## The modules

| Module | Models | Role |
|---|---|---|
| `PriorityQueue` | what `OsclPriorityQueue` promises | abstract: a set, pop returns a greatest element |
| `OsclPriQueue` | oscl_priqueue.cpp/.h | the heap, one comparison and swap a step; implements `PriorityQueue` |
| `ActiveObjects` | what an AO may rely on | abstract: a request is idle, pending or ready; it is run at most once per activation, after its completion, one AO at a time |
| `OsclScheduler` | oscl_scheduler.cpp, _ao.cpp, _readyq.cpp, _threadcontext.cpp, oscl_semaphore.cpp | the loop, both queues and remote completions; implements `ActiveObjects` |
| `OsclProofs` | - | theorems about `OsclScheduler` and `OsclPriQueue`, which it both extends: the names of the priority queue's specification begin with Heap |
| `SchedulerControlProofs`, `ThreadSafeCallbackAOProofs`, `InterfaceProxyProofs`, `PlayerEngineProofs`, `SrpProofs`, `CallSetupProofs` | - | theorems about the component each is named after |
| `ThreadSafeProofs` | - | theorems about `ThreadSafeQueue` and `ThreadSafeMemPool`, which it both extends: the names of the pool's specification begin with Pool |
| `SchedulerControl` | StartScheduler ... ResumeScheduler, the stopper, EndScheduling | the control calls of several threads |
| `BoundedChannel` | a bounded FIFO queue | abstract, implemented by the next two |
| `ThreadSafeCallbackAO` | threadsafe_callback_ao.cpp and the OMX decoder nodes' subclass | composed with `ActiveObjects` through INSTANCE |
| `ThreadSafeQueue` | threadsafe_queue.cpp, and the player engine as its observer | composed with `ActiveObjects` through INSTANCE |
| `ThreadSafeMemPool` | threadsafe_mempool.cpp | reference count and callback request |
| `InterfaceProxy` | pv_interface_proxy.cpp, _handler.cpp, _notifier.cpp | two threads, two queues, the list of interfaces |
| `PlayerEngine` | pv_player_engine.cpp/.h: Run, the command queue, AddDataSource to Init, Reset, the cancels, error handling, roll-over, calls of other threads | one engine, its source node, the application and two threads |
| `Srp` | srp.cpp | two terminals and two lossy links |
| `CallSetup` | msd.h, ce.h, tscmain.cpp, tsc_msd.cpp, tsc_ce.cpp, tschandling.cpp, tsc_statemanager.cpp | two terminals, three state machines each, and the links |
| `MC...` | - | constants for TLC: the *uses*, see below |

How the models follow the code:

- *A step* is what happens between two points where another thread can
  interfere: a critical section, a semaphore operation, or one unlocked read. A
  mutex that is held across such a point is a variable (`crit`, `mutex`,
  `iProxyListCrit`); one that is not needs none. Actions have the names of the
  functions they stand for; a function of several steps has several actions
  with a program counter (`pc` for the thread of the AO, `call` or `at` for the others).
- *Leaving* (`OsclError::Leave`, a longjmp or C++ exception) is modelled with the
  locks it leaves locked. A leave that only refuses a call (a wrong thread, a
  wrong state at entry) is a guard: the call is then not made.
- *OSCL_ASSERT* is compiled out of release builds, so a failing assertion is a
  step that goes on.
- *Event-driven components* (`PlayerEngine`, `Srp`, `CallSetup`) run in one thread each: a
  handler is one step. Their handlers are operators from the component's record to a new one, so
  that a handler that calls others is a composition, as in the code.
- *Uses.* A component that is used in several ways has a variable `use`, chosen once by Init from
  the constant `Uses`: which calls are made, how many, which faults occur. One run covers
  them all, and a property may be stated of some of them.
- *Queues as sets.* `OsclScheduler` keeps a queue as the set of its members with
  their order of arrival, and takes out a greatest member. That is what
  `OsclPriQueue` promises while removals are made from queues of at most five members (theorem
  `HeapImplements`). From longer ones removal does not keep the promise (run `priqueue_remove_order`), so the results about
  priorities and FIFO order hold of the code while no more than five AOs are in one
  queue when one is removed; the results about the semaphore, links and
  requests do not depend on which member is taken out. The player engine's iPendingCmds is the
  same class: `PlayerEngine` keeps a set with a greatest command on top, which again is true for at most
  five commands when a cancel removes one (its runs have no more). The theorems about it are for any number: of the code they
  hold while at most five commands wait when one is cancelled.
- *Time* is relative: `due[t]` is the difference of the timer's ticks to now.
- *History variables* (`held`, `signalled`, `waiting`, `handled`, `cleaned`, `lost`)
  are read by properties only, but for `waiting`, the decoder node's own flag.

Mutants: next to a definition stands, where a property needs one, a changed form of it
(`RequestCheck_KeepWaits`, ...), the plausible bug that the property would catch.
No specification uses them.

## The runs

Every passing run also reaches every action of its module.

| Run | Instance | Shows |
|---|---|---|
| `priqueue_short` | 6 elements, at most 5 in the queue | the refinement `Implements`: pop returns the greatest element. Five is the largest size at which it holds |
| `priqueue_remove_order` (violation) | 7 elements, at most 6 | removing from the middle breaks the order, `Implements` is violated |
| `sched_requests` | objects o1, o2 completed by a remote thread, o2 with a DoCancel that leaves the completion to that thread, one removable timer | `WaitsAreBacked`, the refinement `RequestsRunOnce`, and under fairness `ReadyRuns`, `TimersExpire`, `CancelsEnd` |
| `sched_timers` | two timers of different priority, delays up to 2, lateness up to 1, an object activated with the bare SetBusy | the inductive invariant `IInv`, `TimersAreNotEarly` |
| `control` | three uses: any thread makes any call; AOs leave and only the own thread stops; one other thread makes all Stop and Suspend calls | `CleanStart`, `LockIsReleased`, `ResumeFindsSuspension`, `StopsEnd` |
| `callback` | 2 senders, a ring of 3, both kinds of Run | the refinement `DeliversInOrder`, `CallsReturn`, `EventsAreProcessed` |
| `queue` | 2 adding threads, at most 3 items, with and without other threads taking out | `ReadyToSignal`, `DeliversInOrder`, `AddReturns`, `DataIsReceived` |
| `pool` | 3 chunks, 2 threads, at most 2 owners, two uses | `LivesWhileUsed`, `ChunksAreConserved`, `WaitersAreCalled` |
| `proxy` | five uses: messages only, through two starts of the thread, with and without a scheduler in the app thread, and with a Run that leaves; cancels and unregistrations with 2 interfaces; cancels of 3 messages | `Accounted`, `InOrder`, `CommandsAreRegistered`; without disturbance `MessagesAreSettled`, `StopsReturn` |
| `player` | five uses: up to 4 commands with cancels and all faults of the node; every command of the interface with an error event; 2 alternate formats, with and without recognition of the format; two threads that wait, with CancelAll and an error event | `AnswersFindTheirCommand`, `ResetIsFinal`, `CommandsComplete`, `ErrorsEnd`, `SyncCallsReturn` |
| `srp` | six uses: both ways; PDUs of one and two packets; one end or both without WNSRP, around the modulus; one end or both without numbered responses. Modulus 8, windows of 2, one repetition, 3 frames in a link | `InOrder`, `AckedIsReceived`, `WindowIsPrefix`, `PacketsAreSettled` |
| `callsetup` | all differences of numbers modulo 4, equal and different types, with and without a layer in common, no early timer; one or two timers that run out early | `RolesAgree`, `CapabilitiesAreReceived`, `ConnectIsAnswered`, `PromptCallsConnect` |

A `TypeOK` states the types of the variables. It is proved of every component that has a module
of proofs, and it is no property of a run: the run `sched_timers` checks it as a part of `IInv`.

*Why the bounds are enough.* The scheduler's protocol is between its own thread
and one completion at a time: each completion is one critical section, so two
remote threads differ from one only in which AO they tested before, and one
remote thread with two objects already puts a completion of one between the steps about
the other. Two timers of different priority give both orders of expiry, a delay of two
ticks a timer that is passed by a later one. In the control run three threads are the
two callers whose unlocked reads can interleave, and the scheduler. A ring of three is
the smallest with an empty, a partly filled and a full state that differ when an event is
in the hand of Run; two senders compete for the last slot. Three messages
are the smallest number where a cancel can hit the one in the middle, two
interfaces the smallest where an erase moves another interface.
Four commands are the smallest number with one that is executed, one that waits,
one that cancels and one after it; two optional interfaces (seven in the code) make an answer that is
not the last. A window of two has a first and an other command in flight, and a modulus of eight is
more than twice the window, as 256 is, and is passed by nine packets. A modulus of four for the determination numbers
has all the cases of their difference: none, half, below and above. N100 is three, the code's
N100_DEFAULT, so that a determination that failed twice is started again: with two starts the roles agree for a reason
that the code does not have; two early timers are the most
that one determination and one exchange can both lose.
`MaxCredits`, `MaxDelay`, `MaxLate`, `MaxLen`, `MaxOwners`, `LinkCapacity`, `Num...` and the numbers in the uses are the only bounds;
each is a guard of one action (a frame that finds the link full is lost).

*CHECK_DEADLOCK FALSE* stands where the program may really stop: a scheduler that was
stopped and is not started again, a scheduler thread that waits for a request nobody
completes, a pool or proxy that was deleted, an engine whose application has no more to ask, a call that
is set up. The other runs check for deadlock.

*Fairness*, and why the code justifies it:

- The loop, the calls and a critical section are straight-line code on a
  preemptive system: weak fairness.
- The Run of an AO is finite, but may make calls, which TLC sees as a cycle of user
  code: strong fairness of RunReturns. Handlers that never return are outside.
- A remote thread ends a completion it began. An AO whose DoCancel leaves the
  completion to a remote thread has one that completes it (`RemoteCancel`): the header's contract for DoCancel.
- Waiting on an OSCL semaphore (a mutex and condition variable, or sem_wait) is
  strongly fair: a thread is not passed for ever by others.
- The clock ticks on. `ReadyRuns` and `TimersExpire` are stated for the highest
  priority only, since the scheduler starves lower ones by design.
- `AddReturns` assumes that the observer's loop ends again and again: nothing in
  ThreadSafeQueue bounds it while other threads keep adding.
- `WaitersAreCalled` assumes that whoever uses a chunk gives it back.
- A node answers every request, and a recogniser too (`player`): the interface of PVMF nodes promises it, and
  their code is not part of this module. The engine's scheduler runs a ready AO, which is `ReadyRuns`.
- A frame on a link arrives or is lost, and T401, T101, T106 and the timers of the terminal expire once they run (`srp`, `callsetup`): nothing
  is assumed of how often a link is good, so that `PacketsAreSettled` and `ConnectIsAnswered` include the failures. The multiplexer
  finds the peer or the level setup timer expires.
- Nobody has to make a call: no fairness of client actions, of senders or of StopPVThread.

*Assumptions about users.* AOs have a lower priority than the stopper (EPriorityHighest),
as the scheduler's documentation demands of them in effect. Clients of the proxy send
commands only between StartPVThread and StopPVThread, and unregister from the
app thread. Threads do not give one chunk back twice. The application of the player engine adds a data source
when the engine has none and none is being added. Terminals draw numbers as they like.

## What is proved

For every component below, an invariant `IInv` is shown to hold initially and to be kept by every action
(theorem `Invariance`: `Spec => []IInv`; `PoolInvariance` and `PoolIInv` for the pool, `HeapInvariance` and `HeapIInv` for the priority queue), and the properties of the runs are drawn from it. The theorems
hold for all values of the constants that satisfy the assumption of the component's module, which says no more than
that bounds are naturals, that sets that are counted are finite, and what a use looks like. The instances of
the runs satisfy it, and the invariants were checked on them before they were proved.

| Module | Theorem | Statement |
|---|---|---|
| `OsclProofs` | `TypeCorrect`, `SemaphoreAccount`, `WaitsBacked` | the count and the owed waits never go below zero; the semaphore counts the ready AOs; the assertion of PopTopAfterWait holds, and the waits inside the critical section do not block |
| | `LinksCorrect`, `QueuedActive`, `QueuesOrdered`, `TimersNotEarly` | the four invariants of the queues |
| | `RequestsImplemented` | `Spec => RequestsRunOnce`, the refinement of `ActiveObjects` |
| | `HeapInvariance`, `HeapImplements` | `HeapSpec /\ RemovesAreShort => Implements`, the refinement of `PriorityQueue` by a heap of any length, as long as remove is called on at most five elements or for the greatest one |
| | `ShortHeapImplements` | `MaxLen <= 5 => (HeapSpec => Implements)` |
| `SchedulerControlProofs` | `StartsClean`, `LockReleased` | `[]CleanStart`, `[]LockIsReleased`: no Stop, Suspend, Resume or credit of one scheduling reaches the next |
| | `ResumeIsNotMissed` | the action property `ResumeFindsSuspension` |
| `ThreadSafeCallbackAOProofs` | `AdmittedSendersQueue`, `RunFindsEvents` | the failures of Queue and DeQueue and the leave of PendComplete are never taken |
| | `CallbackDeliversInOrder` | `Spec => DeliversInOrder`, the refinement of `BoundedChannel` |
| `ThreadSafeProofs` | `ReadyForSignals`, `SignalsAreNotLost` | `[]ReadyToSignal`; a thread that signals finds the request pending |
| | `QueueDeliversInOrder` | `Spec => DeliversInOrder`, the refinement of `BoundedChannel` |
| | `PoolLivesWhileUsed`, `ChunksConserved` | `PoolSpec => []LivesWhileUsed`, `PoolSpec => []ChunksAreConserved` |
| `InterfaceProxyProofs` | `CommandsHaveAnInterface`, `HandledInOrder`, `MessagesAccounted` | `[]CommandsAreRegistered`, `[]InOrder`, `[]Accounted` |
| `PlayerEngineProofs` | `AnswersFound` | `Spec /\ Separate => []AnswersFindTheirCommand` |
| | `ResetsAreFinal` | `Spec /\ Separate => ResetIsFinal`, the action property |
| `SrpProofs` | `CommandsAreFirst` | `[]InFlightAreFirst`, the part of `WindowIsPrefix` about where the next packet is looked up |
| | `PacketsInOrder` | `[](Short => InOrder)`: in uses in which every end sends fewer packets than there are numbers |
| | `AcksAreTruthful` | `[](Half => AckedIsReceived)`: in uses in which the packets of an end fit into half of the numbers |
| | `TimersRun` | `TxWindow > 1 => (Spec => [](Short => WindowIsPrefix))`: also its other part, that a timer runs while a packet waits |
| `CallSetupProofs` | `CapabilitiesReachThePeer` | `[]CapabilitiesAreReceived` |
| | `RolesInvariance`, `OneIsMaster` | the second invariant, and `[]RolesAgree` |

The arguments.

- *Scheduler.* `SemCountsReady` equates the semaphore's count, plus the waits
  the thread has done in advance, with the number of ready AOs, plus those already taken out. It is not inductive:
  a completion adds one to both sides only if the AO was not in the queue, which is the test of its link; so
  `IInv` adds `LinksMatchQueues`. The loop's timeout completes a timer outside the critical section; that this is an active, pending
  request needs `QueuedAreActive` and `PoppedIsActive`. The waits of
  WaitForRequestComplete are owed across several steps; `CancelGivesBack` says that
  they are zero wherever an element is removed. The timers need `TimersAreDue`. Each conjunct has a lemma
  `...Step` with a case per action; the arithmetic of cardinalities is in
  `CountAdded` and `CountRemoved`. The refinement maps the request of an AO to "ready" while it is
  queued or popped, and to "idle" when it is not busy; each action is then a step of
  `ActiveObjects` or a stutter.
- *Priority queue.* `HeapIInv` says of each loop which element may be out of order: in push_heap the one that rises and its parent (`Rising`), in
  pop_heap from the top the one that sinks and its children (`Sinking`). In both, the parent of that element is greater than its children
  (`Bridged`), or the next swap would put them out of order. That the top is greatest is the least index whose element is greater, and its parent (`Greatest`).
  remove calls pop_heap from the middle, where the children it computes are not those of the heap. With at most five elements the range is of at most
  three, pop_heap makes at most one swap, and the only pair below the top that may go wrong is the second and the fourth element: `Middle` says when it
  is in order already, and what is left goes right by pop_heap's comparison or the push_heap that follows. `priqueue_remove_order` shows that five cannot be six.
- *Scheduler control.* That a start is clean says nothing of how it came about. `Control` ties the flags to the
  place of the loop (`FlagsFollowLoop`), the stopper's request to its link and to the flag
  (`StopperMatchesQueue`), and says how the loop ends (`EndsByLeaving`, `EndIsComplete`). A credit of
  iResumeSem left over for the next scheduling would come from a Resume that read a flag too early:
  `HeldInSuspension` excludes it. `CleanStart` and `LockIsReleased` are about uses where no AO leaves, or none but the scheduler's own thread
  stops and suspends it (`ControlledApart`); what happens otherwise is `LockIsAlwaysReleased`, below.
- *Callback AO.* A slot of the ring is free in the semaphore, owed by Run (taken out and not yet signalled),
  promised to an admitted sender, or holds an event: `SlotsAreConserved` gives the sum. With
  `RingIsConsistent` and `PrimedWhileEmpty` (the request is pending exactly while the ring is empty or Run completes
  it) no sender fails after the semaphore. The refinement maps the channel to the ring read from
  index_out, with the event in Run's hand before it; `RingOf` and its lemmas do the modular arithmetic.
- *Queue.* The semaphore "ready to signal" and the request are tied by `ReadyToSignal`; it is inductive together with
  `IdleInRun` and `PendingAtSignal`, which say where Run stands between its two critical sections.
- *Memory pool.* `LivesWhileUsed` counts owners and chunks: the lemmas are those of cardinalities of sets that gain or lose an
  element. `NothingOutUncreated` is the one addition.
- *Interface proxy.* Three layers. `Threads`: a thread has a message in hand from taking it until its handler returns,
  and the list is locked exactly while an interface is unregistered, which is in the list until then. `Commands`: an interface
  between the two cleanups of its unregistration has no command queued, and since the app thread is in the middle of a call
  it sends none. `Ordered` and `Settled`: the ids in each of the places of a side (given, in hand, queued) are lined up and differ, and the ids sent
  are the disjoint union of all places, the cleaned and the lost. `Accounted`, which counts occurrences, and
  `InOrder`, which is about a concatenation, follow at the end. What the loop of CleanupCommands leaves is a recursive
  function; `UpTo` is induction over the numbers up to a bound in first-order form (the least number that fails), and
  `LeftRecursion` and `LeftOf` use it to show that what is left comes from the queue, in its order.
- *Player engine.* The theorems are about the uses that are `Separate`: no cancels with alternate formats or a format to be
  recognised, and no error events with alternate formats while other threads wait. All uses of the run `player` are, and in each excluded case TLC finds
  `AnswersFindTheirCommand` or `CommandsComplete` violated (three rows of the table below). Everything else is arbitrary: the commands, faults, errors
  and threads. `IInv` has two parts beside the types. `Filed` and `Fits` are about commands: those the engine holds are exactly the ones
  the application waits for, the current one was issued before all that wait (this is what makes a reset final: nothing older is left),
  and there is a source where one is needed. `Phased` is about the node: the engine is `Quiet` and awaits nothing; `Asking` for an AddDataSource or
  Init, with requests of one kind; `Cancelling`, with what it cancels before its own requests in the line and as many of these as iNumberCancelCmdPending says;
  or `Resetting`, with the one request. Every handler is an operator on the engine's record and has a lemma: from the phase it is called in, and
  with its command in hand, it ends in a good record (`Fine`) and tells the application of nothing too early (`Final`). `Run` and `NodeCommandCompleted` put these
  together, one case per disjunct. That the queue has a top is the least element of a set of naturals (`Least`, `TopFirst`), from the library's well-founded induction.
- *SRP.* Each end by itself keeps `First`: its commands in flight are the first packets of its queue, whatever the peer says,
  so this part needs no bound on the numbers. The other properties relate two ends and what is between them. `Ready(b, s, r)` says of a
  sender and a receiver that the receiver's counters fit what it passed up (`Ordered`), that the first SRP command it sees is packet 1, and that
  every packet is in the sender's queue or received; `From(b, s, r)` says what the frames on the link may be: commands of packets that were sent,
  responses only from an end that has received a command, and, where the responses are numbered (b), only for packets it has. The
  handlers are shown to send nothing but frames of a set F that offers the packets of the queue; F is first all frames, for `TypeOK`
  and `First`, and then `From`. A repeated response is truthful because the numbers CheckWNSRPRetrans takes for old ones do not reach
  packets that are still to come, if these fit into half of the numbers (`RespondsAgainReceived`).
  That a timer runs while a packet waits (`TimersRun`) is a matter of what a late NSRP response may clear, and needs a second invariant, `RInv`.
  A terminal starts with SRP and may go on with WNSRP; K is the last packet it has sent as SRP. `Runs` says that with WNSRP at most the first packet
  of its queue is one that was sent as SRP, and that another one is then in flight behind it; so what an NSRP response takes from the queue leaves
  a timer, or leaves the queue empty. What makes it so is that the NSRP responses on the link are for packets up to K
  (`FromPeer`), because the SRP commands on the link are (`ToPeer`). A handler may raise K; `RunsTurn` carries this from the sender's turn to the receiver's.
  For a window of one there is no other command in flight, and TLC finds the packet that waits for ever (below).
- *Call setup.* `AcksAreTrue` covers the acknowledgements still on their way, also to a terminal that has left.
  Every handler is shown to keep a predicate of one record (`Sound`, `Plays`), whatever it sends, so that a handler that calls
  others is a composition in the proof as in the code. For the roles, `RolesFollowDraws` says that everything a terminal
  says or holds fits the role its first draw gives it: numbers, decisions and status.

A proof attempt changed the following in the models. The runs check the changed ones.

- `RolesAgree` is about determinations that the types or the first numbers decide (`Decided`). Without this it held only because
  N100 was two; with the code's three, TLC finds two slaves in a call (`RolesSettle`, below).
- `CleanStart` and `LockIsReleased` name the uses they are about in the formula (`ControlledApart`), where before
  only the constants of the run did.
- `AddPendingRxFrag` of `Srp` inserts before the first greater number, as the code's loop does (srp.cpp:2524-2560), where it divided
  the list into the smaller and the greater numbers: the same only for a list in order, and the list is not always in order (`PendingInOrder`).
- The two parts of `Srp!WindowIsPrefix` are separate: the first (`InFlightAreFirst`) is true of every window, the second is not (below).
- The player engine's queue is a set with `Top` and `Pop`, where it was a sequence in order: with the sequence, every handler would have had to
  be shown to keep the order. `CancelPending` cancels a set of commands at once, in place of a fold over the queue; `Contexts` is a set of places in the line of requests;
  the guards of the CASEs are disjoint. `CommandsComplete` is one formula of the form `[]<>`; the application's requests are finitely many, so it says what
  one formula per command said.
- The names of `ThreadSafeMemPool` that every module has begin with Pool, those of `OsclPriQueue` with Heap.
- `Left` of `InterfaceProxy` is a recursive function over the queue, as the loop of CleanupCommands is, and no longer a RECURSIVE operator.

*Only model-checked.*

- Liveness (`ReadyRuns`, `TimersExpire`, `CancelsEnd`, `StopsEnd`, `CallsReturn`, ...): it rests on ENABLED, which the
  proof system does not handle.
- `PlayerEngine`: its liveness (`CommandsComplete`, `ErrorsEnd`, `SyncCallsReturn`).
- `Srp`: `AckedIsReceived` in uses of more than half of the numbers, and `InOrder` and the timers of `WindowIsPrefix` around the modulus where an
  end does not use WNSRP (uses three and four of the run `srp`): with SRP and NSRP alone one packet at a time is on its way.
- The priority queue when remove is called on six elements or more for one that is not the greatest: there the refinement fails.

## Where code and documentation disagree

One disagreement is a run and a finding of `PROJECT.json`:

- **Heap removal** (`oscl_priqueue.cpp:123`): `pop_heap(pos, end)` computes the children relative to
  `pos`. From six elements on, removing one in the middle can leave a queue whose top is
  not its greatest element. Every Cancel and RemoveFromScheduler of a queued AO or timer calls it, and the player
  engine's cancels do.

The others are stated in the section "What the code does not keep" of each
module, with the source's words. TLC violates each in the instance named here; they are no runs because
each would be a run for a single counterexample.

| Formula | Instance | What happens |
|---|---|---|
| `OsclScheduler!CancelDoesNotLeave` | one object, one remote thread | DoCancel tests the status and then completes the request (oscl_scheduler_ao.cpp:307-308); another thread completes it in between and Cancel leaves; oscl_scheduler_ao.h:151-156 promises that the request is idle then |
| `OsclScheduler!SchedulerIsThere` | one removable, shared object, one remote thread | `PVThreadContext::PendComplete` (oscl_scheduler_threadcontext.cpp:88-102) tests iOpen, the AO is removed, iScheduler is NULL; oscl_scheduler_ao.h:121-123 calls it thread-safe |
| `OsclScheduler!SetBusyPends` | one object in `RawBusy` | SetBusy (oscl_scheduler_ao.cpp:241-248) does not set the status that oscl_scheduler_ao.h:97-99 promises; a Cancel of it then waits for ever (`CancelsEnd` with `RawBusy` not empty) |
| `SchedulerControl!EveryStopEnds` | c1 stops, c2 suspends | a Suspend between Stop's test and its completion (oscl_scheduler.cpp:835): the scheduler stays suspended with the Stop queued |
| `SchedulerControl!SuspensionHolds` | c1 makes all calls | a second Resume before the scheduler woke leaves a count on iResumeSem (oscl_scheduler.cpp:873-875); the next Suspend does not suspend |
| `SchedulerControl!LockIsAlwaysReleased` | c1 stops, AOs leave | EndScheduling cancels the stopper that c1 just completed, leaves, and iStopperCrit stays locked (oscl_scheduler.cpp:497-499) |
| `ThreadSafeMemPool!NotUsedDeleted` | n allocates, c1 gives back | the last removeRef deletes the pool before deallocate reads the callback request (threadsafe_mempool.cpp:207-216; "thread-safety", threadsafe_mempool.h:120-122) |
| `ThreadSafeMemPool!EveryWaiterIsCalled` | 1 or more chunks, n allocates, c1 gives back | the chunk comes back before notifyfreechunkavailable (threadsafe_mempool.cpp:231-236): no callback |
| `ThreadSafeMemPool!PoolStaysUsable` | allocations that are too large | allocate leaves with the mutex locked (threadsafe_mempool.cpp:149-151) |
| `InterfaceProxy!Primed` | 1 interface, 2 messages, cancels | send, cancel, send before the handler ran (pv_interface_proxy.cpp:443-444): the second send completes a request that is not pending and leaves with the queue's lock held; "when the queue is empty it is safe to assume the handler AO has a request pending" (441-442) |
| `InterfaceProxy!NothingIsLost` | 1 interface, unregistrations | a message Run holds is neither handled nor cleaned up (pv_interface_proxy_handler.cpp:58-62; the comment at pv_interface_proxy.cpp:268-269) |
| `InterfaceProxy!HandledByItsInterface` | 2 interfaces, unregistrations | the pointer FindInterface returned is used after the list was unlocked; the erase at pv_interface_proxy.cpp:424 moved another interface there |
| `InterfaceProxy!StopCleansUp` | 1 interface | CleanupPVThreadQueues (pv_interface_proxy.cpp:531) cleans up notifications only; pv_proxied_interface.h:170-174 says all messages |
| `InterfaceProxy!UnregistersReturn` (FairSpec) | unregistrations, a Run that leaves | lines 311-315 and 418-423 of pv_interface_proxy.cpp take two locks in opposite orders |
| `PlayerEngine!ErrorHandlingFirst` | `SyncFaultUses` | a synchronous command has a higher priority than the error handling of AddDataSource and Init, which is then not "in top" (pv_player_engine.cpp:17074-17077); nothing completes the current command, and `SyncCallsReturn` and `CommandsComplete` fail |
| `PlayerEngine!AnswersFindTheirCommand` | an alternate format, an error event and a call of another thread | Init fails and the next format waits to be tried (pv_player_engine.cpp:12090-12099) when an error event comes (15617): a synchronous command of the same priority and a lower id is above its error handling, so that Run does not see this and goes on to the next format (1364-1416) in state Error |
| `PlayerEngine!StatusIsWritten` | two callers | both wait on iOOTSyncCommandSem (pv_player_engine.cpp:2909); the one that is woken may be the other |
| `PlayerEngine!CommandsComplete` | alternate formats with CancelAll | CancelAll while the next format waits to be tried: nothing was asked of the node, DoCancelCommandBeingProcessed (3876-3895) resets it and nobody clears iCmdToCancel (1921), so that the answer to the reset is ignored |
| `PlayerEngine!AnswersFindTheirCommand` | an unknown format with CancelAll | CancelAll while the format is recognised: when the recogniser has cancelled, RecognizeCompleted (2806-2808) resets iSourceNode, which is NULL |
| `Srp!AnyAckIsReceived` | responses without numbers | a response that comes after the repetition answers the next command (srp.cpp:1576-1597): a packet is given up that the peer does not have. NSRP and WNSRP number their responses |
| `Srp!PendingInOrder` | `WrapUses` | "in order of rx sequence number mod 256" (srp.cpp:2515-2516), but the numbers are compared as they are (2531): at the wrap-around the next packet is not at the head, nothing is passed up any more, and the transmission fails when the retries are over |
| `Srp!InOrder` | `WrapUses` | the window counts commands in flight, it is no range of numbers: while the responses to packet 1 are lost and later ones arrive, ResendBefore (srp.cpp:1498-1509) sets its counter back to one, so that it never fails; sent again after `SeqModulus` packets, it is taken for packet 1 + `SeqModulus` |
| `Srp!WindowIsPrefix` | TxWindow = 1 | WNSRP is found supported, so that the SRP timer is dropped, and an NSRP response then ends the only command in flight (srp.cpp:1537-1573) without sending the next: packets wait and no timer runs. The code's window is 5 (srp.h:88), and nothing sets another |
| `Srp!RoomForNext` | any use of WNSRP | CheckRxSeqNum takes one number more than there are fragments (srp.cpp:2603, 2609): the next packet may find no room |
| `Srp!ModesAgree` | any use of WNSRP | the first responses are lost or late: one end gives WNSRP up while the other takes it as supported (srp.cpp:446-453, 590) and is ignored |
| `CallSetup!ConnectCompletesOnce` | `LateUses` | the timer for the capabilities completes the Connect and leaves the terminal in call setup (tscmain.cpp:1293-1298); the capabilities then complete it again. common/include/tsc.h:42 says "Indicates completion of a previously issued Connect command" |
| `CallSetup!RolesSettle` | `CollidingUses`, MSD_MAX_RETRIES = 3 | the first numbers decide nothing and T106 runs out while the peer is only late: an MSDAck does not say which MSD it answers, the two determinations take the answers to each other's earlier numbers, and both terminals end as slave. The code's retry limit is 100 (msd.h:51), which makes it as unlikely as numbers that differ by 0 or 2^23 |
| `CallSetup!FailureIsFinal` | no layer in common | SessionClose_CSUP, and the handler goes on to complete the call (tsc_ce.cpp:93-118) |

The runs leave out the uses of the second column where a property would fail only for the reason
given there; `player` has no cancels together with alternate or unknown formats, and no faults or alternate formats together with threads that wait.

Also, allocate returns NULL when no chunk is free (threadsafe_mempool.cpp:160-161), where
threadsafe_mempool.h:48 says that it throws.

## Not modelled, and why

- The 32-bit wrap-around of ticks and of the sequence number (`oscl_scheduler_readyq.cpp:59,82`): planned as an
  ordering module of its own.
- UninstallScheduler and CleanupExecQ, the non-blocking scheduler, the scheduler observer:
  planned, they add a second way into the loop.
- Construction and destruction of the small classes, failures of malloc and pthread calls:
  the code's owners call them from one thread; a failed call ends the process or the scheduler.
- `USE_SEM_WAIT 0` of ThreadSafeQueue: for systems without preemption only.
- Player engine: data sinks and datapaths, Prepare, Start, Pause, Resume, Stop, repositioning, metadata,
  licences, capability queries. Their commands go through the same queue, contexts and cancels; each adds a node that is asked.
- SRP: SrpStop and a change of the multiplexer level in the call, failures of the allocators, the bytes.
- Call setup: a start with supplementary information (`TSCcomponent`), loopback detection, a failed
  multiplexer setup, TerminalCapabilitySetReject (RejectRequest is called nowhere), what happens after the call is set up.
- Codecs, parsers, file formats, graphics: pure data, no states to explore. Vendored
  libraries and scripts: not this program.

## Plan

Done, in this order: the priority queue; the scheduler with its contract and its proofs; the control
calls; the callback AO, the queue, the memory pool and the interface proxy; SRP; the call setup; the
player engine's commands; the proofs of the priority queue, the control calls, the callback AO, the queue, the memory pool, the
interface proxy, SRP, the call setup and the player engine.

Next, in this order:

1. Proofs: `InOrder` of `Srp` around the modulus without WNSRP.
2. The player engine's sinks and datapaths: Prepare, Start, Pause, Stop; `CallSetup`'s logical channels (LCSE, BLCSE).
3. `ActiveObjects`-based composition of callback AO and memory pool as the OMX decoder nodes use them
   (a pool of depth + 2 chunks, `pvmf_omx_basedec_callbacks.cpp:24-45`, `pvmf_omx_basedec_node.cpp:68-110`).
4. The comparators of the two queues with w-bit counters, against the order of unbounded ones.
5. CleanupExecQ and UninstallScheduler, the non-blocking scheduler, the observer's callback in `OsclScheduler`.
6. The flow control of two connected PVMF ports; the media clock's states; the jitter buffer.
