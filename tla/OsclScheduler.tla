--------------------------- MODULE OsclScheduler ---------------------------
(***************************************************************************)
(* The blocking OSCL scheduler of one thread (OsclExecScheduler), its      *)
(* ready queue and timer queue, the operations of the active objects (AOs) *)
(* it runs, and other threads completing requests with PendComplete.       *)
(*                                                                         *)
(* The scheduler thread alternates between user code (pc = "client":       *)
(* before StartScheduler, or inside the Run of the AO cur) and the         *)
(* scheduling loop.  A step is what happens between two points where       *)
(* another thread can interfere: a critical section of the ready queue's   *)
(* mutex iCrit, an operation on its semaphore iSem, or an unlocked test.   *)
(* iCrit is held across a step only where the code waits on iSem inside    *)
(* the critical section.                                                   *)
(*                                                                         *)
(* A queue is the set of its members; older[a] holds the members that were *)
(* queued before a, which is all the comparison functions read from the    *)
(* sequence numbers.  Times are relative to the tick counter: due[a] is    *)
(* iTimeToRunTicks - TickCount().                                          *)
(***************************************************************************)
EXTENDS Integers, FiniteSets

CONSTANTS
    Objects,       \* OsclActiveObjects
    Timers,        \* OsclTimerObjects
    Priority,      \* iAOPriority of every AO
    Remote,        \* other threads
    Shared,        \* the Objects that other threads complete
    RemoteCancel,  \* the Objects whose DoCancel leaves the completion to them
    RawBusy,       \* the Objects activated with a bare SetBusy
    Removable,     \* the AOs that are taken out of the scheduler again
    MaxDelay,      \* bound on the delay of a timer, in ticks
    MaxLate,       \* bound on how late a queued timer gets, in ticks
    NoAO           \* "no object"

AO == Objects \cup Timers

ASSUME SetsAssumption == /\ IsFiniteSet(Objects) /\ IsFiniteSet(Timers)
                         /\ Objects \cap Timers = {}
                         /\ Shared \subseteq Objects
                         /\ RemoteCancel \subseteq Shared
                         /\ RawBusy \subseteq Objects
                         /\ Removable \subseteq AO
                         /\ NoAO \notin AO
ASSUME PriorityAssumption == Priority \in [AO -> Int]
ASSUME BoundsAssumption == MaxDelay \in Nat /\ MaxLate \in Nat

VARIABLES
    open,     \* AOs whose thread context is open (iThreadContext.iOpen)
    busy,     \* AOs with iBusy
    status,   \* iStatus: "pending", "none" (completed) or "cancel"
    isIn,     \* iPVReadyQLink.iIsIn: "no", "ready" or "timer"
    readyQ,   \* members of the ready queue
    timerQ,   \* members of the timer queue
    older,    \* for a queued AO, the members that were queued before it
    due,      \* ticks until a timer is due
    sem,      \* count of the ready queue's semaphore
    pc,       \* where the scheduler thread is
    cur,      \* the AO popped or running
    target,   \* the AO a PendComplete or Cancel of the thread is about
    reason,   \* the completion status that PendComplete carries
    after,    \* what follows a Cancel: "client" or "exit" (ExitThreadContext)
    nwait,    \* semaphore waits WaitForRequestComplete has to give back
    remote    \* per remote thread, the AO it is completing, or NoAO

aoState == <<open, busy, status, isIn>>
queues == <<readyQ, timerQ, older, due, sem>>
call == <<target, reason, after, nwait>>
control == <<pc, cur, call>>
vars == <<aoState, queues, control, remote>>

Init == /\ open = {}
        /\ busy = {}
        /\ status = [a \in AO |-> "none"]
        /\ isIn = [a \in AO |-> "no"]
        /\ readyQ = {}
        /\ timerQ = {}
        /\ older = [a \in AO |-> {}]
        /\ due = [t \in Timers |-> 0]
        /\ sem = 0
        /\ pc = "client"
        /\ cur = NoAO
        /\ target = NoAO
        /\ reason = "none"
        /\ after = "client"
        /\ nwait = 0
        /\ remote = [r \in Remote |-> NoAO]
-----------------------------------------------------------------------------
(* The order of the two queues.                                            *)

(* Mutant: the last one queued is served first (PV_SCHED_FAIR_SCHEDULING 0 *)
(* has such an order).                                                     *)
ReadyBefore_LastFirst(a, b) == \/ Priority[a] > Priority[b]
                               \/ Priority[a] = Priority[b] /\ b \in older[a]

(* OsclReadyCompare: higher priority first, then the one queued first.     *)
ReadyBefore(a, b) == \/ Priority[a] > Priority[b]
                     \/ Priority[a] = Priority[b] /\ a \in older[b]

(* OsclTimerCompare: the earlier due time first, then as OsclReadyCompare. *)
TimerBefore(a, b) == \/ due[a] < due[b]
                     \/ due[a] = due[b] /\ ReadyBefore(a, b)

ReadyTop(a) == a \in readyQ /\ \A b \in readyQ \ {a} : ReadyBefore(a, b)

TimerTop(t) == t \in timerQ /\ \A u \in timerQ \ {t} : TimerBefore(t, u)

(* The age of the members once a is in no queue.                           *)
Forget(a) == [b \in AO |-> IF b = a THEN {} ELSE older[b] \ {a}]

Goto(p) == pc' = p /\ UNCHANGED <<cur, call>>

(* A wait on the semaphore of the ready queue returns.                     *)
SemWait == /\ sem > 0
           /\ sem' = sem - 1
           /\ UNCHANGED <<readyQ, timerQ, older, due>>

CritFree == pc \notin {"popsem", "removesem"}
-----------------------------------------------------------------------------
(* OsclReadyQ::PendComplete, the critical section every completion ends    *)
(* in.  It refuses an AO that is queued or has no pending request.         *)

Completable(a) == /\ isIn[a] = "no"
                  /\ a \in busy
                  /\ status[a] = "pending"

(* Mutant: the semaphore is not signalled.                                 *)
Complete_NoSignal(a, aReason) ==
    /\ isIn' = [isIn EXCEPT ![a] = "ready"]
    /\ readyQ' = readyQ \cup {a}
    /\ older' = [Forget(a) EXCEPT ![a] = readyQ]
    /\ UNCHANGED sem
    /\ status' = [status EXCEPT ![a] = aReason]

Complete(a, aReason) == /\ isIn' = [isIn EXCEPT ![a] = "ready"]
                        /\ readyQ' = readyQ \cup {a}
                        /\ older' = [Forget(a) EXCEPT ![a] = readyQ]
                        /\ sem' = sem + 1
                        /\ status' = [status EXCEPT ![a] = aReason]
-----------------------------------------------------------------------------
(* Operations of the user code on the scheduler thread.                    *)

InClient == pc = "client"

AddToScheduler(a) == /\ InClient
                     /\ a \notin open
                     /\ open' = open \cup {a}
                     /\ UNCHANGED <<busy, status, isIn, queues, control, remote>>

(* Mutant: Activate accepts an AO that is already active.                  *)
CanActivate_Busy(a) == InClient /\ a \in open

(* Activate leaves for a busy AO and for one that is not added.            *)
CanActivate(a) == InClient /\ a \in open /\ a \notin busy

(* PendForExec: SetBusy, then the status.                                  *)
Pend(a) == /\ CanActivate(a)
           /\ busy' = busy \cup {a}
           /\ status' = [status EXCEPT ![a] = "pending"]
           /\ UNCHANGED <<open, isIn, queues>>

PendForExec(a) == Pend(a) /\ UNCHANGED <<control, remote>>

SetBusy(a) == /\ CanActivate(a)
              /\ busy' = busy \cup {a}
              /\ UNCHANGED <<open, status, isIn, queues, control, remote>>

SetStatusPending(a) == /\ InClient
                       /\ a \in busy
                       /\ isIn[a] = "no"
                       /\ status' = [status EXCEPT ![a] = "pending"]
                       /\ UNCHANGED <<open, busy, isIn, queues, control, remote>>

(* The thread goes on to complete the request of a.                        *)
CompleteNext(a, aReason) == /\ pc' = "complete"
                            /\ target' = a
                            /\ reason' = aReason

PendComplete(a) == /\ InClient
                   /\ a \in open
                   /\ CompleteNext(a, "none")
                   /\ UNCHANGED <<aoState, queues, cur, after, nwait, remote>>

(* RunIfNotReady, of an object and of a timer with delay 0: another thread *)
(* may complete the request between the two calls.                         *)
RunIfNotReady(a) == /\ Pend(a)
                    /\ CompleteNext(a, "none")
                    /\ UNCHANGED <<cur, after, nwait, remote>>

(* OsclTimerObject::After and AddToExecTimerQ, which leaves for a queued   *)
(* AO; the delay is already rounded to ticks.                              *)
After(t, aDelay) ==
    /\ CanActivate(t)
    /\ isIn[t] = "no"
    /\ busy' = busy \cup {t}
    /\ status' = [status EXCEPT ![t] = "pending"]
    /\ isIn' = [isIn EXCEPT ![t] = "timer"]
    /\ timerQ' = timerQ \cup {t}
    /\ older' = [Forget(t) EXCEPT ![t] = timerQ]
    /\ due' = [due EXCEPT ![t] = aDelay]
    /\ UNCHANGED <<open, readyQ, sem, control, remote>>

(* PVActiveBase::Cancel calls DoCancel, which completes a pending request  *)
(* or leaves that to another thread; then RequestCanceled.                 *)
CancelThen(a, aAfter) ==
    /\ InClient
    /\ a \in busy
    /\ target' = a
    /\ after' = aAfter
    /\ IF status[a] = "pending" /\ a \notin RemoteCancel
       THEN pc' = "complete" /\ reason' = "cancel"
       ELSE pc' = "reqcancel" /\ UNCHANGED reason
    /\ UNCHANGED <<aoState, queues, cur, nwait, remote>>

Cancel(a) == CancelThen(a, "client")

RemoveIdle(a) == /\ InClient
                 /\ a \in open
                 /\ a \notin busy
                 /\ open' = open \ {a}
                 /\ UNCHANGED <<busy, status, isIn, queues, control, remote>>

(* RemoveFromScheduler, also called by the destructors, cancels first.     *)
RemoveFromScheduler(a) == RemoveIdle(a) \/ (a \in open /\ CancelThen(a, "exit"))

(* Run returns, or the user code calls StartScheduler.                     *)
RunReturns == /\ InClient
              /\ pc' = "update"
              /\ cur' = NoAO
              /\ UNCHANGED <<aoState, queues, call, remote>>

(* A call made by the user code left, or the user code itself leaves.      *)
RunLeaves == /\ InClient
             /\ cur # NoAO
             /\ Goto("leave")
             /\ UNCHANGED <<aoState, queues, remote>>

Client == \/ \E a \in AO : AddToScheduler(a) \/ Cancel(a)
          \/ \E a \in Objects : \/ PendForExec(a)
                                \/ PendComplete(a)
          \/ \E a \in AO : RunIfNotReady(a)
          \/ \E a \in RawBusy : SetBusy(a) \/ SetStatusPending(a)
          \/ \E t \in Timers, d \in 0 .. MaxDelay : After(t, d)
          \/ \E a \in Removable : RemoveFromScheduler(a)
-----------------------------------------------------------------------------
(* Calls that go on after the scheduler thread gave others a chance to run *)

(* OsclExecScheduler::PendComplete in the scheduler's thread: a timer is   *)
(* taken out of the timer queue first; a refused completion leaves.        *)
CompleteInThread ==
    /\ pc = "complete"
    /\ timerQ' = timerQ \ {target}
    /\ reason' = "none"
    /\ IF isIn[target] # "ready" /\ target \in busy /\ status[target] = "pending"
       THEN /\ Complete(target, reason)
            /\ IF reason = "cancel"
               THEN pc' = "reqcancel" /\ UNCHANGED <<target, after>>
               ELSE pc' = "client" /\ target' = NoAO /\ UNCHANGED after
       ELSE /\ pc' = "leave"
            /\ target' = NoAO
            /\ after' = "client"
            /\ isIn' = [isIn EXCEPT ![target] = IF @ = "timer" THEN "no" ELSE @]
            /\ older' = IF target \in timerQ THEN Forget(target) ELSE older
            /\ UNCHANGED <<readyQ, sem, status>>
    /\ UNCHANGED <<open, busy, due, cur, nwait, remote>>

(* RequestCanceled: wait for the request to complete, then take it out of  *)
(* the ready queue without running it.                                     *)
RequestCanceled ==
    /\ pc = "reqcancel"
    /\ Goto(IF isIn[target] = "ready" THEN "cancelled" ELSE "reqwait")
    /\ UNCHANGED <<aoState, queues, remote>>

(* WaitForRequestComplete: the semaphore counts every completed request,   *)
(* so a wait that ended for another AO is counted and given back later.    *)
RequestWait ==
    /\ pc = "reqwait"
    /\ SemWait
    /\ nwait' = nwait + 1
    /\ pc' = "reqcheck"
    /\ UNCHANGED <<aoState, cur, target, reason, after, remote>>

(* Mutant: the waits done for other AOs are not given back.                *)
RequestCheck_KeepWaits ==
    /\ pc = "reqcheck"
    /\ pc' = IF isIn[target] = "ready" THEN "cancelled" ELSE "reqwait"
    /\ nwait' = 0
    /\ UNCHANGED <<aoState, queues, cur, target, reason, after, remote>>

RequestCheck ==
    /\ pc = "reqcheck"
    /\ Goto(IF isIn[target] = "ready" THEN "giveback" ELSE "reqwait")
    /\ UNCHANGED <<aoState, queues, remote>>

GiveBack ==
    /\ pc = "giveback"
    /\ nwait > 0
    /\ sem' = sem + 1
    /\ nwait' = nwait - 1
    /\ pc' = IF nwait = 1 THEN "cancelled" ELSE pc
    /\ UNCHANGED <<aoState, readyQ, timerQ, older, due, cur, target, reason,
                   after, remote>>

(* The request is set idle and OsclReadyQ::Remove takes the AO out; it     *)
(* waits on the semaphore in the critical section if it found the AO.      *)
RemoveCancelled ==
    /\ pc = "cancelled"
    /\ busy' = busy \ {target}
    /\ isIn' = [isIn EXCEPT ![target] = "no"]
    /\ readyQ' = readyQ \ {target}
    /\ older' = Forget(target)
    /\ due' = [t \in Timers |-> IF t = target THEN 0 ELSE due[t]]
    /\ Goto(IF target \in readyQ THEN "removesem" ELSE "cancelend")
    /\ UNCHANGED <<open, status, timerQ, sem, remote>>

RemoveSemWait ==
    /\ pc = "removesem"
    /\ SemWait
    /\ Goto("cancelend")
    /\ UNCHANGED <<aoState, remote>>

(* Cancel returns; RemoveFromScheduler closes the AO's thread context.     *)
CancelReturns ==
    /\ pc = "cancelend"
    /\ open' = IF after = "exit" THEN open \ {target} ELSE open
    /\ pc' = "client"
    /\ target' = NoAO
    /\ after' = "client"
    /\ UNCHANGED <<busy, status, isIn, queues, cur, reason, nwait, remote>>

(* CallRunExec after a leave: RunError handles it, or Error leaves out of  *)
(* the scheduling loop into the user code around StartScheduler.           *)
RunErrorHandles ==
    /\ pc = "leave"
    /\ pc' = IF cur = NoAO THEN "client" ELSE "update"
    /\ cur' = NoAO
    /\ UNCHANGED <<aoState, queues, call, remote>>

SchedulerError ==
    /\ pc = "leave"
    /\ pc' = "client"
    /\ cur' = NoAO
    /\ UNCHANGED <<aoState, queues, call, remote>>
-----------------------------------------------------------------------------
(* The scheduling loop: BlockingLoopL and WaitForReadyAO.                  *)

(* Mutant: a timer with one tick left counts as expired.                   *)
Expired_OneEarly(t) == TimerTop(t) /\ due[t] <= 1

(* UpdateTimers completes the timers that are due at the tick count it     *)
(* read when it began; here the clock stands still until it is through.    *)
Expired(t) == TimerTop(t) /\ due[t] <= 0

UpdateTimer(t) ==
    /\ pc = "update"
    /\ Expired(t)
    /\ t \in busy /\ status[t] = "pending"
    /\ timerQ' = timerQ \ {t}
    /\ Complete(t, "none")
    /\ UNCHANGED <<open, busy, due, control, remote>>

(* Mutant: timers that are due are not moved while AOs are ready.          *)
TimersUpdated_WhenReady ==
    /\ pc = "update"
    /\ readyQ # {} \/ \A t \in timerQ : ~Expired(t)
    /\ Goto("poptop")
    /\ UNCHANGED <<aoState, queues, remote>>

TimersUpdated ==
    /\ pc = "update"
    /\ \A t \in timerQ : ~Expired(t)
    /\ Goto("poptop")
    /\ UNCHANGED <<aoState, queues, remote>>

(* The critical section of PopTop and of PopTopAfterWait.                  *)
PopReady(a) == /\ ReadyTop(a)
               /\ readyQ' = readyQ \ {a}
               /\ isIn' = [isIn EXCEPT ![a] = "no"]
               /\ older' = Forget(a)
               /\ cur' = a
               /\ UNCHANGED <<open, busy, status, timerQ, due, sem, call, remote>>

PopTop == \/ /\ pc = "poptop"
             /\ pc' = "popsem"
             /\ \E a \in readyQ : PopReady(a)
          \/ /\ pc = "poptop"
             /\ readyQ = {}
             /\ Goto(IF timerQ = {} THEN "wait" ELSE "timedwait")
             /\ UNCHANGED <<aoState, queues, remote>>

PopSemWait ==
    /\ pc = "popsem"
    /\ SemWait
    /\ Goto("dispatch")
    /\ UNCHANGED <<aoState, remote>>

WaitAndPopTop ==
    /\ pc \in {"wait", "timedwait"}
    /\ SemWait
    /\ Goto("afterwait")
    /\ UNCHANGED <<aoState, remote>>

PopTopAfterWait ==
    /\ pc = "afterwait"
    /\ pc' = "dispatch"
    /\ \E a \in readyQ : PopReady(a)

(* The timed wait may end by the timeout although the semaphore was        *)
(* signalled at the same time; the timer then runs straight from the top   *)
(* of the timer queue.                                                     *)
Timeout(t) ==
    /\ pc = "timedwait"
    /\ Expired(t)
    /\ status' = [status EXCEPT ![t] = "none"]
    /\ isIn' = [isIn EXCEPT ![t] = "no"]
    /\ timerQ' = timerQ \ {t}
    /\ older' = Forget(t)
    /\ cur' = t
    /\ pc' = "dispatch"
    /\ UNCHANGED <<open, busy, readyQ, due, sem, call, remote>>

(* Mutant: the AO is still active inside its Run.                          *)
CallRunExec_StaysBusy ==
    /\ pc = "dispatch"
    /\ due' = [t \in Timers |-> IF t = cur THEN 0 ELSE due[t]]
    /\ Goto("client")
    /\ UNCHANGED <<aoState, readyQ, timerQ, older, sem, remote>>

(* CallRunExec: the AO is set inactive and its Run is called.              *)
CallRunExec ==
    /\ pc = "dispatch"
    /\ busy' = busy \ {cur}
    /\ due' = [t \in Timers |-> IF t = cur THEN 0 ELSE due[t]]
    /\ Goto("client")
    /\ UNCHANGED <<open, status, isIn, readyQ, timerQ, older, sem, remote>>

Loop == \/ TimersUpdated
        \/ PopTop
        \/ PopSemWait
        \/ WaitAndPopTop
        \/ PopTopAfterWait
        \/ CallRunExec
        \/ \E t \in Timers : UpdateTimer(t) \/ Timeout(t)

Pending == \/ CompleteInThread
           \/ RequestCanceled
           \/ RequestWait
           \/ RequestCheck
           \/ GiveBack
           \/ RemoveCancelled
           \/ RemoveSemWait
           \/ CancelReturns
           \/ RunErrorHandles
           \/ SchedulerError
-----------------------------------------------------------------------------
(* Other threads and the clock.                                            *)

(* PVThreadContext::PendComplete tests iOpen and later uses iScheduler,    *)
(* both without a lock; if the scheduler pointer was cleared in between    *)
(* the call goes through a null pointer, after which nothing is modelled.  *)
RemotePendComplete(r, a) ==
    /\ remote[r] = NoAO
    /\ a \in open
    /\ remote' = [remote EXCEPT ![r] = a]
    /\ UNCHANGED <<aoState, queues, control>>

RemoteCompletes(r) ==
    /\ remote[r] \in open
    /\ CritFree
    /\ remote' = [remote EXCEPT ![r] = NoAO]
    /\ IF Completable(remote[r])
       THEN Complete(remote[r], "none")
       ELSE UNCHANGED <<isIn, readyQ, older, sem, status>>
    /\ UNCHANGED <<open, busy, timerQ, due, control>>

RemoteThread(r) == RemoteCompletes(r) \/ \E a \in Shared : RemotePendComplete(r, a)

(* The bound MaxLate holds the clock while a timer is that late.           *)
Tick == /\ timerQ # {}
        /\ pc # "update"
        /\ \A t \in timerQ : due[t] > -MaxLate
        /\ due' = [t \in Timers |-> IF t \in timerQ THEN due[t] - 1 ELSE due[t]]
        /\ UNCHANGED <<aoState, readyQ, timerQ, older, sem, control, remote>>
-----------------------------------------------------------------------------
Next == \/ Client
        \/ RunReturns
        \/ RunLeaves
        \/ Pending
        \/ Loop
        \/ \E r \in Remote : RemoteThread(r)
        \/ Tick

Spec == Init /\ [][Next]_vars

(* Fairness.  The loop and the calls are straight-line code.  A Run is     *)
(* finite, but it may call Cancel, which blocks: it returns if again and   *)
(* again it can.  Another thread finishes a completion it began, and the   *)
(* one a DoCancel relies on does complete the request, as DoCancel's       *)
(* contract demands.  Time goes on, also while the loop never pauses.      *)
Fairness == /\ WF_vars(Loop)
            /\ WF_vars(Pending)
            /\ SF_vars(RunReturns)
            /\ \A r \in Remote : WF_vars(RemoteCompletes(r))
            /\ \A a \in RemoteCancel :
                  SF_vars(\E r \in Remote : RemotePendComplete(r, a))
            /\ SF_vars(Tick)

FairSpec == Spec /\ Fairness
-----------------------------------------------------------------------------
TypeOK == /\ open \subseteq AO
          /\ busy \subseteq AO
          /\ status \in [AO -> {"pending", "none", "cancel"}]
          /\ isIn \in [AO -> {"no", "ready", "timer"}]
          /\ readyQ \subseteq AO
          /\ timerQ \subseteq Timers
          /\ older \in [AO -> SUBSET AO]
          /\ due \in [Timers -> -MaxLate .. MaxDelay]
          /\ sem \in Nat
          /\ pc \in {"client", "complete", "reqcancel", "reqwait", "reqcheck",
                     "giveback", "cancelled", "removesem", "cancelend", "leave",
                     "update", "poptop", "popsem", "wait", "timedwait",
                     "afterwait", "dispatch"}
          /\ cur \in AO \cup {NoAO}
          /\ target \in AO \cup {NoAO}
          /\ pc \in {"complete", "reqcancel", "reqcheck"} \cup
                   {"reqwait", "giveback", "cancelled"} => target \in AO
          /\ reason \in {"none", "cancel"}
          /\ after \in {"client", "exit"}
          /\ nwait \in Nat
          /\ remote \in [Remote -> AO \cup {NoAO}]

(* The semaphore counts the ready queue, up to the waits the scheduler     *)
(* thread did before it takes an element out (WaitAndPopTop, and the waits *)
(* WaitForRequestComplete gives back) or still has to do for an element it *)
(* took out (PopTop and Remove).                                           *)
Owed == nwait + (IF pc = "afterwait" THEN 1 ELSE 0)

TakenOut == IF pc \in {"popsem", "removesem"} THEN 1 ELSE 0

SemCountsReady == sem + Owed = Cardinality(readyQ) + TakenOut

(* The assertion of PopTopAfterWait, "there should always be an element    *)
(* available after a sem wait", and the comment of PopTop and Remove, that *)
(* their sem wait in the critical section "won't block".                   *)
WaitsAreBacked == /\ pc = "afterwait" => readyQ # {}
                  /\ pc \in {"popsem", "removesem"} => sem > 0

(* The link of every AO names the queue it is in: an AO is in at most one  *)
(* queue, and IsInAnyQ, tested by every completion, is never stale.        *)
LinksMatchQueues == \A a \in AO : /\ isIn[a] = "ready" <=> a \in readyQ
                                  /\ isIn[a] = "timer" <=> a \in timerQ

(* Only an active request is queued: a timer waits with a pending request, *)
(* so UpdateTimers can always complete it, and whatever is in the ready    *)
(* queue is completed, so the loop never runs a request that was idle.     *)
QueuedAreActive == /\ readyQ \cup timerQ \subseteq busy
                   /\ \A t \in timerQ : status[t] = "pending"
                   /\ \A a \in readyQ : status[a] # "pending"

(* The sort keys put both queues in a total order, so top() is well        *)
(* defined and every element gets its turn.                                *)
OrderedBy(Q, age) ==
    \A a, b \in Q : /\ age[a] \subseteq Q \ {a}
                    /\ a # b => (a \in age[b] <=> b \notin age[a])

QueuesAreOrdered == OrderedBy(readyQ, older) /\ OrderedBy(timerQ, older)

(* A timer never runs before its delay has passed.                         *)
TimersAreNotEarly == pc = "dispatch" /\ cur \in Timers => due[cur] <= 0

(* WaitForRequestComplete "restores the request semaphore value": no wait  *)
(* it did for another AO is still owed when Cancel goes on, and the AO it  *)
(* goes on with is one it found in the ready queue.                        *)
CancelGivesBack ==
    /\ nwait # 0 => pc \in {"reqwait", "reqcheck", "giveback"}
    /\ pc \in {"reqcheck", "giveback"} => nwait # 0
    /\ pc \in {"giveback", "cancelled"} => target \in readyQ

Popped == pc \in {"popsem", "dispatch"}

(* The AO taken out of a queue to be run is still active, and completed,   *)
(* so that no other thread can queue it again before its Run; the loop     *)
(* looks for the next AO only when no AO is inside its Run.                *)
PoppedIsActive ==
    /\ Popped => cur \in busy /\ isIn[cur] = "no" /\ status[cur] # "pending"
    /\ pc \in {"update", "poptop", "wait", "timedwait", "afterwait"} => cur = NoAO

(* Only a timer that waits in its queue, or one that is being cancelled,   *)
(* has time left.                                                          *)
TimersAreDue ==
    /\ \A t \in Timers \ timerQ :
          due[t] > 0 => /\ pc \in {"reqcancel", "cancelled"}
                        /\ t = target
                        /\ t \in readyQ
    /\ pc = "complete" /\ target \in timerQ => reason = "cancel"

IInv == /\ TypeOK
        /\ SemCountsReady
        /\ LinksMatchQueues
        /\ QueuedAreActive
        /\ QueuesAreOrdered
        /\ CancelGivesBack
        /\ PoppedIsActive
        /\ TimersAreDue

ReqOf == [a \in AO |-> IF a \notin busy THEN "idle"
                       ELSE IF a \in readyQ \/ (Popped /\ a = cur) THEN "ready"
                       ELSE "pending"]

Running == IF Popped THEN NoAO ELSE cur

Requests == INSTANCE ActiveObjects WITH req <- ReqOf, running <- Running

(* AOs that were cancelled or never activated do not run, requests are     *)
(* run once, one at a time: the scheduler implements ActiveObjects.        *)
RequestsRunOnce == Requests!Spec

(* Where a Cancel that the user code began waits for the request.         *)
Cancelling == \/ pc = "complete" /\ reason = "cancel"
              \/ pc \in {"reqcancel", "reqwait", "reqcheck", "giveback"}

(* A Cancel ends, with the request idle and out of the queues, also when   *)
(* another thread completes the request.                                   *)
CancelsEnd == Cancelling ~> pc \in {"cancelend", "leave"}

(* The scheduler is fair among the AOs of the highest priority: one of     *)
(* them that is ready leaves the ready queue, and a timer of that priority *)
(* leaves the timer queue.                                                 *)
Highest(a) == \A b \in AO : Priority[b] <= Priority[a]

ReadyRuns == \A a \in AO : Highest(a) /\ isIn[a] = "ready" ~> isIn[a] # "ready"

TimersExpire == \A t \in Timers : Highest(t) /\ isIn[t] = "timer" ~> isIn[t] # "timer"

-----------------------------------------------------------------------------
(* What the headers say and the code does not keep: the formulas below are *)
(* violated, see the README.                                               *)

(* "If the execution object is readied ... wait for the request to cancel, *)
(* then set the request idle": a Cancel that the user code began returns   *)
(* normally and never leaves.                                              *)
CancelDoesNotLeave ==
    [][~(pc = "complete" /\ reason = "cancel" /\ pc' = "leave")]_vars

(* "Set object ready for this AO, additionally sets the request status to  *)
(* OSCL_REQUEST_PENDING": what the header says of SetBusy.                 *)
SetBusyPends == [][\A a \in AO : a \in busy' \ busy => status'[a] # "none"]_vars

(* A thread that tested that the AO is added completes it in a scheduler   *)
(* that is still there.                                                    *)
SchedulerIsThere == \A r \in Remote : remote[r] # NoAO => remote[r] \in open
=============================================================================
