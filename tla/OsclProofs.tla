----------------------------- MODULE OsclProofs -----------------------------
(***************************************************************************)
(* Theorems about OsclScheduler and OsclPriQueue.                          *)
(*                                                                         *)
(* The safety properties of OsclScheduler hold for every set of objects,   *)
(* timers and threads, every priority and every bound on the clock.  Their *)
(* inductive invariant is IInv.  The account of the semaphore              *)
(* (SemCountsReady) needs to know that an AO which is completed is not in  *)
(* the ready queue yet (LinksMatchQueues), that the waits of a Cancel are  *)
(* given back before anything is removed (CancelGivesBack); links need the *)
(* activity of queued and popped AOs (QueuedAreActive, PoppedIsActive).    *)
(*                                                                         *)
(* OsclPriQueue implements PriorityQueue for every set of elements and     *)
(* every bound on the vector, as long as remove, which repairs only part   *)
(* of the heap, is called on at most five elements or for the greatest     *)
(* one.  The inductive invariant is HeapIInv: which elements are in order  *)
(* while another one moves up or down.                                     *)
(***************************************************************************)
EXTENDS OsclScheduler, OsclPriQueue, FiniteSetTheorems, WellFoundedInduction, TLAPS

-----------------------------------------------------------------------------
(* Lemmas about the operators of the queues.                               *)

(* Forgetting an AO keeps the type of older.                               *)
LEMMA ForgetType ==
    ASSUME TypeOK, NEW a
    PROVE  Forget(a) \in [AO -> SUBSET AO]
BY DEF Forget, TypeOK

(* Completing the request of an AO keeps the types.                        *)
LEMMA CompleteType ==
    ASSUME TypeOK, NEW a \in AO, NEW s \in {"none", "cancel"}, Complete(a, s)
    PROVE  /\ status' \in [AO -> {"pending", "none", "cancel"}]
           /\ isIn' \in [AO -> {"no", "ready", "timer"}]
           /\ readyQ' \subseteq AO
           /\ older' \in [AO -> SUBSET AO]
           /\ sem' \in Nat
BY ForgetType DEF Complete, TypeOK

(* An element that joins a queue as the youngest keeps the queue ordered.  *)
LEMMA AddedIsYoungest ==
    ASSUME NEW Q, NEW age, NEW new, NEW a, a \notin Q, OrderedBy(Q, age),
           new[a] = Q, \A b \in Q : new[b] = age[b] \ {a}
    PROVE  OrderedBy(Q \cup {a}, new)
<1> SUFFICES ASSUME NEW x \in Q \cup {a}, NEW y \in Q \cup {a}
             PROVE  /\ new[x] \subseteq (Q \cup {a}) \ {x}
                    /\ x # y => (x \in new[y] <=> y \notin new[x])
    BY DEF OrderedBy
<1>1. CASE x = a
    BY <1>1 DEF OrderedBy
<1>2. CASE x \in Q
    BY <1>2 DEF OrderedBy
<1> QED
    BY <1>1, <1>2

(* Taking an element out of a queue keeps the queue ordered.               *)
LEMMA RemovedLeavesOrder ==
    ASSUME NEW Q, NEW age, NEW new, NEW a, OrderedBy(Q, age),
           \A b \in Q \ {a} : new[b] = age[b] \ {a}
    PROVE  OrderedBy(Q \ {a}, new)
BY DEF OrderedBy

(* Moving an AO from outside, or from the timer queue, to the ready queue  *)
(* keeps both queues ordered.                                              *)
LEMMA CompleteOrder ==
    ASSUME TypeOK, QueuesAreOrdered, LinksMatchQueues,
           NEW a \in AO, NEW s, isIn[a] # "ready", Complete(a, s),
           timerQ' = timerQ \ {a}
    PROVE  QueuesAreOrdered'
<1>1. a \notin readyQ
    BY DEF LinksMatchQueues
<1>2. \A b \in AO : older'[b] = IF b = a THEN readyQ ELSE older[b] \ {a}
    BY DEF Complete, Forget, TypeOK
<1>3. readyQ' = readyQ \cup {a} /\ readyQ \subseteq AO /\ timerQ \subseteq AO
    BY DEF Complete, TypeOK, AO
<1>4. OrderedBy(readyQ', older')
    <2>1. older'[a] = readyQ /\ \A b \in readyQ : older'[b] = older[b] \ {a}
        BY <1>1, <1>2, <1>3
    <2>2. OrderedBy(readyQ \cup {a}, older')
        BY <1>1, <2>1, AddedIsYoungest DEF QueuesAreOrdered
    <2> QED
        BY <1>3, <2>2
<1>5. OrderedBy(timerQ', older')
    BY <1>2, <1>3, RemovedLeavesOrder DEF QueuesAreOrdered
<1> QED
    BY <1>4, <1>5 DEF QueuesAreOrdered

(* The ready queue is finite, and its size moves by one.                   *)
LEMMA FiniteQueue ==
    ASSUME TypeOK
    PROVE  IsFiniteSet(readyQ) /\ Cardinality(readyQ) \in Nat
BY SetsAssumption, FS_Union, FS_Subset, FS_CardinalityType DEF TypeOK, AO

LEMMA CountAdded ==
    ASSUME TypeOK, NEW a, a \notin readyQ
    PROVE  /\ Cardinality(readyQ \cup {a}) = Cardinality(readyQ) + 1
           /\ Cardinality(readyQ) \in Nat
BY FiniteQueue, FS_AddElement

LEMMA CountRemoved ==
    ASSUME TypeOK, NEW a \in readyQ
    PROVE  /\ Cardinality(readyQ \ {a}) = Cardinality(readyQ) - 1
           /\ Cardinality(readyQ) \in Nat
BY FiniteQueue, FS_RemoveElement
-----------------------------------------------------------------------------
(* One lemma per part of the invariant, one step per action.               *)


(* Every step keeps the types.                                            *)
LEMMA TypeOKStep == TypeOK /\ [Next]_vars => TypeOK'
<1> USE SetsAssumption, BoundsAssumption DEF AO, aoState, queues, control,
        call, TypeOK
<1> SUFFICES ASSUME TypeOK, [Next]_vars PROVE TypeOK'
    OBVIOUS
<1>1. ASSUME NEW a \in AO, AddToScheduler(a) \/ Cancel(a) \/
             RemoveFromScheduler(a) \/ RunIfNotReady(a)
      PROVE  TypeOK'
    BY <1>1 DEF AddToScheduler, InClient, Cancel, CancelThen,
        RemoveFromScheduler, RemoveIdle, RunIfNotReady, Pend, CanActivate,
        CompleteNext
<1>2. ASSUME NEW a \in Objects, PendComplete(a) \/ PendForExec(a) \/ SetBusy(a)
             \/ SetStatusPending(a)
      PROVE  TypeOK'
    BY <1>2 DEF PendComplete, CompleteNext, InClient, PendForExec, Pend,
        CanActivate, SetBusy, SetStatusPending
<1>3. ASSUME NEW t \in Timers, NEW d \in 0 .. MaxDelay, After(t, d)
      PROVE  TypeOK'
    BY <1>3 DEF After, CanActivate, Forget, InClient
<1>4. CASE RunReturns \/ RunLeaves \/ RunErrorHandles \/ SchedulerError \/
          CancelReturns \/ TimersUpdated
    BY <1>4 DEF RunReturns, InClient, RunLeaves, Goto, RunErrorHandles,
        SchedulerError, CancelReturns, TimersUpdated
<1>5. CASE RequestCanceled \/ RequestCheck \/ RequestWait \/ GiveBack
    BY <1>5 DEF RequestCanceled, Goto, RequestCheck, RequestWait, SemWait,
        GiveBack
<1>6. CASE RemoveSemWait \/ PopSemWait \/ WaitAndPopTop
    BY <1>6 DEF RemoveSemWait, SemWait, Goto, PopSemWait, WaitAndPopTop
<1>7. CASE CompleteInThread
    <2>1. CASE isIn[target] # "ready" /\ target \in busy /\ status[target] = "pending"
        <3>1. target \in AO /\ reason \in {"none", "cancel"} /\ Complete(target, reason)
            BY <1>7, <2>1 DEF CompleteInThread
        <3> QED BY <1>7, <2>1, <3>1, CompleteType DEF CompleteInThread
    <2>2. CASE ~(isIn[target] # "ready" /\ target \in busy /\ status[target] = "pending")
        BY <1>7, <2>2, ForgetType DEF CompleteInThread
    <2> QED BY <2>1, <2>2
<1>8. CASE RemoveCancelled
    <2>1. older' \in [AO -> SUBSET AO]
        BY <1>8, ForgetType DEF RemoveCancelled
    <2>2. due' \in [Timers -> -MaxLate .. MaxDelay]
        BY <1>8 DEF RemoveCancelled
    <2>3. pc' \in {"removesem", "cancelend"} /\ UNCHANGED <<cur, call>>
        BY <1>8 DEF RemoveCancelled, Goto
    <2>4. isIn' \in [AO -> {"no", "ready", "timer"}]
        BY <1>8 DEF RemoveCancelled
    <2> QED BY <1>8, <2>1, <2>2, <2>3, <2>4 DEF RemoveCancelled
<1>9. CASE PopTop
    BY <1>9 DEF PopTop, PopReady, ReadyTop, Forget, Goto
<1>10. CASE PopTopAfterWait
    BY <1>10 DEF PopTopAfterWait, PopReady, ReadyTop, Forget
<1>11. CASE CallRunExec
    BY <1>11 DEF CallRunExec, Goto
<1>12. ASSUME NEW t \in Timers, UpdateTimer(t)
      PROVE  TypeOK'
    BY <1>12 DEF UpdateTimer, Expired, TimerTop, Complete, Forget
<1>13. ASSUME NEW t \in Timers, Timeout(t)
      PROVE  TypeOK'
    BY <1>13 DEF Timeout, Expired, TimerTop, Forget
<1>14. ASSUME NEW r \in Remote, RemoteCompletes(r)
      PROVE  TypeOK'
    <2>1. CASE Completable(remote[r])
        BY <1>14, <2>1, CompleteType DEF RemoteCompletes, Completable
    <2>2. CASE ~Completable(remote[r])
        BY <1>14, <2>2 DEF RemoteCompletes
    <2> QED BY <2>1, <2>2
<1>15. ASSUME NEW r \in Remote, NEW a \in Shared, RemotePendComplete(r, a)
      PROVE  TypeOK'
    BY <1>15 DEF RemotePendComplete
<1>16. CASE Tick \/ UNCHANGED vars
    BY <1>16 DEF Tick, vars
<1> QED
    BY <1>1, <1>2, <1>3, <1>4, <1>5, <1>6, <1>7, <1>8, <1>9, <1>10, <1>11,
       <1>12, <1>13, <1>14, <1>15, <1>16
    DEF Next, Client, Pending, Loop, RemoteThread

(* A link changes together with the queue it names.                       *)
LEMMA LinksStep == IInv /\ [Next]_vars => LinksMatchQueues'
<1> USE SetsAssumption, BoundsAssumption DEF AO, aoState, queues, control,
        call, IInv, TypeOK, LinksMatchQueues, CancelGivesBack
<1> SUFFICES ASSUME IInv, [Next]_vars PROVE LinksMatchQueues'
    OBVIOUS
<1>1. ASSUME NEW a \in AO, AddToScheduler(a) \/ Cancel(a) \/
             RemoveFromScheduler(a) \/ RunIfNotReady(a)
      PROVE  LinksMatchQueues'
    BY <1>1 DEF AddToScheduler, InClient, Cancel, CancelThen,
        RemoveFromScheduler, RemoveIdle, RunIfNotReady, Pend, CanActivate,
        CompleteNext
<1>2. ASSUME NEW a \in Objects, PendComplete(a) \/ PendForExec(a) \/ SetBusy(a)
             \/ SetStatusPending(a)
      PROVE  LinksMatchQueues'
    BY <1>2 DEF PendComplete, CompleteNext, InClient, PendForExec, Pend,
        CanActivate, SetBusy, SetStatusPending
<1>3. ASSUME NEW t \in Timers, NEW d \in 0 .. MaxDelay, After(t, d)
      PROVE  LinksMatchQueues'
    BY <1>3 DEF After, CanActivate, Forget, InClient
<1>4. CASE RunReturns \/ RunLeaves \/ RunErrorHandles \/ SchedulerError \/
          CancelReturns \/ TimersUpdated
    BY <1>4 DEF RunReturns, InClient, RunLeaves, Goto, RunErrorHandles,
        SchedulerError, CancelReturns, TimersUpdated
<1>5. CASE RequestCanceled \/ RequestCheck \/ RequestWait \/ GiveBack
    BY <1>5 DEF RequestCanceled, Goto, RequestCheck, RequestWait, SemWait,
        GiveBack
<1>6. CASE RemoveSemWait \/ PopSemWait \/ WaitAndPopTop
    BY <1>6 DEF RemoveSemWait, SemWait, Goto, PopSemWait, WaitAndPopTop
<1>7. CASE CompleteInThread
    BY <1>7 DEF CompleteInThread, Complete, Forget
<1>8. CASE RemoveCancelled
    BY <1>8 DEF RemoveCancelled, Forget, Goto
<1>9. CASE PopTop
    BY <1>9 DEF PopTop, PopReady, ReadyTop, Forget, Goto
<1>10. CASE PopTopAfterWait
    BY <1>10 DEF PopTopAfterWait, PopReady, ReadyTop, Forget
<1>11. CASE CallRunExec
    BY <1>11 DEF CallRunExec, Goto
<1>12. ASSUME NEW t \in Timers, UpdateTimer(t)
      PROVE  LinksMatchQueues'
    BY <1>12 DEF UpdateTimer, Expired, TimerTop, Complete, Forget
<1>13. ASSUME NEW t \in Timers, Timeout(t)
      PROVE  LinksMatchQueues'
    BY <1>13 DEF Timeout, Expired, TimerTop, Forget
<1>14. ASSUME NEW r \in Remote, RemoteCompletes(r)
      PROVE  LinksMatchQueues'
    BY <1>14 DEF RemoteCompletes, Completable, Complete, Forget, CritFree
<1>15. ASSUME NEW r \in Remote, NEW a \in Shared, RemotePendComplete(r, a)
      PROVE  LinksMatchQueues'
    BY <1>15 DEF RemotePendComplete
<1>16. CASE Tick \/ UNCHANGED vars
    BY <1>16 DEF Tick, vars
<1> QED
    BY <1>1, <1>2, <1>3, <1>4, <1>5, <1>6, <1>7, <1>8, <1>9, <1>10, <1>11,
       <1>12, <1>13, <1>14, <1>15, <1>16
    DEF Next, Client, Pending, Loop, RemoteThread

(* Queued requests stay active: the AO taken out to run is completed, so   *)
(* nobody queues it again before CallRunExec clears iBusy.                 *)
LEMMA ActiveStep == IInv /\ [Next]_vars => QueuedAreActive'
<1> USE SetsAssumption, BoundsAssumption DEF AO, aoState, queues, control,
        call, IInv, TypeOK, LinksMatchQueues, QueuedAreActive,
        PoppedIsActive, Popped, CancelGivesBack
<1> SUFFICES ASSUME IInv, [Next]_vars PROVE QueuedAreActive'
    OBVIOUS
<1>1. ASSUME NEW a \in AO, AddToScheduler(a) \/ Cancel(a) \/
             RemoveFromScheduler(a) \/ RunIfNotReady(a)
      PROVE  QueuedAreActive'
    BY <1>1 DEF AddToScheduler, InClient, Cancel, CancelThen,
        RemoveFromScheduler, RemoveIdle, RunIfNotReady, Pend, CanActivate,
        CompleteNext
<1>2. ASSUME NEW a \in Objects, PendComplete(a) \/ PendForExec(a) \/ SetBusy(a)
             \/ SetStatusPending(a)
      PROVE  QueuedAreActive'
    BY <1>2 DEF PendComplete, CompleteNext, InClient, PendForExec, Pend,
        CanActivate, SetBusy, SetStatusPending
<1>3. ASSUME NEW t \in Timers, NEW d \in 0 .. MaxDelay, After(t, d)
      PROVE  QueuedAreActive'
    BY <1>3 DEF After, CanActivate, Forget, InClient
<1>4. CASE RunReturns \/ RunLeaves \/ RunErrorHandles \/ SchedulerError \/
          CancelReturns \/ TimersUpdated
    BY <1>4 DEF RunReturns, InClient, RunLeaves, Goto, RunErrorHandles,
        SchedulerError, CancelReturns, TimersUpdated
<1>5. CASE RequestCanceled \/ RequestCheck \/ RequestWait \/ GiveBack
    BY <1>5 DEF RequestCanceled, Goto, RequestCheck, RequestWait, SemWait,
        GiveBack
<1>6. CASE RemoveSemWait \/ PopSemWait \/ WaitAndPopTop
    BY <1>6 DEF RemoveSemWait, SemWait, Goto, PopSemWait, WaitAndPopTop
<1>7. CASE CompleteInThread
    BY <1>7 DEF CompleteInThread, Complete, Forget
<1>8. CASE RemoveCancelled
    BY <1>8 DEF RemoveCancelled, Forget, Goto
<1>9. CASE PopTop
    BY <1>9 DEF PopTop, PopReady, ReadyTop, Forget, Goto
<1>10. CASE PopTopAfterWait
    BY <1>10 DEF PopTopAfterWait, PopReady, ReadyTop, Forget
<1>11. CASE CallRunExec
    BY <1>11 DEF CallRunExec, Goto
<1>12. ASSUME NEW t \in Timers, UpdateTimer(t)
      PROVE  QueuedAreActive'
    BY <1>12 DEF UpdateTimer, Expired, TimerTop, Complete, Forget
<1>13. ASSUME NEW t \in Timers, Timeout(t)
      PROVE  QueuedAreActive'
    BY <1>13 DEF Timeout, Expired, TimerTop, Forget
<1>14. ASSUME NEW r \in Remote, RemoteCompletes(r)
      PROVE  QueuedAreActive'
    BY <1>14 DEF RemoteCompletes, Completable, Complete, Forget, CritFree
<1>15. ASSUME NEW r \in Remote, NEW a \in Shared, RemotePendComplete(r, a)
      PROVE  QueuedAreActive'
    BY <1>15 DEF RemotePendComplete
<1>16. CASE Tick \/ UNCHANGED vars
    BY <1>16 DEF Tick, vars
<1> QED
    BY <1>1, <1>2, <1>3, <1>4, <1>5, <1>6, <1>7, <1>8, <1>9, <1>10, <1>11,
       <1>12, <1>13, <1>14, <1>15, <1>16
    DEF Next, Client, Pending, Loop, RemoteThread

(* A cancelled request that was found ready stays in the queue: the only   *)
(* other steps meanwhile are completions by other threads, and the clock.  *)
LEMMA CancelStep == IInv /\ [Next]_vars => CancelGivesBack'
<1> USE SetsAssumption, BoundsAssumption DEF AO, aoState, queues, control,
        call, IInv, TypeOK, LinksMatchQueues, CancelGivesBack
<1> SUFFICES ASSUME IInv, [Next]_vars PROVE CancelGivesBack'
    OBVIOUS
<1>1. ASSUME NEW a \in AO, AddToScheduler(a) \/ Cancel(a) \/
             RemoveFromScheduler(a) \/ RunIfNotReady(a)
      PROVE  CancelGivesBack'
    BY <1>1 DEF AddToScheduler, InClient, Cancel, CancelThen,
        RemoveFromScheduler, RemoveIdle, RunIfNotReady, Pend, CanActivate,
        CompleteNext
<1>2. ASSUME NEW a \in Objects, PendComplete(a) \/ PendForExec(a) \/ SetBusy(a)
             \/ SetStatusPending(a)
      PROVE  CancelGivesBack'
    BY <1>2 DEF PendComplete, CompleteNext, InClient, PendForExec, Pend,
        CanActivate, SetBusy, SetStatusPending
<1>3. ASSUME NEW t \in Timers, NEW d \in 0 .. MaxDelay, After(t, d)
      PROVE  CancelGivesBack'
    BY <1>3 DEF After, CanActivate, Forget, InClient
<1>4. CASE RunReturns \/ RunLeaves \/ RunErrorHandles \/ SchedulerError \/
          CancelReturns \/ TimersUpdated
    BY <1>4 DEF RunReturns, InClient, RunLeaves, Goto, RunErrorHandles,
        SchedulerError, CancelReturns, TimersUpdated
<1>5. CASE RequestCanceled \/ RequestCheck \/ RequestWait \/ GiveBack
    BY <1>5 DEF RequestCanceled, Goto, RequestCheck, RequestWait, SemWait,
        GiveBack
<1>6. CASE RemoveSemWait \/ PopSemWait \/ WaitAndPopTop
    BY <1>6 DEF RemoveSemWait, SemWait, Goto, PopSemWait, WaitAndPopTop
<1>7. CASE CompleteInThread
    BY <1>7 DEF CompleteInThread, Complete, Forget
<1>8. CASE RemoveCancelled
    BY <1>8 DEF RemoveCancelled, Forget, Goto
<1>9. CASE PopTop
    BY <1>9 DEF PopTop, PopReady, ReadyTop, Forget, Goto
<1>10. CASE PopTopAfterWait
    BY <1>10 DEF PopTopAfterWait, PopReady, ReadyTop, Forget
<1>11. CASE CallRunExec
    BY <1>11 DEF CallRunExec, Goto
<1>12. ASSUME NEW t \in Timers, UpdateTimer(t)
      PROVE  CancelGivesBack'
    BY <1>12 DEF UpdateTimer, Expired, TimerTop, Complete, Forget
<1>13. ASSUME NEW t \in Timers, Timeout(t)
      PROVE  CancelGivesBack'
    BY <1>13 DEF Timeout, Expired, TimerTop, Forget
<1>14. ASSUME NEW r \in Remote, RemoteCompletes(r)
      PROVE  CancelGivesBack'
    BY <1>14 DEF RemoteCompletes, Completable, Complete, Forget, CritFree
<1>15. ASSUME NEW r \in Remote, NEW a \in Shared, RemotePendComplete(r, a)
      PROVE  CancelGivesBack'
    BY <1>15 DEF RemotePendComplete
<1>16. CASE Tick \/ UNCHANGED vars
    BY <1>16 DEF Tick, vars
<1> QED
    BY <1>1, <1>2, <1>3, <1>4, <1>5, <1>6, <1>7, <1>8, <1>9, <1>10, <1>11,
       <1>12, <1>13, <1>14, <1>15, <1>16
    DEF Next, Client, Pending, Loop, RemoteThread

(* What PopTop or the timeout takes out is active, and out of the queues.  *)
LEMMA PoppedStep == IInv /\ [Next]_vars => PoppedIsActive'
<1> USE SetsAssumption, BoundsAssumption DEF AO, aoState, queues, control,
        call, IInv, TypeOK, LinksMatchQueues, QueuedAreActive,
        PoppedIsActive, Popped
<1> SUFFICES ASSUME IInv, [Next]_vars PROVE PoppedIsActive'
    OBVIOUS
<1>1. ASSUME NEW a \in AO, AddToScheduler(a) \/ Cancel(a) \/
             RemoveFromScheduler(a) \/ RunIfNotReady(a)
      PROVE  PoppedIsActive'
    BY <1>1 DEF AddToScheduler, InClient, Cancel, CancelThen,
        RemoveFromScheduler, RemoveIdle, RunIfNotReady, Pend, CanActivate,
        CompleteNext
<1>2. ASSUME NEW a \in Objects, PendComplete(a) \/ PendForExec(a) \/ SetBusy(a)
             \/ SetStatusPending(a)
      PROVE  PoppedIsActive'
    BY <1>2 DEF PendComplete, CompleteNext, InClient, PendForExec, Pend,
        CanActivate, SetBusy, SetStatusPending
<1>3. ASSUME NEW t \in Timers, NEW d \in 0 .. MaxDelay, After(t, d)
      PROVE  PoppedIsActive'
    BY <1>3 DEF After, CanActivate, Forget, InClient
<1>4. CASE RunReturns \/ RunLeaves \/ RunErrorHandles \/ SchedulerError \/
          CancelReturns \/ TimersUpdated
    BY <1>4 DEF RunReturns, InClient, RunLeaves, Goto, RunErrorHandles,
        SchedulerError, CancelReturns, TimersUpdated
<1>5. CASE RequestCanceled \/ RequestCheck \/ RequestWait \/ GiveBack
    BY <1>5 DEF RequestCanceled, Goto, RequestCheck, RequestWait, SemWait,
        GiveBack
<1>6. CASE RemoveSemWait \/ PopSemWait \/ WaitAndPopTop
    BY <1>6 DEF RemoveSemWait, SemWait, Goto, PopSemWait, WaitAndPopTop
<1>7. CASE CompleteInThread
    BY <1>7 DEF CompleteInThread, Complete, Forget
<1>8. CASE RemoveCancelled
    BY <1>8 DEF RemoveCancelled, Forget, Goto
<1>9. CASE PopTop
    BY <1>9 DEF PopTop, PopReady, ReadyTop, Forget, Goto
<1>10. CASE PopTopAfterWait
    BY <1>10 DEF PopTopAfterWait, PopReady, ReadyTop, Forget
<1>11. CASE CallRunExec
    BY <1>11 DEF CallRunExec, Goto
<1>12. ASSUME NEW t \in Timers, UpdateTimer(t)
      PROVE  PoppedIsActive'
    BY <1>12 DEF UpdateTimer, Expired, TimerTop, Complete, Forget
<1>13. ASSUME NEW t \in Timers, Timeout(t)
      PROVE  PoppedIsActive'
    BY <1>13 DEF Timeout, Expired, TimerTop, Forget
<1>14. ASSUME NEW r \in Remote, RemoteCompletes(r)
      PROVE  PoppedIsActive'
    BY <1>14 DEF RemoteCompletes, Completable, Complete, Forget, CritFree
<1>15. ASSUME NEW r \in Remote, NEW a \in Shared, RemotePendComplete(r, a)
      PROVE  PoppedIsActive'
    BY <1>15 DEF RemotePendComplete
<1>16. CASE Tick \/ UNCHANGED vars
    BY <1>16 DEF Tick, vars
<1> QED
    BY <1>1, <1>2, <1>3, <1>4, <1>5, <1>6, <1>7, <1>8, <1>9, <1>10, <1>11,
       <1>12, <1>13, <1>14, <1>15, <1>16
    DEF Next, Client, Pending, Loop, RemoteThread

(* Time left belongs to the timer queue, or to a request being cancelled.  *)
LEMMA DueStep == IInv /\ [Next]_vars => TimersAreDue'
<1> USE SetsAssumption, BoundsAssumption DEF AO, aoState, queues, control,
        call, IInv, TypeOK, LinksMatchQueues, QueuedAreActive, TimersAreDue,
        CancelGivesBack
<1> SUFFICES ASSUME IInv, [Next]_vars PROVE TimersAreDue'
    OBVIOUS
<1>1. ASSUME NEW a \in AO, AddToScheduler(a) \/ Cancel(a) \/
             RemoveFromScheduler(a) \/ RunIfNotReady(a)
      PROVE  TimersAreDue'
    BY <1>1 DEF AddToScheduler, InClient, Cancel, CancelThen,
        RemoveFromScheduler, RemoveIdle, RunIfNotReady, Pend, CanActivate,
        CompleteNext
<1>2. ASSUME NEW a \in Objects, PendComplete(a) \/ PendForExec(a) \/ SetBusy(a)
             \/ SetStatusPending(a)
      PROVE  TimersAreDue'
    BY <1>2 DEF PendComplete, CompleteNext, InClient, PendForExec, Pend,
        CanActivate, SetBusy, SetStatusPending
<1>3. ASSUME NEW t \in Timers, NEW d \in 0 .. MaxDelay, After(t, d)
      PROVE  TimersAreDue'
    BY <1>3 DEF After, CanActivate, Forget, InClient
<1>4. CASE RunReturns \/ RunLeaves \/ RunErrorHandles \/ SchedulerError \/
          CancelReturns \/ TimersUpdated
    BY <1>4 DEF RunReturns, InClient, RunLeaves, Goto, RunErrorHandles,
        SchedulerError, CancelReturns, TimersUpdated
<1>5. CASE RequestCanceled \/ RequestCheck \/ RequestWait \/ GiveBack
    BY <1>5 DEF RequestCanceled, Goto, RequestCheck, RequestWait, SemWait,
        GiveBack
<1>6. CASE RemoveSemWait \/ PopSemWait \/ WaitAndPopTop
    BY <1>6 DEF RemoveSemWait, SemWait, Goto, PopSemWait, WaitAndPopTop
<1>7. CASE CompleteInThread
    BY <1>7 DEF CompleteInThread, Complete, Forget
<1>8. CASE RemoveCancelled
    BY <1>8 DEF RemoveCancelled, Forget, Goto
<1>9. CASE PopTop
    BY <1>9 DEF PopTop, PopReady, ReadyTop, Forget, Goto
<1>10. CASE PopTopAfterWait
    BY <1>10 DEF PopTopAfterWait, PopReady, ReadyTop, Forget
<1>11. CASE CallRunExec
    BY <1>11 DEF CallRunExec, Goto
<1>12. ASSUME NEW t \in Timers, UpdateTimer(t)
      PROVE  TimersAreDue'
    BY <1>12 DEF UpdateTimer, Expired, TimerTop, Complete, Forget
<1>13. ASSUME NEW t \in Timers, Timeout(t)
      PROVE  TimersAreDue'
    BY <1>13 DEF Timeout, Expired, TimerTop, Forget
<1>14. ASSUME NEW r \in Remote, RemoteCompletes(r)
      PROVE  TimersAreDue'
    BY <1>14 DEF RemoteCompletes, Completable, Complete, Forget, CritFree
<1>15. ASSUME NEW r \in Remote, NEW a \in Shared, RemotePendComplete(r, a)
      PROVE  TimersAreDue'
    BY <1>15 DEF RemotePendComplete
<1>16. CASE Tick \/ UNCHANGED vars
    BY <1>16 DEF Tick, vars
<1> QED
    BY <1>1, <1>2, <1>3, <1>4, <1>5, <1>6, <1>7, <1>8, <1>9, <1>10, <1>11,
       <1>12, <1>13, <1>14, <1>15, <1>16
    DEF Next, Client, Pending, Loop, RemoteThread

(* Both queues stay ordered by age.                                        *)
LEMMA OrderStep == IInv /\ [Next]_vars => QueuesAreOrdered'
<1> USE SetsAssumption, BoundsAssumption DEF AO, aoState, queues, control,
        call, IInv, TypeOK, LinksMatchQueues, QueuesAreOrdered, OrderedBy,
        CancelGivesBack
<1> SUFFICES ASSUME IInv, [Next]_vars PROVE QueuesAreOrdered'
    OBVIOUS
<1>1. ASSUME NEW a \in AO, AddToScheduler(a) \/ Cancel(a) \/
             RemoveFromScheduler(a) \/ RunIfNotReady(a)
      PROVE  QueuesAreOrdered'
    BY <1>1 DEF AddToScheduler, InClient, Cancel, CancelThen,
        RemoveFromScheduler, RemoveIdle, RunIfNotReady, Pend, CanActivate,
        CompleteNext
<1>2. ASSUME NEW a \in Objects, PendComplete(a) \/ PendForExec(a) \/ SetBusy(a)
             \/ SetStatusPending(a)
      PROVE  QueuesAreOrdered'
    BY <1>2 DEF PendComplete, CompleteNext, InClient, PendForExec, Pend,
        CanActivate, SetBusy, SetStatusPending
<1>3. ASSUME NEW t \in Timers, NEW d \in 0 .. MaxDelay, After(t, d)
      PROVE  QueuesAreOrdered'
    BY <1>3 DEF After, CanActivate, Forget, InClient
<1>4. CASE RunReturns \/ RunLeaves \/ RunErrorHandles \/ SchedulerError \/
          CancelReturns \/ TimersUpdated
    BY <1>4 DEF RunReturns, InClient, RunLeaves, Goto, RunErrorHandles,
        SchedulerError, CancelReturns, TimersUpdated
<1>5. CASE RequestCanceled \/ RequestCheck \/ RequestWait \/ GiveBack
    BY <1>5 DEF RequestCanceled, Goto, RequestCheck, RequestWait, SemWait,
        GiveBack
<1>6. CASE RemoveSemWait \/ PopSemWait \/ WaitAndPopTop
    <2>1. UNCHANGED <<readyQ, timerQ, older>>
        BY <1>6 DEF RemoveSemWait, PopSemWait, WaitAndPopTop, SemWait
    <2> QED BY <2>1
<1>7. CASE CompleteInThread
    <2>1. CASE isIn[target] # "ready" /\ target \in busy /\ status[target] = "pending"
        BY <1>7, <2>1, CompleteOrder DEF CompleteInThread
    <2>2. CASE ~(isIn[target] # "ready" /\ target \in busy /\ status[target] = "pending")
        <3>1. timerQ' = timerQ \ {target} /\ UNCHANGED readyQ
            BY <1>7, <2>2 DEF CompleteInThread
        <3>2. CASE target \in timerQ
            BY <1>7, <2>2, <3>1, <3>2 DEF CompleteInThread, Forget
        <3>3. CASE target \notin timerQ
            BY <1>7, <2>2, <3>1, <3>3 DEF CompleteInThread
        <3> QED BY <3>2, <3>3
    <2> QED BY <2>1, <2>2
<1>8. CASE RemoveCancelled
    BY <1>8 DEF RemoveCancelled, Forget, Goto
<1>9. CASE PopTop
    BY <1>9 DEF PopTop, PopReady, ReadyTop, Forget, Goto
<1>10. CASE PopTopAfterWait
    BY <1>10 DEF PopTopAfterWait, PopReady, ReadyTop, Forget
<1>11. CASE CallRunExec
    BY <1>11 DEF CallRunExec, Goto
<1>12. ASSUME NEW t \in Timers, UpdateTimer(t)
      PROVE  QueuesAreOrdered'
    BY <1>12 DEF UpdateTimer, Expired, TimerTop, Complete, Forget
<1>13. ASSUME NEW t \in Timers, Timeout(t)
      PROVE  QueuesAreOrdered'
    BY <1>13 DEF Timeout, Expired, TimerTop, Forget
<1>14. ASSUME NEW r \in Remote, RemoteCompletes(r)
      PROVE  QueuesAreOrdered'
    <2>1. CASE Completable(remote[r])
        <3>1. /\ remote[r] \in AO
              /\ remote[r] \notin timerQ
              /\ isIn[remote[r]] # "ready"
            BY <1>14, <2>1 DEF RemoteCompletes, Completable
        <3>2. timerQ' = timerQ \ {remote[r]} /\ Complete(remote[r], "none")
            BY <1>14, <2>1, <3>1 DEF RemoteCompletes
        <3> QED BY <3>1, <3>2, CompleteOrder
    <2>2. CASE ~Completable(remote[r])
        BY <1>14, <2>2 DEF RemoteCompletes
    <2> QED BY <2>1, <2>2
<1>15. ASSUME NEW r \in Remote, NEW a \in Shared, RemotePendComplete(r, a)
      PROVE  QueuesAreOrdered'
    BY <1>15 DEF RemotePendComplete
<1>16. CASE Tick \/ UNCHANGED vars
    BY <1>16 DEF Tick, vars
<1> QED
    BY <1>1, <1>2, <1>3, <1>4, <1>5, <1>6, <1>7, <1>8, <1>9, <1>10, <1>11,
       <1>12, <1>13, <1>14, <1>15, <1>16
    DEF Next, Client, Pending, Loop, RemoteThread

(* The semaphore account: every step that adds to or takes from the ready  *)
(* queue moves the semaphore, or the account of owed waits, by one.        *)
LEMMA SemStep == IInv /\ [Next]_vars => SemCountsReady'
<1> USE SetsAssumption, BoundsAssumption DEF AO, aoState, queues, control,
        call, IInv, TypeOK, LinksMatchQueues, SemCountsReady, Owed,
        TakenOut, CancelGivesBack
<1> SUFFICES ASSUME IInv, [Next]_vars PROVE SemCountsReady'
    OBVIOUS
<1>1. ASSUME NEW a \in AO, AddToScheduler(a) \/ Cancel(a) \/
             RemoveFromScheduler(a) \/ RunIfNotReady(a)
      PROVE  SemCountsReady'
    BY <1>1 DEF AddToScheduler, InClient, Cancel, CancelThen,
        RemoveFromScheduler, RemoveIdle, RunIfNotReady, Pend, CanActivate,
        CompleteNext
<1>2. ASSUME NEW a \in Objects, PendComplete(a) \/ PendForExec(a) \/ SetBusy(a)
             \/ SetStatusPending(a)
      PROVE  SemCountsReady'
    BY <1>2 DEF PendComplete, CompleteNext, InClient, PendForExec, Pend,
        CanActivate, SetBusy, SetStatusPending
<1>3. ASSUME NEW t \in Timers, NEW d \in 0 .. MaxDelay, After(t, d)
      PROVE  SemCountsReady'
    BY <1>3 DEF After, CanActivate, Forget, InClient
<1>4. CASE RunReturns \/ RunLeaves \/ RunErrorHandles \/ SchedulerError \/
          CancelReturns \/ TimersUpdated
    BY <1>4 DEF RunReturns, InClient, RunLeaves, Goto, RunErrorHandles,
        SchedulerError, CancelReturns, TimersUpdated
<1>5. CASE RequestCanceled \/ RequestCheck \/ RequestWait \/ GiveBack
    BY <1>5 DEF RequestCanceled, Goto, RequestCheck, RequestWait, SemWait,
        GiveBack
<1>6. CASE RemoveSemWait \/ PopSemWait \/ WaitAndPopTop
    BY <1>6, FiniteQueue
    DEF RemoveSemWait,
        PopSemWait, WaitAndPopTop, SemWait, Goto
<1>7. CASE CompleteInThread
    <2>1. CASE isIn[target] # "ready" /\ target \in busy /\ status[target] = "pending"
        BY <1>7, <2>1, CountAdded DEF CompleteInThread, Complete
    <2>2. CASE ~(isIn[target] # "ready" /\ target \in busy /\ status[target] = "pending")
        BY <1>7, <2>2 DEF CompleteInThread
    <2> QED BY <2>1, <2>2
<1>8. CASE RemoveCancelled
    <2>1. pc = "cancelled" /\ target \in readyQ /\ readyQ' = readyQ \ {target}
        BY <1>8 DEF RemoveCancelled
    <2>2. Cardinality(readyQ') = Cardinality(readyQ) - 1 /\ Cardinality(readyQ) \in Nat
        BY <2>1, CountRemoved
    <2>3. sem' = sem /\ nwait' = nwait /\ pc' = "removesem"
        BY <1>8, <2>1 DEF RemoveCancelled, Goto
    <2> QED BY <2>1, <2>2, <2>3
<1>9. CASE PopTop
    <2>1. ASSUME NEW a \in readyQ, pc = "poptop", pc' = "popsem", PopReady(a)
          PROVE  SemCountsReady'
        BY <2>1, CountRemoved DEF PopReady
    <2>2. CASE UNCHANGED <<readyQ, sem, nwait>> /\ pc = "poptop" /\ pc' \in {"wait", "timedwait"}
        BY <2>2
    <2> QED BY <1>9, <2>1, <2>2 DEF PopTop, Goto
<1>10. CASE PopTopAfterWait
    BY <1>10, CountRemoved DEF PopTopAfterWait, PopReady
<1>11. CASE CallRunExec
    BY <1>11 DEF CallRunExec, Goto
<1>12. ASSUME NEW t \in Timers, UpdateTimer(t)
      PROVE  SemCountsReady'
    BY <1>12, CountAdded DEF UpdateTimer, Expired, TimerTop, Complete
<1>13. ASSUME NEW t \in Timers, Timeout(t)
      PROVE  SemCountsReady'
    BY <1>13 DEF Timeout, Expired, TimerTop, Forget
<1>14. ASSUME NEW r \in Remote, RemoteCompletes(r)
      PROVE  SemCountsReady'
    <2>1. CASE Completable(remote[r])
        BY <1>14, <2>1, CountAdded DEF RemoteCompletes, Completable, Complete
    <2>2. CASE ~Completable(remote[r])
        BY <1>14, <2>2 DEF RemoteCompletes
    <2> QED BY <2>1, <2>2
<1>15. ASSUME NEW r \in Remote, NEW a \in Shared, RemotePendComplete(r, a)
      PROVE  SemCountsReady'
    BY <1>15 DEF RemotePendComplete
<1>16. CASE Tick \/ UNCHANGED vars
    BY <1>16 DEF Tick, vars
<1> QED
    BY <1>1, <1>2, <1>3, <1>4, <1>5, <1>6, <1>7, <1>8, <1>9, <1>10, <1>11,
       <1>12, <1>13, <1>14, <1>15, <1>16
    DEF Next, Client, Pending, Loop, RemoteThread

-----------------------------------------------------------------------------
(* The invariant holds initially: nothing is queued.                       *)
LEMMA InitIInv == Init => IInv
BY SetsAssumption, BoundsAssumption, FS_EmptySet
DEF Init, IInv, TypeOK, SemCountsReady, Owed, TakenOut, LinksMatchQueues,
    QueuedAreActive, QueuesAreOrdered, OrderedBy, CancelGivesBack,
    PoppedIsActive, Popped, TimersAreDue, AO

(* IInv is an invariant of the scheduler.                                  *)
THEOREM Invariance == Spec => []IInv
<1>1. IInv /\ [Next]_vars => IInv'
    BY TypeOKStep, LinksStep, ActiveStep, CancelStep, PoppedStep, DueStep,
       OrderStep, SemStep DEF IInv
<1> QED
    BY InitIInv, <1>1, PTL DEF Spec

(* The variables keep their types, in particular the semaphore's count and *)
(* the number of owed waits stay natural numbers.                          *)
THEOREM TypeCorrect == Spec => []TypeOK
BY Invariance, PTL DEF IInv

(* The semaphore counts exactly the ready requests, up to the waits the    *)
(* scheduler thread is in the middle of.                                   *)
THEOREM SemaphoreAccount == Spec => []SemCountsReady
BY Invariance, PTL DEF IInv

(* The assertion of PopTopAfterWait holds and the semaphore waits made     *)
(* while holding the queue's mutex never block.                            *)
THEOREM WaitsBacked == Spec => []WaitsAreBacked
<1>1. IInv => WaitsAreBacked
    <2> SUFFICES ASSUME IInv PROVE WaitsAreBacked
        OBVIOUS
    <2>1. sem \in Nat /\ nwait \in Nat /\ Cardinality(readyQ) \in Nat
        BY FiniteQueue DEF IInv, TypeOK
    <2>2. ASSUME pc = "afterwait" PROVE readyQ # {}
        <3>1. Cardinality(readyQ) > 0
            BY <2>1, <2>2 DEF IInv, SemCountsReady, Owed, TakenOut
        <3> QED
            BY <3>1, FS_EmptySet
    <2>3. ASSUME pc \in {"popsem", "removesem"} PROVE sem > 0
        BY <2>1, <2>3
        DEF IInv, SemCountsReady, Owed, TakenOut, CancelGivesBack
    <2> QED
        BY <2>2, <2>3 DEF WaitsAreBacked
<1> QED
    BY <1>1, Invariance, PTL

(* An AO is in at most one queue, the one its link names.                  *)
THEOREM LinksCorrect == Spec => []LinksMatchQueues
BY Invariance, PTL DEF IInv

(* Only active requests are queued.                                        *)
THEOREM QueuedActive == Spec => []QueuedAreActive
BY Invariance, PTL DEF IInv

(* Both queues are totally ordered, so top() is unique.                    *)
THEOREM QueuesOrdered == Spec => []QueuesAreOrdered
BY Invariance, PTL DEF IInv

(* No timer runs early.                                                    *)
THEOREM TimersNotEarly == Spec => []TimersAreNotEarly
<1>1. IInv => TimersAreNotEarly
    BY SetsAssumption, BoundsAssumption
    DEF IInv, TypeOK, TimersAreDue, TimersAreNotEarly, PoppedIsActive, Popped,
        LinksMatchQueues, AO
<1> QED
    BY <1>1, Invariance, PTL
-----------------------------------------------------------------------------
(* Refinement: every step of the scheduler is a step of ActiveObjects or   *)
(* leaves the requests alone.                                              *)

(* The mapping only reads iBusy, the ready queue and the AO being run.     *)
LEMMA MapStutter ==
    ASSUME UNCHANGED <<busy, readyQ, cur>>, Popped' <=> Popped
    PROVE  UNCHANGED Requests!aoVars
BY DEF ReqOf, Running, Requests!aoVars

LEMMA MapActivate ==
    ASSUME NEW a \in AO, IInv, a \notin busy, busy' = busy \cup {a},
           UNCHANGED <<readyQ, cur>>, ~Popped, ~Popped'
    PROVE  Requests!Activate(a)
<1>1. a \notin readyQ
    BY DEF IInv, QueuedAreActive
<1> QED
    BY <1>1 DEF Requests!Activate, ReqOf, Running

LEMMA MapComplete ==
    ASSUME NEW a \in busy, IInv, a \notin readyQ, ~(Popped /\ a = cur),
           readyQ' = readyQ \cup {a}, UNCHANGED <<busy, cur>>, Popped' <=> Popped
    PROVE  Requests!Complete(a)
BY DEF IInv, TypeOK, Requests!Complete, ReqOf, Running

LEMMA MapPop ==
    ASSUME NEW a \in readyQ, IInv, ~Popped, Popped', cur = NoAO, cur' = a,
           readyQ' = readyQ \ {a}, UNCHANGED busy
    PROVE  UNCHANGED Requests!aoVars
BY DEF IInv, QueuedAreActive, ReqOf, Running, Requests!aoVars

LEMMA MapRunEnds ==
    ASSUME ~Popped, ~Popped', cur' = NoAO, UNCHANGED <<busy, readyQ>>
    PROVE  Requests!RunEnds \/ UNCHANGED Requests!aoVars
BY DEF Requests!RunEnds, Requests!aoVars, ReqOf, Running

LEMMA RefinementStep ==
    IInv /\ [Next]_vars => [Requests!Next]_(Requests!aoVars)
<1> USE DEF aoState, queues, control, call
<1> SUFFICES ASSUME IInv, [Next]_vars
             PROVE  Requests!Next \/ UNCHANGED Requests!aoVars
    OBVIOUS
<1>1. ASSUME NEW a \in AO, AddToScheduler(a) \/ Cancel(a)
      PROVE  UNCHANGED Requests!aoVars
    BY <1>1, MapStutter DEF AddToScheduler, Cancel, CancelThen, InClient, Popped
<1>2. ASSUME NEW a \in AO, PendForExec(a) \/ RunIfNotReady(a) \/ SetBusy(a)
      PROVE  Requests!Activate(a)
    BY <1>2, MapActivate
    DEF PendForExec, RunIfNotReady, SetBusy, Pend, CanActivate, CompleteNext,
        InClient, Popped
<1>3. ASSUME NEW t \in Timers, NEW d \in 0 .. MaxDelay, After(t, d)
      PROVE  Requests!Activate(t)
    BY <1>3, MapActivate DEF After, CanActivate, InClient, Popped, AO
<1>4. ASSUME NEW a \in AO, PendComplete(a) \/ SetStatusPending(a)
      PROVE  UNCHANGED Requests!aoVars
    BY <1>4, MapStutter
    DEF PendComplete, SetStatusPending, CompleteNext, InClient, Popped
<1>5. ASSUME NEW a \in AO, RemoveFromScheduler(a)
      PROVE  UNCHANGED Requests!aoVars
    BY <1>5, MapStutter
    DEF RemoveFromScheduler, RemoveIdle, CancelThen, InClient, Popped
<1>6. CASE RunReturns \/ RunErrorHandles \/ SchedulerError
    BY <1>6, MapRunEnds
    DEF RunReturns, RunErrorHandles, SchedulerError, InClient, Popped, Requests!Next
<1>7. CASE RunLeaves \/ RequestCanceled \/ RequestWait \/ RequestCheck \/ GiveBack
    BY <1>7, MapStutter
    DEF RunLeaves, RequestCanceled, RequestWait, RequestCheck, GiveBack, SemWait,
        Goto, InClient, Popped
<1>8. CASE CompleteInThread
    <2>1. CASE Complete(target, reason)
        BY <1>8, <2>1, MapComplete, SetsAssumption
        DEF CompleteInThread, Complete, IInv, TypeOK, LinksMatchQueues, Popped,
            Requests!Next
    <2>2. CASE UNCHANGED readyQ
        BY <1>8, <2>2, MapStutter DEF CompleteInThread, Popped
    <2> QED BY <1>8, <2>1, <2>2 DEF CompleteInThread
<1>9. CASE RemoveCancelled
    <2>1. /\ target \in readyQ /\ target \in busy
          /\ busy' = busy \ {target}
          /\ readyQ' = readyQ \ {target}
          /\ cur' = cur
          /\ ~Popped /\ ~Popped'
        BY <1>9
        DEF RemoveCancelled, Goto, IInv, CancelGivesBack, QueuedAreActive, Popped
    <2>2. target \in AO
        BY <2>1 DEF IInv, TypeOK
    <2>3. Requests!Cancelled(target)
        BY <2>1, <2>2 DEF Requests!Cancelled, ReqOf, Running
    <2> QED BY <2>2, <2>3 DEF Requests!Next
<1>10. CASE RemoveSemWait \/ CancelReturns \/ TimersUpdated \/ WaitAndPopTop
    BY <1>10, MapStutter
    DEF RemoveSemWait, CancelReturns, TimersUpdated, WaitAndPopTop, SemWait, Goto,
        Popped
<1>11. CASE PopSemWait
    BY <1>11, MapStutter DEF PopSemWait, SemWait, Goto, Popped
<1>12. CASE PopTop \/ PopTopAfterWait
    <2>1. ASSUME NEW a \in readyQ, PopReady(a), pc \in {"poptop", "afterwait"},
                 pc' \in {"popsem", "dispatch"}
          PROVE  UNCHANGED Requests!aoVars
        BY <2>1, MapPop DEF PopReady, IInv, PoppedIsActive, Popped
    <2>2. CASE /\ UNCHANGED <<busy, readyQ, cur>>
               /\ pc = "poptop" /\ pc' \in {"wait", "timedwait"}
        BY <2>2, MapStutter DEF Popped
    <2> QED BY <1>12, <2>1, <2>2 DEF PopTop, PopTopAfterWait, Goto
<1>13. CASE CallRunExec
    <2>1. /\ Popped /\ ~Popped'
          /\ cur \in busy /\ cur \in AO /\ cur # NoAO /\ cur \notin readyQ
          /\ busy' = busy \ {cur}
          /\ UNCHANGED <<readyQ, cur>>
        BY <1>13, SetsAssumption
        DEF CallRunExec, Goto, Popped, IInv, TypeOK, PoppedIsActive,
            LinksMatchQueues
    <2>2. Requests!RunBegins(cur)
        BY <2>1 DEF Requests!RunBegins, ReqOf, Running
    <2> QED BY <2>1, <2>2 DEF Requests!Next
<1>14. ASSUME NEW t \in Timers, UpdateTimer(t)
       PROVE  Requests!Complete(t)
    BY <1>14, MapComplete
    DEF UpdateTimer, Expired, TimerTop, Complete, IInv, LinksMatchQueues, Popped, AO
<1>15. ASSUME NEW t \in Timers, Timeout(t)
       PROVE  Requests!Complete(t)
    <2>1. /\ t \in AO /\ t \in busy /\ t \notin readyQ
          /\ ~Popped /\ Popped' /\ cur = NoAO /\ cur' = t
          /\ UNCHANGED <<busy, readyQ>>
        BY <1>15
        DEF Timeout, Expired, TimerTop, IInv, LinksMatchQueues, QueuedAreActive,
            PoppedIsActive, Popped, AO
    <2> QED
        BY <2>1 DEF Requests!Complete, ReqOf, Running
<1>16. ASSUME NEW r \in Remote, RemoteCompletes(r)
       PROVE  Requests!Next \/ UNCHANGED Requests!aoVars
    <2>1. CASE Completable(remote[r])
        BY <1>16, <2>1, MapComplete
        DEF RemoteCompletes, Completable, Complete, IInv, TypeOK, LinksMatchQueues,
            PoppedIsActive, Popped, Requests!Next
    <2>2. CASE ~Completable(remote[r])
        BY <1>16, <2>2, MapStutter DEF RemoteCompletes, Popped
    <2> QED BY <2>1, <2>2
<1>17. ASSUME NEW r \in Remote, NEW a \in Shared, RemotePendComplete(r, a)
       PROVE  UNCHANGED Requests!aoVars
    BY <1>17, MapStutter DEF RemotePendComplete, Popped
<1>18. CASE Tick \/ UNCHANGED vars
    BY <1>18, MapStutter DEF Tick, vars, Popped
<1> QED
    BY <1>1, <1>2, <1>3, <1>4, <1>5, <1>6, <1>7, <1>8, <1>9, <1>10, <1>11, <1>12,
       <1>13, <1>14, <1>15, <1>16, <1>17, <1>18, SetsAssumption
    DEF Next, Client, Pending, Loop, RemoteThread, Requests!Next, AO

(* The scheduler implements the contract of its active objects.            *)
THEOREM RequestsImplemented == Spec => RequestsRunOnce
<1>1. Init => Requests!Init
    BY DEF Init, Requests!Init, ReqOf, Running, Popped
<1> QED
    BY <1>1, Invariance, RefinementStep, PTL
    DEF Spec, RequestsRunOnce, Requests!Spec
-----------------------------------------------------------------------------
(* Element k is a child of element p.                                      *)
ChildOf(k, p) == k = 2 * p + 1 \/ k = 2 * p + 2

(* The first n elements are a heap, but for the children of the elements   *)
(* of P and for the elements of K with their parents.                      *)
Ordered(n, P, K) ==
    \A p, k \in 0 .. n - 1 :
        ChildOf(k, p) /\ p \notin P /\ k \notin K => c[p + 1] > c[k + 1]

(* The parent of the element that moves is greater than its children.      *)
Bridged(n) ==
    \A p, k \in 0 .. n - 1 :
        ChildOf(index, p) /\ ChildOf(k, index) => c[p + 1] > c[k + 1]

(* No element is in the vector twice.                                      *)
NoRepetition == \A i, j \in 1 .. Len(c) : c[i] = c[j] => i = j

(* push_heap: only the element that moves may be out of order with its     *)
(* parent.                                                                 *)
Rising == /\ index < Len(c)
          /\ Ordered(Len(c), {}, {index})
          /\ Bridged(Len(c))

(* pop_heap on the whole vector: only the element that moves may be out of *)
(* order with its children.  The last element is the one taken out.        *)
Sinking == LET n == Len(c) - 1
           IN  /\ c # <<>> /\ first = 0
               /\ index = 0 \/ index < n
               /\ Ordered(n, {index}, {})
               /\ Bridged(n)

(* A short queue: the top stays, and only the third and the fourth element *)
(* and the second and the fourth have to be in order.                      *)
Middle == LET n == Len(c) - 1
          IN  /\ n <= 4 /\ first > 0 /\ first + index < n
              /\ \A i \in 1 .. n - 1 : c[1] > c[i + 1]
              /\ n = 4 => /\ (first = 1 /\ index = 0) \/ c[2] > c[4]
                          /\ first = 2 /\ index = 0 => c[2] > c[3]

(* The inductive invariant.                                                *)
HeapIInv ==
    /\ HeapTypeOK
    /\ NoRepetition
    /\ loop = "idle" => Ordered(Len(c), {}, {})
    /\ loop = "up" => Rising
    /\ loop = "pop" => Sinking
    /\ loop = "remove" => Len(c) > 1 /\ (Sinking \/ Middle)

(* remove is called on at most five elements, or for the greatest one.  On *)
(* six it can break the order.  pop and the removal of the last element    *)
(* are free.                                                               *)
Short == \A e \in Elem : remove(e) => Len(c) <= 5 \/ e = c[1]

RemovesAreShort == [][Short]_heapVars
-----------------------------------------------------------------------------
(* A set of natural numbers has a least one.                               *)
LEMMA LeastNat ==
    ASSUME NEW T, T \subseteq Nat, T # {}
    PROVE  \E m \in T : \A i \in T : m <= i
<1> DEFINE R == OpToRel(<, Nat)
<1>1. IsWellFoundedOn(R, Nat)
    BY NatLessThanWellFounded, Zenon DEF R
<1>2. \A i, j \in Nat : i < j => <<i, j>> \in R
    BY DEF OpToRel
<1> HIDE DEF R
<1>3. T \subseteq Nat /\ T # {}
    OBVIOUS
<1>4. PICK m \in T : \A i \in T : ~(<<i, m>> \in R)
    BY <1>1, <1>3, WFMin
<1>5. ASSUME NEW i \in T
      PROVE  m <= i
    <2>1. m \in Nat /\ i \in Nat
        BY <1>3
    <2>2. ~(i < m)
        BY <1>2, <1>4, <2>1
    <2> QED
        BY <2>1, <2>2
<1> QED
    BY <1>5


-----------------------------------------------------------------------------
(* Vectors.                                                                *)

(* The elements are numbers.                                               *)
LEMMA Elements ==
    ASSUME HeapTypeOK
    PROVE  /\ Len(c) \in Nat /\ \A i \in 1 .. Len(c) : c[i] \in Elem /\ c[i] \in Nat
           /\ c = <<>> <=> Len(c) = 0
<1>1. c \in Seq(Elem) /\ Elem \subseteq Nat
    BY ElemAssumption DEF HeapTypeOK
<1>2. Len(c) \in Nat /\ \A i \in 1 .. Len(c) : c[i] \in Elem
    BY <1>1
<1>3. c = <<>> <=> Len(c) = 0
    BY <1>1
<1> QED
    BY <1>1, <1>2, <1>3

(* The elements of a sequence of known length.                             *)
LEMMA ValuesOf ==
    ASSUME NEW s, NEW n, DOMAIN s = 1 .. n
    PROVE  ToSet(s) = {s[i] : i \in 1 .. n}
BY DEF ToSet

(* Front drops the last element.                                           *)
LEMMA InFront ==
    ASSUME NEW s \in Seq(Elem), Len(s) > 0
    PROVE  /\ Front(s) \in Seq(Elem) /\ Len(Front(s)) = Len(s) - 1
           /\ \A i \in 1 .. Len(s) - 1 : Front(s)[i] = s[i]
           /\ ToSet(Front(s)) = {s[i] : i \in 1 .. Len(s) - 1}
<1>1. Len(s) \in Nat /\ Len(s) - 1 \in Nat
    OBVIOUS
<1>2. Front(s) = [i \in 1 .. Len(s) - 1 |-> s[i]]
    BY <1>1 DEF Front
<1>3. /\ Front(s) \in Seq(Elem) /\ Len(Front(s)) = Len(s) - 1
      /\ DOMAIN Front(s) = 1 .. Len(s) - 1
    BY <1>1, <1>2
<1>4. \A i \in 1 .. Len(s) - 1 : Front(s)[i] = s[i]
    BY <1>2
<1>5. ToSet(Front(s)) = {Front(s)[i] : i \in 1 .. Len(s) - 1}
    BY <1>3, ValuesOf
<1>6. {Front(s)[i] : i \in 1 .. Len(s) - 1} = {s[i] : i \in 1 .. Len(s) - 1}
    BY <1>4
<1> QED
    BY <1>3, <1>4, <1>5, <1>6

(* A swap moves two elements.                                              *)
LEMMA Swapped ==
    ASSUME HeapTypeOK, NEW i \in 0 .. Len(c) - 1, NEW j \in 0 .. Len(c) - 1,
           c' = Swap(c, i, j)
    PROVE  /\ c' \in Seq(Elem) /\ Len(c') = Len(c)
           /\ c'[i + 1] = c[j + 1] /\ c'[j + 1] = c[i + 1]
           /\ \A k \in 0 .. Len(c) - 1 : k # i /\ k # j => c'[k + 1] = c[k + 1]
           /\ NoRepetition => NoRepetition'
<1>1. c \in Seq(Elem) /\ Len(c) \in Nat
    BY DEF HeapTypeOK
<1>2. c' = [c EXCEPT ![i + 1] = c[j + 1], ![j + 1] = c[i + 1]]
    BY DEF Swap
<1>3. i + 1 \in 1 .. Len(c) /\ j + 1 \in 1 .. Len(c)
    BY <1>1
<1>4. c' \in Seq(Elem) /\ Len(c') = Len(c)
    BY <1>1, <1>2, <1>3
<1>5. /\ c'[i + 1] = c[j + 1] /\ c'[j + 1] = c[i + 1]
      /\ \A k \in 1 .. Len(c) : k # i + 1 /\ k # j + 1 => c'[k] = c[k]
    BY <1>1, <1>2, <1>3
<1>6. NoRepetition => NoRepetition'
    BY <1>3, <1>4, <1>5 DEF NoRepetition
<1>7. \A k \in 0 .. Len(c) - 1 : k # i /\ k # j => c'[k + 1] = c[k + 1]
    <2> SUFFICES ASSUME NEW k \in 0 .. Len(c) - 1, k # i, k # j PROVE c'[k + 1] = c[k + 1]
        OBVIOUS
    <2>1. k + 1 \in 1 .. Len(c) /\ k + 1 # i + 1 /\ k + 1 # j + 1
        BY <1>1
    <2> QED
        BY <1>5, <2>1
<1> QED
    BY <1>4, <1>5, <1>6, <1>7

(* So the set of the elements stays, and that of those in front.           *)
LEMMA SwappedSet ==
    ASSUME HeapTypeOK, NEW i \in 0 .. Len(c) - 1, NEW j \in 0 .. Len(c) - 1,
           c' = Swap(c, i, j)
    PROVE  /\ ToSet(c') = ToSet(c)
           /\ i < Len(c) - 1 /\ j < Len(c) - 1 => ToSet(Front(c')) = ToSet(Front(c))
<1>1. /\ c' \in Seq(Elem) /\ Len(c') = Len(c)
      /\ c'[i + 1] = c[j + 1] /\ c'[j + 1] = c[i + 1]
      /\ \A k \in 0 .. Len(c) - 1 : k # i /\ k # j => c'[k + 1] = c[k + 1]
    BY Swapped
<1>2. c \in Seq(Elem) /\ Len(c) \in Nat /\ Len(c) > 0
    BY DEF HeapTypeOK
<1> DEFINE Values(f, n) == {f[k] : k \in 1 .. n}
<1>3. ASSUME NEW n \in Nat, n <= Len(c), i < n, j < n
      PROVE  Values(c', n) = Values(c, n)
    <2>1. i + 1 \in 1 .. n /\ j + 1 \in 1 .. n
        BY <1>2, <1>3
    <2>2. ASSUME NEW k \in 1 .. n PROVE k = i + 1 \/ k = j + 1 \/ c'[k] = c[k]
        <3>1. k - 1 \in 0 .. Len(c) - 1 /\ (k - 1) + 1 = k
            BY <1>2, <1>3
        <3> QED
            BY <1>1, <3>1
    <2>3. ASSUME NEW k \in 1 .. n PROVE c'[k] \in Values(c, n)
        <3>1. \E l \in 1 .. n : c'[k] = c[l]
            BY <1>1, <2>1, <2>2
        <3> QED
            BY <3>1
    <2>4. ASSUME NEW k \in 1 .. n PROVE c[k] \in Values(c', n)
        <3>1. \E l \in 1 .. n : c[k] = c'[l]
            BY <1>1, <2>1, <2>2
        <3> QED
            BY <3>1
    <2>5. Values(c', n) \subseteq Values(c, n)
        BY <2>3
    <2>6. Values(c, n) \subseteq Values(c', n)
        BY <2>4
    <2> HIDE DEF Values
    <2> QED
        BY <2>5, <2>6
<1>4. Values(c', Len(c)) = Values(c, Len(c))
    <2>1. i < Len(c) /\ j < Len(c)
        BY <1>2
    <2> HIDE DEF Values
    <2> QED
        BY <1>2, <1>3, <2>1
<1>5. ToSet(c') = ToSet(c)
    <2>1. DOMAIN c = 1 .. Len(c) /\ DOMAIN c' = 1 .. Len(c)
        BY <1>1, <1>2
    <2>2. ToSet(c) = Values(c, Len(c))
        BY <2>1, ValuesOf
    <2>3. ToSet(c') = Values(c', Len(c))
        BY <2>1, ValuesOf
    <2> QED
        BY <1>4, <2>2, <2>3
<1>6. ASSUME i < Len(c) - 1, j < Len(c) - 1
      PROVE  ToSet(Front(c')) = ToSet(Front(c))
    <2>1. Len(c) - 1 \in Nat /\ Len(c) - 1 <= Len(c)
        BY <1>2
    <2>2. ToSet(Front(c)) = Values(c, Len(c) - 1)
        BY <1>2, InFront
    <2>3. Len(c') > 0 /\ Len(c') - 1 = Len(c) - 1
        BY <1>1, <1>2
    <2>4. ToSet(Front(c')) = Values(c', Len(c) - 1)
        <3>1. ToSet(Front(c')) = {c'[k] : k \in 1 .. Len(c') - 1}
            BY <1>1, <2>3, InFront
        <3> QED
            BY <2>3, <3>1
    <2> HIDE DEF Values
    <2>5. Values(c', Len(c) - 1) = Values(c, Len(c) - 1)
        BY <1>3, <1>6, <2>1
    <2> QED
        BY <2>2, <2>4, <2>5
<1> QED
    BY <1>5, <1>6

(* Every element but the first has one parent, which is before it.         *)
LEMMA Parents ==
    ASSUME index \in Nat, index > 0
    PROVE  Parent \in Nat /\ ChildOf(index, Parent) /\ Parent < index
BY DEF Parent, ChildOf

(* The first element of a heap is the greatest.                            *)
LEMMA Greatest ==
    ASSUME HeapTypeOK, NEW n \in 0 .. Len(c), Ordered(n, {}, {}), n > 0
    PROVE  \A i \in 1 .. n : c[i] <= c[1]
<1> DEFINE T == {k \in Nat : k < n /\ c[k + 1] > c[1]}
<1>1. Len(c) \in Nat /\ n \in Nat /\ \A i \in 1 .. n : c[i] \in Nat
    BY Elements
<1>2. ASSUME T # {} PROVE FALSE
    <2>1. PICK m \in T : \A k \in T : m <= k
        BY <1>2, LeastNat
    <2>2. m \in Nat /\ m < n /\ c[m + 1] > c[1] /\ m # 0
        BY <1>1, <2>1
    <2>3. \E p \in 0 .. m - 1 : m = 2 * p + 1 \/ m = 2 * p + 2
        <3>1. LET p == (m - 1) \div 2
              IN  p \in 0 .. m - 1 /\ (m = 2 * p + 1 \/ m = 2 * p + 2)
            BY <2>2
        <3> QED
            BY <3>1
    <2>4. PICK p \in 0 .. m - 1 : ChildOf(m, p)
        BY <2>3 DEF ChildOf
    <2>5. c[p + 1] > c[m + 1]
        BY <1>1, <2>2, <2>4 DEF Ordered
    <2>6. c[p + 1] \in Nat /\ c[m + 1] \in Nat /\ c[1] \in Nat
        BY <1>1, <2>2
    <2>7. p \in T
        BY <1>1, <2>2, <2>5, <2>6
    <2> QED
        BY <2>1, <2>2, <2>7
<1>3. ASSUME NEW i \in 1 .. n
      PROVE  c[i] <= c[1]
    <2>1. i - 1 \in Nat /\ i - 1 < n /\ (i - 1) + 1 = i
        BY <1>1
    <2>2. i - 1 \notin T
        BY <1>2
    <2>3. ~(c[(i - 1) + 1] > c[1])
        BY <2>1, <2>2
    <2> QED
        BY <1>1, <2>1, <2>3
<1> QED
    BY <1>3
-----------------------------------------------------------------------------
(* push_heap: the element that was added moves up.                         *)

(* The empty vector is a heap.                                             *)
LEMMA InitHeap == HeapInit => HeapIInv
<1> SUFFICES ASSUME HeapInit PROVE HeapIInv
    OBVIOUS
<1>1. c = <<>> /\ Len(c) = 0 /\ c \in Seq(Elem)
    BY DEF HeapInit
<1>2. HeapTypeOK
    BY <1>1, ElemAssumption DEF HeapInit, HeapTypeOK
<1> QED
    BY <1>1, <1>2 DEF HeapInit, HeapIInv, NoRepetition, Ordered

(* After Append only the new element may be out of order.                  *)
LEMMA PushStep ==
    ASSUME HeapIInv, NEW e \in Elem, push(e)
    PROVE  HeapIInv'
<1> DEFINE n == Len(c)
<1>1. /\ c \in Seq(Elem) /\ n \in Nat /\ n < MaxLen /\ Ordered(n, {}, {}) /\ NoRepetition
      /\ HeapTypeOK
    BY DEF HeapIInv, HeapTypeOK, push
<1>2. /\ c' = Append(c, e) /\ loop' = "up" /\ index' = n /\ UNCHANGED <<first, out>>
      /\ e \notin ToSet(c)
    BY DEF push
<1>3. /\ c' \in Seq(Elem) /\ Len(c') = n + 1 /\ c'[n + 1] = e
      /\ \A i \in 1 .. n : c'[i] = c[i]
    BY <1>1, <1>2
<1>4. HeapTypeOK'
    BY <1>1, <1>2, <1>3, ElemAssumption DEF HeapTypeOK
<1>5. \A i \in 1 .. n : c[i] # e
    BY <1>1, <1>2 DEF ToSet
<1>6. NoRepetition'
    <2>1. \A i, j \in 1 .. n + 1 : c'[i] = c'[j] => i = j
        BY <1>1, <1>3, <1>5 DEF NoRepetition
    <2> QED
        BY <1>3, <2>1 DEF NoRepetition
<1>7. Rising'
    <2>1. \A p, k \in 0 .. n : ChildOf(k, p) /\ k # n => c'[p + 1] > c'[k + 1]
        BY <1>1, <1>3 DEF Ordered, ChildOf
    <2>2. \A p, k \in 0 .. n : ~ChildOf(k, n)
        BY <1>1 DEF ChildOf
    <2> QED
        BY <1>1, <1>2, <1>3, <2>1, <2>2 DEF Rising, Ordered, Bridged
<1> QED
    BY <1>2, <1>4, <1>6, <1>7 DEF HeapIInv

(* The old parent is greater than the children of the one that rose.       *)
LEMMA SiftUpStep ==
    ASSUME HeapIInv, SiftUp
    PROVE  HeapIInv' /\ Queued' = Queued
<1> DEFINE n == Len(c)
           p == Parent
<1>1. /\ HeapTypeOK /\ NoRepetition /\ Rising /\ n \in Nat /\ index \in Nat /\ index < n
      /\ \A i \in 1 .. n : c[i] \in Nat
    BY Elements DEF HeapIInv, SiftUp, HeapTypeOK, Rising
<1>2. /\ c' = Swap(c, index, p) /\ index' = p /\ UNCHANGED <<loop, first, out>>
      /\ loop = "up" /\ index > 0 /\ c[p + 1] < c[index + 1]
    BY DEF SiftUp, ParentLess, compare_LT
<1>3. p \in Nat /\ ChildOf(index, p) /\ p < index
    BY <1>1, <1>2, Parents
<1>4. p \in 0 .. n - 1 /\ index \in 0 .. n - 1
    BY <1>1, <1>3
<1> HIDE DEF p
<1>5. /\ c' \in Seq(Elem) /\ Len(c') = n /\ NoRepetition'
      /\ c'[index + 1] = c[p + 1] /\ c'[p + 1] = c[index + 1]
      /\ \A k \in 0 .. n - 1 : k # index /\ k # p => c'[k + 1] = c[k + 1]
    BY <1>1, <1>2, <1>4, Swapped
<1>6. HeapTypeOK'
    BY <1>1, <1>2, <1>3, <1>5, ElemAssumption DEF HeapTypeOK
<1>7. /\ \A q, k \in 0 .. n - 1 : ChildOf(k, q) /\ k # index => c[q + 1] > c[k + 1]
      /\ \A k \in 0 .. n - 1 : ChildOf(k, index) => c[p + 1] > c[k + 1]
    BY <1>1, <1>3, <1>4 DEF Rising, Ordered, Bridged
<1>8. ASSUME NEW q \in 0 .. n - 1, NEW k \in 0 .. n - 1, ChildOf(k, q), k # p
      PROVE  c'[q + 1] > c'[k + 1]
    <2>1. /\ q \in Nat /\ k \in Nat /\ q + 1 \in 1 .. n /\ k + 1 \in 1 .. n
          /\ index + 1 \in 1 .. n /\ p + 1 \in 1 .. n /\ k > q
        BY <1>1, <1>4, <1>8 DEF ChildOf
    <2>2. CASE k = index
        <3>1. q = p
            BY <1>1, <1>3, <1>8, <2>1, <2>2 DEF ChildOf
        <3> QED
            BY <1>1, <1>2, <1>5, <2>1, <2>2, <3>1
    <2>3. CASE k # index /\ q = index
        <3>1. c'[k + 1] = c[k + 1]
            BY <1>5, <1>8, <2>1, <2>3
        <3> QED
            BY <1>5, <1>7, <1>8, <2>3, <3>1
    <2>4. CASE k # index /\ q = p
        <3>1. c'[k + 1] = c[k + 1] /\ c[p + 1] > c[k + 1]
            BY <1>5, <1>7, <1>8, <2>1, <2>4
        <3> QED
            BY <1>1, <1>2, <1>5, <2>1, <2>4, <3>1
    <2>5. CASE k # index /\ q # index /\ q # p
        BY <1>5, <1>7, <1>8, <2>1, <2>5
    <2> QED
        BY <2>2, <2>3, <2>4, <2>5
<1>9. ASSUME NEW g \in 0 .. n - 1, NEW k \in 0 .. n - 1, ChildOf(p, g), ChildOf(k, p)
      PROVE  c'[g + 1] > c'[k + 1]
    <2>1. /\ g \in Nat /\ k \in Nat /\ g + 1 \in 1 .. n /\ k + 1 \in 1 .. n
          /\ index + 1 \in 1 .. n /\ p + 1 \in 1 .. n /\ g < p /\ p < k
        BY <1>1, <1>4, <1>9 DEF ChildOf
    <2>2. c'[g + 1] = c[g + 1] /\ c[g + 1] > c[p + 1]
        BY <1>3, <1>4, <1>5, <1>7, <1>9, <2>1
    <2>3. c'[k + 1] <= c[p + 1] /\ c'[k + 1] \in Nat
        <3>1. CASE k = index
            BY <1>1, <1>5, <2>1, <3>1
        <3>2. CASE k # index
            BY <1>1, <1>4, <1>5, <1>7, <1>9, <2>1, <3>2
        <3> QED
            BY <3>1, <3>2
    <2> QED
        BY <1>1, <2>1, <2>2, <2>3
<1>10. Rising'
    BY <1>2, <1>3, <1>4, <1>5, <1>8, <1>9 DEF Rising, Ordered, Bridged
<1>11. Queued' = Queued
    BY <1>1, <1>2, <1>4, SwappedSet DEF Queued
<1> QED
    BY <1>2, <1>5, <1>6, <1>10, <1>11 DEF HeapIInv

(* When it stops, it is in order with its parent too.                      *)
LEMMA SiftUpDoneStep ==
    ASSUME HeapIInv, SiftUpDone
    PROVE  HeapIInv' /\ Queued' = Queued
<1> DEFINE n == Len(c)
<1>1. /\ HeapTypeOK /\ NoRepetition /\ Rising /\ n \in Nat /\ index \in Nat /\ index < n
      /\ \A i \in 1 .. n : c[i] \in Nat
    BY Elements DEF HeapIInv, SiftUpDone, HeapTypeOK, Rising
<1>2. /\ loop = "up" /\ loop' = "idle" /\ first' = 0 /\ index' = 0 /\ UNCHANGED <<c, out>>
      /\ index > 0 => ~(c[Parent + 1] < c[index + 1])
    BY DEF SiftUpDone, ParentLess, compare_LT
<1>3. ASSUME NEW q \in 0 .. n - 1, ChildOf(index, q)
      PROVE  c[q + 1] > c[index + 1]
    <2>1. index > 0 /\ Parent = q /\ q < index
        BY <1>1, <1>3, Parents DEF ChildOf
    <2>2. c[q + 1] # c[index + 1]
        BY <1>1, <2>1 DEF NoRepetition
    <2> QED
        BY <1>1, <1>2, <2>1, <2>2
<1>4. Ordered(n, {}, {})
    BY <1>1, <1>3 DEF Rising, Ordered
<1>5. Ordered(n, {}, {})'
    BY <1>2, <1>4 DEF Ordered
<1>6. HeapTypeOK' /\ NoRepetition'
    BY <1>1, <1>2, ElemAssumption DEF HeapTypeOK, NoRepetition
<1> QED
    BY <1>2, <1>5, <1>6 DEF HeapIInv, Queued

-----------------------------------------------------------------------------
(* pop and remove: the element taken out goes to the end, the last one to  *)
(* its place.                                                              *)

(* Once an element has changed places with the last one, the others are    *)
(* those in front.                                                         *)
LEMMA LastTakenOut ==
    ASSUME HeapTypeOK, NoRepetition, NEW i \in 0 .. Len(c) - 1,
           c' = Swap(c, i, Len(c) - 1)
    PROVE  ToSet(Front(c')) = ToSet(c) \ {c[i + 1]}
<1> DEFINE n == Len(c)
<1>1. c \in Seq(Elem) /\ n \in Nat /\ n > 0 /\ n - 1 \in 0 .. n - 1
    BY DEF HeapTypeOK
<1>2. /\ c' \in Seq(Elem) /\ Len(c') = n /\ NoRepetition'
      /\ c'[n - 1 + 1] = c[i + 1]
    BY <1>1, Swapped
<1>3. ToSet(c') = ToSet(c)
    BY <1>1, SwappedSet
<1>4. c'[n] = c[i + 1]
    BY <1>1, <1>2
<1>5. Len(c') > 0 /\ Len(c') - 1 = n - 1 /\ DOMAIN c' = 1 .. n
    BY <1>1, <1>2
<1>6. ToSet(Front(c')) = {c'[k] : k \in 1 .. Len(c') - 1}
    BY <1>2, <1>5, InFront
<1>7. ToSet(Front(c')) = {c'[k] : k \in 1 .. n - 1}
    BY <1>5, <1>6
<1>8. ToSet(c') = {c'[k] : k \in 1 .. n}
    BY <1>5, ValuesOf
<1>9. \A k \in 1 .. n - 1 : k \in 1 .. n /\ c'[k] # c[i + 1]
    BY <1>1, <1>2, <1>4 DEF NoRepetition
<1>10. \A k \in 1 .. n : k = n \/ k \in 1 .. n - 1
    BY <1>1
<1>11. ASSUME NEW k \in 1 .. n - 1
       PROVE  c'[k] \in ToSet(c') \ {c[i + 1]}
    BY <1>8, <1>9
<1>12. ASSUME NEW k \in 1 .. n, c'[k] # c[i + 1]
       PROVE  c'[k] \in ToSet(Front(c'))
    BY <1>4, <1>7, <1>10, <1>12
<1>13. ToSet(Front(c')) \subseteq ToSet(c') \ {c[i + 1]}
    BY <1>7, <1>11
<1>14. ToSet(c') \ {c[i + 1]} \subseteq ToSet(Front(c'))
    BY <1>8, <1>12
<1> QED
    BY <1>3, <1>13, <1>14

(* When the greatest one is taken out, the whole rest is repaired.         *)
LEMMA TopTaken ==
    ASSUME HeapTypeOK, NoRepetition, Ordered(Len(c), {}, {}), Len(c) > 0,
           c' = Swap(c, 0, Len(c) - 1), first' = 0, index' = 0
    PROVE  Sinking'
<1> DEFINE n == Len(c)
<1>1. n \in Nat /\ n > 0 /\ 0 \in 0 .. n - 1 /\ n - 1 \in 0 .. n - 1
    BY Elements
<1>2. /\ c' \in Seq(Elem) /\ Len(c') = n
      /\ \A k \in 0 .. n - 1 : k # 0 /\ k # n - 1 => c'[k + 1] = c[k + 1]
    BY <1>1, Swapped
<1>3. ASSUME NEW p \in 0 .. n - 2, NEW k \in 0 .. n - 2, ChildOf(k, p), p # 0
      PROVE  c'[p + 1] > c'[k + 1]
    <2>1. p \in 0 .. n - 1 /\ k \in 0 .. n - 1 /\ k # 0 /\ k # n - 1 /\ p # n - 1
        BY <1>1, <1>3 DEF ChildOf
    <2>2. c[p + 1] > c[k + 1]
        BY <1>1, <1>3, <2>1 DEF Ordered
    <2> QED
        BY <1>2, <1>3, <2>1, <2>2
<1>4. Ordered(n - 1, {index}, {})'
    BY <1>1, <1>2, <1>3 DEF Ordered
<1>5. Bridged(n - 1)'
    BY <1>1 DEF Bridged, ChildOf
<1>6. c' # <<>>
    BY <1>1, <1>2
<1> QED
    BY <1>2, <1>4, <1>5, <1>6 DEF Sinking

(* pop takes the greatest element.                                         *)
LEMMA PopStep ==
    ASSUME HeapIInv, pop
    PROVE  /\ HeapIInv'
           /\ Queued' = Queued \ {c[1]} /\ c[1] \in Queued /\ out' = c[1]
           /\ \A f \in Queued : f <= c[1]
<1> DEFINE n == Len(c)
<1>1. /\ HeapTypeOK /\ NoRepetition /\ Ordered(n, {}, {}) /\ n \in Nat /\ n > 0 /\ n <= MaxLen
      /\ c \in Seq(Elem) /\ \A i \in 1 .. n : c[i] \in Elem /\ c[i] \in Nat
    BY Elements DEF HeapIInv, pop, HeapTypeOK
<1>2. /\ out' = c[1] /\ c' = Swap(c, 0, n - 1) /\ loop' = "pop" /\ first' = 0 /\ index' = 0
      /\ loop = "idle"
    BY DEF pop
<1>3. 0 \in 0 .. n - 1 /\ n - 1 \in 0 .. n - 1
    BY <1>1
<1>4. /\ c' \in Seq(Elem) /\ Len(c') = n /\ NoRepetition'
      /\ c'[0 + 1] = c[n - 1 + 1] /\ c'[n - 1 + 1] = c[0 + 1]
      /\ \A k \in 0 .. n - 1 : k # 0 /\ k # n - 1 => c'[k + 1] = c[k + 1]
    BY <1>1, <1>2, <1>3, Swapped
<1>5. HeapTypeOK'
    BY <1>1, <1>2, <1>4, ElemAssumption DEF HeapTypeOK
<1>6. Sinking'
    BY <1>1, <1>2, TopTaken
<1>7. HeapIInv'
    BY <1>2, <1>4, <1>5, <1>6 DEF HeapIInv
<1>8. Queued = {c[i] : i \in 1 .. n} /\ Queued' = ToSet(Front(c'))
    BY <1>1, <1>2 DEF Queued, ToSet
<1>9. Queued' = Queued \ {c[1]}
    <2>1. ToSet(Front(c')) = ToSet(c) \ {c[0 + 1]}
        BY <1>1, <1>2, <1>3, LastTakenOut
    <2> QED
        BY <1>1, <1>2, <1>8, <2>1 DEF Queued
<1>10. c[1] \in Queued /\ \A f \in Queued : f <= c[1]
    <2>1. n \in 0 .. Len(c)
        BY <1>1
    <2>2. \A i \in 1 .. n : c[i] <= c[1]
        BY <1>1, <2>1, Greatest
    <2>3. 1 \in 1 .. n
        BY <1>1
    <2> QED
        BY <1>8, <2>2, <2>3
<1> QED
    BY <1>2, <1>7, <1>9, <1>10

(* The front part of a heap is a heap.                                     *)
LEMMA RemoveLastStep ==
    ASSUME HeapIInv, NEW e \in Elem, removeLast(e)
    PROVE  /\ HeapIInv'
           /\ Queued' = Queued \ {e} /\ e \in Queued /\ UNCHANGED out
<1> DEFINE n == Len(c)
<1>1. /\ HeapTypeOK /\ NoRepetition /\ Ordered(n, {}, {}) /\ n \in Nat /\ n > 0 /\ n <= MaxLen
      /\ c \in Seq(Elem) /\ MaxLen \in Nat
    BY Elements, ElemAssumption DEF HeapIInv, removeLast, HeapTypeOK
<1>2. /\ loop = "idle" /\ c' = Front(c) /\ UNCHANGED <<loop, first, index, out>>
      /\ e = c[n]
    BY <1>1 DEF removeLast, Last
<1>3. /\ c' \in Seq(Elem) /\ Len(c') = n - 1
      /\ \A k \in 1 .. n - 1 : c'[k] = c[k]
      /\ ToSet(c') = {c[k] : k \in 1 .. n - 1}
    BY <1>1, <1>2, InFront
<1>4. HeapTypeOK'
    <2>1. Len(c') <= MaxLen
        BY <1>1, <1>3, ElemAssumption
    <2> QED
        BY <1>1, <1>2, <1>3, <2>1 DEF HeapTypeOK
<1>5. NoRepetition'
    <2>1. \A k \in 1 .. n - 1 : k \in 1 .. n
        BY <1>1
    <2> QED
        BY <1>1, <1>3, <2>1 DEF NoRepetition
<1>6. Ordered(Len(c), {}, {})'
    <2>1. ASSUME NEW p \in 0 .. n - 2, NEW k \in 0 .. n - 2, ChildOf(k, p)
          PROVE  c'[p + 1] > c'[k + 1]
        <3>1. p + 1 \in 1 .. n - 1 /\ k + 1 \in 1 .. n - 1 /\ p \in 0 .. n - 1 /\ k \in 0 .. n - 1
            BY <1>1
        <3>2. c[p + 1] > c[k + 1]
            BY <1>1, <2>1, <3>1 DEF Ordered
        <3> QED
            BY <1>3, <3>1, <3>2
    <2>2. Len(c') - 1 = n - 2
        BY <1>1, <1>3
    <2> QED
        BY <2>1, <2>2 DEF Ordered
<1>7. HeapIInv'
    BY <1>2, <1>4, <1>5, <1>6 DEF HeapIInv
<1>8. Queued = ToSet(c) /\ ToSet(c) = {c[k] : k \in 1 .. n} /\ Queued' = ToSet(c')
    BY <1>1, <1>2 DEF Queued, ToSet
<1>9. \A k \in 1 .. n - 1 : k \in 1 .. n /\ c[k] # e
    BY <1>1, <1>2 DEF NoRepetition
<1>10. n \in 1 .. n /\ \A k \in 1 .. n : k = n \/ k \in 1 .. n - 1
    BY <1>1
<1>11. e \in Queued
    BY <1>2, <1>8, <1>10
<1>12. Queued' \subseteq Queued \ {e}
    BY <1>3, <1>8, <1>9
<1>13. ASSUME NEW k \in 1 .. n, c[k] # e
       PROVE  c[k] \in Queued'
    BY <1>2, <1>3, <1>8, <1>10, <1>13
<1>14. Queued \ {e} \subseteq Queued'
    BY <1>8, <1>13
<1> QED
    BY <1>2, <1>7, <1>11, <1>12, <1>14

(* remove of an element in the middle, in a short queue, or of the top.    *)
LEMMA RemoveStep ==
    ASSUME HeapIInv, NEW e \in Elem, remove(e), Len(c) <= 5 \/ e = c[1]
    PROVE  /\ HeapIInv'
           /\ Queued' = Queued \ {e} /\ e \in Queued /\ UNCHANGED out
<1> DEFINE n == Len(c)
<1>1. /\ HeapTypeOK /\ NoRepetition /\ Ordered(n, {}, {}) /\ n \in Nat /\ n <= MaxLen
      /\ c \in Seq(Elem) /\ \A i \in 1 .. n : c[i] \in Nat
    BY Elements DEF HeapIInv, remove, HeapTypeOK
<1>2. PICK i \in 0 .. n - 2 : c[i + 1] = e /\ c' = Swap(c, i, n - 1) /\ first' = i
    BY DEF remove
<1>3. loop = "idle" /\ loop' = "remove" /\ index' = 0 /\ UNCHANGED out
    BY DEF remove
<1>4. i \in 0 .. n - 1 /\ n - 1 \in 0 .. n - 1 /\ i # n - 1 /\ n > 1 /\ i + 1 \in 1 .. n
    BY <1>1, <1>2
<1>5. /\ c' \in Seq(Elem) /\ Len(c') = n /\ NoRepetition'
      /\ c'[i + 1] = c[n - 1 + 1] /\ c'[n - 1 + 1] = c[i + 1]
      /\ \A k \in 0 .. n - 1 : k # i /\ k # n - 1 => c'[k + 1] = c[k + 1]
    BY <1>1, <1>2, <1>4, Swapped
<1>6. HeapTypeOK'
    BY <1>1, <1>2, <1>3, <1>5, ElemAssumption DEF HeapTypeOK
<1>7. ASSUME i = 0 PROVE Sinking'
    BY <1>1, <1>2, <1>3, <1>4, <1>7, TopTaken
<1>8. ASSUME i > 0 PROVE Middle'
    <2>1. n <= 5
        <3>1. e # c[1]
            BY <1>1, <1>2, <1>4, <1>8 DEF NoRepetition
        <3> QED
            BY <3>1
    <2>2. \A k \in 1 .. n - 1 : c[1] > c[k + 1]
        <3>1. n \in 0 .. Len(c) /\ n > 0
            BY <1>1, <1>4
        <3>2. \A k \in 1 .. n : c[k] <= c[1]
            BY <1>1, <3>1, Greatest
        <3>3. ASSUME NEW k \in 1 .. n - 1 PROVE c[1] > c[k + 1]
            <4>1. k + 1 \in 1 .. n /\ 1 \in 1 .. n /\ k + 1 # 1
                BY <1>1
            <4> QED
                BY <1>1, <3>2, <4>1 DEF NoRepetition
        <3> QED
            BY <3>3
    <2>3. c'[1] = c[1]
        BY <1>4, <1>5, <1>8
    <2>4. \A k \in 1 .. n - 2 : c'[1] > c'[k + 1]
        <3>1. ASSUME NEW k \in 1 .. n - 2 PROVE c'[1] > c'[k + 1]
            <4>1. k \in 0 .. n - 1 /\ k # n - 1 /\ k \in 1 .. n - 1 /\ n - 1 \in 1 .. n - 1
                BY <1>1, <1>4
            <4> QED
                BY <1>5, <2>2, <2>3, <4>1
        <3> QED
            BY <3>1
    <2>5. ASSUME n = 5
          PROVE  /\ i = 1 \/ c'[2] > c'[4]
                 /\ i = 2 => c'[2] > c'[3]
        <3>1. c[2] > c[4] /\ c[2] > c[5]
            <4>1. ChildOf(3, 1) /\ ChildOf(4, 1)
                BY DEF ChildOf
            <4>2. 1 \in 0 .. n - 1 /\ 3 \in 0 .. n - 1 /\ 4 \in 0 .. n - 1
                BY <2>5
            <4>3. c[1 + 1] > c[3 + 1] /\ c[1 + 1] > c[4 + 1]
                BY <1>1, <4>1, <4>2 DEF Ordered
            <4> QED
                BY <4>3
        <3>2. i \in {1, 2, 3} /\ c'[i + 1] = c[5]
            BY <1>2, <1>5, <1>8, <2>5
        <3>3. /\ i # 1 => c'[1 + 1] = c[1 + 1]
              /\ i # 3 => c'[3 + 1] = c[3 + 1]
            <4>1. 1 \in 0 .. n - 1 /\ 3 \in 0 .. n - 1 /\ 1 # n - 1 /\ 3 # n - 1
                BY <2>5
            <4> QED
                BY <1>5, <4>1
        <3> QED
            BY <3>1, <3>2, <3>3
    <2>6. /\ Len(c') = n /\ n - 1 <= 4 /\ first' > 0 /\ first' + index' < n - 1
          /\ n - 1 = 4 => /\ (first' = 1 /\ index' = 0) \/ c'[2] > c'[4]
                          /\ first' = 2 /\ index' = 0 => c'[2] > c'[3]
        BY <1>1, <1>2, <1>3, <1>4, <1>5, <1>8, <2>1, <2>5
    <2>7. \A k \in 1 .. (n - 1) - 1 : c'[1] > c'[k + 1]
        BY <1>1, <2>4
    <2> HIDE DEF n
    <2> QED
        BY <2>6, <2>7 DEF Middle
<1>9. HeapIInv'
    BY <1>2, <1>3, <1>4, <1>5, <1>6, <1>7, <1>8 DEF HeapIInv
<1>10. Queued = {c[k] : k \in 1 .. n} /\ Queued = ToSet(c) /\ Queued' = ToSet(Front(c'))
    BY <1>1, <1>3 DEF Queued, ToSet
<1>11. ToSet(Front(c')) = ToSet(c) \ {c[i + 1]}
    BY <1>1, <1>2, <1>4, LastTakenOut
<1>12. e \in Queued
    BY <1>2, <1>4, <1>10
<1> QED
    BY <1>2, <1>3, <1>9, <1>10, <1>11, <1>12
-----------------------------------------------------------------------------
(* pop_heap: the element that took the place of the one taken out moves    *)
(* down.                                                                   *)

(* Child is the greater child of the element that moves.                   *)
LEMMA Children ==
    ASSUME HeapTypeOK, NoRepetition, first = 0, 2 * index + 1 < Len(c) - 1
    PROVE  /\ Child \in 0 .. Len(c) - 2 /\ ChildOf(Child, index) /\ Child > index
           /\ \A k \in 0 .. Len(c) - 2 :
                 ChildOf(k, index) => k = Child \/ c[Child + 1] > c[k + 1]
<1> DEFINE n == Len(c)
           l == 2 * index + 1
<1>1. /\ n \in Nat /\ index \in Nat /\ l \in 0 .. n - 2 /\ l + 1 \in 1 .. n
      /\ \A i \in 1 .. n : c[i] \in Nat
    BY Elements DEF HeapTypeOK
<1>2. Child = IF l + 1 < n - 1 /\ c[l + 1] < c[l + 1 + 1] THEN l + 1 ELSE l
    BY <1>1 DEF Child, At, new_last_index, compare_LT
<1> HIDE DEF Child
<1>3. Child \in 0 .. n - 2 /\ ChildOf(Child, index) /\ Child > index
    BY <1>1, <1>2 DEF ChildOf
<1>4. ASSUME NEW k \in 0 .. n - 2, ChildOf(k, index), k # Child
      PROVE  c[Child + 1] > c[k + 1]
    <2>1. k = l \/ k = l + 1
        BY <1>1, <1>4 DEF ChildOf
    <2>2. CASE k = l
        BY <1>1, <1>2, <1>4, <2>2
    <2>3. CASE k = l + 1
        <3>1. Child = l /\ l + 1 < n - 1 /\ ~(c[l + 1] < c[l + 1 + 1])
            BY <1>1, <1>2, <1>4, <2>3
        <3>2. l + 1 + 1 \in 1 .. n /\ l + 1 \in 1 .. n /\ l + 1 # l + 1 + 1
            BY <1>1, <3>1
        <3>3. c[l + 1] # c[l + 1 + 1]
            BY <1>1, <3>2 DEF NoRepetition
        <3> QED
            BY <1>1, <2>3, <3>1, <3>2, <3>3
    <2> QED
        BY <2>1, <2>2, <2>3
<1> QED
    BY <1>3, <1>4

(* The greater child takes the place of its parent.                        *)
LEMMA SinkingStep ==
    ASSUME HeapTypeOK, NoRepetition, Sinking, SiftDown
    PROVE  /\ Sinking'
           /\ index \in 0 .. Len(c) - 2 /\ Child \in 0 .. Len(c) - 2
<1> DEFINE n == Len(c) - 1
           d == Child
<1>1. /\ Len(c) \in Nat /\ n \in Nat /\ index \in Nat /\ first = 0 /\ c \in Seq(Elem)
      /\ \A i \in 1 .. Len(c) : c[i] \in Nat
      /\ Ordered(n, {index}, {}) /\ Bridged(n)
    BY Elements DEF HeapTypeOK, Sinking
<1>2. 2 * index + 1 < n
    BY <1>1 DEF SiftDown, ChildGreater, new_last_index
<1>3. /\ d \in 0 .. n - 1 /\ ChildOf(d, index) /\ d > index
      /\ \A k \in 0 .. n - 1 : ChildOf(k, index) => k = d \/ c[d + 1] > c[k + 1]
    BY <1>1, <1>2, Children
<1>4. /\ c[first + index + 1] < c[first + d + 1] /\ c' = Swap(c, first + index, first + d)
       /\ index' = d /\ first' = 0
    BY <1>1 DEF SiftDown, ChildGreater, At, compare_LT
<1>5. c[index + 1] < c[d + 1] /\ c' = Swap(c, index, d)
    <2>1. first + index = index /\ first + d = d
        BY <1>1, <1>3
    <2> HIDE DEF d
    <2> QED
        BY <1>4, <2>1
<1> HIDE DEF d
<1>6. index \in 0 .. n - 1 /\ index \in 0 .. Len(c) - 1 /\ d \in 0 .. Len(c) - 1
    BY <1>1, <1>3
<1>7. /\ Len(c') = Len(c) /\ c' \in Seq(Elem)
      /\ c'[index + 1] = c[d + 1] /\ c'[d + 1] = c[index + 1]
      /\ \A k \in 0 .. Len(c) - 1 : k # index /\ k # d => c'[k + 1] = c[k + 1]
    BY <1>1, <1>5, <1>6, Swapped
<1>8. /\ \A k \in 0 .. n - 1 : k \in 0 .. Len(c) - 1 /\ k \in Nat /\ c[k + 1] \in Nat
      /\ \A k \in 0 .. n - 1 : k # index /\ k # d => c'[k + 1] = c[k + 1]
    <2>1. \A k \in 0 .. n - 1 : k \in 0 .. Len(c) - 1 /\ k + 1 \in 1 .. Len(c)
        BY <1>1
    <2> QED
        BY <1>1, <1>7, <2>1
<1>9. /\ \A p, k \in 0 .. n - 1 : ChildOf(k, p) /\ p # index => c[p + 1] > c[k + 1]
      /\ \A p \in 0 .. n - 1 : ChildOf(index, p) => c[p + 1] > c[d + 1]
    BY <1>1, <1>3, <1>6 DEF Ordered, Bridged
<1>10. ASSUME NEW p \in 0 .. n - 1, NEW k \in 0 .. n - 1, ChildOf(k, p), p # d
      PROVE  c'[p + 1] > c'[k + 1]
    <2>1. CASE p = index
        <3>1. CASE k = d
            BY <1>3, <1>5, <1>6, <1>7, <1>8, <2>1, <3>1
        <3>2. CASE k # d
            <4>1. k # index
                BY <1>8, <1>10, <2>1 DEF ChildOf
            <4> QED
                BY <1>3, <1>7, <1>8, <1>10, <2>1, <3>2, <4>1
        <3> QED
            BY <3>1, <3>2
    <2>2. CASE p # index /\ k = index
        <3>1. c'[p + 1] = c[p + 1]
            BY <1>8, <1>10, <2>2
        <3> QED
            BY <1>7, <1>9, <1>10, <2>2, <3>1
    <2>3. CASE p # index /\ k # index
        <3>1. k # d
            BY <1>1, <1>3, <1>8, <1>10, <2>3 DEF ChildOf
        <3>2. c'[p + 1] = c[p + 1] /\ c'[k + 1] = c[k + 1]
            BY <1>8, <1>10, <2>3, <3>1
        <3> QED
            BY <1>9, <1>10, <2>3, <3>2
    <2> QED
        BY <2>1, <2>2, <2>3
<1>11. ASSUME NEW p \in 0 .. n - 1, NEW k \in 0 .. n - 1, ChildOf(d, p), ChildOf(k, d)
      PROVE  c'[p + 1] > c'[k + 1]
    <2>1. p = index
        BY <1>1, <1>3, <1>8, <1>11 DEF ChildOf
    <2>2. k # index /\ k # d /\ d # index
        BY <1>1, <1>3, <1>8, <1>11 DEF ChildOf
    <2>3. c'[k + 1] = c[k + 1] /\ c[d + 1] > c[k + 1]
        BY <1>3, <1>8, <1>9, <1>11, <2>2
    <2> QED
        BY <1>7, <2>1, <2>3
<1>12. Ordered(n, {index}, {})' /\ Bridged(n)'
    BY <1>1, <1>4, <1>7, <1>10, <1>11 DEF Ordered, Bridged
<1>13. c' # <<>>
    BY <1>1, <1>6, <1>7
<1>14. index' < Len(c') - 1
    BY <1>1, <1>3, <1>4, <1>7
<1>15. Sinking'
    BY <1>4, <1>12, <1>13, <1>14 DEF Sinking
<1> QED
    BY <1>3, <1>6, <1>15 DEF d

(* In a short queue one swap is all there is.                              *)
LEMMA MiddleStep ==
    ASSUME HeapTypeOK, NoRepetition, Middle, SiftDown
    PROVE  /\ Middle' /\ first > 0 /\ Child \in {1, 2}
           /\ first + index \in 0 .. Len(c) - 2 /\ first + Child \in 0 .. Len(c) - 2
<1> DEFINE n == Len(c) - 1
<1>1. /\ Len(c) \in Nat /\ n \in Nat /\ index \in Nat /\ first \in Nat /\ first > 0 /\ n <= 4
      /\ c \in Seq(Elem) /\ \A i \in 1 .. Len(c) : c[i] \in Nat
      /\ \A i \in 1 .. n - 1 : c[1] > c[i + 1]
      /\ n = 4 /\ first = 2 /\ index = 0 => c[2] > c[3]
    BY Elements DEF HeapTypeOK, Middle
<1>2. /\ 2 * index + 1 < n - first /\ c[first + index + 1] < c[first + Child + 1]
      /\ c' = Swap(c, first + index, first + Child) /\ index' = Child /\ first' = first
    BY <1>1 DEF SiftDown, ChildGreater, At, new_last_index, compare_LT
<1>3. Child = IF 2 < n - first /\ c[first + 2] < c[first + 3] THEN 2 ELSE 1
    <2>1. index = 0
        BY <1>1, <1>2
    <2> QED
        BY <1>1, <2>1 DEF Child, At, new_last_index, compare_LT
<1>4. index = 0 /\ 1 < n - first /\ (Child = 1 \/ (Child = 2 /\ 2 < n - first))
    <2>1. index = 0 /\ 1 < n - first
        BY <1>1, <1>2
    <2> QED
        BY <1>3, <2>1
<1>5. /\ index = 0 /\ Child \in {1, 2} /\ first + Child < n
      /\ first \in {1, 2} /\ n \in {3, 4}
    <2>1. first \in {1, 2} /\ n \in {3, 4}
        <3>1. first \in Nat /\ first > 0 /\ n \in Nat /\ n <= 4 /\ 1 < n - first
            BY <1>1, <1>4
        <3> HIDE DEF n
        <3> QED
            BY <3>1
    <2>2. Child \in {1, 2} /\ first + Child < n
        <3>1. CASE Child = 1
            BY <1>1, <1>4, <3>1
        <3>2. CASE Child = 2 /\ 2 < n - first
            BY <1>1, <3>2
        <3> QED
            BY <1>4, <3>1, <3>2
    <2> QED
        BY <1>4, <2>1, <2>2
<1>6. first + index \in 0 .. Len(c) - 1 /\ first + Child \in 0 .. Len(c) - 1
    BY <1>1, <1>5
<1> HIDE DEF Child
<1>7. /\ Len(c') = Len(c)
      /\ c'[first + 1] = c[first + Child + 1] /\ c'[first + Child + 1] = c[first + 1]
      /\ \A k \in 0 .. Len(c) - 1 : k # first /\ k # first + Child => c'[k + 1] = c[k + 1]
    BY <1>1, <1>2, <1>5, <1>6, Swapped
<1>8. c'[1] = c[1]
    <2>1. 0 \in 0 .. Len(c) - 1 /\ 0 # first /\ 0 # first + Child
        BY <1>1, <1>5
    <2> QED
        BY <1>7, <2>1
<1>9. ASSUME NEW i \in 1 .. n - 1
      PROVE  c'[1] > c'[i + 1]
    <2>1. first \in 1 .. n - 1 /\ first + Child \in 1 .. n - 1 /\ i \in 0 .. Len(c) - 1
        BY <1>1, <1>5
    <2>2. c'[i + 1] \in {c[first + Child + 1], c[first + 1], c[i + 1]}
        BY <1>7, <2>1
    <2>3. c[1] > c[first + Child + 1] /\ c[1] > c[first + 1] /\ c[1] > c[i + 1]
        <3>1. \A k \in 1 .. n - 1 : c[1] > c[k + 1]
            BY <1>1
        <3> HIDE DEF n
        <3> QED
            BY <2>1, <3>1
    <2> QED
        BY <1>8, <2>2, <2>3
<1>10. ASSUME n = 4
      PROVE  c'[2] > c'[4]
    <2>1. c[2] \in Nat /\ c[3] \in Nat /\ c[4] \in Nat /\ c[3] # c[4]
        <3>1. Len(c) = 5
            BY <1>1, <1>10
        <3>2. 2 \in 1 .. Len(c) /\ 3 \in 1 .. Len(c) /\ 4 \in 1 .. Len(c)
            BY <3>1
        <3> QED
            BY <1>1, <3>2 DEF NoRepetition
    <2>2. CASE first = 1
        <3>1. CASE Child = 1
            <4>1. c'[2] = c[3] /\ c'[3] = c[2] /\ ~(c[3] < c[4])
                BY <1>3, <1>7, <1>10, <2>2, <3>1
            <4>2. 3 \in 0 .. Len(c) - 1 /\ 3 # first /\ 3 # first + Child
                BY <1>10, <2>2, <3>1
            <4>3. c'[3 + 1] = c[3 + 1]
                BY <1>7, <4>2
            <4> QED
                BY <2>1, <4>1, <4>3
        <3>2. CASE Child = 2
            BY <1>2, <1>5, <1>7, <2>1, <2>2, <3>2
        <3> QED
            BY <1>5, <3>1, <3>2
    <2>3. CASE first = 2
        <3>1. Child = 1
            BY <1>1, <1>5, <1>10, <2>3
        <3>2. c'[4] = c[3] /\ c[2] > c[3]
            BY <1>1, <1>5, <1>7, <1>10, <2>3, <3>1
        <3>3. 1 \in 0 .. Len(c) - 1 /\ 1 # first /\ 1 # first + Child
            BY <1>10, <2>3, <3>1
        <3>4. c'[1 + 1] = c[1 + 1]
            BY <1>7, <3>3
        <3> QED
            BY <3>2, <3>4
    <2> QED
        BY <1>5, <2>2, <2>3
<1>11. /\ Len(c') - 1 = n /\ n <= 4 /\ first' > 0 /\ first' + index' < n
       /\ index' # 0
    BY <1>1, <1>2, <1>5, <1>7
<1>12. Middle'
    <2> HIDE DEF n
    <2> QED
        BY <1>9, <1>10, <1>11 DEF Middle, n
<1> QED
    BY <1>1, <1>5, <1>12

(* A swap of pop_heap takes nothing in or out of the queue.                *)
LEMMA SiftDownStep ==
    ASSUME HeapIInv, SiftDown
    PROVE  HeapIInv' /\ Queued' = Queued /\ UNCHANGED out
<1>1. /\ HeapTypeOK /\ NoRepetition /\ loop \in {"pop", "remove"} /\ Len(c) \in Nat
      /\ UNCHANGED <<loop, first, out>>
      /\ c' = Swap(c, first + index, first + Child) /\ index' = Child
    BY Elements DEF HeapIInv, SiftDown
<1>2. /\ loop = "pop" => Sinking
      /\ loop = "remove" => Len(c) > 1 /\ (Sinking \/ Middle)
    BY DEF HeapIInv
<1>3. Sinking => /\ Sinking' /\ first = 0
                 /\ index \in 0 .. Len(c) - 2 /\ Child \in 0 .. Len(c) - 2
    BY <1>1, SinkingStep DEF Sinking
<1>4. Middle => /\ Middle' /\ first > 0 /\ Child \in {1, 2}
                /\ first + index \in 0 .. Len(c) - 2 /\ first + Child \in 0 .. Len(c) - 2
    BY <1>1, MiddleStep
<1>5. /\ first + index \in 0 .. Len(c) - 2 /\ first + Child \in 0 .. Len(c) - 2
      /\ Child \in 0 .. Len(c) - 1
    <2>1. CASE Sinking
        <3>1. first = 0 /\ index \in Nat /\ Child \in Nat
            BY <1>1, <1>3, <2>1
        <3> QED
            BY <1>1, <1>3, <2>1, <3>1
    <2>2. CASE Middle
        <3>1. first \in Nat /\ Child \in Nat
            BY <1>1, <1>4, <2>2 DEF HeapTypeOK
        <3> QED
            BY <1>1, <1>4, <2>2, <3>1
    <2> QED
        BY <1>1, <1>2, <2>1, <2>2
<1> HIDE DEF Child
<1>6. first + index \in 0 .. Len(c) - 1 /\ first + Child \in 0 .. Len(c) - 1
    BY <1>1, <1>5
<1>7. c' \in Seq(Elem) /\ Len(c') = Len(c) /\ NoRepetition'
    BY <1>1, <1>6, Swapped
<1>8. HeapTypeOK'
    BY <1>1, <1>5, <1>7, ElemAssumption DEF HeapTypeOK
<1>9. ToSet(Front(c')) = ToSet(Front(c))
    <2>1. first + index < Len(c) - 1 /\ first + Child < Len(c) - 1
        BY <1>1, <1>5
    <2> QED
        BY <1>1, <1>6, <2>1, SwappedSet
<1>10. Queued' = Queued
    BY <1>1, <1>9 DEF Queued
<1> QED
    BY <1>1, <1>2, <1>3, <1>4, <1>7, <1>8, <1>10 DEF HeapIInv

(* When the element stops, the others are a heap.                          *)
LEMMA SinkingDone ==
    ASSUME HeapTypeOK, NoRepetition, Sinking, ~ChildGreater
    PROVE  Ordered(Len(c) - 1, {}, {})
<1> DEFINE n == Len(c) - 1
<1>1. /\ Len(c) \in Nat /\ n \in Nat /\ index \in Nat /\ first = 0
      /\ \A i \in 1 .. Len(c) : c[i] \in Nat
      /\ Ordered(n, {index}, {})
    BY Elements DEF HeapTypeOK, Sinking
<1>2. ASSUME NEW k \in 0 .. n - 1, ChildOf(k, index)
      PROVE  c[index + 1] > c[k + 1]
    <2>1. 2 * index + 1 < n /\ k \in 0 .. Len(c) - 2 /\ index < k
        BY <1>1, <1>2 DEF ChildOf
    <2>2. /\ Child \in 0 .. Len(c) - 2 /\ Child > index
          /\ k = Child \/ c[Child + 1] > c[k + 1]
        BY <1>1, <1>2, <2>1, Children
    <2> HIDE DEF Child
    <2>3. ~(c[first + index + 1] < c[first + Child + 1])
        BY <1>1, <2>1 DEF ChildGreater, At, new_last_index, compare_LT
    <2>4. first + index + 1 = index + 1 /\ first + Child + 1 = Child + 1
        BY <1>1, <2>2
    <2>5. /\ index + 1 \in 1 .. Len(c) /\ Child + 1 \in 1 .. Len(c) /\ k + 1 \in 1 .. Len(c)
          /\ index + 1 # Child + 1
        BY <1>1, <2>1, <2>2
    <2>6. ~(c[index + 1] < c[Child + 1]) /\ c[index + 1] # c[Child + 1]
        BY <2>3, <2>4, <2>5 DEF NoRepetition
    <2> QED
        BY <1>1, <2>2, <2>5, <2>6
<1> QED
    BY <1>1, <1>2 DEF Ordered

(* In a short queue, only the element at first may be out of order.        *)
LEMMA MiddleDone ==
    ASSUME HeapTypeOK, NoRepetition, Middle, ~ChildGreater
    PROVE  LET n == Len(c) - 1
           IN  /\ first > 0 /\ first < n /\ n <= 4
               /\ \A i \in 1 .. n - 1 : c[1] > c[i + 1]
               /\ n = 4 => first = 3 \/ c[2] > c[4]
<1> DEFINE n == Len(c) - 1
<1>1. /\ Len(c) \in Nat /\ n \in Nat /\ index \in Nat /\ first \in Nat /\ first > 0 /\ n <= 4
      /\ first + index < n
      /\ \A i \in 1 .. Len(c) : c[i] \in Nat
      /\ \A i \in 1 .. n - 1 : c[1] > c[i + 1]
      /\ n = 4 => (first = 1 /\ index = 0) \/ c[2] > c[4]
    BY Elements DEF HeapTypeOK, Middle
<1>2. ASSUME n = 4, first = 1, index = 0
      PROVE  c[2] > c[4]
    <2>1. Len(c) = 5 /\ new_last_index = 3
        BY <1>1, <1>2 DEF new_last_index
    <2>2. Child = IF c[3] < c[4] THEN 2 ELSE 1
        BY <1>2, <2>1 DEF Child, At, compare_LT
    <2> HIDE DEF Child
    <2>3. ~(c[2] < c[first + Child + 1])
        BY <1>2, <2>1 DEF ChildGreater, At, compare_LT
    <2>4. /\ c[2] \in Nat /\ c[3] \in Nat /\ c[4] \in Nat
          /\ c[2] # c[3] /\ c[2] # c[4]
        <3>1. 2 \in 1 .. Len(c) /\ 3 \in 1 .. Len(c) /\ 4 \in 1 .. Len(c)
            BY <2>1
        <3> QED
            BY <1>1, <3>1 DEF NoRepetition
    <2>5. CASE c[3] < c[4]
        BY <1>2, <2>2, <2>3, <2>4, <2>5
    <2>6. CASE ~(c[3] < c[4])
        BY <1>2, <2>2, <2>3, <2>4, <2>6
    <2> QED
        BY <2>5, <2>6
<1> QED
    BY <1>1, <1>2

(* What pop_back leaves.                                                   *)
LEMMA PopBack ==
    ASSUME HeapTypeOK, NoRepetition, Len(c) > 0, c' = Front(c)
    PROVE  /\ c' \in Seq(Elem) /\ Len(c') = Len(c) - 1 /\ Len(c') <= MaxLen /\ NoRepetition'
           /\ \A k \in 0 .. Len(c) - 2 : c'[k + 1] = c[k + 1]
<1>1. Len(c) \in Nat /\ MaxLen \in Nat /\ Len(c) <= MaxLen
    BY Elements, ElemAssumption DEF HeapTypeOK
<1>2. /\ c' \in Seq(Elem) /\ Len(c') = Len(c) - 1
      /\ \A i \in 1 .. Len(c) - 1 : c'[i] = c[i]
    <2>1. c \in Seq(Elem)
        BY DEF HeapTypeOK
    <2> QED
        BY <2>1, InFront
<1>3. NoRepetition'
    <2>1. \A k \in 1 .. Len(c) - 1 : k \in 1 .. Len(c)
        BY <1>1
    <2> QED
        BY <1>1, <1>2, <2>1 DEF NoRepetition
<1>4. \A k \in 0 .. Len(c) - 2 : k + 1 \in 1 .. Len(c) - 1
    BY <1>1
<1> QED
    BY <1>1, <1>2, <1>3, <1>4

(* pop_back ends pop with a heap,                                          *)
LEMMA PopDoneStep ==
    ASSUME HeapIInv, popDone
    PROVE  HeapIInv' /\ Queued' = Queued /\ UNCHANGED out
<1> DEFINE n == Len(c) - 1
<1>1. /\ HeapTypeOK /\ NoRepetition /\ Sinking /\ Len(c) \in Nat /\ Len(c) > 0 /\ n \in Nat
    BY Elements DEF HeapIInv, popDone, Sinking
<1>2. /\ loop = "pop" /\ ~ChildGreater /\ c' = Front(c) /\ loop' = "idle" /\ index' = 0
      /\ UNCHANGED <<first, out>>
    BY DEF popDone
<1>3. /\ c' \in Seq(Elem) /\ Len(c') = n /\ Len(c') <= MaxLen /\ NoRepetition'
      /\ \A k \in 0 .. n - 1 : c'[k + 1] = c[k + 1]
    BY <1>1, <1>2, PopBack
<1>4. HeapTypeOK'
    BY <1>1, <1>2, <1>3, ElemAssumption DEF HeapTypeOK
<1>5. Ordered(n, {}, {})
    BY <1>1, <1>2, SinkingDone
<1>6. \A p, k \in 0 .. n - 1 : ChildOf(k, p) => c'[p + 1] > c'[k + 1]
    BY <1>3, <1>5 DEF Ordered
<1>7. Ordered(Len(c), {}, {})'
    <2> HIDE DEF n
    <2> QED
        BY <1>3, <1>6 DEF Ordered
<1>8. Queued' = Queued
    BY <1>2 DEF Queued
<1> QED
    BY <1>2, <1>3, <1>4, <1>7, <1>8 DEF HeapIInv

(* and leaves push_heap one element to move in remove.                     *)
LEMMA RemoveDoneStep ==
    ASSUME HeapIInv, removeDone
    PROVE  HeapIInv' /\ Queued' = Queued /\ UNCHANGED out
<1> DEFINE n == Len(c) - 1
<1>1. /\ HeapTypeOK /\ NoRepetition /\ (Sinking \/ Middle) /\ Len(c) \in Nat /\ Len(c) > 1
      /\ n \in Nat /\ n > 0 /\ first \in Nat /\ first \in 0 .. MaxLen
    BY Elements DEF HeapIInv, removeDone, HeapTypeOK
<1>2. /\ loop = "remove" /\ ~ChildGreater /\ c' = Front(c) /\ loop' = "up" /\ index' = first
      /\ UNCHANGED <<first, out>>
    BY DEF removeDone
<1>3. /\ c' \in Seq(Elem) /\ Len(c') = n /\ Len(c') <= MaxLen /\ NoRepetition'
      /\ \A k \in 0 .. n - 1 : c'[k + 1] = c[k + 1]
    BY <1>1, <1>2, PopBack
<1>4. HeapTypeOK'
    BY <1>1, <1>2, <1>3, ElemAssumption DEF HeapTypeOK
<1>5. ASSUME Sinking PROVE Rising'
    <2>1. Ordered(n, {}, {}) /\ first = 0
        BY <1>1, <1>2, <1>5, SinkingDone DEF Sinking
    <2>2. \A p, k \in 0 .. n - 1 : ChildOf(k, p) => c'[p + 1] > c'[k + 1]
        BY <1>3, <2>1 DEF Ordered
    <2>3. \A p \in 0 .. n - 1 : ~ChildOf(0, p)
        BY <1>1 DEF ChildOf
    <2> HIDE DEF n
    <2> QED
        BY <1>1, <1>2, <1>3, <2>1, <2>2, <2>3 DEF Rising, Ordered, Bridged
<1>6. ASSUME Middle PROVE Rising'
    <2>1. /\ first > 0 /\ first < n /\ n <= 4
          /\ \A i \in 1 .. n - 1 : c[1] > c[i + 1]
          /\ n = 4 => first = 3 \/ c[2] > c[4]
        BY <1>1, <1>2, <1>6, MiddleDone
    <2>2. \A i \in 1 .. n - 1 : c'[1] > c'[i + 1]
        <3>1. 0 \in 0 .. n - 1 /\ \A i \in 1 .. n - 1 : i \in 0 .. n - 1
            BY <1>1
        <3>2. c'[0 + 1] = c[0 + 1]
            BY <1>3, <3>1
        <3> QED
            BY <1>3, <2>1, <3>1, <3>2
    <2>3. n = 4 => first = 3 \/ c'[2] > c'[4]
        <3>1. ASSUME n = 4 PROVE c'[1 + 1] = c[1 + 1] /\ c'[3 + 1] = c[3 + 1]
            <4>1. 1 \in 0 .. n - 1 /\ 3 \in 0 .. n - 1
                BY <3>1
            <4> QED
                BY <1>3, <4>1
        <3> QED
            BY <2>1, <3>1
    <2>4. ASSUME NEW p \in 0 .. n - 1, NEW k \in 0 .. n - 1, ChildOf(k, p), k # first
          PROVE  c'[p + 1] > c'[k + 1]
        <3>1. (p = 0 /\ k \in 1 .. n - 1) \/ (p = 1 /\ k = 3 /\ n = 4)
            <4>1. n \in Nat /\ n <= 4 /\ (k = 2 * p + 1 \/ k = 2 * p + 2)
                BY <1>1, <2>1, <2>4 DEF ChildOf
            <4> HIDE DEF n
            <4> QED
                BY <4>1
        <3> QED
            BY <2>2, <2>3, <2>4, <3>1
    <2>5. ASSUME NEW p \in 0 .. n - 1, NEW k \in 0 .. n - 1, ChildOf(first, p), ChildOf(k, first)
          PROVE  c'[p + 1] > c'[k + 1]
        <3>1. p = 0 /\ k \in 1 .. n - 1
            BY <1>1, <2>1, <2>5 DEF ChildOf
        <3> QED
            BY <2>2, <3>1
    <2> HIDE DEF n
    <2> QED
        BY <1>2, <1>3, <2>1, <2>4, <2>5 DEF Rising, Ordered, Bridged
<1>7. Queued' = Queued
    BY <1>2 DEF Queued
<1> QED
    BY <1>1, <1>2, <1>3, <1>4, <1>5, <1>6, <1>7 DEF HeapIInv
-----------------------------------------------------------------------------
(* The queue.                                                              *)

(* push adds the element to the queue.                                     *)
LEMMA PushQueued ==
    ASSUME HeapTypeOK, NEW e \in Elem, push(e)
    PROVE  e \notin Queued /\ Queued' = Queued \cup {e} /\ UNCHANGED out
<1>1. c \in Seq(Elem) /\ Len(c) \in Nat
    BY DEF HeapTypeOK
<1>2. /\ loop = "idle" /\ loop' = "up" /\ c' = Append(c, e) /\ e \notin ToSet(c)
      /\ UNCHANGED out
    BY DEF push
<1>3. /\ Len(c') = Len(c) + 1 /\ c'[Len(c) + 1] = e
      /\ \A i \in 1 .. Len(c) : c'[i] = c[i]
    BY <1>1, <1>2
<1>4. /\ Queued = {c[i] : i \in 1 .. Len(c)} /\ Queued = ToSet(c)
      /\ Queued' = {c'[i] : i \in 1 .. Len(c) + 1}
    BY <1>2, <1>3 DEF Queued, ToSet
<1>5. /\ Len(c) + 1 \in 1 .. Len(c) + 1
      /\ \A i \in 1 .. Len(c) : i \in 1 .. Len(c) + 1
      /\ \A i \in 1 .. Len(c) + 1 : i = Len(c) + 1 \/ i \in 1 .. Len(c)
    BY <1>1
<1>6. \A i \in 1 .. Len(c) + 1 : c'[i] \in Queued \cup {e}
    BY <1>3, <1>4, <1>5
<1>7. (\A i \in 1 .. Len(c) : c[i] \in Queued') /\ e \in Queued'
    BY <1>3, <1>4, <1>5
<1>8. Queued' \subseteq Queued \cup {e} /\ Queued \cup {e} \subseteq Queued'
    BY <1>4, <1>6, <1>7
<1> QED
    BY <1>2, <1>4, <1>8

(* Every step keeps the invariant and is one of the abstract queue.        *)
LEMMA HeapStep ==
    ASSUME HeapIInv, [HeapNext /\ Short]_heapVars
    PROVE  HeapIInv' /\ [Abstract!Next]_(Abstract!pqVars)
<1>1. ASSUME NEW e \in Elem, push(e)
      PROVE  HeapIInv' /\ Abstract!Next
    <2>1. e \notin Queued /\ Queued' = Queued \cup {e} /\ UNCHANGED out
        BY <1>1, PushQueued DEF HeapIInv
    <2>2. HeapIInv'
        BY <1>1, PushStep
    <2> QED
        BY <2>1, <2>2 DEF Abstract!Next, Abstract!Insert
<1>2. ASSUME NEW e \in Elem, remove(e), Short
      PROVE  HeapIInv' /\ Abstract!Next
    <2>1. Len(c) <= 5 \/ e = c[1]
        BY <1>2 DEF Short
    <2>2. HeapIInv' /\ Queued' = Queued \ {e} /\ e \in Queued /\ UNCHANGED out
        BY <1>2, <2>1, RemoveStep
    <2> QED
        BY <2>2 DEF Abstract!Next, Abstract!Delete
<1>3. ASSUME NEW e \in Elem, removeLast(e)
      PROVE  HeapIInv' /\ Abstract!Next
    <2>1. HeapIInv' /\ Queued' = Queued \ {e} /\ e \in Queued /\ UNCHANGED out
        BY <1>3, RemoveLastStep
    <2> QED
        BY <2>1 DEF Abstract!Next, Abstract!Delete
<1>4. ASSUME pop
      PROVE  HeapIInv' /\ Abstract!Next
    <2>1. /\ HeapIInv' /\ Queued' = Queued \ {c[1]} /\ c[1] \in Queued /\ out' = c[1]
          /\ \A f \in Queued : f <= c[1]
        BY <1>4, PopStep
    <2>2. c[1] \in Elem
        <3>1. HeapTypeOK /\ c # <<>>
            BY <1>4 DEF HeapIInv, pop
        <3>2. Len(c) \in Nat /\ Len(c) # 0 /\ \A i \in 1 .. Len(c) : c[i] \in Elem
            BY <3>1, Elements
        <3> QED
            BY <3>2
    <2> QED
        BY <2>1, <2>2 DEF Abstract!Next, Abstract!PopGreatest
<1>5. ASSUME HeapLoop
      PROVE  HeapIInv' /\ UNCHANGED <<Queued, out>>
    <2>1. CASE SiftUp
        BY <2>1, SiftUpStep DEF SiftUp
    <2>2. CASE SiftUpDone
        BY <2>2, SiftUpDoneStep DEF SiftUpDone
    <2>3. CASE SiftDown
        BY <2>3, SiftDownStep
    <2>4. CASE popDone
        BY <2>4, PopDoneStep
    <2>5. CASE removeDone
        BY <2>5, RemoveDoneStep
    <2> QED
        BY <1>5, <2>1, <2>2, <2>3, <2>4, <2>5 DEF HeapLoop
<1>6. CASE UNCHANGED heapVars
    BY <1>6 DEF heapVars, HeapIInv, HeapTypeOK, NoRepetition, Ordered, Bridged, Rising, Sinking,
       Middle, Queued, Abstract!pqVars
<1> QED
    BY <1>1, <1>2, <1>3, <1>4, <1>5, <1>6 DEF HeapNext, Abstract!pqVars

(* As long as remove is called on at most five elements, or for the        *)
(* greatest one, the vector is a heap whenever no call is running.         *)
THEOREM HeapInvariance ==
    HeapSpec /\ RemovesAreShort => []HeapIInv
<1>1. HeapIInv /\ [HeapNext]_heapVars /\ [Short]_heapVars => HeapIInv'
    BY HeapStep DEF heapVars
<1> QED
    BY <1>1, InitHeap, PTL DEF HeapSpec, RemovesAreShort

(* Then OsclPriorityQueue implements the abstract queue: every pop returns *)
(* the greatest element queued.                                            *)
THEOREM HeapImplements ==
    HeapSpec /\ RemovesAreShort => Implements
<1>1. HeapInit => Abstract!Init
    BY DEF HeapInit, Abstract!Init, Queued, ToSet
<1>2. HeapIInv /\ [HeapNext]_heapVars /\ [Short]_heapVars => [Abstract!Next]_(Abstract!pqVars)
    BY HeapStep DEF heapVars
<1> QED
    BY <1>1, <1>2, HeapInvariance, PTL
       DEF HeapSpec, RemovesAreShort, Implements, Abstract!Spec

(* A queue of at most five elements always implements it.                  *)
THEOREM ShortHeapImplements ==
    MaxLen <= 5 => (HeapSpec => Implements)
<1> SUFFICES ASSUME MaxLen <= 5 PROVE HeapSpec => Implements
    OBVIOUS
<1>1. HeapIInv => Short
    <2> SUFFICES ASSUME HeapIInv PROVE Short
        OBVIOUS
    <2>1. Len(c) \in Nat /\ Len(c) <= MaxLen /\ MaxLen \in Nat
        BY Elements, ElemAssumption DEF HeapIInv, HeapTypeOK
    <2> QED
        BY <2>1 DEF Short
<1>2. HeapIInv /\ [HeapNext]_heapVars => HeapIInv' /\ [Abstract!Next]_(Abstract!pqVars)
    BY <1>1, HeapStep DEF heapVars
<1>3. HeapInit => Abstract!Init
    BY DEF HeapInit, Abstract!Init, Queued, ToSet
<1> QED
    BY <1>2, <1>3, InitHeap, PTL DEF HeapSpec, Implements, Abstract!Spec
=============================================================================
