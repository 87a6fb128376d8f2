--------------------------- MODULE ThreadSafeQueue ---------------------------
(***************************************************************************)
(* ThreadSafeQueue, by which other threads give commands to the player     *)
(* engine: any thread adds data, and the queue's active object tsq tells   *)
(* the observer in the owner's thread.                                     *)
(*                                                                         *)
(* Only a thread that found the queue empty signals the AO, outside the    *)
(* data lock and after it waited for iQueueReadySem; so the AO may run     *)
(* with the data already taken.  The AO is scheduled as ActiveObjects      *)
(* says.                                                                   *)
(***************************************************************************)
EXTENDS Integers, Sequences, FiniteSets

CONSTANTS Adders,   \* threads that call AddToQueue
          AnyThreads, \* whether other threads than the owner may call DeQueue
          Data, NoData,
          MaxLen,   \* bound on the length of the queue
          tsq,      \* the queue's AO
          NoAO      \* "no object"

ASSUME QueueAssumption == /\ IsFiniteSet(Adders)
                          /\ AnyThreads \subseteq BOOLEAN
                          /\ NoData \notin Data
                          /\ MaxLen \in Nat \ {0}

VARIABLES
    iQueue,    \* the data
    readySem,  \* count of iQueueReadySem
    mutex,     \* iQueueMut is locked between two steps of Run
    at,        \* where every adder is
    req,       \* the request of tsq, as in ActiveObjects
    running,   \* the AO inside its Run, as in ActiveObjects
    pc,        \* where tsq is
    got,       \* the data taken out last by the observer
    anyThread  \* other threads call DeQueue, chosen once

scheduled == <<req, running>>
vars == <<iQueue, readySem, mutex, at, scheduled, pc, got, anyThread>>

Sched == INSTANCE ActiveObjects WITH AO <- {tsq}

(* The constructor activates the AO and signals the semaphore.             *)
Init == /\ iQueue = <<>>
        /\ readySem = 1
        /\ mutex = FALSE
        /\ at = [a \in Adders |-> "idle"]
        /\ req = [x \in {tsq} |-> "pending"]
        /\ running = NoAO
        /\ pc = "wait"
        /\ got = NoData
        /\ anyThread \in AnyThreads
-----------------------------------------------------------------------------
SignalsAO == Len(iQueue) + 1 = 1

(* AddToQueue under the lock; MaxLen bounds the vector.                    *)
AddToQueue(a, d) ==
    /\ at[a] = "idle"
    /\ ~mutex
    /\ Len(iQueue) < MaxLen
    /\ iQueue' = Append(iQueue, d)
    /\ at' = [at EXCEPT ![a] = IF SignalsAO THEN "semwait" ELSE "idle"]
    /\ UNCHANGED <<readySem, mutex, scheduled, pc, got, anyThread>>

(* Mutant: the AO is signalled without a wait for it to be ready.          *)
SemWait_Skip(a) ==
    /\ at[a] = "semwait"
    /\ at' = [at EXCEPT ![a] = "complete"]
    /\ UNCHANGED <<iQueue, readySem, mutex, scheduled, pc, got, anyThread>>

SemWait(a) ==
    /\ at[a] = "semwait"
    /\ readySem > 0
    /\ readySem' = readySem - 1
    /\ at' = [at EXCEPT ![a] = "complete"]
    /\ UNCHANGED <<iQueue, mutex, scheduled, pc, got, anyThread>>

(* PendComplete leaves out of AddToQueue if the request is not pending.    *)
PendComplete(a) ==
    /\ at[a] = "complete"
    /\ at' = [at EXCEPT ![a] = "idle"]
    /\ IF req[tsq] = "pending" THEN Sched!Complete(tsq) ELSE UNCHANGED scheduled
    /\ UNCHANGED <<iQueue, readySem, mutex, pc, got, anyThread>>

(* Mutant: the newest item is taken.                                       *)
TakeOut_Newest == /\ ~mutex
                  /\ iQueue # <<>>
                  /\ iQueue' = SubSeq(iQueue, 1, Len(iQueue) - 1)

(* "DeQueue data from any thread."                                         *)
TakeOut == /\ ~mutex
           /\ iQueue # <<>>
           /\ iQueue' = Tail(iQueue)

DeQueueByOther == /\ anyThread
                  /\ TakeOut
                  /\ got' = Head(iQueue)
                  /\ UNCHANGED <<readySem, mutex, at, scheduled, pc, anyThread>>
-----------------------------------------------------------------------------
(* Run: activate again, let the adders signal, and call the observer.      *)

Run == /\ pc = "wait"
       /\ Sched!RunBegins(tsq)
       /\ pc' = "run"
       /\ UNCHANGED <<iQueue, readySem, mutex, at, got, anyThread>>

PendForExec == /\ pc = "run"
               /\ ~mutex
               /\ mutex' = TRUE
               /\ Sched!Activate(tsq)
               /\ pc' = "signal"
               /\ UNCHANGED <<iQueue, readySem, at, got, anyThread>>

(* Mutant: the adders are only told when there is data.                    *)
SignalReady_IfData == /\ pc = "signal"
                      /\ readySem' = IF iQueue = <<>> THEN readySem ELSE readySem + 1
                      /\ mutex' = FALSE
                      /\ pc' = IF iQueue = <<>> THEN "end" ELSE "callback"
                      /\ UNCHANGED <<iQueue, at, scheduled, got, anyThread>>

SignalReady == /\ pc = "signal"
               /\ readySem' = readySem + 1
               /\ mutex' = FALSE
               /\ pc' = IF iQueue = <<>> THEN "end" ELSE "callback"
               /\ UNCHANGED <<iQueue, at, scheduled, got, anyThread>>

(* Mutant: the observer takes one item per notice.                         *)
DataAvailable_One == /\ pc = "callback"
                     /\ ~mutex
                     /\ pc' = "end"
                     /\ IF iQueue = <<>>
                        THEN UNCHANGED <<iQueue, got>>
                        ELSE TakeOut /\ got' = Head(iQueue)
                     /\ UNCHANGED <<readySem, mutex, at, scheduled, anyThread>>

(* "the observer should process the entire queue": the player engine calls *)
(* DeQueue until it returns nothing.                                       *)
DataAvailable ==
    /\ pc = "callback"
    /\ ~mutex
    /\ IF iQueue = <<>>
       THEN pc' = "end" /\ UNCHANGED <<iQueue, got>>
       ELSE TakeOut /\ got' = Head(iQueue) /\ UNCHANGED pc
    /\ UNCHANGED <<readySem, mutex, at, scheduled, anyThread>>

RunReturns == /\ pc = "end"
              /\ Sched!RunEnds
              /\ pc' = "wait"
              /\ got' = NoData
              /\ UNCHANGED <<iQueue, readySem, mutex, at, anyThread>>

Owner == Run \/ PendForExec \/ SignalReady \/ DataAvailable \/ RunReturns
-----------------------------------------------------------------------------
Next == \/ \E a \in Adders : \/ \E d \in Data : AddToQueue(a, d)
                             \/ SemWait(a)
                             \/ PendComplete(a)
        \/ DeQueueByOther
        \/ Owner

Spec == Init /\ [][Next]_vars

(* The scheduler runs a ready AO, Run is straight-line code but for the    *)
(* observer's loop, and a thread that waits on the semaphore gets it if it *)
(* is signalled again and again.                                           *)
Fairness == /\ WF_vars(Owner)
            /\ \A a \in Adders : SF_vars(SemWait(a)) /\ WF_vars(PendComplete(a))

FairSpec == Spec /\ Fairness
-----------------------------------------------------------------------------
TypeOK == /\ iQueue \in Seq(Data)
          /\ Len(iQueue) <= MaxLen
          /\ readySem \in Nat
          /\ mutex \in BOOLEAN
          /\ at \in [Adders -> {"idle", "semwait", "complete"}]
          /\ req \in [{tsq} -> {"idle", "pending", "ready"}]
          /\ running \in {tsq, NoAO}
          /\ pc \in {"wait", "run", "signal", "callback", "end"}
          /\ got \in Data \cup {NoData}
          /\ anyThread \in AnyThreads

(* "this sem is signaled when it's OK to signal the AO": its count, plus   *)
(* the threads that took one and did not signal the AO yet, is 1 exactly   *)
(* while the request is pending, so PendComplete never leaves although     *)
(* nothing guards the AO between the wait and the completion.              *)
Signallers == {a \in Adders : at[a] = "complete"}

ReadyToSignal ==
    readySem + Cardinality(Signallers)
        = IF req[tsq] = "pending" /\ pc # "signal" THEN 1 ELSE 0

(* Data is received once, in the order it was added.                       *)
Channel == INSTANCE BoundedChannel WITH chan <- iQueue, Depth <- MaxLen

DeliversInOrder == Channel!Spec

(* AddToQueue returns although it waits for the AO, provided the loop of   *)
(* the observer ends again and again: while other threads add as fast as   *)
(* it takes data out, the AO is not run and cannot be signalled.           *)
AddReturns ==
    []<>(pc = "wait") => \A a \in Adders : at[a] # "idle" ~> at[a] = "idle"

(* What was added is received by the observer, unless others take it.      *)
DataIsReceived ==
    \A d \in Data :
        ~anyThread /\ (\E i \in 1 .. Len(iQueue) : iQueue[i] = d) ~> got = d
=============================================================================
