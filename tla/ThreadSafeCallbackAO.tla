------------------------ MODULE ThreadSafeCallbackAO ------------------------
(***************************************************************************)
(* ThreadSafeCallbackAO: threads without a scheduler (Senders, the threads *)
(* of the OMX components) queue events to an active object, whose Run      *)
(* processes them in the thread of its scheduler.  The queue is a ring     *)
(* buffer under Mutex; RemoteThreadCtrlSema blocks a sender while it is    *)
(* full.                                                                   *)
(*                                                                         *)
(* The AO cb is scheduled as the module ActiveObjects says.  batch chooses *)
(* the Run of the subclasses in the OMX nodes, which process all events    *)
(* that are queued, over that of the base class, which processes one.      *)
(***************************************************************************)
EXTENDS Integers, Sequences, FiniteSets

CONSTANTS Senders, Data, NoData,
          Depth,   \* MaxNumElements
          Batches, \* the kinds of Run to consider
          cb,      \* this AO
          NoAO     \* "no object"

ASSUME DepthAssumption == Depth \in Nat \ {0}
ASSUME SendersAssumption == IsFiniteSet(Senders) /\ NoData \notin Data
ASSUME BatchAssumption == Batches \subseteq BOOLEAN

VARIABLES
    slot,       \* the ring buffer Q->pFirst
    index_in,   \* where the next event is queued
    index_out,  \* where the next event is taken out
    NumElem,    \* number of events queued
    sema,       \* count of RemoteThreadCtrlSema
    mutex,      \* Mutex is locked between two steps
    at,         \* where every sender is
    event,      \* the event of every sender's call
    req,        \* the request of cb, as in ActiveObjects
    running,    \* the AO inside its Run, as in ActiveObjects
    pc,         \* where cb is
    data,       \* the event Run took out of the queue
    stat,       \* the status DeQueue returned
    batch       \* Run is the one of the OMX nodes' subclasses, chosen once

ring == <<slot, index_in, index_out, NumElem>>
senders == <<at, event>>
scheduled == <<req, running>>
run == <<pc, data, stat>>
vars == <<ring, sema, mutex, senders, scheduled, run, batch>>

Sched == INSTANCE ActiveObjects WITH AO <- {cb}

(* The constructor has run: the queue is empty and cb primed.              *)
Init == /\ slot = [i \in 0 .. Depth - 1 |-> NoData]
        /\ index_in = 0
        /\ index_out = 0
        /\ NumElem = 0
        /\ sema = Depth
        /\ mutex = FALSE
        /\ at = [s \in Senders |-> "idle"]
        /\ event = [s \in Senders |-> NoData]
        /\ req = [a \in {cb} |-> "pending"]
        /\ running = NoAO
        /\ pc = "wait"
        /\ data = NoData
        /\ stat = "success"
        /\ batch \in Batches

RollOver(i) == IF i + 1 = Depth THEN 0 ELSE i + 1
-----------------------------------------------------------------------------
(* The senders.                                                            *)

ReceiveEvent(s, d) ==
    /\ at[s] = "idle"
    /\ at' = [at EXCEPT ![s] = "semawait"]
    /\ event' = [event EXCEPT ![s] = d]
    /\ UNCHANGED <<ring, sema, mutex, scheduled, run, batch>>

SemaWait(s) ==
    /\ at[s] = "semawait"
    /\ sema > 0
    /\ sema' = sema - 1
    /\ at' = [at EXCEPT ![s] = "lock"]
    /\ UNCHANGED <<ring, mutex, event, scheduled, run, batch>>

(* Mutant: cb is signalled when the second event is queued.                *)
SignalsAO_Second == NumElem + 1 = 2

(* "the first event in the queue after the queue was empty".               *)
SignalsAO == NumElem + 1 = 1

(* PendComplete leaves, with Mutex locked, if the request is not pending.  *)
Queue(s) ==
    /\ at[s] = "lock"
    /\ ~mutex
    /\ at' = [at EXCEPT ![s] = "idle"]
    /\ event' = [event EXCEPT ![s] = NoData]
    /\ IF NumElem >= Depth
       THEN /\ sema' = sema + 1
            /\ UNCHANGED <<ring, mutex, scheduled>>
       ELSE /\ slot' = [slot EXCEPT ![index_in] = event[s]]
            /\ index_in' = RollOver(index_in)
            /\ NumElem' = NumElem + 1
            /\ IF SignalsAO
               THEN IF req[cb] = "pending"
                    THEN Sched!Complete(cb) /\ UNCHANGED mutex
                    ELSE mutex' = TRUE /\ UNCHANGED scheduled
               ELSE UNCHANGED <<mutex, scheduled>>
            /\ UNCHANGED <<index_out, sema>>
    /\ UNCHANGED <<run, batch>>
-----------------------------------------------------------------------------
(* The AO.                                                                 *)

Run == /\ pc = "wait"
       /\ Sched!RunBegins(cb)
       /\ pc' = "dequeue"
       /\ UNCHANGED <<ring, sema, mutex, senders, data, stat, batch>>

(* Mutant: the index is not rolled over.                                   *)
TakeOut_NoRollOver ==
    /\ data' = slot[index_out]
    /\ index_out' = IF index_out + 1 < Depth THEN index_out + 1 ELSE index_out
    /\ NumElem' = NumElem - 1
    /\ UNCHANGED <<slot, index_in>>

TakeOut == /\ data' = slot[index_out]
           /\ index_out' = RollOver(index_out)
           /\ NumElem' = NumElem - 1
           /\ UNCHANGED <<slot, index_in>>

(* DeQueue: after the last event cb waits to be signalled; before that the *)
(* base class readies itself again, while the subclasses loop.             *)
DeQueueFails ==
    /\ stat' = "failure"
    /\ pc' = "end"
    /\ UNCHANGED <<ring, mutex, scheduled, data>>

DeQueueLast == /\ NumElem = 1
               /\ TakeOut
               /\ Sched!Activate(cb)
               /\ stat' = IF batch THEN "pending" ELSE "success"
               /\ pc' = "signal"
               /\ UNCHANGED mutex

DeQueueMore == /\ NumElem > 1
               /\ TakeOut
               /\ stat' = "success"
               /\ IF batch
                  THEN pc' = "signal" /\ UNCHANGED <<mutex, scheduled>>
                  ELSE pc' = "complete" /\ mutex' = TRUE /\ Sched!Activate(cb)

DeQueue == /\ pc = "dequeue"
           /\ ~mutex
           /\ IF NumElem = 0 THEN DeQueueFails ELSE DeQueueLast \/ DeQueueMore
           /\ UNCHANGED <<sema, senders, batch>>

(* The second half of RunIfNotReady.                                       *)
CompleteSelf == /\ pc = "complete"
                /\ Sched!Complete(cb)
                /\ mutex' = FALSE
                /\ pc' = "signal"
                /\ UNCHANGED <<ring, sema, senders, data, stat, batch>>

(* Mutant: the senders are not signalled after the last event.             *)
SemaSignal_NotLast == /\ pc = "signal"
                      /\ sema' = IF NumElem = 0 THEN sema ELSE sema + 1
                      /\ pc' = "process"
                      /\ UNCHANGED <<ring, mutex, senders, scheduled, data, stat, batch>>

SemaSignal == /\ pc = "signal"
              /\ sema' = sema + 1
              /\ pc' = "process"
              /\ UNCHANGED <<ring, mutex, senders, scheduled, data, stat, batch>>

ProcessEvent == /\ pc = "process"
                /\ data' = NoData
                /\ pc' = IF batch /\ stat = "success" THEN "dequeue" ELSE "end"
                /\ UNCHANGED <<ring, sema, mutex, senders, scheduled, stat, batch>>

RunReturns == /\ pc = "end"
              /\ Sched!RunEnds
              /\ pc' = "wait"
              /\ UNCHANGED <<ring, sema, mutex, senders, data, stat, batch>>

AOStep == \/ Run
          \/ DeQueue
          \/ CompleteSelf
          \/ SemaSignal
          \/ ProcessEvent
          \/ RunReturns
-----------------------------------------------------------------------------
Next == \/ \E s \in Senders : \/ \E d \in Data : ReceiveEvent(s, d)
                              \/ SemaWait(s)
                              \/ Queue(s)
        \/ AOStep

Spec == Init /\ [][Next]_vars

(* The scheduler runs a ready AO (ReadyRuns of OsclScheduler), Run and a   *)
(* sender's call are straight-line code, and a sender that waits on the    *)
(* semaphore gets it if it is signalled again and again.                   *)
Fairness == /\ WF_vars(AOStep)
            /\ \A s \in Senders : SF_vars(SemaWait(s)) /\ SF_vars(Queue(s))

FairSpec == Spec /\ Fairness
-----------------------------------------------------------------------------
TypeOK == /\ slot \in [0 .. Depth - 1 -> Data \cup {NoData}]
          /\ index_in \in 0 .. Depth - 1
          /\ index_out \in 0 .. Depth - 1
          /\ NumElem \in 0 .. Depth
          /\ sema \in 0 .. Depth
          /\ mutex \in BOOLEAN
          /\ at \in [Senders -> {"idle", "semawait", "lock"}]
          /\ event \in [Senders -> Data \cup {NoData}]
          /\ req \in [{cb} -> {"idle", "pending", "ready"}]
          /\ running \in {cb, NoAO}
          /\ pc \in {"wait", "dequeue", "complete", "signal", "process", "end"}
          /\ data \in Data \cup {NoData}
          /\ stat \in {"success", "pending", "failure"}
          /\ batch \in Batches

(* The events are processed once each and in the order queued.             *)
Events == [i \in 1 .. NumElem |-> slot[(index_out + i - 1) % Depth]]

Channel == INSTANCE BoundedChannel WITH chan <- Events, got <- data

DeliversInOrder == Channel!Spec

(* A call of ReceiveEvent returns although the queue may be full, and an   *)
(* event that was queued is processed.                                     *)
CallsReturn == \A s \in Senders : at[s] # "idle" ~> at[s] = "idle"

EventsAreProcessed ==
    \A d \in Data : (\E i \in 1 .. NumElem : Events[i] = d) ~> data = d
=============================================================================
