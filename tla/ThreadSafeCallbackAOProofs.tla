---------------------- MODULE ThreadSafeCallbackAOProofs ----------------------
(***************************************************************************)
(* The safety of ThreadSafeCallbackAO for every finite set of senders,     *)
(* every data and every depth of the queue: the ring buffer delivers the   *)
(* events in order, the full queue of Queue is never met and neither is    *)
(* the empty one of DeQueue.                                               *)
(*                                                                         *)
(* The inductive invariant is the account of RemoteThreadCtrlSema          *)
(* (SlotsAreConserved), the distance of the ring's two indices             *)
(* (RingIsConsistent), and that the request of the AO is pending exactly   *)
(* while the queue is empty, but for the moment in which Run readies       *)
(* itself (PrimedWhileEmpty).                                              *)
(***************************************************************************)
EXTENDS ThreadSafeCallbackAO, FiniteSetTheorems, SequenceTheorems, TLAPS

(* The senders that hold one of the semaphore's counts.                    *)
Admitted == {s \in Senders : at[s] = "lock"}

(* The event Run took out and has not signalled to the senders yet.        *)
TakenOut == IF pc \in {"complete", "signal"} THEN 1 ELSE 0

SlotsAreConserved == sema + Cardinality(Admitted) + NumElem + TakenOut = Depth

Wrap(i) == IF i < Depth THEN i ELSE i - Depth

RingIsConsistent == index_in = Wrap(index_out + NumElem)

(* The AO runs until it is activated again.                                *)
Unprimed == \/ pc = "dequeue"
            \/ batch /\ stat = "success" /\ pc \in {"signal", "process"}

PrimedWhileEmpty == /\ req[cb] = "idle" <=> Unprimed
                    /\ req[cb] = "pending" <=> NumElem = 0 \/ pc = "complete"
                    /\ pc = "complete" => NumElem > 0 /\ ~batch

LockedInRun == mutex <=> pc = "complete"

EventsAreGiven == \A s \in Senders : at[s] # "idle" => event[s] \in Data

IInv == /\ TypeOK
        /\ SlotsAreConserved
        /\ RingIsConsistent
        /\ PrimedWhileEmpty
        /\ LockedInRun
        /\ EventsAreGiven
-----------------------------------------------------------------------------
(* The ring's index arithmetic: RollOver and the modulo of Events are the  *)
(* same walk around the buffer.                                            *)
LEMMA WrapIsModulo ==
    ASSUME NEW i \in 0 .. 2 * Depth - 1
    PROVE  /\ Wrap(i) = i % Depth
           /\ Wrap(i) \in 0 .. Depth - 1
<1>1. Depth \in Nat \ {0}
    BY DepthAssumption
<1>2. CASE i < Depth
    <2>1. i \in 0 .. Depth - 1
        BY <1>1, <1>2
    <2>2. i % Depth = i
        BY <1>1, <2>1, SMT
    <2> QED
        BY <1>1, <1>2, <2>1, <2>2 DEF Wrap
<1>3. CASE ~(i < Depth)
    <2>1. i \in Depth .. 2 * Depth - 1
        BY <1>1, <1>3
    <2>2. i % Depth = i - Depth
        BY <1>1, <2>1, SMT
    <2>3. i - Depth \in 0 .. Depth - 1
        BY <1>1, <2>1
    <2> QED
        BY <1>3, <2>2, <2>3 DEF Wrap
<1> QED
    BY <1>2, <1>3

LEMMA RollOverType ==
    ASSUME NEW i \in 0 .. Depth - 1
    PROVE  RollOver(i) \in 0 .. Depth - 1
BY DepthAssumption DEF RollOver

(* Queueing moves one index forwards, taking out the other.                *)
LEMMA RollOverIn ==
    ASSUME NEW i \in 0 .. Depth - 1, NEW n \in 0 .. Depth - 1
    PROVE  RollOver(Wrap(i + n)) = Wrap(i + (n + 1))
BY DepthAssumption DEF RollOver, Wrap

LEMMA RollOverOut ==
    ASSUME NEW i \in 0 .. Depth - 1, NEW n \in 1 .. Depth
    PROVE  Wrap(RollOver(i) + (n - 1)) = Wrap(i + n)
BY DepthAssumption DEF RollOver, Wrap

(* Different places of the queue are different slots.                      *)
LEMMA WrapInjective ==
    ASSUME NEW i \in 0 .. Depth - 1, NEW m \in 0 .. Depth - 1,
           NEW n \in 0 .. Depth - 1, m # n
    PROVE  Wrap(i + m) # Wrap(i + n)
BY DepthAssumption DEF Wrap

(* The senders between semaphore and lock are finitely many.               *)
LEMMA AdmittedCount ==
    ASSUME NEW S \in SUBSET Senders
    PROVE  /\ Cardinality(S) \in Nat
           /\ Cardinality(S) = 0 <=> S = {}
           /\ \A s \in Senders \ S : Cardinality(S \cup {s}) = Cardinality(S) + 1
           /\ \A s \in S : Cardinality(S \ {s}) = Cardinality(S) - 1
<1>1. IsFiniteSet(S)
    BY SendersAssumption, FS_Subset
<1>2. Cardinality(S) \in Nat /\ (Cardinality(S) = 0 <=> S = {})
    BY <1>1, FS_CardinalityType, FS_EmptySet
<1>3. \A s \in Senders \ S : Cardinality(S \cup {s}) = Cardinality(S) + 1
    BY <1>1, FS_AddElement
<1>4. \A s \in S : Cardinality(S \ {s}) = Cardinality(S) - 1
    BY <1>1, FS_RemoveElement
<1> QED
    BY <1>2, <1>3, <1>4

LEMMA AdmittedSubset == Admitted \in SUBSET Senders /\ Admitted' \in SUBSET Senders
BY DEF Admitted

(* The count of the semaphore stays within its type because of its account.*)
LEMMA SemaType ==
    ASSUME SlotsAreConserved, sema \in Int, sema >= 0, NumElem \in Nat
    PROVE  sema \in 0 .. Depth
BY AdmittedCount, AdmittedSubset, DepthAssumption DEF SlotsAreConserved, TakenOut

LEMMA InitIInv == Init => IInv
<1> SUFFICES ASSUME Init PROVE IInv
    OBVIOUS
<1>1. Admitted = {}
    BY DEF Init, Admitted
<1>2. SlotsAreConserved
    BY <1>1, FS_EmptySet, DepthAssumption DEF Init, SlotsAreConserved, TakenOut
<1>3. mutex \in BOOLEAN
    BY DEF Init
<1>4. TypeOK
    BY <1>3, DepthAssumption DEF Init, TypeOK
<1>5. RingIsConsistent
    BY DepthAssumption DEF Init, RingIsConsistent, Wrap
<1> QED
    BY <1>2, <1>4, <1>5
    DEF Init, IInv, PrimedWhileEmpty, Unprimed, LockedInRun, EventsAreGiven
-----------------------------------------------------------------------------
(* The steps of the senders.                                               *)

LEMMA ReceiveEventStep ==
    ASSUME IInv, NEW s \in Senders, NEW d \in Data, ReceiveEvent(s, d)
    PROVE  IInv'
<1> USE DEF IInv, ring, scheduled, run
<1>1. Admitted' = Admitted
    BY DEF ReceiveEvent, Admitted, TypeOK
<1>2. SlotsAreConserved'
    BY <1>1 DEF ReceiveEvent, SlotsAreConserved, TakenOut
<1>3. TypeOK'
    BY DEF ReceiveEvent, TypeOK
<1>4. EventsAreGiven'
    BY DEF ReceiveEvent, EventsAreGiven, TypeOK
<1> QED
    BY <1>2, <1>3, <1>4
    DEF ReceiveEvent, RingIsConsistent, PrimedWhileEmpty, Unprimed, LockedInRun

LEMMA SemaWaitStep ==
    ASSUME IInv, NEW s \in Senders, SemaWait(s)
    PROVE  IInv'
<1> USE DEF IInv, ring, scheduled, run
<1>1. Admitted' = Admitted \cup {s} /\ s \in Senders \ Admitted
    BY DEF SemaWait, Admitted, TypeOK
<1>2. Cardinality(Admitted') = Cardinality(Admitted) + 1
      /\ Cardinality(Admitted) \in Nat
    BY <1>1, AdmittedCount, AdmittedSubset
<1>3. SlotsAreConserved'
    BY <1>2, DepthAssumption DEF SemaWait, SlotsAreConserved, TakenOut, TypeOK
<1>4. TypeOK'
    BY DepthAssumption DEF SemaWait, TypeOK
<1>5. EventsAreGiven'
    BY DEF SemaWait, EventsAreGiven, TypeOK
<1> QED
    BY <1>3, <1>4, <1>5
    DEF SemaWait, RingIsConsistent, PrimedWhileEmpty, Unprimed, LockedInRun

(* A sender that got the semaphore finds a free slot, and an empty queue   *)
(* with the AO's request pending.                                          *)
LEMMA AdmittedFindsSlot ==
    ASSUME IInv, NEW s \in Senders, at[s] = "lock"
    PROVE  /\ NumElem < Depth
           /\ NumElem = 0 => req[cb] = "pending"
           /\ Cardinality(Admitted) \in Nat
           /\ Cardinality(Admitted) > 0
<1>1. Admitted # {}
    BY DEF Admitted
<1>2. Cardinality(Admitted) \in Nat /\ Cardinality(Admitted) > 0
    BY <1>1, AdmittedCount, AdmittedSubset
<1> QED
    BY <1>2, DepthAssumption
    DEF IInv, TypeOK, SlotsAreConserved, TakenOut, PrimedWhileEmpty

(* What Queue does, the branches that are never taken left out.            *)
LEMMA QueueEffect ==
    ASSUME IInv, NEW s \in Senders, Queue(s)
    PROVE  /\ at' = [at EXCEPT ![s] = "idle"]
           /\ event' = [event EXCEPT ![s] = NoData]
           /\ slot' = [slot EXCEPT ![index_in] = event[s]]
           /\ index_in' = RollOver(index_in)
           /\ NumElem' = NumElem + 1
           /\ req' = IF NumElem = 0 THEN [req EXCEPT ![cb] = "ready"] ELSE req
           /\ ~mutex /\ at[s] = "lock"
           /\ UNCHANGED <<index_out, sema, mutex, running, run, batch>>
<1>1. at[s] = "lock" /\ ~mutex
    BY DEF Queue
<1>2. NumElem < Depth /\ (NumElem = 0 => req[cb] = "pending") /\ NumElem \in Nat
    BY <1>1, AdmittedFindsSlot DEF IInv, TypeOK
<1>3. ~(NumElem >= Depth) /\ (SignalsAO <=> NumElem = 0)
    BY <1>2, DepthAssumption DEF SignalsAO
<1> QED
    BY <1>1, <1>2, <1>3 DEF Queue, Sched!Complete, scheduled

LEMMA QueueStep ==
    ASSUME IInv, NEW s \in Senders, Queue(s)
    PROVE  IInv'
<1> USE QueueEffect DEF run
<1>1. /\ NumElem \in 0 .. Depth - 1
      /\ index_in \in 0 .. Depth - 1 /\ index_out \in 0 .. Depth - 1
      /\ pc # "complete"
    BY AdmittedFindsSlot, DepthAssumption DEF IInv, TypeOK, LockedInRun
<1>2. Admitted' = Admitted \ {s} /\ s \in Admitted
    BY DEF Admitted, IInv, TypeOK
<1>3. Cardinality(Admitted') = Cardinality(Admitted) - 1
      /\ Cardinality(Admitted) \in Nat
    BY <1>2, AdmittedCount, AdmittedSubset
<1>4. SlotsAreConserved'
    BY <1>1, <1>3, DepthAssumption
    DEF IInv, TypeOK, SlotsAreConserved, TakenOut
<1>5. RingIsConsistent'
    BY <1>1, RollOverIn DEF IInv, RingIsConsistent, Wrap
<1>6. EventsAreGiven'
    BY DEF IInv, EventsAreGiven, TypeOK
<1>7. PrimedWhileEmpty' /\ LockedInRun'
    BY <1>1 DEF IInv, TypeOK, PrimedWhileEmpty, Unprimed, LockedInRun
<1>8. slot' \in [0 .. Depth - 1 -> Data \cup {NoData}]
    BY DEF IInv, TypeOK
<1>9. NumElem' \in 0 .. Depth /\ index_in' \in 0 .. Depth - 1
    BY <1>1, RollOverType, DepthAssumption
<1>10. TypeOK'
    BY <1>1, <1>8, <1>9, DepthAssumption DEF IInv, TypeOK
<1> QED
    BY <1>4, <1>5, <1>6, <1>7, <1>10 DEF IInv
-----------------------------------------------------------------------------
(* The steps of the AO; none of them moves a sender.                       *)

LEMMA AdmittedKept ==
    ASSUME UNCHANGED senders
    PROVE  Admitted' = Admitted /\ Cardinality(Admitted) \in Nat
BY AdmittedCount, AdmittedSubset DEF Admitted, senders

(* Run finds an event in the queue: the AO is only run when it was         *)
(* completed, and only Run takes events out.                               *)
LEMMA DeQueueFindsEvent ==
    ASSUME IInv, pc = "dequeue"
    PROVE  NumElem > 0 /\ req[cb] = "idle"
BY DEF IInv, TypeOK, PrimedWhileEmpty, Unprimed

(* What DeQueue does: the queue is not empty, and the last event activates *)
(* the AO again.                                                           *)
LEMMA DeQueueEffect ==
    ASSUME IInv, DeQueue
    PROVE  /\ TakeOut
           /\ NumElem > 0
           /\ pc = "dequeue" /\ ~mutex
           /\ pc' = IF NumElem > 1 /\ ~batch THEN "complete" ELSE "signal"
           /\ mutex' <=> NumElem > 1 /\ ~batch
           /\ mutex' \in BOOLEAN
           /\ stat' = IF NumElem = 1 /\ batch THEN "pending" ELSE "success"
           /\ req' = IF NumElem > 1 /\ batch THEN req
                     ELSE [req EXCEPT ![cb] = "pending"]
           /\ UNCHANGED <<running, sema, senders, batch>>
<1>1. pc = "dequeue" /\ ~mutex /\ UNCHANGED <<sema, senders, batch>>
    BY DEF DeQueue
<1>2. NumElem > 0 /\ NumElem \in Nat
    BY <1>1, DeQueueFindsEvent DEF IInv, TypeOK
<1>3. CASE DeQueueLast
    <2>1. /\ NumElem = 1 /\ TakeOut /\ Sched!Activate(cb) /\ UNCHANGED mutex
          /\ pc' = "signal" /\ stat' = IF batch THEN "pending" ELSE "success"
        BY <1>3 DEF DeQueueLast
    <2>2. req' = [req EXCEPT ![cb] = "pending"] /\ UNCHANGED running
        BY <2>1 DEF Sched!Activate
    <2> QED
        BY <1>1, <2>1, <2>2 DEF IInv, TypeOK
<1>4. CASE DeQueueMore /\ batch
    <2>1. NumElem > 1 /\ TakeOut /\ UNCHANGED <<mutex, scheduled>>
          /\ pc' = "signal" /\ stat' = "success"
        BY <1>4 DEF DeQueueMore
    <2> QED
        BY <1>1, <1>2, <1>4, <2>1 DEF IInv, TypeOK, scheduled
<1>5. CASE DeQueueMore /\ ~batch
    <2>1. NumElem > 1 /\ TakeOut /\ mutex' = TRUE /\ Sched!Activate(cb)
          /\ pc' = "complete" /\ stat' = "success"
        BY <1>5 DEF DeQueueMore
    <2>2. req' = [req EXCEPT ![cb] = "pending"] /\ UNCHANGED running
        BY <2>1 DEF Sched!Activate
    <2>3. mutex' \in BOOLEAN
        BY <2>1
    <2> QED
        BY <1>1, <1>2, <1>5, <2>1, <2>2, <2>3
<1> QED
    BY <1>2, <1>3, <1>4, <1>5 DEF DeQueue

LEMMA DeQueueStep ==
    ASSUME IInv, DeQueue
    PROVE  IInv'
<1>1. /\ NumElem \in 1 .. Depth /\ index_out \in 0 .. Depth - 1
      /\ NumElem' = NumElem - 1 /\ index_out' = RollOver(index_out)
      /\ data' = slot[index_out] /\ UNCHANGED <<slot, index_in>>
    BY DeQueueEffect, DepthAssumption DEF TakeOut, IInv, TypeOK
<1>2. RingIsConsistent'
    BY <1>1, RollOverOut DEF IInv, RingIsConsistent, Wrap
<1>3. SlotsAreConserved'
    BY <1>1, DeQueueEffect, AdmittedKept, DepthAssumption
    DEF IInv, TypeOK, SlotsAreConserved, TakenOut
<1>4. PrimedWhileEmpty'
    BY <1>1, DeQueueEffect
    DEF IInv, TypeOK, PrimedWhileEmpty, Unprimed
<1>5. EventsAreGiven'
    BY DeQueueEffect DEF IInv, EventsAreGiven, senders
<1>6. LockedInRun'
    BY <1>1, DeQueueEffect DEF LockedInRun
<1>7. TypeOK'
    BY <1>1, <1>6, DeQueueEffect, RollOverType, DepthAssumption
    DEF IInv, TypeOK, senders
<1> QED
    BY <1>2, <1>3, <1>4, <1>5, <1>6, <1>7 DEF IInv

LEMMA SemaSignalStep ==
    ASSUME IInv, SemaSignal
    PROVE  IInv'
<1> USE DEF IInv, ring, senders, scheduled
<1>1. SlotsAreConserved'
    BY AdmittedKept, DepthAssumption
    DEF SemaSignal, TypeOK, SlotsAreConserved, TakenOut
<1>2. sema' \in 0 .. Depth
    BY AdmittedKept, DepthAssumption
    DEF SemaSignal, TypeOK, SlotsAreConserved, TakenOut
<1> QED
    BY <1>1, <1>2
    DEF SemaSignal, TypeOK, RingIsConsistent, PrimedWhileEmpty, Unprimed,
        LockedInRun, EventsAreGiven

LEMMA CompleteSelfStep ==
    ASSUME IInv, CompleteSelf
    PROVE  IInv'
<1> USE DEF IInv, ring, senders
<1>1. SlotsAreConserved'
    BY AdmittedKept DEF CompleteSelf, SlotsAreConserved, TakenOut
<1>2. mutex' \in BOOLEAN
    BY DEF CompleteSelf
<1> QED
    BY <1>1, <1>2
    DEF CompleteSelf, Sched!Complete, TypeOK, RingIsConsistent, PrimedWhileEmpty,
        Unprimed, LockedInRun, EventsAreGiven

LEMMA RunStep ==
    ASSUME IInv, Run \/ ProcessEvent \/ RunReturns
    PROVE  IInv'
<1> USE DEF IInv, ring, senders, scheduled, TypeOK, RingIsConsistent, LockedInRun,
            EventsAreGiven, PrimedWhileEmpty, Unprimed
<1>1. SlotsAreConserved'
    BY AdmittedKept DEF Run, ProcessEvent, RunReturns, SlotsAreConserved, TakenOut
<1>2. CASE Run
    BY <1>1, <1>2 DEF Run, Sched!RunBegins
<1>3. CASE ProcessEvent
    BY <1>1, <1>3 DEF ProcessEvent
<1>4. CASE RunReturns
    BY <1>1, <1>4 DEF RunReturns, Sched!RunEnds
<1> QED
    BY <1>2, <1>3, <1>4

LEMMA InductiveStep == IInv /\ [Next]_vars => IInv'
<1>1. ASSUME IInv, UNCHANGED vars PROVE IInv'
    <2> USE <1>1 DEF vars, ring, senders, scheduled, run
    <2>1. SlotsAreConserved'
        BY AdmittedKept DEF IInv, SlotsAreConserved, TakenOut
    <2> QED
        BY <2>1
        DEF IInv, TypeOK, RingIsConsistent, PrimedWhileEmpty, Unprimed,
            LockedInRun, EventsAreGiven
<1> QED
    BY <1>1, ReceiveEventStep, SemaWaitStep, QueueStep, DeQueueStep,
       CompleteSelfStep, SemaSignalStep, RunStep DEF Next, AOStep
-----------------------------------------------------------------------------
(* The inductive invariant holds of every callback AO.                     *)
THEOREM Invariance == Spec => []IInv
BY InitIInv, InductiveStep, PTL DEF Spec

(* The variables keep their types; NumElem and the semaphore stay within   *)
(* the depth of the queue.                                                 *)
THEOREM TypeCorrect == Spec => []TypeOK
BY Invariance, PTL DEF IInv

(* A sender that got the semaphore never finds the queue full, and if it   *)
(* finds it empty the AO's request is pending: neither the error branch of *)
(* Queue nor the leave of PendComplete with Mutex locked is ever taken.    *)
QueueNeverFails ==
    \A s \in Senders : at[s] = "lock" =>
        /\ NumElem < Depth
        /\ NumElem = 0 => req[cb] = "pending"

THEOREM AdmittedSendersQueue == Spec => []QueueNeverFails
<1>1. IInv => QueueNeverFails
    BY AdmittedFindsSlot DEF QueueNeverFails
<1> QED
    BY <1>1, Invariance, PTL

(* DeQueue never fails: Run is only entered, and only loops, while an      *)
(* event is queued.                                                        *)
DeQueueNeverFails == pc = "dequeue" => NumElem > 0

THEOREM RunFindsEvents == Spec => []DeQueueNeverFails
<1>1. IInv => DeQueueNeverFails
    BY DeQueueFindsEvent DEF DeQueueNeverFails
<1> QED
    BY <1>1, Invariance, PTL
-----------------------------------------------------------------------------
(* Refinement: the ring buffer is a channel of depth Depth.                *)

(* A function on 1 .. n is a sequence of length n.                         *)
LEMMA FunctionIsSequence ==
    ASSUME NEW S, NEW n \in Nat, NEW f \in [1 .. n -> S]
    PROVE  f \in Seq(S) /\ Len(f) = n
<1>1. f \in Seq(S)
    BY SeqDef
<1>2. DOMAIN f = 1 .. Len(f) /\ Len(f) \in Nat /\ DOMAIN f = 1 .. n
    BY <1>1, LenProperties
<1> QED
    BY <1>1, <1>2

(* A sequence that continues another by one element is its Append.         *)
LEMMA AppendIs ==
    ASSUME NEW S, NEW n \in Nat, NEW f \in [1 .. n -> S],
           NEW g \in [1 .. n + 1 -> S], \A i \in 1 .. n : g[i] = f[i]
    PROVE  g = Append(f, g[n + 1])
<1>1. f \in Seq(S) /\ Len(f) = n /\ g \in Seq(S) /\ Len(g) = n + 1
    BY FunctionIsSequence
<1>2. g[n + 1] \in S
    OBVIOUS
<1>3. Append(f, g[n + 1]) \in Seq(S) /\ Len(Append(f, g[n + 1])) = n + 1
    BY <1>1, <1>2
<1>4. \A i \in 1 .. n + 1 : Append(f, g[n + 1])[i] = g[i]
    BY <1>1, <1>2
<1> QED
    BY <1>1, <1>3, <1>4, SeqEqual

(* A sequence that is another shifted by one place is its Tail.            *)
LEMMA TailIs ==
    ASSUME NEW S, NEW n \in Nat \ {0}, NEW f \in [1 .. n -> S],
           NEW g \in [1 .. n - 1 -> S], \A i \in 1 .. n - 1 : g[i] = f[i + 1]
    PROVE  f # <<>> /\ Head(f) = f[1] /\ g = Tail(f)
<1>1. f \in Seq(S) /\ Len(f) = n /\ g \in Seq(S) /\ Len(g) = n - 1
    BY FunctionIsSequence
<1>2. f # <<>> /\ Head(f) = f[1]
    BY <1>1
<1>3. /\ Tail(f) \in Seq(S) /\ Len(Tail(f)) = n - 1
      /\ \A i \in 1 .. n - 1 : Tail(f)[i] = f[i + 1]
    BY <1>1, <1>2, HeadTailProperties
<1> QED
    BY <1>1, <1>2, <1>3, SeqEqual

(* The contents of the ring buffer, and its n events from place o on.      *)
Item == Data \cup {NoData}
Buffer == [0 .. Depth - 1 -> Item]
RingOf(f, o, n) == [i \in 1 .. n |-> f[(o + i - 1) % Depth]]

(* The i-th event of a ring of n events is i - 1 places after the first.   *)
LEMMA RingAt ==
    ASSUME NEW f \in Buffer, NEW o \in 0 .. Depth - 1, NEW n \in 0 .. Depth
    PROVE  /\ RingOf(f, o, n) \in [1 .. n -> Item]
           /\ \A i \in 1 .. n : RingOf(f, o, n)[i] = f[Wrap(o + (i - 1))]
<1>1. ASSUME NEW i \in 1 .. n
      PROVE  /\ (o + i - 1) % Depth = Wrap(o + (i - 1))
             /\ Wrap(o + (i - 1)) \in 0 .. Depth - 1
    <2>1. o + (i - 1) \in 0 .. 2 * Depth - 1 /\ o + i - 1 = o + (i - 1)
        BY DepthAssumption
    <2> QED
        BY <2>1, WrapIsModulo
<1>2. \A i \in 1 .. n : f[Wrap(o + (i - 1))] \in Item
    BY <1>1 DEF Buffer
<1> QED
    BY <1>1, <1>2 DEF RingOf

LEMMA EventsAt ==
    ASSUME IInv, IInv'
    PROVE  /\ Events \in [1 .. NumElem -> Item]
           /\ \A i \in 1 .. NumElem : Events[i] = slot[Wrap(index_out + (i - 1))]
           /\ Events' \in [1 .. NumElem' -> Item]
           /\ \A i \in 1 .. NumElem' : Events'[i] = slot'[Wrap(index_out' + (i - 1))]
<1>1. Events = RingOf(slot, index_out, NumElem)
    BY DEF Events, RingOf
<1>2. Events' = RingOf(slot', index_out', NumElem')
    BY DEF Events, RingOf
<1>3. /\ slot \in Buffer /\ slot' \in Buffer
      /\ index_out \in 0 .. Depth - 1 /\ index_out' \in 0 .. Depth - 1
      /\ NumElem \in 0 .. Depth /\ NumElem' \in 0 .. Depth
    BY DEF IInv, TypeOK, Buffer, Item
<1> QED
    BY <1>1, <1>2, <1>3, RingAt

(* Queueing appends to the events.                                         *)
LEMMA QueueSends ==
    ASSUME IInv, IInv', NEW s \in Senders, Queue(s)
    PROVE  Channel!Send(event[s])
<1>1. /\ NumElem \in 0 .. Depth - 1 /\ index_out \in 0 .. Depth - 1
      /\ slot \in [0 .. Depth - 1 -> Item]
      /\ index_in = Wrap(index_out + NumElem)
      /\ index_in \in 0 .. Depth - 1
    BY QueueEffect, AdmittedFindsSlot, DepthAssumption
    DEF IInv, TypeOK, RingIsConsistent, Item
<1>2. /\ slot' = [slot EXCEPT ![index_in] = event[s]]
      /\ NumElem' = NumElem + 1 /\ UNCHANGED <<index_out, data>>
    BY QueueEffect DEF run
<1>3. /\ Events \in [1 .. NumElem -> Item]
      /\ Events' \in [1 .. NumElem + 1 -> Item]
    BY <1>2, EventsAt
<1>4. \A i \in 1 .. NumElem + 1 : Events'[i] = slot'[Wrap(index_out + (i - 1))]
    BY <1>2, EventsAt
<1>5. \A i \in 1 .. NumElem : Events'[i] = Events[i]
    <2> SUFFICES ASSUME NEW i \in 1 .. NumElem PROVE Events'[i] = Events[i]
        OBVIOUS
    <2>1. i - 1 \in 0 .. Depth - 1 /\ i - 1 # NumElem /\ i \in 1 .. NumElem + 1
          /\ index_out + (i - 1) \in 0 .. 2 * Depth - 1
        BY <1>1, DepthAssumption
    <2>2. /\ Wrap(index_out + (i - 1)) # index_in
          /\ Wrap(index_out + (i - 1)) \in 0 .. Depth - 1
        BY <1>1, <2>1, WrapInjective, WrapIsModulo
    <2>3. Events[i] = slot[Wrap(index_out + (i - 1))]
        BY EventsAt
    <2> QED
        BY <1>1, <1>2, <1>4, <2>1, <2>2, <2>3
<1>6. Events'[NumElem + 1] = event[s]
    <2>1. NumElem + 1 \in 1 .. NumElem + 1 /\ (NumElem + 1) - 1 = NumElem
        BY <1>1, DepthAssumption
    <2> QED
        BY <1>1, <1>2, <1>4, <2>1
<1>7. Events' = Append(Events, event[s])
    BY <1>1, <1>3, <1>5, <1>6, AppendIs, DepthAssumption
<1>8. Len(Events) < Depth
    BY <1>1, <1>3, FunctionIsSequence, DepthAssumption
<1> QED
    BY <1>2, <1>7, <1>8 DEF Channel!Send

(* Taking out removes the oldest event.                                    *)
LEMMA DeQueueReceives ==
    ASSUME IInv, IInv', DeQueue
    PROVE  Channel!Receive
<1>1. /\ NumElem \in 1 .. Depth /\ index_out \in 0 .. Depth - 1
      /\ data' = slot[index_out] /\ index_out' = RollOver(index_out)
      /\ NumElem' = NumElem - 1 /\ UNCHANGED slot
    BY DeQueueEffect, DepthAssumption DEF TakeOut, IInv, TypeOK
<1>2. /\ Events \in [1 .. NumElem -> Item]
      /\ Events' \in [1 .. NumElem - 1 -> Item]
    BY <1>1, EventsAt
<1>3. \A i \in 1 .. NumElem - 1 : Events'[i] = Events[i + 1]
    <2> SUFFICES ASSUME NEW i \in 1 .. NumElem - 1
                 PROVE  Events'[i] = Events[i + 1]
        OBVIOUS
    <2>1. Events'[i] = slot[Wrap(RollOver(index_out) + (i - 1))]
        BY <1>1, EventsAt
    <2>2. i + 1 \in 1 .. NumElem /\ i \in 1 .. Depth
          /\ index_out + ((i + 1) - 1) = index_out + i
        BY <1>1, DepthAssumption
    <2>3. Events[i + 1] = slot[Wrap(index_out + i)]
        BY <2>2, EventsAt
    <2>4. Wrap(RollOver(index_out) + (i - 1)) = Wrap(index_out + i)
        BY <1>1, <2>2, RollOverOut
    <2> QED
        BY <2>1, <2>3, <2>4
<1>4. Events[1] = slot[index_out]
    <2>1. 1 \in 1 .. NumElem /\ Wrap(index_out + (1 - 1)) = index_out
        BY <1>1, DepthAssumption DEF Wrap
    <2> QED
        BY <2>1, EventsAt
<1>5. NumElem \in Nat \ {0}
    BY <1>1, DepthAssumption
<1>6. Events # <<>> /\ Head(Events) = Events[1] /\ Events' = Tail(Events)
    BY <1>2, <1>3, <1>5, TailIs
<1> QED
    BY <1>1, <1>4, <1>6 DEF Channel!Receive

LEMMA ChannelStep ==
    IInv /\ IInv' /\ [Next]_vars => [Channel!Next]_(Channel!channelVars)
<1> USE DEF ring
<1> SUFFICES ASSUME IInv, IInv', [Next]_vars
             PROVE  Channel!Next \/ UNCHANGED <<Events, data>>
    BY DEF Channel!channelVars
<1>1. ASSUME NEW s \in Senders, Queue(s)
      PROVE  Channel!Send(event[s]) /\ event[s] \in Data
    BY <1>1, QueueSends, QueueEffect DEF IInv, EventsAreGiven
<1>2. ASSUME DeQueue PROVE Channel!Receive
    BY <1>2, DeQueueReceives
<1>3. ASSUME ProcessEvent PROVE Channel!Done
    BY <1>3 DEF ProcessEvent, Events, Channel!Done
<1>4. ASSUME UNCHANGED <<ring, data>> PROVE UNCHANGED <<Events, data>>
    BY <1>4 DEF Events
<1>5. ASSUME NEW s \in Senders, NEW d \in Data, ReceiveEvent(s, d)
      PROVE  UNCHANGED <<ring, data>>
    BY <1>5 DEF ReceiveEvent, run
<1>6. ASSUME NEW s \in Senders, SemaWait(s)
      PROVE  UNCHANGED <<ring, data>>
    BY <1>6 DEF SemaWait, run
<1>7. ASSUME Run \/ CompleteSelf \/ SemaSignal \/ RunReturns \/ UNCHANGED vars
      PROVE  UNCHANGED <<ring, data>>
    BY <1>7 DEF Run, CompleteSelf, SemaSignal, RunReturns, vars, run
<1> QED
    BY <1>1, <1>2, <1>3, <1>4, <1>5, <1>6, <1>7 DEF Next, AOStep, Channel!Next

(* Every event is processed once, in the order the events were queued.     *)
THEOREM CallbackDeliversInOrder == Spec => DeliversInOrder
<1>1. Init => Channel!Init
    BY DEF Init, Channel!Init, Events
<1> QED
    BY <1>1, ChannelStep, Invariance, PTL DEF Spec, DeliversInOrder, Channel!Spec
=============================================================================
