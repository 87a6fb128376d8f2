-------------------------- MODULE ThreadSafeProofs --------------------------
(***************************************************************************)
(* The safety properties of ThreadSafeQueue, for every finite set of       *)
(* adding threads, every data and every length of the queue, and those of  *)
(* ThreadSafeMemPool, for every finite set of chunks, every set of         *)
(* threads, every way of using the pool and every bound on its owners.     *)
(*                                                                         *)
(* The queue: ReadyToSignal counts the threads between their wait for      *)
(* iQueueReadySem and their PendComplete.  It is kept because the request  *)
(* is idle only between RunBegins and PendForExec (IdleInRun).             *)
(*                                                                         *)
(* The pool: the inductive invariant PoolIInv adds to the two properties   *)
(* that nothing is handed out before the memory exists or after it was     *)
(* destroyed: the first allocation puts all chunks on the free list,       *)
(* whatever is in use.                                                     *)
(***************************************************************************)
EXTENDS ThreadSafeQueue, ThreadSafeMemPool, FiniteSetTheorems, TLAPS

(* The AO is activated again before Run does anything else, and Run holds  *)
(* the lock until it signalled the semaphore.                              *)
IdleInRun == req[tsq] = "idle" <=> pc = "run"

PendingAtSignal == /\ pc = "signal" => req[tsq] = "pending"
                   /\ mutex <=> pc = "signal"

IInv == /\ TypeOK
        /\ IdleInRun
        /\ PendingAtSignal
        /\ ReadyToSignal
-----------------------------------------------------------------------------
(* The threads that are about to signal the AO are finitely many, and      *)
(* their number changes with a thread that joins or leaves them.           *)
LEMMA SignallerCount ==
    ASSUME NEW S \in SUBSET Adders
    PROVE  /\ Cardinality(S) \in Nat
           /\ Cardinality(S) = 0 <=> S = {}
           /\ \A a \in Adders \ S : Cardinality(S \cup {a}) = Cardinality(S) + 1
           /\ \A a \in S : Cardinality(S \ {a}) = Cardinality(S) - 1
<1>1. IsFiniteSet(S)
    BY QueueAssumption, FS_Subset
<1>2. Cardinality(S) \in Nat /\ (Cardinality(S) = 0 <=> S = {})
    BY <1>1, FS_CardinalityType, FS_EmptySet
<1>3. \A a \in Adders \ S : Cardinality(S \cup {a}) = Cardinality(S) + 1
    BY <1>1, FS_AddElement
<1>4. \A a \in S : Cardinality(S \ {a}) = Cardinality(S) - 1
    BY <1>1, FS_RemoveElement
<1> QED
    BY <1>2, <1>3, <1>4

(* A step that moves no thread to or from PendComplete, and changes        *)
(* neither the semaphore nor the request, keeps the account.               *)
LEMMA AccountKept ==
    ASSUME ReadyToSignal, UNCHANGED <<readySem, scheduled, pc>>,
           \A a \in Adders : at'[a] = "complete" <=> at[a] = "complete"
    PROVE  ReadyToSignal'
<1>1. Signallers' = Signallers
    BY DEF Signallers
<1> QED
    BY <1>1 DEF ReadyToSignal, scheduled

LEMMA InitIInv == Init => IInv
<1> SUFFICES ASSUME Init PROVE IInv
    OBVIOUS
<1>1. mutex \in BOOLEAN
    BY DEF Init
<1>2. TypeOK
    BY <1>1, QueueAssumption DEF Init, TypeOK
<1>3. Signallers = {}
    BY DEF Init, Signallers
<1>4. ReadyToSignal
    BY <1>3, FS_EmptySet DEF Init, ReadyToSignal
<1> QED
    BY <1>2, <1>4 DEF Init, IInv, IdleInRun, PendingAtSignal

(* Adding data, and taking it out.                                         *)
LEMMA AddStep ==
    ASSUME IInv, NEW a \in Adders, NEW d \in Data, AddToQueue(a, d)
    PROVE  IInv'
<1> USE DEF IInv, scheduled
<1>1. ReadyToSignal'
    BY AccountKept DEF AddToQueue, TypeOK
<1>2. Len(iQueue') <= MaxLen /\ iQueue' \in Seq(Data)
    BY QueueAssumption DEF AddToQueue, TypeOK
<1>3. at' \in [Adders -> {"idle", "semwait", "complete"}]
    BY DEF AddToQueue, TypeOK
<1>4. TypeOK'
    BY <1>2, <1>3 DEF AddToQueue, TypeOK
<1> QED
    BY <1>1, <1>4 DEF AddToQueue, IdleInRun, PendingAtSignal

LEMMA TakeOutType ==
    ASSUME TypeOK, TakeOut
    PROVE  /\ iQueue' \in Seq(Data)
           /\ Len(iQueue') <= MaxLen
           /\ Head(iQueue) \in Data
BY QueueAssumption DEF TypeOK, TakeOut

LEMMA DeQueueStep ==
    ASSUME IInv, DeQueueByOther \/ DataAvailable
    PROVE  IInv'
<1> USE DEF IInv, scheduled
<1>1. UNCHANGED <<readySem, mutex, at, scheduled, anyThread>>
    BY DEF DeQueueByOther, DataAvailable
<1>2. pc' = pc \/ (pc = "callback" /\ pc' = "end")
    BY DEF DeQueueByOther, DataAvailable
<1>3. ReadyToSignal'
    <2>1. Signallers' = Signallers
        BY <1>1 DEF Signallers
    <2> QED
        BY <1>1, <1>2, <2>1 DEF ReadyToSignal
<1>4. /\ iQueue' \in Seq(Data) /\ Len(iQueue') <= MaxLen
      /\ got' \in Data \cup {NoData}
    BY TakeOutType DEF DeQueueByOther, DataAvailable, TypeOK
<1> QED
    BY <1>1, <1>2, <1>3, <1>4 DEF TypeOK, IdleInRun, PendingAtSignal

(* A thread takes the semaphore and signals the AO.                        *)
LEMMA SemWaitStep ==
    ASSUME IInv, NEW a \in Adders, SemWait(a)
    PROVE  IInv'
<1> USE DEF IInv, scheduled, TypeOK
<1>1. Signallers' = Signallers \cup {a} /\ a \in Adders \ Signallers
    BY DEF SemWait, Signallers
<1>2. Cardinality(Signallers') = Cardinality(Signallers) + 1
      /\ Cardinality(Signallers) \in Nat
    <2>1. Signallers \in SUBSET Adders
        BY DEF Signallers
    <2> HIDE DEF IInv
    <2> QED
        BY <1>1, <2>1, SignallerCount
<1>3. ReadyToSignal'
    BY <1>2 DEF SemWait, ReadyToSignal
<1> QED
    BY <1>3 DEF SemWait, IdleInRun, PendingAtSignal

LEMMA PendCompleteStep ==
    ASSUME IInv, NEW a \in Adders, PendComplete(a)
    PROVE  IInv'
<1> USE DEF IInv, scheduled, TypeOK
<1>1. /\ Signallers' = Signallers \ {a} /\ a \in Signallers
      /\ Signallers \in SUBSET Adders /\ Signallers' \in SUBSET Adders
    BY DEF PendComplete, Signallers
<1>2. /\ Cardinality(Signallers') = Cardinality(Signallers) - 1
      /\ Cardinality(Signallers) \in Nat
      /\ Cardinality(Signallers') \in Nat
    BY <1>1, SignallerCount
<1>3. req[tsq] = "pending" /\ pc # "signal" /\ readySem = 0
      /\ Cardinality(Signallers') = 0
    BY <1>2 DEF ReadyToSignal
<1>4. req' = [req EXCEPT ![tsq] = "ready"] /\ UNCHANGED <<readySem, pc, running>>
    BY <1>3 DEF PendComplete, Sched!Complete
<1>5. ReadyToSignal'
    BY <1>3, <1>4 DEF ReadyToSignal
<1> QED
    BY <1>3, <1>4, <1>5 DEF PendComplete, IdleInRun, PendingAtSignal

(* The steps of the AO.                                                    *)
LEMMA OwnerStep ==
    ASSUME IInv, Run \/ PendForExec \/ SignalReady \/ RunReturns
    PROVE  IInv'
<1> USE DEF IInv, scheduled, TypeOK
<1>1. Signallers' = Signallers /\ Cardinality(Signallers) \in Nat
    BY SignallerCount DEF Run, PendForExec, SignalReady, RunReturns, Signallers
<1>2. CASE Run
    BY <1>1, <1>2
    DEF Run, Sched!RunBegins, IdleInRun, PendingAtSignal, ReadyToSignal
<1>3. CASE PendForExec
    <2>1. mutex' \in BOOLEAN
        BY <1>3 DEF PendForExec
    <2> QED
        BY <1>1, <1>3, <2>1
        DEF PendForExec, Sched!Activate, IdleInRun, PendingAtSignal, ReadyToSignal
<1>4. CASE SignalReady
    <2>1. mutex' \in BOOLEAN
        BY <1>4 DEF SignalReady
    <2> QED
        BY <1>1, <1>4, <2>1
        DEF SignalReady, IdleInRun, PendingAtSignal, ReadyToSignal
<1>5. CASE RunReturns
    BY <1>1, <1>5
    DEF RunReturns, Sched!RunEnds, IdleInRun, PendingAtSignal, ReadyToSignal
<1> QED
    BY <1>2, <1>3, <1>4, <1>5

LEMMA InductiveStep == IInv /\ [Next]_vars => IInv'
<1>1. ASSUME IInv, UNCHANGED vars PROVE IInv'
    BY <1>1, AccountKept
    DEF vars, scheduled, IInv, TypeOK, IdleInRun, PendingAtSignal
<1> QED
    BY <1>1, AddStep, DeQueueStep, SemWaitStep, PendCompleteStep, OwnerStep
    DEF Next, Owner
-----------------------------------------------------------------------------
(* The inductive invariant holds of every queue.                           *)
THEOREM Invariance == Spec => []IInv
BY InitIInv, InductiveStep, PTL DEF Spec

(* The variables keep their types; the queue is never longer than MaxLen.  *)
THEOREM TypeCorrect == Spec => []TypeOK
BY Invariance, PTL DEF IInv

(* The semaphore is free, or taken by a thread that has not signalled yet, *)
(* exactly while the AO's request is pending and Run let go of the lock.   *)
THEOREM ReadyForSignals == Spec => []ReadyToSignal
BY Invariance, PTL DEF IInv

(* PendComplete always finds the request pending, so no signal of a thread *)
(* that added to an empty queue is lost, and no two threads complete the   *)
(* same request.                                                           *)
SignalsArePending ==
    \A a \in Adders : at[a] = "complete" =>
        /\ req[tsq] = "pending"
        /\ \A b \in Adders \ {a} : at[b] # "complete"

THEOREM SignalsAreNotLost == Spec => []SignalsArePending
<1>1. ASSUME IInv, NEW a \in Adders, at[a] = "complete"
      PROVE  req[tsq] = "pending" /\ \A b \in Adders \ {a} : at[b] # "complete"
    <2>1. a \in Signallers /\ Signallers \in SUBSET Adders
        BY <1>1 DEF Signallers
    <2>2. Cardinality(Signallers \ {a}) = Cardinality(Signallers) - 1
          /\ Cardinality(Signallers \ {a}) \in Nat /\ Cardinality(Signallers) \in Nat
        BY <2>1, SignallerCount
    <2>3. req[tsq] = "pending" /\ Cardinality(Signallers \ {a}) = 0
        BY <1>1, <2>2 DEF IInv, TypeOK, ReadyToSignal
    <2>4. Signallers \ {a} = {}
        BY <2>1, <2>3, SignallerCount
    <2> QED
        BY <2>3, <2>4 DEF Signallers
<1>2. IInv => SignalsArePending
    BY <1>1 DEF SignalsArePending
<1> QED
    BY <1>2, Invariance, PTL

(* Data is received once each and in the order it was added: every step is *)
(* a step of BoundedChannel or leaves the channel alone.                   *)
LEMMA ChannelStep == IInv /\ [Next]_vars => [Channel!Next]_(Channel!channelVars)
<1> SUFFICES ASSUME IInv, [Next]_vars
             PROVE  Channel!Next \/ UNCHANGED <<iQueue, got>>
    BY DEF Channel!channelVars
<1>1. ASSUME NEW a \in Adders, NEW d \in Data, AddToQueue(a, d)
      PROVE  Channel!Send(d)
    BY <1>1 DEF AddToQueue, Channel!Send
<1>2. ASSUME DeQueueByOther
      PROVE  Channel!Receive
    BY <1>2 DEF DeQueueByOther, TakeOut, Channel!Receive
<1>3. ASSUME DataAvailable
      PROVE  Channel!Receive \/ UNCHANGED <<iQueue, got>>
    BY <1>3 DEF DataAvailable, TakeOut, Channel!Receive
<1>4. ASSUME RunReturns
      PROVE  Channel!Done
    BY <1>4 DEF RunReturns, Channel!Done
<1>5. ASSUME NEW a \in Adders, SemWait(a) \/ PendComplete(a)
      PROVE  UNCHANGED <<iQueue, got>>
    BY <1>5 DEF SemWait, PendComplete
<1>6. CASE Run \/ PendForExec \/ SignalReady \/ UNCHANGED vars
    BY <1>6 DEF Run, PendForExec, SignalReady, vars
<1> QED
    BY <1>1, <1>2, <1>3, <1>4, <1>5, <1>6 DEF Next, Owner, Channel!Next

(* What DeQueue gives out is what AddToQueue took in, each once and in the *)
(* order added, whoever takes it out.                                      *)
THEOREM QueueDeliversInOrder == Spec => DeliversInOrder
<1>1. Init => Channel!Init
    BY DEF Init, Channel!Init
<1> QED
    BY <1>1, ChannelStep, Invariance, PTL DEF Spec, DeliversInOrder, Channel!Spec
-----------------------------------------------------------------------------
(* The pool: before it is created, and after it is gone, nothing is out.   *)
NothingOutUncreated == ~created => inUse = {}

PoolIInv == /\ PoolTypeOK
            /\ LivesWhileUsed
            /\ ChunksAreConserved
            /\ NothingOutUncreated
-----------------------------------------------------------------------------
(* The chunks in use are finitely many, and their number moves by one.     *)
LEMMA InUseCount ==
    ASSUME NEW S \in SUBSET Chunk
    PROVE  /\ IsFiniteSet(S)
           /\ Cardinality(S) \in Nat
           /\ Cardinality(S) <= Cardinality(Chunk)
           /\ Cardinality(Chunk) \in Nat
           /\ Cardinality(S) = 0 <=> S = {}
           /\ \A c \in Chunk \ S : Cardinality(S \cup {c}) = Cardinality(S) + 1
           /\ \A c \in S : Cardinality(S \ {c}) = Cardinality(S) - 1
<1>1. IsFiniteSet(Chunk)
    BY PoolAssumption
<1>2. IsFiniteSet(S) /\ Cardinality(S) <= Cardinality(Chunk)
    BY <1>1, FS_Subset
<1>3. Cardinality(S) \in Nat /\ Cardinality(Chunk) \in Nat
    BY <1>1, <1>2, FS_CardinalityType
<1>4. Cardinality(S) = 0 <=> S = {}
    BY <1>2, FS_EmptySet
<1>5. \A c \in Chunk \ S : Cardinality(S \cup {c}) = Cardinality(S) + 1
    BY <1>2, FS_AddElement
<1>6. \A c \in S : Cardinality(S \ {c}) = Cardinality(S) - 1
    BY <1>2, FS_RemoveElement
<1> QED
    BY <1>1, <1>2, <1>3, <1>4, <1>5, <1>6

(* The count of references is the only bound that is not a type by itself. *)
LEMMA CountType ==
    ASSUME inUse \subseteq Chunk, owners \in 0 .. MaxOwners,
           refCount = owners + Cardinality(inUse)
    PROVE  refCount \in 0 .. MaxOwners + Cardinality(Chunk)
BY InUseCount, PoolAssumption

(* Delete leaves Boolean values.                                           *)
LEMMA DeleteType == Delete => alive' \in BOOLEAN /\ created' \in BOOLEAN
BY DEF Delete

LEMMA PoolInitIInv == PoolInit => PoolIInv
<1> SUFFICES ASSUME PoolInit PROVE PoolIInv
    OBVIOUS
<1>1. Cardinality({}) = 0
    BY FS_EmptySet
<1>2. LivesWhileUsed
    BY <1>1 DEF PoolInit, LivesWhileUsed
<1>3. refCount \in 0 .. MaxOwners + Cardinality(Chunk)
    BY <1>2, CountType, PoolAssumption DEF PoolInit, LivesWhileUsed
<1>4. /\ alive \in BOOLEAN /\ created \in BOOLEAN
      /\ locked \in BOOLEAN /\ wanted \in BOOLEAN
    BY DEF PoolInit
<1>5. PoolTypeOK
    BY <1>3, <1>4, PoolAssumption DEF PoolInit, PoolTypeOK
<1> QED
    BY <1>2, <1>5 DEF PoolInit, PoolIInv, ChunksAreConserved, NothingOutUncreated

(* A chunk is handed out together with a reference.                        *)
LEMMA AllocateStep ==
    ASSUME PoolIInv, NEW t \in use.allocators, allocate(t)
    PROVE  PoolIInv'
<1> DEFINE available == IF created THEN free ELSE Chunk
<1> USE PoolAssumption DEF PoolIInv, PoolTypeOK, Calls, Goes, Use
<1>1. /\ available \subseteq Chunk
      /\ available \cap inUse = {}
      /\ available \cup inUse = Chunk
    BY DEF ChunksAreConserved, NothingOutUncreated
<1>2. CASE available = {}
    <2>1. created
        BY <1>2
    <2>2. /\ created' /\ UNCHANGED <<alive, free, refCount, locked, wanted, inUse,
                                     owners, waiting, use>>
          /\ place' = [place EXCEPT ![t] = "nochunk"]
        BY <1>2 DEF allocate
    <2> QED
        BY <2>1, <2>2
        DEF LivesWhileUsed, ChunksAreConserved, NothingOutUncreated
<1>3. CASE available # {}
    <2>1. PICK c \in available : /\ free' = available \ {c}
                                 /\ inUse' = inUse \cup {c}
                                 /\ refCount' = refCount + 1
                                 /\ UNCHANGED place
        BY <1>3 DEF allocate
    <2>2. created' /\ UNCHANGED <<alive, locked, wanted, owners, waiting, use>>
        BY DEF allocate
    <2>3. LivesWhileUsed'
        <3>1. Cardinality(inUse') = Cardinality(inUse) + 1
            BY <1>1, <2>1, InUseCount
        <3>2. Cardinality(inUse) \in Nat
            BY InUseCount
        <3> QED
            BY <2>1, <2>2, <3>1, <3>2 DEF LivesWhileUsed, allocate
    <2>4. free' \subseteq Chunk /\ inUse' \subseteq Chunk
        BY <1>1, <2>1
    <2>5. refCount' \in 0 .. MaxOwners + Cardinality(Chunk)
        BY <2>2, <2>3, <2>4, InUseCount DEF LivesWhileUsed
    <2>6. ChunksAreConserved' /\ NothingOutUncreated'
        BY <1>1, <2>1, <2>2 DEF ChunksAreConserved, NothingOutUncreated
    <2> QED
        BY <2>1, <2>2, <2>3, <2>4, <2>5, <2>6
<1> QED
    BY <1>2, <1>3

(* A chunk is given back together with its reference; with the last        *)
(* reference the pool goes, and no chunk is left in use.                   *)
LEMMA DeallocateStep ==
    ASSUME PoolIInv, NEW t \in Threads, NEW c \in Chunk, deallocate(t, c)
    PROVE  PoolIInv'
<1> USE PoolAssumption DEF PoolIInv, PoolTypeOK, Calls, Goes, Use
<1>1. /\ inUse' = inUse \ {c} /\ c \in inUse
      /\ refCount' = refCount - 1
      /\ UNCHANGED <<locked, wanted, owners, waiting, use>>
    BY DEF deallocate
<1>2. Cardinality(inUse') = Cardinality(inUse) - 1 /\ Cardinality(inUse') \in Nat
    BY <1>1, InUseCount
<1>3. refCount' = owners' + Cardinality(inUse')
    BY <1>1, <1>2, InUseCount DEF LivesWhileUsed
<1>4. inUse' \subseteq Chunk /\ refCount' \in 0 .. MaxOwners + Cardinality(Chunk)
    BY <1>1, <1>3, InUseCount
<1>5. CASE refCount' > 0
    <2>1. /\ free' = free \cup {c} /\ UNCHANGED <<alive, created>>
          /\ place' = [place EXCEPT ![t] = "check"]
        BY <1>5 DEF deallocate
    <2>2. created
        BY <1>1 DEF NothingOutUncreated
    <2>3. alive
        BY DEF deallocate
    <2> QED
        BY <1>1, <1>3, <1>4, <1>5, <2>1, <2>2, <2>3
        DEF LivesWhileUsed, ChunksAreConserved, NothingOutUncreated
<1>6. CASE ~(refCount' > 0)
    <2>1. Delete /\ UNCHANGED place
        BY <1>6 DEF deallocate
    <2>2. Cardinality(inUse') = 0
        BY <1>1, <1>2, <1>3, <1>4, <1>6, InUseCount
    <2>3. inUse' = {}
        BY <1>4, <2>2, InUseCount
    <2>4. alive' \in BOOLEAN /\ created' \in BOOLEAN
        BY <2>1, DeleteType
    <2> QED
        BY <1>1, <1>3, <1>4, <1>6, <2>1, <2>3, <2>4
        DEF Delete, LivesWhileUsed, ChunksAreConserved, NothingOutUncreated
<1> QED
    BY <1>5, <1>6

(* An owner's reference goes away; the chunks in use keep the pool alive.  *)
LEMMA RemoveRefStep ==
    ASSUME PoolIInv, NEW t \in Threads, removeRef(t)
    PROVE  PoolIInv'
<1> USE PoolAssumption DEF PoolIInv, PoolTypeOK, Calls
<1>1. /\ owners > 0 /\ owners' = owners - 1
      /\ refCount' = refCount - 1
      /\ UNCHANGED <<locked, wanted, inUse, place, waiting, use>>
    BY DEF removeRef
<1>2. Cardinality(inUse) \in Nat /\ (Cardinality(inUse) = 0 <=> inUse = {})
    BY InUseCount
<1>3. refCount' = owners' + Cardinality(inUse') /\ owners' \in 0 .. MaxOwners
    BY <1>1, <1>2 DEF LivesWhileUsed
<1>4. refCount' \in 0 .. MaxOwners + Cardinality(Chunk)
    BY <1>1, <1>3, InUseCount
<1>5. CASE refCount' <= 0
    <2>1. Delete
        BY <1>5 DEF removeRef
    <2>2. inUse' = {}
        BY <1>1, <1>2, <1>3, <1>5
    <2>3. alive' \in BOOLEAN /\ created' \in BOOLEAN
        BY <2>1, DeleteType
    <2> QED
        BY <1>1, <1>3, <1>4, <1>5, <2>1, <2>2, <2>3
        DEF Delete, LivesWhileUsed, ChunksAreConserved, NothingOutUncreated
<1>6. CASE ~(refCount' <= 0)
    <2>1. alive /\ UNCHANGED <<alive, created, free>>
        BY <1>6 DEF removeRef
    <2> QED
        BY <1>1, <1>3, <1>4, <1>6, <2>1
        DEF LivesWhileUsed, ChunksAreConserved, NothingOutUncreated
<1> QED
    BY <1>5, <1>6

LEMMA AddRefStep ==
    ASSUME PoolIInv, NEW t \in Threads, addRef(t)
    PROVE  PoolIInv'
<1> USE PoolAssumption DEF PoolIInv, PoolTypeOK, Calls
<1>1. Cardinality(inUse) \in Nat
    BY InUseCount
<1>2. LivesWhileUsed' /\ owners' \in 0 .. MaxOwners
    BY <1>1 DEF addRef, LivesWhileUsed
<1>3. refCount' \in 0 .. MaxOwners + Cardinality(Chunk)
    BY <1>2, InUseCount DEF addRef, LivesWhileUsed
<1> QED
    BY <1>2, <1>3 DEF addRef, ChunksAreConserved, NothingOutUncreated

LEMMA PoolInductiveStep == PoolIInv /\ [PoolNext]_poolVars => PoolIInv'
<1> SUFFICES ASSUME PoolIInv, [PoolNext]_poolVars PROVE PoolIInv'
    OBVIOUS
<1>1. use.allocators \subseteq Threads /\ use.freers \subseteq Threads
    BY PoolAssumption DEF PoolIInv, PoolTypeOK, Use
<1> USE DEF pool, clients, Goes, PoolIInv, PoolTypeOK, LivesWhileUsed,
            ChunksAreConserved, NothingOutUncreated
<1>2. ASSUME NEW t \in use.allocators, allocateTooLarge(t)
      PROVE  PoolIInv'
    <2>1. locked' \in BOOLEAN
        BY <1>2 DEF allocateTooLarge
    <2> QED
        BY <1>2, <2>1 DEF allocateTooLarge
<1>3. ASSUME NEW t \in use.allocators, notifyfreechunkavailable(t)
      PROVE  PoolIInv'
    <2>1. wanted' \in BOOLEAN
        BY <1>3 DEF notifyfreechunkavailable
    <2> QED
        BY <1>1, <1>3, <2>1 DEF notifyfreechunkavailable
<1>4. ASSUME NEW t \in use.freers, TestWanted(t)
      PROVE  PoolIInv'
    BY <1>1, <1>4 DEF TestWanted
<1>5. ASSUME NEW t \in use.freers, freechunkavailable(t)
      PROVE  PoolIInv'
    <2>1. wanted' \in BOOLEAN
        BY <1>5 DEF freechunkavailable
    <2> QED
        BY <1>1, <1>5, <2>1 DEF freechunkavailable
<1>6. CASE UNCHANGED poolVars
    BY <1>6 DEF poolVars
<1> QED
    BY <1>1, <1>2, <1>3, <1>4, <1>5, <1>6, AllocateStep, DeallocateStep,
       RemoveRefStep, AddRefStep DEF PoolNext, Deallocates
-----------------------------------------------------------------------------
(* The inductive invariant holds of every pool.                            *)
THEOREM PoolInvariance == PoolSpec => []PoolIInv
BY PoolInitIInv, PoolInductiveStep, PTL DEF PoolSpec

(* The variables keep their types; in particular iRefCount never wraps     *)
(* below zero and never exceeds the owners and the chunks together.        *)
THEOREM PoolTypeCorrect == PoolSpec => []PoolTypeOK
BY PoolInvariance, PTL DEF PoolIInv

(* iRefCount is the number of owners and of chunks in use, and the pool    *)
(* object is deleted exactly when both are gone: no chunk outlives it.     *)
THEOREM PoolLivesWhileUsed == PoolSpec => []LivesWhileUsed
BY PoolInvariance, PTL DEF PoolIInv

(* Every chunk of an existing pool is either free or in use, never both.   *)
THEOREM ChunksConserved == PoolSpec => []ChunksAreConserved
BY PoolInvariance, PTL DEF PoolIInv
=============================================================================
