-------------------------- MODULE ThreadSafeMemPool --------------------------
(***************************************************************************)
(* ThreadSafeMemPoolFixedChunkAllocator: a pool of equal chunks shared by  *)
(* threads, which deletes itself with its last reference.  Every chunk in  *)
(* use holds a reference, and so does every owner.                         *)
(*                                                                         *)
(* iMemPoolMutex guards the free list and the count; the request for a     *)
(* callback when a chunk is free again is not guarded.  A thread that gets *)
(* no chunk asks for that callback, as the decoder nodes do.               *)
(*                                                                         *)
(* The names that every specification has begin with Pool here: one module *)
(* of proofs extends this module and ThreadSafeQueue.                      *)
(***************************************************************************)
EXTENDS Integers, FiniteSets

CONSTANTS Chunk,      \* the chunks of the pool
          Threads,    \* all threads
          Uses,       \* the ways the pool may be used
          MaxOwners   \* bound on the references other than those of chunks

(* The threads that allocate, those that give chunks back, and whether an  *)
(* allocation may be larger than a chunk.                                  *)
Use == [allocators : SUBSET Threads, freers : SUBSET Threads, tooLarge : BOOLEAN]

ASSUME PoolAssumption == /\ IsFiniteSet(Chunk) /\ Chunk # {}
                         /\ Uses \subseteq Use
                         /\ MaxOwners \in Nat \ {0}

VARIABLES
    alive,    \* the object has not been deleted
    created,  \* iMemPool exists
    free,     \* iFreeMemChunkList
    refCount, \* iRefCount
    locked,   \* iMemPoolMutex stays locked
    wanted,   \* iCheckNextAvailableFreeChunk
    inUse,    \* chunks handed out
    owners,   \* references held by owners of the pool
    place,    \* where every thread is
    waiting,  \* the allocators that wait for the callback
    use       \* the use of the pool, chosen once

pool == <<alive, created, free, refCount, locked>>
clients == <<inUse, owners>>
poolVars == <<pool, wanted, clients, place, waiting, use>>

(* Create(numchunk) without a chunk size: the memory comes later.          *)
PoolInit == /\ alive = TRUE
            /\ created = FALSE
            /\ free = {}
            /\ refCount = 1
            /\ locked = FALSE
            /\ wanted = FALSE
            /\ inUse = {}
            /\ owners = 1
            /\ place = [t \in Threads |-> "idle"]
            /\ waiting = {}
            /\ use \in Uses

Goes(t, p) == place' = [place EXCEPT ![t] = p]

Calls(t) == place[t] = "idle" /\ alive /\ ~locked
-----------------------------------------------------------------------------
(* Mutant: the chunk holds no reference.                                   *)
allocate_NoRef(t) ==
    /\ Calls(t)
    /\ owners > 0
    /\ t \notin waiting
    /\ created' = TRUE
    /\ LET available == IF created THEN free ELSE Chunk
       IN  IF available = {}
           THEN Goes(t, "nochunk") /\ UNCHANGED <<free, refCount, inUse>>
           ELSE \E c \in available : /\ free' = available \ {c}
                                     /\ inUse' = inUse \cup {c}
                                     /\ UNCHANGED <<refCount, place>>
    /\ UNCHANGED <<alive, locked, wanted, owners, waiting, use>>

(* The first allocation fixes the chunk size and creates the memory.       *)
allocate(t) ==
    /\ Calls(t)
    /\ owners > 0
    /\ t \notin waiting
    /\ created' = TRUE
    /\ LET available == IF created THEN free ELSE Chunk
       IN  IF available = {}
           THEN Goes(t, "nochunk") /\ UNCHANGED <<free, refCount, inUse>>
           ELSE \E c \in available : /\ free' = available \ {c}
                                     /\ inUse' = inUse \cup {c}
                                     /\ refCount' = refCount + 1
                                     /\ UNCHANGED place
    /\ UNCHANGED <<alive, locked, wanted, owners, waiting, use>>

(* An allocation that is too large leaves without unlocking the mutex.     *)
allocateTooLarge(t) ==
    /\ use.tooLarge
    /\ Calls(t)
    /\ owners > 0
    /\ created
    /\ locked' = TRUE
    /\ UNCHANGED <<alive, created, free, refCount, wanted, clients, place, waiting, use>>

(* Mutant: the observer is not registered.                                 *)
notifyfreechunkavailable_Forgets(t) ==
    /\ place[t] = "nochunk"
    /\ Goes(t, "idle")
    /\ waiting' = waiting \cup {t}
    /\ UNCHANGED <<pool, wanted, clients, use>>

notifyfreechunkavailable(t) ==
    /\ place[t] = "nochunk"
    /\ wanted' = TRUE
    /\ Goes(t, "idle")
    /\ waiting' = waiting \cup {t}
    /\ UNCHANGED <<pool, clients, use>>

(* Delete destroys the memory pool with the object.                        *)
Delete == /\ alive' = FALSE
          /\ created' = FALSE
          /\ free' = {}

(* Mutant: the chunk is not put on the free list.                          *)
deallocate_Loses(t, c) ==
    /\ Calls(t)
    /\ c \in inUse
    /\ inUse' = inUse \ {c}
    /\ refCount' = refCount - 1
    /\ IF refCount' > 0
       THEN Goes(t, "check") /\ UNCHANGED <<alive, created, free>>
       ELSE Delete /\ UNCHANGED place
    /\ UNCHANGED <<locked, wanted, owners, waiting, use>>

(* deallocate: the chunk is given back under the mutex; the request for a  *)
(* callback is looked at after the mutex was unlocked.                     *)
deallocate(t, c) ==
    /\ Calls(t)
    /\ c \in inUse
    /\ inUse' = inUse \ {c}
    /\ refCount' = refCount - 1
    /\ IF refCount' > 0
       THEN free' = free \cup {c} /\ Goes(t, "check") /\ UNCHANGED <<alive, created>>
       ELSE Delete /\ UNCHANGED place
    /\ UNCHANGED <<locked, wanted, owners, waiting, use>>

TestWanted(t) ==
    /\ place[t] = "check"
    /\ Goes(t, IF wanted THEN "clear" ELSE "idle")
    /\ UNCHANGED <<pool, wanted, clients, waiting, use>>

(* The callback lets the threads that wait allocate again.                 *)
freechunkavailable(t) ==
    /\ place[t] = "clear"
    /\ wanted' = FALSE
    /\ waiting' = {}
    /\ Goes(t, "idle")
    /\ UNCHANGED <<pool, clients, use>>

addRef(t) == /\ Calls(t)
             /\ owners \in 1 .. MaxOwners - 1
             /\ owners' = owners + 1
             /\ refCount' = refCount + 1
             /\ UNCHANGED <<alive, created, free, locked, wanted, inUse, place, waiting, use>>

removeRef(t) == /\ Calls(t)
                /\ owners > 0
                /\ owners' = owners - 1
                /\ refCount' = refCount - 1
                /\ IF refCount' <= 0 THEN Delete ELSE UNCHANGED <<alive, created, free>>
                /\ UNCHANGED <<locked, wanted, inUse, place, waiting, use>>

Deallocates(t) == \/ \E c \in Chunk : deallocate(t, c)
                  \/ TestWanted(t)
                  \/ freechunkavailable(t)

PoolNext ==
    \/ \E t \in use.allocators : \/ allocate(t)
                                 \/ allocateTooLarge(t)
                                 \/ notifyfreechunkavailable(t)
    \/ \E t \in use.freers : Deallocates(t)
    \/ \E t \in Threads : addRef(t) \/ removeRef(t)

PoolSpec == PoolInit /\ [][PoolNext]_poolVars

(* Whoever uses a chunk gives it back, and every call goes on.             *)
PoolFairness ==
    \A t \in Threads : /\ SF_poolVars(t \in use.freers /\ Deallocates(t))
                       /\ WF_poolVars(notifyfreechunkavailable(t))

PoolFairSpec == PoolSpec /\ PoolFairness
-----------------------------------------------------------------------------
PoolTypeOK == /\ alive \in BOOLEAN /\ created \in BOOLEAN
              /\ locked \in BOOLEAN /\ wanted \in BOOLEAN
              /\ free \subseteq Chunk
              /\ inUse \subseteq Chunk
              /\ owners \in 0 .. MaxOwners
              /\ refCount \in 0 .. MaxOwners + Cardinality(Chunk)
              /\ place \in [Threads -> {"idle", "nochunk", "check", "clear"}]
              /\ waiting \subseteq use.allocators
              /\ use \in Uses

(* The pool lives exactly as long as somebody uses it: an owner, or a      *)
(* chunk that was handed out, also after the last owner is gone.           *)
LivesWhileUsed == /\ refCount = owners + Cardinality(inUse)
                  /\ alive <=> refCount > 0

(* No chunk is lost or handed out twice, whoever gives it back.            *)
ChunksAreConserved ==
    created => free \cap inUse = {} /\ free \cup inUse = Chunk

(* "send a callback when the next memory chunk is deallocated": if only    *)
(* one thread allocates and gives chunks back, it gets the callback it     *)
(* asked for once chunks are given back.                                   *)
WaitersAreCalled ==
    \A t \in Threads :
        /\ use = [allocators |-> {t}, freers |-> {t}, tooLarge |-> FALSE]
        /\ t \in waiting
        ~> t \notin waiting \/ owners = 0
-----------------------------------------------------------------------------
(* What the code does not keep: the three formulas below are violated, see *)
(* the README.                                                             *)

(* "this instance of the memory pool object is deleted" only when no       *)
(* thread is inside one of its operations.                                 *)
NotUsedDeleted == \A t \in Threads : place[t] \in {"check", "clear"} => alive

(* WaitersAreCalled whichever threads allocate and give chunks back.       *)
EveryWaiterIsCalled ==
    \A t \in Threads : t \in waiting ~> t \notin waiting \/ owners = 0

(* "This API throws an exception when n is greater than the fixed chunk    *)
(* size", and the pool can be used after it.                               *)
PoolStaysUsable == ~locked
=============================================================================
