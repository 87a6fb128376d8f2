---------------------------- MODULE OsclPriQueue ----------------------------
(***************************************************************************)
(* OsclPriorityQueue (osclutil), the heap behind the scheduler's ready     *)
(* queue and timer queue: push, pop and remove of an arbitrary element on  *)
(* a vector c, with the loops of push_heap and pop_heap taken one          *)
(* iteration per step.                                                     *)
(*                                                                         *)
(* The comparison of the two queues never ties (the last key is the        *)
(* sequence number of the insertion), so an element is represented by its  *)
(* rank and compare_LT is < on ranks.  Callers never queue an element      *)
(* twice (PVActiveBase::IsInAnyQ), so a vector has no repetition.          *)
(* Indices are the zero-based indices of the code: element i is c[i + 1].  *)
(***************************************************************************)
EXTENDS Integers, Sequences, SequencesExt

CONSTANTS Elem,    \* the elements, identified with their rank
          MaxLen,  \* bound on the length of the vector
          Nothing  \* the value of out before anything was popped

ASSUME ElemAssumption == Elem \subseteq Nat /\ MaxLen \in Nat

VARIABLES c,       \* the vector
          loop,    \* the loop that is running, "idle" between calls
          first,   \* start of the range pop_heap works on
          index,   \* the loop variable: relative to first when sifting down
          out      \* the element the last pop returned

heapVars == <<c, loop, first, index, out>>

compare_LT(a, b) == a < b

Swap(s, i, j) == [s EXCEPT ![i + 1] = s[j + 1], ![j + 1] = s[i + 1]]

HeapInit == /\ c = <<>>
            /\ loop = "idle"
            /\ first = 0
            /\ index = 0
            /\ out = Nothing
-----------------------------------------------------------------------------
(* push_heap: move the element at index up while its parent is less.      *)

Parent == (index - 1) \div 2

ParentLess == index > 0 /\ compare_LT(c[Parent + 1], c[index + 1])

push(e) == /\ loop = "idle"
           /\ Len(c) < MaxLen
           /\ e \notin ToSet(c)
           /\ c' = Append(c, e)
           /\ loop' = "up"
           /\ index' = Len(c)
           /\ UNCHANGED <<first, out>>

SiftUp == /\ loop = "up"
          /\ ParentLess
          /\ c' = Swap(c, index, Parent)
          /\ index' = Parent
          /\ UNCHANGED <<loop, first, out>>

SiftUpDone == /\ loop = "up"
              /\ ~ParentLess
              /\ loop' = "idle"
              /\ first' = 0
              /\ index' = 0
              /\ UNCHANGED <<c, out>>
-----------------------------------------------------------------------------
(* pop_heap: the element at first has been swapped with the last one; move *)
(* the new element at first down the range that ends before the last one.  *)

new_last_index == Len(c) - first - 1

At(i) == c[first + i + 1]

Child == LET child == 2 * index + 1
         IN  IF child + 1 < new_last_index /\ compare_LT(At(child), At(child + 1))
             THEN child + 1
             ELSE child

(* Mutant: the loop stops one element early.                               *)
ChildGreater_Short == /\ 2 * index + 2 < new_last_index
                      /\ compare_LT(At(index), At(Child))

ChildGreater == /\ 2 * index + 1 < new_last_index
                /\ compare_LT(At(index), At(Child))

pop == /\ loop = "idle"
       /\ c # <<>>
       /\ out' = c[1]
       /\ c' = Swap(c, 0, Len(c) - 1)
       /\ loop' = "pop"
       /\ first' = 0
       /\ index' = 0

(* remove: the last element is dropped; any other one goes through         *)
(* pop_heap on the range that starts at its own position.                  *)
removeLast(e) == /\ loop = "idle"
                 /\ c # <<>>
                 /\ Last(c) = e
                 /\ c' = Front(c)
                 /\ UNCHANGED <<loop, first, index, out>>

remove(e) == /\ loop = "idle"
             /\ \E i \in 0 .. Len(c) - 2 :
                   /\ c[i + 1] = e
                   /\ c' = Swap(c, i, Len(c) - 1)
                   /\ first' = i
             /\ loop' = "remove"
             /\ index' = 0
             /\ UNCHANGED out

SiftDown == /\ loop \in {"pop", "remove"}
            /\ ChildGreater
            /\ c' = Swap(c, first + index, first + Child)
            /\ index' = Child
            /\ UNCHANGED <<loop, first, out>>

popDone == /\ loop = "pop"
           /\ ~ChildGreater
           /\ c' = Front(c)
           /\ loop' = "idle"
           /\ index' = 0
           /\ UNCHANGED <<first, out>>

(* After pop_back, remove re-orders the front part: push_heap on the       *)
(* elements up to and including the removed position.                      *)
removeDone == /\ loop = "remove"
              /\ ~ChildGreater
              /\ c' = Front(c)
              /\ loop' = "up"
              /\ index' = first
              /\ UNCHANGED <<first, out>>
-----------------------------------------------------------------------------
HeapLoop == SiftUp \/ SiftUpDone \/ SiftDown \/ popDone \/ removeDone

HeapNext == \/ \E e \in Elem : push(e) \/ remove(e) \/ removeLast(e)
            \/ pop
            \/ HeapLoop

HeapSpec == HeapInit /\ [][HeapNext]_heapVars

-----------------------------------------------------------------------------
HeapTypeOK == /\ c \in Seq(Elem)
              /\ Len(c) <= MaxLen
              /\ loop \in {"idle", "up", "pop", "remove"}
              /\ first \in 0 .. MaxLen
              /\ index \in 0 .. MaxLen
              /\ out \in Elem \cup {Nothing}

(* push, pop and remove implement the abstract priority queue: what pop    *)
(* returns is the greatest element queued.  While pop_heap runs, the       *)
(* element being taken out is still at the end of the vector.              *)
Queued == IF loop \in {"pop", "remove"} THEN ToSet(Front(c)) ELSE ToSet(c)

Abstract == INSTANCE PriorityQueue WITH q <- Queued

Implements == Abstract!Spec

=============================================================================
