--------------------------- MODULE PriorityQueue ---------------------------
(***************************************************************************)
(* What a user of OsclPriorityQueue may rely on: a set of distinct         *)
(* elements from which Pop takes the greatest one.  The ready queue and    *)
(* the timer queue of the scheduler are written against this promise.      *)
(* Elements are numbered by their rank in the queue's order, so the        *)
(* element that must be served first is the greatest number.               *)
(***************************************************************************)
EXTENDS Naturals

CONSTANTS Elem,    \* the elements, identified with their rank
          Nothing  \* the value of out before anything was popped

VARIABLES q,       \* the elements queued
          out      \* the element the last Pop returned

pqVars == <<q, out>>

Init == q = {} /\ out = Nothing

Insert(e) == /\ e \notin q
             /\ q' = q \cup {e}
             /\ UNCHANGED out

PopGreatest(e) == /\ e \in q
                  /\ \A f \in q : f <= e
                  /\ q' = q \ {e}
                  /\ out' = e

Delete(e) == /\ e \in q
             /\ q' = q \ {e}
             /\ UNCHANGED out

Next == \E e \in Elem : Insert(e) \/ PopGreatest(e) \/ Delete(e)

Spec == Init /\ [][Next]_pqVars
=============================================================================
