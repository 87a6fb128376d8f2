--------------------------- MODULE ActiveObjects ---------------------------
(***************************************************************************)
(* What the scheduler promises about the requests of its active objects    *)
(* (AOs): a request is activated, completed once, and then either run once *)
(* or cancelled; an AO whose request is idle or still pending never runs,  *)
(* and at most one AO runs at a time.                                      *)
(***************************************************************************)
CONSTANTS AO,    \* the active objects of one scheduler
          NoAO   \* "no object"

VARIABLES req,     \* the request of each AO: "idle", "pending" or "ready"
          running  \* the AO inside its Run routine, or NoAO

aoVars == <<req, running>>

Init == /\ req = [a \in AO |-> "idle"]
        /\ running = NoAO

Activate(a) == /\ req[a] = "idle"
               /\ req' = [req EXCEPT ![a] = "pending"]
               /\ UNCHANGED running

(* RunIfNotReady, and a timer that is already due, activate and complete   *)
(* in separate steps; nothing completes a request that is not pending.     *)
Complete(a) == /\ req[a] = "pending"
               /\ req' = [req EXCEPT ![a] = "ready"]
               /\ UNCHANGED running

RunBegins(a) == /\ running = NoAO
                /\ req[a] = "ready"
                /\ req' = [req EXCEPT ![a] = "idle"]
                /\ running' = a

RunEnds == /\ running # NoAO
           /\ running' = NoAO
           /\ UNCHANGED req

Cancelled(a) == /\ req[a] = "ready"
                /\ req' = [req EXCEPT ![a] = "idle"]
                /\ UNCHANGED running

Next == \/ \E a \in AO : \/ Activate(a)
                         \/ Complete(a)
                         \/ RunBegins(a)
                         \/ Cancelled(a)
        \/ RunEnds

Spec == Init /\ [][Next]_aoVars
=============================================================================
