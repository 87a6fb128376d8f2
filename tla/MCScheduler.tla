---------------------------- MODULE MCScheduler ----------------------------
(* Small instances of OsclScheduler for TLC: the priorities of the AOs.    *)
EXTENDS OsclScheduler

CONSTANTS o1, o2, t1, t2, r1

Equal == [a \in AO |-> 0]

FirstTimerHigh == [a \in AO |-> IF a = t1 THEN 10 ELSE 0]
=============================================================================
