------------------------------ MODULE MCCallSetup ------------------------------
(* Constants of CallSetup for TLC. *)
EXTENDS CallSetup, TLC

CONSTANTS A, B

Both == {A, B}

(* A is of type a and drew 0, B of type b and drew n.                      *)
Use(a, b, n, al1, k) ==
    [TerminalType |-> (A :> a) @@ (B :> b), number |-> (A :> 0) @@ (B :> n),
     al1 |-> al1, early |-> k]

(* All differences of the numbers, and both orders of the types, when no   *)
(* timer is too early; then with one and two timers that are.              *)
PromptUses == {Use(128, b, n, al1, 0) : b \in {128, 160}, n \in 0..3, al1 \in BOOLEAN}
EarlyUses == {Use(128, 128, n, FALSE, 1) : n \in {1, 2}} \cup {Use(160, 128, 0, FALSE, 2)}
AllUses == PromptUses \cup EarlyUses

LateUses == {Use(128, 160, 0, FALSE, 1)}
CollidingUses == {Use(128, 128, 2, FALSE, 1)}
================================================================================
