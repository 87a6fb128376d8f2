--------------------------------- MODULE MCSrp ---------------------------------
(* Constants of Srp for TLC. *)
EXTENDS Srp, TLC

CONSTANTS A, B

Both == {A, B}

(* m packets from A, n from B, in PDUs of the sizes c.                     *)
Use(m, n, c, nsrp, wnsrp) ==
    [packets |-> (A :> m) @@ (B :> n), chunks |-> c, nsrp |-> nsrp, wnsrp |-> wnsrp]

Yes == [t \in Both |-> TRUE]
No == [t \in Both |-> FALSE]
OnlyB == (A :> FALSE) @@ (B :> TRUE)

(* Both ways; one way with PDUs of two packets; one end or both without    *)
(* WNSRP, around the modulus; responses without numbers.                   *)
AllUses == {Use(1, 1, {1}, Yes, Yes),
            Use(4, 0, {1, 2}, Yes, Yes),
            Use(9, 0, {1}, Yes, OnlyB),
            Use(9, 0, {1}, Yes, No),
            Use(3, 0, {1, 2}, No, Yes),
            Use(3, 0, {1}, OnlyB, Yes)}

(* WNSRP around the modulus.                                               *)
WrapUses == {Use(9, 0, {1}, Yes, Yes)}
================================================================================
