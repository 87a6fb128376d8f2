---------------------------- MODULE MCInterfaceProxy ----------------------------
(* Constants of InterfaceProxy for TLC. *)
EXTENDS InterfaceProxy

(* i interfaces, m messages, n starts of the pv thread.                     *)
Use(i, m, n, scheduler, disturbed, leaves) ==
    [interfaces |-> i, messages |-> m, starts |-> n,
     appScheduler |-> scheduler, cancels |-> disturbed, unregisters |-> disturbed,
     leaves |-> leaves]

(* Messages only, through a second start, with and without a scheduler in  *)
(* the app thread, and with a Run that leaves; two interfaces with cancels *)
(* and unregistrations; one interface with cancels of more messages.       *)
AllUses == {Use(1, 3, 2, TRUE, FALSE, FALSE),
            Use(1, 3, 2, FALSE, FALSE, FALSE),
            Use(1, 2, 1, TRUE, FALSE, TRUE),
            Use(2, 2, 1, TRUE, TRUE, TRUE),
            [Use(1, 3, 1, TRUE, TRUE, FALSE) EXCEPT !.unregisters = FALSE]}
================================================================================
