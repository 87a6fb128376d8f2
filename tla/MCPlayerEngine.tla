---------------------------- MODULE MCPlayerEngine ----------------------------
(* Constants of PlayerEngine for TLC. *)
EXTENDS PlayerEngine

CONSTANTS T1, T2

Threads == {T1, T2}

Use(commands, calls, alternates, events, faults, unknown, threads) ==
    [commands |-> commands, calls |-> calls, alternates |-> alternates,
     errors |-> events, faults |-> faults, unknown |-> unknown, callers |-> threads]

Basic == {"AddDataSource", "Init", "Reset"}

(* Cancels, with every fault and an error event; a source with alternate   *)
(* formats, and one whose format must be recognised, without cancels;      *)
(* synchronous calls, with cancels and without faults.                     *)
CancelUses == {Use(Basic \cup {"Cancel", "CancelAll"}, 4, 0, 0, Faults, FALSE, {}),
               Use(API, 3, 0, 1, Faults, FALSE, {})}
RollOverUses == {Use(Basic, 3, 2, 1, Faults, unknown, {}) : unknown \in BOOLEAN}
SyncUses == {Use(Basic \cup {"CancelAll"}, 3, 0, 1, {}, FALSE, Threads)}

AllUses == CancelUses \cup RollOverUses \cup SyncUses
SyncFaultUses == {Use(Basic, 2, 0, 0, {"failure"}, FALSE, {T1})}
================================================================================
