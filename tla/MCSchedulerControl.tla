------------------------- MODULE MCSchedulerControl -------------------------
(* Small instances of SchedulerControl for TLC: the uses of the scheduler. *)
EXTENDS SchedulerControl

CONSTANTS self, c1, c2

Threads == {self, c1, c2}

(* Any thread makes any call, but no AO leaves.                            *)
AnyThread == [stoppers |-> {self, c1}, suspenders |-> {self, c1},
              resumers |-> {c1, c2}, runsLeave |-> FALSE]

(* AOs may leave; only the scheduler's own thread stops and suspends.      *)
OwnThread == [stoppers |-> {self}, suspenders |-> {self},
              resumers |-> {c1, c2}, runsLeave |-> TRUE]

(* One other thread does all the stopping and suspending.                  *)
OneController == [stoppers |-> {c1}, suspenders |-> {c1},
                  resumers |-> {c1, c2}, runsLeave |-> FALSE]

AllUses == {AnyThread, OwnThread, OneController}
=============================================================================
