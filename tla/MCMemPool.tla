----------------------------- MODULE MCMemPool -----------------------------
(* Small instances of ThreadSafeMemPool for TLC: the uses of the pool.     *)
EXTENDS ThreadSafeMemPool

CONSTANTS n, c1

AllThreads == {n, c1}

(* Both threads allocate and give back, and some allocations are too large.*)
Shared == [allocators |-> AllThreads, freers |-> AllThreads, tooLarge |-> TRUE]

(* One thread allocates and gives back, the other only holds references.   *)
OneThread == [allocators |-> {n}, freers |-> {n}, tooLarge |-> FALSE]

AllUses == {Shared, OneThread}
=============================================================================
