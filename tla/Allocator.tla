----------------------------- MODULE Allocator -----------------------------
(***************************************************************************)
(* What slab_allocator.h promises its caller: a block that is handed out   *)
(* belongs to the caller alone until the caller gives it back.             *)
(***************************************************************************)
CONSTANTS Blocks, NULL

VARIABLES
  used,  \* blocks in the hands of the caller
  ptr    \* what the latest slab_pool_alloc returned

Init == used = {} /\ ptr = NULL

Alloc ==
  \E b \in Blocks \ used : used' = used \cup {b} /\ ptr' = b

OutOfMemory == ptr' = NULL /\ UNCHANGED used

Free == \E b \in used : used' = used \ {b} /\ UNCHANGED ptr

Destroy == used' = {} /\ UNCHANGED ptr

Next == Alloc \/ OutOfMemory \/ Free \/ Destroy

Spec == Init /\ [][Next]_<<used, ptr>>
=============================================================================
