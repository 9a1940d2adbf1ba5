----------------------------- MODULE MCAllocator -----------------------------
(* Small instances of Allocator for TLC, with the history variable.        *)
EXTENDS AllocatorInv, AllocatorTrigger, TLC

(* Page frames are interchangeable: no action compares or orders them.     *)
PageSymmetry == Permutations(Page)

=============================================================================
