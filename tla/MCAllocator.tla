----------------------------- MODULE MCAllocator -----------------------------
(* Instances of Allocator for TLC. *)
EXTENDS Allocator

\* All allocators but the root are alike.
Symmetry == Permutations(Allocs \ {Root}) \cup Permutations(Jobs)
=============================================================================
