----------------------------- MODULE MCAllocator -----------------------------
(* Instantiates the allocators for TLC; the geometry is given in the .cfg. *)
EXTENDS Allocator
=============================================================================
