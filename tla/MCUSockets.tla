---------------------------- MODULE MCUSockets ----------------------------
(* The contexts of the instance, and the symmetry of blocks of memory. *)
EXTENDS USocketsLoop, TLC

ContextList == <<1, 2>>
Symmetry == Permutations(Blocks)

=============================================================================
