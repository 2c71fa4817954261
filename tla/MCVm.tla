-------------------------------- MODULE MCVm --------------------------------
(* Instances of Vm. *)
EXTENDS Vm, TLC

Symmetry     == Permutations(Frames) \cup Permutations(Threads)
ForkSymmetry == Permutations(Frames) \cup Permutations(Spaces)

=============================================================================
