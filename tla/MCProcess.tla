----------------------------- MODULE MCProcess -----------------------------
(* Instances of Process for the model checker.                             *)
EXTENDS Process, TLC

\* CPUs are interchangeable: no action and no invariant orders them.
CpuSymmetry == Permutations(Cpus)
=============================================================================
