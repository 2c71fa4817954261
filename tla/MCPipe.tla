------------------------------- MODULE MCPipe -------------------------------
(* Instances of Pipe for the model checker.                                *)
EXTENDS Pipe, TLC

MCKeys == PipeKeys
Symmetry == Permutations(Procs) \cup Permutations(Pipes)
=============================================================================
