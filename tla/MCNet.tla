------------------------------- MODULE MCNet --------------------------------
(* Instances of Net for the model checker.                                 *)
EXTENDS Net

MCLoads == {<<3, 0>>, <<0, 3>>, <<1, 1>>, <<0, 0>>}
=============================================================================
