-------------------------------- MODULE MCGrpc --------------------------------
(* GrpcHandler for TLC: renderers and ids are interchangeable.             *)
EXTENDS GrpcHandler, TLC

Symmetry == Permutations(Owner) \cup Permutations(Id)
===============================================================================
