--------------------------------- MODULE MCSse ---------------------------------
EXTENDS SseRefinement, TLC

(* Renderers are interchangeable, and so are the ids they choose. *)
Symmetry == Permutations(Owner) \cup Permutations(Id)
================================================================================
