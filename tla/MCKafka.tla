------------------------------- MODULE MCKafka -------------------------------
(* KafkaHandler for TLC: renderers and ids are interchangeable.            *)
EXTENDS KafkaHandler, TLC

Symmetry == Permutations(Owner) \cup Permutations(Id)
===============================================================================
