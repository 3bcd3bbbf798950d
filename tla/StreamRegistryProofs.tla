-------------------------- MODULE StreamRegistryProofs --------------------------
(***************************************************************************)
(* What the registry's methods do to its size, for any renderers and ids.  *)
(***************************************************************************)
EXTENDS StreamRegistry, FiniteSetTheorems, TLAPS

(* A registry has finitely many entries, so its size is a number.          *)
LEMMA SizeIsNat ==
  ASSUME IsFiniteSet(Key), NEW map
  PROVE  IsFiniteSet(KeysIn(map)) /\ Size(map) \in Nat
<1>1. KeysIn(map) \subseteq Key
  BY DEF KeysIn
<1> QED
  BY <1>1, FS_Subset, FS_CardinalityType DEF Size

(* A registry that stop has cleared has no entry.                          *)
LEMMA SizeEmpty == Size(EmptyMap) = 0
<1>1. KeysIn(EmptyMap) = {}
  BY DEF KeysIn, EmptyMap
<1> QED
  BY <1>1, FS_EmptySet DEF Size

(* add and tryAdd grow the map by one at most, a replacement by nothing.   *)
LEMMA SizeOfPut ==
  ASSUME IsFiniteSet(Key), NEW map, NEW k \in Key, NEW entry,
         entry # None, map = [j \in Key |-> map[j]]
  PROVE  Size(Put(map, k, entry)) = IF map[k] = None THEN Size(map) + 1 ELSE Size(map)
<1>1. KeysIn(Put(map, k, entry)) = KeysIn(map) \cup {k}
  BY DEF KeysIn, Put
<1>2. IsFiniteSet(KeysIn(map))
  BY SizeIsNat
<1>3. map[k] = None <=> k \notin KeysIn(map)
  BY DEF KeysIn
<1> QED
  BY <1>1, <1>2, <1>3, FS_AddElement DEF Size

(* remove shrinks it by the entry it removes.                              *)
LEMMA SizeOfDrop ==
  ASSUME IsFiniteSet(Key), NEW map, map = [j \in Key |-> map[j]], NEW k \in Key
  PROVE  Size(Drop(map, k)) = IF map[k] = None THEN Size(map) ELSE Size(map) - 1
<1>1. KeysIn(Drop(map, k)) = KeysIn(map) \ {k}
  BY DEF KeysIn, Drop
<1>2. IsFiniteSet(KeysIn(map))
  BY SizeIsNat
<1>3. map[k] = None <=> k \notin KeysIn(map)
  BY DEF KeysIn
<1> QED
  BY <1>1, <1>2, <1>3, FS_RemoveElement DEF Size

(* The teardown of a renderer never grows it.                              *)
LEMMA SizeWithoutOwner ==
  ASSUME IsFiniteSet(Key), NEW map, NEW o
  PROVE  Size(WithoutOwner(map, o)) <= Size(map)
<1>1. KeysIn(WithoutOwner(map, o)) \subseteq KeysIn(map)
  BY DEF KeysIn, WithoutOwner
<1>2. IsFiniteSet(KeysIn(map))
  BY SizeIsNat
<1> QED
  BY <1>1, <1>2, FS_Subset DEF Size
================================================================================
