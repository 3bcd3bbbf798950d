---------------------------- MODULE TransportsProofs ----------------------------
(***************************************************************************)
(* Theorems about the transports of MCTransports, for any renderers, ids,  *)
(* number of calls and caps.  What MQTT, Socket.IO and MCP share is proved *)
(* once, of the steps their claims and entries can take, and each handler  *)
(* is shown to take no other; then GrpcConnect, HttpHandler, AiStreams,    *)
(* AiCompletions and KafkaDelivery, each with an inductive invariant of    *)
(* its own.  The last section puts them together, with what WebSocket-     *)
(* Proofs proves of its handler, for the properties of MCTransports.       *)
(***************************************************************************)
EXTENDS MCTransports, StreamRegistryProofs, SequenceTheorems

-------------------------------------------------------------------------------
(* The steps of the claims and the entries                                 *)

askedVars == <<made, keyOf, ownerEntry>>

Settled == {"idle", "ok", "failed"}

(* The awaits of MQTT, Socket.IO and MCP.                                  *)
Awaits == {"ending", "resolving", "loading", "connecting"}

(* A call is refused at once, with or without a listener for its renderer. *)
Refused(c, k) ==
    /\ Arrive(c, k)
    /\ Answer(c, "failed")
    /\ claimBound' = claimBound \/ claimBound' = Bind(claimBound, alive, OwnerOf(k))
    /\ UNCHANGED <<ownerEntry, pending, connections, entryBound, alive>>

Claims(c, k) ==
    /\ \E await \in Awaits : Reserve(c, k, await)
    /\ UNCHANGED <<connections, entryBound, alive>>

(* A call that needs no await takes no claim.                              *)
EntersAtOnce(c, k) ==
    /\ Arrive(c, k)
    /\ CanReserve(k) /\ connections[k] = None
    /\ Answer(c, "ok")
    /\ connections' = Put(connections, k, c)
    /\ claimBound' = Bind(claimBound, alive, OwnerOf(k))
    /\ entryBound' = Bind(entryBound, alive, OwnerOf(k))
    /\ UNCHANGED <<ownerEntry, pending, alive>>

WaitsOn(c) ==
    /\ pc[c] \notin Settled
    /\ \E await \in Awaits : Answer(c, await)
    /\ UNCHANGED <<askedVars, pending, connections, boundVars, alive>>

(* A call fails, and may have lost the entry it was to replace.            *)
Leaves(c) ==
    /\ pc[c] \notin Settled
    /\ Answer(c, "failed")
    /\ Release(c)
    /\ connections' = connections \/ connections' = Drop(connections, keyOf[c])
    /\ UNCHANGED <<askedVars, boundVars, alive>>

Enters(c) ==
    /\ pc[c] \notin Settled
    /\ CanCommit(c)
    /\ connections' = Put(connections, keyOf[c], c)
    /\ entryBound' = Bind(entryBound, alive, OwnerOf(keyOf[c]))
    /\ Answer(c, "ok")
    /\ Release(c)
    /\ UNCHANGED <<askedVars, claimBound, alive>>

Removes(k) ==
    /\ connections' = Drop(connections, k)
    /\ pending' = pending \/ pending' = Drop(pending, k)
    /\ UNCHANGED <<askedVars, pc, boundVars, alive>>

Clears ==
    /\ pending' = pending \/ pending' = EmptyMap
    /\ connections' = connections \/ connections' = EmptyMap
    /\ UNCHANGED <<askedVars, pc, boundVars, alive>>

ClaimsNext ==
    \/ \E c \in Call : \/ \E k \in Key : Refused(c, k) \/ Claims(c, k) \/ EntersAtOnce(c, k)
                       \/ WaitsOn(c) \/ Leaves(c) \/ Enters(c)
    \/ \E k \in Key : Removes(k)
    \/ \E o \in Owner : TornDown(o)
    \/ Clears

-------------------------------------------------------------------------------
(* The invariant they keep                                                 *)

ClaimsTyped ==
    /\ made \in 0 .. MaxCalls
    /\ pc \in [Call -> Settled \cup Awaits]
    /\ keyOf \in [Call -> Key \cup {None}]
    /\ ownerEntry \in [Call -> Call \cup {None}]
    /\ pending \in [Key -> Call \cup {None}]
    /\ connections \in [Key -> Call \cup {None}]
    /\ alive \subseteq Owner

(* A call that has come asked for a key, and every other is idle.          *)
CallsAsked ==
    \A c \in Call : IF c <= made THEN keyOf[c] \in Key /\ pc[c] # "idle"
                                 ELSE keyOf[c] = None /\ pc[c] = "idle"

(* A claim is of a call that waits, an entry of one that succeeded.        *)
KeysAgree ==
    \A k \in Key :
       /\ pending[k] # None => keyOf[pending[k]] = k /\ pc[pending[k]] \notin Settled
       /\ connections[k] # None => keyOf[connections[k]] = k /\ pc[connections[k]] = "ok"

(* Whoever has a claim or an entry lives and has the listener that will    *)
(* take it away.                                                           *)
OwnersBound ==
    /\ claimBound \subseteq alive /\ entryBound \subseteq alive
    /\ \A k \in Key : /\ pending[k] # None => OwnerOf(k) \in claimBound
                      /\ connections[k] # None => OwnerOf(k) \in entryBound

ClaimsInv == ClaimsTyped /\ CallsAsked /\ KeysAgree /\ OwnersBound /\ WithinCap

(* The invariant says what DeadOwnNothing and ClaimsSound promise.         *)
LEMMA ClaimsGive == ClaimsInv => WithinCap /\ DeadOwnNothing /\ ClaimsSound
  BY DEF ClaimsInv, KeysAgree, OwnersBound, DeadOwnNothing, ClaimsSound, KeysIn, Settled

(* A key belongs to a renderer, and there are finitely many of them.       *)
LEMMA KeyFacts ==
  /\ IsFiniteSet(Key)
  /\ \A k \in Key : OwnerOf(k) \in Owner
<1>1. IsFiniteSet(Key)
  BY ClaimsAssumption, FS_Product DEF Key
<1> QED
  BY <1>1 DEF Key, OwnerOf

(* A call that came and waits asked for a key; one that waits for its turn *)
(* to come is idle.                                                        *)
LEMMA CallFacts ==
  ASSUME ClaimsInv, NEW c \in Call
  PROVE  /\ pc[c] # "idle" => keyOf[c] \in Key
         /\ c = made + 1 => pc[c] = "idle"
         /\ pc[c] \notin Settled \/ pc[c] = "idle" =>
               \A k \in Key : connections[k] # c
         /\ pc[c] \in Settled => \A k \in Key : pending[k] # c
<1>1. /\ pc[c] # "idle" => keyOf[c] \in Key
      /\ c = made + 1 => pc[c] = "idle"
  BY ClaimsAssumption DEF ClaimsInv, ClaimsTyped, CallsAsked, Call
<1>2. \A k \in Key : /\ connections[k] = c => pc[c] = "ok"
                     /\ pending[k] = c => pc[c] \notin Settled
  BY ClaimsAssumption DEF ClaimsInv, KeysAgree
<1> QED
  BY <1>1, <1>2 DEF Settled

(* What is left after the teardown of one renderer.                        *)
LEMMA TornDownMaps ==
  ASSUME ClaimsInv, NEW o \in Owner, TornDown(o)
  PROVE  /\ pending' = WithoutOwner(pending, o)
         /\ connections' = WithoutOwner(connections, o)
<1>1. CASE o \in claimBound
  <2>1. CASE o \in entryBound
    BY <1>1, <2>1 DEF TornDown, AfterDestroyed
  <2>2. CASE o \notin entryBound
    BY <1>1, <2>2 DEF TornDown, AfterDestroyed, WithoutOwner, ClaimsInv, ClaimsTyped, OwnersBound
  <2> QED
    BY <2>1, <2>2
<1>2. CASE o \notin claimBound
  <2>0. pending = WithoutOwner(pending, o)
    BY <1>2 DEF WithoutOwner, ClaimsInv, ClaimsTyped, OwnersBound
  <2>1. CASE o \in entryBound
    BY <1>2, <2>0, <2>1 DEF TornDown, AfterDestroyed
  <2>2. CASE o \notin entryBound
    BY <1>2, <2>0, <2>2 DEF TornDown, AfterDestroyed, WithoutOwner, ClaimsInv, ClaimsTyped, OwnersBound
  <2> QED
    BY <2>1, <2>2
<1> QED
  BY <1>1, <1>2

(* A call that fails gives back its claim and nothing else.                *)
LEMMA ReleaseDrops ==
  ASSUME ClaimsInv, NEW c \in Call, pc[c] \notin Settled, Release(c)
  PROVE  /\ keyOf[c] \in Key
         /\ \A k \in Key : pending'[k] = IF pending[k] = c THEN None ELSE pending[k]
         /\ pending' \in [Key -> Call \cup {None}]
         /\ pending' = pending \/ pending' = Drop(pending, keyOf[c])
<1>1. keyOf[c] \in Key
  BY CallFacts DEF Settled
<1>2. \A k \in Key : pending[k] = c => k = keyOf[c]
  BY ClaimsAssumption DEF ClaimsInv, KeysAgree
<1> QED
  BY <1>1, <1>2, ClaimsAssumption DEF Release, HoldsClaim, Drop, ClaimsInv, ClaimsTyped

(* A call that arrives is counted and asks for its key.                    *)
LEMMA ArrivalTyped ==
  ASSUME ClaimsTyped, NEW c \in Call, NEW k \in Key, Arrive(c, k)
  PROVE  made' \in 0 .. MaxCalls /\ keyOf' \in [Call -> Key \cup {None}]
<1>1. made' \in 0 .. MaxCalls
  BY ClaimsAssumption DEF Arrive, Call
<1>2. keyOf' \in [Call -> Key \cup {None}]
  BY DEF ClaimsTyped, Arrive
<1> QED
  BY <1>1, <1>2

(* Each step of the claims keeps the types.                                *)
LEMMA ClaimsTypedKept ==
  ASSUME ClaimsInv, ClaimsNext
  PROVE  ClaimsTyped'
<1>0. ClaimsTyped
  BY DEF ClaimsInv
<1>1. ASSUME NEW c \in Call, NEW k \in Key, Refused(c, k) PROVE ClaimsTyped'
  <2>1. made' \in 0 .. MaxCalls /\ keyOf' \in [Call -> Key \cup {None}]
    BY <1>0, <1>1, ArrivalTyped DEF Refused
  <2> QED
    BY <1>0, <1>1, <2>1 DEF ClaimsTyped, Settled, Refused, Answer
<1>2. ASSUME NEW c \in Call, NEW k \in Key, Claims(c, k) PROVE ClaimsTyped'
  <2>1. made' \in 0 .. MaxCalls /\ keyOf' \in [Call -> Key \cup {None}]
    BY <1>0, <1>2, ArrivalTyped DEF Claims, Reserve
  <2> QED
    BY ZenonT(40), <1>0, <1>2, <2>1 DEF ClaimsTyped, Settled, Claims, Reserve, Answer, Put
<1>3. ASSUME NEW c \in Call, NEW k \in Key, EntersAtOnce(c, k) PROVE ClaimsTyped'
  <2>1. made' \in 0 .. MaxCalls /\ keyOf' \in [Call -> Key \cup {None}]
    BY <1>0, <1>3, ArrivalTyped DEF EntersAtOnce
  <2> QED
    BY <1>0, <1>3, <2>1 DEF ClaimsTyped, Settled, EntersAtOnce, Answer, Put
<1>4. ASSUME NEW c \in Call, WaitsOn(c) PROVE ClaimsTyped'
  BY <1>0, <1>4 DEF ClaimsTyped, Settled, WaitsOn, Answer, askedVars
<1>5. ASSUME NEW c \in Call, Leaves(c) PROVE ClaimsTyped'
  <2>1. pending' \in [Key -> Call \cup {None}]
    BY <1>5, ReleaseDrops DEF Leaves
  <2> QED
    BY <1>0, <1>5, <2>1 DEF ClaimsTyped, Settled, Leaves, Answer, askedVars, Drop
<1>6. ASSUME NEW c \in Call, Enters(c) PROVE ClaimsTyped'
  <2>1. pending' \in [Key -> Call \cup {None}]
    BY <1>6, ReleaseDrops DEF Enters
  <2> QED
    BY <1>0, <1>6, <2>1 DEF ClaimsTyped, Settled, Enters, Answer, askedVars, Put
<1>7. ASSUME NEW k \in Key, Removes(k) PROVE ClaimsTyped'
  BY <1>0, <1>7 DEF ClaimsTyped, Removes, askedVars, Drop
<1>8. ASSUME NEW o \in Owner, TornDown(o) PROVE ClaimsTyped'
  <2>1. /\ pending' \in [Key -> Call \cup {None}]
        /\ connections' \in [Key -> Call \cup {None}]
    BY <1>0, <1>8, TornDownMaps DEF WithoutOwner, ClaimsTyped
  <2> QED
    BY <1>0, <1>8, <2>1 DEF ClaimsTyped, TornDown
<1>9. CASE Clears
  BY <1>0, <1>9 DEF ClaimsTyped, Clears, askedVars, EmptyMap
<1> QED
  BY <1>1, <1>2, <1>3, <1>4, <1>5, <1>6, <1>7, <1>8, <1>9 DEF ClaimsNext

(* An idle call becomes one that has come, and no other forgets its key.   *)
LEMMA CallsAskedKept ==
  ASSUME ClaimsInv, ClaimsNext
  PROVE  CallsAsked'
<1> USE ClaimsAssumption DEF Settled, Awaits
<1>0. ClaimsTyped /\ CallsAsked
  BY DEF ClaimsInv
<1>1. ASSUME NEW c \in Call, NEW k \in Key, Arrive(c, k), NEW how \in Awaits \cup {"ok", "failed"},
             Answer(c, how)
      PROVE CallsAsked'
  BY <1>0, <1>1 DEF ClaimsTyped, CallsAsked, Arrive, Answer, Call
<1>2. ASSUME NEW c \in Call, pc[c] \notin Settled, NEW how \in Awaits \cup {"ok", "failed"},
             Answer(c, how), UNCHANGED askedVars
      PROVE CallsAsked'
  BY <1>0, <1>2 DEF ClaimsTyped, CallsAsked, Answer, askedVars
<1>3. ASSUME UNCHANGED <<made, pc, keyOf>> PROVE CallsAsked'
  BY <1>0, <1>3 DEF CallsAsked
<1> QED
  BY <1>1, <1>2, <1>3 DEF ClaimsNext, Refused, Claims, Reserve, EntersAtOnce, WaitsOn, Leaves,
     Enters, Removes, TornDown, Clears, askedVars

(* What an arriving call finds: it has nothing under any key yet.          *)
LEMMA ArrivalFacts ==
  ASSUME ClaimsInv, NEW c \in Call, NEW k \in Key, Arrive(c, k)
  PROVE  /\ pc[c] = "idle"
         /\ keyOf'[c] = k
         /\ \A d \in Call \ {c} : keyOf'[d] = keyOf[d]
         /\ \A j \in Key : pending[j] # c /\ connections[j] # c
  BY CallFacts DEF Arrive, Settled, ClaimsInv, ClaimsTyped

(* An entry or a claim is a call, which asked for this key.                *)
LEMMA KeysAgreeKept ==
  ASSUME ClaimsInv, ClaimsNext
  PROVE  KeysAgree'
<1> USE ClaimsAssumption
<1>0. ClaimsTyped /\ KeysAgree
  BY DEF ClaimsInv
<1>1. ASSUME NEW c \in Call, NEW k \in Key, Refused(c, k) PROVE KeysAgree'
  BY <1>0, <1>1, ArrivalFacts DEF ClaimsTyped, KeysAgree, Refused, Answer
<1>2. ASSUME NEW c \in Call, NEW k \in Key, Claims(c, k) PROVE KeysAgree'
  BY <1>0, <1>2, ArrivalFacts DEF ClaimsTyped, KeysAgree, Claims, Reserve, Answer, Put, Awaits, Settled
<1>3. ASSUME NEW c \in Call, NEW k \in Key, EntersAtOnce(c, k) PROVE KeysAgree'
  BY <1>0, <1>3, ArrivalFacts DEF ClaimsTyped, KeysAgree, EntersAtOnce, Answer, Put
<1>4. ASSUME NEW c \in Call, WaitsOn(c) PROVE KeysAgree'
  BY <1>0, <1>4 DEF ClaimsTyped, KeysAgree, WaitsOn, Answer, askedVars, Awaits, Settled
<1>5. ASSUME NEW c \in Call, Leaves(c) PROVE KeysAgree'
  <2>1. \A j \in Key : pending'[j] = IF pending[j] = c THEN None ELSE pending[j]
    BY <1>5, ReleaseDrops DEF Leaves
  <2>2. \A j \in Key : connections'[j] = connections[j] \/ connections'[j] = None
    BY <1>0, <1>5 DEF Leaves, Drop, ClaimsTyped
  <2>3. keyOf' = keyOf /\ pc' = [pc EXCEPT ![c] = "failed"] /\ pc[c] \notin Settled
    BY <1>5 DEF Leaves, Answer, askedVars
  <2> QED
    BY <1>0, <2>1, <2>2, <2>3 DEF ClaimsTyped, KeysAgree, Settled
<1>6. ASSUME NEW c \in Call, Enters(c) PROVE KeysAgree'
  <2>1. /\ keyOf[c] \in Key
        /\ \A j \in Key : pending'[j] = IF pending[j] = c THEN None ELSE pending[j]
    BY <1>6, ReleaseDrops DEF Enters
  <2>2. \A j \in Key : connections'[j] = IF j = keyOf[c] THEN c ELSE connections[j]
    BY <1>0, <1>6, <2>1 DEF Enters, Put, ClaimsTyped
  <2>3. keyOf' = keyOf /\ pc' = [pc EXCEPT ![c] = "ok"] /\ pc[c] \notin Settled
    BY <1>6 DEF Enters, Answer, askedVars
  <2> QED
    BY <1>0, <2>1, <2>2, <2>3 DEF ClaimsTyped, KeysAgree, Settled
<1>7. ASSUME NEW k \in Key, Removes(k) PROVE KeysAgree'
  <2>1. \A j \in Key : /\ pending'[j] = pending[j] \/ pending'[j] = None
                       /\ connections'[j] = connections[j] \/ connections'[j] = None
    BY <1>0, <1>7 DEF Removes, Drop, ClaimsTyped
  <2> QED
    BY <1>0, <1>7, <2>1 DEF KeysAgree, Removes, askedVars
<1>8. ASSUME NEW o \in Owner, TornDown(o) PROVE KeysAgree'
  <2>1. \A j \in Key : /\ pending'[j] = pending[j] \/ pending'[j] = None
                       /\ connections'[j] = connections[j] \/ connections'[j] = None
    BY <1>8, TornDownMaps DEF WithoutOwner
  <2> QED
    BY <1>0, <1>8, <2>1 DEF KeysAgree, TornDown
<1>9. CASE Clears
  <2>1. \A j \in Key : /\ pending'[j] = pending[j] \/ pending'[j] = None
                       /\ connections'[j] = connections[j] \/ connections'[j] = None
    BY <1>9 DEF Clears, EmptyMap
  <2> QED
    BY <1>0, <1>9, <2>1 DEF KeysAgree, Clears, askedVars
<1> QED
  BY <1>1, <1>2, <1>3, <1>4, <1>5, <1>6, <1>7, <1>8, <1>9 DEF ClaimsNext

(* Whoever has a claim or an entry has the listener that takes it away.    *)
LEMMA OwnersBoundKept ==
  ASSUME ClaimsInv, ClaimsNext
  PROVE  OwnersBound'
<1> USE ClaimsAssumption
<1>0. ClaimsTyped /\ OwnersBound
  BY DEF ClaimsInv
<1>1. ASSUME NEW c \in Call, NEW k \in Key, Refused(c, k) PROVE OwnersBound'
  BY <1>0, <1>1 DEF OwnersBound, Refused, Bind
<1>2. ASSUME NEW c \in Call, NEW k \in Key, Claims(c, k) PROVE OwnersBound'
  BY <1>0, <1>2 DEF ClaimsTyped, OwnersBound, Claims, Reserve, Arrive, Bind, Put
<1>3. ASSUME NEW c \in Call, NEW k \in Key, EntersAtOnce(c, k) PROVE OwnersBound'
  BY <1>0, <1>3 DEF ClaimsTyped, OwnersBound, EntersAtOnce, Arrive, Bind, Put
<1>4. ASSUME NEW c \in Call, WaitsOn(c) PROVE OwnersBound'
  BY <1>0, <1>4 DEF OwnersBound, WaitsOn, boundVars
<1>5. ASSUME NEW c \in Call, Leaves(c) PROVE OwnersBound'
  <2>1. \A j \in Key : pending'[j] = IF pending[j] = c THEN None ELSE pending[j]
    BY <1>5, ReleaseDrops DEF Leaves
  <2>2. \A j \in Key : connections'[j] = connections[j] \/ connections'[j] = None
    BY <1>0, <1>5 DEF Leaves, Drop, ClaimsTyped
  <2> QED
    BY <1>0, <1>5, <2>1, <2>2 DEF OwnersBound, Leaves, boundVars
<1>6. ASSUME NEW c \in Call, Enters(c) PROVE OwnersBound'
  <2>1. /\ keyOf[c] \in Key
        /\ \A j \in Key : pending'[j] = IF pending[j] = c THEN None ELSE pending[j]
    BY <1>6, ReleaseDrops DEF Enters
  <2>2. \A j \in Key : connections'[j] = IF j = keyOf[c] THEN c ELSE connections[j]
    BY <1>0, <1>6, <2>1 DEF Enters, Put, ClaimsTyped
  <2>3. OwnerOf(keyOf[c]) \in alive
    BY <1>0, <1>6, <2>1 DEF Enters, CanCommit, HoldsClaim, OwnersBound
  <2> QED
    BY <1>0, <1>6, <2>1, <2>2, <2>3 DEF OwnersBound, Enters, Bind
<1>7. ASSUME NEW k \in Key, Removes(k) PROVE OwnersBound'
  <2>1. \A j \in Key : /\ pending'[j] = pending[j] \/ pending'[j] = None
                       /\ connections'[j] = connections[j] \/ connections'[j] = None
    BY <1>0, <1>7 DEF Removes, Drop, ClaimsTyped
  <2> QED
    BY <1>0, <1>7, <2>1 DEF OwnersBound, Removes, boundVars
<1>8. ASSUME NEW o \in Owner, TornDown(o) PROVE OwnersBound'
  <2>1. \A j \in Key : IF OwnerOf(j) = o THEN pending'[j] = None /\ connections'[j] = None
                       ELSE pending'[j] = pending[j] /\ connections'[j] = connections[j]
    BY <1>8, TornDownMaps DEF WithoutOwner
  <2> QED
    BY <1>0, <1>8, <2>1 DEF OwnersBound, TornDown
<1>9. CASE Clears
  <2>1. \A j \in Key : /\ pending'[j] = pending[j] \/ pending'[j] = None
                       /\ connections'[j] = connections[j] \/ connections'[j] = None
    BY <1>9 DEF Clears, EmptyMap
  <2> QED
    BY <1>0, <1>9, <2>1 DEF OwnersBound, Clears, boundVars
<1> QED
  BY <1>1, <1>2, <1>3, <1>4, <1>5, <1>6, <1>7, <1>8, <1>9 DEF ClaimsNext

(* The sizes of the two maps are numbers, and a call of the handler adds   *)
(* one to their sum when there is room, or moves one from one to the other.*)
LEMMA WithinCapKept ==
  ASSUME ClaimsInv, ClaimsNext
  PROVE  WithinCap'
<1> USE ClaimsAssumption
<1>0. ClaimsTyped /\ WithinCap /\ Size(connections) \in Nat /\ Size(pending) \in Nat
      /\ IsFiniteSet(Key)
  BY KeyFacts, SizeIsNat DEF ClaimsInv
<1>a. /\ connections = [j \in Key |-> connections[j]]
      /\ pending = [j \in Key |-> pending[j]]
  BY <1>0 DEF ClaimsTyped
<1>1. ASSUME UNCHANGED <<pending, connections>> PROVE WithinCap'
  BY <1>0, <1>1 DEF WithinCap, Size, KeysIn
<1>2. ASSUME NEW c \in Call, NEW k \in Key, Claims(c, k) PROVE WithinCap'
  <2>1. /\ pending' = Put(pending, k, c) /\ pending[k] = None /\ connections' = connections
        /\ Size(connections) + Size(pending) < MaxConnections
    BY <1>2 DEF Claims, Reserve, CanReserve, HasRoom
  <2>2. Size(pending') = Size(pending) + 1 /\ Size(connections') = Size(connections)
    BY <1>0, <1>a, <2>1, SizeOfPut
  <2> QED
    BY <1>0, <2>1, <2>2 DEF WithinCap
<1>3. ASSUME NEW c \in Call, NEW k \in Key, EntersAtOnce(c, k) PROVE WithinCap'
  <2>1. /\ connections' = Put(connections, k, c) /\ connections[k] = None /\ pending' = pending
        /\ Size(connections) + Size(pending) < MaxConnections
    BY <1>3 DEF EntersAtOnce, CanReserve, HasRoom
  <2>2. Size(connections') = Size(connections) + 1 /\ Size(pending') = Size(pending)
    BY <1>0, <1>a, <2>1, SizeOfPut
  <2> QED
    BY <1>0, <2>1, <2>2 DEF WithinCap
<1>4. ASSUME pending' = pending \/ (\E k \in Key : pending' = Drop(pending, k))
                \/ (\E o \in Owner : pending' = WithoutOwner(pending, o)) \/ pending' = EmptyMap
      PROVE  Size(pending') \in Nat /\ Size(pending') <= Size(pending)
  <2>1. Size(pending') \in Nat
    BY <1>0, SizeIsNat
  <2>2. CASE pending' = pending
    BY <1>0, <2>2
  <2>3. ASSUME NEW k \in Key, pending' = Drop(pending, k) PROVE Size(pending') <= Size(pending)
    BY <1>0, <1>a, <2>3, SizeOfDrop
  <2>4. ASSUME NEW o \in Owner, pending' = WithoutOwner(pending, o) PROVE Size(pending') <= Size(pending)
    BY <1>0, <2>4, SizeWithoutOwner
  <2>5. CASE pending' = EmptyMap
    BY <1>0, <2>5, SizeEmpty
  <2> QED
    BY <1>4, <2>1, <2>2, <2>3, <2>4, <2>5
<1>5. ASSUME connections' = connections \/ (\E k \in Key : connections' = Drop(connections, k))
                \/ (\E o \in Owner : connections' = WithoutOwner(connections, o))
                \/ connections' = EmptyMap
      PROVE  Size(connections') \in Nat /\ Size(connections') <= Size(connections)
  <2>1. Size(connections') \in Nat
    BY <1>0, SizeIsNat
  <2>2. CASE connections' = connections
    BY <1>0, <2>2
  <2>3. ASSUME NEW k \in Key, connections' = Drop(connections, k)
        PROVE Size(connections') <= Size(connections)
    BY <1>0, <1>a, <2>3, SizeOfDrop
  <2>4. ASSUME NEW o \in Owner, connections' = WithoutOwner(connections, o)
        PROVE Size(connections') <= Size(connections)
    BY <1>0, <2>4, SizeWithoutOwner
  <2>5. CASE connections' = EmptyMap
    BY <1>0, <2>5, SizeEmpty
  <2> QED
    BY <1>5, <2>1, <2>2, <2>3, <2>4, <2>5
<1>6. ASSUME NEW c \in Call, Leaves(c) PROVE WithinCap'
  <2>1. keyOf[c] \in Key /\ (pending' = pending \/ pending' = Drop(pending, keyOf[c]))
    BY <1>6, ReleaseDrops DEF Leaves
  <2> QED
    BY <1>0, <1>4, <1>5, <1>6, <2>1 DEF Leaves, WithinCap
<1>7. ASSUME NEW c \in Call, Enters(c) PROVE WithinCap'
  <2>1. /\ keyOf[c] \in Key /\ pending[keyOf[c]] = c
        /\ pending' = Drop(pending, keyOf[c]) /\ connections' = Put(connections, keyOf[c], c)
    BY <1>7, ReleaseDrops DEF Enters, CanCommit, HoldsClaim, Release
  <2>2. Size(pending') = Size(pending) - 1
    BY <1>0, <1>a, <2>1, SizeOfDrop
  <2>3. Size(connections') = Size(connections) \/ Size(connections') = Size(connections) + 1
    BY <1>0, <1>a, <2>1, SizeOfPut
  <2> QED
    BY <1>0, <2>2, <2>3 DEF WithinCap
<1>8. ASSUME NEW k \in Key, Removes(k) PROVE WithinCap'
  BY <1>0, <1>4, <1>5, <1>8 DEF Removes, WithinCap
<1>9. ASSUME NEW o \in Owner, TornDown(o) PROVE WithinCap'
  BY <1>0, <1>4, <1>5, <1>9, TornDownMaps DEF WithinCap
<1>10. CASE Clears
  BY <1>0, <1>4, <1>5, <1>10 DEF Clears, WithinCap
<1> QED
  BY <1>1, <1>2, <1>3, <1>6, <1>7, <1>8, <1>9, <1>10 DEF ClaimsNext, Refused, WaitsOn

(* Claims and entries keep their invariant, whatever the handlers do.      *)
LEMMA ClaimsKept ==
  ASSUME ClaimsInv, ClaimsNext \/ UNCHANGED claimVars
  PROVE  ClaimsInv'
<1>1. CASE ClaimsNext
  BY <1>1, ClaimsTypedKept, CallsAskedKept, KeysAgreeKept, OwnersBoundKept, WithinCapKept
  DEF ClaimsInv
<1>2. CASE UNCHANGED claimVars
  BY <1>2
  DEF ClaimsInv, ClaimsTyped, CallsAsked, KeysAgree, OwnersBound, WithinCap, Size, KeysIn,
      claimVars
<1> QED
  BY <1>1, <1>2

(* Every handler begins with neither claims nor entries.                   *)
LEMMA ClaimsBegin == ASSUME ClaimsInit PROVE ClaimsInv
<1> USE ClaimsAssumption DEF ClaimsInit
<1>1. ClaimsTyped
  BY DEF ClaimsTyped, EmptyMap, Settled
<1>2. CallsAsked
  BY DEF CallsAsked, Call
<1>3. KeysAgree /\ OwnersBound
  BY DEF KeysAgree, OwnersBound, EmptyMap
<1>4. WithinCap
  BY SizeEmpty DEF WithinCap
<1> QED
  BY <1>1, <1>2, <1>3, <1>4 DEF ClaimsInv

-------------------------------------------------------------------------------
(* MQTT                                                                    *)

(* The handler's copies of the shared operators are the shared operators.  *)
LEMMA MqttSame ==
  /\ Mqtt!Key = Key /\ Mqtt!Call = Call /\ Mqtt!EmptyMap = EmptyMap
  /\ Mqtt!ClaimsInit <=> ClaimsInit
  /\ Mqtt!claimVars = claimVars
  /\ \A k : Mqtt!OwnerOf(k) = OwnerOf(k) /\ (Mqtt!CanReserve(k) <=> CanReserve(k))
  /\ \A map : Mqtt!Entries(map) = Entries(map)
  /\ \A map, k : Mqtt!Drop(map, k) = Drop(map, k)
  /\ \A map, k, e : Mqtt!Put(map, k, e) = Put(map, k, e)
  /\ \A c : /\ Mqtt!HoldsClaim(c) <=> HoldsClaim(c)
            /\ Mqtt!IsCurrent(c) <=> IsCurrent(c)
            /\ Mqtt!CanTake(c) <=> CanCommit(c)
            /\ Mqtt!Release(c) <=> Release(c)
            /\ Mqtt!Say(c) <=> Say(c)
            /\ Mqtt!GiveUp(c) <=> GiveUp(c)
  /\ \A c, k : /\ Mqtt!Arrive(c, k) <=> Arrive(c, k)
               /\ Mqtt!Reject(c, k) <=> Reject(c, k)
  /\ \A c, how : Mqtt!Answer(c, how) <=> Answer(c, how)
  /\ \A c, k, await : Mqtt!Reserve(c, k, await) <=> Reserve(c, k, await)
  /\ \A o : Mqtt!TornDown(o) <=> TornDown(o)
<1>0. Mqtt!HasRoom <=> HasRoom
  <2>1. Mqtt!KeysIn(connections) = KeysIn(connections) /\ Mqtt!KeysIn(pending) = KeysIn(pending)
    BY DEF Mqtt!KeysIn, KeysIn, Mqtt!Key, Key
  <2>2. Mqtt!Size(connections) = Size(connections) /\ Mqtt!Size(pending) = Size(pending)
    BY <2>1
    DEF Mqtt!Size, Size, Mqtt!Cardinality, Cardinality, Mqtt!IsFiniteSet, IsFiniteSet
  <2> QED
    BY <2>2 DEF Mqtt!HasRoom, HasRoom
<1> USE DEF Mqtt!Key, Key, Mqtt!Call, Call, Mqtt!EmptyMap, EmptyMap, Mqtt!OwnerOf, OwnerOf,
            Mqtt!Drop, Drop, Mqtt!Put, Put, Mqtt!KeysIn, KeysIn, Mqtt!Answer, Answer,
            Mqtt!HoldsClaim, HoldsClaim, Mqtt!Arrive, Arrive, Mqtt!Bind, Bind
<1>1. /\ Mqtt!Key = Key /\ Mqtt!Call = Call /\ Mqtt!EmptyMap = EmptyMap
      /\ \A map : Mqtt!Entries(map) = Entries(map)
      /\ \A map, k : Mqtt!Drop(map, k) = Drop(map, k)
      /\ \A map, k, e : Mqtt!Put(map, k, e) = Put(map, k, e)
  BY DEF Mqtt!Entries, Entries
<1>2. Mqtt!ClaimsInit <=> ClaimsInit
  BY DEF Mqtt!ClaimsInit, ClaimsInit
<1>3. Mqtt!claimVars = claimVars
  BY DEF Mqtt!claimVars, claimVars
<1>4. \A k : Mqtt!OwnerOf(k) = OwnerOf(k) /\ (Mqtt!CanReserve(k) <=> CanReserve(k))
  BY <1>0 DEF Mqtt!CanReserve, CanReserve
<1>5. \A c : /\ Mqtt!HoldsClaim(c) <=> HoldsClaim(c)
             /\ Mqtt!IsCurrent(c) <=> IsCurrent(c)
             /\ Mqtt!CanTake(c) <=> CanCommit(c)
             /\ Mqtt!Release(c) <=> Release(c)
             /\ Mqtt!Say(c) <=> Say(c)
             /\ Mqtt!GiveUp(c) <=> GiveUp(c)
  BY DEF Mqtt!IsCurrent, IsCurrent, Mqtt!CanTake, CanCommit, Mqtt!Release, Release,
         Mqtt!Say, Say, Mqtt!GiveUp, GiveUp, Mqtt!boundVars, boundVars
<1>6. \A c, k : /\ Mqtt!Arrive(c, k) <=> Arrive(c, k)
                /\ Mqtt!Reject(c, k) <=> Reject(c, k)
  BY DEF Mqtt!Reject, Reject, Mqtt!boundVars, boundVars
<1>7. \A c, how : Mqtt!Answer(c, how) <=> Answer(c, how)
  OBVIOUS
<1>8. \A c, k, await : Mqtt!Reserve(c, k, await) <=> Reserve(c, k, await)
  BY <1>4 DEF Mqtt!Reserve, Reserve
<1>9. \A o : Mqtt!TornDown(o) <=> TornDown(o)
  BY DEF Mqtt!TornDown, TornDown, Mqtt!AfterDestroyed, AfterDestroyed, Mqtt!WithoutOwner,
         WithoutOwner
<1> QED
  BY <1>1, <1>2, <1>3, <1>4, <1>5, <1>6, <1>7, <1>8, <1>9

(* The MQTT instance numbers its calls as the claims do.                    *)
LEMMA MqttCalls == Mqtt!Call = Call
  BY DEF Mqtt!Call, Call

MqttTyped ==
    /\ conn \in [Call -> {"none", "up", "ended"}]
    /\ io \in Call \cup {None}
    /\ closer \subseteq Call /\ swept \subseteq Call

(* A call succeeds with a client and waits for the end of the client it    *)
(* replaces; who is being disconnected or swept has ended.                 *)
ClientsSound ==
    /\ \A c \in Call : conn[c] # "none" <=> pc[c] = "ok"
    /\ \A c \in Call : pc[c] \notin Settled =>
          pc[c] = "ending" /\ ownerEntry[c] # None /\ conn[ownerEntry[c]] = "ended"
    /\ \A c \in closer \cup swept : conn[c] = "ended"

MqttInv == ClaimsInv /\ MqttTyped /\ ClientsSound /\ Mqtt!MqttTracked

MqttSpec == Mqtt!MqttInit /\ [][Mqtt!MqttNext]_<<claimVars, Mqtt!mqttVars>>

(* Each action of the handler moves the claims as the shared code does.    *)
LEMMA MqttClaims ==
  ASSUME MqttInv, Mqtt!MqttNext
  PROVE  ClaimsNext
<1> USE MqttSame
<1>0. ClaimsInv
  BY DEF MqttInv
<1>1. ASSUME NEW c \in Call, NEW k \in Key,
             Mqtt!ConnectRejected(c, k) \/ Mqtt!ConnectUnbuilt(c, k)
      PROVE  Refused(c, k)
  BY <1>1 DEF Mqtt!ConnectRejected, Mqtt!ConnectUnbuilt, Reject, Refused, Mqtt!Bind, Bind,
     boundVars
<1>2. ASSUME NEW c \in Call, NEW k \in Key, Mqtt!ConnectNew(c, k) PROVE EntersAtOnce(c, k)
  BY <1>2 DEF Mqtt!ConnectNew, EntersAtOnce, Mqtt!Register, Mqtt!Bind, Bind
<1>3. ASSUME NEW c \in Call, NEW k \in Key, Mqtt!Reconnect(c, k) PROVE Claims(c, k)
  BY <1>3 DEF Mqtt!Reconnect, Claims, Awaits
<1>4. ASSUME NEW c \in Call, Mqtt!ReconnectStale(c) \/ Mqtt!ReconnectFailed(c) PROVE Leaves(c)
  BY <1>4 DEF Mqtt!ReconnectStale, Mqtt!ReconnectFailed, Mqtt!Resumed, Leaves, GiveUp, Settled,
     askedVars, boundVars, Mqtt!boundVars
<1>5. ASSUME NEW c \in Call, Mqtt!Replace(c) PROVE Enters(c)
  BY <1>5 DEF Mqtt!Replace, Mqtt!Register, Mqtt!Resumed, Enters, Settled, askedVars, Mqtt!Bind, Bind
<1>6. ASSUME NEW e \in Call, Mqtt!Disconnected(e) PROVE Removes(keyOf[e]) \/ Clears
  BY <1>6 DEF Mqtt!Disconnected, Removes, Clears, askedVars, boundVars, Mqtt!boundVars
<1>7. ASSUME NEW c \in Call, Mqtt!ClientEvent(c) \/ Mqtt!RequestCallback(c) \/ Mqtt!StopNextEntry(c)
      PROVE  Clears
  BY <1>7 DEF Mqtt!ClientEvent, Mqtt!RequestCallback, Mqtt!StopNextEntry, Clears, askedVars,
     boundVars, Mqtt!boundVars
<1>8. ASSUME NEW k \in Key, Mqtt!Disconnect(k) PROVE Clears
  BY <1>8 DEF Mqtt!Disconnect, Clears, askedVars, boundVars, Mqtt!boundVars
<1>9. ASSUME NEW o \in Owner, Mqtt!Destroyed(o) PROVE TornDown(o)
  BY <1>9 DEF Mqtt!Destroyed
<1>10. CASE Mqtt!StopStart \/ Mqtt!StopEnd
  <2>0. Mqtt!EmptyMap = EmptyMap
    BY MqttSame
  <2>1. CASE Mqtt!StopStart
    BY <2>0, <2>1 DEF Mqtt!StopStart, Clears, ClaimsNext, askedVars, boundVars, Mqtt!boundVars
  <2>2. CASE Mqtt!StopEnd
    BY <2>0, <2>2 DEF Mqtt!StopEnd, Clears, ClaimsNext, askedVars, boundVars, Mqtt!boundVars
  <2> QED
    BY <1>10, <2>1, <2>2
<1>11. ASSUME NEW e \in Call, Mqtt!Disconnected(e) PROVE keyOf[e] \in Key
  <2>1. e \in closer
    BY <1>11 DEF Mqtt!Disconnected
  <2>2. pc[e] = "ok"
    BY <2>1 DEF MqttInv, ClientsSound
  <2> QED
    BY <1>0, <2>2, CallFacts
<1> QED
  BY <1>1, <1>2, <1>3, <1>4, <1>5, <1>6, <1>7, <1>8, <1>9, <1>10, <1>11
  DEF Mqtt!MqttNext, Mqtt!ConnectCall, ClaimsNext

(* What the entry of a key and the call that holds a claim are.            *)
LEMMA MqttFacts ==
  ASSUME MqttInv
  PROVE  /\ \A k \in Key : connections[k] # None =>
               connections[k] \in Call /\ keyOf[connections[k]] = k
         /\ \A c \in Call : conn[c] # "none" => keyOf[c] \in Key
         /\ \A c \in Call : pc[c] = "ending" => keyOf[c] \in Key /\ conn[c] = "none"
         /\ \A c \in Call : c = made + 1 => conn[c] = "none" /\ pc[c] = "idle"
<1>1. ASSUME NEW k \in Key, connections[k] # None
      PROVE  connections[k] \in Call /\ keyOf[connections[k]] = k
  BY <1>1 DEF MqttInv, ClaimsInv, ClaimsTyped, KeysAgree
<1>2. ASSUME NEW c \in Call
      PROVE  /\ conn[c] # "none" => keyOf[c] \in Key
             /\ pc[c] = "ending" => keyOf[c] \in Key /\ conn[c] = "none"
             /\ c = made + 1 => conn[c] = "none" /\ pc[c] = "idle"
  BY <1>2, CallFacts DEF MqttInv, ClientsSound, Settled
<1> QED
  BY <1>1, <1>2

(* Ending clients keeps all that is said of them, while no entry changes.  *)
LEMMA EndingKeeps ==
  ASSUME MqttInv, NEW gone, conn' = Mqtt!Ended(gone),
         \A c \in Call \cap gone : conn[c] # "none",
         UNCHANGED <<keyOf, ownerEntry, pc>>,
         \A c \in Call \ gone : conn[c] = "up" /\ IsCurrent(c) => IsCurrent(c)',
         io' \in Call \cup {None}, closer' \subseteq closer \cup gone,
         swept' \subseteq swept \cup gone, closer' \subseteq Call, swept' \subseteq Call
  PROVE  MqttTyped' /\ ClientsSound' /\ Mqtt!MqttTracked'
<1> USE MqttSame, ClaimsAssumption
<1>1. \A c \in Call : conn'[c] = IF c \in gone THEN "ended" ELSE conn[c]
  BY DEF Mqtt!Ended
<1>2. MqttTyped'
  BY DEF MqttInv, MqttTyped, Mqtt!Ended
<1>3. ClientsSound'
  <2>1. \A c \in Call : ownerEntry[c] # None => ownerEntry[c] \in Call
    BY DEF MqttInv, ClaimsInv, ClaimsTyped
  <2> QED
    BY <1>1, <2>1 DEF MqttInv, MqttTyped, ClientsSound
<1>4. Mqtt!MqttTracked'
  BY <1>1 DEF MqttInv, Mqtt!MqttTracked, Mqtt!IsCurrent, IsCurrent
<1> QED
  BY <1>2, <1>3, <1>4

(* The invariant without that of the claims.                               *)
MqttRest == MqttTyped /\ ClientsSound /\ Mqtt!MqttTracked

(* Each action keeps what is said of the clients.                          *)
LEMMA MqttKept ==
  ASSUME MqttInv, Mqtt!MqttNext
  PROVE  MqttRest'
<1> USE DEF MqttRest
<1>0. /\ ClaimsInv /\ ClaimsTyped /\ ClaimsTyped' /\ None \notin Call
      /\ MqttTyped /\ ClientsSound
      /\ \A c \in Call : conn[c] = "up" => connections[keyOf[c]] = c
  <2>1. ClaimsTyped'
    BY MqttClaims, ClaimsTypedKept DEF MqttInv
  <2>2. \A c \in Call : conn[c] = "up" => connections[keyOf[c]] = c
    BY MqttCalls DEF MqttInv, Mqtt!MqttTracked, Mqtt!IsCurrent
  <2> QED
    BY <2>1, <2>2, ClaimsAssumption DEF MqttInv, ClaimsInv
<1>1. ASSUME NEW c \in Call, NEW k \in Key,
             Mqtt!ConnectRejected(c, k) \/ Mqtt!ConnectUnbuilt(c, k)
      PROVE  MqttRest'
  <2>1. /\ c = made + 1 /\ keyOf' = [keyOf EXCEPT ![c] = k]
        /\ pc' = [pc EXCEPT ![c] = "failed"] /\ io' = None
        /\ UNCHANGED <<ownerEntry, connections, conn, closer, swept>>
    BY <1>1, MqttSame
    DEF Mqtt!ConnectRejected, Mqtt!ConnectUnbuilt, Reject, Arrive, Answer, Mqtt!mqttVars
  <2>2. conn[c] = "none" /\ pc[c] = "idle"
    BY <2>1, MqttFacts
  <2>3. MqttTyped' /\ ClientsSound'
    BY <1>0, <2>1, <2>2 DEF MqttTyped, ClientsSound, ClaimsTyped, Settled
  <2>4. Mqtt!MqttTracked'
    BY <1>0, <2>1, <2>2, MqttCalls DEF Mqtt!MqttTracked, Mqtt!IsCurrent, ClaimsTyped
  <2> QED
    BY <2>3, <2>4
<1>2. ASSUME NEW c \in Call, NEW k \in Key, Mqtt!ConnectNew(c, k) PROVE MqttRest'
  <2>1. /\ c = made + 1 /\ keyOf' = [keyOf EXCEPT ![c] = k]
        /\ connections[k] = None
        /\ connections' = [connections EXCEPT ![k] = c]
        /\ conn' = [conn EXCEPT ![c] = "up"]
        /\ pc' = [pc EXCEPT ![c] = "ok"] /\ io' = None
        /\ UNCHANGED <<ownerEntry, closer, swept>>
    BY <1>2, MqttSame
    DEF Mqtt!ConnectNew, Mqtt!Register, Mqtt!Becomes, Arrive, Answer, Put, Mqtt!mqttVars
  <2>2. conn[c] = "none" /\ pc[c] = "idle"
    BY <2>1, MqttFacts
  <2>3. MqttTyped' /\ ClientsSound'
    BY <1>0, <2>1, <2>2 DEF MqttTyped, ClientsSound, ClaimsTyped, Settled
  <2>4. Mqtt!MqttTracked'
    BY <1>0, <2>1, <2>2, MqttFacts, MqttCalls DEF Mqtt!MqttTracked, Mqtt!IsCurrent, ClaimsTyped, MqttTyped
  <2> QED
    BY <2>3, <2>4
<1>3. ASSUME NEW c \in Call, NEW k \in Key, Mqtt!Reconnect(c, k) PROVE MqttRest'
  <2>1. /\ connections[k] # None
        /\ c = made + 1 /\ keyOf' = [keyOf EXCEPT ![c] = k]
        /\ ownerEntry' = [ownerEntry EXCEPT ![c] = connections[k]]
        /\ pc' = [pc EXCEPT ![c] = "ending"] /\ io' = None
        /\ conn' = Mqtt!Ended({connections[k]})
        /\ UNCHANGED <<connections, closer, swept>>
    BY <1>3, MqttSame DEF Mqtt!Reconnect, Reserve, Arrive, Answer, Mqtt!mqttVars
  <2>2. conn[c] = "none" /\ pc[c] = "idle"
    BY <2>1, MqttFacts
  <2>3. connections[k] \in Call /\ pc[connections[k]] = "ok"
    BY <1>0, <2>1 DEF ClaimsInv, ClaimsTyped, KeysAgree
  <2>4. \A d \in Call : conn'[d] = IF d = connections[k] THEN "ended" ELSE conn[d]
    BY <2>1, MqttSame DEF Mqtt!Ended
  <2>5. MqttTyped'
    BY <1>0, <2>1, MqttSame DEF MqttTyped, Mqtt!Ended
  <2>6. ClientsSound'
    <3>1. ASSUME NEW d \in Call PROVE conn'[d] # "none" <=> pc'[d] = "ok"
      <4>1. conn[d] # "none" <=> pc[d] = "ok"
        BY <1>0 DEF ClientsSound
      <4>2. /\ d = c => conn'[d] = "none" /\ pc'[d] = "ending"
            /\ d = connections[k] => conn'[d] = "ended" /\ pc'[d] = "ok"
            /\ d # c /\ d # connections[k] => conn'[d] = conn[d] /\ pc'[d] = pc[d]
        BY <1>0, <2>1, <2>2, <2>3, <2>4 DEF ClaimsTyped
      <4> QED
        BY <4>1, <4>2
    <3>2. ASSUME NEW d \in Call, pc'[d] \notin Settled
          PROVE  pc'[d] = "ending" /\ ownerEntry'[d] # None /\ conn'[ownerEntry'[d]] = "ended"
      <4>1. CASE d = c
        BY <1>0, <2>1, <2>3, <2>4, <4>1 DEF ClaimsTyped
      <4>2. CASE d # c
        <5>1. pc[d] \notin Settled /\ ownerEntry'[d] = ownerEntry[d] /\ pc'[d] = pc[d]
          BY <1>0, <2>1, <3>2, <4>2 DEF ClaimsTyped
        <5>2. ownerEntry[d] \in Call /\ conn[ownerEntry[d]] = "ended"
          BY <1>0, <5>1 DEF ClientsSound, ClaimsTyped
        <5> QED
          BY <1>0, <2>4, <5>1, <5>2 DEF ClientsSound
      <4> QED
        BY <4>1, <4>2
    <3>3. \A d \in closer' \cup swept' : conn'[d] = "ended"
      BY <1>0, <2>1, <2>4 DEF ClientsSound, MqttTyped
    <3> QED
      BY <3>1, <3>2, <3>3 DEF ClientsSound
  <2>7. Mqtt!MqttTracked'
    <3> SUFFICES ASSUME NEW d \in Call, conn'[d] = "up" PROVE connections'[keyOf'[d]] = d
      BY MqttCalls DEF Mqtt!MqttTracked, Mqtt!IsCurrent
    <3>1. d # c /\ conn[d] = "up"
      BY <2>2, <2>4
    <3>2. keyOf'[d] = keyOf[d] /\ connections' = connections
      BY <1>0, <2>1, <3>1 DEF ClaimsTyped
    <3>3. connections[keyOf[d]] = d
      BY <1>0, <3>1, MqttCalls DEF Mqtt!MqttTracked, Mqtt!IsCurrent
    <3> QED
      BY <3>2, <3>3
  <2> QED
    BY <2>5, <2>6, <2>7
<1>4. ASSUME NEW c \in Call, Mqtt!ReconnectStale(c) \/ Mqtt!ReconnectFailed(c) PROVE MqttRest'
  <2>1. /\ pc[c] = "ending" /\ pc' = [pc EXCEPT ![c] = "failed"] /\ io' = None
        /\ UNCHANGED <<keyOf, ownerEntry, conn, closer, swept>>
    BY <1>4, MqttSame
    DEF Mqtt!ReconnectStale, Mqtt!ReconnectFailed, Mqtt!Resumed, GiveUp, Answer, Mqtt!mqttVars
  <2>2. \/ connections' = connections
        \/ /\ connections' = [connections EXCEPT ![keyOf[c]] = None]
           /\ connections[keyOf[c]] = ownerEntry[c]
    BY <1>4, MqttSame DEF Mqtt!ReconnectStale, Mqtt!ReconnectFailed, GiveUp, CanCommit, Drop
  <2>3. /\ conn[c] = "none" /\ keyOf[c] \in Key
        /\ ownerEntry[c] # None /\ conn[ownerEntry[c]] = "ended"
    BY <1>0, <2>1, MqttFacts DEF ClientsSound, Settled
  <2>4. MqttTyped' /\ ClientsSound'
    BY <1>0, <2>1, <2>3 DEF MqttTyped, ClientsSound, ClaimsTyped, Settled
  <2>5. Mqtt!MqttTracked'
    BY <1>0, <2>1, <2>2, <2>3, MqttFacts, MqttCalls DEF Mqtt!MqttTracked, Mqtt!IsCurrent, ClaimsTyped
  <2> QED
    BY <2>4, <2>5
<1>5. ASSUME NEW c \in Call, Mqtt!Replace(c) PROVE MqttRest'
  <2>1. /\ pc[c] = "ending" /\ pc' = [pc EXCEPT ![c] = "ok"] /\ io' = None
        /\ connections[keyOf[c]] = ownerEntry[c]
        /\ connections' = [connections EXCEPT ![keyOf[c]] = c]
        /\ conn' = [conn EXCEPT ![c] = "up"]
        /\ UNCHANGED <<keyOf, ownerEntry, closer, swept>>
    BY <1>5, MqttSame
    DEF Mqtt!Replace, Mqtt!Resumed, Mqtt!Register, Mqtt!Becomes, CanCommit, Answer, Put,
        Mqtt!mqttVars
  <2>2. /\ conn[c] = "none" /\ keyOf[c] \in Key
        /\ ownerEntry[c] # None /\ conn[ownerEntry[c]] = "ended"
    BY <1>0, <2>1, MqttFacts DEF ClientsSound, Settled
  <2>3. MqttTyped' /\ ClientsSound'
    BY <1>0, <2>1, <2>2 DEF MqttTyped, ClientsSound, ClaimsTyped, Settled
  <2>4. Mqtt!MqttTracked'
    BY <1>0, <2>1, <2>2, MqttFacts, MqttCalls DEF Mqtt!MqttTracked, Mqtt!IsCurrent, ClaimsTyped, MqttTyped
  <2> QED
    BY <2>3, <2>4
<1>6. ASSUME NEW c \in Call, Mqtt!ClientEvent(c) \/ Mqtt!RequestCallback(c) PROVE MqttRest'
  <2>1. /\ io' \in Call \cup {None}
        /\ UNCHANGED <<pc, keyOf, ownerEntry, connections, conn, closer, swept>>
    BY <1>6, MqttSame
    DEF Mqtt!ClientEvent, Mqtt!RequestCallback, Mqtt!SayIfCurrent, Say, Mqtt!mqttVars
  <2> QED
    BY <1>0, <2>1 DEF MqttTyped, ClientsSound, Mqtt!MqttTracked, Mqtt!IsCurrent, MqttInv
<1>7. ASSUME NEW e \in Call, Mqtt!Disconnected(e) PROVE MqttRest'
  <2>1. /\ e \in closer /\ closer' \subseteq closer /\ io' \in Call \cup {None}
        /\ UNCHANGED <<pc, keyOf, ownerEntry, conn, swept>>
    BY <1>7, MqttSame DEF Mqtt!Disconnected, Say
  <2>2. \/ connections' = connections
        \/ /\ connections' = [connections EXCEPT ![keyOf[e]] = None]
           /\ connections[keyOf[e]] = e
    BY <1>7, MqttSame DEF Mqtt!Disconnected, IsCurrent, Drop
  <2>3. conn[e] = "ended" /\ keyOf[e] \in Key
    BY <1>0, <2>1, MqttFacts DEF ClientsSound
  <2>4. MqttTyped' /\ ClientsSound'
    BY <1>0, <2>1 DEF MqttTyped, ClientsSound
  <2>5. Mqtt!MqttTracked'
    BY <1>0, <2>1, <2>2, <2>3, MqttFacts, MqttCalls DEF Mqtt!MqttTracked, Mqtt!IsCurrent, ClaimsTyped
  <2> QED
    BY <2>4, <2>5
<1>8. ASSUME NEW e \in Call, Mqtt!StopNextEntry(e) PROVE MqttRest'
  <2>1. /\ conn' = Mqtt!Ended({e}) /\ swept' = swept \cup {e} /\ closer' = closer /\ io' = None
        /\ UNCHANGED <<pc, keyOf, ownerEntry, connections>>
    BY <1>8 DEF Mqtt!StopNextEntry
  <2>2. conn[e] # "none"
    <3>1. e \in Entries(connections)
      BY <1>8, MqttSame DEF Mqtt!StopNextEntry, Mqtt!Unswept
    <3>2. pc[e] = "ok"
      BY <1>0, <3>1 DEF Entries, KeysIn, ClaimsInv, KeysAgree
    <3> QED
      BY <1>0, <3>2 DEF ClientsSound
  <2>3. swept' \subseteq Call /\ closer' \subseteq Call
    BY <1>0, <2>1 DEF MqttTyped
  <2> QED
    BY <2>1, <2>2, <2>3, EndingKeeps DEF IsCurrent
<1>9. ASSUME NEW k \in Key, Mqtt!Disconnect(k) PROVE MqttRest'
  <2> DEFINE e == connections[k]
  <2>1. /\ e # None /\ conn' = Mqtt!Ended({e}) /\ closer' = closer \cup {e} /\ swept' = swept
        /\ io' = None /\ UNCHANGED <<pc, keyOf, ownerEntry, connections>>
    BY <1>9 DEF Mqtt!Disconnect
  <2>2. e \in Call /\ conn[e] # "none"
    BY <1>0, <2>1 DEF ClaimsInv, ClaimsTyped, KeysAgree, ClientsSound
  <2>3. swept' \subseteq Call /\ closer' \subseteq Call
    BY <1>0, <2>1, <2>2 DEF MqttTyped
  <2> QED
    BY <2>1, <2>2, <2>3, EndingKeeps DEF IsCurrent
<1>10. ASSUME NEW o \in Owner, Mqtt!Destroyed(o) PROVE MqttRest'
  <2> DEFINE gone == Mqtt!DisposedOnDestroyed(connections, entryBound, o)
  <2>1. /\ TornDown(o) /\ conn' = Mqtt!Ended(gone)
        /\ closer' = closer /\ swept' = swept /\ io' = None
        /\ UNCHANGED <<pc, keyOf, ownerEntry>>
    BY <1>10, MqttSame DEF Mqtt!Destroyed, TornDown, Mqtt!mqttVars
  <2>2. \A c \in Call : c \in gone <=> \E j \in Key : OwnerOf(j) = o /\ connections[j] = c
    <3>1. \A c \in Call : c \in gone <=>
             o \in entryBound /\ \E j \in Key : OwnerOf(j) = o /\ connections[j] = c
      BY <1>0, MqttSame
      DEF Mqtt!DisposedOnDestroyed, Mqtt!OwnedBy, Mqtt!KeysIn
    <3> QED
      BY <1>0, <3>1 DEF ClaimsInv, OwnersBound
  <2>3. \A c \in Call \cap gone : conn[c] # "none"
    BY <1>0, <2>2 DEF ClaimsInv, KeysAgree, ClientsSound
  <2>4. \A c \in Call \ gone : conn[c] = "up" /\ IsCurrent(c) => IsCurrent(c)'
    BY <1>0, <2>1, <2>2, TornDownMaps, MqttFacts DEF IsCurrent, WithoutOwner
  <2>5. swept' \subseteq Call /\ closer' \subseteq Call
    BY <1>0, <2>1 DEF MqttTyped
  <2> HIDE DEF gone
  <2> QED
    BY <2>1, <2>3, <2>4, <2>5, EndingKeeps
<1>11. CASE Mqtt!StopStart
  <2>1. io' = None /\ UNCHANGED <<pc, keyOf, ownerEntry, connections, conn, closer, swept>>
    BY <1>11 DEF Mqtt!StopStart
  <2> QED
    BY <1>0, <2>1 DEF MqttTyped, ClientsSound, Mqtt!MqttTracked, Mqtt!IsCurrent, MqttInv
<1>12. CASE Mqtt!StopEnd
  <2>1. /\ connections' = EmptyMap /\ swept' = {} /\ io' = None
        /\ UNCHANGED <<pc, keyOf, ownerEntry, conn, closer>>
        /\ Entries(connections) \subseteq swept
    BY <1>12, MqttSame DEF Mqtt!StopEnd, Mqtt!Unswept
  <2>2. MqttTyped' /\ ClientsSound'
    BY <1>0, <2>1 DEF MqttTyped, ClientsSound
  <2>3. \A c \in Call : conn[c] # "up"
    <3> SUFFICES ASSUME NEW c \in Call, conn[c] = "up" PROVE FALSE
      OBVIOUS
    <3>1. connections[keyOf[c]] = c /\ keyOf[c] \in Key
      BY <1>0, MqttFacts
    <3>2. c \in Entries(connections)
      BY <1>0, <3>1 DEF Entries, KeysIn
    <3> QED
      BY <1>0, <2>1, <3>2 DEF ClientsSound
  <2>4. Mqtt!MqttTracked'
    BY <2>1, <2>3, MqttSame DEF Mqtt!MqttTracked
  <2> QED
    BY <2>2, <2>4
<1> HIDE DEF MqttRest
<1>13. Mqtt!Call = Call /\ Mqtt!Key = Key
  BY MqttSame
<1> QED
  BY <1>1, <1>2, <1>3, <1>4, <1>5, <1>6, <1>7, <1>8, <1>9, <1>10, <1>11, <1>12, <1>13
  DEF Mqtt!MqttNext, Mqtt!ConnectCall

(* In every reachable state claims, entries and clients agree.             *)
THEOREM MqttInvariance == MqttSpec => []MqttInv
<1>1. Mqtt!MqttInit => MqttInv
  <2> SUFFICES ASSUME Mqtt!MqttInit PROVE MqttInv
    OBVIOUS
  <2>1. ClaimsInit /\ closer = {} /\ swept = {}
    BY MqttSame DEF Mqtt!MqttInit
  <2>2. ClaimsInv
    BY <2>1, ClaimsBegin
  <2>3. MqttTyped /\ ClientsSound /\ Mqtt!MqttTracked
    BY <2>1, MqttSame DEF ClaimsInit, MqttTyped, ClientsSound, Mqtt!MqttTracked, Settled
  <2> QED
    BY <2>2, <2>3 DEF MqttInv
<1>2. MqttInv /\ [Mqtt!MqttNext]_<<claimVars, Mqtt!mqttVars>> => MqttInv'
  <2> SUFFICES ASSUME MqttInv, [Mqtt!MqttNext]_<<claimVars, Mqtt!mqttVars>> PROVE MqttInv'
    OBVIOUS
  <2>1. CASE Mqtt!MqttNext
    BY <2>1, MqttClaims, ClaimsKept, MqttKept DEF MqttInv, MqttRest
  <2>2. CASE UNCHANGED <<claimVars, Mqtt!mqttVars>>
    <3>1. ClaimsInv'
      BY <2>2, ClaimsKept DEF MqttInv
    <3> QED
      BY <2>2, <3>1
      DEF MqttInv, MqttTyped, ClientsSound, Mqtt!MqttTracked, Mqtt!IsCurrent, claimVars,
          Mqtt!mqttVars
  <2> QED
    BY <2>1, <2>2
<1> QED
  BY <1>1, <1>2, PTL DEF MqttSpec

-------------------------------------------------------------------------------
(* Socket.IO                                                               *)

(* The handler's copies of the shared operators are the shared operators.  *)
LEMMA SocketIoSame ==
  /\ SocketIo!Key = Key /\ SocketIo!Call = Call /\ SocketIo!EmptyMap = EmptyMap
  /\ SocketIo!ClaimsInit <=> ClaimsInit
  /\ SocketIo!claimVars = claimVars
  /\ \A k : SocketIo!OwnerOf(k) = OwnerOf(k)
  /\ \A map : SocketIo!Entries(map) = Entries(map)
  /\ \A map, k : SocketIo!Drop(map, k) = Drop(map, k)
  /\ \A map, k, e : SocketIo!Put(map, k, e) = Put(map, k, e)
  /\ \A c : /\ SocketIo!HoldsClaim(c) <=> HoldsClaim(c)
            /\ SocketIo!IsCurrent(c) <=> IsCurrent(c)
            /\ SocketIo!CanCommit(c) <=> CanCommit(c)
            /\ SocketIo!Enter(c) <=> Enter(c)
            /\ SocketIo!Release(c) <=> Release(c)
            /\ SocketIo!Say(c) <=> Say(c)
            /\ SocketIo!GiveUp(c) <=> GiveUp(c)
  /\ \A c, k : /\ SocketIo!Arrive(c, k) <=> Arrive(c, k)
               /\ SocketIo!Reject(c, k) <=> Reject(c, k)
  /\ \A c, how : SocketIo!Answer(c, how) <=> Answer(c, how)
  /\ \A c, k, await : SocketIo!Reserve(c, k, await) <=> Reserve(c, k, await)
  /\ \A o : SocketIo!TornDown(o) <=> TornDown(o)
<1>0. SocketIo!HasRoom <=> HasRoom
  <2>1. /\ SocketIo!KeysIn(connections) = KeysIn(connections)
        /\ SocketIo!KeysIn(pending) = KeysIn(pending)
    BY DEF SocketIo!KeysIn, KeysIn, SocketIo!Key, Key
  <2>2. /\ SocketIo!Size(connections) = Size(connections)
        /\ SocketIo!Size(pending) = Size(pending)
    BY <2>1
    DEF SocketIo!Size, Size, SocketIo!Cardinality, Cardinality, SocketIo!IsFiniteSet, IsFiniteSet
  <2> QED
    BY <2>2 DEF SocketIo!HasRoom, HasRoom
<1> USE DEF SocketIo!Key, Key, SocketIo!Call, Call, SocketIo!EmptyMap, EmptyMap,
            SocketIo!OwnerOf, OwnerOf, SocketIo!Drop, Drop, SocketIo!Put, Put,
            SocketIo!KeysIn, KeysIn, SocketIo!Answer, Answer, SocketIo!HoldsClaim, HoldsClaim,
            SocketIo!Arrive, Arrive, SocketIo!Bind, Bind
<1>1. /\ SocketIo!Key = Key /\ SocketIo!Call = Call /\ SocketIo!EmptyMap = EmptyMap
      /\ \A map : SocketIo!Entries(map) = Entries(map)
      /\ \A map, k : SocketIo!Drop(map, k) = Drop(map, k)
      /\ \A map, k, e : SocketIo!Put(map, k, e) = Put(map, k, e)
  BY DEF SocketIo!Entries, Entries
<1>2. SocketIo!ClaimsInit <=> ClaimsInit
  BY DEF SocketIo!ClaimsInit, ClaimsInit
<1>3. SocketIo!claimVars = claimVars
  BY DEF SocketIo!claimVars, claimVars
<1>4. \A k : SocketIo!OwnerOf(k) = OwnerOf(k) /\ (SocketIo!CanReserve(k) <=> CanReserve(k))
  BY <1>0 DEF SocketIo!CanReserve, CanReserve
<1>5. \A c : /\ SocketIo!HoldsClaim(c) <=> HoldsClaim(c)
             /\ SocketIo!IsCurrent(c) <=> IsCurrent(c)
             /\ SocketIo!CanCommit(c) <=> CanCommit(c)
             /\ SocketIo!Enter(c) <=> Enter(c)
             /\ SocketIo!Release(c) <=> Release(c)
             /\ SocketIo!Say(c) <=> Say(c)
             /\ SocketIo!GiveUp(c) <=> GiveUp(c)
  BY DEF SocketIo!IsCurrent, IsCurrent, SocketIo!CanCommit, CanCommit, SocketIo!Enter, Enter,
         SocketIo!Release, Release, SocketIo!Say, Say, SocketIo!GiveUp, GiveUp,
         SocketIo!boundVars, boundVars
<1>6. \A c, k : /\ SocketIo!Arrive(c, k) <=> Arrive(c, k)
                /\ SocketIo!Reject(c, k) <=> Reject(c, k)
  BY DEF SocketIo!Reject, Reject, SocketIo!boundVars, boundVars
<1>7. \A c, how : SocketIo!Answer(c, how) <=> Answer(c, how)
  OBVIOUS
<1>8. \A c, k, await : SocketIo!Reserve(c, k, await) <=> Reserve(c, k, await)
  BY <1>4 DEF SocketIo!Reserve, Reserve
<1>9. \A o : SocketIo!TornDown(o) <=> TornDown(o)
  BY DEF SocketIo!TornDown, TornDown, SocketIo!AfterDestroyed, AfterDestroyed,
         SocketIo!WithoutOwner, WithoutOwner
<1> QED
  BY <1>1, <1>2, <1>3, <1>4, <1>5, <1>6, <1>7, <1>8, <1>9

(* The Socket.IO instance has the calls and keys of the claims.             *)
LEMMA SocketIoSets == SocketIo!Call = Call /\ SocketIo!Key = Key
  BY DEF SocketIo!Call, Call, SocketIo!Key, Key

SocketIoTyped ==
    /\ conn \in [Call -> {"none", "up", "over"}]
    /\ io \in Call \cup {None}
    /\ ackOn \in [SocketIo!Ack -> Call \cup {None}]
    /\ pendingAcks \subseteq SocketIo!Ack
    /\ ackTold \in [SocketIo!Ack -> Nat]

(* Only a call that is answered has a socket, and an entry is one that has *)
(* not been disposed.                                                      *)
SocketsSound ==
    /\ \A c \in Call : conn[c] # "none" => pc[c] \in {"ok", "failed"}
    /\ \A k \in Key : connections[k] # None => conn[connections[k]] = "up"

(* An event that was not sent is neither waited for nor answered.          *)
AcksBegin == \A a \in SocketIo!Ack : ackOn[a] = None => a \notin pendingAcks /\ ackTold[a] = 0

SocketIoRest ==
    /\ SocketIoTyped /\ SocketsSound /\ AcksBegin
    /\ SocketIo!SocketIoTracked /\ SocketIo!AcksSound

SocketIoInv == ClaimsInv /\ SocketIoRest

SocketIoSpec == SocketIo!SocketIoInit /\ [][SocketIo!SocketIoNext]_<<claimVars, SocketIo!ackVars>>

(* The place of an entry, read without the copies.                         *)
LEMMA SocketIoFacts ==
  ASSUME SocketIoInv
  PROVE  /\ \A c \in Call : conn[c] = "up" => keyOf[c] \in Key /\ connections[keyOf[c]] = c
         /\ \A k \in Key : connections[k] # None =>
               connections[k] \in Call /\ keyOf[connections[k]] = k
         /\ \A c \in Call : pc[c] \notin {"ok", "failed"} => conn[c] = "none"
         /\ \A c \in Call : c = made + 1 => conn[c] = "none" /\ pc[c] = "idle"
         /\ \A c \in Call : pc[c] \notin Settled => keyOf[c] \in Key
<1>0. SocketIoTyped /\ SocketsSound /\ ClaimsInv
  BY DEF SocketIoInv, SocketIoRest
<1>1. ASSUME NEW c \in Call, conn[c] = "up" PROVE keyOf[c] \in Key /\ connections[keyOf[c]] = c
  <2>1. pc[c] # "idle"
    BY <1>0, <1>1 DEF SocketsSound
  <2> QED
    BY <1>0, <1>1, <2>1, CallFacts, SocketIoSets
    DEF SocketIoInv, SocketIoRest, SocketIo!SocketIoTracked, SocketIo!IsCurrent
<1>2. ASSUME NEW k \in Key, connections[k] # None
      PROVE  connections[k] \in Call /\ keyOf[connections[k]] = k
  BY <1>0, <1>2 DEF ClaimsInv, ClaimsTyped, KeysAgree
<1>3. ASSUME NEW c \in Call
      PROVE  /\ pc[c] \notin {"ok", "failed"} => conn[c] = "none"
             /\ c = made + 1 => conn[c] = "none" /\ pc[c] = "idle"
             /\ pc[c] \notin Settled => keyOf[c] \in Key
  BY <1>0, <1>3, CallFacts DEF SocketsSound, SocketIoTyped, Settled
<1> QED
  BY <1>1, <1>2, <1>3

(* Each action of the handler moves the claims as the shared code does.    *)
LEMMA SocketIoClaims ==
  ASSUME SocketIoInv, SocketIo!SocketIoNext
  PROVE  ClaimsNext
<1> USE SocketIoSame
<1>0. ClaimsInv
  BY DEF SocketIoInv
<1>1. ASSUME NEW c \in Call, NEW k \in Key, SocketIo!ConnectRejected(c, k) PROVE Refused(c, k)
  BY <1>1 DEF SocketIo!ConnectRejected, Reject, Refused, boundVars
<1>2. ASSUME NEW c \in Call, NEW k \in Key, SocketIo!Connect(c, k) PROVE Claims(c, k)
  BY <1>2 DEF SocketIo!Connect, Claims, Awaits
<1>3. ASSUME NEW c \in Call, SocketIo!ConnectFailed(c) PROVE Leaves(c)
  BY <1>3 DEF SocketIo!ConnectFailed, Leaves, GiveUp, Settled, askedVars, boundVars
<1>4. ASSUME NEW c \in Call, SocketIo!CommitRefused(c) PROVE Leaves(c)
  BY <1>4 DEF SocketIo!CommitRefused, Leaves, Settled, askedVars, boundVars, SocketIo!boundVars
<1>5. ASSUME NEW c \in Call, SocketIo!Resolved(c) PROVE WaitsOn(c)
  BY <1>5
  DEF SocketIo!Resolved, WaitsOn, Awaits, Settled, askedVars, boundVars, SocketIo!boundVars
<1>6. ASSUME NEW c \in Call, SocketIo!Commit(c) PROVE Enters(c)
  <2>1. pc[c] = "loading" /\ CanCommit(c) /\ Enter(c)
    BY <1>6 DEF SocketIo!Commit
  <2>2. keyOf[c] \in Key
    BY <1>0, <2>1, CallFacts DEF Settled
  <2>3. entryBound' = Bind(entryBound, alive, OwnerOf(keyOf[c]))
    BY <1>0, <2>1, <2>2 DEF Enter, CanCommit, Bind, ClaimsInv, OwnersBound
  <2> QED
    BY <1>6, <2>1, <2>3 DEF SocketIo!Commit, Enters, Enter, Settled, askedVars
<1>7. ASSUME NEW c \in Call, SocketIo!SocketEvent(c) PROVE Clears
  BY <1>7 DEF SocketIo!SocketEvent, Clears, askedVars, boundVars, SocketIo!boundVars
<1>8. ASSUME NEW k \in Key, NEW a \in SocketIo!Ack, SocketIo!EmitWithAck(k, a) PROVE Clears
  BY <1>8 DEF SocketIo!EmitWithAck, Clears, askedVars, boundVars, SocketIo!boundVars
<1>9. ASSUME NEW a \in SocketIo!Ack, SocketIo!Acknowledged(a) \/ SocketIo!AckTimeout(a)
      PROVE  Clears
  BY <1>9
  DEF SocketIo!Acknowledged, SocketIo!AckTimeout, Clears, askedVars, boundVars, SocketIo!boundVars
<1>10. ASSUME NEW k \in Key, SocketIo!Disconnect(k) PROVE Removes(k)
  BY <1>10 DEF SocketIo!Disconnect, Removes, askedVars, boundVars, SocketIo!boundVars
<1>11. ASSUME NEW o \in Owner, SocketIo!Destroyed(o) PROVE TornDown(o)
  BY <1>11 DEF SocketIo!Destroyed
<1>12. CASE SocketIo!Stop
  <2>1. Clears
    BY <1>12 DEF SocketIo!Stop, Clears, askedVars, boundVars, SocketIo!boundVars
  <2> QED
    BY <2>1 DEF ClaimsNext
<1> QED
  BY <1>1, <1>2, <1>3, <1>4, <1>5, <1>6, <1>7, <1>8, <1>9, <1>10, <1>11, <1>12
  DEF SocketIo!SocketIoNext, SocketIo!Resume, ClaimsNext

(* What of an event on a connection that is not disposed.                  *)
LEMMA AckFacts ==
  ASSUME SocketIoInv, NEW a \in SocketIo!Ack
  PROVE  /\ ackTold[a] \in Nat /\ ackTold[a] <= 1
         /\ timers = pendingAcks
         /\ a \in pendingAcks => ackTold[a] = 0 /\ ackOn[a] \in Call /\ conn[ackOn[a]] = "up"
         /\ ackOn[a] = None => a \notin pendingAcks /\ ackTold[a] = 0
  BY DEF SocketIoInv, SocketIoRest, SocketIoTyped, AcksBegin, SocketIo!AcksSound

(* Disposing of entries as they leave the registry stops all that is       *)
(* waited for on them, and nothing else.                                   *)
LEMMA SocketIoDisposeKeeps ==
  ASSUME SocketIoInv, NEW gone, SocketIo!DisposeSocketIo(gone), UNCHANGED <<keyOf, pc>>,
         io' \in Call \cup {None},
         \A c \in Call \cap gone : pc[c] = "ok",
         \A c \in Call \ gone : keyOf[c] \in Key /\ connections[keyOf[c]] = c =>
            connections'[keyOf[c]] = c,
         \A k \in Key : connections'[k] # None =>
            connections'[k] = connections[k] /\ connections[k] \notin gone
  PROVE  SocketIoRest'
<1>0. /\ ClaimsTyped /\ SocketIoTyped /\ SocketsSound /\ AcksBegin /\ SocketIo!Call = Call
      /\ None \notin Call
  BY SocketIoSets, ClaimsAssumption DEF SocketIoInv, SocketIoRest, ClaimsInv
<1>1. /\ \A c \in Call : conn'[c] = IF c \in gone THEN "over" ELSE conn[c]
      /\ conn' \in [Call -> {"none", "up", "over"}]
      /\ ackOn' = ackOn /\ ackTold' = ackTold
  BY <1>0 DEF SocketIo!DisposeSocketIo, SocketIo!Over, SocketIoTyped
<1>2. /\ pendingAcks' \subseteq pendingAcks /\ timers' = pendingAcks'
      /\ \A a \in pendingAcks' : ackOn[a] \notin gone
  <2>1. \A a \in SocketIo!AcksOf(gone) \cap pendingAcks : a \in pendingAcks
    OBVIOUS
  <2>2. timers = pendingAcks
    BY DEF SocketIoInv, SocketIoRest, SocketIo!AcksSound
  <2>3. \A a \in pendingAcks : a \in SocketIo!AcksOf(gone) <=> ackOn[a] \in gone
    BY <1>0 DEF SocketIo!AcksOf, SocketIoTyped
  <2> QED
    BY <2>2, <2>3 DEF SocketIo!DisposeSocketIo
<1>3. SocketIoTyped'
  BY <1>0, <1>1, <1>2 DEF SocketIoTyped
<1>4. SocketsSound'
  <2>1. ASSUME NEW c \in Call, conn'[c] # "none" PROVE pc'[c] \in {"ok", "failed"}
    BY <1>0, <1>1, <2>1 DEF SocketsSound
  <2>2. ASSUME NEW k \in Key, connections'[k] # None PROVE conn'[connections'[k]] = "up"
    BY <1>0, <1>1, <2>2, SocketIoFacts DEF SocketsSound
  <2> QED
    BY <2>1, <2>2 DEF SocketsSound
<1>5. AcksBegin'
  BY <1>0, <1>1, <1>2 DEF AcksBegin
<1>6. SocketIo!SocketIoTracked'
  BY <1>0, <1>1, SocketIoFacts DEF SocketIo!SocketIoTracked, SocketIo!IsCurrent
<1>7. SocketIo!AcksSound'
  <2>1. \A a \in SocketIo!Ack : ackTold'[a] <= 1
    BY <1>1, AckFacts
  <2>2. ASSUME NEW a \in pendingAcks' PROVE conn'[ackOn'[a]] = "up" /\ ackTold'[a] = 0
    <3>1. a \in SocketIo!Ack /\ ackOn[a] \in Call /\ conn[ackOn[a]] = "up" /\ ackTold[a] = 0
      BY <1>0, <1>2, <2>2, AckFacts DEF SocketIoTyped
    <3> QED
      BY <1>1, <1>2, <2>2, <3>1
  <2> QED
    BY <1>2, <2>1, <2>2 DEF SocketIo!AcksSound
<1> QED
  BY <1>3, <1>4, <1>5, <1>6, <1>7 DEF SocketIoRest

(* A step of the calls that touches no socket, entry or event.             *)
LEMMA SocketIoCallKeeps ==
  ASSUME SocketIoInv, NEW c \in Call, NEW how, pc' = [pc EXCEPT ![c] = how],
         \/ c = made + 1 /\ \E k \in Key : keyOf' = [keyOf EXCEPT ![c] = k]
         \/ pc[c] \in {"resolving", "loading"} /\ keyOf' = keyOf,
         io' = None, UNCHANGED <<connections, conn, SocketIo!ackVars>>
  PROVE  SocketIoRest'
<1>0. /\ ClaimsTyped /\ SocketIoTyped /\ SocketsSound /\ AcksBegin /\ SocketIo!AcksSound
      /\ SocketIo!Call = Call /\ UNCHANGED <<ackOn, pendingAcks, timers, ackTold>>
  BY SocketIoSets DEF SocketIoInv, SocketIoRest, ClaimsInv, SocketIo!ackVars
<1>1. conn[c] = "none"
  BY SocketIoFacts
<1>2. SocketIoTyped' /\ AcksBegin' /\ SocketIo!AcksSound'
  BY <1>0 DEF SocketIoTyped, AcksBegin, SocketIo!AcksSound
<1>3. \A d \in Call \ {c} : pc'[d] = pc[d] /\ keyOf'[d] = keyOf[d]
  BY <1>0 DEF ClaimsTyped
<1>4. SocketsSound'
  BY <1>0, <1>1, <1>3 DEF SocketsSound
<1>5. SocketIo!SocketIoTracked'
  BY <1>0, <1>1, <1>3, SocketIoFacts DEF SocketIo!SocketIoTracked, SocketIo!IsCurrent
<1> QED
  BY <1>2, <1>4, <1>5 DEF SocketIoRest

(* The commit replaces an entry and everything that was waited for on it.  *)
LEMMA SocketIoCommitKeeps ==
  ASSUME SocketIoInv, NEW c \in Call, SocketIo!Commit(c)
  PROVE  SocketIoRest'
<1> DEFINE e == ownerEntry[c]
<1>0. /\ ClaimsTyped /\ SocketIoTyped /\ SocketsSound /\ AcksBegin /\ SocketIo!Call = Call
      /\ None \notin Call
  BY SocketIoSets, ClaimsAssumption DEF SocketIoInv, SocketIoRest, ClaimsInv
<1>1. /\ pc[c] = "loading" /\ pc' = [pc EXCEPT ![c] = "ok"] /\ keyOf' = keyOf /\ io' = None
      /\ connections[keyOf[c]] = e
      /\ connections' = [connections EXCEPT ![keyOf[c]] = c]
      /\ conn' = [SocketIo!Over({e}) EXCEPT ![c] = "up"]
      /\ timers' = timers \ (pendingAcks \cap SocketIo!AcksOf({e} \ {None}))
      /\ pendingAcks' = pendingAcks \ SocketIo!AcksOf({e} \ {None})
      /\ UNCHANGED <<ackOn, ackTold>>
  BY SocketIoSame DEF SocketIo!Commit, CanCommit, Enter, Answer, Put
<1>2. conn[c] = "none" /\ keyOf[c] \in Key
  BY <1>1, SocketIoFacts DEF Settled
<1>3. e # c
  BY <1>0, <1>1, <1>2 DEF SocketsSound
<1>4. /\ \A d \in Call : conn'[d] = IF d = c THEN "up" ELSE IF d = e THEN "over" ELSE conn[d]
      /\ conn' \in [Call -> {"none", "up", "over"}]
  BY <1>0, <1>1 DEF SocketIo!Over, SocketIoTyped
<1>5. /\ pendingAcks' \subseteq pendingAcks /\ timers' = pendingAcks'
      /\ \A a \in pendingAcks' : ackOn[a] # e /\ ackOn[a] # c
  <2>1. timers = pendingAcks
    BY DEF SocketIoInv, SocketIoRest, SocketIo!AcksSound
  <2>2. \A a \in pendingAcks : /\ ackOn[a] # None /\ ackOn[a] # c
                               /\ a \in SocketIo!AcksOf({e} \ {None}) <=> ackOn[a] = e
    BY <1>0, <1>2, AckFacts DEF SocketIo!AcksOf, SocketIoTyped
  <2> HIDE DEF e
  <2> QED
    BY <1>1, <2>1, <2>2
<1> HIDE DEF e
<1>6. SocketIoTyped' /\ AcksBegin'
  BY <1>0, <1>1, <1>4, <1>5 DEF SocketIoTyped, AcksBegin
<1>7. SocketsSound'
  <2>1. ASSUME NEW d \in Call, conn'[d] # "none" PROVE pc'[d] \in {"ok", "failed"}
    <3>1. d # c => pc'[d] = pc[d] /\ conn[d] # "none"
      <4>1. d = e => conn[d] = "up"
        BY <1>0, <1>1, <1>2 DEF SocketsSound
      <4> QED
        BY <1>0, <1>1, <1>4, <2>1, <4>1 DEF ClaimsTyped
    <3>2. pc'[c] = "ok"
      BY <1>0, <1>1 DEF ClaimsTyped
    <3> QED
      BY <1>0, <3>1, <3>2 DEF SocketsSound
  <2>2. ASSUME NEW k \in Key, connections'[k] # None PROVE conn'[connections'[k]] = "up"
    <3>1. CASE k = keyOf[c]
      BY <1>0, <1>1, <1>2, <1>4, <3>1 DEF ClaimsTyped
    <3>2. CASE k # keyOf[c]
      <4>1. connections'[k] = connections[k] /\ connections[k] # None
        BY <1>0, <1>1, <2>2, <3>2 DEF ClaimsTyped
      <4>2. connections[k] \in Call /\ keyOf[connections[k]] = k /\ conn[connections[k]] = "up"
        BY <1>0, <4>1, SocketIoFacts DEF SocketsSound
      <4>3. connections[k] # e
        BY <1>0, <1>1, <1>2, <3>2, <4>2, SocketIoFacts
      <4> QED
        BY <1>4, <4>1, <4>2, <4>3
    <3> QED
      BY <3>1, <3>2
  <2> QED
    BY <2>1, <2>2 DEF SocketsSound
<1>8. SocketIo!SocketIoTracked'
  <2> SUFFICES ASSUME NEW d \in Call, conn'[d] = "up" PROVE connections'[keyOf'[d]] = d
    BY <1>0 DEF SocketIo!SocketIoTracked, SocketIo!IsCurrent
  <2>1. CASE d = c
    BY <1>0, <1>1, <1>2, <2>1 DEF ClaimsTyped
  <2>2. CASE d # c
    <3>1. conn[d] = "up" /\ d # e
      BY <1>4, <2>2
    <3>2. keyOf[d] \in Key /\ connections[keyOf[d]] = d
      BY <3>1, SocketIoFacts
    <3> QED
      BY <1>0, <1>1, <1>2, <3>1, <3>2 DEF ClaimsTyped
  <2> QED
    BY <2>1, <2>2
<1>9. SocketIo!AcksSound'
  <2>1. \A a \in SocketIo!Ack : ackTold'[a] <= 1
    BY <1>1, AckFacts
  <2>2. ASSUME NEW a \in pendingAcks' PROVE conn'[ackOn'[a]] = "up" /\ ackTold'[a] = 0
    <3>1. a \in SocketIo!Ack /\ ackOn[a] \in Call /\ conn[ackOn[a]] = "up" /\ ackTold[a] = 0
      BY <1>0, <1>5, <2>2, AckFacts DEF SocketIoTyped
    <3> QED
      BY <1>1, <1>4, <1>5, <2>2, <3>1
  <2> QED
    BY <1>5, <2>1, <2>2 DEF SocketIo!AcksSound
<1> QED
  BY <1>6, <1>7, <1>8, <1>9 DEF SocketIoRest

(* An event is told of at most once, by whichever of the two comes first.  *)
LEMMA AnsweredKeeps ==
  ASSUME SocketIoInv, NEW a \in SocketIo!Ack,
         SocketIo!Acknowledged(a) \/ SocketIo!AckTimeout(a)
  PROVE  SocketIoRest'
<1>0. /\ SocketIoTyped /\ SocketsSound /\ AcksBegin /\ SocketIo!Call = Call
      /\ timers = pendingAcks
  BY SocketIoSets DEF SocketIoInv, SocketIoRest, SocketIo!AcksSound
<1>1. /\ a \in pendingAcks /\ pendingAcks' = pendingAcks \ {a} /\ timers' = pendingAcks \ {a}
      /\ ackTold' = [ackTold EXCEPT ![a] = @ + 1]
      /\ io' = ackOn[a] \/ io' = None
      /\ UNCHANGED <<pc, keyOf, connections, conn, ackOn>>
  BY <1>0 DEF SocketIo!Acknowledged, SocketIo!AckTimeout, SocketIo!Told, SocketIo!Say
<1>2. ackTold[a] = 0 /\ ackOn[a] \in Call
  BY <1>1, AckFacts
<1>3. \A b \in SocketIo!Ack : ackTold'[b] = IF b = a THEN 1 ELSE ackTold[b]
  BY <1>0, <1>1, <1>2 DEF SocketIoTyped
<1>4. SocketIoTyped'
  BY <1>0, <1>1, <1>2 DEF SocketIoTyped
<1>5. AcksBegin'
  BY <1>0, <1>1, <1>2, <1>3, ClaimsAssumption DEF AcksBegin
<1>6. SocketIo!AcksSound'
  <2>1. \A b \in SocketIo!Ack : ackTold'[b] <= 1
    BY <1>3, AckFacts
  <2>2. \A b \in pendingAcks' : conn'[ackOn'[b]] = "up" /\ ackTold'[b] = 0
    BY <1>0, <1>1, <1>3, AckFacts DEF SocketIoTyped
  <2> QED
    BY <1>1, <2>1, <2>2 DEF SocketIo!AcksSound
<1>7. SocketsSound' /\ SocketIo!SocketIoTracked'
  BY <1>0, <1>1
  DEF SocketsSound, SocketIo!SocketIoTracked, SocketIo!IsCurrent, SocketIoInv, SocketIoRest
<1> QED
  BY <1>4, <1>5, <1>6, <1>7 DEF SocketIoRest

(* Each action keeps what is said of the sockets and the events.           *)
LEMMA SocketIoKept ==
  ASSUME SocketIoInv, SocketIo!SocketIoNext
  PROVE  SocketIoRest'
<1>0. /\ ClaimsTyped /\ SocketIoTyped /\ SocketsSound /\ AcksBegin
      /\ SocketIo!AcksSound /\ SocketIo!SocketIoTracked
      /\ SocketIo!Call = Call /\ SocketIo!Key = Key /\ None \notin Call
  BY SocketIoSets, ClaimsAssumption DEF SocketIoInv, SocketIoRest, ClaimsInv
<1>1. ASSUME NEW c \in Call, NEW k \in Key,
             SocketIo!ConnectRejected(c, k) \/ SocketIo!Connect(c, k)
      PROVE  SocketIoRest'
  <2>1. /\ c = made + 1 /\ keyOf' = [keyOf EXCEPT ![c] = k] /\ io' = None
        /\ pc' = [pc EXCEPT ![c] = "failed"] \/ pc' = [pc EXCEPT ![c] = "resolving"]
        /\ UNCHANGED <<connections, conn, SocketIo!ackVars>>
    BY <1>1, SocketIoSame
    DEF SocketIo!ConnectRejected, SocketIo!Connect, Reject, Reserve, Arrive, Answer
  <2> QED
    BY <2>1, SocketIoCallKeeps
<1>2. ASSUME NEW c \in Call, SocketIo!ConnectFailed(c) \/ SocketIo!Resolved(c)
      PROVE  SocketIoRest'
  <2>1. /\ pc[c] \in {"resolving", "loading"} /\ keyOf' = keyOf /\ io' = None
        /\ pc' = [pc EXCEPT ![c] = "failed"] \/ pc' = [pc EXCEPT ![c] = "loading"]
        /\ UNCHANGED <<connections, conn, SocketIo!ackVars>>
    BY <1>2, SocketIoSame DEF SocketIo!ConnectFailed, SocketIo!Resolved, GiveUp, Answer
  <2> QED
    BY <2>1, SocketIoCallKeeps
<1>3. ASSUME NEW c \in Call, SocketIo!CommitRefused(c) PROVE SocketIoRest'
  <2>1. /\ pc[c] = "loading" /\ pc' = [pc EXCEPT ![c] = "failed"] /\ keyOf' = keyOf
        /\ conn' = [conn EXCEPT ![c] = "over"] /\ io' = None
        /\ UNCHANGED <<connections, ackOn, pendingAcks, timers, ackTold>>
    BY <1>3, SocketIoSame
    DEF SocketIo!CommitRefused, SocketIo!Becomes, SocketIo!ackVars, Answer
  <2>2. conn[c] = "none"
    BY <2>1, SocketIoFacts
  <2>3. SocketIoTyped' /\ AcksBegin'
    BY <1>0, <2>1 DEF SocketIoTyped, AcksBegin
  <2>4. SocketsSound'
    BY <1>0, <2>1, <2>2 DEF SocketsSound, ClaimsTyped, SocketIoTyped
  <2>5. SocketIo!SocketIoTracked'
    BY <1>0, <2>1 DEF SocketIo!SocketIoTracked, SocketIo!IsCurrent, SocketIoTyped
  <2>6. SocketIo!AcksSound'
    BY <1>0, <2>1, <2>2, AckFacts DEF SocketIo!AcksSound, SocketIoTyped
  <2> QED
    BY <2>3, <2>4, <2>5, <2>6 DEF SocketIoRest
<1>4. ASSUME NEW c \in Call, SocketIo!SocketEvent(c) PROVE SocketIoRest'
  <2>1. /\ io' \in Call \cup {None}
        /\ UNCHANGED <<pc, keyOf, connections, conn, ackOn, pendingAcks, timers, ackTold>>
    BY <1>4, SocketIoSame DEF SocketIo!SocketEvent, SocketIo!SayIfCurrent, Say, SocketIo!ackVars
  <2> QED
    BY <1>0, <2>1
    DEF SocketIoRest, SocketIoTyped, SocketsSound, AcksBegin, SocketIo!AcksSound,
        SocketIo!SocketIoTracked, SocketIo!IsCurrent
<1>5. ASSUME NEW k \in Key, NEW a \in SocketIo!Ack, SocketIo!EmitWithAck(k, a)
      PROVE  SocketIoRest'
  <2>1. /\ connections[k] # None /\ ackOn[a] = None
        /\ ackOn' = [ackOn EXCEPT ![a] = connections[k]]
        /\ pendingAcks' = pendingAcks \cup {a} /\ timers' = timers \cup {a} /\ io' = None
        /\ UNCHANGED <<pc, keyOf, connections, conn, ackTold>>
    BY <1>5 DEF SocketIo!EmitWithAck, SocketIo!Ack
  <2>2. connections[k] \in Call /\ conn[connections[k]] = "up" /\ ackTold[a] = 0
    BY <1>0, <2>1, SocketIoFacts DEF SocketsSound, AcksBegin
  <2>3. SocketIoTyped' /\ AcksBegin'
    BY <1>0, <2>1, <2>2 DEF SocketIoTyped, AcksBegin
  <2>4. SocketIo!AcksSound'
    BY <1>0, <2>1, <2>2 DEF SocketIo!AcksSound, SocketIoTyped
  <2>5. SocketsSound' /\ SocketIo!SocketIoTracked'
    BY <1>0, <2>1 DEF SocketsSound, SocketIo!SocketIoTracked, SocketIo!IsCurrent
  <2> QED
    BY <2>3, <2>4, <2>5 DEF SocketIoRest
<1>6. ASSUME NEW k \in Key, SocketIo!Disconnect(k) PROVE SocketIoRest'
  <2>1. /\ connections[k] # None /\ SocketIo!DisposeSocketIo({connections[k]})
        /\ connections' = [connections EXCEPT ![k] = None] /\ io' = None
        /\ UNCHANGED <<keyOf, pc>>
    BY <1>6, SocketIoSame DEF SocketIo!Disconnect, Drop
  <2>2. connections[k] \in Call /\ keyOf[connections[k]] = k /\ pc[connections[k]] = "ok"
    BY <2>1, SocketIoFacts DEF SocketIoInv, ClaimsInv, KeysAgree
  <2>3. \A c \in Call \ {connections[k]} :
           keyOf[c] \in Key /\ connections[keyOf[c]] = c => connections'[keyOf[c]] = c
    BY <1>0, <2>1 DEF ClaimsTyped
  <2>4. \A j \in Key : connections'[j] # None =>
           connections'[j] = connections[j] /\ connections[j] \notin {connections[k]}
    BY <1>0, <2>1, <2>2, SocketIoFacts DEF ClaimsTyped
  <2> QED
    BY <2>1, <2>2, <2>3, <2>4, SocketIoDisposeKeeps
<1>7. ASSUME NEW o \in Owner, SocketIo!Destroyed(o) PROVE SocketIoRest'
  <2> DEFINE gone == SocketIo!DisposedOnDestroyed(connections, entryBound, o)
  <2>1. TornDown(o) /\ SocketIo!DisposeSocketIo(gone) /\ io' = None /\ UNCHANGED <<keyOf, pc>>
    BY <1>7, SocketIoSame DEF SocketIo!Destroyed, TornDown
  <2>2. \A c \in Call : c \in gone <=> \E j \in Key : OwnerOf(j) = o /\ connections[j] = c
    <3>1. \A c \in Call : c \in gone <=>
             o \in entryBound /\ \E j \in Key : OwnerOf(j) = o /\ connections[j] = c
      BY <1>0, SocketIoSame
      DEF SocketIo!DisposedOnDestroyed, SocketIo!OwnedBy, SocketIo!KeysIn
    <3> QED
      BY <1>0, <3>1 DEF SocketIoInv, ClaimsInv, OwnersBound
  <2>3. \A c \in Call \cap gone : pc[c] = "ok"
    BY <1>0, <2>2 DEF SocketIoInv, ClaimsInv, KeysAgree
  <2>4. \A j \in Key : connections'[j] = IF OwnerOf(j) = o THEN None ELSE connections[j]
    BY <2>1, TornDownMaps DEF SocketIoInv, WithoutOwner
  <2>5. \A c \in Call \ gone :
           keyOf[c] \in Key /\ connections[keyOf[c]] = c => connections'[keyOf[c]] = c
    BY <2>2, <2>4
  <2>6. \A j \in Key : connections'[j] # None =>
           connections'[j] = connections[j] /\ connections[j] \notin gone
    BY <2>2, <2>4, SocketIoFacts
  <2> HIDE DEF gone
  <2> QED
    BY <2>1, <2>3, <2>5, <2>6, SocketIoDisposeKeeps
<1>8. CASE SocketIo!Stop
  <2> DEFINE gone == Entries(connections)
  <2>1. /\ SocketIo!DisposeSocketIo(gone) /\ connections' = EmptyMap /\ io' = None
        /\ UNCHANGED <<keyOf, pc>>
    BY <1>8, SocketIoSame DEF SocketIo!Stop
  <2>2. \A c \in Call \cap gone : pc[c] = "ok"
    BY <1>0 DEF Entries, KeysIn, SocketIoInv, ClaimsInv, KeysAgree
  <2>3. \A c \in Call \ gone : keyOf[c] \in Key => connections[keyOf[c]] # c
    BY <1>0 DEF Entries, KeysIn
  <2>4. \A j \in Key : connections'[j] = None
    BY <2>1 DEF EmptyMap
  <2> HIDE DEF gone
  <2> QED
    BY <2>1, <2>2, <2>3, <2>4, SocketIoDisposeKeeps
<1> QED
  BY <1>0, <1>1, <1>2, <1>3, <1>4, <1>5, <1>6, <1>7, <1>8, SocketIoCommitKeeps, AnsweredKeeps
  DEF SocketIo!SocketIoNext, SocketIo!Resume

(* In every reachable state claims, entries, sockets and the events that   *)
(* are waited for agree.                                                   *)
THEOREM SocketIoInvariance == SocketIoSpec => []SocketIoInv
<1>1. SocketIo!SocketIoInit => SocketIoInv
  <2> SUFFICES ASSUME SocketIo!SocketIoInit PROVE SocketIoInv
    OBVIOUS
  <2>1. /\ ClaimsInit
        /\ ackOn = [a \in SocketIo!Ack |-> None] /\ pendingAcks = {} /\ timers = {}
        /\ ackTold = [a \in SocketIo!Ack |-> 0]
    BY SocketIoSame DEF SocketIo!SocketIoInit, SocketIo!AckInit
  <2>2. ClaimsInv
    BY <2>1, ClaimsBegin
  <2>3. SocketIoTyped /\ AcksBegin /\ SocketIo!AcksSound
    BY <2>1, SocketIoSets DEF ClaimsInit, SocketIoTyped, AcksBegin, SocketIo!AcksSound
  <2>4. SocketsSound /\ SocketIo!SocketIoTracked
    BY <2>1, SocketIoSets DEF ClaimsInit, EmptyMap, SocketsSound, SocketIo!SocketIoTracked
  <2> QED
    BY <2>2, <2>3, <2>4 DEF SocketIoInv, SocketIoRest
<1>2. SocketIoInv /\ [SocketIo!SocketIoNext]_<<claimVars, SocketIo!ackVars>> => SocketIoInv'
  <2> SUFFICES ASSUME SocketIoInv, [SocketIo!SocketIoNext]_<<claimVars, SocketIo!ackVars>>
               PROVE  SocketIoInv'
    OBVIOUS
  <2>1. CASE SocketIo!SocketIoNext
    BY <2>1, SocketIoClaims, ClaimsKept, SocketIoKept DEF SocketIoInv
  <2>2. CASE UNCHANGED <<claimVars, SocketIo!ackVars>>
    <3>1. ClaimsInv'
      BY <2>2, ClaimsKept DEF SocketIoInv
    <3> QED
      BY <2>2, <3>1
      DEF SocketIoInv, SocketIoRest, SocketIoTyped, SocketsSound, AcksBegin,
          SocketIo!SocketIoTracked, SocketIo!IsCurrent, SocketIo!AcksSound, claimVars,
          SocketIo!ackVars
  <2> QED
    BY <2>1, <2>2
<1> QED
  BY <1>1, <1>2, PTL DEF SocketIoSpec

-------------------------------------------------------------------------------
(* MCP                                                                     *)

(* The handler's copies of the shared operators are the shared operators.  *)
LEMMA McpSame ==
  /\ Mcp!Key = Key /\ Mcp!Call = Call /\ Mcp!EmptyMap = EmptyMap
  /\ Mcp!ClaimsInit <=> ClaimsInit
  /\ Mcp!claimVars = claimVars
  /\ \A k : Mcp!OwnerOf(k) = OwnerOf(k)
  /\ \A map : Mcp!Entries(map) = Entries(map)
  /\ \A map, k : Mcp!Drop(map, k) = Drop(map, k)
  /\ \A map, k, e : Mcp!Put(map, k, e) = Put(map, k, e)
  /\ \A c : /\ Mcp!HoldsClaim(c) <=> HoldsClaim(c)
            /\ Mcp!IsCurrent(c) <=> IsCurrent(c)
            /\ Mcp!CanCommit(c) <=> CanCommit(c)
            /\ Mcp!Enter(c) <=> Enter(c)
            /\ Mcp!Release(c) <=> Release(c)
            /\ Mcp!Say(c) <=> Say(c)
            /\ Mcp!GiveUp(c) <=> GiveUp(c)
  /\ \A c, k : /\ Mcp!Arrive(c, k) <=> Arrive(c, k)
               /\ Mcp!Reject(c, k) <=> Reject(c, k)
  /\ \A c, how : Mcp!Answer(c, how) <=> Answer(c, how)
  /\ \A c, k, await : Mcp!Reserve(c, k, await) <=> Reserve(c, k, await)
  /\ \A o : Mcp!TornDown(o) <=> TornDown(o)
<1>0. Mcp!HasRoom <=> HasRoom
  <2>1. /\ Mcp!KeysIn(connections) = KeysIn(connections)
        /\ Mcp!KeysIn(pending) = KeysIn(pending)
    BY DEF Mcp!KeysIn, KeysIn, Mcp!Key, Key
  <2>2. /\ Mcp!Size(connections) = Size(connections)
        /\ Mcp!Size(pending) = Size(pending)
    BY <2>1
    DEF Mcp!Size, Size, Mcp!Cardinality, Cardinality, Mcp!IsFiniteSet, IsFiniteSet
  <2> QED
    BY <2>2 DEF Mcp!HasRoom, HasRoom
<1> USE DEF Mcp!Key, Key, Mcp!Call, Call, Mcp!EmptyMap, EmptyMap,
            Mcp!OwnerOf, OwnerOf, Mcp!Drop, Drop, Mcp!Put, Put,
            Mcp!KeysIn, KeysIn, Mcp!Answer, Answer, Mcp!HoldsClaim, HoldsClaim,
            Mcp!Arrive, Arrive, Mcp!Bind, Bind
<1>1. /\ Mcp!Key = Key /\ Mcp!Call = Call /\ Mcp!EmptyMap = EmptyMap
      /\ \A map : Mcp!Entries(map) = Entries(map)
      /\ \A map, k : Mcp!Drop(map, k) = Drop(map, k)
      /\ \A map, k, e : Mcp!Put(map, k, e) = Put(map, k, e)
  BY DEF Mcp!Entries, Entries
<1>2. Mcp!ClaimsInit <=> ClaimsInit
  BY DEF Mcp!ClaimsInit, ClaimsInit
<1>3. Mcp!claimVars = claimVars
  BY DEF Mcp!claimVars, claimVars
<1>4. \A k : Mcp!OwnerOf(k) = OwnerOf(k) /\ (Mcp!CanReserve(k) <=> CanReserve(k))
  BY <1>0 DEF Mcp!CanReserve, CanReserve
<1>5. \A c : /\ Mcp!HoldsClaim(c) <=> HoldsClaim(c)
             /\ Mcp!IsCurrent(c) <=> IsCurrent(c)
             /\ Mcp!CanCommit(c) <=> CanCommit(c)
             /\ Mcp!Enter(c) <=> Enter(c)
             /\ Mcp!Release(c) <=> Release(c)
             /\ Mcp!Say(c) <=> Say(c)
             /\ Mcp!GiveUp(c) <=> GiveUp(c)
  BY DEF Mcp!IsCurrent, IsCurrent, Mcp!CanCommit, CanCommit, Mcp!Enter, Enter,
         Mcp!Release, Release, Mcp!Say, Say, Mcp!GiveUp, GiveUp,
         Mcp!boundVars, boundVars
<1>6. \A c, k : /\ Mcp!Arrive(c, k) <=> Arrive(c, k)
                /\ Mcp!Reject(c, k) <=> Reject(c, k)
  BY DEF Mcp!Reject, Reject, Mcp!boundVars, boundVars
<1>7. \A c, how : Mcp!Answer(c, how) <=> Answer(c, how)
  OBVIOUS
<1>8. \A c, k, await : Mcp!Reserve(c, k, await) <=> Reserve(c, k, await)
  BY <1>4 DEF Mcp!Reserve, Reserve
<1>9. \A o : Mcp!TornDown(o) <=> TornDown(o)
  BY DEF Mcp!TornDown, TornDown, Mcp!AfterDestroyed, AfterDestroyed,
         Mcp!WithoutOwner, WithoutOwner
<1> QED
  BY <1>1, <1>2, <1>3, <1>4, <1>5, <1>6, <1>7, <1>8, <1>9

(* The MCP instance has the calls and keys of the claims.                   *)
LEMMA McpSets == Mcp!Call = Call /\ Mcp!Key = Key
  BY DEF Mcp!Call, Call, Mcp!Key, Key

McpTyped ==
    /\ conn \in [Call -> {"none", "opening", "open", "over"}]
    /\ io \in Call \cup {None}
    /\ disowned \subseteq Call

(* A session is built after DNS and opens with the answer of its call.     *)
SessionsSound ==
    \A c \in Call : /\ pc[c] \in {"idle", "resolving"} => conn[c] = "none"
                    /\ conn[c] = "opening" => pc[c] = "connecting"
                    /\ conn[c] = "open" => pc[c] = "ok"

(* A call that a disconnect overtook has neither claim nor session, so     *)
(* that it cannot go on.                                                   *)
DisownedGiveUp ==
    \A c \in disowned : /\ pc[c] # "idle" /\ conn[c] \in {"none", "over"}
                        /\ \A k \in Key : pending[k] # c

McpRest == McpTyped /\ SessionsSound /\ DisownedGiveUp /\ Mcp!McpTracked

McpInv == ClaimsInv /\ McpRest

McpSpec == Mcp!McpInit /\ [][Mcp!McpNext]_<<claimVars, disowned>>

(* What McpTracked says, read without the copies, and of calls yet to come.*)
LEMMA McpFacts ==
  ASSUME McpInv
  PROVE  /\ \A c \in Call : conn[c] \in {"opening", "open"} => keyOf[c] \in Key
         /\ \A c \in Call : conn[c] = "open" => connections[keyOf[c]] = c
         /\ \A c \in Call : conn[c] = "opening" => pending[keyOf[c]] = c
         /\ \A k \in Key : connections[k] # None =>
               /\ connections[k] \in Call /\ keyOf[connections[k]] = k
               /\ conn[connections[k]] = "open"
         /\ \A k \in Key : pending[k] # None => pending[k] \in Call /\ keyOf[pending[k]] = k
         /\ \A c \in Call : c = made + 1 => conn[c] = "none" /\ pc[c] = "idle"
         /\ \A c \in Call : pc[c] \notin Settled => keyOf[c] \in Key
         /\ \A c \in Call : keyOf[c] \in Key => pc[c] # "idle"
<1>0. McpTyped /\ SessionsSound /\ ClaimsInv /\ Mcp!McpTracked /\ None \notin Key
  BY ClaimsAssumption DEF McpInv, McpRest
<1>1. ASSUME NEW c \in Call
      PROVE  /\ conn[c] \in {"opening", "open"} => keyOf[c] \in Key
             /\ conn[c] = "open" => connections[keyOf[c]] = c
             /\ conn[c] = "opening" => pending[keyOf[c]] = c
  BY <1>0, <1>1, CallFacts, McpSets
  DEF SessionsSound, Mcp!McpTracked, Mcp!IsCurrent, Mcp!HoldsClaim
<1>2. ASSUME NEW k \in Key, connections[k] # None
      PROVE  /\ connections[k] \in Call /\ keyOf[connections[k]] = k
             /\ conn[connections[k]] = "open"
  BY <1>0, <1>2, McpSets
  DEF ClaimsInv, ClaimsTyped, KeysAgree, Mcp!McpTracked, Mcp!KeysIn
<1>3. ASSUME NEW k \in Key, pending[k] # None PROVE pending[k] \in Call /\ keyOf[pending[k]] = k
  BY <1>0, <1>3 DEF ClaimsInv, ClaimsTyped, KeysAgree
<1>4. ASSUME NEW c \in Call
      PROVE  /\ c = made + 1 => conn[c] = "none" /\ pc[c] = "idle"
             /\ pc[c] \notin Settled => keyOf[c] \in Key
             /\ keyOf[c] \in Key => pc[c] # "idle"
  BY <1>0, <1>4, CallFacts DEF SessionsSound, Settled, ClaimsInv, CallsAsked
<1> QED
  BY <1>1, <1>2, <1>3, <1>4

(* Each action of the handler moves the claims as the shared code does.    *)
LEMMA McpClaims ==
  ASSUME McpInv, Mcp!McpNext
  PROVE  ClaimsNext
<1> USE McpSame
<1>0. ClaimsInv
  BY DEF McpInv
<1>1. ASSUME NEW c \in Call, NEW k \in Key, Mcp!ConnectRejected(c, k) PROVE Refused(c, k)
  BY <1>1 DEF Mcp!ConnectRejected, Reject, Refused, boundVars
<1>2. ASSUME NEW c \in Call, NEW k \in Key, Mcp!Connect(c, k) PROVE Claims(c, k)
  BY <1>2 DEF Mcp!Connect, Claims, Awaits
<1>3. ASSUME NEW c \in Call, Mcp!ResolveFailed(c) PROVE Leaves(c)
  BY <1>3 DEF Mcp!ResolveFailed, Leaves, GiveUp, Settled, askedVars, boundVars
<1>4. ASSUME NEW c \in Call, Mcp!HandshakeFailed(c) PROVE Leaves(c)
  BY <1>4 DEF Mcp!HandshakeFailed, Leaves, Settled, askedVars, boundVars, Mcp!boundVars
<1>5. ASSUME NEW c \in Call, Mcp!Handshake(c) PROVE WaitsOn(c)
  BY <1>5 DEF Mcp!Handshake, WaitsOn, Awaits, Settled, askedVars, boundVars, Mcp!boundVars
<1>6. ASSUME NEW c \in Call, Mcp!Commit(c) PROVE Enters(c)
  <2>1. pc[c] = "connecting" /\ CanCommit(c) /\ Enter(c)
    BY <1>6 DEF Mcp!Commit
  <2>2. keyOf[c] \in Key
    BY <1>0, <2>1, CallFacts DEF Settled
  <2>3. entryBound' = Bind(entryBound, alive, OwnerOf(keyOf[c]))
    BY <1>0, <2>1, <2>2 DEF Enter, CanCommit, Bind, ClaimsInv, OwnersBound
  <2> QED
    BY <1>6, <2>1, <2>3 DEF Mcp!Commit, Enters, Enter, Settled, askedVars
<1>7. ASSUME NEW c \in Call, Mcp!SessionEvent(c) PROVE Clears
  BY <1>7 DEF Mcp!SessionEvent, Clears, askedVars, boundVars, Mcp!boundVars
<1>8. ASSUME NEW c \in Call, Mcp!OnClose(c) PROVE keyOf[c] \in Key /\ (Removes(keyOf[c]) \/ Clears)
  <2>1. keyOf[c] \in Key
    BY <1>8, McpFacts DEF Mcp!OnClose
  <2> QED
    BY <1>8, <2>1 DEF Mcp!OnClose, Removes, Clears, askedVars, boundVars, Mcp!boundVars
<1>9. ASSUME NEW k \in Key, Mcp!Disconnect(k) PROVE Removes(k)
  BY <1>9 DEF Mcp!Disconnect, Removes, askedVars, boundVars, Mcp!boundVars
<1>10. ASSUME NEW o \in Owner, Mcp!Destroyed(o) PROVE TornDown(o)
  BY <1>10 DEF Mcp!Destroyed
<1>11. CASE Mcp!Stop
  <2>1. Clears
    BY <1>11 DEF Mcp!Stop, Clears, askedVars, boundVars, Mcp!boundVars
  <2> QED
    BY <2>1 DEF ClaimsNext
<1> QED
  BY <1>1, <1>2, <1>3, <1>4, <1>5, <1>6, <1>7, <1>8, <1>9, <1>10, <1>11
  DEF Mcp!McpNext, Mcp!Resume, ClaimsNext

(* Disposing of sessions as they leave the registry and the claims keeps   *)
(* all that is said of the others, and lets a disconnect overtake those    *)
(* that are disposed of.                                                   *)
LEMMA McpDisposeKeeps ==
  ASSUME McpInv, NEW gone, Mcp!Disposed(gone), UNCHANGED <<keyOf, pc>>,
         io' \in Call \cup {None}, disowned' \subseteq Call,
         \A c \in disowned' \ disowned : /\ keyOf[c] \in Key
                                         /\ conn[c] \in {"none", "over"} \/ c \in gone
                                         /\ \A k \in Key : pending'[k] # c,
         \A c \in Call \ gone : /\ conn[c] = "open" => connections'[keyOf[c]] = c
                                /\ conn[c] = "opening" => pending'[keyOf[c]] = c,
         \A k \in Key : /\ connections'[k] # None =>
                             connections'[k] = connections[k] /\ connections[k] \notin gone
                        /\ pending'[k] = pending[k] \/ pending'[k] = None
  PROVE  McpRest'
<1>0. /\ ClaimsTyped /\ McpTyped /\ SessionsSound /\ DisownedGiveUp /\ None \notin Call
      /\ Mcp!Call = Call /\ Mcp!Key = Key
  BY McpSets, ClaimsAssumption DEF McpInv, McpRest, ClaimsInv
<1>1. /\ \A c \in Call : conn'[c] = IF c \in gone /\ conn[c] # "none" THEN "over" ELSE conn[c]
      /\ conn' \in [Call -> {"none", "opening", "open", "over"}]
  BY <1>0 DEF Mcp!Disposed, McpTyped
<1>2. McpTyped'
  BY <1>1 DEF McpTyped
<1>3. SessionsSound'
  BY <1>0, <1>1 DEF SessionsSound
<1>4. DisownedGiveUp'
  <2> SUFFICES ASSUME NEW c \in disowned'
               PROVE  /\ pc[c] # "idle" /\ conn'[c] \in {"none", "over"}
                      /\ \A k \in Key : pending'[k] # c
    BY DEF DisownedGiveUp
  <2>1. c \in Call
    OBVIOUS
  <2>2. CASE c \in disowned
    <3>1. pc[c] # "idle" /\ conn[c] \in {"none", "over"} /\ \A k \in Key : pending[k] # c
      BY <1>0, <2>2 DEF DisownedGiveUp
    <3> QED
      BY <1>0, <1>1, <2>1, <3>1
  <2>3. CASE c \notin disowned
    BY <1>1, <2>1, <2>3, McpFacts
  <2> QED
    BY <2>2, <2>3
<1>5. Mcp!McpTracked'
  <2>1. ASSUME NEW c \in Call
        PROVE  /\ conn'[c] = "open" => connections'[keyOf'[c]] = c
               /\ conn'[c] = "opening" => pending'[keyOf'[c]] = c
    BY <1>1, <2>1
  <2>2. ASSUME NEW k \in Key, connections'[k] # None PROVE conn'[connections'[k]] = "open"
    BY <1>1, <2>2, McpFacts
  <2> QED
    BY <1>0, <2>1, <2>2 DEF Mcp!McpTracked, Mcp!IsCurrent, Mcp!HoldsClaim, Mcp!KeysIn
<1> QED
  BY <1>2, <1>3, <1>4, <1>5 DEF McpRest

(* A step of a call that has no session and gets none.                     *)
LEMMA McpCallKeeps ==
  ASSUME McpInv, NEW c \in Call, NEW how \in {"resolving", "failed"},
         pc' = [pc EXCEPT ![c] = how],
         \/ c = made + 1 /\ \E k \in Key : keyOf' = [keyOf EXCEPT ![c] = k]
         \/ pc[c] = "resolving" /\ keyOf' = keyOf,
         io' = None, UNCHANGED <<connections, conn, disowned>>,
         \A k \in Key : pending'[k] = pending[k] \/ pending'[k] \in {None, c},
         \A k \in Key : pending'[k] = c => pc[c] = "idle" \/ pending[k] = c,
         \A k \in Key : pending[k] # None /\ pending[k] # c => pending'[k] = pending[k]
  PROVE  McpRest'
<1>0. /\ ClaimsTyped /\ McpTyped /\ SessionsSound /\ DisownedGiveUp /\ Mcp!McpTracked
      /\ Mcp!Call = Call /\ Mcp!Key = Key /\ None \notin Call
  BY McpSets, ClaimsAssumption DEF McpInv, McpRest, ClaimsInv
<1>1. conn[c] = "none" /\ (pc[c] = "idle" \/ pc[c] = "resolving")
  BY <1>0, McpFacts DEF SessionsSound
<1>2. \A d \in Call \ {c} : pc'[d] = pc[d] /\ keyOf'[d] = keyOf[d]
  BY <1>0 DEF ClaimsTyped
<1>3. McpTyped'
  BY <1>0 DEF McpTyped
<1>4. SessionsSound'
  BY <1>0, <1>1, <1>2 DEF SessionsSound
<1>5. DisownedGiveUp'
  <2> SUFFICES ASSUME NEW d \in disowned
               PROVE  /\ pc'[d] # "idle" /\ conn[d] \in {"none", "over"}
                      /\ \A k \in Key : pending'[k] # d
    BY DEF DisownedGiveUp
  <2>1. d \in Call /\ pc[d] # "idle" /\ conn[d] \in {"none", "over"}
        /\ \A k \in Key : pending[k] # d
    BY <1>0 DEF DisownedGiveUp, McpTyped
  <2>2. pc'[d] # "idle"
    BY <1>0, <1>2, <2>1 DEF ClaimsTyped
  <2>3. \A k \in Key : pending'[k] # d
    BY <1>0, <2>1
  <2> QED
    BY <2>1, <2>2, <2>3
<1>6. Mcp!McpTracked'
  <2>1. ASSUME NEW d \in Call
        PROVE  /\ conn[d] = "open" => connections[keyOf'[d]] = d
               /\ conn[d] = "opening" => pending'[keyOf'[d]] = d
    BY <1>0, <1>1, <1>2, <2>1, McpFacts
  <2>2. ASSUME NEW k \in Key, connections[k] # None PROVE conn[connections[k]] = "open"
    BY <2>2, McpFacts
  <2> QED
    BY <1>0, <2>1, <2>2 DEF Mcp!McpTracked, Mcp!IsCurrent, Mcp!HoldsClaim, Mcp!KeysIn
<1> QED
  BY <1>3, <1>4, <1>5, <1>6 DEF McpRest

(* The commit opens the session of the claim, which no disconnect has      *)
(* overtaken, in the place of the one it found.                            *)
LEMMA McpCommitKeeps ==
  ASSUME McpInv, NEW c \in Call, Mcp!Commit(c)
  PROVE  McpRest'
<1> DEFINE e == ownerEntry[c]
<1>0. /\ ClaimsInv /\ ClaimsTyped /\ McpTyped /\ SessionsSound /\ DisownedGiveUp
      /\ Mcp!Call = Call /\ Mcp!Key = Key /\ None \notin Call
  BY McpSets, ClaimsAssumption DEF McpInv, McpRest, ClaimsInv
<1>1. /\ pc[c] = "connecting" /\ conn[c] = "opening"
      /\ pc' = [pc EXCEPT ![c] = "ok"] /\ keyOf' = keyOf /\ disowned' = disowned
      /\ io' = c \/ io' = None
      /\ pending[keyOf[c]] = c /\ connections[keyOf[c]] = e
      /\ connections' = [connections EXCEPT ![keyOf[c]] = c]
      /\ conn' = [d \in Call |-> IF d = c THEN "open" ELSE IF d = e THEN "over" ELSE conn[d]]
  BY McpSame DEF Mcp!Commit, CanCommit, HoldsClaim, Enter, Answer, Put, Say
<1>2. Release(c)
  BY McpSame DEF Mcp!Commit
<1>3. keyOf[c] \in Key /\ \A k \in Key : pending'[k] = IF pending[k] = c THEN None ELSE pending[k]
  BY <1>0, <1>1, <1>2, ReleaseDrops DEF Settled
<1> HIDE DEF e
<1>4. McpTyped'
  BY <1>0, <1>1 DEF McpTyped
<1>5. SessionsSound'
  <2>1. e # None => e \in Call /\ conn[e] = "open" /\ e # c
    BY <1>1, <1>3, McpFacts
  <2> QED
    BY <1>0, <1>1, <2>1 DEF SessionsSound, ClaimsTyped
<1>6. c \notin disowned
  BY <1>0, <1>1, <1>3 DEF DisownedGiveUp
<1>7. DisownedGiveUp'
  BY <1>0, <1>1, <1>3, <1>6 DEF DisownedGiveUp, McpTyped, ClaimsTyped
<1>8. Mcp!McpTracked'
  <2>1. ASSUME NEW d \in Call, conn'[d] = "open" PROVE connections'[keyOf[d]] = d
    <3>1. CASE d = c
      BY <1>0, <1>1, <1>3, <3>1 DEF ClaimsTyped
    <3>2. CASE d # c
      <4>1. conn[d] = "open" /\ d # e
        BY <1>1, <2>1, <3>2
      <4>2. keyOf[d] \in Key /\ connections[keyOf[d]] = d
        BY <4>1, McpFacts
      <4> QED
        BY <1>0, <1>1, <1>3, <4>1, <4>2 DEF ClaimsTyped
    <3> QED
      BY <3>1, <3>2
  <2>2. ASSUME NEW d \in Call, conn'[d] = "opening" PROVE pending'[keyOf[d]] = d
    <3>1. d # c /\ conn[d] = "opening"
      BY <1>1, <2>2
    <3>2. keyOf[d] \in Key /\ pending[keyOf[d]] = d
      BY <3>1, McpFacts
    <3> QED
      BY <1>3, <3>1, <3>2
  <2>3. ASSUME NEW k \in Key, connections'[k] # None PROVE conn'[connections'[k]] = "open"
    <3>1. CASE k = keyOf[c]
      BY <1>0, <1>1, <1>3, <3>1 DEF ClaimsTyped
    <3>2. CASE k # keyOf[c]
      <4>1. connections'[k] = connections[k] /\ connections[k] # None
        BY <1>0, <1>1, <2>3, <3>2 DEF ClaimsTyped
      <4>2. /\ connections[k] \in Call /\ keyOf[connections[k]] = k
            /\ conn[connections[k]] = "open"
        BY <4>1, McpFacts
      <4>3. connections[k] # e
        BY <1>0, <1>1, <1>3, <3>2, <4>2, McpFacts
      <4> QED
        BY <1>1, <4>1, <4>2, <4>3
    <3> QED
      BY <3>1, <3>2
  <2> QED
    BY <1>0, <1>1, <2>1, <2>2, <2>3
    DEF Mcp!McpTracked, Mcp!IsCurrent, Mcp!HoldsClaim, Mcp!KeysIn
<1> QED
  BY <1>4, <1>5, <1>7, <1>8 DEF McpRest

(* Each action keeps what is said of the sessions.                         *)
LEMMA McpKept ==
  ASSUME McpInv, Mcp!McpNext
  PROVE  McpRest'
<1>0. /\ ClaimsInv /\ ClaimsTyped /\ McpTyped /\ SessionsSound /\ DisownedGiveUp
      /\ Mcp!McpTracked /\ Mcp!Call = Call /\ Mcp!Key = Key /\ None \notin Call
  BY McpSets, ClaimsAssumption DEF McpInv, McpRest, ClaimsInv
<1>1. ASSUME NEW c \in Call, NEW k \in Key, Mcp!ConnectRejected(c, k) PROVE McpRest'
  <2>1. /\ c = made + 1 /\ keyOf' = [keyOf EXCEPT ![c] = k] /\ io' = None
        /\ pc' = [pc EXCEPT ![c] = "failed"]
        /\ UNCHANGED <<pending, connections, conn, disowned>>
    BY <1>1, McpSame DEF Mcp!ConnectRejected, Reject, Arrive, Answer
  <2> QED
    BY <2>1, McpCallKeeps
<1>2. ASSUME NEW c \in Call, NEW k \in Key, Mcp!Connect(c, k) PROVE McpRest'
  <2>1. /\ c = made + 1 /\ keyOf' = [keyOf EXCEPT ![c] = k] /\ io' = None
        /\ pc' = [pc EXCEPT ![c] = "resolving"]
        /\ pending[k] = None /\ pending' = [pending EXCEPT ![k] = c]
        /\ UNCHANGED <<connections, conn, disowned>>
    BY <1>2, McpSame DEF Mcp!Connect, Reserve, CanReserve, Arrive, Answer, Put
  <2>2. pc[c] = "idle"
    BY <2>1, McpFacts
  <2>3. \A j \in Key : pending'[j] = IF j = k THEN c ELSE pending[j]
    BY <1>0, <2>1 DEF ClaimsTyped
  <2> QED
    BY <2>1, <2>2, <2>3, McpCallKeeps
<1>3. ASSUME NEW c \in Call, Mcp!ResolveFailed(c) PROVE McpRest'
  <2>1. /\ pc[c] = "resolving" /\ keyOf' = keyOf /\ io' = None
        /\ pc' = [pc EXCEPT ![c] = "failed"] /\ Release(c)
        /\ UNCHANGED <<connections, conn, disowned>>
    BY <1>3, McpSame DEF Mcp!ResolveFailed, GiveUp, Answer
  <2>2. \A j \in Key : pending'[j] = IF pending[j] = c THEN None ELSE pending[j]
    BY <1>0, <2>1, ReleaseDrops DEF Settled
  <2> QED
    BY <1>0, <2>1, <2>2, McpCallKeeps
<1>4. ASSUME NEW c \in Call, Mcp!Handshake(c) PROVE McpRest'
  <2>1. /\ pc[c] = "resolving" /\ pending[keyOf[c]] = c /\ io' = None
        /\ pc' = [pc EXCEPT ![c] = "connecting"] /\ conn' = [conn EXCEPT ![c] = "opening"]
        /\ UNCHANGED <<keyOf, pending, connections, disowned>>
    BY <1>4, McpSame DEF Mcp!Handshake, Mcp!Becomes, HoldsClaim, Answer
  <2>2. keyOf[c] \in Key /\ conn[c] = "none"
    BY <1>0, <2>1, McpFacts DEF SessionsSound, Settled
  <2>3. c \notin disowned
    BY <1>0, <2>1, <2>2 DEF DisownedGiveUp
  <2>4. McpTyped' /\ SessionsSound'
    BY <1>0, <2>1 DEF McpTyped, SessionsSound, ClaimsTyped
  <2>5. DisownedGiveUp'
    BY <1>0, <2>1, <2>3 DEF DisownedGiveUp, McpTyped, ClaimsTyped
  <2>6. Mcp!McpTracked'
    <3>1. ASSUME NEW d \in Call
          PROVE  /\ conn'[d] = "open" => connections[keyOf[d]] = d
                 /\ conn'[d] = "opening" => pending[keyOf[d]] = d
      BY <1>0, <2>1, <3>1, McpFacts DEF McpTyped
    <3>2. ASSUME NEW k \in Key, connections[k] # None PROVE conn'[connections[k]] = "open"
      BY <1>0, <2>1, <2>2, <3>2, McpFacts DEF McpTyped
    <3> QED
      BY <1>0, <2>1, <3>1, <3>2 DEF Mcp!McpTracked, Mcp!IsCurrent, Mcp!HoldsClaim, Mcp!KeysIn
  <2> QED
    BY <2>4, <2>5, <2>6 DEF McpRest
<1>5. ASSUME NEW c \in Call, Mcp!HandshakeFailed(c) PROVE McpRest'
  <2>1. /\ pc[c] = "connecting" /\ Release(c) /\ io' = None
        /\ pc' = [pc EXCEPT ![c] = "failed"] /\ Mcp!Disposed({c})
        /\ UNCHANGED <<keyOf, connections, disowned>>
    BY <1>5, McpSame DEF Mcp!HandshakeFailed, Answer
  <2>2. \A j \in Key : pending'[j] = IF pending[j] = c THEN None ELSE pending[j]
    BY <1>0, <2>1, ReleaseDrops DEF Settled
  <2>3. /\ \A d \in Call : conn'[d] = IF d = c /\ conn[c] # "none" THEN "over" ELSE conn[d]
        /\ conn' \in [Call -> {"none", "opening", "open", "over"}]
    BY <1>0, <2>1 DEF Mcp!Disposed, McpTyped
  <2>4. McpTyped'
    BY <1>0, <2>1, <2>3 DEF McpTyped
  <2>5. SessionsSound'
    BY <1>0, <2>1, <2>3 DEF SessionsSound, ClaimsTyped
  <2>6. DisownedGiveUp'
    <3> SUFFICES ASSUME NEW d \in disowned
                 PROVE  /\ pc'[d] # "idle" /\ conn'[d] \in {"none", "over"}
                        /\ \A k \in Key : pending'[k] # d
      BY <2>1 DEF DisownedGiveUp
    <3>1. /\ d \in Call /\ pc[d] # "idle" /\ conn[d] \in {"none", "over"}
          /\ \A k \in Key : pending[k] # d
      BY <1>0 DEF DisownedGiveUp, McpTyped
    <3> QED
      BY <1>0, <2>1, <2>2, <2>3, <3>1 DEF ClaimsTyped
  <2>7. Mcp!McpTracked'
    <3>1. ASSUME NEW d \in Call
          PROVE  /\ conn'[d] = "open" => connections[keyOf[d]] = d
                 /\ conn'[d] = "opening" => pending'[keyOf[d]] = d
      BY <1>0, <2>2, <2>3, <3>1, McpFacts
    <3>2. ASSUME NEW k \in Key, connections[k] # None PROVE conn'[connections[k]] = "open"
      <4>1. /\ connections[k] \in Call /\ conn[connections[k]] = "open"
            /\ pc[connections[k]] = "ok"
        BY <1>0, <3>2, McpFacts DEF SessionsSound
      <4> QED
        BY <2>1, <2>3, <4>1
    <3> QED
      BY <1>0, <2>1, <3>1, <3>2 DEF Mcp!McpTracked, Mcp!IsCurrent, Mcp!HoldsClaim, Mcp!KeysIn
  <2> QED
    BY <2>4, <2>5, <2>6, <2>7 DEF McpRest
<1>6. ASSUME NEW c \in Call, Mcp!SessionEvent(c) PROVE McpRest'
  <2>1. /\ io' = c \/ io' = None
        /\ UNCHANGED <<pc, keyOf, pending, connections, conn, disowned>>
    BY <1>6 DEF Mcp!SessionEvent, Mcp!Say
  <2> QED
    BY <1>0, <2>1
    DEF McpRest, McpTyped, SessionsSound, DisownedGiveUp, Mcp!McpTracked, Mcp!IsCurrent,
        Mcp!HoldsClaim, Mcp!KeysIn
<1>7. ASSUME NEW c \in Call, Mcp!OnClose(c) PROVE McpRest'
  <2>1. /\ conn[c] \in {"opening", "open"} /\ conn' = [conn EXCEPT ![c] = "over"]
        /\ io' = c \/ io' = None
        /\ IF connections[keyOf[c]] = c
           THEN connections' = [connections EXCEPT ![keyOf[c]] = None]
           ELSE connections' = connections
        /\ UNCHANGED <<pc, keyOf, pending, disowned>>
    BY <1>7, McpSame DEF Mcp!OnClose, Mcp!Becomes, IsCurrent, Drop, Say
  <2>2. Mcp!Disposed({c})
    BY <1>0, <2>1 DEF Mcp!Disposed, McpTyped
  <2>3. keyOf[c] \in Key
    BY <2>1, McpFacts
  <2>4. \A k \in Key : connections'[k] # None =>
           connections'[k] = connections[k] /\ connections[k] \notin {c}
    BY <1>0, <2>1, <2>3, McpFacts DEF ClaimsTyped
  <2>5. \A d \in Call \ {c} : /\ conn[d] = "open" => connections'[keyOf[d]] = d
                              /\ conn[d] = "opening" => pending'[keyOf[d]] = d
    BY <1>0, <2>1, <2>3, McpFacts DEF ClaimsTyped
  <2>6. io' \in Call \cup {None} /\ disowned' \subseteq Call
    BY <1>0, <2>1 DEF McpTyped
  <2> QED
    BY <2>1, <2>2, <2>4, <2>5, <2>6, McpDisposeKeeps
<1>8. ASSUME NEW k \in Key, Mcp!Disconnect(k) PROVE McpRest'
  <2> DEFINE gone == Mcp!PendingSession(k) \cup {connections[k]}
  <2>1. /\ Mcp!Disposed(gone) /\ io' = None
        /\ pending' = [pending EXCEPT ![k] = None]
        /\ connections' = [connections EXCEPT ![k] = None]
        /\ disowned' = disowned \cup {c \in Call : keyOf[c] = k}
        /\ UNCHANGED <<keyOf, pc>>
    BY <1>8, McpSame DEF Mcp!Disconnect, Drop
  <2>2. \A c \in Call : c \in gone <=> c = pending[k] \/ c = connections[k]
    BY <1>0 DEF Mcp!PendingSession
  <2>3. \A j \in Key : /\ pending'[j] = IF j = k THEN None ELSE pending[j]
                       /\ connections'[j] = IF j = k THEN None ELSE connections[j]
    BY <1>0, <2>1 DEF ClaimsTyped
  <2>4. \A c \in disowned' \ disowned : /\ keyOf[c] \in Key
                                        /\ conn[c] \in {"none", "over"} \/ c \in gone
                                        /\ \A j \in Key : pending'[j] # c
    <3> SUFFICES ASSUME NEW c \in Call, keyOf[c] = k
                 PROVE  /\ conn[c] \in {"none", "over"} \/ c \in gone
                        /\ \A j \in Key : pending'[j] # c
      BY <2>1
    <3>1. conn[c] \in {"none", "over"} \/ c \in gone
      BY <1>0, <2>2, McpFacts DEF McpTyped
    <3>2. \A j \in Key : pending'[j] # c
      BY <1>0, <2>3, McpFacts
    <3> QED
      BY <3>1, <3>2
  <2>5. \A c \in Call \ gone : /\ conn[c] = "open" => connections'[keyOf[c]] = c
                               /\ conn[c] = "opening" => pending'[keyOf[c]] = c
    BY <2>2, <2>3, McpFacts
  <2>6. \A j \in Key : connections'[j] # None =>
           connections'[j] = connections[j] /\ connections[j] \notin gone
    <3> SUFFICES ASSUME NEW j \in Key, connections'[j] # None
                 PROVE  connections'[j] = connections[j] /\ connections[j] \notin gone
      OBVIOUS
    <3>1. j # k /\ connections'[j] = connections[j]
      BY <2>3
    <3>2. /\ connections[j] \in Call /\ keyOf[connections[j]] = j
          /\ conn[connections[j]] = "open"
      BY <3>1, McpFacts
    <3>3. connections[j] # pending[k] /\ connections[j] # connections[k]
      BY <1>0, <3>1, <3>2, McpFacts
    <3> QED
      BY <2>2, <3>1, <3>2, <3>3
  <2>7. disowned' \subseteq Call /\ io' \in Call \cup {None}
    BY <1>0, <2>1 DEF McpTyped
  <2>8. \A j \in Key : pending'[j] = pending[j] \/ pending'[j] = None
    BY <2>3
  <2> HIDE DEF gone
  <2> QED
    BY <2>1, <2>4, <2>5, <2>6, <2>7, <2>8, McpDisposeKeeps
<1>9. ASSUME NEW o \in Owner, Mcp!Destroyed(o) PROVE McpRest'
  <2> DEFINE gone == Mcp!DisposedOnDestroyed(connections, entryBound, o)
                        \cup Mcp!DisposedOnDestroyed(pending, claimBound, o)
  <2>1. /\ TornDown(o) /\ Mcp!Disposed(gone) /\ io' = None
        /\ UNCHANGED <<keyOf, pc, disowned>>
    BY <1>9, McpSame DEF Mcp!Destroyed, TornDown
  <2>2. \A c \in Call : c \in gone <=>
           \E j \in Key : OwnerOf(j) = o /\ (connections[j] = c \/ pending[j] = c)
    <3>1. /\ \A c \in Call : c \in Mcp!DisposedOnDestroyed(connections, entryBound, o) <=>
                o \in entryBound /\ \E j \in Key : OwnerOf(j) = o /\ connections[j] = c
          /\ \A c \in Call : c \in Mcp!DisposedOnDestroyed(pending, claimBound, o) <=>
                o \in claimBound /\ \E j \in Key : OwnerOf(j) = o /\ pending[j] = c
      BY <1>0, McpSame DEF Mcp!DisposedOnDestroyed, Mcp!OwnedBy, Mcp!KeysIn
    <3> QED
      BY <1>0, <3>1 DEF ClaimsInv, OwnersBound
  <2>3. \A j \in Key : IF OwnerOf(j) = o THEN pending'[j] = None /\ connections'[j] = None
                       ELSE pending'[j] = pending[j] /\ connections'[j] = connections[j]
    BY <1>0, <2>1, TornDownMaps DEF WithoutOwner
  <2>4. \A c \in Call \ gone : /\ conn[c] = "open" => connections'[keyOf[c]] = c
                               /\ conn[c] = "opening" => pending'[keyOf[c]] = c
    BY <2>2, <2>3, McpFacts
  <2>5. \A j \in Key : connections'[j] # None =>
           connections'[j] = connections[j] /\ connections[j] \notin gone
    <3> SUFFICES ASSUME NEW j \in Key, connections'[j] # None
                 PROVE  connections'[j] = connections[j] /\ connections[j] \notin gone
      OBVIOUS
    <3>1. OwnerOf(j) # o /\ connections'[j] = connections[j]
      BY <2>3
    <3>2. connections[j] \in Call /\ keyOf[connections[j]] = j
      BY <3>1, McpFacts
    <3>3. \A i \in Key : connections[i] = connections[j] \/ pending[i] = connections[j] => i = j
      BY <1>0, <3>2, McpFacts
    <3> QED
      BY <2>2, <3>1, <3>2, <3>3
  <2>6. disowned' \subseteq Call /\ io' \in Call \cup {None} /\ disowned' \ disowned = {}
    BY <1>0, <2>1 DEF McpTyped
  <2>7. \A j \in Key : pending'[j] = pending[j] \/ pending'[j] = None
    BY <2>3
  <2> HIDE DEF gone
  <2> QED
    BY <2>1, <2>4, <2>5, <2>6, <2>7, McpDisposeKeeps
<1>10. CASE Mcp!Stop
  <2> DEFINE gone == Entries(pending) \cup Entries(connections)
  <2>1. /\ Mcp!Disposed(gone) /\ io' = None /\ pending' = EmptyMap /\ connections' = EmptyMap
        /\ UNCHANGED <<keyOf, pc, disowned>>
    BY <1>10, McpSame DEF Mcp!Stop
  <2>2. \A c \in Call : conn[c] \in {"opening", "open"} => c \in gone
    BY <1>0, McpFacts DEF Entries, KeysIn
  <2>3. \A j \in Key : pending'[j] = None /\ connections'[j] = None
    BY <2>1 DEF EmptyMap
  <2>4. disowned' \subseteq Call /\ io' \in Call \cup {None} /\ disowned' \ disowned = {}
    BY <1>0, <2>1 DEF McpTyped
  <2> HIDE DEF gone
  <2> QED
    BY <2>1, <2>2, <2>3, <2>4, McpDisposeKeeps
<1> QED
  BY <1>0, <1>1, <1>2, <1>3, <1>4, <1>5, <1>6, <1>7, <1>8, <1>9, <1>10, McpCommitKeeps
  DEF Mcp!McpNext, Mcp!Resume

(* In every reachable state claims, entries and sessions agree, and who    *)
(* was overtaken by a disconnect is on the way out.                        *)
THEOREM McpInvariance == McpSpec => []McpInv
<1>1. Mcp!McpInit => McpInv
  <2> SUFFICES ASSUME Mcp!McpInit PROVE McpInv
    OBVIOUS
  <2>1. ClaimsInit /\ disowned = {}
    BY McpSame DEF Mcp!McpInit
  <2>2. ClaimsInv
    BY <2>1, ClaimsBegin
  <2>3. McpTyped /\ SessionsSound /\ DisownedGiveUp
    BY <2>1 DEF ClaimsInit, McpTyped, SessionsSound, DisownedGiveUp
  <2>4. Mcp!McpTracked
    BY <2>1, McpSets DEF ClaimsInit, EmptyMap, Mcp!McpTracked, Mcp!KeysIn
  <2> QED
    BY <2>2, <2>3, <2>4 DEF McpInv, McpRest
<1>2. McpInv /\ [Mcp!McpNext]_<<claimVars, disowned>> => McpInv'
  <2> SUFFICES ASSUME McpInv, [Mcp!McpNext]_<<claimVars, disowned>> PROVE McpInv'
    OBVIOUS
  <2>1. CASE Mcp!McpNext
    BY <2>1, McpClaims, ClaimsKept, McpKept DEF McpInv
  <2>2. CASE UNCHANGED <<claimVars, disowned>>
    <3>1. ClaimsInv'
      BY <2>2, ClaimsKept DEF McpInv
    <3> QED
      BY <2>2, <3>1
      DEF McpInv, McpRest, McpTyped, SessionsSound, DisownedGiveUp, Mcp!McpTracked,
          Mcp!IsCurrent, Mcp!HoldsClaim, Mcp!KeysIn, claimVars
  <2> QED
    BY <2>1, <2>2
<1> QED
  BY <1>1, <1>2, PTL DEF McpSpec

-------------------------------------------------------------------------------
(* What the three promise                                                  *)

(* A client, a socket and a session that run are the entry of their id or, *)
(* during a handshake, belong to its claim: no step of mqtt-handler.ts,    *)
(* socketio-handler.ts or mcp-handler.ts loses one.                        *)
THEOREM RunningIsTracked ==
  /\ MqttSpec => []Mqtt!MqttTracked
  /\ SocketIoSpec => []SocketIo!SocketIoTracked
  /\ McpSpec => []Mcp!McpTracked
<1>1. /\ MqttInv => Mqtt!MqttTracked
      /\ SocketIoInv => SocketIo!SocketIoTracked
      /\ McpInv => Mcp!McpTracked
  BY DEF MqttInv, SocketIoInv, SocketIoRest, McpInv, McpRest
<1> QED
  BY <1>1, MqttInvariance, SocketIoInvariance, McpInvariance, PTL

(* Connections and claims together never exceed the cap, although it is    *)
(* checked before the awaits of a connect and the entry made after them.   *)
THEOREM CapIsKept ==
  /\ MqttSpec => []WithinCap
  /\ SocketIoSpec => []WithinCap
  /\ McpSpec => []WithinCap
<1>1. MqttInv \/ SocketIoInv \/ McpInv => WithinCap
  BY ClaimsGive DEF MqttInv, SocketIoInv, McpInv
<1> QED
  BY <1>1, MqttInvariance, SocketIoInvariance, McpInvariance, PTL

(* A destroyed renderer owns neither an entry nor a claim, whatever its    *)
(* calls awaited when it died.                                             *)
THEOREM DestroyedOwnNothing ==
  /\ MqttSpec => []DeadOwnNothing
  /\ SocketIoSpec => []DeadOwnNothing
  /\ McpSpec => []DeadOwnNothing
<1>1. MqttInv \/ SocketIoInv \/ McpInv => DeadOwnNothing
  BY ClaimsGive DEF MqttInv, SocketIoInv, McpInv
<1> QED
  BY <1>1, MqttInvariance, SocketIoInvariance, McpInvariance, PTL

(* An event sent with an ackId over Socket.IO is answered at most once, by *)
(* its acknowledgement or by its timeout, and what is waited for has its   *)
(* timer and a connection.                                                 *)
THEOREM AcksAreAnsweredOnce == SocketIoSpec => []SocketIo!AcksSound
<1>1. SocketIoInv => SocketIo!AcksSound
  BY DEF SocketIoInv, SocketIoRest
<1> QED
  BY <1>1, SocketIoInvariance, PTL

(* No MCP session asked for before a disconnect of its id is alive after   *)
(* it, in whatever await its connect was overtaken.                        *)
THEOREM DisconnectStaysFinal == McpSpec => []Mcp!DisconnectIsFinal
<1>1. McpInv => Mcp!DisconnectIsFinal
  BY DEF McpInv, McpRest, DisownedGiveUp, Mcp!DisconnectIsFinal
<1> QED
  BY <1>1, McpInvariance, PTL

-------------------------------------------------------------------------------
(* The gRPC Connect transport                                              *)

(* TypeOK of grpc-connect.ts, one variable at a time.                      *)
Metadata == {"headers", "trailers"}
Events == {"data", "status", "error"}

ConnectTyped ==
    /\ kind \in Kind
    /\ attempts \in {1, 2} /\ attemptIndex \in 1 .. attempts
    /\ running \in BOOLEAN /\ heldHeaders \in BOOLEAN /\ heldTrailers \in BOOLEAN
    /\ replayOverflow \in BOOLEAN /\ ended \in BOOLEAN /\ inboundDelivered \in BOOLEAN
    /\ aborted \in BOOLEAN /\ closed \in BOOLEAN /\ waiting \in BOOLEAN
    /\ registered \in BOOLEAN /\ finalized \in BOOLEAN /\ peerClosed \in BOOLEAN
    /\ meta \subseteq Metadata
    /\ replay \in Seq(Payload) /\ buffer \in Seq(Payload)
    /\ written \in Seq(Payload) /\ wire \in Seq(Payload)
    /\ accumulatedSize \in 0 .. MaxResponse + 1
    /\ captured \subseteq {1, 2} \X Metadata
    /\ endedAt \in 0 .. MaxWrites \cup {NotEnded}
    /\ told \in Seq(Events)

(* The two say the same.                                                   *)
LEMMA ConnectTypes == TypeOK <=> ConnectTyped
  BY DEF TypeOK, ConnectTyped, Metadata, Events

(* What is held back, by kind.                                             *)
LEMMA HeldIs ==
  /\ Held \subseteq Metadata
  /\ "headers" \in Held <=> heldHeaders
  /\ "trailers" \in Held <=> heldTrailers
  BY DEF Held, Metadata

(* Flushing captures what was held back, for a call that is current.       *)
LEMMA FlushFacts ==
  ASSUME ConnectTyped, FlushHeld
  PROVE  /\ heldHeaders' = FALSE /\ heldTrailers' = FALSE /\ Held' = {}
         /\ captured' \subseteq {1, 2} \X Metadata
         /\ registered => captured' = captured \cup ({attemptIndex} \X Held)
<1>1. Held' = {}
  BY DEF Held, FlushHeld
<1>2. {attemptIndex} \X Held \subseteq {1, 2} \X Metadata
  BY HeldIs DEF ConnectTyped
<1> QED
  BY <1>1, <1>2 DEF FlushHeld, Captured, ConnectTyped, Metadata

(* Metadata of the last attempt is captured, that of an earlier one held   *)
(* back.                                                                   *)
LEMMA DeliverFacts ==
  ASSUME ConnectTyped, NEW what \in Metadata, Deliver(what)
  PROVE  /\ captured' \subseteq {1, 2} \X Metadata
         /\ heldHeaders' \in BOOLEAN /\ heldTrailers' \in BOOLEAN
         /\ IF IsFinal
            THEN /\ Held' = Held
                 /\ registered => captured' = captured \cup ({attemptIndex} \X {what})
            ELSE Held' = Held \cup {what} /\ captured' = captured
<1>1. {attemptIndex} \X {what} \subseteq {1, 2} \X Metadata
  BY DEF ConnectTyped
<1>2. CASE IsFinal
  BY <1>1, <1>2 DEF Deliver, Captured, ConnectTyped, Metadata, heldVars, Held
<1>3. CASE ~IsFinal
  <2>1. captured' = captured /\ heldHeaders' \in BOOLEAN /\ heldTrailers' \in BOOLEAN
    BY <1>3 DEF Deliver, ConnectTyped
  <2>2. /\ heldHeaders' <=> heldHeaders \/ what = "headers"
        /\ heldTrailers' <=> heldTrailers \/ what = "trailers"
    BY <1>3 DEF Deliver
  <2>3. ASSUME NEW m \in Metadata PROVE m \in Held' <=> m \in Held \cup {what}
    <3>1. CASE m = "headers"
      BY <2>2, <3>1 DEF Held
    <3>2. CASE m = "trailers"
      BY <2>2, <3>2 DEF Held
    <3> QED
      BY <3>1, <3>2 DEF Metadata
  <2>4. Held' = Held \cup {what}
    BY <2>3 DEF Held, Metadata
  <2> QED
    BY <1>3, <2>1, <2>4 DEF ConnectTyped, Metadata
<1> QED
  BY <1>2, <1>3

(* finalize tells a current call its terminal event, and ends it.          *)
LEMMA FinalizeFacts ==
  ASSUME ConnectTyped, EntryLasts, NEW terminal \in {"status", "error"}, Finalize(terminal)
  PROVE  /\ told' \in Seq(Events)
         /\ finalized' \in BOOLEAN /\ registered' = FALSE
         /\ told' = IF registered THEN Append(told, terminal) ELSE told
<1>1. told \in Seq(Events) /\ registered \in BOOLEAN
      /\ finalized \in BOOLEAN /\ (registered => ~finalized)
  BY DEF ConnectTyped, EntryLasts
<1>2. Append(told, terminal) \in Seq(Events)
  BY <1>1 DEF Events
<1> QED
  BY <1>1, <1>2 DEF Finalize

(* A message is told, or is over the limit and ends the call, or comes too *)
(* late.                                                                   *)
LEMMA DataFacts ==
  ASSUME ConnectTyped, EntryLasts, ~HasQueue => ~closed, HandleData
  PROVE  /\ told' \in Seq(Events)
         /\ finalized' \in BOOLEAN /\ registered' \in BOOLEAN
         /\ accumulatedSize' \in 0 .. MaxResponse + 1
         /\ aborted' \in BOOLEAN /\ closed' \in BOOLEAN /\ waiting' \in BOOLEAN
         /\ buffer' = buffer
         /\ \/ /\ told' = Append(told, "data") /\ registered /\ ~OverLimit
               /\ UNCHANGED <<registered, finalized, aborted, closed>>
               /\ accumulatedSize' = accumulatedSize + 1
            \/ /\ told' = Append(told, "error") /\ registered
               /\ ~registered' /\ finalized' /\ aborted' /\ closed' = HasQueue
            \/ /\ told' = told /\ ~registered
               /\ UNCHANGED <<registered, finalized, aborted, closed, accumulatedSize>>
<1>1. /\ told \in Seq(Events) /\ registered \in BOOLEAN
      /\ finalized \in BOOLEAN /\ (registered => ~finalized)
      /\ closed \in BOOLEAN /\ waiting \in BOOLEAN /\ aborted \in BOOLEAN
      /\ accumulatedSize \in 0 .. MaxResponse + 1 /\ MaxResponse \in Nat
      /\ (registered => accumulatedSize <= MaxResponse) /\ (~HasQueue => ~closed)
  BY ConnectAssumption DEF ConnectTyped, EntryLasts
<1>2. /\ Append(told, "error") \in Seq(Events)
      /\ Append(told, "data") \in Seq(Events)
  BY <1>1 DEF Events
<1>3. CASE ~registered
  BY <1>1, <1>3 DEF HandleData, queueVars
<1>4. CASE registered /\ OverLimit
  <2>1. Close /\ Finalize("error")
    BY <1>1, <1>4 DEF HandleData
  <2>2. told' = Append(told, "error") /\ finalized' = TRUE /\ registered' = FALSE
    BY <1>1, <1>4, <2>1 DEF Finalize
  <2>3. closed' = HasQueue /\ waiting' \in BOOLEAN /\ buffer' = buffer
    BY <1>1, <2>1 DEF Close, queueVars, HasQueue
  <2>4. aborted' = TRUE /\ accumulatedSize' \in 0 .. MaxResponse + 1
    BY <1>1, <1>4 DEF HandleData
  <2> QED
    BY <1>2, <1>4, <2>2, <2>3, <2>4 DEF HasQueue
<1>5. CASE registered /\ ~OverLimit
  <2>1. /\ told' = Append(told, "data") /\ accumulatedSize' = accumulatedSize + 1
        /\ UNCHANGED <<registered, finalized, aborted, queueVars>>
    BY <1>1, <1>5 DEF HandleData
  <2>2. accumulatedSize' \in 0 .. MaxResponse + 1
    BY <1>1, <1>5, <2>1
  <2> QED
    BY <1>1, <1>2, <1>5, <2>1, <2>2 DEF queueVars
<1> QED
  BY <1>1, <1>3, <1>4, <1>5

(* Metadata that arrives is accounted for.                                 *)
LEMMA DeliverKeeps ==
  ASSUME ConnectInv, ConnectTyped, NEW what \in Metadata, Deliver(what)
  PROVE  MetadataAccounted' /\ ConnectTyped'
<1>1. /\ meta' = meta \cup {what} /\ what \notin meta
      /\ UNCHANGED <<planVars, attemptIndex, running, replayVars, inboundDelivered,
                     aborted, queueVars, registered, finalized, accumulatedSize,
                     outVars, told>>
  BY DEF Deliver
<1>2. IsFinal' = IsFinal
  BY <1>1 DEF IsFinal, planVars
<1>3. MetadataAccounted'
  BY <1>1, <1>2, DeliverFacts DEF ConnectInv, MetadataAccounted, EntryLasts
<1>4. ConnectTyped'
  BY <1>1, DeliverFacts DEF ConnectTyped, Metadata, planVars, replayVars, queueVars, outVars
<1> QED
  BY <1>3, <1>4

(* The entry lasts as long as its attempt.                                 *)
LEMMA EntryLastsKept ==
  ASSUME ConnectInv, [Next]_vars PROVE EntryLasts'
<1>0. ConnectTyped
  BY ConnectTypes DEF ConnectInv
<1> USE ConnectAssumption
<1>1. ASSUME OnHeader PROVE EntryLasts'
  BY <1>0, <1>1
  DEF ConnectInv, ConnectTyped, EntryLasts, OnHeader, Deliver, planVars, heldVars,
      replayVars, queueVars, outVars
<1>2. ASSUME OnTrailer PROVE EntryLasts'
  BY <1>0, <1>2
  DEF ConnectInv, ConnectTyped, EntryLasts, OnTrailer, Deliver, planVars, heldVars,
      replayVars, queueVars, outVars, callVars
<1>3. ASSUME DrainMessage PROVE EntryLasts'
  <2>1. HandleData /\ running' = running
    BY <1>3 DEF DrainMessage
  <2> QED
    BY SMTT(40), <1>0, <2>1, DataFacts
    DEF ConnectInv, ConnectTyped, EntryLasts, WritesNumbered, OverLimit
<1>4. ASSUME Undecodable PROVE EntryLasts'
  BY <1>0, <1>4
  DEF ConnectInv, ConnectTyped, EntryLasts, Undecodable, FlushHeld, Finalize, planVars,
      replayVars, queueVars, outVars
<1>5. ASSUME DrainEnd PROVE EntryLasts'
  BY <1>0, <1>5
  DEF ConnectInv, ConnectTyped, EntryLasts, DrainEnd, FlushHeld, Finalize, planVars,
      heldVars, replayVars, queueVars, outVars, callVars
<1>6. ASSUME Response PROVE EntryLasts'
  BY <1>0, <1>6
  DEF ConnectInv, ConnectTyped, EntryLasts, Response, FlushHeld, HandleData, OverLimit,
      Finalize, Close, HasQueue, planVars, heldVars, replayVars, queueVars, outVars,
      callVars
<1>7. ASSUME NEW rejected \in BOOLEAN, Fail(rejected) PROVE EntryLasts'
  BY <1>0, <1>7
  DEF ConnectInv, ConnectTyped, EntryLasts, Fail, FinishErr, Cancelled, CanRetry,
      StartAttempt, FlushHeld, Finalize, HasQueue, planVars, heldVars, replayVars,
      queueVars, outVars, callVars
<1>8. ASSUME Pull PROVE EntryLasts'
  BY <1>0, <1>8
  DEF ConnectInv, ConnectTyped, EntryLasts, Pull, HasQueue, planVars, heldVars,
      replayVars, queueVars, outVars, callVars
<1>9. ASSUME PullEnd PROVE EntryLasts'
  BY <1>0, <1>9
  DEF ConnectInv, ConnectTyped, EntryLasts, PullEnd, HasQueue, planVars, heldVars,
      replayVars, queueVars, outVars, callVars
<1>10. ASSUME NEW m \in Payload, Write(m) PROVE EntryLasts'
  BY <1>0, <1>10
  DEF ConnectInv, ConnectTyped, EntryLasts, Write, Push, HasQueue, planVars, heldVars,
      replayVars, queueVars, outVars, callVars
<1>11. ASSUME End PROVE EntryLasts'
  BY <1>0, <1>11
  DEF ConnectInv, ConnectTyped, EntryLasts, End, Close, HasQueue, planVars, heldVars,
      replayVars, queueVars, outVars, callVars
<1>12. ASSUME Cancel PROVE EntryLasts'
  BY <1>0, <1>12
  DEF ConnectInv, ConnectTyped, EntryLasts, Cancel, Close, HasQueue, planVars, heldVars,
      replayVars, queueVars, outVars, callVars
<1>13. CASE UNCHANGED vars
  BY <1>0, <1>13
  DEF ConnectInv, ConnectTyped, EntryLasts, vars, planVars, heldVars, replayVars,
      queueVars, outVars, callVars
<1> QED
  BY <1>1, <1>2, <1>3, <1>4, <1>5, <1>6, <1>7, <1>8, <1>9, <1>10, <1>11, <1>12, <1>13 DEF Next

(* What the attempt delivered is captured or held back.                    *)
LEMMA MetadataAccountedKept ==
  ASSUME ConnectInv, [Next]_vars PROVE MetadataAccounted'
<1>0. ConnectTyped
  BY ConnectTypes DEF ConnectInv
<1> USE ConnectAssumption
<1>1. ASSUME OnHeader PROVE MetadataAccounted'
  BY <1>0, <1>1, DeliverKeeps DEF OnHeader, Metadata
<1>2. ASSUME OnTrailer PROVE MetadataAccounted'
  BY <1>0, <1>2, DeliverKeeps DEF OnTrailer, Metadata
<1>3. ASSUME DrainMessage PROVE MetadataAccounted'
  BY <1>0, <1>3
  DEF ConnectInv, ConnectTyped, MetadataAccounted, EntryLasts, Captured, Held, IsFinal,
      DrainMessage, FlushHeld, HandleData, OverLimit, Finalize, Close, HasQueue, planVars,
      replayVars, queueVars, outVars
<1>4. ASSUME Undecodable PROVE MetadataAccounted'
  BY <1>0, <1>4
  DEF ConnectInv, ConnectTyped, MetadataAccounted, EntryLasts, Captured, Held, IsFinal,
      Undecodable, FlushHeld, Finalize, planVars, heldVars, replayVars, queueVars,
      outVars, callVars
<1>5. ASSUME DrainEnd PROVE MetadataAccounted'
  BY <1>0, <1>5
  DEF ConnectInv, ConnectTyped, MetadataAccounted, EntryLasts, Captured, Held, IsFinal,
      DrainEnd, FlushHeld, Finalize, planVars, heldVars, replayVars, queueVars, outVars,
      callVars
<1>6. ASSUME Response PROVE MetadataAccounted'
  BY <1>0, <1>6
  DEF ConnectInv, ConnectTyped, MetadataAccounted, EntryLasts, Captured, Held, IsFinal,
      Response, FlushHeld, HandleData, OverLimit, Finalize, Close, HasQueue, planVars,
      heldVars, replayVars, queueVars, outVars, callVars
<1>7. ASSUME NEW rejected \in BOOLEAN, Fail(rejected) PROVE MetadataAccounted'
  <2>1. CASE aborted
    BY <1>0, <1>7, <2>1
    DEF Fail, FinishErr, Cancelled, ConnectInv, ConnectTyped, EntryLasts,
        MetadataAccounted, IsFinal, Held, heldVars, planVars
  <2>2. CASE ~aborted /\ CanRetry(rejected)
    <3>1. StartAttempt /\ UNCHANGED callVars /\ UNCHANGED inboundDelivered
      BY <1>7, <2>2 DEF Fail, FinishErr
    <3>2. /\ registered /\ ~inboundDelivered /\ told = <<>> /\ meta \ Held = {}
          /\ captured = {}
      <4>1. registered /\ ~inboundDelivered /\ ~IsFinal
        <5>1. running /\ ~aborted /\ attemptIndex < attempts /\ ~inboundDelivered
          BY <1>7, <2>2 DEF Fail, CanRetry
        <5>2. registered
          BY <5>1 DEF ConnectInv, EntryLasts
        <5>3. attemptIndex # attempts
          BY <1>0, <5>1 DEF ConnectTyped
        <5> QED
          BY <5>1, <5>2, <5>3 DEF IsFinal
      <4>2. told = <<>> /\ Held = meta /\ captured = {attemptIndex} \X (meta \ Held)
        BY <4>1 DEF ConnectInv, MetadataAccounted
      <4> QED
        BY <4>1, <4>2
    <3>3. Held' = {} /\ meta' = {}
      BY <3>1 DEF StartAttempt, Held
    <3> QED
      BY <3>1, <3>2, <3>3 DEF MetadataAccounted, callVars
  <2>3. CASE ~aborted /\ ~CanRetry(rejected)
    <3>1. FlushHeld /\ Finalize("error") /\ UNCHANGED <<meta, attemptIndex>>
      BY <1>7, <2>3 DEF Fail, FinishErr
    <3>2. ~registered' /\ Held' = {}
      BY <1>0, <3>1, FlushFacts, FinalizeFacts DEF ConnectInv
    <3> QED
      BY <3>2 DEF MetadataAccounted
  <2> QED
    BY <2>1, <2>2, <2>3
<1>8. ASSUME Pull PROVE MetadataAccounted'
  BY <1>0, <1>8
  DEF ConnectInv, ConnectTyped, MetadataAccounted, EntryLasts, Captured, Held, IsFinal,
      Pull, HasQueue, planVars, heldVars, replayVars, callVars
<1>9. ASSUME PullEnd PROVE MetadataAccounted'
  BY <1>0, <1>9
  DEF ConnectInv, ConnectTyped, MetadataAccounted, EntryLasts, Captured, Held, IsFinal,
      PullEnd, HasQueue, planVars, heldVars, replayVars, queueVars, outVars, callVars
<1>10. ASSUME NEW m \in Payload, Write(m) PROVE MetadataAccounted'
  BY <1>0, <1>10
  DEF ConnectInv, ConnectTyped, MetadataAccounted, EntryLasts, Captured, Held, IsFinal,
      Write, Push, HasQueue, planVars, heldVars, replayVars, queueVars, outVars, callVars
<1>11. ASSUME End PROVE MetadataAccounted'
  BY <1>0, <1>11
  DEF ConnectInv, ConnectTyped, MetadataAccounted, EntryLasts, Captured, Held, IsFinal,
      End, Close, HasQueue, planVars, heldVars, replayVars, queueVars, outVars, callVars
<1>12. ASSUME Cancel PROVE MetadataAccounted'
  BY <1>0, <1>12
  DEF ConnectInv, ConnectTyped, MetadataAccounted, EntryLasts, Captured, Held, IsFinal,
      Cancel, Close, HasQueue, planVars, heldVars, replayVars, queueVars, outVars,
      callVars
<1>13. CASE UNCHANGED vars
  BY <1>0, <1>13
  DEF ConnectInv, ConnectTyped, MetadataAccounted, EntryLasts, Captured, Held, IsFinal,
      vars, planVars, heldVars, replayVars, queueVars, outVars, callVars
<1> QED
  BY <1>1, <1>2, <1>3, <1>4, <1>5, <1>6, <1>7, <1>8, <1>9, <1>10, <1>11, <1>12, <1>13 DEF Next

(* A registered call has been told of messages only.                       *)
LEMMA ToldInOrderKept ==
  ASSUME ConnectInv, [Next]_vars PROVE ToldInOrder'
<1>0. ConnectTyped
  BY ConnectTypes DEF ConnectInv
<1> USE ConnectAssumption
<1>1. ASSUME OnHeader PROVE ToldInOrder'
  BY <1>0, <1>1
  DEF ConnectInv, ConnectTyped, ToldInOrder, EntryLasts, MetadataAccounted, OnHeader,
      Deliver, planVars, heldVars, replayVars, queueVars, outVars
<1>2. ASSUME OnTrailer PROVE ToldInOrder'
  BY <1>0, <1>2
  DEF ConnectInv, ConnectTyped, ToldInOrder, EntryLasts, MetadataAccounted, OnTrailer,
      Deliver, planVars, heldVars, replayVars, queueVars, outVars, callVars
<1>3. ASSUME DrainMessage PROVE ToldInOrder'
  <2>1. HandleData
    BY <1>3 DEF DrainMessage
  <2>2. CASE ~registered'
    BY <2>2 DEF ToldInOrder
  <2>3. CASE told' = Append(told, "data") /\ registered
    <3>1. \A i \in DOMAIN told : told[i] = "data"
      BY <2>3 DEF ConnectInv, ToldInOrder
    <3>2. /\ Len(told) \in Nat /\ DOMAIN told = 1 .. Len(told)
          /\ DOMAIN told' = 1 .. Len(told) + 1
          /\ \A i \in 1 .. Len(told) + 1 :
                told'[i] = IF i = Len(told) + 1 THEN "data" ELSE told[i]
      BY <1>0, <2>3 DEF ConnectTyped
    <3> QED
      BY <3>1, <3>2 DEF ToldInOrder
  <2> QED
    BY <1>0, <2>1, <2>2, <2>3, DataFacts DEF ConnectInv, WritesNumbered
<1>4. ASSUME Undecodable PROVE ToldInOrder'
  BY <1>0, <1>4
  DEF ConnectInv, ConnectTyped, ToldInOrder, EntryLasts, MetadataAccounted, Undecodable,
      FlushHeld, Finalize, planVars, replayVars, queueVars, outVars
<1>5. ASSUME DrainEnd PROVE ToldInOrder'
  BY <1>0, <1>5
  DEF ConnectInv, ConnectTyped, ToldInOrder, EntryLasts, MetadataAccounted, DrainEnd,
      FlushHeld, Finalize, planVars, heldVars, replayVars, queueVars, outVars, callVars
<1>6. ASSUME Response PROVE ToldInOrder'
  BY <1>0, <1>6
  DEF ConnectInv, ConnectTyped, ToldInOrder, EntryLasts, MetadataAccounted, Response,
      FlushHeld, HandleData, OverLimit, Finalize, Close, HasQueue, planVars, heldVars,
      replayVars, queueVars, outVars, callVars
<1>7. ASSUME NEW rejected \in BOOLEAN, Fail(rejected) PROVE ToldInOrder'
  BY <1>0, <1>7
  DEF ConnectInv, ConnectTyped, ToldInOrder, EntryLasts, MetadataAccounted, Fail,
      FinishErr, Cancelled, CanRetry, StartAttempt, FlushHeld, Finalize, HasQueue,
      planVars, heldVars, replayVars, queueVars, outVars, callVars
<1>8. ASSUME Pull PROVE ToldInOrder'
  BY <1>0, <1>8
  DEF ConnectInv, ConnectTyped, ToldInOrder, EntryLasts, MetadataAccounted, Pull,
      HasQueue, planVars, heldVars, replayVars, queueVars, outVars, callVars
<1>9. ASSUME PullEnd PROVE ToldInOrder'
  BY <1>0, <1>9
  DEF ConnectInv, ConnectTyped, ToldInOrder, EntryLasts, MetadataAccounted, PullEnd,
      HasQueue, planVars, heldVars, replayVars, queueVars, outVars, callVars
<1>10. ASSUME NEW m \in Payload, Write(m) PROVE ToldInOrder'
  BY <1>0, <1>10
  DEF ConnectInv, ConnectTyped, ToldInOrder, EntryLasts, MetadataAccounted, Write, Push,
      HasQueue, planVars, heldVars, replayVars, queueVars, outVars, callVars
<1>11. ASSUME End PROVE ToldInOrder'
  BY <1>0, <1>11
  DEF ConnectInv, ConnectTyped, ToldInOrder, EntryLasts, MetadataAccounted, End, Close,
      HasQueue, planVars, heldVars, replayVars, queueVars, outVars, callVars
<1>12. ASSUME Cancel PROVE ToldInOrder'
  BY <1>0, <1>12
  DEF ConnectInv, ConnectTyped, ToldInOrder, EntryLasts, MetadataAccounted, Cancel, Close,
      HasQueue, planVars, heldVars, replayVars, queueVars, outVars, callVars
<1>13. CASE UNCHANGED vars
  BY <1>0, <1>13
  DEF ConnectInv, ConnectTyped, ToldInOrder, EntryLasts, MetadataAccounted, vars,
      planVars, heldVars, replayVars, queueVars, outVars, callVars
<1> QED
  BY <1>1, <1>2, <1>3, <1>4, <1>5, <1>6, <1>7, <1>8, <1>9, <1>10, <1>11, <1>12, <1>13 DEF Next

(* Writes keep their numbers in the queue, on the wire and in the replay.  *)
LEMMA WritesNumberedKept ==
  ASSUME ConnectInv, [Next]_vars PROVE WritesNumbered'
<1>0. ConnectTyped
  BY ConnectTypes DEF ConnectInv
<1> USE ConnectAssumption
<1>1. ASSUME OnHeader PROVE WritesNumbered'
  BY <1>0, <1>1
  DEF ConnectInv, ConnectTyped, WritesNumbered, QueueKeeps, EntryLasts, Numbered,
      HasQueue, OnHeader, Deliver, planVars, heldVars, replayVars, queueVars, outVars
<1>2. ASSUME OnTrailer PROVE WritesNumbered'
  BY <1>0, <1>2
  DEF ConnectInv, ConnectTyped, WritesNumbered, QueueKeeps, EntryLasts, Numbered,
      HasQueue, OnTrailer, Deliver, planVars, heldVars, replayVars, queueVars, outVars,
      callVars
<1>3. ASSUME DrainMessage PROVE WritesNumbered'
  BY <1>0, <1>3
  DEF ConnectInv, ConnectTyped, WritesNumbered, QueueKeeps, EntryLasts, Numbered,
      HasQueue, DrainMessage, FlushHeld, HandleData, OverLimit, Finalize, Close, planVars,
      heldVars, replayVars, queueVars, outVars, callVars
<1>4. ASSUME Undecodable PROVE WritesNumbered'
  BY <1>0, <1>4
  DEF ConnectInv, ConnectTyped, WritesNumbered, QueueKeeps, EntryLasts, Numbered,
      HasQueue, Undecodable, FlushHeld, Finalize, planVars, heldVars, replayVars,
      queueVars, outVars, callVars
<1>5. ASSUME DrainEnd PROVE WritesNumbered'
  BY <1>0, <1>5
  DEF ConnectInv, ConnectTyped, WritesNumbered, QueueKeeps, EntryLasts, Numbered,
      HasQueue, DrainEnd, FlushHeld, Finalize, planVars, heldVars, replayVars, queueVars,
      outVars, callVars
<1>6. ASSUME Response PROVE WritesNumbered'
  BY <1>0, <1>6
  DEF ConnectInv, ConnectTyped, WritesNumbered, QueueKeeps, EntryLasts, Numbered,
      HasQueue, Response, FlushHeld, HandleData, OverLimit, Finalize, Close, planVars,
      heldVars, replayVars, queueVars, outVars, callVars
<1>7. ASSUME NEW rejected \in BOOLEAN, Fail(rejected) PROVE WritesNumbered'
  BY <1>0, <1>7
  DEF ConnectInv, ConnectTyped, WritesNumbered, QueueKeeps, EntryLasts, Numbered,
      HasQueue, Fail, FinishErr, Cancelled, CanRetry, StartAttempt, FlushHeld, Finalize,
      planVars, heldVars, replayVars, queueVars, outVars, callVars
<1>8. ASSUME Pull PROVE WritesNumbered'
  <2>1. /\ HasQueue /\ buffer # <<>>
        /\ wire' = Append(wire, Head(buffer)) /\ buffer' = Tail(buffer)
        /\ UNCHANGED <<planVars, replayVars, written, endedAt>>
    BY <1>8 DEF Pull
  <2>2. HasQueue'
    BY <2>1 DEF HasQueue, planVars
  <2>3. Len(wire') = Len(wire) + 1 /\ Len(buffer') = Len(buffer) - 1 /\ Len(buffer) \in Nat
    BY <1>0, <2>1 DEF ConnectTyped
  <2>4. \A i \in DOMAIN buffer' : buffer'[i] = Len(wire') + i
    <3>1. \A i \in 1 .. Len(buffer) - 1 : Tail(buffer)[i] = buffer[i + 1]
      BY <1>0, <2>1 DEF ConnectTyped
    <3>2. DOMAIN buffer' = 1 .. Len(buffer) - 1 /\ DOMAIN buffer = 1 .. Len(buffer)
      BY <1>0, <2>1, <2>3 DEF ConnectTyped
    <3>3. Len(wire) \in Nat /\ \A i \in DOMAIN buffer : buffer[i] = Len(wire) + i
      BY <1>0 DEF ConnectInv, ConnectTyped, WritesNumbered
    <3> QED
      BY <2>1, <2>3, <3>1, <3>2, <3>3
  <2>5. Len(wire') + Len(buffer') <= Len(written')
    BY <1>0, <2>1, <2>3 DEF ConnectInv, ConnectTyped, WritesNumbered
  <2> QED
    BY <2>1, <2>2, <2>4, <2>5 DEF ConnectInv, WritesNumbered, Numbered, replayVars
<1>9. ASSUME PullEnd PROVE WritesNumbered'
  BY <1>0, <1>9
  DEF ConnectInv, ConnectTyped, WritesNumbered, QueueKeeps, EntryLasts, Numbered,
      HasQueue, PullEnd, planVars, heldVars, replayVars, callVars
<1>10. ASSUME NEW m \in Payload, Write(m) PROVE WritesNumbered'
  <2>1. /\ registered /\ ~aborted /\ m = Len(written) + 1
        /\ written' = Append(written, m) /\ Push(m)
        /\ UNCHANGED <<planVars, ended, endedAt, wire, peerClosed>>
    BY <1>0, <1>10 DEF Write, ConnectInv, ConnectTyped, EntryLasts
  <2>2. /\ Len(written') = Len(written) + 1 /\ Numbered(written')
    BY <1>0, <2>1 DEF ConnectInv, ConnectTyped, WritesNumbered, Numbered
  <2>3. IF replayOverflow' THEN Len(replay') >= MaxReplay ELSE replay' = written'
    <3>1. CASE Len(replay) < MaxReplay
      <4>1. replay' = Append(replay, m) /\ replayOverflow' = replayOverflow
        BY <1>10, <3>1 DEF Write
      <4>2. CASE replayOverflow
        BY <1>0, <3>1, <4>2, ConnectAssumption DEF ConnectInv, ConnectTyped, WritesNumbered
      <4>3. CASE ~replayOverflow
        BY <2>1, <2>2, <4>1, <4>3 DEF ConnectInv, WritesNumbered
      <4> QED
        BY <4>2, <4>3
    <3>2. CASE ~(Len(replay) < MaxReplay)
      <4>1. replay' = replay /\ replayOverflow'
        BY <1>10, <3>2 DEF Write
      <4> QED
        BY <1>0, <3>2, <4>1, ConnectAssumption DEF ConnectTyped
    <3> QED
      BY <3>1, <3>2
  <2>4. /\ \A i \in DOMAIN buffer' : buffer'[i] = Len(wire') + i
        /\ Len(wire') + Len(buffer') <= Len(written')
        /\ closed' = closed /\ (~HasQueue => buffer' = buffer)
    <3>1. CASE HasQueue /\ ~closed
      <4>1. buffer' = Append(buffer, m) /\ closed' = closed
        BY <2>1, <3>1 DEF Push
      <4>2. Len(wire) + Len(buffer) = Len(written)
        BY <1>0, <2>1, <3>1 DEF ConnectInv, ConnectTyped, QueueKeeps
      <4>3. Len(buffer') = Len(buffer) + 1
        BY <1>0, <4>1 DEF ConnectTyped
      <4> QED
        BY SMTT(40), <1>0, <2>1, <2>2, <3>1, <4>1, <4>2, <4>3
        DEF ConnectInv, ConnectTyped, WritesNumbered
    <3>2. CASE ~(HasQueue /\ ~closed)
      BY <1>0, <2>1, <2>2, <3>2 DEF Push, queueVars, ConnectInv, ConnectTyped, WritesNumbered
    <3> QED
      BY <3>1, <3>2
  <2>5. HasQueue' = HasQueue
    BY <2>1 DEF HasQueue, planVars
  <2>6. ended => endedAt' <= Len(written')
    BY <1>0, <2>1, <2>2, ConnectAssumption DEF ConnectInv, ConnectTyped, WritesNumbered
  <2> QED
    BY <2>1, <2>2, <2>3, <2>4, <2>5, <2>6 DEF ConnectInv, WritesNumbered
<1>11. ASSUME End PROVE WritesNumbered'
  <2>1. /\ Close /\ ended' = TRUE
        /\ endedAt' = (IF endedAt = NotEnded THEN Len(written) ELSE endedAt)
        /\ UNCHANGED <<planVars, replay, replayOverflow, written, wire, peerClosed>>
    BY <1>11 DEF End
  <2>2. endedAt' # NotEnded /\ endedAt' <= Len(written)
    BY <1>0, <2>1, ConnectAssumption DEF ConnectInv, ConnectTyped, WritesNumbered
  <2>3. buffer' = buffer /\ HasQueue' = HasQueue /\ (~HasQueue => closed' = closed)
    BY <2>1 DEF Close, queueVars, HasQueue, planVars
  <2> QED
    <3>1. (ended' <=> endedAt' # NotEnded) /\ endedAt' <= Len(written')
      BY <2>1, <2>2
    <3>2. \A i \in DOMAIN buffer' : buffer'[i] = Len(wire') + i
      BY <2>1, <2>3 DEF ConnectInv, WritesNumbered
    <3>3. Numbered(written') /\ IF replayOverflow' THEN Len(replay') >= MaxReplay
                               ELSE replay' = written'
      BY <2>1 DEF ConnectInv, WritesNumbered
    <3>4. ~HasQueue' => wire' = <<>> /\ buffer' = <<>> /\ ~closed' /\ ~peerClosed'
      BY <2>1, <2>3 DEF ConnectInv, WritesNumbered
    <3>5. Len(wire') + Len(buffer') <= Len(written')
      BY <2>1, <2>3 DEF ConnectInv, WritesNumbered
    <3> QED
      BY <3>1, <3>2, <3>3, <3>4, <3>5 DEF WritesNumbered, Numbered
<1>12. ASSUME Cancel PROVE WritesNumbered'
  BY <1>0, <1>12
  DEF ConnectInv, ConnectTyped, WritesNumbered, QueueKeeps, EntryLasts, Numbered,
      HasQueue, Cancel, Close, planVars, heldVars, replayVars, queueVars, outVars
<1>13. CASE UNCHANGED vars
  BY <1>0, <1>13
  DEF ConnectInv, ConnectTyped, WritesNumbered, QueueKeeps, EntryLasts, Numbered,
      HasQueue, vars, planVars, heldVars, replayVars, queueVars, outVars, callVars
<1> QED
  BY <1>1, <1>2, <1>3, <1>4, <1>5, <1>6, <1>7, <1>8, <1>9, <1>10, <1>11, <1>12, <1>13 DEF Next

(* The queue of a fallback holds what the first attempt may have consumed. *)
LEMMA QueueKeepsKept ==
  ASSUME ConnectInv, [Next]_vars PROVE QueueKeeps'
<1>0. ConnectTyped
  BY ConnectTypes DEF ConnectInv
<1> USE ConnectAssumption
<1>1. ASSUME OnHeader PROVE QueueKeeps'
  BY <1>0, <1>1
  DEF ConnectInv, ConnectTyped, QueueKeeps, WritesNumbered, EntryLasts, HasQueue,
      OnHeader, Deliver, planVars, heldVars, replayVars, queueVars, outVars
<1>2. ASSUME OnTrailer PROVE QueueKeeps'
  BY <1>0, <1>2
  DEF ConnectInv, ConnectTyped, QueueKeeps, WritesNumbered, EntryLasts, HasQueue,
      OnTrailer, Deliver, planVars, heldVars, replayVars, queueVars, outVars, callVars
<1>3. ASSUME DrainMessage PROVE QueueKeeps'
  BY <1>0, <1>3
  DEF ConnectInv, ConnectTyped, QueueKeeps, WritesNumbered, EntryLasts, HasQueue,
      DrainMessage, FlushHeld, HandleData, OverLimit, Finalize, Close, planVars, heldVars,
      replayVars, queueVars, outVars, callVars
<1>4. ASSUME Undecodable PROVE QueueKeeps'
  BY <1>0, <1>4
  DEF ConnectInv, ConnectTyped, QueueKeeps, WritesNumbered, EntryLasts, HasQueue,
      Undecodable, FlushHeld, Finalize, planVars, heldVars, replayVars, queueVars,
      outVars, callVars
<1>5. ASSUME DrainEnd PROVE QueueKeeps'
  BY <1>0, <1>5
  DEF ConnectInv, ConnectTyped, QueueKeeps, WritesNumbered, EntryLasts, HasQueue,
      DrainEnd, FlushHeld, Finalize, planVars, heldVars, replayVars, queueVars, outVars,
      callVars
<1>6. ASSUME Response PROVE QueueKeeps'
  BY <1>0, <1>6
  DEF ConnectInv, ConnectTyped, QueueKeeps, WritesNumbered, EntryLasts, HasQueue,
      Response, FlushHeld, HandleData, OverLimit, Finalize, Close, planVars, heldVars,
      replayVars, queueVars, outVars, callVars
<1>7. ASSUME NEW rejected \in BOOLEAN, Fail(rejected) PROVE QueueKeeps'
  BY SMTT(40), <1>0, <1>7
  DEF ConnectInv, ConnectTyped, QueueKeeps, WritesNumbered, EntryLasts, HasQueue, Fail,
      FinishErr, Cancelled, CanRetry, StartAttempt, FlushHeld, Finalize, planVars,
      heldVars, replayVars, queueVars, outVars, callVars
<1>8. ASSUME Pull PROVE QueueKeeps'
  BY <1>0, <1>8
  DEF ConnectInv, ConnectTyped, QueueKeeps, WritesNumbered, EntryLasts, HasQueue, Pull,
      planVars, heldVars, replayVars, queueVars, outVars, callVars
<1>9. ASSUME PullEnd PROVE QueueKeeps'
  BY <1>0, <1>9
  DEF ConnectInv, ConnectTyped, QueueKeeps, WritesNumbered, EntryLasts, HasQueue, PullEnd,
      planVars, heldVars, replayVars, queueVars, outVars, callVars
<1>10. ASSUME NEW m \in Payload, Write(m) PROVE QueueKeeps'
  <2>1. /\ registered /\ ~aborted /\ written' = Append(written, m) /\ Push(m)
        /\ UNCHANGED <<planVars, aborted, ended, endedAt, wire, peerClosed>>
    BY <1>0, <1>10 DEF Write, ConnectInv, ConnectTyped, EntryLasts
  <2>2. Len(written') = Len(written) + 1
    BY <1>0, <2>1 DEF ConnectTyped
  <2>3. HasQueue' = HasQueue
    BY <2>1 DEF HasQueue, planVars
  <2>4. CASE HasQueue /\ ~closed
    <3>1. buffer' = Append(buffer, m) /\ closed' = closed /\ Len(buffer') = Len(buffer) + 1
      BY <1>0, <2>1, <2>4 DEF Push, ConnectTyped
    <3>2. /\ Len(buffer) \in Nat /\ Len(wire) \in Nat /\ Len(written) \in Nat
          /\ closed <=> ended
      BY <1>0, <2>1, <2>4 DEF ConnectInv, ConnectTyped, QueueKeeps
    <3>3. Len(wire) + Len(buffer) = Len(written) /\ ~peerClosed /\ ~ended
      BY <2>1, <2>4, <3>2 DEF ConnectInv, QueueKeeps
    <3>4. Len(wire') + Len(buffer') = Len(written')
      <4>1. Len(wire') = Len(wire) /\ Len(buffer') = Len(buffer) + 1
        BY <2>1, <3>1
      <4> QED
        BY <2>2, <3>2, <3>3, <4>1
    <3> QED
      BY <2>1, <2>4, <3>1, <3>2, <3>3, <3>4 DEF ConnectInv, QueueKeeps
  <2>5. CASE HasQueue /\ closed
    BY <1>0, <2>1, <2>3, <2>5 DEF Push, queueVars, ConnectInv, ConnectTyped, QueueKeeps
  <2>6. CASE ~HasQueue
    BY <2>3, <2>6 DEF QueueKeeps
  <2> QED
    BY <1>0, <2>4, <2>5, <2>6 DEF ConnectTyped
<1>11. ASSUME End PROVE QueueKeeps'
  BY <1>0, <1>11
  DEF ConnectInv, ConnectTyped, QueueKeeps, WritesNumbered, EntryLasts, HasQueue, End,
      Close, planVars, heldVars, queueVars, callVars
<1>12. ASSUME Cancel PROVE QueueKeeps'
  BY <1>0, <1>12
  DEF ConnectInv, ConnectTyped, QueueKeeps, WritesNumbered, EntryLasts, HasQueue, Cancel,
      Close, planVars, heldVars, replayVars, queueVars, outVars, callVars
<1>13. CASE UNCHANGED vars
  BY <1>0, <1>13
  DEF ConnectInv, ConnectTyped, QueueKeeps, WritesNumbered, EntryLasts, HasQueue, vars,
      planVars, heldVars, replayVars, queueVars, outVars, callVars
<1> QED
  BY <1>1, <1>2, <1>3, <1>4, <1>5, <1>6, <1>7, <1>8, <1>9, <1>10, <1>11, <1>12, <1>13 DEF Next

(* Every step of grpc-connect.ts keeps the types.                          *)
LEMMA ConnectTypedKept ==
  ASSUME ConnectInv, [Next]_vars PROVE ConnectTyped'
<1>0. ConnectTyped
  BY ConnectTypes DEF ConnectInv
<1> USE ConnectAssumption
<1>1. ASSUME OnHeader PROVE ConnectTyped'
  BY <1>0, <1>1, DeliverKeeps DEF OnHeader, Metadata
<1>2. ASSUME OnTrailer PROVE ConnectTyped'
  BY <1>0, <1>2, DeliverKeeps DEF OnTrailer, Metadata
<1>3. ASSUME DrainMessage PROVE ConnectTyped'
  <2>1. HandleData /\ FlushHeld /\ inboundDelivered' = TRUE
        /\ UNCHANGED <<planVars, attemptIndex, running, meta, replayVars, outVars>>
    BY <1>3 DEF DrainMessage
  <2> QED
    BY <1>0, <2>1, DataFacts, FlushFacts
    DEF ConnectInv, ConnectTyped, WritesNumbered, planVars, replayVars, outVars
<1>4. ASSUME Undecodable PROVE ConnectTyped'
  <2>1. /\ FlushHeld /\ inboundDelivered' = TRUE /\ running' = FALSE
        /\ UNCHANGED <<planVars, attemptIndex, meta, replayVars, aborted, queueVars,
                       accumulatedSize, outVars>>
    BY <1>4 DEF Undecodable
  <2>2. /\ told' \in Seq(Events)
        /\ finalized' \in BOOLEAN /\ registered' = FALSE
    BY <1>0, <1>4, FinalizeFacts DEF Undecodable, ConnectInv, ConnectTyped
  <2> QED
    BY <1>0, <2>1, <2>2, FlushFacts DEF ConnectTyped, planVars, replayVars, queueVars, outVars
<1>5. ASSUME DrainEnd PROVE ConnectTyped'
  <2>1. /\ FlushHeld /\ running' = FALSE
        /\ UNCHANGED <<planVars, attemptIndex, meta, replayVars, inboundDelivered, aborted,
                       queueVars, accumulatedSize, outVars>>
        /\ Finalize("status")
    BY <1>5 DEF DrainEnd
  <2> QED
    BY ZenonT(40), <1>0, <2>1, FlushFacts, FinalizeFacts
    DEF ConnectInv, ConnectTyped, planVars, replayVars, queueVars, outVars
<1>6. ASSUME Response PROVE ConnectTyped'
  <2>1. /\ FlushHeld /\ inboundDelivered' = TRUE /\ running' = FALSE
        /\ UNCHANGED <<planVars, attemptIndex, meta, replayVars, outVars>>
    BY <1>6 DEF Response
  <2>2. CASE finalized \/ ~registered \/ OverLimit
    BY <1>0, <1>6, <2>1, <2>2, DataFacts, FlushFacts
    DEF Response, ConnectInv, ConnectTyped, WritesNumbered, planVars, replayVars, outVars
  <2>3. CASE ~(finalized \/ ~registered \/ OverLimit)
    <3>1. /\ accumulatedSize' = accumulatedSize + 1 /\ told' = told \o <<"data", "status">>
          /\ finalized' = TRUE /\ registered' = FALSE /\ UNCHANGED <<aborted, queueVars>>
      BY <1>6, <2>3 DEF Response
    <3>2. accumulatedSize' \in 0 .. MaxResponse + 1
      BY <1>0, <2>3, <3>1 DEF ConnectTyped, OverLimit
    <3>3. told' \in Seq(Events)
      BY <1>0, <3>1 DEF ConnectTyped, Events
    <3> QED
      BY <1>0, <2>1, <3>1, <3>2, <3>3, FlushFacts
      DEF ConnectTyped, planVars, replayVars, queueVars, outVars
  <2> QED
    BY <2>2, <2>3
<1>7. ASSUME NEW rejected \in BOOLEAN, Fail(rejected) PROVE ConnectTyped'
  <2>1. /\ running /\ FinishErr(rejected)
        /\ UNCHANGED <<planVars, replayVars, inboundDelivered, aborted, written, endedAt>>
    BY <1>7 DEF Fail
  <2>2. CASE aborted
    <3>1. Cancelled
      BY <2>1, <2>2 DEF FinishErr
    <3> QED
      BY ZenonT(40), <1>0, <2>1, <3>1
      DEF Cancelled, ConnectTyped, planVars, heldVars, replayVars, queueVars
  <2>3. CASE ~aborted /\ CanRetry(rejected)
    <3>1. StartAttempt /\ UNCHANGED callVars /\ attemptIndex < attempts
      BY <2>1, <2>3 DEF FinishErr, CanRetry
    <3>2. attemptIndex' \in 1 .. attempts'
      BY <1>0, <2>1, <3>1 DEF StartAttempt, ConnectTyped, planVars
    <3>3. buffer' \in Seq(Payload) /\ wire' \in Seq(Payload)
      BY <1>0, <3>1 DEF StartAttempt, ConnectTyped
    <3>4. /\ running' = TRUE /\ meta' = {} /\ heldHeaders' = FALSE /\ heldTrailers' = FALSE
          /\ closed' \in BOOLEAN /\ waiting' = FALSE /\ peerClosed' = FALSE
      BY <3>1 DEF StartAttempt
    <3> QED
      BY <1>0, <2>1, <3>1, <3>2, <3>3, <3>4 DEF ConnectTyped, planVars, replayVars, callVars
  <2>4. CASE ~aborted /\ ~CanRetry(rejected)
    <3>1. /\ running' = FALSE /\ FlushHeld /\ Finalize("error")
          /\ UNCHANGED <<accumulatedSize, queueVars, attemptIndex, meta, wire, peerClosed>>
      BY <2>1, <2>4 DEF FinishErr
    <3> QED
      BY ZenonT(40), <1>0, <2>1, <3>1, FlushFacts, FinalizeFacts
      DEF ConnectInv, ConnectTyped, planVars, replayVars, queueVars
  <2> QED
    BY <2>2, <2>3, <2>4
<1>8. ASSUME Pull PROVE ConnectTyped'
  <2>1. /\ buffer # <<>> /\ wire' = Append(wire, Head(buffer)) /\ buffer' = Tail(buffer)
        /\ UNCHANGED <<planVars, attemptIndex, running, meta, heldVars, replayVars,
                       inboundDelivered, aborted, closed, waiting, callVars, written,
                       endedAt, peerClosed>>
    BY <1>8 DEF Pull
  <2>2. wire' \in Seq(Payload) /\ buffer' \in Seq(Payload)
    BY <1>0, <2>1 DEF ConnectTyped
  <2> QED
    BY <1>0, <2>1, <2>2 DEF ConnectTyped, planVars, heldVars, replayVars, callVars
<1>9. ASSUME PullEnd PROVE ConnectTyped'
  BY <1>0, <1>9
  DEF ConnectInv, ConnectTyped, EntryLasts, Captured, Held, Payload, PullEnd, HasQueue,
      planVars, heldVars, replayVars, callVars
<1>10. ASSUME NEW m \in Payload, Write(m) PROVE ConnectTyped'
  <2>1. /\ written' = Append(written, m) /\ Push(m)
        /\ UNCHANGED <<planVars, attemptIndex, running, meta, heldVars, ended,
                       inboundDelivered, aborted, callVars, endedAt, wire, peerClosed>>
    BY <1>10 DEF Write
  <2>2. replay' \in Seq(Payload) /\ replayOverflow' \in BOOLEAN
    <3>1. Append(replay, m) \in Seq(Payload) /\ replay \in Seq(Payload)
          /\ replayOverflow \in BOOLEAN
      BY <1>0 DEF ConnectTyped
    <3>2. \/ replay' = Append(replay, m) /\ replayOverflow' = replayOverflow
          \/ replay' = replay /\ replayOverflow' = TRUE
      BY <1>10 DEF Write
    <3> QED
      BY <3>1, <3>2
  <2>3. buffer' \in Seq(Payload) /\ closed' \in BOOLEAN /\ waiting' \in BOOLEAN
    <3>1. /\ Append(buffer, m) \in Seq(Payload) /\ buffer \in Seq(Payload)
          /\ closed \in BOOLEAN /\ waiting \in BOOLEAN
      BY <1>0 DEF ConnectTyped
    <3>2. \/ buffer' = Append(buffer, m) /\ waiting' = FALSE /\ closed' = closed
          \/ UNCHANGED <<buffer, closed, waiting>>
      BY <2>1 DEF Push, queueVars
    <3> QED
      BY <3>1, <3>2
  <2>4. written' \in Seq(Payload)
    BY <1>0, <2>1, <1>10 DEF ConnectTyped
  <2> QED
    BY <1>0, <2>1, <2>2, <2>3, <2>4 DEF ConnectTyped, planVars, heldVars, callVars
<1>11. ASSUME End PROVE ConnectTyped'
  <2>1. /\ Close /\ ended' = TRUE
        /\ endedAt' = (IF endedAt = NotEnded THEN Len(written) ELSE endedAt)
        /\ UNCHANGED <<planVars, attemptIndex, running, meta, heldVars, replay,
                       replayOverflow, inboundDelivered, aborted, callVars, written,
                       wire, peerClosed>>
    BY <1>11 DEF End
  <2>2. Len(written) \in 0 .. MaxWrites
    <3>1. Len(written) = 0 \/ written[Len(written)] = Len(written)
      BY <1>0 DEF ConnectInv, ConnectTyped, WritesNumbered, Numbered
    <3> QED
      BY <1>0, <3>1, ConnectAssumption DEF ConnectTyped, Payload
  <2>3. endedAt' \in 0 .. MaxWrites \cup {NotEnded}
    BY <1>0, <2>1, <2>2 DEF ConnectTyped
  <2>4. buffer' = buffer /\ closed' \in BOOLEAN /\ waiting' \in BOOLEAN
    BY <1>0, <2>1 DEF Close, queueVars, ConnectTyped
  <2> QED
    BY <1>0, <2>1, <2>3, <2>4 DEF ConnectTyped, planVars, heldVars, callVars
<1>12. ASSUME Cancel PROVE ConnectTyped'
  BY ZenonT(40), <1>0, <1>12
  DEF ConnectInv, ConnectTyped, EntryLasts, Captured, Held, Payload, Cancel, Close,
      HasQueue, planVars, heldVars, replayVars, queueVars, outVars, callVars
<1>13. CASE UNCHANGED vars
  BY <1>0, <1>13
  DEF ConnectInv, ConnectTyped, ConnectTyped, EntryLasts, Captured, Held, Payload, vars,
      planVars, heldVars, replayVars, queueVars, outVars, callVars
<1> QED
  BY <1>1, <1>2, <1>3, <1>4, <1>5, <1>6, <1>7, <1>8, <1>9, <1>10, <1>11, <1>12, <1>13 DEF Next

(* The inductive invariant of runConnectStream, for any number of writes   *)
(* and any limits of the replay and of the response.                       *)
THEOREM ConnectInvariance == Spec => []ConnectInv
<1>1. Init => ConnectInv
  <2> SUFFICES ASSUME Init PROVE ConnectInv
    OBVIOUS
  <2> USE ConnectAssumption
  <2>0. /\ MaxWrites \in Nat /\ MaxReplay \in Nat /\ MaxResponse \in Nat
        /\ <<>> \in Seq(Payload) /\ <<>> \in Seq(Events) /\ Len(<<>>) = 0
    OBVIOUS
  <2>1. ConnectTyped
    <3>1. attemptIndex \in 1 .. attempts /\ attempts \in {1, 2} /\ kind \in Kind
      BY DEF Init
    <3>2. accumulatedSize \in 0 .. MaxResponse + 1 /\ endedAt = NotEnded /\ meta = {}
          /\ captured = {}
      BY <2>0 DEF Init
    <3>3. /\ running \in BOOLEAN /\ heldHeaders \in BOOLEAN /\ heldTrailers \in BOOLEAN
          /\ replayOverflow \in BOOLEAN /\ ended \in BOOLEAN /\ inboundDelivered \in BOOLEAN
          /\ aborted \in BOOLEAN /\ closed \in BOOLEAN /\ waiting \in BOOLEAN
          /\ registered \in BOOLEAN /\ finalized \in BOOLEAN /\ peerClosed \in BOOLEAN
      BY DEF Init
    <3>4. replay = <<>> /\ buffer = <<>> /\ written = <<>> /\ wire = <<>> /\ told = <<>>
      BY DEF Init
    <3> QED
      BY <2>0, <3>1, <3>2, <3>3, <3>4 DEF ConnectTyped
  <2>2. EntryLasts
    <3>1. registered = TRUE /\ running = TRUE /\ aborted = FALSE /\ finalized = FALSE
          /\ accumulatedSize = 0
      BY DEF Init
    <3>2. (registered <=> running /\ ~aborted) /\ accumulatedSize <= MaxResponse
      BY <2>0, <3>1
    <3> QED
      BY <3>1, <3>2 DEF EntryLasts
  <2>3. MetadataAccounted
    BY DEF Init, MetadataAccounted, Held
  <2>4. ToldInOrder
    BY DEF Init, ToldInOrder
  <2>5. WritesNumbered /\ QueueKeeps
    <3>1. /\ written = <<>> /\ replay = <<>> /\ buffer = <<>> /\ wire = <<>>
          /\ replayOverflow = FALSE /\ ended = FALSE /\ endedAt = NotEnded
          /\ closed = FALSE /\ peerClosed = FALSE
      BY DEF Init
    <3>2. (ended <=> endedAt # NotEnded) /\ closed = ended
      BY <3>1
    <3> QED
      BY <2>0, <3>1, <3>2 DEF WritesNumbered, QueueKeeps, Numbered
  <2> QED
    BY <2>1, <2>2, <2>3, <2>4, <2>5, ConnectTypes DEF ConnectInv
<1>2. ConnectInv /\ [Next]_vars => ConnectInv'
  <2> SUFFICES ASSUME ConnectInv, [Next]_vars PROVE ConnectInv'
    OBVIOUS
  <2>1. TypeOK'
    BY ConnectTypedKept DEF ConnectTyped, TypeOK, Metadata, Events
  <2> QED
    BY <2>1, EntryLastsKept, MetadataAccountedKept, ToldInOrderKept, WritesNumberedKept,
       QueueKeepsKept
    DEF ConnectInv
<1> QED
  BY <1>1, <1>2, PTL DEF Spec

(* A stream whose attempts are settled is in no registry: its renderer was *)
(* told of the end or had asked for it.                                    *)
THEOREM NoStreamIsOrphaned == Spec => []NoOrphan
<1>1. ConnectInv => NoOrphan
  BY DEF ConnectInv, EntryLasts, NoOrphan
<1> QED
  BY <1>1, ConnectInvariance, PTL

(* No step tells anything of a call that left the registry.                *)
LEMMA NothingIsTold ==
  ASSUME ConnectInv, Next, ~registered
  PROVE  told' = told
<1>0. ConnectTyped /\ EntryLasts /\ (~HasQueue => ~closed)
  BY ConnectTypes DEF ConnectInv, WritesNumbered
<1>1. CASE DrainMessage
  BY <1>0, <1>1, DataFacts DEF DrainMessage
<1>2. CASE Undecodable
  BY <1>0, <1>2 DEF Undecodable, Finalize
<1>3. CASE DrainEnd
  BY <1>0, <1>3 DEF DrainEnd, Finalize
<1>4. CASE Response
  BY <1>0, <1>4, DataFacts DEF Response
<1>5. ASSUME NEW rejected \in BOOLEAN, Fail(rejected) PROVE told' = told
  BY <1>0, <1>5 DEF Fail, FinishErr, Cancelled, EntryLasts, Finalize, callVars
<1>6. CASE OnHeader \/ OnTrailer \/ Pull \/ PullEnd \/ End \/ Cancel
           \/ \E m \in Payload : Write(m)
  BY <1>6 DEF OnHeader, OnTrailer, Deliver, Pull, PullEnd, End, Cancel, Write, callVars
<1> QED
  BY <1>1, <1>2, <1>3, <1>4, <1>5, <1>6 DEF Next

(* After a cancel or its terminal event the renderer hears nothing of a    *)
(* stream, whatever connect-node still delivers.                           *)
THEOREM SilentOnceGone == Spec => SilentOnceDropped
<1>1. ConnectInv /\ [Next]_vars => [~registered => UNCHANGED told]_vars
  BY NothingIsTold DEF vars
<1> QED
  BY <1>1, ConnectInvariance, PTL DEF Spec, SilentOnceDropped

(* A terminal event carries all the metadata of the attempt that answered  *)
(* and none of a rejected one.                                             *)
THEOREM MetadataIsOfTheAnswer == Spec => AnsweringMetadata
<1>1. ConnectInv /\ [Next]_vars => [TerminalTold => captured' = {attemptIndex} \X meta]_vars
  <2> SUFFICES ASSUME ConnectInv, Next, TerminalTold
               PROVE  captured' = {attemptIndex} \X meta
    BY DEF vars
  <2>0. /\ ConnectTyped /\ EntryLasts /\ (~HasQueue => ~closed)
        /\ finalized' /\ Len(told') > Len(told) /\ Len(told) \in Nat
    BY ConnectTypes DEF ConnectInv, WritesNumbered, TerminalTold, ConnectTyped
  <2>1. ASSUME FlushHeld, registered PROVE captured' = {attemptIndex} \X meta
    <3>1. captured' = captured \cup ({attemptIndex} \X Held)
      BY <2>0, <2>1, FlushFacts
    <3>2. captured = {attemptIndex} \X (meta \ Held) /\ Held \subseteq meta
      BY <2>1 DEF ConnectInv, MetadataAccounted
    <3> QED
      BY <3>1, <3>2
  <2>2. registered
    BY <2>0, NothingIsTold
  <2>3. CASE DrainMessage
    BY <2>0, <2>1, <2>2, <2>3 DEF DrainMessage
  <2>4. CASE Undecodable
    BY <2>0, <2>1, <2>2, <2>4 DEF Undecodable
  <2>5. CASE DrainEnd
    BY <2>0, <2>1, <2>2, <2>5 DEF DrainEnd
  <2>6. CASE Response
    BY <2>0, <2>1, <2>2, <2>6 DEF Response
  <2>7. ASSUME NEW rejected \in BOOLEAN, Fail(rejected)
        PROVE  captured' = {attemptIndex} \X meta
    <3>1. CASE aborted
      BY <2>2, <3>1 DEF ConnectInv, EntryLasts
    <3>2. CASE CanRetry(rejected)
      BY <2>0, <2>2, <2>7, <3>2 DEF Fail, FinishErr, callVars, ConnectInv, EntryLasts
    <3>3. CASE ~aborted /\ ~CanRetry(rejected)
      BY <2>1, <2>2, <2>7, <3>3 DEF Fail, FinishErr
    <3> QED
      BY <3>1, <3>2, <3>3
  <2>8. CASE OnHeader \/ OnTrailer \/ Pull \/ PullEnd \/ End \/ Cancel
             \/ \E m \in Payload : Write(m)
    <3>1. told' = told
      BY <2>8 DEF OnHeader, OnTrailer, Deliver, Pull, PullEnd, End, Cancel, Write, callVars
    <3> QED
      BY <2>0, <3>1
  <2> QED
    BY <2>3, <2>4, <2>5, <2>6, <2>7, <2>8 DEF Next
<1> QED
  BY <1>1, ConnectInvariance, PTL DEF Spec, AnsweringMetadata

(* runConnectStream keeps the contract of a gRPC stream across a fallback  *)
(* to the Connect protocol: every step is a step of GrpcStream or a        *)
(* stutter.                                                                *)
THEOREM ConnectRefinement == Spec => KeepsContract
<1>1. Init => Contract!Init
  BY DEF Init, Contract!Init
<1>2. ConnectInv /\ [Next]_vars => [Contract!Next]_<<written, endedAt, wire, peerClosed, told>>
  <2> SUFFICES ASSUME ConnectInv, Next
               PROVE  [Contract!Next]_<<written, endedAt, wire, peerClosed, told>>
    BY DEF vars
  <2> USE DEF outVars
  <2>0. /\ ConnectTyped /\ EntryLasts /\ (~HasQueue => ~closed)
    BY ConnectTypes DEF ConnectInv, WritesNumbered
  <2>1. ASSUME registered PROVE Contract!Open
    BY <2>0, <2>1 DEF ConnectInv, ConnectTyped, ToldInOrder, Contract!Open
  <2>2. ASSUME NEW told2, told' = told2, UNCHANGED outVars,
               \/ told2 = told
               \/ /\ registered
                  /\ \/ told2 = Append(told, "data")
                     \/ \E t \in {"status", "error"} :
                           told2 \in {Append(told, t), told \o <<"data", t>>}
        PROVE  [Contract!Next]_<<written, endedAt, wire, peerClosed, told>>
    BY <2>1, <2>2 DEF Contract!Next, Contract!Told, Contract!Terminal
  <2>3. CASE DrainMessage
    BY <2>0, <2>2, <2>3, DataFacts DEF DrainMessage
  <2>4. CASE Undecodable
    BY <2>0, <2>2, <2>4 DEF Undecodable, Finalize
  <2>5. CASE DrainEnd
    BY <2>0, <2>2, <2>5 DEF DrainEnd, Finalize
  <2>6. CASE Response
    <3>1. CASE finalized \/ ~registered \/ OverLimit
      BY <2>0, <2>2, <2>6, <3>1, DataFacts DEF Response
    <3>2. CASE ~(finalized \/ ~registered \/ OverLimit)
      BY <2>2, <2>6, <3>2 DEF Response
    <3> QED
      BY <3>1, <3>2
  <2>7. ASSUME NEW rejected \in BOOLEAN, Fail(rejected)
        PROVE  [Contract!Next]_<<written, endedAt, wire, peerClosed, told>>
    <3>1. CASE aborted
      BY <2>7, <3>1 DEF Fail, FinishErr, Cancelled
    <3>2. CASE ~aborted /\ CanRetry(rejected)
      <4>1. told = <<>>
        BY <2>0, <2>7, <3>2 DEF Fail, CanRetry, ConnectInv, EntryLasts, MetadataAccounted
      <4>2. Contract!StartedOver
        BY <2>7, <3>2, <4>1 DEF Fail, FinishErr, StartAttempt, callVars, Contract!StartedOver
      <4> QED
        BY <4>2 DEF Contract!Next
    <3>3. CASE ~aborted /\ ~CanRetry(rejected)
      BY <2>0, <2>2, <2>7, <3>3 DEF Fail, FinishErr, Finalize
    <3> QED
      BY <3>1, <3>2, <3>3
  <2>8. CASE Pull
    <3>1. /\ wire' = Append(wire, Head(buffer)) /\ buffer # <<>> /\ HasQueue
          /\ UNCHANGED <<written, endedAt, peerClosed, told>>
      BY <2>8 DEF Pull, callVars
    <3>2. Head(buffer) = Len(wire) + 1 /\ Len(wire) < Len(written)
      BY <2>0, <3>1 DEF ConnectInv, ConnectTyped, WritesNumbered
    <3>3. written[Len(wire) + 1] = Len(wire) + 1
      BY <2>0, <3>2 DEF ConnectInv, ConnectTyped, WritesNumbered, Numbered
    <3>4. ~peerClosed
      BY <3>1 DEF ConnectInv, QueueKeeps
    <3> QED
      BY <3>1, <3>2, <3>3, <3>4 DEF Contract!Next, Contract!Received
  <2>9. CASE PullEnd
    <3>1. CASE closed
      <4>1. peerClosed' = TRUE /\ UNCHANGED <<written, endedAt, wire, told>>
            /\ ~aborted /\ HasQueue /\ buffer = <<>>
        BY <2>9, <3>1 DEF PullEnd, callVars
      <4>2. ended
        BY <3>1, <4>1 DEF ConnectInv, QueueKeeps
      <4>3. endedAt # NotEnded /\ endedAt <= Len(wire) + 0
        BY <2>0, <4>1, <4>2 DEF ConnectInv, QueueKeeps, WritesNumbered
      <4>4. Len(wire) >= endedAt
        BY <2>0, <4>3, ConnectAssumption DEF ConnectTyped
      <4> QED
        BY <4>1, <4>3, <4>4 DEF Contract!Next, Contract!PeerClosed
    <3>2. CASE ~closed
      BY <2>9, <3>2 DEF PullEnd, callVars
    <3> QED
      BY <3>1, <3>2
  <2>10. ASSUME NEW m \in Payload, Write(m)
         PROVE  [Contract!Next]_<<written, endedAt, wire, peerClosed, told>>
    <3>1. Contract!Written(m)
      BY <2>10 DEF Write, callVars, Contract!Written
    <3> QED
      BY <3>1 DEF Contract!Next
  <2>11. CASE End
    <3>1. Contract!HalfClosed
      BY <2>11 DEF End, callVars, Contract!HalfClosed
    <3> QED
      BY <3>1 DEF Contract!Next
  <2>12. CASE OnHeader \/ OnTrailer \/ Cancel
    BY <2>12 DEF OnHeader, OnTrailer, Deliver, Cancel
  <2> QED
    BY <2>3, <2>4, <2>5, <2>6, <2>7, <2>8, <2>9, <2>10, <2>11, <2>12 DEF Next
<1> QED
  BY <1>1, <1>2, ConnectInvariance, PTL
  DEF Spec, KeepsContract, Contract!Spec, Contract!streamVars

-------------------------------------------------------------------------------
(* HTTP                                                                    *)

(* What no request, chat or completion of the laboratory touches.          *)
NoClaims ==
    /\ ownerEntry = [c \in Call |-> None]
    /\ pending = EmptyMap /\ claimBound = {}

Requesting == {"preparing", "tunnelling", "fetching", "responding"}

HttpTyped ==
    /\ made \in 0 .. MaxCalls
    /\ pc \in [Call -> Settled \cup Requesting]
    /\ keyOf \in [Call -> Key \cup {None}]
    /\ activeRequests \in [Id -> Call \cup {None}]
    /\ conn \in [Call -> {"none", "opening", "open"}]
    /\ signalled \subseteq Call
    /\ alive \subseteq Owner

(* An entry is of a request in flight for its id, and the renderer of the  *)
(* request has the listener that will abort it.                            *)
RequestsBound ==
    /\ entryBound \subseteq alive
    /\ \A i \in Id : activeRequests[i] # None =>
          /\ pc[activeRequests[i]] \in Requesting
          /\ keyOf[activeRequests[i]][2] = i
          /\ OwnerOf(keyOf[activeRequests[i]]) \in entryBound

(* Who has neither an entry nor an aborted signal is not in flight; only a *)
(* request that waits for its proxy has a tunnel that opens.               *)
RequestsReachable ==
    \A c \in Call :
       /\ c \in signalled => pc[c] \in Requesting /\ conn[c] # "opening"
       /\ pc[c] \in Requesting /\ c \notin signalled => activeRequests[keyOf[c][2]] = c
       /\ conn[c] = "opening" => pc[c] = "tunnelling"
       /\ conn[c] = "open" => pc[c] = "fetching"

HttpIdle == NoClaims /\ connections = EmptyMap /\ io = None

HttpInv == HttpTyped /\ CallsAsked /\ RequestsBound /\ RequestsReachable /\ HttpIdle

HttpSpec ==
    ClaimsInit /\ Http!HttpInit /\ [][Http!HttpNext]_<<claimVars, Http!httpVars>>

(* The HTTP instance has the calls and keys of the claims, and takes a key  *)
(* apart as they do.                                                        *)
LEMMA HttpSets ==
  /\ Http!Call = Call /\ Http!Key = Key
  /\ \A c : Http!IdOf(keyOf[c]) = keyOf[c][2] /\ Http!OwnerOf(keyOf[c]) = OwnerOf(keyOf[c])
  BY DEF Http!Call, Call, Http!Key, Key, Http!IdOf, Http!OwnerOf, OwnerOf

(* What every step of the HTTP handler starts from: a call has a key from   *)
(* its arrival, and the next one has touched nothing.                       *)
LEMMA HttpFacts ==
  ASSUME HttpInv
  PROVE  /\ \A c \in Call : pc[c] # "idle" <=> keyOf[c] \in Key
         /\ \A c \in Call : c = made + 1 => pc[c] = "idle" /\ c \notin signalled
                                            /\ conn[c] = "none"
         /\ \A k \in Key : OwnerOf(k) \in Owner /\ k[2] \in Id
         /\ None \notin Call /\ None \notin Key
<1>1. \A c \in Call : c = made + 1 => ~(c <= made)
  BY DEF HttpInv, HttpTyped, Call
<1>2. None \notin Call /\ None \notin Key
  BY ClaimsAssumption
<1>3. \A k \in Key : OwnerOf(k) \in Owner /\ k[2] \in Id
  BY DEF Key, OwnerOf
<1> QED
  BY <1>1, <1>2, <1>3
  DEF HttpInv, HttpTyped, CallsAsked, RequestsReachable, Requesting, Settled

(* Every step of the HTTP handler keeps what is known of its bookkeeping.   *)
LEMMA HttpKept ==
  ASSUME HttpInv, Http!HttpNext
  PROVE  HttpInv'
<1> USE HttpSets, HttpFacts
<1>0. /\ HttpTyped /\ CallsAsked /\ RequestsBound /\ RequestsReachable
  BY DEF HttpInv
<1>1. ASSUME NEW c \in Call, NEW k \in Key, Http!Refuse(c, k) PROVE HttpInv'
  <2>1. /\ c = made + 1 /\ keyOf' = [keyOf EXCEPT ![c] = k] /\ made' = c
        /\ pc' = [pc EXCEPT ![c] = "failed"]
        /\ UNCHANGED <<alive, conn, entryBound, Http!httpVars>>
    BY <1>1 DEF Http!Refuse, Http!Arrive, Http!Answer
  <2>2. HttpTyped' /\ CallsAsked'
    BY <1>0, <2>1 DEF HttpTyped, CallsAsked, Settled, Call, Http!httpVars
  <2>3. RequestsBound' /\ RequestsReachable'
    BY <1>0, <2>1 DEF HttpTyped, RequestsBound, RequestsReachable, Requesting, Http!httpVars
  <2>4. HttpIdle'
    BY <1>1 DEF HttpInv, HttpIdle, NoClaims, Http!Refuse, Http!unusedVars
  <2> QED
    BY <2>2, <2>3, <2>4 DEF HttpInv
<1>2. ASSUME NEW c \in Call, NEW k \in Key, Http!Register(c, k) PROVE HttpInv'
  <2>1. /\ c = made + 1 /\ keyOf' = [keyOf EXCEPT ![c] = k] /\ made' = c
        /\ pc' = [pc EXCEPT ![c] = "preparing"]
        /\ activeRequests[k[2]] = None /\ OwnerOf(k) \in alive
        /\ activeRequests' = [activeRequests EXCEPT ![k[2]] = c]
        /\ entryBound' = entryBound \cup {OwnerOf(k)}
        /\ UNCHANGED <<alive, conn, signalled>>
    BY <1>2
    DEF Http!Register, Http!Arrive, Http!Answer, Http!Bind, Http!OwnerOf, OwnerOf, Http!IdOf
  <2>2. HttpTyped' /\ CallsAsked'
    BY <1>0, <2>1 DEF HttpTyped, CallsAsked, Settled, Requesting, Call
  <2>3. RequestsBound'
    BY <1>0, <2>1 DEF HttpTyped, RequestsBound, Requesting
  <2>4. RequestsReachable'
    BY <1>0, <2>1 DEF HttpTyped, RequestsReachable, Requesting
  <2>5. HttpIdle'
    BY <1>2 DEF HttpInv, HttpIdle, NoClaims, Http!Register, Http!unusedVars
  <2> QED
    BY <2>2, <2>3, <2>4, <2>5 DEF HttpInv
<1>3. ASSUME NEW c \in Call, pc[c] \in Requesting, NEW how \in {"ok", "failed"},
             Http!Finish(c, how),
             conn' = [conn EXCEPT ![c] = "none"]
      PROVE  HttpInv'
  <2>1. /\ pc' = [pc EXCEPT ![c] = how] /\ keyOf[c][2] \in Id
        /\ activeRequests' = [activeRequests EXCEPT ![keyOf[c][2]] =
                                IF activeRequests[keyOf[c][2]] = c THEN None ELSE @]
        /\ signalled' = signalled \ {c}
        /\ UNCHANGED <<made, keyOf, entryBound, alive>>
    <3>1. keyOf[c] \in Key
      BY <1>0, <1>3 DEF Requesting
    <3>2. Http!IdOf(keyOf[c]) = keyOf[c][2]
      OBVIOUS
    <3> HIDE HttpSets, HttpFacts
    <3>3. keyOf[c][2] \in Id
      BY <3>1, HttpFacts
    <3> QED
      BY <1>3, <3>2, <3>3 DEF Http!Finish, Http!Unregister, Http!Answer
  <2>2. HttpTyped' /\ CallsAsked'
    BY <1>0, <1>3, <2>1 DEF HttpTyped, CallsAsked, Settled, Requesting, Call
  <2>3. RequestsBound'
    BY <1>0, <2>1 DEF HttpTyped, RequestsBound, Requesting
  <2>4. RequestsReachable'
    BY <1>0, <1>3, <2>1 DEF HttpTyped, RequestsReachable, Requesting
  <2>5. HttpIdle'
    BY <1>3 DEF HttpInv, HttpIdle, NoClaims, Http!Finish, Http!unusedVars
  <2> QED
    BY <2>2, <2>3, <2>4, <2>5 DEF HttpInv
<1>4. ASSUME NEW c \in Call,
             \/ Http!PrepareFails(c) \/ Http!TunnelFails(c) \/ Http!FetchFails(c)
             \/ Http!Responded(c)
      PROVE  HttpInv'
  <2>1. CASE Http!PrepareFails(c) \/ Http!Responded(c)
    <3>1. pc[c] \in {"preparing", "responding"} /\ conn' = conn
          /\ \E how \in {"ok", "failed"} : Http!Finish(c, how)
      BY <2>1 DEF Http!PrepareFails, Http!Responded
    <3>2. conn' = [conn EXCEPT ![c] = "none"] /\ pc[c] \in Requesting
      BY <1>0, <3>1 DEF HttpTyped, RequestsReachable, Requesting
    <3> QED
      BY <1>3, <3>1, <3>2
  <2>2. CASE Http!TunnelFails(c) \/ Http!FetchFails(c)
    <3>1. pc[c] \in Requesting /\ Http!Finish(c, "failed")
          /\ conn' = [conn EXCEPT ![c] = "none"]
      BY <1>0, <2>2
      DEF HttpTyped, Http!TunnelFails, Http!FetchFails, Http!TunnelsOver, Requesting
    <3>2. "failed" \in {"ok", "failed"}
      OBVIOUS
    <3> HIDE HttpSets, HttpFacts
    <3> QED
      BY <1>3, <3>1, <3>2
  <2> QED
    BY <1>4, <2>1, <2>2
<1>5. ASSUME NEW c \in Call,
             Http!Prepared(c) \/ Http!TunnelOpens(c) \/ Http!Redirect(c) \/ Http!Fetched(c)
      PROVE  HttpInv'
  <2>0. UNCHANGED <<made, keyOf, entryBound, alive, activeRequests, signalled>>
        /\ UNCHANGED Http!unusedVars
    BY <1>5 DEF Http!Prepared, Http!TunnelOpens, Http!Redirect, Http!Fetched, Http!httpVars
  <2>1. \E how \in Requesting, to \in {"none", "opening", "open"} :
           /\ pc[c] \in Requesting /\ pc' = [pc EXCEPT ![c] = how]
           /\ conn' = [d \in Call |-> IF d = c THEN to ELSE conn[d]]
           /\ to = "opening" => how = "tunnelling" /\ c \notin signalled
           /\ to = "open" => how = "fetching"
    <3>1. CASE Http!Prepared(c)
      <4>1. pc[c] = "preparing" /\ conn[c] = "none"
        BY <1>0, <3>1 DEF Http!Prepared, HttpTyped, RequestsReachable
      <4>2. CASE pc' = [pc EXCEPT ![c] = "tunnelling"] /\ conn' = [conn EXCEPT ![c] = "opening"]
                 /\ c \notin signalled
        BY <1>0, <4>1, <4>2 DEF HttpTyped, Requesting
      <4>3. CASE pc' = [pc EXCEPT ![c] = "fetching"] /\ conn' = conn
        BY <1>0, <4>1, <4>3 DEF HttpTyped, Requesting
      <4> QED
        BY <3>1, <4>2, <4>3 DEF Http!Prepared, Http!Answer, Http!Becomes
    <3>2. CASE Http!TunnelOpens(c)
      BY <1>0, <3>2 DEF Http!TunnelOpens, Http!Answer, Http!Becomes, HttpTyped, Requesting
    <3>3. CASE Http!Redirect(c) \/ Http!Fetched(c)
      BY <3>3 DEF Http!Redirect, Http!Fetched, Http!Answer, Http!TunnelsOver, Requesting
    <3> QED
      BY <1>5, <3>1, <3>2, <3>3
  <2>2. HttpTyped' /\ CallsAsked'
    BY <1>0, <2>0, <2>1 DEF HttpTyped, CallsAsked, Settled, Requesting
  <2>3. RequestsBound'
    BY <1>0, <2>0, <2>1 DEF HttpTyped, RequestsBound, Requesting
  <2>4. RequestsReachable'
    BY <1>0, <2>0, <2>1 DEF HttpTyped, RequestsReachable, Requesting
  <2>5. HttpIdle'
    BY <2>0 DEF HttpInv, HttpIdle, NoClaims, Http!unusedVars
  <2> QED
    BY <2>2, <2>3, <2>4, <2>5 DEF HttpInv
<1>6. ASSUME NEW k \in Key, Http!Cancel(k) PROVE HttpInv'
  <2> DEFINE c == activeRequests[k[2]]
  <2>1. /\ c \in Call /\ signalled' = signalled \cup {c}
        /\ conn' = [d \in Call |-> IF d = c /\ pc[d] = "tunnelling" THEN "none" ELSE conn[d]]
        /\ UNCHANGED <<made, pc, keyOf, entryBound, alive, activeRequests>>
        /\ UNCHANGED Http!unusedVars
    BY <1>0, <1>6 DEF Http!Cancel, Http!AbortAll, Http!TunnelsOver, Http!IdOf, HttpTyped
  <2>2. pc[c] \in Requesting
    BY <1>0, <2>1 DEF RequestsBound
  <2> HIDE DEF c
  <2>3. HttpTyped' /\ CallsAsked' /\ RequestsBound'
    BY <1>0, <2>1 DEF HttpTyped, CallsAsked, RequestsBound
  <2>4. RequestsReachable'
    BY <1>0, <2>1, <2>2 DEF HttpTyped, RequestsReachable, Requesting
  <2>5. HttpIdle'
    BY <2>1 DEF HttpInv, HttpIdle, NoClaims, Http!unusedVars
  <2> QED
    BY <2>3, <2>4, <2>5 DEF HttpInv
<1>7. ASSUME NEW o \in Owner, Http!HttpDestroyed(o) PROVE HttpInv'
  <2> DEFINE owned == {c \in Call : /\ pc[c] \in Requesting /\ OwnerOf(keyOf[c]) = o
                                    /\ activeRequests[keyOf[c][2]] = c}
  <2>0. \A c \in Call : pc[c] \notin Http!Answered <=> pc[c] \in Requesting
    BY <1>0 DEF HttpTyped, Http!Answered, Settled, Requesting
  <2>1. /\ o \in alive /\ alive' = alive \ {o} /\ entryBound' = entryBound \ {o}
        /\ UNCHANGED <<made, pc, keyOf>> /\ UNCHANGED Http!unusedVars
    BY <1>7 DEF Http!HttpDestroyed
  <2>2. CASE o \in entryBound
    <3>1. {c \in Http!InFlight : /\ Http!OwnerOf(keyOf[c]) = o
                                 /\ activeRequests[Http!IdOf(keyOf[c])] = c} = owned
      BY <2>0 DEF Http!InFlight
    <3>2. /\ signalled' = signalled \cup owned
          /\ conn' = [c \in Call |-> IF c \in {d \in owned : pc[d] = "tunnelling"}
                                     THEN "none" ELSE conn[c]]
          /\ activeRequests' = [i \in Id |-> IF activeRequests[i] \in owned
                                             THEN None ELSE activeRequests[i]]
      BY <1>7, <2>2, <3>1 DEF Http!HttpDestroyed, Http!AbortAll, Http!TunnelsOver
    <3>3. HttpTyped' /\ CallsAsked'
      BY <1>0, <2>1, <3>2 DEF HttpTyped, CallsAsked
    <3>4. RequestsBound'
      BY <1>0, <2>1, <3>2 DEF HttpTyped, RequestsBound
    <3>5. RequestsReachable'
      BY <1>0, <2>1, <3>2 DEF HttpTyped, RequestsReachable, Requesting
    <3>6. HttpIdle'
      BY <2>1 DEF HttpInv, HttpIdle, NoClaims, Http!unusedVars
    <3> QED
      BY <3>3, <3>4, <3>5, <3>6 DEF HttpInv
  <2>3. CASE o \notin entryBound
    <3>1. UNCHANGED <<conn, signalled, activeRequests>> /\ entryBound' = entryBound
      BY <1>7, <2>1, <2>3 DEF Http!HttpDestroyed
    <3>2. HttpTyped' /\ CallsAsked' /\ RequestsBound' /\ RequestsReachable'
      BY <1>0, <2>1, <2>3, <3>1 DEF HttpTyped, CallsAsked, RequestsBound, RequestsReachable
    <3>3. HttpIdle'
      BY <2>1 DEF HttpInv, HttpIdle, NoClaims, Http!unusedVars
    <3> QED
      BY <3>2, <3>3 DEF HttpInv
  <2> QED
    BY <2>2, <2>3
<1> QED
  BY <1>1, <1>2, <1>4, <1>5, <1>6, <1>7 DEF Http!HttpNext, Http!Settles

(* In every reachable state requests, entries, aborts and tunnels agree.   *)
THEOREM HttpInvariance == HttpSpec => []HttpInv
<1>1. ClaimsInit /\ Http!HttpInit => HttpInv
  BY ClaimsAssumption
  DEF ClaimsInit, Http!HttpInit, HttpInv, HttpTyped, CallsAsked, RequestsBound,
      RequestsReachable, HttpIdle, NoClaims, Requesting, Settled, Call
<1>2. HttpInv /\ [Http!HttpNext]_<<claimVars, Http!httpVars>> => HttpInv'
  <2>1. HttpInv /\ UNCHANGED <<claimVars, Http!httpVars>> => HttpInv'
    BY DEF claimVars, Http!httpVars, HttpInv, HttpTyped, CallsAsked, RequestsBound,
           RequestsReachable, HttpIdle, NoClaims
  <2> QED
    BY <2>1, HttpKept
<1> QED
  BY <1>1, <1>2, PTL DEF HttpSpec

(* The invariant says what HttpTracked does.                               *)
LEMMA HttpGives == ASSUME HttpInv PROVE Http!HttpTracked
<1>1. \A c \in Call : c \in Http!InFlight <=> pc[c] \in Requesting
  BY HttpSets DEF HttpInv, HttpTyped, Http!InFlight, Http!Answered, Requesting, Settled
<1>2. HttpTyped /\ RequestsBound /\ RequestsReachable
  BY DEF HttpInv
<1>3. \A c \in Http!InFlight \ signalled :
         activeRequests[keyOf[c][2]] = c /\ OwnerOf(keyOf[c]) \in alive
  <2>1. ASSUME NEW c \in Call, pc[c] \in Requesting, c \notin signalled
        PROVE  activeRequests[keyOf[c][2]] = c /\ OwnerOf(keyOf[c]) \in alive
    <3>1. activeRequests[keyOf[c][2]] = c /\ keyOf[c][2] \in Id /\ None # c
      BY <1>2, <2>1, HttpFacts DEF RequestsReachable, Requesting
    <3> QED
      BY <1>2, <3>1 DEF RequestsBound
  <2> QED
    BY <1>1, <2>1, HttpSets DEF Http!InFlight
<1>4. \A i \in Id : activeRequests[i] # None => activeRequests[i] \in Http!InFlight
  BY <1>1, <1>2 DEF HttpTyped, RequestsBound
<1>5. \A c \in Call : /\ conn[c] \in {"opening", "open"} => pc[c] \in {"tunnelling", "fetching"}
                      /\ c \in signalled => conn[c] # "opening"
  BY <1>2 DEF RequestsReachable
<1>6. signalled \subseteq Call
  BY <1>2 DEF HttpTyped
<1> QED
  BY <1>3, <1>4, <1>5, <1>6, HttpSets DEF Http!HttpTracked

-------------------------------------------------------------------------------
(* AI chats                                                                *)

AiTyped ==
    /\ made \in 0 .. MaxCalls
    /\ pc \in [Call -> Settled \cup {"resolving"}]
    /\ keyOf \in [Call -> Key \cup {None}]
    /\ connections \in [Key -> Call \cup {None}]
    /\ cancelledGenerations \in [Key -> Call \cup {None}]
    /\ conn \in [Call -> {"none", "up", "aborted", "over"}]
    /\ io \in Call \cup {None}
    /\ alive \subseteq Owner

(* An entry is of a chat that resolves or is replied to, its renderer has  *)
(* the listener that will abort it, and no cancelled chat speaks beside it.*)
ChatsBound ==
    /\ entryBound \subseteq alive
    /\ \A k \in Key : connections[k] # None =>
          /\ keyOf[connections[k]] = k /\ OwnerOf(k) \in entryBound
          /\ pc[connections[k]] = "resolving" \/ conn[connections[k]] = "up"
          /\ cancelledGenerations[k] = None
    /\ \A k \in Key : cancelledGenerations[k] # None => keyOf[cancelledGenerations[k]] = k

(* A reply that runs and is not aborted is the entry of its key.           *)
RepliesSound ==
    \A c \in Call : /\ conn[c] # "none" => pc[c] = "ok"
                    /\ conn[c] = "up" => connections[keyOf[c]] = c

AiInv == AiTyped /\ CallsAsked /\ ChatsBound /\ RepliesSound /\ NoClaims

AiSpec ==
    ClaimsInit /\ Ai!AiInit /\ [][Ai!AiNext]_<<claimVars, cancelledGenerations>>

(* The AI instance has the sets and map operators of the claims, and a      *)
(* generation is current when it is the one in its slot.                    *)
LEMMA AiSets ==
  /\ Ai!Call = Call /\ Ai!Key = Key /\ Ai!EmptyMap = EmptyMap
  /\ \A k : Ai!OwnerOf(k) = OwnerOf(k)
  /\ \A map, k : Ai!Drop(map, k) = Drop(map, k)
  /\ \A c : Ai!IsCurrent(c) <=> connections[keyOf[c]] = c
  BY DEF Ai!Call, Call, Ai!Key, Key, Ai!OwnerOf, OwnerOf, Ai!EmptyMap, EmptyMap, Ai!Drop,
         Drop, Ai!IsCurrent

(* What every step of an AI chat starts from: a call has a key from its     *)
(* arrival, and the next one has no generation.                             *)
LEMMA AiFacts ==
  ASSUME AiInv
  PROVE  /\ \A c \in Call : pc[c] # "idle" <=> keyOf[c] \in Key
         /\ \A c \in Call : c = made + 1 => pc[c] = "idle" /\ conn[c] = "none"
         /\ \A k \in Key : OwnerOf(k) \in Owner
         /\ None \notin Call /\ None \notin Key
<1>1. \A c \in Call : c = made + 1 => ~(c <= made)
  BY DEF AiInv, AiTyped, Call
<1>2. None \notin Call /\ None \notin Key
  BY ClaimsAssumption
<1> QED
  BY <1>1, <1>2 DEF AiInv, AiTyped, CallsAsked, RepliesSound, Key, OwnerOf

(* What is spoken is spoken by a call, or by nobody.                       *)
LEMMA AiSays ==
  ASSUME NEW c \in Call
  PROVE  /\ Ai!Say(c) => io' \in Call \cup {None}
         /\ Ai!SayIfCurrent(c) => io' \in Call \cup {None}
  BY DEF Ai!Say, Ai!SayIfCurrent

(* Every step of the AI chats keeps what is known of their bookkeeping.     *)
LEMMA AiKept ==
  ASSUME AiInv, Ai!AiNext
  PROVE  AiInv'
<1>0. /\ AiTyped /\ CallsAsked /\ ChatsBound /\ RepliesSound
      /\ Ai!Call = Call /\ Ai!Key = Key
  BY AiSets DEF AiInv
<1>1. ASSUME NEW c \in Call, NEW k \in Key, Ai!ChatRejected(c, k) PROVE AiInv'
  <2>1. /\ c = made + 1 /\ keyOf' = [keyOf EXCEPT ![c] = k] /\ made' = c
        /\ pc' = [pc EXCEPT ![c] = "failed"] /\ io' = None
        /\ UNCHANGED <<alive, conn, entryBound, connections, cancelledGenerations>>
    BY <1>1 DEF Ai!ChatRejected, Ai!Reject, Ai!Arrive, Ai!Answer, Ai!boundVars
  <2>2. pc[c] = "idle" /\ conn[c] = "none" /\ keyOf[c] \notin Key
    BY <2>1, AiFacts
  <2>3. AiTyped' /\ CallsAsked'
    BY <1>0, <2>1, AiFacts DEF AiTyped, CallsAsked, Settled, Call
  <2>4. ChatsBound' /\ RepliesSound'
    BY <1>0, <2>1, <2>2, AiFacts DEF AiTyped, ChatsBound, RepliesSound
  <2>5. NoClaims'
    BY <1>1 DEF AiInv, NoClaims, Ai!ChatRejected, Ai!Reject, Ai!boundVars
  <2> QED
    BY <2>3, <2>4, <2>5 DEF AiInv
<1>2. ASSUME NEW c \in Call, NEW k \in Key, Ai!Chat(c, k) PROVE AiInv'
  <2>1. /\ c = made + 1 /\ keyOf' = [keyOf EXCEPT ![c] = k] /\ made' = c
        /\ pc' = [pc EXCEPT ![c] = "resolving"] /\ io' = None
        /\ OwnerOf(k) \in alive
        /\ connections' = [connections EXCEPT ![k] = c]
        /\ cancelledGenerations' = [cancelledGenerations EXCEPT ![k] = None]
        /\ entryBound' = entryBound \cup {OwnerOf(k)}
        /\ alive' = alive /\ UNCHANGED Ai!unusedVars
    BY <1>2
    DEF Ai!Chat, Ai!Arrive, Ai!Answer, Ai!Put, Ai!Drop, Ai!Bind, Ai!OwnerOf, OwnerOf
  <2>2. conn' = [d \in Call |-> IF d = connections[k] /\ conn[d] = "up"
                                THEN "aborted" ELSE conn[d]]
    BY <1>0, <1>2 DEF Ai!Chat, Ai!Aborted
  <2>3. pc[c] = "idle" /\ conn[c] = "none" /\ keyOf[c] \notin Key
    BY <2>1, AiFacts
  <2>4. AiTyped' /\ CallsAsked'
    BY <1>0, <2>1, <2>2, AiFacts DEF AiTyped, CallsAsked, Settled, Call
  <2>5. ChatsBound'
    BY <1>0, <2>1, <2>2, <2>3, AiFacts DEF AiTyped, ChatsBound
  <2>6. RepliesSound'
    BY <1>0, <2>1, <2>2, <2>3, AiFacts DEF AiTyped, RepliesSound
  <2>7. NoClaims'
    BY <2>1 DEF AiInv, NoClaims, Ai!unusedVars
  <2> QED
    BY <2>4, <2>5, <2>6, <2>7 DEF AiInv
<1>3. ASSUME NEW c \in Call, Ai!Unresolved(c) \/ Ai!Start(c) PROVE AiInv'
  <2>1. /\ pc[c] = "resolving" /\ io' = None
        /\ UNCHANGED <<made, keyOf, entryBound, alive, cancelledGenerations>>
        /\ UNCHANGED Ai!unusedVars
    BY <1>3 DEF Ai!Unresolved, Ai!Start
  <2>2. keyOf[c] \in Key /\ conn[c] = "none"
    BY <1>0, <2>1, AiFacts DEF AiTyped, RepliesSound
  <2>3. \/ /\ pc' = [pc EXCEPT ![c] = "failed"] /\ conn' = conn
           /\ connections' = [connections EXCEPT ![keyOf[c]] = None]
           /\ connections[keyOf[c]] = c
        \/ /\ pc' = [pc EXCEPT ![c] = "failed"] /\ conn' = conn
           /\ connections' = connections
           /\ connections[keyOf[c]] # c
        \/ /\ pc' = [pc EXCEPT ![c] = "ok"] /\ conn' = [conn EXCEPT ![c] = "up"]
           /\ connections' = connections
           /\ connections[keyOf[c]] = c
    BY <1>3, AiSets DEF Ai!Unresolved, Ai!Start, Ai!Answer, Ai!Becomes, Drop
  <2>4. AiTyped' /\ CallsAsked'
    BY <1>0, <2>1, <2>2, <2>3, AiFacts DEF AiTyped, CallsAsked, Settled
  <2>5. ChatsBound'
    BY <1>0, <2>1, <2>2, <2>3, AiFacts DEF AiTyped, ChatsBound
  <2>6. RepliesSound'
    BY <1>0, <2>1, <2>2, <2>3, AiFacts DEF AiTyped, RepliesSound
  <2>7. NoClaims'
    BY <2>1 DEF AiInv, NoClaims, Ai!unusedVars
  <2> QED
    BY <2>4, <2>5, <2>6, <2>7 DEF AiInv
<1>4. ASSUME NEW c \in Call, Ai!Chunk(c) PROVE AiInv'
  <2>1. /\ io' \in Call \cup {None}
        /\ UNCHANGED <<made, pc, keyOf, connections, entryBound, alive, conn,
                       cancelledGenerations>>
        /\ UNCHANGED Ai!unusedVars
    BY <1>4, AiSays DEF Ai!Chunk
  <2> QED
    BY <1>0, <2>1
    DEF AiInv, AiTyped, CallsAsked, ChatsBound, RepliesSound, NoClaims, Ai!unusedVars
<1>5. ASSUME NEW c \in Call, Ai!Done(c) \/ Ai!Throws(c) PROVE AiInv'
  <2>1. /\ conn[c] \in {"up", "aborted"} /\ conn' = [conn EXCEPT ![c] = "over"]
        /\ io' \in Call \cup {None} /\ UNCHANGED <<made, pc, keyOf, entryBound, alive>>
        /\ UNCHANGED Ai!unusedVars
    BY <1>5, AiSays DEF Ai!Done, Ai!Throws, Ai!Settled, Ai!Becomes
  <2>2. keyOf[c] \in Key /\ pc[c] = "ok"
    BY <1>0, <2>1, AiFacts DEF RepliesSound
  <2>3. \/ connections' = [connections EXCEPT ![keyOf[c]] = None] /\ connections[keyOf[c]] = c
        \/ connections' = connections /\ connections[keyOf[c]] # c
    BY <1>5, AiSets DEF Ai!Done, Ai!Throws, Ai!Settled, Drop
  <2>4. \/ cancelledGenerations' = [cancelledGenerations EXCEPT ![keyOf[c]] = None]
        \/ cancelledGenerations' = cancelledGenerations
    BY <1>5, AiSets DEF Ai!Done, Ai!Throws, Ai!Settled, Drop
  <2>5. AiTyped' /\ CallsAsked'
    BY <1>0, <2>1, <2>2, <2>3, <2>4, AiFacts DEF AiTyped, CallsAsked
  <2>6. ChatsBound'
    BY <1>0, <2>1, <2>2, <2>3, <2>4, AiFacts DEF AiTyped, ChatsBound
  <2>7. RepliesSound'
    BY <1>0, <2>1, <2>2, <2>3, AiFacts DEF AiTyped, RepliesSound
  <2>8. NoClaims'
    BY <2>1 DEF AiInv, NoClaims, Ai!unusedVars
  <2> QED
    BY <2>5, <2>6, <2>7, <2>8 DEF AiInv
<1>6. ASSUME NEW k \in Key, Ai!ChatCancel(k) PROVE AiInv'
  <2>1. /\ connections[k] # None /\ connections[k] \in Call
        /\ cancelledGenerations' = [cancelledGenerations EXCEPT ![k] = connections[k]]
        /\ connections' = [connections EXCEPT ![k] = None]
        /\ UNCHANGED <<made, pc, keyOf, entryBound, alive>> /\ UNCHANGED Ai!unusedVars
    BY <1>0, <1>6 DEF Ai!ChatCancel, Ai!Put, Ai!Drop, AiTyped
  <2>2. conn' = [d \in Call |-> IF d = connections[k] /\ conn[d] = "up"
                                THEN "aborted" ELSE conn[d]]
    BY <1>0, <1>6 DEF Ai!ChatCancel, Ai!Aborted
  <2>3. io' \in Call \cup {None}
    BY <1>6, <2>1, AiSays DEF Ai!ChatCancel
  <2>4. AiTyped' /\ CallsAsked'
    BY <1>0, <2>1, <2>2, <2>3, AiFacts DEF AiTyped, CallsAsked
  <2>5. ChatsBound'
    BY <1>0, <2>1, <2>2, AiFacts DEF AiTyped, ChatsBound
  <2>6. RepliesSound'
    BY <1>0, <2>1, <2>2, AiFacts DEF AiTyped, RepliesSound
  <2>7. NoClaims'
    BY <2>1 DEF AiInv, NoClaims, Ai!unusedVars
  <2> QED
    BY <2>4, <2>5, <2>6, <2>7 DEF AiInv
<1>7. ASSUME NEW gone, gone \subseteq Key,
             connections' = [k \in Key |-> IF k \in gone THEN None ELSE connections[k]],
             conn' = [c \in Call |-> IF (\E k \in gone : connections[k] = c) /\ conn[c] = "up"
                                     THEN "aborted" ELSE conn[c]],
             \/ cancelledGenerations' = cancelledGenerations
             \/ cancelledGenerations' = [k \in Key |-> None],
             alive' \subseteq alive, entryBound' \subseteq alive',
             \A k \in Key \ gone : connections[k] # None => OwnerOf(k) \in entryBound',
             io' = None, UNCHANGED <<made, pc, keyOf>>, NoClaims'
      PROVE  AiInv'
  <2>1. AiTyped' /\ CallsAsked'
    BY <1>0, <1>7 DEF AiTyped, CallsAsked
  <2>2. ASSUME NEW k \in Key, connections'[k] # None
        PROVE  k \notin gone /\ connections'[k] = connections[k]
    BY <1>7, <2>2
  <2>3. ASSUME NEW k \in Key, connections'[k] # None
        PROVE  conn'[connections[k]] = conn[connections[k]]
    <3>1. \A j \in gone : connections[j] # connections[k]
      BY <1>0, <1>7, <2>2, <2>3 DEF ChatsBound
    <3> QED
      BY <1>0, <1>7, <2>2, <2>3, <3>1 DEF AiTyped
  <2>4. ChatsBound'
    BY <1>0, <1>7, <2>2, <2>3 DEF AiTyped, ChatsBound
  <2>5. RepliesSound'
    <3>1. ASSUME NEW c \in Call, conn'[c] = "up" PROVE connections'[keyOf'[c]] = c
      <4>1. conn[c] = "up" /\ (\A k \in gone : connections[k] # c)
        BY <1>0, <1>7, <3>1 DEF AiTyped
      <4>2. connections[keyOf[c]] = c /\ keyOf[c] \in Key
        BY <1>0, <4>1, AiFacts DEF RepliesSound
      <4> QED
        BY <1>7, <4>1, <4>2
    <3>2. \A c \in Call : conn'[c] # "none" => conn[c] # "none"
      BY <1>7
    <3> QED
      BY <1>0, <1>7, <3>1, <3>2 DEF RepliesSound
  <2> QED
    BY <1>7, <2>1, <2>4, <2>5 DEF AiInv
<1>8. ASSUME NEW o \in Owner, Ai!ChatDestroyed(o) PROVE AiInv'
  <2> DEFINE gone == {k \in Key : OwnerOf(k) = o}
  <2>1. /\ o \in alive /\ alive' = alive \ {o} /\ entryBound' = entryBound \ {o}
        /\ claimBound' = {} /\ pending' = pending /\ ownerEntry' = ownerEntry
        /\ io' = None /\ UNCHANGED <<made, pc, keyOf, cancelledGenerations>>
    BY <1>8
    DEF Ai!ChatDestroyed, Ai!TornDown, Ai!AfterDestroyed, AiInv, NoClaims
  <2>2. connections' = [k \in Key |-> IF k \in gone THEN None ELSE connections[k]]
    <3>1. CASE o \in entryBound
      BY <1>8, <3>1, AiSets
      DEF Ai!ChatDestroyed, Ai!TornDown, Ai!AfterDestroyed, Ai!WithoutOwner
    <3>2. CASE o \notin entryBound
      <4>1. \A k \in gone : connections[k] = None
        BY <1>0, <3>2 DEF ChatsBound
      <4> QED
        BY <1>0, <1>8, <3>2, <4>1 DEF Ai!ChatDestroyed, Ai!TornDown, Ai!AfterDestroyed, AiTyped
    <3> QED
      BY <3>1, <3>2
  <2>3. conn' = [c \in Call |-> IF (\E k \in gone : connections[k] = c) /\ conn[c] = "up"
                                THEN "aborted" ELSE conn[c]]
    <3>1. \A c \in Call : c \in Ai!DisposedOnDestroyed(connections, entryBound, o)
                            <=> \E k \in gone : connections[k] = c
      <4>1. \A c \in Call : c \in Ai!OwnedBy(connections, o) <=> \E k \in gone : connections[k] = c
        BY AiSets, AiFacts DEF Ai!OwnedBy, Ai!KeysIn
      <4>2. o \notin entryBound => \A k \in gone : connections[k] = None
        BY <1>0 DEF ChatsBound
      <4> QED
        BY <4>1, <4>2, AiFacts DEF Ai!DisposedOnDestroyed
    <3> QED
      BY <1>0, <1>8, <3>1 DEF Ai!ChatDestroyed, Ai!Aborted
  <2>4. /\ gone \subseteq Key /\ alive' \subseteq alive /\ entryBound' \subseteq alive'
        /\ \A k \in Key \ gone : connections[k] # None => OwnerOf(k) \in entryBound'
    BY <1>0, <2>1 DEF ChatsBound
  <2>5. NoClaims'
    BY <2>1 DEF AiInv, NoClaims
  <2> HIDE DEF gone
  <2> QED
    BY <1>7, <2>1, <2>2, <2>3, <2>4, <2>5
<1>9. ASSUME Ai!Unregister PROVE AiInv'
  <2>1. /\ io' = None /\ UNCHANGED <<made, pc, keyOf, entryBound, alive>>
        /\ cancelledGenerations' = [k \in Key |-> None]
        /\ connections' = [k \in Key |-> IF k \in Key THEN None ELSE connections[k]]
    BY <1>9, AiSets DEF Ai!Unregister, EmptyMap
  <2>2. conn' = [c \in Call |-> IF (\E k \in Key : connections[k] = c) /\ conn[c] = "up"
                                THEN "aborted" ELSE conn[c]]
    <3>1. \A c \in Call : c \in Ai!Entries(connections) <=> \E k \in Key : connections[k] = c
      BY AiSets, AiFacts DEF Ai!Entries, Ai!KeysIn
    <3> QED
      BY <1>0, <1>9, <3>1 DEF Ai!Unregister, Ai!Aborted
  <2>3. NoClaims'
    BY <1>9 DEF AiInv, NoClaims, Ai!Unregister, Ai!unusedVars
  <2>4. entryBound' \subseteq alive' /\ alive' \subseteq alive
    BY <1>0, <2>1 DEF ChatsBound
  <2> QED
    BY <1>7, <2>1, <2>2, <2>3, <2>4
<1> QED
  BY <1>0, <1>1, <1>2, <1>3, <1>4, <1>5, <1>6, <1>8, <1>9 DEF Ai!AiNext

(* In every reachable state chats, entries and replies agree.              *)
THEOREM AiInvariance == AiSpec => []AiInv
<1>1. ClaimsInit /\ Ai!AiInit => AiInv
  BY ClaimsAssumption, AiSets
  DEF ClaimsInit, Ai!AiInit, AiInv, AiTyped, CallsAsked, ChatsBound, RepliesSound, NoClaims,
      Settled, Call, EmptyMap
<1>2. AiInv /\ [Ai!AiNext]_<<claimVars, cancelledGenerations>> => AiInv'
  <2>1. AiInv /\ UNCHANGED <<claimVars, cancelledGenerations>> => AiInv'
    BY DEF claimVars, AiInv, AiTyped, CallsAsked, ChatsBound, RepliesSound, NoClaims
  <2> QED
    BY <2>1, AiKept
<1> QED
  BY <1>1, <1>2, PTL DEF AiSpec

(* The invariant says what AiTracked does.                                 *)
LEMMA AiGives == ASSUME AiInv PROVE Ai!AiTracked
  BY AiSets DEF AiInv, ChatsBound, RepliesSound, Ai!AiTracked, Ai!KeysIn

-------------------------------------------------------------------------------
(* The completions of the laboratory                                       *)

Completing == {"resolving", "waiting", "completing"}

Holders == {c \in Call : pc[c] = "completing"}

LabTyped ==
    /\ made \in 0 .. MaxCalls
    /\ pc \in [Call -> Settled \cup Completing]
    /\ keyOf \in [Call -> Lab!Key \cup {None}]
    /\ activeCompletes \in [Lab!Key -> Call \cup {None}]
    /\ signalled \subseteq Call
    /\ inUse \in Nat /\ waiters \in Seq(Call)
    /\ alive \subseteq Owner

LabAsked ==
    \A c \in Call : IF c <= made THEN keyOf[c] \in Lab!Key /\ pc[c] # "idle"
                                 ELSE keyOf[c] = None /\ pc[c] = "idle"

CompletesBound ==
    /\ entryBound \subseteq alive
    /\ \A k \in Lab!Key : activeCompletes[k] # None =>
          /\ keyOf[activeCompletes[k]] = k /\ OwnerOf(k) \in entryBound
          /\ pc[activeCompletes[k]] \in Completing

(* Who is registered no more was aborted, and does not wait for a slot.    *)
CompletesReachable ==
    \A c \in Call :
       /\ c \in signalled => pc[c] \in {"resolving", "completing"}
       /\ pc[c] \in Completing /\ c \notin signalled => activeCompletes[keyOf[c]] = c

Once(q) == \A i, j \in DOMAIN q : i # j => q[i] # q[j]

(* A slot is of a call that completes; the queue has who waits, once each, *)
(* and is empty while a slot is free.                                      *)
SlotsSound ==
    /\ inUse = Cardinality(Holders) /\ inUse <= MaxSlots
    /\ Once(waiters)
    /\ \A c \in Call : pc[c] = "waiting" <=> \E i \in DOMAIN waiters : waiters[i] = c
    /\ waiters # << >> => inUse = MaxSlots

LabIdle ==
    /\ NoClaims /\ connections = EmptyMap /\ io = None
    /\ conn = [c \in Call |-> "none"]

LabInv ==
    /\ LabTyped /\ LabAsked /\ CompletesBound /\ CompletesReachable /\ SlotsSound
    /\ LabIdle

LabSpec ==
    ClaimsInit /\ Lab!LabInit /\ [][Lab!LabNext]_<<claimVars, Lab!labVars>>

(* The completions instance has the calls of the claims and an empty map of *)
(* its own keys.                                                            *)
LEMMA LabSets ==
  /\ Lab!Call = Call /\ Lab!EmptyMap = [k \in Lab!Key |-> None]
  /\ \A k : Lab!OwnerOf(k) = OwnerOf(k)
  BY DEF Lab!Call, Call, Lab!OwnerOf, OwnerOf, Lab!EmptyMap

(* What every step of the completions starts from: keys are given on        *)
(* arrival, the next call is unused, and the queue and the slots held are   *)
(* finite.                                                                  *)
LEMMA LabFacts ==
  ASSUME LabInv
  PROVE  /\ \A c \in Call : pc[c] # "idle" => keyOf[c] \in Lab!Key
         /\ \A c \in Call : c = made + 1 => pc[c] = "idle" /\ c \notin signalled
         /\ \A k \in Lab!Key : OwnerOf(k) \in Owner
         /\ None \notin Call
         /\ DOMAIN waiters = 1 .. Len(waiters) /\ Len(waiters) \in Nat
         /\ IsFiniteSet(Holders)
<1>1. \A c \in Call : c = made + 1 => ~(c <= made)
  BY DEF LabInv, LabTyped, Call
<1>2. None \notin Call
  BY ClaimsAssumption
<1>3. IsFiniteSet(Holders)
  <2>1. IsFiniteSet(Call) /\ Holders \subseteq Call
    BY ClaimsAssumption, FS_Interval DEF Call, Holders
  <2> QED
    BY <2>1, FS_Subset
<1>4. DOMAIN waiters = 1 .. Len(waiters) /\ Len(waiters) \in Nat
  BY DEF LabInv, LabTyped
<1> QED
  BY <1>1, <1>2, <1>3, <1>4
  DEF LabInv, LabAsked, CompletesReachable, Lab!Key, OwnerOf

(* The queue when its first leaves and when a call joins.                  *)
LEMMA QueueTail ==
  ASSUME NEW q \in Seq(Call), q # << >>, Once(q)
  PROVE  /\ Tail(q) \in Seq(Call) /\ Once(Tail(q)) /\ Head(q) \in Call
         /\ \A c \in Call : (\E i \in DOMAIN Tail(q) : Tail(q)[i] = c)
               <=> c # Head(q) /\ (\E i \in DOMAIN q : q[i] = c)
<1> DEFINE t == Tail(q)
           n == Len(q)
<1>1. /\ n \in Nat \ {0} /\ DOMAIN q = 1 .. n /\ t \in Seq(Call)
      /\ DOMAIN t = 1 .. n - 1 /\ (\A i \in 1 .. n - 1 : t[i] = q[i + 1])
      /\ Head(q) = q[1] /\ Head(q) \in Call
  OBVIOUS
<1> HIDE DEF t, n
<1>2. \A i \in 1 .. n - 1 : i + 1 \in 1 .. n /\ i + 1 # 1
  BY <1>1
<1>3. \A i \in 1 .. n : i # 1 => i - 1 \in 1 .. n - 1 /\ (i - 1) + 1 = i
  BY <1>1
<1>4. 1 \in 1 .. n
  BY <1>1
<1>5. Once(t)
  <2>1. ASSUME NEW i \in 1 .. n - 1, NEW j \in 1 .. n - 1, i # j PROVE t[i] # t[j]
    <3>1. i + 1 # j + 1
      BY <2>1
    <3> QED
      BY ZenonT(40), <1>1, <1>2, <3>1 DEF Once
  <2> QED
    BY <1>1, <2>1 DEF Once
<1>6. ASSUME NEW c \in Call
      PROVE (\E i \in DOMAIN t : t[i] = c) <=> c # Head(q) /\ (\E i \in DOMAIN q : q[i] = c)
  <2>1. ASSUME NEW i \in 1 .. n - 1, t[i] = c
        PROVE  c # Head(q) /\ (\E j \in 1 .. n : q[j] = c)
    BY <1>1, <1>2, <1>4, <2>1 DEF Once
  <2>2. ASSUME NEW i \in 1 .. n, q[i] = c, c # Head(q)
        PROVE  \E j \in 1 .. n - 1 : t[j] = c
    <3>1. i # 1
      BY <1>1, <2>2
    <3> QED
      BY <1>1, <1>3, <2>2, <3>1
  <2> QED
    BY <1>1, <2>1, <2>2
<1> QED
  BY <1>1, <1>5, <1>6 DEF t

(* A call put at the end of the queue is in it, once, with those before it. *)
LEMMA QueueAppend ==
  ASSUME NEW q \in Seq(Call), Once(q), NEW d \in Call, \A i \in DOMAIN q : q[i] # d
  PROVE  /\ Append(q, d) \in Seq(Call) /\ Once(Append(q, d))
         /\ \A c \in Call : (\E i \in DOMAIN Append(q, d) : Append(q, d)[i] = c)
               <=> c = d \/ (\E i \in DOMAIN q : q[i] = c)
<1> DEFINE t == Append(q, d)
           n == Len(q)
<1>1. /\ n \in Nat /\ DOMAIN q = 1 .. n /\ t \in Seq(Call)
      /\ DOMAIN t = 1 .. n + 1 /\ (\A i \in 1 .. n : t[i] = q[i])
      /\ t[n + 1] = d
  OBVIOUS
<1> HIDE DEF t, n
<1>2. \A i \in 1 .. n + 1 : i = n + 1 \/ i \in 1 .. n
  BY <1>1
<1>3. \A i \in 1 .. n : i \in 1 .. n + 1 /\ i # n + 1
  BY <1>1
<1>4. n + 1 \in 1 .. n + 1
  BY <1>1
<1>5. Once(t)
  <2>1. ASSUME NEW i \in 1 .. n + 1, NEW j \in 1 .. n + 1, i # j PROVE t[i] # t[j]
    BY <1>1, <1>2, <2>1 DEF Once
  <2> QED
    BY <1>1, <2>1 DEF Once
<1>6. ASSUME NEW c \in Call
      PROVE (\E i \in DOMAIN t : t[i] = c) <=> c = d \/ (\E i \in DOMAIN q : q[i] = c)
  <2>1. ASSUME NEW i \in 1 .. n + 1, t[i] = c PROVE c = d \/ \E j \in 1 .. n : q[j] = c
    BY <1>1, <1>2, <2>1
  <2>2. ASSUME NEW j \in 1 .. n, q[j] = c PROVE \E i \in 1 .. n + 1 : t[i] = c
    BY <1>1, <1>3, <2>2
  <2>3. \E i \in 1 .. n + 1 : t[i] = d
    BY <1>1, <1>4
  <2> QED
    BY <1>1, <2>1, <2>2, <2>3
<1> QED
  BY <1>1, <1>5, <1>6 DEF t

(* The queue when waiting calls are aborted.                               *)
LEMMA QueueLeft ==
  ASSUME LabInv, NEW gone, NEW q \in Lab!QueueWithout(gone)
  PROVE  /\ q \in Seq(Call) /\ Once(q)
         /\ \A c \in Call : (\E i \in DOMAIN q : q[i] = c)
               <=> c \notin gone /\ (\E i \in DOMAIN waiters : waiters[i] = c)
         /\ q # << >> => waiters # << >>
<1>1. /\ q \in Lab!SeqOf(Lab!ToSet(waiters) \ gone, Len(waiters))
      /\ Lab!ToSet(q) = Lab!ToSet(waiters) \ gone
      /\ \A i, j \in DOMAIN q, m, n \in DOMAIN waiters :
            q[i] = waiters[m] /\ q[j] = waiters[n] => (i < j <=> m < n)
  BY DEF Lab!QueueWithout
<1>2. \A c : /\ c \in Lab!ToSet(q) <=> \E i \in DOMAIN q : q[i] = c
             /\ c \in Lab!ToSet(waiters) <=> \E i \in DOMAIN waiters : waiters[i] = c
  BY DEF Lab!ToSet
<1>3. Lab!ToSet(waiters) \subseteq Call
  BY <1>2 DEF LabInv, LabTyped
<1>4. PICK len \in Nat : q \in [1 .. len -> Lab!ToSet(waiters) \ gone]
  BY <1>1, LabFacts DEF Lab!SeqOf
<1>5. q \in Seq(Call) /\ DOMAIN q = 1 .. len
  BY <1>3, <1>4
<1>6. Once(q)
  <2>1. ASSUME NEW i \in DOMAIN q, NEW j \in DOMAIN q, i < j PROVE q[i] # q[j]
    <3>1. PICK m \in DOMAIN waiters : waiters[m] = q[i]
      BY <1>1, <1>2
    <3>2. ~(m < m)
      BY LabFacts
    <3> QED
      BY <1>1, <2>1, <3>1, <3>2
  <2>2. \A i, j \in 1 .. len : i # j => i < j \/ j < i
    OBVIOUS
  <2> QED
    BY <1>5, <2>1, <2>2 DEF Once
<1>7. q # << >> => waiters # << >>
  <2>1. ASSUME q # << >> PROVE waiters # << >>
    <3>0. Len(q) \in Nat \ {0} /\ DOMAIN q = 1 .. Len(q)
      BY <1>5, <2>1
    <3>1. PICK i : i \in DOMAIN q
      BY <3>0
    <3>2. q[i] \in Lab!ToSet(waiters)
      BY <1>1, <1>2, <3>1
    <3>3. PICK m : m \in DOMAIN waiters
      BY <1>2, <3>2
    <3> QED
      BY <3>3
  <2> QED
    BY <2>1
<1> QED
  BY <1>1, <1>2, <1>5, <1>6, <1>7

(* Aborting some completions, whoever asked for it, keeps the slots counted *)
(* and the queue free of the aborted.                                       *)
LEMMA AbortKeeps ==
  ASSUME LabInv, NEW cs, NEW map, Lab!AbortAll(cs, map),
         \A c \in cs : c \in Call /\ pc[c] \in Completing,
         \A k \in Lab!Key : \/ map[k] = activeCompletes[k]
                            \/ map[k] = None /\ activeCompletes[k] \in cs,
         \A k \in Lab!Key : map[k] # None => OwnerOf(k) \in entryBound',
         alive' \subseteq alive, entryBound' \subseteq alive',
         UNCHANGED <<made, keyOf, inUse>>, UNCHANGED Lab!unusedVars
  PROVE  LabInv'
<1> DEFINE gone == {c \in cs : pc[c] = "waiting"}
<1>0. /\ LabTyped /\ LabAsked /\ CompletesBound /\ CompletesReachable /\ SlotsSound
      /\ None \notin Call
  BY LabFacts DEF LabInv
<1>1. /\ signalled' = signalled \cup (cs \ gone)
      /\ waiters' \in Lab!QueueWithout(gone)
      /\ pc' = [c \in Call |-> IF c \in gone THEN "failed" ELSE pc[c]]
      /\ activeCompletes' = [k \in Lab!Key |-> IF map[k] \in gone THEN None ELSE map[k]]
  BY LabSets DEF Lab!AbortAll, Lab!Unregistered
<1>2. \A c \in gone : c \in Call /\ c \in cs /\ pc[c] = "waiting"
  OBVIOUS
<1>3. \A c \in cs : c \notin gone => pc[c] \in {"resolving", "completing"}
  BY DEF Completing
<1> HIDE DEF gone
<1>4. LabTyped'
  <2>1. waiters' \in Seq(Call)
    BY <1>1, QueueLeft
  <2>2. activeCompletes' \in [Lab!Key -> Call \cup {None}]
    BY <1>0, <1>1 DEF LabTyped
  <2> QED
    BY <1>0, <1>1, <2>1, <2>2 DEF LabTyped, Settled
<1>5. LabAsked'
  <2>1. \A c \in Call : pc'[c] = "idle" <=> pc[c] = "idle"
    BY <1>1, <1>2
  <2> QED
    BY <1>0, <2>1 DEF LabAsked
<1>6. CompletesBound'
  <2>1. ASSUME NEW k \in Lab!Key, activeCompletes'[k] # None
        PROVE  /\ activeCompletes'[k] = activeCompletes[k] /\ activeCompletes[k] \in Call
               /\ activeCompletes[k] \notin gone /\ map[k] # None
    BY <1>0, <1>1, <2>1 DEF LabTyped
  <2>2. ASSUME NEW k \in Lab!Key, activeCompletes'[k] # None
        PROVE  pc'[activeCompletes[k]] = pc[activeCompletes[k]]
    BY <1>1, <2>1, <2>2
  <2> QED
    BY <1>0, <2>1, <2>2 DEF CompletesBound
<1>7. CompletesReachable'
  <2>1. ASSUME NEW c \in Call, c \in signalled' PROVE pc'[c] \in {"resolving", "completing"}
    <3>1. c \notin gone /\ pc[c] \in {"resolving", "completing"}
      BY <1>0, <1>1, <1>2, <1>3, <2>1 DEF CompletesReachable
    <3> QED
      BY <1>1, <3>1
  <2>2. ASSUME NEW c \in Call, pc'[c] \in Completing, c \notin signalled'
        PROVE  activeCompletes'[keyOf'[c]] = c
    <3>1. c \notin gone /\ pc[c] \in Completing /\ c \notin signalled /\ c \notin cs
      BY <1>1, <2>2 DEF Completing
    <3>2. activeCompletes[keyOf[c]] = c /\ keyOf[c] \in Lab!Key
      BY <1>0, <3>1, LabFacts DEF CompletesReachable, Completing
    <3> QED
      BY <1>1, <3>1, <3>2
  <2> QED
    BY <2>1, <2>2 DEF CompletesReachable
<1>8. SlotsSound'
  <2>1. Holders' = Holders
    BY <1>1, <1>2 DEF Holders
  <2>2. ASSUME NEW c \in Call
        PROVE  pc'[c] = "waiting" <=> \E i \in DOMAIN waiters' : waiters'[i] = c
    <3>1. pc'[c] = "waiting" <=> c \notin gone /\ pc[c] = "waiting"
      BY <1>1
    <3>2. pc[c] = "waiting" <=> \E i \in DOMAIN waiters : waiters[i] = c
      BY <1>0 DEF SlotsSound
    <3>3. (\E i \in DOMAIN waiters' : waiters'[i] = c)
             <=> c \notin gone /\ (\E i \in DOMAIN waiters : waiters[i] = c)
      BY <1>1, QueueLeft
    <3> QED
      BY <3>1, <3>2, <3>3
  <2>3. Once(waiters') /\ (waiters' # << >> => waiters # << >>)
    BY <1>1, QueueLeft
  <2> QED
    BY <1>0, <2>1, <2>2, <2>3 DEF SlotsSound, Once
<1>9. LabIdle'
  BY DEF LabInv, LabIdle, NoClaims, Lab!unusedVars
<1> QED
  BY <1>4, <1>5, <1>6, <1>7, <1>8, <1>9 DEF LabInv

(* Every step of the completions keeps their slots counted and their queue  *)
(* sound.                                                                   *)
LEMMA LabKept ==
  ASSUME LabInv, Lab!LabNext
  PROVE  LabInv'
<1>0. /\ LabTyped /\ LabAsked /\ CompletesBound /\ CompletesReachable /\ SlotsSound
      /\ Lab!Call = Call
  BY LabSets DEF LabInv
<1>1. ASSUME NEW c \in Call, NEW k \in Lab!Key,
             Lab!CompleteRefused(c, k) \/ Lab!Complete(c, k)
      PROVE  LabInv'
  <2>1. /\ c = made + 1 /\ keyOf' = [keyOf EXCEPT ![c] = k] /\ made' = c
        /\ OwnerOf(k) \in alive
        /\ UNCHANGED <<alive, signalled, inUse, waiters>> /\ UNCHANGED Lab!unusedVars
    BY <1>1, LabSets
    DEF Lab!CompleteRefused, Lab!Complete, Lab!Arrive, Lab!labVars
  <2>2. \/ /\ pc' = [pc EXCEPT ![c] = "failed"]
           /\ UNCHANGED <<activeCompletes, entryBound>>
        \/ /\ pc' = [pc EXCEPT ![c] = "resolving"] /\ activeCompletes[k] = None
           /\ activeCompletes' = [activeCompletes EXCEPT ![k] = c]
           /\ entryBound' = entryBound \cup {OwnerOf(k)}
    BY <1>1, <2>1, LabSets
    DEF Lab!CompleteRefused, Lab!Complete, Lab!Answer, Lab!Put, Lab!Bind, Lab!labVars
  <2>3. pc[c] = "idle" /\ c \notin signalled
    BY <2>1, LabFacts
  <2>4. LabTyped' /\ LabAsked'
    <3>1. LabTyped'
      BY <1>0, <2>1, <2>2 DEF LabTyped, Settled, Completing, Call
    <3>2. /\ keyOf'[c] = k /\ pc'[c] # "idle"
          /\ \A d \in Call : d # c => keyOf'[d] = keyOf[d] /\ pc'[d] = pc[d]
      BY <1>0, <2>1, <2>2 DEF LabTyped
    <3>3. \A d \in Call : d # c => (d <= made' <=> d <= made)
      BY <1>0, <2>1 DEF LabTyped, Call
    <3>4. c <= made'
      BY <2>1 DEF Call
    <3> QED
      BY <1>0, <3>1, <3>2, <3>3, <3>4 DEF LabAsked
  <2>5. CompletesBound'
    <3>1. \A j \in Lab!Key : activeCompletes[j] # c /\ OwnerOf(j) \in Owner
      BY <1>0, <2>3, LabFacts DEF CompletesBound, Completing
    <3>2. entryBound' \subseteq alive' /\ entryBound \subseteq entryBound'
      BY <1>0, <2>1, <2>2 DEF CompletesBound
    <3>3. ASSUME NEW j \in Lab!Key, activeCompletes'[j] # None
          PROVE  /\ keyOf'[activeCompletes'[j]] = j /\ OwnerOf(j) \in entryBound'
                 /\ pc'[activeCompletes'[j]] \in Completing
      <4>1. CASE activeCompletes'[j] = activeCompletes[j]
        <5>1. activeCompletes[j] \in Call /\ activeCompletes[j] # c
          BY <1>0, <3>1, <3>3, <4>1 DEF LabTyped
        <5>2. /\ keyOf'[activeCompletes[j]] = keyOf[activeCompletes[j]]
              /\ pc'[activeCompletes[j]] = pc[activeCompletes[j]]
          BY <1>0, <2>1, <2>2, <5>1 DEF LabTyped
        <5> QED
          BY <1>0, <3>2, <3>3, <4>1, <5>2 DEF CompletesBound
      <4>2. CASE activeCompletes'[j] # activeCompletes[j]
        <5>1. /\ j = k /\ activeCompletes'[j] = c /\ pc' = [pc EXCEPT ![c] = "resolving"]
              /\ entryBound' = entryBound \cup {OwnerOf(k)}
          BY <1>0, <2>2, <4>2 DEF LabTyped
        <5> QED
          BY <1>0, <2>1, <5>1 DEF LabTyped, Completing
      <4> QED
        BY <4>1, <4>2
    <3> QED
      BY <3>2, <3>3 DEF CompletesBound
  <2>6. CompletesReachable'
    BY <1>0, <2>1, <2>2, <2>3, LabFacts DEF LabTyped, CompletesReachable, Completing
  <2>7. SlotsSound'
    <3>1. /\ Holders' = Holders
          /\ \A d \in Call : pc'[d] = "waiting" <=> pc[d] = "waiting"
      BY <1>0, <2>2, <2>3 DEF Holders, LabTyped
    <3> QED
      BY <1>0, <2>1, <3>1 DEF SlotsSound, Once
  <2>8. LabIdle'
    BY <2>1 DEF LabInv, LabIdle, NoClaims, Lab!unusedVars
  <2> QED
    BY <2>4, <2>5, <2>6, <2>7, <2>8 DEF LabInv
<1>2. ASSUME NEW c \in Call, Lab!NotAdmitted(c) PROVE LabInv'
  <2>1. /\ pc[c] = "resolving" /\ pc' = [pc EXCEPT ![c] = "failed"]
        /\ activeCompletes' = [k \in Lab!Key |-> IF activeCompletes[k] = c THEN None
                                                 ELSE activeCompletes[k]]
        /\ signalled' = signalled \ {c}
        /\ UNCHANGED <<made, keyOf, entryBound, alive, inUse, waiters>>
        /\ UNCHANGED Lab!unusedVars
    BY <1>2 DEF Lab!NotAdmitted, Lab!Answer, Lab!Unregistered
  <2>2. LabTyped' /\ LabAsked'
    BY <1>0, <2>1 DEF LabTyped, LabAsked, Settled
  <2>3. CompletesBound' /\ CompletesReachable'
    BY <1>0, <2>1, LabFacts DEF LabTyped, CompletesBound, CompletesReachable, Completing
  <2>4. SlotsSound'
    <3>1. /\ Holders' = Holders
          /\ \A d \in Call : pc'[d] = "waiting" <=> pc[d] = "waiting"
      BY <1>0, <2>1 DEF Holders, LabTyped
    <3> QED
      BY <1>0, <2>1, <3>1 DEF SlotsSound, Once
  <2>5. LabIdle'
    BY <2>1 DEF LabInv, LabIdle, NoClaims, Lab!unusedVars
  <2> QED
    BY <2>2, <2>3, <2>4, <2>5 DEF LabInv
<1>3. ASSUME NEW c \in Call, Lab!Acquire(c) PROVE LabInv'
  <2>1. /\ pc[c] = "resolving" /\ c \notin signalled
        /\ UNCHANGED <<made, keyOf, entryBound, alive, activeCompletes, signalled>>
        /\ UNCHANGED Lab!unusedVars
    BY <1>3 DEF Lab!Acquire
  <2>2. LabIdle'
    BY <2>1 DEF LabInv, LabIdle, NoClaims, Lab!unusedVars
  <2>3. CASE inUse < MaxSlots
    <3>1. pc' = [pc EXCEPT ![c] = "completing"] /\ inUse' = inUse + 1 /\ waiters' = waiters
      BY <1>3, <2>3 DEF Lab!Acquire, Lab!Answer
    <3>2. LabTyped' /\ LabAsked'
      BY <1>0, <2>1, <3>1 DEF LabTyped, LabAsked, Completing
    <3>3. CompletesBound' /\ CompletesReachable'
      BY <1>0, <2>1, <3>1, LabFacts DEF LabTyped, CompletesBound, CompletesReachable, Completing
    <3>4. Holders' = Holders \cup {c} /\ c \notin Holders
      BY <1>0, <2>1, <3>1 DEF Holders, LabTyped
    <3>5. Cardinality(Holders') = Cardinality(Holders) + 1
      BY <3>4, LabFacts, FS_AddElement
    <3>6. \A d \in Call : pc'[d] = "waiting" <=> pc[d] = "waiting"
      BY <1>0, <2>1, <3>1 DEF LabTyped
    <3>7. waiters = << >> /\ inUse + 1 <= MaxSlots
      BY <1>0, <2>3, TransportsAssumption DEF SlotsSound, LabTyped
    <3>8. SlotsSound'
      BY <1>0, <3>1, <3>5, <3>6, <3>7 DEF SlotsSound, Once
    <3> QED
      BY <2>2, <3>2, <3>3, <3>8 DEF LabInv
  <2>4. CASE ~(inUse < MaxSlots)
    <3>1. /\ pc' = [pc EXCEPT ![c] = "waiting"] /\ inUse' = inUse
          /\ waiters' = Append(waiters, c)
      BY <1>3, <2>4 DEF Lab!Acquire, Lab!Answer
    <3>2. \A i \in DOMAIN waiters : waiters[i] # c
      BY <1>0, <2>1 DEF SlotsSound
    <3>3. /\ waiters' \in Seq(Call) /\ Once(waiters')
          /\ \A d \in Call : (\E i \in DOMAIN waiters' : waiters'[i] = d)
                <=> d = c \/ (\E i \in DOMAIN waiters : waiters[i] = d)
      BY <1>0, <3>1, <3>2, QueueAppend DEF SlotsSound, LabTyped
    <3>4. LabTyped' /\ LabAsked'
      BY <1>0, <2>1, <3>1, <3>3 DEF LabTyped, LabAsked, Completing
    <3>5. CompletesBound' /\ CompletesReachable'
      BY <1>0, <2>1, <3>1, LabFacts DEF LabTyped, CompletesBound, CompletesReachable, Completing
    <3>6. Holders' = Holders
      BY <1>0, <2>1, <3>1 DEF Holders, LabTyped
    <3>7. \A d \in Call : pc'[d] = "waiting" <=> d = c \/ pc[d] = "waiting"
      BY <1>0, <2>1, <3>1 DEF LabTyped
    <3>8. inUse = MaxSlots
      BY <1>0, <2>4, TransportsAssumption DEF SlotsSound, LabTyped
    <3>9. SlotsSound'
      BY <1>0, <3>1, <3>3, <3>6, <3>7, <3>8 DEF SlotsSound, Once
    <3> QED
      BY <2>2, <3>4, <3>5, <3>9 DEF LabInv
  <2> QED
    BY <2>3, <2>4
<1>4. ASSUME NEW c \in Call, Lab!Completed(c) PROVE LabInv'
  <2>1. /\ pc[c] = "completing"
        /\ activeCompletes' = [k \in Lab!Key |-> IF activeCompletes[k] = c THEN None
                                                 ELSE activeCompletes[k]]
        /\ signalled' = signalled \ {c}
        /\ UNCHANGED <<made, keyOf, entryBound, alive>>
        /\ UNCHANGED Lab!unusedVars
    BY <1>4 DEF Lab!Completed, Lab!Unregistered
  <2>2. LabIdle'
    BY <2>1 DEF LabInv, LabIdle, NoClaims, Lab!unusedVars
  <2>3. c \in Holders
    BY <2>1 DEF Holders
  <2>4. PICK how \in {"ok", "failed"} :
           \/ /\ waiters = << >> /\ pc' = [pc EXCEPT ![c] = how] /\ inUse' = inUse - 1
              /\ waiters' = waiters
           \/ /\ waiters # << >>
              /\ pc' = [pc EXCEPT ![c] = how, ![Head(waiters)] = "completing"]
              /\ waiters' = Tail(waiters) /\ inUse' = inUse
    BY <1>4 DEF Lab!Completed, Lab!Answer
  <2>5. CASE waiters = << >>
    <3>1. /\ pc' = [pc EXCEPT ![c] = how] /\ inUse' = inUse - 1 /\ waiters' = waiters
      BY <2>4, <2>5
    <3>2. Holders' = Holders \ {c}
      BY <1>0, <3>1 DEF Holders, LabTyped
    <3>3. /\ Cardinality(Holders') = Cardinality(Holders) - 1
          /\ Cardinality(Holders') \in Nat
      <4>1. IsFiniteSet(Holders) /\ IsFiniteSet(Holders \ {c})
        BY LabFacts, FS_RemoveElement
      <4> QED
        BY <2>3, <3>2, <4>1, FS_RemoveElement, FS_CardinalityType
    <3>4. inUse' = Cardinality(Holders') /\ inUse' \in Nat /\ inUse' <= MaxSlots
      BY <1>0, <3>1, <3>3, TransportsAssumption DEF SlotsSound, LabTyped
    <3>5. LabTyped' /\ LabAsked'
      BY <1>0, <2>1, <3>1, <3>4 DEF LabTyped, LabAsked, Settled
    <3>6. CompletesBound' /\ CompletesReachable'
      BY <1>0, <2>1, <3>1, LabFacts DEF LabTyped, CompletesBound, CompletesReachable, Completing
    <3>7. \A d \in Call : pc'[d] = "waiting" <=> pc[d] = "waiting"
      BY <1>0, <2>1, <3>1 DEF LabTyped
    <3>8. SlotsSound'
      BY <1>0, <2>5, <3>1, <3>4, <3>7 DEF SlotsSound, Once
    <3> QED
      BY <2>2, <3>5, <3>6, <3>8 DEF LabInv
  <2>6. CASE waiters # << >>
    <3> DEFINE next == Head(waiters)
    <3>1. /\ pc' = [pc EXCEPT ![c] = how, ![next] = "completing"]
          /\ waiters' = Tail(waiters) /\ inUse' = inUse
      BY <2>4, <2>6
    <3>2. /\ waiters' \in Seq(Call) /\ Once(waiters') /\ next \in Call
          /\ \A d \in Call : (\E i \in DOMAIN waiters' : waiters'[i] = d)
                <=> d # next /\ (\E i \in DOMAIN waiters : waiters[i] = d)
      BY <1>0, <2>6, <3>1, QueueTail DEF SlotsSound, LabTyped
    <3>3. pc[next] = "waiting"
      <4>1. waiters[1] = next /\ 1 \in DOMAIN waiters
        BY <1>0, <2>6 DEF LabTyped
      <4> QED
        BY <1>0, <3>2, <4>1 DEF SlotsSound
    <3> HIDE DEF next
    <3>4. \A d \in Call : pc'[d] = IF d = next THEN "completing"
                                   ELSE IF d = c THEN how ELSE pc[d]
      BY <1>0, <2>1, <3>1, <3>2, <3>3 DEF LabTyped
    <3>5. next # c /\ pc' \in [Call -> Settled \cup Completing]
      BY <1>0, <2>1, <3>1, <3>2, <3>3 DEF LabTyped, Settled, Completing
    <3>6. LabTyped' /\ LabAsked'
      <4>1. LabTyped'
        BY <1>0, <2>1, <3>1, <3>2, <3>5 DEF LabTyped
      <4>2. \A d \in Call : pc'[d] = "idle" <=> pc[d] = "idle"
        BY <2>1, <3>3, <3>4
      <4> QED
        BY <1>0, <2>1, <4>1, <4>2 DEF LabAsked
    <3>7. CompletesBound' /\ CompletesReachable'
      BY <1>0, <2>1, <3>3, <3>4, LabFacts
      DEF LabTyped, CompletesBound, CompletesReachable, Completing
    <3>8. Cardinality(Holders') = Cardinality(Holders)
      <4>1. Holders' = (Holders \ {c}) \cup {next} /\ next \notin Holders
        BY <2>1, <3>2, <3>3, <3>4 DEF Holders
      <4>2. IsFiniteSet(Holders) /\ IsFiniteSet(Holders \ {c})
            /\ Cardinality(Holders \ {c}) = Cardinality(Holders) - 1
        BY <2>3, LabFacts, FS_RemoveElement
      <4>3. Cardinality(Holders') = Cardinality(Holders \ {c}) + 1
        BY <4>1, <4>2, FS_AddElement
      <4>4. Cardinality(Holders) \in Nat
        BY <4>2, FS_CardinalityType
      <4> QED
        BY <4>2, <4>3, <4>4
    <3>9. \A d \in Call : pc'[d] = "waiting" <=> d # next /\ pc[d] = "waiting"
      BY <2>1, <3>3, <3>4
    <3>10. SlotsSound'
      BY <1>0, <2>6, <3>1, <3>2, <3>8, <3>9 DEF SlotsSound, Once
    <3> QED
      BY <2>2, <3>6, <3>7, <3>10 DEF LabInv
  <2> QED
    BY <2>5, <2>6
<1>5. ASSUME NEW k \in Lab!Key, Lab!CompleteCancel(k) PROVE LabInv'
  <2>1. /\ activeCompletes[k] # None /\ Lab!AbortAll({activeCompletes[k]}, activeCompletes)
        /\ UNCHANGED <<made, keyOf, entryBound, alive, inUse>> /\ UNCHANGED Lab!unusedVars
    BY <1>5 DEF Lab!CompleteCancel
  <2>2. \A c \in {activeCompletes[k]} : c \in Call /\ pc[c] \in Completing
    BY <1>0, <2>1 DEF LabTyped, CompletesBound
  <2>3. /\ alive' \subseteq alive /\ entryBound' \subseteq alive'
        /\ \A j \in Lab!Key : activeCompletes[j] # None => OwnerOf(j) \in entryBound'
    BY <1>0, <2>1 DEF CompletesBound
  <2> QED
    BY <2>1, <2>2, <2>3, AbortKeeps
<1>6. ASSUME NEW o \in Owner, Lab!CompleteDestroyed(o) PROVE LabInv'
  <2> DEFINE cs == Lab!DisposedOnDestroyed(activeCompletes, entryBound, o)
             map == Lab!AfterDestroyed(activeCompletes, entryBound, o)
  <2>1. /\ o \in alive /\ alive' = alive \ {o} /\ entryBound' = entryBound \ {o}
        /\ Lab!AbortAll(cs, map)
        /\ UNCHANGED <<made, keyOf, inUse>> /\ UNCHANGED Lab!unusedVars
    BY <1>6 DEF Lab!CompleteDestroyed
  <2>2. \A c : c \in cs <=> o \in entryBound /\ \E k \in Lab!Key :
               activeCompletes[k] # None /\ OwnerOf(k) = o /\ activeCompletes[k] = c
    BY LabSets DEF Lab!DisposedOnDestroyed, Lab!OwnedBy, Lab!KeysIn
  <2>3. \A k \in Lab!Key : map[k] = IF o \in entryBound /\ OwnerOf(k) = o THEN None
                                    ELSE activeCompletes[k]
    BY LabSets DEF Lab!AfterDestroyed, Lab!WithoutOwner
  <2> HIDE DEF cs, map
  <2>4. \A c \in cs : c \in Call /\ pc[c] \in Completing
    BY <1>0, <2>2 DEF LabTyped, CompletesBound
  <2>5. \A k \in Lab!Key : \/ map[k] = activeCompletes[k]
                           \/ map[k] = None /\ activeCompletes[k] \in cs
    BY <2>2, <2>3
  <2>6. \A k \in Lab!Key : map[k] # None => OwnerOf(k) \in entryBound'
    BY <1>0, <2>1, <2>3 DEF CompletesBound
  <2>7. alive' \subseteq alive /\ entryBound' \subseteq alive'
    BY <1>0, <2>1 DEF CompletesBound
  <2> QED
    BY <2>1, <2>4, <2>5, <2>6, <2>7, AbortKeeps
<1>7. ASSUME Lab!Unregister PROVE LabInv'
  <2> DEFINE cs == Lab!Entries(activeCompletes)
  <2>1. /\ Lab!AbortAll(cs, Lab!EmptyMap) /\ UNCHANGED <<made, keyOf, inUse>>
        /\ UNCHANGED <<entryBound, alive>> /\ UNCHANGED Lab!unusedVars
    BY <1>7 DEF Lab!Unregister
  <2>2. \A c : c \in cs <=> \E k \in Lab!Key : activeCompletes[k] # None /\ activeCompletes[k] = c
    BY DEF Lab!Entries, Lab!KeysIn
  <2>3. \A k \in Lab!Key : Lab!EmptyMap[k] = None
    BY LabSets
  <2> HIDE DEF cs
  <2>4. \A c \in cs : c \in Call /\ pc[c] \in Completing
    BY <1>0, <2>2 DEF LabTyped, CompletesBound
  <2>5. \A k \in Lab!Key : \/ Lab!EmptyMap[k] = activeCompletes[k]
                           \/ Lab!EmptyMap[k] = None /\ activeCompletes[k] \in cs
    BY <2>2, <2>3
  <2>6. alive' \subseteq alive /\ entryBound' \subseteq alive'
    BY <1>0, <2>1 DEF CompletesBound
  <2> QED
    BY <2>1, <2>3, <2>4, <2>5, <2>6, AbortKeeps
<1> QED
  BY <1>0, <1>1, <1>2, <1>3, <1>4, <1>5, <1>6, <1>7 DEF Lab!LabNext

(* In every reachable state completions, slots and the queue agree.        *)
THEOREM LabInvariance == LabSpec => []LabInv
<1>1. ClaimsInit /\ Lab!LabInit => LabInv
  <2> SUFFICES ASSUME ClaimsInit, Lab!LabInit PROVE LabInv
    OBVIOUS
  <2>1. Holders = {}
    BY DEF ClaimsInit, Holders
  <2>2. SlotsSound
    BY <2>1, FS_EmptySet, TransportsAssumption DEF ClaimsInit, Lab!LabInit, SlotsSound, Once
  <2>3. LabTyped /\ LabAsked
    BY ClaimsAssumption, LabSets
    DEF ClaimsInit, Lab!LabInit, LabTyped, LabAsked, Settled, Call
  <2>4. CompletesBound /\ CompletesReachable
    BY LabSets DEF ClaimsInit, Lab!LabInit, CompletesBound, CompletesReachable, Completing
  <2>5. LabIdle
    BY DEF ClaimsInit, LabIdle, NoClaims
  <2> QED
    BY <2>2, <2>3, <2>4, <2>5 DEF LabInv
<1>2. LabInv /\ [Lab!LabNext]_<<claimVars, Lab!labVars>> => LabInv'
  <2>1. LabInv /\ UNCHANGED <<claimVars, Lab!labVars>> => LabInv'
    BY DEF claimVars, Lab!labVars, LabInv, LabTyped, LabAsked, CompletesBound,
           CompletesReachable, SlotsSound, Holders, Once, LabIdle, NoClaims
  <2> QED
    BY <2>1, LabKept
<1> QED
  BY <1>1, <1>2, PTL DEF LabSpec

(* The invariant says what LabTracked does.                                *)
LEMMA LabGives == ASSUME LabInv PROVE Lab!LabTracked
<1>0. /\ LabTyped /\ LabAsked /\ CompletesBound /\ CompletesReachable /\ SlotsSound
  BY DEF LabInv
<1>1. \A c \in Call : c \in Lab!InFlight <=> pc[c] \in Completing
  BY <1>0, LabSets DEF LabTyped, Lab!InFlight, Completing, Settled
<1>2. inUse = Lab!Cardinality({c \in Lab!Call : pc[c] = "completing"}) /\ inUse <= MaxSlots
  BY <1>0, LabSets
  DEF SlotsSound, Holders, Lab!Cardinality, Cardinality, Lab!IsFiniteSet, IsFiniteSet
<1>3. Lab!ToSet(waiters) = {c \in Lab!Call : pc[c] = "waiting"}
  <2>1. \A c : c \in Lab!ToSet(waiters) <=> \E i \in DOMAIN waiters : waiters[i] = c
    BY DEF Lab!ToSet
  <2>2. \A i \in DOMAIN waiters : waiters[i] \in Call
    BY <1>0 DEF LabTyped
  <2> QED
    BY <1>0, <2>1, <2>2, LabSets DEF SlotsSound
<1>4. waiters # << >> => inUse = MaxSlots
  BY <1>0 DEF SlotsSound
<1>5. ASSUME NEW c \in Lab!InFlight \ signalled
      PROVE  activeCompletes[keyOf[c]] = c /\ Lab!OwnerOf(keyOf[c]) \in alive
  <2>1. c \in Call /\ pc[c] \in Completing /\ c \notin signalled
    BY <1>1, <1>5, LabSets DEF Lab!InFlight
  <2>2. activeCompletes[keyOf[c]] = c /\ keyOf[c] \in Lab!Key /\ c # None
    BY <1>0, <2>1, LabFacts DEF CompletesReachable, Completing
  <2> QED
    BY <1>0, <2>2, LabSets DEF CompletesBound
<1>6. \A k \in Lab!KeysIn(activeCompletes) : activeCompletes[k] \in Lab!InFlight
  BY <1>0, <1>1 DEF LabTyped, CompletesBound, Lab!KeysIn
<1> QED
  BY <1>2, <1>3, <1>4, <1>5, <1>6 DEF Lab!LabTracked

-------------------------------------------------------------------------------
(* The messages of a Kafka consumer                                        *)

(* What is in a sequence is at some place of it.                           *)
LEMMA InASequence ==
  ASSUME NEW s, NEW x
  PROVE  x \in Delivery!ToSet(s) <=> \E i \in DOMAIN s : s[i] = x
BY DEF Delivery!ToSet

(* A message put at the end of an increasing sequence that it exceeds leaves *)
(* it increasing.                                                           *)
LEMMA AddsLast ==
  ASSUME NEW s \in Seq(Nat), NEW m \in Nat
  PROVE  /\ Append(s, m) \in Seq(Nat) /\ Len(Append(s, m)) = Len(s) + 1
         /\ Delivery!ToSet(Append(s, m)) = Delivery!ToSet(s) \cup {m}
         /\ Delivery!Increasing(s) /\ Delivery!Precede(Delivery!ToSet(s), {m})
            => Delivery!Increasing(Append(s, m))
<1> DEFINE t == Append(s, m)
<1>1. /\ t \in Seq(Nat) /\ Len(t) = Len(s) + 1 /\ Len(s) \in Nat
      /\ DOMAIN s = 1 .. Len(s) /\ DOMAIN t = 1 .. Len(s) + 1
      /\ t[Len(s) + 1] = m /\ \A i \in 1 .. Len(s) : t[i] = s[i] /\ s[i] \in Nat
  OBVIOUS
<1> HIDE DEF t
<1> DEFINE n == Len(s)
<1>4. /\ n \in Nat /\ DOMAIN s = 1 .. n /\ DOMAIN t = 1 .. n + 1
      /\ t[n + 1] = m /\ \A i \in 1 .. n : t[i] = s[i] /\ s[i] \in Nat
  BY <1>1
<1> HIDE DEF n
<1>5. \A i \in 1 .. n + 1 : i = n + 1 \/ i \in 1 .. n
  BY <1>4
<1>6. \A i \in 1 .. n : i \in 1 .. n + 1 /\ n + 1 \in 1 .. n + 1 /\ i < n + 1
  BY <1>4
<1>2. Delivery!ToSet(t) = Delivery!ToSet(s) \cup {m}
  <2>1. ASSUME NEW x \in Delivery!ToSet(t) PROVE x \in Delivery!ToSet(s) \cup {m}
    BY <1>4, <1>5, <2>1, InASequence
  <2>2. ASSUME NEW x \in Delivery!ToSet(s) \cup {m} PROVE x \in Delivery!ToSet(t)
    <3>1. n + 1 \in 1 .. n + 1
      BY <1>4
    <3> QED
      BY <1>4, <1>6, <2>2, <3>1, InASequence
  <2> QED
    BY <2>1, <2>2
<1>3. ASSUME Delivery!Increasing(s), Delivery!Precede(Delivery!ToSet(s), {m})
      PROVE  Delivery!Increasing(t)
  <2>1. \A i \in 1 .. n : s[i] < m
    BY <1>4, <1>3, InASequence DEF Delivery!Precede
  <2>2. \A i, j \in 1 .. n : i < j => s[i] < s[j]
    BY <1>4, <1>3 DEF Delivery!Increasing
  <2>3. ASSUME NEW i \in 1 .. n + 1, NEW j \in 1 .. n + 1, i < j PROVE t[i] < t[j]
    <3>1. i \in 1 .. n
      BY <1>4, <2>3
    <3> QED
      BY <1>4, <1>5, <2>1, <2>2, <2>3, <3>1
  <2> QED
    BY <1>4, <2>3 DEF Delivery!Increasing
<1> QED
  BY <1>1, <1>2, <1>3 DEF t

(* The rest of an increasing sequence is increasing and exceeds the message *)
(* taken from its front.                                                    *)
LEMMA TakesFirst ==
  ASSUME NEW s \in Seq(Nat), s # << >>
  PROVE  /\ Tail(s) \in Seq(Nat) /\ Len(Tail(s)) = Len(s) - 1 /\ Head(s) \in Nat
         /\ Delivery!ToSet(s) = Delivery!ToSet(Tail(s)) \cup {Head(s)}
         /\ Delivery!Increasing(s) => /\ Delivery!Increasing(Tail(s))
                                      /\ Delivery!Precede({Head(s)}, Delivery!ToSet(Tail(s)))
<1> DEFINE t == Tail(s)
           n == Len(s)
<1>1. /\ t \in Seq(Nat) /\ Len(t) = Len(s) - 1
      /\ n \in Nat /\ n > 0 /\ DOMAIN s = 1 .. n /\ DOMAIN t = 1 .. n - 1
      /\ Head(s) = s[1] /\ \A i \in 1 .. n - 1 : t[i] = s[i + 1]
      /\ \A i \in 1 .. n : s[i] \in Nat
  OBVIOUS
<1> HIDE DEF t, n
<1>2. \A i \in 1 .. n : i = 1 \/ (i - 1 \in 1 .. n - 1 /\ t[i - 1] = s[i])
  BY SMTT(40), <1>1
<1>3. \A i \in 1 .. n - 1 : i + 1 \in 1 .. n /\ 1 < i + 1 /\ 1 \in 1 .. n
  BY SMTT(40), <1>1
<1>4. 1 \in 1 .. n
  BY <1>1
<1>5. Delivery!ToSet(s) = Delivery!ToSet(t) \cup {s[1]}
  <2>1. ASSUME NEW x \in Delivery!ToSet(s) PROVE x \in Delivery!ToSet(t) \cup {s[1]}
    BY <1>1, <1>2, <2>1, InASequence
  <2>2. ASSUME NEW x \in Delivery!ToSet(t) \cup {s[1]} PROVE x \in Delivery!ToSet(s)
    <3>1. \A i \in 1 .. n - 1 : \E j \in 1 .. n : s[j] = t[i]
      BY <1>1, <1>3
    <3>2. CASE x = s[1]
      BY <1>1, <1>4, <3>2, InASequence
    <3>3. CASE x \in Delivery!ToSet(t)
      <4>1. \E i \in 1 .. n - 1 : t[i] = x
        BY <1>1, <3>3, InASequence
      <4> QED
        BY <1>1, <3>1, <4>1, InASequence
    <3> QED
      BY <2>2, <3>2, <3>3
  <2> QED
    BY <2>1, <2>2
<1>6. ASSUME Delivery!Increasing(s)
      PROVE  Delivery!Increasing(t) /\ Delivery!Precede({s[1]}, Delivery!ToSet(t))
  <2>1. \A i, j \in 1 .. n : i < j => s[i] < s[j]
    BY <1>1, <1>6 DEF Delivery!Increasing
  <2>2. \A i, j \in 1 .. n - 1 : i < j => i + 1 < j + 1
    BY <1>1
  <2>3. Delivery!Increasing(t)
    BY <1>1, <1>3, <2>1, <2>2 DEF Delivery!Increasing
  <2>4. \A i \in 1 .. n - 1 : s[1] < t[i]
    BY <1>1, <1>3, <2>1
  <2>5. Delivery!Precede({s[1]}, Delivery!ToSet(t))
    BY <1>1, <2>4, InASequence DEF Delivery!Precede
  <2> QED
    BY <2>3, <2>5
<1> QED
  BY <1>1, <1>5, <1>6 DEF t, n

(* A token that is committed leaves, and no other.                         *)
LEMMA LeavesOut ==
  ASSUME NEW s \in Seq(Nat), NEW m, Delivery!Increasing(s)
  PROVE  /\ Delivery!Without(s, m) \in Seq(Nat) /\ Len(Delivery!Without(s, m)) <= Len(s)
         /\ Delivery!Increasing(Delivery!Without(s, m))
         /\ Delivery!ToSet(Delivery!Without(s, m)) = Delivery!ToSet(s) \ {m}
<1> DEFINE at == {i \in DOMAIN s : s[i] = m}
<1>1. CASE at = {}
  <2>1. Delivery!Without(s, m) = s
    BY <1>1 DEF Delivery!Without
  <2>2. m \notin Delivery!ToSet(s)
    BY <1>1, InASequence
  <2> QED
    BY <2>1, <2>2
<1>2. CASE at # {}
  <2>1. PICK i \in at : Delivery!Without(s, m) = SubSeq(s, 1, i - 1) \o SubSeq(s, i + 1, Len(s))
    BY <1>2 DEF Delivery!Without, Delivery!RemoveAt
  <2> DEFINE t == SubSeq(s, 1, i - 1) \o SubSeq(s, i + 1, Len(s))
             n == Len(s)
  <2>2. /\ n \in Nat /\ DOMAIN s = 1 .. n /\ \A j \in 1 .. n : s[j] \in Nat
        /\ i \in 1 .. n /\ s[i] = m
    <3>1. i \in DOMAIN s /\ s[i] = m
      BY <2>1
    <3> QED
      BY <3>1
  <2>3. /\ t \in Seq(Nat) /\ Len(t) = n - 1 /\ DOMAIN t = 1 .. n - 1
        /\ \A j \in 1 .. n - 1 : t[j] = IF j < i THEN s[j] ELSE s[j + 1]
    <3> DEFINE A == SubSeq(s, 1, i - 1)
               B == SubSeq(s, i + 1, n)
    <3>1. /\ A \in Seq(Nat) /\ Len(A) = i - 1 /\ \A j \in 1 .. i - 1 : A[j] = s[j]
      BY <2>2, SubSeqProperties
    <3>2. /\ B \in Seq(Nat) /\ Len(B) = n - i /\ \A j \in 1 .. n - i : B[j] = s[j + i]
      <4> HIDE DEF n
      <4>1. i + 1 \in Int /\ n \in Int /\ \A j \in i + 1 .. n : s[j] \in Nat
        BY <2>2
      <4>2. /\ B \in Seq(Nat) /\ Len(B) = IF i + 1 <= n THEN n - (i + 1) + 1 ELSE 0
            /\ \A j \in 1 .. n - (i + 1) + 1 : B[j] = s[(i + 1) + j - 1]
        BY <4>1, SubSeqProperties
      <4>3. n - (i + 1) + 1 = n - i /\ \A j \in 1 .. n - i : (i + 1) + j - 1 = j + i
        BY <2>2
      <4>4. i + 1 <= n \/ n - i = 0
        BY <2>2
      <4> QED
        BY <4>2, <4>3, <4>4
    <3> HIDE DEF A, B, n
    <3>3. /\ A \o B \in Seq(Nat) /\ Len(A \o B) = n - 1
          /\ \A j \in 1 .. n - 1 : (A \o B)[j] = IF j < i THEN A[j] ELSE B[j - (i - 1)]
      <4>1. /\ A \o B \in Seq(Nat) /\ Len(A \o B) = (i - 1) + (n - i)
            /\ \A j \in 1 .. (i - 1) + (n - i) :
                  (A \o B)[j] = IF j <= i - 1 THEN A[j] ELSE B[j - (i - 1)]
        <5>1. /\ A \o B \in Seq(Nat) /\ Len(A \o B) = Len(A) + Len(B)
              /\ \A j \in 1 .. Len(A) + Len(B) :
                    (A \o B)[j] = IF j <= Len(A) THEN A[j] ELSE B[j - Len(A)]
          BY <3>1, <3>2, ConcatProperties
        <5>2. Len(A) = i - 1 /\ Len(B) = n - i
          BY <3>1, <3>2
        <5> QED
          BY <5>1, <5>2
      <4>2. (i - 1) + (n - i) = n - 1 /\ \A j \in 1 .. n - 1 : j <= i - 1 <=> j < i
        BY <2>2
      <4> QED
        BY <4>1, <4>2
    <3>4. \A j \in 1 .. n - 1 : /\ j < i => j \in 1 .. i - 1
                                /\ ~(j < i) => j - (i - 1) \in 1 .. n - i
                                               /\ (j - (i - 1)) + i = j + 1
      BY <2>2
    <3>5. DOMAIN (A \o B) = 1 .. n - 1
      BY <3>3
    <3> QED
      BY <3>1, <3>2, <3>3, <3>4, <3>5 DEF A, B, n
  <2> HIDE DEF t, n
  <2>4. \A j, k \in 1 .. n : j < k => s[j] < s[k]
    BY <2>2 DEF Delivery!Increasing
  <2>5. \A j \in 1 .. n - 1 : j \in 1 .. n /\ j + 1 \in 1 .. n
    BY <2>2
  <2>6. Delivery!Increasing(t)
    <3>1. ASSUME NEW j \in 1 .. n - 1, NEW k \in 1 .. n - 1, j < k
          PROVE  t[j] < t[k]
      <4> DEFINE a == IF j < i THEN j ELSE j + 1
                 b == IF k < i THEN k ELSE k + 1
      <4>1. a \in 1 .. n /\ b \in 1 .. n /\ a < b
        BY <2>2, <3>1
      <4>2. t[j] = s[a] /\ t[k] = s[b]
        BY <2>3
      <4> QED
        BY <2>4, <4>1, <4>2
    <3> QED
      BY <2>3, <3>1 DEF Delivery!Increasing
  <2>7. Delivery!ToSet(t) = Delivery!ToSet(s) \ {m}
    <3>1. \A j \in 1 .. n : j # i => s[j] # m
      BY <2>2, <2>4
    <3>2. ASSUME NEW x \in Delivery!ToSet(t) PROVE x \in Delivery!ToSet(s) \ {m}
      <4>1. PICK j \in 1 .. n - 1 : t[j] = x
        BY <2>3, InASequence
      <4>2. PICK k \in 1 .. n : k # i /\ s[k] = x
        <5>1. CASE j < i
          <6>1. j \in 1 .. n /\ j # i /\ s[j] = x
            BY <2>2, <2>3, <2>5, <4>1, <5>1
          <6> QED
            BY <6>1
        <5>2. CASE ~(j < i)
          <6>1. j + 1 \in 1 .. n /\ j + 1 # i
            BY <2>2, <5>2
          <6> QED
            BY <2>3, <4>1, <5>2, <6>1
        <5> QED
          BY <5>1, <5>2
      <4> QED
        BY <2>2, <3>1, <4>2, InASequence
    <3>3. ASSUME NEW x \in Delivery!ToSet(s) \ {m} PROVE x \in Delivery!ToSet(t)
      <4>1. PICK j \in 1 .. n : s[j] = x /\ j # i
        BY <2>2, InASequence
      <4>2. PICK k \in 1 .. n - 1 : t[k] = x
        <5>1. CASE j < i
          <6>1. j \in 1 .. n - 1
            BY <2>2, <5>1
          <6> QED
            BY <2>3, <4>1, <5>1, <6>1
        <5>2. CASE ~(j < i)
          <6>1. j - 1 \in 1 .. n - 1 /\ ~(j - 1 < i) /\ (j - 1) + 1 = j
            BY <2>2, <4>1, <5>2
          <6> QED
            BY <2>3, <4>1, <6>1
        <5> QED
          BY <5>1, <5>2
      <4> QED
        BY <2>3, <4>2, InASequence
    <3> QED
      BY <3>2, <3>3
  <2> QED
    BY <2>1, <2>2, <2>3, <2>6, <2>7 DEF t, n
<1> QED
  BY <1>1, <1>2

(* Nothing is out of order before the first message.                        *)
LEMMA DeliveryBegins ==
  ASSUME Delivery!DeliveryInit
  PROVE  Delivery!DeliveryInv
<1>1. Delivery!ToSet(<< >>) = {} /\ Delivery!Increasing(<< >>)
  BY DEF Delivery!ToSet, Delivery!Increasing
<1> QED
  BY <1>1, TransportsAssumption
  DEF Delivery!DeliveryInit, Delivery!DeliveryInv, Delivery!DeliveryTypeOK, Delivery!InOrder,
      Delivery!TokensLast, Delivery!Precede

(* No step of the Kafka delivery reorders or repeats a message.             *)
LEMMA DeliveryKept ==
  ASSUME Delivery!DeliveryInv, Delivery!DeliveryNext
  PROVE  Delivery!DeliveryInv'
<1> USE DEF Delivery!DeliveryInv, Delivery!DeliveryTypeOK, Delivery!InOrder, Delivery!TokensLast,
            Delivery!commitVars, Delivery!messageVars
<1>1. ASSUME UNCHANGED <<arrivals, emitChain, received, tokened, committed>>,
             pendingCommits' \in {pendingCommits, << >>}
      PROVE  Delivery!DeliveryInv'
  <2>1. Delivery!ToSet(<< >>) = {} /\ Delivery!Increasing(<< >>)
    BY DEF Delivery!ToSet, Delivery!Increasing
  <2>2. CASE pendingCommits' = << >>
    BY <1>1, <2>1, <2>2, TransportsAssumption DEF Delivery!Precede, Delivery!Increasing, Delivery!ToSet
  <2>3. CASE pendingCommits' = pendingCommits
    BY <1>1, <2>3
  <2> QED
    BY <1>1, <2>2, <2>3
<1>2. CASE Delivery!Data
  <2>1. /\ arrivals' = arrivals + 1 /\ emitChain' = Append(emitChain, arrivals + 1)
        /\ UNCHANGED <<received, tokened, pendingCommits, committed>>
    BY <1>2 DEF Delivery!Data
  <2>2. Delivery!Precede(Delivery!ToSet(emitChain), {arrivals + 1})
    <3>1. \A m \in Delivery!ToSet(emitChain) : m \in Nat /\ m <= arrivals
      BY InASequence
    <3> QED
      BY <3>1 DEF Delivery!Precede
  <2>3. /\ emitChain' \in Seq(Nat) /\ Delivery!Increasing(emitChain')
        /\ Delivery!ToSet(emitChain') = Delivery!ToSet(emitChain) \cup {arrivals + 1}
    BY <2>1, <2>2, AddsLast
  <2>4. Delivery!DeliveryTypeOK' /\ Delivery!TokensLast'
    BY <2>1, <2>3
  <2>5. \A m \in Delivery!ToSet(received) \cup Delivery!ToSet(emitChain) : m \in Nat
    BY InASequence
  <2>6. Delivery!Precede(Delivery!ToSet(received), Delivery!ToSet(emitChain'))
    BY <2>3, <2>5 DEF Delivery!Precede
  <2>7. \A m \in Delivery!ToSet(received) \cup Delivery!ToSet(emitChain') : m <= arrivals + 1
    BY <2>3, <2>5
  <2> QED
    BY <2>1, <2>3, <2>4, <2>6, <2>7
<1>3. CASE Delivery!Undecodable
  <2>1. /\ emitChain # << >> /\ emitChain' = Tail(emitChain)
        /\ UNCHANGED <<arrivals, received, tokened, pendingCommits, committed>>
    BY <1>3 DEF Delivery!Undecodable
  <2>2. /\ emitChain' \in Seq(Nat) /\ Delivery!Increasing(emitChain')
        /\ Delivery!ToSet(emitChain') \subseteq Delivery!ToSet(emitChain)
    BY <2>1, TakesFirst
  <2>3. Delivery!Precede(Delivery!ToSet(received), Delivery!ToSet(emitChain'))
    BY <2>2 DEF Delivery!Precede
  <2> QED
    BY <2>1, <2>2, <2>3
<1>4. CASE Delivery!Emit
  <2> DEFINE m == Head(emitChain)
  <2>1. /\ emitChain # << >> /\ emitChain' = Tail(emitChain)
        /\ UNCHANGED <<arrivals, committed>>
    BY <1>4 DEF Delivery!Emit
  <2>2. /\ emitChain' \in Seq(Nat) /\ Delivery!Increasing(emitChain') /\ m \in Nat
        /\ Delivery!ToSet(emitChain) = Delivery!ToSet(emitChain') \cup {m}
        /\ Delivery!Precede({m}, Delivery!ToSet(emitChain'))
    BY <2>1, TakesFirst
  <2>3. Delivery!Precede(Delivery!ToSet(received), {m})
    BY <2>2 DEF Delivery!Precede
  <2>4. Delivery!Precede(Delivery!ToSet(received), Delivery!ToSet(emitChain'))
    BY <2>2 DEF Delivery!Precede
  <2>5. CASE UNCHANGED <<received, pendingCommits, tokened>>
    BY <2>1, <2>2, <2>4, <2>5
  <2>6. CASE received' = Append(received, m)
    <3> HIDE DEF m
    <3>1. /\ received' \in Seq(Nat) /\ Delivery!Increasing(received')
          /\ Delivery!ToSet(received') = Delivery!ToSet(received) \cup {m}
      BY <2>2, <2>3, <2>6, AddsLast
    <3>2. Delivery!InOrder'
      <4>1. Delivery!Precede(Delivery!ToSet(received'), Delivery!ToSet(emitChain'))
        BY <2>2, <2>4, <3>1 DEF Delivery!Precede
      <4>2. \A x \in Delivery!ToSet(received') \cup Delivery!ToSet(emitChain') : x <= arrivals
        BY <2>2, <3>1
      <4> QED
        BY <2>1, <2>2, <3>1, <4>1, <4>2
    <3>3. CASE UNCHANGED <<pendingCommits, tokened>>
      BY <2>1, <2>2, <3>1, <3>2, <3>3
    <3>4. CASE pendingCommits' = Delivery!WithToken(m) /\ tokened' = tokened \cup {m}
      <4> DEFINE all == Append(pendingCommits, m)
                 kept == Delivery!ToSet(pendingCommits)
      <4>1. /\ all \in Seq(Nat) /\ Len(all) = Len(pendingCommits) + 1
            /\ Delivery!ToSet(all) = kept \cup {m} /\ Delivery!Increasing(all)
        <5>1. Delivery!Precede(kept, {m})
          BY <2>3 DEF Delivery!Precede
        <5> QED
          BY <2>2, <5>1, AddsLast
      <4>2. Delivery!Precede(tokened \ (kept \cup committed), kept \cup {m})
        BY <2>3 DEF Delivery!Precede
      <4> HIDE DEF all, kept
      <4>3. pendingCommits' = IF Len(all) > MaxTokens THEN Tail(all) ELSE all
        BY <3>4 DEF Delivery!WithToken, all
      <4>4. /\ pendingCommits' \in Seq(Nat) /\ Len(pendingCommits') <= MaxTokens
            /\ Delivery!Increasing(pendingCommits')
            /\ Delivery!ToSet(pendingCommits') \subseteq kept \cup {m}
            /\ Delivery!Precede((kept \cup {m}) \ Delivery!ToSet(pendingCommits'),
                                Delivery!ToSet(pendingCommits'))
        <5>1. Len(pendingCommits) \in Nat /\ all # << >>
          BY <4>1
        <5>2. CASE Len(all) > MaxTokens
          <6>1. /\ Tail(all) \in Seq(Nat) /\ Len(Tail(all)) = Len(all) - 1
                /\ Delivery!ToSet(all) = Delivery!ToSet(Tail(all)) \cup {Head(all)}
                /\ Delivery!Increasing(Tail(all))
                /\ Delivery!Precede({Head(all)}, Delivery!ToSet(Tail(all)))
            BY <4>1, <5>1, TakesFirst
          <6>2. Len(Tail(all)) <= MaxTokens
            BY <4>1, <5>1, <6>1, TransportsAssumption
          <6>3. Delivery!Precede((kept \cup {m}) \ Delivery!ToSet(Tail(all)),
                                 Delivery!ToSet(Tail(all)))
            BY <4>1, <6>1 DEF Delivery!Precede
          <6> QED
            BY <4>1, <4>3, <5>2, <6>1, <6>2, <6>3
        <5>3. CASE ~(Len(all) > MaxTokens)
          <6>1. Len(all) <= MaxTokens
            BY <4>1, <5>1, <5>3, TransportsAssumption
          <6> QED
            BY <4>1, <4>3, <5>3, <6>1 DEF Delivery!Precede
        <5> QED
          BY <5>2, <5>3
      <4>5. Delivery!Precede(tokened' \ (Delivery!ToSet(pendingCommits') \cup committed'),
                             Delivery!ToSet(pendingCommits'))
        BY <2>1, <3>4, <4>2, <4>4 DEF Delivery!Precede
      <4>6. /\ Delivery!ToSet(pendingCommits') \subseteq tokened'
            /\ tokened' \subseteq Delivery!ToSet(received') /\ tokened' \subseteq Nat
        BY <2>2, <3>1, <3>4, <4>4 DEF kept
      <4> QED
        BY <2>1, <2>2, <3>1, <3>2, <4>4, <4>5, <4>6
    <3> QED
      BY <1>4, <2>6, <3>3, <3>4 DEF Delivery!Emit, m
  <2> QED
    BY <1>4, <2>5, <2>6 DEF Delivery!Emit
<1>5. ASSUME NEW m, Delivery!CommitSettles(m)
      PROVE  Delivery!DeliveryInv'
  <2>1. CASE UNCHANGED <<pendingCommits, committed>>
    BY <1>1, <1>5, <2>1 DEF Delivery!CommitSettles
  <2>2. CASE pendingCommits' = Delivery!Without(pendingCommits, m) /\ committed' = committed \cup {m}
    <3>1. /\ pendingCommits' \in Seq(Nat) /\ Len(pendingCommits') <= Len(pendingCommits)
          /\ Delivery!Increasing(pendingCommits')
          /\ Delivery!ToSet(pendingCommits') = Delivery!ToSet(pendingCommits) \ {m}
      BY <2>2, LeavesOut
    <3>2. Len(pendingCommits') <= MaxTokens
      BY <3>1, TransportsAssumption
    <3>3. Delivery!Precede(tokened \ (Delivery!ToSet(pendingCommits') \cup committed'),
                           Delivery!ToSet(pendingCommits'))
      BY <2>2, <3>1 DEF Delivery!Precede
    <3>4. UNCHANGED <<arrivals, emitChain, received, tokened>>
      BY <1>5 DEF Delivery!CommitSettles
    <3> QED
      BY <3>1, <3>2, <3>3, <3>4
  <2> QED
    BY <1>5, <2>1, <2>2 DEF Delivery!CommitSettles
<1>6. CASE \/ Delivery!Subscribed \/ \E m \in Delivery!Message : Delivery!Commit(m)
           \/ \E for \in {"unsubscribe", "disconnect"} : Delivery!CloseStream(for)
           \/ Delivery!StreamClosed \/ Delivery!ConsumerClosed \/ Delivery!Disconnected
           \/ Delivery!Disposed
  BY <1>1, <1>6
  DEF Delivery!Subscribed, Delivery!Commit, Delivery!CloseStream, Delivery!StreamClosed,
      Delivery!ConsumerClosed, Delivery!Disconnected, Delivery!Disposed
<1> QED
  BY <1>2, <1>3, <1>4, <1>5, <1>6 DEF Delivery!DeliveryNext

(* The invariant says what DeliverySound does.                             *)
LEMMA DeliveryGives ==
  ASSUME Delivery!DeliveryInv
  PROVE  Delivery!DeliverySound
<1> USE DEF Delivery!DeliveryInv, Delivery!DeliveryTypeOK, Delivery!InOrder, Delivery!TokensLast
<1> DEFINE n == Len(received)
           k == Len(emitChain)
           order == received \o emitChain
<1>1. /\ n \in Nat /\ k \in Nat /\ DOMAIN order = 1 .. n + k
      /\ DOMAIN received = 1 .. n /\ DOMAIN emitChain = 1 .. k
      /\ \A i \in 1 .. n + k : order[i] = IF i <= n THEN received[i] ELSE emitChain[i - n]
  BY ConcatProperties
<1> HIDE DEF n, k, order
<1>2. ASSUME NEW i \in 1 .. n + k, NEW j \in 1 .. n + k, i < j
      PROVE  order[i] < order[j]
  <2>1. CASE j <= n
    <3>1. i \in 1 .. n /\ j \in 1 .. n /\ i <= n
      BY <1>1, <1>2, <2>1
    <3> QED
      BY <1>1, <1>2, <2>1, <3>1 DEF Delivery!Increasing
  <2>2. CASE i <= n /\ ~(j <= n)
    <3>1. i \in 1 .. n /\ j - n \in 1 .. k
      BY <1>1, <1>2, <2>2
    <3>2. received[i] \in Delivery!ToSet(received) /\ emitChain[j - n] \in Delivery!ToSet(emitChain)
      BY <1>1, <3>1, InASequence
    <3> QED
      BY <1>1, <2>2, <3>2 DEF Delivery!Precede
  <2>3. CASE ~(i <= n)
    <3>1. i - n \in 1 .. k /\ j - n \in 1 .. k /\ i - n < j - n /\ ~(j <= n)
      BY <1>1, <1>2, <2>3
    <3> QED
      BY <1>1, <2>3, <3>1 DEF Delivery!Increasing
  <2> QED
    BY <2>1, <2>2, <2>3
<1> QED
  BY <1>1, <1>2 DEF Delivery!DeliverySound, Delivery!Precede, order

-------------------------------------------------------------------------------
(* All the transports together                                              *)

WSP == INSTANCE WebSocketProofs WITH sock <- conn, told <- openOrClosed

allVars == <<transport, vars, connVars, deliveryVars>>

(* What the proofs of the WebSocket handler assume holds here.             *)
LEMMA WebSocketAssumptions ==
  /\ MaxCalls \in Nat /\ MaxConnections \in Nat
  /\ WSP!IsFiniteSet(Owner) /\ WSP!IsFiniteSet(Id)
  /\ None \notin WSP!Call \cup WSP!Key \cup WSP!Emission
<1>1. WSP!IsFiniteSet(Owner) /\ WSP!IsFiniteSet(Id)
  BY ClaimsAssumption DEF IsFiniteSet, WSP!IsFiniteSet
<1>2. None \notin WSP!Call \cup WSP!Key \cup WSP!Emission
  BY ClaimsAssumption, TransportsAssumption
  DEF WSP!Call, Call, WSP!Key, Key, WSP!Emission, WebSocket!Emission, WebSocket!Call
<1> QED
  BY <1>1, <1>2, ClaimsAssumption

(* What is proved of the WebSocket handler, for the instance of it here.    *)
LEMMA WebSocketInvariance == WSP!Spec => []WSP!IInv
<1>1. MaxCalls \in Nat /\ MaxConnections \in Nat
  BY WebSocketAssumptions
<1>2. WSP!IsFiniteSet(Owner) /\ WSP!IsFiniteSet(Id)
  BY WebSocketAssumptions
<1>3. None \notin WSP!Call \cup WSP!Key \cup WSP!Emission
  BY WebSocketAssumptions
<1> QED
  BY <1>1, <1>2, <1>3, WSP!Invariance, PTL

(* The transport of a behaviour is one.                                    *)
LEMMA OneTransport ==
  /\ TransportsInit => transport \in {"websocket", "mqtt", "socketio", "mcp", "http", "ai",
                                      "lab", "kafka", "grpc"}
  /\ [TransportsNext]_allVars => transport' = transport
  BY DEF TransportsInit, TransportsNext, allVars

(* The handler the runs check is the one the proofs are about: two         *)
(* instances of one module.                                                *)
LEMMA WebSocketSame == WebSocket!Next => WSP!Next
<1>0. /\ WebSocket!Call = WSP!Call /\ WebSocket!Key = WSP!Key
  BY DEF WebSocket!Call, WSP!Call, WebSocket!Key, WSP!Key
<1>1. \A c, k : WebSocket!Reject(c, k) => WSP!Reject(c, k)
  BY DEF WebSocket!Reject, WSP!Reject, WebSocket!Arrive, WSP!Arrive, WebSocket!OwnerOf,
      WSP!OwnerOf
<1>2. \A c, k : WebSocket!Reserve(c, k) => WSP!Reserve(c, k)
  BY DEF WebSocket!Reserve, WSP!Reserve, WebSocket!Arrive, WSP!Arrive, WebSocket!OwnerOf,
      WSP!OwnerOf, WebSocket!HasRoom, WSP!HasRoom, WebSocket!Size, WSP!Size,
      WebSocket!KeysIn, WSP!KeysIn, WebSocket!Key, WSP!Key, WebSocket!Cardinality,
      WSP!Cardinality, WebSocket!IsFiniteSet, WSP!IsFiniteSet, WebSocket!TeardownIfDead,
      WSP!TeardownIfDead, WebSocket!Put, WSP!Put, WebSocket!WithoutOwner, WSP!WithoutOwner,
      WebSocket!Bind, WSP!Bind
<1>3. \A c : WebSocket!GiveUp(c) => WSP!GiveUp(c)
  BY DEF WebSocket!GiveUp, WSP!GiveUp, WebSocket!Reply, WSP!Reply, WebSocket!Release,
      WSP!Release, WebSocket!HoldsClaim, WSP!HoldsClaim, WebSocket!Drop, WSP!Drop
<1>4. \A c : WebSocket!Commit(c) => WSP!Commit(c)
  BY DEF WebSocket!Commit, WSP!Commit, WebSocket!HoldsClaim, WSP!HoldsClaim,
      WebSocket!CommitReplacing, WSP!CommitReplacing, WebSocket!CommitAdding,
      WSP!CommitAdding, WebSocket!CommitRefused, WSP!CommitRefused, WebSocket!CanReplace,
      WSP!CanReplace, WebSocket!CanAdd, WSP!CanAdd, WebSocket!Put, WSP!Put,
      WebSocket!Terminated, WSP!Terminated, WebSocket!AfterTerminate, WSP!AfterTerminate,
      WebSocket!Call, WSP!Call, WebSocket!Flagged, WSP!Flagged, WebSocket!Reply, WSP!Reply,
      WebSocket!OwnerOf, WSP!OwnerOf, WebSocket!TeardownIfDead, WSP!TeardownIfDead,
      WebSocket!WithoutOwner, WSP!WithoutOwner, WebSocket!Key, WSP!Key, WebSocket!Bind,
      WSP!Bind, WebSocket!Release, WSP!Release, WebSocket!Drop, WSP!Drop
<1>5. \A c : WebSocket!Opened(c) => WSP!Opened(c)
  BY DEF WebSocket!Opened, WSP!Opened, WebSocket!Emit, WSP!Emit, WebSocket!IsCurrent,
      WSP!IsCurrent, WebSocket!OwnerOf, WSP!OwnerOf
<1>6. \A c : WebSocket!MessageReceived(c) => WSP!MessageReceived(c)
  BY DEF WebSocket!MessageReceived, WSP!MessageReceived, WebSocket!Emit, WSP!Emit,
      WebSocket!IsCurrent, WSP!IsCurrent, WebSocket!OwnerOf, WSP!OwnerOf
<1>7. \A c : WebSocket!Errored(c) => WSP!Errored(c)
  BY DEF WebSocket!Errored, WSP!Errored, WebSocket!Running, WSP!Running, WebSocket!AfterClose,
      WSP!AfterClose, WebSocket!Emit, WSP!Emit, WebSocket!IsCurrent, WSP!IsCurrent,
      WebSocket!OwnerOf, WSP!OwnerOf
<1>8. \A c : WebSocket!PeerCloses(c) => WSP!PeerCloses(c)
  BY DEF WebSocket!PeerCloses, WSP!PeerCloses
<1>9. \A c : WebSocket!Closed(c) => WSP!Closed(c)
  BY DEF WebSocket!Closed, WSP!Closed, WebSocket!Ending, WSP!Ending, WebSocket!IsCurrent,
      WSP!IsCurrent, WebSocket!Drop, WSP!Drop, WebSocket!Emit, WSP!Emit, WebSocket!OwnerOf,
      WSP!OwnerOf
<1>10. \A k : WebSocket!Send(k) => WSP!Send(k)
  BY DEF WebSocket!Send, WSP!Send, WebSocket!OwnerOf, WSP!OwnerOf
<1>11. \A k : WebSocket!Disconnect(k) => WSP!Disconnect(k)
  BY DEF WebSocket!Disconnect, WSP!Disconnect, WebSocket!OwnerOf, WSP!OwnerOf,
      WebSocket!Flagged, WSP!Flagged, WebSocket!Call, WSP!Call, WebSocket!AfterClose,
      WSP!AfterClose
<1>12. \A o : WebSocket!Destroyed(o) => WSP!Destroyed(o)
  BY DEF WebSocket!Destroyed, WSP!Destroyed, WebSocket!AfterDestroyed, WSP!AfterDestroyed,
      WebSocket!WithoutOwner, WSP!WithoutOwner, WebSocket!Key, WSP!Key, WebSocket!OwnerOf,
      WSP!OwnerOf, WebSocket!Dispose, WSP!Dispose, WebSocket!Terminated, WSP!Terminated,
      WebSocket!AfterTerminate, WSP!AfterTerminate, WebSocket!Call, WSP!Call,
      WebSocket!Flagged, WSP!Flagged, WebSocket!DisposedOnDestroyed,
      WSP!DisposedOnDestroyed, WebSocket!OwnedBy, WSP!OwnedBy, WebSocket!KeysIn, WSP!KeysIn
<1>13. WebSocket!Stop => WSP!Stop
  BY DEF WebSocket!Stop, WSP!Stop, WebSocket!EmptyMap, WSP!EmptyMap, WebSocket!Key, WSP!Key,
      WebSocket!Dispose, WSP!Dispose, WebSocket!Terminated, WSP!Terminated,
      WebSocket!AfterTerminate, WSP!AfterTerminate, WebSocket!Call, WSP!Call,
      WebSocket!Flagged, WSP!Flagged, WebSocket!Entries, WSP!Entries, WebSocket!KeysIn,
      WSP!KeysIn
<1> QED
  BY <1>0, <1>1, <1>2, <1>3, <1>4, <1>5, <1>6, <1>7, <1>8, <1>9, <1>10, <1>11, <1>12, <1>13
  DEF WebSocket!Next, WSP!Next, WebSocket!Connect, WSP!Connect, WebSocket!Resume,
      WSP!Resume, WebSocket!SocketEvent, WSP!SocketEvent, WebSocket!Request, WSP!Request

(* Each transport takes the steps of its handler and no other.             *)
LEMMA WebSocketSteps ==
  /\ TransportsInit => WSP!Init
  /\ transport = "websocket" /\ [TransportsNext]_allVars => [WSP!Next]_WSP!vars
<1>1. TransportsInit => WSP!Init
  BY DEF TransportsInit, Mqtt!MqttInit, Mqtt!ClaimsInit, WSP!Init, WSP!Call, Mqtt!Call, Call,
         Mqtt!EmptyMap, WSP!EmptyMap, Mqtt!Key, WSP!Key
<1>2. ASSUME transport = "websocket", TransportsNext PROVE WebSocket!Next
  BY <1>2 DEF TransportsNext
<1>3. WebSocket!Next => WSP!Next
  BY WebSocketSame
<1>4. UNCHANGED allVars => UNCHANGED WSP!vars
  BY DEF allVars, connVars, claimVars, webSocketVars, WSP!vars
<1> QED
  BY <1>1, <1>2, <1>3, <1>4

(* A behaviour of MQTT takes the steps of MqttHandler only.                 *)
LEMMA MqttSteps ==
  /\ TransportsInit => Mqtt!MqttInit
  /\ transport = "mqtt" /\ [TransportsNext]_allVars => [Mqtt!MqttNext]_<<claimVars, Mqtt!mqttVars>>
<1>1. ASSUME transport = "mqtt", TransportsNext PROVE Mqtt!MqttNext
  BY <1>1 DEF TransportsNext
<1>2. UNCHANGED allVars => UNCHANGED <<claimVars, Mqtt!mqttVars>>
  BY DEF allVars, connVars, Mqtt!mqttVars
<1> QED
  BY <1>1, <1>2 DEF TransportsInit

(* No transport begins with a claim, an entry or a call.                    *)
LEMMA ClaimsInitially == TransportsInit => ClaimsInit
  BY MqttSame DEF TransportsInit, Mqtt!MqttInit, Mqtt!ClaimsInit, ClaimsInit, Mqtt!Call, Call,
     Mqtt!EmptyMap, EmptyMap, Mqtt!Key, Key

(* A behaviour of Socket.IO takes the steps of SocketIoHandler only.        *)
LEMMA SocketIoSteps ==
  /\ TransportsInit => SocketIo!SocketIoInit
  /\ transport = "socketio" /\ [TransportsNext]_allVars
     => [SocketIo!SocketIoNext]_<<claimVars, SocketIo!ackVars>>
<1>1. ASSUME transport = "socketio", TransportsNext PROVE SocketIo!SocketIoNext
  BY <1>1 DEF TransportsNext
<1>2. UNCHANGED allVars => UNCHANGED <<claimVars, SocketIo!ackVars>>
  BY DEF allVars, connVars, SocketIo!ackVars
<1>3. TransportsInit => SocketIo!ClaimsInit
  BY ClaimsInitially DEF ClaimsInit, SocketIo!ClaimsInit, SocketIo!Call, Call,
     SocketIo!EmptyMap, EmptyMap, SocketIo!Key, Key
<1> QED
  BY <1>1, <1>2, <1>3 DEF TransportsInit, SocketIo!SocketIoInit

(* A behaviour of MCP takes the steps of McpHandler only.                   *)
LEMMA McpSteps ==
  /\ TransportsInit => Mcp!McpInit
  /\ transport = "mcp" /\ [TransportsNext]_allVars => [Mcp!McpNext]_<<claimVars, disowned>>
<1>1. ASSUME transport = "mcp", TransportsNext PROVE Mcp!McpNext
  BY <1>1 DEF TransportsNext
<1>2. UNCHANGED allVars => UNCHANGED <<claimVars, disowned>>
  BY DEF allVars, connVars
<1>3. TransportsInit => Mcp!ClaimsInit
  BY ClaimsInitially DEF ClaimsInit, Mcp!ClaimsInit, Mcp!Call, Call,
     Mcp!EmptyMap, EmptyMap, Mcp!Key, Key
<1> QED
  BY <1>1, <1>2, <1>3 DEF TransportsInit, Mcp!McpInit

(* A behaviour of HTTP takes the steps of HttpHandler only.                 *)
LEMMA HttpSteps ==
  /\ TransportsInit => ClaimsInit /\ Http!HttpInit
  /\ transport = "http" /\ [TransportsNext]_allVars => [Http!HttpNext]_<<claimVars, Http!httpVars>>
<1>1. ASSUME transport = "http", TransportsNext PROVE Http!HttpNext
  BY <1>1 DEF TransportsNext
<1>2. UNCHANGED allVars => UNCHANGED <<claimVars, Http!httpVars>>
  BY DEF allVars, connVars, Http!httpVars, requestVars
<1> QED
  BY <1>1, <1>2, ClaimsInitially DEF TransportsInit

(* A behaviour of the AI chats takes the steps of AiStreams only.           *)
LEMMA AiSteps ==
  /\ TransportsInit => ClaimsInit /\ Ai!AiInit
  /\ transport = "ai" /\ [TransportsNext]_allVars => [Ai!AiNext]_<<claimVars, cancelledGenerations>>
<1>1. ASSUME transport = "ai", TransportsNext PROVE Ai!AiNext
  BY <1>1 DEF TransportsNext
<1>2. UNCHANGED allVars => UNCHANGED <<claimVars, cancelledGenerations>>
  BY DEF allVars, connVars, aiVars
<1> QED
  BY <1>1, <1>2, ClaimsInitially DEF TransportsInit

(* A behaviour of the completions takes the steps of AiCompletions only.    *)
LEMMA LabSteps ==
  /\ TransportsInit => ClaimsInit /\ Lab!LabInit
  /\ transport = "lab" /\ [TransportsNext]_allVars => [Lab!LabNext]_<<claimVars, Lab!labVars>>
<1>1. ASSUME transport = "lab", TransportsNext PROVE Lab!LabNext
  BY <1>1 DEF TransportsNext
<1>2. UNCHANGED allVars => UNCHANGED <<claimVars, Lab!labVars>>
  BY DEF allVars, connVars, aiVars, completeVars, requestVars, Lab!labVars
<1> QED
  BY <1>1, <1>2, ClaimsInitially DEF TransportsInit

(* The Connect stream moves by its own steps, whichever transport runs.     *)
LEMMA ConnectSteps ==
  /\ TransportsInit => Init
  /\ [TransportsNext]_allVars => [Next]_vars
<1>1. TransportsInit => Init
  BY DEF TransportsInit
<1>2. ASSUME TransportsNext PROVE Next \/ UNCHANGED vars
  BY <1>2 DEF TransportsNext
<1>3. UNCHANGED allVars => UNCHANGED vars
  BY DEF allVars
<1> QED
  BY <1>1, <1>2, <1>3

(* Only the steps of KafkaDelivery move the messages.                       *)
LEMMA DeliverySteps ==
  /\ TransportsInit => Delivery!DeliveryInit
  /\ [TransportsNext]_allVars => Delivery!DeliveryNext \/ UNCHANGED deliveryVars
<1>1. TransportsInit => Delivery!DeliveryInit
  BY DEF TransportsInit
<1>2. ASSUME TransportsNext PROVE Delivery!DeliveryNext \/ UNCHANGED deliveryVars
  BY <1>2 DEF TransportsNext
<1>3. UNCHANGED allVars => UNCHANGED deliveryVars
  BY DEF allVars
<1> QED
  BY <1>1, <1>2, <1>3

(* The WebSocket handler's invariant holds whenever it is the transport.    *)
LEMMA WebSocketHere == TransportsSpec => [](transport = "websocket" => WSP!IInv)
<1>1. transport = "websocket" /\ [TransportsNext]_allVars => (transport = "websocket")'
  BY OneTransport
<1>2. ~(transport = "websocket") /\ [TransportsNext]_allVars => ~(transport = "websocket")'
  BY OneTransport
<1> QED
  BY <1>1, <1>2, WebSocketSteps, WebSocketInvariance, PTL DEF TransportsSpec, allVars, WSP!Spec

(* The MQTT handler's invariant holds whenever it is the transport.         *)
LEMMA MqttHere == TransportsSpec => [](transport = "mqtt" => MqttInv)
<1>1. transport = "mqtt" /\ [TransportsNext]_allVars => (transport = "mqtt")'
  BY OneTransport
<1>2. ~(transport = "mqtt") /\ [TransportsNext]_allVars => ~(transport = "mqtt")'
  BY OneTransport
<1> QED
  BY <1>1, <1>2, MqttSteps, MqttInvariance, PTL DEF TransportsSpec, allVars, MqttSpec

(* The Socket.IO handler's invariant holds whenever it is the transport.    *)
LEMMA SocketIoHere == TransportsSpec => [](transport = "socketio" => SocketIoInv)
<1>1. transport = "socketio" /\ [TransportsNext]_allVars => (transport = "socketio")'
  BY OneTransport
<1>2. ~(transport = "socketio") /\ [TransportsNext]_allVars => ~(transport = "socketio")'
  BY OneTransport
<1> QED
  BY <1>1, <1>2, SocketIoSteps, SocketIoInvariance, PTL DEF TransportsSpec, allVars, SocketIoSpec

(* The MCP handler's invariant holds whenever it is the transport.          *)
LEMMA McpHere == TransportsSpec => [](transport = "mcp" => McpInv)
<1>1. transport = "mcp" /\ [TransportsNext]_allVars => (transport = "mcp")'
  BY OneTransport
<1>2. ~(transport = "mcp") /\ [TransportsNext]_allVars => ~(transport = "mcp")'
  BY OneTransport
<1> QED
  BY <1>1, <1>2, McpSteps, McpInvariance, PTL DEF TransportsSpec, allVars, McpSpec

(* The HTTP handler's invariant holds whenever it is the transport.         *)
LEMMA HttpHere == TransportsSpec => [](transport = "http" => HttpInv)
<1>1. transport = "http" /\ [TransportsNext]_allVars => (transport = "http")'
  BY OneTransport
<1>2. ~(transport = "http") /\ [TransportsNext]_allVars => ~(transport = "http")'
  BY OneTransport
<1> QED
  BY <1>1, <1>2, HttpSteps, HttpInvariance, PTL DEF TransportsSpec, allVars, HttpSpec

(* The invariant of the AI chats holds whenever they are the transport.     *)
LEMMA AiHere == TransportsSpec => [](transport = "ai" => AiInv)
<1>1. transport = "ai" /\ [TransportsNext]_allVars => (transport = "ai")'
  BY OneTransport
<1>2. ~(transport = "ai") /\ [TransportsNext]_allVars => ~(transport = "ai")'
  BY OneTransport
<1> QED
  BY <1>1, <1>2, AiSteps, AiInvariance, PTL DEF TransportsSpec, allVars, AiSpec

(* The invariant of the completions holds whenever they are the transport.  *)
LEMMA LabHere == TransportsSpec => [](transport = "lab" => LabInv)
<1>1. transport = "lab" /\ [TransportsNext]_allVars => (transport = "lab")'
  BY OneTransport
<1>2. ~(transport = "lab") /\ [TransportsNext]_allVars => ~(transport = "lab")'
  BY OneTransport
<1> QED
  BY <1>1, <1>2, LabSteps, LabInvariance, PTL DEF TransportsSpec, allVars, LabSpec

(* The invariant of the Connect stream holds in every behaviour.            *)
LEMMA ConnectHere == TransportsSpec => []ConnectInv
  BY ConnectSteps, ConnectInvariance, PTL DEF TransportsSpec, allVars, Spec

(* The invariant of the Kafka delivery holds in every behaviour.            *)
LEMMA DeliveryHere == TransportsSpec => []Delivery!DeliveryInv
<1>1. TransportsInit => Delivery!DeliveryInv
  BY DeliverySteps, DeliveryBegins
<1>2. Delivery!DeliveryInv /\ [TransportsNext]_allVars => Delivery!DeliveryInv'
  <2>1. Delivery!DeliveryInv /\ UNCHANGED deliveryVars => Delivery!DeliveryInv'
    BY DEF deliveryVars, Delivery!DeliveryInv, Delivery!DeliveryTypeOK, Delivery!InOrder,
           Delivery!TokensLast
  <2> QED
    BY <2>1, DeliverySteps, DeliveryKept
<1> QED
  BY <1>1, <1>2, PTL DEF TransportsSpec, allVars

(* What the transport of a behaviour does not use stays as it began.       *)
Untouched ==
    /\ transport # "socketio" => SocketIo!AckInit
    /\ transport # "mcp" => disowned = {}
    /\ transport # "websocket" => explicit = [c \in Call |-> FALSE]
    /\ transport \in {"kafka", "grpc"} => ClaimsInit

(* A transport leaves alone what belongs to the others.                     *)
LEMMA UntouchedHere == TransportsSpec => []Untouched
<1>1. TransportsInit => Untouched
  BY ClaimsInitially DEF TransportsInit, Untouched
<1>2. Untouched /\ [TransportsNext]_allVars => Untouched'
  <2> SUFFICES ASSUME Untouched, [TransportsNext]_allVars PROVE Untouched'
    OBVIOUS
  <2>0. transport' = transport
    BY OneTransport
  <2>1. transport # "socketio" => UNCHANGED <<ackOn, pendingAcks, timers, ackTold>>
    BY DEF TransportsNext, allVars, connVars
  <2>2. transport # "mcp" => UNCHANGED disowned
    BY DEF TransportsNext, allVars, connVars
  <2>3. transport # "websocket" => UNCHANGED explicit
    BY DEF TransportsNext, allVars, connVars, webSocketVars
  <2>4. transport \in {"kafka", "grpc"} => UNCHANGED claimVars
    BY DEF TransportsNext, allVars, connVars
  <2>5. UNCHANGED <<ackOn, pendingAcks, timers, ackTold>> /\ SocketIo!AckInit => SocketIo!AckInit'
    BY DEF SocketIo!AckInit
  <2>6. UNCHANGED claimVars /\ ClaimsInit => ClaimsInit'
    BY DEF claimVars, ClaimsInit
  <2> QED
    BY <2>0, <2>1, <2>2, <2>3, <2>4, <2>5, <2>6 DEF Untouched
<1> QED
  BY <1>1, <1>2, PTL DEF TransportsSpec, allVars

(* Whichever transport it is, its invariant holds.                         *)
TransportsInv ==
    /\ transport \in {"websocket", "mqtt", "socketio", "mcp", "http", "ai", "lab",
                      "kafka", "grpc"}
    /\ transport = "websocket" => WSP!IInv
    /\ transport = "mqtt" => MqttInv
    /\ transport = "socketio" => SocketIoInv
    /\ transport = "mcp" => McpInv
    /\ transport = "http" => HttpInv
    /\ transport = "ai" => AiInv
    /\ transport = "lab" => LabInv
    /\ ConnectInv
    /\ Delivery!DeliveryInv
    /\ Untouched

(* In every reachable state of every transport its bookkeeping is sound.   *)
THEOREM TransportsInvariance == TransportsSpec => []TransportsInv
<1> DEFINE Named == transport \in {"websocket", "mqtt", "socketio", "mcp", "http", "ai",
                                   "lab", "kafka", "grpc"}
<1>1. TransportsInit => Named
  BY OneTransport
<1>2. Named /\ [TransportsNext]_allVars => Named'
  BY OneTransport
<1>3. TransportsSpec => []Named
  <2> HIDE DEF Named
  <2> QED
    BY <1>1, <1>2, PTL DEF TransportsSpec, allVars
<1>4. TransportsInv <=>
        /\ Named
        /\ transport = "websocket" => WSP!IInv
        /\ transport = "mqtt" => MqttInv
        /\ transport = "socketio" => SocketIoInv
        /\ transport = "mcp" => McpInv
        /\ transport = "http" => HttpInv
        /\ transport = "ai" => AiInv
        /\ transport = "lab" => LabInv
        /\ ConnectInv
        /\ Delivery!DeliveryInv
        /\ Untouched
  BY DEF TransportsInv
<1> HIDE DEF Named
<1> QED
  BY <1>3, <1>4, WebSocketHere, MqttHere, SocketIoHere, McpHere, HttpHere, AiHere, LabHere,
     ConnectHere, DeliveryHere, UntouchedHere, PTL

(* What of a handler's claims and connections is said of every transport.  *)
CallsTyped ==
    /\ made \in 0 .. MaxCalls
    /\ pc \in [Call -> {"idle", "ending", "resolving", "loading", "connecting", "ok",
                        "failed", "preparing", "tunnelling", "fetching", "responding",
                        "waiting", "completing"}]
    /\ keyOf \in [Call -> Key \cup {None}]
    /\ ownerEntry \in [Call -> Call \cup {None}]
    /\ pending \in [Key -> Call \cup {None}]
    /\ connections \in [Key -> Call \cup {None}]
    /\ claimBound \subseteq Owner /\ entryBound \subseteq Owner /\ alive \subseteq Owner
    /\ conn \in [Call -> {"none", "up", "ended", "opening", "open", "over",
                          "aborted", "connecting", "closing", "terminated", "closed"}]
    /\ ClaimsSound

(* The completions have the keys of the others.                            *)
LEMMA LabKeys == Lab!Key = Key
  BY DEF Key, Lab!Key

(* The WebSocket invariant types what all transports share.                 *)
LEMMA WebSocketCalls ==
  ASSUME WSP!IInv
  PROVE  CallsTyped /\ explicit \in [Call -> BOOLEAN] /\ io \in WebSocket!Emission \cup {None}
<1>1. WSP!Call = Call /\ WSP!Key = Key /\ WSP!Emission = WebSocket!Emission
  BY DEF WSP!Call, Call, WSP!Key, Key, WSP!Emission, WebSocket!Emission, WebSocket!Call
<1>2. /\ WSP!TypeOK /\ WSP!ClaimsSound /\ WSP!EntriesSound
  BY DEF WSP!IInv
<1>3. ClaimsSound
  BY <1>1, <1>2 DEF WSP!ClaimsSound, WSP!EntriesSound, ClaimsSound, KeysIn
<1>4. /\ conn \in [Call -> {"none", "connecting", "open", "closing", "terminated", "aborted",
                            "closed"}]
      /\ pc \in [Call -> {"idle", "resolving", "ok", "failed"}]
      /\ keyOf \in [Call -> Key \cup {None}]
  BY <1>1, <1>2 DEF WSP!TypeOK, WSP!SockState
<1>5. CallsTyped
  BY <1>1, <1>2, <1>3, <1>4 DEF WSP!TypeOK, CallsTyped
<1> QED
  BY <1>1, <1>2, <1>5 DEF WSP!TypeOK

(* The three handlers with claims.                                         *)
LEMMA ClaimsCalls ==
  ASSUME ClaimsInv,
         conn \in [Call -> {"none", "up", "ended"}] \/ conn \in [Call -> {"none", "up", "over"}]
         \/ conn \in [Call -> {"none", "opening", "open", "over"}]
  PROVE  CallsTyped
<1>1. conn \in [Call -> {"none", "up", "ended", "opening", "open", "over",
                          "aborted", "connecting", "closing", "terminated", "closed"}]
  OBVIOUS
<1>2. ClaimsTyped /\ OwnersBound /\ ClaimsSound
  BY ClaimsGive DEF ClaimsInv
<1> QED
  BY <1>1, <1>2 DEF ClaimsTyped, OwnersBound, Settled, Awaits, CallsTyped

(* The HTTP invariant types what all transports share.                      *)
LEMMA HttpCalls == ASSUME HttpInv PROVE CallsTyped /\ io = None
<1>1. HttpTyped /\ RequestsBound /\ NoClaims /\ connections = EmptyMap /\ io = None
  BY DEF HttpInv, HttpIdle
<1>2. ClaimsSound
  BY <1>1 DEF NoClaims, ClaimsSound, KeysIn, EmptyMap
<1> QED
  BY <1>1, <1>2
  DEF HttpTyped, RequestsBound, NoClaims, EmptyMap, Settled, Requesting, CallsTyped

(* The invariant of the AI chats types what all transports share.           *)
LEMMA AiCalls == ASSUME AiInv PROVE CallsTyped /\ io \in Call \cup {None}
<1>1. AiTyped /\ ChatsBound /\ NoClaims
  BY DEF AiInv
<1>2. ClaimsSound
  BY <1>1 DEF NoClaims, ChatsBound, ClaimsSound, KeysIn, EmptyMap
<1> QED
  BY <1>1, <1>2
  DEF AiTyped, ChatsBound, NoClaims, EmptyMap, Settled, CallsTyped

(* The invariant of the completions types what all transports share.        *)
LEMMA LabCalls == ASSUME LabInv PROVE CallsTyped /\ io = None
<1>1. /\ LabTyped /\ CompletesBound /\ NoClaims /\ connections = EmptyMap /\ io = None
      /\ conn = [c \in Call |-> "none"]
  BY DEF LabInv, LabIdle
<1>2. ClaimsSound
  BY <1>1 DEF NoClaims, ClaimsSound, KeysIn, EmptyMap
<1> QED
  BY <1>1, <1>2, LabKeys
  DEF LabTyped, CompletesBound, NoClaims, EmptyMap, Settled, Completing, CallsTyped

(* A transport without calls leaves what all share as it began.             *)
LEMMA NoCalls == ASSUME ClaimsInit PROVE CallsTyped /\ io = None
<1>1. ClaimsSound
  BY DEF ClaimsInit, ClaimsSound, KeysIn, EmptyMap
<1> QED
  BY <1>1, ClaimsAssumption DEF ClaimsInit, EmptyMap, CallsTyped

(* Every variable of every transport keeps its type.                       *)
THEOREM TransportsTyped == TransportsSpec => []TransportsTypeOK
<1>1. ASSUME TransportsInv PROVE TransportsTypeOK
  <2>1. TypeOK
    BY <1>1, ConnectTypes DEF TransportsInv, ConnectInv
  <2>2. /\ CallsTyped
        /\ transport = "websocket" => /\ explicit \in [Call -> BOOLEAN]
                                      /\ io \in WebSocket!Emission \cup {None}
        /\ transport # "websocket" => io \in Call \cup {None}
    <3>1. CASE transport = "websocket"
      BY <1>1, <3>1, WebSocketCalls DEF TransportsInv
    <3>2. CASE transport = "mqtt"
      BY <1>1, <3>2, ClaimsCalls DEF TransportsInv, MqttInv, MqttTyped
    <3>3. CASE transport = "socketio"
      BY <1>1, <3>3, ClaimsCalls DEF TransportsInv, SocketIoInv, SocketIoRest, SocketIoTyped
    <3>4. CASE transport = "mcp"
      BY <1>1, <3>4, ClaimsCalls DEF TransportsInv, McpInv, McpRest, McpTyped
    <3>5. CASE transport = "http"
      BY <1>1, <3>5, HttpCalls DEF TransportsInv
    <3>6. CASE transport = "ai"
      BY <1>1, <3>6, AiCalls DEF TransportsInv
    <3>7. CASE transport = "lab"
      BY <1>1, <3>7, LabCalls DEF TransportsInv
    <3>8. CASE transport \in {"kafka", "grpc"}
      BY <1>1, <3>8, NoCalls DEF TransportsInv, Untouched
    <3> QED
      BY <1>1, <3>1, <3>2, <3>3, <3>4, <3>5, <3>6, <3>7, <3>8 DEF TransportsInv
  <2>3. transport # "websocket" => explicit \in [Call -> BOOLEAN]
    BY <1>1 DEF TransportsInv, Untouched
  <2> QED
    BY <2>1, <2>2, <2>3 DEF TransportsTypeOK, CallsTyped
<1> QED
  BY <1>1, TransportsInvariance, PTL

(* Whatever runs in the main process can be reached: a socket, a client or *)
(* a session is the entry of its id or of its claim, a request or a        *)
(* completion in flight is the entry of its id or was aborted.             *)
THEOREM NothingRunsUntracked == TransportsSpec => []Tracked
<1>1. ASSUME TransportsInv PROVE Tracked
  <2>1. transport = "websocket" => WebSocket!Tracked
    BY <1>1
    DEF TransportsInv, WSP!IInv, WSP!Tracked, WSP!Call, WSP!Running, WSP!IsCurrent,
        WebSocket!Tracked, WebSocket!Call, WebSocket!Running, WebSocket!IsCurrent
  <2>2. /\ transport = "mqtt" => Mqtt!MqttTracked
        /\ transport = "socketio" => SocketIo!SocketIoTracked
        /\ transport = "mcp" => Mcp!McpTracked
    BY <1>1 DEF TransportsInv, MqttInv, SocketIoInv, SocketIoRest, McpInv, McpRest
  <2>3. /\ transport = "http" => Http!HttpTracked
        /\ transport = "ai" => Ai!AiTracked
        /\ transport = "lab" => Lab!LabTracked
    BY <1>1, HttpGives, AiGives, LabGives DEF TransportsInv
  <2> QED
    BY <2>1, <2>2, <2>3 DEF Tracked
<1> QED
  BY <1>1, TransportsInvariance, PTL

(* A renderer that is gone owns neither an entry nor a claim, in whichever *)
(* handler.                                                                *)
THEOREM TheDeadOwnNothing == TransportsSpec => []DeadOwnNothing
<1>1. ASSUME TransportsInv PROVE DeadOwnNothing
  <2>1. CASE transport = "websocket"
    <3>1. WSP!Key = Key /\ \A k : WSP!OwnerOf(k) = OwnerOf(k)
      BY DEF WSP!Key, Key, WSP!OwnerOf, OwnerOf
    <3>2. WSP!ClaimsSound /\ WSP!EntriesSound /\ WSP!BoundAreAlive
      BY <1>1, <2>1 DEF TransportsInv, WSP!IInv
    <3> QED
      BY <3>1, <3>2
      DEF WSP!ClaimsSound, WSP!EntriesSound, WSP!BoundAreAlive, DeadOwnNothing
  <2>2. CASE transport \in {"mqtt", "socketio", "mcp"}
    BY <1>1, <2>2, ClaimsGive DEF TransportsInv, MqttInv, SocketIoInv, McpInv
  <2>3. CASE transport \in {"http", "lab", "kafka", "grpc"}
    <3>1. pending = EmptyMap /\ connections = EmptyMap
      BY <1>1, <2>3
      DEF TransportsInv, Untouched, ClaimsInit, HttpInv, HttpIdle, LabInv, LabIdle, NoClaims
    <3> QED
      BY <3>1 DEF EmptyMap, DeadOwnNothing
  <2>4. CASE transport = "ai"
    <3>1. ChatsBound /\ pending = EmptyMap
      BY <1>1, <2>4 DEF TransportsInv, AiInv, NoClaims
    <3> QED
      BY <3>1 DEF ChatsBound, EmptyMap, DeadOwnNothing
  <2> QED
    BY <1>1, <2>1, <2>2, <2>3, <2>4 DEF TransportsInv
<1> QED
  BY <1>1, TransportsInvariance, PTL

(* A Socket.IO event sent with an ackId is answered once and stays         *)
(* answerable; a renderer receives the messages of a Kafka consumer in     *)
(* order, and a token is forgotten uncommitted only when no older one is   *)
(* kept.                                                                   *)
THEOREM DeliveredOnceOnly == TransportsSpec => []DeliveredOnce
<1>1. ASSUME TransportsInv PROVE DeliveredOnce
  <2>1. Delivery!DeliverySound
    BY <1>1, DeliveryGives DEF TransportsInv
  <2>2. CASE transport = "socketio"
    BY <1>1, <2>1, <2>2 DEF TransportsInv, SocketIoInv, SocketIoRest, DeliveredOnce
  <2>3. CASE transport # "socketio"
    <3>1. SocketIo!AckInit
      BY <1>1, <2>3 DEF TransportsInv, Untouched
    <3>2. SocketIo!AcksSound
      BY <3>1 DEF SocketIo!AckInit, SocketIo!AcksSound
    <3> QED
      BY <2>1, <3>2 DEF DeliveredOnce
  <2> QED
    BY <2>2, <2>3
<1> QED
  BY <1>1, TransportsInvariance, PTL

(* No MCP session asked for before a disconnect of its id is alive after   *)
(* it, in whatever await its connect was overtaken.                        *)
THEOREM DisconnectsAreFinal == TransportsSpec => []DisconnectIsFinal
<1>1. ASSUME TransportsInv PROVE DisconnectIsFinal
  BY <1>1
  DEF TransportsInv, Untouched, McpInv, McpRest, DisownedGiveUp, DisconnectIsFinal,
      Mcp!DisconnectIsFinal
<1> QED
  BY <1>1, TransportsInvariance, PTL
===============================================================================
