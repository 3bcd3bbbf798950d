------------------------ MODULE ConnectionRegistryProofs ------------------------
(***************************************************************************)
(* The contract of ConnectionRegistry: that it promises what it should,    *)
(* for any connections, and that every transport of MCTransports keeps it. *)
(* SseProofs has the refinement by the SSE handler.                        *)
(***************************************************************************)
EXTENDS TransportsProofs

CONSTANT Conn

VARIABLES slot, status, present, speaker

Abstract == INSTANCE ConnectionRegistry

-------------------------------------------------------------------------------
(* What every handler that implements it inherits                          *)

(* Slots hold connections, and only their statuses are spoken about.       *)
RegistryType ==
    /\ slot \in [Abstract!Key -> Conn \cup {None}]
    /\ status \in [Conn -> {"new", "live", "done"}]
    /\ present \subseteq Owner

RegistryInv == RegistryType /\ Abstract!LiveIffOccupying /\ Abstract!OnlyPresentOccupy

(* The abstract registry keeps its promise: live connections and occupied  *)
(* slots correspond one to one, and no slot belongs to a renderer that is  *)
(* gone.  It is the contract a transport handler is held to by refinement. *)
THEOREM RegistryKeepsItsPromise ==
  ASSUME None \notin Conn
  PROVE  Abstract!CSpec => [](Abstract!LiveIffOccupying /\ Abstract!OnlyPresentOccupy)
<1> USE DEF RegistryInv, RegistryType, Abstract!LiveIffOccupying, Abstract!OnlyPresentOccupy,
            Abstract!Entries, Abstract!KeysIn
<1>1. Abstract!CInit => RegistryInv
  BY DEF Abstract!CInit, Abstract!EmptyMap
<1>2. RegistryInv /\ [Abstract!CNext]_(Abstract!cvars) => RegistryInv'
  <2> SUFFICES ASSUME RegistryInv, [Abstract!CNext]_(Abstract!cvars) PROVE RegistryInv'
    OBVIOUS
  <2>1. ASSUME NEW c \in Conn, NEW k \in Abstract!Key, Abstract!Establish(c, k)
        PROVE  RegistryInv'
    BY <2>1 DEF Abstract!Establish, Abstract!Put, Abstract!Finish
  <2>2. ASSUME NEW c \in Conn, Abstract!Discard(c) PROVE RegistryInv'
    BY <2>2 DEF Abstract!Discard, Abstract!Finish
  <2>3. ASSUME NEW k \in Abstract!Key, Abstract!End(k) PROVE RegistryInv'
    BY <2>3 DEF Abstract!End, Abstract!Drop, Abstract!Finish
  <2>4. ASSUME NEW o \in Owner, Abstract!Leave(o) PROVE RegistryInv'
    BY <2>4 DEF Abstract!Leave, Abstract!WithoutOwner, Abstract!OwnedBy, Abstract!Finish
  <2>5. CASE Abstract!Speak
    BY <2>5 DEF Abstract!Speak
  <2>6. CASE Abstract!Shutdown
    BY <2>6 DEF Abstract!Shutdown, Abstract!EmptyMap, Abstract!Finish
  <2>7. CASE UNCHANGED Abstract!cvars
    BY <2>7 DEF Abstract!cvars
  <2> QED
    BY <2>1, <2>2, <2>3, <2>4, <2>5, <2>6, <2>7 DEF Abstract!CNext
<1>3. RegistryInv => Abstract!LiveIffOccupying /\ Abstract!OnlyPresentOccupy
  OBVIOUS
<1> QED
  BY <1>1, <1>2, <1>3, PTL DEF Abstract!CSpec

-------------------------------------------------------------------------------
(* What the transports implement                                           *)

(* What the abstract registry sees of the calls.                           *)
Statuses == [c \in Call |-> StatusOf(c)]

(* A call is new until its connection is among those that were built, live *)
(* while that is in a slot, and then done; no two slots have the same.     *)
Mapped(slots, built, statuses) ==
    /\ slots \in [Key -> Call \cup {None}]
    /\ \A j, k \in Key : slots[j] = slots[k] /\ slots[j] # None => j = k
    /\ Entries(slots) \subseteq built
    /\ statuses = [c \in Call |-> IF c \notin built THEN "new"
                                  ELSE IF c \in Entries(slots) THEN "live" ELSE "done"]

(* Who is in a slot, before and after it changes.                          *)
LEMMA InASlot ==
  ASSUME NEW slots, NEW c
  PROVE  c \in Entries(slots) <=> \E k \in Key : slots[k] # None /\ slots[k] = c
BY DEF Entries, KeysIn

(* Who is in a slot after each of the registry's operations on the map.     *)
LEMMA SlotsAfter ==
  ASSUME NEW slots, NEW built, NEW statuses, Mapped(slots, built, statuses), NEW d \in Call
  PROVE  /\ \A k \in Key, c \in Call : d \in Entries(Put(slots, k, c)) <=>
               d = c \/ (d \in Entries(slots) /\ d # slots[k])
         /\ \A k \in Key : d \in Entries(Drop(slots, k)) <=> d \in Entries(slots) /\ d # slots[k]
         /\ \A o \in Owner : d \in Entries(WithoutOwner(slots, o)) <=>
               d \in Entries(slots) /\ d \notin OwnedBy(slots, o)
         /\ d \notin Entries(EmptyMap)
<1>0. /\ slots \in [Key -> Call \cup {None}] /\ None \notin Call
      /\ \A j, k \in Key : slots[j] = slots[k] /\ slots[j] # None => j = k
      /\ d \in Entries(slots) <=> \E k \in Key : slots[k] = d
  BY ClaimsAssumption, InASlot DEF Mapped
<1>1. ASSUME NEW k \in Key, NEW c \in Call
      PROVE  d \in Entries(Put(slots, k, c)) <=> d = c \/ (d \in Entries(slots) /\ d # slots[k])
  <2>1. \A j \in Key : Put(slots, k, c)[j] = IF j = k THEN c ELSE slots[j]
    BY <1>0 DEF Put
  <2>2. d \in Entries(Put(slots, k, c)) <=> \E j \in Key : Put(slots, k, c)[j] = d
    BY <1>0, InASlot
  <2> QED
    BY <1>0, <2>1, <2>2
<1>2. ASSUME NEW k \in Key
      PROVE  d \in Entries(Drop(slots, k)) <=> d \in Entries(slots) /\ d # slots[k]
  <2>1. \A j \in Key : Drop(slots, k)[j] = IF j = k THEN None ELSE slots[j]
    BY <1>0 DEF Drop
  <2>2. d \in Entries(Drop(slots, k)) <=> \E j \in Key : Drop(slots, k)[j] = d
    BY <1>0, InASlot
  <2> QED
    BY <1>0, <2>1, <2>2
<1>3. ASSUME NEW o \in Owner
      PROVE  d \in Entries(WithoutOwner(slots, o)) <=>
                d \in Entries(slots) /\ d \notin OwnedBy(slots, o)
  <2>1. \A j \in Key : WithoutOwner(slots, o)[j] = IF OwnerOf(j) = o THEN None ELSE slots[j]
    BY DEF WithoutOwner
  <2>2. d \in Entries(WithoutOwner(slots, o)) <=> \E j \in Key : WithoutOwner(slots, o)[j] = d
    BY <1>0, InASlot
  <2>3. d \in OwnedBy(slots, o) <=> \E j \in Key : OwnerOf(j) = o /\ slots[j] = d
    BY <1>0 DEF OwnedBy, KeysIn
  <2> QED
    BY <1>0, <2>1, <2>2, <2>3
<1>4. d \notin Entries(EmptyMap)
  BY InASlot DEF EmptyMap
<1> QED
  BY <1>1, <1>2, <1>3, <1>4

(* The instance's copies of the registry's operators are the registry's.   *)
LEMMA RegistrySame ==
  /\ Registry!Key = Key
  /\ Registry!EmptyMap = EmptyMap
  /\ \A map, k, e : Registry!Put(map, k, e) = Put(map, k, e)
  /\ \A map, k : Registry!Drop(map, k) = Drop(map, k)
  /\ \A map : Registry!Entries(map) = Entries(map)
  /\ \A map, o : Registry!OwnedBy(map, o) = OwnedBy(map, o)
  /\ \A map, o : Registry!WithoutOwner(map, o) = WithoutOwner(map, o)
  /\ \A k : Registry!OwnerOf(k) = OwnerOf(k)
  BY DEF Registry!Key, Key, Registry!Put, Put, Registry!Drop, Drop,
         Registry!Entries, Entries, Registry!KeysIn, KeysIn, Registry!OwnedBy,
         OwnedBy, Registry!WithoutOwner, WithoutOwner, Registry!OwnerOf, OwnerOf,
         Registry!EmptyMap, EmptyMap

(* Where a change of the slots lands in the abstract registry.             *)
LEMMA EstablishStep ==
  ASSUME NEW built, NEW after, Mapped(Slot, built, Statuses), Mapped(Slot', after, Statuses'),
         NEW c \in Call, NEW k \in Key, c \notin built, after = built \cup {c},
         OwnerOf(k) \in alive, Slot' = Put(Slot, k, c), alive' = alive, Speaker' \in {c, None}
  PROVE  Registry!CNext
<1>1. Statuses[c] = "new"
  BY DEF Mapped
<1>2. Slot[k] # None => Slot[k] \in Entries(Slot)
  BY InASlot
<1>3. ASSUME NEW d \in Call
      PROVE  Statuses'[d] = IF d = c THEN "live" ELSE IF d = Slot[k] THEN "done" ELSE Statuses[d]
  <2>1. d \in Entries(Slot') <=> d = c \/ (d \in Entries(Slot) /\ d # Slot[k])
    BY SlotsAfter
  <2>2. d = Slot[k] => d \in built
    BY <1>2, ClaimsAssumption DEF Mapped
  <2>3. /\ Statuses'[d] = IF d \notin after THEN "new"
                          ELSE IF d \in Entries(Slot') THEN "live" ELSE "done"
        /\ Statuses[d] = IF d \notin built THEN "new"
                         ELSE IF d \in Entries(Slot) THEN "live" ELSE "done"
    BY DEF Mapped
  <2> QED
    BY <2>1, <2>2, <2>3
<1>4. DOMAIN Statuses' = Call /\ DOMAIN Statuses = Call
  BY DEF Mapped
<1>5. Statuses' = [Registry!Finish({Slot[k]}) EXCEPT ![c] = "live"]
  BY <1>3, <1>4 DEF Statuses, Registry!Finish
<1>9. Registry!Establish(c, k)
  BY <1>1, <1>5, RegistrySame DEF Registry!Establish, Statuses
<1> QED
  BY <1>9, RegistrySame DEF Registry!CNext

(* A connection built and given up at once never enters the registry.       *)
LEMMA DiscardStep ==
  ASSUME NEW built, NEW after, Mapped(Slot, built, Statuses), Mapped(Slot', after, Statuses'),
         NEW c \in Call, c \notin built, after = built \cup {c},
         Slot' = Slot, alive' = alive, Speaker' = None
  PROVE  Registry!CNext
<1>1. Statuses[c] = "new"
  BY DEF Mapped
<1>2. ASSUME NEW d \in Call PROVE Statuses'[d] = IF d = c THEN "done" ELSE Statuses[d]
  <2>1. c \notin Entries(Slot)
    BY DEF Mapped
  <2>2. /\ Statuses'[d] = IF d \notin after THEN "new"
                          ELSE IF d \in Entries(Slot) THEN "live" ELSE "done"
        /\ Statuses[d] = IF d \notin built THEN "new"
                         ELSE IF d \in Entries(Slot) THEN "live" ELSE "done"
    BY DEF Mapped
  <2> QED
    BY <2>1, <2>2
<1>3. DOMAIN Statuses' = Call /\ DOMAIN Statuses = Call
  BY DEF Mapped
<1>4. Statuses' = Registry!Finish({c})
  BY <1>2, <1>3 DEF Statuses, Registry!Finish
<1>9. Registry!Discard(c)
  BY <1>1, <1>4, RegistrySame DEF Registry!Discard, Statuses
<1> QED
  BY <1>9, RegistrySame DEF Registry!CNext

(* Who leaves its slot while nothing is built is done.                     *)
LEMMA FinishedAre ==
  ASSUME NEW built, Mapped(Slot, built, Statuses), Mapped(Slot', built, Statuses'),
         NEW gone,
         \A d \in Call : /\ d \in gone => d \in Entries(Slot)
                         /\ d \in Entries(Slot') <=> d \in Entries(Slot) /\ d \notin gone
  PROVE  Statuses' = Registry!Finish(gone)
<1>1. ASSUME NEW d \in Call PROVE Statuses'[d] = IF d \in gone THEN "done" ELSE Statuses[d]
  <2>1. /\ Statuses'[d] = IF d \notin built THEN "new"
                          ELSE IF d \in Entries(Slot') THEN "live" ELSE "done"
        /\ Statuses[d] = IF d \notin built THEN "new"
                         ELSE IF d \in Entries(Slot) THEN "live" ELSE "done"
        /\ Entries(Slot) \subseteq built
    BY DEF Mapped
  <2> QED
    BY <2>1
<1>2. DOMAIN Statuses' = Call /\ DOMAIN Statuses = Call
  BY DEF Mapped
<1> QED
  BY <1>1, <1>2 DEF Statuses, Registry!Finish

(* Emptying a slot ends its connection, which may have the last word.       *)
LEMMA EndStep ==
  ASSUME NEW built, Mapped(Slot, built, Statuses), Mapped(Slot', built, Statuses'),
         NEW k \in Key, Slot[k] # None, Slot' = Drop(Slot, k), alive' = alive,
         Speaker' \in {Slot[k], None}
  PROVE  Registry!CNext
<1>1. \A d \in Call : /\ d \in {Slot[k]} => d \in Entries(Slot)
                      /\ d \in Entries(Slot') <=> d \in Entries(Slot) /\ d \notin {Slot[k]}
  BY SlotsAfter, InASlot
<1>2. Statuses' = Registry!Finish({Slot[k]})
  BY <1>1, FinishedAre
<1>9. Registry!End(k)
  BY <1>2, RegistrySame DEF Registry!End, Statuses
<1> QED
  BY <1>9, RegistrySame DEF Registry!CNext

(* Emptying a renderer's slots as it goes ends its connections.             *)
LEMMA LeaveStep ==
  ASSUME NEW built, Mapped(Slot, built, Statuses), Mapped(Slot', built, Statuses'),
         NEW o \in Owner, o \in alive, alive' = alive \ {o},
         Slot' = WithoutOwner(Slot, o), Speaker' = None
  PROVE  Registry!CNext
<1>1. \A d \in Call : /\ d \in OwnedBy(Slot, o) => d \in Entries(Slot)
                      /\ d \in Entries(Slot') <=> d \in Entries(Slot) /\ d \notin OwnedBy(Slot, o)
  BY SlotsAfter DEF OwnedBy, Entries
<1>2. Statuses' = Registry!Finish(OwnedBy(Slot, o))
  BY <1>1, FinishedAre
<1>9. Registry!Leave(o)
  BY <1>2, RegistrySame DEF Registry!Leave, Statuses
<1> QED
  BY <1>9, RegistrySame DEF Registry!CNext

(* Emptying all the slots ends all the connections.                         *)
LEMMA ShutdownStep ==
  ASSUME NEW built, Mapped(Slot, built, Statuses), Mapped(Slot', built, Statuses'),
         Slot' = EmptyMap, alive' = alive, Speaker' = None
  PROVE  Registry!CNext
<1>1. \A d \in Call : /\ d \in Entries(Slot) => d \in Entries(Slot)
                      /\ d \in Entries(Slot') <=> d \in Entries(Slot) /\ d \notin Entries(Slot)
  BY SlotsAfter
<1>2. Statuses' = Registry!Finish(Entries(Slot))
  BY <1>1, FinishedAre
<1>9. Registry!Shutdown
  BY <1>2, RegistrySame DEF Registry!Shutdown, Statuses
<1> QED
  BY <1>9, RegistrySame DEF Registry!CNext

(* Who is in a slot may speak.                                              *)
LEMMA SpeakStep ==
  ASSUME NEW built, Mapped(Slot, built, Statuses), Mapped(Slot', built, Statuses'),
         Slot' = Slot, alive' = alive, Speaker' \in Entries(Slot) \cup {None}
  PROVE  Registry!CNext
<1>1. Statuses' = Statuses
  BY DEF Mapped
<1>9. Registry!Speak
  BY <1>1, RegistrySame DEF Registry!Speak, Statuses
<1> QED
  BY <1>9, RegistrySame DEF Registry!CNext

(* Whoever speaks is the call the observation names.                       *)
LEMMA SpeakerOf == ~(transport = "websocket") => Speaker = None \/ Speaker = io
  BY DEF Speaker

(* How a transport whose slots are its registry moves the abstract one.    *)
LEMMA Moves ==
  ASSUME NEW built, NEW after, Mapped(Slot, built, Statuses), Mapped(Slot', after, Statuses'),
         Slot = connections, Slot' = connections', Speaker' = None \/ Speaker' = io'
  PROVE  /\ \A c \in Call, k \in Key :
               /\ c \notin built /\ after = built \cup {c} /\ OwnerOf(k) \in alive
               /\ connections' = Put(connections, k, c) /\ alive' = alive /\ io' \in {c, None}
               => Registry!CNext
         /\ \A c \in Call :
               /\ c \notin built /\ after = built \cup {c}
               /\ connections' = connections /\ alive' = alive /\ io' = None
               => Registry!CNext
         /\ \A k \in Key :
               /\ connections[k] # None /\ after = built /\ connections' = Drop(connections, k)
               /\ alive' = alive /\ io' \in {connections[k], None}
               => Registry!CNext
         /\ \A o \in Owner :
               /\ o \in alive /\ alive' = alive \ {o} /\ after = built
               /\ connections' = WithoutOwner(connections, o) /\ io' = None
               => Registry!CNext
         /\ after = built /\ connections' = EmptyMap /\ alive' = alive /\ io' = None
               => Registry!CNext
         /\ /\ after = built /\ connections' = connections /\ alive' = alive
            /\ io' \in Entries(connections) \cup {None}
            => Registry!CNext
<1>1. ASSUME NEW c \in Call, NEW k \in Key
      PROVE  /\ c \notin built /\ after = built \cup {c} /\ OwnerOf(k) \in alive
             /\ connections' = Put(connections, k, c) /\ alive' = alive /\ io' \in {c, None}
             => Registry!CNext
  BY EstablishStep
<1>2. ASSUME NEW c \in Call
      PROVE  /\ c \notin built /\ after = built \cup {c}
             /\ connections' = connections /\ alive' = alive /\ io' = None
             => Registry!CNext
  BY DiscardStep
<1>3. ASSUME NEW k \in Key
      PROVE  /\ connections[k] # None /\ after = built /\ connections' = Drop(connections, k)
             /\ alive' = alive /\ io' \in {connections[k], None}
             => Registry!CNext
  BY EndStep
<1>4. ASSUME NEW o \in Owner
      PROVE  /\ o \in alive /\ alive' = alive \ {o} /\ after = built
             /\ connections' = WithoutOwner(connections, o) /\ io' = None
             => Registry!CNext
  BY LeaveStep
<1>5. after = built /\ connections' = EmptyMap /\ alive' = alive /\ io' = None
      => Registry!CNext
  BY ShutdownStep
<1>6. /\ after = built /\ connections' = connections /\ alive' = alive
      /\ io' \in Entries(connections) \cup {None}
      => Registry!CNext
  BY SpeakStep
<1> QED
  BY <1>1, <1>2, <1>3, <1>4, <1>5, <1>6

(* The calls of MQTT, Socket.IO and WebSocket that have got a client.      *)
Built == {c \in Call : conn[c] # "none"}

(* MQTT's entries are slots of the abstract registry.                       *)
LEMMA MqttMapped ==
  transport = "mqtt" /\ MqttInv => Slot = connections /\ Mapped(Slot, Built, Statuses)
<1> SUFFICES ASSUME transport = "mqtt", MqttInv
             PROVE  Slot = connections /\ Mapped(Slot, Built, Statuses)
  OBVIOUS
<1>1. Slot = connections
  BY DEF Slot
<1>2. ClaimsTyped /\ KeysAgree /\ None \notin Call
  BY ClaimsAssumption DEF MqttInv, ClaimsInv
<1>3. ASSUME NEW c \in Call PROVE c \in Entries(connections) => conn[c] # "none"
  <2> SUFFICES ASSUME c \in Entries(connections) PROVE conn[c] # "none"
    OBVIOUS
  <2>1. PICK k \in Key : connections[k] # None /\ connections[k] = c
    BY InASlot
  <2>2. pc[c] = "ok"
    BY <1>2, <2>1 DEF KeysAgree
  <2> QED
    BY <2>2 DEF MqttInv, ClientsSound
<1>4. Entries(connections) \subseteq Call
  BY <1>2 DEF Entries, KeysIn, ClaimsTyped
<1>5. \A j, k \in Key : connections[j] = connections[k] /\ connections[j] # None => j = k
  BY <1>2 DEF KeysAgree
<1>6. \A c \in Call : Mqtt!MqttStatus(c) =
          IF c \notin Built THEN "new" ELSE IF c \in Entries(connections) THEN "live" ELSE "done"
  <2>1. Mqtt!Entries(connections) = Entries(connections)
    BY MqttSame
  <2>2. TAKE c \in Call
  <2>3. CASE conn[c] = "none"
    <3>1. c \notin Built
      BY <2>3 DEF Built
    <3> HIDE DEF Built
    <3>2. c \notin Entries(connections)
      BY <1>3, <2>3
    <3> QED
      BY <2>1, <2>3, <3>1, <3>2 DEF Mqtt!MqttStatus
  <2>4. CASE conn[c] # "none"
    <3>1. c \in Built
      BY <2>4 DEF Built
    <3> HIDE DEF Built
    <3> QED
      BY <2>1, <2>4, <3>1 DEF Mqtt!MqttStatus
  <2> QED
    BY <2>3, <2>4
<1>7. \A c \in Call : StatusOf(c) = Mqtt!MqttStatus(c)
  BY DEF StatusOf
<1> QED
  BY <1>1, <1>2, <1>3, <1>4, <1>5, <1>6, <1>7 DEF Mapped, Statuses, Built, ClaimsTyped

(* Each step of the MQTT handler is one of the abstract registry.          *)
LEMMA MqttImplements ==
  ASSUME transport = "mqtt", (transport = "mqtt")', MqttInv, MqttInv', Mqtt!MqttNext
  PROVE  Registry!CNext
<1>0. /\ Slot = connections /\ Mapped(Slot, Built, Statuses)
      /\ (Slot = connections /\ Mapped(Slot, Built, Statuses))'
  BY MqttMapped, PTL
<1>1. Slot' = connections' /\ Mapped(Slot', Built', Statuses')
  BY <1>0
<1>2. Speaker' = None \/ Speaker' = io'
  <2>1. ~(transport = "websocket")'
    OBVIOUS
  <2>2. (Speaker = None \/ Speaker = io)'
    BY <2>1, SpeakerOf, PTL
  <2> QED
    BY <2>2
<1>3. ClaimsInv /\ MqttTyped /\ None \notin Call
  BY ClaimsAssumption DEF MqttInv
<1> USE MqttSame
<1>4. ASSUME NEW c \in Call, NEW k \in Key, conn[c] = "none", conn' = [conn EXCEPT ![c] = "up"],
             connections' = Put(connections, k, c), OwnerOf(k) \in alive, alive' = alive,
             io' = None
      PROVE  Registry!CNext
  <2>1. c \notin Built /\ Built' = Built \cup {c}
    BY <1>3, <1>4 DEF Built, MqttTyped
  <2> QED
    BY <1>0, <1>1, <1>2, <1>4, <2>1, Moves
<1>5. ASSUME NEW k \in Key, connections[k] # None, Built' = Built,
             connections' = Drop(connections, k), alive' = alive, io' \in {connections[k], None}
      PROVE  Registry!CNext
  BY <1>0, <1>1, <1>2, <1>5, Moves
<1>6. ASSUME Built' = Built, connections' = connections, alive' = alive,
             io' = None \/ io' \in Entries(connections)
      PROVE  Registry!CNext
  BY <1>0, <1>1, <1>2, <1>6, Moves
<1>7. ASSUME conn' = conn PROVE Built' = Built
  BY <1>7 DEF Built
<1>8. ASSUME NEW gone \in SUBSET Call, \A c \in gone : conn[c] # "none", conn' = Mqtt!Ended(gone)
      PROVE  Built' = Built
  BY <1>3, <1>8 DEF Built, Mqtt!Ended, MqttTyped
<1>9. ASSUME NEW k \in Key, connections[k] # None
      PROVE  connections[k] \in Call /\ conn[connections[k]] # "none"
             /\ keyOf[connections[k]] = k
  <2>1. connections[k] \in Call /\ keyOf[connections[k]] = k /\ pc[connections[k]] = "ok"
    BY <1>3, <1>9 DEF ClaimsInv, ClaimsTyped, KeysAgree
  <2> QED
    BY <2>1 DEF MqttInv, ClientsSound
<1>10. ASSUME NEW c \in Call, NEW k \in Key, Mqtt!ConnectRejected(c, k) \/ Mqtt!ConnectUnbuilt(c, k)
       PROVE  Registry!CNext
  BY <1>6, <1>7, <1>10 DEF Mqtt!ConnectRejected, Mqtt!ConnectUnbuilt, Reject
<1>11. ASSUME NEW c \in Call, NEW k \in Key, Mqtt!ConnectNew(c, k) PROVE Registry!CNext
  <2>1. conn[c] = "none"
    BY <1>11, MqttFacts DEF Mqtt!ConnectNew, Arrive
  <2> QED
    BY <1>4, <1>11, <2>1 DEF Mqtt!ConnectNew, Mqtt!Register, Mqtt!Becomes, Arrive
<1>12. ASSUME NEW c \in Call, NEW k \in Key, Mqtt!Reconnect(c, k) PROVE Registry!CNext
  <2>1. Built' = Built
    <3>1. conn' = Mqtt!Ended({connections[k]}) /\ connections[k] # None
      BY <1>12 DEF Mqtt!Reconnect
    <3> QED
      BY <1>8, <1>9, <3>1
  <2> QED
    BY <1>6, <1>12, <2>1 DEF Mqtt!Reconnect
<1>13. ASSUME NEW c \in Call, Mqtt!ReconnectStale(c) PROVE Registry!CNext
  BY <1>6, <1>7, <1>13 DEF Mqtt!ReconnectStale, GiveUp
<1>14. ASSUME NEW c \in Call, Mqtt!ReconnectFailed(c) PROVE Registry!CNext
  <2>1. keyOf[c] \in Key /\ connections[keyOf[c]] # None
    <3>1. pc[c] = "ending" /\ CanCommit(c)
      BY <1>14 DEF Mqtt!ReconnectFailed, Mqtt!Resumed
    <3>2. keyOf[c] \in Key
      BY <3>1, MqttFacts
    <3>3. ownerEntry[c] # None
      BY <3>1 DEF MqttInv, ClientsSound, Settled
    <3> QED
      BY <3>1, <3>2, <3>3 DEF CanCommit
  <2>2. conn' = conn /\ connections' = Drop(connections, keyOf[c]) /\ alive' = alive /\ io' = None
    BY <1>14 DEF Mqtt!ReconnectFailed
  <2> QED
    BY <1>5, <1>7, <2>1, <2>2
<1>15. ASSUME NEW c \in Call, Mqtt!Replace(c) PROVE Registry!CNext
  <2>1. pc[c] = "ending" /\ HoldsClaim(c)
    BY <1>15 DEF Mqtt!Replace, Mqtt!Resumed, CanCommit
  <2>2. keyOf[c] \in Key /\ conn[c] = "none"
    BY <2>1, MqttFacts
  <2>3. OwnerOf(keyOf[c]) \in alive
    BY <1>3, <2>1, <2>2 DEF ClaimsInv, OwnersBound, HoldsClaim
  <2>4. /\ conn' = [conn EXCEPT ![c] = "up"] /\ connections' = Put(connections, keyOf[c], c)
        /\ alive' = alive /\ io' = None
    BY <1>15 DEF Mqtt!Replace, Mqtt!Register, Mqtt!Becomes
  <2> QED
    BY <1>4, <2>2, <2>3, <2>4
<1>16. ASSUME NEW e \in Call, Mqtt!Disconnected(e) PROVE Registry!CNext
  <2>0. e \in closer /\ alive' = alive /\ conn' = conn
    BY <1>16 DEF Mqtt!Disconnected
  <2>1. CASE IsCurrent(e)
    <3>1. keyOf[e] \in Key
      BY <1>3, <2>0, MqttFacts DEF MqttInv, ClientsSound
    <3>2. connections' = Drop(connections, keyOf[e]) /\ Say(e)
      BY <1>16, <2>1 DEF Mqtt!Disconnected
    <3>3. connections[keyOf[e]] = e /\ e # None
      BY <1>3, <2>1 DEF IsCurrent
    <3>4. io' \in {e, None}
      BY <3>2 DEF Say
    <3> QED
      BY <1>5, <1>7, <2>0, <3>1, <3>2, <3>3, <3>4
  <2>2. CASE ~IsCurrent(e)
    BY <1>6, <1>7, <1>16, <2>0, <2>2 DEF Mqtt!Disconnected
  <2> QED
    BY <2>1, <2>2
<1>17. ASSUME NEW c \in Call, Mqtt!ClientEvent(c) \/ Mqtt!RequestCallback(c) PROVE Registry!CNext
  <2>1. /\ conn[c] # "none" /\ Mqtt!SayIfCurrent(c)
        /\ conn' = conn /\ connections' = connections /\ alive' = alive
    BY <1>17 DEF Mqtt!ClientEvent, Mqtt!RequestCallback
  <2>2. keyOf[c] \in Key
    BY <2>1, MqttFacts
  <2>3. io' = None \/ io' \in Entries(connections)
    <3>1. IsCurrent(c) => c \in Entries(connections)
      BY <1>3, <2>2, InASlot DEF IsCurrent
    <3> QED
      BY <2>1, <3>1 DEF Mqtt!SayIfCurrent, Say
  <2> QED
    BY <1>6, <1>7, <2>1, <2>3
<1>18. ASSUME NEW c \in Call, Mqtt!StopNextEntry(c) PROVE Registry!CNext
  <2>1. /\ c \in Entries(connections) /\ conn' = Mqtt!Ended({c})
        /\ connections' = connections /\ alive' = alive /\ io' = None
    BY <1>18 DEF Mqtt!StopNextEntry, Mqtt!Unswept
  <2>2. conn[c] # "none"
    BY <1>9, <2>1, InASlot
  <2> QED
    BY <1>6, <1>8, <2>1, <2>2
<1>19. ASSUME NEW k \in Key, Mqtt!Disconnect(k) PROVE Registry!CNext
  <2>1. /\ connections[k] # None /\ conn' = Mqtt!Ended({connections[k]})
        /\ connections' = connections /\ alive' = alive /\ io' = None
    BY <1>19 DEF Mqtt!Disconnect
  <2>2. Built' = Built
    BY <1>8, <1>9, <2>1
  <2> QED
    BY <1>6, <2>1, <2>2
<1>20. ASSUME NEW o \in Owner, Mqtt!Destroyed(o) PROVE Registry!CNext
  <2>1. TornDown(o) /\ conn' = Mqtt!Ended(Mqtt!DisposedOnDestroyed(connections, entryBound, o))
    BY <1>20 DEF Mqtt!Destroyed
  <2>2. connections' = WithoutOwner(connections, o)
    BY <1>3, <2>1, TornDownMaps
  <2>3. Built' = Built
    <3> DEFINE gone == Mqtt!DisposedOnDestroyed(connections, entryBound, o)
    <3>1. \A c \in gone : \E k \in Key : connections[k] # None /\ c = connections[k]
      BY DEF Mqtt!DisposedOnDestroyed, Mqtt!OwnedBy, Mqtt!KeysIn
    <3>2. gone \in SUBSET Call /\ \A c \in gone : conn[c] # "none"
      BY <1>9, <3>1
    <3> HIDE DEF gone
    <3>3. conn' = Mqtt!Ended(gone)
      BY <2>1 DEF gone
    <3> QED
      BY <1>8, <3>2, <3>3
  <2>4. o \in alive /\ alive' = alive \ {o} /\ io' = None
    BY <2>1 DEF TornDown
  <2> QED
    BY <1>0, <1>1, <1>2, <2>2, <2>3, <2>4, Moves
<1>21. CASE Mqtt!StopStart
  BY <1>6, <1>7, <1>21 DEF Mqtt!StopStart
<1>22. CASE Mqtt!StopEnd
  <2>1. connections' = EmptyMap /\ alive' = alive /\ conn' = conn /\ io' = None
    BY <1>22 DEF Mqtt!StopEnd
  <2> QED
    BY <1>0, <1>1, <1>2, <1>7, <2>1, Moves
<1> QED
  BY <1>10, <1>11, <1>12, <1>13, <1>14, <1>15, <1>16, <1>17, <1>18, <1>19, <1>20, <1>21, <1>22
  DEF Mqtt!MqttNext, Mqtt!ConnectCall

(* Socket.IO's entries are slots of the abstract registry.                  *)
LEMMA SocketIoMapped ==
  transport = "socketio" /\ SocketIoInv
  => Slot = connections /\ Mapped(Slot, Built, Statuses)
<1> SUFFICES ASSUME transport = "socketio", SocketIoInv
             PROVE  Slot = connections /\ Mapped(Slot, Built, Statuses)
  OBVIOUS
<1>1. Slot = connections
  BY DEF Slot
<1>2. /\ connections \in [Key -> Call \cup {None}] /\ None \notin Call
      /\ SocketIoTyped /\ SocketsSound
  BY ClaimsAssumption DEF SocketIoInv, SocketIoRest, ClaimsInv, ClaimsTyped
<1>3. \A j, k \in Key : connections[j] = connections[k] /\ connections[j] # None => j = k
  BY SocketIoFacts
<1>4. ASSUME NEW c \in Call PROVE c \in Entries(connections) <=> conn[c] = "up"
  <2>1. conn[c] = "up" => keyOf[c] \in Key /\ connections[keyOf[c]] = c
    BY SocketIoFacts
  <2> QED
    BY <1>2, <2>1, InASlot DEF SocketsSound
<1>5. Entries(connections) \subseteq Call
  BY <1>2 DEF Entries, KeysIn
<1>6. \A c \in Call : StatusOf(c) =
          IF c \notin Built THEN "new" ELSE IF c \in Entries(connections) THEN "live" ELSE "done"
  <2>1. \A c \in Call : StatusOf(c) = SocketIo!SocketIoStatus(c)
    BY DEF StatusOf
  <2>2. TAKE c \in Call
  <2>3. SocketIo!SocketIoStatus(c) = IF conn[c] = "none" THEN "new"
                                     ELSE IF conn[c] = "up" THEN "live" ELSE "done"
    BY DEF SocketIo!SocketIoStatus
  <2> QED
    BY <1>4, <2>1, <2>3 DEF Built
<1> QED
  BY <1>1, <1>2, <1>3, <1>4, <1>5, <1>6 DEF Mapped, Statuses, Built

(* Each step of the Socket.IO handler is one of the abstract registry.     *)
LEMMA SocketIoImplements ==
  ASSUME transport = "socketio", (transport = "socketio")', SocketIoInv, SocketIoInv',
         SocketIo!SocketIoNext
  PROVE  Registry!CNext
<1>0. /\ Slot = connections /\ Mapped(Slot, Built, Statuses)
      /\ (Slot = connections /\ Mapped(Slot, Built, Statuses))'
  BY SocketIoMapped, PTL
<1>1. Slot' = connections' /\ Mapped(Slot', Built', Statuses')
  BY <1>0
<1>2. Speaker' = None \/ Speaker' = io'
  <2>1. ~(transport = "websocket")'
    OBVIOUS
  <2>2. (Speaker = None \/ Speaker = io)'
    BY <2>1, SpeakerOf, PTL
  <2> QED
    BY <2>2
<1>3. ClaimsInv /\ SocketIoTyped /\ SocketsSound /\ None \notin Call
  BY ClaimsAssumption DEF SocketIoInv, SocketIoRest
<1> USE SocketIoSame
<1>4. ASSUME Built' = Built, connections' = connections, alive' = alive,
             io' = None \/ io' \in Entries(connections)
      PROVE  Registry!CNext
  BY <1>0, <1>1, <1>2, <1>4, Moves
<1>5. ASSUME conn' = conn PROVE Built' = Built
  BY <1>5 DEF Built
<1>6. ASSUME NEW gone, \A c \in Call \cap gone : conn[c] # "none", conn' = SocketIo!Over(gone)
      PROVE  Built' = Built
  BY <1>3, <1>6 DEF Built, SocketIo!Over, SocketIoTyped
<1>7. ASSUME NEW c \in Call, Say(c), c \in Entries(connections) PROVE io' = None \/ io' \in Entries(connections)
  BY <1>7 DEF Say
<1>8. \A k \in Key : connections[k] # None => conn[connections[k]] = "up"
  BY <1>3 DEF SocketsSound
<1>9. ASSUME NEW c \in Call, NEW k \in Key, SocketIo!ConnectRejected(c, k) \/ SocketIo!Connect(c, k)
      PROVE  Registry!CNext
  BY <1>4, <1>5, <1>9 DEF SocketIo!ConnectRejected, SocketIo!Connect, Reject
<1>10. ASSUME NEW c \in Call, SocketIo!ConnectFailed(c) \/ SocketIo!Resolved(c)
       PROVE  Registry!CNext
  BY <1>4, <1>5, <1>10 DEF SocketIo!ConnectFailed, SocketIo!Resolved, GiveUp
<1>11. ASSUME NEW c \in Call, SocketIo!Commit(c) PROVE Registry!CNext
  <2>1. /\ pc[c] = "loading" /\ CanCommit(c) /\ Enter(c) /\ alive' = alive /\ io' = None
        /\ conn' = [SocketIo!Over({ownerEntry[c]}) EXCEPT ![c] = "up"]
    BY <1>11 DEF SocketIo!Commit
  <2>2. keyOf[c] \in Key /\ conn[c] = "none"
    BY <2>1, SocketIoFacts DEF Settled
  <2>3. OwnerOf(keyOf[c]) \in alive
    BY <1>3, <2>1, <2>2 DEF ClaimsInv, OwnersBound, CanCommit, HoldsClaim
  <2>4. c \notin Built /\ Built' = Built \cup {c}
    <3>1. ownerEntry[c] # None => conn[ownerEntry[c]] = "up"
      BY <1>8, <2>1, <2>2 DEF CanCommit
    <3>2. \A d \in Call : conn'[d] = IF d = c THEN "up" ELSE IF d = ownerEntry[c] THEN "over" ELSE conn[d]
      BY <1>3, <2>1 DEF SocketIo!Over
    <3> QED
      BY <1>3, <2>2, <3>1, <3>2 DEF Built
  <2> QED
    BY <1>0, <1>1, <1>2, <2>1, <2>2, <2>3, <2>4, Moves DEF Enter
<1>12. ASSUME NEW c \in Call, SocketIo!CommitRefused(c) PROVE Registry!CNext
  <2>1. /\ pc[c] = "loading" /\ connections' = connections /\ alive' = alive /\ io' = None
        /\ conn' = [conn EXCEPT ![c] = "over"]
    BY <1>12 DEF SocketIo!CommitRefused, SocketIo!Becomes
  <2>2. c \notin Built /\ Built' = Built \cup {c}
    BY <1>3, <2>1 DEF Built, SocketsSound, SocketIoTyped
  <2> QED
    BY <1>0, <1>1, <1>2, <2>1, <2>2, Moves
<1>13. ASSUME NEW c \in Call, SocketIo!SocketEvent(c) PROVE Registry!CNext
  <2>1. /\ conn[c] # "none" /\ SocketIo!SayIfCurrent(c)
        /\ conn' = conn /\ connections' = connections /\ alive' = alive
    BY <1>13 DEF SocketIo!SocketEvent
  <2>2. keyOf[c] \in Key
    <3>1. pc[c] # "idle"
      BY <1>3, <2>1 DEF SocketsSound
    <3> QED
      BY <1>3, <3>1, CallFacts
  <2>3. IsCurrent(c) => c \in Entries(connections)
    BY <1>3, <2>2, InASlot DEF IsCurrent
  <2> QED
    BY <1>4, <1>5, <1>7, <2>1, <2>3 DEF SocketIo!SayIfCurrent
<1>14. ASSUME NEW k \in Key, NEW a \in SocketIo!Ack, SocketIo!EmitWithAck(k, a)
       PROVE  Registry!CNext
  BY <1>4, <1>5, <1>14 DEF SocketIo!EmitWithAck
<1>15. ASSUME NEW a \in SocketIo!Ack, SocketIo!Acknowledged(a) \/ SocketIo!AckTimeout(a)
       PROVE  Registry!CNext
  <2>1. /\ a \in pendingAcks /\ Say(ackOn[a])
        /\ conn' = conn /\ connections' = connections /\ alive' = alive
    BY <1>15, AckFacts DEF SocketIo!Acknowledged, SocketIo!AckTimeout
  <2>2. ackOn[a] \in Call /\ conn[ackOn[a]] = "up"
    BY <2>1, AckFacts
  <2>3. ackOn[a] \in Entries(connections)
    BY <1>3, <2>2, SocketIoFacts, InASlot
  <2> QED
    BY <1>4, <1>5, <1>7, <2>1, <2>2, <2>3
<1>16. ASSUME NEW k \in Key, SocketIo!Disconnect(k) PROVE Registry!CNext
  <2>1. /\ connections[k] # None /\ conn' = SocketIo!Over({connections[k]})
        /\ connections' = Drop(connections, k) /\ alive' = alive /\ io' = None
    BY <1>16 DEF SocketIo!Disconnect, SocketIo!DisposeSocketIo
  <2>2. Built' = Built
    BY <1>6, <1>8, <2>1
  <2> QED
    BY <1>0, <1>1, <1>2, <2>1, <2>2, Moves
<1>17. ASSUME NEW o \in Owner, SocketIo!Destroyed(o) PROVE Registry!CNext
  <2> DEFINE gone == SocketIo!DisposedOnDestroyed(connections, entryBound, o)
  <2>1. TornDown(o) /\ conn' = SocketIo!Over(gone)
    BY <1>17 DEF SocketIo!Destroyed, SocketIo!DisposeSocketIo
  <2>2. connections' = WithoutOwner(connections, o)
    BY <1>3, <2>1, TornDownMaps
  <2>3. \A c \in gone : \E k \in Key : connections[k] # None /\ c = connections[k]
    BY DEF SocketIo!DisposedOnDestroyed, SocketIo!OwnedBy, SocketIo!KeysIn
  <2> HIDE DEF gone
  <2>4. Built' = Built
    BY <1>6, <1>8, <2>1, <2>3
  <2>5. o \in alive /\ alive' = alive \ {o} /\ io' = None
    BY <2>1 DEF TornDown
  <2> QED
    BY <1>0, <1>1, <1>2, <2>2, <2>4, <2>5, Moves
<1>18. CASE SocketIo!Stop
  <2>1. /\ conn' = SocketIo!Over(Entries(connections))
        /\ connections' = EmptyMap /\ alive' = alive /\ io' = None
    BY <1>18 DEF SocketIo!Stop, SocketIo!DisposeSocketIo
  <2>2. \A c \in Entries(connections) : conn[c] # "none"
    BY <1>8, InASlot
  <2>3. Built' = Built
    BY <1>6, <2>1, <2>2
  <2> QED
    BY <1>0, <1>1, <1>2, <2>1, <2>3, Moves
<1> QED
  BY <1>9, <1>10, <1>11, <1>12, <1>13, <1>14, <1>15, <1>16, <1>17, <1>18
  DEF SocketIo!SocketIoNext, SocketIo!Resume

(* The calls of MCP that have got a session in the registry, or had one    *)
(* and have given it up.                                                   *)
SessionsBuilt == {c \in Call : conn[c] \in {"open", "over"} /\ pc[c] # "connecting"}

(* MCP's entries are slots of the abstract registry.                        *)
LEMMA McpMapped ==
  transport = "mcp" /\ McpInv
  => Slot = connections /\ Mapped(Slot, SessionsBuilt, Statuses)
<1> SUFFICES ASSUME transport = "mcp", McpInv
             PROVE  Slot = connections /\ Mapped(Slot, SessionsBuilt, Statuses)
  OBVIOUS
<1>1. Slot = connections
  BY DEF Slot
<1>2. /\ connections \in [Key -> Call \cup {None}] /\ None \notin Call
      /\ McpTyped /\ SessionsSound
  BY ClaimsAssumption DEF McpInv, McpRest, ClaimsInv, ClaimsTyped
<1>3. \A j, k \in Key : connections[j] = connections[k] /\ connections[j] # None => j = k
  BY McpFacts
<1>4. ASSUME NEW c \in Call PROVE c \in Entries(connections) <=> conn[c] = "open"
  <2>1. conn[c] = "open" => keyOf[c] \in Key /\ connections[keyOf[c]] = c
    BY McpFacts
  <2>2. \A k \in Key : connections[k] # None => conn[connections[k]] = "open"
    BY McpFacts
  <2> QED
    BY <1>2, <2>1, <2>2, InASlot
<1>5. \A c \in Call : conn[c] = "open" => pc[c] = "ok"
  BY <1>2 DEF SessionsSound
<1>6. \A c \in Call : StatusOf(c) =
          IF c \notin SessionsBuilt THEN "new"
          ELSE IF c \in Entries(connections) THEN "live" ELSE "done"
  <2>1. \A c \in Call : StatusOf(c) = Mcp!McpStatus(c)
    BY DEF StatusOf
  <2>2. TAKE c \in Call
  <2>3. conn[c] \in {"none", "opening", "open", "over"}
    BY <1>2 DEF McpTyped
  <2> QED
    BY <1>4, <2>1, <2>3 DEF SessionsBuilt, Mcp!McpStatus
<1>7. Entries(connections) \subseteq SessionsBuilt
  <2>1. Entries(connections) \subseteq Call
    BY <1>2 DEF Entries, KeysIn
  <2> QED
    BY <1>4, <1>5, <2>1 DEF SessionsBuilt
<1> QED
  BY <1>1, <1>2, <1>3, <1>6, <1>7 DEF Mapped, Statuses

(* Each step of the MCP handlers is one of the abstract registry.          *)
LEMMA McpImplements ==
  ASSUME transport = "mcp", (transport = "mcp")', McpInv, McpInv', Mcp!McpNext
  PROVE  Registry!CNext
<1>0. /\ Slot = connections /\ Mapped(Slot, SessionsBuilt, Statuses)
      /\ (Slot = connections /\ Mapped(Slot, SessionsBuilt, Statuses))'
  BY McpMapped, PTL
<1>1. Slot' = connections' /\ Mapped(Slot', SessionsBuilt', Statuses')
  BY <1>0
<1>2. Speaker' = None \/ Speaker' = io'
  <2>1. ~(transport = "websocket")'
    OBVIOUS
  <2>2. (Speaker = None \/ Speaker = io)'
    BY <2>1, SpeakerOf, PTL
  <2> QED
    BY <2>2
<1>3. ClaimsInv /\ McpTyped /\ SessionsSound /\ None \notin Call
  BY ClaimsAssumption DEF McpInv, McpRest
<1> USE McpSame
<1>4. ASSUME SessionsBuilt' = SessionsBuilt, connections' = connections, alive' = alive,
             io' = None \/ io' \in Entries(connections)
      PROVE  Registry!CNext
  BY <1>0, <1>1, <1>2, <1>4, Moves
<1>5. /\ pc \in [Call -> Settled \cup Awaits]
      /\ \A c \in Call : conn[c] \in {"none", "opening", "open", "over"}
      /\ \A c \in Call : conn[c] = "opening" => pc[c] = "connecting"
      /\ \A c \in Call : conn[c] = "open" => pc[c] = "ok"
      /\ \A c \in Call : pc[c] \in {"idle", "resolving"} => conn[c] = "none"
  BY <1>3 DEF ClaimsInv, ClaimsTyped, McpTyped, SessionsSound
<1>6. ASSUME NEW gone, Mcp!Disposed(gone), pc' = pc PROVE SessionsBuilt' = SessionsBuilt
  <2>1. \A c \in Call : conn'[c] = IF c \in gone /\ conn[c] # "none" THEN "over" ELSE conn[c]
    BY <1>6 DEF Mcp!Disposed
  <2> QED
    BY <1>5, <1>6, <2>1 DEF SessionsBuilt
<1>7. ASSUME NEW c \in Call, conn' = conn, NEW how, pc' = [pc EXCEPT ![c] = how],
             conn[c] = "none"
      PROVE  SessionsBuilt' = SessionsBuilt
  BY <1>5, <1>7 DEF SessionsBuilt
<1>8. ASSUME NEW c \in Call, NEW k \in Key, Mcp!ConnectRejected(c, k) \/ Mcp!Connect(c, k)
      PROVE  Registry!CNext
  <2>1. /\ conn' = conn /\ connections' = connections /\ alive' = alive /\ io' = None
        /\ c = made + 1 /\ \E how : pc' = [pc EXCEPT ![c] = how]
    BY <1>8 DEF Mcp!ConnectRejected, Mcp!Connect, Reject, Reserve, Arrive, Answer
  <2>2. conn[c] = "none"
    BY <2>1, McpFacts
  <2> QED
    BY <1>4, <1>7, <2>1, <2>2
<1>9. ASSUME NEW c \in Call, Mcp!ResolveFailed(c) PROVE Registry!CNext
  <2>1. /\ pc[c] = "resolving" /\ conn' = conn /\ connections' = connections
        /\ alive' = alive /\ io' = None /\ pc' = [pc EXCEPT ![c] = "failed"]
    BY <1>9 DEF Mcp!ResolveFailed, GiveUp, Answer
  <2> QED
    BY <1>4, <1>5, <1>7, <2>1
<1>10. ASSUME NEW c \in Call, Mcp!Handshake(c) PROVE Registry!CNext
  <2>1. /\ pc[c] = "resolving" /\ conn' = [conn EXCEPT ![c] = "opening"]
        /\ connections' = connections /\ alive' = alive /\ io' = None
        /\ pc' = [pc EXCEPT ![c] = "connecting"]
    BY <1>10 DEF Mcp!Handshake, Mcp!Becomes, Answer
  <2>2. SessionsBuilt' = SessionsBuilt
    BY <1>5, <2>1 DEF SessionsBuilt
  <2> QED
    BY <1>4, <2>1, <2>2
<1>11. ASSUME NEW c \in Call, Mcp!HandshakeFailed(c) PROVE Registry!CNext
  <2>1. /\ pc[c] = "connecting" /\ Mcp!Disposed({c}) /\ pc' = [pc EXCEPT ![c] = "failed"]
        /\ connections' = connections /\ alive' = alive /\ io' = None
    BY <1>11 DEF Mcp!HandshakeFailed, Answer
  <2>2. \A d \in Call : conn'[d] = IF d = c /\ conn[d] # "none" THEN "over" ELSE conn[d]
    BY <2>1 DEF Mcp!Disposed
  <2>3. CASE conn[c] = "none"
    <3>1. SessionsBuilt' = SessionsBuilt
      BY <1>5, <2>1, <2>2, <2>3 DEF SessionsBuilt
    <3> QED
      BY <1>4, <2>1, <3>1
  <2>4. CASE conn[c] # "none"
    <3>1. c \notin SessionsBuilt /\ SessionsBuilt' = SessionsBuilt \cup {c}
      BY <1>5, <2>1, <2>2, <2>4 DEF SessionsBuilt
    <3> QED
      BY <1>0, <1>1, <1>2, <2>1, <3>1, Moves
  <2> QED
    BY <2>3, <2>4
<1>12. ASSUME NEW c \in Call, Mcp!Commit(c) PROVE Registry!CNext
  <2>1. /\ pc[c] = "connecting" /\ conn[c] = "opening" /\ CanCommit(c) /\ Enter(c)
        /\ alive' = alive /\ Say(c) /\ pc' = [pc EXCEPT ![c] = "ok"]
        /\ conn' = [d \in Call |-> IF d = c THEN "open"
                                   ELSE IF d = ownerEntry[c] THEN "over" ELSE conn[d]]
    BY <1>12 DEF Mcp!Commit, Answer
  <2>2. keyOf[c] \in Key
    BY <2>1, McpFacts
  <2>3. OwnerOf(keyOf[c]) \in alive
    BY <1>3, <2>1, <2>2 DEF ClaimsInv, OwnersBound, CanCommit, HoldsClaim
  <2>4. c \notin SessionsBuilt /\ SessionsBuilt' = SessionsBuilt \cup {c}
    <3>1. ownerEntry[c] # None => conn[ownerEntry[c]] = "open"
      BY <2>1, <2>2, McpFacts DEF CanCommit
    <3> QED
      BY <1>3, <1>5, <2>1, <3>1 DEF SessionsBuilt
  <2>5. io' \in {c, None}
    BY <2>1 DEF Say
  <2> QED
    BY <1>0, <1>1, <1>2, <2>1, <2>2, <2>3, <2>4, <2>5, Moves DEF Enter
<1>13. ASSUME NEW c \in Call, Mcp!SessionEvent(c) PROVE Registry!CNext
  <2>1. /\ conn[c] \in {"opening", "open"} /\ Say(c)
        /\ conn' = conn /\ pc' = pc /\ connections' = connections /\ alive' = alive
    BY <1>13 DEF Mcp!SessionEvent
  <2>2. SessionsBuilt' = SessionsBuilt
    BY <2>1 DEF SessionsBuilt
  <2>3. CASE conn[c] = "open"
    <3>1. c \in Entries(connections)
      BY <1>3, <2>3, McpFacts, InASlot
    <3> QED
      BY <1>4, <2>1, <2>2, <3>1 DEF Say
  <2>4. CASE conn[c] = "opening"
    <3>1. Statuses'[c] = "new"
      <4>1. c \notin SessionsBuilt'
        BY <2>2, <2>4 DEF SessionsBuilt
      <4> QED
        BY <1>1, <4>1 DEF Mapped
    <3>2. Speaker' = None
      <4>1. StatusOf(c)' = "new"
        BY <3>1 DEF Statuses
      <4>2. io' = None \/ io' = c
        BY <2>1 DEF Say
      <4> QED
        BY <4>1, <4>2 DEF Speaker
    <3> QED
      BY <1>0, <1>1, <2>1, <2>2, <3>2, SpeakStep
  <2> QED
    BY <2>1, <2>3, <2>4
<1>14. ASSUME NEW c \in Call, Mcp!OnClose(c) PROVE Registry!CNext
  <2>1. /\ conn[c] \in {"opening", "open"} /\ conn' = [conn EXCEPT ![c] = "over"]
        /\ pc' = pc /\ alive' = alive
    BY <1>14 DEF Mcp!OnClose, Mcp!Becomes
  <2>2. SessionsBuilt' = SessionsBuilt
    BY <1>3, <1>5, <2>1 DEF SessionsBuilt, McpTyped
  <2>3. CASE IsCurrent(c)
    <3>1. connections' = Drop(connections, keyOf[c]) /\ Say(c)
      BY <1>14, <2>3 DEF Mcp!OnClose
    <3>2. keyOf[c] \in Key /\ connections[keyOf[c]] = c /\ c # None /\ io' \in {c, None}
      BY <1>3, <2>1, <2>3, <3>1, McpFacts DEF IsCurrent, Say
    <3> QED
      BY <1>0, <1>1, <1>2, <2>1, <2>2, <3>1, <3>2, Moves
  <2>4. CASE ~IsCurrent(c)
    BY <1>4, <1>14, <2>1, <2>2, <2>4 DEF Mcp!OnClose
  <2> QED
    BY <2>3, <2>4
<1>15. ASSUME NEW k \in Key, Mcp!Disconnect(k) PROVE Registry!CNext
  <2>1. /\ Mcp!Disposed(Mcp!PendingSession(k) \cup {connections[k]}) /\ pc' = pc
        /\ connections' = Drop(connections, k) /\ alive' = alive /\ io' = None
    BY <1>15 DEF Mcp!Disconnect
  <2>2. SessionsBuilt' = SessionsBuilt
    BY <1>6, <2>1
  <2>3. CASE connections[k] # None
    BY <1>0, <1>1, <1>2, <2>1, <2>2, <2>3, Moves
  <2>4. CASE connections[k] = None
    <3>1. connections' = connections
      BY <1>3, <2>1, <2>4 DEF Drop, ClaimsInv, ClaimsTyped
    <3> QED
      BY <1>4, <2>1, <2>2, <3>1
  <2> QED
    BY <2>3, <2>4
<1>16. ASSUME NEW o \in Owner, Mcp!Destroyed(o) PROVE Registry!CNext
  <2>1. TornDown(o) /\ \E gone : Mcp!Disposed(gone)
    BY <1>16 DEF Mcp!Destroyed
  <2>2. connections' = WithoutOwner(connections, o)
    BY <1>3, <2>1, TornDownMaps
  <2>3. o \in alive /\ alive' = alive \ {o} /\ io' = None /\ pc' = pc
    BY <2>1 DEF TornDown
  <2>4. SessionsBuilt' = SessionsBuilt
    BY <1>6, <2>1, <2>3
  <2> QED
    BY <1>0, <1>1, <1>2, <2>2, <2>3, <2>4, Moves
<1>17. CASE Mcp!Stop
  <2>1. /\ \E gone : Mcp!Disposed(gone)
        /\ pc' = pc /\ connections' = EmptyMap /\ alive' = alive /\ io' = None
    BY <1>17 DEF Mcp!Stop
  <2>2. SessionsBuilt' = SessionsBuilt
    BY <1>6, <2>1
  <2> QED
    BY <1>0, <1>1, <1>2, <2>1, <2>2, Moves
<1> QED
  BY <1>8, <1>9, <1>10, <1>11, <1>12, <1>13, <1>14, <1>15, <1>16, <1>17
  DEF Mcp!McpNext, Mcp!Resume

(* The chats that came, and who has the word under a key: its entry, or    *)
(* the cancelled chat that still may end.                                  *)
ChatsBuilt == {c \in Call : pc[c] # "idle"}

Word(k) == IF connections[k] # None THEN connections[k]
           ELSE IF cancelledGenerations[k] # None /\ OwnerOf(k) \in alive
                   /\ conn[cancelledGenerations[k]] = "aborted"
           THEN cancelledGenerations[k] ELSE None

(* The slot of a key is the generation that still has its word to say there. *)
LEMMA AiSlotIs == Ai!AiSlot = [k \in Key |-> Word(k)]
<1>1. Ai!Key = Key /\ \A k : Ai!OwnerOf(k) = OwnerOf(k)
  BY AiSets
<1>2. ASSUME NEW k \in Key, connections[k] = None PROVE Ai!LastWord(k) = Word(k)
  <2> DEFINE last == {c \in {cancelledGenerations[k]} \ {None} :
                        conn[c] = "aborted" /\ Ai!OwnerOf(k) \in alive}
  <2>1. Ai!LastWord(k) = IF last = {} THEN None ELSE cancelledGenerations[k]
    BY DEF Ai!LastWord
  <2>2. last = {} <=> ~(cancelledGenerations[k] # None /\ OwnerOf(k) \in alive
                        /\ conn[cancelledGenerations[k]] = "aborted")
    BY <1>1
  <2> HIDE DEF last
  <2> QED
    BY <1>2, <2>1, <2>2 DEF Word
<1>3. \A k \in Key : Word(k) = IF connections[k] # None THEN connections[k] ELSE Ai!LastWord(k)
  BY <1>2 DEF Word
<1> QED
  BY <1>1, <1>3 DEF Ai!AiSlot

(* The chats' generations are slots of the abstract registry.               *)
LEMMA AiMapped ==
  transport = "ai" /\ AiInv
  => Slot = [k \in Key |-> Word(k)] /\ Mapped(Slot, ChatsBuilt, Statuses)
<1> SUFFICES ASSUME transport = "ai", AiInv
             PROVE  Slot = [k \in Key |-> Word(k)] /\ Mapped(Slot, ChatsBuilt, Statuses)
  OBVIOUS
<1>1. Slot = Ai!AiSlot /\ Slot = [k \in Key |-> Word(k)]
  BY AiSlotIs DEF Slot
<1>2. AiTyped /\ ChatsBound /\ None \notin Call
  BY ClaimsAssumption DEF AiInv
<1>3. \A k \in Key : /\ Word(k) \in Call \cup {None}
                     /\ Word(k) # None => keyOf[Word(k)] = k /\ pc[Word(k)] # "idle"
  <2>1. ASSUME NEW k \in Key
        PROVE  /\ Word(k) \in Call \cup {None}
               /\ Word(k) # None => keyOf[Word(k)] = k
    BY <1>2 DEF Word, AiTyped, ChatsBound
  <2> QED
    BY <1>2, <2>1, AiFacts
<1>4. ASSUME NEW c \in Call, pc[c] # "idle"
      PROVE  c \in Entries(Slot) <=> Slot[keyOf[c]] = c
  <2>1. keyOf[c] \in Key
    BY <1>4, AiFacts
  <2> QED
    BY <1>1, <1>2, <1>3, <2>1, InASlot
<1>5. Slot \in [Key -> Call \cup {None}]
  BY <1>1, <1>3
<1>6. \A j, k \in Key : Slot[j] = Slot[k] /\ Slot[j] # None => j = k
  BY <1>1, <1>3
<1>7. Entries(Slot) \subseteq ChatsBuilt
  <2>1. \A k \in Key : Slot[k] # None => Slot[k] \in ChatsBuilt
    BY <1>1, <1>3 DEF ChatsBuilt
  <2> QED
    BY <2>1 DEF Entries, KeysIn
<1>8. \A c \in Call : StatusOf(c) =
          IF c \notin ChatsBuilt THEN "new" ELSE IF c \in Entries(Slot) THEN "live" ELSE "done"
  <2>1. \A c \in Call : StatusOf(c) = Ai!AiStatus(c)
    BY DEF StatusOf
  <2>2. TAKE c \in Call
  <2> QED
    BY <1>1, <1>4, <2>1 DEF ChatsBuilt, Ai!AiStatus
<1> QED
  BY <1>1, <1>5, <1>6, <1>7, <1>8 DEF Mapped, Statuses

(* Each step of the AI handlers is one of the abstract registry.           *)
LEMMA AiImplements ==
  ASSUME transport = "ai", (transport = "ai")', AiInv, AiInv', Ai!AiNext
  PROVE  Registry!CNext
<1>0. /\ Slot = [k \in Key |-> Word(k)] /\ Mapped(Slot, ChatsBuilt, Statuses)
      /\ (Slot = [k \in Key |-> Word(k)] /\ Mapped(Slot, ChatsBuilt, Statuses))'
  BY AiMapped, PTL
<1>1. Slot' = [k \in Key |-> Word(k)'] /\ Mapped(Slot', ChatsBuilt', Statuses')
  BY <1>0
<1>2. Speaker' = None \/ Speaker' = io'
  <2>1. ~(transport = "websocket")'
    OBVIOUS
  <2>2. (Speaker = None \/ Speaker = io)'
    BY <2>1, SpeakerOf, PTL
  <2> QED
    BY <2>2
<1>3. AiTyped /\ ChatsBound /\ RepliesSound /\ NoClaims /\ None \notin Call
  BY ClaimsAssumption DEF AiInv
<1> USE AiSets
<1>4. ASSUME ChatsBuilt' = ChatsBuilt, \A k \in Key : Word(k)' = Word(k), alive' = alive,
             io' = None \/ \E k \in Key : io' = Word(k)
      PROVE  Registry!CNext
  <2>1. Slot' = Slot
    BY <1>0, <1>1, <1>4
  <2>2. Speaker' \in Entries(Slot) \cup {None}
    BY <1>0, <1>2, <1>4, InASlot
  <2> QED
    BY <1>0, <1>1, <1>4, <2>1, <2>2, SpeakStep
<1>5. ASSUME ChatsBuilt' = ChatsBuilt, NEW k \in Key, Word(k) # None, Word(k)' = None,
             \A j \in Key \ {k} : Word(j)' = Word(j), alive' = alive, io' \in {Word(k), None}
      PROVE  Registry!CNext
  <2>1. Slot' = Drop(Slot, k)
    BY <1>0, <1>1, <1>5 DEF Drop
  <2>2. Speaker' \in {Slot[k], None}
    BY <1>0, <1>2, <1>5
  <2> QED
    BY <1>0, <1>1, <1>5, <2>1, <2>2, EndStep
<1>6. ASSUME NEW c \in Call, NEW k \in Key, Ai!ChatRejected(c, k) PROVE Registry!CNext
  <2>1. /\ c = made + 1 /\ pc' = [pc EXCEPT ![c] = "failed"] /\ io' = None
        /\ UNCHANGED <<alive, conn, connections, cancelledGenerations>>
    BY <1>6 DEF Ai!ChatRejected, Ai!Reject, Ai!Arrive, Ai!Answer
  <2>2. c \notin ChatsBuilt /\ ChatsBuilt' = ChatsBuilt \cup {c}
    BY <1>3, <2>1, AiFacts DEF ChatsBuilt, AiTyped
  <2>3. Slot' = Slot /\ Speaker' = None
    BY <1>0, <1>1, <1>2, <2>1 DEF Word
  <2> QED
    BY <1>0, <1>1, <2>1, <2>2, <2>3, DiscardStep
<1>7. ASSUME NEW c \in Call, NEW k \in Key, Ai!Chat(c, k) PROVE Registry!CNext
  <2>1. /\ c = made + 1 /\ pc' = [pc EXCEPT ![c] = "resolving"] /\ io' = None
        /\ OwnerOf(k) \in alive /\ alive' = alive
        /\ connections' = [connections EXCEPT ![k] = c]
        /\ cancelledGenerations' = [cancelledGenerations EXCEPT ![k] = None]
    BY <1>7 DEF Ai!Chat, Ai!Arrive, Ai!Answer, Ai!Put, Ai!Drop
  <2>2. \A d \in Call : conn'[d] = IF d = connections[k] /\ conn[d] = "up"
                                    THEN "aborted" ELSE conn[d]
    BY <1>7 DEF Ai!Chat, Ai!Aborted
  <2>3. c \notin ChatsBuilt /\ ChatsBuilt' = ChatsBuilt \cup {c}
    BY <1>3, <2>1, AiFacts DEF ChatsBuilt, AiTyped
  <2>4. Word(k)' = c
    BY <1>3, <2>1 DEF Word, AiTyped
  <2>5. ASSUME NEW j \in Key \ {k} PROVE Word(j)' = Word(j)
    <3>1. /\ connections'[j] = connections[j]
          /\ cancelledGenerations'[j] = cancelledGenerations[j]
      BY <1>3, <2>1 DEF AiTyped
    <3>2. cancelledGenerations[j] # None =>
             conn'[cancelledGenerations[j]] = conn[cancelledGenerations[j]]
      <4>1. cancelledGenerations[j] # None =>
               cancelledGenerations[j] \in Call /\ keyOf[cancelledGenerations[j]] = j
        BY <1>3 DEF AiTyped, ChatsBound
      <4>2. connections[k] # None => keyOf[connections[k]] = k
        BY <1>3 DEF ChatsBound
      <4> QED
        BY <1>3, <2>2, <4>1, <4>2
    <3> QED
      BY <2>1, <3>1, <3>2 DEF Word
  <2>6. Slot' = Put(Slot, k, c)
    BY <1>0, <1>1, <2>4, <2>5 DEF Put
  <2>7. Speaker' \in {c, None}
    BY <1>2, <2>1
  <2> QED
    BY <1>0, <1>1, <2>1, <2>3, <2>6, <2>7, EstablishStep
<1>8. ASSUME NEW c \in Call, Ai!Unresolved(c) PROVE Registry!CNext
  <2>1. /\ pc[c] = "resolving" /\ io' = None /\ pc' = [pc EXCEPT ![c] = "failed"]
        /\ UNCHANGED <<alive, conn, cancelledGenerations>>
    BY <1>8 DEF Ai!Unresolved, Ai!Answer
  <2>2. keyOf[c] \in Key
    BY <2>1, AiFacts
  <2>3. ChatsBuilt' = ChatsBuilt
    BY <1>3, <2>1 DEF ChatsBuilt, AiTyped
  <2>4. CASE connections[keyOf[c]] = c
    <3>1. connections' = [connections EXCEPT ![keyOf[c]] = None]
      BY <1>8, <2>4 DEF Ai!Unresolved, Drop
    <3>2. cancelledGenerations[keyOf[c]] = None
      BY <1>3, <2>2, <2>4 DEF ChatsBound
    <3>3. Word(keyOf[c]) = c /\ (\A j \in Key : j = keyOf[c] => Word(j)' = None)
      BY <1>3, <2>1, <2>2, <2>4, <3>1, <3>2 DEF Word, AiTyped
    <3>4. \A j \in Key \ {keyOf[c]} : Word(j)' = Word(j)
      BY <1>3, <2>1, <3>1 DEF Word, AiTyped
    <3>5. PICK k \in Key : k = keyOf[c]
      BY <2>2
    <3> QED
      BY <1>3, <1>5, <2>1, <2>3, <3>3, <3>4, <3>5
  <2>5. CASE connections[keyOf[c]] # c
    <3>1. connections' = connections
      BY <1>8, <2>5 DEF Ai!Unresolved
    <3> QED
      BY <1>4, <2>1, <2>3, <3>1 DEF Word
  <2> QED
    BY <2>4, <2>5
<1>9. ASSUME NEW c \in Call, Ai!Start(c) PROVE Registry!CNext
  <2>1. /\ pc[c] = "resolving" /\ io' = None /\ \E how \in {"ok", "failed"} : pc' = [pc EXCEPT ![c] = how]
        /\ UNCHANGED <<alive, connections, cancelledGenerations>>
        /\ conn' = [conn EXCEPT ![c] = "up"] \/ conn' = conn
    BY <1>9 DEF Ai!Start, Ai!Answer, Ai!Becomes
  <2>2. ChatsBuilt' = ChatsBuilt
    BY <1>3, <2>1 DEF ChatsBuilt, AiTyped
  <2>3. conn[c] = "none"
    BY <1>3, <2>1 DEF AiTyped, RepliesSound
  <2>4. \A d \in Call : conn'[d] = "aborted" <=> conn[d] = "aborted"
    BY <1>3, <2>1, <2>3 DEF AiTyped
  <2>5. \A k \in Key : Word(k)' = Word(k)
    BY <1>3, <2>1, <2>4 DEF Word, AiTyped
  <2> QED
    BY <1>4, <2>1, <2>2, <2>5
<1>10. ASSUME NEW c \in Call, Ai!Chunk(c) PROVE Registry!CNext
  <2>1. /\ conn[c] \in {"up", "aborted"} /\ connections[keyOf[c]] = c /\ io' \in {c, None}
        /\ UNCHANGED <<pc, alive, conn, connections, cancelledGenerations>>
    BY <1>10 DEF Ai!Chunk, Ai!Say
  <2>2. keyOf[c] \in Key
    BY <1>3, <2>1, AiFacts DEF RepliesSound
  <2>3. Word(keyOf[c]) = c
    BY <1>3, <2>1 DEF Word
  <2>4. ChatsBuilt' = ChatsBuilt /\ \A k \in Key : Word(k)' = Word(k)
    BY <2>1 DEF ChatsBuilt, Word
  <2> QED
    BY <1>4, <2>1, <2>2, <2>3, <2>4
<1>11. ASSUME NEW c \in Call, Ai!Done(c) \/ Ai!Throws(c) PROVE Registry!CNext
  <2>1. /\ conn[c] \in {"up", "aborted"} /\ conn' = [conn EXCEPT ![c] = "over"]
        /\ UNCHANGED <<pc, alive>>
    BY <1>11 DEF Ai!Done, Ai!Throws, Ai!Settled, Ai!Becomes
  <2>2. keyOf[c] \in Key /\ pc[c] = "ok"
    BY <1>3, <2>1, AiFacts DEF RepliesSound
  <2>3. connections' = IF connections[keyOf[c]] = c THEN [connections EXCEPT ![keyOf[c]] = None]
                       ELSE connections
    BY <1>11 DEF Ai!Done, Ai!Throws, Ai!Settled, Drop
  <2>4. cancelledGenerations' =
           IF cancelledGenerations[keyOf[c]] = c
           THEN [cancelledGenerations EXCEPT ![keyOf[c]] = None] ELSE cancelledGenerations
    BY <1>11 DEF Ai!Done, Ai!Throws, Ai!Settled, Ai!IsLatestCancellation, Drop
  <2>5. ChatsBuilt' = ChatsBuilt
    BY <2>1 DEF ChatsBuilt
  <2>6. \A j \in Key \ {keyOf[c]} : Word(j)' = Word(j)
    <3> TAKE j \in Key \ {keyOf[c]}
    <3>1. /\ connections'[j] = connections[j]
          /\ cancelledGenerations'[j] = cancelledGenerations[j]
      BY <1>3, <2>3, <2>4 DEF AiTyped
    <3>2. cancelledGenerations[j] # None =>
             cancelledGenerations[j] \in Call /\ cancelledGenerations[j] # c
      BY <1>3 DEF AiTyped, ChatsBound
    <3>3. cancelledGenerations[j] # None =>
             conn'[cancelledGenerations[j]] = conn[cancelledGenerations[j]]
      BY <1>3, <2>1, <3>2 DEF AiTyped
    <3> QED
      BY <2>1, <3>1, <3>3 DEF Word
  <2>7. PICK k \in Key : k = keyOf[c]
    BY <2>2
  <2>8. CASE connections[k] = c
    <3>1. cancelledGenerations[k] = None /\ Word(k) = c
      BY <1>3, <2>8 DEF ChatsBound, Word
    <3>2. Word(k)' = None
      BY <1>3, <2>3, <2>4, <2>7, <2>8, <3>1 DEF Word, AiTyped
    <3>3. io' \in {c, None}
      BY <1>11 DEF Ai!Done, Ai!Throws, Ai!SayIfCurrent, Ai!Say
    <3> QED
      BY <1>3, <1>5, <2>1, <2>5, <2>6, <2>7, <3>1, <3>2, <3>3
  <2>9. CASE connections[k] # c
    <3>1. connections' = connections /\ conn[c] = "aborted"
      BY <1>3, <2>1, <2>3, <2>7, <2>9 DEF RepliesSound
    <3>2. CASE connections[k] = None /\ cancelledGenerations[k] = c /\ OwnerOf(k) \in alive
      <4>1. Word(k) = c
        BY <1>3, <3>1, <3>2 DEF Word
      <4>2. Word(k)' = None
        BY <1>3, <2>4, <2>7, <3>1, <3>2 DEF Word, AiTyped
      <4>3. io' \in {c, None}
        BY <1>11 DEF Ai!Done, Ai!Throws, Ai!SayIfCurrent, Ai!Say
      <4> QED
        BY <1>3, <1>5, <2>1, <2>5, <2>6, <2>7, <4>1, <4>2, <4>3
    <3>3. CASE ~(connections[k] = None /\ cancelledGenerations[k] = c /\ OwnerOf(k) \in alive)
      <4>1. io' = None
        <5>1. ~(cancelledGenerations[k] = c /\ OwnerOf(k) \in alive)
          BY <1>3, <3>3 DEF ChatsBound
        <5> QED
          BY <1>11, <2>7, <2>9, <5>1
          DEF Ai!Done, Ai!Throws, Ai!SayIfCurrent, Ai!Say, Ai!IsLatestCancellation
      <4>2. Word(k)' = Word(k)
        <5>1. CASE connections[k] # None
          BY <3>1, <5>1 DEF Word
        <5>2. CASE connections[k] = None /\ cancelledGenerations[k] = c
          BY <2>1, <2>4, <2>7, <3>1, <3>3, <5>2 DEF Word
        <5>3. CASE connections[k] = None /\ cancelledGenerations[k] # c
          <6>1. cancelledGenerations' = cancelledGenerations
            BY <2>4, <2>7, <5>3
          <6>2. cancelledGenerations[k] # None =>
                   conn'[cancelledGenerations[k]] = conn[cancelledGenerations[k]]
            BY <1>3, <2>1, <5>3 DEF AiTyped
          <6> QED
            BY <2>1, <3>1, <6>1, <6>2 DEF Word
        <5> QED
          BY <5>1, <5>2, <5>3
      <4>3. \A j \in Key : Word(j)' = Word(j)
        BY <2>6, <2>7, <4>2
      <4> QED
        BY <1>4, <2>1, <2>5, <4>1, <4>3
    <3> QED
      BY <3>2, <3>3
  <2> QED
    BY <2>8, <2>9
<1>12. ASSUME NEW k \in Key, Ai!ChatCancel(k) PROVE Registry!CNext
  <2> DEFINE e == connections[k]
  <2>1. /\ e # None /\ e \in Call /\ OwnerOf(k) \in alive
        /\ cancelledGenerations' = [cancelledGenerations EXCEPT ![k] = e]
        /\ connections' = [connections EXCEPT ![k] = None]
        /\ UNCHANGED <<pc, alive>> /\ io' \in {e, None}
    BY <1>3, <1>12 DEF Ai!ChatCancel, Ai!Put, Ai!Drop, Ai!Say, AiTyped
  <2>2. \A d \in Call : conn'[d] = IF d = e /\ conn[d] = "up" THEN "aborted" ELSE conn[d]
    BY <1>12 DEF Ai!ChatCancel, Ai!Aborted
  <2>3. ChatsBuilt' = ChatsBuilt
    BY <2>1 DEF ChatsBuilt
  <2>4. Word(k) = e
    BY <2>1 DEF Word
  <2>5. ASSUME NEW j \in Key \ {k} PROVE Word(j)' = Word(j)
    <3>1. /\ connections'[j] = connections[j]
          /\ cancelledGenerations'[j] = cancelledGenerations[j]
      BY <1>3, <2>1 DEF AiTyped
    <3>2. cancelledGenerations[j] # None =>
             conn'[cancelledGenerations[j]] = conn[cancelledGenerations[j]]
      <4>1. cancelledGenerations[j] # None =>
               cancelledGenerations[j] \in Call /\ keyOf[cancelledGenerations[j]] = j
        BY <1>3 DEF AiTyped, ChatsBound
      <4>2. keyOf[e] = k
        BY <1>3, <2>1 DEF ChatsBound
      <4> QED
        BY <2>2, <4>1, <4>2
    <3> QED
      BY <2>1, <3>1, <3>2 DEF Word
  <2>6. /\ connections'[k] = None /\ cancelledGenerations'[k] = e
        /\ conn'[e] = IF conn[e] = "up" THEN "aborted" ELSE conn[e]
    BY <1>3, <2>1, <2>2 DEF AiTyped
  <2> HIDE DEF e
  <2>7. CASE conn[e] = "up"
    <3>1. Word(k)' = e
      BY <2>1, <2>6, <2>7 DEF Word
    <3> QED
      BY <1>4, <2>1, <2>3, <2>4, <2>5, <3>1
  <2>8. CASE conn[e] # "up"
    <3>1. conn[e] # "aborted"
      <4>1. pc[e] = "resolving"
        BY <1>3, <2>1, <2>8 DEF ChatsBound, e
      <4> QED
        BY <1>3, <2>1, <4>1 DEF RepliesSound
    <3>2. Word(k)' = None
      BY <2>6, <2>8, <3>1 DEF Word
    <3> QED
      BY <1>5, <2>1, <2>3, <2>4, <2>5, <3>2
  <2> QED
    BY <2>7, <2>8
<1>13. ASSUME NEW o \in Owner, Ai!ChatDestroyed(o) PROVE Registry!CNext
  <2>1. /\ o \in alive /\ alive' = alive \ {o} /\ io' = None
        /\ UNCHANGED <<pc, cancelledGenerations>>
    BY <1>13 DEF Ai!ChatDestroyed, Ai!TornDown
  <2>2. \A k \in Key : connections'[k] = IF OwnerOf(k) = o THEN None ELSE connections[k]
    <3>1. CASE o \in entryBound
      BY <1>13, <3>1 DEF Ai!ChatDestroyed, Ai!TornDown, Ai!AfterDestroyed, Ai!WithoutOwner
    <3>2. CASE o \notin entryBound
      BY <1>3, <1>13, <3>2 DEF Ai!ChatDestroyed, Ai!TornDown, Ai!AfterDestroyed, ChatsBound
    <3> QED
      BY <3>1, <3>2
  <2>3. \A d \in Call : conn'[d] = conn[d]
             \/ \E k \in Key : OwnerOf(k) = o /\ connections[k] = d /\ connections[k] # None
    BY <1>13 DEF Ai!ChatDestroyed, Ai!Aborted, Ai!DisposedOnDestroyed, Ai!OwnedBy, Ai!KeysIn
  <2>4. \A k \in Key : Word(k)' = IF OwnerOf(k) = o THEN None ELSE Word(k)
    <3> TAKE k \in Key
    <3>1. CASE OwnerOf(k) = o
      BY <2>1, <2>2, <3>1 DEF Word
    <3>2. CASE OwnerOf(k) # o
      <4>1. cancelledGenerations[k] # None =>
               conn'[cancelledGenerations[k]] = conn[cancelledGenerations[k]]
        <5>1. cancelledGenerations[k] # None =>
                 cancelledGenerations[k] \in Call /\ keyOf[cancelledGenerations[k]] = k
          BY <1>3 DEF AiTyped, ChatsBound
        <5>2. \A j \in Key : connections[j] # None => keyOf[connections[j]] = j
          BY <1>3 DEF ChatsBound
        <5> QED
          BY <2>3, <3>2, <5>1, <5>2
      <4>2. OwnerOf(k) \in alive' <=> OwnerOf(k) \in alive
        BY <2>1, <3>2
      <4> QED
        BY <2>1, <2>2, <3>2, <4>1, <4>2 DEF Word
    <3> QED
      BY <3>1, <3>2
  <2>5. Slot' = WithoutOwner(Slot, o)
    BY <1>0, <1>1, <2>4 DEF WithoutOwner
  <2>6. ChatsBuilt' = ChatsBuilt /\ Speaker' = None
    BY <1>2, <2>1 DEF ChatsBuilt
  <2> QED
    BY <1>0, <1>1, <2>1, <2>5, <2>6, LeaveStep
<1>14. CASE Ai!Unregister
  <2>1. /\ io' = None /\ UNCHANGED <<pc, alive>>
        /\ cancelledGenerations' = EmptyMap /\ connections' = EmptyMap
    BY <1>14 DEF Ai!Unregister
  <2>2. ChatsBuilt' = ChatsBuilt /\ Speaker' = None
    BY <1>2, <2>1 DEF ChatsBuilt
  <2>3. Slot' = EmptyMap
    BY <1>1, <2>1 DEF Word, EmptyMap
  <2> QED
    BY <1>0, <1>1, <2>1, <2>2, <2>3, ShutdownStep
<1> QED
  BY <1>6, <1>7, <1>8, <1>9, <1>10, <1>11, <1>12, <1>13, <1>14 DEF Ai!AiNext

SocketStatuses == [c \in Call |-> WebSocket!StatusOf(c)]
SocketSpeaker == IF io = None THEN None ELSE io.from

(* What the abstract registry sees of the WebSocket handler.                *)
LEMMA SocketSeen ==
  transport = "websocket" =>
    Slot = connections /\ Statuses = SocketStatuses /\ Speaker = SocketSpeaker
<1>1. ASSUME transport = "websocket"
      PROVE  Slot = connections /\ Speaker = SocketSpeaker
  BY <1>1 DEF Slot, Speaker, SocketSpeaker
<1>2. ASSUME transport = "websocket" PROVE Statuses = SocketStatuses
  BY <1>2 DEF Statuses, SocketStatuses, StatusOf
<1> QED
  BY <1>1, <1>2

(* The proved instance sees the same of it.                                 *)
LEMMA WspSeen == WSP!Call = Call /\ [c \in WSP!Call |-> WSP!StatusOf(c)] = SocketStatuses
<1>1. WSP!Call = Call /\ WSP!Key = Key /\ WebSocket!Key = Key
  BY DEF WSP!Call, Call, WSP!Key, Key, WebSocket!Key
<1>2. \A c : WSP!StatusOf(c) = WebSocket!StatusOf(c)
  BY DEF WSP!StatusOf, WebSocket!StatusOf, WSP!Running, WebSocket!Running, WSP!Entries, WebSocket!Entries,
    WSP!KeysIn, WebSocket!KeysIn, WSP!Key, WebSocket!Key
<1> QED
  BY <1>1, <1>2 DEF SocketStatuses

(* The two instances of the abstract registry have the same operators.      *)
LEMMA WspOperators ==
  /\ WSP!Registry!Key = Registry!Key /\ WSP!Registry!EmptyMap = Registry!EmptyMap
  /\ \A map : WSP!Registry!Entries(map) = Registry!Entries(map)
  /\ \A map, k, e : WSP!Registry!Put(map, k, e) = Registry!Put(map, k, e)
  /\ \A map, k : WSP!Registry!Drop(map, k) = Registry!Drop(map, k)
  /\ \A map, o : WSP!Registry!OwnedBy(map, o) = Registry!OwnedBy(map, o)
  /\ \A map, o : WSP!Registry!WithoutOwner(map, o) = Registry!WithoutOwner(map, o)
  /\ \A k : WSP!Registry!OwnerOf(k) = Registry!OwnerOf(k)
  BY DEF WSP!Registry!Key, Registry!Key, WSP!Registry!EmptyMap, Registry!EmptyMap,
         WSP!Registry!Entries, Registry!Entries, WSP!Registry!KeysIn, Registry!KeysIn,
         WSP!Registry!Put, Registry!Put, WSP!Registry!Drop, Registry!Drop,
         WSP!Registry!OwnedBy, Registry!OwnedBy, WSP!Registry!WithoutOwner,
         Registry!WithoutOwner, WSP!Registry!OwnerOf, Registry!OwnerOf

(* A step of the abstract registry the proved instance sees is one of the   *)
(* registry all transports are mapped to.                                   *)
LEMMA WspSteps ==
  ASSUME transport = "websocket", (transport = "websocket")'
  PROVE  [WSP!Registry!CNext]_(WSP!Registry!cvars) => [Registry!CNext]_(Registry!cvars)
<1> DEFINE theirs == [c \in WSP!Call |-> WSP!StatusOf(c)]
<1>1. /\ Slot = connections /\ Statuses = SocketStatuses /\ Speaker = SocketSpeaker
      /\ theirs = SocketStatuses
  BY SocketSeen, WspSeen
<1>2. (Slot = connections /\ Statuses = SocketStatuses /\ Speaker = SocketSpeaker)'
  BY SocketSeen, PTL
<1>3. (WSP!Call = Call /\ [c \in WSP!Call |-> WSP!StatusOf(c)] = SocketStatuses)'
  BY WspSeen, PTL
<1>4. Slot' = connections' /\ theirs' = Statuses' /\ Speaker' = SocketSpeaker'
  BY <1>2, <1>3
<1>5. Slot = connections /\ theirs = Statuses /\ Speaker = SocketSpeaker /\ WSP!Call = Call
  BY <1>1, WspSeen
<1> USE WspOperators
<1>6. ASSUME WSP!Registry!Speak PROVE Registry!Speak
  <2>1. /\ connections' = connections /\ theirs' = theirs /\ alive' = alive
        /\ SocketSpeaker' \in Registry!Entries(connections) \cup {None}
    BY <1>6 DEF WSP!Registry!Speak, SocketSpeaker
  <2> HIDE DEF theirs
  <2> QED
    BY <1>4, <1>5, <2>1 DEF Registry!Speak, Statuses
<1>7. \A cs : WSP!Registry!Finish(cs) = Registry!Finish(cs)
  <2>1. ASSUME NEW cs PROVE WSP!Registry!Finish(cs) = [c \in Call |-> IF c \in cs THEN "done" ELSE theirs[c]]
    BY <1>5 DEF WSP!Registry!Finish
  <2> HIDE DEF theirs
  <2> QED
    BY <1>5, <2>1 DEF Registry!Finish, Statuses
<1>8. ASSUME NEW c \in Call, NEW k \in Registry!Key, WSP!Registry!Establish(c, k)
      PROVE  Registry!Establish(c, k)
  <2>1. /\ theirs[c] = "new" /\ Registry!OwnerOf(k) \in alive
        /\ connections' = Registry!Put(connections, k, c)
        /\ theirs' = [Registry!Finish({connections[k]}) EXCEPT ![c] = "live"]
        /\ alive' = alive /\ SocketSpeaker' \in {c, None}
    BY <1>7, <1>8 DEF WSP!Registry!Establish, SocketSpeaker
  <2> HIDE DEF theirs
  <2> QED
    BY <1>4, <1>5, <2>1 DEF Registry!Establish, Statuses
<1>9. ASSUME NEW c \in Call, WSP!Registry!Discard(c) PROVE Registry!Discard(c)
  <2>1. /\ theirs[c] = "new" /\ theirs' = Registry!Finish({c})
        /\ connections' = connections /\ alive' = alive /\ SocketSpeaker' = None
    BY <1>7, <1>9 DEF WSP!Registry!Discard, SocketSpeaker
  <2> HIDE DEF theirs
  <2> QED
    BY <1>4, <1>5, <2>1 DEF Registry!Discard, Statuses
<1>10. ASSUME NEW k \in Registry!Key, WSP!Registry!End(k) PROVE Registry!End(k)
  <2>1. /\ connections[k] # None /\ theirs' = Registry!Finish({connections[k]})
        /\ connections' = Registry!Drop(connections, k) /\ alive' = alive
        /\ SocketSpeaker' \in {connections[k], None}
    BY <1>7, <1>10 DEF WSP!Registry!End, SocketSpeaker
  <2> HIDE DEF theirs
  <2> QED
    BY <1>4, <1>5, <2>1 DEF Registry!End, Statuses
<1>11. ASSUME NEW o \in Owner, WSP!Registry!Leave(o) PROVE Registry!Leave(o)
  <2>1. /\ o \in alive /\ alive' = alive \ {o}
        /\ theirs' = Registry!Finish(Registry!OwnedBy(connections, o))
        /\ connections' = Registry!WithoutOwner(connections, o) /\ SocketSpeaker' = None
    BY <1>7, <1>11 DEF WSP!Registry!Leave, SocketSpeaker
  <2> HIDE DEF theirs
  <2> QED
    BY <1>4, <1>5, <2>1 DEF Registry!Leave, Statuses
<1>12. ASSUME WSP!Registry!Shutdown PROVE Registry!Shutdown
  <2>1. /\ theirs' = Registry!Finish(Registry!Entries(connections))
        /\ connections' = Registry!EmptyMap /\ alive' = alive /\ SocketSpeaker' = None
    BY <1>7, <1>12 DEF WSP!Registry!Shutdown, SocketSpeaker
  <2> HIDE DEF theirs
  <2> QED
    BY <1>4, <1>5, <2>1 DEF Registry!Shutdown, Statuses
<1>13. ASSUME UNCHANGED WSP!Registry!cvars PROVE UNCHANGED Registry!cvars
  <2>1. /\ connections' = connections /\ theirs' = theirs /\ alive' = alive
        /\ SocketSpeaker' = SocketSpeaker
    BY <1>13 DEF WSP!Registry!cvars, SocketSpeaker
  <2> HIDE DEF theirs
  <2> QED
    BY <1>4, <1>5, <2>1 DEF Registry!cvars, Statuses
<1> HIDE DEF theirs
<1> QED
  BY <1>5, <1>6, <1>8, <1>9, <1>10, <1>11, <1>12, <1>13 DEF WSP!Registry!CNext, Registry!CNext

Quiet == transport \in {"http", "lab", "kafka", "grpc"}

(* A transport without streams leaves the registry empty.                   *)
LEMMA QuietMapped ==
  TransportsInv /\ Quiet =>
    /\ connections = EmptyMap /\ io = None /\ Slot = EmptyMap /\ Speaker = None
    /\ Mapped(Slot, {}, Statuses)
<1> SUFFICES ASSUME TransportsInv, Quiet
             PROVE  /\ connections = EmptyMap /\ io = None /\ Slot = EmptyMap /\ Speaker = None
                    /\ Mapped(Slot, {}, Statuses)
  OBVIOUS
<1>1. connections = EmptyMap /\ io = None
  BY DEF Quiet, TransportsInv, HttpInv, HttpIdle, LabInv, LabIdle, Untouched, ClaimsInit
<1>2. Slot = EmptyMap /\ Speaker = None
  BY <1>1 DEF Quiet, Slot, Speaker
<1>3. \A c \in Call : StatusOf(c) = "new"
  BY DEF Quiet, StatusOf
<1>4. Entries(EmptyMap) = {}
  BY DEF Entries, KeysIn, EmptyMap
<1> QED
  BY <1>1, <1>2, <1>3, <1>4 DEF Mapped, Statuses, EmptyMap

(* Its steps leave the abstract registry alone but for the renderers that   *)
(* go.                                                                      *)
LEMMA QuietImplements ==
  ASSUME TransportsInv, TransportsInv', Quiet, Quiet', TransportsNext
  PROVE  Registry!CNext
<1>1. /\ connections = EmptyMap /\ Slot = EmptyMap /\ Mapped(Slot, {}, Statuses)
      /\ (Slot = EmptyMap /\ Speaker = None /\ Mapped(Slot, {}, Statuses))'
  BY QuietMapped, PTL
<1>2. Slot' = EmptyMap /\ Speaker' = None /\ Mapped(Slot', {}, Statuses')
  BY <1>1
<1>3. alive' = alive \/ \E o \in Owner : o \in alive /\ alive' = alive \ {o}
  <2>1. CASE transport = "http"
    <3>1. Http!HttpNext
      BY <2>1 DEF TransportsNext
    <3>2. ASSUME NEW c \in Call, NEW k \in Key, Http!Refuse(c, k) \/ Http!Register(c, k)
          PROVE  alive' = alive
      BY <3>2 DEF Http!Refuse, Http!Register
    <3>3. ASSUME NEW c \in Call, Http!PrepareFails(c) \/ Http!Prepared(c) \/ Http!TunnelOpens(c)
                               \/ Http!TunnelFails(c) \/ Http!FetchFails(c)
          PROVE  alive' = alive
      BY <3>3
      DEF Http!PrepareFails, Http!Prepared, Http!TunnelOpens, Http!TunnelFails, Http!FetchFails,
          Http!Finish
    <3>4. ASSUME NEW c \in Call, Http!Redirect(c) \/ Http!Fetched(c) \/ Http!Responded(c)
          PROVE  alive' = alive
      BY <3>4 DEF Http!Redirect, Http!Fetched, Http!Responded, Http!Finish
    <3>5. ASSUME NEW k \in Key, Http!Cancel(k) PROVE alive' = alive
      BY <3>5 DEF Http!Cancel
    <3>6. ASSUME NEW o \in Owner, Http!HttpDestroyed(o)
          PROVE  o \in alive /\ alive' = alive \ {o}
      BY <3>6 DEF Http!HttpDestroyed
    <3> QED
      BY <3>1, <3>2, <3>3, <3>4, <3>5, <3>6, HttpSets DEF Http!HttpNext, Http!Settles
  <2>2. CASE transport = "lab"
    <3>1. Lab!LabNext
      BY <2>2 DEF TransportsNext
    <3>2. ASSUME NEW c, NEW k, Lab!CompleteRefused(c, k) \/ Lab!Complete(c, k) PROVE alive' = alive
      BY <3>2 DEF Lab!CompleteRefused, Lab!Complete
    <3>3. ASSUME NEW c, Lab!NotAdmitted(c) \/ Lab!Acquire(c) \/ Lab!Completed(c)
          PROVE  alive' = alive
      BY <3>3 DEF Lab!NotAdmitted, Lab!Acquire, Lab!Completed
    <3>4. ASSUME NEW k, Lab!CompleteCancel(k) PROVE alive' = alive
      BY <3>4 DEF Lab!CompleteCancel
    <3>5. ASSUME NEW o \in Owner, Lab!CompleteDestroyed(o)
          PROVE  o \in alive /\ alive' = alive \ {o}
      BY <3>5 DEF Lab!CompleteDestroyed
    <3>6. Lab!Unregister => alive' = alive
      BY DEF Lab!Unregister
    <3> QED
      BY <3>1, <3>2, <3>3, <3>4, <3>5, <3>6 DEF Lab!LabNext
  <2>3. CASE transport \in {"kafka", "grpc"}
    BY <2>3 DEF TransportsNext, connVars, claimVars
  <2> QED
    BY <2>1, <2>2, <2>3 DEF Quiet
<1>4. CASE alive' = alive
  BY <1>1, <1>2, <1>4, SpeakStep
<1>5. ASSUME NEW o \in Owner, o \in alive, alive' = alive \ {o} PROVE Registry!CNext
  <2>1. WithoutOwner(EmptyMap, o) = EmptyMap
    BY DEF WithoutOwner, EmptyMap
  <2> QED
    BY <1>1, <1>2, <1>5, <2>1, LeaveStep
<1> QED
  BY <1>3, <1>4, <1>5

(* Every transport begins as the abstract registry does.                    *)
LEMMA RegistryBegins == TransportsInit => Registry!CInit
<1> SUFFICES ASSUME TransportsInit PROVE Registry!CInit
  OBVIOUS
<1>1. ClaimsInit /\ cancelledGenerations = EmptyMap
  BY ClaimsInitially, AiSets DEF TransportsInit, Ai!AiInit
<1>2. Slot = EmptyMap
  <2>1. \A k \in Key : Word(k) = None
    BY <1>1 DEF ClaimsInit, Word, EmptyMap
  <2> QED
    BY <1>1, <2>1, AiSlotIs DEF Slot, EmptyMap, ClaimsInit
<1>3. \A c \in Call : StatusOf(c) = "new"
  <2> TAKE c \in Call
  <2>1. conn[c] = "none" /\ pc[c] = "idle"
    BY <1>1 DEF ClaimsInit
  <2>2. connections = EmptyMap
    BY <1>1 DEF ClaimsInit
  <2> QED
    BY <2>1, <2>2, ClaimsAssumption
    DEF StatusOf, WebSocket!StatusOf, WebSocket!Running, WebSocket!Entries, WebSocket!KeysIn,
        WebSocket!Key, Mqtt!MqttStatus, Mqtt!Entries, Mqtt!KeysIn, Mqtt!Key, EmptyMap, Key,
        SocketIo!SocketIoStatus, Mcp!McpStatus, Ai!AiStatus
<1>4. Speaker = None /\ alive = Owner
  BY <1>1 DEF Speaker, ClaimsInit
<1> QED
  BY <1>2, <1>3, <1>4, RegistrySame DEF Registry!CInit

(* A step that changes nothing changes nothing of the abstract registry.    *)
LEMMA Stutters ==
  ASSUME ~(transport = "websocket"), UNCHANGED allVars
  PROVE  UNCHANGED Registry!cvars
<1>1. /\ transport' = transport /\ connections' = connections /\ alive' = alive /\ conn' = conn
      /\ pc' = pc /\ keyOf' = keyOf /\ io' = io /\ cancelledGenerations' = cancelledGenerations
  BY DEF allVars, connVars, claimVars, aiVars
<1>2. Ai!AiSlot' = Ai!AiSlot
  BY <1>1 DEF Ai!AiSlot, Ai!LastWord
<1>3. ASSUME NEW c PROVE StatusOf(c)' = StatusOf(c)
  BY <1>1, <1>2
  DEF StatusOf, Mqtt!MqttStatus, Mqtt!Entries, Mqtt!KeysIn, SocketIo!SocketIoStatus,
      Mcp!McpStatus, Ai!AiStatus
<1>4. Slot' = Slot
  BY <1>1, <1>2 DEF Slot
<1>5. Speaker' = Speaker
  BY <1>1, <1>3 DEF Speaker
<1> QED
  BY <1>1, <1>3, <1>4, <1>5 DEF Registry!cvars

(* Every step of every transport but WebSocket's is one of the abstract     *)
(* registry.                                                                *)
LEMMA StepsImplement ==
  ~(transport = "websocket") /\ TransportsInv /\ TransportsInv' /\ [TransportsNext]_allVars
  => [Registry!CNext]_(Registry!cvars)
<1> SUFFICES ASSUME ~(transport = "websocket"), TransportsInv, TransportsInv',
                    [TransportsNext]_allVars
             PROVE  [Registry!CNext]_(Registry!cvars)
  OBVIOUS
<1>0. transport' = transport
  BY OneTransport
<1>1. CASE UNCHANGED allVars
  BY <1>1, Stutters
<1>2. CASE TransportsNext
  <2>1. CASE transport = "mqtt"
    BY <1>0, <1>2, <2>1, MqttImplements DEF TransportsInv, TransportsNext
  <2>2. CASE transport = "socketio"
    BY <1>0, <1>2, <2>2, SocketIoImplements DEF TransportsInv, TransportsNext
  <2>3. CASE transport = "mcp"
    BY <1>0, <1>2, <2>3, McpImplements DEF TransportsInv, TransportsNext
  <2>4. CASE transport = "ai"
    BY <1>0, <1>2, <2>4, AiImplements DEF TransportsInv, TransportsNext
  <2>5. CASE Quiet
    BY <1>0, <1>2, <2>5, QuietImplements DEF Quiet
  <2> QED
    BY <2>1, <2>2, <2>3, <2>4, <2>5 DEF TransportsInv, Quiet
<1> QED
  BY <1>1, <1>2

(* What is proved of the WebSocket handler's refinement, for the instance   *)
(* here.                                                                    *)
LEMMA WebSocketRefines == WSP!Spec => [][WSP!Registry!CNext]_(WSP!Registry!cvars)
<1>1. MaxCalls \in Nat /\ MaxConnections \in Nat
  BY WebSocketAssumptions
<1>2. WSP!IsFiniteSet(Owner) /\ WSP!IsFiniteSet(Id)
  BY WebSocketAssumptions
<1>3. None \notin WSP!Call \cup WSP!Key \cup WSP!Emission
  BY WebSocketAssumptions
<1> QED
  BY <1>1, <1>2, <1>3, WSP!Refinement, PTL DEF WSP!ImplementsRegistry, WSP!Registry!CSpec

(* Whatever the transport, what it registers, ends and lets speak is a      *)
(* behaviour of ConnectionRegistry: a connection is registered once, only   *)
(* for a live renderer, is over when its slot is emptied or taken, and      *)
(* speaks only from a slot.                                                 *)
THEOREM TransportsRefinement == TransportsSpec => ImplementsRegistry
<1>1. transport = "websocket" /\ [TransportsNext]_allVars => (transport = "websocket")'
  BY OneTransport
<1>2. ~(transport = "websocket") /\ [TransportsNext]_allVars => ~(transport = "websocket")'
  BY OneTransport
<1>3. transport = "websocket" /\ (transport = "websocket")'
        /\ [WSP!Registry!CNext]_(WSP!Registry!cvars) => [Registry!CNext]_(Registry!cvars)
  BY WspSteps
<1> QED
  BY <1>1, <1>2, <1>3, StepsImplement, RegistryBegins, TransportsInvariance, WebSocketSteps,
     WebSocketRefines, PTL
  DEF TransportsSpec, allVars, WSP!Spec, ImplementsRegistry, Registry!CSpec
===============================================================================
