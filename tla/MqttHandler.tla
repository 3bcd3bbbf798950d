----------------------------- MODULE MqttHandler -----------------------------
(***************************************************************************)
(* electron/main/handlers/mqtt-handler.ts.  Unlike the other handlers this *)
(* one ends a client gracefully and waits for that: a reconnect awaits the *)
(* end of the client it replaces, a disconnect the end of its own, and     *)
(* stopMqttCleanup the end of one client after the other, each with the    *)
(* entry still in the registry.  A connect of an id that has no entry runs *)
(* without an await.                                                       *)
(*                                                                         *)
(* A client is "up" while it has its listeners (whether the broker is      *)
(* reachable, lost or back is left to the events) and "ended" once         *)
(* endClient has run.  mqtt.js calls back when the connection is closed,   *)
(* or at once if another end is on its way: an await may take any time.    *)
(***************************************************************************)
EXTENDS ConnectionClaims

VARIABLES
    closer,   \* the renderer's disconnect of an entry awaits its end
    stopping, \* stopMqttCleanup runs
    swept     \* the entries its iterator has passed

mqttVars == <<closer, stopping, swept>>

MqttInit ==
    /\ ClaimsInit
    /\ closer = {}
    /\ stopping = FALSE
    /\ swept = {}

-------------------------------------------------------------------------------
(* endClient: a client that has ended is not affected.                     *)
Ended(cs) == [c \in Call |-> IF c \in cs THEN "ended" ELSE conn[c]]

(* The client of call c is built and registered.  tryAdd cannot fail here: *)
(* the claim is held and the key has no entry.                             *)
Register(c, k) ==
    /\ connections' = Put(connections, k, c)
    /\ entryBound' = Bind(entryBound, alive, OwnerOf(k))
    /\ Becomes(c, "up")
    /\ Answer(c, "ok")

(* mqtt:connect of an id without an entry: claim, policy, client and       *)
(* release in one turn.                                                    *)
ConnectNew(c, k) ==
    /\ Arrive(c, k)
    /\ CanReserve(k) /\ connections[k] = None
    /\ claimBound' = Bind(claimBound, alive, OwnerOf(k))
    /\ Register(c, k)
    /\ io' = None
    /\ UNCHANGED <<ownerEntry, pending, alive, mqttVars>>

ConnectRejected(c, k) == Reject(c, k) /\ UNCHANGED mqttVars

(* The broker is refused or the client cannot be built: the claim is given *)
(* back in the same turn.                                                  *)
ConnectUnbuilt(c, k) ==
    /\ Arrive(c, k)
    /\ CanReserve(k) /\ connections[k] = None
    /\ claimBound' = Bind(claimBound, alive, OwnerOf(k))
    /\ Answer(c, "failed")
    /\ io' = None
    /\ UNCHANGED <<ownerEntry, pending, connections, entryBound, alive, conn, mqttVars>>

(* mqtt:connect of an id that has one: await endClient(existing).          *)
Reconnect(c, k) ==
    /\ connections[k] # None
    /\ Reserve(c, k, "ending")
    /\ conn' = Ended({connections[k]})
    /\ io' = None
    /\ UNCHANGED <<connections, entryBound, alive, mqttVars>>

(* The check after the await without the entry's identity.                 *)
CanTakeAny(c) == HoldsClaim(c)

CanTake(c) == HoldsClaim(c) /\ connections[keyOf[c]] = ownerEntry[c]

Resumed(c) == pc[c] = "ending"

ReconnectStale(c) ==
    /\ Resumed(c)
    /\ ~CanTake(c)
    /\ GiveUp(c)
    /\ UNCHANGED mqttVars

(* The broker is refused, or the client cannot be built: the old entry is  *)
(* gone all the same.                                                      *)
ReconnectFailed(c) ==
    /\ Resumed(c)
    /\ CanTake(c)
    /\ connections' = Drop(connections, keyOf[c])
    /\ Answer(c, "failed")
    /\ Release(c)
    /\ io' = None
    /\ UNCHANGED <<made, keyOf, ownerEntry, boundVars, alive, conn, mqttVars>>

(* The claim is not given back.                                            *)
ReplaceKeepingClaim(c) ==
    /\ Resumed(c)
    /\ CanTake(c)
    /\ Register(c, keyOf[c])
    /\ io' = None
    /\ UNCHANGED <<made, keyOf, ownerEntry, pending, claimBound, alive, mqttVars>>

Replace(c) ==
    /\ Resumed(c)
    /\ CanTake(c)
    /\ Register(c, keyOf[c])
    /\ Release(c)
    /\ io' = None
    /\ UNCHANGED <<made, keyOf, ownerEntry, claimBound, alive, mqttVars>>

-------------------------------------------------------------------------------
(* connect, message, error and close of a client that has its listeners,   *)
(* and the callbacks of publish, subscribe and unsubscribe, which outlive  *)
(* them: all ask whether their entry is current.  None of them removes it. *)
ClientEvent(c) ==
    /\ conn[c] = "up"
    /\ SayIfCurrent(c)
    /\ UNCHANGED <<made, pc, keyOf, ownerEntry, pending, connections, boundVars, alive,
                   conn, mqttVars>>

(* A callback that asks for the id alone.                                  *)
CallbackUnchecked(c) ==
    /\ conn[c] # "none"
    /\ IF HasEntry(c) THEN Say(c) ELSE io' = None
    /\ UNCHANGED <<made, pc, keyOf, ownerEntry, pending, connections, boundVars, alive,
                   conn, mqttVars>>

RequestCallback(c) ==
    /\ conn[c] # "none"
    /\ SayIfCurrent(c)
    /\ UNCHANGED <<made, pc, keyOf, ownerEntry, pending, connections, boundVars, alive,
                   conn, mqttVars>>

-------------------------------------------------------------------------------
(* mqtt:disconnect: await the graceful end, then look again.               *)
Disconnect(k) ==
    LET e == connections[k] IN
    /\ OwnerOf(k) \in alive
    /\ e # None
    /\ conn' = Ended({e})
    /\ closer' = closer \cup {e}
    /\ io' = None
    /\ UNCHANGED <<made, pc, keyOf, ownerEntry, pending, connections, boundVars, alive,
                   stopping, swept>>

(* Whatever the id holds by now is removed.                                *)
DisconnectedUnchecked(e) ==
    /\ e \in closer
    /\ closer' = closer \ {e}
    /\ connections' = Drop(connections, keyOf[e])
    /\ io' = IF HasEntry(e) /\ OwnerOf(keyOf[e]) \in alive
             THEN connections[keyOf[e]] ELSE None
    /\ UNCHANGED <<made, pc, keyOf, ownerEntry, pending, boundVars, alive, conn,
                   stopping, swept>>

Disconnected(e) ==
    /\ e \in closer
    /\ closer' = closer \ {e}
    /\ IF IsCurrent(e)
       THEN connections' = Drop(connections, keyOf[e]) /\ Say(e)
       ELSE UNCHANGED connections /\ io' = None
    /\ UNCHANGED <<made, pc, keyOf, ownerEntry, pending, boundVars, alive, conn,
                   stopping, swept>>

-------------------------------------------------------------------------------
(* The renderer is destroyed: dispose ends the clients without waiting.    *)
Destroyed(o) ==
    /\ TornDown(o)
    /\ conn' = Ended(DisposedOnDestroyed(connections, entryBound, o))
    /\ UNCHANGED mqttVars

(* stopMqttCleanup: drop the claims, then for every entry of the registry, *)
(* those that enter it meanwhile included, await its end.                  *)
Unswept == Entries(connections) \ swept

StopStart ==
    /\ ~stopping
    /\ stopping' = TRUE
    /\ pending' = EmptyMap
    /\ io' = None
    /\ UNCHANGED <<made, pc, keyOf, ownerEntry, connections, boundVars, alive, conn, closer,
                   swept>>

StopNextEntry(e) ==
    /\ stopping
    /\ e \in Unswept
    /\ swept' = swept \cup {e}
    /\ conn' = Ended({e})
    /\ io' = None
    /\ UNCHANGED <<made, pc, keyOf, ownerEntry, pending, connections, boundVars, alive,
                   closer, stopping>>

(* The registry is cleared when the entries found at the start have ended. *)
StopEarly ==
    /\ stopping /\ swept # {}
    /\ connections' = EmptyMap
    /\ stopping' = FALSE
    /\ swept' = {}
    /\ io' = None
    /\ UNCHANGED <<made, pc, keyOf, ownerEntry, pending, boundVars, alive, conn, closer>>

StopEnd ==
    /\ stopping /\ Unswept = {}
    /\ connections' = EmptyMap
    /\ stopping' = FALSE
    /\ swept' = {}
    /\ io' = None
    /\ UNCHANGED <<made, pc, keyOf, ownerEntry, pending, boundVars, alive, conn, closer>>

-------------------------------------------------------------------------------
ConnectCall(c) ==
    \/ \E k \in Key : \/ ConnectRejected(c, k) \/ ConnectUnbuilt(c, k)
                      \/ ConnectNew(c, k) \/ Reconnect(c, k)
    \/ ReconnectStale(c) \/ ReconnectFailed(c) \/ Replace(c)

MqttNext ==
    \/ \E c \in Call : \/ ConnectCall(c) \/ ClientEvent(c) \/ RequestCallback(c)
                       \/ Disconnected(c) \/ StopNextEntry(c)
    \/ \E k \in Key : Disconnect(k)
    \/ \E o \in Owner : Destroyed(o)
    \/ StopStart
    \/ StopEnd

(* What must happen: mqtt.js calls back when a client is ended by force;   *)
(* the graceful end of a disconnect may wait for the broker for good.      *)
Forced(c) ==
    \/ ReconnectStale(c)
    \/ ReconnectFailed(c)
    \/ Replace(c)

-------------------------------------------------------------------------------
(* A client with its listeners is the entry of its id, where its renderer, *)
(* the renderer's destruction and stopMqttCleanup can reach it; no entry   *)
(* is replaced, disconnected or cleared before its client was ended.       *)
MqttTracked == \A c \in Call : conn[c] = "up" => IsCurrent(c)

(* What the abstract registry sees of a client.                            *)
MqttStatus(c) ==
    CASE conn[c] = "none" -> "new"
      [] c \in Entries(connections) -> "live"
      [] OTHER -> "done"
===============================================================================
