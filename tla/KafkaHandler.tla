----------------------------- MODULE KafkaHandler -----------------------------
(***************************************************************************)
(* electron/main/handlers/kafka-handler.ts: the life of a Kafka connection *)
(* (a producer) and of the consumer it may own, across the many awaits of  *)
(* this handler.  Connecting, replacing, subscribing, unsubscribing,       *)
(* disconnecting and stopping all give up control while a client closes,   *)
(* and any other handler may run in between.                               *)
(*                                                                         *)
(* A call is one IPC request, numbered in order of arrival; the number is  *)
(* also the identity of the client it builds: the producer of a connect    *)
(* (and so its registry entry), the consumer of a subscribe with its       *)
(* stream.  Records, commits, producer sessions and the admin requests,    *)
(* which neither build nor close a client of this module, are left out.    *)
(***************************************************************************)
EXTENDS StreamRegistry

CONSTANTS MaxCalls,        \* bound: how many requests are explored
          MaxConnections   \* MAX_CONCURRENT_KAFKA_CONNECTIONS

Call == 1 .. MaxCalls

(* closeConnection and closeConsumerAndStream run in the call that awaits  *)
(* them, detached for a disposed entry, or in stopKafkaCleanup.            *)
CallCloser(c) == <<c, "call">>
Disposer(e) == <<e, "dispose">>
Stopper == <<0, "stop">>

Closer == {CallCloser(c) : c \in Call} \cup {Disposer(e) : e \in Call} \cup {Stopper}

ASSUME KafkaAssumption ==
    /\ MaxCalls \in Nat /\ MaxConnections \in Nat
    /\ IsFiniteSet(Owner) /\ IsFiniteSet(Id)
    /\ None \notin Call \cup Key

VARIABLES
    made,        \* how many requests have been received
    pc,          \* what each call is awaiting, or how it was answered
    keyOf,       \* the owner-scoped key it asked for
    target,      \* the entry it found there: claim.ownerEntry, or `entry`
    pending,     \* pendingConnections: which call holds the claim of a key
    connections, \* activeConnections
    claimBound,  \* renderers whose destruction clears their claims
    entryBound,  \* renderers whose destruction disposes their entries
    alive,       \* renderers that are not destroyed
    client,      \* the client each call has built, while it is open
    consumerOf,  \* entry.consumer of each entry
    streamOf,    \* entry.stream of each entry
    closing,     \* how far each closer is, and with which entry
    doomed,      \* stopKafkaCleanup: the claims it has still to close
    swept,       \* and the entries its iterator has passed
    stop         \* where stopKafkaCleanup is

vars == <<made, pc, keyOf, target, pending, connections, claimBound, entryBound,
          alive, client, consumerOf, streamOf, closing, doomed, swept, stop>>

stopVars == <<doomed, swept, stop>>
fieldVars == <<consumerOf, streamOf>>
boundVars == <<claimBound, entryBound>>

Idle == [entry |-> None, stage |-> "idle"]

TypeOK ==
    /\ made \in 0 .. MaxCalls
    /\ pc \in [Call -> {"idle", "replacing", "probing", "discarding", "consuming",
                        "unsubscribing", "disconnecting", "ok", "failed"}]
    /\ keyOf \in [Call -> Key \cup {None}]
    /\ target \in [Call -> Call \cup {None}]
    /\ pending \in [Key -> Call \cup {None}]
    /\ connections \in [Key -> Call \cup {None}]
    /\ claimBound \subseteq Owner /\ entryBound \subseteq Owner /\ alive \subseteq Owner
    /\ client \in [Call -> {"none", "producer", "consumer", "closed"}]
    /\ consumerOf \in [Call -> Call \cup {None}]
    /\ streamOf \in [Call -> Call \cup {None}]
    /\ closing \in [Closer -> [entry : Call \cup {None},
                               stage : {"idle", "stream", "consumer", "drained", "producer"}]]
    /\ doomed \subseteq Call /\ swept \subseteq Call
    /\ stop \in {"running", "claims", "entries", "stopped"}

Init ==
    /\ made = 0
    /\ pc = [c \in Call |-> "idle"]
    /\ keyOf = [c \in Call |-> None]
    /\ target = [c \in Call |-> None]
    /\ pending = EmptyMap
    /\ connections = EmptyMap
    /\ claimBound = {}
    /\ entryBound = {}
    /\ alive = Owner
    /\ client = [c \in Call |-> "none"]
    /\ consumerOf = [c \in Call |-> None]
    /\ streamOf = [c \in Call |-> None]
    /\ closing = [x \in Closer |-> Idle]
    /\ doomed = {}
    /\ swept = {}
    /\ stop = "running"

-------------------------------------------------------------------------------
(* closeConsumerAndStream and closeConnection.  A stage is the await the   *)
(* closer is at: stream.close(), consumer.close(), the inner async         *)
(* function as a whole ("drained"), producer.close().  A client counts as  *)
(* closed from the moment its close() was called.                          *)

FirstStage(e) ==
    CASE streamOf[e] # None -> "stream"
      [] streamOf[e] = None /\ consumerOf[e] # None -> "consumer"
      [] OTHER -> "drained"

Shut(cs) == [c \in Call |-> IF c \in cs /\ client[c] # "none" THEN "closed" ELSE client[c]]

ShutAtOnce(es) == {consumerOf[e] : e \in {d \in es : FirstStage(d) = "consumer"}}

(* A closer enters closeConnection(e), or closeConsumerAndStream(e).       *)
Begin(x, e) ==
    /\ closing' = [closing EXCEPT ![x] = [entry |-> e, stage |-> FirstStage(e)]]
    /\ client' = Shut(ShutAtOnce({e}))

At(x, stage) == closing[x].stage = stage

(* stream.close() has settled: the field is cleared, whatever it holds by  *)
(* now, and the consumer the entry has now is closed.                      *)
StreamClosed(x) ==
    LET e == closing[x].entry IN
    /\ At(x, "stream")
    /\ streamOf' = [streamOf EXCEPT ![e] = None]
    /\ closing' = [closing EXCEPT ![x].stage =
                      IF consumerOf[e] # None THEN "consumer" ELSE "drained"]
    /\ client' = Shut({consumerOf[e]})
    /\ UNCHANGED <<made, pc, keyOf, target, pending, connections, boundVars, alive,
                   consumerOf, stopVars>>

ConsumerClosed(x) ==
    /\ At(x, "consumer")
    /\ consumerOf' = [consumerOf EXCEPT ![closing[x].entry] = None]
    /\ closing' = [closing EXCEPT ![x].stage = "drained"]
    /\ UNCHANGED <<made, pc, keyOf, target, pending, connections, boundVars, alive,
                   client, streamOf, stopVars>>

(* kafka:unsubscribe stops here; closeConnection goes on to the producer.     *)
ClosesProducer(x) == \A c \in Call : x = CallCloser(c) => pc[c] # "unsubscribing"

ProducerClosing(x) ==
    /\ At(x, "drained")
    /\ ClosesProducer(x)
    /\ client' = Shut({closing[x].entry})
    /\ closing' = [closing EXCEPT ![x].stage = "producer"]
    /\ UNCHANGED <<made, pc, keyOf, target, pending, connections, boundVars, alive,
                   fieldVars, stopVars>>

(* The closer is done and its caller goes on.                              *)
Finish(x) == closing' = [closing EXCEPT ![x] = Idle]

(* void closeConnection(e): nobody waits for it.                           *)
DisposeFinished(x) ==
    /\ \E e \in Call : x = Disposer(e)
    /\ At(x, "producer")
    /\ Finish(x)
    /\ UNCHANGED <<made, pc, keyOf, target, pending, connections, boundVars, alive,
                   client, fieldVars, stopVars>>

-------------------------------------------------------------------------------
(* kafka:connect                                                           *)

Arrive(c, k) ==
    /\ c = made + 1
    /\ OwnerOf(k) \in alive
    /\ made' = c
    /\ keyOf' = [keyOf EXCEPT ![c] = k]

Reply(c, answer) == pc' = [pc EXCEPT ![c] = answer]

(* Any request may be turned away at once: the limiter, the cap, a claim,  *)
(* the broker guard (after it bound the claims' teardown), no entry for    *)
(* the id, a consumer already there.                                       *)
Reject(c, k) ==
    /\ Arrive(c, k)
    /\ Reply(c, "failed")
    /\ claimBound' \in {claimBound, claimBound \cup {OwnerOf(k)}}
    /\ UNCHANGED <<target, pending, connections, entryBound, alive, client,
                   fieldVars, closing, stopVars>>

(* The cap without the connects in flight.                                 *)
HasRoomForOpen == Size(connections) < MaxConnections

HasRoom == Size(connections) + Size(pending) < MaxConnections

(* A first connect for the key: claim it, build the producer, probe it.    *)
Connect(c, k) ==
    /\ Arrive(c, k)
    /\ HasRoom
    /\ pending[k] = None
    /\ connections[k] = None
    /\ pending' = Put(pending, k, c)
    /\ claimBound' = Bind(claimBound, alive, OwnerOf(k))
    /\ client' = [client EXCEPT ![c] = "producer"]
    /\ Reply(c, "probing")
    /\ UNCHANGED <<target, connections, entryBound, alive, fieldVars, closing, stopVars>>

(* A reconnect: claim the key and close the connection that has it.        *)
Reconnect(c, k) ==
    /\ Arrive(c, k)
    /\ HasRoom
    /\ pending[k] = None
    /\ connections[k] # None
    /\ target' = [target EXCEPT ![c] = connections[k]]
    /\ pending' = Put(pending, k, c)
    /\ claimBound' = Bind(claimBound, alive, OwnerOf(k))
    /\ Begin(CallCloser(c), connections[k])
    /\ Reply(c, "replacing")
    /\ UNCHANGED <<connections, entryBound, alive, fieldVars, stopVars>>

HoldsClaim(c) == pending[keyOf[c]] = c

(* releaseKafkaClaim, in the finally of connect.                           *)
Release(c) ==
    pending' = IF HoldsClaim(c) THEN Drop(pending, keyOf[c]) ELSE pending

(* claim and identity are checked again after closeConnection(existing)    *)
StillReplaces(c) == HoldsClaim(c) /\ connections[keyOf[c]] = target[c]

(* The old connection is gone; its successor's producer is built.          *)
Replaced(c) ==
    /\ pc[c] = "replacing"
    /\ At(CallCloser(c), "producer")
    /\ StillReplaces(c)
    /\ connections' = Drop(connections, keyOf[c])
    /\ client' = [client EXCEPT ![c] = "producer"]
    /\ Reply(c, "probing")
    /\ Finish(CallCloser(c))
    /\ UNCHANGED <<made, keyOf, target, pending, boundVars, alive, fieldVars, stopVars>>

(* The old connection is closed but nothing replaces it: the key changed   *)
(* hands meanwhile, or the guards refuse the new configuration.            *)
ReplaceFailed(c) ==
    /\ pc[c] = "replacing"
    /\ At(CallCloser(c), "producer")
    /\ connections' = IF StillReplaces(c) THEN Drop(connections, keyOf[c]) ELSE connections
    /\ Release(c)
    /\ Reply(c, "failed")
    /\ Finish(CallCloser(c))
    /\ UNCHANGED <<made, keyOf, target, boundVars, alive, client, fieldVars, stopVars>>

(* The commit without the token check that follows the metadata await.     *)
CommitUnchecked(c) ==
    /\ pc[c] = "probing"
    /\ connections[keyOf[c]] = None
    /\ connections' = Put(connections, keyOf[c], c)
    /\ entryBound' = Bind(entryBound, alive, OwnerOf(keyOf[c]))
    /\ Release(c)
    /\ Reply(c, "ok")
    /\ UNCHANGED <<made, keyOf, target, claimBound, alive, client, fieldVars,
                   closing, stopVars>>

(* The metadata arrived and the claim still stands: register the entry.    *)
Commit(c) ==
    /\ pc[c] = "probing"
    /\ HoldsClaim(c)
    /\ connections[keyOf[c]] = None
    /\ connections' = Put(connections, keyOf[c], c)
    /\ entryBound' = Bind(entryBound, alive, OwnerOf(keyOf[c]))
    /\ Release(c)
    /\ Reply(c, "ok")
    /\ UNCHANGED <<made, keyOf, target, claimBound, alive, client, fieldVars,
                   closing, stopVars>>

(* The probe failed, or the claim is stale: close the producer, keeping    *)
(* the claim meanwhile.                                                    *)
Discard(c) ==
    /\ pc[c] = "probing"
    /\ client' = Shut({c})
    /\ Reply(c, "discarding")
    /\ UNCHANGED <<made, keyOf, target, pending, connections, boundVars, alive,
                   fieldVars, closing, stopVars>>

Discarded(c) ==
    /\ pc[c] = "discarding"
    /\ Release(c)
    /\ Reply(c, "failed")
    /\ UNCHANGED <<made, keyOf, target, connections, boundVars, alive, client,
                   fieldVars, closing, stopVars>>

-------------------------------------------------------------------------------
(* kafka:subscribe, kafka:unsubscribe, kafka:disconnect                    *)

(* The request finds the entry it will work on.                            *)
Finds(c, k) ==
    /\ Arrive(c, k)
    /\ connections[k] # None
    /\ target' = [target EXCEPT ![c] = connections[k]]

Subscribe(c, k) ==
    /\ Finds(c, k)
    /\ consumerOf[connections[k]] = None
    /\ client' = [client EXCEPT ![c] = "consumer"]
    /\ Reply(c, "consuming")
    /\ UNCHANGED <<pending, connections, boundVars, alive, fieldVars, closing, stopVars>>

(* consume() resolved, the entry is still registered and has no consumer.  *)
CanAttach(c) == connections[keyOf[c]] = target[c] /\ consumerOf[target[c]] = None

Attach(c) ==
    /\ pc[c] = "consuming"
    /\ CanAttach(c)
    /\ consumerOf' = [consumerOf EXCEPT ![target[c]] = c]
    /\ streamOf' = [streamOf EXCEPT ![target[c]] = c]
    /\ Reply(c, "ok")
    /\ UNCHANGED <<made, keyOf, target, pending, connections, boundVars, alive,
                   client, closing, stopVars>>

(* consume() failed, or the attach check refuses: close the consumer.      *)
SubscribeFailed(c) ==
    /\ pc[c] = "consuming"
    /\ client' = Shut({c})
    /\ Reply(c, "failed")
    /\ UNCHANGED <<made, keyOf, target, pending, connections, boundVars, alive,
                   fieldVars, closing, stopVars>>

CloseRequest(c, k, waiting) ==
    /\ Finds(c, k)
    /\ Begin(CallCloser(c), connections[k])
    /\ Reply(c, waiting)
    /\ UNCHANGED <<pending, connections, boundVars, alive, fieldVars, stopVars>>

Unsubscribe(c, k) == CloseRequest(c, k, "unsubscribing")

Disconnect(c, k) == CloseRequest(c, k, "disconnecting")

Unsubscribed(c) ==
    /\ pc[c] = "unsubscribing"
    /\ At(CallCloser(c), "drained")
    /\ Finish(CallCloser(c))
    /\ Reply(c, "ok")
    /\ UNCHANGED <<made, keyOf, target, pending, connections, boundVars, alive,
                   client, fieldVars, stopVars>>

(* The disconnect that removes whatever entry the key has by now.          *)
DisconnectedUnchecked(c) ==
    /\ pc[c] = "disconnecting"
    /\ At(CallCloser(c), "producer")
    /\ connections' = Drop(connections, keyOf[c])
    /\ Finish(CallCloser(c))
    /\ Reply(c, "ok")
    /\ UNCHANGED <<made, keyOf, target, pending, boundVars, alive, client,
                   fieldVars, stopVars>>

(* closeConnection is over: the entry goes if it is still the current one. *)
Disconnected(c) ==
    /\ pc[c] = "disconnecting"
    /\ At(CallCloser(c), "producer")
    /\ connections' = IF connections[keyOf[c]] = target[c]
                        THEN Drop(connections, keyOf[c]) ELSE connections
    /\ Finish(CallCloser(c))
    /\ Reply(c, "ok")
    /\ UNCHANGED <<made, keyOf, target, pending, boundVars, alive, client,
                   fieldVars, stopVars>>

-------------------------------------------------------------------------------
(* Teardown                                                                *)

(* The producers of the claims in a map that are being probed.             *)
Probed(map) == {c \in Entries(map) : pc[c] = "probing"}

(* The webContents is destroyed: its claims' producers are closed, and     *)
(* every entry of its starts to close on its own.                          *)
Destroyed(o) ==
    LET claims == DisposedOnDestroyed(pending, claimBound, o)
        gone   == DisposedOnDestroyed(connections, entryBound, o)
    IN
    /\ o \in alive
    /\ alive' = alive \ {o}
    /\ pending' = AfterDestroyed(pending, claimBound, o)
    /\ connections' = AfterDestroyed(connections, entryBound, o)
    /\ client' = Shut({c \in claims : pc[c] = "probing"} \cup ShutAtOnce(gone))
    /\ closing' = [x \in Closer |->
                     IF \E e \in gone : x = Disposer(e)
                       THEN [entry |-> x[1], stage |-> FirstStage(x[1])]
                       ELSE closing[x]]
    /\ claimBound' = claimBound \ {o}
    /\ entryBound' = entryBound \ {o}
    /\ UNCHANGED <<made, pc, keyOf, target, fieldVars, stopVars>>

(* stopKafkaCleanup, when the application quits: drop every claim, ...     *)
StopClaims ==
    /\ stop = "running"
    /\ stop' = "claims"
    /\ doomed' = Probed(pending)
    /\ pending' = EmptyMap
    /\ UNCHANGED <<made, pc, keyOf, target, connections, boundVars, alive, client,
                   fieldVars, closing, swept>>

(* ... close their producers one after the other, ...                      *)
StopProducer(c) ==
    /\ stop = "claims"
    /\ c \in doomed
    /\ doomed' = doomed \ {c}
    /\ client' = Shut({c} \cap {d \in Call : pc[d] = "probing"})
    /\ UNCHANGED <<made, pc, keyOf, target, pending, connections, boundVars, alive,
                   fieldVars, closing, swept, stop>>

(* ... then the entries, with an iterator that also meets the entries      *)
(* added while it waits, ...                                               *)
Unswept == Entries(connections) \ swept

StopReady ==
    /\ stop \in {"claims", "entries"}
    /\ doomed = {}
    /\ closing[Stopper].stage \in {"idle", "producer"}

StopEntry(e) ==
    /\ StopReady
    /\ e \in Unswept
    /\ stop' = "entries"
    /\ swept' = swept \cup {e}
    /\ Begin(Stopper, e)
    /\ UNCHANGED <<made, pc, keyOf, target, pending, connections, boundVars, alive,
                   fieldVars, doomed>>

(* ... and clear the registry in the turn in which the iterator ends.      *)
Stopped ==
    /\ StopReady
    /\ Unswept = {}
    /\ stop' = "stopped"
    /\ connections' = EmptyMap
    /\ Finish(Stopper)
    /\ UNCHANGED <<made, pc, keyOf, target, pending, boundVars, alive, client,
                   fieldVars, doomed, swept>>

-------------------------------------------------------------------------------
Request(c, k) ==
    \/ Reject(c, k) \/ Connect(c, k) \/ Reconnect(c, k)
    \/ Subscribe(c, k) \/ Unsubscribe(c, k) \/ Disconnect(c, k)

Resume(c) ==
    \/ Replaced(c) \/ ReplaceFailed(c)
    \/ Commit(c) \/ Discard(c) \/ Discarded(c)
    \/ Attach(c) \/ SubscribeFailed(c)
    \/ Unsubscribed(c) \/ Disconnected(c)

Close(x) == StreamClosed(x) \/ ConsumerClosed(x) \/ ProducerClosing(x) \/ DisposeFinished(x)

Stop == StopClaims \/ Stopped \/ \E c \in Call : StopProducer(c) \/ StopEntry(c)

Next ==
    \/ \E c \in Call : Resume(c) \/ \E k \in Key : Request(c, k)
    \/ \E x \in Closer : Close(x)
    \/ \E o \in Owner : Destroyed(o)
    \/ Stop

Spec == Init /\ [][Next]_vars

-------------------------------------------------------------------------------
(* Closers at work on an entry that have yet to close its producer.        *)
WillCloseProducer(c) ==
    \E x \in Closer : /\ closing[x].entry = c
                      /\ closing[x].stage \in {"stream", "consumer", "drained"}
                      /\ ClosesProducer(x)

(* No producer is ever lost: one that is open is the current entry of its  *)
(* key, or its own connect still has to judge it, or someone is closing    *)
(* it, through every overlap of connects, teardowns and the final stop.    *)
ProducerTracked ==
    \A c \in Call : client[c] = "producer" =>
        \/ connections[keyOf[c]] = c
        \/ pc[c] = "probing"
        \/ WillCloseProducer(c)

(* Entries and claims stay within the cap, although a replacement removes  *)
(* its predecessor and adds its own entry on two sides of an await.        *)
WithinCap == Size(connections) + Size(pending) <= MaxConnections

(* A destroyed renderer owns no entry and no claim, even when it died      *)
(* while one of its connects was closing a predecessor or probing.         *)
DeadOwnNothing ==
    \A k \in Key : OwnerOf(k) \notin alive => connections[k] = None /\ pending[k] = None

(* A registered connection has a working producer unless a disconnect, a   *)
(* reconnect or the final stop is closing it right now: the renderer is    *)
(* never left with an entry that answers "connected" and cannot produce.   *)
RegisteredIsUsable ==
    \A k \in KeysIn(connections) :
        \/ client[connections[k]] = "producer"
        \/ \E x \in Closer : closing[x] = [entry |-> connections[k], stage |-> "producer"]
        \/ stop \in {"claims", "entries"}

(* docs/KAFKA.md says a connection owns its producer and may own one       *)
(* consumer: an open consumer that its subscribe has handed over is the    *)
(* consumer of a connection, one that is registered or that someone has    *)
(* still to clear of its consumer.                                         *)
ConsumerOwned ==
    \A c \in Call : client[c] = "consumer" /\ pc[c] = "ok" =>
        /\ consumerOf[target[c]] = c
        /\ \/ connections[keyOf[c]] = target[c]
           \/ \E x \in Closer : closing[x].entry = target[c] /\ At(x, "stream")

-------------------------------------------------------------------------------
(* The inductive invariant behind the safety properties                    *)

(* A call whose connect has succeeded: its producer is open or closed for  *)
(* good.                                                                   *)
Committed(e) == e \in Call /\ pc[e] = "ok" /\ client[e] \in {"producer", "closed"}

Closes(c) == pc[c] \in {"replacing", "unsubscribing", "disconnecting"}

(* The client of a call follows its position, and what a call remembers    *)
(* across an await is a committed entry of its own key.                    *)
CallsSound ==
    \A c \in Call :
        /\ pc[c] = "idle" <=> c > made
        /\ keyOf[c] = None <=> pc[c] = "idle"
        /\ pc[c] = "idle" => target[c] = None
        /\ pc[c] = "idle" \/ Closes(c) => client[c] = "none"
        /\ pc[c] = "consuming" => client[c] = "consumer"
        /\ pc[c] = "probing" => client[c] \in {"producer", "closed"}
        /\ client[c] = "producer" => pc[c] \in {"probing", "ok"}
        /\ Closes(c) \/ pc[c] = "consuming" => target[c] # None
        /\ target[c] # None => Committed(target[c]) /\ keyOf[target[c]] = keyOf[c]

(* The consumer of an entry is one whose subscribe has succeeded.          *)
ConsumersSound ==
    \A e \in Call : consumerOf[e] # None =>
        pc[consumerOf[e]] = "ok" /\ client[consumerOf[e]] \in {"consumer", "closed"}

(* A claim belongs to a connect in flight, whose producer, once built, is  *)
(* open as long as the connect may commit.                                 *)
ClaimsSound ==
    \A k \in Key : pending[k] # None =>
        /\ keyOf[pending[k]] = k
        /\ pc[pending[k]] \in {"replacing", "probing", "discarding"}
        /\ pc[pending[k]] = "probing" => client[pending[k]] = "producer"
        /\ pending[k] \notin doomed
        /\ OwnerOf(k) \in claimBound

EntriesSound ==
    \A k \in Key : connections[k] # None =>
        /\ keyOf[connections[k]] = k
        /\ Committed(connections[k])
        /\ OwnerOf(k) \in entryBound

BoundAreAlive == claimBound \subseteq alive /\ entryBound \subseteq alive

(* A closer at work has a committed entry, whose producer is closed when   *)
(* the closer gets to its last await; a call closes what it found, and a   *)
(* disposed entry is out of the registry.                                  *)
ClosersSound ==
    \A x \in Closer :
        /\ closing[x].stage # "idle" => Committed(closing[x].entry)
        /\ closing[x].stage = "producer" => client[closing[x].entry] = "closed"

CallClosersSound ==
    \A c \in Call :
        /\ Closes(c) => /\ closing[CallCloser(c)].entry = target[c]
                        /\ closing[CallCloser(c)].stage # "idle"
        /\ ~Closes(c) => closing[CallCloser(c)].stage = "idle"
        /\ pc[c] = "unsubscribing" => closing[CallCloser(c)].stage # "producer"

DisposersSound ==
    \A c \in Call : closing[Disposer(c)].stage # "idle" =>
        closing[Disposer(c)].entry = c /\ connections[keyOf[c]] # c

(* A reconnect that finds its predecessor still registered still has its   *)
(* claim, unless the final stop took it.                                   *)
ReplacersSound ==
    \A c \in Call : pc[c] = "replacing" /\ connections[keyOf[c]] = target[c] =>
        HoldsClaim(c) \/ stop \in {"claims", "entries"}

(* The stop has seen to every entry its iterator has passed.               *)
SweepSound ==
    /\ \A c \in doomed : pc[c] # "idle"
    /\ \A e \in swept :
          /\ Committed(e)
          /\ \/ client[e] = "closed"
             \/ /\ closing[Stopper].entry = e
                /\ closing[Stopper].stage \in {"stream", "consumer", "drained"}

IInv ==
    /\ TypeOK
    /\ CallsSound
    /\ ConsumersSound
    /\ ClaimsSound
    /\ EntriesSound
    /\ BoundAreAlive
    /\ ClosersSound
    /\ CallClosersSound
    /\ DisposersSound
    /\ ReplacersSound
    /\ SweepSound
    /\ ProducerTracked
    /\ RegisteredIsUsable
================================================================================
