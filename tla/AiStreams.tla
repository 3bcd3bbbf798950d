------------------------------- MODULE AiStreams -------------------------------
(***************************************************************************)
(* electron/main/handlers/ai-handler.ts, and the streams of                *)
(* ai-lab-handler.ts, which are the same code: a chat enters the registry  *)
(* before its provider's address is resolved, and takes the place of the   *)
(* chat its renderer had under that streamId.  A cancelled one is out of   *)
(* the registry at once but may still report how it ended, unless a chat   *)
(* of the same streamId has come after it: cancelledGenerations.           *)
(*                                                                         *)
(* conn is the generator of the reply: "up", "aborted" when its signal is, *)
(* "over".  What executeAiChat yields is arbitrary.                        *)
(***************************************************************************)
EXTENDS ConnectionClaims

VARIABLE cancelledGenerations \* the cancelled chat of each key that may still speak

AiInit == cancelledGenerations = EmptyMap

(* No claims are used here; the registry is all there is.                  *)
unusedVars == <<ownerEntry, pending, claimBound>>

(* The registry's dispose aborts the signal, and with it the reply.        *)
Aborted(cs) ==
    conn' = [c \in Call |-> IF c \in cs /\ conn[c] = "up" THEN "aborted" ELSE conn[c]]

IsLatestCancellation(c) == cancelledGenerations[keyOf[c]] = c

-------------------------------------------------------------------------------
(* ai:chat.  The limiter or the sender's count of streams refuses it, ...  *)
ChatRejected(c, k) == Reject(c, k) /\ UNCHANGED cancelledGenerations

(* ... or it enters, in the place of its predecessor.                      *)
Chat(c, k) ==
    /\ Arrive(c, k)
    /\ cancelledGenerations' = Drop(cancelledGenerations, k)
    /\ Aborted({connections[k]})
    /\ connections' = Put(connections, k, c)
    /\ entryBound' = Bind(entryBound, alive, OwnerOf(k))
    /\ Answer(c, "resolving")
    /\ io' = None
    /\ UNCHANGED <<unusedVars, alive>>

(* The provider's address is refused.                                      *)
Unresolved(c) ==
    /\ pc[c] = "resolving"
    /\ Answer(c, "failed")
    /\ connections' = IF IsCurrent(c) THEN Drop(connections, keyOf[c]) ELSE connections
    /\ io' = None
    /\ UNCHANGED <<unusedVars, made, keyOf, entryBound, alive, conn, cancelledGenerations>>

(* The reply starts, unless the chat was cancelled, replaced or orphaned.  *)
Start(c) ==
    /\ pc[c] = "resolving"
    /\ IF IsCurrent(c) THEN Answer(c, "ok") /\ Becomes(c, "up")
                       ELSE Answer(c, "failed") /\ UNCHANGED conn
    /\ io' = None
    /\ UNCHANGED <<unusedVars, made, keyOf, connections, entryBound, alive,
                   cancelledGenerations>>

(* runChat: a chunk for the renderer.                                      *)
Chunk(c) ==
    /\ conn[c] \in {"up", "aborted"}
    /\ IsCurrent(c)
    /\ Say(c)
    /\ UNCHANGED <<unusedVars, made, pc, keyOf, connections, entryBound, alive, conn,
                   cancelledGenerations>>

(* The finally of runChat.                                                 *)
Settled(c) ==
    /\ Becomes(c, "over")
    /\ connections' = IF IsCurrent(c) THEN Drop(connections, keyOf[c]) ELSE connections
    /\ cancelledGenerations' = IF IsLatestCancellation(c)
                               THEN Drop(cancelledGenerations, keyOf[c])
                               ELSE cancelledGenerations
    /\ UNCHANGED <<unusedVars, made, pc, keyOf, entryBound, alive>>

(* The reply has ended, or an event finds its chat no longer current.      *)
Done(c) ==
    /\ conn[c] \in {"up", "aborted"}
    /\ SayIfCurrent(c)
    /\ Settled(c)

(* The reply throws; an explicit cancel is told of it.                     *)
Throws(c) ==
    /\ conn[c] \in {"up", "aborted"}
    /\ IF IsCurrent(c) \/ IsLatestCancellation(c) THEN Say(c) ELSE io' = None
    /\ Settled(c)

(* ai:chatCancel, which says itself that the chat is cancelled.            *)
ChatCancel(k) ==
    /\ OwnerOf(k) \in alive
    /\ connections[k] # None
    /\ cancelledGenerations' = Put(cancelledGenerations, k, connections[k])
    /\ Aborted({connections[k]})
    /\ connections' = Drop(connections, k)
    /\ Say(connections[k])
    /\ UNCHANGED <<unusedVars, made, pc, keyOf, entryBound, alive>>

ChatDestroyed(o) ==
    /\ TornDown(o)
    /\ Aborted(DisposedOnDestroyed(connections, entryBound, o))
    /\ UNCHANGED cancelledGenerations

(* unregisterAiHandlers                                                    *)
Unregister ==
    /\ Aborted(Entries(connections))
    /\ connections' = EmptyMap
    /\ cancelledGenerations' = EmptyMap
    /\ io' = None
    /\ UNCHANGED <<unusedVars, made, pc, keyOf, entryBound, alive>>

-------------------------------------------------------------------------------
(* Addresses resolve, and an aborted reply ends.                           *)
Unwinds(c) ==
    \/ Unresolved(c) \/ Start(c)
    \/ conn[c] = "aborted" /\ (Done(c) \/ Throws(c))

AiNext ==
    \/ \E c \in Call : \/ \E k \in Key : ChatRejected(c, k) \/ Chat(c, k)
                       \/ Unresolved(c) \/ Start(c)
                       \/ Chunk(c) \/ Done(c) \/ Throws(c)
    \/ \E k \in Key : ChatCancel(k)
    \/ \E o \in Owner : ChatDestroyed(o)
    \/ Unregister

-------------------------------------------------------------------------------
(* A reply that runs is the current one of its key, so it can be stopped;  *)
(* no entry is of a chat that has ended, which would count against its     *)
(* renderer for ever; and no two chats may speak under one streamId.       *)
AiTracked ==
    /\ \A c \in Call : conn[c] = "up" => IsCurrent(c)
    /\ \A k \in KeysIn(connections) :
          /\ cancelledGenerations[k] = None
          /\ pc[connections[k]] = "resolving" \/ conn[connections[k]] = "up"

(* A cancelled chat keeps its place until it ends or is succeeded.         *)
LastWord(k) ==
    LET last == {c \in {cancelledGenerations[k]} \ {None} :
                    conn[c] = "aborted" /\ OwnerOf(k) \in alive}
    IN IF last = {} THEN None ELSE cancelledGenerations[k]

AiSlot == [k \in Key |-> IF connections[k] # None THEN connections[k] ELSE LastWord(k)]

AiStatus(c) ==
    IF pc[c] = "idle" THEN "new"
    ELSE IF AiSlot[keyOf[c]] = c THEN "live" ELSE "done"

(* No chat stays between its call and its reply, or aborted and running.   *)
AiSettled == \A c \in Call : pc[c] # "resolving" /\ conn[c] # "aborted"
===============================================================================
