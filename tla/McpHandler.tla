------------------------------ MODULE McpHandler ------------------------------
(***************************************************************************)
(* electron/main/handlers/mcp-handler.ts, with mcp-sdk-client.ts: an MCP   *)
(* connect waits for DNS and then for the handshake of the client it has   *)
(* built.  During the handshake the session is not in the registry: its    *)
(* claim owns it, so that a disconnect, the renderer's death or a stop can *)
(* close it.  Its events do not ask the registry but the session's own     *)
(* disposed flag.                                                          *)
(*                                                                         *)
(* A session is "opening" during its handshake, "open" once committed,     *)
(* "over" once disposed; its client is closed with it.                     *)
(***************************************************************************)
EXTENDS ConnectionClaims

VARIABLE disowned   \* observation: the calls a disconnect has overtaken

McpInit == ClaimsInit /\ disowned = {}

-------------------------------------------------------------------------------
(* disposeSession                                                          *)
Disposed(cs) ==
    conn' = [c \in Call |-> IF c \in cs /\ conn[c] # "none" THEN "over" ELSE conn[c]]

(* claim.pendingSession                                                    *)
PendingSession(k) == {pending[k]} \ {None}

ConnectRejected(c, k) == Reject(c, k) /\ UNCHANGED disowned

(* mcp:connect                                                             *)
Connect(c, k) ==
    /\ Reserve(c, k, "resolving")
    /\ io' = None
    /\ UNCHANGED <<connections, entryBound, alive, conn, disowned>>

(* The address is refused, or the claim was lost while DNS resolved.       *)
ResolveFailed(c) ==
    /\ pc[c] = "resolving"
    /\ GiveUp(c)
    /\ UNCHANGED disowned

(* The claim takes the new session and its handshake starts.               *)
Handshake(c) ==
    /\ pc[c] = "resolving"
    /\ HoldsClaim(c)
    /\ Becomes(c, "opening")
    /\ Answer(c, "connecting")
    /\ io' = None
    /\ UNCHANGED <<made, keyOf, ownerEntry, pending, connections, boundVars, alive,
                   disowned>>

(* The handshake fails or exceeds its timeout, or it ends well but the     *)
(* session was disposed or closed by the peer meanwhile.                   *)
HandshakeFailed(c) ==
    /\ pc[c] = "connecting"
    /\ Disposed({c})
    /\ Answer(c, "failed")
    /\ Release(c)
    /\ io' = None
    /\ UNCHANGED <<made, keyOf, ownerEntry, connections, boundVars, alive, disowned>>

(* The commit without the look at the disposed flag.                       *)
CommitDead(c) ==
    /\ pc[c] = "connecting"
    /\ CanCommit(c)
    /\ Enter(c)
    /\ Disposed({ownerEntry[c]})
    /\ Answer(c, "ok")
    /\ Release(c)
    /\ Say(c)
    /\ UNCHANGED <<made, keyOf, ownerEntry, claimBound, alive, disowned>>

(* The handshake is over: the session enters the registry, in the place of *)
(* the one the renderer had there, and mcp:open says so.                   *)
Commit(c) ==
    /\ pc[c] = "connecting"
    /\ conn[c] = "opening"
    /\ CanCommit(c)
    /\ Enter(c)
    /\ conn' = [d \in Call |-> IF d = c THEN "open"
                               ELSE IF d = ownerEntry[c] THEN "over" ELSE conn[d]]
    /\ Answer(c, "ok")
    /\ Release(c)
    /\ Say(c)
    /\ UNCHANGED <<made, keyOf, ownerEntry, claimBound, alive, disowned>>

-------------------------------------------------------------------------------
(* onNotification, onError: a session still in its handshake speaks too.   *)
SessionEvent(c) ==
    /\ conn[c] \in {"opening", "open"}
    /\ Say(c)
    /\ UNCHANGED <<made, pc, keyOf, ownerEntry, pending, connections, boundVars, alive,
                   conn, disowned>>

(* onClose of a session that nobody has disposed.                          *)
OnClose(c) ==
    /\ conn[c] \in {"opening", "open"}
    /\ Becomes(c, "over")
    /\ IF IsCurrent(c)
       THEN connections' = Drop(connections, keyOf[c]) /\ Say(c)
       ELSE UNCHANGED connections /\ io' = None
    /\ UNCHANGED <<made, pc, keyOf, ownerEntry, pending, boundVars, alive, disowned>>

(* A disconnect that looks at the registry alone.                          *)
DisconnectEntryOnly(k) ==
    /\ OwnerOf(k) \in alive
    /\ Disposed({connections[k]})
    /\ connections' = Drop(connections, k)
    /\ disowned' = disowned \cup {c \in Call : keyOf[c] = k}
    /\ io' = None
    /\ UNCHANGED <<made, pc, keyOf, ownerEntry, pending, boundVars, alive>>

(* mcp:disconnect: cancelPendingMcpClaimForOwner, then cancelForOwner.     *)
Disconnect(k) ==
    /\ OwnerOf(k) \in alive
    /\ Disposed(PendingSession(k) \cup {connections[k]})
    /\ pending' = Drop(pending, k)
    /\ connections' = Drop(connections, k)
    /\ disowned' = disowned \cup {c \in Call : keyOf[c] = k}
    /\ io' = None
    /\ UNCHANGED <<made, pc, keyOf, ownerEntry, boundVars, alive>>

Destroyed(o) ==
    /\ TornDown(o)
    /\ Disposed(DisposedOnDestroyed(connections, entryBound, o)
                  \cup DisposedOnDestroyed(pending, claimBound, o))
    /\ UNCHANGED disowned

(* stopMcpCleanup                                                          *)
Stop ==
    /\ Disposed(Entries(pending) \cup Entries(connections))
    /\ pending' = EmptyMap
    /\ connections' = EmptyMap
    /\ io' = None
    /\ UNCHANGED <<made, pc, keyOf, ownerEntry, boundVars, alive, disowned>>

-------------------------------------------------------------------------------
Resume(c) == ResolveFailed(c) \/ Handshake(c) \/ HandshakeFailed(c) \/ Commit(c)

McpNext ==
    \/ \E c \in Call : \/ \E k \in Key : ConnectRejected(c, k) \/ Connect(c, k)
                       \/ Resume(c) \/ SessionEvent(c) \/ OnClose(c)
    \/ \E k \in Key : Disconnect(k)
    \/ \E o \in Owner : Destroyed(o)
    \/ Stop

-------------------------------------------------------------------------------
(* An open session is the entry of its id and an opening one belongs to    *)
(* the claim of its id, so that both can be closed; and no entry is a      *)
(* session that is over, of which the renderer would never be sent a close.*)
McpTracked ==
    /\ \A c \in Call : conn[c] = "open" => IsCurrent(c)
    /\ \A c \in Call : conn[c] = "opening" => HoldsClaim(c)
    /\ \A k \in KeysIn(connections) : conn[connections[k]] = "open"

(* No session asked for before a disconnect of its id is alive after it.   *)
DisconnectIsFinal == \A c \in disowned : conn[c] \in {"none", "over"}

(* A session that did not get into the registry is discarded by its call.  *)
McpStatus(c) ==
    IF conn[c] \in {"none", "opening"} \/ pc[c] = "connecting" THEN "new"
    ELSE IF conn[c] = "open" THEN "live" ELSE "done"
===============================================================================
