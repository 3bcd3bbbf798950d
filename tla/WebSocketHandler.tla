--------------------------- MODULE WebSocketHandler ---------------------------
(***************************************************************************)
(* electron/main/handlers/websocket-handler.ts: the WebSocket connections  *)
(* the renderers ask the main process to hold for them.                    *)
(*                                                                         *)
(* A call is one invocation of ws:connect.  Calls are numbered in the      *)
(* order the main process receives them, and the number is also the        *)
(* identity of what the call creates: its claim (the token symbol), its    *)
(* `ws` socket and its registry entry.  The handler is single threaded and *)
(* gives up control at one await, the DNS resolution; every other handler  *)
(* and every event of a socket may run while it waits.                     *)
(*                                                                         *)
(* The limiter wsRateLimiter is not part of the state: its verdict is      *)
(* taken as arbitrary (Reject), which includes every schedule it allows.   *)
(***************************************************************************)
EXTENDS StreamRegistry

CONSTANTS MaxCalls,        \* bound: how many ws:connect calls are explored
          MaxConnections   \* MAX_CONCURRENT_WS_CONNECTIONS

Call == 1 .. MaxCalls

ASSUME BoundsAssumption == MaxCalls \in Nat /\ MaxConnections \in Nat

ASSUME FiniteAssumption == IsFiniteSet(Owner) /\ IsFiniteSet(Id)

(* What a step may emit: an event to the renderer, a frame to the server.  *)
Emission == [from : Call, what : {"open", "message", "error", "close", "frame"}]

ASSUME NoneAssumption == None \notin Call \cup Key \cup Emission

VARIABLES
    made,        \* how many calls have been received
    pc,          \* where each call is: before it, at the await, replied
    keyOf,       \* the owner-scoped key the call asked for
    ownerEntry,  \* claim.ownerEntry: the entry the key had when claimed
    pending,     \* pendingConnections: which call holds the claim of a key
    connections, \* the StreamRegistry
    claimBound,  \* renderers whose destruction clears their claims
    entryBound,  \* renderers whose destruction disposes their entries
    alive,       \* renderers whose webContents is not destroyed
    sock,        \* the state of each call's socket
    explicit,    \* the closure variable explicitlyClosed of each socket
    told,        \* the last of open / close the renderer was sent for it
    io           \* observation: the event or frame the last step emitted

vars == <<made, pc, keyOf, ownerEntry, pending, connections, claimBound,
          entryBound, alive, sock, explicit, told, io>>

(* "closing" waits for the closing handshake, "terminated" was destroyed by *)
(* terminate(), "aborted" never finished its opening handshake; the close  *)
(* event is due in all three.                                              *)
SockState == {"none", "connecting", "open", "closing", "terminated", "aborted",
              "closed"}

TypeOK ==
    /\ made \in 0 .. MaxCalls
    /\ pc \in [Call -> {"idle", "resolving", "ok", "failed"}]
    /\ keyOf \in [Call -> Key \cup {None}]
    /\ ownerEntry \in [Call -> Call \cup {None}]
    /\ pending \in [Key -> Call \cup {None}]
    /\ connections \in [Key -> Call \cup {None}]
    /\ claimBound \in SUBSET Owner
    /\ entryBound \in SUBSET Owner
    /\ alive \in SUBSET Owner
    /\ sock \in [Call -> SockState]
    /\ explicit \in [Call -> BOOLEAN]
    /\ told \in [Call -> {"nothing", "open", "close"}]
    /\ io \in Emission \cup {None}
    /\ \A c \in Call :
          /\ pc[c] = "idle" <=> c > made
          /\ pc[c] = "idle" <=> keyOf[c] = None
          /\ sock[c] # "none" => pc[c] \in {"ok", "failed"}

Init ==
    /\ made = 0
    /\ pc = [c \in Call |-> "idle"]
    /\ keyOf = [c \in Call |-> None]
    /\ ownerEntry = [c \in Call |-> None]
    /\ pending = EmptyMap
    /\ connections = EmptyMap
    /\ claimBound = {}
    /\ entryBound = {}
    /\ alive = Owner
    /\ sock = [c \in Call |-> "none"]
    /\ explicit = [c \in Call |-> FALSE]
    /\ told = [c \in Call |-> "nothing"]
    /\ io = None

-------------------------------------------------------------------------------
(* Sockets.  A socket that is neither terminated nor closed is running: it *)
(* holds a file descriptor and may still produce events.                   *)

Running(c) == sock[c] \in {"connecting", "open", "closing"}

(* ws.terminate() and ws.close(): neither lets an opening handshake finish *)
AfterTerminate(c) ==
    CASE sock[c] = "connecting" -> "aborted"
      [] sock[c] \in {"open", "closing"} -> "terminated"
      [] OTHER -> sock[c]

AfterClose(c) ==
    CASE sock[c] = "connecting" -> "aborted"
      [] sock[c] = "open" -> "closing"
      [] OTHER -> sock[c]

(* disposeWebSocket on a set of entries: flag them, then terminate them.   *)
Terminated(cs) == [c \in Call |-> IF c \in cs THEN AfterTerminate(c) ELSE sock[c]]

Flagged(cs) == [c \in Call |-> explicit[c] \/ c \in cs]

Dispose(cs) == sock' = Terminated(cs) /\ explicit' = Flagged(cs)

(* The check that would do without same-id reconnects.                     *)
HasEntry(c) == connections[keyOf[c]] # None

(* The identity check at the top of every socket listener.                 *)
IsCurrent(c) == connections[keyOf[c]] = c

(* emit: an event of the current entry reaches its renderer while it lives *)
Emit(c, what) ==
    io' = IF IsCurrent(c) /\ OwnerOf(keyOf[c]) \in alive
            THEN [from |-> c, what |-> what] ELSE None

-------------------------------------------------------------------------------
(* ws:connect                                                              *)

(* The call of a live renderer arrives and has asked for key k.            *)
Arrive(c, k) ==
    /\ c = made + 1
    /\ OwnerOf(k) \in alive
    /\ made' = c
    /\ keyOf' = [keyOf EXCEPT ![c] = k]

(* The execution policy, the rate limiter, the cap or the existing claim   *)
(* turn the call away before it has touched anything.                      *)
Reject(c, k) ==
    /\ Arrive(c, k)
    /\ pc' = [pc EXCEPT ![c] = "failed"]
    /\ io' = None
    /\ UNCHANGED <<ownerEntry, pending, connections, claimBound, entryBound,
                   alive, sock, explicit, told>>

(* The cap without the calls that are still resolving.                     *)
HasRoomForOpen == Size(connections) < MaxConnections

HasRoom == Size(connections) + Size(pending) < MaxConnections

(* reserveWebSocketClaim: take the key synchronously and wait for DNS.     *)
Reserve(c, k) ==
    /\ Arrive(c, k)
    /\ HasRoom
    /\ pending[k] = None
    /\ ownerEntry' = [ownerEntry EXCEPT ![c] = connections[k]]
    /\ pending' = TeardownIfDead(Put(pending, k, c), alive, OwnerOf(k))
    /\ claimBound' = Bind(claimBound, alive, OwnerOf(k))
    /\ pc' = [pc EXCEPT ![c] = "resolving"]
    /\ io' = None
    /\ UNCHANGED <<connections, entryBound, alive, sock, explicit, told>>

(* The claim check without its token.                                      *)
KeyClaimed(c) == pending[keyOf[c]] # None

HoldsClaim(c) == pending[keyOf[c]] = c

(* releaseWebSocketClaim, in the finally of every path past Reserve.       *)
Release(c) ==
    pending' = IF HoldsClaim(c) THEN Drop(pending, keyOf[c]) ELSE pending

Reply(c, answer) == pc' = [pc EXCEPT ![c] = answer]

(* The await is over but nothing was built: the address was refused, the   *)
(* claim is stale, or the WebSocket constructor threw.                     *)
GiveUp(c) ==
    /\ pc[c] = "resolving"
    /\ Reply(c, "failed")
    /\ Release(c)
    /\ io' = None
    /\ UNCHANGED <<made, keyOf, ownerEntry, connections, claimBound, entryBound,
                   alive, sock, explicit, told>>

(* The entry found at the claim is replaced only if it is still there.     *)
CanReplace(c) ==
    ownerEntry[c] # None /\ connections[keyOf[c]] = ownerEntry[c]

(* tryAdd refuses a key that is taken.                                     *)
CanAdd(c) == ownerEntry[c] = None /\ connections[keyOf[c]] = None

(* map.set without disposing the entry it overwrites.                      *)
CommitOverwriting(c) ==
    /\ CanReplace(c)
    /\ connections' = Put(connections, keyOf[c], c)
    /\ sock' = [sock EXCEPT ![c] = "connecting"]
    /\ Reply(c, "ok")
    /\ UNCHANGED <<entryBound, explicit>>

(* replaceForOwner: dispose the old entry, put the new one in its place.   *)
CommitReplacing(c) ==
    /\ CanReplace(c)
    /\ connections' = Put(connections, keyOf[c], c)
    /\ sock' = [Terminated({ownerEntry[c]}) EXCEPT ![c] = "connecting"]
    /\ explicit' = Flagged({ownerEntry[c]})
    /\ Reply(c, "ok")
    /\ UNCHANGED entryBound

(* tryAdd: a first entry for the key, and the renderer's listener.         *)
CommitAdding(c) ==
    LET o == OwnerOf(keyOf[c]) IN
    /\ CanAdd(c)
    /\ connections' = TeardownIfDead(Put(connections, keyOf[c], c), alive, o)
    /\ entryBound' = Bind(entryBound, alive, o)
    /\ sock' = [sock EXCEPT ![c] = IF o \in alive THEN "connecting" ELSE "aborted"]
    /\ explicit' = [explicit EXCEPT ![c] = o \notin alive]
    /\ Reply(c, "ok")

(* The key changed hands during the await: the new socket is disposed.     *)
CommitRefused(c) ==
    /\ ~CanReplace(c) /\ ~CanAdd(c)
    /\ sock' = [sock EXCEPT ![c] = "aborted"]
    /\ explicit' = Flagged({c})
    /\ Reply(c, "failed")
    /\ UNCHANGED <<connections, entryBound>>

(* The await is over and the claim is held: socket, listeners and commit   *)
(* in one go, then the claim is released.                                  *)
Commit(c) ==
    /\ pc[c] = "resolving"
    /\ HoldsClaim(c)
    /\ CommitReplacing(c) \/ CommitAdding(c) \/ CommitRefused(c)
    /\ Release(c)
    /\ io' = None
    /\ UNCHANGED <<made, keyOf, ownerEntry, claimBound, alive, told>>

-------------------------------------------------------------------------------
(* The listeners of a socket.                                              *)

Opened(c) ==
    /\ sock[c] = "connecting"
    /\ sock' = [sock EXCEPT ![c] = "open"]
    /\ Emit(c, "open")
    /\ told' = [told EXCEPT ![c] = IF io' = None THEN @ ELSE "open"]
    /\ UNCHANGED <<made, pc, keyOf, ownerEntry, pending, connections, claimBound,
                   entryBound, alive, explicit>>

(* A frame the receiver had already buffered may come after close() or     *)
(* even after terminate().                                                 *)
MessageReceived(c) ==
    /\ sock[c] \in {"open", "closing", "terminated"}
    /\ Emit(c, "message")
    /\ UNCHANGED <<made, pc, keyOf, ownerEntry, pending, connections, claimBound,
                   entryBound, alive, sock, explicit, told>>

(* A handshake that fails or a socket error; the close event follows.      *)
Errored(c) ==
    /\ Running(c) \/ sock[c] \in {"terminated", "aborted"}
    /\ sock' = [sock EXCEPT ![c] = AfterClose(c)]
    /\ Emit(c, "error")
    /\ UNCHANGED <<made, pc, keyOf, ownerEntry, pending, connections, claimBound,
                   entryBound, alive, explicit, told>>

(* The peer starts the closing handshake: no listener of this module.      *)
PeerCloses(c) ==
    /\ sock[c] = "open"
    /\ sock' = [sock EXCEPT ![c] = "closing"]
    /\ io' = None
    /\ UNCHANGED <<made, pc, keyOf, ownerEntry, pending, connections, claimBound,
                   entryBound, alive, explicit, told>>

Ending(c) == sock[c] \in {"closing", "terminated", "aborted"}

(* The foot-gun emitAndRemove exists for: emit after the entry is gone.    *)
ClosedRemovingFirst(c) ==
    /\ Ending(c)
    /\ sock' = [sock EXCEPT ![c] = "closed"]
    /\ connections' = IF IsCurrent(c) THEN Drop(connections, keyOf[c]) ELSE connections
    /\ io' = None
    /\ UNCHANGED <<made, pc, keyOf, ownerEntry, pending, claimBound, entryBound,
                   alive, explicit, told>>

(* The close event: the current entry leaves the registry; the renderer    *)
(* hears of it unless it was closed on purpose.                            *)
Closed(c) ==
    /\ Ending(c)
    /\ sock' = [sock EXCEPT ![c] = "closed"]
    /\ connections' = IF IsCurrent(c) THEN Drop(connections, keyOf[c]) ELSE connections
    /\ IF explicit[c] THEN io' = None ELSE Emit(c, "close")
    /\ told' = [told EXCEPT ![c] = IF io' = None THEN @ ELSE "close"]
    /\ UNCHANGED <<made, pc, keyOf, ownerEntry, pending, claimBound, entryBound,
                   alive, explicit>>

-------------------------------------------------------------------------------
(* ws:send and ws:disconnect                                               *)

Send(k) ==
    LET c == connections[k] IN
    /\ OwnerOf(k) \in alive
    /\ c # None
    /\ sock[c] = "open"
    /\ io' = [from |-> c, what |-> "frame"]
    /\ UNCHANGED <<made, pc, keyOf, ownerEntry, pending, connections, claimBound,
                   entryBound, alive, sock, explicit, told>>

(* A disconnect that forgets the entry before its close event.             *)
DisconnectForgetting(k) ==
    LET c == connections[k] IN
    /\ OwnerOf(k) \in alive
    /\ c # None
    /\ explicit' = Flagged({c})
    /\ sock' = [sock EXCEPT ![c] = AfterClose(c)]
    /\ connections' = Drop(connections, k)
    /\ io' = None
    /\ UNCHANGED <<made, pc, keyOf, ownerEntry, pending, claimBound, entryBound,
                   alive, told>>

(* A graceful close: the entry stays until the close event removes it.     *)
Disconnect(k) ==
    LET c == connections[k] IN
    /\ OwnerOf(k) \in alive
    /\ c # None
    /\ explicit' = Flagged({c})
    /\ sock' = [sock EXCEPT ![c] = AfterClose(c)]
    /\ io' = None
    /\ UNCHANGED <<made, pc, keyOf, ownerEntry, pending, connections, claimBound,
                   entryBound, alive, told>>

-------------------------------------------------------------------------------
(* Teardown                                                                *)

(* The teardown before claims were bound to the renderer too.              *)
DestroyedKeepingClaims(o) ==
    /\ o \in alive
    /\ alive' = alive \ {o}
    /\ Dispose(DisposedOnDestroyed(connections, entryBound, o))
    /\ connections' = AfterDestroyed(connections, entryBound, o)
    /\ entryBound' = entryBound \ {o}
    /\ io' = None
    /\ UNCHANGED <<made, pc, keyOf, ownerEntry, pending, claimBound, told>>

(* The webContents is destroyed: the two listeners run in the same turn.   *)
Destroyed(o) ==
    /\ o \in alive
    /\ alive' = alive \ {o}
    /\ pending' = AfterDestroyed(pending, claimBound, o)
    /\ Dispose(DisposedOnDestroyed(connections, entryBound, o))
    /\ connections' = AfterDestroyed(connections, entryBound, o)
    /\ claimBound' = claimBound \ {o}
    /\ entryBound' = entryBound \ {o}
    /\ io' = None
    /\ UNCHANGED <<made, pc, keyOf, ownerEntry, told>>

(* stopWebSocketCleanup, run when the application quits.                   *)
Stop ==
    /\ pending' = EmptyMap
    /\ Dispose(Entries(connections))
    /\ connections' = EmptyMap
    /\ io' = None
    /\ UNCHANGED <<made, pc, keyOf, ownerEntry, claimBound, entryBound, alive, told>>

-------------------------------------------------------------------------------
Connect(c) == \E k \in Key : Reject(c, k) \/ Reserve(c, k)

Resume(c) == GiveUp(c) \/ Commit(c)

SocketEvent(c) ==
    Opened(c) \/ MessageReceived(c) \/ Errored(c) \/ PeerCloses(c) \/ Closed(c)

Request(k) == Send(k) \/ Disconnect(k)

Next ==
    \/ \E c \in Call : Connect(c) \/ Resume(c) \/ SocketEvent(c)
    \/ \E k \in Key : Request(k)
    \/ \E o \in Owner : Destroyed(o)
    \/ Stop

Spec == Init /\ [][Next]_vars

-------------------------------------------------------------------------------
(* Safety                                                                  *)

(* A socket that still runs is the current entry of its key, so the        *)
(* renderer can reach it with ws:disconnect, and disposeAll and the        *)
(* renderer's destruction can see it, through every interleaving of        *)
(* connects, reconnects, disconnects and teardowns.                        *)
Tracked == \A c \in Call : Running(c) => IsCurrent(c)

(* No entry outlives its socket: a slot of the cap is never held by one    *)
(* that was terminated or has closed.                                      *)
NoStaleEntry ==
    \A k \in KeysIn(connections) :
        /\ keyOf[connections[k]] = k
        /\ sock[connections[k]] \in {"connecting", "open", "closing", "aborted"}

(* Open connections and claims together stay within the cap, although the  *)
(* check and the commit are on opposite sides of the await.                *)
WithinCap == Size(connections) + Size(pending) <= MaxConnections

(* A destroyed renderer owns no entry and no claim, whatever its calls     *)
(* were waiting for when it died.                                          *)
DeadOwnNothing ==
    \A k \in Key : OwnerOf(k) \notin alive => connections[k] = None /\ pending[k] = None

(* What the renderer hears on a connection id comes from the connection it *)
(* was last told it has, never from one that was superseded; a message     *)
(* follows that connection's open; nothing is written after a disconnect.  *)
ChannelDiscipline ==
    io # None =>
        /\ \A d \in Call : d > io.from /\ keyOf[d] = keyOf[io.from] => pc[d] # "ok"
        /\ io.what = "message" => told[io.from] = "open"
        /\ io.what = "frame" => ~explicit[io.from]

(* A connection the renderer was given ends for it in exactly one way: it  *)
(* asked for the end (disconnect, reconnect) or it is sent a close event.  *)
NoSilentEnd ==
    \A c \in Call :
        pc[c] = "ok" /\ sock[c] = "closed" /\ OwnerOf(keyOf[c]) \in alive
            => (told[c] = "close") = ~explicit[c]

(* A call that was overtaken, its claim cleared by a teardown and its key  *)
(* given to a later call, never succeeds after that later call has.        *)
NoStaleCommit ==
    [][\A c, d \in Call :
          /\ pc[c] = "resolving" /\ pc'[c] = "ok"
          /\ d > c /\ keyOf[d] = keyOf[c]
          => pc[d] # "ok"]_vars

-------------------------------------------------------------------------------
(* The inductive invariant behind the safety properties.                   *)

(* The claim of a key belongs to a call for that key that is still at the  *)
(* await, its renderer's teardown is bound, and every later call for the   *)
(* key has been turned away.                                               *)
ClaimsSound ==
    \A k \in Key : pending[k] # None =>
        /\ keyOf[pending[k]] = k
        /\ pc[pending[k]] = "resolving"
        /\ OwnerOf(k) \in claimBound
        /\ \A d \in Call : d > pending[k] /\ keyOf[d] = k => pc[d] = "failed"

(* An entry is a committed call for its key, not yet closed, the latest    *)
(* one to have succeeded, and its renderer's teardown is bound.            *)
EntriesSound ==
    \A k \in Key : connections[k] # None =>
        /\ keyOf[connections[k]] = k
        /\ pc[connections[k]] = "ok"
        /\ sock[connections[k]] \in {"connecting", "open", "closing", "aborted"}
        /\ OwnerOf(k) \in entryBound
        /\ \A d \in Call : d > connections[k] /\ keyOf[d] = k => pc[d] # "ok"

BoundAreAlive == claimBound \subseteq alive /\ entryBound \subseteq alive

(* A socket leaves its key only once it was flagged or has closed, and     *)
(* what its renderer was told follows its state.                           *)
SocketsSound ==
    \A c \in Call :
        /\ ~explicit[c] /\ sock[c] \notin {"none", "closed"} => IsCurrent(c)
        /\ explicit[c] => sock[c] \notin {"none", "connecting", "open"}
        /\ told[c] = "close" => sock[c] = "closed"
        /\ sock[c] \in {"open", "closing"} /\ OwnerOf(keyOf[c]) \in alive
              => told[c] = "open"

IInv ==
    /\ TypeOK
    /\ ClaimsSound
    /\ EntriesSound
    /\ BoundAreAlive
    /\ SocketsSound
    /\ Tracked
    /\ NoSilentEnd
    /\ ChannelDiscipline

================================================================================
