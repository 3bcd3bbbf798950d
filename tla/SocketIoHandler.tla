--------------------------- MODULE SocketIoHandler ---------------------------
(***************************************************************************)
(* electron/main/handlers/socketio-handler.ts.  A connect waits twice, for *)
(* DNS and for the client library, and asks for its claim after each.  An  *)
(* event sent with an ackId starts a timer; the server's acknowledgement   *)
(* and the timer race, and a disposed connection must answer with neither. *)
(*                                                                         *)
(* A socket is "up" until it is disposed: socket.io-client loses and       *)
(* restores its connection by itself and only its events tell.             *)
(* disposeSocketIo flags the entry before socket.disconnect(), so that the *)
(* disconnect listener this runs at once says nothing.                     *)
(***************************************************************************)
EXTENDS ConnectionClaims

CONSTANT MaxAcks   \* bound: how many acknowledged events are explored

Ack == 1 .. MaxAcks

VARIABLES
    ackOn,       \* the connection each acknowledged event was sent on
    pendingAcks, \* entry.pendingAcks of all connections
    timers,      \* the timers that run
    ackTold      \* observation: how many answers the renderer was sent

ackVars == <<ackOn, pendingAcks, timers, ackTold>>

AckInit ==
    /\ ackOn = [a \in Ack |-> None]
    /\ pendingAcks = {}
    /\ timers = {}
    /\ ackTold = [a \in Ack |-> 0]

SocketIoInit == ClaimsInit /\ AckInit

-------------------------------------------------------------------------------
AcksOf(cs) == {a \in Ack : ackOn[a] \in cs}

Over(cs) == [c \in Call |-> IF c \in cs THEN "over" ELSE conn[c]]

(* disposeSocketIo that leaves the timers running.                         *)
DisposeKeepingTimers(cs) ==
    /\ conn' = Over(cs)
    /\ pendingAcks' = pendingAcks \ AcksOf(cs)
    /\ UNCHANGED <<ackOn, timers, ackTold>>

DisposeSocketIo(cs) ==
    /\ conn' = Over(cs)
    /\ timers' = timers \ (pendingAcks \cap AcksOf(cs))
    /\ pendingAcks' = pendingAcks \ AcksOf(cs)
    /\ UNCHANGED <<ackOn, ackTold>>

-------------------------------------------------------------------------------
(* socketio:connect                                                        *)

ConnectRejected(c, k) == Reject(c, k) /\ UNCHANGED ackVars

Connect(c, k) ==
    /\ Reserve(c, k, "resolving")
    /\ io' = None
    /\ UNCHANGED <<connections, entryBound, alive, conn, ackVars>>

(* The address is refused, or the claim was lost while DNS resolved, or    *)
(* while the library was loaded, or the socket cannot be built.            *)
ConnectFailed(c) ==
    /\ pc[c] \in {"resolving", "loading"}
    /\ GiveUp(c)
    /\ UNCHANGED ackVars

Resolved(c) ==
    /\ pc[c] = "resolving"
    /\ HoldsClaim(c)
    /\ Answer(c, "loading")
    /\ io' = None
    /\ UNCHANGED <<made, keyOf, ownerEntry, pending, connections, boundVars, alive,
                   conn, ackVars>>

(* The commit without the check of the entry it replaces: whatever the id  *)
(* holds is overwritten, and nothing disposed.                             *)
CommitOverwriting(c) ==
    /\ pc[c] = "loading"
    /\ connections' = Put(connections, keyOf[c], c)
    /\ entryBound' = Bind(entryBound, alive, OwnerOf(keyOf[c]))
    /\ Becomes(c, "up")
    /\ Answer(c, "ok")
    /\ Release(c)
    /\ io' = None
    /\ UNCHANGED <<made, keyOf, ownerEntry, claimBound, alive, ackVars>>

(* Socket, listeners and commit in one turn: replaceForOwner disposes the  *)
(* entry that was there, tryAdd adds a first one.                          *)
Commit(c) ==
    /\ pc[c] = "loading"
    /\ CanCommit(c)
    /\ Enter(c)
    /\ conn' = [Over({ownerEntry[c]}) EXCEPT ![c] = "up"]
    /\ timers' = timers \ (pendingAcks \cap AcksOf({ownerEntry[c]} \ {None}))
    /\ pendingAcks' = pendingAcks \ AcksOf({ownerEntry[c]} \ {None})
    /\ UNCHANGED <<ackOn, ackTold>>
    /\ Answer(c, "ok")
    /\ Release(c)
    /\ io' = None
    /\ UNCHANGED <<made, keyOf, ownerEntry, claimBound, alive>>

(* The entry to replace is gone: the new socket is disposed.               *)
CommitRefused(c) ==
    /\ pc[c] = "loading"
    /\ HoldsClaim(c) /\ ~CanCommit(c)
    /\ Becomes(c, "over")
    /\ Answer(c, "failed")
    /\ Release(c)
    /\ io' = None
    /\ UNCHANGED <<made, keyOf, ownerEntry, connections, boundVars, alive, ackVars>>

-------------------------------------------------------------------------------
(* connect, disconnect, connect_error, the manager's reconnect events and  *)
(* the application's events.  A late one of a disposed socket may come.    *)
SocketEvent(c) ==
    /\ conn[c] # "none"
    /\ SayIfCurrent(c)
    /\ UNCHANGED <<made, pc, keyOf, ownerEntry, pending, connections, boundVars, alive,
                   conn, ackVars>>

(* socketio:emit with an ackId, which the renderer never uses twice.       *)
EmitWithAck(k, a) ==
    LET e == connections[k] IN
    /\ OwnerOf(k) \in alive
    /\ e # None
    /\ \A b \in Ack : ackOn[b] = None <=> b >= a
    /\ ackOn' = [ackOn EXCEPT ![a] = e]
    /\ pendingAcks' = pendingAcks \cup {a}
    /\ timers' = timers \cup {a}
    /\ io' = None
    /\ UNCHANGED <<made, pc, keyOf, ownerEntry, pending, connections, boundVars, alive,
                   conn, ackTold>>

Told(a) == ackTold' = [ackTold EXCEPT ![a] = @ + 1]

(* An acknowledgement that does not stop its timer.                        *)
AcknowledgedKeepingTimer(a) ==
    /\ a \in pendingAcks
    /\ pendingAcks' = pendingAcks \ {a}
    /\ Told(a) /\ Say(ackOn[a])
    /\ UNCHANGED <<made, pc, keyOf, ownerEntry, pending, connections, boundVars, alive,
                   conn, ackOn, timers>>

(* The server answers: too late when the timer has fired or the connection *)
(* was disposed.                                                           *)
Acknowledged(a) ==
    /\ a \in pendingAcks
    /\ pendingAcks' = pendingAcks \ {a}
    /\ timers' = timers \ {a}
    /\ Told(a) /\ Say(ackOn[a])
    /\ UNCHANGED <<made, pc, keyOf, ownerEntry, pending, connections, boundVars, alive,
                   conn, ackOn>>

AckTimeout(a) ==
    /\ a \in timers
    /\ timers' = timers \ {a}
    /\ pendingAcks' = pendingAcks \ {a}
    /\ Told(a) /\ Say(ackOn[a])
    /\ UNCHANGED <<made, pc, keyOf, ownerEntry, pending, connections, boundVars, alive,
                   conn, ackOn>>

(* socketio:disconnect: cancelForOwner.                                    *)
Disconnect(k) ==
    /\ OwnerOf(k) \in alive
    /\ connections[k] # None
    /\ DisposeSocketIo({connections[k]})
    /\ connections' = Drop(connections, k)
    /\ io' = None
    /\ UNCHANGED <<made, pc, keyOf, ownerEntry, pending, boundVars, alive>>

Destroyed(o) ==
    /\ TornDown(o)
    /\ DisposeSocketIo(DisposedOnDestroyed(connections, entryBound, o))

(* stopSocketIoCleanup                                                     *)
Stop ==
    /\ pending' = EmptyMap
    /\ DisposeSocketIo(Entries(connections))
    /\ connections' = EmptyMap
    /\ io' = None
    /\ UNCHANGED <<made, pc, keyOf, ownerEntry, boundVars, alive>>

-------------------------------------------------------------------------------
Resume(c) == ConnectFailed(c) \/ Resolved(c) \/ Commit(c) \/ CommitRefused(c)

SocketIoNext ==
    \/ \E c \in Call : \/ \E k \in Key : ConnectRejected(c, k) \/ Connect(c, k)
                       \/ Resume(c) \/ SocketEvent(c)
    \/ \E k \in Key : Disconnect(k) \/ \E a \in Ack : EmitWithAck(k, a)
    \/ \E a \in Ack : Acknowledged(a) \/ AckTimeout(a)
    \/ \E o \in Owner : Destroyed(o)
    \/ Stop

-------------------------------------------------------------------------------
(* A socket that was not disposed is the entry of its id.                  *)
SocketIoTracked == \A c \in Call : conn[c] = "up" => IsCurrent(c)

(* An event is answered once, by its acknowledgement or by its timeout,    *)
(* and what is still waited for belongs to a connection that is not        *)
(* disposed and is sure to be answered: its timer runs.                    *)
AcksSound ==
    /\ \A a \in Ack : ackTold[a] <= 1
    /\ timers = pendingAcks
    /\ \A a \in pendingAcks : conn[ackOn[a]] = "up" /\ ackTold[a] = 0

SocketIoStatus(c) ==
    CASE conn[c] = "none" -> "new"
      [] conn[c] = "up" -> "live"
      [] OTHER -> "done"
===============================================================================
