--------------------------- MODULE ConnectionClaims ---------------------------
(***************************************************************************)
(* What the MQTT, Socket.IO and MCP handlers share: a connect call first   *)
(* takes a claim on the renderer's id, synchronously, and gives it back on *)
(* every way out; a claim records the entry the id had, so that what the   *)
(* call builds after its awaits replaces that entry or nothing.            *)
(* mqtt-handler.ts, socketio-handler.ts and mcp-handler.ts each hold their *)
(* own copy of this code (reserve...Claim, release...Claim), over a        *)
(* StreamRegistry and a Map of claims.                                     *)
(*                                                                         *)
(* A call is one connect request, numbered in order of arrival; the number *)
(* is also the identity of its claim and of the client it builds.  The     *)
(* verdicts of the limiter and the policy are taken as arbitrary.          *)
(***************************************************************************)
EXTENDS StreamRegistry

CONSTANTS MaxCalls,        \* bound: how many connect calls are explored
          MaxConnections   \* MAX_CONCURRENT_..._CONNECTIONS, MAX_CONCURRENT_MCP

Call == 1 .. MaxCalls

ASSUME ClaimsAssumption ==
    /\ MaxCalls \in Nat /\ MaxConnections \in Nat
    /\ IsFiniteSet(Owner) /\ IsFiniteSet(Id)
    /\ None \notin Call \cup Key

VARIABLES
    made,        \* how many calls have been received
    pc,          \* what each call is awaiting, or how it was answered
    keyOf,       \* the owner-scoped key it asked for
    ownerEntry,  \* claim.ownerEntry
    pending,     \* the claims: pendingConnections, pendingSessions
    connections, \* the registry: activeConnections, sessions
    claimBound,  \* renderers whose destruction drops their claims
    entryBound,  \* renderers whose destruction disposes their entries
    alive,       \* renderers that are not destroyed
    conn,        \* the client, socket or session of each call
    io           \* observation: the call whose client spoke in the last step

claimVars == <<made, pc, keyOf, ownerEntry, pending, connections, claimBound,
               entryBound, alive, conn, io>>

boundVars == <<claimBound, entryBound>>

ClaimsInit ==
    /\ made = 0
    /\ pc = [c \in Call |-> "idle"]
    /\ keyOf = [c \in Call |-> None]
    /\ ownerEntry = [c \in Call |-> None]
    /\ pending = EmptyMap
    /\ connections = EmptyMap
    /\ claimBound = {} /\ entryBound = {}
    /\ alive = Owner
    /\ conn = [c \in Call |-> "none"]
    /\ io = None

-------------------------------------------------------------------------------
(* The check that would do if an id were never given to a second client.   *)
HasEntry(c) == connections[keyOf[c]] # None

(* The identity check at the top of the listeners and callbacks.           *)
IsCurrent(c) == connections[keyOf[c]] = c

HoldsClaim(c) == pending[keyOf[c]] = c

(* emitTo: nothing reaches a renderer that is destroyed.                   *)
Say(c) == io' = IF OwnerOf(keyOf[c]) \in alive THEN c ELSE None

SayIfCurrent(c) == IF IsCurrent(c) THEN Say(c) ELSE io' = None

Answer(c, how) == pc' = [pc EXCEPT ![c] = how]

Becomes(c, state) == conn' = [conn EXCEPT ![c] = state]

(* The call of a live renderer arrives and has asked for key k.            *)
Arrive(c, k) ==
    /\ c = made + 1
    /\ OwnerOf(k) \in alive
    /\ made' = c
    /\ keyOf' = [keyOf EXCEPT ![c] = k]

(* The policy, the limiter, the cap or a claim on the id refuses the call. *)
Reject(c, k) ==
    /\ Arrive(c, k)
    /\ Answer(c, "failed")
    /\ io' = None
    /\ UNCHANGED <<ownerEntry, pending, connections, boundVars, alive, conn>>

(* The cap that forgets the connects in flight.                            *)
HasRoomForOpen == Size(connections) < MaxConnections

HasRoom == Size(connections) + Size(pending) < MaxConnections

CanReserve(k) == HasRoom /\ pending[k] = None

(* reserve...Claim, and the call goes to its first await.                  *)
Reserve(c, k, await) ==
    /\ Arrive(c, k)
    /\ CanReserve(k)
    /\ ownerEntry' = [ownerEntry EXCEPT ![c] = connections[k]]
    /\ pending' = Put(pending, k, c)
    /\ claimBound' = Bind(claimBound, alive, OwnerOf(k))
    /\ Answer(c, await)

(* release...Claim, in the finally.                                        *)
Release(c) ==
    pending' = IF HoldsClaim(c) THEN Drop(pending, keyOf[c]) ELSE pending

(* A call that ends without having built anything.                         *)
GiveUp(c) ==
    /\ Answer(c, "failed")
    /\ Release(c)
    /\ io' = None
    /\ UNCHANGED <<made, keyOf, ownerEntry, connections, boundVars, alive, conn>>

(* The commit of Socket.IO and MCP: the entry found at the claim is still  *)
(* there and is replaced, or there is none and none came.                  *)
CanCommit(c) == HoldsClaim(c) /\ connections[keyOf[c]] = ownerEntry[c]

Enter(c) ==
    /\ connections' = Put(connections, keyOf[c], c)
    /\ entryBound' = IF ownerEntry[c] = None
                     THEN Bind(entryBound, alive, OwnerOf(keyOf[c])) ELSE entryBound

(* Only the entries have a listener of their renderer's destruction.       *)
TornDownKeepingClaims(o) ==
    /\ o \in alive
    /\ alive' = alive \ {o}
    /\ connections' = AfterDestroyed(connections, entryBound, o)
    /\ entryBound' = entryBound \ {o}
    /\ io' = None
    /\ UNCHANGED <<made, pc, keyOf, ownerEntry, pending, claimBound>>

(* The two listeners of a renderer's destruction run in the same turn.     *)
TornDown(o) ==
    /\ o \in alive
    /\ alive' = alive \ {o}
    /\ pending' = AfterDestroyed(pending, claimBound, o)
    /\ connections' = AfterDestroyed(connections, entryBound, o)
    /\ claimBound' = claimBound \ {o}
    /\ entryBound' = entryBound \ {o}
    /\ io' = None
    /\ UNCHANGED <<made, pc, keyOf, ownerEntry>>

-------------------------------------------------------------------------------
(* Claims and entries agree with the calls behind them.                    *)
ClaimsSound ==
    /\ \A k \in KeysIn(pending) :
          keyOf[pending[k]] = k /\ pc[pending[k]] \notin {"idle", "ok", "failed"}
    /\ \A k \in KeysIn(connections) : keyOf[connections[k]] = k

(* Connections and claims together stay within the cap, although it is     *)
(* checked before the awaits and the entry is made after them.             *)
WithinCap == Size(connections) + Size(pending) <= MaxConnections

(* A destroyed renderer owns no entry and no claim, whatever its calls     *)
(* were waiting for when it died.                                          *)
DeadOwnNothing ==
    \A k \in Key : OwnerOf(k) \notin alive => connections[k] = None /\ pending[k] = None
===============================================================================
