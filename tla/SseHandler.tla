------------------------------- MODULE SseHandler -------------------------------
(***************************************************************************)
(* electron/main/handlers/sse-handler.ts: the server-sent event streams    *)
(* the main process holds for the renderers.                               *)
(*                                                                         *)
(* A call is one invocation of sse:connect, numbered in order of arrival;  *)
(* the number also names its claim, its registry entry and its HTTP        *)
(* exchange.  Control is given up three times: at the DNS resolution, at   *)
(* the wait for the response headers, and in readStream at every           *)
(* reader.read() and at the final reader.cancel().  Unlike the WebSocket   *)
(* handler, the entry is registered before the second wait and the claim   *)
(* is kept until that wait is over.                                        *)
(***************************************************************************)
EXTENDS StreamRegistry

CONSTANTS MaxCalls,        \* bound: how many sse:connect calls are explored
          MaxConnections   \* MAX_CONCURRENT_SSE_CONNECTIONS

Call == 1 .. MaxCalls

ASSUME SseBoundsAssumption == MaxCalls \in Nat /\ MaxConnections \in Nat

ASSUME SseFiniteAssumption == IsFiniteSet(Owner) /\ IsFiniteSet(Id)

(* What a step may send the renderer; a close is preceded by an error      *)
(* event of the same turn where the connect failed.                        *)
Emission == [from : Call, what : {"open", "event", "error", "close"}]

ASSUME SseNoneAssumption == None \notin Call \cup Key \cup Emission

VARIABLES
    made,        \* how many calls have been received
    pc,          \* where each call is: before, at the first or second await, replied
    keyOf,       \* the owner-scoped key the call asked for
    ownerEntry,  \* claim.ownerEntry
    pending,     \* pendingConnections
    connections, \* the StreamRegistry
    claimBound,  \* renderers whose destruction clears their claims
    entryBound,  \* renderers whose destruction disposes their entries
    alive,       \* renderers whose webContents is not destroyed
    stream,      \* the HTTP exchange of each call and its reader
    explicit,    \* entry.explicitlyClosed
    told,        \* the last of open / close the renderer was sent for it
    io           \* observation: the event the last step emitted

vars == <<made, pc, keyOf, ownerEntry, pending, connections, claimBound,
          entryBound, alive, stream, explicit, told, io>>

(* "requested" waits for headers, "reading" is in the read loop,           *)
(* "cancelling" left it and awaits reader.cancel(), "unread" has a body    *)
(* that nobody reads or cancels, "ended" holds no connection any more.     *)
StreamState == {"none", "requested", "reading", "cancelling", "unread", "ended"}

TypeOK ==
    /\ made \in 0 .. MaxCalls
    /\ pc \in [Call -> {"idle", "resolving", "connecting", "ok", "failed"}]
    /\ keyOf \in [Call -> Key \cup {None}]
    /\ ownerEntry \in [Call -> Call \cup {None}]
    /\ pending \in [Key -> Call \cup {None}]
    /\ connections \in [Key -> Call \cup {None}]
    /\ claimBound \subseteq alive
    /\ entryBound \subseteq alive
    /\ alive \subseteq Owner
    /\ stream \in [Call -> StreamState]
    /\ explicit \in [Call -> BOOLEAN]
    /\ told \in [Call -> {"nothing", "open", "close"}]
    /\ io \in Emission \cup {None}

Init ==
    /\ made = 0
    /\ pc = [c \in Call |-> "idle"]
    /\ keyOf = [c \in Call |-> None]
    /\ ownerEntry = [c \in Call |-> None]
    /\ pending = EmptyMap
    /\ connections = EmptyMap
    /\ claimBound = {}
    /\ entryBound = {}
    /\ alive = Owner
    /\ stream = [c \in Call |-> "none"]
    /\ explicit = [c \in Call |-> FALSE]
    /\ told = [c \in Call |-> "nothing"]
    /\ io = None

-------------------------------------------------------------------------------
IsCurrent(c) == connections[keyOf[c]] = c

(* emit resolves the renderer through the entry found under the id, which  *)
(* is the caller's own only where the caller has checked that it is.       *)
Emit(c, what) ==
    io' = IF connections[keyOf[c]] # None /\ OwnerOf(keyOf[c]) \in alive
            THEN [from |-> c, what |-> what] ELSE None

Hear(c, what) == told' = [told EXCEPT ![c] = IF io' = None THEN @ ELSE what]

(* dispose flags the entry and aborts a controller whose signal no fetch   *)
(* has been given: the exchange itself is left alone.                      *)
Flagged(cs) == [c \in Call |-> explicit[c] \/ c \in cs]

Reply(c, answer) == pc' = [pc EXCEPT ![c] = answer]

HoldsClaim(c) == pending[keyOf[c]] = c

(* releaseSseClaim, in the finally of every path past Reserve.             *)
Release(c) ==
    pending' = IF HoldsClaim(c) THEN Drop(pending, keyOf[c]) ELSE pending

-------------------------------------------------------------------------------
(* sse:connect, up to the DNS resolution                                   *)

Arrive(c, k) ==
    /\ c = made + 1
    /\ OwnerOf(k) \in alive
    /\ made' = c
    /\ keyOf' = [keyOf EXCEPT ![c] = k]

(* Policy, rate limiter, cap or an existing claim turn the call away.      *)
Reject(c, k) ==
    /\ Arrive(c, k)
    /\ Reply(c, "failed")
    /\ io' = None
    /\ UNCHANGED <<ownerEntry, pending, connections, claimBound, entryBound,
                   alive, stream, explicit, told>>

(* The cap without the calls that hold a claim only.                       *)
HasRoomForOpen == Size(connections) < MaxConnections

HasRoom == Size(connections) + Size(pending) < MaxConnections

Reserve(c, k) ==
    /\ Arrive(c, k)
    /\ HasRoom
    /\ pending[k] = None
    /\ ownerEntry' = [ownerEntry EXCEPT ![c] = connections[k]]
    /\ pending' = TeardownIfDead(Put(pending, k, c), alive, OwnerOf(k))
    /\ claimBound' = Bind(claimBound, alive, OwnerOf(k))
    /\ Reply(c, "resolving")
    /\ io' = None
    /\ UNCHANGED <<connections, entryBound, alive, stream, explicit, told>>

-------------------------------------------------------------------------------
(* After the DNS resolution                                                *)

(* The address was refused or the claim is stale.                          *)
GiveUp(c) ==
    /\ pc[c] = "resolving"
    /\ Reply(c, "failed")
    /\ Release(c)
    /\ io' = None
    /\ UNCHANGED <<made, keyOf, ownerEntry, connections, claimBound, entryBound,
                   alive, stream, explicit, told>>

CanReplace(c) ==
    ownerEntry[c] # None /\ connections[keyOf[c]] = ownerEntry[c]

CanAdd(c) == ownerEntry[c] = None /\ connections[keyOf[c]] = None

(* replaceForOwner or tryAdd, then the request goes out.  The claim is     *)
(* still held while the headers are awaited.                               *)
CommitClaimed(c) ==
    LET o == OwnerOf(keyOf[c]) IN
    /\ CanReplace(c) \/ CanAdd(c)
    /\ connections' = TeardownIfDead(Put(connections, keyOf[c], c), alive, o)
    /\ entryBound' = IF CanAdd(c) THEN Bind(entryBound, alive, o) ELSE entryBound
    /\ explicit' = Flagged({ownerEntry[c]})
    /\ stream' = [stream EXCEPT ![c] = "requested"]
    /\ Reply(c, "connecting")
    /\ UNCHANGED pending

(* The key changed hands during the await: nothing was requested yet.      *)
CommitRefused(c) ==
    /\ ~CanReplace(c) /\ ~CanAdd(c)
    /\ explicit' = Flagged({c})
    /\ Reply(c, "failed")
    /\ Release(c)
    /\ UNCHANGED <<connections, entryBound, stream>>

Commit(c) ==
    /\ pc[c] = "resolving"
    /\ HoldsClaim(c)
    /\ CommitClaimed(c) \/ CommitRefused(c)
    /\ io' = None
    /\ UNCHANGED <<made, keyOf, ownerEntry, claimBound, alive, told>>

-------------------------------------------------------------------------------
(* After the headers                                                       *)

(* Error, then close, while the entry is there; nothing if it is not.      *)
EmitAndRemoveIfCurrent(c) ==
    /\ IF IsCurrent(c) THEN Emit(c, "close") ELSE io' = None
    /\ connections' = IF IsCurrent(c) THEN Drop(connections, keyOf[c]) ELSE connections
    /\ Hear(c, "close")

(* The request failed or timed out, or was answered with a bad status      *)
(* whose body stays unread: executeHttpProxyStreaming leaves the stream    *)
(* to its caller.                                                          *)
RequestFails(c) ==
    /\ pc[c] = "connecting"
    /\ EmitAndRemoveIfCurrent(c)
    /\ stream' \in {[stream EXCEPT ![c] = "ended"], [stream EXCEPT ![c] = "unread"]}
    /\ Reply(c, "failed")
    /\ Release(c)
    /\ UNCHANGED <<made, keyOf, ownerEntry, claimBound, entryBound, alive, explicit>>

(* The catch: the entry goes without an event; the reply tells the error.  *)
RequestThrows(c) ==
    /\ pc[c] = "connecting"
    /\ connections' = IF IsCurrent(c) THEN Drop(connections, keyOf[c]) ELSE connections
    /\ stream' = [stream EXCEPT ![c] = "ended"]
    /\ Reply(c, "failed")
    /\ Release(c)
    /\ io' = None
    /\ UNCHANGED <<made, keyOf, ownerEntry, claimBound, entryBound, alive, explicit, told>>

(* Headers of a good response, but the entry has gone meanwhile.           *)
AnsweredTooLate(c) ==
    /\ pc[c] = "connecting"
    /\ ~IsCurrent(c)
    /\ stream' = [stream EXCEPT ![c] = "unread"]
    /\ Reply(c, "failed")
    /\ Release(c)
    /\ io' = None
    /\ UNCHANGED <<made, keyOf, ownerEntry, connections, claimBound, entryBound, alive,
                   explicit, told>>

(* The answer without the check that the entry is still the caller's.      *)
AnsweredUnchecked(c) ==
    /\ pc[c] = "connecting"
    /\ Emit(c, "open")
    /\ Hear(c, "open")
    /\ stream' = [stream EXCEPT ![c] = "reading"]
    /\ Reply(c, "ok")
    /\ Release(c)
    /\ UNCHANGED <<made, keyOf, ownerEntry, connections, claimBound, entryBound, alive,
                   explicit>>

(* The stream is open: tell the renderer and start the read loop.          *)
Answered(c) ==
    /\ pc[c] = "connecting"
    /\ IsCurrent(c)
    /\ AnsweredUnchecked(c)

Answer(c) == RequestFails(c) \/ RequestThrows(c) \/ AnsweredTooLate(c) \/ Answered(c)

-------------------------------------------------------------------------------
(* readStream                                                              *)

(* A forward that trusts emit to find the right entry.                     *)
EventReadUnchecked(c) ==
    /\ stream[c] = "reading"
    /\ Emit(c, "event")
    /\ UNCHANGED <<made, pc, keyOf, ownerEntry, pending, connections, claimBound,
                   entryBound, alive, stream, explicit, told>>

(* An event of the stream: forwarded while the entry is current.           *)
EventRead(c) ==
    /\ stream[c] = "reading"
    /\ IF IsCurrent(c) THEN Emit(c, "event") ELSE io' = None
    /\ UNCHANGED <<made, pc, keyOf, ownerEntry, pending, connections, claimBound,
                   entryBound, alive, stream, explicit, told>>

(* The server ends the stream: done.                                       *)
StreamEnds(c) ==
    /\ stream[c] = "reading"
    /\ stream' = [stream EXCEPT ![c] = "cancelling"]
    /\ io' = None
    /\ UNCHANGED <<made, pc, keyOf, ownerEntry, pending, connections, claimBound,
                   entryBound, alive, explicit, told>>

(* reader.read() rejects: an error event, unless it was closed on purpose. *)
StreamFails(c) ==
    /\ stream[c] = "reading"
    /\ stream' = [stream EXCEPT ![c] = "cancelling"]
    /\ IF explicit[c] THEN io' = None ELSE Emit(c, "error")
    /\ UNCHANGED <<made, pc, keyOf, ownerEntry, pending, connections, claimBound,
                   entryBound, alive, explicit, told>>

(* A close event that is sent once the entry has been removed.             *)
CancelledRemovingFirst(c) ==
    /\ stream[c] = "cancelling"
    /\ stream' = [stream EXCEPT ![c] = "ended"]
    /\ connections' = IF IsCurrent(c) THEN Drop(connections, keyOf[c]) ELSE connections
    /\ io' = None
    /\ UNCHANGED <<made, pc, keyOf, ownerEntry, pending, claimBound, entryBound,
                   alive, explicit, told>>

(* reader.cancel() is over: the close event and the removal, if the entry  *)
(* is still there after that last await.                                   *)
Cancelled(c) ==
    /\ stream[c] = "cancelling"
    /\ stream' = [stream EXCEPT ![c] = "ended"]
    /\ IF explicit[c] THEN io' = None /\ UNCHANGED <<connections, told>>
                      ELSE EmitAndRemoveIfCurrent(c)
    /\ UNCHANGED <<made, pc, keyOf, ownerEntry, pending, claimBound, entryBound,
                   alive, explicit>>

-------------------------------------------------------------------------------
(* sse:disconnect and teardown                                             *)

(* cancelForOwner: dispose and remove.                                     *)
Disconnect(k) ==
    /\ OwnerOf(k) \in alive
    /\ connections[k] # None
    /\ explicit' = Flagged({connections[k]})
    /\ connections' = Drop(connections, k)
    /\ io' = None
    /\ UNCHANGED <<made, pc, keyOf, ownerEntry, pending, claimBound, entryBound,
                   alive, stream, told>>

Destroyed(o) ==
    /\ o \in alive
    /\ alive' = alive \ {o}
    /\ pending' = AfterDestroyed(pending, claimBound, o)
    /\ explicit' = Flagged(DisposedOnDestroyed(connections, entryBound, o))
    /\ connections' = AfterDestroyed(connections, entryBound, o)
    /\ claimBound' = claimBound \ {o}
    /\ entryBound' = entryBound \ {o}
    /\ io' = None
    /\ UNCHANGED <<made, pc, keyOf, ownerEntry, stream, told>>

(* stopSseCleanup                                                          *)
Stop ==
    /\ pending' = EmptyMap
    /\ explicit' = Flagged(Entries(connections))
    /\ connections' = EmptyMap
    /\ io' = None
    /\ UNCHANGED <<made, pc, keyOf, ownerEntry, claimBound, entryBound, alive,
                   stream, told>>

-------------------------------------------------------------------------------
Connect(c) == \E k \in Key : Reject(c, k) \/ Reserve(c, k)

Resume(c) == GiveUp(c) \/ Commit(c)

Read(c) == EventRead(c) \/ StreamEnds(c) \/ StreamFails(c) \/ Cancelled(c)

Next ==
    \/ \E c \in Call : Connect(c) \/ Resume(c) \/ Answer(c) \/ Read(c)
    \/ \E k \in Key : Disconnect(k)
    \/ \E o \in Owner : Destroyed(o)
    \/ Stop

Spec == Init /\ [][Next]_vars

(* The resolver answers, the request's own timer answers for a silent      *)
(* server, and a cancelled reader settles.  Nothing makes a server end its *)
(* stream.                                                                 *)
Fairness ==
    \A c \in Call :
        WF_vars(Resume(c)) /\ WF_vars(Answer(c)) /\ WF_vars(Cancelled(c))

FairSpec == Spec /\ Fairness

-------------------------------------------------------------------------------
(* Safety                                                                  *)

(* The ids in use, whether by an entry, by a claim or by both, stay within *)
(* the cap: the entry of a call that still waits for headers is counted    *)
(* twice by the check, never too little.                                   *)
WithinCap == Cardinality(KeysIn(connections) \cup KeysIn(pending)) <= MaxConnections

(* The renderer hears on an id only from the stream registered there (or   *)
(* leaving it in this step), events only between its open and its close.   *)
ChannelDiscipline ==
    io # None =>
        /\ connections[keyOf[io.from]] \in {io.from, None}
        /\ \A d \in Call : d > io.from /\ keyOf[d] = keyOf[io.from]
                              => pc[d] \notin {"connecting", "ok"}
        /\ io.what \in {"event", "error"} => told[io.from] = "open"

(* A stream the renderer was told is open ends for it with a close event   *)
(* or because it asked; also when the server ends it while the renderer    *)
(* disconnects or reconnects.                                              *)
NoSilentEnd ==
    \A c \in Call :
        pc[c] = "ok" /\ ~IsCurrent(c) /\ OwnerOf(keyOf[c]) \in alive
            => (told[c] = "close") = ~explicit[c]

-------------------------------------------------------------------------------
(* Liveness                                                                *)

(* The comment above `connections` says dispose aborts the fetch: once an  *)
(* entry is disposed, its exchange is neither awaited nor read for good.   *)
DisposeAborts ==
    \A c \in Call :
        explicit[c] ~> stream[c] \notin {"requested", "reading", "cancelling"}

-------------------------------------------------------------------------------
(* The inductive invariant behind the safety properties                    *)

(* What a call has received, asked for and been told follows its position, *)
(* and so does the exchange it has.                                        *)
CallsSound ==
    \A c \in Call :
        /\ pc[c] = "idle" <=> c > made
        /\ keyOf[c] = None <=> pc[c] = "idle"
        /\ pc[c] \in {"idle", "resolving"} =>
              stream[c] = "none" /\ told[c] = "nothing" /\ ~explicit[c]
        /\ pc[c] = "connecting" => stream[c] = "requested" /\ told[c] = "nothing"
        /\ pc[c] = "ok" => stream[c] \in {"reading", "cancelling", "ended"}
        /\ pc[c] = "failed" => stream[c] \in {"none", "unread", "ended"}

(* A claim is the latest call for its key that was not turned away, and    *)
(* its renderer's teardown is bound.                                       *)
ClaimsSound ==
    \A k \in Key : pending[k] # None =>
        /\ keyOf[pending[k]] = k
        /\ pc[pending[k]] \in {"resolving", "connecting"}
        /\ OwnerOf(k) \in claimBound
        /\ \A d \in Call : d > pending[k] /\ keyOf[d] = k => pc[d] = "failed"

(* An entry is a committed call for its key, not disposed and not ended,   *)
(* the latest one to have committed, and its renderer's teardown is bound. *)
EntriesSound ==
    \A k \in Key : connections[k] # None =>
        /\ keyOf[connections[k]] = k
        /\ pc[connections[k]] \in {"connecting", "ok"}
        /\ stream[connections[k]] # "ended"
        /\ ~explicit[connections[k]]
        /\ pc[connections[k]] = "ok" => told[connections[k]] = "open"
        /\ OwnerOf(k) \in entryBound
        /\ \A d \in Call : d > connections[k] /\ keyOf[d] = k
                              => pc[d] \notin {"connecting", "ok"}

(* A call leaves its key only disposed, or by ending its exchange itself.  *)
StreamsSound ==
    \A c \in Call :
        /\ ~explicit[c] /\ pc[c] \in {"connecting", "ok"} /\ stream[c] # "ended"
              => IsCurrent(c)
        /\ explicit[c] => told[c] # "close"

IInv ==
    /\ TypeOK
    /\ CallsSound
    /\ ClaimsSound
    /\ EntriesSound
    /\ StreamsSound
    /\ ChannelDiscipline
    /\ NoSilentEnd
================================================================================
