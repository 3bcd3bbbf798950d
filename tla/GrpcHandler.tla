----------------------------- MODULE GrpcHandler -----------------------------
(***************************************************************************)
(* electron/main/handlers/grpc-handler.ts: the gRPC streams the renderers  *)
(* run through the main process.  A call is one grpc:start-stream; it      *)
(* waits twice (DNS, then the authentication provider) before its network  *)
(* call exists, and what the renderer writes meanwhile is buffered in the  *)
(* call's claim.  All the requests are fire-and-forget messages: the error *)
(* channel of the stream id is the only answer a start can get.            *)
(*                                                                         *)
(* Time is abstracted: the sweep of cleanupStaleStreams may find any claim *)
(* or call old enough.  Payloads are numbers, in the order of sending.     *)
(***************************************************************************)
EXTENDS StreamRegistry, Sequences

CONSTANTS MaxCalls,    \* bound: how many grpc:start-stream are explored
          MaxSends,    \* bound: how many grpc:send-message are explored
          MaxStreams,  \* MAX_PENDING_STREAMS
          MaxWrites    \* MAX_PENDING_WRITES

Call == 1 .. MaxCalls

(* A payload that does not fit the method's message: write() throws.       *)
Unencodable == 0

ASSUME GrpcAssumption ==
    /\ {MaxCalls, MaxSends, MaxStreams, MaxWrites} \subseteq Nat
    /\ IsFiniteSet(Owner) /\ IsFiniteSet(Id)
    /\ None \notin Call \cup Key \cup Nat

VARIABLES
    made,        \* how many start-stream have been received
    pc,          \* what each is awaiting: DNS, the provider, nothing more
    keyOf,       \* the owner-scoped key it asked for
    pending,     \* pendingStreamMessages: which call holds the claim of a key
    activeCalls, \* the StreamRegistry
    claimBound,  \* renderers whose destruction drops their claims
    entryBound,  \* renderers whose destruction cancels their calls
    alive,       \* renderers that are not destroyed
    writes,      \* claim.writes of each call
    half,        \* claim.end of each call
    net,         \* the network call: none, running, or over
    got,         \* what its controls.write was given
    endedAt,     \* after how many writes controls.end was called
    sent,        \* how many payloads the renderers have sent
    meant,       \* observation: the payloads sent to each call
    halfMeant,   \* observation: how many of them before the half-close
    io           \* observation: what the last step sent to a renderer

vars == <<made, pc, keyOf, pending, activeCalls, claimBound, entryBound, alive,
          writes, half, net, got, endedAt, sent, meant, halfMeant, io>>

startVars == <<made, keyOf>>
boundVars == <<claimBound, entryBound>>
bufferVars == <<writes, half>>
controlVars == <<got, endedAt>>
senderVars == <<sent, meant, halfMeant>>

Init ==
    /\ made = 0
    /\ pc = [c \in Call |-> "idle"]
    /\ keyOf = [c \in Call |-> None]
    /\ pending = EmptyMap
    /\ activeCalls = EmptyMap
    /\ claimBound = {}
    /\ entryBound = {}
    /\ alive = Owner
    /\ writes = [c \in Call |-> <<>>]
    /\ half = [c \in Call |-> FALSE]
    /\ net = [c \in Call |-> "none"]
    /\ got = [c \in Call |-> <<>>]
    /\ endedAt = [c \in Call |-> None]
    /\ sent = 0
    /\ meant = [c \in Call |-> <<>>]
    /\ halfMeant = [c \in Call |-> None]
    /\ io = None

-------------------------------------------------------------------------------
IsCurrent(c) == activeCalls[keyOf[c]] = c

(* A check of the id alone, without the generation.                        *)
HasEntry(c) == activeCalls[keyOf[c]] # None

HoldsClaim(c) == pending[keyOf[c]] = c

(* releasePendingStream                                                    *)
Release(c) ==
    pending' = IF HoldsClaim(c) THEN Drop(pending, keyOf[c]) ELSE pending

Over(cs) == [c \in Call |-> IF c \in cs /\ net[c] = "running" THEN "over" ELSE net[c]]

(* safeSend to the renderer of the call, under the call's id.              *)
Tell(c, what) ==
    io' = IF OwnerOf(keyOf'[c]) \in alive THEN [from |-> c, what |-> what] ELSE None

Go(c, where) == pc' = [pc EXCEPT ![c] = where]

Arrive(c, k) ==
    /\ c = made + 1
    /\ OwnerOf(k) \in alive
    /\ made' = c
    /\ keyOf' = [keyOf EXCEPT ![c] = k]

(* The limiter, the policy or a stream of the same id refuses the start.   *)
Refuse(c, k) ==
    /\ Arrive(c, k)
    /\ Go(c, "failed")
    /\ Tell(c, "refusal")
    /\ UNCHANGED <<pending, activeCalls, boundVars, alive, bufferVars, net,
                   controlVars, senderVars>>

CanReserve(k) ==
    pending[k] = None /\ activeCalls[k] = None /\ Size(pending) < MaxStreams

(* MAX_PENDING_STREAMS is reached: the start is dropped without an answer. *)
Ignore(c, k) ==
    /\ Arrive(c, k)
    /\ ~CanReserve(k) /\ pending[k] = None /\ activeCalls[k] = None
    /\ Go(c, "failed")
    /\ io' = None
    /\ UNCHANGED <<pending, activeCalls, boundVars, alive, bufferVars, net,
                   controlVars, senderVars>>

(* reservePendingStream: claim the id and wait for DNS.                    *)
Reserve(c, k) ==
    /\ Arrive(c, k)
    /\ CanReserve(k)
    /\ pending' = Put(pending, k, c)
    /\ claimBound' = Bind(claimBound, alive, OwnerOf(k))
    /\ Go(c, "dns")
    /\ io' = None
    /\ UNCHANGED <<activeCalls, entryBound, alive, bufferVars, net, controlVars,
                   senderVars>>

(* The address is refused, the provider fails, or the stream cannot be     *)
(* built: the claim goes and the renderer is told.                         *)
StartFailed(c) ==
    /\ pc[c] \in {"dns", "auth"}
    /\ Release(c)
    /\ Go(c, "failed")
    /\ UNCHANGED startVars
    /\ Tell(c, "refusal")
    /\ UNCHANGED <<activeCalls, boundVars, alive, bufferVars, net, controlVars,
                   senderVars>>

(* The claim was lost while DNS was resolving: a silent return.            *)
StartStale(c) ==
    /\ pc[c] = "dns"
    /\ ~HoldsClaim(c)
    /\ Go(c, "failed")
    /\ io' = None
    /\ UNCHANGED <<startVars, pending, activeCalls, boundVars, alive, bufferVars,
                   net, controlVars, senderVars>>

Resolved(c) ==
    /\ pc[c] = "dns"
    /\ HoldsClaim(c)
    /\ Go(c, "auth")
    /\ io' = None
    /\ UNCHANGED <<startVars, pending, activeCalls, boundVars, alive, bufferVars,
                   net, controlVars, senderVars>>

(* addActiveCall that leaves the buffer in the claim it releases.          *)
RegisterNoFlush(c) ==
    /\ pc[c] = "auth"
    /\ HoldsClaim(c)
    /\ activeCalls' = Put(activeCalls, keyOf[c], c)
    /\ entryBound' = Bind(entryBound, alive, OwnerOf(keyOf[c]))
    /\ Release(c)
    /\ net' = [net EXCEPT ![c] = "running"]
    /\ writes' = [writes EXCEPT ![c] = <<>>]
    /\ Go(c, "started")
    /\ io' = None
    /\ UNCHANGED <<startVars, claimBound, alive, half, controlVars, senderVars>>

(* The network call starts, addActiveCall registers it and flushes the     *)
(* buffer: the writes in order, then the half-close.                       *)
Register(c) ==
    /\ pc[c] = "auth"
    /\ HoldsClaim(c)
    /\ \A i \in 1 .. Len(writes[c]) : writes[c][i] # Unencodable
    /\ activeCalls' = Put(activeCalls, keyOf[c], c)
    /\ entryBound' = Bind(entryBound, alive, OwnerOf(keyOf[c]))
    /\ Release(c)
    /\ net' = [net EXCEPT ![c] = "running"]
    /\ got' = [got EXCEPT ![c] = writes[c]]
    /\ endedAt' = [endedAt EXCEPT ![c] = IF half[c] THEN Len(writes[c]) ELSE None]
    /\ writes' = [writes EXCEPT ![c] = <<>>]
    /\ Go(c, "started")
    /\ io' = None
    /\ UNCHANGED <<startVars, claimBound, alive, half, senderVars>>

(* A buffered payload cannot be encoded: write() throws out of             *)
(* addActiveCall, and the catch removes the entry it finds registered.     *)
FlushThrows(c) ==
    LET bad == {i \in 1 .. Len(writes[c]) : writes[c][i] = Unencodable} IN
    /\ pc[c] = "auth"
    /\ HoldsClaim(c)
    /\ \E i \in bad :
          /\ \A j \in bad : i <= j
          /\ got' = [got EXCEPT ![c] = SubSeq(writes[c], 1, i - 1)]
    /\ entryBound' = Bind(entryBound, alive, OwnerOf(keyOf[c]))
    /\ Release(c)
    /\ net' = [net EXCEPT ![c] = "running"]
    /\ Go(c, "failed")
    /\ UNCHANGED startVars
    /\ Tell(c, "refusal")
    /\ UNCHANGED <<activeCalls, claimBound, alive, bufferVars, endedAt, senderVars>>

(* The claim was lost while the provider answered: the network call that   *)
(* was just started is cancelled and the renderer told "already exists".   *)
RegisterRefused(c) ==
    /\ pc[c] = "auth"
    /\ ~HoldsClaim(c)
    /\ net' = [net EXCEPT ![c] = "over"]
    /\ Go(c, "failed")
    /\ UNCHANGED startVars
    /\ Tell(c, "refusal")
    /\ UNCHANGED <<pending, activeCalls, boundVars, alive, bufferVars, controlVars,
                   senderVars>>

-------------------------------------------------------------------------------
(* Callbacks of the network call.  A call that is over may still deliver   *)
(* what it had in hand; every callback asks whether it is current.         *)

(* A message that is not checked against the generation.                   *)
DataUnchecked(c) ==
    /\ net[c] # "none"
    /\ UNCHANGED startVars
    /\ IF HasEntry(c) THEN Tell(c, "data") ELSE io' = None
    /\ UNCHANGED <<pc, pending, activeCalls, boundVars, alive, bufferVars, net,
                   controlVars, senderVars>>

Data(c) ==
    /\ net[c] # "none"
    /\ UNCHANGED startVars
    /\ IF IsCurrent(c) THEN Tell(c, "data") ELSE io' = None
    /\ UNCHANGED <<pc, pending, activeCalls, boundVars, alive, bufferVars, net,
                   controlVars, senderVars>>

(* finalize: the peer closed, failed, or exceeded the size limit (which    *)
(* cancels the call first); or the close of a call that was cancelled.     *)
Closed(c) ==
    /\ net[c] # "none"
    /\ net' = Over({c})
    /\ UNCHANGED startVars
    /\ IF IsCurrent(c)
         THEN Tell(c, "terminal") /\ activeCalls' = Drop(activeCalls, keyOf[c])
         ELSE io' = None /\ UNCHANGED activeCalls
    /\ UNCHANGED <<pc, pending, boundVars, alive, bufferVars, controlVars, senderVars>>

-------------------------------------------------------------------------------
(* grpc:send-message, grpc:end-stream, grpc:cancel-stream                  *)

(* A full buffer drops the payload.                                        *)
BufferPayload(c, m) ==
    IF Len(writes[c]) < MaxWrites THEN Append(writes[c], m) ELSE writes[c]

(* To the registered call if there is one, else to the claim's buffer.     *)
SendMessage(k) ==
    LET c == IF activeCalls[k] # None THEN activeCalls[k] ELSE pending[k]
        m == sent + 1
    IN
    /\ OwnerOf(k) \in alive
    /\ sent < MaxSends
    /\ c # None
    /\ sent' = m
    /\ meant' = [meant EXCEPT ![c] = Append(@, m)]
    /\ IF activeCalls[k] # None
         THEN got' = [got EXCEPT ![c] = Append(@, m)] /\ UNCHANGED writes
         ELSE writes' = [writes EXCEPT ![c] = BufferPayload(c, m)] /\ UNCHANGED got
    /\ io' = None
    /\ UNCHANGED <<startVars, pc, pending, activeCalls, boundVars, alive, half, net,
                   endedAt, halfMeant>>

(* An unencodable payload: buffered like any other, dropped by a           *)
(* registered call (the listener's wrapper logs the exception).            *)
SendUnencodable(k) ==
    LET c == pending[k] IN
    /\ OwnerOf(k) \in alive
    /\ sent < MaxSends
    /\ c # None /\ activeCalls[k] = None
    /\ sent' = sent + 1
    /\ writes' = [writes EXCEPT ![c] = BufferPayload(c, Unencodable)]
    /\ io' = None
    /\ UNCHANGED <<startVars, pc, pending, activeCalls, boundVars, alive, half, net,
                   controlVars, meant, halfMeant>>

EndStream(k) ==
    LET c == IF activeCalls[k] # None THEN activeCalls[k] ELSE pending[k] IN
    /\ OwnerOf(k) \in alive
    /\ c # None
    /\ halfMeant' = [halfMeant EXCEPT ![c] = IF @ = None THEN Len(meant[c]) ELSE @]
    /\ IF activeCalls[k] # None
         THEN /\ endedAt' = [endedAt EXCEPT ![c] = IF @ = None THEN Len(got[c]) ELSE @]
              /\ UNCHANGED half
         ELSE half' = [half EXCEPT ![c] = TRUE] /\ UNCHANGED endedAt
    /\ io' = None
    /\ UNCHANGED <<startVars, pc, pending, activeCalls, boundVars, alive, writes, net,
                   got, sent, meant>>

CancelStream(k) ==
    /\ OwnerOf(k) \in alive
    /\ pending' = Drop(pending, k)
    /\ net' = Over({activeCalls[k]})
    /\ activeCalls' = Drop(activeCalls, k)
    /\ io' = None
    /\ UNCHANGED <<startVars, pc, boundVars, alive, bufferVars, controlVars, senderVars>>

-------------------------------------------------------------------------------
(* cleanupStaleStreams, the renderer's destruction, stopStreamCleanup      *)

Sweep(stale) ==
    /\ stale \subseteq KeysIn(pending) \cup KeysIn(activeCalls)
    /\ pending' = [k \in Key |-> IF k \in stale THEN None ELSE pending[k]]
    /\ net' = Over({activeCalls[k] : k \in stale})
    /\ activeCalls' = [k \in Key |-> IF k \in stale THEN None ELSE activeCalls[k]]
    /\ io' = None
    /\ UNCHANGED <<startVars, pc, boundVars, alive, bufferVars, controlVars, senderVars>>

Destroyed(o) ==
    /\ o \in alive
    /\ alive' = alive \ {o}
    /\ pending' = AfterDestroyed(pending, claimBound, o)
    /\ net' = Over(DisposedOnDestroyed(activeCalls, entryBound, o))
    /\ activeCalls' = AfterDestroyed(activeCalls, entryBound, o)
    /\ claimBound' = claimBound \ {o}
    /\ entryBound' = entryBound \ {o}
    /\ io' = None
    /\ UNCHANGED <<startVars, pc, bufferVars, controlVars, senderVars>>

Stop ==
    /\ net' = Over(Entries(activeCalls))
    /\ activeCalls' = EmptyMap
    /\ pending' = EmptyMap
    /\ io' = None
    /\ UNCHANGED <<startVars, pc, boundVars, alive, bufferVars, controlVars, senderVars>>

-------------------------------------------------------------------------------
Start(c) ==
    \/ \E k \in Key : Refuse(c, k) \/ Ignore(c, k) \/ Reserve(c, k)
    \/ StartFailed(c) \/ StartStale(c) \/ Resolved(c)
    \/ Register(c) \/ FlushThrows(c) \/ RegisterRefused(c)

Control(k) == SendMessage(k) \/ SendUnencodable(k) \/ EndStream(k) \/ CancelStream(k)

Next ==
    \/ \E c \in Call : Start(c) \/ Data(c) \/ Closed(c)
    \/ \E k \in Key : Control(k)
    \/ \E stale \in SUBSET Key : Sweep(stale)
    \/ \E o \in Owner : Destroyed(o)
    \/ Stop

Spec == Init /\ [][Next]_vars

-------------------------------------------------------------------------------
(* What is left of what was sent when only a full buffer loses any, and    *)
(* keeps the oldest.                                                       *)
KeepsOldest(s, t) ==
    \/ s = t
    \/ /\ Len(t) > MaxWrites /\ Len(s) >= MaxWrites
       /\ \A i \in 1 .. MaxWrites : s[i] = t[i]

(* What the renderer writes to a stream reaches that stream, once and in   *)
(* order, however the writes race with its registration, with a cancel and *)
(* a restart under the same id.  Only a buffer that was full loses any,    *)
(* and it keeps the oldest; nothing sent before the half-close comes after *)
(* it.                                                                     *)
WritesArrive ==
    \A c \in Call : net[c] = "running" /\ IsCurrent(c) =>
        /\ KeepsOldest(got[c], meant[c])
        /\ endedAt[c] # None =>
              \/ endedAt[c] >= halfMeant[c]
              \/ endedAt[c] >= MaxWrites

(* A stream speaks under its id only while it is the current one and never *)
(* after its terminal event; a terminal event is the last of its stream.   *)
OnlyCurrentSpeaks ==
    [][io' # None /\ io'.what \in {"data", "terminal"} =>
          /\ net[io'.from] = "running"
          /\ \A d \in Call : d > io'.from /\ keyOf[d] = keyOf[io'.from]
                => net[d] = "none"]_vars

(* The registry owns the running calls: one that runs can be cancelled by  *)
(* its renderer, dies with it, and does not outlive stopStreamCleanup.     *)
Tracked == \A c \in Call : net[c] = "running" => IsCurrent(c)

-------------------------------------------------------------------------------
(* The inductive invariant behind WritesArrive and OnlyCurrentSpeaks       *)

TypeOK ==
    /\ made \in 0 .. MaxCalls
    /\ pc \in [Call -> {"idle", "dns", "auth", "started", "failed"}]
    /\ keyOf \in [Call -> Key \cup {None}]
    /\ pending \in [Key -> Call \cup {None}]
    /\ activeCalls \in [Key -> Call \cup {None}]
    /\ claimBound \subseteq Owner /\ entryBound \subseteq Owner /\ alive \subseteq Owner
    /\ writes \in [Call -> Seq(Nat)] /\ half \in [Call -> BOOLEAN]
    /\ net \in [Call -> {"none", "running", "over"}]
    /\ got \in [Call -> Seq(Nat)] /\ endedAt \in [Call -> Nat \cup {None}]
    /\ sent \in Nat
    /\ meant \in [Call -> Seq(Nat)] /\ halfMeant \in [Call -> Nat \cup {None}]

(* A network call exists only once its start has been through its awaits,  *)
(* and nothing was written to a start that has not come yet.               *)
CallsSound ==
    \A c \in Call :
        /\ pc[c] = "idle" <=> c > made
        /\ keyOf[c] = None <=> pc[c] = "idle"
        /\ pc[c] \in {"idle", "dns", "auth"} => net[c] = "none"
        /\ pc[c] = "idle" => writes[c] = <<>> /\ meant[c] = <<>>

(* A half-close that was passed on was asked for, after no more payloads   *)
(* than there are.                                                         *)
HalvesSound ==
    \A c \in Call :
        /\ half[c] \/ endedAt[c] # None => halfMeant[c] # None
        /\ halfMeant[c] # None => halfMeant[c] <= Len(meant[c])

(* A claim buffers what was sent to its call, as long as its flush can     *)
(* succeed.                                                                *)
ClaimsSound ==
    \A k \in Key : pending[k] # None =>
        /\ keyOf[pending[k]] = k
        /\ pc[pending[k]] \in {"dns", "auth"}
        /\ \/ \E i \in 1 .. Len(writes[pending[k]]) : writes[pending[k]][i] = Unencodable
           \/ KeepsOldest(writes[pending[k]], meant[pending[k]])

EntriesSound ==
    \A k \in Key : activeCalls[k] # None =>
        /\ keyOf[activeCalls[k]] = k
        /\ pc[activeCalls[k]] = "started" /\ net[activeCalls[k]] = "running"
        /\ KeepsOldest(got[activeCalls[k]], meant[activeCalls[k]])
        /\ endedAt[activeCalls[k]] # None =>
              \/ endedAt[activeCalls[k]] >= halfMeant[activeCalls[k]]
              \/ endedAt[activeCalls[k]] >= MaxWrites

(* A start that came after the holder of an id, and under that id, failed  *)
(* before it had a network call.                                           *)
LatestSound ==
    \A k \in Key, c, d \in Call :
        c \in {pending[k], activeCalls[k]} /\ keyOf[d] = k /\ d > c
            => pc[d] = "failed" /\ net[d] = "none"

IInv ==
    /\ TypeOK
    /\ CallsSound
    /\ HalvesSound
    /\ ClaimsSound
    /\ EntriesSound
    /\ LatestSound
===============================================================================
