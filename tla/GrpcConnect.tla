----------------------------- MODULE GrpcConnect -----------------------------
(***************************************************************************)
(* electron/main/handlers/grpc-connect.ts, runConnectStream: one streaming *)
(* call over connect-node, tried over native gRPC and, when the peer       *)
(* rejects that at the HTTP level, once more over the Connect protocol;    *)
(* together with the callbacks that grpc-handler.ts gives it, which decide *)
(* what the renderer is told.                                              *)
(*                                                                         *)
(* connect-node and the peer are external: of the attempt that is running  *)
(* they may deliver headers, messages and trailers in that order, end it   *)
(* or fail it at any point, and they pull the outbound queue.  Payloads    *)
(* are numbered in the order of writing; an inbound message counts as one  *)
(* unit of the response size.                                              *)
(***************************************************************************)
EXTENDS Naturals, Sequences

CONSTANTS MaxWrites,   \* bound: how many writes are explored
          MaxReplay,   \* MAX_REPLAY_MESSAGES
          MaxResponse, \* MAX_RESPONSE_SIZE, in messages
          NotEnded

ASSUME ConnectAssumption ==
    /\ {MaxWrites, MaxReplay, MaxResponse} \subseteq Nat
    /\ NotEnded \notin Nat

Payload == 1 .. MaxWrites

Kind == {"server-streaming", "client-streaming", "bidi"}

VARIABLES
    kind,             \* the method kind the proto declares
    attempts,         \* how many transports the plan holds
    attemptIndex,     \* the one that is running, from 1
    running,          \* its promise or iteration is not settled
    meta,             \* the response metadata it has delivered
    heldHeaders,      \* its headers are held back
    heldTrailers,     \* its trailers are held back
    replay,           \* the writes to replay in a further attempt
    replayOverflow,
    ended,
    inboundDelivered,
    aborted,          \* controller.signal.aborted
    buffer,           \* of currentQueue
    closed,           \* of currentQueue
    waiting,          \* the consumer of currentQueue sleeps on its waiter
    registered,       \* isCurrentCall(): the entry is in activeCalls
    finalized,
    accumulatedSize,
    captured,         \* the metadata a terminal event would carry, by attempt
    written, endedAt, \* observation: the writes, and how many before the end
    wire,             \* observation: what the running attempt has sent
    peerClosed,       \* observation: its request stream has ended
    told              \* observation: the events sent to the renderer

vars == <<kind, attempts, attemptIndex, running, meta, heldHeaders, heldTrailers,
          replay, replayOverflow, ended, inboundDelivered, aborted, buffer, closed,
          waiting, registered, finalized, accumulatedSize, captured, written,
          endedAt, wire, peerClosed, told>>

planVars == <<kind, attempts>>
heldVars == <<heldHeaders, heldTrailers>>
replayVars == <<replay, replayOverflow, ended>>
queueVars == <<buffer, closed, waiting>>
outVars == <<written, endedAt, wire, peerClosed>>
callVars == <<registered, finalized, accumulatedSize, captured, told>>

-------------------------------------------------------------------------------
HasQueue == kind # "server-streaming"

(* Metadata that is shown although the attempt may be retried.            *)
EveryFinal == attemptIndex > 0

IsFinal == attemptIndex = attempts

(* The plan has one transport when the origin is known to need Connect.    *)
Init ==
    /\ kind \in Kind
    /\ attempts \in {1, 2}
    /\ attemptIndex = 1
    /\ running = TRUE
    /\ meta = {}
    /\ heldHeaders = FALSE /\ heldTrailers = FALSE
    /\ replay = <<>> /\ replayOverflow = FALSE
    /\ ended = FALSE
    /\ inboundDelivered = FALSE
    /\ aborted = FALSE
    /\ buffer = <<>> /\ closed = FALSE /\ waiting = FALSE
    /\ registered = TRUE
    /\ finalized = FALSE
    /\ accumulatedSize = 0
    /\ captured = {}
    /\ written = <<>> /\ endedAt = NotEnded
    /\ wire = <<>> /\ peerClosed = FALSE
    /\ told = <<>>

-------------------------------------------------------------------------------
(* onHeaders and onTrailers of the handler.                                *)
Captured(what) ==
    IF registered THEN captured \cup ({attemptIndex} \X what) ELSE captured

Held ==
    {m \in {"headers", "trailers"} : IF m = "headers" THEN heldHeaders ELSE heldTrailers}

FlushHeld ==
    /\ captured' = Captured(Held)
    /\ heldHeaders' = FALSE /\ heldTrailers' = FALSE

(* InputQueue.push and close wake the consumer.                            *)
Push(m) ==
    IF HasQueue /\ ~closed
    THEN buffer' = Append(buffer, m) /\ waiting' = FALSE /\ UNCHANGED closed
    ELSE UNCHANGED queueVars

(* A close that leaves the consumer asleep.                                *)
CloseNoWake ==
    IF HasQueue THEN closed' = TRUE /\ UNCHANGED <<buffer, waiting>>
                ELSE UNCHANGED queueVars

Close ==
    IF HasQueue THEN closed' = TRUE /\ waiting' = FALSE /\ UNCHANGED buffer
                ELSE UNCHANGED queueVars

(* A terminal event that leaves the entry registered.                      *)
FinalizeNoCleanup(terminal) ==
    IF finalized \/ ~registered
    THEN UNCHANGED <<registered, finalized, told>>
    ELSE told' = Append(told, terminal) /\ finalized' = TRUE /\ UNCHANGED registered

(* finalize(code): the first terminal of a current call wins.              *)
Finalize(terminal) ==
    IF finalized \/ ~registered
    THEN UNCHANGED <<registered, finalized, told>>
    ELSE /\ told' = Append(told, terminal)
         /\ finalized' = TRUE
         /\ registered' = FALSE

(* handleData: a message over the size limit cancels the call itself.      *)
OverLimit == accumulatedSize + 1 > MaxResponse

(* Messages that are taken after the call was cancelled.                   *)
HandleDataUnchecked ==
    /\ accumulatedSize' = accumulatedSize + 1
    /\ told' = Append(told, "data")
    /\ UNCHANGED <<registered, finalized, aborted, queueVars>>

HandleData ==
    IF finalized \/ ~registered
    THEN UNCHANGED <<registered, finalized, accumulatedSize, told, aborted, queueVars>>
    ELSE /\ accumulatedSize' = accumulatedSize + 1
         /\ IF OverLimit
            THEN /\ aborted' = TRUE
                 /\ Close
                 /\ Finalize("error")
            ELSE /\ told' = Append(told, "data")
                 /\ UNCHANGED <<registered, finalized, aborted, queueVars>>

-------------------------------------------------------------------------------
(* A retry whose replay may miss writes.                                   *)
CanRetryOverflow(rejected) ==
    /\ attemptIndex < attempts
    /\ rejected
    /\ ~inboundDelivered

CanRetry(rejected) ==
    /\ attemptIndex < attempts
    /\ rejected
    /\ ~inboundDelivered
    /\ ~replayOverflow

(* startAttempt, for the attempt after a rejected one: a new queue, primed *)
(* with the writes the rejected attempt may have consumed.                 *)
StartAttempt ==
    /\ attemptIndex' = attemptIndex + 1
    /\ running' = TRUE
    /\ meta' = {}
    /\ heldHeaders' = FALSE /\ heldTrailers' = FALSE
    /\ buffer' = IF HasQueue THEN replay ELSE <<>>
    /\ closed' = (HasQueue /\ ended)
    /\ waiting' = FALSE
    /\ wire' = <<>> /\ peerClosed' = FALSE

(* onCancelled: no terminal event.                                         *)
Cancelled ==
    /\ running' = FALSE
    /\ finalized' = (finalized \/ registered)
    /\ registered' = FALSE
    /\ UNCHANGED <<accumulatedSize, captured, told, heldVars, queueVars,
                   attemptIndex, meta, wire, peerClosed>>

FinishErr(rejected) ==
    IF aborted THEN Cancelled
    ELSE IF CanRetry(rejected) THEN StartAttempt /\ UNCHANGED callVars
    ELSE /\ running' = FALSE
         /\ FlushHeld
         /\ Finalize("error")
         /\ UNCHANGED <<accumulatedSize, queueVars, attemptIndex, meta, wire, peerClosed>>

-------------------------------------------------------------------------------
(* What connect-node delivers of the attempt that is running.              *)

Deliver(what) ==
    /\ running
    /\ what \notin meta
    /\ meta' = meta \cup {what}
    /\ IF IsFinal
       THEN captured' = Captured({what}) /\ UNCHANGED heldVars
       ELSE /\ heldHeaders' = (heldHeaders \/ what = "headers")
            /\ heldTrailers' = (heldTrailers \/ what = "trailers")
            /\ UNCHANGED captured
    /\ UNCHANGED <<planVars, attemptIndex, running, replayVars, inboundDelivered,
                   aborted, queueVars, registered, finalized, accumulatedSize,
                   outVars, told>>

OnHeader == Deliver("headers")

OnTrailer == "headers" \in meta /\ Deliver("trailers")

(* drain, one message of a server or bidi stream.                          *)
DrainMessage ==
    /\ running
    /\ kind # "client-streaming"
    /\ meta = {"headers"}
    /\ inboundDelivered' = TRUE
    /\ FlushHeld
    /\ HandleData
    /\ UNCHANGED <<planVars, attemptIndex, running, meta, replayVars, outVars>>

(* The message cannot be put in JSON: it counts as delivered, and the      *)
(* attempt fails without a retry.                                          *)
Undecodable ==
    /\ running
    /\ "headers" \in meta
    /\ inboundDelivered' = TRUE
    /\ running' = FALSE
    /\ FlushHeld
    /\ IF aborted
       THEN /\ finalized' = (finalized \/ registered)
            /\ registered' = FALSE
            /\ UNCHANGED told
       ELSE Finalize("error")
    /\ UNCHANGED <<planVars, attemptIndex, meta, replayVars, aborted, queueVars,
                   accumulatedSize, outVars>>

DrainEnd ==
    /\ running
    /\ kind # "client-streaming"
    /\ meta = {"headers", "trailers"}
    /\ running' = FALSE
    /\ FlushHeld
    /\ Finalize("status")
    /\ UNCHANGED <<planVars, attemptIndex, meta, replayVars, inboundDelivered,
                   aborted, queueVars, accumulatedSize, outVars>>

(* The only response of a client-streaming call, and its terminal event.   *)
Response ==
    /\ running
    /\ kind = "client-streaming"
    /\ meta = {"headers", "trailers"}
    /\ running' = FALSE
    /\ inboundDelivered' = TRUE
    /\ FlushHeld
    /\ IF finalized \/ ~registered \/ OverLimit
       THEN HandleData
       ELSE /\ accumulatedSize' = accumulatedSize + 1
            /\ told' = told \o <<"data", "status">>
            /\ finalized' = TRUE
            /\ registered' = FALSE
            /\ UNCHANGED <<aborted, queueVars>>
    /\ UNCHANGED <<planVars, attemptIndex, meta, replayVars, outVars>>

(* The attempt fails: the peer does not speak its protocol, or any other   *)
(* error (a gRPC status, the connection, the deadline, the abort).         *)
Fail(rejected) ==
    /\ running
    /\ FinishErr(rejected)
    /\ UNCHANGED <<planVars, replayVars, inboundDelivered, aborted, written, endedAt>>

-------------------------------------------------------------------------------
(* The outbound side: InputQueue, and connect-node pulling it.             *)

Pull ==
    /\ running /\ ~aborted
    /\ HasQueue /\ buffer # <<>>
    /\ wire' = Append(wire, Head(buffer))
    /\ buffer' = Tail(buffer)
    /\ UNCHANGED <<planVars, attemptIndex, running, meta, heldVars, replayVars,
                   inboundDelivered, aborted, closed, waiting, callVars, written,
                   endedAt, peerClosed>>

(* The iterator found the buffer empty: it returns, or sleeps.             *)
PullEnd ==
    /\ running /\ ~aborted
    /\ HasQueue /\ buffer = <<>> /\ ~waiting /\ ~peerClosed
    /\ IF closed THEN peerClosed' = TRUE /\ UNCHANGED waiting
                 ELSE waiting' = TRUE /\ UNCHANGED peerClosed
    /\ UNCHANGED <<planVars, attemptIndex, running, meta, heldVars, replayVars,
                   inboundDelivered, aborted, buffer, closed, callVars, written,
                   endedAt, wire>>

(* The controls, called for a registered call.                             *)
Write(m) ==
    /\ registered
    /\ m = Len(written) + 1
    /\ written' = Append(written, m)
    /\ IF Len(replay) < MaxReplay
       THEN replay' = Append(replay, m) /\ UNCHANGED replayOverflow
       ELSE replayOverflow' = TRUE /\ UNCHANGED replay
    /\ Push(m)
    /\ UNCHANGED <<planVars, attemptIndex, running, meta, heldVars, ended,
                   inboundDelivered, aborted, callVars, endedAt, wire, peerClosed>>

End ==
    /\ registered
    /\ ended' = TRUE
    /\ endedAt' = IF endedAt = NotEnded THEN Len(written) ELSE endedAt
    /\ Close
    /\ UNCHANGED <<planVars, attemptIndex, running, meta, heldVars, replay,
                   replayOverflow, inboundDelivered, aborted, callVars, written,
                   wire, peerClosed>>

(* The registry drops the entry and calls controls.cancel: a cancel of the *)
(* renderer, its destruction, or the sweep of the streams that are too old.*)
Cancel ==
    /\ registered
    /\ registered' = FALSE
    /\ aborted' = TRUE
    /\ Close
    /\ UNCHANGED <<planVars, attemptIndex, running, meta, heldVars, replayVars,
                   inboundDelivered, finalized, accumulatedSize, captured, told,
                   outVars>>

Next ==
    \/ OnHeader
    \/ OnTrailer
    \/ DrainMessage
    \/ Undecodable
    \/ DrainEnd
    \/ Response
    \/ \E rejected \in BOOLEAN : Fail(rejected)
    \/ Pull
    \/ PullEnd
    \/ \E m \in Payload : Write(m)
    \/ End
    \/ Cancel

Spec == Init /\ [][Next]_vars

(* connect-node keeps pulling a request stream that is open, and an abort  *)
(* settles the attempt.                                                    *)
Fairness ==
    /\ WF_vars(Pull)
    /\ WF_vars(PullEnd)
    /\ WF_vars(aborted /\ Fail(FALSE))

FairSpec == Spec /\ Fairness

-------------------------------------------------------------------------------
TypeOK ==
    /\ kind \in Kind
    /\ attempts \in {1, 2} /\ attemptIndex \in 1 .. attempts
    /\ {running, heldHeaders, heldTrailers, replayOverflow, ended, inboundDelivered,
        aborted, closed, waiting, registered, finalized, peerClosed} \subseteq BOOLEAN
    /\ meta \subseteq {"headers", "trailers"}
    /\ {replay, buffer, written, wire} \subseteq Seq(Payload)
    /\ accumulatedSize \in 0 .. MaxResponse + 1
    /\ captured \subseteq {1, 2} \X {"headers", "trailers"}
    /\ endedAt \in 0 .. MaxWrites \cup {NotEnded}
    /\ told \in Seq({"data", "status", "error"})

(* A terminal event carries the response metadata of the attempt that      *)
(* ended the stream, all that attempt delivered of it by then, and nothing *)
(* of an attempt the peer rejected.                                        *)
TerminalTold == finalized' /\ Len(told') > Len(told)

AnsweringMetadata == [][TerminalTold => captured' = {attemptIndex} \X meta]_vars

(* A stream whose attempts are all settled has left the registry: the      *)
(* renderer was told of its end, or asked for it.                          *)
NoOrphan == running \/ ~registered

(* The renderer sees messages, then at most one terminal event; the peer   *)
(* that serves the stream receives the writes in order and without a gap,  *)
(* across a fallback too, and the half-close after them.                   *)
Contract == INSTANCE GrpcStream
KeepsContract == Contract!Spec

(* Nothing is told of a stream after a cancel, not even its messages that  *)
(* were already on their way.                                              *)
SilentOnceDropped == [][~registered => UNCHANGED told]_vars

(* What was written before the half-close, and the half-close itself,      *)
(* reach the peer of a stream that stays open: no wake-up of the queue is  *)
(* lost, and a fallback does not forget them.                              *)
Owed == IF endedAt = NotEnded THEN Len(written) ELSE endedAt

OutboundArrives ==
    HasQueue => <>[](registered => Len(wire) >= Owed /\ (ended => peerClosed))

-------------------------------------------------------------------------------
(* The inductive invariant behind NoOrphan, the metadata and the contract  *)

(* The entry of a call lasts exactly as long as an attempt that nobody     *)
(* aborted; its last message may be one over the limit.                    *)
EntryLasts ==
    /\ registered <=> running /\ ~aborted
    /\ registered => ~finalized /\ accumulatedSize <= MaxResponse

(* What the attempt has delivered is captured or held back; an attempt     *)
(* that may still be retried has captured and told nothing.                *)
MetadataAccounted ==
    /\ Held \subseteq meta
    /\ IsFinal => Held = {}
    /\ registered /\ ~inboundDelivered => told = <<>> /\ (IsFinal \/ Held = meta)
    /\ registered => captured = {attemptIndex} \X (meta \ Held)

ToldInOrder == registered => \A i \in DOMAIN told : told[i] = "data"

Numbered(s) == \A i \in DOMAIN s : s[i] = i

(* The writes are sent, queued and kept for a replay in their order.       *)
WritesNumbered ==
    /\ Numbered(written)
    /\ IF replayOverflow THEN Len(replay) >= MaxReplay ELSE replay = written
    /\ \A i \in DOMAIN buffer : buffer[i] = Len(wire) + i
    /\ Len(wire) + Len(buffer) <= Len(written)
    /\ ended <=> endedAt # NotEnded
    /\ ended => endedAt <= Len(written)
    /\ ~HasQueue => wire = <<>> /\ buffer = <<>> /\ ~closed /\ ~peerClosed

(* A queue is closed by the half-close or the abort; until then it has all *)
(* that was not sent, and after a half-close all that was written before.  *)
QueueKeeps ==
    HasQueue =>
       /\ peerClosed => closed /\ buffer = <<>>
       /\ ~aborted => closed = ended
       /\ ~aborted /\ ~ended => Len(wire) + Len(buffer) = Len(written)
       /\ ~aborted /\ ended => endedAt <= Len(wire) + Len(buffer)

ConnectInv ==
    /\ TypeOK
    /\ EntryLasts /\ MetadataAccounted /\ ToldInOrder
    /\ WritesNumbered /\ QueueKeeps
===============================================================================
