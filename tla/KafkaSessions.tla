---------------------------- MODULE KafkaSessions ----------------------------
(***************************************************************************)
(* electron/main/handlers/kafka/producer-handlers.ts: the producer stream  *)
(* and the transaction one Kafka connection may hold, and their end when   *)
(* the connection is closed.  One connection is modelled: the handlers     *)
(* share nothing between connections.  A request is numbered by arrival;   *)
(* its number is the identity of the stream or the transaction it makes.   *)
(***************************************************************************)
EXTENDS Naturals

CONSTANTS MaxCalls,  \* bound: how many requests are explored
          None       \* an undefined field

Call == 1 .. MaxCalls

VARIABLES
    made,           \* how many requests have been received
    pc,             \* what each request awaits, or that it was answered
    producerStream, \* entry.producerStream
    transaction,    \* entry.transaction
    unfinished,     \* transactions neither committed nor aborted
    closing         \* closeKafkaProducerSessions: before, aborting, over;
                    \* or the entry is removed

vars == <<made, pc, producerStream, transaction, unfinished, closing>>

Init ==
    /\ made = 0
    /\ pc = [c \in Call |-> "idle"]
    /\ producerStream = None
    /\ transaction = None
    /\ unfinished = {}
    /\ closing = "no"

(* The entry is found by its id until closeConnection is over.             *)
Arrive(c, next) ==
    /\ closing # "removed"
    /\ c = made + 1
    /\ made' = c
    /\ pc' = [pc EXCEPT ![c] = next]

OpenStream(c) ==
    /\ Arrive(c, "ok")
    /\ transaction = None
    /\ producerStream = None
    /\ producerStream' = c
    /\ UNCHANGED <<transaction, unfinished, closing>>

(* The field is cleared first; then the handler waits for 'finish'.        *)
CloseStream(c) ==
    /\ Arrive(c, "finishing")
    /\ producerStream # None
    /\ producerStream' = None
    /\ UNCHANGED <<transaction, unfinished, closing>>

(* The checks are made before the await of producer.beginTransaction().    *)
BeginTransaction(c) ==
    /\ Arrive(c, "beginning")
    /\ producerStream = None
    /\ transaction = None
    /\ UNCHANGED <<producerStream, transaction, unfinished, closing>>

Begun(c) ==
    /\ pc[c] = "beginning"
    /\ transaction' = c
    /\ unfinished' = unfinished \cup {c}
    /\ pc' = [pc EXCEPT ![c] = "ok"]
    /\ UNCHANGED <<made, producerStream, closing>>

EndTransaction(c) ==
    /\ Arrive(c, "ending")
    /\ transaction # None
    /\ unfinished' = unfinished \ {transaction}
    /\ transaction' = None
    /\ UNCHANGED <<producerStream, closing>>

(* A begin that is refused by the broker, or any await that settles.       *)
Settled(c) ==
    /\ pc[c] \in {"beginning", "ending", "finishing"}
    /\ pc' = [pc EXCEPT ![c] = "ok"]
    /\ UNCHANGED <<made, producerStream, transaction, unfinished, closing>>

(* closeKafkaProducerSessions: abort the transaction and wait, ...         *)
CloseAborting ==
    /\ closing = "no"
    /\ transaction \in unfinished
    /\ unfinished' = unfinished \ {transaction}
    /\ closing' = "aborting"
    /\ UNCHANGED <<made, pc, producerStream, transaction>>

(* ... then end the stream, both fields cleared.                           *)
CloseEnding ==
    /\ closing = "aborting" \/ (closing = "no" /\ transaction = None)
    /\ closing' = "over"
    /\ transaction' = None
    /\ producerStream' = None
    /\ UNCHANGED <<made, pc, unfinished>>

(* The producer has closed too: the connection leaves the registry.        *)
Removed ==
    /\ closing = "over"
    /\ closing' = "removed"
    /\ UNCHANGED <<made, pc, producerStream, transaction, unfinished>>

Next ==
    \/ \E c \in Call : \/ OpenStream(c) \/ CloseStream(c) \/ BeginTransaction(c)
                       \/ Begun(c) \/ EndTransaction(c) \/ Settled(c)
    \/ CloseAborting \/ CloseEnding \/ Removed

Spec == Init /\ [][Next]_vars

(* docs/KAFKA.md: "Streams and transactions are mutually exclusive."  A    *)
(* connection never holds a producer stream and a transaction at once.     *)
StreamsExcludeTransactions == producerStream = None \/ transaction = None
===============================================================================
