----------------------------- MODULE KafkaDelivery -----------------------------
(***************************************************************************)
(* electron/main/handlers/kafka-handler.ts: how the messages of a consumer *)
(* reach the renderer, and how it commits them.  Each message is decoded   *)
(* asynchronously and the decodings are chained (emitChain); with manual   *)
(* commits it carries a token, of which the connection keeps the newest    *)
(* ones (pendingCommits) until its consumer is closed.                     *)
(*                                                                         *)
(* One connection; KafkaHandler has the many.  A message is numbered in    *)
(* the order of its arrival, and its number is its token.                  *)
(***************************************************************************)
EXTENDS Naturals, SequencesExt

CONSTANTS MaxMessages, \* bound: how many messages arrive
          MaxTokens    \* 1000, the limit of pendingCommits

Message == 1 .. MaxMessages

VARIABLES
    connected,      \* the connection is in activeConnections
    stream,         \* a stream is open and emits
    consumer,       \* entry.consumer is set
    manualCommit,   \* entry.manualCommit
    consumerClose,  \* what is closing the consumer, or the producer after it
    arrivals,       \* how many messages have arrived
    emitChain,      \* those not yet decoded
    received,       \* those sent to the renderer
    pendingCommits, \* the tokens kept, oldest first
    tokened,        \* observation: the tokens the renderer was given
    committing,     \* the tokens whose commit is awaited
    committed       \* observation: and those committed

deliveryVars == <<connected, stream, consumer, manualCommit, consumerClose, arrivals,
                  emitChain, received, pendingCommits, tokened, committing, committed>>

commitVars == <<committing, committed>>
messageVars == <<arrivals, emitChain, received, tokened>>

DeliveryInit ==
    /\ connected = TRUE
    /\ stream = FALSE /\ consumer = FALSE /\ manualCommit = FALSE
    /\ consumerClose = "none"
    /\ arrivals = 0
    /\ emitChain = << >> /\ received = << >> /\ pendingCommits = << >>
    /\ tokened = {} /\ committing = {} /\ committed = {}

-------------------------------------------------------------------------------
(* kafka:subscribe, once its consumer has connected.                       *)
Subscribed ==
    /\ connected /\ ~consumer
    /\ stream' = TRUE /\ consumer' = TRUE
    /\ manualCommit' \in BOOLEAN
    /\ UNCHANGED <<connected, consumerClose, messageVars, pendingCommits, commitVars>>

Data ==
    /\ stream
    /\ arrivals < MaxMessages
    /\ arrivals' = arrivals + 1
    /\ emitChain' = Append(emitChain, arrivals')
    /\ UNCHANGED <<connected, stream, consumer, manualCommit, consumerClose, received,
                   tokened, pendingCommits, commitVars>>

(* A token more, and the oldest one less where there are too many.         *)
WithToken(m) ==
    LET all == Append(pendingCommits, m) IN
    IF Len(all) > MaxTokens THEN Tail(all) ELSE all

(* emitConsumedMessage: the first of the chain is decoded, and sent if its *)
(* connection is still there.                                              *)
Emit ==
    /\ emitChain # << >>
    /\ emitChain' = Tail(emitChain)
    /\ IF connected
       THEN LET m == Head(emitChain) IN
            /\ received' = Append(received, m)
            /\ IF manualCommit
               THEN pendingCommits' = WithToken(m) /\ tokened' = tokened \cup {m}
               ELSE UNCHANGED <<pendingCommits, tokened>>
       ELSE UNCHANGED <<received, pendingCommits, tokened>>
    /\ UNCHANGED <<connected, stream, consumer, manualCommit, consumerClose, arrivals,
                   commitVars>>

(* It cannot be decoded; the chain goes on.                                *)
Undecodable ==
    /\ emitChain # << >>
    /\ emitChain' = Tail(emitChain)
    /\ UNCHANGED <<connected, stream, consumer, manualCommit, consumerClose, arrivals,
                   received, tokened, pendingCommits, commitVars>>

(* kafka:commitMessage; nothing keeps two commits of a token apart.        *)
Commit(m) ==
    /\ connected /\ consumer
    /\ m \in ToSet(pendingCommits)
    /\ committing' = committing \cup {m}
    /\ UNCHANGED <<connected, stream, consumer, manualCommit, consumerClose,
                   messageVars, pendingCommits, committed>>

(* The map without a token, if it was not already evicted or cleared.      *)
Without(tokens, m) ==
    LET at == {i \in DOMAIN tokens : tokens[i] = m} IN
    IF at = {} THEN tokens ELSE RemoveAt(tokens, CHOOSE i \in at : TRUE)

(* A token whose commit failed is kept.                                    *)
CommitSettles(m) ==
    /\ m \in committing
    /\ committing' = committing \ {m}
    /\ \/ /\ pendingCommits' = Without(pendingCommits, m)
          /\ committed' = committed \cup {m}
       \/ UNCHANGED <<pendingCommits, committed>>
    /\ UNCHANGED <<connected, stream, consumer, manualCommit, consumerClose, messageVars>>

-------------------------------------------------------------------------------
(* closeConsumerAndStream, in an unsubscribe or in closeConnection; one at *)
(* a time, as KafkaHandler has those that overlap.                         *)
AfterConsumer(for) == IF for = "disconnect" THEN "producer" ELSE "none"

CloseStream(for) ==
    /\ connected /\ consumerClose = "none"
    /\ IF consumer
       THEN consumerClose' = for /\ UNCHANGED pendingCommits
       ELSE consumerClose' = AfterConsumer(for) /\ pendingCommits' = << >>
    /\ UNCHANGED <<connected, stream, consumer, manualCommit, messageVars, commitVars>>

StreamClosed ==
    /\ consumerClose \in {"unsubscribe", "disconnect"} /\ stream
    /\ stream' = FALSE
    /\ UNCHANGED <<connected, consumer, manualCommit, consumerClose, messageVars,
                   pendingCommits, commitVars>>

(* The tokens go with the consumer.  What is left in the chain does not.   *)
ConsumerClosed ==
    /\ consumerClose \in {"unsubscribe", "disconnect"} /\ ~stream
    /\ consumer' = FALSE
    /\ pendingCommits' = << >>
    /\ consumerClose' = AfterConsumer(consumerClose)
    /\ UNCHANGED <<connected, stream, manualCommit, messageVars, commitVars>>

(* kafka:disconnect, once the producer is closed too.                      *)
Disconnected ==
    /\ connected /\ consumerClose = "producer"
    /\ connected' = FALSE
    /\ consumerClose' = "none"
    /\ UNCHANGED <<stream, consumer, manualCommit, messageVars, pendingCommits, commitVars>>

(* The renderer dies: the entry goes first, and its clients after it.      *)
Disposed ==
    /\ connected
    /\ connected' = FALSE
    /\ consumerClose' = IF consumer THEN "unsubscribe" ELSE "none"
    /\ UNCHANGED <<stream, consumer, manualCommit, messageVars, pendingCommits, commitVars>>

DeliveryNext ==
    \/ Subscribed \/ Data \/ Emit \/ Undecodable
    \/ \E m \in Message : Commit(m) \/ CommitSettles(m)
    \/ \E for \in {"unsubscribe", "disconnect"} : CloseStream(for)
    \/ StreamClosed \/ ConsumerClosed \/ Disconnected \/ Disposed

-------------------------------------------------------------------------------
(* The renderer receives messages in the order of their arrival, those of  *)
(* a closed consumer before those of the next; and a token is forgotten    *)
(* uncommitted only when no older one is kept.                             *)
DeliverySound ==
    LET order == received \o emitChain IN
    /\ \A i, j \in DOMAIN order : i < j => order[i] < order[j]
    /\ Len(pendingCommits) <= MaxTokens
    /\ \A m \in tokened \ (ToSet(pendingCommits) \cup committed) :
          \A t \in ToSet(pendingCommits) : m < t
-------------------------------------------------------------------------------
(* The inductive invariant behind DeliverySound: messages are numbered as  *)
(* they arrive, those sent precede those in the chain, and tokens are of   *)
(* messages that were sent.                                                *)
Increasing(s) == \A i, j \in DOMAIN s : i < j => s[i] < s[j]
Precede(A, B) == \A a \in A, b \in B : a < b

DeliveryTypeOK ==
    /\ arrivals \in Nat /\ tokened \subseteq Nat
    /\ emitChain \in Seq(Nat) /\ received \in Seq(Nat) /\ pendingCommits \in Seq(Nat)

InOrder ==
    /\ Increasing(received) /\ Increasing(emitChain)
    /\ Precede(ToSet(received), ToSet(emitChain))
    /\ \A m \in ToSet(received) \cup ToSet(emitChain) : m <= arrivals

TokensLast ==
    /\ Increasing(pendingCommits) /\ Len(pendingCommits) <= MaxTokens
    /\ ToSet(pendingCommits) \subseteq tokened /\ tokened \subseteq ToSet(received)
    /\ Precede(tokened \ (ToSet(pendingCommits) \cup committed), ToSet(pendingCommits))

DeliveryInv == DeliveryTypeOK /\ InOrder /\ TokensLast
===============================================================================
