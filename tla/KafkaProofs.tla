------------------------------- MODULE KafkaProofs -------------------------------
(***************************************************************************)
(* Theorems about KafkaHandler, for any renderers, ids, number of requests *)
(* and cap: the safety properties its run checks.                          *)
(***************************************************************************)
EXTENDS KafkaHandler, StreamRegistryProofs

(* A key belongs to a renderer.                                            *)
LEMMA CallKeys == ASSUME NEW k \in Key PROVE OwnerOf(k) \in Owner
  BY DEF Key, OwnerOf

(* Closing starts at the stream if there is one, else at the consumer.     *)
LEMMA FirstStageFacts ==
  ASSUME NEW e
  PROVE  /\ FirstStage(e) \in {"stream", "consumer", "drained"}
         /\ FirstStage(e) = "consumer" => consumerOf[e] # None
  BY DEF FirstStage

(* Each call has two closers of its own, and the stop has one.             *)
ClosersDiffer ==
  /\ \A c \in Call : /\ CallCloser(c) \in Closer /\ CallCloser(c) # Stopper
                     /\ Disposer(c) \in Closer /\ Disposer(c) # Stopper
                     /\ Disposer(c)[1] = c
  /\ Stopper \in Closer
  /\ \A c, d \in Call : /\ CallCloser(c) = CallCloser(d) => c = d
                        /\ Disposer(c) = Disposer(d) => c = d
                        /\ CallCloser(c) # Disposer(d)
  /\ \A x \in Closer : x = Stopper \/ \E c \in Call : x = CallCloser(c) \/ x = Disposer(c)

LEMMA Closers == ClosersDiffer
<1>1. \A c \in Call : CallCloser(c) # Stopper /\ Disposer(c) # Stopper
  BY DEF CallCloser, Disposer, Stopper
<1>2. \A c, d \in Call : /\ CallCloser(c) = CallCloser(d) => c = d
                         /\ Disposer(c) = Disposer(d) => c = d
                         /\ CallCloser(c) # Disposer(d)
  BY DEF CallCloser, Disposer
<1>3. \A c \in Call : Disposer(c)[1] = c
  BY DEF Disposer
<1> QED
  BY <1>1, <1>2, <1>3 DEF Closer, ClosersDiffer

(* Every variable keeps its type, through every closer of every request.   *)
THEOREM TypeCorrect == Spec => []TypeOK
<1>1. Init => TypeOK
  BY KafkaAssumption DEF Init, TypeOK, EmptyMap, Call, Idle
<1>2. TypeOK /\ [Next]_vars => TypeOK'
  <2> SUFFICES ASSUME TypeOK, [Next]_vars PROVE TypeOK'
    OBVIOUS
  <2> USE CallKeys, KafkaAssumption DEF TypeOK, boundVars, fieldVars, stopVars, Idle
  <2>1. ASSUME NEW c \in Call, NEW k \in Key, Request(c, k) PROVE TypeOK'
    <3>1. made' \in 0 .. MaxCalls /\ keyOf' \in [Call -> Key \cup {None}]
      <4>1. Arrive(c, k)
        BY <2>1 DEF Request, Reject, Connect, Reconnect, Subscribe, Unsubscribe,
           Disconnect, CloseRequest, Finds
      <4> QED
        BY <4>1 DEF Arrive, Call
    <3>2. CASE Reject(c, k)
      BY <3>1, <3>2 DEF Reject, Reply
    <3>3. CASE Connect(c, k)
      BY <3>1, <3>3 DEF Connect, Reply, Put, Bind
    <3>4. ASSUME Begin(CallCloser(c), connections[k]), connections[k] # None
          PROVE  /\ client' \in [Call -> {"none", "producer", "consumer", "closed"}]
                 /\ closing' \in [Closer -> [entry : Call \cup {None},
                        stage : {"idle", "stream", "consumer", "drained", "producer"}]]
      BY <3>4, FirstStageFacts, Closers DEF Begin, Shut, ClosersDiffer
    <3>5. CASE Reconnect(c, k)
      BY <3>1, <3>4, <3>5 DEF Reconnect, Reply, Put, Bind
    <3>6. CASE Subscribe(c, k)
      BY <3>1, <3>6 DEF Subscribe, Finds, Reply
    <3>7. CASE Unsubscribe(c, k) \/ Disconnect(c, k)
      BY <3>1, <3>4, <3>7 DEF Unsubscribe, Disconnect, CloseRequest, Finds, Reply
    <3> QED
      BY <2>1, <3>2, <3>3, <3>5, <3>6, <3>7 DEF Request
  <2>2. ASSUME NEW c \in Call, Resume(c) PROVE TypeOK'
    <3> USE DEF Reply, Release, HoldsClaim, Drop, Finish
    <3>1. CASE Replaced(c)
      BY <3>1 DEF Replaced
    <3>2. CASE ReplaceFailed(c)
      BY <3>2 DEF ReplaceFailed
    <3>3. CASE Commit(c)
      BY <3>3 DEF Commit, Put, Bind
    <3>4. CASE Discard(c) \/ Discarded(c)
      BY <3>4 DEF Discard, Discarded, Shut
    <3>5. CASE Attach(c) \/ SubscribeFailed(c)
      BY <3>5 DEF Attach, SubscribeFailed, Shut
    <3>6. CASE Unsubscribed(c)
      BY <3>6 DEF Unsubscribed
    <3>7. CASE Disconnected(c)
      BY <3>7 DEF Disconnected
    <3> QED
      BY <2>2, <3>1, <3>2, <3>3, <3>4, <3>5, <3>6, <3>7 DEF Resume
  <2>3. ASSUME NEW x \in Closer, Close(x) PROVE TypeOK'
    <3> USE DEF At, Shut, Finish
    <3>1. CASE StreamClosed(x)
      <4>1. streamOf' \in [Call -> Call \cup {None}]
        BY <3>1 DEF StreamClosed
      <4>2. client' \in [Call -> {"none", "producer", "consumer", "closed"}]
        BY <3>1 DEF StreamClosed
      <4>3. closing' \in [Closer -> [entry : Call \cup {None},
                        stage : {"idle", "stream", "consumer", "drained", "producer"}]]
        BY <3>1 DEF StreamClosed
      <4> QED
        BY <3>1, <4>1, <4>2, <4>3 DEF StreamClosed
    <3>2. CASE ConsumerClosed(x)
      BY ZenonT(40), <3>2 DEF ConsumerClosed
    <3>3. CASE ProducerClosing(x)
      BY <3>3 DEF ProducerClosing
    <3>4. CASE DisposeFinished(x)
      BY <3>4 DEF DisposeFinished
    <3> QED
      BY <2>3, <3>1, <3>2, <3>3, <3>4 DEF Close
  <2>4. ASSUME NEW o \in Owner, Destroyed(o) PROVE TypeOK'
    <3> DEFINE gone == DisposedOnDestroyed(connections, entryBound, o)
    <3>1. gone \subseteq Call
      BY DEF DisposedOnDestroyed, OwnedBy, KeysIn
    <3>2. closing' = [x \in Closer |->
                     IF \E e \in gone : x = Disposer(e)
                       THEN [entry |-> x[1], stage |-> FirstStage(x[1])]
                       ELSE closing[x]]
      BY <2>4 DEF Destroyed
    <3> HIDE DEF gone
    <3>3. closing' \in [Closer -> [entry : Call \cup {None},
                        stage : {"idle", "stream", "consumer", "drained", "producer"}]]
      <4>1. \A x \in Closer : \A e \in gone : x = Disposer(e) => x[1] \in Call
        BY <3>1, Closers DEF ClosersDiffer
      <4> QED
        BY <3>2, <4>1, FirstStageFacts
    <3>4. client' \in [Call -> {"none", "producer", "consumer", "closed"}]
      BY <2>4 DEF Destroyed, Shut
    <3> QED
      BY <2>4, <3>3, <3>4 DEF Destroyed, AfterDestroyed, WithoutOwner
  <2>5. CASE Stop
    <3>1. CASE StopClaims
      BY <3>1 DEF StopClaims, EmptyMap, Probed, Entries, KeysIn
    <3>2. ASSUME NEW c \in Call, StopProducer(c) PROVE TypeOK'
      BY <3>2 DEF StopProducer, Shut
    <3>3. ASSUME NEW e \in Call, StopEntry(e) PROVE TypeOK'
      BY <3>3, FirstStageFacts, Closers DEF StopEntry, Begin, Shut, ClosersDiffer
    <3>4. CASE Stopped
      BY <3>4 DEF Stopped, EmptyMap, Finish
    <3> QED
      BY <2>5, <3>1, <3>2, <3>3, <3>4 DEF Stop
  <2>6. CASE UNCHANGED vars
    BY <2>6 DEF vars
  <2> QED
    BY <2>1, <2>2, <2>3, <2>4, <2>5, <2>6 DEF Next
<1> QED
  BY <1>1, <1>2, PTL DEF Spec

-------------------------------------------------------------------------------
(* One lemma per action: each preserves the inductive invariant.           *)

(* IInv without the typing, which TypeCorrect already gives.               *)
Rest == CallsSound /\ ConsumersSound /\ ClaimsSound /\ EntriesSound /\ BoundAreAlive
        /\ ClosersSound /\ CallClosersSound /\ DisposersSound /\ ReplacersSound
        /\ SweepSound /\ ProducerTracked /\ RegisteredIsUsable

(* Closing the consumers of entries closes no producer and none of the     *)
(* clients that a call in flight has built.                                *)
OnlyConsumersClose ==
  \A c \in Call : \/ client'[c] = client[c]
                  \/ client[c] = "consumer" /\ pc[c] = "ok" /\ client'[c] = "closed"

LEMMA ConsumersShut ==
  ASSUME IInv, NEW cs, client' = Shut(cs),
         \A c \in cs \cap Call : \E e \in Call : consumerOf[e] = c
  PROVE  OnlyConsumersClose
  BY KafkaAssumption DEF IInv, TypeOK, ConsumersSound, Shut, OnlyConsumersClose

LEMMA BeginShuts ==
  ASSUME IInv, NEW x, NEW e \in Call, Begin(x, e)
  PROVE  OnlyConsumersClose
<1>1. \A c \in ShutAtOnce({e}) \cap Call : consumerOf[e] = c
  BY DEF ShutAtOnce
<1> QED
  BY <1>1, ConsumersShut DEF Begin

(* A committed entry stays one, with its key, and once closed stays so.    *)
Kept ==
  \A e \in Call : Committed(e) => /\ Committed(e)' /\ keyOf'[e] = keyOf[e]
                                  /\ client[e] = "closed" => client'[e] = "closed"

(* A closer that has yet to close its entry's producer, and one that still *)
(* has after the step.                                                     *)
AtWork(x) == closing[x].stage \in {"stream", "consumer", "drained"} /\ ClosesProducer(x)

GoesOn(x) == closing'[x].entry = closing[x].entry /\ AtWork(x)'

(* A step loses no producer if the closers at work go on, and each entry   *)
(* that leaves the registry and each connect that ends finds a closer.     *)
LEMMA TrackedIf ==
  ASSUME ProducerTracked,
         \A x \in Closer :
            AtWork(x) => GoesOn(x) \/ client'[closing[x].entry] # "producer",
         \A d \in Call : client'[d] = "producer" =>
            \/ pc'[d] = "probing"
            \/ connections'[keyOf'[d]] = d
            \/ \E x \in Closer : closing'[x].entry = d /\ AtWork(x)'
            \/ client[d] = "producer" /\ connections[keyOf[d]] # d /\ pc[d] # "probing"
  PROVE  ProducerTracked'
<1> SUFFICES ASSUME NEW d \in Call, client'[d] = "producer",
                    pc'[d] # "probing", connections'[keyOf'[d]] # d
             PROVE  \E x \in Closer : closing'[x].entry = d /\ AtWork(x)'
  BY DEF ProducerTracked, WillCloseProducer, AtWork
<1>1. CASE \E x \in Closer : closing'[x].entry = d /\ AtWork(x)'
  BY <1>1
<1>2. CASE client[d] = "producer" /\ connections[keyOf[d]] # d /\ pc[d] # "probing"
  <2>1. PICK x \in Closer : closing[x].entry = d /\ AtWork(x)
    BY <1>2 DEF ProducerTracked, WillCloseProducer, AtWork
  <2> QED
    BY <2>1 DEF GoesOn
<1> QED
  BY <1>1, <1>2

(* A step leaves every entry usable if each entry it closes has a closer   *)
(* at its last await, and each closer that ends takes its entry with it.   *)
LEMMA UsableIf ==
  ASSUME RegisteredIsUsable,
         \A k \in Key : connections'[k] # None =>
            \/ client'[connections'[k]] = "producer"
            \/ \E x \in Closer : closing'[x] = [entry |-> connections'[k], stage |-> "producer"]
            \/ stop' \in {"claims", "entries"}
            \/ /\ connections'[k] = connections[k]
               /\ client[connections[k]] # "producer"
               /\ stop \notin {"claims", "entries"}
               /\ \A x \in Closer : At(x, "producer") /\ closing[x].entry = connections[k]
                     => closing'[x] = closing[x]
  PROVE  RegisteredIsUsable'
<1> SUFFICES ASSUME NEW k \in Key, connections'[k] # None,
                    connections'[k] = connections[k],
                    client[connections[k]] # "producer", stop \notin {"claims", "entries"},
                    \A x \in Closer : At(x, "producer") /\ closing[x].entry = connections[k]
                       => closing'[x] = closing[x]
             PROVE  \E x \in Closer : closing'[x] = [entry |-> connections'[k], stage |-> "producer"]
  BY DEF RegisteredIsUsable, KeysIn
<1>1. PICK x \in Closer : closing[x] = [entry |-> connections[k], stage |-> "producer"]
  BY DEF RegisteredIsUsable, KeysIn
<1> QED
  BY <1>1 DEF At

(* A new request has no client, no entry and no closer yet.                *)
LEMMA Arrived ==
  ASSUME IInv, NEW c \in Call, NEW k \in Key, Arrive(c, k)
  PROVE  /\ pc[c] = "idle" /\ client[c] = "none" /\ target[c] = None /\ keyOf[c] = None
         /\ closing[CallCloser(c)].stage = "idle"
         /\ keyOf' = [keyOf EXCEPT ![c] = k]
         /\ \A d \in Call \ {c} : d > made' <=> d > made
         /\ ~(c > made')
  BY KafkaAssumption
  DEF IInv, TypeOK, CallsSound, CallClosersSound, Closes, Arrive, Call

(* A request that is turned away claims nothing.                           *)
LEMMA RejectKeeps ==
  ASSUME IInv, TypeOK', NEW c \in Call, NEW k \in Key, Reject(c, k)
  PROVE  Rest'
<1> USE KafkaAssumption DEF IInv, TypeOK, Closes, Idle, Reject, Arrive, Reply,
        Call, boundVars, fieldVars, stopVars
<1>0. Kept
  BY DEF CallsSound, Kept, Committed
<1>1. CallsSound'
  BY <1>0 DEF CallsSound, Kept
<1>2. ConsumersSound'
  BY DEF CallsSound, ConsumersSound
<1>3. ClaimsSound'
  BY DEF CallsSound, ClaimsSound, SweepSound, Committed
<1>4. EntriesSound'
  BY <1>0 DEF CallsSound, ClaimsSound, EntriesSound, BoundAreAlive, Kept,
     Committed
<1>5. BoundAreAlive'
  BY DEF BoundAreAlive
<1>6. ClosersSound'
  BY <1>0 DEF CallsSound, EntriesSound, ClosersSound, Kept, Committed
<1>7. CallClosersSound'
  BY Closers DEF CallsSound, CallClosersSound, ClosersDiffer
<1>8. DisposersSound'
  BY Closers DEF CallsSound, EntriesSound, ClosersSound, DisposersSound,
     Committed, ClosersDiffer
<1>9. ReplacersSound'
  BY DEF CallsSound, EntriesSound, ReplacersSound, HoldsClaim, Committed
<1>10. SweepSound'
  BY <1>0, Closers DEF CallsSound, EntriesSound, SweepSound, ClosersSound,
     Kept, Committed, ClosersDiffer
<1>11. ProducerTracked'
  BY Closers DEF CallsSound, CallClosersSound, ClosersSound,
     ProducerTracked, WillCloseProducer, ClosesProducer, At, ClosersDiffer
<1>12. RegisteredIsUsable'
  BY Closers DEF CallsSound, ClaimsSound, EntriesSound, RegisteredIsUsable,
     KeysIn, At, Committed, ClosersDiffer
<1> QED
  BY <1>1, <1>2, <1>3, <1>4, <1>5, <1>6, <1>7, <1>8, <1>9, <1>10, <1>11, <1>12 DEF Rest

(* A first connect claims its key and builds its producer.                 *)
LEMMA ConnectKeeps ==
  ASSUME IInv, TypeOK', NEW c \in Call, NEW k \in Key, Connect(c, k)
  PROVE  Rest'
<1> USE KafkaAssumption DEF IInv, TypeOK, Closes, Idle, Connect, Arrive, Reply,
        Call, Put, Bind, boundVars, fieldVars, stopVars
<1>0. Kept
  BY DEF CallsSound, Kept, Committed
<1>1. CallsSound'
  BY <1>0 DEF CallsSound, Kept
<1>2. ConsumersSound'
  BY DEF CallsSound, ConsumersSound
<1>3. ClaimsSound'
  BY DEF CallsSound, ClaimsSound, SweepSound, Committed
<1>4. EntriesSound'
  BY <1>0 DEF CallsSound, ClaimsSound, EntriesSound, BoundAreAlive, Kept,
     Committed
<1>5. BoundAreAlive'
  BY DEF BoundAreAlive
<1>6. ClosersSound'
  BY <1>0 DEF CallsSound, EntriesSound, ClosersSound, Kept, Committed
<1>7. CallClosersSound'
  BY Closers DEF CallsSound, CallClosersSound, ClosersDiffer
<1>8. DisposersSound'
  BY Closers DEF CallsSound, EntriesSound, ClosersSound, DisposersSound,
     Committed, ClosersDiffer
<1>9. ReplacersSound'
  BY DEF CallsSound, EntriesSound, ReplacersSound, HoldsClaim, Committed
<1>10. SweepSound'
  BY <1>0, Closers DEF CallsSound, EntriesSound, SweepSound, ClosersSound,
     Kept, Committed, ClosersDiffer
<1>11. ProducerTracked'
  BY Closers DEF CallsSound, CallClosersSound, ClosersSound,
     ProducerTracked, WillCloseProducer, ClosesProducer, At, ClosersDiffer
<1>12. RegisteredIsUsable'
  BY Closers DEF CallsSound, ClaimsSound, EntriesSound, RegisteredIsUsable,
     KeysIn, At, Committed, ClosersDiffer
<1> QED
  BY <1>1, <1>2, <1>3, <1>4, <1>5, <1>6, <1>7, <1>8, <1>9, <1>10, <1>11, <1>12 DEF Rest

(* A reconnect claims its key and starts to close what it found there.     *)
LEMMA ReconnectKeeps ==
  ASSUME IInv, TypeOK', NEW c \in Call, NEW k \in Key, Reconnect(c, k)
  PROVE  Rest'
<1> USE KafkaAssumption DEF IInv, TypeOK, Closes, Idle, Reconnect, Arrive,
        Reply, Call, Put, Bind, boundVars, fieldVars, stopVars
<1>a. /\ connections[k] \in Call /\ Committed(connections[k])
      /\ keyOf[connections[k]] = k /\ Arrive(c, k)
      /\ Begin(CallCloser(c), connections[k])
  BY DEF EntriesSound, Reconnect, CloseRequest, Finds, Unsubscribe, Disconnect
<1>b. OnlyConsumersClose
  BY <1>a, BeginShuts
<1>c. closing' = [closing EXCEPT ![CallCloser(c)] =
                     [entry |-> connections[k], stage |-> FirstStage(connections[k])]]
  BY <1>a DEF Begin
<1>d. FirstStage(connections[k]) \in {"stream", "consumer", "drained"}
  BY FirstStageFacts
<1>e. /\ pc[c] = "idle" /\ client[c] = "none" /\ target[c] = None
      /\ closing[CallCloser(c)].stage = "idle"
  BY <1>a, Arrived
<1> USE <1>a, <1>b, <1>c, <1>d, <1>e DEF OnlyConsumersClose
<1>0. Kept
  BY DEF CallsSound, Kept, Committed
<1>1. CallsSound'
  <2> SUFFICES ASSUME NEW d \in Call PROVE CallsSound!(d)'
    BY DEF CallsSound
  <2>1. CallsSound!(d)
    BY DEF CallsSound
  <2>2. CASE d = c
    BY <1>0, <2>1, <2>2 DEF Kept
  <2>3. CASE d # c
    BY <1>0, <2>1, <2>3 DEF Kept
  <2> QED
    BY <2>2, <2>3
<1>2. ConsumersSound'
  BY DEF CallsSound, ConsumersSound
<1>3. ClaimsSound'
  BY DEF CallsSound, ClaimsSound, SweepSound, Committed
<1>4. EntriesSound'
  BY <1>0 DEF CallsSound, ClaimsSound, EntriesSound, BoundAreAlive, Kept,
     Committed
<1>5. BoundAreAlive'
  BY DEF BoundAreAlive
<1>6. ClosersSound'
  BY <1>0 DEF CallsSound, EntriesSound, ClosersSound, Kept, Committed
<1>7. CallClosersSound'
  <2> SUFFICES ASSUME NEW d \in Call PROVE CallClosersSound!(d)'
    BY DEF CallClosersSound
  <2>1. CallClosersSound!(d)
    BY DEF CallClosersSound
  <2>2. CASE d = c
    BY <2>2, Closers DEF ClosersDiffer
  <2>3. CASE d # c
    <3>1. /\ pc'[d] = pc[d] /\ target'[d] = target[d]
          /\ closing'[CallCloser(d)] = closing[CallCloser(d)]
      BY <2>3, Closers DEF ClosersDiffer
    <3> QED
      BY <2>1, <3>1
  <2> QED
    BY <2>2, <2>3
<1>8. DisposersSound'
  BY Closers DEF CallsSound, EntriesSound, ClosersSound, DisposersSound,
     Committed, ClosersDiffer
<1>9. ReplacersSound'
  BY DEF CallsSound, EntriesSound, ReplacersSound, HoldsClaim, Committed
<1>10. SweepSound'
  BY <1>0, Closers DEF CallsSound, EntriesSound, SweepSound, ClosersSound,
     Kept, Committed, ClosersDiffer
<1>11. ProducerTracked'
  <2>1. \A x \in Closer :
           AtWork(x) => GoesOn(x) \/ client'[closing[x].entry] # "producer"
    BY Closers DEF ClosersDiffer, AtWork, GoesOn, ClosesProducer, At
  <2>2. \A d \in Call : client'[d] = "producer" =>
           \/ pc'[d] = "probing"
           \/ connections'[keyOf'[d]] = d
           \/ \E x \in Closer : closing'[x].entry = d /\ AtWork(x)'
           \/ client[d] = "producer" /\ connections[keyOf[d]] # d /\ pc[d] # "probing"
    BY DEF CallsSound, EntriesSound, ClosersSound, CallClosersSound
  <2> QED
    BY <2>1, <2>2, TrackedIf
<1>12. RegisteredIsUsable'
  <2>1. ASSUME NEW j \in Key, connections'[j] # None
        PROVE  \/ client'[connections'[j]] = "producer"
               \/ \E x \in Closer : closing'[x] = [entry |-> connections'[j], stage |-> "producer"]
               \/ stop' \in {"claims", "entries"}
               \/ /\ connections'[j] = connections[j]
                  /\ client[connections[j]] # "producer"
                  /\ stop \notin {"claims", "entries"}
                  /\ \A x \in Closer : At(x, "producer") /\ closing[x].entry = connections[j]
                        => closing'[x] = closing[x]
    BY <2>1, Closers
    DEF ClosersDiffer, Committed, CallsSound, EntriesSound, CallClosersSound, At
  <2> QED
    BY <2>1, UsableIf
<1> QED
  BY <1>1, <1>2, <1>3, <1>4, <1>5, <1>6, <1>7, <1>8, <1>9, <1>10, <1>11, <1>12 DEF Rest

(* The predecessor goes and the successor builds its producer.             *)
LEMMA ReplacedKeeps ==
  ASSUME IInv, TypeOK', NEW c \in Call, Replaced(c)
  PROVE  Rest'
<1> USE KafkaAssumption DEF IInv, TypeOK, Closes, Idle, Replaced,
        StillReplaces, HoldsClaim, Drop, Reply, Finish, At, boundVars,
        fieldVars, stopVars
<1>0. Kept
  BY DEF CallsSound, Kept, Committed
<1>1. CallsSound'
  BY <1>0 DEF CallsSound, Kept
<1>2. ConsumersSound'
  BY DEF CallsSound, ConsumersSound
<1>3. ClaimsSound'
  BY DEF CallsSound, ClaimsSound, SweepSound, Committed
<1>4. EntriesSound'
  BY <1>0 DEF CallsSound, ClaimsSound, EntriesSound, BoundAreAlive, Kept,
     Committed
<1>5. BoundAreAlive'
  BY DEF BoundAreAlive
<1>6. ClosersSound'
  BY <1>0 DEF CallsSound, EntriesSound, ClosersSound, Kept, Committed
<1>7. CallClosersSound'
  BY Closers DEF CallsSound, CallClosersSound, ClosersDiffer
<1>8. DisposersSound'
  BY Closers DEF CallsSound, EntriesSound, ClosersSound, DisposersSound,
     Committed, ClosersDiffer
<1>9. ReplacersSound'
  BY DEF CallsSound, EntriesSound, ReplacersSound, HoldsClaim, Committed
<1>10. SweepSound'
  BY <1>0, Closers DEF CallsSound, EntriesSound, SweepSound, ClosersSound,
     Kept, Committed, ClosersDiffer
<1>11. ProducerTracked'
  <2>1. \A x \in Closer :
           AtWork(x) => GoesOn(x) \/ client'[closing[x].entry] # "producer"
    BY Closers DEF ClosersDiffer, AtWork, GoesOn, ClosesProducer, At
  <2>2. \A d \in Call : client'[d] = "producer" =>
           \/ pc'[d] = "probing"
           \/ connections'[keyOf'[d]] = d
           \/ \E x \in Closer : closing'[x].entry = d /\ AtWork(x)'
           \/ client[d] = "producer" /\ connections[keyOf[d]] # d /\ pc[d] # "probing"
    BY DEF CallsSound, EntriesSound, ClosersSound, CallClosersSound
  <2> QED
    BY <2>1, <2>2, TrackedIf
<1>12. RegisteredIsUsable'
  <2>1. ASSUME NEW j \in Key, connections'[j] # None
        PROVE  \/ client'[connections'[j]] = "producer"
               \/ \E x \in Closer : closing'[x] = [entry |-> connections'[j], stage |-> "producer"]
               \/ stop' \in {"claims", "entries"}
               \/ /\ connections'[j] = connections[j]
                  /\ client[connections[j]] # "producer"
                  /\ stop \notin {"claims", "entries"}
                  /\ \A x \in Closer : At(x, "producer") /\ closing[x].entry = connections[j]
                        => closing'[x] = closing[x]
    BY <2>1, Closers
    DEF ClosersDiffer, Committed, CallsSound, EntriesSound, CallClosersSound, At, ReplacersSound
  <2> QED
    BY <2>1, UsableIf
<1> QED
  BY <1>1, <1>2, <1>3, <1>4, <1>5, <1>6, <1>7, <1>8, <1>9, <1>10, <1>11, <1>12 DEF Rest

(* The predecessor is closed, and goes unless the claim was lost.          *)
LEMMA ReplaceFailedKeeps ==
  ASSUME IInv, TypeOK', NEW c \in Call, ReplaceFailed(c)
  PROVE  Rest'
<1> USE KafkaAssumption DEF IInv, TypeOK, Closes, Idle, ReplaceFailed,
        StillReplaces, HoldsClaim, Release, Drop, Reply, Finish, At, boundVars,
        fieldVars, stopVars
<1>0. Kept
  BY DEF CallsSound, Kept, Committed
<1>1. CallsSound'
  BY <1>0 DEF CallsSound, Kept
<1>2. ConsumersSound'
  BY DEF CallsSound, ConsumersSound
<1>3. ClaimsSound'
  BY DEF CallsSound, ClaimsSound, SweepSound, Committed
<1>4. EntriesSound'
  BY <1>0 DEF CallsSound, ClaimsSound, EntriesSound, BoundAreAlive, Kept,
     Committed
<1>5. BoundAreAlive'
  BY DEF BoundAreAlive
<1>6. ClosersSound'
  BY <1>0 DEF CallsSound, EntriesSound, ClosersSound, Kept, Committed
<1>7. CallClosersSound'
  BY Closers DEF CallsSound, CallClosersSound, ClosersDiffer
<1>8. DisposersSound'
  BY Closers DEF CallsSound, EntriesSound, ClosersSound, DisposersSound,
     Committed, ClosersDiffer
<1>9. ReplacersSound'
  BY DEF CallsSound, EntriesSound, ReplacersSound, HoldsClaim, Committed
<1>10. SweepSound'
  BY <1>0, Closers DEF CallsSound, EntriesSound, SweepSound, ClosersSound,
     Kept, Committed, ClosersDiffer
<1>11. ProducerTracked'
  BY Closers DEF CallsSound, CallClosersSound, ClosersSound,
     ProducerTracked, WillCloseProducer, ClosesProducer, At, ClosersDiffer
<1>12. RegisteredIsUsable'
  <2>1. ASSUME NEW j \in Key, connections'[j] # None
        PROVE  \/ client'[connections'[j]] = "producer"
               \/ \E x \in Closer : closing'[x] = [entry |-> connections'[j], stage |-> "producer"]
               \/ stop' \in {"claims", "entries"}
               \/ /\ connections'[j] = connections[j]
                  /\ client[connections[j]] # "producer"
                  /\ stop \notin {"claims", "entries"}
                  /\ \A x \in Closer : At(x, "producer") /\ closing[x].entry = connections[j]
                        => closing'[x] = closing[x]
    BY <2>1, Closers
    DEF ClosersDiffer, Committed, CallsSound, EntriesSound, CallClosersSound, At, ReplacersSound
  <2> QED
    BY <2>1, UsableIf
<1> QED
  BY <1>1, <1>2, <1>3, <1>4, <1>5, <1>6, <1>7, <1>8, <1>9, <1>10, <1>11, <1>12 DEF Rest

(* A commit registers an open producer and gives its claim back.           *)
LEMMA CommitKeeps ==
  ASSUME IInv, TypeOK', NEW c \in Call, Commit(c)
  PROVE  Rest'
<1> USE KafkaAssumption DEF IInv, TypeOK, Closes, Idle, Commit, HoldsClaim,
        Release, Put, Drop, Bind, Reply, boundVars, fieldVars, stopVars
<1>0. Kept
  BY DEF CallsSound, Kept, Committed
<1>1. CallsSound'
  BY <1>0 DEF CallsSound, Kept
<1>2. ConsumersSound'
  BY DEF CallsSound, ConsumersSound
<1>3. ClaimsSound'
  BY DEF CallsSound, ClaimsSound, SweepSound, Committed
<1>4. EntriesSound'
  BY <1>0 DEF CallsSound, ClaimsSound, EntriesSound, BoundAreAlive, Kept,
     Committed
<1>5. BoundAreAlive'
  BY DEF BoundAreAlive
<1>6. ClosersSound'
  BY <1>0 DEF CallsSound, EntriesSound, ClosersSound, Kept, Committed
<1>7. CallClosersSound'
  BY Closers DEF CallsSound, CallClosersSound, ClosersDiffer
<1>8. DisposersSound'
  BY Closers DEF CallsSound, EntriesSound, ClosersSound, DisposersSound,
     Committed, ClosersDiffer
<1>9. ReplacersSound'
  BY DEF CallsSound, EntriesSound, ReplacersSound, HoldsClaim, Committed
<1>10. SweepSound'
  BY <1>0, Closers DEF CallsSound, EntriesSound, SweepSound, ClosersSound,
     Kept, Committed, ClosersDiffer
<1>11. ProducerTracked'
  BY Closers DEF CallsSound, CallClosersSound, ClosersSound,
     ProducerTracked, WillCloseProducer, ClosesProducer, At, ClosersDiffer
<1>12. RegisteredIsUsable'
  BY Closers DEF CallsSound, ClaimsSound, EntriesSound, RegisteredIsUsable,
     KeysIn, At, Committed, ClosersDiffer
<1> QED
  BY <1>1, <1>2, <1>3, <1>4, <1>5, <1>6, <1>7, <1>8, <1>9, <1>10, <1>11, <1>12 DEF Rest

(* A connect that may not commit closes its own producer.                  *)
LEMMA DiscardKeeps ==
  ASSUME IInv, TypeOK', NEW c \in Call, Discard(c)
  PROVE  Rest'
<1> USE KafkaAssumption DEF IInv, TypeOK, Closes, Idle, Discard, Shut, Reply,
        boundVars, fieldVars, stopVars
<1>0. Kept
  BY DEF CallsSound, Kept, Committed
<1>1. CallsSound'
  BY <1>0 DEF CallsSound, Kept
<1>2. ConsumersSound'
  BY DEF CallsSound, ConsumersSound
<1>3. ClaimsSound'
  BY DEF CallsSound, ClaimsSound, SweepSound, Committed
<1>4. EntriesSound'
  BY <1>0 DEF CallsSound, ClaimsSound, EntriesSound, BoundAreAlive, Kept,
     Committed
<1>5. BoundAreAlive'
  BY DEF BoundAreAlive
<1>6. ClosersSound'
  BY <1>0 DEF CallsSound, EntriesSound, ClosersSound, Kept, Committed
<1>7. CallClosersSound'
  BY Closers DEF CallsSound, CallClosersSound, ClosersDiffer
<1>8. DisposersSound'
  BY Closers DEF CallsSound, EntriesSound, ClosersSound, DisposersSound,
     Committed, ClosersDiffer
<1>9. ReplacersSound'
  BY DEF CallsSound, EntriesSound, ReplacersSound, HoldsClaim, Committed
<1>10. SweepSound'
  BY <1>0, Closers DEF CallsSound, EntriesSound, SweepSound, ClosersSound,
     Kept, Committed, ClosersDiffer
<1>11. ProducerTracked'
  BY Closers DEF CallsSound, CallClosersSound, ClosersSound,
     ProducerTracked, WillCloseProducer, ClosesProducer, At, ClosersDiffer
<1>12. RegisteredIsUsable'
  BY Closers DEF CallsSound, ClaimsSound, EntriesSound, RegisteredIsUsable,
     KeysIn, At, Committed, ClosersDiffer
<1> QED
  BY <1>1, <1>2, <1>3, <1>4, <1>5, <1>6, <1>7, <1>8, <1>9, <1>10, <1>11, <1>12 DEF Rest

(* A discarded connect gives its claim back.                               *)
LEMMA DiscardedKeeps ==
  ASSUME IInv, TypeOK', NEW c \in Call, Discarded(c)
  PROVE  Rest'
<1> USE KafkaAssumption DEF IInv, TypeOK, Closes, Idle, Discarded, HoldsClaim,
        Release, Drop, Reply, boundVars, fieldVars, stopVars
<1>0. Kept
  BY DEF CallsSound, Kept, Committed
<1>1. CallsSound'
  <2> SUFFICES ASSUME NEW d \in Call PROVE CallsSound!(d)'
    BY DEF CallsSound
  <2>1. CallsSound!(d)
    BY DEF CallsSound
  <2>2. CASE d = c
    BY <1>0, <2>1, <2>2 DEF Kept
  <2>3. CASE d # c
    BY <1>0, <2>1, <2>3 DEF Kept
  <2> QED
    BY <2>2, <2>3
<1>2. ConsumersSound'
  BY DEF CallsSound, ConsumersSound
<1>3. ClaimsSound'
  BY DEF CallsSound, ClaimsSound, SweepSound, Committed
<1>4. EntriesSound'
  BY <1>0 DEF CallsSound, ClaimsSound, EntriesSound, BoundAreAlive, Kept,
     Committed
<1>5. BoundAreAlive'
  BY DEF BoundAreAlive
<1>6. ClosersSound'
  BY <1>0 DEF CallsSound, EntriesSound, ClosersSound, Kept, Committed
<1>7. CallClosersSound'
  BY Closers DEF CallsSound, CallClosersSound, ClosersDiffer
<1>8. DisposersSound'
  BY Closers DEF CallsSound, EntriesSound, ClosersSound, DisposersSound,
     Committed, ClosersDiffer
<1>9. ReplacersSound'
  BY DEF CallsSound, EntriesSound, ReplacersSound, HoldsClaim, Committed
<1>10. SweepSound'
  BY <1>0, Closers DEF CallsSound, EntriesSound, SweepSound, ClosersSound,
     Kept, Committed, ClosersDiffer
<1>11. ProducerTracked'
  BY Closers DEF CallsSound, CallClosersSound, ClosersSound,
     ProducerTracked, WillCloseProducer, ClosesProducer, At, ClosersDiffer
<1>12. RegisteredIsUsable'
  BY Closers DEF CallsSound, ClaimsSound, EntriesSound, RegisteredIsUsable,
     KeysIn, At, Committed, ClosersDiffer
<1> QED
  BY <1>1, <1>2, <1>3, <1>4, <1>5, <1>6, <1>7, <1>8, <1>9, <1>10, <1>11, <1>12 DEF Rest

(* A subscribe builds a consumer and remembers its entry.                  *)
LEMMA SubscribeKeeps ==
  ASSUME IInv, TypeOK', NEW c \in Call, NEW k \in Key, Subscribe(c, k)
  PROVE  Rest'
<1> USE KafkaAssumption DEF IInv, TypeOK, Closes, Idle, Subscribe, Finds,
        Arrive, Reply, Call, boundVars, fieldVars, stopVars
<1>0. Kept
  BY DEF CallsSound, Kept, Committed
<1>1. CallsSound'
  <2> SUFFICES ASSUME NEW d \in Call PROVE CallsSound!(d)'
    BY DEF CallsSound
  <2>1. CallsSound!(d)
    BY DEF CallsSound
  <2>2. CASE d = c
    BY <1>0, <2>1, <2>2 DEF Kept, EntriesSound, Committed
  <2>3. CASE d # c
    BY <1>0, <2>1, <2>3 DEF Kept
  <2> QED
    BY <2>2, <2>3
<1>2. ConsumersSound'
  BY DEF CallsSound, ConsumersSound
<1>3. ClaimsSound'
  BY DEF CallsSound, ClaimsSound, SweepSound, Committed
<1>4. EntriesSound'
  BY <1>0 DEF CallsSound, ClaimsSound, EntriesSound, BoundAreAlive, Kept,
     Committed
<1>5. BoundAreAlive'
  BY DEF BoundAreAlive
<1>6. ClosersSound'
  BY <1>0 DEF CallsSound, EntriesSound, ClosersSound, Kept, Committed
<1>7. CallClosersSound'
  BY Closers DEF CallsSound, CallClosersSound, ClosersDiffer
<1>8. DisposersSound'
  BY Closers DEF CallsSound, EntriesSound, ClosersSound, DisposersSound,
     Committed, ClosersDiffer
<1>9. ReplacersSound'
  BY DEF CallsSound, EntriesSound, ReplacersSound, HoldsClaim, Committed
<1>10. SweepSound'
  BY <1>0, Closers DEF CallsSound, EntriesSound, SweepSound, ClosersSound,
     Kept, Committed, ClosersDiffer
<1>11. ProducerTracked'
  BY Closers DEF CallsSound, CallClosersSound, ClosersSound,
     ProducerTracked, WillCloseProducer, ClosesProducer, At, ClosersDiffer
<1>12. RegisteredIsUsable'
  BY Closers DEF CallsSound, ClaimsSound, EntriesSound, RegisteredIsUsable,
     KeysIn, At, Committed, ClosersDiffer
<1> QED
  BY <1>1, <1>2, <1>3, <1>4, <1>5, <1>6, <1>7, <1>8, <1>9, <1>10, <1>11, <1>12 DEF Rest

(* An attach hands its open consumer to the entry.                         *)
LEMMA AttachKeeps ==
  ASSUME IInv, TypeOK', NEW c \in Call, Attach(c)
  PROVE  Rest'
<1> USE KafkaAssumption DEF IInv, TypeOK, Closes, Idle, Attach, CanAttach,
        Reply, boundVars, fieldVars, stopVars
<1>0. Kept
  BY DEF CallsSound, Kept, Committed
<1>1. CallsSound'
  BY <1>0 DEF CallsSound, Kept
<1>2. ConsumersSound'
  BY DEF CallsSound, ConsumersSound
<1>3. ClaimsSound'
  BY DEF CallsSound, ClaimsSound, SweepSound, Committed
<1>4. EntriesSound'
  BY <1>0 DEF CallsSound, ClaimsSound, EntriesSound, BoundAreAlive, Kept,
     Committed
<1>5. BoundAreAlive'
  BY DEF BoundAreAlive
<1>6. ClosersSound'
  BY <1>0 DEF CallsSound, EntriesSound, ClosersSound, Kept, Committed
<1>7. CallClosersSound'
  BY Closers DEF CallsSound, CallClosersSound, ClosersDiffer
<1>8. DisposersSound'
  BY Closers DEF CallsSound, EntriesSound, ClosersSound, DisposersSound,
     Committed, ClosersDiffer
<1>9. ReplacersSound'
  BY DEF CallsSound, EntriesSound, ReplacersSound, HoldsClaim, Committed
<1>10. SweepSound'
  BY <1>0, Closers DEF CallsSound, EntriesSound, SweepSound, ClosersSound,
     Kept, Committed, ClosersDiffer
<1>11. ProducerTracked'
  BY Closers DEF CallsSound, CallClosersSound, ClosersSound,
     ProducerTracked, WillCloseProducer, ClosesProducer, At, ClosersDiffer
<1>12. RegisteredIsUsable'
  BY Closers DEF CallsSound, ClaimsSound, EntriesSound, RegisteredIsUsable,
     KeysIn, At, Committed, ClosersDiffer
<1> QED
  BY <1>1, <1>2, <1>3, <1>4, <1>5, <1>6, <1>7, <1>8, <1>9, <1>10, <1>11, <1>12 DEF Rest

(* A subscribe that may not attach closes its own consumer.                *)
LEMMA SubscribeFailedKeeps ==
  ASSUME IInv, TypeOK', NEW c \in Call, SubscribeFailed(c)
  PROVE  Rest'
<1> USE KafkaAssumption DEF IInv, TypeOK, Closes, Idle, SubscribeFailed, Shut,
        Reply, boundVars, fieldVars, stopVars
<1>0. Kept
  BY DEF CallsSound, Kept, Committed
<1>1. CallsSound'
  BY <1>0 DEF CallsSound, Kept
<1>2. ConsumersSound'
  BY DEF CallsSound, ConsumersSound
<1>3. ClaimsSound'
  BY DEF CallsSound, ClaimsSound, SweepSound, Committed
<1>4. EntriesSound'
  BY <1>0 DEF CallsSound, ClaimsSound, EntriesSound, BoundAreAlive, Kept,
     Committed
<1>5. BoundAreAlive'
  BY DEF BoundAreAlive
<1>6. ClosersSound'
  BY <1>0 DEF CallsSound, EntriesSound, ClosersSound, Kept, Committed
<1>7. CallClosersSound'
  BY Closers DEF CallsSound, CallClosersSound, ClosersDiffer
<1>8. DisposersSound'
  BY Closers DEF CallsSound, EntriesSound, ClosersSound, DisposersSound,
     Committed, ClosersDiffer
<1>9. ReplacersSound'
  BY DEF CallsSound, EntriesSound, ReplacersSound, HoldsClaim, Committed
<1>10. SweepSound'
  BY <1>0, Closers DEF CallsSound, EntriesSound, SweepSound, ClosersSound,
     Kept, Committed, ClosersDiffer
<1>11. ProducerTracked'
  BY Closers DEF CallsSound, CallClosersSound, ClosersSound,
     ProducerTracked, WillCloseProducer, ClosesProducer, At, ClosersDiffer
<1>12. RegisteredIsUsable'
  BY Closers DEF CallsSound, ClaimsSound, EntriesSound, RegisteredIsUsable,
     KeysIn, At, Committed, ClosersDiffer
<1> QED
  BY <1>1, <1>2, <1>3, <1>4, <1>5, <1>6, <1>7, <1>8, <1>9, <1>10, <1>11, <1>12 DEF Rest

(* An unsubscribe or a disconnect starts to close the entry it found.      *)
LEMMA CloseRequestKeeps ==
  ASSUME IInv, TypeOK', NEW c \in Call, NEW k \in Key, Unsubscribe(c, k) \/ Disconnect(c, k)
  PROVE  Rest'
<1> USE KafkaAssumption DEF IInv, TypeOK, Closes, Idle, Unsubscribe,
        Disconnect, CloseRequest, Finds, Arrive, Reply, Call, boundVars,
        fieldVars, stopVars
<1>a. /\ connections[k] \in Call /\ Committed(connections[k])
      /\ keyOf[connections[k]] = k /\ Arrive(c, k)
      /\ Begin(CallCloser(c), connections[k])
  BY DEF EntriesSound, Reconnect, CloseRequest, Finds, Unsubscribe, Disconnect
<1>b. OnlyConsumersClose
  BY <1>a, BeginShuts
<1>c. closing' = [closing EXCEPT ![CallCloser(c)] =
                     [entry |-> connections[k], stage |-> FirstStage(connections[k])]]
  BY <1>a DEF Begin
<1>d. FirstStage(connections[k]) \in {"stream", "consumer", "drained"}
  BY FirstStageFacts
<1>e. /\ pc[c] = "idle" /\ client[c] = "none" /\ target[c] = None
      /\ closing[CallCloser(c)].stage = "idle"
  BY <1>a, Arrived
<1> USE <1>a, <1>b, <1>c, <1>d, <1>e DEF OnlyConsumersClose
<1>0. Kept
  BY DEF CallsSound, Kept, Committed
<1>1. CallsSound'
  <2> SUFFICES ASSUME NEW d \in Call PROVE CallsSound!(d)'
    BY DEF CallsSound
  <2>1. CallsSound!(d)
    BY DEF CallsSound
  <2>2. CASE d = c
    BY <1>0, <2>1, <2>2 DEF Kept
  <2>3. CASE d # c
    BY <1>0, <2>1, <2>3 DEF Kept
  <2> QED
    BY <2>2, <2>3
<1>2. ConsumersSound'
  BY DEF CallsSound, ConsumersSound
<1>3. ClaimsSound'
  BY DEF CallsSound, ClaimsSound, SweepSound, Committed
<1>4. EntriesSound'
  BY <1>0 DEF CallsSound, ClaimsSound, EntriesSound, BoundAreAlive, Kept,
     Committed
<1>5. BoundAreAlive'
  BY DEF BoundAreAlive
<1>6. ClosersSound'
  BY <1>0 DEF CallsSound, EntriesSound, ClosersSound, Kept, Committed
<1>7. CallClosersSound'
  <2> SUFFICES ASSUME NEW d \in Call PROVE CallClosersSound!(d)'
    BY DEF CallClosersSound
  <2>1. CallClosersSound!(d)
    BY DEF CallClosersSound
  <2>2. CASE d = c
    BY <2>2, Closers DEF ClosersDiffer
  <2>3. CASE d # c
    <3>1. /\ pc'[d] = pc[d] /\ target'[d] = target[d]
          /\ closing'[CallCloser(d)] = closing[CallCloser(d)]
      BY <2>3, Closers DEF ClosersDiffer
    <3> QED
      BY <2>1, <3>1
  <2> QED
    BY <2>2, <2>3
<1>8. DisposersSound'
  BY Closers DEF CallsSound, EntriesSound, ClosersSound, DisposersSound,
     Committed, ClosersDiffer
<1>9. ReplacersSound'
  BY DEF CallsSound, EntriesSound, ReplacersSound, HoldsClaim, Committed
<1>10. SweepSound'
  BY <1>0, Closers DEF CallsSound, EntriesSound, SweepSound, ClosersSound,
     Kept, Committed, ClosersDiffer
<1>11. ProducerTracked'
  <2>1. \A x \in Closer :
           AtWork(x) => GoesOn(x) \/ client'[closing[x].entry] # "producer"
    <3> SUFFICES ASSUME NEW x \in Closer, AtWork(x) PROVE GoesOn(x)
      OBVIOUS
    <3>1. x # CallCloser(c)
      BY <1>e DEF AtWork
    <3>2. closing'[x] = closing[x]
      BY <1>c, <3>1
    <3>3. ClosesProducer(x)'
      BY <3>1 DEF AtWork, ClosesProducer
    <3> QED
      BY <3>2, <3>3 DEF AtWork, GoesOn
  <2>2. \A d \in Call : client'[d] = "producer" =>
           \/ pc'[d] = "probing"
           \/ connections'[keyOf'[d]] = d
           \/ \E x \in Closer : closing'[x].entry = d /\ AtWork(x)'
           \/ client[d] = "producer" /\ connections[keyOf[d]] # d /\ pc[d] # "probing"
    BY DEF CallsSound, EntriesSound, ClosersSound, CallClosersSound
  <2> QED
    BY <2>1, <2>2, TrackedIf
<1>12. RegisteredIsUsable'
  <2>1. ASSUME NEW j \in Key, connections'[j] # None
        PROVE  \/ client'[connections'[j]] = "producer"
               \/ \E x \in Closer : closing'[x] = [entry |-> connections'[j], stage |-> "producer"]
               \/ stop' \in {"claims", "entries"}
               \/ /\ connections'[j] = connections[j]
                  /\ client[connections[j]] # "producer"
                  /\ stop \notin {"claims", "entries"}
                  /\ \A x \in Closer : At(x, "producer") /\ closing[x].entry = connections[j]
                        => closing'[x] = closing[x]
    BY <2>1, Closers
    DEF ClosersDiffer, Committed, CallsSound, EntriesSound, CallClosersSound, At
  <2> QED
    BY <2>1, UsableIf
<1> QED
  BY <1>1, <1>2, <1>3, <1>4, <1>5, <1>6, <1>7, <1>8, <1>9, <1>10, <1>11, <1>12 DEF Rest

(* An unsubscribe ends before it gets to the producer.                     *)
LEMMA UnsubscribedKeeps ==
  ASSUME IInv, TypeOK', NEW c \in Call, Unsubscribed(c)
  PROVE  Rest'
<1> USE KafkaAssumption DEF IInv, TypeOK, Closes, Idle, Unsubscribed, Reply,
        Finish, At, boundVars, fieldVars, stopVars
<1>0. Kept
  BY DEF CallsSound, Kept, Committed
<1>1. CallsSound'
  BY <1>0 DEF CallsSound, Kept
<1>2. ConsumersSound'
  BY DEF CallsSound, ConsumersSound
<1>3. ClaimsSound'
  BY DEF CallsSound, ClaimsSound, SweepSound, Committed
<1>4. EntriesSound'
  BY <1>0 DEF CallsSound, ClaimsSound, EntriesSound, BoundAreAlive, Kept,
     Committed
<1>5. BoundAreAlive'
  BY DEF BoundAreAlive
<1>6. ClosersSound'
  BY <1>0 DEF CallsSound, EntriesSound, ClosersSound, Kept, Committed
<1>7. CallClosersSound'
  BY Closers DEF CallsSound, CallClosersSound, ClosersDiffer
<1>8. DisposersSound'
  BY Closers DEF CallsSound, EntriesSound, ClosersSound, DisposersSound,
     Committed, ClosersDiffer
<1>9. ReplacersSound'
  BY DEF CallsSound, EntriesSound, ReplacersSound, HoldsClaim, Committed
<1>10. SweepSound'
  BY <1>0, Closers DEF CallsSound, EntriesSound, SweepSound, ClosersSound,
     Kept, Committed, ClosersDiffer
<1>11. ProducerTracked'
  BY Closers DEF CallsSound, CallClosersSound, ClosersSound,
     ProducerTracked, WillCloseProducer, ClosesProducer, At, ClosersDiffer
<1>12. RegisteredIsUsable'
  BY Closers DEF CallsSound, ClaimsSound, EntriesSound, RegisteredIsUsable,
     KeysIn, At, Committed, ClosersDiffer
<1> QED
  BY <1>1, <1>2, <1>3, <1>4, <1>5, <1>6, <1>7, <1>8, <1>9, <1>10, <1>11, <1>12 DEF Rest

(* A disconnect removes the entry it has closed, if it is still there.     *)
LEMMA DisconnectedKeeps ==
  ASSUME IInv, TypeOK', NEW c \in Call, Disconnected(c)
  PROVE  Rest'
<1> USE KafkaAssumption DEF IInv, TypeOK, Closes, Idle, Disconnected, Drop,
        Reply, Finish, At, boundVars, fieldVars, stopVars
<1>0. Kept
  BY DEF CallsSound, Kept, Committed
<1>1. CallsSound'
  BY <1>0 DEF CallsSound, Kept
<1>2. ConsumersSound'
  BY DEF CallsSound, ConsumersSound
<1>3. ClaimsSound'
  BY DEF CallsSound, ClaimsSound, SweepSound, Committed
<1>4. EntriesSound'
  BY <1>0 DEF CallsSound, ClaimsSound, EntriesSound, BoundAreAlive, Kept,
     Committed
<1>5. BoundAreAlive'
  BY DEF BoundAreAlive
<1>6. ClosersSound'
  BY <1>0 DEF CallsSound, EntriesSound, ClosersSound, Kept, Committed
<1>7. CallClosersSound'
  BY Closers DEF CallsSound, CallClosersSound, ClosersDiffer
<1>8. DisposersSound'
  BY Closers DEF CallsSound, EntriesSound, ClosersSound, DisposersSound,
     Committed, ClosersDiffer
<1>9. ReplacersSound'
  BY DEF CallsSound, EntriesSound, ReplacersSound, HoldsClaim, Committed
<1>10. SweepSound'
  BY <1>0, Closers DEF CallsSound, EntriesSound, SweepSound, ClosersSound,
     Kept, Committed, ClosersDiffer
<1>11. ProducerTracked'
  <2>1. \A x \in Closer :
           AtWork(x) => GoesOn(x) \/ client'[closing[x].entry] # "producer"
    BY Closers DEF ClosersDiffer, AtWork, GoesOn, ClosesProducer, At
  <2>2. \A d \in Call : client'[d] = "producer" =>
           \/ pc'[d] = "probing"
           \/ connections'[keyOf'[d]] = d
           \/ \E x \in Closer : closing'[x].entry = d /\ AtWork(x)'
           \/ client[d] = "producer" /\ connections[keyOf[d]] # d /\ pc[d] # "probing"
    BY DEF CallsSound, EntriesSound, ClosersSound, CallClosersSound
  <2> QED
    BY <2>1, <2>2, TrackedIf
<1>12. RegisteredIsUsable'
  <2>1. ASSUME NEW j \in Key, connections'[j] # None
        PROVE  \/ client'[connections'[j]] = "producer"
               \/ \E x \in Closer : closing'[x] = [entry |-> connections'[j], stage |-> "producer"]
               \/ stop' \in {"claims", "entries"}
               \/ /\ connections'[j] = connections[j]
                  /\ client[connections[j]] # "producer"
                  /\ stop \notin {"claims", "entries"}
                  /\ \A x \in Closer : At(x, "producer") /\ closing[x].entry = connections[j]
                        => closing'[x] = closing[x]
    BY <2>1, Closers
    DEF ClosersDiffer, Committed, CallsSound, EntriesSound, CallClosersSound, At, ReplacersSound
  <2> QED
    BY <2>1, UsableIf
<1> QED
  BY <1>1, <1>2, <1>3, <1>4, <1>5, <1>6, <1>7, <1>8, <1>9, <1>10, <1>11, <1>12 DEF Rest

(* A closed stream makes its closer go on to the consumer.                 *)
LEMMA StreamClosedKeeps ==
  ASSUME IInv, TypeOK', NEW x \in Closer, StreamClosed(x)
  PROVE  Rest'
<1> USE KafkaAssumption DEF IInv, TypeOK, Closes, Idle, boundVars, fieldVars,
        stopVars
<1>a. /\ closing[x].entry \in Call /\ Committed(closing[x].entry)
      /\ closing[x].stage = "stream"
  BY DEF StreamClosed, At, ClosersSound, Committed
<1>b. OnlyConsumersClose
  <2>1. \A c \in {consumerOf[closing[x].entry]} \cap Call : consumerOf[closing[x].entry] = c
    OBVIOUS
  <2>2. client' = Shut({consumerOf[closing[x].entry]})
    BY DEF StreamClosed
  <2> QED
    BY <1>a, <2>1, <2>2, ConsumersShut
<1>c. PICK stage \in {"consumer", "drained"} : closing' = [closing EXCEPT ![x].stage = stage]
  BY DEF StreamClosed
<1>d. UNCHANGED <<made, pc, keyOf, target, pending, connections, boundVars, alive,
                 consumerOf, stopVars>>
  BY DEF StreamClosed
<1> USE <1>a, <1>b, <1>c, <1>d DEF OnlyConsumersClose
<1>0. Kept
  BY DEF CallsSound, Kept, Committed
<1>1. CallsSound'
  <2> SUFFICES ASSUME NEW d \in Call PROVE CallsSound!(d)'
    BY DEF CallsSound
  <2>1. CallsSound!(d)
    BY DEF CallsSound
  <2> QED
    BY <1>0, <2>1 DEF Kept
<1>2. ConsumersSound'
  BY DEF CallsSound, ConsumersSound
<1>3. ClaimsSound'
  BY DEF CallsSound, ClaimsSound, SweepSound, Committed
<1>4. EntriesSound'
  BY <1>0 DEF CallsSound, ClaimsSound, EntriesSound, BoundAreAlive, Kept,
     Committed
<1>5. BoundAreAlive'
  BY DEF BoundAreAlive
<1>6. ClosersSound'
  BY <1>0 DEF CallsSound, EntriesSound, ClosersSound, Kept, Committed
<1>7. CallClosersSound'
  BY Closers DEF CallsSound, CallClosersSound, ClosersDiffer
<1>8. DisposersSound'
  BY Closers DEF CallsSound, EntriesSound, ClosersSound, DisposersSound,
     Committed, ClosersDiffer
<1>9. ReplacersSound'
  BY DEF CallsSound, EntriesSound, ReplacersSound, HoldsClaim, Committed
<1>10. SweepSound'
  BY <1>0, Closers DEF CallsSound, EntriesSound, SweepSound, ClosersSound,
     Kept, Committed, ClosersDiffer
<1>11. ProducerTracked'
  <2>1. \A y \in Closer :
           AtWork(y) => GoesOn(y) \/ client'[closing[y].entry] # "producer"
    BY Closers DEF ClosersDiffer, AtWork, GoesOn, ClosesProducer, At
  <2>2. \A d \in Call : client'[d] = "producer" =>
           \/ pc'[d] = "probing"
           \/ connections'[keyOf'[d]] = d
           \/ \E y \in Closer : closing'[y].entry = d /\ AtWork(y)'
           \/ client[d] = "producer" /\ connections[keyOf[d]] # d /\ pc[d] # "probing"
    BY DEF CallsSound, EntriesSound, ClosersSound, CallClosersSound
  <2> QED
    BY <2>1, <2>2, TrackedIf
<1>12. RegisteredIsUsable'
  <2>1. ASSUME NEW j \in Key, connections'[j] # None
        PROVE  \/ client'[connections'[j]] = "producer"
               \/ \E y \in Closer : closing'[y] = [entry |-> connections'[j], stage |-> "producer"]
               \/ stop' \in {"claims", "entries"}
               \/ /\ connections'[j] = connections[j]
                  /\ client[connections[j]] # "producer"
                  /\ stop \notin {"claims", "entries"}
                  /\ \A y \in Closer : At(y, "producer") /\ closing[y].entry = connections[j]
                        => closing'[y] = closing[y]
    BY <2>1, Closers
    DEF ClosersDiffer, Committed, CallsSound, EntriesSound, CallClosersSound, At
  <2> QED
    BY <2>1, UsableIf
<1> QED
  BY <1>1, <1>2, <1>3, <1>4, <1>5, <1>6, <1>7, <1>8, <1>9, <1>10, <1>11, <1>12 DEF Rest

(* A closed consumer leaves its entry.                                     *)
LEMMA ConsumerClosedKeeps ==
  ASSUME IInv, TypeOK', NEW x \in Closer, ConsumerClosed(x)
  PROVE  Rest'
<1> USE KafkaAssumption DEF IInv, TypeOK, Closes, Idle, ConsumerClosed, At,
        boundVars, fieldVars, stopVars
<1>a. closing[x].entry \in Call
  BY DEF ClosersSound, Committed
<1> USE <1>a
<1>0. Kept
  BY DEF CallsSound, Kept, Committed
<1>1. CallsSound'
  BY <1>0 DEF CallsSound, Kept
<1>2. ConsumersSound'
  BY DEF CallsSound, ConsumersSound
<1>3. ClaimsSound'
  BY DEF CallsSound, ClaimsSound, SweepSound, Committed
<1>4. EntriesSound'
  BY <1>0 DEF CallsSound, ClaimsSound, EntriesSound, BoundAreAlive, Kept,
     Committed
<1>5. BoundAreAlive'
  BY DEF BoundAreAlive
<1>6. ClosersSound'
  BY <1>0 DEF CallsSound, EntriesSound, ClosersSound, Kept, Committed
<1>7. CallClosersSound'
  BY Closers DEF CallsSound, CallClosersSound, ClosersDiffer
<1>8. DisposersSound'
  BY Closers DEF CallsSound, EntriesSound, ClosersSound, DisposersSound,
     Committed, ClosersDiffer
<1>9. ReplacersSound'
  BY DEF CallsSound, EntriesSound, ReplacersSound, HoldsClaim, Committed
<1>10. SweepSound'
  BY <1>0, Closers DEF CallsSound, EntriesSound, SweepSound, ClosersSound,
     Kept, Committed, ClosersDiffer
<1>11. ProducerTracked'
  <2>1. \A y \in Closer :
           AtWork(y) => GoesOn(y) \/ client'[closing[y].entry] # "producer"
    BY Closers DEF ClosersDiffer, AtWork, GoesOn, ClosesProducer, At
  <2>2. \A d \in Call : client'[d] = "producer" =>
           \/ pc'[d] = "probing"
           \/ connections'[keyOf'[d]] = d
           \/ \E y \in Closer : closing'[y].entry = d /\ AtWork(y)'
           \/ client[d] = "producer" /\ connections[keyOf[d]] # d /\ pc[d] # "probing"
    BY DEF CallsSound, EntriesSound, ClosersSound, CallClosersSound
  <2> QED
    BY <2>1, <2>2, TrackedIf
<1>12. RegisteredIsUsable'
  BY Closers DEF CallsSound, ClaimsSound, EntriesSound, RegisteredIsUsable,
     KeysIn, At, Committed, ClosersDiffer
<1> QED
  BY <1>1, <1>2, <1>3, <1>4, <1>5, <1>6, <1>7, <1>8, <1>9, <1>10, <1>11, <1>12 DEF Rest

(* A closer that has drained its entry closes its producer.                *)
LEMMA ProducerClosingKeeps ==
  ASSUME IInv, TypeOK', NEW x \in Closer, ProducerClosing(x)
  PROVE  Rest'
<1> USE KafkaAssumption DEF IInv, TypeOK, Closes, Idle, ProducerClosing,
        ClosesProducer, Shut, At, boundVars, fieldVars, stopVars
<1>a. Committed(closing[x].entry) /\ closing[x].entry \in Call
  BY DEF ClosersSound, Committed
<1>b. \A d \in Call : client'[d] = IF d = closing[x].entry THEN "closed" ELSE client[d]
  BY <1>a DEF Committed
<1> USE <1>a, <1>b
<1>0. Kept
  BY DEF CallsSound, Kept, Committed
<1>1. CallsSound'
  <2> SUFFICES ASSUME NEW d \in Call PROVE CallsSound!(d)'
    BY DEF CallsSound
  <2>1. CallsSound!(d)
    BY DEF CallsSound
  <2> QED
    BY <1>0, <2>1 DEF Kept, Committed
<1>2. ConsumersSound'
  BY DEF CallsSound, ConsumersSound
<1>3. ClaimsSound'
  BY DEF CallsSound, ClaimsSound, SweepSound, Committed
<1>4. EntriesSound'
  BY <1>0 DEF CallsSound, ClaimsSound, EntriesSound, BoundAreAlive, Kept,
     Committed
<1>5. BoundAreAlive'
  BY DEF BoundAreAlive
<1>6. ClosersSound'
  BY <1>0 DEF CallsSound, EntriesSound, ClosersSound, Kept, Committed
<1>7. CallClosersSound'
  BY Closers DEF CallsSound, CallClosersSound, ClosersDiffer
<1>8. DisposersSound'
  BY Closers DEF CallsSound, EntriesSound, ClosersSound, DisposersSound,
     Committed, ClosersDiffer
<1>9. ReplacersSound'
  BY DEF CallsSound, EntriesSound, ReplacersSound, HoldsClaim, Committed
<1>10. SweepSound'
  BY <1>0, Closers DEF CallsSound, EntriesSound, SweepSound, ClosersSound,
     Kept, Committed, ClosersDiffer
<1>11. ProducerTracked'
  BY SMTT(40), Closers DEF CallsSound, CallClosersSound, ClosersSound,
     ProducerTracked, WillCloseProducer, ClosesProducer, At, ClosersDiffer
<1>12. RegisteredIsUsable'
  BY Closers DEF CallsSound, ClaimsSound, EntriesSound, RegisteredIsUsable,
     KeysIn, At, Committed, ClosersDiffer
<1> QED
  BY <1>1, <1>2, <1>3, <1>4, <1>5, <1>6, <1>7, <1>8, <1>9, <1>10, <1>11, <1>12 DEF Rest

(* A disposer whose entry is closed is done.                               *)
LEMMA DisposeFinishedKeeps ==
  ASSUME IInv, TypeOK', NEW x \in Closer, DisposeFinished(x)
  PROVE  Rest'
<1> USE KafkaAssumption DEF IInv, TypeOK, Closes, Idle, DisposeFinished,
        Finish, At, boundVars, fieldVars, stopVars
<1>0. Kept
  BY DEF CallsSound, Kept, Committed
<1>1. CallsSound'
  BY <1>0 DEF CallsSound, Kept
<1>2. ConsumersSound'
  BY DEF CallsSound, ConsumersSound
<1>3. ClaimsSound'
  BY DEF CallsSound, ClaimsSound, SweepSound, Committed
<1>4. EntriesSound'
  BY <1>0 DEF CallsSound, ClaimsSound, EntriesSound, BoundAreAlive, Kept,
     Committed
<1>5. BoundAreAlive'
  BY DEF BoundAreAlive
<1>6. ClosersSound'
  BY <1>0 DEF CallsSound, EntriesSound, ClosersSound, Kept, Committed
<1>7. CallClosersSound'
  BY Closers DEF CallsSound, CallClosersSound, ClosersDiffer
<1>8. DisposersSound'
  BY Closers DEF CallsSound, EntriesSound, ClosersSound, DisposersSound,
     Committed, ClosersDiffer
<1>9. ReplacersSound'
  BY DEF CallsSound, EntriesSound, ReplacersSound, HoldsClaim, Committed
<1>10. SweepSound'
  BY <1>0, Closers DEF CallsSound, EntriesSound, SweepSound, ClosersSound,
     Kept, Committed, ClosersDiffer
<1>11. ProducerTracked'
  BY Closers DEF CallsSound, CallClosersSound, ClosersSound,
     ProducerTracked, WillCloseProducer, ClosesProducer, At, ClosersDiffer
<1>12. RegisteredIsUsable'
  <2>1. ASSUME NEW j \in Key, connections'[j] # None
        PROVE  \/ client'[connections'[j]] = "producer"
               \/ \E y \in Closer : closing'[y] = [entry |-> connections'[j], stage |-> "producer"]
               \/ stop' \in {"claims", "entries"}
               \/ /\ connections'[j] = connections[j]
                  /\ client[connections[j]] # "producer"
                  /\ stop \notin {"claims", "entries"}
                  /\ \A y \in Closer : At(y, "producer") /\ closing[y].entry = connections[j]
                        => closing'[y] = closing[y]
    BY <2>1, Closers
    DEF ClosersDiffer, Committed, CallsSound, EntriesSound, CallClosersSound, At, DisposersSound
  <2> QED
    BY <2>1, UsableIf
<1> QED
  BY <1>1, <1>2, <1>3, <1>4, <1>5, <1>6, <1>7, <1>8, <1>9, <1>10, <1>11, <1>12 DEF Rest

(* A destroyed renderer's claims are closed, its entries start to close.   *)
LEMMA DestroyedKeeps ==
  ASSUME IInv, TypeOK', NEW o \in Owner, Destroyed(o)
  PROVE  Rest'
<1> USE KafkaAssumption DEF IInv, TypeOK, Closes, Idle, boundVars, fieldVars,
        stopVars
<1> DEFINE gone == DisposedOnDestroyed(connections, entryBound, o)
<1>a. /\ pending' = [k \in Key |-> IF OwnerOf(k) = o THEN None ELSE pending[k]]
      /\ connections' = [k \in Key |-> IF OwnerOf(k) = o THEN None ELSE connections[k]]
  BY DEF Destroyed, AfterDestroyed, WithoutOwner, ClaimsSound, EntriesSound
<1>b. \A d \in gone : /\ d \in Call /\ Committed(d) /\ keyOf[d] \in Key
                      /\ connections[keyOf[d]] = d /\ OwnerOf(keyOf[d]) = o
  BY DEF DisposedOnDestroyed, OwnedBy, KeysIn, EntriesSound
<1>c. \A k \in Key : connections[k] # None /\ OwnerOf(k) = o => connections[k] \in gone
  BY DEF DisposedOnDestroyed, OwnedBy, KeysIn, EntriesSound
<1>d. \A d \in Call : \/ client'[d] = client[d]
                      \/ client[d] = "consumer" /\ pc[d] = "ok" /\ client'[d] = "closed"
                      \/ /\ pc[d] = "probing" /\ client'[d] = "closed"
                         /\ \A k \in Key : pending'[k] # d
  <2> DEFINE claims == DisposedOnDestroyed(pending, claimBound, o)
             probed == {c \in claims : pc[c] = "probing"}
  <2>1. \A d \in probed : /\ pc[d] = "probing" /\ client[d] = "producer"
                          /\ \A k \in Key : pending'[k] # d
    BY <1>a DEF DisposedOnDestroyed, OwnedBy, KeysIn, ClaimsSound
  <2>2. \A d \in ShutAtOnce(gone) \cap Call :
           pc[d] = "ok" /\ client[d] \in {"consumer", "closed"}
    BY <1>b, FirstStageFacts DEF ShutAtOnce, ConsumersSound
  <2>3. client' = Shut(probed \cup ShutAtOnce(gone))
    BY DEF Destroyed
  <2> HIDE DEF gone, probed
  <2> QED
    BY <2>1, <2>2, <2>3 DEF Shut
<1>e. /\ \A d \in Call : /\ closing'[CallCloser(d)] = closing[CallCloser(d)]
                         /\ closing'[Disposer(d)] =
                              IF d \in gone THEN [entry |-> d, stage |-> FirstStage(d)]
                              ELSE closing[Disposer(d)]
      /\ closing'[Stopper] = closing[Stopper]
  <2>1. closing' = [x \in Closer |->
                     IF \E e \in gone : x = Disposer(e)
                       THEN [entry |-> x[1], stage |-> FirstStage(x[1])]
                       ELSE closing[x]]
    BY DEF Destroyed
  <2> HIDE DEF gone
  <2> QED
    BY <1>b, <2>1, Closers DEF ClosersDiffer
<1>f. \A d \in Call : FirstStage(d) \in {"stream", "consumer", "drained"}
  BY FirstStageFacts
<1>g. \A x \in Closer : \/ closing'[x] = closing[x]
                        \/ \E d \in gone : /\ x = Disposer(d)
                                           /\ closing'[x] = [entry |-> d, stage |-> FirstStage(d)]
  <2> SUFFICES ASSUME NEW x \in Closer
               PROVE  \/ closing'[x] = closing[x]
                      \/ \E d \in gone : /\ x = Disposer(d)
                                         /\ closing'[x] = [entry |-> d, stage |-> FirstStage(d)]
    OBVIOUS
  <2> HIDE DEF gone, IInv, TypeOK
  <2>1. CASE x = Stopper
    BY <1>e, <2>1
  <2>2. ASSUME NEW c \in Call, x = CallCloser(c) PROVE closing'[x] = closing[x]
    BY <1>e, <2>2
  <2>3. ASSUME NEW c \in Call, x = Disposer(c)
        PROVE  closing'[x] = closing[x] \/ (c \in gone /\ closing'[x] = [entry |-> c, stage |-> FirstStage(c)])
    BY <1>e, <2>3
  <2> QED
    BY <2>1, <2>2, <2>3, Closers DEF ClosersDiffer
<1>h. /\ UNCHANGED <<made, pc, keyOf, target, fieldVars, stopVars>>
      /\ alive' = alive \ {o} /\ claimBound' = claimBound \ {o}
      /\ entryBound' = entryBound \ {o}
  BY DEF Destroyed
<1> HIDE DEF gone
<1>i. /\ CallsSound /\ ClosersSound /\ CallClosersSound /\ DisposersSound
      /\ UNCHANGED <<pc, keyOf, target>>
  BY <1>h
<1> USE <1>a, <1>d, <1>h
<1>0. Kept
  BY DEF CallsSound, Kept, Committed
<1>1. CallsSound'
  <2> SUFFICES ASSUME NEW d \in Call PROVE CallsSound!(d)'
    BY DEF CallsSound
  <2>1. CallsSound!(d)
    BY DEF CallsSound
  <2> QED
    BY <1>0, <2>1 DEF Kept
<1>2. ConsumersSound'
  BY DEF CallsSound, ConsumersSound
<1>3. ClaimsSound'
  BY DEF CallsSound, ClaimsSound, SweepSound, Committed
<1>4. EntriesSound'
  BY <1>0 DEF CallsSound, ClaimsSound, EntriesSound, BoundAreAlive, Kept,
     Committed
<1>5. BoundAreAlive'
  BY DEF BoundAreAlive
<1>6. ClosersSound'
  <2> HIDE <1>a, <1>d, <1>h DEF IInv, TypeOK, boundVars, fieldVars, stopVars
  <2> SUFFICES ASSUME NEW x \in Closer PROVE ClosersSound!(x)'
    BY DEF ClosersSound
  <2>1. CASE closing'[x] = closing[x]
    <3>1. ClosersSound!(x)
      BY <1>i DEF ClosersSound
    <3>2. closing[x].stage # "idle" => closing[x].entry \in Call
      BY <3>1 DEF Committed
    <3> QED
      BY <1>0, <2>1, <3>1, <3>2 DEF Kept
  <2>2. ASSUME NEW d \in gone, closing'[x] = [entry |-> d, stage |-> FirstStage(d)]
        PROVE  ClosersSound!(x)'
    BY <1>0, <1>b, <1>f, <2>2 DEF Kept
  <2> QED
    BY <1>g, <2>1, <2>2
<1>7. CallClosersSound'
  <2> HIDE <1>a, <1>d, <1>h DEF IInv, TypeOK, boundVars, fieldVars, stopVars
  <2> QED
    BY <1>e, <1>i DEF CallClosersSound, Closes
<1>8. DisposersSound'
  <2> SUFFICES ASSUME NEW d \in Call, closing'[Disposer(d)].stage # "idle"
               PROVE  closing'[Disposer(d)].entry = d /\ connections'[keyOf[d]] # d
    BY <1>h DEF DisposersSound
  <2> HIDE <1>d, <1>h DEF IInv, TypeOK
  <2>1. CASE d \in gone
    <3>1. closing'[Disposer(d)] = [entry |-> d, stage |-> FirstStage(d)]
      BY <1>e, <2>1
    <3> QED
      BY <1>b, <2>1, <3>1, KafkaAssumption
  <2>2. CASE d \notin gone
    <3>1. closing'[Disposer(d)] = closing[Disposer(d)]
      BY <1>e, <2>2
    <3>2. closing[Disposer(d)].entry = d /\ connections[keyOf[d]] # d
      BY <1>i, <3>1 DEF DisposersSound
    <3>3. Committed(d)
      BY <1>i, <3>1, <3>2, Closers DEF ClosersDiffer, ClosersSound
    <3>4. keyOf[d] \in Key
      BY <1>i, <3>3 DEF Committed, CallsSound, IInv, TypeOK
    <3> QED
      BY <3>1, <3>2, <3>4, KafkaAssumption
  <2> QED
    BY <2>1, <2>2
<1>9. ReplacersSound'
  BY DEF CallsSound, EntriesSound, ReplacersSound, HoldsClaim, Committed
<1>10. SweepSound'
  BY <1>0, <1>e, Closers DEF SweepSound, Kept, ClosersDiffer, ClosersSound, Committed
<1>11. ProducerTracked'
  <2>1. \A x \in Closer :
           AtWork(x) => GoesOn(x) \/ client'[closing[x].entry] # "producer"
    <3> SUFFICES ASSUME NEW x \in Closer, AtWork(x) PROVE GoesOn(x)
      OBVIOUS
    <3> HIDE <1>a, <1>d DEF IInv, TypeOK
    <3>1. ClosesProducer(x)'
      BY DEF AtWork, ClosesProducer
    <3>2. ~\E d \in gone : x = Disposer(d)
      BY <1>b, <1>i DEF AtWork, DisposersSound
    <3> QED
      BY <1>g, <3>1, <3>2 DEF AtWork, GoesOn
  <2>2. \A d \in gone : closing'[Disposer(d)].entry = d /\ AtWork(Disposer(d))'
    <3> HIDE <1>a, <1>d, <1>h DEF IInv, TypeOK
    <3> SUFFICES ASSUME NEW d \in gone
                 PROVE  closing'[Disposer(d)].entry = d /\ AtWork(Disposer(d))'
      OBVIOUS
    <3>1. closing'[Disposer(d)] = [entry |-> d, stage |-> FirstStage(d)] /\ d \in Call
      BY <1>b, <1>e
    <3>2. ClosesProducer(Disposer(d))'
      BY <3>1, Closers DEF ClosersDiffer, ClosesProducer
    <3> QED
      BY <1>f, <3>1, <3>2 DEF AtWork
  <2>3. \A d \in Call : client'[d] = "producer" =>
           \/ pc'[d] = "probing"
           \/ connections'[keyOf'[d]] = d
           \/ \E x \in Closer : closing'[x].entry = d /\ AtWork(x)'
           \/ client[d] = "producer" /\ connections[keyOf[d]] # d /\ pc[d] # "probing"
    <3> SUFFICES ASSUME NEW d \in Call, client[d] = "producer",
                        connections[keyOf[d]] = d, connections'[keyOf[d]] # d
                 PROVE  \E x \in Closer : closing'[x].entry = d /\ AtWork(x)'
      OBVIOUS
    <3>1. keyOf[d] \in Key
      BY DEF CallsSound
    <3>2. d \in gone
      BY <1>c, <3>1
    <3> QED
      BY <2>2, <3>2, Closers DEF ClosersDiffer
  <2> QED
    BY <2>1, <2>3, TrackedIf
<1>12. RegisteredIsUsable'
  <2>1. ASSUME NEW j \in Key, connections'[j] # None
        PROVE  \/ client'[connections'[j]] = "producer"
               \/ \E x \in Closer : closing'[x] = [entry |-> connections'[j], stage |-> "producer"]
               \/ stop' \in {"claims", "entries"}
               \/ /\ connections'[j] = connections[j]
                  /\ client[connections[j]] # "producer"
                  /\ stop \notin {"claims", "entries"}
                  /\ \A x \in Closer : At(x, "producer") /\ closing[x].entry = connections[j]
                        => closing'[x] = closing[x]
    BY <1>b, <1>g, <2>1, Closers
    DEF ClosersDiffer, Committed, CallsSound, EntriesSound, CallClosersSound, At, DisposersSound
  <2> QED
    BY <2>1, UsableIf
<1> QED
  BY <1>1, <1>2, <1>3, <1>4, <1>5, <1>6, <1>7, <1>8, <1>9, <1>10, <1>11, <1>12 DEF Rest

(* The stop drops every claim and notes their producers.                   *)
LEMMA StopClaimsKeeps ==
  ASSUME IInv, TypeOK', StopClaims
  PROVE  Rest'
<1> USE KafkaAssumption DEF IInv, TypeOK, Closes, Idle, StopClaims, EmptyMap,
        boundVars, fieldVars, stopVars
<1>0. Kept
  BY DEF CallsSound, Kept, Committed
<1>1. CallsSound'
  BY <1>0 DEF CallsSound, Kept
<1>2. ConsumersSound'
  BY DEF CallsSound, ConsumersSound
<1>3. ClaimsSound'
  BY DEF CallsSound, ClaimsSound, SweepSound, Committed
<1>4. EntriesSound'
  BY <1>0 DEF CallsSound, ClaimsSound, EntriesSound, BoundAreAlive, Kept,
     Committed
<1>5. BoundAreAlive'
  BY DEF BoundAreAlive
<1>6. ClosersSound'
  BY <1>0 DEF CallsSound, EntriesSound, ClosersSound, Kept, Committed
<1>7. CallClosersSound'
  BY Closers DEF CallsSound, CallClosersSound, ClosersDiffer
<1>8. DisposersSound'
  BY Closers DEF CallsSound, EntriesSound, ClosersSound, DisposersSound,
     Committed, ClosersDiffer
<1>9. ReplacersSound'
  BY DEF CallsSound, EntriesSound, ReplacersSound, HoldsClaim, Committed
<1>10. SweepSound'
  BY <1>0 DEF CallsSound, SweepSound, Kept, Probed, Entries, KeysIn
<1>11. ProducerTracked'
  BY Closers DEF CallsSound, CallClosersSound, ClosersSound,
     ProducerTracked, WillCloseProducer, ClosesProducer, At, ClosersDiffer
<1>12. RegisteredIsUsable'
  BY Closers DEF CallsSound, ClaimsSound, EntriesSound, RegisteredIsUsable,
     KeysIn, At, Committed, ClosersDiffer
<1> QED
  BY <1>1, <1>2, <1>3, <1>4, <1>5, <1>6, <1>7, <1>8, <1>9, <1>10, <1>11, <1>12 DEF Rest

(* The stop closes a producer that still probes.                           *)
LEMMA StopProducerKeeps ==
  ASSUME IInv, TypeOK', NEW c \in Call, StopProducer(c)
  PROVE  Rest'
<1> USE KafkaAssumption DEF IInv, TypeOK, Closes, Idle, StopProducer, Shut,
        boundVars, fieldVars, stopVars
<1>0. Kept
  BY DEF CallsSound, Kept, Committed
<1>1. CallsSound'
  BY <1>0 DEF CallsSound, Kept
<1>2. ConsumersSound'
  BY DEF CallsSound, ConsumersSound
<1>3. ClaimsSound'
  BY DEF CallsSound, ClaimsSound, SweepSound, Committed
<1>4. EntriesSound'
  BY <1>0 DEF CallsSound, ClaimsSound, EntriesSound, BoundAreAlive, Kept,
     Committed
<1>5. BoundAreAlive'
  BY DEF BoundAreAlive
<1>6. ClosersSound'
  BY <1>0 DEF CallsSound, EntriesSound, ClosersSound, Kept, Committed
<1>7. CallClosersSound'
  BY Closers DEF CallsSound, CallClosersSound, ClosersDiffer
<1>8. DisposersSound'
  BY Closers DEF CallsSound, EntriesSound, ClosersSound, DisposersSound,
     Committed, ClosersDiffer
<1>9. ReplacersSound'
  BY DEF CallsSound, EntriesSound, ReplacersSound, HoldsClaim, Committed
<1>10. SweepSound'
  BY <1>0, Closers DEF CallsSound, EntriesSound, SweepSound, ClosersSound,
     Kept, Committed, ClosersDiffer
<1>11. ProducerTracked'
  BY Closers DEF CallsSound, CallClosersSound, ClosersSound,
     ProducerTracked, WillCloseProducer, ClosesProducer, At, ClosersDiffer
<1>12. RegisteredIsUsable'
  BY Closers DEF CallsSound, ClaimsSound, EntriesSound, RegisteredIsUsable,
     KeysIn, At, Committed, ClosersDiffer
<1> QED
  BY <1>1, <1>2, <1>3, <1>4, <1>5, <1>6, <1>7, <1>8, <1>9, <1>10, <1>11, <1>12 DEF Rest

(* The stop starts to close an entry once the one before is closed.        *)
LEMMA StopEntryKeeps ==
  ASSUME IInv, TypeOK', NEW e \in Call, StopEntry(e)
  PROVE  Rest'
<1> USE KafkaAssumption DEF IInv, TypeOK, Closes, Idle, StopEntry, StopReady,
        boundVars, fieldVars, stopVars
<1>a. OnlyConsumersClose
  BY BeginShuts
<1>b. e \in Entries(connections) /\ Committed(e)
  BY DEF Unswept, Entries, KeysIn, EntriesSound, Committed
<1>c. closing' = [closing EXCEPT ![Stopper] = [entry |-> e, stage |-> FirstStage(e)]]
  BY DEF Begin
<1>d. FirstStage(e) \in {"stream", "consumer", "drained"}
  BY FirstStageFacts
<1> USE <1>a, <1>b, <1>c, <1>d DEF OnlyConsumersClose
<1>0. Kept
  BY DEF CallsSound, Kept, Committed
<1>1. CallsSound'
  <2> SUFFICES ASSUME NEW d \in Call PROVE CallsSound!(d)'
    BY DEF CallsSound
  <2>1. CallsSound!(d)
    BY DEF CallsSound
  <2> QED
    BY <1>0, <2>1 DEF Kept
<1>2. ConsumersSound'
  BY DEF CallsSound, ConsumersSound
<1>3. ClaimsSound'
  BY DEF CallsSound, ClaimsSound, SweepSound, Committed
<1>4. EntriesSound'
  BY <1>0 DEF CallsSound, ClaimsSound, EntriesSound, BoundAreAlive, Kept,
     Committed
<1>5. BoundAreAlive'
  BY DEF BoundAreAlive
<1>6. ClosersSound'
  BY <1>0 DEF CallsSound, EntriesSound, ClosersSound, Kept, Committed
<1>7. CallClosersSound'
  BY Closers DEF CallsSound, CallClosersSound, ClosersDiffer
<1>8. DisposersSound'
  BY Closers DEF CallsSound, EntriesSound, ClosersSound, DisposersSound,
     Committed, ClosersDiffer
<1>9. ReplacersSound'
  BY DEF CallsSound, EntriesSound, ReplacersSound, HoldsClaim, Committed
<1>10. SweepSound'
  <2>1. ASSUME NEW d \in swept, d # e PROVE Committed(d)' /\ client'[d] = "closed"
    <3>1. client[d] = "closed"
      BY <2>1 DEF SweepSound, StopReady, ClosersSound
    <3> QED
      BY <1>0, <2>1, <3>1 DEF SweepSound, Kept, Committed
  <2>2. Committed(e)' /\ closing'[Stopper] = [entry |-> e, stage |-> FirstStage(e)]
    BY <1>0, Closers DEF Kept, ClosersDiffer
  <2> QED
    BY <2>1, <2>2 DEF SweepSound
<1>11. ProducerTracked'
  <2>1. \A x \in Closer :
           AtWork(x) => GoesOn(x) \/ client'[closing[x].entry] # "producer"
    BY Closers DEF ClosersDiffer, AtWork, GoesOn, ClosesProducer, At
  <2>2. \A d \in Call : client'[d] = "producer" =>
           \/ pc'[d] = "probing"
           \/ connections'[keyOf'[d]] = d
           \/ \E x \in Closer : closing'[x].entry = d /\ AtWork(x)'
           \/ client[d] = "producer" /\ connections[keyOf[d]] # d /\ pc[d] # "probing"
    BY DEF CallsSound, EntriesSound, ClosersSound, CallClosersSound
  <2> QED
    BY <2>1, <2>2, TrackedIf
<1>12. RegisteredIsUsable'
  <2>1. ASSUME NEW j \in Key, connections'[j] # None
        PROVE  \/ client'[connections'[j]] = "producer"
               \/ \E x \in Closer : closing'[x] = [entry |-> connections'[j], stage |-> "producer"]
               \/ stop' \in {"claims", "entries"}
               \/ /\ connections'[j] = connections[j]
                  /\ client[connections[j]] # "producer"
                  /\ stop \notin {"claims", "entries"}
                  /\ \A x \in Closer : At(x, "producer") /\ closing[x].entry = connections[j]
                        => closing'[x] = closing[x]
    BY <2>1, Closers
    DEF ClosersDiffer, Committed, CallsSound, EntriesSound, CallClosersSound, At
  <2> QED
    BY <2>1, UsableIf
<1> QED
  BY <1>1, <1>2, <1>3, <1>4, <1>5, <1>6, <1>7, <1>8, <1>9, <1>10, <1>11, <1>12 DEF Rest

(* The registry is cleared when every entry in it has been passed.         *)
LEMMA StoppedKeeps ==
  ASSUME IInv, TypeOK', Stopped
  PROVE  Rest'
<1> USE KafkaAssumption DEF IInv, TypeOK, Closes, Idle, Stopped, StopReady,
        EmptyMap, Unswept, Finish, boundVars, fieldVars, stopVars
<1>0. Kept
  BY DEF CallsSound, Kept, Committed
<1>1. CallsSound'
  BY <1>0 DEF CallsSound, Kept
<1>2. ConsumersSound'
  BY DEF CallsSound, ConsumersSound
<1>3. ClaimsSound'
  BY DEF CallsSound, ClaimsSound, SweepSound, Committed
<1>4. EntriesSound'
  BY <1>0 DEF CallsSound, ClaimsSound, EntriesSound, BoundAreAlive, Kept,
     Committed
<1>5. BoundAreAlive'
  BY DEF BoundAreAlive
<1>6. ClosersSound'
  BY <1>0 DEF CallsSound, EntriesSound, ClosersSound, Kept, Committed
<1>7. CallClosersSound'
  BY Closers DEF CallsSound, CallClosersSound, ClosersDiffer
<1>8. DisposersSound'
  BY Closers DEF CallsSound, EntriesSound, ClosersSound, DisposersSound,
     Committed, ClosersDiffer
<1>9. ReplacersSound'
  BY DEF CallsSound, EntriesSound, ReplacersSound, HoldsClaim, Committed
<1>10. SweepSound'
  BY SMTT(40), <1>0, Closers DEF CallsSound, EntriesSound, SweepSound, ClosersSound,
     Kept, Committed, ClosersDiffer
<1>11. ProducerTracked'
  <2>1. \A x \in Closer :
           AtWork(x) => GoesOn(x) \/ client'[closing[x].entry] # "producer"
    BY Closers DEF ClosersDiffer, AtWork, GoesOn, ClosesProducer, At, SweepSound
  <2>2. \A d \in Call : client'[d] = "producer" =>
           \/ pc'[d] = "probing"
           \/ connections'[keyOf'[d]] = d
           \/ \E x \in Closer : closing'[x].entry = d /\ AtWork(x)'
           \/ client[d] = "producer" /\ connections[keyOf[d]] # d /\ pc[d] # "probing"
    BY DEF CallsSound, EntriesSound, ClosersSound, CallClosersSound, SweepSound, Entries, KeysIn
  <2> QED
    BY <2>1, <2>2, TrackedIf
<1>12. RegisteredIsUsable'
  BY Closers DEF CallsSound, ClaimsSound, EntriesSound, RegisteredIsUsable,
     KeysIn, At, Committed, ClosersDiffer
<1> QED
  BY <1>1, <1>2, <1>3, <1>4, <1>5, <1>6, <1>7, <1>8, <1>9, <1>10, <1>11, <1>12 DEF Rest

-------------------------------------------------------------------------------
(* The inductive invariant, and the safety properties that are part of it  *)
(* or that it implies.                                                     *)
THEOREM Invariance == Spec => []IInv
<1>1. Init => IInv
  <2> SUFFICES ASSUME Init PROVE IInv
    OBVIOUS
  <2>1. TypeOK
    BY KafkaAssumption DEF Init, TypeOK, EmptyMap, Call, Idle
  <2>2. \A c \in Call : CallCloser(c) \in Closer /\ Disposer(c) \in Closer
    BY Closers DEF ClosersDiffer
  <2>3. Rest
    BY <2>2, KafkaAssumption
    DEF Init, EmptyMap, Call, Idle, Rest, CallsSound, ConsumersSound, ClaimsSound,
        EntriesSound, BoundAreAlive, ClosersSound, CallClosersSound, DisposersSound,
        ReplacersSound, SweepSound, ProducerTracked, RegisteredIsUsable, KeysIn, Closes
  <2> QED
    BY <2>1, <2>3 DEF IInv, Rest
<1>2. IInv /\ TypeOK' /\ [Next]_vars => IInv'
  <2> SUFFICES ASSUME IInv, TypeOK', [Next]_vars PROVE Rest'
    BY DEF IInv, Rest
  <2>1. ASSUME NEW c \in Call, NEW k \in Key, Request(c, k) PROVE Rest'
    BY <2>1, RejectKeeps, ConnectKeeps, ReconnectKeeps, SubscribeKeeps, CloseRequestKeeps
    DEF Request
  <2>2. ASSUME NEW c \in Call, Resume(c) PROVE Rest'
    BY <2>2, ReplacedKeeps, ReplaceFailedKeeps, CommitKeeps, DiscardKeeps, DiscardedKeeps,
       AttachKeeps, SubscribeFailedKeeps, UnsubscribedKeeps, DisconnectedKeeps
    DEF Resume
  <2>3. ASSUME NEW x \in Closer, Close(x) PROVE Rest'
    BY <2>3, StreamClosedKeeps, ConsumerClosedKeeps, ProducerClosingKeeps,
       DisposeFinishedKeeps DEF Close
  <2>4. ASSUME NEW o \in Owner, Destroyed(o) PROVE Rest'
    BY <2>4, DestroyedKeeps
  <2>5. CASE Stop
    BY <2>5, StopClaimsKeeps, StopProducerKeeps, StopEntryKeeps, StoppedKeeps DEF Stop
  <2>6. CASE UNCHANGED vars
    BY <2>6
    DEF vars, boundVars, fieldVars, stopVars, IInv, Rest, CallsSound, ConsumersSound,
        ClaimsSound, EntriesSound, BoundAreAlive, ClosersSound, CallClosersSound,
        DisposersSound, ReplacersSound, SweepSound, ProducerTracked, RegisteredIsUsable,
        Committed, Closes, HoldsClaim, WillCloseProducer, ClosesProducer, At, KeysIn
  <2> QED
    BY <2>1, <2>2, <2>3, <2>4, <2>5, <2>6 DEF Next
<1> QED
  BY <1>1, <1>2, TypeCorrect, PTL DEF Spec

(* No open producer is ever lost, through every overlap of connects,       *)
(* teardowns and the final stop.                                           *)
THEOREM ProducerIsTracked == Spec => []ProducerTracked
<1>1. IInv => ProducerTracked
  BY DEF IInv
<1> QED
  BY <1>1, Invariance, PTL

(* A registered entry has an open producer unless someone is closing it.   *)
THEOREM EntriesAreUsable == Spec => []RegisteredIsUsable
<1>1. IInv => RegisteredIsUsable
  BY DEF IInv
<1> QED
  BY <1>1, Invariance, PTL

(* Nothing of a destroyed renderer stays in the registry, nor is anything  *)
(* put there for it later: who has a claim or an entry has a listener, and *)
(* only a living renderer has one.                                         *)
THEOREM DestroyedOwnNothing == Spec => []DeadOwnNothing
<1>1. IInv => DeadOwnNothing
  BY DEF IInv, DeadOwnNothing, ClaimsSound, EntriesSound, BoundAreAlive
<1> QED
  BY <1>1, Invariance, PTL

-------------------------------------------------------------------------------
(* The cap holds on both sides of the awaits.                              *)

(* Renderers and ids are finitely many, and so are the keys.               *)
LEMMA KeyIsFinite == IsFiniteSet(Key)
  BY KafkaAssumption, FS_Product DEF Key

(* A commit turns its claim into an entry: the sum does not change.        *)
LEMMA CommitFitsCap ==
  ASSUME IInv, WithinCap, NEW c \in Call, Commit(c)
  PROVE  WithinCap'
<1> USE KeyIsFinite, KafkaAssumption
<1>1. /\ Size(connections) \in Nat /\ Size(pending) \in Nat
  BY SizeIsNat
<1>2. /\ keyOf[c] \in Key /\ pending[keyOf[c]] = c /\ c # None
      /\ connections[keyOf[c]] = None
  BY DEF Commit, HoldsClaim, IInv, TypeOK, CallsSound
<1>3. connections' = Put(connections, keyOf[c], c) /\ pending' = Drop(pending, keyOf[c])
  BY DEF Commit, HoldsClaim, Release
<1>4. /\ pending = [j \in Key |-> pending[j]]
      /\ connections = [j \in Key |-> connections[j]]
  BY DEF IInv, TypeOK
<1>5. Size(connections') = Size(connections) + 1
  BY <1>2, <1>3, <1>4, SizeOfPut
<1>6. Size(pending') = Size(pending) - 1
  BY <1>2, <1>3, <1>4, SizeOfDrop
<1> QED
  BY <1>1, <1>5, <1>6 DEF WithinCap

(* Entries and claims together never exceed the cap: the check before the  *)
(* awaits counts both, and a claim becomes an entry only at the commit.    *)
THEOREM CapIsKept == Spec => []WithinCap
<1> USE KeyIsFinite, KafkaAssumption
<1>1. Init => WithinCap
  BY SizeEmpty DEF Init, WithinCap
<1>2. IInv /\ WithinCap /\ [Next]_vars => WithinCap'
  <2> SUFFICES ASSUME IInv, WithinCap, [Next]_vars PROVE WithinCap'
    OBVIOUS
  <2>1. /\ Size(connections) \in Nat /\ Size(pending) \in Nat
        /\ Size(connections') \in Nat /\ Size(pending') \in Nat
    BY SizeIsNat
  <2>2. /\ pending = [j \in Key |-> pending[j]]
        /\ connections = [j \in Key |-> connections[j]]
    BY DEF IInv, TypeOK
  <2>3. ASSUME Size(connections') <= Size(connections), Size(pending') <= Size(pending)
        PROVE  WithinCap'
    BY <2>1, <2>3 DEF WithinCap
  <2>4. ASSUME NEW c \in Call, NEW k \in Key, Connect(c, k) \/ Reconnect(c, k)
        PROVE  WithinCap'
    <3>1. /\ pending' = Put(pending, k, c) /\ pending[k] = None /\ c # None
          /\ HasRoom /\ connections' = connections
      BY <2>4 DEF Connect, Reconnect
    <3>2. Size(pending') = Size(pending) + 1
      BY <2>2, <3>1, SizeOfPut
    <3> QED
      BY <2>1, <3>1, <3>2 DEF HasRoom, WithinCap
  <2>5. ASSUME NEW c \in Call, pc[c] # "idle"
        PROVE  /\ Size(Drop(connections, keyOf[c])) <= Size(connections)
               /\ Size(Drop(pending, keyOf[c])) <= Size(pending)
    <3>1. keyOf[c] \in Key
      BY <2>5 DEF IInv, TypeOK, CallsSound
    <3> QED
      BY <2>1, <2>2, <3>1, SizeOfDrop
  <2>6. ASSUME NEW c \in Call,
               Replaced(c) \/ ReplaceFailed(c) \/ Discarded(c) \/ Disconnected(c)
        PROVE  WithinCap'
    <3>1. pc[c] # "idle"
      BY <2>6 DEF Replaced, ReplaceFailed, Discarded, Disconnected
    <3>2. connections' \in {connections, Drop(connections, keyOf[c])}
      BY <2>6 DEF Replaced, ReplaceFailed, Discarded, Disconnected
    <3>3. pending' \in {pending, Drop(pending, keyOf[c])}
      BY <2>6 DEF Replaced, ReplaceFailed, Discarded, Disconnected, Release
    <3> QED
      BY <2>1, <2>3, <2>5, <3>1, <3>2, <3>3
  <2>7. ASSUME NEW c \in Call, Commit(c) PROVE WithinCap'
    BY <2>7, CommitFitsCap
  <2>8. ASSUME NEW o \in Owner, Destroyed(o) PROVE WithinCap'
    <3>1. pending' \in {pending, WithoutOwner(pending, o)}
      BY <2>8 DEF Destroyed, AfterDestroyed
    <3>2. connections' \in {connections, WithoutOwner(connections, o)}
      BY <2>8 DEF Destroyed, AfterDestroyed
    <3> QED
      BY <2>1, <2>3, <3>1, <3>2, SizeWithoutOwner
  <2>9. ASSUME StopClaims PROVE WithinCap'
    BY <2>1, <2>9, SizeEmpty DEF StopClaims, WithinCap
  <2>10. ASSUME Stopped PROVE WithinCap'
    BY <2>1, <2>10, SizeEmpty DEF Stopped, WithinCap
  <2>11. ASSUME UNCHANGED <<pending, connections>> PROVE WithinCap'
    BY <2>11 DEF WithinCap
  <2>12. ASSUME NEW c \in Call, NEW k \in Key, Request(c, k) PROVE WithinCap'
    BY <2>4, <2>11, <2>12
    DEF Request, Reject, Subscribe, Unsubscribe, Disconnect, CloseRequest
  <2>13. ASSUME NEW c \in Call, Resume(c) PROVE WithinCap'
    BY <2>6, <2>7, <2>11, <2>13
    DEF Resume, Discard, Attach, SubscribeFailed, Unsubscribed
  <2>14. ASSUME NEW x \in Closer, Close(x) PROVE WithinCap'
    BY <2>11, <2>14
    DEF Close, StreamClosed, ConsumerClosed, ProducerClosing, DisposeFinished
  <2>15. ASSUME Stop PROVE WithinCap'
    BY <2>9, <2>10, <2>11, <2>15 DEF Stop, StopProducer, StopEntry
  <2> QED
    BY <2>8, <2>11, <2>12, <2>13, <2>14, <2>15 DEF Next, vars
<1> QED
  BY <1>1, <1>2, Invariance, PTL DEF Spec
================================================================================
