----------------------------- MODULE MCTransports -----------------------------
(***************************************************************************)
(* The WebSocket, MQTT, Socket.IO, MCP, HTTP and AI handlers, the messages *)
(* of a Kafka consumer and the gRPC Connect transport for TLC.  Each has   *)
(* state of its own, so a behaviour is one of a single transport and the   *)
(* others stay as they began.                                              *)
(***************************************************************************)
EXTENDS ConnectionClaims, GrpcConnect

CONSTANTS MaxAcks, MaxRedirects, MaxSlots, MaxMessages, MaxTokens,
          StreamId \* bound: the ids of all but completions, which share a queue

VARIABLES transport, explicit, openOrClosed, closer, stopping, swept, ackOn,
          pendingAcks, timers, ackTold, disowned, activeRequests, signalled, redirects, cancelledGenerations,
          activeCompletes, inUse, waiters,
          connected, stream, consumer, manualCommit, consumerClose, arrivals, emitChain,
          received, pendingCommits, tokened, committing, committed

WebSocket == INSTANCE WebSocketRefinement WITH sock <- conn, told <- openOrClosed
Mqtt == INSTANCE MqttHandler
SocketIo == INSTANCE SocketIoHandler
Mcp == INSTANCE McpHandler
Http == INSTANCE HttpHandler
Ai == INSTANCE AiStreams
Lab == INSTANCE AiCompletions
Delivery == INSTANCE KafkaDelivery

ASSUME TransportsAssumption ==
    /\ MaxTokens \in Nat /\ MaxSlots \in Nat
    /\ None \notin WebSocket!Emission

webSocketVars == <<explicit, openOrClosed>>
requestVars == <<activeRequests, signalled, redirects>>
completeVars == <<activeCompletes, inUse, waiters>>
aiVars == <<cancelledGenerations, completeVars>>
deliveryVars == <<connected, stream, consumer, manualCommit, consumerClose, arrivals,
                  emitChain, received, pendingCommits, tokened, committing, committed>>

connVars == <<claimVars, webSocketVars, closer, stopping, swept, ackOn,
              pendingAcks, timers, ackTold, disowned, requestVars, aiVars>>

(* A stream that nobody touches is one the writes of which need no queue.  *)
TransportsInit ==
    /\ transport \in {"websocket", "mqtt", "socketio", "mcp", "http", "ai", "lab",
                     "kafka", "grpc"}
    /\ Init
    /\ transport # "grpc" => kind = "server-streaming" /\ attempts = 1
    /\ explicit = [c \in Call |-> FALSE]
    /\ openOrClosed = [c \in Call |-> "nothing"]
    /\ Mqtt!MqttInit
    /\ SocketIo!AckInit
    /\ disowned = {}
    /\ Http!HttpInit
    /\ Ai!AiInit
    /\ Lab!LabInit
    /\ Delivery!DeliveryInit

(* Bound: only completions, which queue across their ids, need them all.   *)
FewIds == transport # "lab" => \A c \in Call : keyOf'[c] \in {None} \cup (Owner \X StreamId)

TransportsNext ==
    /\ UNCHANGED transport
    /\ transport # "kafka" => UNCHANGED deliveryVars
    /\ transport # "websocket" => UNCHANGED webSocketVars
    /\ \/ /\ transport = "websocket"
          /\ WebSocket!Next
          /\ UNCHANGED <<vars, closer, stopping, swept, ackOn, pendingAcks, timers,
                         ackTold, disowned, requestVars, aiVars>>
       \/ /\ transport = "mqtt"
          /\ Mqtt!MqttNext
          /\ UNCHANGED <<vars, ackOn, pendingAcks, timers, ackTold, disowned,
                         requestVars, aiVars>>
       \/ /\ transport = "socketio"
          /\ SocketIo!SocketIoNext
          /\ UNCHANGED <<vars, closer, stopping, swept, disowned, requestVars, aiVars>>
       \/ /\ transport = "mcp"
          /\ Mcp!McpNext
          /\ UNCHANGED <<vars, closer, stopping, swept, ackOn, pendingAcks, timers,
                         ackTold, requestVars, aiVars>>
       \/ /\ transport = "http"
          /\ Http!HttpNext
          /\ UNCHANGED <<vars, closer, stopping, swept, ackOn, pendingAcks, timers,
                         ackTold, disowned, aiVars>>
       \/ /\ transport = "ai"
          /\ Ai!AiNext
          /\ UNCHANGED <<vars, closer, stopping, swept, ackOn, pendingAcks, timers,
                         ackTold, disowned, requestVars, completeVars>>
       \/ /\ transport = "lab"
          /\ Lab!LabNext
          /\ UNCHANGED <<vars, closer, stopping, swept, ackOn, pendingAcks, timers,
                         ackTold, disowned, activeRequests, redirects,
                         cancelledGenerations>>
       \/ /\ transport = "kafka"
          /\ Delivery!DeliveryNext
          /\ UNCHANGED <<vars, connVars>>
       \/ /\ transport = "grpc"
          /\ Next
          /\ UNCHANGED connVars
    /\ FewIds

(* DNS and the library loader settle; `ws` closes what it was told to      *)
(* close, with a timer for a stalled closing handshake (see the comment at *)
(* ws:disconnect); forced ends call back, timers fire, a handshake ends or *)
(* exceeds its timeout, and so does a fetch; the reply of an AI provider   *)
(* ends once it is aborted.                                                *)
TransportsFairness ==
    /\ Fairness
    /\ \A c \in Call :
          /\ WF_<<claimVars, webSocketVars>>(transport = "websocket" /\ WebSocket!Resume(c))
          /\ WF_<<claimVars, webSocketVars>>(transport = "websocket" /\ WebSocket!Closed(c))
          /\ WF_<<claimVars, Mqtt!mqttVars>>(transport = "mqtt" /\ Mqtt!Forced(c))
          /\ WF_<<claimVars, Mqtt!mqttVars>>(transport = "mqtt" /\ Mqtt!StopNextEntry(c))
          /\ WF_<<claimVars, SocketIo!ackVars>>(transport = "socketio" /\ SocketIo!Resume(c))
          /\ WF_<<claimVars, disowned>>(transport = "mcp" /\ Mcp!Resume(c))
          /\ WF_<<claimVars, Http!httpVars>>(transport = "http" /\ Http!Settles(c))
          /\ WF_<<claimVars, cancelledGenerations>>(transport = "ai" /\ Ai!Unwinds(c))
          /\ WF_<<claimVars, Lab!labVars>>(transport = "lab" /\ Lab!Unwinds(c))
    /\ WF_<<claimVars, Mqtt!mqttVars>>(transport = "mqtt" /\ Mqtt!StopEnd)
    /\ \A a \in SocketIo!Ack :
          WF_<<claimVars, SocketIo!ackVars>>(transport = "socketio" /\ SocketIo!AckTimeout(a))

TransportsSpec ==
    TransportsInit /\ [][TransportsNext]_<<transport, vars, connVars, deliveryVars>> /\ TransportsFairness

-------------------------------------------------------------------------------
TransportsTypeOK ==
    /\ TypeOK
    /\ made \in 0 .. MaxCalls
    /\ pc \in [Call -> {"idle", "ending", "resolving", "loading", "connecting", "ok",
                        "failed", "preparing", "tunnelling", "fetching", "responding",
                        "waiting", "completing"}]
    /\ keyOf \in [Call -> Key \cup {None}]
    /\ ownerEntry \in [Call -> Call \cup {None}]
    /\ pending \in [Key -> Call \cup {None}]
    /\ connections \in [Key -> Call \cup {None}]
    /\ claimBound \subseteq Owner /\ entryBound \subseteq Owner /\ alive \subseteq Owner
    /\ conn \in [Call -> {"none", "up", "ended", "opening", "open", "over",
                          "aborted", "connecting", "closing", "terminated", "closed"}]
    /\ explicit \in [Call -> BOOLEAN]
    /\ IF transport = "websocket" THEN io \in WebSocket!Emission \cup {None}
                                  ELSE io \in Call \cup {None}
    /\ ClaimsSound

(* What runs can be reached by its renderer, and is torn down with it and  *)
(* with the application, in each handler; see the handlers for the terms.  *)
Tracked ==
    /\ transport = "websocket" => WebSocket!Tracked
    /\ transport = "mqtt" => Mqtt!MqttTracked
    /\ transport = "socketio" => SocketIo!SocketIoTracked
    /\ transport = "mcp" => Mcp!McpTracked
    /\ transport = "http" => Http!HttpTracked
    /\ transport = "ai" => Ai!AiTracked
    /\ transport = "lab" => Lab!LabTracked

(* Socket.IO acknowledgements are answered once and never lost, and the    *)
(* messages of a Kafka consumer arrive in order with tokens that last.     *)
DeliveredOnce == SocketIo!AcksSound /\ Delivery!DeliverySound

(* A disconnect of an MCP id outlives the connects it overtook.            *)
DisconnectIsFinal == Mcp!DisconnectIsFinal

StatusOf(c) ==
    CASE transport = "websocket" -> WebSocket!StatusOf(c)
      [] transport = "mqtt" -> Mqtt!MqttStatus(c)
      [] transport = "socketio" -> SocketIo!SocketIoStatus(c)
      [] transport = "mcp" -> Mcp!McpStatus(c)
      [] transport = "ai" -> Ai!AiStatus(c)
      [] OTHER -> "new"

(* The session of a claim may speak before it has its slot (MCP).          *)
Speaker ==
    IF io = None THEN None
    ELSE IF transport = "websocket" THEN io.from
    ELSE IF StatusOf(io) = "new" THEN None ELSE io

(* A cancelled AI stream has left the registry but not had its last word.  *)
Slot == IF transport = "ai" THEN Ai!AiSlot ELSE connections

Registry == INSTANCE ConnectionRegistry WITH
    Conn <- Call,
    slot <- Slot,
    status <- [c \in Call |-> StatusOf(c)],
    present <- alive,
    speaker <- Speaker

(* WebSocket, MQTT, Socket.IO, MCP and AI keep the promise of the abstract *)
(* registry.                                                               *)
ImplementsRegistry == Registry!CSpec

(* A claim is always given back, so no id stays blocked; a WebSocket that  *)
(* was disconnected or replaced leaves the registry; an event sent         *)
(* with an ackId is answered unless its connection goes; an HTTP request   *)
(* is answered, aborted or not, and an aborted AI call ends.  Calls and    *)
(* events being bounded: in the end nothing is claimed or waited for.      *)
NothingHangs ==
    <>[](/\ pending = EmptyMap /\ pendingAcks = {}
         /\ transport = "websocket" =>
               \A c \in Call : explicit[c] => c \notin Entries(connections)
         /\ transport = "http" => Http!HttpSettled
         /\ transport = "ai" => Ai!AiSettled
         /\ transport = "lab" => Lab!LabSettled)
===============================================================================
