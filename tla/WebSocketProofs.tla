---------------------------- MODULE WebSocketProofs ----------------------------
(***************************************************************************)
(* Theorems about WebSocketHandler, for any renderers, ids, number of      *)
(* calls and cap: the safety properties its runs check, and the refinement *)
(* of ConnectionRegistry.                                                  *)
(***************************************************************************)
EXTENDS WebSocketRefinement, StreamRegistryProofs

(* A key belongs to a renderer.                                            *)
LEMMA CallKeys == ASSUME NEW k \in Key PROVE OwnerOf(k) \in Owner
  BY DEF Key, OwnerOf

(* Every variable keeps its type: a call, a key and an entry are never     *)
(* confused, whichever handler or socket event runs.                       *)
THEOREM TypeCorrect == Spec => []TypeOK
<1> USE DEF SockState, Emission
<1>1. Init => TypeOK
  BY BoundsAssumption DEF Init, TypeOK, EmptyMap, Call
<1>2. TypeOK /\ [Next]_vars => TypeOK'
  <2> SUFFICES ASSUME TypeOK, [Next]_vars PROVE TypeOK'
    OBVIOUS
  <2> USE CallKeys, NoneAssumption DEF TypeOK
  <2>1. ASSUME NEW c \in Call, NEW k \in Key, Reject(c, k) PROVE TypeOK'
    BY <2>1, BoundsAssumption DEF Reject, Arrive, Call
  <2>2. ASSUME NEW c \in Call, NEW k \in Key, Reserve(c, k) PROVE TypeOK'
    <3>1. pending' \in [Key -> Call \cup {None}]
      BY <2>2 DEF Reserve, Put, TeardownIfDead, WithoutOwner
    <3>2. claimBound' \in SUBSET Owner
      BY <2>2 DEF Reserve, Bind
    <3>3. ownerEntry' \in [Call -> Call \cup {None}]
      BY <2>2 DEF Reserve
    <3> QED
      BY <2>2, <3>1, <3>2, <3>3, BoundsAssumption DEF Reserve, Arrive, Call
  <2>3. ASSUME NEW c \in Call, GiveUp(c) PROVE TypeOK'
    BY <2>3 DEF GiveUp, Reply, Release, HoldsClaim, Drop
  <2>4. ASSUME NEW c \in Call, Commit(c) PROVE TypeOK'
    <3>1. keyOf[c] \in Key /\ OwnerOf(keyOf[c]) \in Owner
      BY <2>4 DEF Commit
    <3>2. pending' \in [Key -> Call \cup {None}]
      BY <2>4, <3>1 DEF Commit, Release, HoldsClaim, Drop
    <3>3. CASE CommitReplacing(c)
      BY <2>4, <3>1, <3>2, <3>3
      DEF Commit, CommitReplacing, Put, Terminated, AfterTerminate, Flagged, Reply
    <3>4. CASE CommitAdding(c)
      BY <2>4, <3>1, <3>2, <3>4
      DEF Commit, CommitAdding, Put, TeardownIfDead, WithoutOwner, Bind, Reply
    <3>5. CASE CommitRefused(c)
      BY <2>4, <3>1, <3>2, <3>5 DEF Commit, CommitRefused, Flagged, Reply
    <3> QED
      BY <2>4, <3>3, <3>4, <3>5 DEF Commit
  <2>5. ASSUME NEW c \in Call, SocketEvent(c) PROVE TypeOK'
    <3>1. CASE Opened(c)
      BY <3>1 DEF Opened, Emit
    <3>2. CASE MessageReceived(c)
      BY <3>2 DEF MessageReceived, Emit
    <3>3. CASE Errored(c)
      BY <3>3 DEF Errored, Emit, Running, AfterClose
    <3>4. CASE PeerCloses(c)
      BY <3>4 DEF PeerCloses
    <3>5. CASE Closed(c)
      BY <3>5 DEF Closed, Emit, Drop, Ending
    <3> QED
      BY <2>5, <3>1, <3>2, <3>3, <3>4, <3>5 DEF SocketEvent
  <2>6. ASSUME NEW k \in Key, Request(k) PROVE TypeOK'
    <3>1. CASE Send(k)
      BY <2>6, <3>1 DEF Send
    <3>2. CASE Disconnect(k)
      <4>1. connections[k] \in Call
        BY <3>2 DEF Disconnect
      <4> QED
        BY <3>2, <4>1 DEF Disconnect, Flagged, AfterClose
    <3> QED
      BY <2>6, <3>1, <3>2 DEF Request
  <2>7. ASSUME NEW o \in Owner, Destroyed(o) PROVE TypeOK'
    BY <2>7 DEF Destroyed, AfterDestroyed, WithoutOwner, Dispose, Terminated,
                AfterTerminate, Flagged
  <2>8. CASE Stop
    BY <2>8 DEF Stop, EmptyMap, Dispose, Terminated, AfterTerminate, Flagged
  <2>9. CASE UNCHANGED vars
    BY <2>9 DEF vars
  <2> QED
    BY <2>1, <2>2, <2>3, <2>4, <2>5, <2>6, <2>7, <2>8, <2>9
    DEF Next, Connect, Resume
<1> QED
  BY <1>1, <1>2, PTL DEF Spec

-------------------------------------------------------------------------------
(* One lemma per group of actions: each preserves the inductive invariant. *)

(* IInv without the typing, which TypeCorrect already gives.               *)
Rest == ClaimsSound /\ EntriesSound /\ BoundAreAlive /\ SocketsSound
        /\ Tracked /\ NoSilentEnd /\ ChannelDiscipline

(* A disposed entry is a current one: what a teardown hands to dispose.    *)
LEMMA Disposed ==
  ASSUME IInv, NEW c \in Call
  PROVE  /\ sock[c] # "none" => keyOf[c] \in Key
         /\ c \in Entries(connections) <=> keyOf[c] \in Key /\ IsCurrent(c)
         /\ \A o \in Owner : c \in OwnedBy(connections, o) <=>
                /\ keyOf[c] \in Key /\ IsCurrent(c)
                /\ OwnerOf(keyOf[c]) = o
  BY NoneAssumption
  DEF IInv, TypeOK, EntriesSound, Entries, OwnedBy, KeysIn, IsCurrent

(* A connect answered before it claims its key changes no registry.        *)
LEMMA RejectKeeps ==
  ASSUME IInv, TypeOK', NEW c \in Call, NEW k \in Key, Reject(c, k)
  PROVE  Rest'
<1> USE NoneAssumption DEF IInv, TypeOK, SockState, Emission, Reject, Arrive, Call
<1>1. ClaimsSound'
  BY DEF ClaimsSound
<1>2. EntriesSound'
  BY DEF EntriesSound
<1>3. BoundAreAlive'
  BY DEF BoundAreAlive
<1>4. SocketsSound'
  BY DEF SocketsSound, EntriesSound, Tracked, IsCurrent, Running
<1>5. Tracked'
  BY DEF Tracked, Running, IsCurrent, EntriesSound, SocketsSound
<1>6. NoSilentEnd'
  BY DEF NoSilentEnd, SocketsSound, EntriesSound, IsCurrent, Tracked, Running
<1>7. ChannelDiscipline'
  BY DEF ChannelDiscipline, EntriesSound, SocketsSound, IsCurrent
<1> QED
  BY <1>1, <1>2, <1>3, <1>4, <1>5, <1>6, <1>7 DEF Rest

(* The claim of a new call is the latest on its key.                       *)
LEMMA ReserveKeeps ==
  ASSUME IInv, TypeOK', NEW c \in Call, NEW k \in Key, Reserve(c, k)
  PROVE  Rest'
<1> USE NoneAssumption DEF IInv, TypeOK, SockState, Emission, Reserve, Arrive, Call, Put, TeardownIfDead, WithoutOwner, Bind
<1>1. ClaimsSound'
  BY DEF ClaimsSound
<1>2. EntriesSound'
  BY DEF EntriesSound
<1>3. BoundAreAlive'
  BY DEF BoundAreAlive
<1>4. SocketsSound'
  BY DEF SocketsSound, EntriesSound, Tracked, IsCurrent, Running
<1>5. Tracked'
  BY DEF Tracked, Running, IsCurrent, EntriesSound, SocketsSound
<1>6. NoSilentEnd'
  BY DEF NoSilentEnd, SocketsSound, EntriesSound, IsCurrent, Tracked, Running
<1>7. ChannelDiscipline'
  BY DEF ChannelDiscipline, EntriesSound, SocketsSound, IsCurrent
<1> QED
  BY <1>1, <1>2, <1>3, <1>4, <1>5, <1>6, <1>7 DEF Rest

(* A call that resolves too late only gives back its own claim.            *)
LEMMA GiveUpKeeps ==
  ASSUME IInv, TypeOK', NEW c \in Call, GiveUp(c)
  PROVE  Rest'
<1> USE NoneAssumption DEF IInv, TypeOK, SockState, Emission, GiveUp, Release, HoldsClaim, Reply, Drop
<1>1. ClaimsSound'
  BY DEF ClaimsSound
<1>2. EntriesSound'
  BY DEF EntriesSound
<1>3. BoundAreAlive'
  BY DEF BoundAreAlive
<1>4. SocketsSound'
  BY DEF SocketsSound, EntriesSound, Tracked, IsCurrent, Running
<1>5. Tracked'
  BY DEF Tracked, Running, IsCurrent, EntriesSound, SocketsSound
<1>6. NoSilentEnd'
  BY DEF NoSilentEnd, SocketsSound, EntriesSound, IsCurrent, Tracked, Running
<1>7. ChannelDiscipline'
  BY DEF ChannelDiscipline, EntriesSound, SocketsSound, IsCurrent
<1> QED
  BY <1>1, <1>2, <1>3, <1>4, <1>5, <1>6, <1>7 DEF Rest

(* What a call that still holds its claim may rely on after the await.     *)
LEMMA ClaimHeld ==
  ASSUME IInv, NEW c \in Call, pc[c] = "resolving", HoldsClaim(c)
  PROVE  /\ keyOf[c] \in Key
         /\ OwnerOf(keyOf[c]) \in alive
         /\ sock[c] = "none"
         /\ \A k \in Key : connections[k] # c
         /\ \A d \in Call : d > c /\ keyOf[d] = keyOf[c] => pc[d] = "failed"
<1> USE NoneAssumption
<1>1. keyOf[c] \in Key /\ sock[c] = "none"
  BY DEF IInv, TypeOK
<1>2. OwnerOf(keyOf[c]) \in alive
  BY <1>1 DEF IInv, HoldsClaim, ClaimsSound, BoundAreAlive
<1>3. \A k \in Key : connections[k] # c
  BY DEF IInv, EntriesSound
<1>4. \A d \in Call : d > c /\ keyOf[d] = keyOf[c] => pc[d] = "failed"
  BY <1>1 DEF IInv, HoldsClaim, ClaimsSound
<1> QED
  BY <1>1, <1>2, <1>3, <1>4

(* The commit after the await: replace, add, or refuse and abort.          *)
LEMMA CommitKeeps ==
  ASSUME IInv, TypeOK', NEW c \in Call, Commit(c)
  PROVE  Rest'
<1> USE NoneAssumption DEF IInv, TypeOK, SockState, Emission
<1> DEFINE k == keyOf[c]
<1>1. /\ pc[c] = "resolving" /\ HoldsClaim(c)
      /\ pending' = Drop(pending, k)
      /\ UNCHANGED <<made, keyOf, ownerEntry, claimBound, alive, told>>
      /\ io' = None
  BY DEF Commit, Release
<1>2. /\ k \in Key /\ OwnerOf(k) \in alive
      /\ sock[c] = "none" /\ ~explicit[c]
      /\ \A j \in Key : connections[j] # c
      /\ \A d \in Call : d > c /\ keyOf[d] = k => pc[d] = "failed"
  BY <1>1, ClaimHeld DEF SocketsSound
<1>3. \E answer \in {"ok", "failed"} : pc' = [pc EXCEPT ![c] = answer]
  BY DEF Commit, CommitReplacing, CommitAdding, CommitRefused, Reply
<1>4. ClaimsSound'
  BY <1>1, <1>2, <1>3 DEF ClaimsSound, Drop
<1>5. ChannelDiscipline'
  BY <1>1 DEF ChannelDiscipline
<1>6. CASE CommitReplacing(c)
  <2> DEFINE old == ownerEntry[c]
  <2>1. /\ old \in Call /\ old # c /\ connections[k] = old /\ keyOf[old] = k
        /\ sock[old] \in {"connecting", "open", "closing", "aborted"}
        /\ pc[old] = "ok" /\ OwnerOf(k) \in entryBound
    BY <1>2, <1>6 DEF CommitReplacing, CanReplace, EntriesSound
  <2>2. /\ connections' = [connections EXCEPT ![k] = c]
        /\ sock' = [sock EXCEPT ![old] = AfterTerminate(old), ![c] = "connecting"]
        /\ explicit'[old] /\ \A d \in Call \ {old} : explicit'[d] = explicit[d]
        /\ pc' = [pc EXCEPT ![c] = "ok"]
        /\ entryBound' = entryBound
    <3>1. sock' = [sock EXCEPT ![old] = AfterTerminate(old), ![c] = "connecting"]
      BY <1>6, <2>1 DEF CommitReplacing, Terminated
    <3>2. explicit'[old] /\ \A d \in Call \ {old} : explicit'[d] = explicit[d]
      <4>1. \A d \in Call : explicit'[d] = (explicit[d] \/ d \in {old})
        BY <1>6 DEF CommitReplacing, Flagged
      <4> QED
        BY <2>1, <4>1
    <3> QED
      BY <1>6, <3>1, <3>2 DEF CommitReplacing, Put, Reply
  <2>3. sock'[old] \in {"terminated", "aborted"}
    BY <2>1, <2>2 DEF AfterTerminate
  <2>4. EntriesSound'
    BY <1>1, <1>2, <2>1, <2>2, <2>3 DEF EntriesSound
  <2>5. BoundAreAlive'
    BY <1>1, <2>2 DEF BoundAreAlive
  <2>6. SocketsSound'
    BY <1>1, <1>2, <2>1, <2>2, <2>3 DEF SocketsSound, IsCurrent
  <2>7. Tracked'
    BY <1>1, <1>2, <2>1, <2>2, <2>3 DEF Tracked, Running, IsCurrent
  <2>8. NoSilentEnd'
    BY <1>1, <1>2, <2>1, <2>2, <2>3 DEF NoSilentEnd
  <2> QED
    BY <1>4, <1>5, <2>4, <2>5, <2>6, <2>7, <2>8 DEF Rest
<1>7. CASE CommitAdding(c)
  <2>1. /\ connections[k] = None
        /\ connections' = [connections EXCEPT ![k] = c]
        /\ entryBound' = entryBound \cup {OwnerOf(k)}
        /\ sock' = [sock EXCEPT ![c] = "connecting"]
        /\ explicit' = [explicit EXCEPT ![c] = FALSE]
        /\ pc' = [pc EXCEPT ![c] = "ok"]
    BY <1>2, <1>7 DEF CommitAdding, CanAdd, Put, TeardownIfDead, Bind, Reply
  <2>2. EntriesSound'
    BY <1>1, <1>2, <2>1 DEF EntriesSound
  <2>3. BoundAreAlive'
    BY <1>1, <1>2, <2>1 DEF BoundAreAlive
  <2>4. SocketsSound'
    BY <1>1, <1>2, <2>1 DEF SocketsSound, IsCurrent
  <2>5. Tracked'
    BY <1>1, <1>2, <2>1 DEF Tracked, Running, IsCurrent
  <2>6. NoSilentEnd'
    BY <1>1, <1>2, <2>1 DEF NoSilentEnd
  <2> QED
    BY <1>4, <1>5, <2>2, <2>3, <2>4, <2>5, <2>6 DEF Rest
<1>8. CASE CommitRefused(c)
  <2>1. /\ UNCHANGED <<connections, entryBound>>
        /\ sock' = [sock EXCEPT ![c] = "aborted"]
        /\ explicit'[c] /\ \A d \in Call \ {c} : explicit'[d] = explicit[d]
        /\ pc' = [pc EXCEPT ![c] = "failed"]
    <3>1. \A d \in Call : explicit'[d] = (explicit[d] \/ d \in {c})
      BY <1>8 DEF CommitRefused, Flagged
    <3>2. explicit'[c] /\ \A d \in Call \ {c} : explicit'[d] = explicit[d]
      BY <3>1
    <3> QED
      BY <1>8, <3>2 DEF CommitRefused, Reply
  <2>2. EntriesSound'
    BY <1>1, <1>2, <2>1 DEF EntriesSound
  <2>3. BoundAreAlive'
    BY <1>1, <2>1 DEF BoundAreAlive
  <2>4. SocketsSound'
    BY <1>1, <1>2, <2>1 DEF SocketsSound, IsCurrent
  <2>5. Tracked'
    BY <1>1, <1>2, <2>1 DEF Tracked, Running, IsCurrent
  <2>6. NoSilentEnd'
    BY <1>1, <1>2, <2>1 DEF NoSilentEnd
  <2> QED
    BY <1>4, <1>5, <2>2, <2>3, <2>4, <2>5, <2>6 DEF Rest
<1> QED
  BY <1>6, <1>7, <1>8 DEF Commit

(* An open event speaks for the current entry only.                        *)
LEMMA OpenedKeeps ==
  ASSUME IInv, TypeOK', NEW c \in Call, Opened(c)
  PROVE  Rest'
<1> USE NoneAssumption DEF IInv, TypeOK, SockState, Emission, Opened, Emit
<1>1. ClaimsSound'
  BY DEF ClaimsSound
<1>2. EntriesSound'
  BY DEF EntriesSound
<1>3. BoundAreAlive'
  BY DEF BoundAreAlive
<1>4. SocketsSound'
  <2> SUFFICES ASSUME NEW d \in Call
               PROVE  SocketsSound!(d)'
    BY DEF SocketsSound
  <2>1. CASE d = c
    BY <2>1 DEF SocketsSound, Tracked, IsCurrent, Running
  <2>2. CASE d # c
    BY <2>2 DEF SocketsSound, IsCurrent
  <2> QED
    BY <2>1, <2>2
<1>5. Tracked'
  BY DEF Tracked, Running, IsCurrent, EntriesSound, SocketsSound
<1>6. NoSilentEnd'
  BY DEF NoSilentEnd, SocketsSound, EntriesSound, IsCurrent, Tracked, Running
<1>7. ChannelDiscipline'
  BY DEF ChannelDiscipline, EntriesSound, SocketsSound, IsCurrent
<1> QED
  BY <1>1, <1>2, <1>3, <1>4, <1>5, <1>6, <1>7 DEF Rest

(* So does a message.                                                      *)
LEMMA MessageKeeps ==
  ASSUME IInv, TypeOK', NEW c \in Call, MessageReceived(c)
  PROVE  Rest'
<1> USE NoneAssumption DEF IInv, TypeOK, SockState, Emission, MessageReceived, Emit
<1>1. ClaimsSound'
  BY DEF ClaimsSound
<1>2. EntriesSound'
  BY DEF EntriesSound
<1>3. BoundAreAlive'
  BY DEF BoundAreAlive
<1>4. SocketsSound'
  BY DEF SocketsSound, EntriesSound, Tracked, IsCurrent, Running
<1>5. Tracked'
  BY DEF Tracked, Running, IsCurrent, EntriesSound, SocketsSound
<1>6. NoSilentEnd'
  BY DEF NoSilentEnd, SocketsSound, EntriesSound, IsCurrent, Tracked, Running
<1>7. ChannelDiscipline'
  BY DEF ChannelDiscipline, EntriesSound, SocketsSound, IsCurrent
<1> QED
  BY <1>1, <1>2, <1>3, <1>4, <1>5, <1>6, <1>7 DEF Rest

(* So does an error; its socket is closed, its entry waits for close.      *)
LEMMA ErroredKeeps ==
  ASSUME IInv, TypeOK', NEW c \in Call, Errored(c)
  PROVE  Rest'
<1> USE NoneAssumption DEF IInv, TypeOK, SockState, Emission, Errored, Emit, AfterClose
<1>1. ClaimsSound'
  BY DEF ClaimsSound
<1>2. EntriesSound'
  BY DEF EntriesSound
<1>3. BoundAreAlive'
  BY DEF BoundAreAlive
<1>4. SocketsSound'
  BY DEF SocketsSound, EntriesSound, Tracked, IsCurrent, Running
<1>5. Tracked'
  BY DEF Tracked, Running, IsCurrent, EntriesSound, SocketsSound
<1>6. NoSilentEnd'
  BY DEF NoSilentEnd, SocketsSound, EntriesSound, IsCurrent, Tracked, Running
<1>7. ChannelDiscipline'
  BY DEF ChannelDiscipline, EntriesSound, SocketsSound, IsCurrent
<1> QED
  BY <1>1, <1>2, <1>3, <1>4, <1>5, <1>6, <1>7 DEF Rest

(* The peer starts the closing handshake: only the socket knows.           *)
LEMMA PeerClosesKeeps ==
  ASSUME IInv, TypeOK', NEW c \in Call, PeerCloses(c)
  PROVE  Rest'
<1> USE NoneAssumption DEF IInv, TypeOK, SockState, Emission, PeerCloses
<1>1. ClaimsSound'
  BY DEF ClaimsSound
<1>2. EntriesSound'
  BY DEF EntriesSound
<1>3. BoundAreAlive'
  BY DEF BoundAreAlive
<1>4. SocketsSound'
  BY DEF SocketsSound, EntriesSound, Tracked, IsCurrent, Running
<1>5. Tracked'
  BY DEF Tracked, Running, IsCurrent, EntriesSound, SocketsSound
<1>6. NoSilentEnd'
  BY DEF NoSilentEnd, SocketsSound, EntriesSound, IsCurrent, Tracked, Running
<1>7. ChannelDiscipline'
  BY DEF ChannelDiscipline, EntriesSound, SocketsSound, IsCurrent
<1> QED
  BY <1>1, <1>2, <1>3, <1>4, <1>5, <1>6, <1>7 DEF Rest

(* The close event removes the entry it speaks for, and no other.          *)
LEMMA ClosedKeeps ==
  ASSUME IInv, TypeOK', NEW c \in Call, Closed(c)
  PROVE  Rest'
<1> USE NoneAssumption DEF IInv, TypeOK, SockState, Emission, Closed, Ending, Emit, Drop
<1>1. ClaimsSound'
  BY DEF ClaimsSound
<1>2. EntriesSound'
  <2> SUFFICES ASSUME NEW k \in Key, connections'[k] # None
               PROVE  EntriesSound!(k)!2'
    BY DEF EntriesSound
  <2>1. connections'[k] = connections[k] /\ connections[k] # c
    BY DEF EntriesSound, IsCurrent
  <2> QED
    BY <2>1 DEF EntriesSound
<1>3. BoundAreAlive'
  BY DEF BoundAreAlive
<1>4. SocketsSound'
  BY DEF SocketsSound, EntriesSound, Tracked, IsCurrent, Running
<1>5. Tracked'
  BY DEF Tracked, Running, IsCurrent, EntriesSound, SocketsSound
<1>6. NoSilentEnd'
  <2> SUFFICES ASSUME NEW d \in Call
               PROVE  NoSilentEnd!(d)'
    BY DEF NoSilentEnd
  <2>1. CASE d = c /\ explicit[c]
    BY <2>1 DEF NoSilentEnd, SocketsSound
  <2>2. CASE d = c /\ ~explicit[c]
    BY <2>2 DEF NoSilentEnd, SocketsSound, IsCurrent
  <2>3. CASE d # c
    BY <2>3 DEF NoSilentEnd
  <2> QED
    BY <2>1, <2>2, <2>3
<1>7. ChannelDiscipline'
  BY DEF ChannelDiscipline, EntriesSound, SocketsSound, IsCurrent
<1> QED
  BY <1>1, <1>2, <1>3, <1>4, <1>5, <1>6, <1>7 DEF Rest

(* A send reads the registry and leaves it alone.                          *)
LEMMA SendKeeps ==
  ASSUME IInv, TypeOK', NEW k \in Key, Send(k)
  PROVE  Rest'
<1> USE NoneAssumption DEF IInv, TypeOK, SockState, Emission, Send
<1>1. ClaimsSound'
  BY DEF ClaimsSound
<1>2. EntriesSound'
  BY DEF EntriesSound
<1>3. BoundAreAlive'
  BY DEF BoundAreAlive
<1>4. SocketsSound'
  BY DEF SocketsSound, EntriesSound, Tracked, IsCurrent, Running
<1>5. Tracked'
  BY DEF Tracked, Running, IsCurrent, EntriesSound, SocketsSound
<1>6. NoSilentEnd'
  BY DEF NoSilentEnd, SocketsSound, EntriesSound, IsCurrent, Tracked, Running
<1>7. ChannelDiscipline'
  BY DEF ChannelDiscipline, EntriesSound, SocketsSound, IsCurrent
<1> QED
  BY <1>1, <1>2, <1>3, <1>4, <1>5, <1>6, <1>7 DEF Rest

(* A disconnect flags the entry and keeps it until the close event.        *)
LEMMA DisconnectKeeps ==
  ASSUME IInv, TypeOK', NEW k \in Key, Disconnect(k)
  PROVE  Rest'
<1> USE NoneAssumption DEF IInv, TypeOK, SockState, Emission, Disconnect, Flagged, AfterClose
<1>1. ClaimsSound'
  BY DEF ClaimsSound
<1>2. EntriesSound'
  BY DEF EntriesSound
<1>3. BoundAreAlive'
  BY DEF BoundAreAlive
<1>4. SocketsSound'
  BY DEF SocketsSound, EntriesSound, Tracked, IsCurrent, Running
<1>5. Tracked'
  BY DEF Tracked, Running, IsCurrent, EntriesSound, SocketsSound
<1>6. NoSilentEnd'
  BY DEF NoSilentEnd, SocketsSound, EntriesSound, IsCurrent, Tracked, Running
<1>7. ChannelDiscipline'
  BY DEF ChannelDiscipline, EntriesSound, SocketsSound, IsCurrent
<1> QED
  BY <1>1, <1>2, <1>3, <1>4, <1>5, <1>6, <1>7 DEF Rest

(* A destroyed renderer loses its entries and claims, disposed.            *)
LEMMA DestroyedKeeps ==
  ASSUME IInv, TypeOK', NEW o \in Owner, Destroyed(o)
  PROVE  Rest'
<1> USE NoneAssumption DEF IInv, TypeOK, SockState, Emission, Destroyed
<1>1. ClaimsSound'
  BY DEF ClaimsSound,
         AfterDestroyed,
         DisposedOnDestroyed, OwnedBy, KeysIn, WithoutOwner,
         Dispose, Terminated, AfterTerminate, Flagged
<1>2. EntriesSound'
  BY DEF EntriesSound,
         AfterDestroyed,
         DisposedOnDestroyed, OwnedBy, KeysIn, WithoutOwner,
         Dispose, Terminated, AfterTerminate, Flagged
<1>3. BoundAreAlive'
  BY DEF BoundAreAlive,
         AfterDestroyed,
         DisposedOnDestroyed, OwnedBy, KeysIn, WithoutOwner,
         Dispose, Terminated, AfterTerminate, Flagged
<1>4. SocketsSound'
  <2> SUFFICES ASSUME NEW d \in Call
               PROVE  SocketsSound!(d)'
    BY DEF SocketsSound
  <2>1. SocketsSound!(d)
    BY DEF SocketsSound
  <2>2. CASE d \in DisposedOnDestroyed(connections, entryBound, o)
    <3>1. sock[d] \in {"connecting", "open", "closing", "aborted"}
      BY <2>2, Disposed DEF EntriesSound, IsCurrent, DisposedOnDestroyed
    <3>2. sock'[d] \in {"aborted", "terminated"} /\ explicit'[d]
      BY <2>2, <3>1 DEF Dispose, Terminated, AfterTerminate, Flagged
    <3> QED
      BY <2>1, <3>1, <3>2
  <2>3. CASE d \notin DisposedOnDestroyed(connections, entryBound, o)
    <3>1. sock'[d] = sock[d] /\ explicit'[d] = explicit[d]
      BY <2>3 DEF Dispose, Terminated, Flagged
    <3>2. sock[d] # "none" /\ IsCurrent(d) => IsCurrent(d)'
      BY <2>3, Disposed DEF IsCurrent, DisposedOnDestroyed, AfterDestroyed, WithoutOwner
    <3> QED
      BY <2>1, <3>1, <3>2
  <2> QED
    BY <2>2, <2>3
<1>5. Tracked'
  BY DEF Tracked, Running, IsCurrent, EntriesSound, SocketsSound,
         AfterDestroyed,
         DisposedOnDestroyed, OwnedBy, KeysIn, WithoutOwner,
         Dispose, Terminated, AfterTerminate, Flagged
<1>6. NoSilentEnd'
  BY DEF NoSilentEnd, SocketsSound, EntriesSound, IsCurrent, Tracked, Running,
         AfterDestroyed,
         DisposedOnDestroyed, OwnedBy, KeysIn, WithoutOwner,
         Dispose, Terminated, AfterTerminate, Flagged
<1>7. ChannelDiscipline'
  BY DEF ChannelDiscipline, EntriesSound, SocketsSound, IsCurrent,
         AfterDestroyed,
         DisposedOnDestroyed, OwnedBy, KeysIn, WithoutOwner,
         Dispose, Terminated, AfterTerminate, Flagged
<1> QED
  BY <1>1, <1>2, <1>3, <1>4, <1>5, <1>6, <1>7 DEF Rest

(* Stop disposes every entry and clears both registries.                   *)
LEMMA StopKeeps ==
  ASSUME IInv, TypeOK', Stop
  PROVE  Rest'
<1> USE NoneAssumption DEF IInv, TypeOK, SockState, Emission, Stop, EmptyMap
<1>1. ClaimsSound'
  BY DEF ClaimsSound,
         Entries, KeysIn, Dispose, Terminated, AfterTerminate, Flagged
<1>2. EntriesSound'
  BY DEF EntriesSound,
         Entries, KeysIn, Dispose, Terminated, AfterTerminate, Flagged
<1>3. BoundAreAlive'
  BY DEF BoundAreAlive,
         Entries, KeysIn, Dispose, Terminated, AfterTerminate, Flagged
<1>4. SocketsSound'
  <2> SUFFICES ASSUME NEW d \in Call
               PROVE  SocketsSound!(d)'
    BY DEF SocketsSound
  <2>1. SocketsSound!(d)
    BY DEF SocketsSound
  <2>2. CASE d \in Entries(connections)
    <3>1. sock[d] \in {"connecting", "open", "closing", "aborted"}
      BY <2>2, Disposed DEF EntriesSound, IsCurrent
    <3>2. sock'[d] \in {"aborted", "terminated"} /\ explicit'[d]
      BY <2>2, <3>1 DEF Dispose, Terminated, AfterTerminate, Flagged
    <3> QED
      BY <2>1, <3>1, <3>2
  <2>3. CASE d \notin Entries(connections)
    <3>1. sock'[d] = sock[d] /\ explicit'[d] = explicit[d]
      BY <2>3 DEF Dispose, Terminated, Flagged
    <3>2. sock[d] = "none" \/ ~IsCurrent(d)
      BY <2>3, Disposed
    <3> QED
      BY <2>1, <3>1, <3>2
  <2> QED
    BY <2>2, <2>3
<1>5. Tracked'
  BY DEF Tracked, Running, IsCurrent, EntriesSound, SocketsSound,
         Entries, KeysIn, Dispose, Terminated, AfterTerminate, Flagged
<1>6. NoSilentEnd'
  BY DEF NoSilentEnd, SocketsSound, EntriesSound, IsCurrent, Tracked, Running,
         Entries, KeysIn, Dispose, Terminated, AfterTerminate, Flagged
<1>7. ChannelDiscipline'
  BY DEF ChannelDiscipline, EntriesSound, SocketsSound, IsCurrent,
         Entries, KeysIn, Dispose, Terminated, AfterTerminate, Flagged
<1> QED
  BY <1>1, <1>2, <1>3, <1>4, <1>5, <1>6, <1>7 DEF Rest

-------------------------------------------------------------------------------
(* The inductive invariant, and the safety properties it implies: every    *)
(* running socket is the current entry of its key, and so on.              *)
THEOREM Invariance == Spec => []IInv
<1>1. Init => IInv
  <2> SUFFICES ASSUME Init PROVE IInv
    OBVIOUS
  <2>1. TypeOK
    BY BoundsAssumption, NoneAssumption DEF Init, TypeOK, EmptyMap, SockState, Call
  <2>2. Rest
    BY DEF Init, EmptyMap, Rest, ClaimsSound, EntriesSound, BoundAreAlive,
           SocketsSound, Tracked, Running, NoSilentEnd, ChannelDiscipline
  <2> QED
    BY <2>1, <2>2 DEF IInv, Rest
<1>2. IInv /\ TypeOK' /\ [Next]_vars => IInv'
  <2> SUFFICES ASSUME IInv, TypeOK', [Next]_vars PROVE Rest'
    BY DEF IInv, Rest
  <2>1. ASSUME NEW c \in Call, Connect(c) \/ Resume(c) \/ SocketEvent(c)
        PROVE  Rest'
    BY <2>1, RejectKeeps, ReserveKeeps, GiveUpKeeps, CommitKeeps, OpenedKeeps,
       MessageKeeps, ErroredKeeps, PeerClosesKeeps, ClosedKeeps
    DEF Connect, Resume, SocketEvent
  <2>2. ASSUME NEW k \in Key, Request(k) PROVE Rest'
    BY <2>2, SendKeeps, DisconnectKeeps DEF Request
  <2>3. ASSUME NEW o \in Owner, Destroyed(o) PROVE Rest'
    BY <2>3, DestroyedKeeps
  <2>4. CASE Stop
    BY <2>4, StopKeeps
  <2>5. CASE UNCHANGED vars
    BY <2>5 DEF vars, IInv, Rest, ClaimsSound, EntriesSound, BoundAreAlive,
                SocketsSound, IsCurrent, Tracked, Running, NoSilentEnd,
                ChannelDiscipline
  <2> QED
    BY <2>1, <2>2, <2>3, <2>4, <2>5 DEF Next
<1> QED
  BY <1>1, <1>2, TypeCorrect, PTL DEF Spec

(* A running socket is always the entry its renderer can reach.            *)
THEOREM RunningIsTracked == Spec => []Tracked
<1>1. IInv => Tracked
  BY DEF IInv
<1> QED
  BY <1>1, Invariance, PTL

(* What a renderer hears on an id comes from its latest connection there.  *)
THEOREM ChannelIsDisciplined == Spec => []ChannelDiscipline
<1>1. IInv => ChannelDiscipline
  BY DEF IInv
<1> QED
  BY <1>1, Invariance, PTL

(* A connection ends with a close event exactly when nobody asked for it.  *)
THEOREM EndIsNeverSilent == Spec => []NoSilentEnd
<1>1. IInv => NoSilentEnd
  BY DEF IInv
<1> QED
  BY <1>1, Invariance, PTL

(* No entry outlives its socket.                                           *)
THEOREM EntriesAreFresh == Spec => []NoStaleEntry
<1>1. IInv => NoStaleEntry
  BY DEF IInv, EntriesSound, NoStaleEntry, KeysIn
<1> QED
  BY <1>1, Invariance, PTL

(* A destroyed renderer owns neither an entry nor a claim.                 *)
THEOREM DestroyedOwnNothing == Spec => []DeadOwnNothing
<1>1. IInv => DeadOwnNothing
  BY DEF IInv, ClaimsSound, EntriesSound, BoundAreAlive, DeadOwnNothing
<1> QED
  BY <1>1, Invariance, PTL

(* A call overtaken at the await never succeeds after its successor.       *)
THEOREM StaleNeverCommits == Spec => NoStaleCommit
<1> DEFINE Step == \A c, d \in Call :
                      /\ pc[c] = "resolving" /\ pc'[c] = "ok"
                      /\ d > c /\ keyOf[d] = keyOf[c]
                      => pc[d] # "ok"
<1>1. IInv /\ [Next]_vars => [Step]_vars
  <2> SUFFICES ASSUME IInv, [Next]_vars, NEW c \in Call, NEW d \in Call,
                      pc[c] = "resolving", pc'[c] = "ok",
                      d > c, keyOf[d] = keyOf[c]
               PROVE  pc[d] # "ok"
    OBVIOUS
  <2>1. ASSUME NEW e \in Call, NEW k \in Key, Arrive(e, k) PROVE e # c
    BY <2>1 DEF IInv, TypeOK, Arrive, Call
  <2>2. Commit(c)
    <3>1. ASSUME NEW e \in Call, Connect(e) \/ SocketEvent(e) PROVE FALSE
      BY <3>1, <2>1 DEF Connect, Reject, Reserve, SocketEvent, Opened,
         MessageReceived, Errored, PeerCloses, Closed, IInv, TypeOK
    <3>2. ASSUME NEW e \in Call, Resume(e) PROVE Commit(c)
      BY <3>2 DEF Resume, GiveUp, Commit, Reply, CommitReplacing, CommitAdding,
         CommitRefused, IInv, TypeOK
    <3>3. ASSUME NEW k \in Key, Request(k) PROVE FALSE
      BY <3>3 DEF Request, Send, Disconnect
    <3>4. ASSUME NEW o \in Owner, Destroyed(o) PROVE FALSE
      BY <3>4 DEF Destroyed
    <3>5. ~Stop /\ ~UNCHANGED vars
      BY DEF Stop, vars
    <3> QED
      BY <3>1, <3>2, <3>3, <3>4, <3>5 DEF Next
  <2> QED
    BY <2>2, ClaimHeld DEF Commit
<1> QED
  BY <1>1, Invariance, PTL DEF Spec, NoStaleCommit

-------------------------------------------------------------------------------
(* The number of connections and claims never exceeds the cap.             *)

(* Renderers and ids are finitely many, and so are the keys.               *)
LEMMA KeyIsFinite == IsFiniteSet(Key)
  BY FiniteAssumption, FS_Product DEF Key

(* A claim is given back before its call can grow the registry.            *)
LEMMA CommitFitsCap ==
  ASSUME IInv, TypeOK', NEW c \in Call, Commit(c)
  PROVE  Size(connections') + Size(pending') <= Size(connections) + Size(pending)
<1> DEFINE k == keyOf[c]
<1> USE KeyIsFinite, NoneAssumption
<1>1. k \in Key /\ OwnerOf(k) \in alive /\ pending[k] = c
  BY ClaimHeld DEF Commit, HoldsClaim
<1>2. Size(connections) \in Nat /\ Size(pending) \in Nat
  BY SizeIsNat
<1>3. pending = [j \in Key |-> pending[j]] /\ connections = [j \in Key |-> connections[j]]
  BY DEF IInv, TypeOK
<1>4. Size(pending') = Size(pending) - 1
  <2>1. pending' = Drop(pending, k)
    BY DEF Commit, Release
  <2> QED
    BY <1>1, <1>3, <2>1, SizeOfDrop
<1>5. connections' = Put(connections, k, c) \/ connections' = connections
  BY <1>1 DEF Commit, CommitReplacing, CommitAdding, CommitRefused, TeardownIfDead
<1>6. Size(connections') <= Size(connections) + 1
  <2>1. CASE connections' = Put(connections, k, c)
    BY <1>1, <1>2, <1>3, <2>1, SizeOfPut
  <2> QED
    BY <1>2, <1>5, <2>1
<1>7. Size(connections') \in Nat /\ Size(pending') \in Nat
  BY SizeIsNat
<1> QED
  BY <1>2, <1>4, <1>6, <1>7

(* The check before the await still holds after it: the cap is never       *)
(* exceeded, however many calls were waiting.                              *)
THEOREM CapIsKept == Spec => []WithinCap
<1> USE KeyIsFinite, NoneAssumption
<1>1. Init => WithinCap
  BY SizeEmpty, BoundsAssumption DEF Init, WithinCap
<1>2. IInv /\ TypeOK' /\ WithinCap /\ [Next]_vars => WithinCap'
  <2> SUFFICES ASSUME IInv, TypeOK', WithinCap, [Next]_vars PROVE WithinCap'
    OBVIOUS
  <2>1. /\ Size(connections) \in Nat /\ Size(pending) \in Nat
        /\ Size(connections') \in Nat /\ Size(pending') \in Nat
        /\ MaxConnections \in Nat
    BY SizeIsNat, BoundsAssumption
  <2>2. /\ pending = [j \in Key |-> pending[j]]
        /\ connections = [j \in Key |-> connections[j]]
    BY DEF IInv, TypeOK
  <2>3. ASSUME Size(connections') <= Size(connections), Size(pending') <= Size(pending)
        PROVE  WithinCap'
    BY <2>1, <2>3 DEF WithinCap
  <2>4. ASSUME NEW c \in Call, NEW k \in Key, Reserve(c, k) PROVE WithinCap'
    <3>1. pending' = Put(pending, k, c) /\ pending[k] = None
      BY <2>4 DEF Reserve, Arrive, TeardownIfDead
    <3>2. Size(pending') = Size(pending) + 1
      BY <2>2, <3>1, SizeOfPut
    <3> QED
      BY <2>1, <2>4, <3>2 DEF Reserve, HasRoom, WithinCap
  <2>5. ASSUME NEW c \in Call, GiveUp(c) PROVE WithinCap'
    <3>1. keyOf[c] \in Key
      BY <2>5 DEF GiveUp, IInv, TypeOK
    <3>2. Size(pending') <= Size(pending)
      BY <2>1, <2>2, <2>5, <3>1, SizeOfDrop DEF GiveUp, Release
    <3> QED
      BY <2>1, <2>3, <2>5, <3>2 DEF GiveUp
  <2>6. ASSUME NEW c \in Call, Commit(c) PROVE WithinCap'
    BY <2>1, <2>6, CommitFitsCap DEF WithinCap
  <2>7. ASSUME NEW c \in Call, Closed(c) PROVE WithinCap'
    <3>1. keyOf[c] \in Key
      BY <2>7, Disposed DEF Closed, Ending
    <3>2. Size(connections') <= Size(connections)
      BY <2>1, <2>2, <2>7, <3>1, SizeOfDrop DEF Closed
    <3> QED
      BY <2>1, <2>3, <2>7, <3>2 DEF Closed
  <2>8. ASSUME NEW o \in Owner, Destroyed(o) PROVE WithinCap'
    <3>1. Size(pending') <= Size(pending)
      BY <2>1, <2>8, SizeWithoutOwner DEF Destroyed, AfterDestroyed
    <3>2. Size(connections') <= Size(connections)
      BY <2>1, <2>8, SizeWithoutOwner DEF Destroyed, AfterDestroyed
    <3> QED
      BY <2>3, <3>1, <3>2
  <2>9. ASSUME Stop PROVE WithinCap'
    BY <2>1, <2>9, SizeEmpty DEF Stop, WithinCap
  <2>10. ASSUME UNCHANGED <<pending, connections>> PROVE WithinCap'
    BY <2>10 DEF WithinCap
  <2> QED
    BY <2>4, <2>5, <2>6, <2>7, <2>8, <2>9, <2>10
    DEF Next, vars, Connect, Resume, SocketEvent, Request, Reject, Opened,
        MessageReceived, Errored, PeerCloses, Send, Disconnect
<1> QED
  BY <1>1, <1>2, Invariance, TypeCorrect, PTL DEF Spec

-------------------------------------------------------------------------------
(* The refinement of ConnectionRegistry                                    *)

(* The status of each call, as the invariant lets it be read off: a call   *)
(* is new until its socket exists, live while it is an entry, then done.   *)
StatusRead ==
  \A c \in Call :
     StatusOf(c) = CASE sock[c] = "none" -> "new"
                     [] c \in Entries(connections) -> "live"
                     [] OTHER -> "done"

EntriesHaveSockets == \A c \in Entries(connections) : c \in Call /\ sock[c] # "none"

(* Under the invariant, Status reads as one case split per socket state.   *)
LEMMA StatusFacts == IInv => StatusRead /\ EntriesHaveSockets
<1> SUFFICES ASSUME IInv PROVE StatusRead /\ EntriesHaveSockets
  OBVIOUS
<1>1. EntriesHaveSockets
  BY DEF IInv, TypeOK, EntriesSound, Entries, KeysIn, EntriesHaveSockets
<1>2. StatusRead
  <2> SUFFICES ASSUME NEW c \in Call PROVE StatusRead!(c)
    BY DEF StatusRead
  <2>1. Running(c) => c \in Entries(connections)
    BY Disposed DEF IInv, Tracked, Running
  <2> QED
    BY <1>1, <2>1 DEF StatusOf, EntriesHaveSockets
<1> QED
  BY <1>1, <1>2

(* The instance's copies of the registry's operators are the registry's.   *)
LEMMA SameOperators ==
  /\ Registry!Key = Key
  /\ Registry!EmptyMap = EmptyMap
  /\ \A map, k, e : Registry!Put(map, k, e) = Put(map, k, e)
  /\ \A map, k : Registry!Drop(map, k) = Drop(map, k)
  /\ \A map : Registry!Entries(map) = Entries(map)
  /\ \A map, o : Registry!OwnedBy(map, o) = OwnedBy(map, o)
  /\ \A map, o : Registry!WithoutOwner(map, o) = WithoutOwner(map, o)
  /\ \A k : Registry!OwnerOf(k) = OwnerOf(k)
  BY DEF Registry!Key, Key, Registry!Put, Put, Registry!Drop, Drop,
         Registry!Entries, Entries, Registry!KeysIn, KeysIn, Registry!OwnedBy,
         OwnedBy, Registry!WithoutOwner, WithoutOwner, Registry!OwnerOf, OwnerOf,
         Registry!EmptyMap, EmptyMap

Status == [c \in Call |-> StatusOf(c)]

Speaker == IF io = None THEN None ELSE io.from

(* Where each action of the handler lands in the abstract registry.        *)
LEMMA SpeakStep ==
  ASSUME IInv, StatusRead, StatusRead',
         UNCHANGED <<connections, alive>>,
         \A c \in Call : c \in Entries(connections) \/ sock'[c] = sock[c]
                         \/ (sock[c] # "none" /\ sock'[c] # "none"),
         EntriesHaveSockets, EntriesHaveSockets',
         io' = None \/ io'.from \in Entries(connections)
  PROVE  Registry!Speak
<1>1. Status' = Status
  BY DEF Status, StatusRead, EntriesHaveSockets
<1>2. Speaker' \in Entries(connections) \cup {None}
  BY DEF Speaker
<1> QED
  BY <1>1, <1>2, SameOperators DEF Registry!Speak, Status, Speaker

(* What is in the registry after a put, a drop or the loss of an owner.    *)
LEMMA EntriesAfter ==
  ASSUME IInv, NEW k \in Key, NEW d \in Call
  PROVE  /\ \A e \in Call : d \in Entries(Put(connections, k, e)) <=>
                d = e \/ (d \in Entries(connections) /\ connections[k] # d)
         /\ d \in Entries(Drop(connections, k)) <=>
                d \in Entries(connections) /\ connections[k] # d
  BY NoneAssumption DEF IInv, TypeOK, EntriesSound, Entries, KeysIn, Put, Drop

(* What is left in the registry when a renderer loses its entries.         *)
LEMMA EntriesWithoutOwner ==
  ASSUME IInv, NEW o \in Owner, NEW d \in Call
  PROVE  d \in Entries(WithoutOwner(connections, o)) <=>
            d \in Entries(connections) /\ d \notin OwnedBy(connections, o)
<1> USE NoneAssumption DEF IInv, TypeOK, EntriesSound
<1>1. d \in Entries(WithoutOwner(connections, o)) <=>
         \E j \in Key : OwnerOf(j) # o /\ connections[j] = d
  <2>1. \A j \in Key : WithoutOwner(connections, o)[j] =
                          IF OwnerOf(j) = o THEN None ELSE connections[j]
    BY DEF WithoutOwner
  <2> QED
    BY <2>1 DEF Entries, KeysIn
<1>2. d \in OwnedBy(connections, o) <=>
         \E j \in Key : OwnerOf(j) = o /\ connections[j] = d
  BY DEF OwnedBy, KeysIn
<1>3. d \in Entries(connections) <=> \E j \in Key : connections[j] = d
  BY DEF Entries, KeysIn
<1>4. \A i, j \in Key : connections[i] = d /\ connections[j] = d => i = j
  OBVIOUS
<1> QED
  BY <1>1, <1>2, <1>3, <1>4

(* A commit is Establish: the new connection takes the place of the old.   *)
LEMMA EstablishStep ==
  ASSUME IInv, StatusRead, StatusRead', NEW c \in Call, Commit(c),
         CommitReplacing(c) \/ CommitAdding(c)
  PROVE  Registry!Establish(c, keyOf[c])
<1> DEFINE k == keyOf[c]
<1> USE NoneAssumption
<1>1. /\ k \in Key /\ OwnerOf(k) \in alive /\ sock[c] = "none"
      /\ c \notin Entries(connections)
  BY ClaimHeld DEF Commit, Entries, KeysIn
<1>2. connections' = Put(connections, k, c)
  BY <1>1 DEF CommitReplacing, CommitAdding, TeardownIfDead
<1>3. /\ sock'[c] = "connecting"
      /\ \A d \in Call \ {c} : sock'[d] = "none" <=> sock[d] = "none"
  BY <1>1 DEF CommitReplacing, CommitAdding, Terminated, AfterTerminate, IInv, TypeOK
<1>4. \A d \in Call : Status'[d] = IF d = c THEN "live"
                       ELSE IF d = connections[k] THEN "done" ELSE Status[d]
  <2> SUFFICES ASSUME NEW d \in Call
               PROVE  Status'[d] = IF d = c THEN "live"
                       ELSE IF d = connections[k] THEN "done" ELSE Status[d]
    OBVIOUS
  <2>1. d = connections[k] => d \in Entries(connections) /\ sock[d] # "none"
    BY <1>1, StatusFacts DEF Entries, KeysIn, EntriesHaveSockets
  <2>2. d \in Entries(connections') <=> d = c \/ (d \in Entries(connections) /\ connections[k] # d)
    BY <1>1, <1>2, EntriesAfter
  <2> QED
    BY <1>3, <2>1, <2>2 DEF Status, StatusRead
<1>5. Status[c] = "new"
  BY <1>1 DEF Status, StatusRead
<1>6. Status' = [Registry!Finish({connections[k]}) EXCEPT ![c] = "live"]
  BY <1>4 DEF Status, Registry!Finish
<1> QED
  BY <1>1, <1>2, <1>5, <1>6, SameOperators DEF Registry!Establish, Commit, Status, Speaker

(* A commit that is refused is Discard: its connection never lives.        *)
LEMMA DiscardStep ==
  ASSUME IInv, StatusRead, StatusRead', NEW c \in Call, Commit(c), CommitRefused(c)
  PROVE  Registry!Discard(c)
<1> USE NoneAssumption
<1>1. sock[c] = "none" /\ c \notin Entries(connections)
  BY ClaimHeld DEF Commit, Entries, KeysIn
<1>2. /\ sock' = [sock EXCEPT ![c] = "aborted"] /\ sock \in [Call -> SockState]
      /\ connections' = connections
  BY DEF CommitRefused, IInv, TypeOK
<1>3. Status[c] = "new"
  BY <1>1 DEF Status, StatusRead
<1>4. Status' = Registry!Finish({c})
  BY <1>1, <1>2 DEF Status, StatusRead, Registry!Finish
<1> QED
  BY <1>2, <1>3, <1>4 DEF Registry!Discard, Commit, Status, Speaker

(* The close event of the current connection is End.                       *)
LEMMA EndStep ==
  ASSUME IInv, StatusRead, StatusRead', NEW c \in Call, Closed(c), IsCurrent(c)
  PROVE  Registry!End(keyOf[c])
<1> DEFINE k == keyOf[c]
<1> USE NoneAssumption
<1>1. k \in Key /\ connections[k] = c
  BY Disposed DEF Closed, Ending, IsCurrent
<1>2. connections' = Drop(connections, k)
  BY DEF Closed
<1>3. sock' = [sock EXCEPT ![c] = "closed"] /\ sock \in [Call -> SockState] /\ sock[c] # "none"
  BY DEF Closed, Ending, IInv, TypeOK
<1>4. \A d \in Call : Status'[d] = IF d = c THEN "done" ELSE Status[d]
  BY <1>1, <1>2, <1>3, EntriesAfter DEF Status, StatusRead
<1>5. Status' = Registry!Finish({c})
  BY <1>4 DEF Status, Registry!Finish
<1>6. Speaker' \in {c, None}
  BY DEF Closed, Emit, Speaker
<1> QED
  BY <1>1, <1>2, <1>5, <1>6, SameOperators DEF Registry!End, Closed, Status, Speaker

(* The death of a renderer is Leave: all it owned ends at once.            *)
LEMMA LeaveStep ==
  ASSUME IInv, StatusRead, StatusRead', NEW o \in Owner, Destroyed(o)
  PROVE  Registry!Leave(o)
<1> USE NoneAssumption
<1>1. connections' = WithoutOwner(connections, o)
  <2>1. CASE o \in entryBound
    BY <2>1 DEF Destroyed, AfterDestroyed
  <2>2. CASE o \notin entryBound
    BY <2>2 DEF Destroyed, AfterDestroyed, WithoutOwner, IInv, TypeOK, EntriesSound
  <2> QED
    BY <2>1, <2>2
<1>2. \A d \in Call : sock'[d] = "none" <=> sock[d] = "none"
  BY DEF Destroyed, Dispose, Terminated, AfterTerminate, IInv, TypeOK
<1>3. \A d \in OwnedBy(connections, o) : d \in Entries(connections) /\ sock[d] # "none"
  BY StatusFacts DEF OwnedBy, Entries, KeysIn, EntriesHaveSockets
<1>4. \A d \in Call : Status'[d] = IF d \in OwnedBy(connections, o)
                                   THEN "done" ELSE Status[d]
  BY <1>1, <1>2, <1>3, EntriesWithoutOwner DEF Status, StatusRead
<1>5. Status' = Registry!Finish(OwnedBy(connections, o))
  BY <1>4 DEF Status, Registry!Finish
<1> QED
  BY <1>1, <1>5, SameOperators DEF Registry!Leave, Destroyed, Status, Speaker

(* Stop is Shutdown: nothing stays in the registry.                        *)
LEMMA ShutdownStep ==
  ASSUME IInv, StatusRead, StatusRead', Stop
  PROVE  Registry!Shutdown
<1> USE NoneAssumption
<1>1. connections' = EmptyMap /\ Entries(connections') = {}
  BY DEF Stop, EmptyMap, Entries, KeysIn
<1>2. \A d \in Call : sock'[d] = "none" <=> sock[d] = "none"
  BY DEF Stop, Dispose, Terminated, AfterTerminate, IInv, TypeOK
<1>3. \A d \in Entries(connections) : sock[d] # "none"
  BY StatusFacts DEF EntriesHaveSockets
<1>4. \A d \in Call : Status'[d] = IF d \in Entries(connections)
                                   THEN "done" ELSE Status[d]
  BY <1>1, <1>2, <1>3 DEF Status, StatusRead
<1>5. Status' = Registry!Finish(Entries(connections))
  BY <1>4 DEF Status, Registry!Finish
<1> QED
  BY <1>1, <1>5, SameOperators DEF Registry!Shutdown, Stop, Status, Speaker

(* Every behaviour of the handler is a behaviour of the abstract registry. *)
THEOREM Refinement == Spec => ImplementsRegistry
<1> USE NoneAssumption
<1>1. Init => Registry!CInit
  <2> SUFFICES ASSUME Init PROVE Registry!CInit
    OBVIOUS
  <2>1. Entries(connections) = {}
    BY DEF Init, EmptyMap, Entries, KeysIn
  <2>2. \A c \in Call : StatusOf(c) = "new"
    BY <2>1 DEF Init, StatusOf, Running
  <2> QED
    BY <2>2, SameOperators DEF Init, Registry!CInit
<1>2. IInv /\ IInv' /\ [Next]_vars => [Registry!CNext]_(Registry!cvars)
  <2> SUFFICES ASSUME IInv, IInv', [Next]_vars
               PROVE  Registry!CNext \/ UNCHANGED Registry!cvars
    BY DEF Registry!cvars
  <2>1. StatusRead /\ StatusRead' /\ EntriesHaveSockets /\ EntriesHaveSockets'
    <3>1. IInv' => StatusRead' /\ EntriesHaveSockets'
      BY StatusFacts, PTL
    <3> QED
      BY <3>1, StatusFacts
  <2>2. ASSUME UNCHANGED <<sock, connections, alive>>, io' = None PROVE Registry!CNext
    BY <2>1, <2>2, SpeakStep DEF Registry!CNext
  <2>3. ASSUME NEW c \in Call, Connect(c) \/ GiveUp(c) PROVE Registry!CNext
    BY <2>2, <2>3 DEF Connect, Reject, Reserve, Arrive, GiveUp
  <2>4. ASSUME NEW c \in Call, Commit(c) PROVE Registry!CNext
    <3>1. keyOf[c] \in Registry!Key
      BY <2>4, ClaimHeld, SameOperators DEF Commit
    <3> QED
      BY <2>1, <2>4, <3>1, EstablishStep, DiscardStep DEF Commit, Registry!CNext
  <2>5. ASSUME NEW c \in Call, Opened(c) \/ MessageReceived(c) \/ Errored(c) \/ PeerCloses(c)
        PROVE  Registry!CNext
    <3>1. sock[c] # "none"
      BY <2>5 DEF Opened, MessageReceived, Errored, Running, PeerCloses
    <3>2. \A d \in Call : d \in Entries(connections) \/ sock'[d] = sock[d]
                             \/ (sock[d] # "none" /\ sock'[d] # "none")
      BY <2>5, <3>1 DEF Opened, MessageReceived, Errored, AfterClose, PeerCloses, IInv, TypeOK
    <3>3. io' = None \/ (io' = [from |-> c, what |-> io'.what] /\ IsCurrent(c))
      BY <2>5 DEF Opened, MessageReceived, Errored, PeerCloses, Emit
    <3>4. io' = None \/ io'.from \in Entries(connections)
      BY <3>1, <3>3, Disposed
    <3> QED
      BY <2>1, <2>5, <3>2, <3>4, SpeakStep
      DEF Opened, MessageReceived, Errored, PeerCloses, Registry!CNext
  <2>6. ASSUME NEW c \in Call, Closed(c) PROVE Registry!CNext
    <3>1. keyOf[c] \in Registry!Key
      BY <2>6, Disposed, SameOperators DEF Closed, Ending
    <3>2. CASE IsCurrent(c)
      BY <2>1, <2>6, <3>1, <3>2, EndStep DEF Registry!CNext
    <3>3. CASE ~IsCurrent(c)
      <4>1. io' = None /\ UNCHANGED <<connections, alive>>
        BY <2>6, <3>3 DEF Closed, Emit
      <4>2. \A d \in Call : sock'[d] = sock[d] \/ (sock[d] # "none" /\ sock'[d] # "none")
        BY <2>6 DEF Closed, Ending, IInv, TypeOK
      <4> QED
        BY <2>1, <4>1, <4>2, SpeakStep DEF Registry!CNext
    <3> QED
      BY <3>2, <3>3
  <2>7. ASSUME NEW k \in Key, Send(k) PROVE Registry!CNext
    <3>1. io'.from \in Entries(connections) /\ UNCHANGED <<connections, alive, sock>>
      BY <2>7 DEF Send, Entries, KeysIn
    <3> QED
      BY <2>1, <3>1, SpeakStep DEF Registry!CNext
  <2>8. ASSUME NEW k \in Key, Disconnect(k) PROVE Registry!CNext
    <3>1. connections[k] \in Entries(connections) /\ connections[k] \in Call
      BY <2>8 DEF Disconnect, Entries, KeysIn, IInv, TypeOK
    <3>2. /\ io' = None /\ UNCHANGED <<connections, alive>>
          /\ \A d \in Call : d \in Entries(connections) \/ sock'[d] = sock[d]
      BY <2>8, <3>1 DEF Disconnect, IInv, TypeOK
    <3> QED
      BY <2>1, <3>2, SpeakStep DEF Registry!CNext
  <2>9. ASSUME NEW o \in Owner, Destroyed(o) PROVE Registry!CNext
    BY <2>1, <2>9, LeaveStep DEF Registry!CNext
  <2>10. CASE Stop
    BY <2>1, <2>10, ShutdownStep DEF Registry!CNext
  <2>11. CASE UNCHANGED vars
    BY <2>11 DEF vars, Registry!cvars, StatusOf, Running, Entries, KeysIn
  <2> QED
    BY <2>3, <2>4, <2>5, <2>6, <2>7, <2>8, <2>9, <2>10, <2>11
    DEF Next, Resume, SocketEvent, Request
<1> QED
  BY <1>1, <1>2, Invariance, PTL DEF Spec, ImplementsRegistry, Registry!CSpec
================================================================================
