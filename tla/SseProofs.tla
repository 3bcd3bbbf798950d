-------------------------------- MODULE SseProofs --------------------------------
(***************************************************************************)
(* Theorems about SseHandler, for any renderers, ids, number of calls and  *)
(* cap: the safety properties its runs check, and the refinement of        *)
(* ConnectionRegistry.                                                     *)
(***************************************************************************)
EXTENDS SseRefinement, StreamRegistryProofs

(* A key belongs to a renderer.                                            *)
LEMMA CallKeys == ASSUME NEW k \in Key PROVE OwnerOf(k) \in Owner
  BY DEF Key, OwnerOf

(* Every variable keeps its type, and a renderer that is gone is no longer *)
(* bound.                                                                  *)
THEOREM TypeCorrect == Spec => []TypeOK
<1> USE DEF StreamState, Emission
<1>1. Init => TypeOK
  BY SseBoundsAssumption DEF Init, TypeOK, EmptyMap, Call
<1>2. TypeOK /\ [Next]_vars => TypeOK'
  <2> SUFFICES ASSUME TypeOK, [Next]_vars PROVE TypeOK'
    OBVIOUS
  <2> USE CallKeys, SseNoneAssumption DEF TypeOK
  <2>1. ASSUME NEW c \in Call, NEW k \in Key, Reject(c, k) PROVE TypeOK'
    BY <2>1, SseBoundsAssumption DEF Reject, Arrive, Reply, Call
  <2>2. ASSUME NEW c \in Call, NEW k \in Key, Reserve(c, k) PROVE TypeOK'
    <3>1. pending' \in [Key -> Call \cup {None}]
      BY <2>2 DEF Reserve, Put, TeardownIfDead, WithoutOwner
    <3>2. claimBound' \in SUBSET alive
      BY <2>2 DEF Reserve, Bind
    <3>3. ownerEntry' \in [Call -> Call \cup {None}]
      BY <2>2 DEF Reserve
    <3> QED
      BY <2>2, <3>1, <3>2, <3>3, SseBoundsAssumption DEF Reserve, Arrive, Reply, Call
  <2>3. ASSUME NEW c \in Call, GiveUp(c) PROVE TypeOK'
    BY <2>3 DEF GiveUp, Reply, Release, HoldsClaim, Drop
  <2>4. ASSUME NEW c \in Call, Commit(c) PROVE TypeOK'
    <3>1. CASE CommitClaimed(c)
      BY <2>4, <3>1 DEF Commit, CommitClaimed, Put, TeardownIfDead, WithoutOwner,
         Bind, Flagged, Reply
    <3>2. CASE CommitRefused(c)
      BY <2>4, <3>2 DEF Commit, CommitRefused, Release, HoldsClaim, Drop, Flagged, Reply
    <3> QED
      BY <2>4, <3>1, <3>2 DEF Commit
  <2>5. ASSUME NEW c \in Call, Answer(c) PROVE TypeOK'
    <3> USE DEF Release, HoldsClaim, Drop, Reply, Emit, Hear
    <3>1. CASE RequestFails(c)
      <4>1. stream' \in [Call -> StreamState]
        BY <3>1 DEF RequestFails
      <4>2. connections' \in [Key -> Call \cup {None}]
        BY <3>1 DEF RequestFails, EmitAndRemoveIfCurrent
      <4>3. io' \in Emission \cup {None} /\ told' \in [Call -> {"nothing", "open", "close"}]
        BY <3>1 DEF RequestFails, EmitAndRemoveIfCurrent
      <4> QED
        BY <3>1, <4>1, <4>2, <4>3 DEF RequestFails
    <3>2. CASE RequestThrows(c)
      BY <3>2 DEF RequestThrows
    <3>3. CASE AnsweredTooLate(c)
      BY <3>3 DEF AnsweredTooLate
    <3>4. CASE Answered(c)
      BY <3>4 DEF Answered, AnsweredUnchecked
    <3> QED
      BY <2>5, <3>1, <3>2, <3>3, <3>4 DEF Answer
  <2>6. ASSUME NEW c \in Call, Read(c) PROVE TypeOK'
    <3> USE DEF Emit, Hear
    <3>1. CASE EventRead(c)
      BY <3>1 DEF EventRead
    <3>2. CASE StreamEnds(c) \/ StreamFails(c)
      BY <3>2 DEF StreamEnds, StreamFails
    <3>3. CASE Cancelled(c)
      BY <3>3 DEF Cancelled, EmitAndRemoveIfCurrent, Drop
    <3> QED
      BY <2>6, <3>1, <3>2, <3>3 DEF Read
  <2>7. ASSUME NEW k \in Key, Disconnect(k) PROVE TypeOK'
    BY <2>7 DEF Disconnect, Flagged, Drop
  <2>8. ASSUME NEW o \in Owner, Destroyed(o) PROVE TypeOK'
    BY <2>8 DEF Destroyed, AfterDestroyed, WithoutOwner, Flagged
  <2>9. CASE Stop
    BY <2>9 DEF Stop, EmptyMap, Flagged
  <2>10. CASE UNCHANGED vars
    BY <2>10 DEF vars
  <2> QED
    BY <2>1, <2>2, <2>3, <2>4, <2>5, <2>6, <2>7, <2>8, <2>9, <2>10
    DEF Next, Connect, Resume
<1> QED
  BY <1>1, <1>2, PTL DEF Spec

-------------------------------------------------------------------------------
(* One lemma per action: each preserves the inductive invariant.           *)

(* IInv without the typing, which TypeCorrect already gives.               *)
Rest == CallsSound /\ ClaimsSound /\ EntriesSound /\ StreamsSound
        /\ ChannelDiscipline /\ NoSilentEnd

(* What the registry hands to a teardown is the current call of a key.     *)
LEMMA Disposed ==
  ASSUME IInv, NEW c \in Call
  PROVE  /\ pc[c] # "idle" => keyOf[c] \in Key
         /\ c \in Entries(connections) <=> keyOf[c] \in Key /\ IsCurrent(c)
         /\ \A o \in Owner : c \in OwnedBy(connections, o) <=>
                /\ keyOf[c] \in Key /\ IsCurrent(c)
                /\ OwnerOf(keyOf[c]) = o
  BY SseNoneAssumption
  DEF IInv, TypeOK, CallsSound, EntriesSound, Entries, OwnedBy, KeysIn, IsCurrent

(* What a call finds of itself after either of its awaits.                 *)
LEMMA AfterAwait ==
  ASSUME IInv, NEW c \in Call, pc[c] \in {"resolving", "connecting", "ok"}
  PROVE  /\ keyOf[c] \in Key
         /\ HoldsClaim(c) => OwnerOf(keyOf[c]) \in alive
         /\ IsCurrent(c) => OwnerOf(keyOf[c]) \in alive
  BY Disposed, SseNoneAssumption
  DEF IInv, TypeOK, ClaimsSound, EntriesSound, HoldsClaim, IsCurrent

(* Disposing of current calls moves no call and no exchange: each of them  *)
(* is flagged, and every other call that was current still is.             *)
LEMMA DisposeKeeps ==
  ASSUME IInv, TypeOK', NEW gone, explicit' = Flagged(gone),
         \A d \in Call \cap gone : keyOf[d] \in Key /\ IsCurrent(d),
         \A d \in Call \ gone : keyOf[d] \in Key /\ IsCurrent(d) => IsCurrent(d)',
         UNCHANGED <<made, pc, keyOf, stream, told>>, alive' \subseteq alive
  PROVE  CallsSound' /\ StreamsSound' /\ NoSilentEnd'
<1> USE SseNoneAssumption DEF IInv, TypeOK, Flagged
<1>1. ASSUME NEW d \in Call, d \in gone
      PROVE  explicit'[d] /\ pc[d] \in {"connecting", "ok"} /\ told[d] # "close"
  <2>1. keyOf[d] \in Key /\ connections[keyOf[d]] = d /\ d # None
    BY <1>1 DEF IsCurrent
  <2>2. explicit'[d]
    BY <1>1
  <2> QED
    BY <2>1, <2>2 DEF EntriesSound, CallsSound
<1>2. ASSUME NEW d \in Call, d \notin gone
      PROVE  /\ explicit'[d] = explicit[d]
             /\ keyOf[d] \in Key /\ IsCurrent(d) => IsCurrent(d)'
  BY <1>2
<1>3. CallsSound'
  BY <1>1, <1>2 DEF CallsSound
<1>4. StreamsSound'
  BY <1>1, <1>2 DEF StreamsSound, CallsSound
<1>5. NoSilentEnd'
  BY <1>1, <1>2 DEF NoSilentEnd, CallsSound
<1> QED
  BY <1>3, <1>4, <1>5

(* A call that is turned away claims nothing.                              *)
LEMMA RejectKeeps ==
  ASSUME IInv, TypeOK', NEW c \in Call, NEW k \in Key, Reject(c, k)
  PROVE  Rest'
<1> USE SseNoneAssumption DEF IInv, TypeOK, StreamState, Emission, Reject,
        Arrive, Reply, Call
<1>1. CallsSound'
  BY DEF CallsSound
<1>2. ClaimsSound'
  BY DEF CallsSound, ClaimsSound
<1>3. EntriesSound'
  BY DEF CallsSound, ClaimsSound, EntriesSound, IsCurrent
<1>4. StreamsSound'
  BY DEF CallsSound, EntriesSound, StreamsSound, IsCurrent
<1>5. ChannelDiscipline'
  BY DEF ChannelDiscipline, CallsSound, EntriesSound, StreamsSound, IsCurrent
<1>6. NoSilentEnd'
  BY DEF NoSilentEnd, CallsSound, EntriesSound, StreamsSound, IsCurrent
<1> QED
  BY <1>1, <1>2, <1>3, <1>4, <1>5, <1>6 DEF Rest

(* The claim of a new call is the latest on its key.                       *)
LEMMA ReserveKeeps ==
  ASSUME IInv, TypeOK', NEW c \in Call, NEW k \in Key, Reserve(c, k)
  PROVE  Rest'
<1> USE SseNoneAssumption DEF IInv, TypeOK, StreamState, Emission, Reserve,
        Arrive, Reply, Call, Put, TeardownIfDead, Bind
<1>1. CallsSound'
  BY DEF CallsSound
<1>2. ClaimsSound'
  BY DEF CallsSound, ClaimsSound
<1>3. EntriesSound'
  BY DEF CallsSound, ClaimsSound, EntriesSound, IsCurrent
<1>4. StreamsSound'
  BY DEF CallsSound, EntriesSound, StreamsSound, IsCurrent
<1>5. ChannelDiscipline'
  BY DEF ChannelDiscipline, CallsSound, EntriesSound, StreamsSound, IsCurrent
<1>6. NoSilentEnd'
  BY DEF NoSilentEnd, CallsSound, EntriesSound, StreamsSound, IsCurrent
<1> QED
  BY <1>1, <1>2, <1>3, <1>4, <1>5, <1>6 DEF Rest

(* A call that resolves too late gives back only a claim of its own.       *)
LEMMA GiveUpKeeps ==
  ASSUME IInv, TypeOK', NEW c \in Call, GiveUp(c)
  PROVE  Rest'
<1> USE SseNoneAssumption DEF IInv, TypeOK, StreamState, Emission, GiveUp,
        Reply, Release, HoldsClaim, Drop
<1>1. CallsSound'
  BY AfterAwait DEF CallsSound
<1>2. ClaimsSound'
  BY AfterAwait DEF CallsSound, ClaimsSound
<1>3. EntriesSound'
  BY AfterAwait DEF CallsSound, ClaimsSound, EntriesSound, IsCurrent
<1>4. StreamsSound'
  BY AfterAwait DEF CallsSound, EntriesSound, StreamsSound, IsCurrent
<1>5. ChannelDiscipline'
  BY AfterAwait DEF ChannelDiscipline, CallsSound, EntriesSound, StreamsSound, IsCurrent
<1>6. NoSilentEnd'
  BY AfterAwait DEF NoSilentEnd, CallsSound, EntriesSound, StreamsSound, IsCurrent
<1> QED
  BY <1>1, <1>2, <1>3, <1>4, <1>5, <1>6 DEF Rest

(* A commit replaces the entry it saw before the await, or none.           *)
LEMMA ClaimedKeeps ==
  ASSUME IInv, TypeOK', NEW c \in Call, Commit(c), CommitClaimed(c)
  PROVE  Rest'
<1> USE SseNoneAssumption DEF IInv, TypeOK, StreamState, Emission, Commit,
        CommitClaimed, CanReplace, CanAdd, Put, TeardownIfDead, Bind, Flagged,
        Reply, HoldsClaim
<1> DEFINE k == keyOf[c]
<1>a. /\ k \in Key /\ OwnerOf(k) \in alive
      /\ connections' = Put(connections, k, c)
      /\ ownerEntry[c] = connections[k]
      /\ connections[k] # c
  BY AfterAwait DEF EntriesSound
<1>b. ASSUME NEW d \in Call, d = connections[k]
      PROVE  /\ keyOf[d] = k /\ IsCurrent(d) /\ explicit'[d] /\ d # c
             /\ pc[d] \in {"connecting", "ok"} /\ told[d] # "close"
  <2>1. connections[k] = d /\ ownerEntry[c] = d /\ d # None
    BY <1>a, <1>b
  <2>2. explicit'[d]
    BY <2>1
  <2> QED
    BY <1>a, <2>1, <2>2 DEF EntriesSound, CallsSound, IsCurrent
<1>c. ASSUME NEW d \in Call, d # connections[k]
      PROVE  /\ explicit'[d] = explicit[d]
             /\ d # c /\ keyOf[d] \in Key => IsCurrent(d)' = IsCurrent(d)
  BY <1>a, <1>c DEF IsCurrent
<1>1. CallsSound'
  BY <1>b, <1>c DEF CallsSound
<1>2. ClaimsSound'
  BY AfterAwait DEF CallsSound, ClaimsSound
<1>3. EntriesSound'
  BY AfterAwait DEF CallsSound, ClaimsSound, EntriesSound, IsCurrent
<1>4. StreamsSound'
  <2> SUFFICES ASSUME NEW d \in Call PROVE StreamsSound!(d)'
    BY DEF StreamsSound
  <2>1. CASE d = c
    BY <1>a, <1>c, <2>1 DEF StreamsSound, CallsSound, IsCurrent
  <2>2. CASE d = connections[k]
    BY <1>b, <2>2 DEF StreamsSound
  <2>3. CASE d # c /\ d # connections[k]
    BY <1>c, <2>3 DEF StreamsSound, CallsSound
  <2> QED
    BY <2>1, <2>2, <2>3
<1>5. ChannelDiscipline'
  BY AfterAwait DEF ChannelDiscipline, CallsSound, EntriesSound, StreamsSound, IsCurrent
<1>6. NoSilentEnd'
  <2> SUFFICES ASSUME NEW d \in Call PROVE NoSilentEnd!(d)'
    BY DEF NoSilentEnd
  <2>1. CASE d = c
    BY <2>1
  <2>2. CASE d = connections[k]
    BY <1>b, <2>2
  <2>3. CASE d # c /\ d # connections[k]
    BY <1>c, <2>3 DEF NoSilentEnd, CallsSound
  <2> QED
    BY <2>1, <2>2, <2>3
<1> QED
  BY <1>1, <1>2, <1>3, <1>4, <1>5, <1>6 DEF Rest

(* A commit that finds another entry disposes only its own.                *)
LEMMA RefusedKeeps ==
  ASSUME IInv, TypeOK', NEW c \in Call, Commit(c), CommitRefused(c)
  PROVE  Rest'
<1> USE SseNoneAssumption DEF IInv, TypeOK, StreamState, Emission, Commit,
        CommitRefused, Flagged, Reply, Release, HoldsClaim, Drop
<1>1. CallsSound'
  BY AfterAwait DEF CallsSound
<1>2. ClaimsSound'
  BY AfterAwait DEF CallsSound, ClaimsSound
<1>3. EntriesSound'
  BY AfterAwait DEF CallsSound, ClaimsSound, EntriesSound, IsCurrent
<1>4. StreamsSound'
  BY AfterAwait DEF CallsSound, EntriesSound, StreamsSound, IsCurrent
<1>5. ChannelDiscipline'
  BY AfterAwait DEF ChannelDiscipline, CallsSound, EntriesSound, StreamsSound, IsCurrent
<1>6. NoSilentEnd'
  BY AfterAwait DEF NoSilentEnd, CallsSound, EntriesSound, StreamsSound, IsCurrent
<1> QED
  BY <1>1, <1>2, <1>3, <1>4, <1>5, <1>6 DEF Rest

(* A failed request leaves its key with a close event, if it was still there. *)
LEMMA RequestFailsKeeps ==
  ASSUME IInv, TypeOK', NEW c \in Call, RequestFails(c)
  PROVE  Rest'
<1> USE SseNoneAssumption DEF IInv, TypeOK, StreamState, Emission, RequestFails,
        EmitAndRemoveIfCurrent, Emit, Hear, Reply, Release, HoldsClaim, Drop
<1>1. CallsSound'
  BY AfterAwait DEF CallsSound
<1>2. ClaimsSound'
  BY AfterAwait DEF CallsSound, ClaimsSound
<1>3. EntriesSound'
  BY AfterAwait DEF CallsSound, ClaimsSound, EntriesSound, IsCurrent
<1>4. StreamsSound'
  BY AfterAwait DEF CallsSound, EntriesSound, StreamsSound, IsCurrent
<1>5. ChannelDiscipline'
  BY AfterAwait DEF ChannelDiscipline, CallsSound, EntriesSound, StreamsSound, IsCurrent
<1>6. NoSilentEnd'
  BY AfterAwait DEF NoSilentEnd, CallsSound, EntriesSound, StreamsSound, IsCurrent
<1> QED
  BY <1>1, <1>2, <1>3, <1>4, <1>5, <1>6 DEF Rest

(* A request that throws leaves its key without an event.                  *)
LEMMA RequestThrowsKeeps ==
  ASSUME IInv, TypeOK', NEW c \in Call, RequestThrows(c)
  PROVE  Rest'
<1> USE SseNoneAssumption DEF IInv, TypeOK, StreamState, Emission,
        RequestThrows, Reply, Release, HoldsClaim, Drop
<1>1. CallsSound'
  BY AfterAwait DEF CallsSound
<1>2. ClaimsSound'
  BY AfterAwait DEF CallsSound, ClaimsSound
<1>3. EntriesSound'
  BY AfterAwait DEF CallsSound, ClaimsSound, EntriesSound, IsCurrent
<1>4. StreamsSound'
  BY AfterAwait DEF CallsSound, EntriesSound, StreamsSound, IsCurrent
<1>5. ChannelDiscipline'
  BY AfterAwait DEF ChannelDiscipline, CallsSound, EntriesSound, StreamsSound, IsCurrent
<1>6. NoSilentEnd'
  BY AfterAwait DEF NoSilentEnd, CallsSound, EntriesSound, StreamsSound, IsCurrent
<1> QED
  BY <1>1, <1>2, <1>3, <1>4, <1>5, <1>6 DEF Rest

(* An answer nobody waits for only ends its own call.                      *)
LEMMA TooLateKeeps ==
  ASSUME IInv, TypeOK', NEW c \in Call, AnsweredTooLate(c)
  PROVE  Rest'
<1> USE SseNoneAssumption DEF IInv, TypeOK, StreamState, Emission,
        AnsweredTooLate, Reply, Release, HoldsClaim, Drop
<1>1. CallsSound'
  BY AfterAwait DEF CallsSound
<1>2. ClaimsSound'
  BY AfterAwait DEF CallsSound, ClaimsSound
<1>3. EntriesSound'
  BY AfterAwait DEF CallsSound, ClaimsSound, EntriesSound, IsCurrent
<1>4. StreamsSound'
  BY AfterAwait DEF CallsSound, EntriesSound, StreamsSound, IsCurrent
<1>5. ChannelDiscipline'
  BY AfterAwait DEF ChannelDiscipline, CallsSound, EntriesSound, StreamsSound, IsCurrent
<1>6. NoSilentEnd'
  BY AfterAwait DEF NoSilentEnd, CallsSound, EntriesSound, StreamsSound, IsCurrent
<1> QED
  BY <1>1, <1>2, <1>3, <1>4, <1>5, <1>6 DEF Rest

(* An answer to the current call opens its stream.                         *)
LEMMA AnsweredKeeps ==
  ASSUME IInv, TypeOK', NEW c \in Call, Answered(c)
  PROVE  Rest'
<1> USE SseNoneAssumption DEF IInv, TypeOK, StreamState, Emission, Answered,
        AnsweredUnchecked, Emit, Hear, Reply, Release, HoldsClaim, Drop
<1>1. CallsSound'
  BY AfterAwait DEF CallsSound
<1>2. ClaimsSound'
  BY AfterAwait DEF CallsSound, ClaimsSound
<1>3. EntriesSound'
  BY AfterAwait DEF CallsSound, ClaimsSound, EntriesSound, IsCurrent
<1>4. StreamsSound'
  BY AfterAwait DEF CallsSound, EntriesSound, StreamsSound, IsCurrent
<1>5. ChannelDiscipline'
  BY AfterAwait DEF ChannelDiscipline, CallsSound, EntriesSound, StreamsSound, IsCurrent
<1>6. NoSilentEnd'
  BY AfterAwait DEF NoSilentEnd, CallsSound, EntriesSound, StreamsSound, IsCurrent
<1> QED
  BY <1>1, <1>2, <1>3, <1>4, <1>5, <1>6 DEF Rest

(* An event is forwarded from the current stream only.                     *)
LEMMA EventReadKeeps ==
  ASSUME IInv, TypeOK', NEW c \in Call, EventRead(c)
  PROVE  Rest'
<1> USE SseNoneAssumption DEF IInv, TypeOK, StreamState, Emission, EventRead,
        Emit
<1>1. CallsSound'
  BY DEF CallsSound
<1>2. ClaimsSound'
  BY DEF CallsSound, ClaimsSound
<1>3. EntriesSound'
  BY DEF CallsSound, ClaimsSound, EntriesSound, IsCurrent
<1>4. StreamsSound'
  BY DEF CallsSound, EntriesSound, StreamsSound, IsCurrent
<1>5. ChannelDiscipline'
  BY DEF ChannelDiscipline, CallsSound, EntriesSound, StreamsSound, IsCurrent
<1>6. NoSilentEnd'
  BY DEF NoSilentEnd, CallsSound, EntriesSound, StreamsSound, IsCurrent
<1> QED
  BY <1>1, <1>2, <1>3, <1>4, <1>5, <1>6 DEF Rest

(* A stream that leaves the read loop keeps its entry.                     *)
LEMMA ReadingEndsKeeps ==
  ASSUME IInv, TypeOK', NEW c \in Call, StreamEnds(c) \/ StreamFails(c)
  PROVE  Rest'
<1> USE SseNoneAssumption DEF IInv, TypeOK, StreamState, Emission, StreamEnds,
        StreamFails, Emit
<1>1. CallsSound'
  BY DEF CallsSound
<1>2. ClaimsSound'
  BY DEF CallsSound, ClaimsSound
<1>3. EntriesSound'
  BY DEF CallsSound, ClaimsSound, EntriesSound, IsCurrent
<1>4. StreamsSound'
  BY DEF CallsSound, EntriesSound, StreamsSound, IsCurrent
<1>5. ChannelDiscipline'
  BY DEF ChannelDiscipline, CallsSound, EntriesSound, StreamsSound, IsCurrent
<1>6. NoSilentEnd'
  BY DEF NoSilentEnd, CallsSound, EntriesSound, StreamsSound, IsCurrent
<1> QED
  BY <1>1, <1>2, <1>3, <1>4, <1>5, <1>6 DEF Rest

(* A cancelled reader leaves its key with a close event, unless disposed.  *)
LEMMA CancelledKeeps ==
  ASSUME IInv, TypeOK', NEW c \in Call, Cancelled(c)
  PROVE  Rest'
<1> USE SseNoneAssumption DEF IInv, TypeOK, StreamState, Emission, Cancelled,
        EmitAndRemoveIfCurrent, Emit, Hear, Drop
<1>1. CallsSound'
  BY AfterAwait DEF CallsSound
<1>2. ClaimsSound'
  BY AfterAwait DEF CallsSound, ClaimsSound
<1>3. EntriesSound'
  BY AfterAwait DEF CallsSound, ClaimsSound, EntriesSound, IsCurrent
<1>4. StreamsSound'
  BY AfterAwait DEF CallsSound, EntriesSound, StreamsSound, IsCurrent
<1>5. ChannelDiscipline'
  BY AfterAwait DEF ChannelDiscipline, CallsSound, EntriesSound, StreamsSound, IsCurrent
<1>6. NoSilentEnd'
  BY AfterAwait DEF NoSilentEnd, CallsSound, EntriesSound, StreamsSound, IsCurrent
<1> QED
  BY <1>1, <1>2, <1>3, <1>4, <1>5, <1>6 DEF Rest

(* A disconnect disposes the entry and removes it.                         *)
LEMMA DisconnectKeeps ==
  ASSUME IInv, TypeOK', NEW k \in Key, Disconnect(k)
  PROVE  Rest'
<1> USE SseNoneAssumption DEF IInv, TypeOK, StreamState, Emission, Disconnect,
        Flagged, Drop
<1>a. CallsSound' /\ StreamsSound' /\ NoSilentEnd'
  <2> DEFINE gone == {connections[k]}
  <2>1. \A d \in Call \cap gone : keyOf[d] \in Key /\ IsCurrent(d)
    BY DEF EntriesSound, IsCurrent
  <2>2. \A d \in Call \ gone : keyOf[d] \in Key /\ IsCurrent(d) => IsCurrent(d)'
    BY DEF IsCurrent
  <2> QED
    BY <2>1, <2>2, DisposeKeeps
<1>1. CallsSound'
  BY <1>a
<1>2. ClaimsSound'
  BY DEF CallsSound, ClaimsSound
<1>3. EntriesSound'
  BY DEF CallsSound, ClaimsSound, EntriesSound, IsCurrent
<1>4. StreamsSound'
  BY <1>a
<1>5. ChannelDiscipline'
  BY DEF ChannelDiscipline, CallsSound, EntriesSound, StreamsSound, IsCurrent
<1>6. NoSilentEnd'
  BY <1>a
<1> QED
  BY <1>1, <1>2, <1>3, <1>4, <1>5, <1>6 DEF Rest

(* A destroyed renderer loses its entries, disposed, and its claims.       *)
LEMMA DestroyedKeeps ==
  ASSUME IInv, TypeOK', NEW o \in Owner, Destroyed(o)
  PROVE  Rest'
<1> USE SseNoneAssumption DEF IInv, TypeOK, StreamState, Emission, Destroyed,
        AfterDestroyed, WithoutOwner, DisposedOnDestroyed, Flagged
<1>a. CallsSound' /\ StreamsSound' /\ NoSilentEnd'
  <2> DEFINE gone == DisposedOnDestroyed(connections, entryBound, o)
  <2>1. \A d \in Call \cap gone : keyOf[d] \in Key /\ IsCurrent(d)
    BY Disposed
  <2>2. \A d \in Call \ gone : keyOf[d] \in Key /\ IsCurrent(d) => IsCurrent(d)'
    BY Disposed DEF IsCurrent
  <2>3. /\ explicit' = Flagged(gone) /\ alive' \subseteq alive
        /\ UNCHANGED <<made, pc, keyOf, stream, told>>
    OBVIOUS
  <2> HIDE DEF gone
  <2> QED
    BY <2>1, <2>2, <2>3, DisposeKeeps
<1>1. CallsSound'
  BY <1>a
<1>2. ClaimsSound'
  BY Disposed DEF CallsSound, ClaimsSound
<1>3. EntriesSound'
  BY Disposed DEF CallsSound, ClaimsSound, EntriesSound, IsCurrent
<1>4. StreamsSound'
  BY <1>a
<1>5. ChannelDiscipline'
  BY Disposed DEF ChannelDiscipline, CallsSound, EntriesSound, StreamsSound, IsCurrent
<1>6. NoSilentEnd'
  BY <1>a
<1> QED
  BY <1>1, <1>2, <1>3, <1>4, <1>5, <1>6 DEF Rest

(* Stop disposes every entry and clears both registries.                   *)
LEMMA StopKeeps ==
  ASSUME IInv, TypeOK', Stop
  PROVE  Rest'
<1> USE SseNoneAssumption DEF IInv, TypeOK, StreamState, Emission, Stop,
        EmptyMap, Flagged
<1>a. CallsSound' /\ StreamsSound' /\ NoSilentEnd'
  <2> DEFINE gone == Entries(connections)
  <2>1. \A d \in Call \cap gone : keyOf[d] \in Key /\ IsCurrent(d)
    BY Disposed
  <2>2. \A d \in Call \ gone : keyOf[d] \in Key /\ IsCurrent(d) => IsCurrent(d)'
    BY Disposed
  <2> QED
    BY <2>1, <2>2, DisposeKeeps
<1>1. CallsSound'
  BY <1>a
<1>2. ClaimsSound'
  BY Disposed DEF CallsSound, ClaimsSound
<1>3. EntriesSound'
  BY Disposed DEF CallsSound, ClaimsSound, EntriesSound, IsCurrent
<1>4. StreamsSound'
  BY <1>a
<1>5. ChannelDiscipline'
  BY Disposed DEF ChannelDiscipline, CallsSound, EntriesSound, StreamsSound, IsCurrent
<1>6. NoSilentEnd'
  BY <1>a
<1> QED
  BY <1>1, <1>2, <1>3, <1>4, <1>5, <1>6 DEF Rest

-------------------------------------------------------------------------------
(* The inductive invariant, and the safety properties it implies: a stream *)
(* that runs undisposed is the current entry of its key, and so on.        *)
THEOREM Invariance == Spec => []IInv
<1>1. Init => IInv
  <2> SUFFICES ASSUME Init PROVE IInv
    OBVIOUS
  <2>1. TypeOK
    BY SseBoundsAssumption, SseNoneAssumption DEF Init, TypeOK, EmptyMap, StreamState, Call
  <2>2. Rest
    BY SseBoundsAssumption
    DEF Init, EmptyMap, Call, Rest, CallsSound, ClaimsSound, EntriesSound,
        StreamsSound, ChannelDiscipline, NoSilentEnd
  <2> QED
    BY <2>1, <2>2 DEF IInv, Rest
<1>2. IInv /\ TypeOK' /\ [Next]_vars => IInv'
  <2> SUFFICES ASSUME IInv, TypeOK', [Next]_vars PROVE Rest'
    BY DEF IInv, Rest
  <2>1. ASSUME NEW c \in Call, Connect(c) PROVE Rest'
    BY <2>1, RejectKeeps, ReserveKeeps DEF Connect
  <2>2. ASSUME NEW c \in Call, Resume(c) PROVE Rest'
    BY <2>2, GiveUpKeeps, ClaimedKeeps, RefusedKeeps DEF Resume, Commit
  <2>3. ASSUME NEW c \in Call, Answer(c) PROVE Rest'
    BY <2>3, RequestFailsKeeps, RequestThrowsKeeps, TooLateKeeps, AnsweredKeeps DEF Answer
  <2>4. ASSUME NEW c \in Call, Read(c) PROVE Rest'
    BY <2>4, EventReadKeeps, ReadingEndsKeeps, CancelledKeeps DEF Read
  <2>5. ASSUME NEW k \in Key, Disconnect(k) PROVE Rest'
    BY <2>5, DisconnectKeeps
  <2>6. ASSUME NEW o \in Owner, Destroyed(o) PROVE Rest'
    BY <2>6, DestroyedKeeps
  <2>7. CASE Stop
    BY <2>7, StopKeeps
  <2>8. CASE UNCHANGED vars
    BY <2>8 DEF vars, IInv, Rest, CallsSound, ClaimsSound, EntriesSound, StreamsSound,
                IsCurrent, ChannelDiscipline, NoSilentEnd
  <2> QED
    BY <2>1, <2>2, <2>3, <2>4, <2>5, <2>6, <2>7, <2>8 DEF Next
<1> QED
  BY <1>1, <1>2, TypeCorrect, PTL DEF Spec

(* What a renderer hears on an id comes from its latest stream there, and  *)
(* events come between its open and its close.                             *)
THEOREM ChannelIsDisciplined == Spec => []ChannelDiscipline
<1>1. IInv => ChannelDiscipline
  BY DEF IInv
<1> QED
  BY <1>1, Invariance, PTL

(* An open stream ends with a close event exactly when nobody asked for it *)
(* to end.                                                                 *)
THEOREM EndIsNeverSilent == Spec => []NoSilentEnd
<1>1. IInv => NoSilentEnd
  BY DEF IInv
<1> QED
  BY <1>1, Invariance, PTL

-------------------------------------------------------------------------------
(* The ids in use never exceed the cap.                                    *)

(* Renderers and ids are finitely many, and so are the keys.               *)
LEMMA KeyIsFinite == IsFiniteSet(Key)
  BY SseFiniteAssumption, FS_Product DEF Key

Used == KeysIn(connections) \cup KeysIn(pending)

(* The ids in use are finitely many, no more than entries plus claims, and *)
(* one more id makes them one more at most.                                *)
LEMMA UsedCounts ==
  /\ IsFiniteSet(Used) /\ Cardinality(Used) \in Nat
  /\ Cardinality(Used) <= Size(connections) + Size(pending)
  /\ Size(connections) \in Nat /\ Size(pending) \in Nat
  /\ \A k \in Key : Cardinality(Used \cup {k}) <= Cardinality(Used) + 1
<1> USE KeyIsFinite
<1>1. /\ IsFiniteSet(KeysIn(connections)) /\ IsFiniteSet(KeysIn(pending))
      /\ Size(connections) \in Nat /\ Size(pending) \in Nat
  BY SizeIsNat
<1>2. IsFiniteSet(Used) /\ Cardinality(Used) \in Nat
  BY <1>1, FS_Union, FS_CardinalityType DEF Used
<1>3. Cardinality(Used) <= Size(connections) + Size(pending)
  <2>1. KeysIn(connections) \cap KeysIn(pending) \subseteq KeysIn(pending)
    OBVIOUS
  <2>2. Cardinality(KeysIn(connections) \cap KeysIn(pending)) \in Nat
    BY <1>1, <2>1, FS_Subset, FS_CardinalityType
  <2>3. Cardinality(Used) = Cardinality(KeysIn(connections)) + Cardinality(KeysIn(pending))
                            - Cardinality(KeysIn(connections) \cap KeysIn(pending))
    BY <1>1, FS_Union DEF Used
  <2> QED
    BY <1>1, <1>2, <2>2, <2>3 DEF Size
<1>4. ASSUME NEW k \in Key PROVE Cardinality(Used \cup {k}) <= Cardinality(Used) + 1
  <2>1. Cardinality(Used \cup {k}) \in {Cardinality(Used), Cardinality(Used) + 1}
    BY <1>2, FS_AddElement
  <2> QED
    BY <1>2, <2>1
<1> QED
  BY <1>1, <1>2, <1>3, <1>4

(* A step that puts no new id into use keeps within the cap.               *)
LEMMA CapIfNoNewKey ==
  ASSUME WithinCap, Used' \subseteq Used
  PROVE  WithinCap'
<1>1. /\ IsFiniteSet(Used) /\ Cardinality(Used) \in Nat
  BY UsedCounts
<1>2. Cardinality(Used') <= Cardinality(Used) /\ Cardinality(Used') \in Nat
  BY <1>1, FS_Subset, FS_CardinalityType
<1> QED
  BY <1>1, <1>2, SseBoundsAssumption DEF WithinCap, Used

(* The check counts a call that waits for headers as an entry and as a     *)
(* claim: what it admits before the await still fits after it.             *)
THEOREM CapIsKept == Spec => []WithinCap
<1> USE SseNoneAssumption
<1>1. Init => WithinCap
  <2> SUFFICES ASSUME Init PROVE WithinCap
    OBVIOUS
  <2>1. Used = {}
    BY DEF Init, Used, KeysIn, EmptyMap
  <2> QED
    BY <2>1, FS_EmptySet, SseBoundsAssumption DEF WithinCap, Used
<1>2. IInv /\ WithinCap /\ [Next]_vars => WithinCap'
  <2> SUFFICES ASSUME IInv, WithinCap, [Next]_vars PROVE WithinCap'
    OBVIOUS
  <2> USE DEF IInv, TypeOK, Used, KeysIn
  <2>1. ASSUME NEW c \in Call, NEW k \in Key, Reserve(c, k) PROVE WithinCap'
    <3>1. Used' = Used \cup {k}
      BY <2>1 DEF Reserve, Arrive, TeardownIfDead, Put
    <3>2. Cardinality(Used) + 1 <= MaxConnections
      BY <2>1, UsedCounts, SseBoundsAssumption DEF Reserve, HasRoom
    <3> HIDE DEF Used, KeysIn
    <3>3. /\ Cardinality(Used \cup {k}) <= Cardinality(Used) + 1
          /\ Cardinality(Used) \in Nat /\ Cardinality(Used \cup {k}) \in Nat
      BY UsedCounts, FS_AddElement, FS_CardinalityType
    <3>4. Cardinality(Used') <= MaxConnections
      BY <3>1, <3>2, <3>3, SseBoundsAssumption
    <3> QED
      BY <3>4 DEF WithinCap, Used
  <2>2. ASSUME NEW c \in Call, Resume(c) PROVE WithinCap'
    <3>1. CASE GiveUp(c)
      BY <3>1, CapIfNoNewKey DEF GiveUp, Release, Drop
    <3>2. CASE Commit(c) /\ CommitClaimed(c)
      BY <3>2, AfterAwait, CapIfNoNewKey
      DEF Commit, CommitClaimed, HoldsClaim, TeardownIfDead, Put
    <3>3. CASE Commit(c) /\ CommitRefused(c)
      BY <3>3, CapIfNoNewKey DEF Commit, CommitRefused, Release, Drop
    <3> QED
      BY <2>2, <3>1, <3>2, <3>3 DEF Resume, Commit
  <2>3. ASSUME NEW c \in Call, Answer(c) PROVE WithinCap'
    <3> USE DEF Release, Drop
    <3>1. CASE RequestFails(c) \/ RequestThrows(c)
      BY <3>1, CapIfNoNewKey DEF RequestFails, RequestThrows, EmitAndRemoveIfCurrent
    <3>2. CASE AnsweredTooLate(c) \/ Answered(c)
      BY <3>2, CapIfNoNewKey DEF AnsweredTooLate, Answered, AnsweredUnchecked
    <3> QED
      BY <2>3, <3>1, <3>2 DEF Answer
  <2>4. ASSUME NEW c \in Call, Cancelled(c) PROVE WithinCap'
    BY <2>4, CapIfNoNewKey DEF Cancelled, EmitAndRemoveIfCurrent, Drop
  <2>5. ASSUME NEW k \in Key, Disconnect(k) PROVE WithinCap'
    BY <2>5, CapIfNoNewKey DEF Disconnect, Drop
  <2>6. ASSUME NEW o \in Owner, Destroyed(o) PROVE WithinCap'
    BY <2>6, CapIfNoNewKey DEF Destroyed, AfterDestroyed, WithoutOwner
  <2>7. CASE Stop
    BY <2>7, CapIfNoNewKey DEF Stop, EmptyMap
  <2>8. ASSUME UNCHANGED <<pending, connections>> PROVE WithinCap'
    BY <2>8 DEF WithinCap
  <2> QED
    BY <2>1, <2>2, <2>3, <2>4, <2>5, <2>6, <2>7, <2>8
    DEF Next, vars, Connect, Read, Reject, EventRead, StreamEnds, StreamFails
<1> QED
  BY <1>1, <1>2, Invariance, PTL DEF Spec

-------------------------------------------------------------------------------
(* The handler implements ConnectionRegistry.                              *)

(* The instance's copies of the registry's operators are the registry's.   *)
LEMMA SameOperators ==
  /\ Registry!Key = Key
  /\ Registry!EmptyMap = EmptyMap
  /\ \A map, k, e : Registry!Put(map, k, e) = Put(map, k, e)
  /\ \A map, k : Registry!Drop(map, k) = Drop(map, k)
  /\ \A map : Registry!Entries(map) = Entries(map)
  /\ \A map, o : Registry!OwnedBy(map, o) = OwnedBy(map, o)
  /\ \A map, o : Registry!WithoutOwner(map, o) = WithoutOwner(map, o)
  /\ \A k : Registry!OwnerOf(k) = OwnerOf(k)
  BY DEF Registry!Key, Key, Registry!Put, Put, Registry!Drop, Drop,
         Registry!Entries, Entries, Registry!KeysIn, KeysIn, Registry!OwnedBy,
         OwnedBy, Registry!WithoutOwner, WithoutOwner, Registry!OwnerOf, OwnerOf,
         Registry!EmptyMap, EmptyMap

Status == [c \in Call |-> StatusOf(c)]

Speaker == IF io = None THEN None ELSE io.from

(* What is in the registry after a put, a drop or the loss of an owner.    *)
LEMMA EntriesAfter ==
  ASSUME IInv, NEW d \in Call
  PROVE  /\ \A k \in Key : \A e \in Call : d \in Entries(Put(connections, k, e)) <=>
                d = e \/ (d \in Entries(connections) /\ connections[k] # d)
         /\ \A k \in Key : d \in Entries(Drop(connections, k)) <=>
                d \in Entries(connections) /\ connections[k] # d
         /\ \A o \in Owner : d \in Entries(WithoutOwner(connections, o)) <=>
                d \in Entries(connections) /\ d \notin OwnedBy(connections, o)
<1> USE SseNoneAssumption DEF IInv, TypeOK, EntriesSound, Entries, KeysIn
<1>1. \A k \in Key : \A e \in Call : d \in Entries(Put(connections, k, e)) <=>
          d = e \/ (d \in Entries(connections) /\ connections[k] # d)
  BY DEF Put
<1>2. \A k \in Key : d \in Entries(Drop(connections, k)) <=>
          d \in Entries(connections) /\ connections[k] # d
  BY DEF Drop
<1>3. ASSUME NEW o \in Owner
      PROVE  d \in Entries(WithoutOwner(connections, o)) <=>
                d \in Entries(connections) /\ d \notin OwnedBy(connections, o)
  <2>1. \A j \in Key : WithoutOwner(connections, o)[j] =
                          IF OwnerOf(j) = o THEN None ELSE connections[j]
    BY DEF WithoutOwner
  <2>2. d \in Entries(WithoutOwner(connections, o)) <=>
           \E j \in Key : OwnerOf(j) # o /\ connections[j] = d
    BY <2>1
  <2>3. d \in OwnedBy(connections, o) <=>
           \E j \in Key : OwnerOf(j) = o /\ connections[j] = d
    BY DEF OwnedBy
  <2>4. \A i, j \in Key : connections[i] = d /\ connections[j] = d => i = j
    OBVIOUS
  <2> QED
    BY <2>2, <2>3, <2>4
<1> QED
  BY <1>1, <1>2, <1>3

(* A step that leaves the registry alone is Speak, whoever of the current  *)
(* calls speaks in it.                                                     *)
LEMMA SpeakStep ==
  ASSUME UNCHANGED <<connections, alive>>,
         \A d \in Call : d \in Entries(connections) \/ Spent(d)' = Spent(d),
         io' = None \/ io'.from \in Entries(connections)
  PROVE  Registry!Speak
<1>1. Status' = Status
  BY DEF Status, StatusOf, Spent
<1>2. Speaker' \in Entries(connections) \cup {None}
  BY DEF Speaker
<1> QED
  BY <1>1, <1>2, SameOperators DEF Registry!Speak, Status, Speaker

(* A removal is End: the call that was registered is done.                 *)
LEMMA EndStep ==
  ASSUME IInv, NEW k \in Key, NEW c \in Call, connections[k] = c,
         connections' = Drop(connections, k), UNCHANGED alive,
         Spent(c)', \A d \in Call \ {c} : Spent(d)' = Spent(d),
         io' = None \/ io'.from = c
  PROVE  Registry!End(k)
<1>1. \A d \in Call : Status'[d] = IF d = c THEN "done" ELSE Status[d]
  <2> SUFFICES ASSUME NEW d \in Call
               PROVE  Status'[d] = IF d = c THEN "done" ELSE Status[d]
    OBVIOUS
  <2>1. d \in Entries(connections') <=> d \in Entries(connections) /\ d # c
    BY EntriesAfter
  <2>2. Spent(d)' <=> d = c \/ Spent(d)
    OBVIOUS
  <2> QED
    BY <2>1, <2>2 DEF Status, StatusOf, Spent
<1>2. Status' = Registry!Finish({c})
  BY <1>1 DEF Status, Registry!Finish
<1>3. Speaker' \in {c, None}
  BY DEF Speaker
<1>4. c # None
  BY SseNoneAssumption
<1> QED
  BY <1>2, <1>3, <1>4, SameOperators DEF Registry!End, Status, Speaker

(* A commit is Establish: the new call takes the place of the old one.     *)
LEMMA EstablishStep ==
  ASSUME IInv, NEW c \in Call, Commit(c), CommitClaimed(c)
  PROVE  Registry!Establish(c, keyOf[c])
<1> DEFINE k == keyOf[c]
<1> USE SseNoneAssumption DEF IInv, TypeOK
<1>1. /\ k \in Key /\ OwnerOf(k) \in alive
      /\ connections' = Put(connections, k, c)
      /\ ownerEntry[c] = connections[k]
      /\ c \notin Entries(connections) /\ ~Spent(c)
  BY AfterAwait DEF Commit, CommitClaimed, CanReplace, CanAdd, TeardownIfDead,
     EntriesSound, CallsSound, Entries, KeysIn, Spent
<1>2. /\ connections[k] \in Call => connections[k] \in Entries(connections)
      /\ Spent(c)'
      /\ \A d \in Call \ {c} : Spent(d)' = (Spent(d) \/ d = connections[k])
  BY <1>1 DEF Commit, CommitClaimed, Flagged, Spent, Entries, KeysIn
<1>3. \A d \in Call : Status'[d] = IF d = c THEN "live"
                       ELSE IF d = connections[k] THEN "done" ELSE Status[d]
  <2> SUFFICES ASSUME NEW d \in Call
               PROVE  Status'[d] = IF d = c THEN "live"
                       ELSE IF d = connections[k] THEN "done" ELSE Status[d]
    OBVIOUS
  <2>1. d \in Entries(connections') <=> d = c \/ (d \in Entries(connections) /\ connections[k] # d)
    BY <1>1, EntriesAfter
  <2>2. CASE d = c
    BY <2>1, <2>2 DEF Status, StatusOf
  <2>3. CASE d # c /\ d = connections[k]
    BY <1>2, <2>1, <2>3 DEF Status, StatusOf, Spent
  <2>4. CASE d # c /\ d # connections[k]
    BY <1>2, <2>1, <2>4 DEF Status, StatusOf, Spent
  <2> QED
    BY <2>2, <2>3, <2>4
<1>4. Status[c] = "new"
  BY <1>1 DEF Status, StatusOf, Spent
<1>5. Status' = [Registry!Finish({connections[k]}) EXCEPT ![c] = "live"]
  BY <1>3 DEF Status, Registry!Finish
<1> QED
  BY <1>1, <1>4, <1>5, SameOperators DEF Registry!Establish, Commit, Status, Speaker

(* A commit that is refused is Discard: its call never was registered.     *)
LEMMA DiscardStep ==
  ASSUME IInv, NEW c \in Call, Commit(c), CommitRefused(c)
  PROVE  Registry!Discard(c)
<1> USE SseNoneAssumption DEF IInv, TypeOK
<1>1. c \notin Entries(connections) /\ ~Spent(c)
  BY DEF Commit, EntriesSound, CallsSound, Entries, KeysIn, Spent
<1>2. /\ UNCHANGED <<connections, alive>> /\ io' = None
      /\ Spent(c)' /\ \A d \in Call \ {c} : Spent(d)' = Spent(d)
  BY DEF Commit, CommitRefused, Flagged, Spent
<1>3. Status[c] = "new"
  BY <1>1 DEF Status, StatusOf, Spent
<1>4. \A d \in Call : Status'[d] = IF d = c THEN "done" ELSE Status[d]
  BY <1>1, <1>2 DEF Status, StatusOf, Spent
<1>5. Status' = Registry!Finish({c})
  BY <1>4 DEF Status, Registry!Finish
<1> QED
  BY <1>2, <1>3, <1>5 DEF Registry!Discard, Status, Speaker

(* The death of a renderer is Leave: all it owned ends at once.            *)
LEMMA LeaveStep ==
  ASSUME IInv, NEW o \in Owner, Destroyed(o)
  PROVE  Registry!Leave(o)
<1> USE SseNoneAssumption DEF IInv, TypeOK
<1>1. connections' = WithoutOwner(connections, o)
      /\ DisposedOnDestroyed(connections, entryBound, o) = OwnedBy(connections, o)
  <2>1. CASE o \in entryBound
    BY <2>1 DEF Destroyed, AfterDestroyed, DisposedOnDestroyed
  <2>2. CASE o \notin entryBound
    BY <2>2 DEF Destroyed, AfterDestroyed, DisposedOnDestroyed, WithoutOwner,
       OwnedBy, KeysIn, EntriesSound
  <2> QED
    BY <2>1, <2>2
<1>2. \A d \in Call : Spent(d)' = (Spent(d) \/ d \in OwnedBy(connections, o))
  BY <1>1 DEF Destroyed, Flagged, Spent
<1>3. \A d \in Call : Status'[d] = IF d \in OwnedBy(connections, o)
                                   THEN "done" ELSE Status[d]
  BY <1>1, <1>2, EntriesAfter DEF Status, StatusOf, Spent
<1>4. Status' = Registry!Finish(OwnedBy(connections, o))
  BY <1>3 DEF Status, Registry!Finish
<1> QED
  BY <1>1, <1>4, SameOperators DEF Registry!Leave, Destroyed, Status, Speaker

(* Stop is Shutdown: nothing stays in the registry.                        *)
LEMMA ShutdownStep ==
  ASSUME IInv, Stop
  PROVE  Registry!Shutdown
<1> USE SseNoneAssumption DEF IInv, TypeOK
<1>1. connections' = EmptyMap /\ Entries(connections') = {}
  BY DEF Stop, EmptyMap, Entries, KeysIn
<1>2. \A d \in Call : Spent(d)' = (Spent(d) \/ d \in Entries(connections))
  BY DEF Stop, Flagged, Spent
<1>3. \A d \in Call : Status'[d] = IF d \in Entries(connections)
                                   THEN "done" ELSE Status[d]
  BY <1>1, <1>2 DEF Status, StatusOf, Spent
<1>4. Status' = Registry!Finish(Entries(connections))
  BY <1>3 DEF Status, Registry!Finish
<1> QED
  BY <1>1, <1>4, SameOperators DEF Registry!Shutdown, Stop, Status, Speaker

(* The answer to a request is Speak while the call is registered still, or *)
(* End if the request failed.                                              *)
LEMMA AnswerStep ==
  ASSUME IInv, NEW c \in Call, Answer(c)
  PROVE  Registry!CNext
<1> USE SseNoneAssumption DEF IInv, TypeOK
<1>1. keyOf[c] \in Key /\ keyOf[c] \in Registry!Key
  BY AfterAwait, SameOperators
  DEF Answer, RequestFails, RequestThrows, AnsweredTooLate, Answered
<1>2. /\ Spent(c) /\ Spent(c)' /\ \A d \in Call : Spent(d)' = Spent(d)
      /\ UNCHANGED alive /\ (io' = None \/ io'.from = c)
  BY DEF Answer, RequestFails, RequestThrows, AnsweredTooLate, Answered,
     AnsweredUnchecked, EmitAndRemoveIfCurrent, Emit, Spent, CallsSound
<1>3. CASE IsCurrent(c) /\ (RequestFails(c) \/ RequestThrows(c))
  BY <1>1, <1>2, <1>3, EndStep
  DEF RequestFails, RequestThrows, EmitAndRemoveIfCurrent, IsCurrent, Registry!CNext
<1>4. CASE ~IsCurrent(c) \/ AnsweredTooLate(c) \/ Answered(c)
  <2>1. UNCHANGED connections /\ (io' = None \/ IsCurrent(c))
    BY <1>4 DEF Answer, RequestFails, RequestThrows, AnsweredTooLate, Answered,
       AnsweredUnchecked, EmitAndRemoveIfCurrent
  <2> QED
    BY <1>1, <1>2, <2>1, Disposed, SpeakStep DEF Registry!CNext
<1> QED
  BY <1>3, <1>4 DEF Answer

(* A step of the read loop is Speak, and its last one is End.              *)
LEMMA ReadStep ==
  ASSUME IInv, NEW c \in Call, Read(c)
  PROVE  Registry!CNext
<1> USE SseNoneAssumption DEF IInv, TypeOK
<1>1. pc[c] = "ok"
  BY DEF Read, EventRead, StreamEnds, StreamFails, Cancelled, CallsSound
<1>2. keyOf[c] \in Key /\ keyOf[c] \in Registry!Key
  BY <1>1, AfterAwait, SameOperators
<1>3. /\ Spent(c)' /\ \A d \in Call : Spent(d)' = Spent(d)
      /\ UNCHANGED alive /\ (io' = None \/ io'.from = c)
  BY DEF Read, EventRead, StreamEnds, StreamFails, Cancelled,
     EmitAndRemoveIfCurrent, Emit, Spent
<1>4. CASE Cancelled(c) /\ IsCurrent(c)
  <2>1. connections[keyOf[c]] = c /\ ~explicit[c]
    BY <1>2, <1>4 DEF IsCurrent, EntriesSound
  <2>2. connections' = Drop(connections, keyOf[c])
    BY <1>4, <2>1 DEF Cancelled, EmitAndRemoveIfCurrent
  <2> QED
    BY <1>2, <1>3, <2>1, <2>2, EndStep DEF Registry!CNext
<1>5. CASE ~Cancelled(c) \/ ~IsCurrent(c)
  <2>1. UNCHANGED connections /\ (io' = None \/ IsCurrent(c))
    BY <1>1, <1>5 DEF Read, EventRead, StreamEnds, StreamFails, Cancelled,
       EmitAndRemoveIfCurrent, StreamsSound
  <2> QED
    BY <1>2, <1>3, <2>1, Disposed, SpeakStep DEF Registry!CNext
<1> QED
  BY <1>4, <1>5

(* Every behaviour of the handler is a behaviour of the abstract registry. *)
THEOREM Refinement == Spec => ImplementsRegistry
<1> USE SseNoneAssumption
<1>1. Init => Registry!CInit
  <2> SUFFICES ASSUME Init PROVE Registry!CInit
    OBVIOUS
  <2>1. Entries(connections) = {}
    BY DEF Init, EmptyMap, Entries, KeysIn
  <2>2. \A c \in Call : StatusOf(c) = "new"
    BY <2>1 DEF Init, StatusOf, Spent
  <2> QED
    BY <2>2, SameOperators DEF Init, Registry!CInit
<1>2. IInv /\ [Next]_vars => [Registry!CNext]_(Registry!cvars)
  <2> SUFFICES ASSUME IInv, [Next]_vars
               PROVE  Registry!CNext \/ UNCHANGED Registry!cvars
    BY DEF Registry!cvars
  <2>1. ASSUME NEW c \in Call, Connect(c) \/ GiveUp(c) PROVE Registry!CNext
    <3>1. UNCHANGED <<connections, alive, stream, explicit>> /\ io' = None
      BY <2>1 DEF Connect, Reject, Reserve, Arrive, GiveUp
    <3> QED
      BY <3>1, SpeakStep DEF Spent, Registry!CNext
  <2>2. ASSUME NEW c \in Call, Commit(c) PROVE Registry!CNext
    <3>1. keyOf[c] \in Registry!Key
      BY <2>2, AfterAwait, SameOperators DEF Commit
    <3> QED
      BY <2>2, <3>1, EstablishStep, DiscardStep DEF Commit, Registry!CNext
  <2>3. ASSUME NEW c \in Call, Answer(c) \/ Read(c) PROVE Registry!CNext
    BY <2>3, AnswerStep, ReadStep
  <2>4. ASSUME NEW k \in Key, Disconnect(k) PROVE Registry!CNext
    <3>1. connections[k] \in Call
      BY <2>4 DEF Disconnect, IInv, TypeOK
    <3>2. Registry!End(k)
      BY <2>4, <3>1, EndStep DEF Disconnect, Flagged, Spent
    <3> QED
      BY <3>2, SameOperators DEF Registry!CNext
  <2>5. ASSUME NEW o \in Owner, Destroyed(o) PROVE Registry!CNext
    BY <2>5, LeaveStep DEF Registry!CNext
  <2>6. CASE Stop
    BY <2>6, ShutdownStep DEF Registry!CNext
  <2>7. CASE UNCHANGED vars
    BY <2>7 DEF vars, Registry!cvars, StatusOf, Spent, Entries, KeysIn
  <2> QED
    BY <2>1, <2>2, <2>3, <2>4, <2>5, <2>6, <2>7 DEF Next, Resume
<1> QED
  BY <1>1, <1>2, Invariance, PTL DEF Spec, ImplementsRegistry, Registry!CSpec
================================================================================
