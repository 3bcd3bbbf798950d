------------------------------- MODULE GrpcProofs -------------------------------
(***************************************************************************)
(* Theorems about GrpcHandler, for any renderers, ids, number of starts    *)
(* and payloads, and any limits: the safety properties its run checks.     *)
(***************************************************************************)
EXTENDS GrpcHandler, TLAPS

(* A key belongs to a renderer.                                            *)
LEMMA CallKeys == ASSUME NEW k \in Key PROVE OwnerOf(k) \in Owner
  BY DEF Key, OwnerOf

-------------------------------------------------------------------------------
(* What is left of what was sent                                           *)

(* A payload that is passed on keeps it that way.                          *)
LEMMA KeepsBoth ==
  ASSUME NEW s \in Seq(Nat), NEW t \in Seq(Nat), NEW m \in Nat, KeepsOldest(s, t)
  PROVE  KeepsOldest(Append(s, m), Append(t, m))
<1> USE GrpcAssumption
<1>1. CASE s = t
  BY <1>1 DEF KeepsOldest
<1>2. CASE /\ Len(t) > MaxWrites /\ Len(s) >= MaxWrites
           /\ \A i \in 1 .. MaxWrites : s[i] = t[i]
  <2>1. Len(Append(t, m)) > MaxWrites /\ Len(Append(s, m)) >= MaxWrites
    BY <1>2
  <2>2. ASSUME NEW i \in 1 .. MaxWrites PROVE Append(s, m)[i] = Append(t, m)[i]
    <3>1. i \in 1 .. Len(s) /\ i \in 1 .. Len(t)
      BY <1>2
    <3> QED
      BY <1>2, <3>1
  <2> QED
    BY <2>1, <2>2 DEF KeepsOldest
<1> QED
  BY <1>1, <1>2 DEF KeepsOldest

(* One that a full buffer drops does too.                                  *)
LEMMA KeepsFull ==
  ASSUME NEW s \in Seq(Nat), NEW t \in Seq(Nat), NEW m \in Nat, KeepsOldest(s, t),
         Len(s) >= MaxWrites
  PROVE  KeepsOldest(s, Append(t, m))
<1> USE GrpcAssumption
<1>1. Len(t) >= MaxWrites /\ \A i \in 1 .. MaxWrites : s[i] = t[i]
  BY DEF KeepsOldest
<1>2. Len(Append(t, m)) > MaxWrites
  BY <1>1
<1>3. ASSUME NEW i \in 1 .. MaxWrites PROVE s[i] = Append(t, m)[i]
  <2>1. i \in 1 .. Len(t)
    BY <1>1
  <2> QED
    BY <1>1, <2>1
<1> QED
  BY <1>2, <1>3 DEF KeepsOldest

(* Nothing was lost, or the buffer had been full.                          *)
LEMMA KeepsEnough ==
  ASSUME NEW s \in Seq(Nat), NEW t \in Seq(Nat), KeepsOldest(s, t)
  PROVE  Len(s) = Len(t) \/ Len(s) >= MaxWrites
BY DEF KeepsOldest

-------------------------------------------------------------------------------
(* Every variable keeps its type.                                          *)
THEOREM TypeCorrect == Spec => []TypeOK
<1>1. Init => TypeOK
  BY GrpcAssumption DEF Init, TypeOK, EmptyMap, Call
<1>2. TypeOK /\ [Next]_vars => TypeOK'
  <2> SUFFICES ASSUME TypeOK, [Next]_vars PROVE TypeOK'
    OBVIOUS
  <2> USE GrpcAssumption DEF TypeOK, startVars, boundVars, bufferVars, controlVars, senderVars
  <2>1. ASSUME NEW c \in Call, Start(c) PROVE TypeOK'
    <3>1. ASSUME NEW k \in Key, Refuse(c, k) \/ Ignore(c, k) \/ Reserve(c, k) PROVE TypeOK'
      <4>1. made' \in 0 .. MaxCalls /\ keyOf' \in [Call -> Key \cup {None}]
        <5>1. Arrive(c, k)
          BY <3>1 DEF Refuse, Ignore, Reserve
        <5> QED
          BY <5>1 DEF Arrive, Call
      <4>2. pending' \in [Key -> Call \cup {None}] /\ claimBound' \subseteq Owner
        BY SMTT(40), <3>1, CallKeys DEF Refuse, Ignore, Reserve, Put, Bind
      <4> QED
        BY <3>1, <4>1, <4>2 DEF Refuse, Ignore, Reserve, Go
    <3>2. CASE StartFailed(c) \/ StartStale(c) \/ Resolved(c)
      BY <3>2 DEF StartFailed, StartStale, Resolved, Release, Drop, Go
    <3>3. CASE Register(c)
      <4>2. /\ activeCalls' \in [Key -> Call \cup {None}]
            /\ pending' \in [Key -> Call \cup {None}]
            /\ entryBound' \subseteq Owner
        BY <3>3 DEF Register, Put, Bind, Release, Drop
      <4>3. /\ got' \in [Call -> Seq(Nat)] /\ endedAt' \in [Call -> Nat \cup {None}]
            /\ writes' \in [Call -> Seq(Nat)]
        BY <3>3 DEF Register
      <4> QED
        BY <3>3, <4>2, <4>3 DEF Register, Go
    <3>4. CASE FlushThrows(c)
      <4>1. /\ pending' \in [Key -> Call \cup {None}]
            /\ entryBound' \subseteq Owner
        BY <3>4 DEF FlushThrows, Bind, Release, Drop
      <4>2. got' \in [Call -> Seq(Nat)]
        <5>1. PICK i \in 1 .. Len(writes[c]) :
                 got' = [got EXCEPT ![c] = SubSeq(writes[c], 1, i - 1)]
          BY <3>4 DEF FlushThrows
        <5>2. SubSeq(writes[c], 1, i - 1) \in Seq(Nat)
          OBVIOUS
        <5> QED
          BY <5>1, <5>2
      <4> QED
        BY <3>4, <4>1, <4>2 DEF FlushThrows, Go
    <3>5. CASE RegisterRefused(c)
      BY <3>5 DEF RegisterRefused, Go
    <3> QED
      BY <2>1, <3>1, <3>2, <3>3, <3>4, <3>5 DEF Start
  <2>2. ASSUME NEW c \in Call, Data(c) PROVE TypeOK'
    BY <2>2 DEF Data
  <2>3. ASSUME NEW c \in Call, Closed(c) PROVE TypeOK'
    BY <2>3 DEF Closed, Over, Drop
  <2>4. ASSUME NEW k \in Key, Control(k) PROVE TypeOK'
    <3>1. CASE SendMessage(k)
      <4> DEFINE c == IF activeCalls[k] # None THEN activeCalls[k] ELSE pending[k]
      <4>1. c \in Call /\ sent + 1 \in Nat
        BY <3>1 DEF SendMessage
      <4>2. /\ meant' = [meant EXCEPT ![c] = Append(meant[c], sent + 1)]
            /\ \/ got' = [got EXCEPT ![c] = Append(got[c], sent + 1)] /\ writes' = writes
               \/ writes' = [writes EXCEPT ![c] = BufferPayload(c, sent + 1)] /\ got' = got
        BY <3>1 DEF SendMessage
      <4>4. /\ sent' = sent + 1
            /\ UNCHANGED <<startVars, pc, pending, activeCalls, boundVars, alive, half, net,
                           endedAt, halfMeant>>
        BY <3>1 DEF SendMessage
      <4> HIDE DEF c
      <4>3. BufferPayload(c, sent + 1) \in Seq(Nat)
        BY <4>1 DEF BufferPayload
      <4>5. got' \in [Call -> Seq(Nat)] /\ writes' \in [Call -> Seq(Nat)]
        <5>1. Append(got[c], sent + 1) \in Seq(Nat)
          BY <4>1
        <5> QED
          BY ZenonT(40), <4>1, <4>2, <4>3, <5>1
      <4>6. meant' \in [Call -> Seq(Nat)] /\ sent' \in Nat
        BY <4>1, <4>2, <4>4
      <4> QED
        BY <4>4, <4>5, <4>6
    <3>2. CASE SendUnencodable(k)
      <4>1. pending[k] \in Call /\ BufferPayload(pending[k], Unencodable) \in Seq(Nat)
        BY <3>2 DEF SendUnencodable, BufferPayload, Unencodable
      <4> QED
        BY <3>2, <4>1 DEF SendUnencodable
    <3>3. CASE EndStream(k)
      <4> DEFINE c == IF activeCalls[k] # None THEN activeCalls[k] ELSE pending[k]
      <4>1. /\ halfMeant' = [halfMeant EXCEPT
                   ![c] = IF halfMeant[c] = None THEN Len(meant[c]) ELSE halfMeant[c]]
            /\ \/ endedAt' = [endedAt EXCEPT
                      ![c] = IF endedAt[c] = None THEN Len(got[c]) ELSE endedAt[c]] /\ half' = half
               \/ half' = [half EXCEPT ![c] = TRUE] /\ endedAt' = endedAt
        BY <3>3 DEF EndStream
      <4>2. c \in Call
        BY <3>3 DEF EndStream
      <4>3. UNCHANGED <<startVars, pc, pending, activeCalls, boundVars, alive, writes, net,
                       got, sent, meant>>
        BY <3>3 DEF EndStream
      <4> HIDE DEF c
      <4>4. halfMeant' \in [Call -> Nat \cup {None}]
        BY <4>1, <4>2
      <4>5. half' \in [Call -> BOOLEAN] /\ endedAt' \in [Call -> Nat \cup {None}]
        <5>1. Len(got[c]) \in Nat
          BY <4>2
        <5> QED
          BY ZenonT(40), <4>1, <4>2, <5>1
      <4> QED
        BY <4>3, <4>4, <4>5
    <3>4. CASE CancelStream(k)
      BY <3>4 DEF CancelStream, Drop, Over
    <3> QED
      BY <2>4, <3>1, <3>2, <3>3, <3>4 DEF Control
  <2>5. ASSUME NEW stale \in SUBSET Key, Sweep(stale) PROVE TypeOK'
    BY <2>5 DEF Sweep, Over
  <2>6. ASSUME NEW o \in Owner, Destroyed(o) PROVE TypeOK'
    BY <2>6 DEF Destroyed, AfterDestroyed, WithoutOwner, Over
  <2>7. CASE Stop
    BY <2>7 DEF Stop, EmptyMap, Over
  <2>8. CASE UNCHANGED vars
    BY <2>8 DEF vars
  <2> QED
    BY <2>1, <2>2, <2>3, <2>4, <2>5, <2>6, <2>7, <2>8 DEF Next
<1> QED
  BY <1>1, <1>2, PTL DEF Spec

-------------------------------------------------------------------------------
(* The inductive invariant                                                 *)

(* What the maps hold is a call.                                           *)
LEMMA Held ==
  ASSUME TypeOK, NEW k \in Key
  PROVE  /\ pending[k] # None => pending[k] \in Call
         /\ activeCalls[k] # None => activeCalls[k] \in Call
BY DEF TypeOK

(* A start that is refused at once leaves no trace but its failure.        *)
LEMMA RefusalKeeps ==
  ASSUME IInv, TypeOK', NEW c \in Call, NEW k \in Key, Refuse(c, k) \/ Ignore(c, k)
  PROVE  IInv'
<1> USE GrpcAssumption
<1>1. /\ c = made + 1 /\ made' = c /\ keyOf' = [keyOf EXCEPT ![c] = k]
      /\ pc' = [pc EXCEPT ![c] = "failed"]
      /\ UNCHANGED <<pending, activeCalls, writes, half, net, got, endedAt, sent, meant, halfMeant>>
  BY DEF Refuse, Ignore, Arrive, Go, boundVars, bufferVars, controlVars, senderVars
<1>2. \A d \in Call : /\ pc'[d] = IF d = c THEN "failed" ELSE pc[d]
                      /\ keyOf'[d] = IF d = c THEN k ELSE keyOf[d]
  BY <1>1 DEF IInv, TypeOK
<1>3. pc[c] = "idle" /\ keyOf[c] = None /\ net[c] = "none" /\ k # None
  BY <1>1 DEF IInv, TypeOK, CallsSound, Call
<1>4. CallsSound'
  BY <1>1, <1>2, <1>3 DEF IInv, TypeOK, CallsSound, Call
<1>5. HalvesSound'
  BY <1>1 DEF IInv, HalvesSound
<1>6. \A j \in Key : pending[j] # c /\ activeCalls[j] # c
  BY <1>3 DEF IInv, ClaimsSound, EntriesSound
<1>7. ClaimsSound'
  <2>1. \A j \in Key : pending[j] # None =>
           keyOf'[pending[j]] = keyOf[pending[j]] /\ pc'[pending[j]] = pc[pending[j]]
    BY <1>2, <1>6, Held DEF IInv
  <2> QED
    BY <1>1, <2>1 DEF IInv, ClaimsSound
<1>9. EntriesSound'
  <2>1. \A j \in Key : activeCalls[j] # None =>
           /\ keyOf'[activeCalls[j]] = keyOf[activeCalls[j]]
           /\ pc'[activeCalls[j]] = pc[activeCalls[j]]
    BY <1>2, <1>6, Held DEF IInv
  <2> QED
    BY <1>1, <2>1 DEF IInv, EntriesSound
<1>8. LatestSound'
  BY <1>1, <1>2, <1>3, <1>6 DEF IInv, LatestSound
<1> QED
  BY <1>4, <1>5, <1>7, <1>8, <1>9 DEF IInv

(* A new claim starts with an empty buffer, and no later start exists.     *)
LEMMA ReserveKeeps ==
  ASSUME IInv, TypeOK', NEW c \in Call, NEW k \in Key, Reserve(c, k)
  PROVE  IInv'
<1> USE GrpcAssumption
<1>1. /\ c = made + 1 /\ made' = c /\ keyOf' = [keyOf EXCEPT ![c] = k]
      /\ pc' = [pc EXCEPT ![c] = "dns"] /\ pending' = [pending EXCEPT ![k] = c]
      /\ pending[k] = None /\ activeCalls[k] = None
      /\ UNCHANGED <<activeCalls, writes, half, net, got, endedAt, sent, meant, halfMeant>>
  BY DEF Reserve, CanReserve, Put, Arrive, Go, bufferVars, controlVars, senderVars
<1>2. \A d \in Call : /\ pc'[d] = IF d = c THEN "dns" ELSE pc[d]
                      /\ keyOf'[d] = IF d = c THEN k ELSE keyOf[d]
  BY <1>1 DEF IInv, TypeOK
<1>3. \A j \in Key : pending'[j] = IF j = k THEN c ELSE pending[j]
  BY <1>1 DEF IInv, TypeOK
<1>4. /\ pc[c] = "idle" /\ keyOf[c] = None /\ net[c] = "none" /\ k # None
      /\ writes[c] = <<>> /\ meant[c] = <<>>
  BY <1>1 DEF IInv, TypeOK, CallsSound, Call
<1>5. CallsSound'
  BY <1>1, <1>2, <1>4 DEF IInv, TypeOK, CallsSound, Call
<1>6. HalvesSound'
  BY <1>1 DEF IInv, HalvesSound
<1>7. \A j \in Key : pending[j] # c /\ activeCalls[j] # c
  BY <1>4 DEF IInv, ClaimsSound, EntriesSound
<1>8. ClaimsSound'
  BY <1>1, <1>2, <1>3, <1>4, <1>7 DEF IInv, TypeOK, ClaimsSound, KeepsOldest
<1>9. EntriesSound'
  BY <1>1, <1>2, <1>7 DEF IInv, TypeOK, EntriesSound
<1>10. LatestSound'
  <2> SUFFICES ASSUME NEW j \in Key, NEW e \in Call, NEW d \in Call,
                      e \in {pending'[j], activeCalls[j]}, keyOf'[d] = j, d > e
               PROVE  pc'[d] = "failed" /\ net[d] = "none"
    BY <1>1 DEF LatestSound
  <2>1. CASE e = c
    <3>1. keyOf[d] = None
      BY <1>1, <2>1 DEF IInv, TypeOK, CallsSound, Call
    <3> QED
      BY <1>1, <1>2, <2>1, <3>1 DEF Call
  <2>2. CASE e # c
    <3>1. e \in {pending[j], activeCalls[j]} /\ j # k
      BY <1>1, <1>3, <2>2
    <3> QED
      BY <1>2, <3>1 DEF IInv, LatestSound
  <2> QED
    BY <2>1, <2>2
<1> QED
  BY <1>5, <1>6, <1>8, <1>9, <1>10 DEF IInv

(* A start that goes on waiting, or fails and gives its claim back.        *)
LEMMA WaitKeeps ==
  ASSUME IInv, TypeOK', NEW c \in Call, pc[c] \in {"dns", "auth"},
         NEW w \in {"auth", "failed"}, pc' = [pc EXCEPT ![c] = w],
         \A k \in Key : pending'[k] \in {pending[k], None},
         w = "failed" => pending'[keyOf[c]] # c,
         w = "auth" => net'[c] = "none",
         \A d \in Call : d # c => net'[d] = net[d] /\ got'[d] = got[d],
         UNCHANGED <<made, keyOf, activeCalls, writes, half, endedAt, meant, halfMeant>>
  PROVE  IInv'
<1> USE GrpcAssumption
<1>1. \A d \in Call : pc'[d] = IF d = c THEN w ELSE pc[d]
  BY DEF IInv, TypeOK
<1>2. keyOf[c] \in Key /\ pc[c] # "idle"
  BY DEF IInv, TypeOK, CallsSound
<1>3. CallsSound'
  BY <1>1, <1>2 DEF IInv, CallsSound
<1>4. HalvesSound'
  BY DEF IInv, HalvesSound
<1>5. \A k \in Key : activeCalls[k] # c
  BY DEF IInv, EntriesSound
<1>6. \A k \in Key : pending[k] = c => k = keyOf[c]
  BY DEF IInv, ClaimsSound
<1>7. ClaimsSound'
  <2> SUFFICES ASSUME NEW k \in Key, pending'[k] # None
               PROVE  /\ keyOf[pending[k]] = k /\ pending'[k] = pending[k]
                      /\ pc'[pending[k]] \in {"dns", "auth"}
                      /\ \/ \E i \in 1 .. Len(writes[pending[k]]) :
                               writes[pending[k]][i] = Unencodable
                         \/ KeepsOldest(writes[pending[k]], meant[pending[k]])
    BY DEF ClaimsSound
  <2>1. pending'[k] = pending[k] /\ pending[k] # None /\ pending[k] \in Call
    BY DEF IInv, TypeOK
  <2>2. pending[k] = c => w = "auth"
    BY <1>6, <2>1
  <2> QED
    BY <1>1, <2>1, <2>2 DEF IInv, ClaimsSound
<1>8. EntriesSound'
  BY <1>1, <1>5 DEF IInv, TypeOK, EntriesSound
<1>9. LatestSound'
  <2> SUFFICES ASSUME NEW k \in Key, NEW e \in Call, NEW d \in Call,
                      e \in {pending'[k], activeCalls[k]}, keyOf[d] = k, d > e
               PROVE  pc'[d] = "failed" /\ net'[d] = "none"
    BY DEF LatestSound
  <2>1. e \in {pending[k], activeCalls[k]}
    OBVIOUS
  <2>2. pc[d] = "failed" /\ net[d] = "none"
    BY <2>1 DEF IInv, LatestSound
  <2> QED
    BY <1>1, <2>2
<1> QED
  BY <1>3, <1>4, <1>7, <1>8, <1>9 DEF IInv

(* What Release does to the claims.                                        *)
LEMMA ReleaseFacts ==
  ASSUME TypeOK, NEW c \in Call, Release(c), keyOf[c] \in Key
  PROVE  /\ \A k \in Key : pending'[k] = IF pending[k] = c /\ k = keyOf[c] THEN None ELSE pending[k]
         /\ pending'[keyOf[c]] # c
BY GrpcAssumption DEF Release, HoldsClaim, Drop, TypeOK

LEMMA StartKeeps ==
  ASSUME IInv, TypeOK', NEW c \in Call,
         StartFailed(c) \/ StartStale(c) \/ Resolved(c) \/ FlushThrows(c) \/ RegisterRefused(c)
  PROVE  IInv'
<1> USE DEF startVars, boundVars, bufferVars, controlVars, senderVars, Go
<1>1. pc[c] \in {"dns", "auth"} /\ net[c] = "none" /\ keyOf[c] \in Key /\ TypeOK
  BY DEF StartFailed, StartStale, Resolved, FlushThrows, RegisterRefused, IInv, TypeOK, CallsSound
<1>2. CASE StartFailed(c)
  <2>1. \A k \in Key : pending'[k] \in {pending[k], None}
    BY <1>1, <1>2, ReleaseFacts DEF StartFailed
  <2>2. pending'[keyOf[c]] # c
    BY <1>1, <1>2, ReleaseFacts DEF StartFailed
  <2> QED
    BY <1>1, <1>2, <2>1, <2>2, WaitKeeps DEF StartFailed
<1>3. CASE StartStale(c)
  BY <1>1, <1>3, WaitKeeps DEF StartStale, HoldsClaim
<1>4. CASE Resolved(c)
  BY <1>1, <1>4, WaitKeeps DEF Resolved
<1>5. CASE FlushThrows(c)
  <2>1. \A k \in Key : pending'[k] \in {pending[k], None}
    BY <1>1, <1>5, ReleaseFacts DEF FlushThrows
  <2>2. pending'[keyOf[c]] # c
    BY <1>1, <1>5, ReleaseFacts DEF FlushThrows
  <2>3. \A d \in Call : d # c => net'[d] = net[d] /\ got'[d] = got[d]
    BY <1>1, <1>5 DEF FlushThrows, TypeOK
  <2>4. /\ pc' = [pc EXCEPT ![c] = "failed"]
        /\ UNCHANGED <<made, keyOf, activeCalls, writes, half, endedAt, meant, halfMeant>>
    BY <1>5 DEF FlushThrows
  <2> QED
    BY <1>1, <2>1, <2>2, <2>3, <2>4, WaitKeeps
<1>6. CASE RegisterRefused(c)
  <2>1. \A d \in Call : d # c => net'[d] = net[d] /\ got'[d] = got[d]
    BY <1>1, <1>6 DEF RegisterRefused, TypeOK
  <2> QED
    BY <1>1, <1>6, <2>1, WaitKeeps DEF RegisterRefused, HoldsClaim
<1> QED
  BY <1>2, <1>3, <1>4, <1>5, <1>6

(* A registered call was given what its claim had buffered.                *)
LEMMA RegisterKeeps ==
  ASSUME IInv, TypeOK', NEW c \in Call, Register(c)
  PROVE  IInv'
<1> USE GrpcAssumption
<1> DEFINE k == keyOf[c]
<1>1. /\ pc[c] = "auth" /\ pending[k] = c /\ k \in Key /\ TypeOK
      /\ \A i \in 1 .. Len(writes[c]) : writes[c][i] # Unencodable
  BY SMTT(40) DEF Register, HoldsClaim, IInv, TypeOK, CallsSound
<1>2. /\ pc' = [pc EXCEPT ![c] = "started"] /\ net' = [net EXCEPT ![c] = "running"]
      /\ activeCalls' = [activeCalls EXCEPT ![k] = c]
      /\ got' = [got EXCEPT ![c] = writes[c]] /\ writes' = [writes EXCEPT ![c] = <<>>]
      /\ endedAt' = [endedAt EXCEPT ![c] = IF half[c] THEN Len(writes[c]) ELSE None]
      /\ UNCHANGED <<made, keyOf, half, meant, halfMeant>>
  BY DEF Register, Put, Go, startVars, senderVars
<1>3. \A j \in Key : /\ pending'[j] = IF j = k THEN None ELSE pending[j]
                     /\ activeCalls'[j] = IF j = k THEN c ELSE activeCalls[j]
  BY SMTT(40), <1>1, <1>2, ReleaseFacts DEF Register, TypeOK
<1>4. \A d \in Call : /\ d = c => /\ pc'[d] = "started" /\ net'[d] = "running"
                                  /\ got'[d] = writes[c]
                                  /\ endedAt'[d] = IF half[c] THEN Len(writes[c]) ELSE None
                      /\ d # c => /\ pc'[d] = pc[d] /\ net'[d] = net[d] /\ got'[d] = got[d]
                                  /\ endedAt'[d] = endedAt[d] /\ writes'[d] = writes[d]
  BY <1>1, <1>2 DEF TypeOK
<1>5. /\ writes[c] \in Seq(Nat) /\ meant[c] \in Seq(Nat)
      /\ KeepsOldest(writes[c], meant[c])
      /\ half[c] => halfMeant[c] \in Nat /\ halfMeant[c] <= Len(meant[c])
  <2>1. KeepsOldest(writes[c], meant[c])
    BY <1>1 DEF IInv, ClaimsSound
  <2>2. half[c] => halfMeant[c] # None /\ halfMeant[c] <= Len(meant[c])
    BY DEF IInv, HalvesSound
  <2> QED
    BY <1>1, <2>1, <2>2 DEF TypeOK
<1>6. Len(writes[c]) = Len(meant[c]) \/ Len(writes[c]) >= MaxWrites
  BY <1>5, KeepsEnough
<1>7. CallsSound'
  BY <1>1, <1>2, <1>4 DEF IInv, CallsSound
<1>8. HalvesSound'
  BY <1>1, <1>2, <1>4, <1>5 DEF IInv, HalvesSound
<1>9. \A j \in Key : j # k => pending[j] # c /\ activeCalls[j] # c
  BY <1>1 DEF IInv, ClaimsSound, EntriesSound
<1>10. ClaimsSound'
  <2> SUFFICES ASSUME NEW j \in Key, pending'[j] # None
               PROVE  /\ keyOf[pending'[j]] = j /\ pc'[pending'[j]] \in {"dns", "auth"}
                      /\ \/ \E i \in 1 .. Len(writes'[pending'[j]]) :
                               writes'[pending'[j]][i] = Unencodable
                         \/ KeepsOldest(writes'[pending'[j]], meant[pending'[j]])
    BY <1>2 DEF ClaimsSound
  <2>1. j # k /\ pending'[j] = pending[j] /\ pending[j] \in Call /\ pending[j] # c
    BY <1>1, <1>3, <1>9, Held
  <2>2. pc'[pending[j]] = pc[pending[j]] /\ writes'[pending[j]] = writes[pending[j]]
    BY <1>4, <2>1
  <2> QED
    BY <2>1, <2>2 DEF IInv, ClaimsSound
<1>11. EntriesSound'
  <2> SUFFICES ASSUME NEW j \in Key, activeCalls'[j] # None
               PROVE  /\ keyOf[activeCalls'[j]] = j
                      /\ pc'[activeCalls'[j]] = "started" /\ net'[activeCalls'[j]] = "running"
                      /\ KeepsOldest(got'[activeCalls'[j]], meant[activeCalls'[j]])
                      /\ endedAt'[activeCalls'[j]] # None =>
                            \/ endedAt'[activeCalls'[j]] >= halfMeant[activeCalls'[j]]
                            \/ endedAt'[activeCalls'[j]] >= MaxWrites
    BY <1>2 DEF EntriesSound
  <2>1. CASE j = k
    <3>1. activeCalls'[j] = c /\ Len(writes[c]) \in Nat /\ Len(meant[c]) \in Nat
      BY <1>3, <1>5, <2>1
    <3>2. endedAt'[c] # None => endedAt'[c] >= halfMeant[c] \/ endedAt'[c] >= MaxWrites
      BY <1>4, <1>5, <1>6, <3>1
    <3> QED
      BY <1>4, <1>5, <2>1, <3>1, <3>2
  <2>2. CASE j # k
    <3>1. activeCalls'[j] = activeCalls[j] /\ activeCalls[j] \in Call /\ activeCalls[j] # c
      BY <1>1, <1>3, <1>9, <2>2 DEF TypeOK
    <3> QED
      BY <1>4, <3>1 DEF IInv, EntriesSound
  <2> QED
    BY <2>1, <2>2
<1>12. LatestSound'
  <2> SUFFICES ASSUME NEW j \in Key, NEW e \in Call, NEW d \in Call,
                      e \in {pending'[j], activeCalls'[j]}, keyOf[d] = j, d > e
               PROVE  pc'[d] = "failed" /\ net'[d] = "none"
    BY <1>2 DEF LatestSound
  <2>1. e \in {pending[j], activeCalls[j]}
    BY <1>1, <1>3 DEF Call
  <2>2. pc[d] = "failed" /\ net[d] = "none"
    BY <2>1 DEF IInv, LatestSound
  <2> QED
    BY <1>1, <1>4, <2>2
<1> QED
  BY <1>7, <1>8, <1>10, <1>11, <1>12 DEF IInv

(* Claims and calls that are torn down: by their own end, a cancel, the    *)
(* sweeper, the death of their renderer or the stop.                       *)
LEMMA TeardownKeeps ==
  ASSUME IInv, TypeOK',
         \A k \in Key : pending'[k] \in {pending[k], None},
         \A k \in Key : activeCalls'[k] \in {activeCalls[k], None},
         \A c \in Call : net'[c] # net[c] =>
            net[c] = "running" /\ \A k \in Key : activeCalls'[k] # c,
         UNCHANGED <<made, pc, keyOf, writes, half, got, endedAt, meant, halfMeant>>
  PROVE  IInv'
<1> USE GrpcAssumption
<1>1. CallsSound'
  BY DEF IInv, CallsSound
<1>2. HalvesSound'
  BY DEF IInv, HalvesSound
<1>3. ClaimsSound'
  BY DEF IInv, ClaimsSound
<1>4. EntriesSound'
  BY DEF IInv, TypeOK, EntriesSound
<1>5. LatestSound'
  BY DEF IInv, LatestSound, Call
<1> QED
  BY <1>1, <1>2, <1>3, <1>4, <1>5 DEF IInv

(* Which network calls end with the set cs.                                *)
LEMMA OverFacts ==
  ASSUME TypeOK, NEW cs, net' = Over(cs), NEW c \in Call, net'[c] # net[c]
  PROVE  net[c] = "running" /\ c \in cs
BY DEF Over, TypeOK

LEMMA TeardownsKeep ==
  ASSUME IInv, TypeOK',
         \/ \E c \in Call : Data(c) \/ Closed(c)
         \/ \E k \in Key : CancelStream(k)
         \/ \E stale \in SUBSET Key : Sweep(stale)
         \/ \E o \in Owner : Destroyed(o)
         \/ Stop
  PROVE  IInv'
<1> USE GrpcAssumption DEF startVars, boundVars, bufferVars, controlVars, senderVars
<1>0. /\ TypeOK
      /\ \A k, j \in Key : activeCalls[k] # None /\ activeCalls[k] = activeCalls[j] => k = j
      /\ \A k \in Key : activeCalls[k] \in Call \cup {None}
  BY DEF IInv, TypeOK, EntriesSound
<1>1. ASSUME NEW c \in Call, Data(c) PROVE IInv'
  BY <1>1, TeardownKeeps DEF Data
<1>2. ASSUME NEW c \in Call, Closed(c) PROVE IInv'
  <2>1. /\ pending' = pending /\ net' = Over({c})
        /\ UNCHANGED <<made, pc, keyOf, writes, half, got, endedAt, meant, halfMeant>>
    BY <1>2 DEF Closed
  <2>2. \A k \in Key : activeCalls'[k] \in {activeCalls[k], None} /\ activeCalls'[k] # c
    <3>1. \A k \in Key : activeCalls[k] = c => k = keyOf[c]
      BY DEF IInv, EntriesSound, Call
    <3> QED
      BY <1>0, <1>2, <3>1 DEF Closed, IsCurrent, Drop, TypeOK, Call
  <2>3. \A d \in Call : net'[d] # net[d] => net[d] = "running" /\ d = c
    BY <1>0, <2>1, OverFacts
  <2> QED
    BY <2>1, <2>2, <2>3, TeardownKeeps
<1>3. ASSUME NEW k \in Key, CancelStream(k) PROVE IInv'
  <2>1. /\ net' = Over({activeCalls[k]})
        /\ UNCHANGED <<made, pc, keyOf, writes, half, got, endedAt, meant, halfMeant>>
        /\ pending' = [pending EXCEPT ![k] = None]
        /\ activeCalls' = [activeCalls EXCEPT ![k] = None]
    BY <1>3 DEF CancelStream, Drop
  <2>2. \A j \in Key : /\ pending'[j] \in {pending[j], None}
                       /\ activeCalls'[j] = IF j = k THEN None ELSE activeCalls[j]
    BY <1>0, <2>1 DEF TypeOK
  <2>3. \A d \in Call : net'[d] # net[d] => net[d] = "running" /\ d = activeCalls[k]
    BY <1>0, <2>1, OverFacts
  <2>4. \A d \in Call : d = activeCalls[k] => \A j \in Key : activeCalls'[j] # d
    BY <1>0, <2>2
  <2> QED
    BY <2>1, <2>2, <2>3, <2>4, TeardownKeeps
<1>4. ASSUME NEW stale \in SUBSET Key, Sweep(stale) PROVE IInv'
  <2>1. /\ net' = Over({activeCalls[k] : k \in stale})
        /\ UNCHANGED <<made, pc, keyOf, writes, half, got, endedAt, meant, halfMeant>>
        /\ \A j \in Key : /\ pending'[j] \in {pending[j], None}
                          /\ activeCalls'[j] = IF j \in stale THEN None ELSE activeCalls[j]
    BY <1>4 DEF Sweep
  <2>2. \A d \in Call : net'[d] # net[d] =>
           net[d] = "running" /\ \E k \in stale : d = activeCalls[k]
    BY <1>0, <2>1, OverFacts
  <2>3. \A d \in Call : \A k \in stale : d = activeCalls[k] => \A j \in Key : activeCalls'[j] # d
    BY <1>0, <2>1
  <2> QED
    BY <2>1, <2>2, <2>3, TeardownKeeps
<1>5. ASSUME NEW o \in Owner, Destroyed(o) PROVE IInv'
  <2>1. /\ net' = Over(DisposedOnDestroyed(activeCalls, entryBound, o))
        /\ UNCHANGED <<made, pc, keyOf, writes, half, got, endedAt, meant, halfMeant>>
        /\ \A j \in Key : /\ pending'[j] \in {pending[j], None}
                          /\ activeCalls'[j] = IF o \in entryBound /\ OwnerOf(j) = o
                                               THEN None ELSE activeCalls[j]
    BY <1>5 DEF Destroyed, AfterDestroyed, WithoutOwner
  <2>2. \A d \in Call : net'[d] # net[d] =>
           /\ net[d] = "running" /\ o \in entryBound
           /\ \E k \in Key : d = activeCalls[k] /\ OwnerOf(k) = o
    <3>1. \A d \in Call : net'[d] # net[d] =>
             net[d] = "running" /\ d \in DisposedOnDestroyed(activeCalls, entryBound, o)
      BY <1>0, <2>1, OverFacts
    <3>2. \A d \in DisposedOnDestroyed(activeCalls, entryBound, o) :
             o \in entryBound /\ \E k \in Key : d = activeCalls[k] /\ OwnerOf(k) = o
      BY DEF DisposedOnDestroyed, OwnedBy, KeysIn
    <3> QED
      BY <3>1, <3>2
  <2>3. \A d \in Call : net'[d] # net[d] => \A j \in Key : activeCalls'[j] # d
    BY <1>0, <2>1, <2>2
  <2> QED
    BY <2>1, <2>2, <2>3, TeardownKeeps
<1>6. CASE Stop
  <2>1. /\ net' = Over(Entries(activeCalls))
        /\ UNCHANGED <<made, pc, keyOf, writes, half, got, endedAt, meant, halfMeant>>
        /\ \A j \in Key : pending'[j] = None /\ activeCalls'[j] = None
    BY <1>6 DEF Stop, EmptyMap
  <2>2. \A d \in Call : net'[d] # net[d] => net[d] = "running" /\ \A j \in Key : activeCalls'[j] # d
    BY <1>0, <2>1, OverFacts
  <2> QED
    BY <2>1, <2>2, TeardownKeeps
<1> QED
  BY <1>1, <1>2, <1>3, <1>4, <1>5, <1>6

(* What a renderer writes goes to the call that its id stands for.         *)
LEMMA WriteKeeps ==
  ASSUME IInv, TypeOK', NEW k \in Key, SendMessage(k) \/ SendUnencodable(k)
  PROVE  IInv'
<1> USE GrpcAssumption
<1>0. TypeOK /\ UNCHANGED <<made, pc, keyOf, pending, activeCalls, half, net, endedAt, halfMeant>>
  BY DEF IInv, SendMessage, SendUnencodable, startVars, controlVars
<1>1. \A j, i \in Key : /\ activeCalls[j] # None /\ activeCalls[j] = activeCalls[i] => j = i
                        /\ pending[j] # None /\ pending[j] = pending[i] => j = i
                        /\ activeCalls[j] # None => activeCalls[j] # pending[i]
  BY <1>0 DEF IInv, EntriesSound, ClaimsSound
<1>2. LatestSound'
  BY <1>0 DEF IInv, LatestSound
<1>3. CASE SendMessage(k) /\ activeCalls[k] # None
  <2> DEFINE c == activeCalls[k]
  <2>1. /\ c \in Call /\ sent + 1 \in Nat /\ pc[c] = "started"
        /\ meant' = [meant EXCEPT ![c] = Append(meant[c], sent + 1)]
        /\ got' = [got EXCEPT ![c] = Append(got[c], sent + 1)] /\ writes' = writes
    BY <1>0, <1>3 DEF SendMessage, IInv, TypeOK, EntriesSound
  <2> HIDE DEF c
  <2>2. \A d \in Call : /\ meant'[d] = IF d = c THEN Append(meant[c], sent + 1) ELSE meant[d]
                        /\ got'[d] = IF d = c THEN Append(got[c], sent + 1) ELSE got[d]
    BY <1>0, <2>1 DEF TypeOK
  <2>3. CallsSound'
    BY <1>0, <2>1, <2>2 DEF IInv, CallsSound
  <2>4. HalvesSound'
    <3>1. \A d \in Call : Len(meant[d]) \in Nat /\ Len(meant'[d]) \in Nat
                          /\ Len(meant'[d]) >= Len(meant[d])
      BY SMTT(40), <1>0, <2>1, <2>2 DEF TypeOK
    <3> QED
      BY <1>0, <3>1 DEF IInv, HalvesSound, TypeOK
  <2>5. ClaimsSound'
    <3>1. \A j \in Key : pending[j] # c
      BY <1>1, <1>3 DEF c
    <3>2. \A j \in Key : pending[j] # None => meant'[pending[j]] = meant[pending[j]]
      BY <1>0, <2>2, <3>1, Held
    <3> QED
      BY <1>0, <2>1, <3>2 DEF IInv, ClaimsSound
  <2>6. EntriesSound'
    <3>1. KeepsOldest(got'[c], meant'[c])
      <4>1. KeepsOldest(got[c], meant[c]) /\ got[c] \in Seq(Nat) /\ meant[c] \in Seq(Nat)
        BY <1>0, <1>3, <2>1 DEF IInv, EntriesSound, TypeOK, c
      <4> QED
        BY <2>1, <2>2, <4>1, KeepsBoth
    <3>2. \A j \in Key : activeCalls[j] # None =>
             KeepsOldest(got'[activeCalls[j]], meant'[activeCalls[j]])
      <4> SUFFICES ASSUME NEW j \in Key, activeCalls[j] # None
                   PROVE  KeepsOldest(got'[activeCalls[j]], meant'[activeCalls[j]])
        OBVIOUS
      <4>1. KeepsOldest(got[activeCalls[j]], meant[activeCalls[j]]) /\ activeCalls[j] \in Call
        BY <1>0, Held DEF IInv, EntriesSound
      <4> QED
        BY <2>2, <3>1, <4>1
    <3> QED
      BY <1>0, <3>2 DEF IInv, EntriesSound
  <2> QED
    BY <1>2, <2>3, <2>4, <2>5, <2>6 DEF IInv
<1>4. ASSUME \/ SendMessage(k) /\ activeCalls[k] = None
             \/ SendUnencodable(k)
      PROVE  IInv'
  <2> DEFINE c == pending[k]
  <2>1. /\ c \in Call /\ got' = got
        /\ \/ /\ writes' = [writes EXCEPT ![c] = BufferPayload(c, sent + 1)]
              /\ meant' = [meant EXCEPT ![c] = Append(meant[c], sent + 1)]
           \/ /\ writes' = [writes EXCEPT ![c] = BufferPayload(c, Unencodable)]
              /\ meant' = meant
    BY <1>0, <1>4 DEF SendMessage, SendUnencodable, TypeOK, controlVars, senderVars
  <2>2. /\ writes[c] \in Seq(Nat) /\ meant[c] \in Seq(Nat) /\ sent + 1 \in Nat
        /\ pc[c] \in {"dns", "auth"}
        /\ \/ \E i \in 1 .. Len(writes[c]) : writes[c][i] = Unencodable
           \/ KeepsOldest(writes[c], meant[c])
    <3>1. /\ pc[c] \in {"dns", "auth"}
          /\ \/ \E i \in 1 .. Len(writes[c]) : writes[c][i] = Unencodable
             \/ KeepsOldest(writes[c], meant[c])
      BY <2>1, GrpcAssumption DEF IInv, ClaimsSound
    <3>2. writes[c] \in Seq(Nat) /\ meant[c] \in Seq(Nat)
      BY <1>0, <2>1 DEF TypeOK
    <3>3. sent + 1 \in Nat
      BY <1>0 DEF TypeOK
    <3> QED
      BY <3>1, <3>2, <3>3
  <2>3. \A j \in Key : activeCalls[j] # c
    BY <1>1, <2>1 DEF Call
  <2> HIDE DEF c
  <2>4. \A d \in Call : d # c => writes'[d] = writes[d] /\ meant'[d] = meant[d]
    BY <1>0, <2>1 DEF TypeOK
  <2>5. /\ Len(meant'[c]) >= Len(meant[c])
        /\ \/ \E i \in 1 .. Len(writes'[c]) : writes'[c][i] = Unencodable
           \/ KeepsOldest(writes'[c], meant'[c])
    <3>1. ASSUME NEW m \in Nat, BufferPayload(c, m) = Append(writes[c], m),
                 \E i \in 1 .. Len(writes[c]) : writes[c][i] = Unencodable
          PROVE  \E i \in 1 .. Len(BufferPayload(c, m)) : BufferPayload(c, m)[i] = Unencodable
      BY <2>2, <3>1
    <3>2. CASE /\ writes'[c] = BufferPayload(c, sent + 1)
               /\ meant'[c] = Append(meant[c], sent + 1)
      <4>1. Len(meant'[c]) >= Len(meant[c])
        BY <2>2, <3>2
      <4>2. CASE Len(writes[c]) < MaxWrites
        <5>1. BufferPayload(c, sent + 1) = Append(writes[c], sent + 1)
          BY <4>2 DEF BufferPayload
        <5> QED
          BY <2>2, <3>1, <3>2, <4>1, <5>1, KeepsBoth
      <4>3. CASE ~(Len(writes[c]) < MaxWrites)
        <5>1. BufferPayload(c, sent + 1) = writes[c] /\ Len(writes[c]) >= MaxWrites
          BY <2>2, <4>3 DEF BufferPayload
        <5> QED
          BY <2>2, <3>2, <4>1, <5>1, KeepsFull
      <4> QED
        BY <4>2, <4>3
    <3>3. CASE /\ writes'[c] = BufferPayload(c, Unencodable)
               /\ meant'[c] = meant[c]
      <4>1. Len(meant'[c]) >= Len(meant[c])
        BY <2>2, <3>3
      <4>2. CASE Len(writes[c]) < MaxWrites
        <5>1. BufferPayload(c, Unencodable) = Append(writes[c], Unencodable)
          BY <4>2 DEF BufferPayload
        <5>2. /\ Len(writes[c]) + 1 \in 1 .. Len(Append(writes[c], Unencodable))
              /\ Append(writes[c], Unencodable)[Len(writes[c]) + 1] = Unencodable
          BY <2>2 DEF Unencodable
        <5> QED
          BY <3>3, <4>1, <5>1, <5>2
      <4>3. CASE ~(Len(writes[c]) < MaxWrites)
        BY <2>2, <3>3, <4>1, <4>3 DEF BufferPayload
      <4> QED
        BY <4>2, <4>3
    <3> QED
      BY <1>0, <2>1, <3>2, <3>3 DEF TypeOK
  <2>6. CallsSound'
    BY <1>0, <2>2, <2>4 DEF IInv, CallsSound
  <2>7. HalvesSound'
    <3>1. \A d \in Call : Len(meant[d]) \in Nat /\ Len(meant'[d]) \in Nat
                          /\ Len(meant'[d]) >= Len(meant[d])
      <4> SUFFICES ASSUME NEW d \in Call
                   PROVE  /\ Len(meant[d]) \in Nat /\ Len(meant'[d]) \in Nat
                          /\ Len(meant'[d]) >= Len(meant[d])
        OBVIOUS
      <4>1. meant[d] \in Seq(Nat) /\ meant'[d] \in Seq(Nat)
        BY <1>0 DEF TypeOK
      <4>2. Len(meant[d]) \in Nat /\ Len(meant'[d]) \in Nat
        BY <4>1
      <4> QED
        BY <2>4, <2>5, <4>2
    <3> QED
      BY <1>0, <3>1 DEF IInv, HalvesSound, TypeOK
  <2>8. ClaimsSound'
    <3>1. \A j \in Key : pending[j] # None =>
             \/ \E i \in 1 .. Len(writes'[pending[j]]) : writes'[pending[j]][i] = Unencodable
             \/ KeepsOldest(writes'[pending[j]], meant'[pending[j]])
      <4> SUFFICES ASSUME NEW j \in Key, pending[j] # None
                   PROVE  \/ \E i \in 1 .. Len(writes'[pending[j]]) :
                                writes'[pending[j]][i] = Unencodable
                          \/ KeepsOldest(writes'[pending[j]], meant'[pending[j]])
        OBVIOUS
      <4>1. CASE pending[j] = c
        BY <2>5, <4>1
      <4>2. CASE pending[j] # c
        <5>1. /\ \/ \E i \in 1 .. Len(writes[pending[j]]) :
                          writes[pending[j]][i] = Unencodable
                 \/ KeepsOldest(writes[pending[j]], meant[pending[j]])
              /\ pending[j] \in Call
          BY <1>0, Held DEF IInv, ClaimsSound
        <5> QED
          BY <2>4, <4>2, <5>1
      <4> QED
        BY <4>1, <4>2
    <3> QED
      BY <1>0, <3>1 DEF IInv, ClaimsSound
  <2>9. EntriesSound'
    BY <1>0, <2>1, <2>3, <2>4 DEF IInv, EntriesSound, TypeOK
  <2> QED
    BY <1>2, <2>6, <2>7, <2>8, <2>9 DEF IInv
<1> QED
  BY <1>3, <1>4

(* A half-close goes the same way.                                         *)
LEMMA EndKeeps == ASSUME IInv, TypeOK', NEW k \in Key, EndStream(k) PROVE IInv'
<1> USE GrpcAssumption
<1> DEFINE c == IF activeCalls[k] # None THEN activeCalls[k] ELSE pending[k]
           ends == activeCalls[k] # None
<1>1. /\ halfMeant' = [halfMeant EXCEPT
             ![c] = IF halfMeant[c] = None THEN Len(meant[c]) ELSE halfMeant[c]]
      /\ ends => /\ half' = half
                 /\ endedAt' = [endedAt EXCEPT
                      ![c] = IF endedAt[c] = None THEN Len(got[c]) ELSE endedAt[c]]
      /\ ~ends => half' = [half EXCEPT ![c] = TRUE] /\ endedAt' = endedAt
  BY DEF EndStream
<1>2. /\ c \in Call /\ TypeOK /\ got[c] \in Seq(Nat) /\ meant[c] \in Seq(Nat)
      /\ UNCHANGED <<made, pc, keyOf, pending, activeCalls, writes, net, got, meant>>
  BY DEF EndStream, IInv, TypeOK, startVars
<1>3. ends => activeCalls[k] = c
  OBVIOUS
<1>4. ~ends => pending[k] = c
  OBVIOUS
<1> HIDE DEF c, ends
<1>5. /\ Len(meant[c]) \in Nat /\ Len(got[c]) \in Nat
      /\ \A d \in Call : /\ d # c => /\ halfMeant'[d] = halfMeant[d] /\ endedAt'[d] = endedAt[d]
                                     /\ half'[d] = half[d]
                         /\ endedAt'[d] \in Nat \cup {None}
      /\ halfMeant'[c] = IF halfMeant[c] = None THEN Len(meant[c]) ELSE halfMeant[c]
      /\ ~ends => endedAt' = endedAt
      /\ ends => endedAt'[c] = IF endedAt[c] = None THEN Len(got[c]) ELSE endedAt[c]
  BY <1>1, <1>2 DEF TypeOK
<1>6. CallsSound' /\ ClaimsSound' /\ LatestSound'
  BY <1>2 DEF IInv, CallsSound, ClaimsSound, LatestSound
<1>7. halfMeant'[c] \in Nat /\ halfMeant'[c] <= Len(meant[c])
  BY <1>2, <1>5 DEF IInv, HalvesSound, TypeOK
<1>8. HalvesSound'
  BY <1>2, <1>5, <1>7 DEF IInv, HalvesSound
<1>9. EntriesSound'
  <2> SUFFICES ASSUME NEW j \in Key, NEW d \in Call, d = activeCalls[j], endedAt'[d] # None
               PROVE  endedAt'[d] >= halfMeant'[d] \/ endedAt'[d] >= MaxWrites
    BY <1>2 DEF IInv, EntriesSound, TypeOK
  <2>0. /\ KeepsOldest(got[d], meant[d])
        /\ endedAt[d] # None => endedAt[d] >= halfMeant[d] \/ endedAt[d] >= MaxWrites
        /\ pc[d] = "started" /\ d # None
    BY <1>2 DEF IInv, EntriesSound, Call
  <2>1. CASE d # c
    BY <1>5, <2>0, <2>1
  <2>2. CASE d = c
    <3>1. ends
      BY <1>2, <1>4, <2>0, <2>2 DEF IInv, ClaimsSound
    <3>2. endedAt[c] # None => halfMeant[c] # None
      BY <1>2 DEF IInv, HalvesSound
    <3>3. CASE endedAt[c] # None
      BY <1>5, <2>0, <2>2, <3>1, <3>2, <3>3
    <3>4. CASE endedAt[c] = None
      <4>1. Len(got[c]) = Len(meant[c]) \/ Len(got[c]) >= MaxWrites
        BY <1>2, <2>0, <2>2, KeepsEnough
      <4> QED
        BY <1>5, <1>7, <2>2, <3>1, <3>4, <4>1
    <3> QED
      BY <3>3, <3>4
  <2> QED
    BY <2>1, <2>2
<1> QED
  BY <1>6, <1>8, <1>9 DEF IInv

(* Claims, entries, buffers and network calls agree in every reachable     *)
(* state.                                                                  *)
THEOREM Invariance == Spec => []IInv
<1>1. Init => IInv
  <2> SUFFICES ASSUME Init PROVE IInv
    OBVIOUS
  <2>1. TypeOK
    BY GrpcAssumption DEF Init, TypeOK, EmptyMap, Call
  <2>2. CallsSound /\ HalvesSound /\ ClaimsSound /\ EntriesSound /\ LatestSound
    BY GrpcAssumption
    DEF Init, EmptyMap, CallsSound, HalvesSound, ClaimsSound, EntriesSound, LatestSound, Call
  <2> QED
    BY <2>1, <2>2 DEF IInv
<1>2. IInv /\ TypeOK' /\ [Next]_vars => IInv'
  <2> SUFFICES ASSUME IInv, TypeOK', [Next]_vars PROVE IInv'
    OBVIOUS
  <2>1. ASSUME NEW c \in Call, Start(c) PROVE IInv'
    BY <2>1, RefusalKeeps, ReserveKeeps, StartKeeps, RegisterKeeps DEF Start
  <2>2. ASSUME NEW k \in Key, Control(k) PROVE IInv'
    BY <2>2, WriteKeeps, EndKeeps, TeardownsKeep DEF Control
  <2>3. CASE UNCHANGED vars
    BY <2>3
    DEF vars, IInv, CallsSound, HalvesSound, ClaimsSound, EntriesSound, LatestSound
  <2> QED
    BY <2>1, <2>2, <2>3, TeardownsKeep DEF Next
<1> QED
  BY <1>1, <1>2, TypeCorrect, PTL DEF Spec

-------------------------------------------------------------------------------
(* The properties of the run                                               *)

(* What a renderer writes to a stream reaches it once and in order: only a *)
(* full buffer loses any, and no half-close overtakes what came before it. *)
THEOREM WritesAlwaysArrive == Spec => []WritesArrive
<1>1. IInv => WritesArrive
  <2> SUFFICES ASSUME IInv, NEW c \in Call, net[c] = "running", IsCurrent(c)
               PROVE  /\ KeepsOldest(got[c], meant[c])
                      /\ endedAt[c] # None =>
                            endedAt[c] >= halfMeant[c] \/ endedAt[c] >= MaxWrites
    BY DEF WritesArrive
  <2>1. keyOf[c] \in Key /\ activeCalls[keyOf[c]] = c /\ c # None
    BY GrpcAssumption DEF IInv, TypeOK, CallsSound, IsCurrent
  <2> QED
    BY <2>1 DEF IInv, EntriesSound
<1> QED
  BY <1>1, Invariance, PTL

(* Only the latest call of an id that has a network call speaks under that *)
(* id: a call that it replaced, was cancelled or has ended is silent.      *)
THEOREM CurrentSpeaks == Spec => OnlyCurrentSpeaks
<1> DEFINE Speaks == io' # None /\ io'.what \in {"data", "terminal"} =>
              /\ net[io'.from] = "running"
              /\ \A d \in Call : d > io'.from /\ keyOf[d] = keyOf[io'.from] => net[d] = "none"
<1>1. IInv /\ [Next]_vars => [Speaks]_vars
  <2> SUFFICES ASSUME IInv, Next, io' # None, io'.what \in {"data", "terminal"}
               PROVE  /\ net[io'.from] = "running"
                      /\ \A d \in Call : d > io'.from /\ keyOf[d] = keyOf[io'.from]
                            => net[d] = "none"
    OBVIOUS
  <2>1. PICK c \in Call : io'.from = c /\ net[c] # "none" /\ IsCurrent(c)
    <3>1. ASSUME NEW c \in Call, Start(c) PROVE FALSE
      BY <3>1 DEF Start, Refuse, Ignore, Reserve, StartFailed, StartStale, Resolved, Register,
         FlushThrows, RegisterRefused, Tell
    <3>2. ASSUME NEW c \in Call, Data(c) \/ Closed(c)
          PROVE  io'.from = c /\ net[c] # "none" /\ IsCurrent(c)
      BY <3>2 DEF Data, Closed, Tell
    <3>3. ASSUME NEW k \in Key, Control(k) PROVE FALSE
      BY <3>3 DEF Control, SendMessage, SendUnencodable, EndStream, CancelStream
    <3> QED
      BY <3>1, <3>2, <3>3 DEF Next, Sweep, Destroyed, Stop
  <2>2. keyOf[c] \in Key /\ activeCalls[keyOf[c]] = c /\ c # None
    BY <2>1, GrpcAssumption DEF IInv, TypeOK, CallsSound, IsCurrent
  <2>3. net[c] = "running"
    BY <2>2 DEF IInv, EntriesSound
  <2>4. ASSUME NEW d \in Call, d > c, keyOf[d] = keyOf[c] PROVE net[d] = "none"
    BY <2>2, <2>4 DEF IInv, LatestSound
  <2> QED
    BY <2>1, <2>3, <2>4
<1> QED
  BY <1>1, Invariance, PTL DEF Spec, OnlyCurrentSpeaks
===============================================================================
