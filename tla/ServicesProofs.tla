---------------------------- MODULE ServicesProofs ----------------------------
(***************************************************************************)
(* Theorems about the services that keep state outside the transports: the *)
(* rate limiter, the WebSocket tickets, the merge in a git workspace, the  *)
(* persisted store of the renderer, its file collections, and the saving   *)
(* of a collection to its directory.                                       *)
(* Each has its own invariant; nothing is shared between them.             *)
(***************************************************************************)
EXTENDS RateLimiter, WsTicket, GitMerge, PersistedStorage, FileCollectionSync, CollectionSave,
        FiniteSetTheorems, SequenceTheorems, TLAPS

-------------------------------------------------------------------------------
(* The rate limiter                                                        *)

(* A finite set of positive numbers that has, with a number, every smaller *)
(* one is an interval: counting it finds its end.                          *)
LEMMA InitialSegment ==
  ASSUME NEW n \in Nat, NEW S \in SUBSET (1 .. n),
         \A i \in S : \A j \in 1 .. i : j \in S
  PROVE  /\ Cardinality(S) \in 0 .. n
         /\ S = 1 .. Cardinality(S)
<1>1. /\ IsFiniteSet(1 .. n) /\ Cardinality(1 .. n) = n
      /\ \A i \in Nat : IsFiniteSet(1 .. i) /\ Cardinality(1 .. i) = i
  BY FS_Interval
<1>2. IsFiniteSet(S) /\ Cardinality(S) \in Nat /\ Cardinality(S) <= n
  <2>1. IsFiniteSet(S) /\ Cardinality(S) <= Cardinality(1 .. n)
    BY <1>1, FS_Subset
  <2> QED
    BY <1>1, <2>1, FS_CardinalityType
<1>3. \A i \in S : i <= Cardinality(S)
  <2> SUFFICES ASSUME NEW i \in S PROVE i <= Cardinality(S)
    OBVIOUS
  <2>1. 1 .. i \subseteq S /\ i \in Nat
    OBVIOUS
  <2>2. Cardinality(1 .. i) <= Cardinality(S)
    BY <1>2, <2>1, FS_Subset
  <2> QED
    BY <1>1, <2>1, <2>2
<1>4. S \subseteq 1 .. Cardinality(S)
  BY <1>3
<1>5. S = 1 .. Cardinality(S)
  <2> DEFINE T == 1 .. Cardinality(S)
  <2>1. IsFiniteSet(T) /\ Cardinality(T) = Cardinality(S)
    BY <1>1, <1>2
  <2>2. S \in SUBSET T
    BY <1>4
  <2> HIDE DEF T
  <2>3. S = T
    BY <2>1, <2>2, FS_Subset
  <2> QED
    BY <2>3 DEF T
<1> QED
  BY <1>2, <1>5

(* In a sequence in order, what expired is at the front, and counting it   *)
(* finds the first timestamp that is kept.                                 *)
LEMMA ExpiredFirst ==
  ASSUME NEW seq \in Seq(Nat), NEW t \in Int,
         InOrder(seq)
  PROVE  LET n == Cardinality({i \in DOMAIN seq : seq[i] <= t}) IN
         /\ n \in 0 .. Len(seq)
         /\ \A i \in DOMAIN seq : seq[i] <= t <=> i <= n
         /\ Cardinality({i \in DOMAIN seq : seq[i] > t}) = Len(seq) - n
<1> DEFINE S == {i \in DOMAIN seq : seq[i] <= t}
           n == Cardinality(S)
           rest == {i \in DOMAIN seq : seq[i] > t}
<1>1. Len(seq) \in Nat /\ DOMAIN seq = 1 .. Len(seq) /\ \A i \in DOMAIN seq : seq[i] \in Nat
  OBVIOUS
<1>2. \A i \in S : \A j \in 1 .. i : j \in S
  <2> SUFFICES ASSUME NEW i \in DOMAIN seq, seq[i] <= t, NEW j \in 1 .. i
               PROVE  j \in DOMAIN seq /\ seq[j] <= t
    OBVIOUS
  <2>1. j \in DOMAIN seq /\ (j = i \/ j < i)
    BY <1>1
  <2>2. seq[j] <= seq[i]
    BY <1>1, <2>1 DEF InOrder
  <2> QED
    BY <1>1, <2>1, <2>2
<1>3. n \in 0 .. Len(seq) /\ S = 1 .. n
  <2>1. S \in SUBSET (1 .. Len(seq))
    BY <1>1
  <2> HIDE DEF S
  <2> QED
    BY <1>1, <1>2, <2>1, InitialSegment
<1>4. \A i \in DOMAIN seq : seq[i] <= t <=> i <= n
  <2>1. \A i \in DOMAIN seq : seq[i] <= t <=> i \in S
    OBVIOUS
  <2> HIDE DEF S
  <2> QED
    BY <1>1, <1>3, <2>1
<1>5. rest = n + 1 .. Len(seq)
  <2> HIDE DEF n
  <2> QED
    BY <1>1, <1>3, <1>4
<1>6. Cardinality(rest) = Len(seq) - n
  <2> DEFINE first == n + 1
  <2> HIDE DEF n, rest
  <2>1. first \in Int
    BY <1>3
  <2>2. Cardinality(first .. Len(seq)) = IF first > Len(seq) THEN 0 ELSE Len(seq) - first + 1
    <3> HIDE DEF first
    <3> QED
      BY <1>1, <2>1, FS_Interval
  <2> QED
    BY <1>1, <1>3, <1>5, <2>2
<1> QED
  BY <1>3, <1>4, <1>6

(* An index into the end of a sequence, counted from its beginning.        *)
LEMMA Shifted ==
  ASSUME NEW d \in Nat, NEW length \in Nat, NEW i \in 1 .. length
  PROVE  i \in Nat /\ d + i \in 1 .. (d + length)
  OBVIOUS

(* Evicting leaves the latest part of the accepted calls: as many as were  *)
(* accepted in the window.                                                 *)
LEMMA EvictionKeepsTheWindow ==
  ASSUME NEW acc \in Seq(Nat), NEW bucket \in Seq(Nat), NEW t \in Int,
         InOrder(acc), LatestOf(bucket, acc, t)
  PROVE  LET kept == WithoutFirst(bucket, Cardinality({i \in DOMAIN bucket : bucket[i] <= t})) IN
         /\ kept \in Seq(Nat)
         /\ LatestOf(kept, acc, t)
         /\ Cardinality({i \in DOMAIN acc : acc[i] > t}) = Len(kept)
<1> DEFINE d == Len(acc) - Len(bucket)
           n == Cardinality({i \in DOMAIN bucket : bucket[i] <= t})
           m == Cardinality({i \in DOMAIN acc : acc[i] <= t})
           kept == WithoutFirst(bucket, n)
<1>1. /\ Len(acc) \in Nat /\ DOMAIN acc = 1 .. Len(acc)
      /\ Len(bucket) \in Nat /\ DOMAIN bucket = 1 .. Len(bucket)
      /\ d \in Nat /\ Len(acc) = d + Len(bucket)
  BY DEF LatestOf
<1>2. /\ \A i \in DOMAIN bucket : bucket[i] = acc[d + i]
      /\ \A i \in 1 .. d : acc[i] <= t
  BY DEF LatestOf
<1> HIDE DEF d
<1>3. InOrder(bucket)
  <2> SUFFICES ASSUME NEW i \in DOMAIN bucket, NEW j \in DOMAIN bucket, i < j
               PROVE  bucket[i] <= bucket[j]
    BY DEF InOrder
  <2>0. i \in 1 .. Len(bucket) /\ j \in 1 .. Len(bucket) /\ i \in Nat /\ j \in Nat
    BY <1>1
  <2>1. d + i \in DOMAIN acc /\ d + j \in DOMAIN acc /\ d + i < d + j
    <3>1. d + i \in 1 .. Len(acc) /\ d + j \in 1 .. Len(acc)
      BY <1>1, <2>0, Shifted
    <3> QED
      BY <1>1, <2>0, <3>1
  <2>2. acc[d + i] <= acc[d + j]
    BY <2>1 DEF InOrder
  <2> QED
    BY <1>2, <2>2
<1>4. n \in 0 .. Len(bucket) /\ \A i \in DOMAIN bucket : bucket[i] <= t <=> i <= n
  BY <1>3, ExpiredFirst
<1>5. /\ m \in 0 .. Len(acc) /\ \A i \in DOMAIN acc : acc[i] <= t <=> i <= m
      /\ Cardinality({i \in DOMAIN acc : acc[i] > t}) = Len(acc) - m
  BY ExpiredFirst
<1> HIDE DEF n, m
<1>6. \A i \in DOMAIN acc : acc[i] <= t <=> i <= d + n
  <2> SUFFICES ASSUME NEW i \in DOMAIN acc PROVE acc[i] <= t <=> i <= d + n
    OBVIOUS
  <2>1. CASE i <= d
    BY <1>1, <1>2, <1>4, <2>1
  <2>2. CASE i > d
    <3>1. i - d \in DOMAIN bucket /\ d + (i - d) = i
      BY <1>1, <2>2
    <3>2. bucket[i - d] = acc[i] /\ bucket[i - d] <= t <=> i - d <= n
      BY <1>2, <1>4, <3>1
    <3> QED
      BY SMTT(40), <1>1, <1>2, <1>4, <3>1, <3>2
  <2> QED
    BY <1>1, <2>1, <2>2
<1>7. m = d + n
  <2>1. d + n \in 0 .. Len(acc) /\ m \in Int
    BY <1>1, <1>4, <1>5
  <2>2. \A i \in 1 .. Len(acc) : i <= m <=> i <= d + n
    BY <1>1, <1>5, <1>6
  <2> HIDE DEF d
  <2>3. CASE m < d + n
    BY <1>1, <1>5, <2>1, <2>2, <2>3
  <2>4. CASE d + n < m
    BY <1>1, <1>5, <2>1, <2>2, <2>4
  <2> QED
    BY <2>1, <2>3, <2>4
<1>8. /\ kept \in Seq(Nat) /\ Len(kept) = Len(bucket) - n
      /\ \A i \in 1 .. Len(bucket) - n : kept[i] = bucket[n + i]
  <2> DEFINE first == n + 1
  <2>1. first \in Int /\ first >= 1 /\ n = first - 1 /\ n \in Nat /\ n <= Len(bucket)
    BY <1>1, <1>4
  <2>2. \A i \in first .. Len(bucket) : bucket[i] \in Nat
    BY <1>1, <2>1
  <2>3. kept = SubSeq(bucket, first, Len(bucket))
    BY DEF WithoutFirst
  <2> HIDE DEF first
  <2>4. /\ SubSeq(bucket, first, Len(bucket)) \in Seq(Nat)
        /\ Len(SubSeq(bucket, first, Len(bucket)))
             = IF first <= Len(bucket) THEN Len(bucket) - first + 1 ELSE 0
        /\ \A i \in 1 .. Len(bucket) - first + 1 :
              SubSeq(bucket, first, Len(bucket))[i] = bucket[first + i - 1]
    BY <1>1, <2>1, <2>2, SubSeqProperties
  <2> HIDE DEF kept
  <2>5. ASSUME NEW i \in 1 .. Len(bucket) - n PROVE kept[i] = bucket[n + i]
    <3>1. i \in 1 .. Len(bucket) - first + 1 /\ first + i - 1 = n + i
      BY <1>1, <2>1
    <3> QED
      BY <2>3, <2>4, <3>1
  <2>6. Len(kept) = Len(bucket) - n
    BY <1>1, <2>1, <2>3, <2>4
  <2> QED
    BY <2>3, <2>4, <2>5, <2>6
<1> HIDE DEF kept
<1>9. Len(acc) - Len(kept) = d + n /\ d + n \in Nat /\ d + n <= Len(acc)
  BY <1>1, <1>4, <1>8
<1>10. LatestOf(kept, acc, t)
  <2>1. ASSUME NEW i \in DOMAIN kept PROVE kept[i] = acc[(d + n) + i]
    <3>1. i \in 1 .. Len(bucket) - n
      BY <1>8, <2>1
    <3>2. n + i \in 1 .. Len(bucket) /\ d + (n + i) = (d + n) + i
      <4> DEFINE length == Len(bucket) - n
      <4>1. /\ length \in Nat /\ n \in Nat /\ n + length = Len(bucket)
            /\ i \in 1 .. length
        BY <1>1, <1>4, <3>1
      <4> HIDE DEF length
      <4>2. i \in Nat /\ n + i \in 1 .. (n + length)
        BY <4>1, Shifted
      <4>3. n + i \in 1 .. Len(bucket)
        BY <4>1, <4>2
      <4>4. d + (n + i) = (d + n) + i
        BY <1>1, <4>1, <4>2
      <4> QED
        BY <4>3, <4>4
    <3>3. n + i \in DOMAIN bucket
      BY <1>1, <3>2
    <3> QED
      BY <1>2, <1>8, <3>1, <3>2, <3>3
  <2>2. ASSUME NEW i \in 1 .. d + n PROVE acc[i] <= t
    <3>1. i \in DOMAIN acc /\ i <= d + n
      BY <1>1, <1>9
    <3> QED
      BY <1>6, <3>1
  <2> QED
    BY <1>9, <2>1, <2>2 DEF LatestOf
<1>11. Cardinality({i \in DOMAIN acc : acc[i] > t}) = Len(kept)
  BY <1>1, <1>4, <1>5, <1>7, <1>8
<1> QED
  BY <1>8, <1>10, <1>11 DEF kept, n

(* What a check finds in the bucket of its key.                            *)
LEMMA EvictedFacts ==
  ASSUME LimiterInv, NEW k \in Sender
  PROVE  /\ Evicted(k) \in Seq(Nat)
         /\ LatestOf(Evicted(k), accepted[k], now - WindowMs)
         /\ Cardinality({i \in DOMAIN accepted[k] : accepted[k][i] > now - WindowMs})
              = Len(Evicted(k))
<1>1. /\ accepted[k] \in Seq(Nat) /\ buckets[k] \in Seq(Nat) /\ now - WindowMs \in Int
      /\ InOrder(accepted[k]) /\ LatestOf(buckets[k], accepted[k], now - WindowMs)
  BY LimiterAssumption DEF LimiterInv, LimiterTypeOK
<1> QED
  BY <1>1, EvictionKeepsTheWindow DEF Evicted

(* Accepting a call at the time of the clock keeps both sequences in step. *)
LEMMA AcceptKeepsLatest ==
  ASSUME NEW seq \in Seq(Nat), NEW kept \in Seq(Nat), NEW t \in Int, NEW n \in Nat,
         InOrder(seq), \A i \in DOMAIN seq : seq[i] <= n, LatestOf(kept, seq, t)
  PROVE  /\ InOrder(Append(seq, n))
         /\ \A i \in DOMAIN Append(seq, n) : Append(seq, n)[i] <= n
         /\ LatestOf(Append(kept, n), Append(seq, n), t)
<1> DEFINE d == Len(seq) - Len(kept)
<1>1. /\ Len(seq) \in Nat /\ DOMAIN seq = 1 .. Len(seq)
      /\ Len(kept) \in Nat /\ DOMAIN kept = 1 .. Len(kept)
      /\ d \in Nat /\ Len(seq) = d + Len(kept)
  BY DEF LatestOf
<1>2. /\ \A i \in 1 .. Len(kept) : kept[i] = seq[d + i]
      /\ \A i \in 1 .. d : seq[i] <= t
  BY <1>1 DEF LatestOf
<1> HIDE DEF d
<1>3. /\ DOMAIN Append(seq, n) = 1 .. Len(seq) + 1
      /\ \A i \in 1 .. Len(seq) : Append(seq, n)[i] = seq[i] /\ seq[i] \in Nat
      /\ Append(seq, n)[Len(seq) + 1] = n
  BY <1>1, AppendProperties
<1>4. /\ DOMAIN Append(kept, n) = 1 .. Len(kept) + 1 /\ Len(Append(kept, n)) = Len(kept) + 1
      /\ \A i \in 1 .. Len(kept) : Append(kept, n)[i] = kept[i]
      /\ Append(kept, n)[Len(kept) + 1] = n
      /\ Len(Append(seq, n)) = Len(seq) + 1
  BY <1>1
<1>5. \A i \in DOMAIN Append(seq, n) : Append(seq, n)[i] <= n
  BY <1>1, <1>3
<1>6. InOrder(Append(seq, n))
  <2> SUFFICES ASSUME NEW i \in 1 .. Len(seq) + 1, NEW j \in 1 .. Len(seq) + 1, i < j
               PROVE  Append(seq, n)[i] <= Append(seq, n)[j]
    BY <1>3 DEF InOrder
  <2>1. i \in 1 .. Len(seq) /\ (j \in 1 .. Len(seq) \/ j = Len(seq) + 1)
    <3> DEFINE length == Len(seq)
    <3>1. length \in Nat
      BY <1>1
    <3> HIDE DEF length
    <3>2. i \in 1 .. length + 1 /\ j \in 1 .. length + 1
      BY DEF length
    <3>3. i \in 1 .. length /\ (j \in 1 .. length \/ j = length + 1)
      BY <3>1, <3>2
    <3> QED
      BY <3>3 DEF length
  <2> QED
    BY <1>1, <1>3, <2>1 DEF InOrder
<1>7. LatestOf(Append(kept, n), Append(seq, n), t)
  <2>1. Len(Append(seq, n)) - Len(Append(kept, n)) = d
    BY <1>1, <1>4
  <2>2. ASSUME NEW i \in DOMAIN Append(kept, n)
        PROVE  Append(kept, n)[i] = Append(seq, n)[d + i]
    <3>1. i \in 1 .. Len(kept) \/ i = Len(kept) + 1
      BY <1>1, <1>4, <2>2
    <3>2. CASE i \in 1 .. Len(kept)
      <4>1. d + i \in 1 .. Len(seq)
        BY <1>1, <3>2, Shifted
      <4> QED
        BY <1>2, <1>3, <1>4, <3>2, <4>1
    <3>3. CASE i = Len(kept) + 1
      <4>1. d + i = Len(seq) + 1
        BY <1>1, <3>3
      <4> QED
        BY <1>3, <1>4, <3>3, <4>1
    <3> QED
      BY <3>1, <3>2, <3>3
  <2>3. ASSUME NEW i \in 1 .. d PROVE Append(seq, n)[i] <= t
    <3>1. i \in 1 .. Len(seq)
      BY <1>1, <2>3
    <3> QED
      BY <1>2, <1>3, <3>1
  <2> QED
    BY <1>1, <2>1, <2>2, <2>3 DEF LatestOf
<1> QED
  BY <1>5, <1>6, <1>7

(* The bucket of a key is the part of its accepted calls that the window   *)
(* still holds, or more.                                                   *)
THEOREM LimiterInvariance == LimiterSpec => []LimiterInv
<1>1. LimiterInit => LimiterInv
  <2> SUFFICES ASSUME LimiterInit PROVE LimiterInv
    OBVIOUS
  <2>1. /\ LimiterTypeOK
        /\ \A k \in Sender : accepted[k] = <<>> /\ buckets[k] = <<>>
    BY DEF LimiterInit, LimiterTypeOK
  <2>2. InOrder(<<>>) /\ LatestOf(<<>>, <<>>, now - WindowMs)
    BY DEF InOrder, LatestOf
  <2> QED
    BY <2>1, <2>2 DEF LimiterInv
<1>2. LimiterInv /\ [LimiterNext]_limiterVars => LimiterInv'
  <2> SUFFICES ASSUME LimiterInv, [LimiterNext]_limiterVars PROVE LimiterInv'
    OBVIOUS
  <2> USE LimiterAssumption
  <2>0. /\ now \in Nat
        /\ buckets \in [Sender -> Seq(Nat)] /\ accepted \in [Sender -> Seq(Nat)]
        /\ \A k \in Sender : /\ InOrder(accepted[k])
                             /\ \A i \in DOMAIN accepted[k] : accepted[k][i] <= now
                             /\ LatestOf(buckets[k], accepted[k], now - WindowMs)
    BY DEF LimiterInv, LimiterTypeOK
  <2>1. ASSUME NEW k \in Sender, CheckLimit(k) PROVE LimiterInv'
    <3>0. /\ now' = now
          /\ IF Len(Evicted(k)) < MaxRequests
               THEN /\ buckets' = [buckets EXCEPT ![k] = Append(Evicted(k), now)]
                    /\ accepted' = [accepted EXCEPT ![k] = Append(accepted[k], now)]
               ELSE buckets' = [buckets EXCEPT ![k] = Evicted(k)] /\ accepted' = accepted
      BY <2>0, <2>1 DEF CheckLimit
    <3>1. /\ Evicted(k) \in Seq(Nat)
          /\ LatestOf(Evicted(k), accepted[k], now - WindowMs)
      BY EvictedFacts
    <3>2. LimiterTypeOK'
      <4>1. Append(Evicted(k), now) \in Seq(Nat) /\ Append(accepted[k], now) \in Seq(Nat)
        BY <2>0, <3>1
      <4>2. CASE Len(Evicted(k)) < MaxRequests
        BY <2>0, <3>0, <4>1, <4>2 DEF LimiterTypeOK
      <4>3. CASE ~(Len(Evicted(k)) < MaxRequests)
        BY <2>0, <3>0, <3>1, <4>3 DEF LimiterTypeOK
      <4> QED
        BY <4>2, <4>3
    <3>3. ASSUME NEW j \in Sender
          PROVE  /\ InOrder(accepted'[j])
                 /\ \A i \in DOMAIN accepted'[j] : accepted'[j][i] <= now
                 /\ LatestOf(buckets'[j], accepted'[j], now - WindowMs)
      <4>1. CASE j # k
        BY <2>0, <3>0, <4>1
      <4>2. CASE j = k /\ Len(Evicted(k)) < MaxRequests
        <5>1. /\ buckets'[j] = Append(Evicted(k), now)
              /\ accepted'[j] = Append(accepted[k], now)
          BY <2>0, <3>0, <4>2
        <5>2. now - WindowMs \in Int /\ accepted[k] \in Seq(Nat)
          BY <2>0
        <5> QED
          BY <2>0, <3>1, <5>1, <5>2, AcceptKeepsLatest
      <4>3. CASE j = k /\ ~(Len(Evicted(k)) < MaxRequests)
        BY <2>0, <3>0, <3>1, <4>3
      <4> QED
        BY <4>1, <4>2, <4>3
    <3> QED
      BY <3>0, <3>2, <3>3 DEF LimiterInv
  <2>2. ASSUME NEW k \in Sender, Dispose(k) PROVE LimiterInv'
    <3>1. LimiterTypeOK'
      BY <2>0, <2>2 DEF LimiterTypeOK, Dispose
    <3>2. InOrder(<<>>) /\ LatestOf(<<>>, <<>>, now - WindowMs)
      BY DEF InOrder, LatestOf
    <3>3. \A j \in Sender : \/ accepted'[j] = <<>> /\ buckets'[j] = <<>>
                            \/ accepted'[j] = accepted[j] /\ buckets'[j] = buckets[j]
      BY <2>0, <2>2 DEF Dispose
    <3>4. now' = now
      BY <2>2 DEF Dispose
    <3>5. ASSUME NEW j \in Sender
          PROVE  /\ InOrder(accepted'[j])
                 /\ \A i \in DOMAIN accepted'[j] : accepted'[j][i] <= now
                 /\ LatestOf(buckets'[j], accepted'[j], now - WindowMs)
      <4>1. CASE accepted'[j] = <<>> /\ buckets'[j] = <<>>
        BY <3>2, <4>1
      <4>2. CASE accepted'[j] = accepted[j] /\ buckets'[j] = buckets[j]
        BY <2>0, <4>2
      <4> QED
        BY <3>3, <4>1, <4>2
    <3> QED
      BY <3>1, <3>4, <3>5 DEF LimiterInv
  <2>3. CASE Pass
    <3>1. LimiterTypeOK' /\ now' = now + 1 /\ accepted' = accepted /\ buckets' = buckets
      BY <2>0, <2>3 DEF LimiterTypeOK, Pass
    <3>2. ASSUME NEW k \in Sender PROVE LatestOf(buckets[k], accepted[k], now + 1 - WindowMs)
      <4>1. /\ accepted[k] \in Seq(Nat)
            /\ LatestOf(buckets[k], accepted[k], now - WindowMs)
            /\ Len(accepted[k]) \in Nat /\ Len(buckets[k]) \in Nat
        BY <2>0
      <4>2. ASSUME NEW i \in 1 .. Len(accepted[k]) - Len(buckets[k])
            PROVE  accepted[k][i] <= now + 1 - WindowMs
        <5>1. accepted[k][i] <= now - WindowMs
          BY <4>1, <4>2 DEF LatestOf
        <5>2. i \in 1 .. Len(accepted[k])
          BY <4>1, <4>2
        <5>3. accepted[k][i] \in Nat
          BY <4>1, <5>2
        <5> QED
          BY <2>0, <5>1, <5>3
      <4> QED
        BY <4>1, <4>2 DEF LatestOf
    <3>3. ASSUME NEW k \in Sender, NEW i \in DOMAIN accepted[k] PROVE accepted[k][i] <= now + 1
      BY <2>0
    <3> QED
      BY <2>0, <3>1, <3>2, <3>3 DEF LimiterInv
  <2>4. CASE UNCHANGED limiterVars
    BY <2>4 DEF limiterVars, LimiterInv, LimiterTypeOK
  <2> QED
    BY <2>1, <2>2, <2>3, <2>4 DEF LimiterNext
<1> QED
  BY <1>1, <1>2, PTL DEF LimiterSpec

(* A call is let through exactly if fewer than MaxRequests calls of its    *)
(* own key were let through in the window that ends with it.               *)
THEOREM LimiterIsExact == LimiterSpec => RateIsExact
<1> DEFINE Exact ==
       asked' # asked =>
         (verdict'.ok <=> Cardinality({i \in DOMAIN accepted[verdict'.key] :
                             accepted[verdict'.key][i] > now - WindowMs}) < MaxRequests)
<1>1. LimiterInv /\ [LimiterNext]_limiterVars => [Exact]_limiterVars
  <2> SUFFICES ASSUME LimiterInv, LimiterNext, asked' # asked PROVE Exact
    OBVIOUS
  <2>1. PICK k \in Sender : CheckLimit(k)
    BY DEF LimiterNext, Dispose, Pass
  <2>2. verdict' = [key |-> k, ok |-> Len(Evicted(k)) < MaxRequests]
    BY <2>1 DEF CheckLimit
  <2>3. verdict'.key = k /\ (verdict'.ok <=> Len(Evicted(k)) < MaxRequests)
    BY <2>2
  <2>4. Cardinality({i \in DOMAIN accepted[k] : accepted[k][i] > now - WindowMs})
          = Len(Evicted(k))
    BY EvictedFacts
  <2> QED
    BY <2>3, <2>4
<1> QED
  BY <1>1, LimiterInvariance, PTL DEF LimiterSpec, RateIsExact

-------------------------------------------------------------------------------
(* The WebSocket tickets                                                   *)

(* The map holds every ticket that is still good, and no presented one.    *)
THEOREM TicketInvariance == TicketSpec => []TicketInv
<1> USE TicketAssumption
<1>1. TicketInit => TicketInv
  BY DEF TicketInit, TicketInv, TicketTypeOK, Good
<1>2. TicketInv /\ [TicketNext]_ticketVars => TicketInv'
  <2> SUFFICES ASSUME TicketInv, [TicketNext]_ticketVars PROVE TicketInv'
    OBVIOUS
  <2>0. /\ time \in Nat /\ time # 0
        /\ bought \in [Ticket -> Nat] /\ presented \in [Ticket -> Nat]
    BY DEF TicketInv, TicketTypeOK
  <2>1. ASSUME NEW t \in Ticket, IssueTicket(t) PROVE TicketInv'
    <3>1. /\ time' = time /\ presented' = presented /\ presented[t] = 0
          /\ bought[t] = 0 /\ bought' = [bought EXCEPT ![t] = time]
          /\ tickets' = Kept \cup {Entry(t, time + TicketTtl)}
      BY <2>1 DEF IssueTicket, TicketInv
    <3>2. ASSUME NEW u \in Ticket, Good(u)' PROVE Entry(u, bought'[u] + TicketTtl) \in tickets'
      <4>1. CASE u = t
        BY <2>0, <3>1, <4>1
      <4>2. CASE u # t
        <5>1. Good(u) /\ bought'[u] = bought[u]
          BY <2>0, <3>1, <3>2, <4>2 DEF Good
        <5>2. Entry(u, bought[u] + TicketTtl) \in tickets /\ bought[u] + TicketTtl > time
          BY <2>0, <5>1 DEF TicketInv, Good
        <5>3. Entry(u, bought[u] + TicketTtl) \in Kept
          BY <5>2 DEF Kept, Entry
        <5> QED
          BY <3>1, <5>1, <5>3
      <4> QED
        BY <4>1, <4>2
    <3>3. ASSUME NEW e \in tickets'
          PROVE  \E u \in Ticket : /\ e = Entry(u, bought'[u] + TicketTtl)
                                   /\ bought'[u] # 0 /\ presented'[u] = 0
      <4>1. CASE e = Entry(t, time + TicketTtl)
        BY <2>0, <3>1, <4>1
      <4>2. CASE e \in tickets
        <5>1. PICK u \in Ticket : /\ e = Entry(u, bought[u] + TicketTtl)
                                  /\ bought[u] # 0 /\ presented[u] = 0
          BY <4>2 DEF TicketInv
        <5> QED
          BY <2>0, <3>1, <5>1
      <4> QED
        BY <3>1, <3>3, <4>1, <4>2 DEF Kept
    <3>4. TicketTypeOK' /\ \A u \in Ticket : bought'[u] = 0 => presented'[u] = 0
      BY <2>0, <3>1 DEF TicketInv, TicketTypeOK
    <3> QED
      BY <3>2, <3>3, <3>4 DEF TicketInv
  <2>2. ASSUME NEW t \in Ticket, ConsumeTicket(t) PROVE TicketInv'
    <3>1. /\ time' = time /\ bought' = bought /\ bought[t] # 0
          /\ presented' = [presented EXCEPT ![t] = presented[t] + 1]
          /\ tickets' = {e \in tickets : e.ticket # t}
      BY <2>0, <2>2 DEF ConsumeTicket
    <3>2. ASSUME NEW u \in Ticket, Good(u)' PROVE Entry(u, bought'[u] + TicketTtl) \in tickets'
      <4>1. u # t /\ Good(u)
        BY <2>0, <3>1, <3>2 DEF Good
      <4>2. Entry(u, bought[u] + TicketTtl) \in tickets
        BY <4>1 DEF TicketInv
      <4> QED
        BY <3>1, <4>1, <4>2 DEF Entry
    <3>3. ASSUME NEW e \in tickets'
          PROVE  \E u \in Ticket : /\ e = Entry(u, bought'[u] + TicketTtl)
                                   /\ bought'[u] # 0 /\ presented'[u] = 0
      <4>1. PICK u \in Ticket : /\ e = Entry(u, bought[u] + TicketTtl)
                                /\ bought[u] # 0 /\ presented[u] = 0
        BY <3>1, <3>3 DEF TicketInv
      <4>2. u # t
        BY <3>1, <3>3, <4>1 DEF Entry
      <4> QED
        BY <2>0, <3>1, <4>1, <4>2
    <3>4. TicketTypeOK' /\ \A u \in Ticket : bought'[u] = 0 => presented'[u] = 0
      BY <2>0, <3>1 DEF TicketInv, TicketTypeOK
    <3> QED
      BY <3>2, <3>3, <3>4 DEF TicketInv
  <2>3. CASE TimePasses
    <3>1. /\ time' = time + 1
          /\ UNCHANGED <<tickets, bought, presented>>
      BY <2>3 DEF TimePasses
    <3>2. \A t \in Ticket : Good(t)' => Good(t)
      BY <2>0, <3>1 DEF Good
    <3> QED
      BY <2>0, <3>1, <3>2 DEF TicketInv, TicketTypeOK
  <2>4. CASE UNCHANGED ticketVars
    BY <2>4 DEF ticketVars, TicketInv, TicketTypeOK, Good
  <2> QED
    BY <2>1, <2>2, <2>3, <2>4 DEF TicketNext
<1> QED
  BY <1>1, <1>2, PTL DEF TicketSpec

(* A ticket is good exactly the first time it is presented, and only       *)
(* within its time to live, whatever was swept meanwhile.                  *)
THEOREM TicketIsExact == TicketSpec => TicketsAreExact
<1> DEFINE Exact ==
       \A t \in Ticket : presented'[t] # presented[t] =>
          (t \in redeemed' <=> presented[t] = 0 /\ time < bought[t] + TicketTtl)
<1>1. TicketInv /\ [TicketNext]_ticketVars => [Exact]_ticketVars
  <2> SUFFICES ASSUME TicketInv, TicketNext, NEW t \in Ticket, presented'[t] # presented[t]
               PROVE  t \in redeemed' <=> presented[t] = 0 /\ time < bought[t] + TicketTtl
    OBVIOUS
  <2>0. /\ time \in Nat /\ TicketTtl \in Nat
        /\ bought \in [Ticket -> Nat] /\ presented \in [Ticket -> Nat]
    BY TicketAssumption DEF TicketInv, TicketTypeOK
  <2>1. ConsumeTicket(t)
    BY <2>0 DEF TicketNext, IssueTicket, TimePasses, ConsumeTicket
  <2>2. t \in redeemed' <=> \E e \in tickets : e.ticket = t /\ e.expiresAt > time
    BY <2>1 DEF ConsumeTicket
  <2>3. ASSUME NEW e \in tickets, e.ticket = t, e.expiresAt > time
        PROVE  presented[t] = 0 /\ time < bought[t] + TicketTtl
    <3>1. PICK u \in Ticket : e = Entry(u, bought[u] + TicketTtl) /\ presented[u] = 0
      BY DEF TicketInv
    <3>2. u = t /\ e.expiresAt = bought[t] + TicketTtl
      BY <2>3, <3>1 DEF Entry
    <3> QED
      BY <2>0, <2>3, <3>1, <3>2
  <2>4. ASSUME presented[t] = 0, time < bought[t] + TicketTtl
        PROVE  \E e \in tickets : e.ticket = t /\ e.expiresAt > time
    <3>1. Entry(t, bought[t] + TicketTtl) \in tickets
      BY <2>1, <2>4 DEF TicketInv, Good, ConsumeTicket
    <3>2. /\ Entry(t, bought[t] + TicketTtl).ticket = t
          /\ Entry(t, bought[t] + TicketTtl).expiresAt > time
      BY <2>0, <2>4 DEF Entry
    <3> QED
      BY <3>1, <3>2
  <2> QED
    BY <2>2, <2>3, <2>4
<1> QED
  BY <1>1, TicketInvariance, PTL DEF TicketSpec, TicketsAreExact

-------------------------------------------------------------------------------
(* The merge in a git workspace                                            *)

Plan == ResolvingPlans \cup OtherPlans \cup PlanEnds

(* What each command of a plan is followed by.                             *)
Follows(s) ==
  /\ Len(s) \in Nat /\ Len(s) >= 1
  /\ Len(s) > 1 => Tail(s) \in Plan /\ Tail(s) # <<>>
  /\ Head(s) = "read conflict" => Len(s) > 1 /\ Head(Tail(s)) \in {"write", "rm"}
  /\ Head(s) = "rm" /\ Len(s) > 1 => Head(Tail(s)) \in {"write", "update-index"}
  /\ Head(s) = "write" => Len(s) > 1 /\ Head(Tail(s)) = "add"
  /\ Head(s) = "add" => Len(s) = 1
  /\ Head(s) = "update-index" => Len(s) > 1 /\ Head(Tail(s)) = "checkout-index"
  /\ Head(s) = "checkout-index" => Len(s) = 1
  /\ Head(s) \notin Resolves /\ Len(s) > 1 => Head(Tail(s)) \notin Resolves

(* Whatever is left of a plan of at least two commands is a plan.          *)
LEMMA PlanFacts ==
  ASSUME NEW s \in Plan, s # <<>>
  PROVE  Follows(s)
<1>0. {<<"add">>, <<"rm">>, <<"checkout-index">>, <<"merge">>, <<"abort">>, <<"commit">>,
          <<"write", "add">>, <<"update-index", "checkout-index">>, <<"rev-parse", "merge">>,
          <<"load", "commit">>, <<"rm", "write", "add">>,
          <<"rm", "update-index", "checkout-index">>} \subseteq Plan
  BY DEF Plan, ResolvingPlans, OtherPlans, PlanEnds
<1>1. Follows(<<"read conflict", "write", "add">>)
  BY <1>0 DEF Follows, Resolves
<1>2. Follows(<<"read conflict", "rm", "write", "add">>)
  BY <1>0 DEF Follows, Resolves
<1>3. Follows(<<"read conflict", "rm">>)
  BY <1>0 DEF Follows, Resolves
<1>4. Follows(<<"read conflict", "rm", "update-index", "checkout-index">>)
  BY <1>0 DEF Follows, Resolves
<1>5. Follows(<<"read idle", "rev-parse", "merge">>)
  BY <1>0 DEF Follows, Resolves
<1>6. Follows(<<"read merge", "abort">>)
  BY <1>0 DEF Follows, Resolves
<1>7. Follows(<<"read ready", "load", "commit">>)
  BY <1>0 DEF Follows, Resolves
<1>8. Follows(<<"status">>)
  BY <1>0 DEF Follows, Resolves
<1>9. Follows(<<"write", "add">>)
  BY <1>0 DEF Follows, Resolves
<1>10. Follows(<<"add">>)
  BY <1>0 DEF Follows, Resolves
<1>11. Follows(<<"rm", "write", "add">>)
  BY <1>0 DEF Follows, Resolves
<1>12. Follows(<<"rm">>)
  BY <1>0 DEF Follows, Resolves
<1>13. Follows(<<"rm", "update-index", "checkout-index">>)
  BY <1>0 DEF Follows, Resolves
<1>14. Follows(<<"update-index", "checkout-index">>)
  BY <1>0 DEF Follows, Resolves
<1>15. Follows(<<"checkout-index">>)
  BY <1>0 DEF Follows, Resolves
<1>16. Follows(<<"rev-parse", "merge">>)
  BY <1>0 DEF Follows, Resolves
<1>17. Follows(<<"merge">>)
  BY <1>0 DEF Follows, Resolves
<1>18. Follows(<<"abort">>)
  BY <1>0 DEF Follows, Resolves
<1>19. Follows(<<"load", "commit">>)
  BY <1>0 DEF Follows, Resolves
<1>20. Follows(<<"commit">>)
  BY <1>0 DEF Follows, Resolves
<1> QED
  BY <1>1, <1>2, <1>3, <1>4, <1>5, <1>6, <1>7, <1>8, <1>9, <1>10, <1>11, <1>12,
     <1>13, <1>14, <1>15, <1>16, <1>17, <1>18, <1>19, <1>20
  DEF Plan, ResolvingPlans, OtherPlans, PlanEnds

(* Operations run one at a time, in the order in which they were queued:   *)
(* at its turn, all before an operation have ended.                        *)
LEMMA OneTurn ==
  ASSUME GitTypeOK, LockSound, NEW o \in Op, Turn(o)
  PROVE  /\ \A q \in Op : q < o => q \in settled
         /\ \A q \in Op : Turn(q) => q = o
<1> USE GitAssumption DEF Op
<1>1. ASSUME NEW r \in Op, Turn(r), NEW q \in Op, q < r PROVE q \in settled
  <2> SUFFICES ASSUME plan[q] # <<>> PROVE FALSE
    BY <1>1 DEF LockSound, Turn
  <2>1. behind[r] \in q .. r - 1
    BY <1>1 DEF LockSound, Turn
  <2>2. behind[r] \in settled
    BY <1>1, <2>1 DEF Turn
  <2> QED
    BY <1>1, <2>1, <2>2 DEF LockSound, GitTypeOK
<1>2. ASSUME NEW q \in Op, Turn(q), q # o PROVE FALSE
  <2>1. q < o \/ o < q
    BY <1>2
  <2>2. plan[o] # <<>> /\ plan[q] # <<>>
    BY <1>2 DEF Turn
  <2> QED
    BY <1>1, <1>2, <2>1, <2>2 DEF LockSound
<1> QED
  BY <1>1, <1>2

(* The operations that are queued or have ended are the first ones, and    *)
(* the lock stays in order however an operation ends.                      *)
LEMMA SettleKeepsLock ==
  ASSUME GitTypeOK, LockSound, NEW o \in Op, Turn(o), Settle(o)
  PROVE  LockSound'
<1>1. /\ plan' = [plan EXCEPT ![o] = <<>>] /\ settled' = settled \cup {o}
      /\ dirLock' = (IF dirLock = o THEN Nobody ELSE dirLock) /\ behind' = behind
  BY DEF Settle, Unlock
<1>2. \A q \in Op : q < o => q \in settled /\ plan[q] = <<>>
  BY OneTurn DEF LockSound
<1>3. \A q \in Op : plan'[q] = IF q = o THEN <<>> ELSE plan[q]
  BY <1>1 DEF GitTypeOK
<1>4. dirLock' # Nobody => plan'[dirLock'] # <<>>
  BY <1>1, <1>3 DEF LockSound, GitTypeOK
<1> SUFFICES ASSUME NEW q \in Op
             PROVE  /\ q \in settled' => plan'[q] = <<>> /\ \A r \in Op : r < q => r \in settled'
                    /\ plan'[q] # <<>> \/ q \in settled'
                          => \A r \in Op : r < q => plan'[r] # <<>> \/ r \in settled'
                    /\ plan'[q] # <<>> => dirLock' # Nobody /\ q <= dirLock'
                    /\ \A r \in Op : plan'[q] # <<>> /\ plan'[r] # <<>> /\ r < q
                          => behind'[q] \in r .. q - 1
  BY <1>4 DEF LockSound
<1>5. q \in settled' => plan'[q] = <<>> /\ \A r \in Op : r < q => r \in settled'
  BY <1>1, <1>2, <1>3 DEF LockSound
<1>6. plan'[q] # <<>> \/ q \in settled' => \A r \in Op : r < q => plan'[r] # <<>> \/ r \in settled'
  BY <1>1, <1>2, <1>3 DEF LockSound, Turn
<1>7. plan'[q] # <<>> => dirLock' # Nobody /\ q <= dirLock'
  <2> SUFFICES ASSUME q # o, plan[q] # <<>> PROVE dirLock' # Nobody /\ q <= dirLock'
    BY <1>3
  <2>1. dirLock # Nobody /\ q <= dirLock
    BY DEF LockSound
  <2>2. dirLock # o
    BY <1>2, <2>1, GitAssumption DEF Op
  <2> QED
    BY <1>1, <2>1, <2>2
<1>8. \A r \in Op : plan'[q] # <<>> /\ plan'[r] # <<>> /\ r < q => behind'[q] \in r .. q - 1
  BY <1>1, <1>3 DEF LockSound
<1> QED
  BY <1>5, <1>6, <1>7, <1>8

(* A new operation queues behind the latest one that still runs.           *)
LEMMA QueueKeepsLock ==
  ASSUME GitTypeOK, LockSound, NEW o \in Op, NEW what, NEW commands, commands # <<>>,
         Queue(o, what, commands)
  PROVE  LockSound'
<1> USE GitAssumption DEF Op
<1>1. /\ plan' = [plan EXCEPT ![o] = commands] /\ settled' = settled /\ dirLock' = o
      /\ behind' = [behind EXCEPT ![o] = dirLock]
      /\ o \notin settled /\ plan[o] = <<>>
      /\ \A q \in Op : q < o => q \in settled \/ plan[q] # <<>>
  BY DEF Queue
<1>2. \A q \in Op : /\ plan'[q] = IF q = o THEN commands ELSE plan[q]
                    /\ behind'[q] = IF q = o THEN dirLock ELSE behind[q]
  BY <1>1 DEF GitTypeOK
<1>3. \A q \in Op : plan[q] # <<>> \/ q \in settled => q < o
  <2> SUFFICES ASSUME NEW q \in Op, plan[q] # <<>> \/ q \in settled, o < q PROVE FALSE
    BY <1>1
  <2> QED
    BY <1>1 DEF LockSound
<1> SUFFICES ASSUME NEW q \in Op
             PROVE  /\ q \in settled => plan'[q] = <<>> /\ \A r \in Op : r < q => r \in settled
                    /\ plan'[q] # <<>> \/ q \in settled
                          => \A r \in Op : r < q => plan'[r] # <<>> \/ r \in settled
                    /\ plan'[q] # <<>> => q <= o
                    /\ \A r \in Op : plan'[q] # <<>> /\ plan'[r] # <<>> /\ r < q
                          => behind'[q] \in r .. q - 1
  BY <1>1, <1>2 DEF LockSound
<1>4. q \in settled => plan'[q] = <<>> /\ \A r \in Op : r < q => r \in settled
  BY <1>1, <1>2 DEF LockSound
<1>5. plan'[q] # <<>> \/ q \in settled => \A r \in Op : r < q => plan'[r] # <<>> \/ r \in settled
  BY <1>1, <1>2 DEF LockSound
<1>6. plan'[q] # <<>> => q <= o
  BY <1>2, <1>3
<1>7. ASSUME NEW r \in Op, plan'[q] # <<>>, plan'[r] # <<>>, r < q
      PROVE  behind'[q] \in r .. q - 1
  <2>1. r # o
    BY <1>6, <1>7
  <2>2. CASE q = o
    <3>1. dirLock \in Op /\ r <= dirLock
      BY <1>2, <1>7, <2>1 DEF LockSound, GitTypeOK
    <3>2. dirLock < o
      BY <1>3, <3>1 DEF LockSound
    <3> QED
      BY <1>2, <2>2, <3>1, <3>2
  <2>3. CASE q # o
    BY <1>2, <1>7, <2>1, <2>3 DEF LockSound
  <2> QED
    BY <2>2, <2>3
<1> QED
  BY <1>4, <1>5, <1>6, <1>7

(* An operation at its turn goes on with its plan, or ends.                *)
Advances(o) ==
  /\ Turn(o)
  /\ target' = target /\ behind' = behind /\ terminal' = terminal
  /\ settled \subseteq settled' /\ settled' \subseteq settled \cup {o}
  /\ \A q \in Op \ {o} : plan'[q] = plan[q]
  /\ plan'[o] = <<>> \/ (Len(plan[o]) > 1 /\ plan'[o] = Tail(plan[o]))
  /\ dirLock' \in Op \cup {Nobody} /\ plan' \in [Op -> Plan] /\ settled' \subseteq Op
  /\ LockSound'

LEMMA SettleAdvances ==
  ASSUME GitInv, NEW o \in Op, Turn(o), Settle(o)
  PROVE  Advances(o)
<1>1. LockSound'
  BY SettleKeepsLock DEF GitInv
<1>2. <<>> \in Plan
  BY DEF Plan, PlanEnds
<1> QED
  BY <1>1, <1>2 DEF GitInv, GitTypeOK, Plan, Settle, Unlock, Advances

LEMMA RunsAdvances ==
  ASSUME GitInv, NEW o \in Op, NEW c, Runs(o, c)
  PROVE  Advances(o) /\ Follows(plan[o]) /\ Head(plan[o]) = c /\ plan[o] # <<>>
         /\ (Len(plan[o]) > 1 => plan'[o] = Tail(plan[o]))
         /\ (Len(plan[o]) = 1 => plan'[o] = <<>>)
<1>1. /\ Turn(o) /\ plan[o] # <<>> /\ Head(plan[o]) = c
      /\ plan \in [Op -> Plan]
  BY DEF Runs, Turn, GitInv, GitTypeOK, Plan
<1>2. Follows(plan[o])
  BY <1>1, PlanFacts
<1>3. CASE Len(plan[o]) > 1
  <2>1. /\ plan' = [plan EXCEPT ![o] = Tail(plan[o])]
        /\ UNCHANGED <<dirLock, behind, target, settled, terminal>>
    BY <1>1, <1>3 DEF Runs
  <2>2. Tail(plan[o]) \in Plan /\ Tail(plan[o]) # <<>>
    BY <1>2, <1>3 DEF Follows
  <2>3. \A q \in Op : /\ plan'[q] # <<>> <=> plan[q] # <<>>
                      /\ plan'[q] = <<>> <=> plan[q] = <<>>
    BY <1>1, <2>1, <2>2
  <2>4. LockSound
    BY DEF GitInv
  <2>5. LockSound'
    BY <2>1, <2>3, <2>4 DEF LockSound, GitInv, GitTypeOK
  <2>6. plan'[o] = Tail(plan[o]) /\ plan' \in [Op -> Plan] /\ \A q \in Op \ {o} : plan'[q] = plan[q]
    BY <1>1, <2>1, <2>2
  <2> QED
    BY <1>1, <1>2, <1>3, <2>1, <2>5, <2>6 DEF Advances, GitInv, GitTypeOK
<1>4. CASE ~(Len(plan[o]) > 1)
  <2>1. Settle(o)
    BY <1>4 DEF Runs
  <2>2. Advances(o)
    BY <1>1, <2>1, SettleAdvances
  <2>3. plan'[o] = <<>>
    BY <1>1, <2>1 DEF Settle
  <2> QED
    BY <1>1, <1>2, <1>4, <2>2, <2>3
<1> QED
  BY <1>3, <1>4

(* While one resolution is at work, it is the only one.                    *)
LEMMA OneAtWork ==
  ASSUME GitInv, NEW o \in Op, Turn(o), NEW q \in Op, q # o
  PROVE  ~At(q, Changes) /\ ~At(q, Completes)
BY OneTurn DEF GitInv, ResolutionsSound, At, Changes, Completes

(* The resolutions stay sound if the one at work has not resolved its path *)
(* as long as it still has to.                                             *)
LEMMA AdvanceKeepsResolutions ==
  ASSUME GitInv, NEW o \in Op, Advances(o),
         At(o, Changes)' => content'[target[o][1]] \notin Op
  PROVE  ResolutionsSound'
<1> SUFFICES ASSUME NEW q \in Op
             PROVE  /\ At(q, Resolves)' => target[q] \in Path \X Nat
                    /\ At(q, Changes)' => Turn(q)' /\ content'[target[q][1]] \notin Op
  BY DEF ResolutionsSound, Advances
<1>1. CASE q # o
  BY <1>1, OneAtWork DEF Advances, GitInv, ResolutionsSound, At
<1>2. CASE q = o
  <2>1. plan[o] # <<>> /\ plan[o] \in Plan
    BY DEF Advances, Turn, GitInv, GitTypeOK, Plan
  <2>2. At(o, Resolves)' => At(o, Resolves)
    BY <2>1, PlanFacts DEF Advances, At, Follows
  <2>3. At(o, Changes)' => Turn(o)'
    BY DEF Advances, Turn, At
  <2> QED
    BY <1>2, <2>2, <2>3 DEF GitInv, ResolutionsSound
<1> QED
  BY <1>1, <1>2

(* No path of a merge gets lost: what a resolution takes out of the        *)
(* conflicts it puts there, completes, or leaves torn.                     *)
LEMMA AdvanceKeepsPaths ==
  ASSUME GitInv, NEW o \in Op, Advances(o),
         merging' => merging /\ conflicts' = conflicts,
         \A p \in unmerged' : p \in unmerged /\ content'[p] = content[p],
         torn \subseteq torn',
         \A p \in conflicts : (p \in unmerged /\ p \notin unmerged') \/ content'[p] # content[p]
            => content'[p] # Nobody \/ (At(o, Completes)' /\ target[o][1] = p),
         At(o, Completes) /\ ~At(o, Completes)' /\ merging' =>
            \/ target[o][1] \in unmerged' \/ content'[target[o][1]] # Nobody
            \/ target[o][1] \in torn'
  PROVE  PathsSound'
<1>1. \A p \in unmerged' : content'[p] = Nobody
  BY DEF GitInv, PathsSound
<1>2. ASSUME merging', NEW p \in conflicts'
      PROVE  \/ p \in unmerged' \/ content'[p] # Nobody \/ p \in torn'
             \/ \E q \in Op : At(q, Completes)' /\ target'[q][1] = p
  <2>1. merging /\ p \in conflicts /\ target' = target
    BY <1>2 DEF Advances
  <2>2. CASE \E q \in Op : At(q, Completes) /\ target[q][1] = p
    <3>1. At(o, Completes) /\ target[o][1] = p
      BY <2>2, OneAtWork DEF Advances
    <3> QED
      BY <1>2, <2>1, <3>1
  <2>3. CASE p \in unmerged \/ content[p] # Nobody \/ p \in torn
    BY <2>1, <2>3
  <2> QED
    BY <2>1, <2>2, <2>3 DEF GitInv, PathsSound
<1> QED
  BY <1>1, <1>2 DEF PathsSound

(* What a merge shows is a set of paths with the edition of its stages.    *)
LEMMA ShowTypes ==
  ASSUME GitTypeOK, NEW o, Show(o), edition' \in Nat, unmerged' \subseteq Path
  PROVE  shown' \subseteq Path \X Nat
BY DEF Show, GitTypeOK

LEMMA OneOrMore == ASSUME NEW s, Follows(s) PROVE Len(s) > 1 <=> Len(s) # 1
<1>1. Len(s) \in Nat /\ Len(s) >= 1
  BY Zenon DEF Follows
<1>2. \A n \in Nat : n >= 1 => (n > 1 <=> n # 1)
  OBVIOUS
<1> QED
  BY <1>1, <1>2, Zenon

(* The first command of what is requested.                                 *)
LEMMA Requested ==
  /\ \A s \in ResolvingPlans : s # <<>> /\ Head(s) = "read conflict"
  /\ \A s \in OtherPlans :
        s # <<>> /\ Head(s) \in {"read idle", "read merge", "read ready", "status"}
<1> DEFINE First(s, c) == s # <<>> /\ Head(s) = c
<1>1. First(<<"read conflict", "write", "add">>, "read conflict")
  OBVIOUS
<1>2. First(<<"read conflict", "rm", "write", "add">>, "read conflict")
  OBVIOUS
<1>3. First(<<"read conflict", "rm">>, "read conflict")
  OBVIOUS
<1>4. First(<<"read conflict", "rm", "update-index", "checkout-index">>, "read conflict")
  OBVIOUS
<1>5. First(<<"read idle", "rev-parse", "merge">>, "read idle")
  OBVIOUS
<1>6. First(<<"read merge", "abort">>, "read merge")
  OBVIOUS
<1>7. First(<<"read ready", "load", "commit">>, "read ready")
  OBVIOUS
<1>8. First(<<"status">>, "status")
  OBVIOUS
<1>9. \A s \in ResolvingPlans : First(s, "read conflict")
  <2> HIDE DEF First
  <2> QED
    BY <1>1, <1>2, <1>3, <1>4 DEF ResolvingPlans
<1>10. \A s \in OtherPlans : \E c \in {"read idle", "read merge", "read ready", "status"} : First(s, c)
  <2> HIDE DEF First
  <2> QED
    BY <1>5, <1>6, <1>7, <1>8 DEF OtherPlans
<1> QED
  BY <1>9, <1>10

(* The command that an operation runs next, if there is one.               *)
LEMMA NextCommand ==
  ASSUME GitInv, NEW o \in Op, NEW c, Runs(o, c), NEW commands
  PROVE  At(o, commands)' <=> Len(plan[o]) > 1 /\ Head(Tail(plan[o])) \in commands
<1>1. /\ (Len(plan[o]) > 1 => plan'[o] = Tail(plan[o]))
      /\ (Len(plan[o]) = 1 => plan'[o] = <<>>)
      /\ Follows(plan[o])
  BY RunsAdvances
<1>2. Len(plan[o]) > 1 \/ Len(plan[o]) = 1
  BY <1>1, OneOrMore
<1>3. Len(plan[o]) > 1 => Tail(plan[o]) # <<>>
  BY <1>1 DEF Follows
<1>4. CASE Len(plan[o]) > 1
  <2>1. At(o, commands)' <=> plan'[o] # <<>> /\ Head(plan'[o]) \in commands
    BY DEF At
  <2> QED
    BY <1>1, <1>3, <1>4, <2>1
<1>5. CASE Len(plan[o]) = 1
  <2>1. ~(Len(plan[o]) > 1) /\ plan'[o] = <<>>
    BY <1>1, <1>5
  <2> QED
    BY <2>1 DEF At
<1> QED
  BY <1>2, <1>4, <1>5

LEMMA ReadsKeeps == ASSUME GitInv, NEW o \in Op, Reads(o) PROVE GitInv'
<1>1. PICK c \in {"read idle", "read merge", "read ready", "rev-parse", "load", "write",
                  "checkout-index", "status"} : Runs(o, c)
  BY DEF Reads
<1>2. Advances(o) /\ Follows(plan[o]) /\ Head(plan[o]) = c
  BY <1>1, RunsAdvances
<1>3. /\ plan[o] # <<>>
      /\ At(o, Changes)' <=> Len(plan[o]) > 1 /\ Head(Tail(plan[o])) \in Changes
      /\ At(o, Completes)' <=> Len(plan[o]) > 1 /\ Head(Tail(plan[o])) \in Completes
  BY <1>1, RunsAdvances, NextCommand
<1>4. UNCHANGED <<edition, merging, conflicts, unmerged, content, torn>> /\ Show(o)
  BY DEF Reads, repoVars
<1>5. At(o, Changes)' => c = "write"
  <2>1. c # "write" => c = "checkout-index" \/ c \notin Resolves
    BY <1>1 DEF Resolves
  <2>2. Changes \subseteq Resolves
    BY DEF Changes, Resolves
  <2> QED
    <3>1. CASE c = "checkout-index"
      <4>1. Len(plan[o]) = 1
        BY <1>2, <3>1 DEF Follows
      <4>2. ~(Len(plan[o]) > 1)
        BY <1>2, <4>1, OneOrMore
      <4> QED
        BY <1>3, <4>2
    <3>2. CASE c \notin Resolves
      <4>1. Len(plan[o]) > 1 => Head(Tail(plan[o])) \notin Resolves
        BY <1>2, <3>2 DEF Follows
      <4> QED
        BY <1>3, <2>2, <4>1
    <3> QED
      BY <2>1, <3>1, <3>2
<1>6. At(o, Completes) => c = "write" /\ At(o, Completes)'
  <2>1. At(o, Completes) => c = "write"
    BY <1>1, <1>2 DEF At, Completes
  <2>2. "add" \in Completes
    BY DEF Completes
  <2> QED
    BY <1>2, <1>3, <2>1, <2>2 DEF Follows
<1>7. ResolutionsSound'
  <2>1. At(o, Changes)' => At(o, Changes)
    BY <1>2, <1>3, <1>5 DEF At, Changes
  <2>2. content' = content /\ (At(o, Changes) => content[target[o][1]] \notin Op)
    BY <1>4 DEF GitInv, ResolutionsSound
  <2> QED
    BY <1>2, <2>1, <2>2, AdvanceKeepsResolutions
<1>8. PathsSound'
  BY <1>2, <1>4, <1>6, AdvanceKeepsPaths
<1>9. GitTypeOK'
  BY <1>2, <1>4, ShowTypes DEF Advances, Plan, GitInv, GitTypeOK
<1> QED
  BY <1>2, <1>7, <1>8, <1>9 DEF Advances, GitInv

LEMMA ReadConflictKeeps == ASSUME GitInv, NEW o \in Op, ReadConflict(o) PROVE GitInv'
<1>1. /\ Advances(o) /\ Head(plan[o]) = "read conflict" /\ plan[o] # <<>>
      /\ target[o][1] \in unmerged
      /\ UNCHANGED <<edition, merging, conflicts, unmerged, content, torn, shown>>
  BY RunsAdvances DEF ReadConflict, IsCurrent, repoVars
<1>2. ResolutionsSound'
  BY <1>1, AdvanceKeepsResolutions, GitAssumption DEF GitInv, PathsSound
<1>3. ~At(o, Completes)
  BY <1>1 DEF At, Completes
<1>4. PathsSound'
  BY <1>1, <1>3, AdvanceKeepsPaths
<1>5. GitTypeOK'
  BY <1>1 DEF Advances, Plan, GitInv, GitTypeOK
<1> QED
  BY <1>1, <1>2, <1>4, <1>5 DEF Advances, GitInv

(* A command that resolves a path or removes it; the removal of a          *)
(* resolution that goes on is completed by it.                             *)
LEMMA StagesKeeps ==
  ASSUME GitInv, NEW o \in Op, NEW c, NEW by, Stages(o, c, by),
         \/ c \in {"add", "update-index"} /\ by = o
         \/ c = "rm" /\ by = IF Len(plan[o]) = 1 THEN o ELSE Nobody
  PROVE  GitInv'
<1>1. Advances(o) /\ Follows(plan[o]) /\ Head(plan[o]) = c /\ plan[o] # <<>>
  BY RunsAdvances DEF Stages
<1>2. /\ At(o, Changes)' <=> Len(plan[o]) > 1 /\ Head(Tail(plan[o])) \in Changes
      /\ At(o, Completes)' <=> Len(plan[o]) > 1 /\ Head(Tail(plan[o])) \in Completes
      /\ (Len(plan[o]) > 1 \/ Len(plan[o]) = 1)
  BY <1>1, NextCommand, OneOrMore DEF Stages
<1>3. /\ unmerged' = unmerged \ {target[o][1]}
      /\ content' = [content EXCEPT ![target[o][1]] = by]
      /\ UNCHANGED <<edition, merging, conflicts, torn>> /\ Show(o)
  BY DEF Stages
<1>4. target[o][1] \in Path /\ content \in [Path -> Op \cup {Nobody, 0}]
  BY <1>1 DEF At, Resolves, GitInv, GitTypeOK, ResolutionsSound
<1>5. \A p \in Path : content'[p] = IF p = target[o][1] THEN by ELSE content[p]
  BY <1>3, <1>4
<1>6. by = o \/ (by = Nobody /\ At(o, Completes)')
  BY <1>1, <1>2 DEF Follows, Completes
<1>7. At(o, Changes)' => by = Nobody
  <2>1. CASE Len(plan[o]) = 1
    BY <1>1, <1>2, <2>1, OneOrMore
  <2>2. CASE Len(plan[o]) > 1
    <3>1. ~(Len(plan[o]) = 1)
      BY <1>1, <2>2, OneOrMore
    <3>2. CASE c = "rm"
      BY <3>1, <3>2
    <3>3. CASE c = "add"
      BY <1>1, <3>1, <3>3 DEF Follows
    <3>4. CASE c = "update-index"
      <4>1. Head(Tail(plan[o])) = "checkout-index"
        BY <1>1, <3>4 DEF Follows
      <4> QED
        BY <1>2, <4>1 DEF Changes
    <3> QED
      BY <3>2, <3>3, <3>4
  <2> QED
    BY <1>2, <2>1, <2>2
<1>8. ResolutionsSound'
  BY <1>1, <1>4, <1>5, <1>7, AdvanceKeepsResolutions, GitAssumption
<1>9. PathsSound'
  <2>1. conflicts \subseteq Path /\ unmerged \subseteq Path
    BY DEF GitInv, GitTypeOK
  <2>2. \A p \in unmerged' : p \in unmerged /\ content'[p] = content[p]
    BY <1>3, <1>5, <2>1
  <2>3. \A p \in conflicts :
           (p \in unmerged /\ p \notin unmerged') \/ content'[p] # content[p]
              => content'[p] # Nobody \/ (At(o, Completes)' /\ target[o][1] = p)
    BY <1>3, <1>4, <1>5, <1>6, <2>1, GitAssumption
  <2>4. ~At(o, Completes)' => content'[target[o][1]] # Nobody
    BY <1>4, <1>5, <1>6, GitAssumption
  <2> QED
    BY <1>1, <1>3, <2>2, <2>3, <2>4, AdvanceKeepsPaths
<1>10. GitTypeOK'
  <2>1. content' \in [Path -> Op \cup {Nobody, 0}]
    BY <1>3, <1>4, <1>6
  <2>2. unmerged' \subseteq Path /\ edition' \in Nat
    BY <1>3 DEF GitInv, GitTypeOK
  <2>3. shown' \subseteq Path \X Nat
    BY <1>3, <2>2, ShowTypes DEF GitInv
  <2> QED
    BY <1>1, <1>3, <2>1, <2>2, <2>3 DEF Advances, Plan, GitInv, GitTypeOK
<1> QED
  BY <1>1, <1>8, <1>9, <1>10 DEF Advances, GitInv

(* An operation that fails leaves the path it had removed torn.            *)
LEMMA GitFailsKeeps == ASSUME GitInv, NEW o \in Op, GitFails(o) PROVE GitInv'
<1>1. /\ Advances(o) /\ plan'[o] = <<>> /\ plan[o] # <<>>
      /\ UNCHANGED <<edition, merging, conflicts, unmerged, content, shown>>
  BY SettleAdvances DEF GitFails, Turn, Settle, GitInv, GitTypeOK
<1>2. /\ torn \subseteq torn'
      /\ At(o, Completes) => target[o][1] \in unmerged \/ target[o][1] \in torn'
      /\ torn' \subseteq Path
  <2>1. torn' = IF Head(plan[o]) \in Completes /\ target[o][1] \notin unmerged
                THEN torn \cup {target[o][1]} ELSE torn
    BY DEF GitFails, Completes
  <2>2. At(o, Completes) <=> Head(plan[o]) \in Completes
    BY <1>1 DEF At
  <2>3. At(o, Completes) => target[o][1] \in Path
    BY <2>2 DEF At, Completes, Resolves, GitInv, ResolutionsSound
  <2>4. torn \subseteq Path
    BY DEF GitInv, GitTypeOK
  <2> QED
    BY <2>1, <2>2, <2>3, <2>4
<1>3. ~At(o, Changes)' /\ ~At(o, Completes)'
  BY <1>1 DEF At
<1>4. ResolutionsSound'
  BY <1>1, <1>3, AdvanceKeepsResolutions
<1>5. PathsSound'
  BY <1>1, <1>2, AdvanceKeepsPaths
<1>6. GitTypeOK'
  BY <1>1, <1>2 DEF Advances, Plan, GitInv, GitTypeOK
<1> QED
  BY <1>1, <1>4, <1>5, <1>6 DEF Advances, GitInv

(* Merge, abort and commit are no part of a resolution.                    *)
LEMMA MergesKeep ==
  ASSUME GitInv, NEW o \in Op, Merge(o) \/ Abort(o) \/ Commit(o)
  PROVE  GitInv'
<1>1. PICK c \in {"merge", "abort", "commit"} : Runs(o, c)
  BY DEF Merge, Abort, Commit
<1>2. Advances(o) /\ Follows(plan[o]) /\ Head(plan[o]) = c /\ plan[o] # <<>>
  BY <1>1, RunsAdvances
<1>3. ~At(o, Changes)' /\ ~At(o, Completes)
  BY <1>1, <1>2 DEF Advances, Follows, At, Changes, Completes, Resolves
<1>4. ResolutionsSound'
  BY <1>2, <1>3, AdvanceKeepsResolutions
<1>5. /\ \/ merging' = FALSE /\ unmerged' = {}
         \/ unmerged' = conflicts' /\ content' = [p \in Path |-> Nobody]
      /\ merging' \in BOOLEAN /\ edition' \in Nat
      /\ conflicts' \subseteq Path /\ unmerged' \subseteq Path
      /\ torn' \subseteq Path /\ content' \in [Path -> Op \cup {Nobody, 0}]
  <2>0. /\ edition \in Nat /\ edition + 1 \in Nat /\ torn \subseteq Path
        /\ content \in [Path -> Op \cup {Nobody, 0}]
    BY DEF GitInv, GitTypeOK
  <2>1. CASE Merge(o)
    <3>1. content' = [p \in Path |-> Nobody] /\ torn' = {}
      BY <2>1 DEF Merge
    <3>2. CASE NoMerge
      BY <2>0, <3>1, <3>2 DEF NoMerge
    <3>3. CASE /\ merging' = TRUE
               /\ edition' \in {edition, edition + 1}
               /\ conflicts' \in SUBSET Path /\ unmerged' = conflicts'
      BY <2>0, <3>1, <3>3
    <3> QED
      BY <2>1, <3>2, <3>3 DEF Merge
  <2>2. CASE Abort(o) \/ Commit(o)
    <3>1. NoMerge /\ UNCHANGED <<content, torn>>
      BY <2>2 DEF Abort, Commit
    <3> QED
      BY <2>0, <3>1 DEF NoMerge
  <2> QED
    BY <2>1, <2>2
<1>6. shown' \subseteq Path \X Nat
  BY <1>5, ShowTypes DEF Merge, Abort, Commit, GitInv, GitTypeOK
<1>7. PathsSound'
  BY <1>5 DEF PathsSound
<1>8. GitTypeOK'
  BY <1>2, <1>5, <1>6 DEF Advances, Plan, GitInv, GitTypeOK
<1> QED
  BY <1>2, <1>4, <1>7, <1>8 DEF Advances, GitInv

LEMMA RequestKeeps == ASSUME GitInv, NEW o \in Op, Request(o) PROVE GitInv'
<1>1. PICK what, commands :
         /\ Queue(o, what, commands)
         /\ \/ what \in shown /\ commands \in ResolvingPlans
            \/ what = Nobody /\ commands \in OtherPlans
  BY DEF Request
<1>2. /\ commands # <<>> /\ ~(Head(commands) \in Changes \cup Completes)
      /\ Head(commands) \in Resolves => what \in shown
  <2>1. CASE what \in shown /\ commands \in ResolvingPlans
    <3>1. commands # <<>> /\ Head(commands) = "read conflict"
      BY <2>1, Requested
    <3> QED
      BY <2>1, <3>1 DEF Changes, Completes
  <2>2. CASE commands \in OtherPlans
    <3>1. commands # <<>> /\ Head(commands) \in {"read idle", "read merge", "read ready", "status"}
      BY <2>2, Requested
    <3> QED
      BY <3>1 DEF Changes, Completes, Resolves
  <2> QED
    BY <1>1, <2>1, <2>2
<1>3. /\ plan' = [plan EXCEPT ![o] = commands] /\ target' = [target EXCEPT ![o] = what]
      /\ behind' = [behind EXCEPT ![o] = dirLock] /\ dirLock' = o /\ plan[o] = <<>>
      /\ UNCHANGED <<settled, edition, merging, conflicts, unmerged, content, torn, shown,
                     terminal>>
  BY <1>1 DEF Queue, repoVars
<1>4. \A q \in Op : /\ plan'[q] = IF q = o THEN commands ELSE plan[q]
                    /\ target'[q] = IF q = o THEN what ELSE target[q]
                    /\ behind'[q] = IF q = o THEN dirLock ELSE behind[q]
  BY <1>3 DEF GitInv, GitTypeOK
<1>5. LockSound'
  BY <1>1, <1>2, QueueKeepsLock DEF GitInv
<1>6. GitTypeOK'
  BY <1>1, <1>3 DEF GitInv, GitTypeOK
<1>7. ResolutionsSound'
  <2> SUFFICES ASSUME NEW q \in Op
               PROVE  /\ At(q, Resolves)' => target'[q] \in Path \X Nat
                      /\ At(q, Changes)' => Turn(q)' /\ content[target'[q][1]] \notin Op
    BY <1>3 DEF ResolutionsSound
  <2>1. CASE q = o
    BY <1>2, <1>4, <2>1 DEF At, GitInv, GitTypeOK
  <2>2. CASE q # o
    BY <1>3, <1>4, <2>2 DEF At, Turn, GitInv, ResolutionsSound
  <2> QED
    BY <2>1, <2>2
<1>8. PathsSound'
  <2>1. \A q \in Op : At(q, Completes) => q # o /\ At(q, Completes)' /\ target'[q] = target[q]
    BY <1>3, <1>4 DEF At
  <2> QED
    BY <1>3, <2>1 DEF GitInv, PathsSound
<1> QED
  BY <1>5, <1>6, <1>7, <1>8 DEF GitInv

LEMMA TerminalKeeps == ASSUME GitInv, Terminal PROVE GitInv'
<1>1. UNCHANGED <<dirLock, behind, target, plan, settled, shown>> /\ terminal' \in Nat
  BY DEF Terminal, GitInv, GitTypeOK
<1>2. CASE NoMerge /\ UNCHANGED <<content, torn>>
  BY <1>1, <1>2
  DEF NoMerge, GitInv, GitTypeOK, LockSound, ResolutionsSound, PathsSound, At, Turn
<1>3. ASSUME NEW p \in conflicts,
             /\ unmerged' = unmerged \ {p}
             /\ content' = [content EXCEPT ![p] = 0]
             /\ torn' = torn \ {p}
             /\ UNCHANGED <<edition, merging, conflicts>>
      PROVE  GitInv'
  <2>1. p \in Path /\ \A r \in Path : content'[r] = IF r = p THEN 0 ELSE content[r]
    BY <1>3 DEF GitInv, GitTypeOK
  <2>2. GitTypeOK'
    BY <1>1, <1>3 DEF GitInv, GitTypeOK
  <2>3. LockSound'
    BY <1>1 DEF GitInv, LockSound
  <2>4. ResolutionsSound'
    <3> SUFFICES ASSUME NEW o \in Op
                 PROVE  /\ At(o, Resolves) => target[o] \in Path \X Nat
                        /\ At(o, Changes) => Turn(o) /\ content'[target[o][1]] \notin Op
      BY <1>1 DEF ResolutionsSound, At, Turn
    <3>1. At(o, Changes) => At(o, Resolves)
      BY DEF At, Changes, Resolves
    <3> QED
      BY <2>1, <3>1, GitAssumption DEF GitInv, ResolutionsSound, Op
  <2>5. PathsSound'
    <3>1. \A r \in unmerged' : content'[r] = Nobody
      BY <1>3, <2>1 DEF GitInv, GitTypeOK, PathsSound
    <3>2. ASSUME merging, NEW r \in conflicts
          PROVE  \/ r \in unmerged' \/ content'[r] # Nobody \/ r \in torn'
                 \/ \E o \in Op : At(o, Completes) /\ target[o][1] = r
      BY <1>3, <2>1, <3>2, GitAssumption DEF GitInv, GitTypeOK, PathsSound
    <3> QED
      BY <1>1, <1>3, <3>1, <3>2 DEF PathsSound, At
  <2> QED
    BY <2>2, <2>3, <2>4, <2>5 DEF GitInv
<1> QED
  BY <1>2, <1>3 DEF Terminal

(* The operations on the directory run one after the other, and every path *)
(* of a merge is in the index's conflicts, resolved, torn or at work.      *)
THEOREM GitInvariance == GitSpec => []GitInv
<1>1. GitInit => GitInv
  <2> SUFFICES ASSUME GitInit PROVE GitInv
    OBVIOUS
  <2>1. GitTypeOK
    BY DEF GitInit, GitTypeOK, PlanEnds
  <2>2. LockSound /\ ResolutionsSound /\ PathsSound
    BY DEF GitInit, LockSound, ResolutionsSound, PathsSound, At
  <2> QED
    BY <2>1, <2>2 DEF GitInv
<1>2. GitInv /\ [GitNext]_gitVars => GitInv'
  <2> SUFFICES ASSUME GitInv, [GitNext]_gitVars PROVE GitInv'
    OBVIOUS
  <2>1. ASSUME NEW o \in Op, GitStep(o) PROVE GitInv'
    <3>1. CASE Clear(o) \/ Add(o) \/ UpdateIndex(o)
      BY <3>1, StagesKeeps DEF Clear, Add, UpdateIndex
    <3> QED
      BY <2>1, <3>1, RequestKeeps, GitFailsKeeps, ReadsKeeps, ReadConflictKeeps, MergesKeep
      DEF GitStep
  <2>2. CASE Terminal
    BY <2>2, TerminalKeeps
  <2>3. CASE UNCHANGED gitVars
    BY <2>3
    DEF gitVars, repoVars, GitInv, GitTypeOK, LockSound, ResolutionsSound, PathsSound, At, Turn
  <2> QED
    BY <2>1, <2>2, <2>3 DEF GitNext
<1> QED
  BY <1>1, <1>2, PTL DEF GitSpec

(* A conflict is resolved once, by one resolution, and as a whole: because *)
(* the lock lets one operation at a time through, and a resolution looks   *)
(* for its conflict before it changes it.                                  *)
THEOREM MergeIsResolvedWhole == GitSpec => ResolvedWholeAndOnce
<1> DEFINE ContentStays == merging /\ merging' =>
                             \A p \in Path : content[p] \in Op => content'[p] = content[p]
           Resolved == \A o \in Op :
              plan[o] # <<>> /\ Head(plan[o]) = "commit" /\ merging /\ ~merging' /\ o \in settled'
              => \A p \in conflicts : content[p] # Nobody \/ p \in torn
<1>1. ASSUME GitInv, NEW o \in Op, GitStep(o) PROVE ContentStays
  <2>1. ASSUME NEW c, NEW by, Stages(o, c, by), c \in Changes PROVE ContentStays
    <3>1. plan[o] # <<>> /\ Head(plan[o]) = c
      BY <2>1 DEF Stages, Runs, Turn
    <3>2. content[target[o][1]] \notin Op
      BY <1>1, <2>1, <3>1 DEF At, GitInv, ResolutionsSound
    <3> QED
      BY <1>1, <2>1, <3>2 DEF Stages, GitInv, GitTypeOK
  <2>2. CASE Clear(o) \/ Add(o) \/ UpdateIndex(o)
    BY <2>1, <2>2 DEF Clear, Add, UpdateIndex, Changes
  <2> QED
    BY <1>1, <2>2
    DEF GitStep, Request, Queue, GitFails, Settle, Reads, ReadConflict, Merge, Abort, Commit,
        NoMerge, repoVars
<1>2. ASSUME GitInv, NEW o \in Op, GitStep(o) PROVE Resolved
  <2> SUFFICES ASSUME NEW q \in Op, plan[q] # <<>>, Head(plan[q]) = "commit", merging,
                      ~merging', q \in settled'
               PROVE  \A p \in conflicts : content[p] # Nobody \/ p \in torn
    OBVIOUS
  <2>1. q \notin settled
    BY <1>2 DEF GitInv, LockSound
  <2>2. settled' \subseteq settled \cup {o}
    BY <1>2 DEF GitStep, Request, Queue, GitFails, Settle, Reads, ReadConflict, Clear, Add,
       UpdateIndex, Stages, Merge, Abort, Commit, Runs
  <2>3. q = o
    BY <2>1, <2>2
  <2>4. Commit(o)
    BY <1>2, <2>3 DEF GitStep, Request, Queue, GitFails, Settle, Reads, ReadConflict, Clear,
       Add, UpdateIndex, Stages, Merge, Abort, Runs, repoVars
  <2>5. unmerged = {} /\ Turn(o)
    BY <2>4 DEF Commit, Runs
  <2>6. ~\E r \in Op : At(r, Completes)
    BY <1>2, <2>3, <2>5, OneAtWork DEF At, Completes
  <2> QED
    BY <1>2, <2>5, <2>6 DEF GitInv, PathsSound
<1>3. GitInv /\ [GitNext]_gitVars => [terminal' = terminal => ContentStays /\ Resolved]_gitVars
  <2> SUFFICES ASSUME GitInv, GitNext, terminal' = terminal PROVE ContentStays /\ Resolved
    OBVIOUS
  <2>1. ~Terminal
    BY DEF Terminal, GitInv, GitTypeOK
  <2> QED
    BY <1>1, <1>2, <2>1 DEF GitNext
<1> QED
  BY <1>3, GitInvariance, PTL DEF GitSpec, ResolvedWholeAndOnce

-------------------------------------------------------------------------------
(* The persisted store                                                     *)

(* The delay that setItem computes puts the timer where a checkpoint is    *)
(* due, early or late as the burst may be.                                 *)
LEMMA DelayIsDue ==
  ASSUME NEW w \in Nat, NEW m \in Nat, NEW t \in Nat, NEW first \in Nat
  PROVE  t + Most(0, Least(w, m - (t - first))) = Least(t + w, Most(t, first + m))
BY DEF Most, Least

(* Where the last value is once a write of it was put behind the others.   *)
LEMMA AppendIsLast ==
  ASSUME NEW S, NEW seq \in Seq(S), NEW e \in S
  PROVE  /\ Append(seq, e) \in Seq(S) /\ Append(seq, e) # <<>>
         /\ Append(seq, e)[Len(Append(seq, e))] = e
OBVIOUS

(* Completing the first transaction leaves the last one last.              *)
LEMMA TailKeepsLast ==
  ASSUME NEW S, NEW seq \in Seq(S), seq # <<>>
  PROVE  /\ Tail(seq) \in Seq(S) /\ Head(seq) \in S
         /\ IF Tail(seq) = <<>> THEN seq[Len(seq)] = Head(seq)
                                ELSE Tail(seq)[Len(Tail(seq))] = seq[Len(seq)]
<1>1. Tail(seq) \in Seq(S) /\ Head(seq) \in S /\ Len(Tail(seq)) = Len(seq) - 1 /\ Len(seq) >= 1
  OBVIOUS
<1>2. CASE Tail(seq) = <<>>
  <2>1. Len(seq) - 1 = 0
    BY <1>1, <1>2
  <2>2. Len(seq) \in Nat /\ seq[1] = Head(seq)
    BY <1>1
  <2>3. Len(seq) = 1
    BY <2>1, <2>2
  <2> QED
    BY <1>1, <1>2, <2>2, <2>3
<1>3. CASE Tail(seq) # <<>>
  <2>1. Len(Tail(seq)) \in 1 .. Len(seq) - 1
    BY <1>1, <1>3
  <2>2. Tail(seq)[Len(Tail(seq))] = seq[Len(Tail(seq)) + 1]
    BY <2>1
  <2> QED
    BY <1>1, <1>3, <2>2
<1> QED
  BY <1>2, <1>3

(* A flush hands the pending value on.                                     *)
LEMMA FlushKeeps ==
  ASSUME PersistInv, FlushPending, UNCHANGED <<clock, encrypts, sets, record, wanted, excused>>
  PROVE  PersistInv'
<1> USE PersistAssumption
<1>1. /\ timer' = Nothing /\ firstPendingAt' = 0 /\ pendingValue' = Nothing
      /\ burstAt' = 0 /\ lastAt' = 0
  BY DEF FlushPending, Unpend
<1>2. CASE pendingValue = Nothing
  <2>1. UNCHANGED <<inner, table>>
    BY <1>2 DEF FlushPending
  <2> QED
    BY <1>1, <1>2, <2>1
    DEF PersistInv, PersistTypeOK, BurstSound, Checkpointed, LastIsOnItsWay
<1>3. CASE pendingValue # Nothing /\ encrypts
  <2>1. inner' = inner \cup {pendingValue} /\ table' = table
    BY <1>3 DEF FlushPending, InnerSet
  <2> QED
    BY <1>1, <1>3, <2>1
    DEF PersistInv, PersistTypeOK, BurstSound, Checkpointed, LastIsOnItsWay
<1>4. CASE pendingValue # Nothing /\ ~encrypts
  <2>1. inner' = inner /\ table' = Append(table, pendingValue)
    BY <1>4 DEF FlushPending, InnerSet
  <2>2. /\ table' \in Seq(Nat \cup {Nothing}) /\ table' # <<>>
        /\ table'[Len(table')] = pendingValue
    BY <2>1, AppendIsLast DEF PersistInv, PersistTypeOK
  <2>3. PersistTypeOK'
    BY <1>1, <2>1, <2>2 DEF PersistInv, PersistTypeOK
  <2> QED
    BY <1>1, <1>4, <2>1, <2>2, <2>3 DEF PersistInv, BurstSound, Checkpointed, LastIsOnItsWay
<1> QED
  BY <1>2, <1>3, <1>4

LEMMA SetItemKeeps == ASSUME PersistInv, SetItem PROVE PersistInv'
<1> USE PersistAssumption
<1> DEFINE first == IF firstPendingAt = 0 THEN clock ELSE firstPendingAt
<1>1. /\ sets' = sets + 1 /\ pendingValue' = sets + 1
      /\ firstPendingAt' = first /\ timer' = clock + Delay(first)
      /\ burstAt' = IF pendingValue = Nothing THEN clock ELSE burstAt
      /\ lastAt' = clock /\ wanted' = sets + 1 /\ excused' = FALSE
      /\ UNCHANGED <<clock, encrypts, inner, table, record>>
  BY DEF SetItem
<1>2. /\ clock \in Nat \ {0} /\ sets + 1 \in Nat /\ firstPendingAt \in Nat /\ first \in Nat
      /\ sets + 1 # Nothing
  BY DEF PersistInv, PersistTypeOK
<1>3. BurstSound' /\ first = burstAt'
  BY <1>1, <1>2 DEF PersistInv, BurstSound
<1> HIDE DEF first
<1>4. timer' = Least(clock + WaitMs, Most(clock, first + MaxWaitMs))
  BY <1>1, <1>2, DelayIsDue DEF Delay
<1>5. Checkpointed'
  BY <1>1, <1>2, <1>3, <1>4 DEF Checkpointed
<1>6. timer' \in Int
  BY <1>2, <1>4 DEF Least, Most
<1>7. PersistTypeOK'
  BY <1>1, <1>2, <1>6 DEF PersistInv, PersistTypeOK
<1> QED
  BY <1>1, <1>2, <1>3, <1>5, <1>7 DEF PersistInv, LastIsOnItsWay

(* In every reachable state, the timer is where a checkpoint is due and    *)
(* the last value is on its way, unless it failed or was overtaken.        *)
THEOREM PersistInvariance == PersistSpec => []PersistInv
<1> USE PersistAssumption
<1>1. PersistInit => PersistInv
  <2> SUFFICES ASSUME PersistInit PROVE PersistInv
    OBVIOUS
  <2>1. PersistTypeOK
    <3>1. table \in Seq(Nat \cup {Nothing})
      <4>1. table = <<>>
        BY DEF PersistInit
      <4> QED
        BY <4>1
    <3>2. /\ clock = 1 /\ sets = 0 /\ pendingValue = Nothing /\ firstPendingAt = 0
          /\ timer = Nothing /\ inner = {} /\ record = Nothing /\ burstAt = 0 /\ lastAt = 0
          /\ wanted = Nothing /\ excused = FALSE
      BY DEF PersistInit
    <3>3. clock \in Nat \ {0} /\ sets \in Nat /\ firstPendingAt \in Nat /\ burstAt \in Nat /\ lastAt \in Nat
      BY <3>2
    <3>4. /\ pendingValue \in Nat \cup {Nothing} /\ timer \in Int \cup {Nothing}
          /\ record \in Nat \cup {Nothing} /\ wanted \in Nat \cup {Nothing}
      BY <3>2
    <3>5. inner \subseteq Nat /\ excused \in BOOLEAN
      BY <3>2
    <3> QED
      BY <3>1, <3>3, <3>4, <3>5, Zenon DEF PersistTypeOK
  <2>2. BurstSound /\ Checkpointed /\ LastIsOnItsWay
    BY DEF PersistInit, BurstSound, Checkpointed, LastIsOnItsWay
  <2> QED
    BY <2>1, <2>2 DEF PersistInv
<1>2. PersistInv /\ [PersistNext]_persistVars => PersistInv'
  <2> SUFFICES ASSUME PersistInv, [PersistNext]_persistVars PROVE PersistInv'
    OBVIOUS
  <2>0. table \in Seq(Nat \cup {Nothing})
    BY DEF PersistInv, PersistTypeOK
  <2>1. CASE Fire \/ PageHide
    BY <2>1, FlushKeeps DEF Fire, PageHide
  <2>2. CASE PageClosed
    <3>1. record' \in Nat \cup {Nothing}
      <4>1. \A i \in DOMAIN table : table[i] \in Nat \cup {Nothing}
        BY <2>0
      <4> QED
        BY <2>2, <4>1 DEF PageClosed, PersistInv, PersistTypeOK
    <3>2. /\ timer' = Nothing /\ firstPendingAt' = 0 /\ pendingValue' = Nothing
          /\ burstAt' = 0 /\ lastAt' = 0 /\ inner' = {} /\ table' = <<>>
          /\ wanted' = record' /\ excused' = FALSE /\ UNCHANGED <<clock, sets>>
      BY <2>2 DEF PageClosed, Unpend
    <3>3. PersistTypeOK'
      <4>1. <<>> \in Seq(Nat \cup {Nothing})
        OBVIOUS
      <4> QED
        BY <3>1, <3>2, <4>1 DEF PersistInv, PersistTypeOK
    <3>4. BurstSound' /\ Checkpointed' /\ LastIsOnItsWay'
      BY <3>2 DEF BurstSound, Checkpointed, LastIsOnItsWay
    <3> QED
      BY <3>1, <3>2, <3>3, <3>4 DEF PersistInv
  <2>3. CASE RemoveItem
    <3>1. /\ sets' = sets + 1
          /\ timer' = Nothing /\ firstPendingAt' = 0 /\ pendingValue' = Nothing
          /\ burstAt' = 0 /\ lastAt' = 0
          /\ wanted' = Nothing /\ excused' = FALSE
          /\ UNCHANGED <<clock, encrypts, inner, record>>
      BY <2>3 DEF RemoveItem, Unpend
    <3>2. table' \in Seq(Nat \cup {Nothing}) /\ table' # <<>> /\ table'[Len(table')] = Nothing
      <4>1. table' = Append(table, Nothing)
        BY <2>3 DEF RemoveItem
      <4>2. Nothing \in Nat \cup {Nothing}
        OBVIOUS
      <4> QED
        BY <2>0, <4>1, <4>2, AppendIsLast
    <3>3. PersistTypeOK'
      <4>1. table' \in Seq(Nat \cup {Nothing})
        BY <3>2
      <4>2. /\ clock' \in Nat \ {0} /\ sets' \in Nat
            /\ firstPendingAt' \in Nat /\ burstAt' \in Nat /\ lastAt' \in Nat
        BY <3>1 DEF PersistInv, PersistTypeOK
      <4>3. /\ pendingValue' \in Nat \cup {Nothing} /\ timer' \in Int \cup {Nothing}
            /\ record' \in Nat \cup {Nothing} /\ wanted' \in Nat \cup {Nothing}
        BY <3>1 DEF PersistInv, PersistTypeOK
      <4>4. inner' \subseteq Nat /\ excused' \in BOOLEAN
        BY <3>1 DEF PersistInv, PersistTypeOK
      <4> QED
        BY <4>1, <4>2, <4>3, <4>4, Zenon DEF PersistTypeOK
    <3> QED
      BY <3>1, <3>2, <3>3 DEF PersistInv, BurstSound, Checkpointed, LastIsOnItsWay
  <2>4. ASSUME NEW value \in inner, Encrypted(value) PROVE PersistInv'
    <3>1. /\ inner' = inner \ {value} /\ table' = Append(table, value)
          /\ excused' = (excused \/ (value # wanted /\ wanted \notin inner
                                       /\ pendingValue = Nothing))
          /\ UNCHANGED <<clock, sets, pendingValue, firstPendingAt, timer, burstAt, lastAt,
                         record, wanted>>
      BY <2>4 DEF Encrypted, debounceVars
    <3>2. table' \in Seq(Nat \cup {Nothing}) /\ table' # <<>> /\ table'[Len(table')] = value
      BY <2>0, <2>4, <3>1, AppendIsLast DEF PersistInv, PersistTypeOK
    <3>3. PersistTypeOK'
      BY <3>1, <3>2 DEF PersistInv, PersistTypeOK
    <3>4. BurstSound' /\ Checkpointed'
      BY <3>1 DEF PersistInv, BurstSound, Checkpointed
    <3>5. LastIsOnItsWay'
      BY <3>1, <3>2 DEF PersistInv, LastIsOnItsWay
    <3> QED
      BY <3>3, <3>4, <3>5 DEF PersistInv
  <2>5. ASSUME NEW value \in inner, EncryptFails(value) PROVE PersistInv'
    BY <2>5
    DEF EncryptFails, debounceVars, PersistInv, PersistTypeOK, BurstSound, Checkpointed,
        LastIsOnItsWay
  <2>6. CASE Transaction
    <3>1. /\ table # <<>> /\ table' = Tail(table)
          /\ \/ record' = Head(table) /\ excused' = excused
             \/ excused' = (excused \/ Head(table) = wanted) /\ record' = record
          /\ UNCHANGED <<clock, sets, pendingValue, firstPendingAt, timer, burstAt, lastAt,
                         inner, wanted>>
      BY <2>6 DEF Transaction, debounceVars
    <3>2. /\ table' \in Seq(Nat \cup {Nothing}) /\ Head(table) \in Nat \cup {Nothing}
          /\ IF table' = <<>> THEN table[Len(table)] = Head(table)
                              ELSE table'[Len(table')] = table[Len(table)]
      BY <2>0, <3>1, TailKeepsLast
    <3>3. PersistTypeOK'
      BY <3>1, <3>2 DEF PersistInv, PersistTypeOK
    <3>4. BurstSound' /\ Checkpointed'
      BY <3>1 DEF PersistInv, BurstSound, Checkpointed
    <3>5. excused => excused'
      <4> DEFINE gone == Head(table) = wanted
      <4>1. excused' = excused \/ excused' = (excused \/ gone)
        BY <3>1
      <4>2. excused \in BOOLEAN
        BY DEF PersistInv, PersistTypeOK
      <4>3. gone \in BOOLEAN
        OBVIOUS
      <4> HIDE DEF gone
      <4> QED
        BY <4>1, <4>2, <4>3
    <3>6. pendingValue' = pendingValue /\ wanted' = wanted /\ inner' = inner /\ table # <<>>
      BY <3>1
    <3>7. LastIsOnItsWay'
      <4> SUFFICES ASSUME ~excused', pendingValue' = Nothing, wanted' \notin inner'
                   PROVE  IF table' = <<>> THEN record' = wanted' ELSE table'[Len(table')] = wanted'
        <5>1. pendingValue' = pendingValue /\ wanted' = wanted /\ (excused => excused')
          BY <3>5, <3>6, Zenon
        <5>2. pendingValue # Nothing /\ ~excused => pendingValue = wanted
          BY DEF PersistInv, LastIsOnItsWay
        <5> QED
          BY <5>1, <5>2, Zenon DEF LastIsOnItsWay
      <4>0. ~excused /\ pendingValue = Nothing /\ wanted \notin inner /\ table # <<>>
        BY <3>5, <3>6, Zenon
      <4>1. table[Len(table)] = wanted
        BY <4>0, Zenon DEF PersistInv, LastIsOnItsWay
      <4>2. CASE table' = <<>>
        <5>1. Head(table) = wanted
          BY <3>2, <4>1, <4>2
        <5> QED
          BY <3>1, <4>2, <5>1
      <4>3. CASE table' # <<>>
        <5>1. table'[Len(table')] = wanted
          BY <3>2, <4>1, <4>3
        <5> QED
          BY <3>1, <4>3, <5>1
      <4> QED
        BY <4>2, <4>3
    <3> QED
      BY <3>3, <3>4, <3>7 DEF PersistInv
  <2>7. CASE ClockTick
    BY <2>7
    DEF ClockTick, debounceVars, PersistInv, PersistTypeOK, BurstSound, Checkpointed,
        LastIsOnItsWay
  <2>8. CASE UNCHANGED persistVars
    BY <2>8
    DEF persistVars, debounceVars, PersistInv, PersistTypeOK, BurstSound, Checkpointed,
        LastIsOnItsWay
  <2> QED
    BY <2>1, <2>2, <2>3, <2>4, <2>5, <2>6, <2>7, <2>8, SetItemKeeps DEF PersistNext
<1> QED
  BY <1>1, <1>2, PTL DEF PersistSpec

(* A burst is written WaitMs after its last value, or MaxWaitMs after its  *)
(* first if that comes earlier, whenever its calls come.                   *)
THEOREM BurstsAreCheckpointed == PersistSpec => []Checkpointed
<1>1. PersistInv => Checkpointed
  BY DEF PersistInv
<1> QED
  BY <1>1, PersistInvariance, PTL

(* Once all is written, the table holds what was last set or removed,      *)
(* unless that write failed or was overtaken by an earlier one.            *)
THEOREM LastValuePersists == PersistSpec => []PersistsLast
<1>1. PersistInv => PersistsLast
  BY DEF PersistInv, PersistsLast, LastIsOnItsWay
<1> QED
  BY <1>1, PersistInvariance, PTL

-------------------------------------------------------------------------------
(* The file collections of the renderer                                    *)

(* A collection has two parts and no other.                                *)
LEMMA PartNames == "items" \in Part /\ "workflows" \in Part /\ "items" # "workflows"
                   /\ \A p \in Part : p = "items" \/ p = "workflows"
  BY DEF Part

(* What moving a task to its next await leaves.                            *)
LEMMA MoveFacts ==
  ASSUME SyncTypeOK, NEW t \in Task, NEW x \in Stage, Move(t, x)
  PROVE  /\ at' \in [Task -> Stage] /\ at'[t] = x
         /\ \A u \in Task : u # t => at'[u] = at[u]
  BY DEF SyncTypeOK, Move, Stage

(* What a task that reads or takes a part holds, and what it goes on       *)
(* holding.                                                                *)
LEMMA HoldFacts ==
  ASSUME SyncTypeOK, NEW t \in Task, NEW p \in Part, NEW n \in Nat, Hold(t, p, n)
  PROVE  /\ holds' \in [Task -> [Part -> Nat]]
         /\ holds'[t][p] = n /\ \A q \in Part : q # p => holds'[t][q] = holds[t][q]
  BY DEF SyncTypeOK, Hold

(* A task that begins is a new one: it holds what the stores have and      *)
(* disturbs no other.                                                      *)
LEMMA EnterFacts ==
  ASSUME SyncTypeOK, NEW t \in Task, NEW who \in {"watcher", "user", "dialog"},
         NEW first \in Stage, Enter(t, who, first)
  PROVE  /\ t = begun + 1 /\ begun' = t /\ begun' \in 0 .. MaxTasks
         /\ why' \in [Task -> {"nobody", "watcher", "user", "dialog"}] /\ why'[t] = who
         /\ at' \in [Task -> Stage] /\ at'[t] = first
         /\ holds' \in [Task -> [Part -> Nat]] /\ holds'[t] = local
         /\ \A u \in Task : u # t => at'[u] = at[u] /\ why'[u] = why[u]
<1>1. /\ t = begun + 1 /\ begun' = t /\ why' = [why EXCEPT ![t] = who]
      /\ at' = [at EXCEPT ![t] = first] /\ holds' = [holds EXCEPT ![t] = local]
  BY DEF Enter
<1>2. begun' \in 0 .. MaxTasks
  BY <1>1 DEF SyncTypeOK, Task
<1> QED
  BY <1>1, <1>2 DEF SyncTypeOK, Stage

(* A content put in the stores or in the directory is a content.           *)
LEMMA WriteFacts ==
  ASSUME SyncTypeOK, NEW p \in Part, NEW n \in Nat
  PROVE  /\ [local EXCEPT ![p] = n] \in [Part -> Nat]
         /\ [onDisk EXCEPT ![p] = n] \in [Part -> Nat]
  BY DEF SyncTypeOK

(* What the end of a task leaves: only the reload of the watcher may start *)
(* over, and it does when something was reported meanwhile.                *)
LEMMA LeaveFacts ==
  ASSUME SyncTypeOK, NEW t \in Task, Leave(t)
  PROVE  /\ reloading' \in BOOLEAN /\ again' \in BOOLEAN
         /\ at' \in [Task -> Stage]
         /\ \A u \in Task : u # t => at'[u] = at[u]
         /\ \/ why[t] = "watcher" /\ again /\ reloading' /\ ~again' /\ at'[t] = "reading"
            \/ why[t] = "watcher" /\ ~again /\ ~reloading' /\ ~again' /\ at'[t] = "over"
            \/ why[t] # "watcher" /\ reloading' = reloading /\ again' = again /\ at'[t] = "over"
<1>1. "over" \in Stage /\ "reading" \in Stage
  BY DEF Stage, Loads
<1>2. CASE why[t] = "watcher"
  <2>1. reloading' = again /\ again' = FALSE /\ Move(t, IF again THEN "reading" ELSE "over")
    BY <1>2 DEF Leave
  <2>2. CASE again
    BY <1>1, <1>2, <2>1, <2>2, MoveFacts DEF SyncTypeOK
  <2>3. CASE ~again
    BY <1>1, <1>2, <2>1, <2>3, MoveFacts DEF SyncTypeOK
  <2> QED
    BY <2>2, <2>3
<1>3. CASE why[t] # "watcher"
  <2>1. Move(t, "over") /\ UNCHANGED <<reloading, again>>
    BY <1>3 DEF Leave
  <2> QED
    BY <1>1, <1>3, <2>1, MoveFacts DEF SyncTypeOK
<1> QED
  BY <1>2, <1>3

(* A task that finishes leaves, and the dialog forgets its conflict.       *)
LEMMA FinishFacts ==
  ASSUME SyncTypeOK, NEW t \in Task, Finish(t)
  PROVE  /\ Leave(t) /\ begun' = begun /\ why' = why /\ conflict' \in BOOLEAN
         /\ conflict' <=> conflict /\ why[t] # "dialog"
  BY DEF Finish

(* A task that gives up does the same, or keeps the conflict.              *)
LEMMA GiveUpFacts ==
  ASSUME SyncTypeOK, NEW t \in Task, NEW answered \in BOOLEAN, GiveUp(t, answered)
  PROVE  /\ Leave(t) /\ begun' = begun /\ why' = why /\ conflict' \in BOOLEAN
         /\ \/ conflict' = conflict
            \/ answered /\ (conflict' <=> conflict /\ why[t] # "dialog")
         /\ failures' \in Nat
         /\ UNCHANGED <<holds, userEdits, diskEdits, unsaved>>
<1>1. failures' \in Nat /\ UNCHANGED <<holds, userEdits, diskEdits, unsaved>>
  BY DEF GiveUp, SyncTypeOK
<1>2. CASE answered
  <2>1. Finish(t)
    BY <1>2 DEF GiveUp
  <2> QED
    BY <1>1, <1>2, <2>1, FinishFacts
<1>3. CASE ~answered
  <2>1. Leave(t) /\ UNCHANGED <<conflict, begun, why>>
    BY <1>3 DEF GiveUp
  <2> QED
    BY <1>1, <2>1 DEF SyncTypeOK
<1> QED
  BY <1>2, <1>3

(* What is held, stored and on disk is a content.                          *)
LEMMA HeldFacts ==
  ASSUME SyncTypeOK, NEW t \in Task, NEW p \in Part
  PROVE  holds[t][p] \in Nat /\ local[p] \in Nat /\ onDisk[p] \in Nat
  BY DEF SyncTypeOK

(* Where a task can be, by name.                                           *)
LEMMA StageNames ==
  {"idle", "over", "reading", "read", "watching", "reading workflows", "workflows read",
   "writing", "written", "writing workflows"} = Stage
  BY DEF Stage, Loads, Saves

(* An operation that was crossed stays so: where the next state is not,    *)
(* this one was not.                                                       *)
LEMMA NotYet ==
  ASSUME SyncInv, [SyncNext]_syncVars, ~crossed'
  PROVE  ~crossed /\ Uncrossed
<1>1. ~crossed
  <2>1. ASSUME NEW t \in Task, TaskStep(t) PROVE ~crossed
    BY <2>1
    DEF TaskStep, ReadItems, LoadFails, ApplyItems, Watch, WatchFails, ReadWorkflows,
        WorkflowsFail, ApplyWorkflows, WriteItems, SaveFails, ItemsSaved, WriteWorkflows,
        WorkflowsNotSaved, Crossing, otherwise
  <2>2. ASSUME NEW t \in Task, Reload(t) \/ Sync(t) \/ LoadExternal(t) \/ KeepLocal(t)
        PROVE  ~crossed
    BY <2>2 DEF Reload, Sync, LoadExternal, KeepLocal, Crossing
  <2>3. ASSUME NEW p \in Part,
               UserEdit(p) \/ DiskEdit(p) \/ Emit(p) \/ LookAt(p) \/ FileChanged(p)
        PROVE  ~crossed
    BY <2>3 DEF UserEdit, DiskEdit, Emit, LookAt, FileChanged, Crossing
  <2>4. CASE Dismiss \/ UNCHANGED syncVars
    BY <2>4 DEF Dismiss, Crossing, syncVars
  <2> QED
    BY <2>1, <2>2, <2>3, <2>4 DEF SyncNext
<1> QED
  BY <1>1 DEF SyncInv

(* With nothing crossed, a task under way is the only one.                 *)
LEMMA Alone ==
  ASSUME Uncrossed, NEW t \in Task, at[t] \in Loads \cup Saves
  PROVE  /\ Underway = {t}
         /\ reloading <=> why[t] = "watcher"
         /\ at[t] \in Saves => why[t] # "watcher"
  BY DEF Uncrossed, OneTask, Underway

(* A step of the only task leaves nothing else under way.                  *)
LEMMA AloneAfter ==
  ASSUME NEW t \in Task, Underway \subseteq {t},
         \A u \in Task : u # t => at'[u] = at[u]
  PROVE  Underway' = IF at'[t] \in Loads \cup Saves THEN {t} ELSE {}
  BY DEF Underway

(* A task that begins keeps the numbering of the tasks.                    *)
LEMMA EntryBegins ==
  ASSUME SyncTypeOK, TasksBegun, NEW t \in Task, NEW who \in {"watcher", "user", "dialog"},
         NEW first \in Stage, first # "idle", Enter(t, who, first)
  PROVE  TasksBegun'
<1>1. /\ t = begun + 1 /\ begun' = t /\ at'[t] = first
      /\ \A u \in Task : u # t => at'[u] = at[u]
  BY EnterFacts
<1>2. ASSUME NEW u \in Task PROVE at'[u] = "idle" <=> u > begun'
  BY <1>1 DEF SyncTypeOK, TasksBegun, Task
<1> QED
  BY <1>2 DEF TasksBegun

(* Which awaits are of a load and which of a save.                         *)
LEMMA StageSets ==
  /\ {"reading", "read", "watching", "reading workflows", "workflows read"} \subseteq Loads
  /\ {"writing", "written", "writing workflows"} \subseteq Saves
  /\ "over" \notin Loads \cup Saves /\ "idle" \notin Loads \cup Saves
  /\ Loads \cap Saves = {}
  BY DEF Loads, Saves

(* Every step keeps the types.                                             *)
LEMMA SyncTypesKept ==
  ASSUME SyncInv, [SyncNext]_syncVars PROVE SyncTypeOK'
<1>1. ASSUME NEW t \in Task, ReadItems(t) PROVE SyncTypeOK'
  <2>1. at' \in [Task -> Stage]
    BY <1>1, MoveFacts, StageNames DEF ReadItems, SyncInv
  <2>2. holds' \in [Task -> [Part -> Nat]]
    BY <1>1, HoldFacts, HeldFacts, PartNames DEF ReadItems, SyncInv
  <2> QED
    BY <1>1, <2>1, <2>2 DEF ReadItems, SyncInv, SyncTypeOK, watcherVars, otherwise, bounded
<1>2. ASSUME NEW t \in Task, LoadFails(t) PROVE SyncTypeOK'
  <2>1. PICK answered \in BOOLEAN : GiveUp(t, answered)
    BY <1>2 DEF LoadFails
  <2>3. /\ syncState' \in {syncState, "error"} /\ crossed' \in BOOLEAN
        /\ UNCHANGED <<local, onDisk, watcherVars, reports>>
    BY <1>2 DEF LoadFails, PutWorkflows, Crossing, SyncInv, SyncTypeOK
  <2> QED
    BY <2>1, <2>3, GiveUpFacts, LeaveFacts, PartNames DEF SyncInv, SyncTypeOK, watcherVars
<1>3. ASSUME NEW t \in Task, ApplyItems(t) PROVE SyncTypeOK'
  <2>1. at' \in [Task -> Stage]
    BY <1>3, MoveFacts, StageNames DEF ApplyItems, SyncInv
  <2>2. local' \in [Part -> Nat]
    BY <1>3, WriteFacts, HeldFacts, PartNames DEF ApplyItems, SyncInv
  <2> QED
    BY <1>3, <2>1, <2>2 DEF ApplyItems, SyncInv, SyncTypeOK, watcherVars, otherwise, bounded
<1>4. ASSUME NEW t \in Task, Watch(t) PROVE SyncTypeOK'
  <2>1. at' \in [Task -> Stage]
    BY <1>4, MoveFacts, StageNames DEF Watch, SyncInv
  <2> QED
    BY <1>4, <2>1 DEF Watch, SyncInv, SyncTypeOK, watcherVars, otherwise, bounded
<1>5. ASSUME NEW t \in Task, WatchFails(t) PROVE SyncTypeOK'
  <2>1. PICK answered \in BOOLEAN : GiveUp(t, answered)
    BY <1>5 DEF WatchFails
  <2>3. /\ syncState' \in {syncState, "error"} /\ crossed' \in BOOLEAN
        /\ UNCHANGED <<local, onDisk, watcherVars, reports>>
    BY <1>5 DEF WatchFails, PutWorkflows, Crossing, SyncInv, SyncTypeOK
  <2> QED
    BY <2>1, <2>3, GiveUpFacts, LeaveFacts, PartNames DEF SyncInv, SyncTypeOK, watcherVars
<1>6. ASSUME NEW t \in Task, ReadWorkflows(t) PROVE SyncTypeOK'
  <2>1. at' \in [Task -> Stage]
    BY <1>6, MoveFacts, StageNames DEF ReadWorkflows, SyncInv
  <2>2. holds' \in [Task -> [Part -> Nat]]
    BY <1>6, HoldFacts, HeldFacts, PartNames DEF ReadWorkflows, SyncInv
  <2> QED
    BY <1>6, <2>1, <2>2 DEF ReadWorkflows, SyncInv, SyncTypeOK, watcherVars, otherwise, bounded
<1>7. ASSUME NEW t \in Task, WorkflowsFail(t) PROVE SyncTypeOK'
  <2>1. PICK answered \in BOOLEAN : GiveUp(t, answered)
    BY <1>7 DEF WorkflowsFail
  <2>3. /\ syncState' \in {syncState, "error"} /\ crossed' \in BOOLEAN
        /\ UNCHANGED <<local, onDisk, watcherVars, reports>>
    BY <1>7 DEF WorkflowsFail, PutWorkflows, Crossing, SyncInv, SyncTypeOK
  <2> QED
    BY <2>1, <2>3, GiveUpFacts, LeaveFacts, PartNames DEF SyncInv, SyncTypeOK, watcherVars
<1>8. ASSUME NEW t \in Task, ApplyWorkflows(t) PROVE SyncTypeOK'
  <2>1. /\ Finish(t) /\ unsaved' \subseteq Part
        /\ UNCHANGED <<onDisk, syncState, watcherVars, reports, holds, bounded, crossed>>
    BY <1>8 DEF ApplyWorkflows, SyncInv, SyncTypeOK
  <2>2. local' \in [Part -> Nat]
    BY <1>8, WriteFacts, HeldFacts, PartNames DEF ApplyWorkflows, SyncInv
  <2> QED
    BY <2>1, <2>2, FinishFacts, LeaveFacts DEF SyncInv, SyncTypeOK, watcherVars, bounded
<1>9. ASSUME NEW t \in Task, WriteItems(t) PROVE SyncTypeOK'
  <2>1. at' \in [Task -> Stage]
    BY <1>9, MoveFacts, StageNames DEF WriteItems, SyncInv
  <2>2. onDisk' \in [Part -> Nat]
    BY <1>9, WriteFacts, HeldFacts, PartNames DEF WriteItems, SyncInv
  <2> QED
    BY <1>9, <2>1, <2>2 DEF WriteItems, SyncInv, SyncTypeOK, watcherVars, otherwise, bounded
<1>10. ASSUME NEW t \in Task, SaveFails(t) PROVE SyncTypeOK'
  <2>1. PICK answered \in BOOLEAN : GiveUp(t, answered)
    BY <1>10 DEF SaveFails
  <2>3. /\ syncState' \in {syncState, "error"} /\ crossed' \in BOOLEAN
        /\ UNCHANGED <<local, onDisk, unlooked, lost, reports>>
        /\ unemitted' \in {unemitted, unemitted \cup {"items"}}
    BY <1>10 DEF SaveFails, PutWorkflows, Crossing, SyncInv, SyncTypeOK
  <2> QED
    BY <2>1, <2>3, GiveUpFacts, LeaveFacts, PartNames DEF SyncInv, SyncTypeOK, watcherVars
<1>11. ASSUME NEW t \in Task, ItemsSaved(t) PROVE SyncTypeOK'
  <2>1. at' \in [Task -> Stage]
    BY <1>11, MoveFacts, StageNames DEF ItemsSaved, SyncInv
  <2>2. holds' \in [Task -> [Part -> Nat]]
    BY <1>11, HoldFacts, HeldFacts, PartNames DEF ItemsSaved, SyncInv
  <2>3. unsaved' \subseteq Part
    BY <1>11 DEF ItemsSaved, Clean, SyncInv, SyncTypeOK
  <2> QED
    BY <1>11, <2>1, <2>2, <2>3 DEF ItemsSaved, SyncInv, SyncTypeOK, watcherVars, otherwise, bounded
<1>12. ASSUME NEW t \in Task, WriteWorkflows(t) PROVE SyncTypeOK'
  <2>1. /\ Finish(t) /\ unsaved' \subseteq Part
        /\ unemitted' \subseteq Part /\ lost' \subseteq Part
        /\ UNCHANGED <<local, syncState, unlooked, reports, holds, bounded, crossed>>
    BY <1>12, PartNames DEF WriteWorkflows, PutWorkflows, Clean, SyncInv, SyncTypeOK
  <2>2. onDisk' \in [Part -> Nat]
    BY <1>12, WriteFacts, HeldFacts, PartNames DEF WriteWorkflows, PutWorkflows, SyncInv
  <2> QED
    BY <2>1, <2>2, FinishFacts, LeaveFacts DEF SyncInv, SyncTypeOK, bounded
<1>13. ASSUME NEW t \in Task, WorkflowsNotSaved(t) PROVE SyncTypeOK'
  <2>1. PICK answered \in BOOLEAN : GiveUp(t, answered)
    BY <1>13 DEF WorkflowsNotSaved
  <2>2. onDisk' \in [Part -> Nat]
    BY <1>13, WriteFacts, HeldFacts, PartNames DEF WorkflowsNotSaved, PutWorkflows, SyncTypeOK, SyncInv
  <2>3. /\ syncState' \in {syncState, "error"} /\ crossed' \in BOOLEAN
        /\ UNCHANGED <<local, unlooked, reports>>
        /\ unemitted' \in {unemitted, unemitted \cup {"workflows"}}
        /\ lost' \in {lost, lost \ {"workflows"}}
    BY <1>13 DEF WorkflowsNotSaved, PutWorkflows, Crossing, SyncInv, SyncTypeOK
  <2> QED
    BY <2>1, <2>3, <2>2, GiveUpFacts, LeaveFacts, PartNames DEF SyncInv, SyncTypeOK, watcherVars
<1>14. ASSUME NEW t \in Task, Reload(t) PROVE SyncTypeOK'
  <2>1. /\ Enter(t, "user", "reading") /\ crossed' \in BOOLEAN
        /\ syncState' \in {syncState, "loading"}
        /\ UNCHANGED <<local, onDisk, conflict, watcherVars, reports, reloading, again, bounded,
                       unsaved>>
    BY <1>14 DEF Reload, Crossing
  <2> QED
    BY <2>1, EnterFacts, StageNames DEF SyncInv, SyncTypeOK, watcherVars, bounded
<1>15. ASSUME NEW t \in Task, Sync(t) PROVE SyncTypeOK'
  <2>1. /\ Enter(t, "user", "writing") /\ crossed' \in BOOLEAN
        /\ syncState' \in {syncState, "loading"}
        /\ UNCHANGED <<local, onDisk, conflict, watcherVars, reports, reloading, again, bounded,
                       unsaved>>
    BY <1>15 DEF Sync, Crossing
  <2> QED
    BY <2>1, EnterFacts, StageNames DEF SyncInv, SyncTypeOK, watcherVars, bounded
<1>16. ASSUME NEW t \in Task, LoadExternal(t) PROVE SyncTypeOK'
  <2>1. /\ Enter(t, "dialog", "reading") /\ crossed' \in BOOLEAN
        /\ syncState' \in {syncState, "loading"}
        /\ UNCHANGED <<local, onDisk, conflict, watcherVars, reports, reloading, again, bounded,
                       unsaved>>
    BY <1>16 DEF LoadExternal, Crossing
  <2> QED
    BY <2>1, EnterFacts, StageNames DEF SyncInv, SyncTypeOK, watcherVars, bounded
<1>17. ASSUME NEW t \in Task, KeepLocal(t) PROVE SyncTypeOK'
  <2>1. /\ Enter(t, "dialog", "writing") /\ crossed' \in BOOLEAN
        /\ syncState' \in {syncState, "loading"}
        /\ UNCHANGED <<local, onDisk, conflict, watcherVars, reports, reloading, again, bounded,
                       unsaved>>
    BY <1>17 DEF KeepLocal, Crossing
  <2> QED
    BY <2>1, EnterFacts, StageNames DEF SyncInv, SyncTypeOK, watcherVars, bounded
<1>18. ASSUME NEW p \in Part, UserEdit(p) PROVE SyncTypeOK'
  <2>1. /\ userEdits' = userEdits + 1 /\ local' = [local EXCEPT ![p] = userEdits']
        /\ syncState' \in {syncState, "modified"} /\ unsaved' = unsaved \cup {p}
        /\ crossed' \in BOOLEAN
        /\ UNCHANGED <<onDisk, conflict, watcherVars, reports, taskVars, reloading, again,
                       diskEdits, failures>>
    BY <1>18 DEF UserEdit, Crossing
  <2>2. userEdits' \in Nat
    BY <2>1 DEF SyncInv, SyncTypeOK
  <2>3. local' \in [Part -> Nat]
    BY <2>1, <2>2, WriteFacts DEF SyncInv
  <2> QED
    BY <2>1, <2>2, <2>3 DEF SyncInv, SyncTypeOK, watcherVars, taskVars
<1>19. ASSUME NEW p \in Part, DiskEdit(p) PROVE SyncTypeOK'
  <2>1. /\ diskEdits' = diskEdits + 1
        /\ onDisk' = [onDisk EXCEPT ![p] = MaxUserEdits + diskEdits']
        /\ unemitted' \subseteq Part /\ lost' \subseteq Part
        /\ UNCHANGED <<local, syncState, conflict, unlooked, reports, taskVars, reloading,
                       again, userEdits, failures, unsaved, crossed>>
    BY <1>19 DEF DiskEdit, SyncInv, SyncTypeOK
  <2>2. diskEdits' \in Nat /\ MaxUserEdits + diskEdits' \in Nat
    BY <2>1, SyncAssumption DEF SyncInv, SyncTypeOK
  <2>3. onDisk' \in [Part -> Nat]
    BY <2>1, <2>2, WriteFacts DEF SyncInv
  <2> QED
    BY <2>1, <2>2, <2>3 DEF SyncInv, SyncTypeOK, taskVars
<1>20. ASSUME NEW p \in Part, Emit(p) PROVE SyncTypeOK'
  BY <1>20 DEF Emit, SyncInv, SyncTypeOK, taskVars, bounded
<1>21. ASSUME NEW p \in Part, LookAt(p) PROVE SyncTypeOK'
  BY <1>21 DEF LookAt, SyncInv, SyncTypeOK, taskVars, bounded
<1>22. ASSUME NEW p \in Part, FileChanged(p) PROVE SyncTypeOK'
  <2>1. /\ reports' \subseteq Part /\ crossed' \in BOOLEAN
        /\ UNCHANGED <<local, onDisk, watcherVars, bounded, unsaved>>
    BY <1>22 DEF FileChanged, Crossing, SyncInv, SyncTypeOK
  <2>2. CASE RaiseConflict
    BY <2>1, <2>2 DEF RaiseConflict, SyncInv, SyncTypeOK, watcherVars, bounded, taskVars
  <2>3. CASE Coalesce
    BY <2>1, <2>3 DEF Coalesce, SyncInv, SyncTypeOK, watcherVars, bounded, taskVars
  <2>4. CASE StartReload
    <3>1. PICK t \in Task : Enter(t, "watcher", "reading")
      BY <2>4 DEF StartReload
    <3>2. reloading' = TRUE /\ UNCHANGED <<conflict, syncState, again>>
      BY <2>4 DEF StartReload
    <3> QED
      BY <2>1, <3>1, <3>2, EnterFacts, StageNames
      DEF SyncInv, SyncTypeOK, watcherVars, bounded
  <2> QED
    BY <1>22, <2>2, <2>3, <2>4 DEF FileChanged
<1>23. ASSUME Dismiss PROVE SyncTypeOK'
  BY <1>23 DEF SyncInv, SyncTypeOK, Dismiss, Crossing, watcherVars, taskVars, bounded
<1>24. CASE UNCHANGED syncVars
  BY <1>24 DEF SyncInv, SyncTypeOK, syncVars, watcherVars, taskVars
<1> QED
  BY <1>1, <1>2, <1>3, <1>4, <1>5, <1>6, <1>7, <1>8, <1>9, <1>10, <1>11,
     <1>12, <1>13, <1>14, <1>15, <1>16, <1>17, <1>18, <1>19, <1>20, <1>21, <1>22, <1>23, <1>24
  DEF SyncNext, TaskStep

(* Every step keeps the numbering of the tasks.                            *)
LEMMA TasksBegunKept ==
  ASSUME SyncInv, [SyncNext]_syncVars PROVE TasksBegun'
<1>0. SyncTypeOK /\ TasksBegun
  BY DEF SyncInv
<1>1. ASSUME NEW t \in Task, ReadItems(t) PROVE TasksBegun'
  <2>1. /\ at[t] = "reading" /\ at'[t] = "read" /\ begun' = begun
        /\ \A u \in Task : u # t => at'[u] = at[u]
    BY <1>0, <1>1, MoveFacts, StageNames DEF ReadItems, otherwise
  <2> QED
    BY <1>0, <2>1 DEF TasksBegun
<1>2. ASSUME NEW t \in Task, LoadFails(t) PROVE TasksBegun'
  <2>1. at[t] = "reading" /\ Leave(t) /\ begun' = begun
    BY <1>0, <1>2, GiveUpFacts DEF LoadFails
  <2> QED
    BY <1>0, <2>1, LeaveFacts DEF TasksBegun
<1>3. ASSUME NEW t \in Task, ApplyItems(t) PROVE TasksBegun'
  <2>1. /\ at[t] = "read" /\ at'[t] = "watching" /\ begun' = begun
        /\ \A u \in Task : u # t => at'[u] = at[u]
    BY <1>0, <1>3, MoveFacts, StageNames DEF ApplyItems, otherwise
  <2> QED
    BY <1>0, <2>1 DEF TasksBegun
<1>4. ASSUME NEW t \in Task, Watch(t) PROVE TasksBegun'
  <2>1. /\ at[t] = "watching" /\ at'[t] = "reading workflows" /\ begun' = begun
        /\ \A u \in Task : u # t => at'[u] = at[u]
    BY <1>0, <1>4, MoveFacts, StageNames DEF Watch, otherwise
  <2> QED
    BY <1>0, <2>1 DEF TasksBegun
<1>5. ASSUME NEW t \in Task, WatchFails(t) PROVE TasksBegun'
  <2>1. at[t] = "watching" /\ Leave(t) /\ begun' = begun
    BY <1>0, <1>5, GiveUpFacts DEF WatchFails
  <2> QED
    BY <1>0, <2>1, LeaveFacts DEF TasksBegun
<1>6. ASSUME NEW t \in Task, ReadWorkflows(t) PROVE TasksBegun'
  <2>1. /\ at[t] = "reading workflows" /\ at'[t] = "workflows read" /\ begun' = begun
        /\ \A u \in Task : u # t => at'[u] = at[u]
    BY <1>0, <1>6, MoveFacts, StageNames DEF ReadWorkflows, otherwise
  <2> QED
    BY <1>0, <2>1 DEF TasksBegun
<1>7. ASSUME NEW t \in Task, WorkflowsFail(t) PROVE TasksBegun'
  <2>1. at[t] = "reading workflows" /\ Leave(t) /\ begun' = begun
    BY <1>0, <1>7, GiveUpFacts DEF WorkflowsFail
  <2> QED
    BY <1>0, <2>1, LeaveFacts DEF TasksBegun
<1>8. ASSUME NEW t \in Task, ApplyWorkflows(t) PROVE TasksBegun'
  <2>1. at[t] = "workflows read" /\ Leave(t) /\ begun' = begun
    BY <1>0, <1>8, FinishFacts DEF ApplyWorkflows
  <2> QED
    BY <1>0, <2>1, LeaveFacts DEF TasksBegun
<1>9. ASSUME NEW t \in Task, WriteItems(t) PROVE TasksBegun'
  <2>1. /\ at[t] = "writing" /\ at'[t] = "written" /\ begun' = begun
        /\ \A u \in Task : u # t => at'[u] = at[u]
    BY <1>0, <1>9, MoveFacts, StageNames DEF WriteItems, otherwise
  <2> QED
    BY <1>0, <2>1 DEF TasksBegun
<1>10. ASSUME NEW t \in Task, SaveFails(t) PROVE TasksBegun'
  <2>1. at[t] \in {"writing", "written"} /\ Leave(t) /\ begun' = begun
    BY <1>0, <1>10, GiveUpFacts DEF SaveFails
  <2> QED
    BY <1>0, <2>1, LeaveFacts DEF TasksBegun
<1>11. ASSUME NEW t \in Task, ItemsSaved(t) PROVE TasksBegun'
  <2>1. /\ at[t] = "written" /\ at'[t] = "writing workflows" /\ begun' = begun
        /\ \A u \in Task : u # t => at'[u] = at[u]
    BY <1>0, <1>11, MoveFacts, StageNames DEF ItemsSaved, otherwise
  <2> QED
    BY <1>0, <2>1 DEF TasksBegun
<1>12. ASSUME NEW t \in Task, WriteWorkflows(t) PROVE TasksBegun'
  <2>1. at[t] = "writing workflows" /\ Leave(t) /\ begun' = begun
    BY <1>0, <1>12, FinishFacts DEF WriteWorkflows
  <2> QED
    BY <1>0, <2>1, LeaveFacts DEF TasksBegun
<1>13. ASSUME NEW t \in Task, WorkflowsNotSaved(t) PROVE TasksBegun'
  <2>1. at[t] = "writing workflows" /\ Leave(t) /\ begun' = begun
    BY <1>0, <1>13, GiveUpFacts DEF WorkflowsNotSaved
  <2> QED
    BY <1>0, <2>1, LeaveFacts DEF TasksBegun
<1>14. ASSUME NEW t \in Task, Reload(t) PROVE TasksBegun'
  <2>1. PICK who \in {"user", "dialog"} : Enter(t, who, "reading")
    BY <1>14 DEF Reload
  <2> QED
    BY <1>0, <2>1, EntryBegins, StageNames
<1>15. ASSUME NEW t \in Task, Sync(t) PROVE TasksBegun'
  <2>1. PICK who \in {"user", "dialog"} : Enter(t, who, "writing")
    BY <1>15 DEF Sync
  <2> QED
    BY <1>0, <2>1, EntryBegins, StageNames
<1>16. ASSUME NEW t \in Task, LoadExternal(t) PROVE TasksBegun'
  <2>1. PICK who \in {"user", "dialog"} : Enter(t, who, "reading")
    BY <1>16 DEF LoadExternal
  <2> QED
    BY <1>0, <2>1, EntryBegins, StageNames
<1>17. ASSUME NEW t \in Task, KeepLocal(t) PROVE TasksBegun'
  <2>1. PICK who \in {"user", "dialog"} : Enter(t, who, "writing")
    BY <1>17 DEF KeepLocal
  <2> QED
    BY <1>0, <2>1, EntryBegins, StageNames
<1>18. ASSUME NEW p \in Part, UserEdit(p) PROVE TasksBegun'
  BY <1>0, <1>18 DEF TasksBegun, UserEdit, taskVars
<1>19. ASSUME NEW p \in Part, DiskEdit(p) PROVE TasksBegun'
  BY <1>0, <1>19 DEF TasksBegun, DiskEdit, taskVars
<1>20. ASSUME NEW p \in Part, Emit(p) PROVE TasksBegun'
  BY <1>0, <1>20 DEF TasksBegun, Emit, taskVars
<1>21. ASSUME NEW p \in Part, LookAt(p) PROVE TasksBegun'
  BY <1>0, <1>21 DEF TasksBegun, LookAt, taskVars
<1>22. ASSUME NEW p \in Part, FileChanged(p) PROVE TasksBegun'
  <2>1. CASE StartReload
    <3>1. PICK t \in Task : Enter(t, "watcher", "reading")
      BY <2>1 DEF StartReload
    <3> QED
      BY <1>0, <3>1, EntryBegins, StageNames
  <2>2. CASE RaiseConflict \/ Coalesce
    BY <1>0, <2>2 DEF RaiseConflict, Coalesce, taskVars, TasksBegun
  <2> QED
    BY <1>22, <2>1, <2>2 DEF FileChanged
<1>23. ASSUME Dismiss PROVE TasksBegun'
  BY <1>0, <1>23 DEF TasksBegun, Dismiss, taskVars
<1>24. CASE UNCHANGED syncVars
  BY <1>0, <1>24 DEF TasksBegun, syncVars, taskVars
<1> QED
  BY <1>1, <1>2, <1>3, <1>4, <1>5, <1>6, <1>7, <1>8, <1>9, <1>10, <1>11,
     <1>12, <1>13, <1>14, <1>15, <1>16, <1>17, <1>18, <1>19, <1>20, <1>21, <1>22, <1>23, <1>24
  DEF SyncNext, TaskStep

(* The end of the only task leaves none, or the reload that starts over;   *)
(* nothing asks for another then.                                          *)
LEMMA EndFacts ==
  ASSUME SyncTypeOK, Uncrossed, NEW t \in Task, at[t] \in Loads \cup Saves, Leave(t),
         why' = why
  PROVE  /\ Underway = {t} /\ OneTask'
         /\ at[t] \in Saves => at'[t] = "over"
         /\ \/ at'[t] = "reading" /\ why'[t] = "watcher" /\ Underway' = {t}
            \/ at'[t] = "over" /\ Underway' = {} /\ ~again
<1>1. /\ Underway = {t} /\ (reloading <=> why[t] = "watcher")
      /\ at[t] \in Saves => why[t] # "watcher"
  BY Alone
<1>2. /\ \A u \in Task : u # t => at'[u] = at[u]
      /\ \/ why[t] = "watcher" /\ again /\ reloading' /\ ~again' /\ at'[t] = "reading"
         \/ why[t] = "watcher" /\ ~again /\ ~reloading' /\ ~again' /\ at'[t] = "over"
         \/ why[t] # "watcher" /\ reloading' = reloading /\ again' = again /\ at'[t] = "over"
  BY LeaveFacts
<1>3. again => reloading
  BY DEF Uncrossed, OneTask
<1>4. Underway' = IF at'[t] \in Loads \cup Saves THEN {t} ELSE {}
  BY <1>1, <1>2, AloneAfter
<1>5. CASE at'[t] = "reading"
  BY <1>1, <1>2, <1>4, <1>5, StageSets DEF OneTask
<1>6. CASE at'[t] = "over"
  <2>1. ~again /\ ~again' /\ ~reloading'
    BY <1>1, <1>2, <1>3, <1>6
  <2>2. Underway' = {}
    BY <1>4, <1>6, StageSets
  <2>3. OneTask'
    BY <2>1, <2>2 DEF OneTask
  <2> QED
    BY <1>1, <1>6, <2>1, <2>2, <2>3
<1> QED
  BY <1>2, <1>5, <1>6

(* With no task left, or a reload that starts over, it is enough that what *)
(* differs is accounted for by something else.                             *)
LEMMA EndAccounts ==
  ASSUME NEW t \in Task, OneTask',
         \/ at'[t] = "reading" /\ why'[t] = "watcher" /\ Underway' = {t}
         \/ /\ at'[t] = "over" /\ Underway' = {}
            /\ \A q \in Part : \/ local'[q] = onDisk'[q] \/ q \in ToCome' \/ Unresolved'
                              \/ syncState' # "synced"
  PROVE  Uncrossed'
<1>1. \A q \in Part : Accounted(q)'
  BY DEF Accounted, Settles
<1>2. ASSUME NEW u \in Underway' PROVE AppliesSoundly(u)'
  <2>1. at'[u] = "reading"
    BY <1>2
  <2> QED
    BY <2>1 DEF AppliesSoundly
<1> QED
  BY <1>1, <1>2 DEF Uncrossed

(* Every step that crosses nothing keeps whatever differs accounted for.   *)
LEMMA UncrossedKept ==
  ASSUME SyncInv, [SyncNext]_syncVars, ~crossed' PROVE Uncrossed'
<1>0. SyncTypeOK /\ TasksBegun /\ ~crossed /\ Uncrossed
  BY NotYet DEF SyncInv
<1>1. ASSUME NEW t \in Task, ReadItems(t) PROVE Uncrossed'
  <2>1. /\ at[t] = "reading" /\ at'[t] = "read"
        /\ \A u \in Task : u # t => at'[u] = at[u]
    BY <1>0, <1>1, MoveFacts, StageNames DEF ReadItems
  <2>2. /\ Underway = {t} /\ Underway' = {t} /\ (reloading <=> why[t] = "watcher")
        /\ at[t] \in Saves => why[t] # "watcher"
    BY <1>0, <2>1, Alone, AloneAfter, StageSets
  <2>3. /\ holds'[t]["items"] = onDisk["items"]
        /\ UNCHANGED <<local, onDisk, syncState>>
    <3>1. Hold(t, "items", onDisk["items"]) /\ onDisk["items"] \in Nat
      BY <1>0, <1>1, HeldFacts, PartNames DEF ReadItems
    <3>2. holds'[t]["items"] = onDisk["items"]
      BY <1>0, <3>1, HoldFacts, PartNames
    <3> QED
      BY <1>1, <3>2 DEF ReadItems, otherwise
  <2>4. UNCHANGED <<why, reloading, again, conflict>>
    BY <1>1 DEF ReadItems, otherwise
  <2>5. OneTask'
    BY ZenonT(40), <1>0, <2>1, <2>2, <2>3, <2>4, StageSets DEF Uncrossed, OneTask
  <2>6. ASSUME NEW q \in Part PROVE Accounted(q)'
    BY <1>0, <2>1, <2>2, <2>3, <2>4, PartNames
    DEF Uncrossed, OneTask, Accounted, Settles, Unresolved, AppliesSoundly
  <2>7. ASSUME NEW u \in Underway' PROVE AppliesSoundly(u)'
    BY <1>0, <2>1, <2>2, <2>3, <2>4, PartNames DEF Uncrossed, OneTask, AppliesSoundly
  <2> QED
    BY <2>5, <2>6, <2>7 DEF Uncrossed
<1>2. ASSUME NEW t \in Task, LoadFails(t) PROVE Uncrossed'
  <2>1. PICK answered \in BOOLEAN : GiveUp(t, answered) /\ Crossing(answered /\ why[t] = "dialog")
    BY <1>2 DEF LoadFails
  <2>2. at[t] = "reading" /\ Leave(t) /\ why' = why
    BY <1>0, <1>2, <2>1, GiveUpFacts DEF LoadFails
  <2>3. /\ Underway = {t} /\ OneTask'
        /\ \/ at'[t] = "reading" /\ why'[t] = "watcher" /\ Underway' = {t}
           \/ at'[t] = "over" /\ Underway' = {} /\ ~again
    BY <1>0, <2>2, EndFacts, StageSets
  <2>4. /\ conflict' <=> conflict
        /\ ToCome' = ToCome /\ UNCHANGED <<local, onDisk>>
        /\ syncState' = IF why[t] = "watcher" THEN "error" ELSE syncState
    <3>1. ~answered \/ why[t] # "dialog"
      BY <2>1 DEF Crossing
    <3> QED
      BY <1>0, <1>2, <2>1, <3>1, GiveUpFacts DEF LoadFails, ToCome, watcherVars
  <2>5. ASSUME at'[t] = "over", Underway' = {}, ~again, NEW q \in Part
        PROVE  \/ local'[q] = onDisk'[q] \/ q \in ToCome' \/ Unresolved'
               \/ syncState' # "synced"
    <3>1. CASE why[t] = "watcher"
      BY <2>4, <3>1
    <3>2. CASE why[t] # "watcher"
      <4>1. Unresolved => Unresolved'
        BY <2>4, <2>5 DEF Unresolved
      <4>2. ~Settles(t, q)
        BY <2>2, <3>2 DEF Settles
      <4> QED
        BY <1>0, <2>3, <2>4, <2>5, <3>2, <4>1, <4>2 DEF Uncrossed, Accounted
    <3> QED
      BY <3>1, <3>2
  <2> QED
    BY <2>3, <2>5, EndAccounts
<1>3. ASSUME NEW t \in Task, ApplyItems(t) PROVE Uncrossed'
  <2>1. /\ at[t] = "read" /\ at'[t] = "watching"
        /\ \A u \in Task : u # t => at'[u] = at[u]
    BY <1>0, <1>3, MoveFacts, StageNames DEF ApplyItems
  <2>2. /\ Underway = {t} /\ Underway' = {t} /\ (reloading <=> why[t] = "watcher")
        /\ at[t] \in Saves => why[t] # "watcher"
    BY <1>0, <2>1, Alone, AloneAfter, StageSets
  <2>3. /\ local'["items"] = holds[t]["items"] /\ local'["workflows"] = local["workflows"]
        /\ syncState' = "synced" /\ ToCome' = ToCome /\ UNCHANGED <<onDisk, holds>>
    <3>1. /\ local' = [local EXCEPT !["items"] = holds[t]["items"]]
          /\ holds[t]["items"] \in Nat
      BY <1>0, <1>3, HeldFacts, PartNames DEF ApplyItems
    <3>2. local'["items"] = holds[t]["items"] /\ local'["workflows"] = local["workflows"]
      BY <1>0, <3>1, PartNames DEF SyncTypeOK
    <3> QED
      BY <1>3, <3>2 DEF ApplyItems, ToCome, watcherVars, otherwise
  <2>4. UNCHANGED <<why, reloading, again, conflict>>
    BY <1>3 DEF ApplyItems, otherwise
  <2>5. OneTask'
    BY ZenonT(40), <1>0, <2>1, <2>2, <2>3, <2>4, StageSets DEF Uncrossed, OneTask
  <2>6. ASSUME NEW q \in Part PROVE Accounted(q)'
    BY <1>0, <2>1, <2>2, <2>3, <2>4, PartNames
    DEF Uncrossed, OneTask, Accounted, Settles, Unresolved, AppliesSoundly
  <2>7. ASSUME NEW u \in Underway' PROVE AppliesSoundly(u)'
    BY <1>0, <2>1, <2>2, <2>3, <2>4, PartNames DEF Uncrossed, OneTask, AppliesSoundly
  <2> QED
    BY <2>5, <2>6, <2>7 DEF Uncrossed
<1>4. ASSUME NEW t \in Task, Watch(t) PROVE Uncrossed'
  <2>1. /\ at[t] = "watching" /\ at'[t] = "reading workflows"
        /\ \A u \in Task : u # t => at'[u] = at[u]
    BY <1>0, <1>4, MoveFacts, StageNames DEF Watch
  <2>2. /\ Underway = {t} /\ Underway' = {t} /\ (reloading <=> why[t] = "watcher")
        /\ at[t] \in Saves => why[t] # "watcher"
    BY <1>0, <2>1, Alone, AloneAfter, StageSets
  <2>3. ToCome' = ToCome /\ UNCHANGED <<local, onDisk, syncState, holds>>
    BY <1>4 DEF Watch, ToCome, otherwise
  <2>4. UNCHANGED <<why, reloading, again, conflict>>
    BY <1>4 DEF Watch, otherwise
  <2>5. OneTask'
    BY ZenonT(40), <1>0, <2>1, <2>2, <2>3, <2>4, StageSets DEF Uncrossed, OneTask
  <2>6. ASSUME NEW q \in Part PROVE Accounted(q)'
    BY <1>0, <2>1, <2>2, <2>3, <2>4, PartNames
    DEF Uncrossed, OneTask, Accounted, Settles, Unresolved, AppliesSoundly
  <2>7. ASSUME NEW u \in Underway' PROVE AppliesSoundly(u)'
    BY <1>0, <2>1, <2>2, <2>3, <2>4, PartNames DEF Uncrossed, OneTask, AppliesSoundly
  <2> QED
    BY <2>5, <2>6, <2>7 DEF Uncrossed
<1>5. ASSUME NEW t \in Task, WatchFails(t) PROVE Uncrossed'
  <2>1. PICK answered \in BOOLEAN : GiveUp(t, answered)
    BY <1>5 DEF WatchFails
  <2>2. at[t] = "watching" /\ Leave(t) /\ why' = why
    BY <1>0, <1>5, <2>1, GiveUpFacts DEF WatchFails
  <2>3. /\ Underway = {t} /\ OneTask'
        /\ \/ at'[t] = "reading" /\ why'[t] = "watcher" /\ Underway' = {t}
           \/ at'[t] = "over" /\ Underway' = {} /\ ~again
    BY <1>0, <2>2, EndFacts, StageSets
  <2>4. syncState' = "error"
    BY <1>5 DEF WatchFails, Crossing
  <2> QED
    BY <2>3, <2>4, EndAccounts
<1>6. ASSUME NEW t \in Task, ReadWorkflows(t) PROVE Uncrossed'
  <2>1. /\ at[t] = "reading workflows" /\ at'[t] = "workflows read"
        /\ \A u \in Task : u # t => at'[u] = at[u]
    BY <1>0, <1>6, MoveFacts, StageNames DEF ReadWorkflows
  <2>2. /\ Underway = {t} /\ Underway' = {t} /\ (reloading <=> why[t] = "watcher")
        /\ at[t] \in Saves => why[t] # "watcher"
    BY <1>0, <2>1, Alone, AloneAfter, StageSets
  <2>3. /\ holds'[t]["workflows"] = onDisk["workflows"] /\ reports' = reports
        /\ unemitted' = unemitted /\ lost' = lost \ {"workflows"}
        /\ UNCHANGED <<local, onDisk, syncState>>
    <3>1. Hold(t, "workflows", onDisk["workflows"]) /\ onDisk["workflows"] \in Nat
      BY <1>0, <1>6, HeldFacts, PartNames DEF ReadWorkflows
    <3>2. holds'[t]["workflows"] = onDisk["workflows"]
      BY <1>0, <3>1, HoldFacts, PartNames
    <3> QED
      BY <1>6, <3>2 DEF ReadWorkflows, otherwise
  <2>4. UNCHANGED <<why, reloading, again, conflict>>
    BY <1>6 DEF ReadWorkflows, otherwise
  <2>5. OneTask'
    BY ZenonT(40), <1>0, <2>1, <2>2, <2>3, <2>4, StageSets DEF Uncrossed, OneTask
  <2>6. ASSUME NEW q \in Part PROVE Accounted(q)'
    <3>1. CASE q = "workflows"
      BY <2>1, <2>2, <2>3, <3>1 DEF Accounted, Settles
    <3>2. CASE q = "items"
      <4>1. ~Settles(t, q) /\ (q \in ToCome => q \in ToCome')
        BY <2>1, <2>3, <3>2 DEF Settles, ToCome
      <4>2. Unresolved' <=> Unresolved
        BY <2>1, <2>2, <2>4 DEF Unresolved
      <4> QED
        BY <1>0, <2>2, <2>3, <2>4, <4>1, <4>2 DEF Uncrossed, Accounted
    <3> QED
      BY <3>1, <3>2, PartNames
  <2>7. ASSUME NEW u \in Underway' PROVE AppliesSoundly(u)'
    BY <1>0, <2>1, <2>2, <2>3, <2>4, PartNames DEF Uncrossed, OneTask, AppliesSoundly
  <2> QED
    BY <2>5, <2>6, <2>7 DEF Uncrossed
<1>7. ASSUME NEW t \in Task, WorkflowsFail(t) PROVE Uncrossed'
  <2>1. PICK answered \in BOOLEAN : GiveUp(t, answered)
    BY <1>7 DEF WorkflowsFail
  <2>2. at[t] = "reading workflows" /\ Leave(t) /\ why' = why
    BY <1>0, <1>7, <2>1, GiveUpFacts DEF WorkflowsFail
  <2>3. /\ Underway = {t} /\ OneTask'
        /\ \/ at'[t] = "reading" /\ why'[t] = "watcher" /\ Underway' = {t}
           \/ at'[t] = "over" /\ Underway' = {} /\ ~again
    BY <1>0, <2>2, EndFacts, StageSets
  <2>4. syncState' = "error"
    BY <1>7 DEF WorkflowsFail
  <2> QED
    BY <2>3, <2>4, EndAccounts
<1>8. ASSUME NEW t \in Task, ApplyWorkflows(t) PROVE Uncrossed'
  <2>1. /\ at[t] = "workflows read" /\ Leave(t) /\ why' = why
        /\ conflict' <=> conflict /\ why[t] # "dialog"
    BY <1>0, <1>8, FinishFacts DEF ApplyWorkflows
  <2>2. /\ Underway = {t} /\ OneTask'
        /\ at[t] \in Saves => at'[t] = "over"
        /\ \/ at'[t] = "reading" /\ why'[t] = "watcher" /\ Underway' = {t}
           \/ at'[t] = "over" /\ Underway' = {} /\ ~again
    BY <1>0, <2>1, EndFacts, StageSets
  <2>3. /\ local'["workflows"] = holds[t]["workflows"] /\ local'["items"] = local["items"]
        /\ ToCome' = ToCome /\ UNCHANGED <<onDisk, syncState>>
    <3>1. /\ local' = [local EXCEPT !["workflows"] = holds[t]["workflows"]]
          /\ holds[t]["workflows"] \in Nat
      BY <1>0, <1>8, HeldFacts, PartNames DEF ApplyWorkflows
    <3>2. local'["workflows"] = holds[t]["workflows"] /\ local'["items"] = local["items"]
      BY <1>0, <3>1, PartNames DEF SyncTypeOK
    <3> QED
      BY <1>8, <3>2 DEF ApplyWorkflows, ToCome, watcherVars
  <2>4. ASSUME at'[t] = "over", Underway' = {}, ~again, NEW q \in Part
        PROVE  \/ local'[q] = onDisk'[q] \/ q \in ToCome' \/ Unresolved'
               \/ syncState' # "synced"
    <3>1. Unresolved => Unresolved'
      BY <2>1, <2>2, <2>4 DEF Unresolved
    <3>2. CASE q = "items"
      BY <1>0, <2>1, <2>2, <2>3, <2>4, <3>1, <3>2, PartNames DEF Uncrossed, Accounted, Settles
    <3>3. CASE q = "workflows"
      BY <1>0, <2>1, <2>2, <2>3, <2>4, <3>1, <3>3 DEF Uncrossed, AppliesSoundly
    <3> QED
      BY <3>2, <3>3, PartNames
  <2> QED
    BY <2>2, <2>4, EndAccounts
<1>9. ASSUME NEW t \in Task, WriteItems(t) PROVE Uncrossed'
  <2>1. /\ at[t] = "writing" /\ at'[t] = "written"
        /\ \A u \in Task : u # t => at'[u] = at[u]
    BY <1>0, <1>9, MoveFacts, StageNames DEF WriteItems
  <2>2. /\ Underway = {t} /\ Underway' = {t} /\ (reloading <=> why[t] = "watcher")
        /\ at[t] \in Saves => why[t] # "watcher"
    BY <1>0, <2>1, Alone, AloneAfter, StageSets
  <2>3. /\ onDisk'["items"] = holds[t]["items"] /\ UNCHANGED <<local, holds, syncState>>
    <3>1. /\ onDisk' = [onDisk EXCEPT !["items"] = holds[t]["items"]]
          /\ holds[t]["items"] \in Nat
      BY <1>0, <1>9, HeldFacts, PartNames DEF WriteItems
    <3>2. onDisk'["items"] = holds[t]["items"]
      BY <1>0, <3>1, PartNames DEF SyncTypeOK
    <3> QED
      BY <1>9, <3>2 DEF WriteItems, otherwise
  <2>4. UNCHANGED <<why, reloading, again, conflict>>
    BY <1>9 DEF WriteItems, otherwise
  <2>5. OneTask'
    BY ZenonT(40), <1>0, <2>1, <2>2, <2>3, <2>4, StageSets DEF Uncrossed, OneTask
  <2>6. ASSUME NEW q \in Part PROVE Accounted(q)'
    BY <1>0, <2>1, <2>2, <2>3 DEF Uncrossed, OneTask, Accounted
  <2>7. ASSUME NEW u \in Underway' PROVE AppliesSoundly(u)'
    BY <1>0, <2>1, <2>2, <2>3, <2>4, PartNames DEF Uncrossed, OneTask, AppliesSoundly
  <2> QED
    BY <2>5, <2>6, <2>7 DEF Uncrossed
<1>10. ASSUME NEW t \in Task, SaveFails(t) PROVE Uncrossed'
  <2>1. PICK answered \in BOOLEAN : GiveUp(t, answered)
    BY <1>10 DEF SaveFails
  <2>2. at[t] \in {"writing", "written"} /\ Leave(t) /\ why' = why
    BY <1>0, <1>10, <2>1, GiveUpFacts DEF SaveFails
  <2>3. /\ Underway = {t} /\ OneTask'
        /\ \/ at'[t] = "reading" /\ why'[t] = "watcher" /\ Underway' = {t}
           \/ at'[t] = "over" /\ Underway' = {} /\ ~again
    BY <1>0, <2>2, EndFacts, StageSets
  <2>4. syncState # "synced"
    BY <1>0, <2>2, <2>3 DEF Uncrossed, OneTask
  <2>5. syncState' \in {syncState, "error"}
    BY <1>10 DEF SaveFails
  <2> QED
    BY <2>3, <2>4, <2>5, EndAccounts
<1>11. ASSUME NEW t \in Task, ItemsSaved(t) PROVE Uncrossed'
  <2>1. /\ at[t] = "written" /\ at'[t] = "writing workflows"
        /\ \A u \in Task : u # t => at'[u] = at[u]
    BY <1>0, <1>11, MoveFacts, StageNames DEF ItemsSaved
  <2>2. /\ Underway = {t} /\ Underway' = {t} /\ (reloading <=> why[t] = "watcher")
        /\ at[t] \in Saves => why[t] # "watcher"
    BY <1>0, <2>1, Alone, AloneAfter, StageSets
  <2>3. /\ holds'[t]["workflows"] = local["workflows"] /\ ToCome' = ToCome
        /\ UNCHANGED <<local, onDisk>>
    <3>1. Hold(t, "workflows", local["workflows"]) /\ local["workflows"] \in Nat
      BY <1>0, <1>11, HeldFacts, PartNames DEF ItemsSaved
    <3>2. holds'[t]["workflows"] = local["workflows"]
      BY <1>0, <3>1, HoldFacts, PartNames
    <3> QED
      BY <1>11, <3>2 DEF ItemsSaved, ToCome, watcherVars, otherwise
  <2>4. UNCHANGED <<why, reloading, again, conflict>>
    BY <1>11 DEF ItemsSaved, otherwise
  <2>5. OneTask'
    BY ZenonT(40), <1>0, <2>1, <2>2, <2>3, <2>4, StageSets DEF Uncrossed, OneTask
  <2>6. ASSUME NEW q \in Part PROVE Accounted(q)'
    BY <1>0, <2>1, <2>2, <2>3, <2>4, PartNames
    DEF Uncrossed, OneTask, Accounted, Settles, Unresolved, AppliesSoundly
  <2>7. ASSUME NEW u \in Underway' PROVE AppliesSoundly(u)'
    BY <1>0, <2>1, <2>2, <2>3, <2>4, PartNames DEF Uncrossed, OneTask, AppliesSoundly
  <2> QED
    BY <2>5, <2>6, <2>7 DEF Uncrossed
<1>12. ASSUME NEW t \in Task, WriteWorkflows(t) PROVE Uncrossed'
  <2>1. /\ at[t] = "writing workflows" /\ Leave(t) /\ why' = why
        /\ conflict' <=> conflict /\ why[t] # "dialog"
    BY <1>0, <1>12, FinishFacts DEF WriteWorkflows
  <2>2. /\ Underway = {t} /\ OneTask'
        /\ at[t] \in Saves => at'[t] = "over"
        /\ \/ at'[t] = "reading" /\ why'[t] = "watcher" /\ Underway' = {t}
           \/ at'[t] = "over" /\ Underway' = {} /\ ~again
    BY <1>0, <2>1, EndFacts, StageSets
  <2>3. /\ onDisk'["items"] = onDisk["items"] /\ UNCHANGED <<local, syncState>>
        /\ "workflows" \in ToCome' /\ ("items" \in ToCome => "items" \in ToCome')
    <3>1. /\ onDisk' = [onDisk EXCEPT !["workflows"] = holds[t]["workflows"]]
          /\ UNCHANGED <<local, syncState>>
      BY <1>12 DEF WriteWorkflows, PutWorkflows
    <3>2. onDisk'["items"] = onDisk["items"]
      BY <1>0, <3>1, PartNames DEF SyncTypeOK
    <3>3. /\ "workflows" \in ToCome' /\ ("items" \in ToCome => "items" \in ToCome')
      BY <1>12 DEF WriteWorkflows, PutWorkflows, ToCome
    <3> QED
      BY <3>1, <3>2, <3>3
  <2>4. ASSUME at'[t] = "over", Underway' = {}, ~again, NEW q \in Part
        PROVE  \/ local'[q] = onDisk'[q] \/ q \in ToCome' \/ Unresolved'
               \/ syncState' # "synced"
    <3>1. Unresolved => Unresolved'
      BY <2>1, <2>2, <2>4 DEF Unresolved
    <3>2. CASE q = "items"
      BY <1>0, <2>1, <2>2, <2>3, <2>4, <3>1, <3>2, PartNames DEF Uncrossed, Accounted, Settles
    <3>3. CASE q = "workflows"
      BY <2>3, <3>3
    <3> QED
      BY <3>2, <3>3, PartNames
  <2> QED
    BY <2>2, <2>4, EndAccounts
<1>13. ASSUME NEW t \in Task, WorkflowsNotSaved(t) PROVE Uncrossed'
  <2>1. PICK answered \in BOOLEAN : GiveUp(t, answered)
    BY <1>13 DEF WorkflowsNotSaved
  <2>2. at[t] = "writing workflows" /\ Leave(t) /\ why' = why
    BY <1>0, <1>13, <2>1, GiveUpFacts DEF WorkflowsNotSaved
  <2>3. /\ Underway = {t} /\ OneTask'
        /\ \/ at'[t] = "reading" /\ why'[t] = "watcher" /\ Underway' = {t}
           \/ at'[t] = "over" /\ Underway' = {} /\ ~again
    BY <1>0, <2>2, EndFacts, StageSets
  <2>4. syncState' = "error"
    BY <1>13 DEF WorkflowsNotSaved
  <2> QED
    BY <2>3, <2>4, EndAccounts
<1>14. ASSUME NEW t \in Task, Reload(t) PROVE Uncrossed'
  <2>1. /\ Enter(t, "user", "reading") /\ Underway = {}
        /\ UNCHANGED <<local, onDisk, conflict, reloading, again>> /\ ToCome' = ToCome
        /\ syncState' = syncState
    BY <1>14 DEF Reload, Crossing, ToCome, watcherVars
  <2>2. /\ at'[t] = "reading" /\ why'[t] = "user" /\ holds'[t] = local
        /\ \A u \in Task : u # t => at'[u] = at[u]
    BY <1>0, <2>1, EnterFacts, StageNames
  <2>3. Underway' = {t}
    BY <2>1, <2>2, AloneAfter, StageSets
  <2>4. OneTask'
    BY ZenonT(40), <1>0, <2>1, <2>2, <2>3, StageSets DEF Uncrossed, OneTask
  <2>5. Unresolved => Unresolved'
    BY <2>1, <2>2, <2>3 DEF Unresolved
  <2>6. ASSUME NEW q \in Part PROVE Accounted(q)'
    BY <1>0, <2>1, <2>5 DEF Uncrossed, Accounted
  <2>7. ASSUME NEW u \in Underway' PROVE AppliesSoundly(u)'
    BY <2>2, <2>3 DEF AppliesSoundly
  <2> QED
    BY <2>4, <2>6, <2>7 DEF Uncrossed
<1>15. ASSUME NEW t \in Task, Sync(t) PROVE Uncrossed'
  <2>1. /\ Enter(t, "user", "writing") /\ Underway = {}
        /\ UNCHANGED <<local, onDisk, conflict, reloading, again>> /\ ToCome' = ToCome
        /\ syncState' = "loading"
    BY <1>15 DEF Sync, Crossing, ToCome, watcherVars
  <2>2. /\ at'[t] = "writing" /\ why'[t] = "user" /\ holds'[t] = local
        /\ \A u \in Task : u # t => at'[u] = at[u]
    BY <1>0, <2>1, EnterFacts, StageNames
  <2>3. Underway' = {t}
    BY <2>1, <2>2, AloneAfter, StageSets
  <2>4. OneTask'
    BY ZenonT(40), <1>0, <2>1, <2>2, <2>3, StageSets DEF Uncrossed, OneTask
  <2>6. ASSUME NEW q \in Part PROVE Accounted(q)'
    BY <2>1 DEF Accounted
  <2>7. ASSUME NEW u \in Underway' PROVE AppliesSoundly(u)'
    BY <2>2, <2>3 DEF AppliesSoundly
  <2> QED
    BY <2>4, <2>6, <2>7 DEF Uncrossed
<1>16. ASSUME NEW t \in Task, LoadExternal(t) PROVE Uncrossed'
  <2>1. /\ Enter(t, "dialog", "reading") /\ Underway = {}
        /\ UNCHANGED <<local, onDisk, conflict, reloading, again>> /\ ToCome' = ToCome
        /\ syncState' = syncState
    BY <1>16 DEF LoadExternal, Crossing, ToCome, watcherVars
  <2>2. /\ at'[t] = "reading" /\ why'[t] = "dialog" /\ holds'[t] = local
        /\ \A u \in Task : u # t => at'[u] = at[u]
    BY <1>0, <2>1, EnterFacts, StageNames
  <2>3. Underway' = {t}
    BY <2>1, <2>2, AloneAfter, StageSets
  <2>4. OneTask'
    BY ZenonT(40), <1>0, <2>1, <2>2, <2>3, StageSets DEF Uncrossed, OneTask
  <2>5. Unresolved => Unresolved'
    BY <2>1, <2>2, <2>3 DEF Unresolved
  <2>6. ASSUME NEW q \in Part PROVE Accounted(q)'
    BY <1>0, <2>1, <2>5 DEF Uncrossed, Accounted
  <2>7. ASSUME NEW u \in Underway' PROVE AppliesSoundly(u)'
    BY <2>2, <2>3 DEF AppliesSoundly
  <2> QED
    BY <2>4, <2>6, <2>7 DEF Uncrossed
<1>17. ASSUME NEW t \in Task, KeepLocal(t) PROVE Uncrossed'
  <2>1. /\ Enter(t, "dialog", "writing") /\ Underway = {}
        /\ UNCHANGED <<local, onDisk, conflict, reloading, again>> /\ ToCome' = ToCome
        /\ syncState' = "loading"
    BY <1>17 DEF KeepLocal, Crossing, ToCome, watcherVars
  <2>2. /\ at'[t] = "writing" /\ why'[t] = "dialog" /\ holds'[t] = local
        /\ \A u \in Task : u # t => at'[u] = at[u]
    BY <1>0, <2>1, EnterFacts, StageNames
  <2>3. Underway' = {t}
    BY <2>1, <2>2, AloneAfter, StageSets
  <2>4. OneTask'
    BY ZenonT(40), <1>0, <2>1, <2>2, <2>3, StageSets DEF Uncrossed, OneTask
  <2>6. ASSUME NEW q \in Part PROVE Accounted(q)'
    BY <2>1 DEF Accounted
  <2>7. ASSUME NEW u \in Underway' PROVE AppliesSoundly(u)'
    BY <2>2, <2>3 DEF AppliesSoundly
  <2> QED
    BY <2>4, <2>6, <2>7 DEF Uncrossed
<1>18. ASSUME NEW p \in Part, UserEdit(p) PROVE Uncrossed'
  <2>1. /\ ~SaveUnderway
        /\ syncState' = IF syncState = "synced" THEN "modified" ELSE syncState
        /\ UNCHANGED <<onDisk, conflict, why, at, holds, reloading, again>> /\ ToCome' = ToCome
    BY <1>18 DEF UserEdit, Crossing, taskVars, ToCome, watcherVars
  <2>2. Underway' = Underway
    BY <2>1 DEF Underway
  <2>3. \A t \in Underway : at[t] \notin Saves
    BY <2>1 DEF SaveUnderway
  <2>4. OneTask'
    BY ZenonT(40), <1>0, <2>1, <2>2, <2>3, StageSets DEF Uncrossed, OneTask
  <2>5. ASSUME NEW q \in Part PROVE Accounted(q)'
    BY <2>1 DEF Accounted
  <2>6. ASSUME NEW u \in Underway' PROVE AppliesSoundly(u)'
    BY <1>0, <2>1, <2>2, <2>3, StageSets DEF Uncrossed, AppliesSoundly, Unresolved
  <2> QED
    BY <2>4, <2>5, <2>6 DEF Uncrossed
<1>19. ASSUME NEW p \in Part, DiskEdit(p) PROVE Uncrossed'
  <2>1. /\ onDisk' = [onDisk EXCEPT ![p] = MaxUserEdits + diskEdits']
        /\ UNCHANGED <<local, syncState, conflict, why, at, holds, reloading, again>>
    BY <1>19 DEF DiskEdit, taskVars
  <2>2. Underway' = Underway
    BY <2>1 DEF Underway
  <2>3. /\ \A q \in Part : q # p => onDisk'[q] = onDisk[q]
        /\ p \in ToCome' /\ \A q \in Part : q # p => (q \in ToCome' <=> q \in ToCome)
    BY <1>0, <1>19, <2>1 DEF DiskEdit, ToCome, SyncTypeOK
  <2>4. OneTask'
    BY <1>0, <2>1, <2>2 DEF Uncrossed, OneTask
  <2>5. Unresolved' <=> Unresolved
    BY <2>1, <2>2 DEF Unresolved
  <2>6. ASSUME NEW q \in Part PROVE Accounted(q)'
    <3>1. CASE q = p
      BY <2>3, <3>1 DEF Accounted
    <3>2. CASE q # p
      <4>1. onDisk'[q] = onDisk[q] /\ Accounted(q)
        BY <1>0, <2>3, <3>2 DEF Uncrossed
      <4>2. \A t \in Underway : Settles(t, q)' <=> Settles(t, q)
        BY <2>1, <4>1 DEF Settles
      <4> QED
        BY <2>1, <2>2, <2>3, <2>5, <3>2, <4>1, <4>2 DEF Accounted
    <3> QED
      BY <3>1, <3>2
  <2>7. ASSUME NEW u \in Underway' PROVE AppliesSoundly(u)'
    BY <1>0, <2>1, <2>2, <2>3, <2>5, PartNames DEF Uncrossed, AppliesSoundly
  <2> QED
    BY <2>4, <2>6, <2>7 DEF Uncrossed
<1>20. ASSUME NEW p \in Part, Emit(p) PROVE Uncrossed'
  <2>1. /\ UNCHANGED <<local, onDisk, syncState, conflict, why, at, holds, reloading, again>>
        /\ ToCome' = ToCome
    BY <1>20 DEF Emit, taskVars, ToCome
  <2>2. Underway' = Underway
    BY <2>1 DEF Underway
  <2>3. OneTask'
    BY <1>0, <2>1, <2>2 DEF Uncrossed, OneTask
  <2>4. Unresolved' <=> Unresolved
    BY <2>1, <2>2 DEF Unresolved
  <2>5. ASSUME NEW q \in Part PROVE Accounted(q)'
    <3>1. \A t \in Underway : Settles(t, q)' <=> Settles(t, q)
      BY <2>1, <2>2 DEF Settles
    <3> QED
      BY <1>0, <2>1, <2>2, <2>4, <3>1 DEF Uncrossed, Accounted
  <2>6. ASSUME NEW u \in Underway' PROVE AppliesSoundly(u)'
    BY <1>0, <2>1, <2>2, <2>4 DEF Uncrossed, AppliesSoundly
  <2> QED
    BY <2>3, <2>5, <2>6 DEF Uncrossed
<1>21. ASSUME NEW p \in Part, LookAt(p) PROVE Uncrossed'
  <2>1. /\ UNCHANGED <<local, onDisk, syncState, conflict, why, at, holds, reloading, again>>
        /\ ToCome' = ToCome
    BY <1>21 DEF LookAt, taskVars, ToCome
  <2>2. Underway' = Underway
    BY <2>1 DEF Underway
  <2>3. OneTask'
    BY <1>0, <2>1, <2>2 DEF Uncrossed, OneTask
  <2>4. Unresolved' <=> Unresolved
    BY <2>1, <2>2 DEF Unresolved
  <2>5. ASSUME NEW q \in Part PROVE Accounted(q)'
    <3>1. \A t \in Underway : Settles(t, q)' <=> Settles(t, q)
      BY <2>1, <2>2 DEF Settles
    <3> QED
      BY <1>0, <2>1, <2>2, <2>4, <3>1 DEF Uncrossed, Accounted
  <2>6. ASSUME NEW u \in Underway' PROVE AppliesSoundly(u)'
    BY <1>0, <2>1, <2>2, <2>4 DEF Uncrossed, AppliesSoundly
  <2> QED
    BY <2>3, <2>5, <2>6 DEF Uncrossed
<1>22. ASSUME NEW p \in Part, FileChanged(p) PROVE Uncrossed'
  <2>1. /\ \A t \in ByUser : Conflicts /\ why[t] # "dialog"
        /\ UNCHANGED <<local, onDisk>>
    BY <1>22 DEF FileChanged, Crossing
  <2>2. \A t \in Underway : t \notin ByUser => why[t] = "watcher" /\ at[t] \notin Saves
    BY <1>0 DEF ByUser, Uncrossed, OneTask
  <2>3. CASE RaiseConflict
    <3>1. /\ conflict' = TRUE /\ syncState' = "conflict"
          /\ UNCHANGED <<begun, why, at, holds, reloading, again>>
      BY <2>3 DEF RaiseConflict, taskVars
    <3>2. Underway' = Underway
      BY <3>1 DEF Underway
    <3>3. Unresolved'
      BY <2>1, <2>2, <3>1, <3>2 DEF Unresolved
    <3>4. OneTask'
      BY <1>0, <2>1, <3>1, <3>2 DEF Uncrossed, OneTask
    <3> QED
      BY <3>3, <3>4 DEF Uncrossed, Accounted, AppliesSoundly
  <2>4. CASE Coalesce
    <3>1. /\ reloading /\ again' = TRUE /\ ~Conflicts
          /\ UNCHANGED <<conflict, syncState, begun, why, at, holds, reloading>>
      BY <2>4 DEF Coalesce, taskVars
    <3>2. Underway' = Underway
      BY <3>1 DEF Underway
    <3>3. OneTask'
      BY <1>0, <2>1, <3>1, <3>2 DEF Uncrossed, OneTask
    <3>4. \A t \in Underway' : at'[t] \notin Saves
      BY <2>1, <2>2, <3>1, <3>2
    <3> QED
      BY <3>1, <3>3, <3>4, StageSets DEF Uncrossed, Accounted, AppliesSoundly
  <2>5. CASE StartReload
    <3>1. PICK t \in Task : Enter(t, "watcher", "reading")
      BY <2>5 DEF StartReload
    <3>2. /\ ~Conflicts /\ ~reloading /\ reloading' = TRUE
          /\ UNCHANGED <<conflict, syncState, again>>
      BY <2>5 DEF StartReload
    <3>3. Underway = {} /\ ~again
      BY <1>0, <2>1, <2>2, <3>2 DEF Uncrossed, OneTask
    <3>4. /\ at'[t] = "reading" /\ why'[t] = "watcher"
          /\ \A u \in Task : u # t => at'[u] = at[u]
      BY <1>0, <3>1, EnterFacts, StageNames
    <3>5. Underway' = {t}
      BY <3>3, <3>4, AloneAfter, StageSets
    <3>6. OneTask'
      BY <3>2, <3>3, <3>4, <3>5, StageSets DEF OneTask
    <3> QED
      BY <3>4, <3>5, <3>6 DEF Uncrossed, Accounted, Settles, AppliesSoundly
  <2> QED
    BY <1>22, <2>3, <2>4, <2>5 DEF FileChanged
<1>23. ASSUME Dismiss PROVE Uncrossed'
  BY <1>23 DEF Dismiss, Crossing
<1>24. CASE UNCHANGED syncVars
  <2>1. /\ UNCHANGED <<local, onDisk, syncState, conflict, why, at, holds, reloading, again>>
        /\ ToCome' = ToCome
    BY <1>24 DEF syncVars, taskVars, watcherVars, ToCome
  <2>2. Underway' = Underway
    BY <2>1 DEF Underway
  <2>3. OneTask'
    BY <1>0, <2>1, <2>2 DEF Uncrossed, OneTask
  <2>4. Unresolved' <=> Unresolved
    BY <2>1, <2>2 DEF Unresolved
  <2>5. ASSUME NEW q \in Part PROVE Accounted(q)'
    <3>1. \A t \in Underway : Settles(t, q)' <=> Settles(t, q)
      BY <2>1, <2>2 DEF Settles
    <3> QED
      BY <1>0, <2>1, <2>2, <2>4, <3>1 DEF Uncrossed, Accounted
  <2>6. ASSUME NEW u \in Underway' PROVE AppliesSoundly(u)'
    BY <1>0, <2>1, <2>2, <2>4 DEF Uncrossed, AppliesSoundly
  <2> QED
    BY <2>3, <2>5, <2>6 DEF Uncrossed
<1> QED
  BY <1>1, <1>2, <1>3, <1>4, <1>5, <1>6, <1>7, <1>8, <1>9, <1>10, <1>11,
     <1>12, <1>13, <1>14, <1>15, <1>16, <1>17, <1>18, <1>19, <1>20, <1>21, <1>22, <1>23, <1>24
  DEF SyncNext, TaskStep

(* The invariant that accounts for every difference between the stores and *)
(* the directory holds throughout: whatever task steps, fails or is cut    *)
(* short, whatever watcher is replaced, and whatever the user or another   *)
(* program does meanwhile.                                                 *)
THEOREM SyncInvariance == SyncSpec => []SyncInv
<1>1. SyncInit => SyncInv
  <2> SUFFICES ASSUME SyncInit PROVE SyncInv
    OBVIOUS
  <2>1. SyncTypeOK
    <3>1. local \in [Part -> Nat] /\ onDisk \in [Part -> Nat]
      BY DEF SyncInit
    <3>2. begun \in 0 .. MaxTasks
      BY SyncAssumption DEF SyncInit
    <3>3. at \in [Task -> Stage]
      BY StageNames DEF SyncInit
    <3>4. holds \in [Task -> [Part -> Nat]]
      BY <3>1 DEF SyncInit
    <3> QED
      BY <3>1, <3>2, <3>3, <3>4 DEF SyncInit, SyncTypeOK
  <2>2. TasksBegun
    BY DEF SyncInit, TasksBegun, Task
  <2>3. Underway = {}
    BY StageSets DEF SyncInit, Underway
  <2>4. OneTask
    BY <2>3 DEF SyncInit, OneTask
  <2>5. \A p \in Part : Accounted(p)
    BY DEF SyncInit, Accounted
  <2> QED
    BY <2>1, <2>2, <2>3, <2>4, <2>5 DEF SyncInv, Uncrossed
<1>2. SyncInv /\ [SyncNext]_syncVars => SyncInv'
  BY SyncTypesKept, TasksBegunKept, UncrossedKept DEF SyncInv
<1> QED
  BY <1>1, <1>2, PTL DEF SyncSpec

(* A collection shown as synced, with nothing under way, on its way or in  *)
(* conflict, is what the directory holds, but for the edits that nothing   *)
(* reports, unless the user crossed two operations.                        *)
THEOREM SettledAgrees == SyncSpec => []SettledIsDisk
<1>1. SyncInv => SettledIsDisk
  <2> SUFFICES ASSUME SyncInv, Underway = {}, unemitted = {}, reports = {},
                      syncState = "synced", ~conflict, ~crossed, NEW p \in Part
               PROVE  local[p] = onDisk[p] \/ p \in lost
    BY DEF SettledIsDisk
  <2>1. Uncrossed /\ ~reloading /\ ~again
    BY DEF SyncInv, Uncrossed, OneTask
  <2> QED
    BY <2>1 DEF Uncrossed, Accounted, Unresolved, ToCome
<1> QED
  BY <1>1, SyncInvariance, PTL

-------------------------------------------------------------------------------
(* The saving of a collection to its directory                             *)

Field == {"previous", "before", "manifest", "next", "backup", "todo", "at", "mutations",
          "start", "touched", "cut", "alone"}

(* The names of the local variables.                                       *)
LEMMA FieldsAre == \A v \in Locals : DOMAIN v = Field
  BY DEF Locals, Field

(* A save that begins has its local variables.                             *)
LEMMA StartedFits == Started \in Locals
<1>1. ASSUME NEW a \in SUBSET File, NEW b \in [File -> Known \cup {Unread}],
             NEW k \in [File -> Known], NEW m \in Seq(File),
             NEW u \in (SUBSET File) \cup {Unread}, NEW w \in File \cup {Unread}
      PROVE  [previous |-> a, before |-> b, manifest |-> u, next |-> a, backup |-> k,
              todo |-> a, at |-> w, mutations |-> m, start |-> k, touched |-> a,
              cut |-> FALSE, alone |-> TRUE] \in Locals
  BY DEF Locals
<1>2. {} \in SUBSET File /\ Unread \in (SUBSET File) \cup {Unread} /\ Unread \in File \cup {Unread}
  OBVIOUS
<1>5. <<>> \in Seq(File)
  OBVIOUS
<1>3. [f \in File |-> Unread] \in [File -> Known \cup {Unread}]
  OBVIOUS
<1>4. [f \in File |-> Absent] \in [File -> Known]
  BY DEF Known
<1> QED
  BY <1>1, <1>2, <1>3, <1>4, <1>5 DEF Started

(* A save that sets some of its local variables keeps the others, and the   *)
(* others keep theirs; here it names the file it has checked.               *)
LEMMA SetAt ==
  ASSUME NEW s \in Save, save \in [Save -> Locals],
         NEW newAt \in File \cup {Unread},
         Set(s, [at |-> newAt])
  PROVE  /\ save' \in [Save -> Locals] /\ \A t \in Save : t # s => save'[t] = save[t]
         /\ save'[s] = [save[s] EXCEPT !.at = newAt]
<1>1. /\ DOMAIN save' = Save /\ save' = [t \in Save |-> save'[t]]
      /\ \A t \in Save : t # s => save'[t] = save[t]
  BY DEF Set
<1>2. save'[s] = [x \in Field |->
          IF x = "at" THEN newAt ELSE save[s][x]]
  BY FieldsAre DEF Set
<1>3. save[s] \in Locals
  OBVIOUS
<1>4. save'[s] = [save[s] EXCEPT !.at = newAt]
  BY <1>2, <1>3 DEF Locals, Field
<1>5. save'[s] \in Locals
  BY <1>3, <1>4 DEF Locals
<1> QED
  BY <1>1, <1>4, <1>5

(* The same for what it has recorded of its mutations.                      *)
LEMMA SetMutations ==
  ASSUME NEW s \in Save, save \in [Save -> Locals],
         NEW newMutations \in Seq(File),
         Set(s, [mutations |-> newMutations])
  PROVE  /\ save' \in [Save -> Locals] /\ \A t \in Save : t # s => save'[t] = save[t]
         /\ save'[s] = [save[s] EXCEPT !.mutations = newMutations]
<1>1. /\ DOMAIN save' = Save /\ save' = [t \in Save |-> save'[t]]
      /\ \A t \in Save : t # s => save'[t] = save[t]
  BY DEF Set
<1>2. save'[s] = [x \in Field |->
          IF x = "mutations" THEN newMutations ELSE save[s][x]]
  BY FieldsAre DEF Set
<1>3. save[s] \in Locals
  OBVIOUS
<1>4. save'[s] = [save[s] EXCEPT !.mutations = newMutations]
  BY <1>2, <1>3 DEF Locals, Field
<1>5. save'[s] \in Locals
  BY <1>3, <1>4 DEF Locals
<1> QED
  BY <1>1, <1>4, <1>5

(* The same for the manifest that it read.                                  *)
LEMMA SetManifest ==
  ASSUME NEW s \in Save, save \in [Save -> Locals],
         NEW newManifest \in (SUBSET File) \cup {Unread},
         Set(s, [manifest |-> newManifest])
  PROVE  /\ save' \in [Save -> Locals] /\ \A t \in Save : t # s => save'[t] = save[t]
         /\ save'[s] = [save[s] EXCEPT !.manifest = newManifest]
<1>1. /\ DOMAIN save' = Save /\ save' = [t \in Save |-> save'[t]]
      /\ \A t \in Save : t # s => save'[t] = save[t]
  BY DEF Set
<1>2. save'[s] = [x \in Field |->
          IF x = "manifest" THEN newManifest ELSE save[s][x]]
  BY FieldsAre DEF Set
<1>3. save[s] \in Locals
  OBVIOUS
<1>4. save'[s] = [save[s] EXCEPT !.manifest = newManifest]
  BY <1>2, <1>3 DEF Locals, Field
<1>5. save'[s] \in Locals
  BY <1>3, <1>4 DEF Locals
<1> QED
  BY <1>1, <1>4, <1>5

(* The same for the files it found and their fingerprints.                  *)
LEMMA SetSnapshot ==
  ASSUME NEW s \in Save, save \in [Save -> Locals],
         NEW newPrevious \in SUBSET File, NEW newBefore \in [File -> Known \cup {Unread}],
         Set(s, [previous |-> newPrevious, before |-> newBefore])
  PROVE  /\ save' \in [Save -> Locals] /\ \A t \in Save : t # s => save'[t] = save[t]
         /\ save'[s] = [save[s] EXCEPT !.previous = newPrevious, !.before = newBefore]
<1>1. /\ DOMAIN save' = Save /\ save' = [t \in Save |-> save'[t]]
      /\ \A t \in Save : t # s => save'[t] = save[t]
  BY DEF Set
<1>2. save'[s] = [x \in Field |->
          IF x = "previous" THEN newPrevious ELSE IF x = "before" THEN newBefore ELSE save[s][x]]
  BY FieldsAre DEF Set
<1>3. save[s] \in Locals
  OBVIOUS
<1>4. save'[s] = [save[s] EXCEPT !.previous = newPrevious, !.before = newBefore]
  BY <1>2, <1>3 DEF Locals, Field
<1>5. save'[s] \in Locals
  BY <1>3, <1>4 DEF Locals
<1> QED
  BY <1>1, <1>4, <1>5

(* The same for the backup and the files it has to come to.                 *)
LEMMA SetBackup ==
  ASSUME NEW s \in Save, save \in [Save -> Locals],
         NEW newBackup \in [File -> Known], NEW newTodo \in SUBSET File,
         Set(s, [backup |-> newBackup, todo |-> newTodo])
  PROVE  /\ save' \in [Save -> Locals] /\ \A t \in Save : t # s => save'[t] = save[t]
         /\ save'[s] = [save[s] EXCEPT !.backup = newBackup, !.todo = newTodo]
<1>1. /\ DOMAIN save' = Save /\ save' = [t \in Save |-> save'[t]]
      /\ \A t \in Save : t # s => save'[t] = save[t]
  BY DEF Set
<1>2. save'[s] = [x \in Field |->
          IF x = "backup" THEN newBackup ELSE IF x = "todo" THEN newTodo ELSE save[s][x]]
  BY FieldsAre DEF Set
<1>3. save[s] \in Locals
  OBVIOUS
<1>4. save'[s] = [save[s] EXCEPT !.backup = newBackup, !.todo = newTodo]
  BY <1>2, <1>3 DEF Locals, Field
<1>5. save'[s] \in Locals
  BY <1>3, <1>4 DEF Locals
<1> QED
  BY <1>1, <1>4, <1>5

(* The same for a file restored and no longer among the mutations.          *)
LEMMA SetUndone ==
  ASSUME NEW s \in Save, save \in [Save -> Locals],
         NEW newAt \in File \cup {Unread}, NEW newMutations \in Seq(File),
         Set(s, [at |-> newAt, mutations |-> newMutations])
  PROVE  /\ save' \in [Save -> Locals] /\ \A t \in Save : t # s => save'[t] = save[t]
         /\ save'[s] = [save[s] EXCEPT !.at = newAt, !.mutations = newMutations]
<1>1. /\ DOMAIN save' = Save /\ save' = [t \in Save |-> save'[t]]
      /\ \A t \in Save : t # s => save'[t] = save[t]
  BY DEF Set
<1>2. save'[s] = [x \in Field |->
          IF x = "at" THEN newAt ELSE IF x = "mutations" THEN newMutations ELSE save[s][x]]
  BY FieldsAre DEF Set
<1>3. save[s] \in Locals
  OBVIOUS
<1>4. save'[s] = [save[s] EXCEPT !.at = newAt, !.mutations = newMutations]
  BY <1>2, <1>3 DEF Locals, Field
<1>5. save'[s] \in Locals
  BY <1>3, <1>4 DEF Locals
<1> QED
  BY <1>1, <1>4, <1>5

(* The same for a file whose own mutation failed.                           *)
LEMMA SetTouched ==
  ASSUME NEW s \in Save, save \in [Save -> Locals],
         NEW newAt \in File \cup {Unread}, NEW newTouched \in SUBSET File,
         Set(s, [at |-> newAt, touched |-> newTouched])
  PROVE  /\ save' \in [Save -> Locals] /\ \A t \in Save : t # s => save'[t] = save[t]
         /\ save'[s] = [save[s] EXCEPT !.at = newAt, !.touched = newTouched]
<1>1. /\ DOMAIN save' = Save /\ save' = [t \in Save |-> save'[t]]
      /\ \A t \in Save : t # s => save'[t] = save[t]
  BY DEF Set
<1>2. save'[s] = [x \in Field |->
          IF x = "at" THEN newAt ELSE IF x = "touched" THEN newTouched ELSE save[s][x]]
  BY FieldsAre DEF Set
<1>3. save[s] \in Locals
  OBVIOUS
<1>4. save'[s] = [save[s] EXCEPT !.at = newAt, !.touched = newTouched]
  BY <1>2, <1>3 DEF Locals, Field
<1>5. save'[s] \in Locals
  BY <1>3, <1>4 DEF Locals
<1> QED
  BY <1>1, <1>4, <1>5

(* The same for a file mutated, recorded and no longer to be done.          *)
LEMMA SetWritten ==
  ASSUME NEW s \in Save, save \in [Save -> Locals],
         NEW newAt \in File \cup {Unread}, NEW newTodo \in SUBSET File,
         NEW newMutations \in Seq(File),
         Set(s, [at |-> newAt, todo |-> newTodo, mutations |-> newMutations])
  PROVE  /\ save' \in [Save -> Locals] /\ \A t \in Save : t # s => save'[t] = save[t]
         /\ save'[s].previous = save[s].previous
         /\ save'[s].before = save[s].before
         /\ save'[s].manifest = save[s].manifest
         /\ save'[s].next = save[s].next
         /\ save'[s].backup = save[s].backup
         /\ save'[s].todo = newTodo
         /\ save'[s].at = newAt
         /\ save'[s].mutations = newMutations
         /\ save'[s].start = save[s].start
         /\ save'[s].touched = save[s].touched
         /\ save'[s].cut = save[s].cut /\ save'[s].alone = save[s].alone
<1>1. /\ DOMAIN save' = Save /\ save' = [t \in Save |-> save'[t]]
      /\ \A t \in Save : t # s => save'[t] = save[t]
  BY DEF Set
<1>2. save'[s] = [x \in Field |->
          IF x = "at" THEN newAt ELSE IF x = "todo" THEN newTodo
          ELSE IF x = "mutations" THEN newMutations ELSE save[s][x]]
  BY FieldsAre DEF Set
<1>3. save[s] \in Locals
  OBVIOUS
<1>4. save'[s] = [save[s] EXCEPT !.at = newAt, !.todo = newTodo, !.mutations = newMutations]
  BY <1>2, <1>3 DEF Locals, Field
<1>5. save'[s] \in Locals
  BY <1>3, <1>4 DEF Locals
<1> QED
  BY <1>1, <1>2, <1>5 DEF Field

(* The same for a step of the rollback that fails.                          *)
LEMMA SetCut ==
  ASSUME NEW s \in Save, save \in [Save -> Locals],
         NEW newAt \in File \cup {Unread}, NEW newMutations \in Seq(File),
         NEW newTouched \in SUBSET File,
         Set(s, [at |-> newAt, mutations |-> newMutations, cut |-> TRUE, touched |-> newTouched])
  PROVE  /\ save' \in [Save -> Locals] /\ \A t \in Save : t # s => save'[t] = save[t]
         /\ save'[s].previous = save[s].previous
         /\ save'[s].before = save[s].before
         /\ save'[s].manifest = save[s].manifest
         /\ save'[s].next = save[s].next
         /\ save'[s].backup = save[s].backup
         /\ save'[s].todo = save[s].todo
         /\ save'[s].at = newAt
         /\ save'[s].mutations = newMutations
         /\ save'[s].start = save[s].start
         /\ save'[s].touched = newTouched
         /\ save'[s].cut = TRUE /\ save'[s].alone = save[s].alone
<1>1. /\ DOMAIN save' = Save /\ save' = [t \in Save |-> save'[t]]
      /\ \A t \in Save : t # s => save'[t] = save[t]
  BY DEF Set
<1>2. save'[s] = [x \in Field |->
          IF x = "at" THEN newAt ELSE IF x = "mutations" THEN newMutations
          ELSE IF x = "cut" THEN TRUE ELSE IF x = "touched" THEN newTouched ELSE save[s][x]]
  <2> DEFINE changes == [at |-> newAt, mutations |-> newMutations, cut |-> TRUE,
                         touched |-> newTouched]
  <2>1. /\ DOMAIN changes = {"at", "mutations", "cut", "touched"}
        /\ changes["at"] = newAt /\ changes["mutations"] = newMutations
        /\ changes["cut"] = TRUE /\ changes["touched"] = newTouched
    OBVIOUS
  <2>2. Set(s, changes)
    OBVIOUS
  <2> HIDE DEF changes
  <2>3. save'[s] = [x \in Field |-> IF x \in DOMAIN changes THEN changes[x] ELSE save[s][x]]
    BY <2>2, FieldsAre DEF Set
  <2> QED
    BY <2>1, <2>3
<1>3. save[s] \in Locals
  OBVIOUS
<1>4. save'[s] = [save[s] EXCEPT !.at = newAt, !.mutations = newMutations, !.cut = TRUE,
                                !.touched = newTouched]
  BY <1>2, <1>3 DEF Locals, Field
<1>5. save'[s] \in Locals
  BY <1>3, <1>4 DEF Locals
<1> QED
  BY <1>1, <1>2, <1>5 DEF Field

(* Where a save can be, by name.                                           *)
LEMMA PhaseNames ==
  {"idle", "saved", "failed", "snapshot", "activate", "stage", "backup", "mutate", "manifest",
   "saving", "rollback"} = Phase
  BY DEF Phase, Over

(* A save that goes on leaves the others where they are.                   *)
LEMMA GoLeaves ==
  ASSUME SaveTypeOK, NEW s \in Save, NEW x \in Phase, Go(s, x)
  PROVE  /\ step' \in [Save -> Phase] /\ step'[s] = x
         /\ \A t \in Save : t # s => step'[t] = step[t]
  BY DEF SaveTypeOK, Go

(* What a save writes is a content.                                        *)
LEMMA WrittenFits ==
  ASSUME NEW s \in Save, NEW f \in File
  PROVE  Written(s, f) \in Known /\ s \in Nat
  BY SaveAssumption DEF Written, Known, Save

(* Changing the content of a file leaves the others alone.                  *)
LEMMA DiskFits ==
  ASSUME SaveTypeOK, NEW f \in File, NEW c \in Known
  PROVE  /\ [disk EXCEPT ![f] = c] \in [File -> Known]
         /\ [disk EXCEPT ![f] = c][f] = c
         /\ \A g \in File : g # f => [disk EXCEPT ![f] = c][g] = disk[g]
         /\ disk[f] \in Known
  BY DEF SaveTypeOK

(* The local variables of a save, one by one.                              *)
LEMMA LocalsAre ==
  ASSUME SaveTypeOK, NEW s \in Save
  PROVE  /\ save[s] \in Locals
         /\ save[s].previous \in SUBSET File /\ save[s].next \in SUBSET File
         /\ save[s].before \in [File -> Known \cup {Unread}]
         /\ save[s].manifest \in (SUBSET File) \cup {Unread}
         /\ save[s].backup \in [File -> Known] /\ save[s].todo \in SUBSET File
         /\ save[s].at \in File \cup {Unread} /\ save[s].mutations \in Seq(File)
         /\ save[s].start \in [File -> Known] /\ save[s].touched \in SUBSET File
         /\ save[s].cut \in BOOLEAN /\ save[s].alone \in BOOLEAN
<1>1. save[s] \in Locals
  BY DEF SaveTypeOK
<1> QED
  BY <1>1 DEF Locals

(* The last of a non-empty sequence of mutations is a file, and without it *)
(* the sequence is still one.                                              *)
LEMMA LastIsAFile ==
  ASSUME SaveTypeOK, NEW s \in Save, save[s].mutations # <<>>
  PROVE  /\ LastMutation(s) \in File /\ Undone(s) \in Seq(File)
         /\ LastMutation(s) \in Mutated(s)
         /\ {Undone(s)[i] : i \in DOMAIN Undone(s)} \subseteq Mutated(s)
         /\ Mutated(s) \subseteq {Undone(s)[i] : i \in DOMAIN Undone(s)} \cup {LastMutation(s)}
<1>1. save[s].mutations \in Seq(File)
  BY LocalsAre
<1> DEFINE m == save[s].mutations
<1>2. Len(m) \in Nat \ {0} /\ DOMAIN m = 1 .. Len(m) /\ \A i \in 1 .. Len(m) : m[i] \in File
  BY <1>1
<1>3. /\ Undone(s) \in Seq(File) /\ DOMAIN Undone(s) = 1 .. Len(m) - 1
      /\ \A i \in 1 .. Len(m) - 1 : Undone(s)[i] = m[i]
  BY <1>1, <1>2 DEF Undone
<1>4. LastMutation(s) = m[Len(m)] /\ Mutated(s) = {m[i] : i \in 1 .. Len(m)}
  BY <1>2 DEF LastMutation, Mutated
<1>5. {Undone(s)[i] : i \in DOMAIN Undone(s)} = {m[i] : i \in 1 .. Len(m) - 1}
  BY <1>3
<1> HIDE DEF m
<1>6. 1 .. Len(m) = (1 .. Len(m) - 1) \cup {Len(m)}
  BY <1>2
<1> QED
  BY <1>2, <1>3, <1>4, <1>5, <1>6

(* Where a save that begins stands, and that the others stay.              *)
LEMMA BeginFits ==
  ASSUME SaveTypeOK, NEW s \in Save, Begin(s)
  PROVE  /\ step' \in [Save -> Phase] /\ step'[s] = "snapshot" /\ step[s] = "idle"
         /\ \A t \in Save : t # s => step'[t] = step[t]
         /\ save' \in [Save -> Locals]
         /\ save'[s].at = Unread /\ save'[s].mutations = <<>> /\ save'[s].start = disk
         /\ save'[s].touched = {} /\ (save'[s].alone <=> Running = {})
         /\ save'[s].next \in SUBSET File
         /\ \A t \in Running : t # s => save'[t].alone = FALSE
<1>1. PICK next \in Layout :
         save' = [t \in Save |->
             IF t = s
             THEN [Started EXCEPT !.next = next, !.start = disk, !.alone = Running = {}]
             ELSE IF t \in Running THEN [save[t] EXCEPT !.alone = FALSE] ELSE save[t]]
  BY DEF Begin
<1>2. next \in SUBSET File
  BY SaveAssumption
<1>3. \A v \in Locals : [v EXCEPT !.alone = FALSE] \in Locals /\ [v EXCEPT !.alone = FALSE].alone = FALSE
  BY DEF Locals
<1> DEFINE first == [Started EXCEPT !.next = next, !.start = disk, !.alone = Running = {}]
<1>4. /\ first.at = Started.at /\ first.mutations = Started.mutations /\ first.start = disk
      /\ first.touched = Started.touched /\ first.alone = (Running = {}) /\ first.next = next
  BY StartedFits DEF Locals
<1>5. first \in Locals
  <2>1. \A v \in Locals, b \in BOOLEAN, k \in [File -> Known] :
           [v EXCEPT !.next = next, !.start = k, !.alone = b] \in Locals
    BY <1>2 DEF Locals
  <2>2. (Running = {}) \in BOOLEAN /\ disk \in [File -> Known]
    BY DEF SaveTypeOK
  <2> QED
    BY <2>1, <2>2, StartedFits
<1>6. Started.at = Unread /\ Started.mutations = <<>> /\ Started.touched = {}
  BY DEF Started
<1> HIDE DEF first
<1>7. save'[s] = first /\ save' \in [Save -> Locals]
  BY <1>1, <1>3, <1>5 DEF SaveTypeOK, Running, first
<1>8. \A t \in Running : t # s => save'[t].alone = FALSE
  BY <1>1, <1>3 DEF Running, SaveTypeOK
<1>9. /\ step' \in [Save -> Phase] /\ step'[s] = "snapshot" /\ step[s] = "idle"
      /\ \A t \in Save : t # s => step'[t] = step[t]
  BY PhaseNames DEF Begin, SaveTypeOK
<1> QED
  BY <1>2, <1>4, <1>6, <1>7, <1>8, <1>9

(* What an event is, and what becomes of it when it is handled.            *)
LEMMA EventNames ==
  /\ "add" \in EventType /\ "unlink" \in EventType /\ "change" \in EventType
  /\ "arrived" \in EventPhase /\ "observe" \in EventPhase /\ "compare" \in EventPhase
  BY DEF EventType, EventPhase

(* An event that chokidar reports is one, with what it was made of.         *)
LEMMA EventFits ==
  ASSUME NEW f \in File, NEW type \in EventType, NEW observed \in Known \cup {Unread},
         NEW phase \in EventPhase, NEW against \in Known \cup {Unread}
  PROVE  LET e == Event(f, type, observed, phase, against) IN
         /\ e \in WatchEvent /\ e.file = f /\ e.type = type /\ e.observed = observed
         /\ e.phase = phase /\ e.against = against
  BY DEF Event, WatchEvent

(* What an event says, part by part.                                        *)
LEMMA EventFields ==
  ASSUME NEW e \in WatchEvent
  PROVE  /\ e.file \in File /\ e.type \in EventType /\ e.observed \in Known \cup {Unread}
         /\ e.phase \in EventPhase /\ e.against \in Known \cup {Unread}
  BY DEF WatchEvent

(* An event that is put off keeps its file, its kind and its content.       *)
LEMMA EventRetold ==
  ASSUME NEW e \in WatchEvent, NEW p \in EventPhase, NEW c \in Known \cup {Unread}
  PROVE  LET o == [e EXCEPT !.phase = p, !.against = c] IN
         /\ o \in WatchEvent /\ o.file = e.file /\ o.type = e.type /\ o.observed = e.observed
         /\ o.phase = p /\ o.against = c
  BY DEF WatchEvent

(* An event whose content has been read arrives again with it.              *)
LEMMA EventObserved ==
  ASSUME NEW e \in WatchEvent, NEW p \in EventPhase, NEW c \in Known
  PROVE  LET o == [e EXCEPT !.phase = p, !.against = Unread, !.observed = c] IN
         /\ o \in WatchEvent /\ o.file = e.file /\ o.type = e.type /\ o.observed = c
         /\ o.phase = p /\ o.against = Unread
  BY DEF WatchEvent

(* The mutations without the last are mutations.                            *)
LEMMA UndoneFits ==
  ASSUME SaveTypeOK, NEW s \in Save
  PROVE  Undone(s) \in Seq(File)
<1>1. save[s].mutations \in Seq(File)
  BY LocalsAre
<1> DEFINE m == save[s].mutations
<1>2. Len(m) - 1 \in -1 .. Len(m) /\ \A i \in 1 .. Len(m) : m[i] \in File
  BY <1>1
<1>3. Undone(s) = [i \in 1 .. Len(m) - 1 |-> m[i]]
  BY <1>1, <1>2 DEF Undone
<1> QED
  BY <1>1, <1>2, <1>3 DEF Undone

(* A step that changes nothing leaves every variable.                      *)
LEMMA NothingChanges ==
  ASSUME UNCHANGED vars
  PROVE  /\ UNCHANGED <<disk, manifest, modTime, loaded, load, loads, step, save>>
         /\ UNCHANGED <<current, active, expected, queued, overtaken, seen, blind, watch>>
         /\ UNCHANGED <<edits, faults, untold, during, adopted, missed, alarmed>>
  BY DEF vars, diskVars, loadVars, stateVars, watchVars, told

(* A load and the change of the watcher leave the files and the saves.     *)
LEMMA LoadLeaves ==
  ASSUME LoadStep
  PROVE  /\ UNCHANGED <<disk, manifest, modTime, step, save, current, active, expected>>
         /\ UNCHANGED <<queued, overtaken, watch, edits, alarmed>>
  BY DEF LoadStep, BeginLoad, ReadFile, AnswerLoad, AbortLoad, Rewatch, Look, diskVars, stateVars,
         watchVars, told

(* The end of a save that fails leaves the files and the loads.            *)
LEMMA FailureLeaves ==
  ASSUME NEW s \in Save, AnswerFailed(s)
  PROVE  /\ UNCHANGED <<disk, manifest, modTime, loaded, load, loads, current, expected>>
         /\ UNCHANGED <<seen, blind, edits, untold, during, adopted, missed, alarmed>>
  BY DEF AnswerFailed, diskVars, loadVars, told

(* Once a save has become current there is always a current one.            *)
LEMMA CurrentKept ==
  ASSUME SaveTypeOK, CurrentIsSet, [Next]_vars PROVE CurrentIsSet'
<1> DEFINE early == {"idle", "snapshot", "activate"}
<1>1. ASSUME NEW s \in Save, SaveStep(s) PROVE CurrentIsSet'
  <2>1. \A x \in Phase : Go(s, x) => step'[s] = x /\ \A t \in Save : t # s => step'[t] = step[t]
    BY DEF Go, SaveTypeOK
  <2>2. CASE Activate(s)
    BY <2>2 DEF Activate, CurrentIsSet
  <2>3. CASE Begin(s) \/ Snapshot(s)
    <3>1. step'[s] \in early /\ \A t \in Save : t # s => step'[t] = step[t]
      BY <2>1, <2>3, PhaseNames DEF Begin, Snapshot, SaveTypeOK
    <3>2. current' = current
      BY <2>3 DEF Begin, Snapshot, stateVars
    <3> QED
      BY <3>1, <3>2 DEF CurrentIsSet
  <2>4. ASSUME ~Activate(s), ~(Begin(s) \/ Snapshot(s)) PROVE step[s] \notin early /\ current' = current
    BY <1>1, <2>4
    DEF SaveStep, StepFails, Verify, Backup, Check, Mutate, MutateFails, CheckManifest,
        RenameManifest, CheckRollback, CheckRollbackFails, Restore, RestoreFails, Succeed, Fail,
        CleanupFails, AnswerFailed, stateVars
  <2> QED
    BY <2>2, <2>3, <2>4 DEF CurrentIsSet
<1>2. CASE
       \/ \E f \in File : Edit(f) \/ Notice(f)
       \/ \E e \in watch : HandleStep(e) \/ Observed(e) \/ Compared(e)
       \/ LoadStep
       \/ UNCHANGED vars
  <2>1. UNCHANGED <<step, current>>
    BY <1>2, LoadLeaves, NothingChanges DEF Edit, Notice, HandleStep, Observed, Compared, stateVars
  <2> QED
    BY <2>1 DEF CurrentIsSet
<1> QED
  BY <1>1, <1>2 DEF Next

(* What is written gets an mtime.                                          *)
LEMMA TouchFits ==
  ASSUME SaveTypeOK, NEW f \in File, Touch(f)
  PROVE  modTime' \in [File -> {"none", "older", "current"}]
  BY DEF Touch, SaveTypeOK

(* A step of the rollback that fails keeps the types.                      *)
LEMMA FalterFits ==
  ASSUME SaveTypeOK, NEW s \in Save, NEW m \in Seq(File), NEW w \in SUBSET File, Falter(s, m, w)
  PROVE  save' \in [Save -> Locals] /\ faults' \in Nat
<1>1. Set(s, [at |-> Unread, mutations |-> m, cut |-> TRUE, touched |-> w]) /\ faults' = faults + 1
  BY DEF Falter
<1>2. Unread \in File \cup {Unread} /\ save \in [Save -> Locals] /\ faults \in Nat
  BY DEF SaveTypeOK
<1>3. save' \in [Save -> Locals]
  BY <1>1, <1>2, SetCut
<1> QED
  BY <1>1, <1>2, <1>3

(* What such a step makes of the local variables.                          *)
LEMMA FalterSets ==
  ASSUME SaveTypeOK, NEW s \in Save, NEW m \in Seq(File), NEW w \in SUBSET File, Falter(s, m, w)
  PROVE  /\ \A t \in Save : t # s => save'[t] = save[t]
         /\ save'[s].at = Unread /\ save'[s].mutations = m
         /\ save'[s].previous = save[s].previous /\ save'[s].next = save[s].next
         /\ save'[s].backup = save[s].backup /\ save'[s].before = save[s].before
         /\ save'[s].start = save[s].start /\ save'[s].touched = w
         /\ save'[s].manifest = save[s].manifest
         /\ save'[s].cut = TRUE /\ save'[s].alone = save[s].alone
<1>1. Set(s, [at |-> Unread, mutations |-> m, cut |-> TRUE, touched |-> w])
  BY DEF Falter
<1>2. Unread \in File \cup {Unread} /\ save \in [Save -> Locals]
  BY DEF SaveTypeOK
<1> QED
  BY <1>1, <1>2, SetCut

(* A report sets or clears the mtime of its file.                          *)
LEMMA ReportFits ==
  ASSUME SaveTypeOK, NEW e \in WatchEvent, Report(e)
  PROVE  modTime' \in [File -> {"none", "older", "current"}]
<1>1. e.file \in File
  BY EventFields
<1> QED
  BY <1>1 DEF Report, SaveTypeOK

(* A load and the change of the watcher keep the types.                    *)
LEMMA LoadFits ==
  ASSUME SaveTypeOK, LoadStep
  PROVE  /\ load' \in Loading /\ loaded' \in (SUBSET File) \cup {Unread} /\ blind' \subseteq File
         /\ seen' \in [File -> Known] /\ loads' \in Nat /\ faults' \in Nat
<1>1. \A l \in Loading : /\ [l EXCEPT !.at = "reading"] \in Loading
                         /\ [l EXCEPT !.at = "answered"] \in Loading
                         /\ \A f \in File, c \in Known : [l EXCEPT !.got[f] = c] \in Loading
  BY DEF Loading
<1>2. NoLoad \in Loading
  BY DEF NoLoad, Loading
<1>3. ASSUME NEW f \in File, ReadFile(f) PROVE load' \in Loading
  BY <1>1, <1>3 DEF ReadFile, SaveTypeOK
<1>4. loads' \in Nat /\ faults' \in Nat
  BY DEF LoadStep, BeginLoad, ReadFile, AnswerLoad, AbortLoad, Rewatch, Look, SaveTypeOK, loadVars
<1>5. /\ loaded' \in (SUBSET File) \cup {Unread} /\ blind' \subseteq File
      /\ seen' \in [File -> Known]
  BY DEF LoadStep, BeginLoad, ReadFile, AnswerLoad, AbortLoad, Rewatch, Look, SaveTypeOK, loadVars,
         watchVars
<1>6. load' \in Loading
  BY <1>1, <1>2, <1>3
  DEF LoadStep, BeginLoad, AnswerLoad, AbortLoad, Rewatch, Look, SaveTypeOK, loadVars
<1> QED
  BY <1>4, <1>5, <1>6

(* Every step keeps the types.                                             *)
LEMMA SaveTypesKept ==
  ASSUME SaveTypeOK, CurrentIsSet, [Next]_vars PROVE SaveTypeOK'
<1>0. SaveTypeOK
  OBVIOUS
<1>1. ASSUME NEW s \in Save, Begin(s) PROVE SaveTypeOK'
  BY <1>0, <1>1, BeginFits DEF Begin, SaveTypeOK, diskVars, loadVars, stateVars, watchVars, told
<1>2. ASSUME NEW s \in Save, Snapshot(s) PROVE SaveTypeOK'
  <2>1. step' \in [Save -> Phase]
    BY <1>0, <1>2, GoLeaves, PhaseNames DEF Snapshot
  <2>2. Managed \in SUBSET File
    BY <1>0 DEF Managed, SaveTypeOK
  <2>3. [f \in File |-> IF f \in Managed THEN disk[f] ELSE Unread] \in [File -> Known \cup {Unread}]
    BY <1>0 DEF SaveTypeOK
  <2>4. save' \in [Save -> Locals]
    BY <1>0, <1>2, <2>2, <2>3, SetSnapshot DEF Snapshot, SaveTypeOK
  <2> QED
    BY <1>0, <1>2, <2>1, <2>4 DEF Snapshot, SaveTypeOK, diskVars, loadVars, stateVars, watchVars, told
<1>3. ASSUME NEW s \in Save, Activate(s) PROVE SaveTypeOK'
  <2>1. step' \in [Save -> Phase]
    BY <1>0, <1>3, GoLeaves, PhaseNames DEF Activate
  <2>2. save' \in [Save -> Locals]
    BY <1>0, <1>3, SetManifest DEF Activate, SaveTypeOK
  <2>3. save[s].before \in [File -> Known \cup {Unread}]
    BY <1>0, LocalsAre
  <2>4. expected' \in [Save -> [File -> Known \cup {Unread}]]
    BY <1>0, <1>3, <2>3 DEF Activate, SaveTypeOK
  <2>5. current' \in Save /\ active' \in [Save -> BOOLEAN]
    BY <1>0, <1>3 DEF Activate, SaveTypeOK
  <2> QED
    BY <1>0, <1>3, <2>1, <2>2, <2>4, <2>5
    DEF Activate, SaveTypeOK, diskVars, loadVars, stateVars, watchVars, told
<1>4. ASSUME NEW s \in Save, StepFails(s) PROVE SaveTypeOK'
  <2>1. step' \in [Save -> Phase]
    BY <1>0, <1>4, GoLeaves, PhaseNames DEF StepFails
  <2> QED
    BY <1>0, <1>4, <2>1 DEF StepFails, SaveTypeOK, diskVars, loadVars, stateVars, watchVars, told
<1>5. ASSUME NEW s \in Save, Verify(s) PROVE SaveTypeOK'
  <2>1. step' \in [Save -> Phase]
    BY <1>0, <1>5, GoLeaves, PhaseNames DEF Verify
  <2> QED
    BY <1>0, <1>5, <2>1 DEF Verify, SaveTypeOK, diskVars, loadVars, stateVars, watchVars, told
<1>6. ASSUME NEW s \in Save, Backup(s) PROVE SaveTypeOK'
  <2>1. step' \in [Save -> Phase]
    BY <1>0, <1>6, GoLeaves, PhaseNames DEF Backup
  <2>2. save[s].previous \cup save[s].next \in SUBSET File /\ disk \in [File -> Known]
    BY <1>0, LocalsAre DEF SaveTypeOK
  <2>3. save' \in [Save -> Locals]
    BY <1>0, <1>6, <2>2, SetBackup DEF Backup, SaveTypeOK
  <2> QED
    BY <1>0, <1>6, <2>1, <2>3 DEF Backup, SaveTypeOK, diskVars, loadVars, stateVars, watchVars, told
<1>7. ASSUME NEW s \in Save, NEW f \in File, Check(s, f) PROVE SaveTypeOK'
  <2>1. CASE Unchanged(s, f)
    <3>1. save' \in [Save -> Locals] /\ step' = step
      BY <1>0, <1>7, <2>1, SetAt DEF Check, SaveTypeOK
    <3> QED
      BY <1>0, <1>7, <3>1 DEF Check, SaveTypeOK, diskVars, loadVars, stateVars, watchVars, told
  <2>2. CASE ~Unchanged(s, f)
    <3>1. step' \in [Save -> Phase] /\ save' = save
      BY <1>0, <1>7, <2>2, GoLeaves, PhaseNames DEF Check
    <3> QED
      BY <1>0, <1>7, <3>1 DEF Check, SaveTypeOK, diskVars, loadVars, stateVars, watchVars, told
  <2> QED
    BY <2>1, <2>2
<1>8. ASSUME NEW s \in Save, Mutate(s) PROVE SaveTypeOK'
  <2>1. save[s].at \in File /\ Written(s, save[s].at) \in Known
    BY <1>0, <1>8, LocalsAre, WrittenFits DEF Mutate
  <2>2. save[s].todo \ {save[s].at} \in SUBSET File /\ Record(s, save[s].at) \in Seq(File)
    BY <1>0, <2>1, LocalsAre DEF Record
  <2>3. save' \in [Save -> Locals]
    BY <1>0, <1>8, <2>2, SetWritten DEF Mutate, SaveTypeOK
  <2>4. disk' \in [File -> Known]
    BY <1>0, <1>8, <2>1, DiskFits DEF Mutate
  <2> QED
    BY <1>0, <1>8, <2>3, <2>4, TouchFits DEF Mutate, SaveTypeOK, loadVars, stateVars, watchVars, told
<1>9. ASSUME NEW s \in Save, MutateFails(s) PROVE SaveTypeOK'
  <2>1. save[s].at \in File /\ Absent \in Known
    BY <1>0, <1>9, LocalsAre DEF MutateFails, Known
  <2>2. step' \in [Save -> Phase]
    BY <1>0, <1>9, GoLeaves, PhaseNames DEF MutateFails
  <2> DEFINE worse == save[s].touched \cup ({save[s].at} \ Stale(s))
  <2>3. worse \in SUBSET File
    BY <1>0, <2>1, LocalsAre
  <2>7. Set(s, [at |-> Unread, touched |-> worse])
    BY <1>9 DEF MutateFails
  <2> HIDE DEF worse
  <2>4. save' \in [Save -> Locals]
    BY <1>0, <2>3, <2>7, SetTouched DEF SaveTypeOK
  <2>5. disk' = disk \/ disk' = [disk EXCEPT ![save[s].at] = Absent]
    BY <1>9 DEF MutateFails
  <2>6. disk' \in [File -> Known]
    BY <1>0, <2>1, <2>5, DiskFits DEF SaveTypeOK
  <2> QED
    BY <1>0, <1>9, <2>2, <2>4, <2>6
    DEF MutateFails, SaveTypeOK, diskVars, loadVars, stateVars, watchVars, told
<1>10. ASSUME NEW s \in Save, CheckManifest(s) PROVE SaveTypeOK'
  <2>1. step' \in [Save -> Phase]
    BY <1>0, <1>10, GoLeaves, PhaseNames DEF CheckManifest
  <2> QED
    BY <1>0, <1>10, <2>1 DEF CheckManifest, SaveTypeOK, diskVars, loadVars, stateVars, watchVars, told
<1>11. ASSUME NEW s \in Save, RenameManifest(s) PROVE SaveTypeOK'
  <2>1. step' \in [Save -> Phase]
    BY <1>0, <1>11, GoLeaves, PhaseNames DEF RenameManifest
  <2>2. save[s].next \in SUBSET File
    BY <1>0, LocalsAre
  <2> QED
    BY <1>0, <1>11, <2>1, <2>2
    DEF RenameManifest, SaveTypeOK, diskVars, loadVars, stateVars, watchVars, told
<1>12. ASSUME NEW s \in Save, CheckRollback(s) PROVE SaveTypeOK'
  <2>1. LastMutation(s) \in File /\ Undone(s) \in Seq(File)
    BY <1>0, <1>12, LastIsAFile DEF CheckRollback
  <2>2. save' \in [Save -> Locals]
    BY <1>0, <1>12, <2>1, SetAt, SetMutations DEF CheckRollback, SaveTypeOK
  <2> QED
    BY <1>0, <1>12, <2>2 DEF CheckRollback, SaveTypeOK, diskVars, loadVars, stateVars, watchVars, told
<1>13. ASSUME NEW s \in Save, Restore(s) PROVE SaveTypeOK'
  <2>1. save[s].at \in File /\ save[s].backup[save[s].at] \in Known /\ Undone(s) \in Seq(File)
    BY <1>0, <1>13, LocalsAre, UndoneFits DEF Restore
  <2>2. save' \in [Save -> Locals]
    BY <1>0, <1>13, <2>1, SetUndone DEF Restore, SaveTypeOK
  <2>3. disk' \in [File -> Known]
    BY <1>0, <1>13, <2>1, DiskFits DEF Restore
  <2> QED
    BY <1>0, <1>13, <2>1, <2>2, <2>3, TouchFits
    DEF Restore, SaveTypeOK, loadVars, stateVars, watchVars, told
<1>24. ASSUME NEW s \in Save, CheckRollbackFails(s) PROVE SaveTypeOK'
  <2>1. save' \in [Save -> Locals] /\ faults' \in Nat
    <3> DEFINE none == <<>>
    <3>1. Falter(s, none, save[s].touched)
      BY <1>24 DEF CheckRollbackFails
    <3>2. none \in Seq(File) /\ save[s].touched \in SUBSET File
      BY <1>0, LocalsAre
    <3> HIDE DEF none
    <3> QED
      BY <1>0, <3>1, <3>2, FalterFits
  <2> QED
    BY <1>0, <1>24, <2>1
    DEF CheckRollbackFails, SaveTypeOK, diskVars, loadVars, stateVars, watchVars, told
<1>14. ASSUME NEW s \in Save, RestoreFails(s) PROVE SaveTypeOK'
  <2>1. /\ save[s].at \in File /\ Absent \in Known /\ Undone(s) \in Seq(File)
        /\ save[s].touched \in SUBSET File /\ <<>> \in Seq(File)
    BY <1>0, <1>14, LocalsAre, UndoneFits DEF RestoreFails, Known
  <2>2. \E m \in Seq(File), w \in SUBSET File : Falter(s, m, w)
    <3> DEFINE worse == save[s].touched \cup {save[s].at}
    <3>1. worse \in SUBSET File
      BY <2>1
    <3>2. Falter(s, <<>>, worse) \/ Falter(s, Undone(s), save[s].touched)
      BY <1>14 DEF RestoreFails
    <3> HIDE DEF worse
    <3> QED
      BY ZenonT(40), <2>1, <3>1, <3>2
  <2>4. save' \in [Save -> Locals] /\ faults' \in Nat
    BY <1>0, <2>2, FalterFits
  <2>3. disk' = disk \/ disk' = [disk EXCEPT ![save[s].at] = Absent]
    BY <1>14 DEF RestoreFails
  <2>5. disk' \in [File -> Known]
    BY <1>0, <2>1, <2>3, DiskFits DEF SaveTypeOK
  <2> QED
    BY <1>0, <1>14, <2>4, <2>5
    DEF RestoreFails, SaveTypeOK, diskVars, loadVars, stateVars, watchVars, told
<1>15. ASSUME NEW s \in Save, Succeed(s) PROVE SaveTypeOK'
  <2>1. step' \in [Save -> Phase]
    BY <1>0, <1>15, GoLeaves, PhaseNames DEF Succeed
  <2>2. save' \in [Save -> Locals]
    BY <1>0, <1>15, StartedFits DEF Succeed, Forget, SaveTypeOK
  <2>3. Expected(s) \in [File -> Known \cup {Unread}]
    BY WrittenFits DEF Expected
  <2>4. expected' \in [Save -> [File -> Known \cup {Unread}]]
    BY <1>0, <1>15, <2>3 DEF Succeed, SaveTypeOK
  <2>5. queued' \in [Save -> SUBSET WatchEvent] /\ watch' \subseteq WatchEvent
    BY <1>0, <1>15 DEF Succeed, Flush, SaveTypeOK
  <2> QED
    BY <1>0, <1>15, <2>1, <2>2, <2>4, <2>5
    DEF Succeed, SaveTypeOK, diskVars, loadVars, stateVars, watchVars, told
<1>16. ASSUME NEW s \in Save, Fail(s) \/ CleanupFails(s) PROVE SaveTypeOK'
  <2>0. /\ AnswerFailed(s) /\ step[s] \notin {"idle", "snapshot", "activate"}
        /\ faults' \in {faults, faults + 1}
    BY <1>16 DEF Fail, CleanupFails
  <2>1. step' \in [Save -> Phase]
    BY <1>0, <2>0, GoLeaves, PhaseNames DEF AnswerFailed
  <2>2. save' \in [Save -> Locals]
    BY <1>0, <2>0, StartedFits DEF AnswerFailed, Forget, SaveTypeOK
  <2>3. current \in Save
    BY <2>0 DEF CurrentIsSet
  <2>4. queued' \in [Save -> SUBSET WatchEvent] /\ watch' \subseteq WatchEvent
    BY <1>0, <2>0, <2>3 DEF AnswerFailed, Flush, SaveTypeOK
  <2>5. active' \in [Save -> BOOLEAN]
    BY <1>0, <2>0 DEF AnswerFailed, SaveTypeOK
  <2> QED
    BY <1>0, <2>0, <2>1, <2>2, <2>4, <2>5, FailureLeaves DEF SaveTypeOK
<1>17. ASSUME NEW f \in File, Notice(f) PROVE SaveTypeOK'
  <2> DEFINE type == IF seen[f] = Absent THEN "add" ELSE IF disk[f] = Absent THEN "unlink"
                     ELSE "change"
  <2>1. type \in EventType /\ Unread \in Known \cup {Unread}
    BY EventNames
  <2>2. watch' \subseteq WatchEvent
    <3>1. watch' = watch \cup {Event(f, type, Unread, "arrived", Unread)}
      BY <1>17 DEF Notice
    <3> HIDE DEF type
    <3>2. Event(f, type, Unread, "arrived", Unread) \in WatchEvent
      BY <2>1, EventFits, EventNames
    <3> QED
      BY <1>0, <3>1, <3>2 DEF SaveTypeOK
  <2>3. seen' \in [File -> Known]
    BY <1>0, <1>17 DEF Notice, SaveTypeOK
  <2> QED
    BY <1>0, <1>17, <2>2, <2>3 DEF Notice, SaveTypeOK, diskVars, loadVars, stateVars, told
<1>18. ASSUME NEW f \in File, Edit(f) PROVE SaveTypeOK'
  <2>1. MaxSaves + edits + 1 \in Known /\ Absent \in Known
    BY <1>0, SaveAssumption DEF Known, SaveTypeOK
  <2>2. disk' \in [File -> Known]
    BY <1>0, <1>18, <2>1, DiskFits DEF Edit
  <2>3. \A v \in Locals : [v EXCEPT !.touched = @ \cup {f}] \in Locals
    BY DEF Locals
  <2>4. save' \in [Save -> Locals]
    BY <1>0, <1>18, <2>3 DEF Edit, SaveTypeOK
  <2>5. modTime' \in [File -> {"none", "older", "current"}]
    BY <1>0, <1>18 DEF Edit, MTimes, SaveTypeOK
  <2> QED
    BY <1>0, <1>18, <2>2, <2>4, <2>5 DEF Edit, SaveTypeOK, loadVars, stateVars, watchVars
<1>19. ASSUME NEW e \in watch, HandleStep(e) PROVE SaveTypeOK'
  <2>1. /\ current \in Known \cup {Unread} /\ Wanted(e.file) \in Known \cup {Unread}
        /\ e \in WatchEvent
    <3>1. e \in WatchEvent /\ e.file \in File
      BY <1>0, EventFields DEF SaveTypeOK
    <3>2. Save \subseteq Known
      BY WrittenFits DEF Known, Save
    <3> QED
      BY <1>0, <3>1, <3>2 DEF SaveTypeOK, Wanted
  <2>2. /\ [e EXCEPT !.phase = "observe", !.against = current] \in WatchEvent
        /\ [e EXCEPT !.phase = "compare", !.against = Wanted(e.file)] \in WatchEvent
    BY <2>1, EventRetold, EventNames
  <2>3. watch' \subseteq WatchEvent
    BY <1>0, <1>19, <2>2 DEF HandleStep, Handle, SaveTypeOK
  <2>4. modTime' = modTime \/ Report(e)
    BY <1>19 DEF HandleStep, Handle, Compare
  <2> QED
    BY <1>0, <1>19, <2>1, <2>3, <2>4, ReportFits DEF HandleStep, SaveTypeOK, loadVars, stateVars
<1>20. ASSUME NEW e \in watch, Observed(e) PROVE SaveTypeOK'
  <2> DEFINE o == [e EXCEPT !.phase = "arrived", !.against = Unread,
                          !.observed = IF e.type = "unlink" THEN Absent ELSE disk[e.file]]
  <2>1. e \in WatchEvent /\ e.file \in File
    BY <1>0, EventFields DEF SaveTypeOK
  <2>2. (IF e.type = "unlink" THEN Absent ELSE disk[e.file]) \in Known
    BY <1>0, <2>1 DEF SaveTypeOK, Known
  <2>3. o \in WatchEvent
    BY <2>1, <2>2, EventObserved, EventNames
  <2>4. watch' \subseteq watch \cup {o}
    BY <1>20 DEF Observed
  <2>5. queued' = queued \/ queued' = [queued EXCEPT ![e.against] = @ \cup {o}]
    BY <1>20 DEF Observed
  <2> HIDE DEF o
  <2>6. queued' \in [Save -> SUBSET WatchEvent] /\ watch' \subseteq WatchEvent
    BY <1>0, <2>3, <2>4, <2>5 DEF SaveTypeOK
  <2> QED
    BY <1>0, <1>20, <2>6 DEF Observed, SaveTypeOK, diskVars, loadVars, stateVars, watchVars, told
<1>21. ASSUME NEW e \in watch, Compared(e) PROVE SaveTypeOK'
  <2>1. modTime' = modTime \/ Report(e)
    BY <1>21 DEF Compared, Compare
  <2>2. e \in WatchEvent /\ watch' \subseteq watch
    BY <1>0, <1>21 DEF Compared, SaveTypeOK
  <2> QED
    BY <1>0, <1>21, <2>1, <2>2, ReportFits DEF Compared, SaveTypeOK, loadVars, stateVars
<1>22. CASE LoadStep
  <2>1. /\ load' \in Loading /\ loaded' \in (SUBSET File) \cup {Unread} /\ blind' \subseteq File
        /\ seen' \in [File -> Known] /\ loads' \in Nat /\ faults' \in Nat
    BY <1>0, <1>22, LoadFits
  <2> QED
    BY <1>0, <1>22, <2>1, LoadLeaves DEF SaveTypeOK
<1>23. CASE UNCHANGED vars
  BY <1>0, <1>23, NothingChanges DEF SaveTypeOK
<1> QED
  BY <1>1, <1>2, <1>3, <1>4, <1>5, <1>6, <1>7, <1>8, <1>9, <1>10, <1>11, <1>12, <1>13,
     <1>14, <1>15, <1>16, <1>17, <1>18, <1>19, <1>20, <1>21, <1>22, <1>23, <1>24
  DEF Next, SaveStep

(* A step of a save leaves the others as they were: what has to be shown   *)
(* is what it makes of the files if it runs alone.                         *)
LEMMA OnlyItself ==
  ASSUME WholeInv, NEW s \in Running,
         \A t \in Save : t # s => step'[t] = step[t] /\ save'[t] = save[t],
         step'[s] \in Over \/ (save'[s].alone <=> save[s].alone),
         save[s].alone /\ step'[s] \notin Over /\ Progress(s) /\ Untouched(s) =>
            Progress(s)' /\ Untouched(s)'
  PROVE  AloneIsWhole'
<1>1. \A r \in Running' : r # s => r \in Running /\ (save'[r].alone <=> save[r].alone)
  BY DEF Running
<1>2. \A r \in Running' : save'[r].alone => r = s
  BY <1>1 DEF WholeInv, AloneIsWhole
<1>3. ASSUME s \in Running', save'[s].alone PROVE Running' = {s} /\ Progress(s)' /\ Untouched(s)'
  <2>1. save[s].alone /\ step'[s] \notin Over
    BY <1>3 DEF Running
  <2>2. Running = {s} /\ Progress(s) /\ Untouched(s)
    BY <2>1 DEF WholeInv, AloneIsWhole
  <2>3. Running' = {s}
    BY <1>3, <2>2 DEF Running
  <2> QED
    BY <2>1, <2>2, <2>3
<1> QED
  BY <1>2, <1>3 DEF AloneIsWhole

(* What is over and what runs.                                             *)
LEMMA PhaseFacts ==
  /\ Over = {"idle", "saved", "failed"}
  /\ {"snapshot", "activate", "stage", "backup", "mutate", "manifest", "saving", "rollback"}
        \cap Over = {}
  BY DEF Over

(* Setting the local variables of a save leaves the others' alone.          *)
LEMMA SetLeavesOthers ==
  ASSUME NEW s \in Save, save \in [Save -> Locals], NEW STATE changes, Set(s, changes)
  PROVE  \A t \in Save : t # s => save'[t] = save[t]
  BY DEF Set

(* Recording a mutation adds its file to those that are recorded.           *)
LEMMA AppendAdds ==
  ASSUME NEW m \in Seq(File), NEW f \in File
  PROVE  {Append(m, f)[i] : i \in DOMAIN Append(m, f)} = {m[i] : i \in DOMAIN m} \cup {f}
<1>1. /\ Len(m) \in Nat /\ DOMAIN m = 1 .. Len(m) /\ DOMAIN Append(m, f) = 1 .. Len(m) + 1
      /\ \A i \in 1 .. Len(m) : Append(m, f)[i] = m[i]
      /\ Append(m, f)[Len(m) + 1] = f
  OBVIOUS
<1>2. 1 .. Len(m) + 1 = (1 .. Len(m)) \cup {Len(m) + 1}
  BY <1>1
<1> QED
  BY <1>1, <1>2

(* Every step keeps a save that runs alone whole.                          *)
LEMMA WholeKept ==
  ASSUME WholeInv, [Next]_vars PROVE AloneIsWhole'
<1>0. WholeInv /\ SaveTypeOK
  BY DEF WholeInv
<1>1. ASSUME NEW s \in Save, Begin(s) PROVE AloneIsWhole'
  <2>1. /\ step'[s] = "snapshot" /\ step[s] = "idle"
        /\ \A t \in Save : t # s => step'[t] = step[t]
        /\ save'[s].at = Unread /\ save'[s].mutations = <<>> /\ save'[s].start = disk
        /\ save'[s].alone <=> Running = {}
        /\ \A t \in Running : t # s => save'[t].alone = FALSE
        /\ disk' = disk /\ manifest' = manifest
    BY <1>0, <1>1, BeginFits DEF Begin, diskVars
  <2>2. Running' = Running \cup {s}
    BY <2>1, PhaseFacts DEF Running
  <2>3. Progress(s)' /\ Untouched(s)'
    BY <2>1 DEF Progress, Untouched, AsWas
  <2> QED
    BY <2>1, <2>2, <2>3 DEF AloneIsWhole
<1>2. ASSUME NEW s \in Save, Snapshot(s) PROVE AloneIsWhole'
  <2> DEFINE before == [f \in File |-> IF f \in Managed THEN disk[f] ELSE Unread]
  <2>1. step[s] = "snapshot" /\ step'[s] = "activate" /\ \A t \in Save : t # s => step'[t] = step[t]
    BY <1>0, <1>2, GoLeaves, PhaseNames DEF Snapshot
  <2>2. Managed \in SUBSET File
    BY <1>0 DEF Managed, SaveTypeOK
  <2>3. before \in [File -> Known \cup {Unread}]
    BY <1>0 DEF SaveTypeOK
  <2>7. Set(s, [previous |-> Managed, before |-> before]) /\ save \in [Save -> Locals]
    BY <1>0, <1>2 DEF Snapshot, SaveTypeOK
  <2> HIDE DEF before
  <2>4. /\ \A t \in Save : t # s => save'[t] = save[t]
        /\ save'[s] = [save[s] EXCEPT !.previous = Managed, !.before = before]
    BY <2>2, <2>3, <2>7, SetSnapshot
  <2>5. /\ save'[s].at = save[s].at /\ save'[s].mutations = save[s].mutations
        /\ save'[s].start = save[s].start /\ save'[s].touched = save[s].touched
        /\ save'[s].manifest = save[s].manifest
        /\ save'[s].cut = save[s].cut /\ save'[s].alone = save[s].alone
        /\ disk' = disk /\ manifest' = manifest
    BY <1>0, <1>2, <2>4, LocalsAre DEF Locals, Snapshot, diskVars
  <2>6. Progress(s) /\ Untouched(s) => Progress(s)' /\ Untouched(s)'
    BY <2>1, <2>5 DEF Progress, Untouched, AsWas
  <2> QED
    BY <1>0, <2>1, <2>4, <2>5, <2>6, OnlyItself, PhaseFacts DEF Running
<1>3. ASSUME NEW s \in Save, Activate(s) PROVE AloneIsWhole'
  <2>1. step[s] = "activate" /\ step'[s] = "stage" /\ \A t \in Save : t # s => step'[t] = step[t]
    BY <1>0, <1>3, GoLeaves, PhaseNames DEF Activate
  <2>2. /\ \A t \in Save : t # s => save'[t] = save[t]
        /\ save'[s] = [save[s] EXCEPT !.manifest = manifest]
    BY <1>0, <1>3, SetManifest DEF Activate, SaveTypeOK
  <2>3. /\ save'[s].at = save[s].at /\ save'[s].mutations = save[s].mutations
        /\ save'[s].start = save[s].start /\ save'[s].touched = save[s].touched
        /\ save'[s].manifest = manifest
        /\ save'[s].cut = save[s].cut /\ save'[s].alone = save[s].alone
        /\ disk' = disk /\ manifest' = manifest
    BY <1>0, <1>3, <2>2, LocalsAre DEF Locals, Activate, diskVars
  <2>4. Progress(s) /\ Untouched(s) => Progress(s)' /\ Untouched(s)'
    BY <2>1, <2>3 DEF Progress, Untouched, AsWas
  <2> QED
    BY <1>0, <2>1, <2>2, <2>3, <2>4, OnlyItself, PhaseFacts DEF Running
<1>4. ASSUME NEW s \in Save, StepFails(s) PROVE AloneIsWhole'
  <2>1. /\ step[s] \in {"stage", "backup", "mutate"} /\ step'[s] = "rollback"
        /\ save[s].at = Unread /\ \A t \in Save : t # s => step'[t] = step[t]
    BY <1>0, <1>4, GoLeaves, PhaseNames DEF StepFails
  <2>2. save' = save
    BY <1>4 DEF StepFails
  <2>3. disk' = disk /\ manifest' = manifest
    BY <1>4 DEF StepFails, diskVars
  <2>4. Progress(s) /\ Untouched(s) => Progress(s)' /\ Untouched(s)'
    BY <2>1, <2>2, <2>3 DEF Progress, Untouched, AsWas, Mutated, Done, Targets, Written, Stale
  <2> QED
    BY <1>0, <2>1, <2>2, <2>3, <2>4, OnlyItself, PhaseFacts DEF Running
<1>5. ASSUME NEW s \in Save, Verify(s) PROVE AloneIsWhole'
  <2>1. /\ step[s] = "stage" /\ step'[s] \in {"backup", "rollback"}
        /\ \A t \in Save : t # s => step'[t] = step[t]
    BY <1>0, <1>5, GoLeaves, PhaseNames DEF Verify
  <2>2. save' = save
    BY <1>5 DEF Verify
  <2>3. disk' = disk /\ manifest' = manifest
    BY <1>5 DEF Verify, diskVars
  <2>4. Progress(s) /\ Untouched(s) => Progress(s)' /\ Untouched(s)'
    BY <2>1, <2>2, <2>3 DEF Progress, Untouched, AsWas, Mutated
  <2> QED
    BY <1>0, <2>1, <2>2, <2>3, <2>4, OnlyItself, PhaseFacts DEF Running
<1>6. ASSUME NEW s \in Save, Backup(s) PROVE AloneIsWhole'
  <2>1. step[s] = "backup" /\ step'[s] = "mutate" /\ \A t \in Save : t # s => step'[t] = step[t]
    BY <1>0, <1>6, GoLeaves, PhaseNames DEF Backup
  <2>0. Targets(s) \in SUBSET File /\ disk \in [File -> Known]
    BY <1>0, LocalsAre DEF SaveTypeOK, Targets
  <2>2. /\ \A t \in Save : t # s => save'[t] = save[t]
        /\ save'[s] = [save[s] EXCEPT !.backup = disk, !.todo = Targets(s)]
    <3>1. Set(s, [backup |-> disk, todo |-> Targets(s)])
      BY <1>6 DEF Backup, Targets
    <3>2. save \in [Save -> Locals]
      BY <1>0 DEF SaveTypeOK
    <3> QED
      BY <2>0, <3>1, <3>2, SetBackup
  <2>3. /\ save'[s].backup = disk /\ save'[s].todo = Targets(s) /\ Targets(s)' = Targets(s)
        /\ save'[s].at = save[s].at /\ save'[s].mutations = save[s].mutations
        /\ save'[s].start = save[s].start /\ save'[s].touched = save[s].touched
        /\ save'[s].manifest = save[s].manifest
        /\ save'[s].cut = save[s].cut /\ save'[s].alone = save[s].alone
        /\ disk' = disk /\ manifest' = manifest
    BY <1>0, <1>6, <2>2, LocalsAre DEF Locals, Backup, diskVars, Targets
  <2>4. Progress(s) /\ Untouched(s) => Progress(s)' /\ Untouched(s)'
    BY <2>1, <2>3 DEF Progress, Untouched, AsWas, Mutated, Done
  <2> QED
    BY ZenonT(40), <1>0, <2>1, <2>2, <2>3, <2>4, OnlyItself, PhaseFacts DEF Running
<1>7. ASSUME NEW s \in Save, NEW f \in File, Check(s, f) PROVE AloneIsWhole'
  <2>1. CASE Unchanged(s, f)
    <3>1. step[s] = "mutate" /\ step' = step /\ f \in save[s].todo /\ save[s].at = Unread
      BY <1>7, <2>1 DEF Check
    <3>2. /\ \A t \in Save : t # s => save'[t] = save[t]
          /\ save'[s] = [save[s] EXCEPT !.at = f]
      BY <1>0, <1>7, <2>1, SetAt DEF Check, SaveTypeOK
    <3>3. /\ save'[s].at = f /\ save'[s].mutations = save[s].mutations
          /\ save'[s].previous = save[s].previous /\ save'[s].next = save[s].next
          /\ save'[s].todo = save[s].todo /\ save'[s].backup = save[s].backup
          /\ save'[s].start = save[s].start /\ save'[s].touched = save[s].touched
          /\ save'[s].manifest = save[s].manifest
          /\ save'[s].cut = save[s].cut /\ save'[s].alone = save[s].alone
          /\ disk' = disk /\ manifest' = manifest
      BY <1>0, <1>7, <3>2, LocalsAre DEF Locals, Check, diskVars
    <3>4. Progress(s) /\ Untouched(s) => Progress(s)' /\ Untouched(s)'
      BY <3>1, <3>3 DEF Progress, Untouched, AsWas, Mutated, Done, Targets, Written, Stale
    <3> QED
      BY <1>0, <3>1, <3>2, <3>3, <3>4, OnlyItself, PhaseFacts DEF Running
  <2>2. CASE ~Unchanged(s, f)
    <3>1. /\ step[s] = "mutate" /\ step'[s] = "rollback" /\ save[s].at = Unread
          /\ \A t \in Save : t # s => step'[t] = step[t]
      BY <1>0, <1>7, <2>2, GoLeaves, PhaseNames DEF Check
    <3>2. save' = save
      BY <1>7, <2>2 DEF Check
    <3>3. disk' = disk /\ manifest' = manifest
      BY <1>7 DEF Check, diskVars
    <3>4. Progress(s) /\ Untouched(s) => Progress(s)' /\ Untouched(s)'
      BY <3>1, <3>2, <3>3
      DEF Progress, Untouched, AsWas, Mutated, Done, Targets, Written, Stale
    <3> QED
      BY <1>0, <3>1, <3>2, <3>3, <3>4, OnlyItself, PhaseFacts DEF Running
  <2> QED
    BY <2>1, <2>2
<1>8. ASSUME NEW s \in Save, Mutate(s) PROVE AloneIsWhole'
  <2> DEFINE f == save[s].at
  <2>1. step[s] = "mutate" /\ step' = step
    BY <1>8 DEF Mutate
  <2>0. /\ f \in File /\ Written(s, f) \in Known /\ save[s].todo \ {f} \in SUBSET File
        /\ Append(save[s].mutations, f) \in Seq(File)
    BY <1>0, <1>8, LocalsAre, WrittenFits DEF Mutate
  <2>2. \A t \in Save : t # s => save'[t] = save[t]
    BY <1>0, <1>8, SetLeavesOthers DEF Mutate, SaveTypeOK
  <2>3. /\ save'[s].at = Unread /\ save'[s].mutations = Append(save[s].mutations, f)
        /\ save'[s].previous = save[s].previous /\ save'[s].next = save[s].next
        /\ save'[s].todo = save[s].todo \ {f} /\ save'[s].backup = save[s].backup
        /\ save'[s].start = save[s].start /\ save'[s].touched = save[s].touched
        /\ save'[s].manifest = save[s].manifest
        /\ save'[s].cut = save[s].cut /\ save'[s].alone = save[s].alone
    <3> DEFINE left == save[s].todo \ {f}
               done == Append(save[s].mutations, f)
    <3>1. Set(s, [at |-> Unread, todo |-> left, mutations |-> done])
      BY <1>8 DEF Mutate, Record
    <3>2. Unread \in File \cup {Unread} /\ save \in [Save -> Locals]
      BY <1>0 DEF SaveTypeOK
    <3>3. left \in SUBSET File /\ done \in Seq(File)
      BY <2>0
    <3> HIDE DEF left, done
    <3>4. /\ save'[s].at = Unread /\ save'[s].mutations = done
          /\ save'[s].previous = save[s].previous /\ save'[s].next = save[s].next
          /\ save'[s].todo = left /\ save'[s].backup = save[s].backup
          /\ save'[s].start = save[s].start /\ save'[s].touched = save[s].touched
          /\ save'[s].manifest = save[s].manifest
          /\ save'[s].cut = save[s].cut /\ save'[s].alone = save[s].alone
      BY SMTT(40), <3>1, <3>2, <3>3, SetWritten
    <3> QED
      BY <3>4 DEF left, done
  <2>5. /\ disk'[f] = Written(s, f) /\ manifest' = manifest
        /\ \A g \in File : g # f => disk'[g] = disk[g]
    BY <1>0, <1>8, <2>0, DiskFits DEF Mutate
  <2>6. Mutated(s)' = Mutated(s) \cup {f}
    <3>1. save[s].mutations \in Seq(File)
      BY <1>0, LocalsAre
    <3> QED
      BY SMTT(40), <2>0, <2>3, <3>1, AppendAdds DEF Mutated
  <2>7. /\ Targets(s)' = Targets(s) /\ Stale(s)' = Stale(s)
        /\ \A g \in File : Written(s, g)' = Written(s, g)
    BY <2>3 DEF Targets, Stale, Written
  <2> HIDE DEF f
  <2>4. Progress(s) /\ Untouched(s) => Progress(s)' /\ Untouched(s)'
    <3> SUFFICES ASSUME Progress(s), Untouched(s) PROVE Progress(s)' /\ Untouched(s)'
      OBVIOUS
    <3>1. f \in save[s].todo /\ save[s].todo \subseteq Targets(s)
      BY <1>8, <2>0, <2>1 DEF Progress, f, Mutate
    <3>2. Done(s)' = Done(s) \cup {f}
      BY <2>3, <2>7, <3>1 DEF Done
    <3>3. Progress(s)'
      BY <2>1, <2>3, <2>5, <2>6, <2>7, <3>1, <3>2 DEF Progress
    <3>4. Untouched(s)'
      BY <2>1, <2>3, <2>5, <2>7, <3>1, <3>2 DEF Untouched, AsWas
    <3> QED
      BY <3>3, <3>4
  <2> QED
    BY <1>0, <2>1, <2>2, <2>3, <2>4, OnlyItself, PhaseFacts DEF Running
<1>9. ASSUME NEW s \in Save, MutateFails(s) PROVE AloneIsWhole'
  <2> DEFINE f == save[s].at
  <2>1. step[s] = "mutate" /\ step'[s] = "rollback" /\ \A t \in Save : t # s => step'[t] = step[t]
    BY <1>0, <1>9, GoLeaves, PhaseNames DEF MutateFails
  <2>0. f \in File /\ save[s].touched \cup ({f} \ Stale(s)) \in SUBSET File /\ Absent \in Known
    BY <1>0, <1>9, LocalsAre DEF MutateFails, Known
  <2>2. /\ \A t \in Save : t # s => save'[t] = save[t]
        /\ save'[s] = [save[s] EXCEPT !.at = Unread,
                                     !.touched = save[s].touched \cup ({f} \ Stale(s))]
    <3> DEFINE worse == save[s].touched \cup ({f} \ Stale(s))
    <3>1. Set(s, [at |-> Unread, touched |-> worse])
      BY <1>9 DEF MutateFails
    <3>2. Unread \in File \cup {Unread} /\ save \in [Save -> Locals]
      BY <1>0 DEF SaveTypeOK
    <3>3. worse \in SUBSET File
      BY <2>0
    <3> HIDE DEF worse
    <3>4. /\ \A t \in Save : t # s => save'[t] = save[t]
          /\ save'[s] = [save[s] EXCEPT !.at = Unread, !.touched = worse]
      BY <3>1, <3>2, <3>3, SetTouched
    <3> QED
      BY <3>4 DEF worse
  <2>3. /\ save'[s].at = Unread /\ save'[s].mutations = save[s].mutations
        /\ save'[s].previous = save[s].previous /\ save'[s].next = save[s].next
        /\ save'[s].todo = save[s].todo /\ save'[s].backup = save[s].backup
        /\ save'[s].start = save[s].start
        /\ save'[s].touched = save[s].touched \cup ({f} \ Stale(s))
        /\ save'[s].manifest = save[s].manifest
        /\ save'[s].cut = save[s].cut /\ save'[s].alone = save[s].alone
    BY <1>0, <2>0, <2>2, LocalsAre DEF Locals
  <2>5. /\ manifest' = manifest
        /\ \A g \in File : g \notin {f} \ Stale(s) => disk'[g] = disk[g]
    <3> DEFINE without == [disk EXCEPT ![f] = Absent]
    <3>1. disk' \in {disk} \cup IF f \in Stale(s) THEN {} ELSE {without}
      BY <1>9 DEF MutateFails
    <3>2. disk' = disk \/ (f \notin Stale(s) /\ disk' = without)
      <4> HIDE DEF without
      <4> QED
        BY <3>1
    <3>3. manifest' = manifest
      BY <1>9 DEF MutateFails
    <3> QED
      BY <1>0, <2>0, <3>2, <3>3, DiskFits
  <2>6. /\ Mutated(s)' = Mutated(s) /\ Targets(s)' = Targets(s)
        /\ \A g \in File : Written(s, g)' = Written(s, g)
    BY <2>3 DEF Mutated, Targets, Stale, Written
  <2> HIDE DEF f
  <2>4. Progress(s) /\ Untouched(s) => Progress(s)' /\ Untouched(s)'
    <3> SUFFICES ASSUME Progress(s), Untouched(s) PROVE Progress(s)' /\ Untouched(s)'
      OBVIOUS
    <3>1. Mutated(s) = Done(s) /\ Done(s) \subseteq Targets(s) /\ manifest = save[s].manifest
      BY <2>1 DEF Progress, Done
    <3>2. Progress(s)'
      BY <2>1, <2>3, <2>5, <2>6, <3>1 DEF Progress
    <3>3. \A g \in File : g \notin {f} \ Stale(s) => AsWas(s, g)' = AsWas(s, g)
      BY <2>3, <2>5 DEF AsWas
    <3>4. Untouched(s)'
      BY <2>1, <2>3, <2>5, <2>6, <3>1, <3>3 DEF Untouched
    <3> QED
      BY <3>2, <3>4
  <2> QED
    BY ZenonT(40), <1>0, <2>1, <2>2, <2>3, <2>4, OnlyItself, PhaseFacts DEF Running
<1>10. ASSUME NEW s \in Save, CheckManifest(s) PROVE AloneIsWhole'
  <2>1. /\ step[s] = "mutate" /\ save[s].todo = {} /\ step'[s] \in {"manifest", "rollback"}
        /\ \A t \in Save : t # s => step'[t] = step[t]
    BY <1>0, <1>10, GoLeaves, PhaseNames DEF CheckManifest
  <2>2. save' = save
    BY <1>10 DEF CheckManifest
  <2>3. disk' = disk /\ manifest' = manifest
    BY <1>10 DEF CheckManifest, diskVars
  <2>4. Progress(s) /\ Untouched(s) => Progress(s)' /\ Untouched(s)'
    BY <2>1, <2>2, <2>3
    DEF Progress, Untouched, AsWas, Mutated, Done, Targets, Written, Stale
  <2> QED
    BY <1>0, <2>1, <2>2, <2>3, <2>4, OnlyItself, PhaseFacts DEF Running
<1>11. ASSUME NEW s \in Save, RenameManifest(s) PROVE AloneIsWhole'
  <2>1. /\ step[s] = "manifest" /\ step'[s] \in {"saving", "rollback"}
        /\ manifest' = IF step'[s] = "saving" THEN save[s].next ELSE manifest
        /\ \A t \in Save : t # s => step'[t] = step[t]
    BY <1>0, <1>11, GoLeaves, PhaseNames DEF RenameManifest
  <2>2. save' = save
    BY <1>11 DEF RenameManifest
  <2>3. disk' = disk
    BY <1>11 DEF RenameManifest
  <2>4. Progress(s) /\ Untouched(s) => Progress(s)' /\ Untouched(s)'
    BY <2>1, <2>2, <2>3
    DEF Progress, Untouched, AsWas, Mutated, Done, Targets, Written, Stale
  <2> QED
    BY <1>0, <2>1, <2>2, <2>3, <2>4, OnlyItself, PhaseFacts DEF Running
<1>12. ASSUME NEW s \in Save, CheckRollback(s) PROVE AloneIsWhole'
  <2> DEFINE f == LastMutation(s)
  <2>1. step[s] = "rollback" /\ step' = step /\ save[s].mutations # <<>> /\ save[s].at = Unread
    BY <1>12 DEF CheckRollback
  <2>0. /\ f \in File /\ Undone(s) \in Seq(File) /\ f \in Mutated(s)
        /\ {Undone(s)[i] : i \in DOMAIN Undone(s)} \subseteq Mutated(s)
        /\ Mutated(s) \subseteq {Undone(s)[i] : i \in DOMAIN Undone(s)} \cup {f}
    BY <1>0, <2>1, LastIsAFile
  <2>2. disk' = disk /\ manifest' = manifest
    BY <1>12 DEF CheckRollback, diskVars
  <2> HIDE DEF f
  <2>3. CASE disk[f] = Written(s, f)
    <3>1. /\ \A t \in Save : t # s => save'[t] = save[t]
          /\ save'[s] = [save[s] EXCEPT !.at = f]
      BY <1>0, <1>12, <2>0, <2>3, SetAt DEF CheckRollback, SaveTypeOK, f
    <3>2. /\ save'[s].at = f /\ save'[s].mutations = save[s].mutations
          /\ save'[s].previous = save[s].previous /\ save'[s].next = save[s].next
          /\ save'[s].backup = save[s].backup
          /\ save'[s].start = save[s].start /\ save'[s].touched = save[s].touched
          /\ save'[s].manifest = save[s].manifest
          /\ save'[s].cut = save[s].cut /\ save'[s].alone = save[s].alone
      BY <1>0, <2>0, <3>1, LocalsAre DEF Locals
    <3>4. /\ Mutated(s)' = Mutated(s) /\ Targets(s)' = Targets(s) /\ LastMutation(s)' = f
          /\ \A g \in File : /\ Written(s, g)' = Written(s, g) /\ AsWas(s, g)' = AsWas(s, g)
                             /\ AsWritten(s, g)' = AsWritten(s, g)
      BY <2>2, <3>2 DEF Mutated, Targets, LastMutation, Written, Stale, AsWas, AsWritten, f
    <3>3. Progress(s) /\ Untouched(s) => Progress(s)' /\ Untouched(s)'
      BY <2>1, <2>2, <3>2, <3>4 DEF Progress, Untouched
    <3> QED
      BY <1>0, <2>1, <3>1, <3>2, <3>3, OnlyItself, PhaseFacts DEF Running
  <2>4. CASE disk[f] # Written(s, f)
    <3>1. /\ \A t \in Save : t # s => save'[t] = save[t]
          /\ save'[s] = [save[s] EXCEPT !.mutations = Undone(s)]
      BY <1>0, <1>12, <2>0, <2>4, SetMutations DEF CheckRollback, SaveTypeOK, f
    <3>2. /\ save'[s].at = save[s].at /\ save'[s].mutations = Undone(s)
          /\ save'[s].previous = save[s].previous /\ save'[s].next = save[s].next
          /\ save'[s].backup = save[s].backup
          /\ save'[s].start = save[s].start /\ save'[s].touched = save[s].touched
          /\ save'[s].manifest = save[s].manifest
          /\ save'[s].cut = save[s].cut /\ save'[s].alone = save[s].alone
      BY <1>0, <2>0, <3>1, LocalsAre DEF Locals
    <3>3. /\ Mutated(s)' \subseteq Mutated(s) /\ Mutated(s) \subseteq Mutated(s)' \cup {f}
          /\ Targets(s)' = Targets(s)
          /\ \A g \in File : Written(s, g)' = Written(s, g)
      BY <2>0, <3>2 DEF Mutated, Targets, Written, Stale
    <3>5. \A g \in File : AsWas(s, g)' = AsWas(s, g) /\ AsWritten(s, g)' = AsWritten(s, g)
      BY <2>2, <3>2 DEF AsWas, AsWritten
    <3>4. Progress(s) /\ Untouched(s) => Progress(s)' /\ Untouched(s)'
      BY <2>1, <2>2, <2>4, <3>2, <3>3, <3>5 DEF Progress, Untouched
    <3> QED
      BY <1>0, <2>1, <3>1, <3>2, <3>4, OnlyItself, PhaseFacts DEF Running
  <2> QED
    BY <2>3, <2>4
<1>13. ASSUME NEW s \in Save, Restore(s) PROVE AloneIsWhole'
  <2> DEFINE f == save[s].at
  <2>1. step[s] = "rollback" /\ step' = step
    BY <1>13 DEF Restore
  <2>0. f \in File /\ f # Unread /\ save[s].backup[f] \in Known /\ Undone(s) \in Seq(File)
    BY <1>0, <1>13, LocalsAre, UndoneFits DEF Restore
  <2>2. /\ \A t \in Save : t # s => save'[t] = save[t]
        /\ save'[s] = [save[s] EXCEPT !.at = Unread, !.mutations = Undone(s)]
    <3>1. Set(s, [at |-> Unread, mutations |-> Undone(s)])
      BY <1>13 DEF Restore
    <3>2. Unread \in File \cup {Unread}
      OBVIOUS
    <3> QED
      BY ZenonT(40), <1>0, <2>0, <3>1, <3>2, SetUndone DEF SaveTypeOK
  <2>3. /\ save'[s].at = Unread /\ save'[s].mutations = Undone(s)
        /\ save'[s].previous = save[s].previous /\ save'[s].next = save[s].next
        /\ save'[s].backup = save[s].backup
        /\ save'[s].start = save[s].start /\ save'[s].touched = save[s].touched
        /\ save'[s].manifest = save[s].manifest
        /\ save'[s].cut = save[s].cut /\ save'[s].alone = save[s].alone
    BY <1>0, <2>0, <2>2, LocalsAre DEF Locals
  <2>5. /\ disk'[f] = save[s].backup[f] /\ manifest' = manifest
        /\ \A g \in File : g # f => disk'[g] = disk[g]
    BY <1>0, <1>13, <2>0, DiskFits DEF Restore
  <2>6. \A g \in File : Written(s, g)' = Written(s, g)
    BY <2>3 DEF Written, Stale
  <2> HIDE DEF f
  <2>4. Progress(s) /\ Untouched(s) => Progress(s)' /\ Untouched(s)'
    <3> SUFFICES ASSUME Progress(s), Untouched(s) PROVE Progress(s)' /\ Untouched(s)'
      OBVIOUS
    <3>1. save[s].mutations # <<>> /\ f = LastMutation(s)
      BY <2>0, <2>1 DEF Progress, f
    <3>2. /\ f \in Mutated(s) /\ Mutated(s)' \subseteq Mutated(s)
          /\ Mutated(s) \subseteq Mutated(s)' \cup {f}
      <4>1. /\ f \in Mutated(s)
            /\ {Undone(s)[i] : i \in DOMAIN Undone(s)} \subseteq Mutated(s)
            /\ Mutated(s) \subseteq {Undone(s)[i] : i \in DOMAIN Undone(s)} \cup {f}
        BY <1>0, <3>1, LastIsAFile
      <4>2. Mutated(s)' = {Undone(s)[i] : i \in DOMAIN Undone(s)}
        BY <2>3 DEF Mutated
      <4> QED
        BY <4>1, <4>2
    <3>3. Progress(s)'
      <4>1. Targets(s)' = Targets(s)
        BY <2>3 DEF Targets
      <4> QED
        BY <2>1, <2>3, <2>5, <3>2, <4>1 DEF Progress
    <3>4. Untouched(s)'
      BY <2>1, <2>3, <2>5, <2>6, <3>2 DEF Untouched, AsWas, AsWritten
    <3> QED
      BY <3>3, <3>4
  <2> QED
    BY <1>0, <2>1, <2>2, <2>3, <2>4, OnlyItself, PhaseFacts DEF Running
<1>14. ASSUME NEW s \in Save, RestoreFails(s) PROVE AloneIsWhole'
  <2> DEFINE f == save[s].at
  <2>1. step[s] = "rollback" /\ step' = step /\ manifest' = manifest
    BY <1>14 DEF RestoreFails
  <2>0. /\ f \in File /\ f # Unread /\ Absent \in Known /\ Undone(s) \in Seq(File)
        /\ save[s].touched \in SUBSET File
    BY <1>0, <1>14, LocalsAre, UndoneFits DEF RestoreFails, Known
  <2> DEFINE none == <<>>
             worse == save[s].touched \cup {f}
  <2>2. PICK m \in {none, Undone(s)}, w \in {save[s].touched, worse} :
           /\ Falter(s, m, w)
           /\ disk' = disk \/ (f \in w /\ disk' = [disk EXCEPT ![f] = Absent])
    <3>1. CASE Backed(s, f)
      <4> DEFINE without == [disk EXCEPT ![f] = Absent]
      <4>1. disk' \in {disk, without} /\ Falter(s, none, worse)
        BY <1>14, <3>1 DEF RestoreFails
      <4>3. f \in worse
        OBVIOUS
      <4> HIDE DEF none, worse, f, without
      <4>2. disk' = disk \/ (f \in worse /\ disk' = without)
        BY <4>1, <4>3
      <4>4. WITNESS none \in {none, Undone(s)}, worse \in {save[s].touched, worse}
      <4> USE DEF without
      <4> QED
        BY <4>1, <4>2, <4>3
    <3>2. CASE ~Backed(s, f)
      <4>1. disk' = disk /\ Falter(s, Undone(s), save[s].touched)
        BY <1>14, <3>2 DEF RestoreFails
      <4> HIDE DEF none, worse, f
      <4>2. WITNESS Undone(s) \in {none, Undone(s)}, save[s].touched \in {save[s].touched, worse}
      <4> QED
        BY <3>2, <4>1
    <3> QED
      BY <3>1, <3>2
  <2>3. none \in Seq(File) /\ worse \in SUBSET File
    BY <2>0
  <2>4. none = <<>> /\ worse = save[s].touched \cup {f} /\ {none[i] : i \in DOMAIN none} = {}
    OBVIOUS
  <2> HIDE DEF none, worse, f
  <2>9. m \in Seq(File) /\ w \in SUBSET File
    BY <2>0, <2>2, <2>3
  <2>5. /\ \A t \in Save : t # s => save'[t] = save[t]
        /\ save'[s].at = Unread /\ save'[s].mutations = m
        /\ save'[s].previous = save[s].previous /\ save'[s].next = save[s].next
        /\ save'[s].backup = save[s].backup
        /\ save'[s].start = save[s].start /\ save'[s].touched = w
        /\ save'[s].manifest = save[s].manifest
        /\ save'[s].cut = TRUE /\ save'[s].alone = save[s].alone
    BY <1>0, <2>2, <2>9, FalterSets
  <2>10. Mutated(s)' = {m[i] : i \in DOMAIN m}
    BY <2>5 DEF Mutated
  <2>6. /\ save[s].touched \subseteq w
        /\ \A g \in File : g # f \/ f \notin w => disk'[g] = disk[g]
    BY <1>0, <2>0, <2>2, <2>4, DiskFits
  <2>7. \A g \in File : Written(s, g)' = Written(s, g)
    BY <2>5 DEF Written, Stale
  <2>8. Progress(s) /\ Untouched(s) => Progress(s)' /\ Untouched(s)'
    <3> SUFFICES ASSUME Progress(s), Untouched(s) PROVE Progress(s)' /\ Untouched(s)'
      OBVIOUS
    <3>1. save[s].mutations # <<>> /\ f = LastMutation(s)
      BY <2>0, <2>1 DEF Progress, f
    <3>2. /\ f \in Mutated(s)
          /\ {Undone(s)[i] : i \in DOMAIN Undone(s)} \subseteq Mutated(s)
          /\ Mutated(s) \subseteq {Undone(s)[i] : i \in DOMAIN Undone(s)} \cup {f}
      BY <1>0, <3>1, LastIsAFile
    <3>3. Mutated(s)' \subseteq Mutated(s)
      <4>1. CASE m = Undone(s)
        BY <2>10, <3>2, <4>1
      <4>2. CASE m = none
        BY <2>4, <2>10, <4>2
      <4> QED
        BY <2>2, <4>1, <4>2
    <3>4. Progress(s)'
      BY <2>1, <2>5, <3>3 DEF Progress, Targets
    <3>5. Untouched(s)'
      <4> SUFFICES ASSUME NEW g \in File, g \notin w
                   PROVE  /\ AsWas(s, g)' \/ AsWritten(s, g)'
                          /\ g \in Mutated(s)' => save[s].backup[g] = save[s].start[g]
        BY <2>1, <2>5 DEF Untouched
      <4>1. disk'[g] = disk[g] /\ g \notin save[s].touched
        BY <2>6
      <4>2. /\ g \in Mutated(s) => save[s].backup[g] = save[s].start[g]
            /\ \/ AsWas(s, g)
               \/ g \in Mutated(s) /\ disk[g] = Written(s, g)
               \/ AsWritten(s, g)
        BY <2>1, <4>1 DEF Untouched
      <4>3. AsWas(s, g) => AsWas(s, g)'
        BY <2>5, <4>1 DEF AsWas
      <4>4. AsWritten(s, g) => AsWritten(s, g)'
        BY <2>5, <4>1 DEF AsWritten
      <4>5. g \in Mutated(s) /\ disk[g] = Written(s, g) => AsWritten(s, g)
        BY <2>1 DEF Progress, AsWritten, Written, Stale, Targets
      <4> QED
        BY <3>3, <4>2, <4>3, <4>4, <4>5
    <3> QED
      BY <3>4, <3>5
  <2> QED
    BY <1>0, <2>1, <2>5, <2>8, OnlyItself, PhaseFacts DEF Running
<1>21. ASSUME NEW s \in Save, CheckRollbackFails(s) PROVE AloneIsWhole'
  <2> DEFINE none == <<>>
  <2>1. step[s] = "rollback" /\ step' = step /\ manifest' = manifest /\ disk' = disk
    BY <1>21 DEF CheckRollbackFails, diskVars
  <2>2. Falter(s, none, save[s].touched)
    BY <1>21 DEF CheckRollbackFails
  <2>3. none \in Seq(File) /\ save[s].touched \in SUBSET File
    BY <1>0, LocalsAre
  <2>9. {none[i] : i \in DOMAIN none} = {} /\ none = <<>>
    OBVIOUS
  <2> HIDE DEF none
  <2>4. /\ \A t \in Save : t # s => save'[t] = save[t]
        /\ save'[s].at = Unread /\ save'[s].mutations = none
        /\ save'[s].previous = save[s].previous /\ save'[s].next = save[s].next
        /\ save'[s].backup = save[s].backup
        /\ save'[s].start = save[s].start /\ save'[s].touched = save[s].touched
        /\ save'[s].manifest = save[s].manifest
        /\ save'[s].cut = TRUE /\ save'[s].alone = save[s].alone
    BY <1>0, <2>2, <2>3, FalterSets
  <2>5. Mutated(s)' = {}
    BY <2>4, <2>9 DEF Mutated
  <2>6. Progress(s) /\ Untouched(s) => Progress(s)' /\ Untouched(s)'
    <3> SUFFICES ASSUME Progress(s), Untouched(s) PROVE Progress(s)' /\ Untouched(s)'
      OBVIOUS
    <3>1. Progress(s)'
      BY <2>1, <2>4, <2>5 DEF Progress
    <3>2. ASSUME NEW g \in File, g \in Mutated(s), disk[g] = Written(s, g) PROVE AsWritten(s, g)
      BY <2>1, <3>2 DEF Progress, AsWritten, Written, Stale, Targets
    <3>3. \A g \in File : AsWas(s, g)' = AsWas(s, g) /\ AsWritten(s, g)' = AsWritten(s, g)
      BY <2>1, <2>4 DEF AsWas, AsWritten
    <3>4. Untouched(s)'
      BY <2>1, <2>4, <2>5, <3>2, <3>3 DEF Untouched
    <3> QED
      BY <3>1, <3>4
  <2> QED
    BY <1>0, <2>1, <2>4, <2>6, OnlyItself, PhaseFacts DEF Running
<1>15. ASSUME NEW s \in Save, Succeed(s) PROVE AloneIsWhole'
  <2>1. /\ s \in Running /\ step'[s] = "saved" /\ \A t \in Save : t # s => step'[t] = step[t]
    BY <1>0, <1>15, GoLeaves, PhaseNames, PhaseFacts DEF Succeed, Running
  <2>2. \A t \in Save : t # s => save'[t] = save[t]
    BY <1>15 DEF Succeed, Forget
  <2> QED
    BY <1>0, <2>1, <2>2, OnlyItself, PhaseFacts
<1>16. ASSUME NEW s \in Save, Fail(s) \/ CleanupFails(s) PROVE AloneIsWhole'
  <2>1. /\ s \in Running /\ step'[s] = "failed" /\ \A t \in Save : t # s => step'[t] = step[t]
    BY <1>0, <1>16, GoLeaves, PhaseNames, PhaseFacts DEF Fail, CleanupFails, AnswerFailed, Running
  <2>3. AnswerFailed(s)
    BY <1>16 DEF Fail, CleanupFails
  <2>2. \A t \in Save : t # s => save'[t] = save[t]
    BY <2>3 DEF AnswerFailed, Forget
  <2> QED
    BY <1>0, <2>1, <2>2, OnlyItself, PhaseFacts
<1>17. ASSUME NEW f \in File, Edit(f) PROVE AloneIsWhole'
  <2>1. step' = step /\ manifest' = manifest /\ \A g \in File : g # f => disk'[g] = disk[g]
    <3>1. Absent \in Known /\ MaxSaves + edits + 1 \in Known
      BY <1>0, SaveAssumption DEF Known, SaveTypeOK
    <3> QED
      BY <1>0, <1>17, <3>1, DiskFits DEF Edit, diskVars
  <2>2. ASSUME NEW s \in Running
        PROVE  save'[s] = [save[s] EXCEPT !.touched = save[s].touched \cup {f}]
    BY <1>17, <2>2 DEF Edit, Running
  <2>3. ASSUME NEW s \in Running
        PROVE  /\ save'[s].previous = save[s].previous /\ save'[s].next = save[s].next
               /\ save'[s].backup = save[s].backup /\ save'[s].todo = save[s].todo
               /\ save'[s].at = save[s].at /\ save'[s].mutations = save[s].mutations
               /\ save'[s].start = save[s].start /\ save'[s].alone = save[s].alone
               /\ save'[s].manifest = save[s].manifest /\ save'[s].cut = save[s].cut
               /\ save'[s].touched = save[s].touched \cup {f}
    <3>1. save[s] \in Locals
      BY <1>0, LocalsAre DEF Running
    <3> QED
      BY <2>2, <3>1 DEF Locals
  <2>4. Running' = Running
    BY <2>1 DEF Running
  <2>5. ASSUME NEW s \in Running, Progress(s), Untouched(s) PROVE Progress(s)' /\ Untouched(s)'
    <3>1. /\ Targets(s)' = Targets(s) /\ Done(s)' = Done(s) /\ Mutated(s)' = Mutated(s)
          /\ LastMutation(s)' = LastMutation(s)
          /\ \A g \in File : Written(s, g)' = Written(s, g)
      BY <2>3 DEF Targets, Done, Mutated, LastMutation, Written, Stale
    <3>2. Progress(s)'
      BY <2>1, <2>3, <2>5, <3>1 DEF Progress
    <3>3. Untouched(s)'
      BY <2>1, <2>3, <2>5, <3>1 DEF Untouched, AsWas, AsWritten
    <3> QED
      BY <3>2, <3>3
  <2> QED
    BY <1>0, <2>3, <2>4, <2>5 DEF AloneIsWhole, WholeInv
<1>18. CASE
          \/ \E f \in File : Notice(f)
          \/ \E e \in watch : HandleStep(e) \/ Observed(e) \/ Compared(e)
          \/ LoadStep \/ UNCHANGED vars
  <2>1. UNCHANGED <<disk, manifest, step, save>>
    BY <1>18, LoadLeaves, NothingChanges DEF Notice, HandleStep, Observed, Compared, diskVars
  <2> QED
    BY <1>0, <2>1
    DEF WholeInv, AloneIsWhole, Running, Progress, Untouched, AsWas, AsWritten, Targets, Done,
        Mutated, LastMutation, Written, Stale
<1>19. ASSUME NEW s \in Save, SaveStep(s) PROVE AloneIsWhole'
  BY <1>19, <1>1, <1>2, <1>3, <1>4, <1>5, <1>6, <1>7, <1>8, <1>9, <1>10, <1>11, <1>12,
     <1>13, <1>14, <1>15, <1>16, <1>21
  DEF SaveStep
<1>20. \/ \E s \in Save : SaveStep(s)
       \/ \E f \in File : Edit(f)
       \/ \/ \E f \in File : Notice(f)
          \/ \E e \in watch : HandleStep(e) \/ Observed(e) \/ Compared(e)
          \/ LoadStep \/ UNCHANGED vars
  BY DEF Next
<1> QED
  BY <1>17, <1>18, <1>19, <1>20

(* The state in which the directory has just been loaded has the types.     *)
LEMMA FirstTypes == Init => SaveTypeOK
<1> SUFFICES ASSUME Init PROVE SaveTypeOK
  OBVIOUS
<1>1. 0 \in Known /\ Absent \in Known
  BY DEF Known
<1>2. disk \in [File -> Known] /\ seen \in [File -> Known]
  BY <1>1 DEF Init
<1>3. {FirstFile} \in SUBSET File
  BY SaveAssumption
<1>4. step \in [Save -> Phase]
  BY PhaseNames DEF Init
<1>5. save \in [Save -> Locals]
  BY StartedFits DEF Init
<1>6. expected \in [Save -> [File -> Known \cup {Unread}]]
  BY DEF Init
<1>7. queued \in [Save -> SUBSET WatchEvent] /\ watch \subseteq WatchEvent
  BY DEF Init
<1>8. modTime \in [File -> {"none", "older", "current"}] /\ load \in Loading
  BY DEF Init, NoLoad, Loading
<1> QED
  BY <1>2, <1>3, <1>4, <1>5, <1>6, <1>7, <1>8 DEF Init, SaveTypeOK

(* A save that runs alone has every file as it was or as it is to be, in   *)
(* whatever order it comes to them and wherever it fails.                  *)
THEOREM SaveInvariance == Spec => []WholeInv
<1>1. Init => WholeInv
  <2> SUFFICES ASSUME Init PROVE WholeInv
    OBVIOUS
  <2>1. Running = {}
    BY PhaseFacts DEF Init, Running
  <2> QED
    BY <2>1, FirstTypes DEF WholeInv, AloneIsWhole, CurrentIsSet, Init
<1>2. WholeInv /\ [Next]_vars => WholeInv'
  BY WholeKept, SaveTypesKept, CurrentKept DEF WholeInv
<1> QED
  BY <1>1, <1>2, PTL DEF Spec

(* A save ends where it succeeds, has rolled back or cannot clean up.      *)
LEMMA EndsHere ==
  ASSUME SaveTypeOK, [Next]_vars, NEW s \in Save, step[s] \notin Over, step'[s] \in Over
  PROVE  Succeed(s) \/ Fail(s) \/ CleanupFails(s)
<1>1. ASSUME NEW t \in Save, SaveStep(t)
      PROVE  t = s /\ (Succeed(t) \/ Fail(t) \/ CleanupFails(t))
  <2>1. ASSUME t # s PROVE FALSE
    <3>1. \A next : Go(t, next) => step'[s] = step[s]
      BY <2>1 DEF Go, SaveTypeOK
    <3>2. CASE \/ Mutate(t) \/ CheckRollback(t) \/ CheckRollbackFails(t) \/ Restore(t)
               \/ RestoreFails(t)
      BY <3>2 DEF Mutate, CheckRollback, CheckRollbackFails, Restore, RestoreFails
    <3>3. CASE \/ Begin(t) \/ Snapshot(t) \/ Activate(t) \/ StepFails(t) \/ Verify(t) \/ Backup(t)
      BY <2>1, <3>1, <3>3
      DEF Begin, Snapshot, Activate, StepFails, Verify, Backup, SaveTypeOK
    <3>4. CASE \E f \in File : Check(t, f)
      BY <3>1, <3>4 DEF Check
    <3>5. CASE MutateFails(t) \/ CheckManifest(t) \/ RenameManifest(t)
      BY <3>1, <3>5 DEF MutateFails, CheckManifest, RenameManifest
    <3>6. CASE Succeed(t) \/ Fail(t) \/ CleanupFails(t)
      BY <3>1, <3>6 DEF Succeed, Fail, CleanupFails, AnswerFailed
    <3> QED
      BY <1>1, <3>2, <3>3, <3>4, <3>5, <3>6 DEF SaveStep
  <2>2. ASSUME t = s, ~(Succeed(s) \/ Fail(s) \/ CleanupFails(s))
        PROVE  step'[s] = step[s] \/ step'[s] \notin Over
    <3>1. \A next : Go(s, next) => step'[s] = next
      BY DEF Go, SaveTypeOK
    <3>2. CASE \/ Mutate(s) \/ CheckRollback(s) \/ CheckRollbackFails(s) \/ Restore(s)
               \/ RestoreFails(s)
      BY <3>2 DEF Mutate, CheckRollback, CheckRollbackFails, Restore, RestoreFails
    <3>3. CASE \/ Begin(s) \/ Snapshot(s) \/ Activate(s) \/ StepFails(s) \/ Verify(s) \/ Backup(s)
      BY <3>1, <3>3, PhaseFacts
      DEF Begin, Snapshot, Activate, StepFails, Verify, Backup, SaveTypeOK
    <3>4. CASE \E f \in File : Check(s, f)
      BY <3>1, <3>4, PhaseFacts DEF Check
    <3>5. CASE MutateFails(s) \/ CheckManifest(s) \/ RenameManifest(s)
      BY <3>1, <3>5, PhaseFacts DEF MutateFails, CheckManifest, RenameManifest
    <3> QED
      BY <1>1, <2>2, <3>2, <3>3, <3>4, <3>5 DEF SaveStep
  <2> QED
    BY <1>1, <2>1, <2>2
<1>2. CASE \/ \E f \in File : Edit(f) \/ Notice(f)
           \/ \E e \in watch : HandleStep(e) \/ Observed(e) \/ Compared(e)
           \/ LoadStep
           \/ UNCHANGED vars
  BY <1>2, LoadLeaves, NothingChanges DEF Edit, Notice, HandleStep, Observed, Compared
<1> QED
  BY <1>1, <1>2 DEF Next

(* A save that ran alone leaves every file and the manifest as they were   *)
(* or every one as it is to be, the latter if it answers that it           *)
(* succeeded; only where a step of its rollback failed may they not be all *)
(* alike.  The files that another program edited or whose own copy failed  *)
(* are left out.                                                           *)
THEOREM SavesAreWhole == Spec => SaveIsWhole
<1>1. ASSUME WholeInv, [Next]_vars, NEW s \in Save,
             step[s] \notin Over, step'[s] \in Over, save[s].alone
      PROVE  Whole(s, step'[s])
  <2>1. Succeed(s) \/ Fail(s) \/ CleanupFails(s)
    BY <1>1, EndsHere DEF WholeInv
  <2>2. SaveTypeOK /\ Progress(s) /\ Untouched(s)
    BY <1>1 DEF WholeInv, AloneIsWhole, Running
  <2>3. CASE Succeed(s) \/ CleanupFails(s)
    <3>1. step[s] = "saving"
      BY <2>3 DEF Succeed, CleanupFails
    <3>2. manifest = save[s].next /\ save[s].todo = {}
      BY <2>2, <3>1 DEF Progress
    <3>3. ASSUME NEW f \in File \ save[s].touched PROVE AsWritten(s, f)
      <4>1. IF f \in save[s].previous \cup save[s].next
            THEN disk[f] = Written(s, f) ELSE disk[f] = save[s].start[f]
        BY <2>2, <3>1, <3>2 DEF Untouched, Done, Targets, AsWas
      <4> QED
        BY <4>1 DEF AsWritten, Written, Stale
    <3> QED
      BY <3>2, <3>3 DEF Whole
  <2>4. CASE Fail(s)
    <3>1. step[s] = "rollback" /\ step'[s] = "failed" /\ save[s].mutations = <<>>
      BY <2>2, <2>4 DEF Fail, AnswerFailed, Go, SaveTypeOK
    <3>2. Mutated(s) = {} /\ manifest = save[s].manifest
      BY <2>2, <3>1 DEF Mutated, Progress
    <3>3. \A f \in File \ save[s].touched : AsWas(s, f) \/ (save[s].cut /\ AsWritten(s, f))
      BY <2>2, <3>1, <3>2 DEF Untouched
    <3> QED
      BY <3>1, <3>2, <3>3 DEF Whole
  <2> QED
    BY <2>1, <2>3, <2>4
<1>2. WholeInv /\ [Next]_vars
        => [\A s \in Save : step[s] \in Over \/ step'[s] \notin Over \/ ~save[s].alone
              \/ Whole(s, step'[s])]_vars
  BY <1>1
<1> QED
  BY <1>2, SaveInvariance, PTL DEF Spec, SaveIsWhole

(* A save that has begun is never idle again.                               *)
LEMMA NeverIdleAgain ==
  ASSUME SaveTypeOK, [Next]_vars, NEW s \in Save, step'[s] = "idle"
  PROVE  step[s] = "idle"
<1>1. ASSUME NEW t \in Save, SaveStep(t), step[s] # "idle" PROVE FALSE
  <2>1. \A x \in Phase : Go(t, x) => step'[t] = x /\ \A u \in Save : u # t => step'[u] = step[u]
    BY DEF Go, SaveTypeOK
  <2>2. CASE \/ Mutate(t) \/ CheckRollback(t) \/ CheckRollbackFails(t) \/ Restore(t)
             \/ RestoreFails(t)
    BY <1>1, <2>2 DEF Mutate, CheckRollback, CheckRollbackFails, Restore, RestoreFails
  <2>3. CASE \/ Begin(t) \/ Snapshot(t) \/ Activate(t) \/ StepFails(t) \/ Verify(t) \/ Backup(t)
    BY <1>1, <2>1, <2>3, PhaseNames
    DEF Begin, Snapshot, Activate, StepFails, Verify, Backup, SaveTypeOK
  <2>4. CASE \E f \in File : Check(t, f)
    BY <1>1, <2>1, <2>4, PhaseNames DEF Check
  <2>5. CASE MutateFails(t) \/ CheckManifest(t) \/ RenameManifest(t)
    BY <1>1, <2>1, <2>5, PhaseNames DEF MutateFails, CheckManifest, RenameManifest
  <2>6. CASE Succeed(t) \/ Fail(t) \/ CleanupFails(t)
    BY <1>1, <2>1, <2>6, PhaseNames DEF Succeed, Fail, CleanupFails, AnswerFailed
  <2> QED
    BY <1>1, <2>2, <2>3, <2>4, <2>5, <2>6 DEF SaveStep
<1>2. CASE
      \/ \E f \in File : Edit(f) \/ Notice(f)
      \/ \E e \in watch : HandleStep(e) \/ Observed(e) \/ Compared(e)
      \/ LoadStep
      \/ UNCHANGED vars
  BY <1>2, LoadLeaves, NothingChanges DEF Edit, Notice, HandleStep, Observed, Compared
<1> QED
  BY <1>1, <1>2 DEF Next

(* Once disturbed, a save stays so.                                        *)
LEMMA DisturbedForGood ==
  ASSUME SaveTypeOK, [Next]_vars, OneSaveOnly'
  PROVE  OneSaveOnly /\ edits' = edits /\ faults' = faults
<1>1. edits' \in {edits, edits + 1} /\ faults' \in {faults, faults + 1}
  <2>1. ASSUME NEW t \in Save, SaveStep(t) PROVE edits' = edits /\ faults' \in {faults, faults + 1}
    BY <2>1
    DEF SaveStep, Begin, Snapshot, Activate, StepFails, Verify, Backup, Check, Mutate,
        MutateFails, CheckManifest, RenameManifest, CheckRollback, CheckRollbackFails, Falter,
        Restore, RestoreFails, Succeed, Fail, CleanupFails, AnswerFailed
  <2>2. ASSUME NEW f \in File, Edit(f) \/ Notice(f)
        PROVE  edits' \in {edits, edits + 1} /\ faults' = faults
    BY <2>2 DEF Edit, Notice
  <2>3. ASSUME NEW e \in watch, HandleStep(e) \/ Observed(e) \/ Compared(e)
        PROVE  edits' = edits /\ faults' = faults
    BY <2>3 DEF HandleStep, Observed, Compared
  <2>4. CASE LoadStep \/ UNCHANGED vars
    BY <2>4, LoadLeaves, NothingChanges
    DEF LoadStep, BeginLoad, ReadFile, AnswerLoad, AbortLoad, Rewatch, Look
  <2> QED
    BY <2>1, <2>2, <2>3, <2>4 DEF Next
<1>2. edits = 0 /\ faults = 0 /\ edits' = edits /\ faults' = faults
  BY <1>1 DEF OneSaveOnly, SaveTypeOK
<1>3. \A s \in Save : s > 1 => step[s] = "idle"
  BY NeverIdleAgain DEF OneSaveOnly
<1> QED
  BY <1>2, <1>3 DEF OneSaveOnly

(* Undisturbed, only the first save steps and none of its steps fails.     *)
LEMMA OnlyTheFirst ==
  ASSUME SilentInv, [Next]_vars, OneSaveOnly', NEW s \in Save, SaveStep(s)
  PROVE  /\ s = 1
         /\ \/ Begin(1) \/ Snapshot(1) \/ Activate(1) \/ Verify(1) \/ Backup(1)
            \/ \E f \in File : Check(1, f)
            \/ Mutate(1) \/ CheckManifest(1) \/ RenameManifest(1) \/ Succeed(1)
<1>0. /\ SaveTypeOK /\ Undisturbed /\ 1 \in Save /\ OneSaveOnly
      /\ edits' = edits /\ faults' = faults /\ faults \in Nat
  BY DisturbedForGood, SaveAssumption DEF SilentInv, Save, SaveTypeOK
<1>1. s = 1 \/ Begin(s)
  <2>1. s = 1 \/ step[s] = "idle"
    BY <1>0 DEF OneSaveOnly, Save
  <2> QED
    BY <2>1
    DEF SaveStep, Snapshot, Activate, StepFails, Verify, Backup, Check, Mutate, MutateFails,
        CheckManifest, RenameManifest, CheckRollback, CheckRollbackFails, Restore, RestoreFails,
        Succeed, Fail, CleanupFails
<1>2. s # 1 => ~Begin(s)
  <2> SUFFICES ASSUME s # 1, Begin(s) PROVE FALSE
    OBVIOUS
  <2>1. step'[s] = "snapshot"
    BY <1>0, BeginFits
  <2> QED
    BY <2>1 DEF OneSaveOnly, Save
<1>3. ~StepFails(1) /\ ~MutateFails(1) /\ ~CleanupFails(1)
  BY <1>0 DEF StepFails, MutateFails, CleanupFails
<1>4. ~CheckRollback(1) /\ ~CheckRollbackFails(1) /\ ~Restore(1) /\ ~RestoreFails(1) /\ ~Fail(1)
  BY <1>0 DEF CheckRollback, CheckRollbackFails, Restore, RestoreFails, Fail, Undisturbed
<1> QED
  BY <1>1, <1>2, <1>3, <1>4 DEF SaveStep

(* A save that is alone and undisturbed stays on its way.                  *)
LEMMA UndisturbedKept ==
  ASSUME SilentInv, [Next]_vars, OneSaveOnly' PROVE Undisturbed'
<1>0. /\ SaveTypeOK /\ Undisturbed /\ 1 \in Save /\ OneSaveOnly
      /\ edits' = edits /\ faults' = faults /\ faults \in Nat
  BY DisturbedForGood, SaveAssumption DEF SilentInv, Save, SaveTypeOK
<1>1. CASE Begin(1)
  <2>1. step[1] = "idle" /\ step'[1] = "snapshot" /\ save'[1].at = Unread
    BY <1>0, <1>1, BeginFits
  <2>2. UNCHANGED <<disk, manifest, loaded, load, current>>
    BY <1>1 DEF Begin, diskVars, loadVars, stateVars
  <2> QED
    BY <1>0, <2>1, <2>2 DEF Undisturbed, AsLoaded
<1>2. CASE Snapshot(1)
  <2>1. step[1] = "snapshot" /\ step'[1] = "activate"
    BY <1>0, <1>2, GoLeaves, PhaseNames DEF Snapshot
  <2>2. UNCHANGED <<disk, manifest, loaded, load, current>>
    BY <1>2 DEF Snapshot, diskVars, loadVars, stateVars
  <2>3. Managed = {FirstFile} /\ disk = AsLoaded
    BY <1>0, <2>1, SaveAssumption DEF Undisturbed, Managed
  <2>4. [f \in File |-> IF f \in Managed THEN disk[f] ELSE Unread] \in [File -> Known \cup {Unread}]
    BY <1>0 DEF SaveTypeOK
  <2>6. /\ save'[1].previous = {FirstFile} /\ save'[1].at = save[1].at
        /\ save'[1].before = [f \in File |-> IF f \in Managed THEN disk[f] ELSE Unread]
    <3> DEFINE before == [f \in File |-> IF f \in Managed THEN disk[f] ELSE Unread]
    <3>1. Set(1, [previous |-> Managed, before |-> before])
      BY <1>2 DEF Snapshot
    <3>2. 1 \in Save /\ save \in [Save -> Locals]
      BY <1>0 DEF SaveTypeOK
    <3> HIDE DEF before
    <3>3. save'[1] = [x \in Field |-> IF x = "previous" THEN Managed
                                      ELSE IF x = "before" THEN before ELSE save[1][x]]
      BY <3>1, <3>2, FieldsAre DEF Set
    <3>4. save'[1].previous = Managed /\ save'[1].at = save[1].at /\ save'[1].before = before
      BY <3>3 DEF Field
    <3> QED
      BY <2>3, <3>4 DEF before
  <2>7. save'[1].before[FirstFile] = 0
    BY <2>3, <2>6, SaveAssumption DEF AsLoaded
  <2> QED
    BY <1>0, <2>1, <2>2, <2>6, <2>7 DEF Undisturbed, AsLoaded
<1>3. CASE Activate(1)
  <2>1. step[1] = "activate" /\ step'[1] = "stage"
    BY <1>0, <1>3, GoLeaves, PhaseNames DEF Activate
  <2>2. UNCHANGED <<disk, manifest, loaded, load>> /\ current' = 1 /\ active'[1] = TRUE
    BY <1>0, <1>3 DEF Activate, diskVars, loadVars, SaveTypeOK
  <2>3. save'[1] = [save[1] EXCEPT !.manifest = manifest]
    BY <1>0, <1>3, SetManifest DEF Activate, SaveTypeOK
  <2>4. /\ save'[1].previous = save[1].previous /\ save'[1].before = save[1].before
        /\ save'[1].manifest = manifest /\ save'[1].at = save[1].at
    BY <1>0, <2>3, LocalsAre DEF Locals
  <2> QED
    BY <1>0, <2>1, <2>2, <2>4 DEF Undisturbed, AsLoaded
<1>4. CASE Verify(1)
  <2>1. step[1] = "stage" /\ UNCHANGED <<disk, manifest, loaded, load, current, active, save>>
    BY <1>4 DEF Verify, diskVars, loadVars, stateVars
  <2>2. ManifestUnchanged(1) /\ \A f \in File : Unchanged(1, f)
    BY <1>0, <2>1 DEF Undisturbed, AsLoaded, ManifestUnchanged, Unchanged
  <2>3. step'[1] = "backup"
    <3>1. save[1].previous \cup save[1].next \in SUBSET File
      BY <1>0, LocalsAre
    <3> QED
      BY <1>0, <1>4, <2>2, <3>1, GoLeaves, PhaseNames DEF Verify
  <2> QED
    BY <1>0, <2>1, <2>3 DEF Undisturbed, AsLoaded
<1>5. CASE Backup(1)
  <2>1. step[1] = "backup" /\ step'[1] = "mutate"
    BY <1>0, <1>5, GoLeaves, PhaseNames DEF Backup
  <2>2. UNCHANGED <<disk, manifest, loaded, load, current, active>>
    BY <1>5 DEF Backup, diskVars, loadVars, stateVars
  <2>4. /\ save'[1].previous = save[1].previous /\ save'[1].next = save[1].next
        /\ save'[1].before = save[1].before /\ save'[1].manifest = save[1].manifest
        /\ save'[1].at = save[1].at /\ save'[1].todo = Targets(1)
    <3> DEFINE targets == Targets(1)
    <3>1. Set(1, [backup |-> disk, todo |-> targets])
      BY <1>5 DEF Backup, Targets
    <3>2. 1 \in Save /\ save \in [Save -> Locals]
      BY <1>0 DEF SaveTypeOK
    <3> HIDE DEF targets
    <3>3. save'[1] = [x \in Field |-> IF x = "backup" THEN disk
                                      ELSE IF x = "todo" THEN targets ELSE save[1][x]]
      BY <3>1, <3>2, FieldsAre DEF Set
    <3>4. /\ save'[1].previous = save[1].previous /\ save'[1].next = save[1].next
          /\ save'[1].before = save[1].before /\ save'[1].manifest = save[1].manifest
          /\ save'[1].at = save[1].at /\ save'[1].todo = targets
      BY <3>3 DEF Field
    <3> QED
      BY <3>4 DEF targets
  <2>5. Targets(1)' = Targets(1) /\ Done(1)' = {} /\ save'[1].at = Unread
    BY <1>0, <2>1, <2>4 DEF Targets, Done, Undisturbed
  <2> QED
    BY <1>0, <2>1, <2>2, <2>4, <2>5 DEF Undisturbed, AsLoaded
<1>6. ASSUME NEW f \in File, Check(1, f) PROVE Undisturbed'
  <2>1. /\ step[1] = "mutate" /\ f \in save[1].todo
        /\ UNCHANGED <<disk, manifest, loaded, load, current, active>>
    BY <1>6 DEF Check, diskVars, loadVars, stateVars
  <2>2. disk[f] = AsLoaded[f]
    BY <1>0, <2>1 DEF Undisturbed, Done
  <2>3. Unchanged(1, f)
    BY <1>0, <2>1, <2>2 DEF Undisturbed, AsLoaded, Unchanged
  <2>4. save'[1] = [save[1] EXCEPT !.at = f] /\ step' = step
    BY <1>0, <1>6, <2>3, SetAt DEF Check, SaveTypeOK
  <2>5. /\ save'[1].previous = save[1].previous /\ save'[1].next = save[1].next
        /\ save'[1].before = save[1].before /\ save'[1].manifest = save[1].manifest
        /\ save'[1].todo = save[1].todo /\ save'[1].at = f
    BY <1>0, <2>4, LocalsAre DEF Locals
  <2>6. /\ Targets(1)' = Targets(1) /\ Done(1)' = Done(1)
        /\ \A g \in File : Written(1, g)' = Written(1, g)
    BY <2>5 DEF Targets, Done, Written, Stale
  <2> QED
    BY <1>0, <2>1, <2>4, <2>5, <2>6 DEF Undisturbed, AsLoaded
<1>7. CASE Mutate(1)
  <2> DEFINE f == save[1].at
  <2>1. /\ step[1] = "mutate" /\ step' = step
        /\ UNCHANGED <<manifest, loaded, load, current, active>>
    BY <1>7 DEF Mutate, loadVars, stateVars
  <2>2. /\ f \in File /\ Written(1, f) \in Known /\ save[1].todo \ {f} \in SUBSET File
        /\ Append(save[1].mutations, f) \in Seq(File)
    BY <1>0, <1>7, LocalsAre, WrittenFits DEF Mutate
  <2>3. /\ save'[1].previous = save[1].previous /\ save'[1].next = save[1].next
        /\ save'[1].before = save[1].before /\ save'[1].manifest = save[1].manifest
        /\ save'[1].todo = save[1].todo \ {f} /\ save'[1].at = Unread
    <3> DEFINE left == save[1].todo \ {f}
               done == Append(save[1].mutations, f)
    <3>1. Set(1, [at |-> Unread, todo |-> left, mutations |-> done])
      BY <1>7 DEF Mutate, Record
    <3>2. Unread \in File \cup {Unread} /\ save \in [Save -> Locals]
      BY <1>0 DEF SaveTypeOK
    <3>3. left \in SUBSET File /\ done \in Seq(File)
      BY <2>2
    <3> HIDE DEF left, done
    <3>4. /\ save'[1].previous = save[1].previous /\ save'[1].next = save[1].next
          /\ save'[1].before = save[1].before /\ save'[1].manifest = save[1].manifest
          /\ save'[1].todo = left /\ save'[1].at = Unread
      BY <1>0, <3>1, <3>2, <3>3, SetWritten
    <3> QED
      BY <3>4 DEF left
  <2>4. disk'[f] = Written(1, f) /\ \A g \in File : g # f => disk'[g] = disk[g]
    BY <1>0, <1>7, <2>2, DiskFits DEF Mutate
  <2>5. f \in save[1].todo /\ save[1].todo \subseteq Targets(1)
    BY <1>0, <1>7, <2>1 DEF Undisturbed, Mutate
  <2> HIDE DEF f
  <2>6. /\ Targets(1)' = Targets(1) /\ \A g \in File : Written(1, g)' = Written(1, g)
    BY <2>3 DEF Targets, Written, Stale
  <2>7. Done(1)' = Done(1) \cup {f}
    BY <2>3, <2>5, <2>6 DEF Done
  <2>8. \A g \in File : disk'[g] = IF g \in Done(1)' THEN Written(1, g)' ELSE AsLoaded[g]
    BY <1>0, <2>1, <2>4, <2>6, <2>7 DEF Undisturbed
  <2> QED
    BY <1>0, <2>1, <2>3, <2>5, <2>6, <2>8 DEF Undisturbed, AsLoaded
<1>8. CASE CheckManifest(1)
  <2>1. /\ step[1] = "mutate" /\ save[1].todo = {} /\ ManifestUnchanged(1)
        /\ UNCHANGED <<disk, manifest, loaded, load, current, active, save>>
    BY <1>0, <1>8 DEF CheckManifest, diskVars, loadVars, stateVars, Undisturbed, ManifestUnchanged
  <2>2. step'[1] = "manifest"
    BY <1>0, <1>8, <2>1, GoLeaves, PhaseNames DEF CheckManifest
  <2> QED
    BY <1>0, <2>1, <2>2 DEF Undisturbed, AsLoaded, Targets, Done, Written, Stale
<1>9. CASE RenameManifest(1)
  <2>1. /\ step[1] = "manifest" /\ step'[1] = "saving"
        /\ UNCHANGED <<disk, loaded, load, current, active, save>>
    BY <1>0, <1>9, GoLeaves, PhaseNames DEF RenameManifest, loadVars, stateVars, OneSaveOnly, SaveTypeOK
  <2> QED
    BY <1>0, <2>1 DEF Undisturbed, AsLoaded, Targets, Done, Written, Stale
<1>10. CASE Succeed(1)
  <2>1. step[1] = "saving" /\ step'[1] = "saved" /\ disk' = disk /\ current' = current
    BY <1>0, <1>10, GoLeaves, PhaseNames DEF Succeed, diskVars
  <2>2. active'[1] = FALSE /\ expected'[1] = Expected(1)
    BY <1>0, <1>10 DEF Succeed, SaveTypeOK
  <2>3. \A f \in File : disk[f] = IF f \in Targets(1) THEN Written(1, f) ELSE AsLoaded[f]
    BY <1>0, <2>1 DEF Undisturbed, Done
  <2>4. ASSUME NEW f \in File, disk[f] # AsLoaded[f] PROVE expected'[1][f] = disk[f]
    BY <2>2, <2>3, <2>4 DEF Expected, Targets, Stale
  <2> QED
    BY <1>0, <2>1, <2>2, <2>4 DEF Undisturbed, AsLoaded
<1>11. ASSUME NEW s \in Save, SaveStep(s) PROVE Undisturbed'
  BY <1>1, <1>2, <1>3, <1>4, <1>5, <1>6, <1>7, <1>8, <1>9, <1>10, <1>11, OnlyTheFirst
<1>12. ASSUME NEW f \in File PROVE ~Edit(f)
  BY <1>0 DEF Edit, SaveTypeOK
<1>13. CASE
      \/ \E f \in File : Notice(f)
      \/ \E e \in watch : HandleStep(e) \/ Observed(e) \/ Compared(e)
      \/ UNCHANGED vars
  <2>1. UNCHANGED <<disk, manifest, loaded, load, step, save, current, active, expected>>
    BY <1>13, NothingChanges
    DEF Notice, HandleStep, Observed, Compared, diskVars, loadVars, stateVars
  <2> QED
    BY <1>0, <2>1 DEF Undisturbed, AsLoaded, Targets, Done, Written, Stale
<1>14. CASE LoadStep
  <2>1. UNCHANGED <<disk, manifest, step, save, current, active, expected>>
    BY <1>14, LoadLeaves
  <2>2. ASSUME step[1] \in {"idle", "snapshot"}
        PROVE  loaded' = {FirstFile} /\ \A f \in File : load'.got[f] \in {Unread, AsLoaded[f]}
    <3>1. /\ disk = AsLoaded /\ loaded = {FirstFile} /\ load \in Loading
          /\ \A f \in File : load.got[f] \in {Unread, AsLoaded[f]}
      BY <1>0, <2>2 DEF Undisturbed, SaveTypeOK
    <3>2. CASE AnswerLoad
      <4>1. \A f \in File : load.got[f] = AsLoaded[f]
        BY <3>1, <3>2 DEF AnswerLoad
      <4>2. {f \in File : load.got[f] # Absent} = {FirstFile}
        BY <4>1, SaveAssumption DEF AsLoaded
      <4> QED
        BY <3>1, <3>2, <4>2 DEF AnswerLoad, Loading
    <3>3. ASSUME NEW f \in File, ReadFile(f)
          PROVE  loaded' = {FirstFile} /\ \A g \in File : load'.got[g] \in {Unread, AsLoaded[g]}
      BY <3>1, <3>3 DEF ReadFile, Loading
    <3>4. CASE BeginLoad
      BY <3>1, <3>4 DEF BeginLoad, Loading
    <3>5. CASE AbortLoad \/ Rewatch
      BY <3>1, <3>5 DEF AbortLoad, Rewatch, NoLoad
    <3>6. CASE \E f \in File : Look(f)
      BY <3>1, <3>6 DEF Look, loadVars
    <3> QED
      BY <1>14, <3>2, <3>3, <3>4, <3>5, <3>6 DEF LoadStep
  <2>3. AsLoaded' = AsLoaded
    BY DEF AsLoaded
  <2> QED
    BY <1>0, <2>1, <2>2, <2>3 DEF Undisturbed, Targets, Done, Written, Stale
<1> QED
  BY <1>11, <1>12, <1>13, <1>14 DEF Next

(* Without a disturbance, no event is reported: what is observed is what   *)
(* the save wrote, and nothing is compared before the save has ended.      *)
LEMMA NothingReported ==
  ASSUME SilentInv, OneSaveOnly, NEW e \in watch, HandleStep(e) \/ Compared(e)
  PROVE  UNCHANGED told
<1>0. /\ SaveTypeOK /\ Undisturbed /\ EventsOfSave /\ 1 \in Save
      /\ e \in WatchEvent /\ e.file \in File
  BY EventFields, SaveAssumption DEF SilentInv, Save, SaveTypeOK
<1>1. /\ disk[e.file] # AsLoaded[e.file] /\ disk[e.file] \in Known
      /\ e.type = "unlink" => disk[e.file] = Absent
      /\ e.observed \in {Unread, disk[e.file]}
      /\ e.phase = "compare" => e.against = disk[e.file]
  BY <1>0 DEF EventsOfSave, SaveTypeOK
<1>2. step[1] \in {"mutate", "manifest", "saving", "saved"}
  <2>1. step[1] \in Phase
    BY <1>0 DEF SaveTypeOK
  <2> QED
    BY <1>0, <1>1, <2>1, PhaseNames DEF Undisturbed
<1>3. current = 1 /\ (active[1] <=> step[1] # "saved")
  BY <1>0, <1>2 DEF Undisturbed
<1>4. 1 # Unread /\ disk[e.file] # Unread
  BY <1>1, SaveAssumption DEF Known
<1>5. ASSUME ~Saving PROVE Wanted(e.file) = disk[e.file]
  <2>1. step[1] = "saved"
    BY <1>3, <1>4, <1>5 DEF Saving
  <2> QED
    BY <1>0, <1>1, <1>3, <1>4, <2>1 DEF Undisturbed, Wanted
<1>6. CASE HandleStep(e)
  <2>1. CASE Saving
    BY <1>6, <2>1 DEF HandleStep, Handle
  <2>2. CASE ~Saving
    BY <1>1, <1>4, <1>5, <1>6, <2>2 DEF HandleStep, Handle, Compare
  <2> QED
    BY <2>1, <2>2
<1>7. CASE Compared(e)
  BY <1>1, <1>7 DEF Compared, Compare
<1> QED
  BY <1>6, <1>7

(* No alarm is raised: a report needs a disturbance.                        *)
LEMMA SilenceKept ==
  ASSUME SilentInv, [Next]_vars PROVE ~alarmed'
<1>0. ~alarmed
  BY DEF SilentInv
<1>1. ASSUME NEW e \in watch, HandleStep(e) \/ Compared(e) PROVE ~alarmed'
  <2>1. CASE OneSaveOnly
    BY <1>0, <1>1, <2>1, NothingReported DEF told
  <2>2. CASE ~OneSaveOnly
    BY <1>0, <1>1, <2>2 DEF HandleStep, Handle, Compared, Compare, Report, told
  <2> QED
    BY <2>1, <2>2
<1>2. ASSUME NEW s \in Save, SaveStep(s) PROVE alarmed' = alarmed
  BY <1>2
  DEF SaveStep, Begin, Snapshot, Activate, StepFails, Verify, Backup, Check, Mutate,
      MutateFails, CheckManifest, RenameManifest, CheckRollback, CheckRollbackFails, Restore,
      RestoreFails, Succeed, Fail, CleanupFails, AnswerFailed, told
<1>3. ASSUME NEW f \in File, Edit(f) \/ Notice(f) PROVE alarmed' = alarmed
  BY <1>3 DEF Edit, Notice, told
<1>4. ASSUME NEW e \in watch, Observed(e) PROVE alarmed' = alarmed
  BY <1>4 DEF Observed, told
<1>5. CASE LoadStep \/ UNCHANGED vars
  BY <1>0, <1>5, LoadLeaves, NothingChanges
<1> QED
  BY <1>0, <1>1, <1>2, <1>3, <1>4, <1>5 DEF Next

(* Undisturbed, every event stays one of what the save did.                *)
LEMMA EventsKept ==
  ASSUME SilentInv, [Next]_vars, OneSaveOnly' PROVE EventsOfSave'
<1>0. /\ SaveTypeOK /\ Undisturbed /\ EventsOfSave /\ 1 \in Save /\ OneSaveOnly
      /\ edits' = edits
  BY DisturbedForGood, SaveAssumption DEF SilentInv, Save
<1>1. ASSUME NEW s \in Save, SaveStep(s) PROVE EventsOfSave'
  <2>1. /\ s = 1
        /\ \/ Begin(1) \/ Snapshot(1) \/ Activate(1) \/ Verify(1) \/ Backup(1)
           \/ \E f \in File : Check(1, f)
           \/ Mutate(1) \/ CheckManifest(1) \/ RenameManifest(1) \/ Succeed(1)
    BY <1>1, OnlyTheFirst
  <2>2. CASE \/ Begin(1) \/ Snapshot(1) \/ Activate(1) \/ Verify(1) \/ Backup(1)
             \/ \E f \in File : Check(1, f)
             \/ CheckManifest(1) \/ RenameManifest(1)
    <3>1. UNCHANGED <<disk, seen, watch, queued>>
      BY <2>2
      DEF Begin, Snapshot, Activate, Verify, Backup, Check, CheckManifest, RenameManifest,
          diskVars, watchVars, stateVars
    <3> QED
      BY <1>0, <3>1 DEF EventsOfSave, AsLoaded
  <2>3. CASE Mutate(1)
    <3> DEFINE f == save[1].at
    <3>1. f \in File /\ Written(1, f) \in Known
      BY <1>0, <2>3, LocalsAre, WrittenFits DEF Mutate
    <3>2. disk[f] = AsLoaded[f]
      BY <1>0, <2>3, <3>1 DEF Mutate, Undisturbed, Done
    <3>3. \A g \in File : g # f => disk'[g] = disk[g]
      BY <1>0, <2>3, <3>1, DiskFits DEF Mutate
    <3>4. UNCHANGED <<seen, watch, queued>>
      BY <2>3 DEF Mutate, stateVars, watchVars
    <3> HIDE DEF f
    <3>5. AsLoaded' = AsLoaded
      BY DEF AsLoaded
    <3> QED
      BY <1>0, <3>1, <3>2, <3>3, <3>4, <3>5 DEF EventsOfSave
  <2>4. CASE Succeed(1)
    <3>1. UNCHANGED <<disk, seen>> /\ watch' = watch \cup queued[1]
      BY <2>4 DEF Succeed, Flush, diskVars
    <3>2. queued'[1] = {}
      BY <1>0, <2>4 DEF Succeed, Flush, SaveTypeOK
    <3> QED
      BY <1>0, <3>1, <3>2 DEF EventsOfSave, AsLoaded
  <2> QED
    BY <2>1, <2>2, <2>3, <2>4
<1>2. ASSUME NEW f \in File, Notice(f) PROVE EventsOfSave'
  <2> DEFINE type == IF seen[f] = Absent THEN "add" ELSE IF disk[f] = Absent THEN "unlink"
                     ELSE "change"
             e == Event(f, type, Unread, "arrived", Unread)
  <2>1. /\ UNCHANGED <<disk, queued>> /\ watch' = watch \cup {e}
        /\ seen' = [seen EXCEPT ![f] = disk[f]] /\ disk[f] # seen[f]
    BY <1>2 DEF Notice, diskVars, stateVars
  <2>2. type \in EventType /\ (type = "unlink" => disk[f] = Absent)
    BY EventNames
  <2> HIDE DEF type
  <2>3. /\ e.file = f /\ e.type = type /\ e.observed = Unread /\ e.phase = "arrived"
    BY DEF Event
  <2> HIDE DEF e
  <2>4. disk[f] # AsLoaded[f]
    BY <1>0, <2>1 DEF EventsOfSave
  <2>5. \A g \in File : seen'[g] = AsLoaded[g] \/ seen'[g] = disk[g]
    BY <1>0, <2>1 DEF EventsOfSave, SaveTypeOK
  <2>6. AsLoaded' = AsLoaded
    BY DEF AsLoaded
  <2>7. \A x \in watch' \cup queued'[1] : x = e \/ x \in watch \cup queued[1]
    BY <2>1
  <2> QED
    BY <1>0, <2>1, <2>2, <2>3, <2>4, <2>5, <2>6, <2>7 DEF EventsOfSave
<1>3. ASSUME NEW e \in watch, HandleStep(e) PROVE EventsOfSave'
  <2> DEFINE observed == [e EXCEPT !.phase = "observe", !.against = current]
             compared == [e EXCEPT !.phase = "compare", !.against = Wanted(e.file)]
  <2>1. UNCHANGED <<disk, seen, queued>>
    BY <1>3 DEF HandleStep, diskVars, stateVars
  <2>2. e \in WatchEvent /\ e.file \in File /\ disk[e.file] # AsLoaded[e.file]
    BY <1>0, EventFields DEF EventsOfSave, SaveTypeOK
  <2>3. current = 1 /\ current \in Known /\ (active[1] <=> step[1] # "saved")
    <3>1. step[1] \in Phase
      BY <1>0 DEF SaveTypeOK
    <3> QED
      BY <1>0, <2>2, <3>1, PhaseNames DEF Undisturbed, Known
  <2>4. 1 # Unread /\ Wanted(e.file) \in Known \cup {Unread}
    BY <1>0, <2>2, <2>3, SaveAssumption DEF Wanted, SaveTypeOK
  <2>5. \A x \in watch' : x \in watch \/ x = observed \/ (x = compared /\ ~Saving)
    <3>1. Handle(e)
      BY <1>3 DEF HandleStep
    <3> DEFINE Rest == watch \ {e}
    <3>2. Rest \subseteq watch
      OBVIOUS
    <3>3. \/ watch' = Rest \cup {observed}
          \/ ~Saving /\ watch' = Rest \cup {compared}
          \/ watch' = Rest
      BY <3>1 DEF Handle
    <3> HIDE DEF Rest, observed, compared
    <3> QED
      BY <3>2, <3>3
  <2>6. ~Saving => Wanted(e.file) = disk[e.file]
    BY <1>0, <2>2, <2>3, <2>4 DEF Undisturbed, Saving, Wanted
  <2>7. /\ observed.file = e.file /\ observed.type = e.type /\ observed.observed = e.observed
        /\ observed.phase = "observe" /\ observed.against = 1
    BY <2>2, <2>3 DEF WatchEvent
  <2>8. /\ compared.file = e.file /\ compared.type = e.type /\ compared.observed = e.observed
        /\ compared.phase = "compare" /\ compared.against = Wanted(e.file)
    BY <2>2 DEF WatchEvent
  <2> HIDE DEF observed, compared
  <2>9. AsLoaded' = AsLoaded
    BY DEF AsLoaded
  <2>10. \A x \in watch' \cup queued'[1] :
            x = observed \/ (x = compared /\ ~Saving) \/ x \in watch \cup queued[1]
    BY <2>1, <2>5
  <2> QED
    BY <1>0, <2>1, <2>2, <2>6, <2>7, <2>8, <2>9, <2>10 DEF EventsOfSave
<1>4. ASSUME NEW e \in watch, Observed(e) PROVE EventsOfSave'
  <2> DEFINE found == IF e.type = "unlink" THEN Absent ELSE disk[e.file]
             o == [e EXCEPT !.phase = "arrived", !.against = Unread, !.observed = found]
  <2>1. UNCHANGED <<disk, seen>>
    BY <1>4 DEF Observed, diskVars
  <2>2. e \in WatchEvent /\ e.file \in File /\ disk[e.file] # AsLoaded[e.file] /\ e.against = 1
    BY <1>0, <1>4, EventFields DEF EventsOfSave, SaveTypeOK, Observed
  <2>3. found = disk[e.file] /\ found \in Known
    BY <1>0, <2>2 DEF EventsOfSave, SaveTypeOK
  <2>4. watch' \subseteq watch \cup {o}
        /\ (queued' = queued \/ queued' = [queued EXCEPT ![e.against] = @ \cup {o}])
    BY <1>4 DEF Observed
  <2> HIDE DEF found
  <2>5. /\ o.file = e.file /\ o.type = e.type /\ o.observed = found /\ o.phase = "arrived"
    BY <2>2 DEF WatchEvent
  <2> HIDE DEF o
  <2>6. \A x \in watch' \cup queued'[1] : x = o \/ x \in watch \cup queued[1]
    BY <1>0, <2>2, <2>4 DEF SaveTypeOK
  <2>7. AsLoaded' = AsLoaded
    BY DEF AsLoaded
  <2> QED
    BY <1>0, <2>1, <2>2, <2>3, <2>5, <2>6, <2>7 DEF EventsOfSave
<1>5. ASSUME NEW e \in watch, Compared(e) PROVE EventsOfSave'
  <2>1. UNCHANGED <<disk, seen, queued>> /\ watch' \subseteq watch
    BY <1>5 DEF Compared, diskVars, stateVars
  <2> QED
    BY <1>0, <2>1 DEF EventsOfSave, AsLoaded
<1>6. CASE LoadStep \/ UNCHANGED vars
  <2>1. UNCHANGED <<disk, watch, queued>>
    BY <1>6, LoadLeaves, NothingChanges
  <2>2. \A f \in File : seen'[f] \in {seen[f], disk[f]}
    BY <1>0, <1>6, NothingChanges
    DEF LoadStep, BeginLoad, ReadFile, AnswerLoad, AbortLoad, Rewatch, Look, watchVars, SaveTypeOK
  <2> QED
    BY <1>0, <2>1, <2>2 DEF EventsOfSave, AsLoaded
<1>7. ASSUME NEW f \in File PROVE ~Edit(f)
  BY <1>0 DEF Edit, SaveTypeOK
<1> QED
  BY <1>1, <1>2, <1>3, <1>4, <1>5, <1>6, <1>7 DEF Next

(* A save that nobody disturbs and the events of what it does keep in      *)
(* step, whenever the watcher notices and handles them.                    *)
THEOREM SilentInvariance == Spec => []SilentInv
<1>1. Init => SilentInv
  <2> SUFFICES ASSUME Init PROVE SilentInv
    OBVIOUS
  <2>1. 1 \in Save /\ Started.at = Unread
    BY SaveAssumption DEF Save, Started
  <2>2. Undisturbed
    BY <2>1 DEF Init, Undisturbed, AsLoaded, NoLoad
  <2>3. EventsOfSave
    BY <2>1 DEF Init, EventsOfSave, AsLoaded
  <2> QED
    BY <2>2, <2>3, FirstTypes DEF SilentInv, CurrentIsSet, Init
<1>2. SilentInv /\ [Next]_vars => SilentInv'
  BY SaveTypesKept, CurrentKept, SilenceKept, UndisturbedKept, EventsKept DEF SilentInv
<1> QED
  BY <1>1, <1>2, PTL DEF Spec

(* A single save that nobody disturbs is never reported to the renderer.   *)
THEOREM SavesAreSilent == Spec => []OwnWritesAreSilent
<1>1. SilentInv => OwnWritesAreSilent
  BY DEF SilentInv, OwnWritesAreSilent
<1> QED
  BY <1>1, SilentInvariance, PTL

-------------------------------------------------------------------------------
(* What is owed to the renderer                                            *)

(* The local variables that a save does not set are as they were.          *)
LEMMA SetKeepsTheRest ==
  ASSUME SaveTypeOK, NEW s \in Save, NEW STATE changes, Set(s, changes),
         NEW field \in Field, field \notin DOMAIN changes
  PROVE  \A t \in Save : save'[t][field] = save[t][field]
<1>1. save[s] \in Locals
  BY LocalsAre
<1>2. DOMAIN save[s] = Field
  BY <1>1, FieldsAre
<1>3. \A t \in Save : t # s => save'[t] = save[t]
  BY SetLeavesOthers DEF SaveTypeOK
<1>4. save'[s][field] = save[s][field]
  BY <1>2 DEF Set, SaveTypeOK
<1> QED
  BY <1>3, <1>4

(* What a step makes of the contents that the saves and the watcher have   *)
(* taken down: they come from the disk, or from what a save writes.        *)
Remembers(f) ==
    /\ seen'[f] \in {seen[f], disk[f]}
    /\ \A s \in Save :
          /\ save'[s].backup[f] \in {save[s].backup[f], Absent, disk[f]}
          /\ \/ save'[s].before[f] \in {save[s].before[f], Unread}
             \/ save'[s].before[f] = disk[f] /\ (untold[f] # Unread => f \in adopted')
          /\ expected'[s][f] \in {expected[s][f], save[s].before[f], Absent, Unread} \cup Save

(* What a step makes of a file and of what is owed of it.                  *)
Owes(f) ==
    /\ edits' = edits \/ (edits' = edits + 1 /\ \E g \in File : Edit(g))
    /\ \/ /\ untold'[f] = untold[f]
          /\ (f \in adopted => f \in adopted') /\ (f \in missed => f \in missed')
          /\ \/ disk'[f] \in {disk[f], Absent} \cup Save
             \/ \E s \in Save : /\ disk'[f] = save[s].backup[f]
                                /\ disk'[f] = untold[f] => f \in adopted'
       \/ untold'[f] = Unread /\ disk'[f] = disk[f] /\ edits' = edits
       \/ Edit(f)

(* A step that leaves the local variables of saves and what is told alone. *)
LEMMA NothingTold ==
  ASSUME UNCHANGED <<disk, seen, expected, edits, untold, adopted, missed>>, NEW f \in File,
         \A s \in Save : save'[s].before = save[s].before /\ save'[s].backup = save[s].backup
  PROVE  Remembers(f) /\ Owes(f)
  BY DEF Remembers, Owes

(* What Report does to what is owed.                                        *)
LEMMA ReportTells ==
  ASSUME NEW e \in watch, Report(e), NEW f \in File, untold \in [File -> External \cup {Unread}]
  PROVE  \/ untold' = untold /\ adopted' = adopted /\ missed' = missed
         \/ IF f = e.file THEN untold'[f] = Unread
                          ELSE /\ untold'[f] = untold[f] /\ (f \in adopted => f \in adopted')
                               /\ (f \in missed => f \in missed')
  BY DEF Report, told

(* A step of a save takes contents down from the disk, and what it writes  *)
(* is its own, nothing, or what it has backed up.                          *)
LEMMA SavesTrace ==
  ASSUME SaveTypeOK, CurrentIsSet, NEW s \in Save, SaveStep(s), NEW f \in File,
         untold \in [File -> External \cup {Unread}]
  PROVE  Remembers(f) /\ Owes(f)
<1>0. /\ SaveTypeOK /\ {"before", "backup"} \subseteq Field
      /\ \A t \in Save : /\ save[t].before \in [File -> Known \cup {Unread}]
                         /\ save[t].backup \in [File -> Known]
  BY LocalsAre DEF Field
<1>1. CASE Begin(s)
  <2>1. PICK next \in Layout :
          save' = [t \in Save |->
             IF t = s
             THEN [Started EXCEPT !.next = next, !.start = disk, !.alone = Running = {}]
             ELSE IF t \in Running THEN [save[t] EXCEPT !.alone = FALSE] ELSE save[t]]
    BY <1>1 DEF Begin
  <2>2. save'[s] = [Started EXCEPT !.next = next, !.start = disk, !.alone = Running = {}]
    BY <2>1
  <2>3. save'[s].before = Started.before /\ save'[s].backup = Started.backup
    BY <2>2, StartedFits DEF Locals
  <2>4. save'[s].before[f] = Unread /\ save'[s].backup[f] = Absent
    BY <2>3 DEF Started
  <2>5. \A v \in Locals : /\ [v EXCEPT !.alone = FALSE].before = v.before
                          /\ [v EXCEPT !.alone = FALSE].backup = v.backup
    BY DEF Locals
  <2>6. \A t \in Save : t # s => /\ save'[t].before = save[t].before
                                 /\ save'[t].backup = save[t].backup
    BY <1>0, <2>1, <2>5 DEF SaveTypeOK
  <2>7. UNCHANGED <<disk, seen, expected, edits, untold, adopted, missed>>
    BY <1>1 DEF Begin, diskVars, stateVars, watchVars, told
  <2> QED
    BY <2>4, <2>6, <2>7 DEF Remembers, Owes
<1>2. CASE Snapshot(s)
  <2> DEFINE before == [g \in File |-> IF g \in Managed THEN disk[g] ELSE Unread]
  <2>1. Managed \in SUBSET File /\ before \in [File -> Known \cup {Unread}]
    BY <1>0 DEF Managed, SaveTypeOK
  <2>2. /\ \A t \in Save : t # s => save'[t] = save[t]
        /\ \A t \in Save : save'[t].backup = save[t].backup
    <3>1. Set(s, [previous |-> Managed, before |-> before])
      BY <1>2 DEF Snapshot
    <3>2. save \in [Save -> Locals] /\ "backup" \notin DOMAIN [previous |-> Managed, before |-> before]
      BY <1>0 DEF SaveTypeOK
    <3> HIDE DEF before
    <3>3. \A t \in Save : t # s => save'[t] = save[t]
      BY <3>1, <3>2, SetLeavesOthers
    <3>4. \A t \in Save : save'[t].backup = save[t].backup
      BY <1>0, <3>1, <3>2, SetKeepsTheRest
    <3> QED
      BY <3>3, <3>4
  <2>3. save'[s].before = before
    <3>1. Set(s, [previous |-> Managed, before |-> before])
      BY <1>2 DEF Snapshot
    <3>2. DOMAIN save[s] = Field
      BY LocalsAre, FieldsAre
    <3> HIDE DEF before
    <3> QED
      BY <1>0, <3>1, <3>2 DEF Set, SaveTypeOK
  <2>4. save'[s].before[f] = Unread \/ (f \in Managed /\ save'[s].before[f] = disk[f])
    BY <2>3
  <2>5. UNCHANGED <<disk, seen, expected, edits, untold, missed>>
    BY <1>2 DEF Snapshot, diskVars, stateVars, watchVars
  <2>6. adopted' = adopted \cup {g \in Managed : untold[g] # Unread}
    BY <1>2 DEF Snapshot
  <2> QED
    BY <2>2, <2>3, <2>4, <2>5, <2>6 DEF Remembers, Owes
<1>3. CASE Activate(s)
  <2>1. \A t \in Save : save'[t].before = save[t].before /\ save'[t].backup = save[t].backup
    BY <1>0, <1>3, SetKeepsTheRest DEF Activate
  <2>2. expected' = [expected EXCEPT ![s] = save[s].before]
    BY <1>3 DEF Activate
  <2>3. UNCHANGED <<disk, seen, edits, untold, adopted, missed>>
    BY <1>3 DEF Activate, diskVars, watchVars, told
  <2>4. \A t \in Save : expected'[t][f] \in {expected[t][f], save[t].before[f]}
    BY <1>0, <2>2 DEF SaveTypeOK
  <2> QED
    BY <2>1, <2>3, <2>4 DEF Remembers, Owes
<1>4. CASE StepFails(s) \/ Verify(s) \/ CheckManifest(s) \/ RenameManifest(s)
  <2>1. UNCHANGED <<disk, seen, expected, edits, untold, adopted, missed, save>>
    BY <1>4
    DEF StepFails, Verify, CheckManifest, RenameManifest, diskVars, stateVars, watchVars, told
  <2> QED
    BY <2>1, NothingTold
<1>5. CASE Backup(s)
  <2>1. \A t \in Save : save'[t].before = save[t].before
    BY <1>0, <1>5, SetKeepsTheRest DEF Backup
  <2>2. \A t \in Save : t # s => save'[t] = save[t]
    BY <1>0, <1>5, SetLeavesOthers DEF Backup, SaveTypeOK
  <2>3. save'[s].backup = disk
    <3>1. Set(s, [backup |-> disk, todo |-> save[s].previous \cup save[s].next])
      BY <1>5 DEF Backup
    <3>2. DOMAIN save[s] = Field
      BY LocalsAre, FieldsAre
    <3> QED
      BY <1>0, <3>1, <3>2 DEF Set, SaveTypeOK
  <2>4. UNCHANGED <<disk, seen, expected, edits, untold, adopted, missed>>
    BY <1>5 DEF Backup, diskVars, stateVars, watchVars, told
  <2> QED
    BY <2>1, <2>2, <2>3, <2>4 DEF Remembers, Owes
<1>6. CASE (\E g \in File : Check(s, g)) \/ CheckRollback(s)
  <2>1. \A t \in Save : save'[t].before = save[t].before /\ save'[t].backup = save[t].backup
    <3>1. \/ \E g \in File : Set(s, [at |-> g])
          \/ Set(s, [at |-> LastMutation(s)]) \/ Set(s, [mutations |-> Undone(s)])
          \/ save' = save
      BY <1>6 DEF Check, CheckRollback
    <3>2. ASSUME NEW g, Set(s, [at |-> g])
          PROVE  \A t \in Save : save'[t].before = save[t].before /\ save'[t].backup = save[t].backup
      BY <1>0, <3>2, SetKeepsTheRest
    <3>3. ASSUME NEW m, Set(s, [mutations |-> m])
          PROVE  \A t \in Save : save'[t].before = save[t].before /\ save'[t].backup = save[t].backup
      BY <1>0, <3>3, SetKeepsTheRest
    <3> QED
      BY <3>1, <3>2, <3>3
  <2>2. UNCHANGED <<disk, seen, expected, edits, untold, adopted, missed>>
    BY <1>6 DEF Check, CheckRollback, diskVars, stateVars, watchVars, told
  <2> QED
    BY <2>1, <2>2, NothingTold
<1>7. CASE Mutate(s) \/ MutateFails(s) \/ RestoreFails(s) \/ CheckRollbackFails(s)
  <2>1. \A t \in Save : save'[t].before = save[t].before /\ save'[t].backup = save[t].backup
    <3>1. ASSUME NEW m, NEW w, Falter(s, m, w)
          PROVE  \A t \in Save : save'[t].before = save[t].before /\ save'[t].backup = save[t].backup
      BY <1>0, <3>1, SetKeepsTheRest DEF Falter
    <3>2. CASE Mutate(s) \/ MutateFails(s)
      BY <1>0, <3>2, SetKeepsTheRest DEF Mutate, MutateFails
    <3>3. CASE RestoreFails(s) \/ CheckRollbackFails(s)
      BY <3>1, <3>3 DEF RestoreFails, CheckRollbackFails
    <3> QED
      BY <1>7, <3>2, <3>3
  <2>2. save[s].at \in File \/ disk' = disk
    BY <1>0, <1>7, LocalsAre DEF Mutate, MutateFails, RestoreFails, CheckRollbackFails, diskVars
  <2>3. \/ disk' = disk \/ disk' = [disk EXCEPT ![save[s].at] = Absent]
        \/ disk' = [disk EXCEPT ![save[s].at] = s]
    BY <1>7 DEF Mutate, MutateFails, RestoreFails, CheckRollbackFails, Written, diskVars
  <2>4. disk'[f] \in {disk[f], Absent} \cup Save
    BY <1>0, <2>2, <2>3 DEF SaveTypeOK
  <2>5. UNCHANGED <<seen, expected, edits, untold, adopted, missed>>
    BY <1>7
    DEF Mutate, MutateFails, RestoreFails, CheckRollbackFails, stateVars, watchVars, told
  <2> QED
    BY <2>1, <2>4, <2>5 DEF Remembers, Owes
<1>8. CASE Restore(s)
  <2> DEFINE g == save[s].at
  <2>1. \A t \in Save : save'[t].before = save[t].before /\ save'[t].backup = save[t].backup
    BY <1>0, <1>8, SetKeepsTheRest DEF Restore
  <2>2. g \in File
    BY <1>0, <1>8, LocalsAre DEF Restore
  <2>3. /\ disk' = [disk EXCEPT ![g] = save[s].backup[g]]
        /\ adopted' = adopted \cup {h \in {g} : save[s].backup[h] = untold[h]}
        /\ UNCHANGED <<seen, expected, edits, untold, missed>>
    BY <1>8 DEF Restore, stateVars, watchVars
  <2>4. IF f = g THEN disk'[f] = save[s].backup[f] ELSE disk'[f] = disk[f]
    BY <1>0, <2>2, <2>3 DEF SaveTypeOK
  <2>5. f = g /\ disk'[f] = untold[f] => f \in adopted'
    BY <2>3, <2>4
  <2> HIDE DEF g
  <2> QED
    BY <2>1, <2>3, <2>4, <2>5 DEF Remembers, Owes
<1>9. CASE Succeed(s) \/ Fail(s) \/ CleanupFails(s)
  <2>1. /\ \A t \in Save : t # s => save'[t] = save[t]
        /\ save'[s].before = Started.before /\ save'[s].backup = Started.backup
    BY <1>0, <1>9 DEF Succeed, Fail, CleanupFails, AnswerFailed, Forget, SaveTypeOK
  <2>2. save'[s].before[f] = Unread /\ save'[s].backup[f] = Absent
    BY <2>1 DEF Started
  <2>3. UNCHANGED <<disk, seen, edits, untold, adopted, missed>>
    BY <1>9, FailureLeaves DEF Succeed, Fail, CleanupFails, diskVars, told
  <2>4. expected' = expected \/ expected' = [expected EXCEPT ![s] = Expected(s)]
    BY <1>9, FailureLeaves DEF Succeed, Fail, CleanupFails
  <2>5. Expected(s)[f] \in {Absent, Unread} \cup Save
    BY DEF Expected, Written
  <2>6. \A t \in Save : expected'[t][f] \in {expected[t][f], Absent, Unread} \cup Save
    BY <1>0, <2>4, <2>5 DEF SaveTypeOK
  <2> QED
    BY <2>1, <2>2, <2>3, <2>6 DEF Remembers, Owes
<1> QED
  BY <1>1, <1>2, <1>3, <1>4, <1>5, <1>6, <1>7, <1>8, <1>9 DEF SaveStep

(* So it is of every step.                                                 *)
LEMMA StepsTrace ==
  ASSUME SaveTypeOK, CurrentIsSet, [Next]_vars, NEW f \in File,
         untold \in [File -> External \cup {Unread}]
  PROVE  Remembers(f) /\ Owes(f)
<1>1. CASE \E s \in Save : SaveStep(s)
  BY <1>1, SavesTrace
<1>2. CASE \E g \in File : Notice(g)
  <2>1. UNCHANGED <<disk, expected, edits, untold, adopted, missed, save>>
    BY <1>2 DEF Notice, diskVars, stateVars, told
  <2>2. seen'[f] \in {seen[f], disk[f]}
    BY <1>2 DEF Notice, SaveTypeOK
  <2> QED
    BY <2>1, <2>2 DEF Remembers, Owes
<1>3. ASSUME NEW g \in File, Edit(g)
      PROVE  Remembers(f) /\ Owes(f)
  <2>1. UNCHANGED <<seen, expected>> /\ edits' = edits + 1
    BY <1>3 DEF Edit, watchVars, stateVars
  <2>2. \A t \in Save : save'[t].before = save[t].before /\ save'[t].backup = save[t].backup
    <3> TAKE t \in Save
    <3>1. \/ save'[t] = save[t]
          \/ save'[t] = [save[t] EXCEPT !.touched = save[t].touched \cup {g}]
      BY <1>3 DEF Edit
    <3>2. save[t] \in Locals
      BY DEF SaveTypeOK
    <3> QED
      BY <3>1, <3>2 DEF Locals
  <2>3. CASE f = g
    BY <1>3, <2>1, <2>2, <2>3 DEF Remembers, Owes
  <2>4. CASE f # g
    <3>1. /\ disk'[f] = disk[f] /\ untold'[f] = untold[f] /\ adopted' = adopted \ {g}
          /\ f \in missed => f \in missed'
      BY <1>3, <2>4 DEF Edit, SaveTypeOK
    <3> QED
      BY <1>3, <2>1, <2>2, <2>4, <3>1 DEF Remembers, Owes
  <2> QED
    BY <2>3, <2>4
<1>4. ASSUME NEW e \in watch, HandleStep(e) \/ Compared(e)
      PROVE  Remembers(f) /\ Owes(f)
  <2>1. UNCHANGED <<disk, seen, expected, edits, save>>
    BY <1>4 DEF HandleStep, Compared, stateVars
  <2>2. (untold' = untold /\ adopted' = adopted /\ missed' = missed) \/ Report(e)
    BY <1>4 DEF HandleStep, Handle, Compared, Compare, told
  <2>3. \/ /\ untold'[f] = untold[f]
           /\ (f \in adopted => f \in adopted') /\ (f \in missed => f \in missed')
        \/ untold'[f] = Unread
    BY <2>2, ReportTells
  <2> QED
    BY <2>1, <2>3 DEF Remembers, Owes
<1>5. CASE \E e \in watch : Observed(e)
  <2>1. UNCHANGED <<disk, seen, expected, edits, untold, adopted, missed, save>>
    BY <1>5 DEF Observed, diskVars, told
  <2> QED
    BY <2>1, NothingTold
<1>6. CASE LoadStep
  <2>1. UNCHANGED <<disk, expected, edits, save>>
    BY <1>6, LoadLeaves
  <2>2. seen'[f] \in {seen[f], disk[f]}
    BY <1>6 DEF LoadStep, BeginLoad, ReadFile, AnswerLoad, AbortLoad, Rewatch, Look, watchVars,
                SaveTypeOK
  <2>3. CASE AnswerLoad
    BY <2>1, <2>2, <2>3 DEF AnswerLoad, Remembers, Owes
  <2>4. CASE ~AnswerLoad
    <3>1. untold' = untold /\ adopted' = adopted /\ (f \in missed => f \in missed')
      BY <1>6, <2>4 DEF LoadStep, BeginLoad, ReadFile, AbortLoad, Rewatch, Look, told
    <3> QED
      BY <2>1, <2>2, <3>1 DEF Remembers, Owes
  <2> QED
    BY <2>3, <2>4
<1>7. CASE UNCHANGED vars
  BY <1>7, NothingChanges, NothingTold
<1> QED
  BY <1>1, <1>2, <1>3, <1>4, <1>5, <1>6, <1>7 DEF Next

(* What others wrote and the renderer was not told of.                     *)
ToldFits ==
    /\ untold \in [File -> External \cup {Unread}]
    /\ adopted \subseteq File /\ missed \subseteq File

(* What others wrote is owed, or nothing is.                               *)
LEMMA ToldTypesKept ==
  ASSUME SaveTypeOK, CurrentIsSet, Dated, [Next]_vars
  PROVE  ToldFits'
<1>0. ToldFits
  BY DEF Dated, ToldFits
<1>1. CASE untold' = untold /\ adopted' = adopted /\ missed' = missed
  BY <1>0, <1>1 DEF ToldFits
<1>2. ASSUME NEW s \in Save, Snapshot(s) \/ Restore(s)
      PROVE  ToldFits'
  <2>1. untold' = untold /\ missed' = missed
    BY <1>2 DEF Snapshot, Restore
  <2>2. Managed \subseteq File /\ (Restore(s) => save[s].at \in File)
    BY LocalsAre DEF Managed, SaveTypeOK, Restore
  <2>3. adopted' \subseteq File
    BY <1>0, <1>2, <2>2 DEF Snapshot, Restore, ToldFits
  <2> QED
    BY <1>0, <2>1, <2>3 DEF ToldFits
<1>3. ASSUME NEW g \in File, Edit(g)
      PROVE  ToldFits'
  <2>1. PICK c \in {MaxSaves + edits + 1, Absent} : disk' = [disk EXCEPT ![g] = c]
    BY <1>3 DEF Edit
  <2>2. disk'[g] = c
    BY <2>1 DEF SaveTypeOK
  <2>3. c # Absent => c \in External
    <3>1. edits \in Nat /\ edits < MaxEdits
      BY <1>3 DEF Edit, SaveTypeOK
    <3> QED
      BY <2>1, <3>1, SaveAssumption DEF External
  <2>4. untold' = [untold EXCEPT ![g] = IF disk'[g] = Absent THEN Unread ELSE disk'[g]]
    BY <1>3 DEF Edit
  <2>5. untold' \in [File -> External \cup {Unread}]
    BY <1>0, <2>2, <2>3, <2>4 DEF ToldFits
  <2> QED
    BY <1>0, <1>3, <2>5 DEF Edit, ToldFits
<1>4. ASSUME NEW e \in watch, HandleStep(e) \/ Compared(e)
      PROVE  ToldFits'
  <2>1. (untold' = untold /\ adopted' = adopted /\ missed' = missed) \/ Report(e)
    BY <1>4 DEF HandleStep, Handle, Compared, Compare, told
  <2>2. CASE Report(e)
    BY <1>0, <2>2 DEF Report, told, ToldFits
  <2> QED
    BY <1>1, <2>1, <2>2
<1>5. CASE LoadStep
  BY <1>0, <1>5 DEF LoadStep, BeginLoad, ReadFile, AnswerLoad, AbortLoad, Rewatch, Look, told, ToldFits
<1>6. CASE \E s \in Save : SaveStep(s) /\ ~Snapshot(s) /\ ~Restore(s)
  <2>1. untold' = untold /\ adopted' = adopted /\ missed' = missed
    BY <1>6, FailureLeaves
    DEF SaveStep, Begin, Activate, StepFails, Verify, Backup, Check, Mutate, MutateFails,
        CheckManifest, RenameManifest, CheckRollback, CheckRollbackFails, RestoreFails, Succeed,
        Fail, CleanupFails, told
  <2> QED
    BY <1>1, <2>1
<1>7. CASE (\E g \in File : Notice(g)) \/ (\E e \in watch : Observed(e)) \/ UNCHANGED vars
  BY <1>1, <1>7, NothingChanges DEF Notice, Observed, told
<1> QED
  BY <1>2, <1>3, <1>4, <1>5, <1>6, <1>7 DEF Next

(* A new edit has a content that is newer than every other.                *)
LEMMA DatedKept ==
  ASSUME SaveTypeOK, CurrentIsSet, Dated, [Next]_vars
  PROVE  Dated'
<1>1. /\ untold' \in [File -> External \cup {Unread}]
      /\ adopted' \subseteq File /\ missed' \subseteq File
  BY ToldTypesKept DEF ToldFits
<1>2. \A f \in File : Remembers(f) /\ Owes(f)
  BY StepsTrace DEF Dated
<1>3. edits \in Nat /\ MaxSaves \in Nat /\ Absent \notin Nat /\ Unread \notin Nat
  BY SaveAssumption DEF SaveTypeOK
<1> DEFINE Old(c) == c \in Nat => c <= MaxSaves + edits
           New(c) == c \in Nat => c <= MaxSaves + edits'
<1>4. ASSUME NEW f \in File
      PROVE  /\ Old(disk[f]) /\ Old(seen[f]) /\ Old(untold[f])
             /\ \A s \in Save : Old(save[s].before[f]) /\ Old(save[s].backup[f])
                                                       /\ Old(expected[s][f])
  BY DEF Dated, IsDated
<1>5. ASSUME NEW f \in File
      PROVE  /\ New(disk'[f]) /\ New(seen'[f]) /\ New(untold'[f])
             /\ \A s \in Save : New(save'[s].before[f]) /\ New(save'[s].backup[f])
                                                        /\ New(expected'[s][f])
  <2>1. edits' \in {edits, edits + 1}
    BY <1>2 DEF Owes
  <2>1a. edits' \in Nat /\ edits <= edits'
    BY <1>3, <2>1
  <2>1b. \A c \in Nat, m \in Nat, e \in Nat, k \in Nat : c <= m + e /\ e <= k => c <= m + k
    OBVIOUS
  <2>1c. \A c \in Nat, m \in Nat, k \in Nat : c <= m => c <= m + k
    OBVIOUS
  <2>2. ASSUME NEW c, Old(c)
        PROVE  New(c)
    BY <1>3, <2>2, <2>1a, <2>1b
  <2>3. ASSUME NEW c \in {Absent, Unread} \cup Save
        PROVE  New(c)
    <3>1. c \in Nat => c <= MaxSaves
      BY <1>3 DEF Save
    <3> QED
      BY <1>3, <2>1a, <2>1c, <3>1
  <2>4. Edit(f) => disk'[f] \in {MaxSaves + edits + 1, Absent} /\ edits' = edits + 1
                   /\ untold'[f] \in {disk'[f], Unread}
    <3>1. ASSUME Edit(f)
          PROVE  /\ disk'[f] \in {MaxSaves + edits + 1, Absent} /\ edits' = edits + 1
                 /\ untold' = [untold EXCEPT ![f] = IF disk'[f] = Absent THEN Unread
                                                                         ELSE disk'[f]]
      BY <3>1 DEF Edit, SaveTypeOK
    <3> QED
      BY <3>1 DEF Dated
  <2>5. Edit(f) => New(disk'[f])
    BY <1>3, <2>3, <2>4
  <2> HIDE DEF Old, New
  <2>6. New(disk'[f])
    BY <1>2, <1>4, <2>2, <2>3, <2>5 DEF Owes
  <2>7. New(untold'[f])
    BY <1>2, <1>4, <2>2, <2>3, <2>4, <2>5 DEF Owes
  <2>8. New(seen'[f])
    BY <1>2, <1>4, <2>2 DEF Remembers
  <2>9. ASSUME NEW s \in Save
        PROVE  New(save'[s].before[f]) /\ New(save'[s].backup[f]) /\ New(expected'[s][f])
    BY <1>2, <1>4, <2>2, <2>3 DEF Remembers
  <2> QED
    BY <2>6, <2>7, <2>8, <2>9
<1> QED
  BY <1>1, <1>5 DEF Dated, IsDated

(* No step makes of an edit that is owed the loaded state of a save.       *)
LEMMA NotTakenKept ==
  ASSUME SaveTypeOK, CurrentIsSet, Dated, NotTakenForLoaded, [Next]_vars
  PROVE  NotTakenForLoaded'
<1>1. untold' \in [File -> External \cup {Unread}]
  BY ToldTypesKept DEF ToldFits
<1>2. SUFFICES ASSUME NEW f \in File, f \notin adopted', untold'[f] # Unread, NEW s \in Save
               PROVE  untold'[f] \notin {save'[s].before[f], expected'[s][f]}
  BY DEF NotTakenForLoaded
<1>3. Remembers(f) /\ Owes(f)
  BY StepsTrace DEF Dated
<1>4. untold'[f] \notin {Absent, Unread} \cup Save
  BY <1>1, <1>2, SaveAssumption DEF External, Save
<1>5. CASE untold'[f] = untold[f] /\ (f \in adopted => f \in adopted')
  <2>1. untold[f] \notin {save[s].before[f], expected[s][f]}
    BY <1>2, <1>5 DEF NotTakenForLoaded
  <2> QED
    BY <1>2, <1>3, <1>4, <1>5, <2>1 DEF Remembers
<1>6. CASE Edit(f)
  <2>1. expected' = expected /\ save'[s].before[f] \in {save[s].before[f], Unread}
    <3>1. save'[s] = save[s] \/ save'[s] = [save[s] EXCEPT !.touched = @ \cup {f}]
      BY <1>6 DEF Edit
    <3>2. save[s] \in Locals /\ \A v \in Locals : \A S : [v EXCEPT !.touched = S].before = v.before
      BY DEF Locals, SaveTypeOK
    <3> QED
      BY <1>6, <3>1, <3>2 DEF Edit, stateVars
  <2>2. untold'[f] = MaxSaves + edits + 1
    <3>1. disk'[f] \in {MaxSaves + edits + 1, Absent}
      BY <1>6 DEF Edit, SaveTypeOK
    <3>2. untold' = [untold EXCEPT ![f] = IF disk'[f] = Absent THEN Unread ELSE disk'[f]]
      BY <1>6 DEF Edit
    <3> QED
      BY <1>2, <3>1, <3>2 DEF Dated
  <2>3. IsDated(save[s].before[f]) /\ IsDated(expected[s][f])
    BY DEF Dated
  <2>4. edits \in Nat /\ MaxSaves \in Nat
    BY SaveAssumption DEF SaveTypeOK
  <2> QED
    BY <1>4, <2>1, <2>2, <2>3, <2>4 DEF IsDated
<1> QED
  BY <1>2, <1>3, <1>5, <1>6 DEF Owes

(* What is observed is observed for a save that is current.                *)
LEMMA ObservedKept ==
  ASSUME SaveTypeOK, CurrentIsSet, ObservedForASave, [Next]_vars
  PROVE  ObservedForASave'
<1> DEFINE Fits(S) == \A e \in S : e.phase = "observe" => e.against \in Save
           Quits(q) == \A s \in Save : \A e \in q[s] : e.phase = "arrived"
<1>0. Fits(watch) /\ Quits(queued)
  BY DEF ObservedForASave
<1>1. CASE watch' = watch /\ queued' = queued
  BY <1>0, <1>1 DEF ObservedForASave
<1>2. ASSUME NEW t \in Save, Flush(t)
      PROVE  ObservedForASave'
  <2>1. Fits(queued[t])
    BY <1>0
  <2>2. Fits(watch') /\ Quits(queued')
    BY <1>0, <1>2, <2>1 DEF Flush, SaveTypeOK
  <2> QED
    BY <2>2 DEF ObservedForASave
<1>3. ASSUME NEW s \in Save, SaveStep(s)
      PROVE  ObservedForASave'
  <2>1. CASE Succeed(s)
    BY <1>2, <2>1 DEF Succeed
  <2>2. CASE Fail(s) \/ CleanupFails(s)
    <3>1. step[s] \in {"rollback", "saving"} /\ Flush(current)
      BY <2>2 DEF Fail, CleanupFails, AnswerFailed
    <3>2. current \in Save
      BY <3>1 DEF CurrentIsSet
    <3> QED
      BY <1>2, <3>1, <3>2
  <2>3. CASE ~Succeed(s) /\ ~Fail(s) /\ ~CleanupFails(s)
    BY <1>1, <1>3, <2>3
    DEF SaveStep, Begin, Snapshot, Activate, StepFails, Verify, Backup, Check, Mutate, MutateFails,
        CheckManifest, RenameManifest, CheckRollback, CheckRollbackFails, Restore, RestoreFails,
        stateVars, watchVars
  <2> QED
    BY <2>1, <2>2, <2>3
<1>4. ASSUME NEW g \in File, Notice(g)
      PROVE  ObservedForASave'
  <2>1. queued' = queued /\ \A e \in watch' : e \in watch \/ e.phase = "arrived"
    BY <1>4 DEF Notice, Event, stateVars
  <2> QED
    BY <1>0, <2>1 DEF ObservedForASave
<1>5. ASSUME NEW e \in watch, HandleStep(e)
      PROVE  ObservedForASave'
  <2>1. queued' = queued /\ Handle(e)
    BY <1>5 DEF HandleStep, stateVars
  <2>2. e \in WatchEvent
    BY DEF SaveTypeOK
  <2>3. \/ watch' \subseteq watch
        \/ /\ current \in Save
           /\ watch' \subseteq watch \cup {[e EXCEPT !.phase = "observe", !.against = current]}
        \/ watch' \subseteq watch \cup {[e EXCEPT !.phase = "compare",
                                                  !.against = Wanted(e.file)]}
    BY <2>1 DEF Handle, Saving, SaveTypeOK
  <2> DEFINE o == [e EXCEPT !.phase = "observe", !.against = current]
             c == [e EXCEPT !.phase = "compare", !.against = Wanted(e.file)]
  <2>4. o.against = current /\ c.phase = "compare"
    BY <2>2 DEF WatchEvent
  <2> HIDE DEF o, c
  <2>5. Fits(watch')
    <3>1. CASE watch' \subseteq watch
      BY <1>0, <3>1
    <3>2. CASE current \in Save /\ watch' \subseteq watch \cup {o}
      BY <1>0, <2>4, <3>2
    <3>3. CASE watch' \subseteq watch \cup {c}
      BY <1>0, <2>4, <3>3
    <3> QED
      BY <2>3, <3>1, <3>2, <3>3 DEF o, c
  <2> QED
    BY <1>0, <2>1, <2>5 DEF ObservedForASave
<1>6. ASSUME NEW e \in watch, Observed(e)
      PROVE  ObservedForASave'
  <2> DEFINE o == [e EXCEPT !.phase = "arrived", !.against = Unread,
                            !.observed = IF e.type = "unlink" THEN Absent ELSE disk[e.file]]
  <2>1. o.phase = "arrived"
    BY DEF SaveTypeOK, WatchEvent
  <2>2. \/ watch' \subseteq watch /\ queued' = [queued EXCEPT ![e.against] = @ \cup {o}]
        \/ watch' \subseteq watch \cup {o} /\ queued' = queued
    BY <1>6 DEF Observed
  <2> HIDE DEF o
  <2>3. Fits(watch')
    BY <1>0, <2>1, <2>2
  <2>4. Quits(queued')
    BY <1>0, <2>1, <2>2 DEF SaveTypeOK
  <2> QED
    BY <2>3, <2>4 DEF ObservedForASave
<1>7. ASSUME NEW e \in watch, Compared(e)
      PROVE  ObservedForASave'
  BY <1>0, <1>7 DEF Compared, stateVars, ObservedForASave
<1>8. CASE (\E g \in File : Edit(g)) \/ LoadStep \/ UNCHANGED vars
  BY <1>1, <1>8, LoadLeaves, NothingChanges DEF Edit, stateVars, watchVars
<1> QED
  BY <1>3, <1>4, <1>5, <1>6, <1>7, <1>8 DEF Next

(* A step that leaves the suppression alone, of a save that has none or    *)
(* goes on.                                                                *)
LEMMA SuppressionGoesOn ==
  ASSUME QueuesAreFlushed, UNCHANGED <<active, overtaken>>,
         \A t \in Save : queued'[t] # {} => queued[t] # {} \/ active[t],
         \A t \in Save : \/ step'[t] = step[t] \/ ~active[t]
                         \/ step'[t] \notin {"idle", "snapshot", "activate", "saved", "failed"}
  PROVE  QueuesAreFlushed'
  BY DEF QueuesAreFlushed, Running, Over

(* A save that ends flushes its queue, unless another has become current.  *)
LEMMA FlushedKept ==
  ASSUME SaveTypeOK, CurrentIsSet, ~overtaken => QueuesAreFlushed, ~overtaken', [Next]_vars
  PROVE  QueuesAreFlushed' /\ ~overtaken /\ QueuesAreFlushed
<1>1. ~overtaken
  <2>1. CASE \E s \in Save : SaveStep(s)
    BY <2>1
    DEF SaveStep, Begin, Snapshot, Activate, StepFails, Verify, Backup, Check, Mutate, MutateFails,
        CheckManifest, RenameManifest, CheckRollback, CheckRollbackFails, Restore, RestoreFails,
        Succeed, Fail, CleanupFails, AnswerFailed, stateVars
  <2>2. CASE \/ \E g \in File : Notice(g) \/ Edit(g)
             \/ \E e \in watch : HandleStep(e) \/ Observed(e) \/ Compared(e)
    BY <2>2 DEF Notice, HandleStep, Observed, Compared, Edit, stateVars
  <2>3. CASE LoadStep \/ UNCHANGED vars
    BY <2>3, LoadLeaves, NothingChanges
  <2> QED
    BY <2>1, <2>2, <2>3 DEF Next
<1>2. QueuesAreFlushed
  BY <1>1
<1>3. CASE UNCHANGED <<step, stateVars>>
  BY <1>2, <1>3, SuppressionGoesOn DEF stateVars
<1>4. ASSUME NEW s \in Save, SaveStep(s)
      PROVE  QueuesAreFlushed'
  <2>1. ASSUME NEW p, step[s] \in {"idle", "snapshot"}, step' = [step EXCEPT ![s] = p],
               UNCHANGED stateVars
        PROVE  QueuesAreFlushed'
    <3>1. ~active[s]
      BY <1>2, <2>1 DEF QueuesAreFlushed
    <3>2. \A t \in Save : t # s => step'[t] = step[t]
      BY <2>1 DEF SaveTypeOK
    <3> QED
      BY <1>2, <2>1, <3>1, <3>2, SuppressionGoesOn DEF stateVars
  <2>2. CASE Begin(s) \/ Snapshot(s)
    <3>1. /\ step[s] \in {"idle", "snapshot"} /\ UNCHANGED stateVars
          /\ step' = [step EXCEPT ![s] = "snapshot"] \/ step' = [step EXCEPT ![s] = "activate"]
      <4>1. CASE Begin(s)
        BY <4>1 DEF Begin
      <4>2. CASE Snapshot(s)
        BY <4>2 DEF Snapshot, Go
      <4> QED
        BY <2>2, <4>1, <4>2
    <3> QED
      BY <2>1, <3>1
  <2>3. CASE Activate(s)
    <3>1. /\ step' = [step EXCEPT ![s] = "stage"] /\ active' = [active EXCEPT ![s] = TRUE]
          /\ queued' = queued
      BY <2>3 DEF Activate, Go
    <3>2. /\ step'[s] = "stage" /\ active'[s]
          /\ \A t \in Save : t # s => step'[t] = step[t] /\ active'[t] = active[t]
      BY <3>1 DEF SaveTypeOK
    <3> QED
      BY <1>1, <1>2, <3>1, <3>2 DEF QueuesAreFlushed, Running, Over
  <2>4. ASSUME NEW p, p \notin {"idle", "snapshot", "activate", "saved", "failed"}, Go(s, p),
               UNCHANGED stateVars
        PROVE  QueuesAreFlushed'
    <3>1. \A t \in Save : step'[t] = step[t] \/ step'[t] = p
      BY <2>4 DEF Go, SaveTypeOK
    <3> QED
      BY <1>2, <2>4, <3>1, SuppressionGoesOn DEF stateVars
  <2>5. CASE StepFails(s) \/ Verify(s) \/ Backup(s)
    BY <2>4, <2>5 DEF StepFails, Verify, Backup
  <2>6. CASE \E g \in File : Check(s, g)
    BY <1>3, <2>4, <2>6 DEF Check
  <2>7. CASE \/ Mutate(s) \/ CheckRollback(s) \/ CheckRollbackFails(s)
             \/ Restore(s) \/ RestoreFails(s)
    BY <1>3, <2>7 DEF Mutate, CheckRollback, CheckRollbackFails, Restore, RestoreFails
  <2>8. CASE MutateFails(s) \/ RenameManifest(s)
    BY <2>4, <2>8 DEF MutateFails, RenameManifest
  <2>9. CASE CheckManifest(s)
    BY <2>4, <2>9 DEF CheckManifest
  <2>10. ASSUME NEW p, Go(s, p), Flush(s), active' = [active EXCEPT ![s] = FALSE]
         PROVE  QueuesAreFlushed'
    <3>1. /\ ~active'[s] /\ queued'[s] = {}
          /\ \A t \in Save : t # s => /\ step'[t] = step[t] /\ active'[t] = active[t]
                                      /\ queued'[t] = queued[t]
      BY <2>10 DEF Go, Flush, SaveTypeOK
    <3> QED
      BY <1>1, <1>2, <3>1 DEF QueuesAreFlushed, Running, Over
  <2>11. CASE Succeed(s)
    BY <2>10, <2>11 DEF Succeed
  <2>12. CASE Fail(s) \/ CleanupFails(s)
    <3>1. AnswerFailed(s)
      BY <2>12 DEF Fail, CleanupFails
    <3>2. current = s
      BY <3>1 DEF AnswerFailed
    <3> QED
      BY <2>10, <3>1, <3>2 DEF AnswerFailed
  <2> QED
    BY <1>4, <2>2, <2>3, <2>5, <2>6, <2>7, <2>8, <2>9, <2>11, <2>12 DEF SaveStep
<1>5. CASE \E e \in watch : Observed(e)
  <2>1. UNCHANGED <<active, overtaken, step>>
    BY <1>5 DEF Observed
  <2>2. \A t \in Save : queued'[t] # {} => queued[t] # {} \/ active[t]
    BY <1>5 DEF Observed, SaveTypeOK
  <2> QED
    BY <1>2, <2>1, <2>2, SuppressionGoesOn
<1>6. CASE \/ \E g \in File : Notice(g) \/ Edit(g)
           \/ \E e \in watch : HandleStep(e) \/ Compared(e)
           \/ LoadStep \/ UNCHANGED vars
  BY <1>3, <1>6, LoadLeaves, NothingChanges DEF Notice, Edit, HandleStep, Compared, stateVars
<1> QED
  BY <1>1, <1>2, <1>4, <1>5, <1>6 DEF Next

(* An edit that is owed after a step is a new one, or was owed before it.  *)
LEMMA OwedBefore ==
  ASSUME NEW f \in File, Owes(f), untold' \in [File -> External \cup {Unread}], Owed(f)'
  PROVE  \/ Edit(f)
         \/ /\ Owed(f) /\ disk'[f] = disk[f] /\ disk[f] \in External
            /\ untold'[f] = untold[f]
<1>1. /\ f \notin adopted' \cup missed' /\ untold'[f] # Unread /\ untold'[f] = disk'[f]
      /\ untold'[f] \in External
  BY DEF Owed
<1>2. untold'[f] \notin {Absent, Unread} \cup Save
  BY <1>1, SaveAssumption DEF External, Save
<1> QED
  BY <1>1, <1>2 DEF Owes, Owed

(* It is under way still, when what is seen and the events are kept.       *)
LEMMA StillUnderWay ==
  ASSUME OwedIsUnderWay, NEW f \in File, Owed(f), seen'[f] = seen[f], disk'[f] = disk[f],
         watch \subseteq watch',
         \A s \in Save : \A e \in queued[s] : e \in watch' \/ e \in queued'[s]
  PROVE  \/ seen'[f] # disk'[f]
         \/ \E e \in watch' : Tells(e, f)'
         \/ \E s \in Save : \E e \in queued'[s] : Tells(e, f)'
<1>1. \A e : Tells(e, f) <=> Tells(e, f)'
  BY DEF Tells
<1> QED
  BY <1>1 DEF OwedIsUnderWay

(* The steps of saves drop no event.                                       *)
LEMMA SavesDropNothing ==
  ASSUME SaveTypeOK, CurrentIsSet, NEW s \in Save, SaveStep(s)
  PROVE  /\ UNCHANGED seen /\ watch \subseteq watch'
         /\ \A t \in Save : \A e \in queued[t] : e \in watch' \/ e \in queued'[t]
<1>1. ASSUME NEW t \in Save, Flush(t)
      PROVE  /\ watch \subseteq watch'
             /\ \A u \in Save : \A e \in queued[u] : e \in watch' \/ e \in queued'[u]
  <2>1. \A u \in Save : u # t => queued'[u] = queued[u]
    BY <1>1 DEF Flush, SaveTypeOK
  <2> QED
    BY <1>1, <2>1 DEF Flush
<1>2. CASE Succeed(s)
  BY <1>1, <1>2 DEF Succeed
<1>3. CASE Fail(s) \/ CleanupFails(s)
  <2>1. step[s] \in {"rollback", "saving"} /\ Flush(current) /\ UNCHANGED seen
    BY <1>3 DEF Fail, CleanupFails, AnswerFailed
  <2>2. current \in Save
    BY <2>1 DEF CurrentIsSet
  <2> QED
    BY <1>1, <2>1, <2>2
<1>4. CASE ~Succeed(s) /\ ~Fail(s) /\ ~CleanupFails(s)
  <2>1. UNCHANGED <<seen, watch, queued>>
    BY <1>4 DEF SaveStep, Begin, Snapshot, Activate, StepFails, Verify, Backup, Check, Mutate,
                MutateFails, CheckManifest, RenameManifest, CheckRollback, CheckRollbackFails,
                Restore, RestoreFails, stateVars, watchVars
  <2> QED
    BY <2>1
<1> QED
  BY <1>2, <1>3, <1>4

(* An event of an edit that is owed is reported, or tells of it still.     *)
LEMMA HandledOrTold ==
  ASSUME SaveTypeOK, NotTakenForLoaded, OwedIsNewer, ObservedForASave, NEW f \in File, Owed(f),
         disk[f] \in External, NEW e \in watch, Tells(e, f),
         untold' \in [File -> External \cup {Unread}], untold'[f] = untold[f],
         HandleStep(e) \/ Observed(e) \/ Compared(e)
  PROVE  \/ \E d \in watch' : Tells(d, f)'
         \/ \E s \in Save : \E d \in queued'[s] : Tells(d, f)'
<1> DEFINE Told(x) == /\ x.file = f /\ x.type # "unlink"
                      /\ x.phase = "arrived" => x.observed \in {Unread, disk'[f]}
                      /\ x.phase = "compare" => x.against # disk'[f]
<1>0. ASSUME \/ \E x \in watch' : Told(x)
             \/ \E s \in Save : \E x \in queued'[s] : Told(x)
      PROVE  \/ \E d \in watch' : Tells(d, f)'
             \/ \E s \in Save : \E d \in queued'[s] : Tells(d, f)'
  BY <1>0 DEF Tells
<1>1. /\ disk' = disk /\ e \in WatchEvent /\ e.file = f /\ e.type # "unlink"
      /\ disk[f] # Absent /\ disk[f] # Unread
  BY SaveAssumption DEF HandleStep, Observed, Compared, diskVars, SaveTypeOK, Tells, External
<1>1a. modTime[f] # "current"
  BY DEF OwedIsNewer
<1>2. ~Report(e)
  <2>1. ASSUME Report(e)
        PROVE  untold'[f] = Unread
    BY <1>1, <1>1a, <2>1 DEF Report
  <2> QED
    BY <2>1 DEF Owed
<1>3. CASE HandleStep(e)
  <2>1. Handle(e) /\ e.phase = "arrived" /\ e.observed \in {Unread, disk[f]}
    BY <1>3 DEF HandleStep, Handle, Tells
  <2>2. CASE Saving
    <3> DEFINE d == [e EXCEPT !.phase = "observe", !.against = current]
    <3>1. d \in watch'
      BY <2>1, <2>2 DEF Handle
    <3>2. d.file = f /\ d.type # "unlink" /\ d.phase = "observe"
      BY <1>1 DEF WatchEvent
    <3> HIDE DEF d
    <3>3. Told(d)
      BY <3>2
    <3> QED
      BY <1>0, <3>1, <3>3
  <2>3. CASE ~Saving /\ Wanted(f) # Unread
    <3>1. Wanted(f) # disk[f]
      <4>1. current \in Save /\ Wanted(f) = expected[current][f]
        BY <2>3 DEF Wanted, SaveTypeOK
      <4> QED
        BY <4>1 DEF NotTakenForLoaded, Owed
    <3>2. CASE e.observed = Unread
      <4> DEFINE d == [e EXCEPT !.phase = "compare", !.against = Wanted(e.file)]
      <4>1. d \in watch'
        BY <1>1, <2>1, <2>3, <3>2 DEF Handle
      <4>2. d.file = f /\ d.type # "unlink" /\ d.phase = "compare" /\ d.against = Wanted(f)
        BY <1>1 DEF WatchEvent
      <4> HIDE DEF d
      <4>3. Told(d)
        BY <1>1, <3>1, <4>2
      <4> QED
        BY <1>0, <4>1, <4>3
    <3>3. CASE e.observed # Unread
      <4>1. Compare(e, Wanted(f), disk[f])
        BY <1>1, <2>1, <2>3, <3>3 DEF Handle
      <4> QED
        BY <1>2, <3>1, <4>1 DEF Compare
    <3> QED
      BY <3>2, <3>3
  <2>4. CASE ~Saving /\ Wanted(f) = Unread
    BY <1>1, <1>2, <2>1, <2>4 DEF Handle
  <2> QED
    BY <2>2, <2>3, <2>4
<1>4. CASE Observed(e)
  <2> DEFINE o == [e EXCEPT !.phase = "arrived", !.against = Unread,
                            !.observed = IF e.type = "unlink" THEN Absent ELSE disk[e.file]]
  <2>1. o.file = f /\ o.type # "unlink" /\ o.phase = "arrived" /\ o.observed = disk[f]
    BY <1>1 DEF WatchEvent
  <2>2. e.against \in Save
    BY <1>4 DEF Observed, ObservedForASave
  <2>3. o \in watch' \/ queued' = [queued EXCEPT ![e.against] = @ \cup {o}]
    BY <1>4 DEF Observed
  <2> HIDE DEF o
  <2>4. Told(o)
    BY <1>1, <2>1
  <2>5. o \in watch' \/ o \in queued'[e.against]
    BY <2>2, <2>3 DEF SaveTypeOK
  <2> QED
    BY <1>0, <2>2, <2>4, <2>5
<1>5. CASE Compared(e)
  <2>1. Compare(e, e.against, disk[f]) /\ e.against # disk[f]
    BY <1>1, <1>5 DEF Compared, Tells
  <2> QED
    BY <1>2, <2>1 DEF Compare
<1> QED
  BY <1>3, <1>4, <1>5

(* What is owed stays newer than what was reported last.                   *)
LEMMA NewerKept ==
  ASSUME SaveTypeOK, CurrentIsSet, Dated, OwedIsNewer, [Next]_vars
  PROVE  OwedIsNewer'
<1>1. untold' \in [File -> External \cup {Unread}]
  BY ToldTypesKept DEF ToldFits
<1>2. SUFFICES ASSUME NEW f \in File, Owed(f)'
               PROVE  modTime'[f] # "current"
  BY DEF OwedIsNewer
<1>3. CASE Edit(f)
  <2>1. PICK m \in MTimes(f) : /\ modTime' = [modTime EXCEPT ![f] = m]
                               /\ missed' = IF m = "current" THEN missed \cup {f}
                                                             ELSE missed \ {f}
    BY <1>3 DEF Edit
  <2>2. m # "current"
    BY <1>2, <2>1 DEF Owed
  <2> QED
    BY <2>1, <2>2 DEF SaveTypeOK
<1>4. CASE ~Edit(f)
  <2>1. Owed(f) /\ untold'[f] # Unread
    BY <1>1, <1>2, <1>4, StepsTrace, OwedBefore DEF Dated, Owed
  <2>2. modTime[f] # "current"
    BY <2>1 DEF OwedIsNewer
  <2>3. CASE \E s \in Save : SaveStep(s)
    <3>1. UNCHANGED modTime \/ \E g : Touch(g)
      BY <2>3, FailureLeaves
      DEF SaveStep, Begin, Snapshot, Activate, StepFails, Verify, Backup, Check, Mutate,
          MutateFails, CheckManifest, RenameManifest, CheckRollback, CheckRollbackFails, Restore,
          RestoreFails, Succeed, Fail, CleanupFails, diskVars
    <3> QED
      BY <2>2, <3>1 DEF Touch, SaveTypeOK
  <2>4. ASSUME NEW e \in watch, HandleStep(e) \/ Compared(e)
        PROVE  modTime'[f] # "current"
    <3>1. UNCHANGED modTime \/ Report(e)
      BY <2>4 DEF HandleStep, Handle, Compared, Compare
    <3>2. CASE Report(e) /\ e.file = f
      BY <1>1, <2>1, <2>2, <3>2 DEF Report, Dated
    <3>3. CASE Report(e) /\ e.file # f
      BY <2>2, <3>3 DEF Report, SaveTypeOK
    <3> QED
      BY <2>2, <3>1, <3>2, <3>3
  <2>5. ASSUME NEW g \in File, Edit(g)
        PROVE  modTime'[f] # "current"
    BY <1>4, <2>2, <2>5 DEF Edit, SaveTypeOK
  <2>6. CASE (\E g \in File : Notice(g)) \/ \E e \in watch : Observed(e)
    BY <2>2, <2>6 DEF Notice, Observed, diskVars
  <2>7. CASE LoadStep \/ UNCHANGED vars
    BY <2>2, <2>7, LoadLeaves, NothingChanges
  <2> QED
    BY <2>3, <2>4, <2>5, <2>6, <2>7 DEF Next
<1> QED
  BY <1>3, <1>4

(* What is owed is under way after every step.                             *)
LEMMA UnderWayKept ==
  ASSUME SaveTypeOK, CurrentIsSet, Dated, NotTakenForLoaded, OwedIsNewer, ObservedForASave,
         OwedIsUnderWay, [Next]_vars
  PROVE  OwedIsUnderWay'
<1>1. untold' \in [File -> External \cup {Unread}]
  BY ToldTypesKept DEF ToldFits
<1>2. SUFFICES ASSUME NEW f \in File, Owed(f)'
               PROVE  \/ seen'[f] # disk'[f]
                      \/ \E e \in watch' : Tells(e, f)'
                      \/ \E s \in Save : \E e \in queued'[s] : Tells(e, f)'
  BY DEF OwedIsUnderWay
<1>3. Owes(f)
  BY StepsTrace DEF Dated
<1>4. CASE Edit(f)
  <2>1. disk'[f] = MaxSaves + edits + 1
    <3>1. disk'[f] \in {MaxSaves + edits + 1, Absent}
      BY <1>4 DEF Edit, SaveTypeOK
    <3>2. disk'[f] \in External
      BY <1>1, <1>2 DEF Owed
    <3> QED
      BY <3>1, <3>2, SaveAssumption DEF External
  <2>2. IsDated(seen[f]) /\ seen' = seen
    BY <1>4 DEF Dated, Edit, watchVars
  <2>3. edits \in Nat /\ MaxSaves \in Nat
    BY SaveAssumption DEF SaveTypeOK
  <2> QED
    BY <2>1, <2>2, <2>3 DEF IsDated
<1>5. CASE ~Edit(f)
  <2>1. Owed(f) /\ disk'[f] = disk[f] /\ disk[f] \in External /\ untold'[f] = untold[f]
    BY <1>1, <1>2, <1>3, <1>5, OwedBefore
  <2>2. untold'[f] # Unread
    BY <2>1 DEF Owed
  <2>3. CASE \E s \in Save : SaveStep(s)
    BY <2>1, <2>3, SavesDropNothing, StillUnderWay
  <2>4. ASSUME NEW g \in File, Notice(g)
        PROVE  \/ seen'[f] # disk'[f]
               \/ \E e \in watch' : Tells(e, f)'
               \/ \E s \in Save : \E e \in queued'[s] : Tells(e, f)'
    <3>1. CASE f = g
      <4> DEFINE d == Event(f, IF seen[f] = Absent THEN "add"
                               ELSE IF disk[f] = Absent THEN "unlink" ELSE "change",
                            Unread, "arrived", Unread)
      <4>1. disk[f] # Absent
        BY <2>1, SaveAssumption DEF External
      <4>2. d \in watch'
        BY <2>4, <3>1 DEF Notice
      <4>3. d.file = f /\ d.type # "unlink" /\ d.phase = "arrived" /\ d.observed = Unread
        BY <4>1 DEF Event
      <4> HIDE DEF d
      <4> QED
        BY <4>2, <4>3 DEF Tells
    <3>2. CASE f # g
      <4>1. /\ seen'[f] = seen[f] /\ watch \subseteq watch' /\ queued' = queued
        BY <2>4, <3>2 DEF Notice, SaveTypeOK, stateVars
      <4>2. \A e : Tells(e, f) <=> Tells(e, f)'
        BY <2>1 DEF Tells
      <4> QED
        BY <2>1, <4>1, <4>2 DEF OwedIsUnderWay
    <3> QED
      BY <3>1, <3>2
  <2>5. ASSUME NEW e \in watch, HandleStep(e) \/ Observed(e) \/ Compared(e)
        PROVE  \/ seen'[f] # disk'[f]
               \/ \E d \in watch' : Tells(d, f)'
               \/ \E s \in Save : \E d \in queued'[s] : Tells(d, f)'
    <3>1. CASE Tells(e, f)
      BY <1>1, <2>1, <2>5, <3>1, HandledOrTold
    <3>2. CASE ~Tells(e, f)
      <4>1. /\ seen' = seen /\ watch \ {e} \subseteq watch'
            /\ \A s \in Save : queued[s] \subseteq queued'[s]
        <5>1. CASE Observed(e)
          BY <5>1 DEF Observed, SaveTypeOK
        <5>2. CASE HandleStep(e) \/ Compared(e)
          BY <5>2 DEF HandleStep, Handle, Compared, stateVars
        <5> QED
          BY <2>5, <5>1, <5>2
      <4>2. \A d : Tells(d, f) <=> Tells(d, f)'
        BY <2>1 DEF Tells
      <4> QED
        BY <2>1, <3>2, <4>1, <4>2 DEF OwedIsUnderWay
    <3> QED
      BY <3>1, <3>2
  <2>6. CASE (\E g \in File : Edit(g)) \/ UNCHANGED vars
    <3>1. UNCHANGED <<seen, watch, queued>>
      BY <2>6, NothingChanges DEF Edit, watchVars, stateVars
    <3> QED
      BY <2>1, <3>1, StillUnderWay
  <2>7. CASE LoadStep
    <3>1. UNCHANGED <<watch, queued>>
      BY <2>7, LoadLeaves
    <3>2. seen'[f] = seen[f]
      <4>1. CASE Look(f)
        <5>1. f \notin missed'
          BY <1>2 DEF Owed
        <5> QED
          BY <4>1, <5>1 DEF Look, SaveTypeOK
      <4>2. CASE ~Look(f)
        BY <2>7, <4>2
        DEF LoadStep, BeginLoad, ReadFile, AnswerLoad, AbortLoad, Rewatch, Look, watchVars, SaveTypeOK
      <4> QED
        BY <4>1, <4>2
    <3> QED
      BY <2>1, <3>1, <3>2, StillUnderWay
  <2> QED
    BY <2>3, <2>4, <2>5, <2>6, <2>7 DEF Next
<1> QED
  BY <1>4, <1>5

(* In every execution whatever others wrote is reported, or its report is  *)
(* under way and will not be taken for an old one, or it was adopted or    *)
(* missed, as long as no save fails that another has overtaken.            *)
THEOREM ToldInvariance == Spec => []ToldInv
<1>1. Init => Dated /\ NotTakenForLoaded /\ OwedIsNewer /\ ObservedForASave /\ QueuesAreFlushed
              /\ OwedIsUnderWay
  <2> SUFFICES ASSUME Init
               PROVE  Dated /\ NotTakenForLoaded /\ OwedIsNewer /\ ObservedForASave
                      /\ QueuesAreFlushed /\ OwedIsUnderWay
    OBVIOUS
  <2>1. \A c \in {0, Absent, Unread} : IsDated(c)
    BY SaveAssumption DEF Init, IsDated
  <2>2. Dated
    <3>1. \A f \in File : /\ disk[f] \in {0, Absent} /\ seen[f] = disk[f] /\ untold[f] = Unread
                          /\ \A s \in Save : /\ save[s].before[f] = Unread
                                             /\ save[s].backup[f] = Absent
                                             /\ expected[s][f] = Unread
      BY DEF Init, Started
    <3>2. /\ untold \in [File -> External \cup {Unread}]
          /\ adopted \subseteq File /\ missed \subseteq File
      BY DEF Init
    <3> QED
      BY <2>1, <3>1, <3>2 DEF Dated
  <2>3. NotTakenForLoaded /\ OwedIsNewer /\ OwedIsUnderWay
    BY DEF Init, NotTakenForLoaded, OwedIsNewer, OwedIsUnderWay, Owed
  <2>4. ObservedForASave /\ QueuesAreFlushed
    BY DEF Init, ObservedForASave, QueuesAreFlushed
  <2> QED
    BY <2>2, <2>3, <2>4
<1>2. WholeInv /\ ToldInv /\ [Next]_vars
      => Dated' /\ NotTakenForLoaded' /\ OwedIsNewer' /\ ObservedForASave'
         /\ (~overtaken' => QueuesAreFlushed' /\ OwedIsUnderWay')
  BY DatedKept, NotTakenKept, NewerKept, ObservedKept, FlushedKept, UnderWayKept DEF ToldInv, WholeInv
<1>3. WholeInv' /\ Dated' /\ NotTakenForLoaded' /\ OwedIsNewer' /\ ObservedForASave'
      /\ (~overtaken' => QueuesAreFlushed' /\ OwedIsUnderWay') => ToldInv'
  BY DEF ToldInv
<1>4. Init /\ WholeInv => ToldInv
  BY <1>1 DEF ToldInv
<1> QED
  BY <1>2, <1>3, <1>4, SaveInvariance, PTL DEF Spec

(* In every execution an external edit that is still on the disk when all  *)
(* has settled was reported to the renderer, but in the ways that          *)
(* CollectionSave names.                                                   *)
THEOREM QuietIsTold == Spec => []QuietMeansTold
<1>1. ToldInv => QuietMeansTold
  <2> SUFFICES ASSUME ToldInv, Quiet, ~overtaken, NEW f \in File \ (adopted \cup missed)
               PROVE  untold[f] = Unread \/ untold[f] # disk[f]
    BY DEF QuietMeansTold
  <2>1. QueuesAreFlushed /\ OwedIsUnderWay
    BY DEF ToldInv
  <2>2. \A s \in Save : queued[s] = {}
    BY <2>1 DEF QueuesAreFlushed, Quiet
  <2>3. ~Owed(f)
    BY <2>1, <2>2 DEF OwedIsUnderWay, Quiet
  <2> QED
    BY <2>3 DEF Owed
<1> QED
  BY <1>1, ToldInvariance, PTL
===============================================================================
