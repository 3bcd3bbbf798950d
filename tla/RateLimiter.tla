------------------------------ MODULE RateLimiter ------------------------------
(***************************************************************************)
(* electron/main/ipc/ipc-rate-limiter.ts: a sliding window of the calls of *)
(* each key (a webContents), of which at most MaxRequests are let through. *)
(* The clock does not step back.                                           *)
(***************************************************************************)
EXTENDS Integers, Sequences, FiniteSets

CONSTANTS Sender, MaxRequests, WindowMs,
          MaxNow,  \* bound: how far the clock goes
          MaxAsked \* bound: how many calls are made

ASSUME LimiterAssumption == MaxRequests \in Nat /\ WindowMs \in Nat

VARIABLES
    now,
    buckets,  \* the timestamps kept for each key
    accepted, \* observation: when each key's calls were accepted, since its
              \* webContents was created
    verdict,  \* observation: the answer of the latest call, whose it was, and
    asked     \* how many there were

limiterVars == <<now, buckets, accepted, verdict, asked>>

LimiterInit ==
    /\ now = 1
    /\ buckets = [k \in Sender |-> <<>>]
    /\ accepted = [k \in Sender |-> <<>>]
    /\ verdict = [key |-> CHOOSE k \in Sender : TRUE, ok |-> TRUE]
    /\ asked = 0

(* Timestamps are in order: what expired is at the front and shifted out.  *)
WithoutFirst(seq, n) == SubSeq(seq, n + 1, Len(seq))

(* A timestamp exactly one window old kept.                                *)
EvictedLate(k) == WithoutFirst(buckets[k],
    Cardinality({i \in DOMAIN buckets[k] : buckets[k][i] < now - WindowMs}))

Evicted(k) == WithoutFirst(buckets[k],
    Cardinality({i \in DOMAIN buckets[k] : buckets[k][i] <= now - WindowMs}))

CheckLimit(k) ==
    /\ asked < MaxAsked
    /\ asked' = asked + 1
    /\ LET kept == Evicted(k)
           ok == Len(kept) < MaxRequests
       IN /\ buckets' = [buckets EXCEPT ![k] = IF ok THEN Append(kept, now) ELSE kept]
          /\ accepted' = [accepted EXCEPT ![k] = IF ok THEN Append(@, now) ELSE @]
          /\ verdict' = [key |-> k, ok |-> ok]
    /\ UNCHANGED now

(* The webContents is destroyed; its id is not used again.                 *)
Dispose(k) ==
    /\ buckets[k] # <<>>
    /\ buckets' = [buckets EXCEPT ![k] = <<>>]
    /\ accepted' = [accepted EXCEPT ![k] = <<>>]
    /\ UNCHANGED <<now, verdict, asked>>

Pass == now < MaxNow /\ now' = now + 1 /\ UNCHANGED <<buckets, accepted, verdict, asked>>

LimiterNext == (\E k \in Sender : CheckLimit(k) \/ Dispose(k)) \/ Pass

LimiterSpec == LimiterInit /\ [][LimiterNext]_limiterVars

-------------------------------------------------------------------------------
(* A call is let through exactly if fewer than MaxRequests calls of its    *)
(* own key were let through in the window that ends with it, whatever was  *)
(* refused in between and whatever the other keys did.                     *)
RateIsExact ==
    [][asked' # asked =>
        (verdict'.ok <=> Cardinality({i \in DOMAIN accepted[verdict'.key] :
                             accepted[verdict'.key][i] > now - WindowMs}) < MaxRequests)]_limiterVars

-------------------------------------------------------------------------------
(* The inductive invariant: a bucket holds the latest of the accepted      *)
(* calls, in the order of the clock, and those before them have expired.   *)
LimiterTypeOK ==
    /\ now \in Nat
    /\ buckets \in [Sender -> Seq(Nat)]
    /\ accepted \in [Sender -> Seq(Nat)]

InOrder(seq) == \A i, j \in DOMAIN seq : i < j => seq[i] <= seq[j]

(* kept is the end of seq, and what comes before it in seq is t or older.  *)
LatestOf(kept, seq, t) ==
    LET gone == Len(seq) - Len(kept) IN
    /\ gone \in Nat
    /\ \A i \in DOMAIN kept : kept[i] = seq[gone + i]
    /\ \A i \in 1 .. gone : seq[i] <= t

LimiterInv ==
    /\ LimiterTypeOK
    /\ \A k \in Sender :
          /\ InOrder(accepted[k])
          /\ \A i \in DOMAIN accepted[k] : accepted[k][i] <= now
          /\ LatestOf(buckets[k], accepted[k], now - WindowMs)
===============================================================================
