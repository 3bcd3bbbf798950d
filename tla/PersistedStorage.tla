--------------------------- MODULE PersistedStorage ---------------------------
(***************************************************************************)
(* One persisted store of the renderer: lib/shared/debouncedStorage.ts,    *)
(* which coalesces bursts of setItem, over lib/shared/dexie-storage.ts,    *)
(* which encrypts each value and puts it into IndexedDB.                   *)
(*                                                                         *)
(* The calls are numbered, and a value is the number of the call that set  *)
(* it.  Timers are external and may be late, but never early; IndexedDB    *)
(* runs the transactions of a table in the order they were created, and    *)
(* each of them may fail.                                                  *)
(***************************************************************************)
EXTENDS Integers, Sequences

CONSTANTS WaitMs, MaxWaitMs,
          Nothing, \* no pending value, no record, no timer
          MaxSets, \* bound: how many values are set or removed
          MaxTime  \* bound: how far the clock goes

ASSUME PersistAssumption == WaitMs \in Nat /\ MaxWaitMs \in Nat /\ Nothing \notin Nat

VARIABLES
    clock,
    encrypts,       \* whether the provider of the key encrypts
    sets,           \* how many calls of setItem and removeItem were made
    pendingValue, firstPendingAt, timer, \* of debouncedStorage; timer is when it is due
    inner,          \* the setItem calls that are being encrypted
    table,          \* the transactions of the table, in their order
    record,         \* what the table holds
    burstAt, lastAt, \* observation: the first and the last set of the pending burst
    wanted,         \* observation: what was last set or removed
    excused         \* observation: that failed, or an earlier one overtook it

debounceVars == <<sets, pendingValue, firstPendingAt, timer, burstAt, lastAt>>
persistVars == <<clock, encrypts, debounceVars, inner, table, record, wanted, excused>>

PersistInit ==
    /\ clock = 1
    /\ encrypts \in BOOLEAN
    /\ sets = 0
    /\ pendingValue = Nothing /\ firstPendingAt = 0 /\ timer = Nothing
    /\ inner = {} /\ table = <<>> /\ record = Nothing
    /\ burstAt = 0 /\ lastAt = 0
    /\ wanted = Nothing /\ excused = FALSE

Least(a, b) == IF a < b THEN a ELSE b
Most(a, b) == IF a < b THEN b ELSE a

(* The delay of a plain debounce: a burst postpones its write for ever.    *)
DelayOfDebounce(first) == WaitMs

Delay(first) == Most(0, Least(WaitMs, MaxWaitMs - (clock - first)))

SetItem ==
    /\ sets < MaxSets
    /\ sets' = sets + 1
    /\ pendingValue' = sets'
    /\ firstPendingAt' = IF firstPendingAt = 0 THEN clock ELSE firstPendingAt
    /\ timer' = clock + Delay(firstPendingAt')
    /\ burstAt' = IF pendingValue = Nothing THEN clock ELSE burstAt
    /\ lastAt' = clock
    /\ wanted' = sets' /\ excused' = FALSE
    /\ UNCHANGED <<clock, encrypts, inner, table, record>>

(* inner.setItem up to its first await: a value that is not encrypted is   *)
(* put at once.                                                            *)
InnerSet(value) ==
    IF encrypts THEN inner' = inner \cup {value} /\ UNCHANGED table
                ELSE table' = Append(table, value) /\ UNCHANGED inner

Unpend ==
    /\ timer' = Nothing /\ firstPendingAt' = 0 /\ pendingValue' = Nothing
    /\ burstAt' = 0 /\ lastAt' = 0

FlushPending ==
    /\ Unpend
    /\ IF pendingValue # Nothing THEN InnerSet(pendingValue) ELSE UNCHANGED <<inner, table>>

Fire ==
    /\ timer # Nothing /\ timer <= clock
    /\ FlushPending
    /\ UNCHANGED <<clock, encrypts, sets, record, wanted, excused>>

(* pagehide, of a page that is shown again.                                *)
PageHide ==
    /\ FlushPending
    /\ UNCHANGED <<clock, encrypts, sets, record, wanted, excused>>

(* The page is closed and opened again: it flushes, but may not live to    *)
(* see the value encrypted or the transactions completed.                  *)
PageClosed ==
    /\ sets > 0
    /\ Unpend
    /\ inner' = {} /\ table' = <<>>
    /\ record' \in {record} \cup {table[i] : i \in DOMAIN table} \cup inner \cup
                      (IF pendingValue = Nothing THEN {} ELSE {pendingValue})
    /\ wanted' = record' /\ excused' = FALSE
    /\ UNCHANGED <<clock, encrypts, sets>>

(* A removal that leaves the pending write in place.                       *)
RemoveKeepingPending ==
    /\ sets < MaxSets
    /\ sets' = sets + 1
    /\ table' = Append(table, Nothing)
    /\ wanted' = Nothing /\ excused' = FALSE
    /\ UNCHANGED <<clock, encrypts, pendingValue, firstPendingAt, timer, burstAt, lastAt,
                   inner, record>>

RemoveItem ==
    /\ sets < MaxSets
    /\ sets' = sets + 1
    /\ Unpend
    /\ table' = Append(table, Nothing)
    /\ wanted' = Nothing /\ excused' = FALSE
    /\ UNCHANGED <<clock, encrypts, inner, record>>

(* The values are encrypted in whatever order, and put in that order.      *)
Encrypted(value) ==
    /\ inner' = inner \ {value}
    /\ table' = Append(table, value)
    /\ excused' = (excused \/ (value # wanted /\ wanted \notin inner /\ pendingValue = Nothing))
    /\ UNCHANGED <<clock, encrypts, debounceVars, record, wanted>>

(* No key, or a failed transaction: logged and swallowed.                  *)
EncryptFails(value) ==
    /\ inner' = inner \ {value}
    /\ excused' = (excused \/ value = wanted)
    /\ UNCHANGED <<clock, encrypts, debounceVars, table, record, wanted>>

Transaction ==
    /\ table # <<>>
    /\ table' = Tail(table)
    /\ \/ record' = Head(table) /\ UNCHANGED excused
       \/ excused' = (excused \/ Head(table) = wanted) /\ UNCHANGED record
    /\ UNCHANGED <<clock, encrypts, debounceVars, inner, wanted>>

ClockTick ==
    /\ clock < MaxTime
    /\ clock' = clock + 1
    /\ UNCHANGED <<encrypts, debounceVars, inner, table, record, wanted, excused>>

PersistNext ==
    \/ SetItem \/ RemoveItem \/ Fire \/ PageHide \/ PageClosed
    \/ \E value \in inner : Encrypted(value) \/ EncryptFails(value)
    \/ Transaction \/ ClockTick

PersistSpec == PersistInit /\ [][PersistNext]_persistVars

-------------------------------------------------------------------------------
(* A burst is written once, when it pauses for WaitMs, but however long it *)
(* goes on, MaxWaitMs after its first value or, if the timer was late, at  *)
(* once.  Nothing is due when nothing is pending.                          *)
Checkpointed ==
    IF pendingValue = Nothing
    THEN timer = Nothing
    ELSE timer = Least(lastAt + WaitMs, Most(lastAt, burstAt + MaxWaitMs))

(* When all is written, the table holds what the store was last given, or  *)
(* nothing after a removal, whatever was pending, hidden or in flight,     *)
(* unless that write failed or an earlier one took longer to encrypt.      *)
PersistsLast ==
    pendingValue = Nothing /\ inner = {} /\ table = <<>> /\ ~excused => record = wanted

-------------------------------------------------------------------------------
(* The inductive invariant behind Checkpointed and PersistsLast            *)

PersistTypeOK ==
    /\ clock \in Nat \ {0} /\ sets \in Nat
    /\ pendingValue \in Nat \cup {Nothing} /\ firstPendingAt \in Nat
    /\ timer \in Int \cup {Nothing}
    /\ burstAt \in Nat /\ lastAt \in Nat
    /\ inner \subseteq Nat /\ table \in Seq(Nat \cup {Nothing})
    /\ record \in Nat \cup {Nothing} /\ wanted \in Nat \cup {Nothing}
    /\ excused \in BOOLEAN

(* The time of the first value is kept as long as one is pending.          *)
BurstSound ==
    IF pendingValue = Nothing THEN firstPendingAt = 0
                              ELSE firstPendingAt = burstAt /\ burstAt # 0

(* The last value is pending, being encrypted, behind all others in the    *)
(* table, or in it.                                                        *)
LastIsOnItsWay ==
    ~excused =>
        IF pendingValue # Nothing THEN pendingValue = wanted
        ELSE \/ wanted \in inner
             \/ IF table = <<>> THEN record = wanted ELSE table[Len(table)] = wanted

PersistInv == PersistTypeOK /\ BurstSound /\ Checkpointed /\ LastIsOnItsWay
===============================================================================
