----------------------------- MODULE AiCompletions -----------------------------
(***************************************************************************)
(* electron/main/handlers/ai-lab-handler.ts, the completions: a call is    *)
(* registered under its owner's operationId, resolves the provider's       *)
(* address, waits for one of the slots all renderers share (completeSlots, *)
(* a semaphore with a queue) and completes.  A cancel and the renderer's   *)
(* death abort it; a waiting call leaves the queue, another one ends where *)
(* it looks at its signal.                                                 *)
(***************************************************************************)
EXTENDS ConnectionClaims, SequencesExt

CONSTANT MaxSlots \* COMPLETE_CONCURRENCY

VARIABLES
    activeCompletes, \* the call registered under each key
    signalled,       \* the calls in flight whose signal is aborted
    inUse,           \* the semaphore: slots taken
    waiters          \* and who waits for one, in order

labVars == <<activeCompletes, signalled, inUse, waiters>>

LabInit ==
    /\ activeCompletes = EmptyMap
    /\ signalled = {}
    /\ inUse = 0
    /\ waiters = << >>

InFlight == {c \in Call : pc[c] \notin {"idle", "ok", "failed"}}

unusedVars == <<ownerEntry, pending, connections, claimBound, conn, io>>

-------------------------------------------------------------------------------
(* aiLab:complete.  The limiter refuses it, or its operationId is taken.   *)
CompleteRefused(c, k) ==
    /\ Arrive(c, k)
    /\ Answer(c, "failed")
    /\ UNCHANGED <<unusedVars, entryBound, alive, labVars>>

Complete(c, k) ==
    /\ Arrive(c, k)
    /\ activeCompletes[k] = None
    /\ activeCompletes' = Put(activeCompletes, k, c)
    /\ entryBound' = Bind(entryBound, alive, OwnerOf(k))
    /\ Answer(c, "resolving")
    /\ UNCHANGED <<unusedVars, alive, signalled, inUse, waiters>>

(* The map after the finally of each call of cs.                           *)
Unregistered(map, cs) == [k \in Key |-> IF map[k] \in cs THEN None ELSE map[k]]

(* The address is refused, or the call was aborted while it resolved.      *)
NotAdmitted(c) ==
    /\ pc[c] = "resolving"
    /\ Answer(c, "failed")
    /\ activeCompletes' = Unregistered(activeCompletes, {c})
    /\ signalled' = signalled \ {c}
    /\ UNCHANGED <<unusedVars, made, keyOf, entryBound, alive, inUse, waiters>>

(* acquire                                                                 *)
Acquire(c) ==
    /\ pc[c] = "resolving" /\ c \notin signalled
    /\ IF inUse < MaxSlots
       THEN Answer(c, "completing") /\ inUse' = inUse + 1 /\ UNCHANGED waiters
       ELSE Answer(c, "waiting") /\ waiters' = Append(waiters, c) /\ UNCHANGED inUse
    /\ UNCHANGED <<unusedVars, made, keyOf, entryBound, alive, activeCompletes, signalled>>

(* The completion is over, well or not; release hands its slot to the      *)
(* first in the queue, which goes on in the same turn.                     *)
Completed(c) ==
    /\ pc[c] = "completing"
    /\ \E how \in {"ok", "failed"} :
          IF waiters = << >>
          THEN Answer(c, how) /\ inUse' = inUse - 1 /\ UNCHANGED waiters
          ELSE /\ pc' = [pc EXCEPT ![c] = how, ![Head(waiters)] = "completing"]
               /\ waiters' = Tail(waiters)
               /\ UNCHANGED inUse
    /\ activeCompletes' = Unregistered(activeCompletes, {c})
    /\ signalled' = signalled \ {c}
    /\ UNCHANGED <<unusedVars, made, keyOf, entryBound, alive>>

-------------------------------------------------------------------------------
(* The queue without those of gone, in the order it had.  Nobody waits     *)
(* twice, so there is one such queue.                                      *)
QueueWithout(gone) ==
    {q \in SeqOf(ToSet(waiters) \ gone, Len(waiters)) :
        /\ ToSet(q) = ToSet(waiters) \ gone
        /\ \A i, j \in DOMAIN q, m, n \in DOMAIN waiters :
              q[i] = waiters[m] /\ q[j] = waiters[n] => (i < j <=> m < n)}

(* The calls of cs are aborted: the waiting ones leave the queue and end   *)
(* in the same turn.  map is what is registered by then.                   *)
AbortAll(cs, map) ==
    LET gone == {c \in cs : pc[c] = "waiting"} IN
    /\ signalled' = signalled \cup (cs \ gone)
    /\ waiters' \in QueueWithout(gone)
    /\ pc' = [c \in Call |-> IF c \in gone THEN "failed" ELSE pc[c]]
    /\ activeCompletes' = Unregistered(map, gone)

(* aiLab:completeCancel; the entry stays until the call has ended.         *)
CompleteCancel(k) ==
    /\ OwnerOf(k) \in alive
    /\ activeCompletes[k] # None
    /\ AbortAll({activeCompletes[k]}, activeCompletes)
    /\ UNCHANGED <<unusedVars, made, keyOf, entryBound, alive, inUse>>

CompleteDestroyed(o) ==
    /\ o \in alive
    /\ alive' = alive \ {o}
    /\ AbortAll(DisposedOnDestroyed(activeCompletes, entryBound, o),
                AfterDestroyed(activeCompletes, entryBound, o))
    /\ entryBound' = entryBound \ {o}
    /\ UNCHANGED <<unusedVars, made, keyOf, inUse>>

(* unregisterAiLabHandlers                                                 *)
Unregister ==
    /\ AbortAll(Entries(activeCompletes), EmptyMap)
    /\ UNCHANGED <<unusedVars, made, keyOf, entryBound, alive, inUse>>

-------------------------------------------------------------------------------
(* Addresses resolve, and an aborted completion ends.                      *)
Unwinds(c) ==
    \/ NotAdmitted(c) \/ Acquire(c)
    \/ c \in signalled /\ Completed(c)

LabNext ==
    \/ \E c \in Call : \/ \E k \in Key : CompleteRefused(c, k) \/ Complete(c, k)
                       \/ NotAdmitted(c) \/ Acquire(c) \/ Completed(c)
    \/ \E k \in Key : CompleteCancel(k)
    \/ \E o \in Owner : CompleteDestroyed(o)
    \/ Unregister

-------------------------------------------------------------------------------
(* Every slot taken is of a call that completes, whatever was aborted      *)
(* while it held or awaited one; nobody waits while a slot is free; and a  *)
(* call in flight is registered with a live renderer or is aborted.        *)
LabTracked ==
    /\ inUse = Cardinality({c \in Call : pc[c] = "completing"}) /\ inUse <= MaxSlots
    /\ ToSet(waiters) = {c \in Call : pc[c] = "waiting"}
    /\ waiters # << >> => inUse = MaxSlots
    /\ \A c \in InFlight \ signalled :
          activeCompletes[keyOf[c]] = c /\ OwnerOf(keyOf[c]) \in alive
    /\ \A k \in KeysIn(activeCompletes) : activeCompletes[k] \in InFlight

(* Only a call whose provider is silent stays, and who waits behind it.    *)
LabSettled == \A c \in InFlight : pc[c] \in {"completing", "waiting"} /\ c \notin signalled
===============================================================================
