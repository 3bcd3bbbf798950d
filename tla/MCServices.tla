------------------------------ MODULE MCServices ------------------------------
(***************************************************************************)
(* What keeps state outside the transports, for TLC: the saving of a       *)
(* collection, the renderer's copy of one, a persisted store of the        *)
(* renderer, a merge in a git workspace, the rate limiter and the          *)
(* WebSocket tickets.  A behaviour is one of a single service and the      *)
(* others stay as they began.                                              *)
(***************************************************************************)
EXTENDS CollectionSave, PersistedStorage, RateLimiter, WsTicket, FileCollectionSync, GitMerge

CONSTANTS MaxEvents, \* bound: saves, edits, loads and failures in all
          MaxTurns   \* bound: tasks, edits and failures in all

VARIABLE service

ServicesInit ==
    /\ service \in {"collection", "storage", "limiter", "tickets", "files", "git"}
    /\ Init
    /\ PersistInit
    /\ service # "storage" => ~encrypts
    /\ LimiterInit
    /\ TicketInit
    /\ SyncInit
    /\ GitInit
    /\ service # "git" => ~merging

Begun == Cardinality({s \in Save : step'[s] # "idle"})

(* Bound: few saves, edits, loads and failures in one behaviour.           *)
FewEvents == Begun + edits' + loads' + faults' <= MaxEvents

(* Bound: two saves only where the collection is the file f1.              *)
OverlapIsSmall ==
    Begun > 1 =>
        /\ \A f \in File \ {FirstFile} : disk'[f] = Absent
        /\ \A s \in Save : step'[s] \notin Over => save'[s].next = {FirstFile}

(* Bound: few tasks, edits and failures; a behaviour is left off once an   *)
(* operation of the user crosses another.                                  *)
FewTurns == ~crossed /\ begun' + userEdits' + diskEdits' + failures' <= MaxTurns

ServicesNext ==
    /\ UNCHANGED service
    /\ \/ /\ service = "collection"
          /\ Next /\ FewEvents /\ OverlapIsSmall
          /\ UNCHANGED <<persistVars, limiterVars, ticketVars, syncVars, gitVars>>
       \/ /\ service = "storage"
          /\ PersistNext
          /\ UNCHANGED <<vars, limiterVars, ticketVars, syncVars, gitVars>>
       \/ /\ service = "limiter"
          /\ LimiterNext
          /\ UNCHANGED <<vars, persistVars, ticketVars, syncVars, gitVars>>
       \/ /\ service = "tickets"
          /\ TicketNext
          /\ UNCHANGED <<vars, persistVars, limiterVars, syncVars, gitVars>>
       \/ /\ service = "files"
          /\ SyncNext /\ FewTurns
          /\ UNCHANGED <<vars, persistVars, limiterVars, ticketVars, gitVars>>
       \/ /\ service = "git"
          /\ GitNext
          /\ UNCHANGED <<vars, persistVars, limiterVars, ticketVars, syncVars>>

ServicesSpec ==
    ServicesInit /\ [][ServicesNext]_<<service, vars, persistVars, limiterVars, ticketVars, syncVars, gitVars>>
===============================================================================
