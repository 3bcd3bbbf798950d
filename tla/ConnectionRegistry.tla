-------------------------- MODULE ConnectionRegistry --------------------------
(***************************************************************************)
(* What a long-lived transport handler of the main process promises,       *)
(* whatever the protocol: ADR 0006 (docs/adr) and the contract of          *)
(* electron/main/ipc/stream-registry.ts.                                   *)
(*                                                                         *)
(* A renderer names a connection with an id of its own.  A connection that *)
(* is live occupies exactly the slot of its owner and id; a slot holds     *)
(* live connections only; a connection speaks to its renderer only from    *)
(* its slot; and a renderer that is gone occupies no slot.                 *)
(***************************************************************************)
EXTENDS StreamRegistry

CONSTANT Conn   \* every connection a handler may ever build

VARIABLES
    slot,     \* the connection that occupies each key, or None
    status,   \* "new" before it is built, "live", "done"
    present,  \* the renderers that still exist
    speaker   \* observation: the connection that spoke in the last step

cvars == <<slot, status, present, speaker>>

CInit ==
    /\ slot = EmptyMap
    /\ status = [c \in Conn |-> "new"]
    /\ present = Owner
    /\ speaker = None

Finish(cs) == [c \in Conn |-> IF c \in cs THEN "done" ELSE status[c]]

(* A new connection takes a slot, and may say so; the one that had it is   *)
(* done.                                                                   *)
Establish(c, k) ==
    /\ status[c] = "new"
    /\ OwnerOf(k) \in present
    /\ slot' = Put(slot, k, c)
    /\ status' = [Finish({slot[k]}) EXCEPT ![c] = "live"]
    /\ speaker' \in {c, None}
    /\ UNCHANGED present

(* A connection that was built in vain is done before it ever was live.    *)
Discard(c) ==
    /\ status[c] = "new"
    /\ status' = Finish({c})
    /\ speaker' = None
    /\ UNCHANGED <<slot, present>>

(* A live connection ends and may say so as it leaves its slot.            *)
End(k) ==
    /\ slot[k] # None
    /\ status' = Finish({slot[k]})
    /\ slot' = Drop(slot, k)
    /\ speaker' \in {slot[k], None}
    /\ UNCHANGED present

(* Any connection may fall silent; only the one in a slot speaks.          *)
Speak ==
    /\ speaker' \in Entries(slot) \cup {None}
    /\ UNCHANGED <<slot, status, present>>

(* A renderer goes away, and everything it occupied with it.               *)
Leave(o) ==
    /\ o \in present
    /\ present' = present \ {o}
    /\ status' = Finish(OwnedBy(slot, o))
    /\ slot' = WithoutOwner(slot, o)
    /\ speaker' = None

(* The handler is stopped: everything is done.                             *)
Shutdown ==
    /\ status' = Finish(Entries(slot))
    /\ slot' = EmptyMap
    /\ speaker' = None
    /\ UNCHANGED present

CNext ==
    \/ \E c \in Conn, k \in Key : Establish(c, k)
    \/ \E c \in Conn : Discard(c)
    \/ \E k \in Key : End(k)
    \/ \E o \in Owner : Leave(o)
    \/ Speak
    \/ Shutdown

CSpec == CInit /\ [][CNext]_cvars

-------------------------------------------------------------------------------
(* Exactly the live connections occupy slots, each of them one slot.       *)
LiveIffOccupying ==
    /\ \A c \in Conn : status[c] = "live" <=> c \in Entries(slot)
    /\ \A j, k \in KeysIn(slot) : slot[j] = slot[k] => j = k

(* Renderers that are gone occupy nothing.                                 *)
OnlyPresentOccupy == \A k \in KeysIn(slot) : OwnerOf(k) \in present
================================================================================
