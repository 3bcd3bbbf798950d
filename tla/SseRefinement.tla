------------------------------ MODULE SseRefinement ------------------------------
(***************************************************************************)
(* The SSE handler keeps the promise of ConnectionRegistry for its         *)
(* entries: a call is live while it is registered, from the commit before  *)
(* its headers are awaited until it is removed.                            *)
(***************************************************************************)
EXTENDS SseHandler

(* Once a call has asked for its stream, or was disposed, it is not new.   *)
Spent(c) == stream[c] # "none" \/ explicit[c]

StatusOf(c) ==
    IF c \in Entries(connections) THEN "live"
    ELSE IF Spent(c) THEN "done" ELSE "new"

Registry == INSTANCE ConnectionRegistry WITH
    Conn <- Call,
    slot <- connections,
    status <- [c \in Call |-> StatusOf(c)],
    present <- alive,
    speaker <- IF io = None THEN None ELSE io.from

(* Every step of the handler is a step of the registry or leaves it alone. *)
ImplementsRegistry == Registry!CSpec
================================================================================
