-------------------------- MODULE WebSocketRefinement --------------------------
(***************************************************************************)
(* The WebSocket handler keeps the promise of ConnectionRegistry.  A       *)
(* connection is live from the commit of its call until its socket is      *)
(* terminated or its close event has run: a graceful disconnect keeps its  *)
(* slot until then.                                                        *)
(***************************************************************************)
EXTENDS WebSocketHandler

StatusOf(c) ==
    CASE sock[c] = "none" -> "new"
      [] Running(c) \/ c \in Entries(connections) -> "live"
      [] OTHER -> "done"

Registry == INSTANCE ConnectionRegistry WITH
    Conn <- Call,
    slot <- connections,
    status <- [c \in Call |-> StatusOf(c)],
    present <- alive,
    speaker <- IF io = None THEN None ELSE io.from

(* Every behaviour of the handler is one of the abstract registry: each    *)
(* step is one of its steps or leaves it alone.                            *)
ImplementsRegistry == Registry!CSpec
================================================================================
