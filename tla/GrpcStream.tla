------------------------------ MODULE GrpcStream ------------------------------
(***************************************************************************)
(* What a gRPC stream promises, whatever the transports it was tried over. *)
(* The peer that serves the stream receives what was written, in the order *)
(* of writing and without a gap, and sees the half-close after all that    *)
(* was written before it.  The renderer sees messages, then at most one    *)
(* terminal event, and nothing after it or after a cancel.  Serving may    *)
(* start over with another peer, but only while nothing was shown.         *)
(***************************************************************************)
EXTENDS Naturals, Sequences

CONSTANTS Payload,  \* what may be written
          NotEnded      \* not a number

VARIABLES
    written,    \* the payloads written so far
    endedAt,    \* how many of them at the half-close, NotEnded before it
    wire,       \* what the serving peer has received
    peerClosed, \* it has seen the half-close
    told        \* what the renderer was told

streamVars == <<written, endedAt, wire, peerClosed, told>>

Terminal == {"status", "error"}

Open == \A i \in 1 .. Len(told) : told[i] = "data"

Init ==
    /\ written = <<>>
    /\ endedAt = NotEnded
    /\ wire = <<>>
    /\ peerClosed = FALSE
    /\ told = <<>>

Written(m) ==
    /\ written' = Append(written, m)
    /\ UNCHANGED <<endedAt, wire, peerClosed, told>>

HalfClosed ==
    /\ endedAt' = IF endedAt = NotEnded THEN Len(written) ELSE endedAt
    /\ UNCHANGED <<written, wire, peerClosed, told>>

Received ==
    /\ ~peerClosed
    /\ Len(wire) < Len(written)
    /\ wire' = Append(wire, written[Len(wire) + 1])
    /\ UNCHANGED <<written, endedAt, peerClosed, told>>

PeerClosed ==
    /\ endedAt # NotEnded /\ Len(wire) >= endedAt
    /\ peerClosed' = TRUE
    /\ UNCHANGED <<written, endedAt, wire, told>>

Told ==
    /\ Open
    /\ \/ told' = Append(told, "data")
       \/ \E t \in Terminal : told' \in {Append(told, t), told \o <<"data", t>>}
    /\ UNCHANGED <<written, endedAt, wire, peerClosed>>

StartedOver ==
    /\ told = <<>>
    /\ wire' = <<>> /\ peerClosed' = FALSE
    /\ UNCHANGED <<written, endedAt, told>>

Next ==
    \/ \E m \in Payload : Written(m)
    \/ HalfClosed
    \/ Received
    \/ PeerClosed
    \/ Told
    \/ StartedOver

Spec == Init /\ [][Next]_streamVars

===============================================================================
