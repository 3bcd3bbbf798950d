------------------------------- MODULE WsTicket -------------------------------
(***************************************************************************)
(* worker/handlers/ws-ticket.ts: a ticket is bought by a POST and redeemed *)
(* by the GET that opens the WebSocket.  The tickets live in the memory of *)
(* one isolate; the calls of the model all reach the same one.             *)
(***************************************************************************)
EXTENDS Integers, FiniteSets

CONSTANTS TicketTtl, GcSizeThreshold, GcInterval,
          MaxTickets, \* bound: how many tickets are bought
          MaxClock    \* bound: how far the clock goes

ASSUME TicketAssumption == TicketTtl \in Nat

Ticket == 1 .. MaxTickets

VARIABLES
    time,
    tickets,   \* the tickets kept, with their expiresAt
    lastGcAt,
    bought,    \* observation: when each ticket was bought, 0 before that
    presented, \* observation: how often each ticket was presented
    redeemed   \* observation: the tickets that were good

ticketVars == <<time, tickets, lastGcAt, bought, presented, redeemed>>

TicketInit ==
    /\ time = 1
    /\ tickets = {}
    /\ lastGcAt = 0
    /\ bought = [t \in Ticket |-> 0]
    /\ presented = [t \in Ticket |-> 0]
    /\ redeemed = {}

Entry(t, expires) == [ticket |-> t, expiresAt |-> expires]

Due == Cardinality(tickets) >= GcSizeThreshold /\ time - lastGcAt >= GcInterval

(* A full map makes room.                                                  *)
KeptMakingRoom == IF Due THEN {e \in tickets : e.expiresAt > time + GcInterval} ELSE tickets

Kept == IF Due THEN {e \in tickets : e.expiresAt > time} ELSE tickets

IssueTicket(t) ==
    /\ bought[t] = 0 /\ \A u \in Ticket : u < t => bought[u] # 0
    /\ lastGcAt' = IF Due THEN time ELSE lastGcAt
    /\ tickets' = Kept \cup {Entry(t, time + TicketTtl)}
    /\ bought' = [bought EXCEPT ![t] = time]
    /\ UNCHANGED <<time, presented, redeemed>>

(* Presented at most twice, as a bound.                                    *)
ConsumeTicket(t) ==
    /\ bought[t] # 0 /\ presented[t] < 2
    /\ presented' = [presented EXCEPT ![t] = @ + 1]
    /\ tickets' = {e \in tickets : e.ticket # t}
    /\ redeemed' = IF \E e \in tickets : e.ticket = t /\ e.expiresAt > time
                   THEN redeemed \cup {t} ELSE redeemed \ {t}
    /\ UNCHANGED <<time, lastGcAt, bought>>

TimePasses ==
    /\ time < MaxClock
    /\ time' = time + 1
    /\ UNCHANGED <<tickets, lastGcAt, bought, presented, redeemed>>

TicketNext == (\E t \in Ticket : IssueTicket(t) \/ ConsumeTicket(t)) \/ TimePasses

TicketSpec == TicketInit /\ [][TicketNext]_ticketVars

-------------------------------------------------------------------------------
(* A ticket is good exactly the first time it is presented, and only       *)
(* within its time to live, however many others were bought, expired and   *)
(* swept meanwhile.                                                        *)
TicketsAreExact ==
    [][\A t \in Ticket : presented'[t] # presented[t] =>
          (t \in redeemed' <=> presented[t] = 0 /\ time < bought[t] + TicketTtl)]_ticketVars

-------------------------------------------------------------------------------
(* The inductive invariant: the map holds every ticket that is still good, *)
(* with its time, and none that was presented.                             *)
TicketTypeOK ==
    /\ time \in Nat \ {0}
    /\ bought \in [Ticket -> Nat]
    /\ presented \in [Ticket -> Nat]

Good(t) == bought[t] # 0 /\ presented[t] = 0 /\ time < bought[t] + TicketTtl

TicketInv ==
    /\ TicketTypeOK
    /\ \A t \in Ticket : /\ bought[t] = 0 => presented[t] = 0
                         /\ Good(t) => Entry(t, bought[t] + TicketTtl) \in tickets
    /\ \A e \in tickets : \E t \in Ticket :
          /\ e = Entry(t, bought[t] + TicketTtl)
          /\ bought[t] # 0 /\ presented[t] = 0
===============================================================================
