------------------------------ MODULE HttpHandler ------------------------------
(***************************************************************************)
(* electron/main/handlers/http-handler.ts: an HTTP request is registered   *)
(* under its requestId, which all renderers share, until it is answered.   *)
(* It prepares (secrets, policy, PAC, interceptors), opens a tunnel if its *)
(* proxy is a SOCKS one (http-secure-connection.ts), fetches, perhaps over *)
(* again for a redirect, and runs the response through the interceptors.   *)
(* A cancel and the renderer's death abort it, and leave the rest to it.   *)
(*                                                                         *)
(* conn is the socket of the tunnel.  What undici opens is left out.       *)
(***************************************************************************)
EXTENDS ConnectionClaims

CONSTANT MaxRedirects \* bound: how many redirects are taken

VARIABLES
    activeRequests, \* the request registered under each requestId
    signalled,      \* the requests in flight whose signal is aborted
    redirects       \* how many redirects were taken

httpVars == <<activeRequests, signalled, redirects>>

HttpInit ==
    /\ activeRequests = [i \in Id |-> None]
    /\ signalled = {}
    /\ redirects = 0

IdOf(k) == k[2]
Answered == {"idle", "ok", "failed"}
InFlight == {c \in Call : pc[c] \notin Answered}

(* What no request touches: claims and entries of the other handlers.      *)
unusedVars == <<ownerEntry, pending, connections, claimBound, io>>

(* A tunnel that fails or is destroyed.                                    *)
TunnelsOver(cs) == conn' = [c \in Call |-> IF c \in cs THEN "none" ELSE conn[c]]

-------------------------------------------------------------------------------
(* http:request                                                            *)
Refuse(c, k) ==
    /\ Arrive(c, k)
    /\ activeRequests[IdOf(k)] # None
    /\ Answer(c, "failed")
    /\ UNCHANGED <<unusedVars, entryBound, alive, conn, httpVars>>

Register(c, k) ==
    /\ Arrive(c, k)
    /\ activeRequests[IdOf(k)] = None
    /\ activeRequests' = [activeRequests EXCEPT ![IdOf(k)] = c]
    /\ entryBound' = Bind(entryBound, alive, OwnerOf(k))
    /\ Answer(c, "preparing")
    /\ UNCHANGED <<unusedVars, alive, conn, signalled, redirects>>

(* The finally: only the request itself takes its entry away, not an older *)
(* one that lost its own with its renderer.                                *)
Unregister(c) ==
    activeRequests' = [activeRequests EXCEPT ![IdOf(keyOf[c])] = IF @ = c THEN None ELSE @]

Finish(c, how) ==
    /\ Answer(c, how)
    /\ Unregister(c)
    /\ signalled' = signalled \ {c}
    /\ UNCHANGED <<unusedVars, made, keyOf, entryBound, alive, redirects>>

(* No secret, refused by the policy, too large, or an interceptor threw.   *)
PrepareFails(c) ==
    /\ pc[c] = "preparing"
    /\ Finish(c, "failed")
    /\ UNCHANGED conn

(* openSocksSocket refuses an aborted signal; the fetch would.             *)
Prepared(c) ==
    /\ pc[c] = "preparing"
    /\ \/ Answer(c, "tunnelling") /\ Becomes(c, "opening") /\ c \notin signalled
       \/ Answer(c, "fetching") /\ UNCHANGED conn
    /\ UNCHANGED <<unusedVars, made, keyOf, entryBound, alive, httpVars>>

(* The proxy answers; nothing but an abort ends the wait for it.           *)
TunnelOpens(c) ==
    /\ pc[c] = "tunnelling" /\ conn[c] = "opening"
    /\ Answer(c, "fetching")
    /\ Becomes(c, "open")
    /\ UNCHANGED <<unusedVars, made, keyOf, entryBound, alive, httpVars>>

TunnelFails(c) ==
    /\ pc[c] = "tunnelling"
    /\ Finish(c, "failed")
    /\ TunnelsOver({c})

(* An error, the timeout or an abort: the catch destroys the tunnel.       *)
FetchFails(c) ==
    /\ pc[c] = "fetching"
    /\ Finish(c, "failed")
    /\ TunnelsOver({c})

(* A redirect that the shared core has not followed: makeHttpRequest calls *)
(* itself, and the next request opens a tunnel of its own.                 *)
Redirect(c) ==
    /\ pc[c] = "fetching" /\ c \notin signalled
    /\ redirects < MaxRedirects
    /\ redirects' = redirects + 1
    /\ TunnelsOver({c})
    /\ Answer(c, "preparing")
    /\ UNCHANGED <<unusedVars, made, keyOf, entryBound, alive, activeRequests, signalled>>

(* The body is read to its end, with which undici closes the tunnel.       *)
Fetched(c) ==
    /\ pc[c] = "fetching" /\ c \notin signalled
    /\ Answer(c, "responding")
    /\ TunnelsOver({c})
    /\ UNCHANGED <<unusedVars, made, keyOf, entryBound, alive, httpVars>>

(* An abort comes too late for the response.                               *)
Responded(c) ==
    /\ pc[c] = "responding"
    /\ \E how \in {"ok", "failed"} : Finish(c, how)
    /\ UNCHANGED conn

-------------------------------------------------------------------------------
(* An abort ends the opening of a tunnel at once; what else it ends, it    *)
(* ends where the request looks at its signal.                             *)
AbortAll(cs) ==
    /\ signalled' = signalled \cup cs
    /\ TunnelsOver({c \in cs : pc[c] = "tunnelling"})

(* http:cancel; it leaves the entry to the request.                        *)
Cancel(k) ==
    /\ OwnerOf(k) \in alive
    /\ LET c == activeRequests[IdOf(k)] IN
         c # None /\ keyOf[c] = k /\ AbortAll({c})
    /\ UNCHANGED <<unusedVars, made, pc, keyOf, entryBound, alive, activeRequests, redirects>>

HttpDestroyed(o) ==
    /\ o \in alive
    /\ alive' = alive \ {o}
    /\ LET owned == {c \in InFlight : OwnerOf(keyOf[c]) = o /\ activeRequests[IdOf(keyOf[c])] = c}
       IN IF o \in entryBound
          THEN /\ AbortAll(owned)
               /\ activeRequests' = [i \in Id |-> IF activeRequests[i] \in owned
                                                  THEN None ELSE activeRequests[i]]
          ELSE UNCHANGED <<conn, signalled, activeRequests>>
    /\ entryBound' = entryBound \ {o}
    /\ UNCHANGED <<unusedVars, made, pc, keyOf, redirects>>

-------------------------------------------------------------------------------
(* What ends by itself: secrets, PAC and interceptors settle, a fetch has  *)
(* its timeout, and an aborted tunnel is gone.                             *)
Settles(c) ==
    \/ PrepareFails(c) \/ Prepared(c)
    \/ FetchFails(c) \/ Redirect(c) \/ Fetched(c)
    \/ Responded(c)
    \/ c \in signalled /\ TunnelFails(c)

HttpNext ==
    \/ \E c \in Call : \/ \E k \in Key : Refuse(c, k) \/ Register(c, k)
                       \/ Settles(c) \/ TunnelOpens(c) \/ TunnelFails(c)
    \/ \E k \in Key : Cancel(k)
    \/ \E o \in Owner : HttpDestroyed(o)

-------------------------------------------------------------------------------
(* A request that nobody aborted can be: it is registered and its renderer *)
(* lives.  An entry is of a request in flight, so no id stays taken.  A    *)
(* tunnel does not outlive its request, nor its opening an abort.          *)
HttpTracked ==
    /\ \A c \in InFlight \ signalled :
          activeRequests[IdOf(keyOf[c])] = c /\ OwnerOf(keyOf[c]) \in alive
    /\ \A i \in Id : activeRequests[i] # None => activeRequests[i] \in InFlight
    /\ \A c \in Call : conn[c] \in {"opening", "open"} => pc[c] \in {"tunnelling", "fetching"}
    /\ \A c \in signalled : conn[c] # "opening"

(* Only a request whose SOCKS proxy is silent stays, until it is aborted.  *)
HttpSettled == \A c \in InFlight : pc[c] = "tunnelling" /\ c \notin signalled
===============================================================================
