---------------------------- MODULE ReverseProxy ----------------------------
(***************************************************************************)
(* The reverse proxy of the tunnel server,                                 *)
(* pkg/tunnel/server/reverse_proxy_server.go: a request is answered by the *)
(* proxy itself or goes, on a connection of its own, to the API server or  *)
(* to the norm service.  HTTP/2 is off, and a client makes one call at a   *)
(* time.  What a request does at a backend is for the module that EXTENDS  *)
(* this one to say.                                                        *)
(*                                                                         *)
(* A backend goes on with a request that nobody waits for any more; it may *)
(* be late with it.                                                        *)
(***************************************************************************)
EXTENDS Naturals

CONSTANTS
  Clients,       \* processes in registered clusters
  MaxFaults      \* bound on the number of faults

ASSUME FaultsAssumption == MaxFaults \in Nat

VARIABLES
  serving,    \* the server's process is there
  call,       \* call[c]: the call of client c, its request and its result
  orphans,    \* requests at a backend for which nobody waits any more
  faults      \* number of faults so far

proxyVars == <<serving, call, orphans, faults>>

Failed == [ok |-> FALSE, items |-> {}]
Succeeded(items) == [ok |-> TRUE, items |-> items]

Call(at, req, result) == [at |-> at, req |-> req, result |-> result]
NoRequest == [method |-> "none", path |-> "none"]
NoCall == Call("none", NoRequest, Failed)

ProxyInit ==
  /\ serving = TRUE
  /\ call = [c \in Clients |-> NoCall]
  /\ orphans = {} /\ faults = 0

Fault == faults < MaxFaults /\ faults' = faults + 1

\* Mutant: the routes are registered the other way round.
RouteLast(r) == IF r.path = "/norm/api" THEN "norm" ELSE "apiserver"

\* The first route that matches; the method counts for the first one alone, and
\* a mismatch there is no obstacle to another route.
Route(r) ==
  IF r.method = "GET" /\ r.path = "/v1/healthz" THEN "healthz"
  ELSE IF r.path = "/norm/api" THEN "norm" ELSE "apiserver"

At(c, where) == call[c].at = where
Moves(c, from, to) ==
  At(c, from) /\ call' = [call EXCEPT ![c] = Call(to, call[c].req, call[c].result)]
Answered(res) == Call("answered", NoRequest, res)
Answer(c, res) == call' = [call EXCEPT ![c] = Answered(res)]

\* A patch that is at a backend may stay there when its client leaves or the
\* proxy gives it up; of other requests nothing is to be seen later.
LeftBehind(clients) ==
  LET forwarded == {call[c].req : c \in {d \in clients : At(d, "forwarded")}} IN
  \E left \in SUBSET {r \in forwarded : r.method = "PATCH"} : orphans' = orphans \cup left

-----------------------------------------------------------------------------
\* By a client; nobody listens while the server is away.
Send(c, r) ==
  /\ At(c, "none")
  /\ call' = [call EXCEPT ![c] = IF serving THEN Call("sent", r, Failed)
                                 ELSE Answered(Failed)]
  /\ UNCHANGED <<serving, orphans, faults>>

healthz(c) ==
  /\ At(c, "sent") /\ Route(call[c].req) = "healthz"
  /\ Answer(c, Succeeded({}))
  /\ UNCHANGED <<serving, orphans, faults>>

\* ServeHTTP makes a transport for the request alone, which dials the backend.
Forward(c) ==
  /\ Moves(c, "sent", "forwarded") /\ Route(call[c].req) # "healthz"
  /\ UNCHANGED <<serving, orphans, faults>>

\* Mutant: the failure is not reported.
DialFailsSilently(c) ==
  /\ Moves(c, "sent", "lost") /\ Route(call[c].req) # "healthz"
  /\ Fault
  /\ UNCHANGED <<serving, orphans>>

\* There are timeouts for dialing and for the TLS handshake; a bad gateway.
DialFails(c) ==
  /\ At(c, "sent") /\ Route(call[c].req) # "healthz"
  /\ Fault
  /\ Answer(c, Failed)
  /\ UNCHANGED <<serving, orphans>>

\* The backend is done with the request of c; the effect is for others to say.
Executed(c, res) ==
  /\ At(c, "forwarded")
  /\ call' = [call EXCEPT ![c] = Call("executed", call[c].req, res)]
  /\ UNCHANGED <<serving, orphans, faults>>

\* What becomes of the connection, which nobody will use again, is of no consequence
\* to any call.
Reply(c) ==
  /\ At(c, "executed")
  /\ Answer(c, call[c].result)
  /\ UNCHANGED <<serving, orphans, faults>>

\* A connection as new as this one is not tried again.
UpstreamBreaks(c) ==
  /\ At(c, "forwarded") \/ At(c, "executed")
  /\ Fault
  /\ Answer(c, Failed)
  /\ LeftBehind({c})
  /\ UNCHANGED serving

\* The client is gone, its connection is closed and its request cancelled.
Leaves(c) ==
  /\ call' = [call EXCEPT ![c] = NoCall]
  /\ LeftBehind({c})
  /\ UNCHANGED serving

ServerDies ==
  /\ serving /\ serving' = FALSE
  /\ Fault
  /\ call' = [c \in Clients |-> IF At(c, "none") \/ At(c, "answered") THEN call[c]
                                ELSE Answered(Failed)]
  /\ LeftBehind(Clients)

ServerStarts ==
  /\ ~ serving /\ serving' = TRUE
  /\ UNCHANGED <<call, orphans, faults>>

ProxyStep(c) == healthz(c) \/ Forward(c) \/ Reply(c)

ProxyFault(c) == DialFails(c) \/ UpstreamBreaks(c)
=============================================================================
