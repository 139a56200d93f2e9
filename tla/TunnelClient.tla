---------------------------- MODULE TunnelClient ----------------------------
(***************************************************************************)
(* The tunnel client, cmd/excalibur-tunnel-client/client.go: it asks the   *)
(* proxy at its end of the tunnel for one connection and sends all of its  *)
(* requests over it, while a goroutine of its own waits for a signal to    *)
(* close that connection.                                                  *)
(*                                                                         *)
(* The goroutine reads proxyConn without a lock.  It may see nil, the      *)
(* connection, or what is between them: an interface that has its type but *)
(* no data yet.                                                            *)
(*                                                                         *)
(* In grpc mode the connection is konnectivity-client's, whose Close sends *)
(* CLOSE_REQ to the proxy and waits 10s; what is blocked in a Read is      *)
(* released by the CLOSE_RSP, if it comes.                                 *)
(***************************************************************************)
EXTENDS Integers

CONSTANTS
  CommandLines,   \* the options that a client may be started with
  ProxyKinds,     \* sets of modes that the proxy at the other end may speak
  Hosts,          \* hosts that redirects name; "origin" is the target itself
  MaxRedirects    \* that net/http follows for a request (10)

ASSUME CommandLinesAssumption == \A o \in CommandLines : o.testRequests \in Int

ASSUME RedirectsAssumption == "origin" \in Hosts /\ MaxRedirects \in Nat

VARIABLES
  o,           \* the options
  speaks,      \* the modes the proxy speaks
  pc,          \* where run() is
  outcome,     \* how the process ended
  proxyConn,   \* nil, half assigned, or a connection: open, broken, closing, closed
  handler,     \* the signal goroutine
  idle,        \* places that the http.Transport keeps an idle connection to
  at,          \* the place that the last request went to
  redirects,   \* followed since the last round began
  handed,      \* how often the dialer returned the connection
  answered,    \* requests answered
  blame        \* what has happened that the tunnel is not to blame for or is

vars == <<o, speaks, pc, outcome, proxyConn, handler, idle, at, redirects, handed,
          answered, blame>>

Blames == {"files",      \* a certificate file cannot be used
           "kubeconfig", \* nor the kubeconfig
           "refused",    \* the proxy cannot be dialed
           "rejected",   \* it, or the API server behind it, rejects a request
           "broken",     \* the connection broke
           "target",     \* the target closed the connection after an answer, or
                         \* redirects too often or to nowhere
           "elsewhere",  \* it redirects to another host or scheme
           "idle",       \* the transport closed it for want of requests
           "signal"}     \* there was a signal

\* The transport has connections of their own for each of these.
Places == {"http", "https"} \X Hosts

\* Where a round begins; a kubeconfig names an API server.
Home == <<IF o.kubeConfig \/ o.requestProto = "https" THEN "https" ELSE "http", "origin">>

Init ==
  /\ o \in CommandLines /\ speaks \in ProxyKinds
  /\ pc = "start" /\ outcome = "none"
  /\ proxyConn = "nil" /\ handler = "off"
  /\ idle = {} /\ at = Home /\ redirects = 0 /\ handed = 0
  /\ answered = 0 /\ blame = {}

Goes(from, to) == pc = from /\ pc' = to /\ UNCHANGED outcome
Ends(from, how) == pc = from /\ pc' = "ended" /\ outcome' = how

Fault(kind) == kind \notin blame /\ blame' = blame \cup {kind}

useVars == <<idle, at, redirects, handed>>
connVars == <<proxyConn, handler, useVars>>
restVars == <<o, speaks, answered>>

\* There is something to close.
Assigned == proxyConn \notin {"nil", "half"}

\* proxyConn.Close(): at once, or by way of the proxy.
Close ==
  proxyConn' = IF o.mode = "grpc" /\ proxyConn # "closed" THEN "closing" ELSE "closed"

\* Nothing can be read from the connection any more, and who reads knows.
Lost == proxyConn = "closed" \/ (proxyConn = "broken" /\ o.mode = "http-connect")

-----------------------------------------------------------------------------
(* From the command line to the connection.                                *)

\* Files are named "none" when they are not given, and "absent" when there is none.
validate(opt) ==
  /\ "absent" \notin {opt.key, opt.cert, opt.ca}
  /\ opt.key = "none" <=> opt.cert = "none"
  /\ opt.requestProto \in {"http", "https"}
  /\ opt.mode \in {"grpc", "http-connect"}
  /\ opt.requestPort <= 49151 /\ opt.proxyPort <= 49151
  /\ opt.proxyPort < 1024 => opt.uds
  /\ opt.uds => /\ opt.proxyHost = "none" /\ opt.proxyPort = 0
                /\ {opt.key, opt.cert, opt.ca} = {"none"}
  /\ opt.testRequests >= 1 /\ opt.testDelaySec >= 0

\* Both master ports answer CONNECT only, the one with TLS demands a client
\* certificate, and there has to be something to connect to.
Served ==
  /\ o.mode \in speaks
  /\ ~ o.uds => o.cert # "none"
  /\ o.requestPort \in 1 .. 65535

Validate ==
  /\ IF validate(o) THEN Goes("start", "dialer") ELSE Ends("start", "error")
  /\ UNCHANGED <<connVars, restVars, blame>>

TLSConfigFails ==
  /\ ~ o.uds /\ Fault("files")
  /\ Ends("dialer", "error")
  /\ UNCHANGED <<connVars, restVars>>

\* The goroutine is there before there is a connection.
getDialer ==
  /\ Goes("dialer", "dial")
  /\ handler' = "waiting"
  /\ UNCHANGED <<proxyConn, useVars, restVars, blame>>

\* A tunnel, and a connection through it.
DialTunnel ==
  /\ o.mode = "grpc" /\ Served
  /\ Goes("dial", "assign")
  /\ proxyConn' = "half"
  /\ UNCHANGED <<handler, useVars, restVars, blame>>

\* A connection to the proxy, on which CONNECT is sent.
DialProxy ==
  /\ o.mode = "http-connect"
  /\ Goes("dial", "assign")
  /\ proxyConn' = "half"
  /\ UNCHANGED <<handler, useVars, restVars, blame>>

\* An interface is two words, its type and its data.
Assign ==
  /\ Goes("assign", IF o.mode = "grpc" THEN "client" ELSE "connect")
  /\ proxyConn' = "open"
  /\ UNCHANGED <<handler, useVars, restVars, blame>>

Refusal(kind) == (~ Served /\ UNCHANGED blame) \/ Fault(kind)

DialFails ==
  /\ Refusal("refused")
  /\ Ends("dial", "error")
  /\ UNCHANGED <<connVars, restVars>>

ConnectReplies ==
  /\ proxyConn = "open" /\ Served
  /\ Goes("connect", "client")
  /\ UNCHANGED <<connVars, restVars, blame>>

\* A status that is not 200, or bytes of the target behind it.
ConnectRejected ==
  /\ proxyConn = "open" /\ Refusal("rejected")
  /\ Ends("connect", "error")
  /\ UNCHANGED <<connVars, restVars>>

ConnectFails ==
  /\ Lost
  /\ Ends("connect", "error")
  /\ UNCHANGED <<connVars, restVars, blame>>

BuildClient ==
  /\ Goes("client", "loop")
  /\ UNCHANGED <<connVars, restVars, blame>>

BuildClientFails ==
  /\ o.kubeConfig /\ Fault("kubeconfig")
  /\ Ends("client", "panic")
  /\ UNCHANGED <<connVars, restVars>>

-----------------------------------------------------------------------------
(* The requests.                                                           *)

\* A request goes on the idle connection to its place, or else on what the dialer
\* returns: the one there is, whatever has become of it and whoever reads from it.
Uses(place, kept) ==
  /\ at' = place
  /\ idle' = kept \ {place}
  /\ handed' = IF place \in kept THEN handed ELSE handed + 1

\* Mutant: the dialer makes a new connection whenever it is called.
RequestRedials ==
  /\ Goes("loop", "request")
  /\ \/ Home \in idle /\ Uses(Home, idle) /\ UNCHANGED proxyConn
     \/ Home \notin idle /\ at' = Home /\ idle' = {} /\ handed' = 1 /\ proxyConn' = "open"
  /\ redirects' = 0
  /\ UNCHANGED <<handler, restVars, blame>>

Request ==
  /\ Goes("loop", "request")
  /\ Uses(Home, idle) /\ redirects' = 0
  /\ UNCHANGED <<proxyConn, handler, restVars, blame>>

\* Mutant: a request that fails is repeated at once, on the same connection.
RequestRetried ==
  /\ Lost
  /\ Goes("request", "request")
  /\ UNCHANGED <<connVars, restVars, blame>>

\* makeRequest returns its error, listPod panics with it.
FailsRequest == Ends("request", IF o.kubeConfig THEN "panic" ELSE "error")

RequestFails ==
  /\ Lost
  /\ FailsRequest
  /\ UNCHANGED <<connVars, restVars, blame>>

\* An answer finds its request.  Two connections of the transport on the one there
\* is read from it by turns, and a TLS handshake of one makes no sense within the
\* bytes of the other.  An answer that overtakes a CLOSE_RSP is one from before the close.
Answerable ==
  /\ pc = "request" /\ proxyConn = "open"
  /\ handed > 1 => at[1] = "http" /\ Home[1] = "http"

\* An answer may be an error for a Kubernetes client alone.
RequestRejected ==
  /\ o.kubeConfig /\ Fault("rejected") /\ Answerable
  /\ FailsRequest
  /\ UNCHANGED <<connVars, restVars>>

\* Whether the loop goes on: to the delay, or to the end.
Continues(rounds) ==
  /\ answered' = answered + 1
  /\ IF answered' = rounds THEN Ends("request", "ok") ELSE Goes("request", "delay")
  /\ UNCHANGED <<handler, at, redirects, handed, o, speaks>>

\* Mutant: the body is not closed, so that the connection does not come back.
AnswerBodyOpen ==
  /\ Answerable
  /\ UNCHANGED <<proxyConn, idle, blame>>
  /\ Continues(o.testRequests)

\* Mutant: keep-alives are disabled.
AnswerAndClose ==
  /\ Answerable /\ Close
  /\ UNCHANGED <<idle, blame>>
  /\ Continues(o.testRequests)

\* Mutant: the loop starts at 0.
AnswerOneMore ==
  /\ Answerable /\ idle' = idle \cup {at}
  /\ UNCHANGED <<proxyConn, blame>>
  /\ Continues(o.testRequests + 1)

\* Mutant: the loop ends before its last round.
AnswerOneLess ==
  /\ Answerable /\ idle' = idle \cup {at}
  /\ UNCHANGED <<proxyConn, blame>>
  /\ Continues(IF o.testRequests > 1 THEN o.testRequests - 1 ELSE 1)

\* The answer is read and its body closed: the connection is idle, unless
\* the target keeps none alive.
Answer ==
  /\ Answerable
  /\ \/ idle' = idle \cup {at} /\ UNCHANGED <<proxyConn, blame>>
     \/ idle' = {} /\ Close /\ blame' = blame \cup {"target"}
  /\ Continues(o.testRequests)

\* The answer is a redirect, and Do makes the next request by itself.
Redirect ==
  /\ Answerable /\ redirects < MaxRedirects
  /\ redirects' = redirects + 1
  /\ \E place \in Places :
       LET moved == IF place = at THEN {} ELSE {"elsewhere"} IN
       \/ /\ Uses(place, idle \cup {at})
          /\ UNCHANGED proxyConn /\ blame' = blame \cup moved
       \/ /\ Uses(place, {})
          /\ Close /\ blame' = blame \cup moved \cup {"target"}
  /\ UNCHANGED <<pc, outcome, handler, restVars>>

\* It is one too many, or does not say where to.
RedirectFails ==
  /\ Answerable
  /\ blame' = blame \cup {"target"}
  /\ FailsRequest
  /\ UNCHANGED <<connVars, restVars>>

\* What the target sends is read where nobody has asked for it: on an idle
\* connection, which is closed for that, or in the middle of a handshake.
Unsolicited ==
  /\ pc = "request" /\ proxyConn = "open" /\ handed > 1
  /\ Close /\ idle' = {}
  /\ UNCHANGED <<pc, outcome, handler, at, redirects, handed, restVars, blame>>

\* Only the transport of the Kubernetes client closes idle connections, after 90s.
IdleConnTimeout ==
  /\ pc = "delay" /\ idle # {} /\ o.kubeConfig /\ o.testDelaySec >= 90
  /\ idle' = {} /\ Close
  /\ blame' = blame \cup {"idle"}
  /\ UNCHANGED <<pc, outcome, handler, at, redirects, handed, restVars>>

\* The delay is over; an idle timeout that is shorter has come before.
Wake ==
  /\ o.kubeConfig /\ o.testDelaySec > 90 => idle = {}
  /\ Goes("delay", "loop")
  /\ UNCHANGED <<connVars, restVars, blame>>

-----------------------------------------------------------------------------
(* What else happens to the connection.                                    *)

Running == pc # "ended"

\* The proxy, the agent or the target is gone.
Break ==
  /\ Running /\ proxyConn \in {"open", "closing"}
  /\ Fault("broken")
  /\ proxyConn' = "broken"
  /\ UNCHANGED <<pc, outcome, handler, useVars, restVars>>

\* CLOSE_RSP, asked for or not; a proxy that is gone does not send it.
CloseResponse ==
  /\ Running /\ o.mode = "grpc" /\ proxyConn \in {"broken", "closing"}
  /\ proxyConn' = "closed"
  /\ UNCHANGED <<pc, outcome, handler, useVars, restVars, blame>>

\* The transport notices, and drops the connection.
DropIdle ==
  /\ Running /\ idle # {} /\ Lost
  /\ idle' = {} /\ proxyConn' = "closed"
  /\ UNCHANGED <<pc, outcome, handler, at, redirects, handed, restVars, blame>>

\* Any signal, the runtime's own SIGURG among them.  Before Notify one that
\* is not ignored ends the process; after it one is kept for the goroutine.
Signal ==
  /\ Running /\ handler \in {"off", "waiting"}
  /\ blame' = blame \cup {"signal"}
  /\ IF handler = "off" THEN Ends(pc, "killed") /\ UNCHANGED handler
     ELSE handler' = "notified" /\ UNCHANGED <<pc, outcome>>
  /\ UNCHANGED <<proxyConn, useVars, restVars>>

\* Mutant: both dialers do without the check for nil.
HandleSignalUnchecked ==
  /\ Running /\ handler = "notified" /\ handler' = "done"
  /\ \/ Assigned /\ Close /\ UNCHANGED <<pc, outcome>>
     \/ ~ Assigned /\ Ends(pc, "panic") /\ UNCHANGED proxyConn
  /\ UNCHANGED <<useVars, restVars, blame>>

\* Mutant: the signal is logged.
HandleSignalLogged ==
  /\ Running /\ handler = "notified" /\ handler' = "done"
  /\ UNCHANGED <<pc, outcome, proxyConn, useVars, restVars, blame>>

\* getUDSDialer's goroutine checks for nil, getMTLSDialer's does not.  Close on a nil
\* pointer panics; that of a unix connection may also just refuse.
HandleSignal ==
  /\ Running /\ handler = "notified" /\ handler' = "done"
  /\ \/ Assigned /\ Close /\ UNCHANGED <<pc, outcome>>
     \/ /\ o.uds /\ (proxyConn = "nil" \/ (proxyConn = "half" /\ o.mode = "http-connect"))
        /\ UNCHANGED <<pc, outcome, proxyConn>>
     \/ /\ ~ Assigned /\ ~ (o.uds /\ proxyConn = "nil")
        /\ Ends(pc, "panic") /\ UNCHANGED proxyConn
  /\ UNCHANGED <<useVars, restVars, blame>>

Ended == pc = "ended" /\ UNCHANGED vars

-----------------------------------------------------------------------------
\* Steps that wait for nobody.
Own ==
  \/ Validate \/ getDialer \/ Assign \/ ConnectFails \/ BuildClient
  \/ Request \/ RequestFails \/ Wake

\* Answers of the proxy and of the target, or their refusal.
Reply ==
  \/ DialTunnel \/ DialProxy \/ DialFails \/ ConnectReplies \/ ConnectRejected
  \/ Answer \/ RequestRejected \/ Redirect \/ RedirectFails \/ Unsolicited
  \/ CloseResponse

Transport == IdleConnTimeout \/ DropIdle

Next ==
  \/ Own \/ Reply \/ Transport \/ HandleSignal
  \/ TLSConfigFails \/ BuildClientFails \/ Break \/ Signal \/ Ended

Spec == Init /\ [][Next]_vars

\* The goroutines run and timers fire.  The proxy need not answer: there are
\* no timeouts ("turned off as this is test code").
FairSpec == Spec /\ WF_vars(Own) /\ WF_vars(Transport) /\ WF_vars(HandleSignal)

-----------------------------------------------------------------------------
TypeOK ==
  /\ o \in CommandLines /\ speaks \in ProxyKinds
  /\ pc \in {"start", "dialer", "dial", "assign", "connect", "client", "loop", "request",
             "delay", "ended"}
  /\ outcome \in {"none", "ok", "error", "panic", "killed"}
  /\ proxyConn \in {"nil", "half", "open", "broken", "closing", "closed"}
  /\ handler \in {"off", "waiting", "notified", "done"}
  /\ idle \subseteq Places /\ at \in Places
  /\ redirects \in 0 .. MaxRedirects
  /\ handed \in Nat
  /\ answered \in Nat /\ (answered # 0 => answered <= o.testRequests)
  /\ blame \subseteq Blames

\* "The apiserver network proxy does not support reusing the same dialer for multiple
\* connections ... This means that this connection/client cannot be shared": no two
\* connections of the transport ever read from it.
NotShared == handed > 1 => proxyConn # "open"

\* Although the dialer returns the same connection at every call, it is called again
\* for an open one only if the target redirects to another host or scheme.
SharedElsewhereOnly == handed > 1 /\ proxyConn = "open" => "elsewhere" \in blame

\* A client that reports success has had an answer to every request, over a
\* tunnel that serves it.
SuccessIsReal == outcome = "ok" => answered = o.testRequests /\ Served

\* A client that reports a failure does so for a reason: a client that is to
\* verify the tunnel does not fail by itself.
FailureHasReason ==
  outcome \in {"error", "panic"} => ~ validate(o) \/ ~ Served \/ blame # {}

\* Apart from the Kubernetes client, which panics by choice, only a signal that
\* comes before the connection makes a client panic: in mTLS mode at any time before,
\* over the socket in the middle of the assignment.
PanicsOnlyUnconnected ==
  outcome = "panic" =>
    \/ o.kubeConfig
    \/ "signal" \in blame /\ (proxyConn = "half" \/ (proxyConn = "nil" /\ ~ o.uds))

\* What the comment in run says of a delay over 90s, where it is true: the
\* second request of a Kubernetes client never succeeds then.
LongDelayFails == o.kubeConfig /\ o.testDelaySec > 90 => answered <= 1

\* A signal ends the client even if the proxy never answers a request, unless it comes
\* before there is a unix domain socket to close: then it is lost.  In grpc mode the
\* proxy has to answer the close.
SignalEnds ==
  WF_vars(CloseResponse) =>
    (handler = "notified" /\ (o.uds => Assigned) ~> pc = "ended")

\* If proxy and target answer, the client ends.
Finishes == WF_vars(Reply) => <>(pc = "ended")
=============================================================================
