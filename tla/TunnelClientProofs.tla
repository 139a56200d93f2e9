------------------------- MODULE TunnelClientProofs -------------------------
(***************************************************************************)
(* Proofs about TunnelClient, for every command line, every proxy and any  *)
(* redirects: only a redirect to another place makes the connection        *)
(* shared, and what the client reports of the tunnel is right.  The        *)
(* invariant says what the steps of run so far have left behind: the       *)
(* connection they made, how often it was handed out, who is to blame for  *)
(* its loss.                                                               *)
(***************************************************************************)
EXTENDS TunnelClient, TLAPS

\* Where the client is before it has a connection, and where it has one.
Unconnected == {"start", "dialer", "dial"}
Connecting == {"assign", "connect", "client"}
Looping == {"loop", "request", "delay"}

\* What is settled by the time the client is where it is.
PcInv ==
  /\ pc = "ended" <=> outcome # "none"
  /\ pc \in {"dialer", "dial"} \cup Connecting \cup Looping => validate(o)
  /\ pc \in {"client"} \cup Looping \/ (pc = "assign" /\ o.mode = "grpc") => Served
  /\ pc \in Unconnected => proxyConn = "nil"
  /\ pc = "assign" => proxyConn = "half"
  /\ pc \in {"connect", "client"} \cup Looping => Assigned
  /\ pc \in Unconnected \cup Connecting => answered = 0 /\ handed = 0 /\ idle = {}
  /\ pc \in Looping => answered < o.testRequests

\* Unless there was a redirect to another place, the transport asks the dialer once
\* for an open connection: it has it idle, or has not asked yet, or is at a request on it.
HandedInv ==
  /\ proxyConn = "open" /\ "elsewhere" \notin blame =>
       handed <= 1 /\ idle \subseteq {Home} /\ (pc = "request" => at = Home)
  /\ proxyConn = "open" /\ idle = {} /\ pc \in {"loop", "delay"} => handed = 0 /\ answered = 0

\* A connection is lost to something, and nobody handles a signal that was not there.
BlameInv ==
  /\ proxyConn \in {"broken", "closing", "closed"} => blame # {}
  /\ handler \in {"notified", "done"} => "signal" \in blame

\* A long delay costs the Kubernetes client its connection.
DelayInv ==
  o.kubeConfig /\ o.testDelaySec > 90 /\ answered # 0 =>
    /\ answered <= 1
    /\ pc \in {"loop", "request"} => proxyConn # "open"

IInv ==
  /\ TypeOK /\ PcInv /\ HandedInv /\ BlameInv /\ DelayInv
  /\ SuccessIsReal /\ FailureHasReason /\ PanicsOnlyUnconnected

-----------------------------------------------------------------------------
\* A client that gets past validate makes at least one request.
LEMMA AtLeastOne == ASSUME NEW opt, validate(opt) PROVE opt.testRequests >= 1
  BY DEF validate

\* Nothing changes the options or the proxy, so what it serves stays the same, and
\* where a round begins.
LEMMA SameService == UNCHANGED <<o, speaks>> => (Served' <=> Served) /\ Home' = Home
  BY DEF Served, Home

\* A round begins at one of the places that the transport tells apart.
LEMMA HomeIsPlace == Home \in Places
  BY RedirectsAssumption DEF Home, Places

\* A client starts in the invariant.
LEMMA InitIInv == Init => IInv
<1> SUFFICES ASSUME Init PROVE IInv
  OBVIOUS
<1> USE DEF Init
<1>1. TypeOK
  BY HomeIsPlace, RedirectsAssumption DEF TypeOK, Blames
<1>2. PcInv
  BY DEF PcInv, Unconnected, Connecting, Looping
<1>3. HandedInv /\ BlameInv /\ DelayInv
  BY DEF HandedInv, BlameInv, DelayInv
<1>4. SuccessIsReal /\ FailureHasReason /\ PanicsOnlyUnconnected
  BY DEF SuccessIsReal, FailureHasReason, PanicsOnlyUnconnected
<1> QED
  BY <1>1, <1>2, <1>3, <1>4 DEF IInv

\* One more use of the connection keeps the types of what the transport knows of it.
LEMMA UsesTyped ==
  ASSUME TypeOK, NEW place \in Places, NEW kept \in SUBSET Places, Uses(place, kept)
  PROVE  idle' \subseteq Places /\ at' \in Places /\ handed' \in Nat
<1>1. handed \in Nat /\ handed + 1 \in Nat
  BY DEF TypeOK
<1> QED
  BY <1>1, Zenon DEF Uses

\* A connection that is closed, or about to be, is not open.
LEMMA CloseCloses == Close => proxyConn' \in {"closing", "closed"} /\ Assigned'
  BY DEF Close, Assigned

\* Every step of run, of the goroutine and of the world keeps the invariant.
LEMMA NextIInv == IInv /\ [Next]_vars => IInv'
<1> SUFFICES ASSUME IInv, [Next]_vars PROVE IInv'
  OBVIOUS
<1> USE SameService, AtLeastOne, HomeIsPlace, CloseCloses, CommandLinesAssumption,
        RedirectsAssumption
    DEF IInv, TypeOK, PcInv, HandedInv, BlameInv, DelayInv, Unconnected, Connecting, Looping,
        Blames, SuccessIsReal, FailureHasReason, PanicsOnlyUnconnected, Assigned, Lost,
        Goes, Ends, Fault, FailsRequest, useVars, connVars, restVars
<1>1. CASE Validate
  BY <1>1 DEF Validate
<1>2. CASE TLSConfigFails
  BY <1>2 DEF TLSConfigFails
<1>3. CASE getDialer
  BY <1>3 DEF getDialer
<1>4. CASE DialTunnel
  BY <1>4 DEF DialTunnel
<1>5. CASE DialProxy
  BY <1>5 DEF DialProxy
<1>6. CASE Assign
  BY <1>6 DEF Assign
<1>7. CASE DialFails
  BY <1>7 DEF DialFails, Refusal
<1>8. CASE ConnectReplies
  BY <1>8 DEF ConnectReplies
<1>9. CASE ConnectRejected
  BY <1>9 DEF ConnectRejected, Refusal
<1>10. CASE ConnectFails
  BY <1>10 DEF ConnectFails
<1>11. CASE BuildClient
  BY <1>11 DEF BuildClient
<1>12. CASE BuildClientFails
  BY <1>12 DEF BuildClientFails
<1>13. CASE Request
  <2> USE <1>13 DEF Request
  <2>1. TypeOK'
    <3>1. idle' \subseteq Places /\ at' \in Places /\ handed' \in Nat
      BY ONLY TypeOK, Request, UsesTyped, HomeIsPlace DEF TypeOK, Request
    <3>2. redirects' \in 0 .. MaxRedirects
      BY ONLY Request, RedirectsAssumption DEF Request
    <3> QED
      BY ONLY <3>1, <3>2, TypeOK, Request DEF TypeOK, Request, Goes, restVars
  <2> USE DEF Uses
  <2>2. PcInv'
    OBVIOUS
  <2>3. HandedInv'
    OBVIOUS
  <2>4. (BlameInv /\ DelayInv)'
    OBVIOUS
  <2>5. (SuccessIsReal /\ FailureHasReason /\ PanicsOnlyUnconnected)'
    OBVIOUS
  <2> QED
    BY ONLY <2>1, <2>2, <2>3, <2>4, <2>5 DEF IInv
<1>14. CASE RequestFails
  BY <1>14 DEF RequestFails
<1>15. CASE RequestRejected
  BY <1>15 DEF RequestRejected, Answerable
<1>16. CASE Answer
  <2> USE <1>16 DEF Answer, Answerable, Continues
  <2>1. TypeOK'
    <3>1. answered' \in Nat /\ answered' <= o.testRequests
      BY ONLY TypeOK, PcInv, Answer, CommandLinesAssumption
      DEF TypeOK, PcInv, Looping, Answer, Answerable, Continues, Goes, Ends
    <3>2. idle' \subseteq Places
      BY ONLY TypeOK, Answer DEF TypeOK, Answer
    <3>3. proxyConn' \in {"open", "closing", "closed"} /\ blame' \subseteq Blames
      BY ONLY TypeOK, Answer, CloseCloses DEF TypeOK, Answer, Answerable, Blames
    <3> QED
      BY ONLY <3>1, <3>2, <3>3, TypeOK, Answer
      DEF TypeOK, Answer, Answerable, Continues, Goes, Ends
  <2>2. PcInv'
    OBVIOUS
  <2>3. HandedInv'
    OBVIOUS
  <2>4. (BlameInv /\ DelayInv)'
    OBVIOUS
  <2>5. (SuccessIsReal /\ FailureHasReason /\ PanicsOnlyUnconnected)'
    OBVIOUS
  <2> QED
    BY ONLY <2>1, <2>2, <2>3, <2>4, <2>5 DEF IInv
<1>17. CASE Redirect
  <2>1. PICK place \in Places :
          LET moved == IF place = at THEN {} ELSE {"elsewhere"} IN
          \/ /\ Uses(place, idle \cup {at})
             /\ UNCHANGED proxyConn /\ blame' = blame \cup moved
          \/ /\ Uses(place, {})
             /\ Close /\ blame' = blame \cup moved \cup {"target"}
    BY ONLY <1>17 DEF Redirect
  <2>2. /\ Answerable /\ redirects < MaxRedirects /\ redirects' = redirects + 1
        /\ UNCHANGED <<pc, outcome, handler, restVars>>
    BY ONLY <1>17 DEF Redirect
  <2>3. /\ proxyConn' \in {"open", "closing", "closed"}
        /\ proxyConn' = "open" =>
             Uses(place, idle \cup {at}) /\ (place # at => "elsewhere" \in blame')
        /\ proxyConn' # "open" => "target" \in blame'
        /\ blame \subseteq blame' /\ blame' \subseteq Blames
    BY ONLY <2>1, <2>2, CloseCloses, TypeOK DEF Answerable, TypeOK, Blames
  <2>4. TypeOK'
    <3>1. idle' \subseteq Places /\ at' \in Places /\ handed' \in Nat
      BY ONLY <2>1, UsesTyped, TypeOK DEF TypeOK
    <3>2. redirects' \in 0 .. MaxRedirects
      BY ONLY <2>2, TypeOK, RedirectsAssumption DEF TypeOK
    <3> QED
      BY ONLY <2>2, <2>3, <3>1, <3>2, TypeOK DEF TypeOK, restVars
  <2>5. PcInv'
    BY ONLY <2>2, <2>3, IInv, SameService
    DEF IInv, PcInv, Answerable, Unconnected, Connecting, Looping, Assigned, restVars
  <2>6. HandedInv'
    BY ONLY <2>2, <2>3, IInv, SameService DEF IInv, HandedInv, Answerable, Uses, restVars
  <2>7. (BlameInv /\ DelayInv)'
    BY ONLY <2>2, <2>3, IInv DEF IInv, BlameInv, DelayInv, Answerable, restVars
  <2>8. (SuccessIsReal /\ FailureHasReason /\ PanicsOnlyUnconnected)'
    BY ONLY <2>2, IInv DEF IInv, PcInv, SuccessIsReal, FailureHasReason,
                           PanicsOnlyUnconnected, Answerable, restVars
  <2> QED
    BY ONLY <2>4, <2>5, <2>6, <2>7, <2>8 DEF IInv
<1>18. CASE RedirectFails
  BY <1>18 DEF RedirectFails, Answerable
<1>19. CASE Unsolicited
  BY <1>19 DEF Unsolicited
<1>20. CASE IdleConnTimeout
  BY <1>20 DEF IdleConnTimeout
<1>21. CASE Wake
  BY <1>21 DEF Wake
<1>22. CASE Break
  BY <1>22 DEF Break, Running
<1>23. CASE CloseResponse
  BY <1>23 DEF CloseResponse, Running
<1>24. CASE DropIdle
  BY <1>24 DEF DropIdle, Running
<1>25. CASE Signal
  BY <1>25 DEF Signal, Running
<1>26. CASE HandleSignal
  BY <1>26 DEF HandleSignal, Running
<1>27. CASE UNCHANGED vars
  BY <1>27 DEF vars
<1> QED
  BY ONLY [Next]_vars,
     <1>1, <1>2, <1>3, <1>4, <1>5, <1>6, <1>7, <1>8, <1>9, <1>10, <1>11, <1>12,
     <1>13, <1>14, <1>15, <1>16, <1>17, <1>18, <1>19, <1>20, <1>21, <1>22, <1>23,
     <1>24, <1>25, <1>26, <1>27
     DEF Next, Own, Reply, Transport, Ended

-----------------------------------------------------------------------------
(* The theorems.                                                           *)

\* What the client has done so far is what IInv says of the place it has got to,
\* through every fault and with a signal at any time.
THEOREM Invariance == Spec => []IInv
<1>1. Init => IInv
  BY InitIInv
<1>2. IInv /\ [Next]_vars => IInv'
  BY NextIInv
<1> QED
  BY <1>1, <1>2, PTL DEF Spec

\* The client's state is what its declarations say, and it never has more
\* answers than it asked for.
THEOREM TypeCorrect == Spec => []TypeOK
<1>1. IInv => TypeOK
  BY DEF IInv
<1> QED
  BY <1>1, Invariance, PTL

\* "This connection/client cannot be shared", and whatever the options, the signals
\* and the faults, run shares it only when the target redirects to another place.
THEOREM SharedByRedirect == Spec => []SharedElsewhereOnly
<1>1. IInv => SharedElsewhereOnly
  BY DEF IInv, TypeOK, HandedInv, SharedElsewhereOnly
<1> QED
  BY <1>1, Invariance, PTL

\* run returns without an error only if every request was answered.
THEOREM SuccessIsTrue == Spec => []SuccessIsReal
<1>1. IInv => SuccessIsReal
  BY DEF IInv
<1> QED
  BY <1>1, Invariance, PTL

\* It ends with an error or a panic only if something was wrong: with the options,
\* the proxy, the files, the connection, or because there was a signal.
THEOREM FailureIsTrue == Spec => []FailureHasReason
<1>1. IInv => FailureHasReason
  BY DEF IInv
<1> QED
  BY <1>1, Invariance, PTL

\* A client that makes its own requests panics only where the signal goroutine
\* meets a nil connection: that of the mTLS dialer one that is not assigned, that of
\* the socket's one that is half assigned.
THEOREM PanicsExplained == Spec => []PanicsOnlyUnconnected
<1>1. IInv => PanicsOnlyUnconnected
  BY DEF IInv
<1> QED
  BY <1>1, Invariance, PTL

\* With more than 90s between the requests a Kubernetes client has one answer
\* at most: its transport drops the one connection that the dialer has.
THEOREM OneAnswerAtMost == Spec => []LongDelayFails
<1>1. IInv => LongDelayFails
  BY DEF IInv, TypeOK, DelayInv, LongDelayFails
<1> QED
  BY <1>1, Invariance, PTL
=============================================================================
