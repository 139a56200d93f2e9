--------------------------- MODULE ServerIdentity ---------------------------
(***************************************************************************)
(* Who the tunnel server says it is and whom the agent looks for.  The     *)
(* server reads its service, endpoints and nodes once, when it starts, and *)
(* has what it finds certified, then and at every rotation                 *)
(* (NewTunnelServerCertManager); the agent reads them when it starts,      *)
(* unless it is given an address, dials what it finds and accepts only a   *)
(* certificate for that host (TunnelAgentOptions.run,                      *)
(* GenTLSConfigUseCertMgrAndCA).  Both read one object at a time, while    *)
(* the objects change.                                                     *)
(***************************************************************************)
EXTENDS ServerAddr, FiniteSets

CONSTANTS
  Services, EndpointLists, NodeLists,   \* what the API server may hold
  CertNames, CertIPs,                   \* flags of the server, as sequences
  AgentFlag,                            \* --tunnelserver-addr, or NoAddr
  Unread,                               \* an object that was not read yet
  MaxChanges,                           \* bound: changes of the objects
  MaxFaults                             \* bound: failed reads and restarts

ASSUME ObjectsAssumption ==
  /\ Services \subseteq Service
  /\ EndpointLists \subseteq Seq(Host)
  /\ NodeLists \subseteq Seq(Seq(NodeAddress))
  /\ CertNames \in Seq(STRING) /\ CertIPs \in Seq(STRING)

ASSUME BoundsAssumption == MaxChanges \in Nat /\ MaxFaults \in Nat

Readers == {"server", "agent"}

VARIABLES
  svc, eps, nodes,   \* the objects in the hub cluster's API server
  changes,
  faults,            \* reads that failed and processes that restarted
  phase,             \* phase[p]: where the start of p is
  view,              \* view[p]: what p has read of the objects
  sans,              \* hosts in the template of the server's certificate
  addr               \* the address the agent is to dial

resources == <<svc, eps, nodes, changes>>
vars == <<resources, faults, phase, view, sans, addr>>

Nothing == [svc |-> Unread, eps |-> Unread, nodes |-> <<>>]

\* Of a server that is about to read, and of an agent that has just started.
Start ==
  [p \in Readers |-> IF p = "agent" /\ AgentFlag # NoAddr THEN "addressed" ELSE "service"]

Init ==
  /\ svc \in Services /\ eps \in EndpointLists /\ nodes \in NodeLists
  /\ changes = 0 /\ faults = 0
  /\ phase = Start
  /\ view = [p \in Readers |-> Nothing]
  /\ sans = {}
  /\ addr = AgentFlag

\* The objects change: a load balancer gets or changes its IP, a pod starts, an
\* administrator edits the annotation or labels a node.
Change ==
  /\ changes < MaxChanges
  /\ changes' = changes + 1
  /\ \/ svc' \in Services \ {svc} /\ UNCHANGED <<eps, nodes>>
     \/ eps' \in EndpointLists \ {eps} /\ UNCHANGED <<svc, nodes>>
     \/ nodes' \in NodeLists \ {nodes} /\ UNCHANGED <<svc, eps>>
  /\ UNCHANGED <<faults, phase, view, sans, addr>>

-----------------------------------------------------------------------------
(* getTunnelServerResources.                                               *)

Reads(p, seen, next) ==
  /\ view' = [view EXCEPT ![p] = seen]
  /\ phase' = [phase EXCEPT ![p] = next]
  /\ UNCHANGED <<resources, faults, sans, addr>>

ReadService(p) ==
  phase[p] = "service" /\ Reads(p, [view[p] EXCEPT !.svc = svc], "endpoints")

\* The nodes are listed only for a service of type NodePort.
ReadEndpoints(p) ==
  /\ phase[p] = "endpoints"
  /\ Reads(p, [view[p] EXCEPT !.eps = eps],
           IF view[p].svc.type = "NodePort" THEN "nodes" ELSE "extract")

ReadNodes(p) ==
  phase[p] = "nodes" /\ Reads(p, [view[p] EXCEPT !.nodes = nodes], "extract")

Fault ==
  /\ faults < MaxFaults
  /\ faults' = faults + 1

\* The server polls again after an error, the agent exits and is started again.
Retry(p) ==
  /\ phase' = [phase EXCEPT ![p] = Start[p]]
  /\ view' = [view EXCEPT ![p] = Nothing]
  /\ UNCHANGED <<resources, sans>>

ReadFails(p) ==
  /\ phase[p] \in {"service", "endpoints", "nodes"}
  /\ Fault
  /\ Retry(p)
  /\ UNCHANGED addr

-----------------------------------------------------------------------------
(* The server.                                                             *)

Found(v) == extractTunnelServerDNSandIPs(v.svc, v.eps, v.nodes)

\* Mutant: the poll tries again with what it has read.
ExtractFailsAsBefore ==
  /\ phase["server"] = "extract"
  /\ Found(view["server"]).err
  /\ UNCHANGED vars

ExtractFails ==
  /\ phase["server"] = "extract"
  /\ Found(view["server"]).err
  /\ Retry("server")
  /\ UNCHANGED <<faults, addr>>

\* Mutant: the addresses that were found are replaced by the flag's, not
\* extended with them.
RequestFlagIPs ==
  LET found == Found(view["server"]) IN
  /\ phase["server"] = "extract"
  /\ ~ found.err
  /\ sans' = Range(found.dnsNames) \cup Range(CertNames)
             \cup (IF CertIPs = <<>> THEN Range(found.ips)
                   ELSE {ParseIP(s) : s \in Range(CertIPs)})
  /\ phase' = [phase EXCEPT !["server"] = "requested"]
  /\ UNCHANGED <<resources, faults, view, addr>>

\* The template of the certificate is fixed here, and the manager started.
Request ==
  LET found == Found(view["server"]) IN
  /\ phase["server"] = "extract"
  /\ ~ found.err
  /\ sans' = Range(found.dnsNames) \cup Range(CertNames) \cup Range(found.ips)
             \cup {ParseIP(s) : s \in Range(CertIPs)}
  /\ phase' = [phase EXCEPT !["server"] = "requested"]
  /\ UNCHANGED <<resources, faults, view, addr>>

\* A request with a nil IP address among its names does not parse, and nobody
\* approves or signs it.
Issue ==
  /\ phase["server"] = "requested"
  /\ NilIP \notin sans
  /\ phase' = [phase EXCEPT !["server"] = "certified"]
  /\ UNCHANGED <<resources, faults, view, sans, addr>>

\* The server dies or is redeployed; its connections break.
RestartServer ==
  /\ phase["server"] # Start["server"]
  /\ Fault
  /\ phase' = [phase EXCEPT !["server"] = Start["server"],
                            !["agent"] = IF @ = "connected" THEN "dialing" ELSE @]
  /\ view' = [view EXCEPT !["server"] = Nothing]
  /\ sans' = {}
  /\ UNCHANGED <<resources, addr>>

-----------------------------------------------------------------------------
(* The agent.                                                              *)

\* Mutant: the error of GetTunnelServerAddr is not checked.
DeriveUnchecked ==
  LET v == view["agent"] IN
  /\ phase["agent"] = "extract"
  /\ addr' = GetTunnelServerAddr(v.svc, v.eps, v.nodes)
  /\ phase' = [phase EXCEPT !["agent"] = "addressed"]
  /\ UNCHANGED <<resources, faults, view, sans>>

Derive ==
  LET v == view["agent"] IN
  /\ phase["agent"] = "extract"
  /\ addr' = GetTunnelServerAddr(v.svc, v.eps, v.nodes)
  /\ addr' # NoAddr
  /\ phase' = [phase EXCEPT !["agent"] = "addressed"]
  /\ UNCHANGED <<resources, faults, view, sans>>

DeriveFails ==
  LET v == view["agent"] IN
  /\ phase["agent"] = "extract"
  /\ GetTunnelServerAddr(v.svc, v.eps, v.nodes) = NoAddr
  /\ Retry("agent")
  /\ UNCHANGED <<faults, addr>>

\* The name to verify is the host that SplitHostPort finds in the address.
Configure ==
  /\ phase["agent"] = "addressed"
  /\ addr.splits
  /\ phase' = [phase EXCEPT !["agent"] = "dialing"]
  /\ UNCHANGED <<resources, faults, view, sans, addr>>

ConfigureFails ==
  /\ phase["agent"] = "addressed"
  /\ ~ addr.splits
  /\ Retry("agent")
  /\ addr' = AgentFlag
  /\ UNCHANGED faults

\* The handshake succeeds; the agent keeps dialing until it does.
Connect ==
  /\ phase["agent"] = "dialing"
  /\ phase["server"] = "certified"
  /\ addr.host \in sans
  /\ phase' = [phase EXCEPT !["agent"] = "connected"]
  /\ UNCHANGED <<resources, faults, view, sans, addr>>

RestartAgent ==
  /\ phase["agent"] # Start["agent"]
  /\ Fault
  /\ Retry("agent")
  /\ addr' = AgentFlag

-----------------------------------------------------------------------------
Next ==
  \/ Change
  \/ \E p \in Readers : ReadService(p) \/ ReadEndpoints(p) \/ ReadNodes(p) \/ ReadFails(p)
  \/ ExtractFails \/ Request \/ Issue \/ RestartServer
  \/ Derive \/ DeriveFails \/ Configure \/ ConfigureFails \/ Connect \/ RestartAgent

Spec == Init /\ [][Next]_vars

\* Processes go on, reads return, the signer signs and the agent goes on
\* dialing; nothing makes an object change, a read fail or a process restart.
FairSpec ==
  /\ Spec
  /\ \A p \in Readers : WF_vars(ReadService(p) \/ ReadEndpoints(p) \/ ReadNodes(p))
  /\ WF_vars(ExtractFails \/ Request \/ Issue)
  /\ WF_vars(Derive \/ DeriveFails \/ Configure \/ ConfigureFails \/ Connect)

-----------------------------------------------------------------------------
Requested == phase["server"] \in {"requested", "certified"}
Addressed == phase["agent"] \in {"addressed", "dialing", "connected"}

Reading == {"service", "endpoints", "nodes", "extract"}
View == [svc : Services \cup {Unread}, eps : EndpointLists \cup {Unread},
         nodes : NodeLists \cup {<<>>}]

TypeOK ==
  /\ svc \in Services /\ eps \in EndpointLists /\ nodes \in NodeLists
  /\ changes \in 0 .. MaxChanges /\ faults \in 0 .. MaxFaults
  /\ DOMAIN phase = Readers
  /\ phase["server"] \in Reading \cup {"requested", "certified"}
  /\ phase["agent"] \in Reading \cup {"addressed", "dialing", "connected"}
  /\ view \in [Readers -> View]
  /\ Addressed => addr # NoAddr

\* The IPs that a service is exposed by outside the hub cluster.
ExposedIPs(v) ==
  CASE v.svc.type = "LoadBalancer" -> {ParseIP(host.ip) : host \in Range(v.svc.ingress)}
    [] v.svc.type = "ClusterIP"    -> IF v.svc.annotation = NoAddr THEN {}
                                      ELSE {ParseIP(v.svc.annotation.host)}
    [] v.svc.type = "NodePort"     -> {ParseIP(a.address) :
                                         a \in Range(v.nodes[1]) \cap InternalIPs}

\* Those among them that another host can dial.
DialableIPs(v) == ExposedIPs(v) \ {NilIP, Loopback}

Exposed(v) == DialableIPs(v) # {}

\* The endpoints matter for the address only if nothing else has an IP that
\* another host can dial.
NeedsEndpoints(v) == v.svc.clusterIP \in {"None", Loopback} /\ ~ Exposed(v)

\* Server and agent have seen the same, as far as the address depends on it.
Agree ==
  LET s == view["server"]  a == view["agent"] IN
  /\ Requested /\ Addressed
  /\ s.svc = a.svc /\ s.nodes = a.nodes
  /\ NeedsEndpoints(a) => s.eps = a.eps

\* The two derivations agree: the agent never dials a host that the server's
\* certificate does not name, if both saw the same service and nodes and, where
\* only the endpoints have an IP, the same endpoints.
AgreementVerifies == AgentFlag = NoAddr /\ Agree => addr.host \in sans

\* An agent that is not told where to dial dials an IP that the service is
\* exposed by, if there is one, neither nil nor loopback whatever else the objects
\* hold, and the agents' port there.
DialsExposedIP ==
  LET v == view["agent"] IN
  AgentFlag = NoAddr /\ Addressed /\ Exposed(v) =>
    /\ addr.host \in DialableIPs(v)
    /\ addr.port = TcpPort(v.svc) /\ addr.port # 0

\* Whatever the objects hold, half-ready as they may be, what the server requests
\* can be signed: only an entry of --cert-ips that is no IP can spoil it.
UnsignableByFlagOnly ==
  Requested /\ NilIP \in sans => \E s \in Range(CertIPs) : ParseIP(s) = NilIP

\* What a process that reads now sees.
Visible == [svc |-> svc, eps |-> eps,
            nodes |-> IF svc.type = "NodePort" THEN nodes ELSE <<>>]

\* The objects have an identity for the server and an address for the agent, which
\* is not told one.
Usable ==
  LET derived == GetTunnelServerAddr(svc, eps, nodes) IN
  AgentFlag = NoAddr /\ ~ Found(Visible).err /\ derived # NoAddr /\ derived.splits

\* If the objects come to rest in a usable state, then whatever mixture of old and new
\* was read before and whatever failed, server and agent stop reading, and the agent
\* gets through unless they have seen different objects.
IdentitySettles ==
  <>[]Usable =>
    <>[](/\ Requested
         /\ \/ phase["agent"] = "connected"
            \/ phase["agent"] = "dialing" /\ (~ Agree \/ NilIP \in sans))

(***************************************************************************)
(* What the comment on GetExcaliburTunelServerDNSandIP says.               *)
(***************************************************************************)

\* "dns names and ips will be added into the tunnel-server certificate", "ips may
\* be used by tunnel agent to connect tunnel server": an agent that starts to read
\* when the server has a certificate for what the objects say gets through.
DerivedAddressConnects ==
  (/\ phase["server"] = "certified" /\ view["server"] = Visible
   /\ phase["agent"] = "service")
    ~> phase["agent"] = "connected"
=============================================================================
