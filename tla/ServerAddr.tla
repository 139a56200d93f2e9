----------------------------- MODULE ServerAddr -----------------------------
(***************************************************************************)
(* How the names and addresses of the tunnel server are derived from its   *)
(* service, endpoints and nodes (pkg/tunnel/server/serveraddr/addr.go):    *)
(* for the server's certificate by GetExcaliburTunelServerDNSandIP, for    *)
(* the agent to dial by GetTunnelServerAddr.                               *)
(*                                                                         *)
(* Hosts are strings, Unset is an absent field.  Of the strings, those in  *)
(* IPv4s and IPv6s are what net.ParseIP accepts; it returns NilIP for all  *)
(* others.                                                                 *)
(***************************************************************************)
EXTENDS Naturals, Sequences, FiniteSetsExt, Functions

CONSTANTS IPv4s, IPv6s, NilIP, NoAddr, Unset

Loopback == "127.0.0.1"
IPs == IPv4s \cup IPv6s

ASSUME HostsAssumption ==
  /\ Loopback \in IPv4s
  /\ IPs \subseteq STRING
  /\ "None" \notin IPs
  /\ IPv4s \cap IPv6s = {}
  /\ NilIP \notin STRING /\ Unset \notin STRING

-----------------------------------------------------------------------------
\* What the API server admits: the ingress points of a load balancer and endpoints
\* have an IP, if any, and a service of a type that has a cluster IP has it or is
\* headless.  As InternalIP a kubelet reports an IP.
Host == [ip : IPs \cup {Unset}, hostname : STRING \cup {Unset}]
Address == [host : STRING, port : Nat, splits : BOOLEAN]
Port == [name : STRING, port : Nat, nodePort : Nat]
Service ==
  [type : {"LoadBalancer", "ClusterIP", "NodePort"}, annotation : Address \cup {NoAddr},
   ingress : Seq(Host), clusterIP : IPs \cup {"None"}, ports : Seq(Port)]
  \cup
  [type : {"ExternalName"}, annotation : Address \cup {NoAddr},
   ingress : Seq(Host), clusterIP : {Unset}, ports : Seq(Port)]
NodeAddress ==
  [type : {"InternalIP"}, address : IPs]
  \cup [type : {"ExternalIP", "Hostname", "InternalDNS", "ExternalDNS"}, address : STRING]

-----------------------------------------------------------------------------
\* net.ParseIP.
ParseIP(s) == IF s \in IPs THEN s ELSE NilIP

\* An address "host:port".  fmt.Sprintf("%s:%d") puts no brackets round an
\* IPv6 host, and net.SplitHostPort fails on what comes out.
Sprintf(host, port) == [host |-> host, port |-> port, splits |-> host \notin IPv6s]

\* The elements of s that are in S, in their order.
Only(s, S) ==
  LET kept[n \in 0 .. Len(s)] ==
        IF n = 0 THEN <<>>
        ELSE IF s[n] \in S THEN Append(kept[n - 1], s[n]) ELSE kept[n - 1]
  IN kept[Len(s)]

\* The first element of s that is in S, if there is one.
FirstIn(s, S, default) ==
  LET hits == {i \in DOMAIN s : s[i] \in S} IN
  IF hits = {} THEN default ELSE s[Min(hits)]

\* Names and IPs of ingress points or endpoints, as far as they are set.
Hostnames(hosts) == Only([i \in DOMAIN hosts |-> hosts[i].hostname], STRING)

\* Mutant: a host without an IP is taken to have one.
HostIPsUnset(hosts) == [i \in DOMAIN hosts |-> ParseIP(hosts[i].ip)]

HostIPs(hosts) ==
  LET set == Only([i \in DOMAIN hosts |-> hosts[i].ip], STRING) IN
  [i \in DOMAIN set |-> ParseIP(set[i])]

Names(dnsNames, ips) == [err |-> FALSE, dnsNames |-> dnsNames, ips |-> ips]
Failed == [err |-> TRUE, dnsNames |-> <<>>, ips |-> <<>>]

getLoadBalancerDNSandIP(svc) ==
  IF svc.ingress = <<>> THEN Failed   \* load balancer is not ready
  ELSE Names(Hostnames(svc.ingress), HostIPs(svc.ingress))

\* Only the host of the annotated address is used, never its port.
getClusterIPDNSandIP(svc) ==
  LET addr == svc.annotation IN
  IF addr = NoAddr THEN Names(<<>>, <<>>)
  ELSE IF ~ addr.splits THEN Failed
  ELSE IF ParseIP(addr.host) # NilIP THEN Names(<<>>, <<ParseIP(addr.host)>>)
  ELSE Names(<<addr.host>>, <<>>)

InternalIPs == [type : {"InternalIP"}, address : STRING]

\* Of the nodes, only the first one counts.
getNodePortDNSandIP(nodes) ==
  LET found == IF nodes = <<>> THEN <<>> ELSE Only(nodes[1], InternalIPs) IN
  IF found = <<>> THEN Failed
  ELSE Names(<<>>, [i \in DOMAIN found |-> ParseIP(found[i].address)])

getDefaultDomainsForSvc ==
  <<"x-tunnel-server-svc", "x-tunnel-server-svc.ns", "x-tunnel-server-svc.ns.svc",
    "x-tunnel-server-svc.ns.svc.cluster.local">>

\* That these are strings, which the provers cannot tell from looking at them.
ASSUME StringsAssumption == getDefaultDomainsForSvc \in Seq(STRING)

FromService(svc, nodes) ==
  CASE svc.type = "LoadBalancer" -> getLoadBalancerDNSandIP(svc)
    [] svc.type = "ClusterIP"    -> getClusterIPDNSandIP(svc)
    [] svc.type = "NodePort"     -> getNodePortDNSandIP(nodes)
    [] OTHER                     -> Failed   \* unsupported service type

ClusterIPs(svc) == IF svc.clusterIP = "None" THEN <<>> ELSE <<ParseIP(svc.clusterIP)>>

\* Mutant: the cluster IP goes before what the service is exposed by.
extractClusterIPFirst(svc, eps, nodes) ==
  LET from == FromService(svc, nodes) IN
  IF from.err THEN from
  ELSE Names(from.dnsNames \o getDefaultDomainsForSvc \o Hostnames(eps),
             ClusterIPs(svc) \o from.ips \o <<Loopback>> \o HostIPs(eps))

extractTunnelServerDNSandIPs(svc, eps, nodes) ==
  LET from == FromService(svc, nodes) IN
  IF from.err THEN from
  ELSE Names(from.dnsNames \o getDefaultDomainsForSvc \o Hostnames(eps),
             from.ips \o ClusterIPs(svc) \o <<Loopback>> \o HostIPs(eps))

\* The port of the service's first port that is named tcp, 0 if there is none.
TcpPort(svc) ==
  LET tcpPorts == {p \in Range(svc.ports) : p.name = "tcp"}
      port == FirstIn(svc.ports, tcpPorts, [name |-> Unset, port |-> 0, nodePort |-> 0])
  IN IF svc.type = "NodePort" THEN port.nodePort ELSE port.port

Remote == (IPs \cup {NilIP}) \ {Loopback}

\* The first IP that is not the loopback address or, if there is none or it
\* is nil, the first DNS name; NoAddr stands for an error.
GetTunnelServerAddr(svc, eps, nodes) ==
  LET found == extractTunnelServerDNSandIPs(svc, eps, nodes)
      ip == FirstIn(found.ips, Remote, NilIP)
  IN IF \/ found.err
        \/ ip = NilIP /\ found.dnsNames = <<>>
        \/ TcpPort(svc) = 0
     THEN NoAddr
     ELSE Sprintf(IF ip = NilIP THEN found.dnsNames[1] ELSE ip, TcpPort(svc))
=============================================================================
