------------------------ MODULE ServerIdentityProofs ------------------------
(***************************************************************************)
(* Theorems about ServerIdentity: for any objects that the API server      *)
(* admits, any flags and any number of changes and faults, server and      *)
(* agent derive names and addresses that fit each other.                   *)
(***************************************************************************)
EXTENDS ServerIdentity, ServerAddrProofs

\* A view that is complete.
Complete(v) ==
  v.svc \in Services /\ v.eps \in EndpointLists /\ v.nodes \in NodeLists \cup {<<>>}

From(v) == FromService(v.svc, v.nodes)
Derived(v) == GetTunnelServerAddr(v.svc, v.eps, v.nodes)

LEMMA CompleteTypes ==
  ASSUME NEW v, Complete(v)
  PROVE  v.svc \in Service /\ v.eps \in Seq(Host) /\ v.nodes \in Seq(Seq(NodeAddress))
<1>1. <<>> \in Seq(Seq(NodeAddress))
  OBVIOUS
<1> QED
  BY <1>1, ObjectsAssumption DEF Complete

LEMMA ServiceFields ==
  ASSUME NEW svc0 \in Service
  PROVE  /\ svc0.annotation # NoAddr => svc0.annotation \in Address
         /\ svc0.ingress \in Seq(Host)
         /\ svc0.type \in {"LoadBalancer", "ClusterIP", "NodePort"} =>
              svc0.clusterIP \in IPs \cup {"None"}
<1>1. CASE svc0 \in [type : {"LoadBalancer", "ClusterIP", "NodePort"},
                     annotation : Address \cup {NoAddr}, ingress : Seq(Host),
                     clusterIP : IPs \cup {"None"}, ports : Seq(Port)]
  <2>1. /\ svc0.annotation \in Address \cup {NoAddr} /\ svc0.ingress \in Seq(Host)
        /\ svc0.clusterIP \in IPs \cup {"None"}
    BY <1>1
  <2> QED
    BY <2>1
<1>2. CASE svc0 \in [type : {"ExternalName"}, annotation : Address \cup {NoAddr},
                     ingress : Seq(Host), clusterIP : {Unset}, ports : Seq(Port)]
  <2>1. /\ svc0.annotation \in Address \cup {NoAddr} /\ svc0.ingress \in Seq(Host)
        /\ svc0.type = "ExternalName"
    BY <1>2
  <2> QED
    BY <2>1
<1> QED
  BY <1>1, <1>2 DEF Service

\* What a balanced service gives is what it is exposed by.
LEMMA FromBalancer ==
  ASSUME NEW v, Complete(v), v.svc.type = "LoadBalancer", ~ From(v).err
  PROVE  /\ From(v).dnsNames \in Seq(STRING) /\ From(v).ips \in Seq(IPs)
         /\ Range(From(v).ips) = ExposedIPs(v) \ {NilIP}
<1>1. v.svc.ingress \in Seq(Host)
  BY CompleteTypes, ServiceFields
<1>2. From(v) = Names(Hostnames(v.svc.ingress), HostIPs(v.svc.ingress))
  BY DEF From, FromService, getLoadBalancerDNSandIP, Failed
<1>3. /\ From(v).dnsNames = Hostnames(v.svc.ingress)
      /\ From(v).ips = HostIPs(v.svc.ingress)
  BY <1>2 DEF Names
<1>4. ExposedIPs(v) = {ParseIP(host.ip) : host \in Range(v.svc.ingress)}
  BY DEF ExposedIPs
<1>5. NilIP \notin IPs
  BY HostsAssumption
<1>6. {ParseIP(host.ip) : host \in Range(v.svc.ingress)} \ {NilIP}
        = {host.ip : host \in Range(v.svc.ingress)} \cap IPs
  BY <1>5 DEF ParseIP
<1> QED
  BY <1>1, <1>3, <1>4, <1>6, HostIPsAreIPs, HostnamesAreNames

\* So does what the annotation gives.
LEMMA FromAnnotation ==
  ASSUME NEW v, Complete(v), v.svc.type = "ClusterIP", ~ From(v).err
  PROVE  /\ From(v).dnsNames \in Seq(STRING) /\ From(v).ips \in Seq(IPs)
         /\ Range(From(v).ips) = ExposedIPs(v) \ {NilIP}
<1> DEFINE addr0 == v.svc.annotation
<1>1. From(v) = getClusterIPDNSandIP(v.svc)
  BY DEF From, FromService
<1>2. /\ <<>> \in Seq(STRING) /\ <<>> \in Seq(IPs) /\ Range(<<>>) = {}
      /\ \A x : Range(<<x>>) = {x}
  BY DEF Range
<1>3. NilIP \notin IPs
  BY HostsAssumption
<1>4. CASE addr0 = NoAddr
  <2>1. From(v) = Names(<<>>, <<>>)
    BY <1>1, <1>4 DEF getClusterIPDNSandIP
  <2>2. From(v).dnsNames = <<>> /\ From(v).ips = <<>>
    BY <2>1 DEF Names
  <2>3. ExposedIPs(v) = {}
    BY <1>4 DEF ExposedIPs
  <2> QED
    BY <1>2, <2>2, <2>3
<1>5. CASE addr0 # NoAddr
  <2>1. addr0.host \in STRING
    BY <1>5, CompleteTypes, ServiceFields DEF Address
  <2>2. ExposedIPs(v) = {ParseIP(addr0.host)}
    BY <1>5 DEF ExposedIPs
  <2>3. addr0.splits
    BY <1>1, <1>5 DEF getClusterIPDNSandIP, Failed
  <2>4. CASE addr0.host \in IPs
    <3>1. From(v) = Names(<<>>, <<addr0.host>>)
      BY <1>1, <1>3, <1>5, <2>3, <2>4 DEF getClusterIPDNSandIP, ParseIP
    <3>2. From(v).dnsNames = <<>> /\ From(v).ips = <<addr0.host>>
      BY <3>1 DEF Names
    <3>3. ExposedIPs(v) \ {NilIP} = {addr0.host}
      BY <1>3, <2>2, <2>4 DEF ParseIP
    <3>4. <<addr0.host>> \in Seq(IPs) /\ Range(<<addr0.host>>) = {addr0.host}
      BY <1>2, <2>4
    <3> QED
      BY <1>2, <3>2, <3>3, <3>4
  <2>5. CASE addr0.host \notin IPs
    <3>1. From(v) = Names(<<addr0.host>>, <<>>)
      BY <1>1, <1>5, <2>3, <2>5 DEF getClusterIPDNSandIP, ParseIP
    <3>2. From(v).dnsNames = <<addr0.host>> /\ From(v).ips = <<>>
      BY <3>1 DEF Names
    <3>3. ExposedIPs(v) \ {NilIP} = {}
      BY <2>2, <2>5 DEF ParseIP
    <3>4. <<addr0.host>> \in Seq(STRING)
      BY <2>1
    <3> QED
      BY <1>2, <3>2, <3>3, <3>4
  <2> QED
    BY <2>4, <2>5
<1> QED
  BY <1>4, <1>5

\* And what the first node gives.
LEMMA FromFirstNode ==
  ASSUME NEW v, Complete(v), v.svc.type = "NodePort", ~ From(v).err
  PROVE  /\ From(v).dnsNames \in Seq(STRING) /\ From(v).ips \in Seq(IPs)
         /\ Range(From(v).ips) = ExposedIPs(v) \ {NilIP}
<1> DEFINE found == Only(v.nodes[1], InternalIPs)
           ips == [i \in DOMAIN found |-> ParseIP(found[i].address)]
<1>1. From(v) = getNodePortDNSandIP(v.nodes)
  BY DEF From, FromService
<1>2. v.nodes # <<>>
  BY <1>1 DEF getNodePortDNSandIP, Failed
<1>3. v.nodes[1] \in Seq(NodeAddress)
  <2>1. v.nodes \in Seq(Seq(NodeAddress)) /\ Len(v.nodes) \in Nat \ {0}
    BY <1>2, CompleteTypes, EmptySeq
  <2>2. 1 \in 1 .. Len(v.nodes)
    BY <2>1
  <2> QED
    BY <2>1, <2>2, ElementOfSeq
<1>4. found \in Seq(NodeAddress) /\ Range(found) = Range(v.nodes[1]) \cap InternalIPs
  BY <1>3, OnlyProperties
<1>5. From(v) = Names(<<>>, ips)
  BY <1>1, <1>2 DEF getNodePortDNSandIP, Failed
<1>6. From(v).dnsNames = <<>> /\ From(v).ips = ips
  BY <1>5 DEF Names
<1> HIDE DEF found
<1>7. \A i \in DOMAIN found : found[i] \in NodeAddress /\ found[i] \in InternalIPs
  <2>1. \A i \in DOMAIN found : found[i] \in Range(found) /\ found[i] \in NodeAddress
    BY <1>4, LenProperties, ElementOfSeq DEF Range
  <2> QED
    BY <1>4, <2>1
<1>8. \A a \in NodeAddress : a \in InternalIPs => ParseIP(a.address) \in IPs
  BY DEF NodeAddress, InternalIPs, ParseIP
<1>9. ips \in Seq(IPs)
  <2>1. Len(found) \in Nat /\ DOMAIN found = 1 .. Len(found)
    BY <1>4, LenProperties
  <2>2. \A i \in DOMAIN found : ParseIP(found[i].address) \in IPs
    BY <1>7, <1>8
  <2> QED
    BY <2>1, <2>2
<1>10. Range(ips) = {ParseIP(a.address) : a \in Range(found)}
  BY DEF Range
<1>11. ExposedIPs(v) = {ParseIP(a.address) : a \in Range(found)}
  BY <1>4 DEF ExposedIPs
<1>12. Range(ips) \subseteq IPs
  BY <1>7, <1>8 DEF Range
<1>13. NilIP \notin IPs
  BY HostsAssumption
<1> HIDE DEF ips
<1> QED
  BY <1>6, <1>9, <1>10, <1>11, <1>12, <1>13, EmptySeq

-----------------------------------------------------------------------------
(* What server and agent find.                                             *)

\* For every type of service: the IPs are those that it is exposed by.
LEMMA FromExposes ==
  ASSUME NEW v, Complete(v), ~ From(v).err
  PROVE  /\ v.svc.type \in {"LoadBalancer", "ClusterIP", "NodePort"}
         /\ From(v).dnsNames \in Seq(STRING) /\ From(v).ips \in Seq(IPs)
         /\ Range(From(v).ips) = ExposedIPs(v) \ {NilIP}
<1>1. v.svc.type \in {"LoadBalancer", "ClusterIP", "NodePort"}
  BY DEF From, FromService, Failed
<1> QED
  BY <1>1, FromBalancer, FromAnnotation, FromFirstNode

\* The IPs found are the service's, its cluster IP, the loopback address and the
\* endpoints', in this order, and all of them are IPs.
LEMMA FoundInOrder ==
  ASSUME NEW v, Complete(v), ~ Found(v).err
  PROVE  /\ ~ From(v).err
         /\ Found(v).dnsNames \in Seq(STRING)
         /\ From(v).ips \in Seq(IPs) /\ ClusterIPs(v.svc) \in Seq(IPs)
         /\ From(v).ips \o ClusterIPs(v.svc) \in Seq(IPs)
         /\ <<Loopback>> \o HostIPs(v.eps) \in Seq(IPs)
         /\ Found(v).ips = (From(v).ips \o ClusterIPs(v.svc)) \o (<<Loopback>> \o HostIPs(v.eps))
         /\ Found(v).ips \in Seq(IPs)
<1>1. ~ From(v).err
  BY DEF Found, From, extractTunnelServerDNSandIPs
<1>2. /\ v.svc.type \in {"LoadBalancer", "ClusterIP", "NodePort"}
      /\ From(v).dnsNames \in Seq(STRING) /\ From(v).ips \in Seq(IPs)
  BY <1>1, FromExposes
<1>3. Hostnames(v.eps) \in Seq(STRING) /\ HostIPs(v.eps) \in Seq(IPs)
  BY CompleteTypes, HostnamesAreNames, HostIPsAreIPs
<1>4. ClusterIPs(v.svc) \in Seq(IPs)
  <2>1. v.svc.clusterIP \in IPs \cup {"None"}
    BY <1>2, CompleteTypes, ServiceFields
  <2>2. CASE v.svc.clusterIP = "None"
    <3>1. ClusterIPs(v.svc) = <<>>
      BY <2>2 DEF ClusterIPs
    <3> QED
      BY <3>1, EmptySeq
  <2>3. CASE v.svc.clusterIP \in IPs
    <3>1. ClusterIPs(v.svc) = <<v.svc.clusterIP>>
      BY <2>3, HostsAssumption DEF ClusterIPs, ParseIP
    <3> QED
      BY <2>3, <3>1
  <2> QED
    BY <2>1, <2>2, <2>3
<1>5. <<Loopback>> \in Seq(IPs)
  BY HostsAssumption DEF IPs
<1>6. getDefaultDomainsForSvc \in Seq(STRING)
  BY StringsAssumption
<1>8. /\ Found(v).dnsNames = From(v).dnsNames \o getDefaultDomainsForSvc \o Hostnames(v.eps)
      /\ Found(v).ips = From(v).ips \o ClusterIPs(v.svc) \o <<Loopback>> \o HostIPs(v.eps)
  <2> DEFINE dnsNames == From(v).dnsNames \o getDefaultDomainsForSvc \o Hostnames(v.eps)
             ips == From(v).ips \o ClusterIPs(v.svc) \o <<Loopback>> \o HostIPs(v.eps)
  <2>1. Found(v) = Names(dnsNames, ips)
    BY <1>1 DEF Found, From, extractTunnelServerDNSandIPs
  <2> HIDE DEF dnsNames, ips
  <2>2. Found(v).dnsNames = dnsNames /\ Found(v).ips = ips
    BY <2>1 DEF Names
  <2> QED
    BY <2>2 DEF dnsNames, ips
<1>9. Found(v).dnsNames \in Seq(STRING)
  <2> DEFINE named == From(v).dnsNames \o getDefaultDomainsForSvc
  <2>1. named \in Seq(STRING)
    BY <1>2, <1>6, ConcatProperties
  <2> HIDE DEF named
  <2>2. named \o Hostnames(v.eps) \in Seq(STRING)
    BY <1>3, <2>1, ConcatProperties
  <2>3. Found(v).dnsNames = named \o Hostnames(v.eps)
    BY <1>8 DEF named
  <2> QED
    BY <2>2, <2>3
<1>10. From(v).ips \o ClusterIPs(v.svc) \in Seq(IPs)
  BY <1>2, <1>4, ConcatProperties
<1>11. <<Loopback>> \o HostIPs(v.eps) \in Seq(IPs)
  BY <1>3, <1>5, ConcatProperties
<1>12. Found(v).ips = (From(v).ips \o ClusterIPs(v.svc)) \o (<<Loopback>> \o HostIPs(v.eps))
  <2> DEFINE first == From(v).ips \o ClusterIPs(v.svc)
             loop == <<Loopback>>
             last == HostIPs(v.eps)
  <2>1. first \in Seq(IPs) /\ loop \in Seq(IPs) /\ last \in Seq(IPs)
    BY <1>3, <1>5, <1>10
  <2>2. Found(v).ips = (first \o loop) \o last
    BY <1>8
  <2> HIDE DEF first, loop, last
  <2>3. Found(v).ips = first \o (loop \o last)
    BY ONLY <2>1, <2>2, ConcatAssociative
  <2> QED
    BY <2>3 DEF first, loop, last
<1>13. Found(v).ips \in Seq(IPs)
  BY <1>10, <1>11, <1>12, ConcatProperties
<1> QED
  BY <1>1, <1>2, <1>4, <1>9, <1>10, <1>11, <1>12, <1>13

\* Nothing that the server finds parses to nil.
LEMMA FoundSignable ==
  ASSUME NEW v, Complete(v), ~ Found(v).err
  PROVE  NilIP \notin Range(Found(v).dnsNames) \cup Range(Found(v).ips)
<1>1. Found(v).dnsNames \in Seq(STRING) /\ Found(v).ips \in Seq(IPs)
  BY FoundInOrder
<1>2. Range(Found(v).dnsNames) \subseteq STRING /\ Range(Found(v).ips) \subseteq IPs
  BY <1>1, LenProperties, ElementOfSeq DEF Range
<1> QED
  BY <1>2, HostsAssumption

\* The address that the agent derives is a name or an IP of those found.
LEMMA DerivedIsFound ==
  ASSUME NEW v, Complete(v), Derived(v) # NoAddr
  PROVE  /\ ~ Found(v).err
         /\ Derived(v).host \in Range(Found(v).dnsNames) \cup Range(Found(v).ips)
         /\ LET ip == FirstIn(Found(v).ips, Remote, NilIP) IN
            ip # NilIP => Derived(v).host = ip
         /\ Derived(v).port = TcpPort(v.svc) /\ TcpPort(v.svc) # 0
<1> DEFINE ip == FirstIn(Found(v).ips, Remote, NilIP)
           host == IF ip = NilIP THEN Found(v).dnsNames[1] ELSE ip
<1>1. ~ Found(v).err /\ TcpPort(v.svc) # 0
  BY DEF Derived, GetTunnelServerAddr, Found
<1>2. Derived(v) = Sprintf(host, TcpPort(v.svc))
  BY DEF Derived, GetTunnelServerAddr, Found
<1>3. Derived(v).host = host /\ Derived(v).port = TcpPort(v.svc)
  BY <1>2 DEF Sprintf
<1>4. Found(v).dnsNames \in Seq(STRING) /\ Found(v).ips \in Seq(IPs)
  BY <1>1, FoundInOrder
<1>5. ip = NilIP => Found(v).dnsNames[1] \in Range(Found(v).dnsNames)
  <2>1. ip = NilIP => Found(v).dnsNames # <<>>
    BY DEF Derived, GetTunnelServerAddr, Found
  <2>2. Found(v).dnsNames # <<>> => 1 \in DOMAIN Found(v).dnsNames
    BY <1>4, EmptySeq, LenProperties
  <2> QED
    BY <2>1, <2>2 DEF Range
<1>6. ip # NilIP => ip \in Range(Found(v).ips)
  BY <1>4, FirstInSound
<1> QED
  BY <1>1, <1>3, <1>5, <1>6

\* Elements of the first IPs found that the agent can dial keep it from the rest.
LEMMA DerivedFromPrefix ==
  ASSUME NEW v, Complete(v), Derived(v) # NoAddr,
         NEW p \in Seq(IPs), NEW q \in Seq(IPs), Found(v).ips = p \o q,
         Range(p) \cap Remote # {}
  PROVE  Derived(v).host \in Range(p) \cap Remote
<1>1. FirstIn(Found(v).ips, Remote, NilIP) = FirstIn(p, Remote, NilIP)
  BY FirstInPrefix
<1>2. FirstIn(p, Remote, NilIP) \in Range(p) \cap Remote
  BY FirstInSound
<1>3. Range(p) \subseteq IPs
  BY LenProperties, ElementOfSeq DEF Range
<1>4. FirstIn(p, Remote, NilIP) # NilIP
  BY <1>2, <1>3, HostsAssumption
<1> QED
  BY <1>1, <1>2, <1>4, DerivedIsFound

LEMMA RangeOfConcat ==
  ASSUME NEW S, NEW p \in Seq(S), NEW q \in Seq(S)
  PROVE  Range(p \o q) = Range(p) \cup Range(q)
BY RangeConcatenation

\* An exposed service is dialed at an IP that it is exposed by, which is neither
\* nil nor the loopback address.
LEMMA DerivedIsExposed ==
  ASSUME NEW v, Complete(v), Derived(v) # NoAddr, Exposed(v)
  PROVE  Derived(v).host \in DialableIPs(v)
<1> DEFINE rest == ClusterIPs(v.svc) \o (<<Loopback>> \o HostIPs(v.eps))
<1>1. ~ Found(v).err
  BY DerivedIsFound
<1>2. /\ ~ From(v).err /\ From(v).ips \in Seq(IPs) /\ ClusterIPs(v.svc) \in Seq(IPs)
      /\ <<Loopback>> \o HostIPs(v.eps) \in Seq(IPs)
      /\ Found(v).ips = (From(v).ips \o ClusterIPs(v.svc)) \o (<<Loopback>> \o HostIPs(v.eps))
  BY <1>1, FoundInOrder
<1>3. Range(From(v).ips) = ExposedIPs(v) \ {NilIP}
  BY <1>2, FromExposes
<1>4. rest \in Seq(IPs) /\ Found(v).ips = From(v).ips \o rest
  <2> DEFINE last == <<Loopback>> \o HostIPs(v.eps)
             clusterIPs == ClusterIPs(v.svc)
             from == From(v).ips
  <2>1. /\ from \in Seq(IPs) /\ clusterIPs \in Seq(IPs) /\ last \in Seq(IPs)
        /\ Found(v).ips = (from \o clusterIPs) \o last
    BY <1>2
  <2> HIDE DEF last, clusterIPs, from
  <2>2. clusterIPs \o last \in Seq(IPs) /\ Found(v).ips = from \o (clusterIPs \o last)
    BY ONLY <2>1, ConcatProperties, ConcatAssociative, SMTT(30)
  <2> QED
    BY <2>2 DEF last, clusterIPs, from
<1>5. Range(From(v).ips) \subseteq IPs
  BY <1>2, LenProperties, ElementOfSeq DEF Range
<1>6. Range(From(v).ips) \cap Remote # {}
  BY <1>3, <1>5 DEF Exposed, DialableIPs, Remote
<1> HIDE DEF rest
<1>7. Derived(v).host \in Range(From(v).ips) \cap Remote
  BY <1>2, <1>4, <1>6, DerivedFromPrefix
<1> QED
  BY <1>3, <1>7 DEF DialableIPs, Remote

\* Whom the agent dials is among the names that a server finds which has seen the
\* same service and nodes.
LEMMA DerivedIsNamed ==
  ASSUME NEW v, Complete(v), Derived(v) # NoAddr,
         NEW w, Complete(w), ~ Found(w).err,
         w.svc = v.svc, w.nodes = v.nodes, NeedsEndpoints(v) => w.eps = v.eps
  PROVE  Derived(v).host \in Range(Found(w).dnsNames) \cup Range(Found(w).ips)
<1> DEFINE p == From(v).ips \o ClusterIPs(v.svc)
           rest(x) == <<Loopback>> \o HostIPs(x.eps)
<1>1. CASE NeedsEndpoints(v)
  <2>1. Found(w) = Found(v)
    BY <1>1 DEF Found
  <2> QED
    BY <2>1, DerivedIsFound
<1>2. CASE ~ NeedsEndpoints(v)
  <2>1. ~ Found(v).err
    BY DerivedIsFound
  <2>2. /\ ~ From(v).err /\ From(v).ips \in Seq(IPs) /\ ClusterIPs(v.svc) \in Seq(IPs)
        /\ p \in Seq(IPs) /\ rest(v) \in Seq(IPs) /\ Found(v).ips = p \o rest(v)
    BY <2>1, FoundInOrder
  <2>3. From(w) = From(v)
    BY DEF From
  <2>4. rest(w) \in Seq(IPs) /\ Found(w).ips = p \o rest(w)
    BY <2>3, FoundInOrder
  <2>5. Range(p) \cap Remote # {}
    <3>1. Range(p) = Range(From(v).ips) \cup Range(ClusterIPs(v.svc))
      BY <2>2, RangeOfConcat
    <3>2. CASE v.svc.clusterIP \notin {"None", Loopback}
      <4>1. v.svc.clusterIP \in IPs \cup {"None"}
        BY <2>2, FromExposes, CompleteTypes, ServiceFields
      <4>2. ClusterIPs(v.svc) = <<v.svc.clusterIP>> /\ v.svc.clusterIP \in Remote
        BY <3>2, <4>1 DEF ClusterIPs, ParseIP, Remote
      <4>3. v.svc.clusterIP \in Range(ClusterIPs(v.svc))
        BY <4>2 DEF Range
      <4> QED
        BY <3>1, <4>2, <4>3
    <3>3. CASE Exposed(v)
      <4>1. Range(From(v).ips) = ExposedIPs(v) \ {NilIP}
        BY <2>2, FromExposes
      <4>2. Range(From(v).ips) \subseteq IPs
        BY <2>2, LenProperties, ElementOfSeq DEF Range
      <4>3. Range(From(v).ips) \cap Remote # {}
        BY <3>3, <4>1, <4>2 DEF Exposed, DialableIPs, Remote
      <4> QED
        BY <3>1, <4>3
    <3> QED
      BY <1>2, <3>2, <3>3 DEF NeedsEndpoints
  <2> HIDE DEF p, rest
  <2>6. Derived(v).host \in Range(p)
    BY <2>2, <2>5, DerivedFromPrefix
  <2>7. Range(p) \subseteq Range(Found(w).ips)
    BY <2>2, <2>4, RangeOfConcat
  <2> QED
    BY <2>6, <2>7
<1> QED
  BY <1>1, <1>2

-----------------------------------------------------------------------------
(* The invariant.  What a process has derived is a function of the complete *)
(* view that it derived it from, so that what the objects become does not  *)
(* matter: the properties are about derived values, and follow from the    *)
(* lemmas above.                                                           *)

\* Of an agent that was told where to dial there is no view.
Looks(p) == p = "server" \/ AgentFlag = NoAddr

Certifiable(v) ==
  Range(Found(v).dnsNames) \cup Range(CertNames) \cup Range(Found(v).ips)
    \cup {ParseIP(s) : s \in Range(CertIPs)}

ViewsComplete ==
  \A p \in Readers : Looks(p) =>
    /\ phase[p] # "service" => view[p].svc \in Services
    /\ phase[p] \notin {"service", "endpoints"} => view[p].eps \in EndpointLists

ServerDerived ==
  Requested => ~ Found(view["server"]).err /\ sans = Certifiable(view["server"])

AgentDerived ==
  Addressed /\ AgentFlag = NoAddr => addr = Derived(view["agent"]) /\ addr # NoAddr

FlagKept == AgentFlag # NoAddr => Addressed /\ addr = AgentFlag

IInv == TypeOK /\ ViewsComplete /\ ServerDerived /\ AgentDerived /\ FlagKept

LEMMA InitInv == Init => IInv
<1> SUFFICES ASSUME Init PROVE IInv
  OBVIOUS
<1>1. /\ phase = [p \in Readers |-> IF p = "agent" /\ AgentFlag # NoAddr THEN "addressed"
                                    ELSE "service"]
      /\ view = [p \in Readers |-> Nothing] /\ addr = AgentFlag
  BY DEF Init, Start
<1>2. phase["server"] = "service" /\ DOMAIN phase = Readers
  BY <1>1 DEF Readers
<1>3. phase["agent"] = IF AgentFlag # NoAddr THEN "addressed" ELSE "service"
  BY <1>1 DEF Readers
<1>4. view \in [Readers -> View]
  BY <1>1 DEF Nothing, View
<1>5. TypeOK
  <2>1. Addressed => addr # NoAddr
    BY <1>1, <1>3 DEF Addressed
  <2> QED
    BY <1>2, <1>3, <1>4, <2>1, BoundsAssumption DEF Init, TypeOK, Reading
<1>6. ViewsComplete
  BY <1>2, <1>3 DEF ViewsComplete, Looks, Readers
<1>7. ServerDerived /\ AgentDerived /\ FlagKept
  BY <1>1, <1>2, <1>3 DEF ServerDerived, AgentDerived, FlagKept, Requested, Addressed
<1> QED
  BY <1>5, <1>6, <1>7 DEF IInv

\* A process that has read everything has a complete view.
LEMMA ViewComplete ==
  ASSUME IInv, NEW p \in Readers, Looks(p), phase[p] \notin {"service", "endpoints"}
  PROVE  Complete(view[p])
<1>1. view[p].svc \in Services /\ view[p].eps \in EndpointLists
  BY DEF IInv, ViewsComplete
<1>2. view[p].nodes \in NodeLists \cup {<<>>}
  BY DEF IInv, TypeOK, View
<1> QED
  BY <1>1, <1>2 DEF Complete

LEMMA ChangeKeeps == ASSUME IInv, Change PROVE IInv'
<1>1. /\ svc' \in Services /\ eps' \in EndpointLists /\ nodes' \in NodeLists
      /\ changes' \in 0 .. MaxChanges
      /\ UNCHANGED <<faults, phase, view, sans, addr>>
  BY BoundsAssumption DEF Change, IInv, TypeOK
<1> QED
  BY <1>1 DEF IInv, TypeOK, ViewsComplete, ServerDerived, AgentDerived, FlagKept,
              Requested, Addressed

\* A process that reads, or fails to, has derived nothing yet; the other one has what
\* it had.
LEMMA ReadKeeps ==
  ASSUME IInv, NEW p \in Readers, NEW seen \in View, NEW next \in Reading \ {"service"},
         phase[p] \in Reading, Reads(p, seen, next),
         Looks(p) => seen.svc \in Services /\ (next # "endpoints" => seen.eps \in EndpointLists)
  PROVE  IInv'
<1>1. /\ phase' = [phase EXCEPT ![p] = next] /\ view' = [view EXCEPT ![p] = seen]
      /\ UNCHANGED <<svc, eps, nodes, changes, faults, sans, addr>>
  BY DEF Reads, resources
<1>2. DOMAIN phase = Readers /\ DOMAIN phase' = Readers /\ view \in [Readers -> View]
  BY <1>1 DEF IInv, TypeOK
<1>3. /\ phase'[p] = next /\ view'[p] = seen
      /\ \A q \in Readers \ {p} : phase'[q] = phase[q] /\ view'[q] = view[q]
  BY <1>1, <1>2
<1>4. TypeOK'
  <2>1. view' \in [Readers -> View]
    BY <1>1, <1>2
  <2>2. phase'["server"] \in Reading \cup {"requested", "certified"}
    BY <1>3 DEF IInv, TypeOK, Readers
  <2>3. phase'["agent"] \in Reading \cup {"addressed", "dialing", "connected"}
    BY <1>3 DEF IInv, TypeOK, Readers
  <2>4. Addressed' => addr' # NoAddr
    BY <1>1, <1>3 DEF IInv, TypeOK, Addressed, Readers, Reading
  <2> QED
    BY <1>1, <1>2, <2>1, <2>2, <2>3, <2>4 DEF IInv, TypeOK
<1>5. ViewsComplete'
  <2>1. ASSUME NEW q \in Readers, Looks(q)
        PROVE  /\ phase'[q] # "service" => view'[q].svc \in Services
               /\ phase'[q] \notin {"service", "endpoints"} => view'[q].eps \in EndpointLists
    BY <1>3, <2>1 DEF IInv, ViewsComplete
  <2> QED
    BY <2>1 DEF ViewsComplete, Looks
<1>6. ServerDerived'
  <2>1. Requested' => p # "server" /\ Requested
    BY <1>3 DEF Requested, Readers, Reading
  <2>2. Requested' => view'["server"] = view["server"]
    BY <1>3, <2>1 DEF Readers
  <2> QED
    BY <1>1, <2>1, <2>2 DEF IInv, ServerDerived, Certifiable, Found
<1>7. AgentDerived'
  <2>1. Addressed' => p # "agent" /\ Addressed
    BY <1>3 DEF Addressed, Readers, Reading
  <2>2. Addressed' => view'["agent"] = view["agent"]
    BY <1>3, <2>1 DEF Readers
  <2> QED
    BY <1>1, <2>1, <2>2 DEF IInv, AgentDerived, Derived
<1>8. FlagKept'
  <2>1. AgentFlag # NoAddr => p # "agent"
    BY DEF IInv, FlagKept, Addressed, Reading
  <2> QED
    BY <1>1, <1>3, <2>1 DEF IInv, FlagKept, Addressed, Readers
<1> QED
  BY <1>4, <1>5, <1>6, <1>7, <1>8 DEF IInv

\* Who starts over has seen and derived nothing; an agent with a flag has its address.
LEMMA RetryKeeps ==
  ASSUME IInv, NEW p \in Readers, Retry(p), faults' \in 0 .. MaxFaults,
         addr' = addr \/ (p = "agent" /\ addr' = AgentFlag)
  PROVE  IInv'
<1>1. /\ phase' = [phase EXCEPT ![p] = Start[p]] /\ view' = [view EXCEPT ![p] = Nothing]
      /\ UNCHANGED <<svc, eps, nodes, changes, sans>>
  BY DEF Retry, resources
<1>2. DOMAIN phase = Readers /\ DOMAIN phase' = Readers /\ view \in [Readers -> View]
  BY <1>1 DEF IInv, TypeOK
<1>3. /\ phase'[p] = Start[p] /\ view'[p] = Nothing
      /\ \A q \in Readers \ {p} : phase'[q] = phase[q] /\ view'[q] = view[q]
  BY <1>1, <1>2
<1>4. Start[p] = IF p = "agent" /\ AgentFlag # NoAddr THEN "addressed" ELSE "service"
  BY DEF Start
<1>5. AgentFlag # NoAddr => addr' = AgentFlag
  BY DEF IInv, FlagKept
<1>6. TypeOK'
  <2>1. view' \in [Readers -> View]
    BY <1>1, <1>2 DEF Nothing, View
  <2>2. phase'["server"] \in Reading \cup {"requested", "certified"}
    BY <1>3, <1>4 DEF IInv, TypeOK, Readers, Reading
  <2>3. phase'["agent"] \in Reading \cup {"addressed", "dialing", "connected"}
    BY <1>3, <1>4 DEF IInv, TypeOK, Readers, Reading
  <2>4. Addressed' => addr' # NoAddr
    BY <1>3, <1>4, <1>5 DEF IInv, TypeOK, Addressed, Readers
  <2> QED
    BY <1>1, <1>2, <2>1, <2>2, <2>3, <2>4 DEF IInv, TypeOK
<1>7. ViewsComplete'
  <2>1. ASSUME NEW q \in Readers, Looks(q)
        PROVE  /\ phase'[q] # "service" => view'[q].svc \in Services
               /\ phase'[q] \notin {"service", "endpoints"} => view'[q].eps \in EndpointLists
    BY <1>3, <1>4, <2>1 DEF IInv, ViewsComplete, Looks
  <2> QED
    BY <2>1 DEF ViewsComplete, Looks
<1>8. ServerDerived'
  <2>1. Requested' => p # "server" /\ Requested
    BY <1>3, <1>4 DEF Requested, Readers
  <2>2. Requested' => view'["server"] = view["server"]
    BY <1>3, <2>1 DEF Readers
  <2> QED
    BY <1>1, <2>1, <2>2 DEF IInv, ServerDerived, Certifiable, Found
<1>9. AgentDerived'
  <2>1. Addressed' /\ AgentFlag = NoAddr => p # "agent" /\ Addressed
    BY <1>3, <1>4 DEF Addressed, Readers
  <2>2. Addressed' /\ AgentFlag = NoAddr => view'["agent"] = view["agent"]
    BY <1>3, <2>1 DEF Readers
  <2> QED
    BY <2>1, <2>2 DEF IInv, AgentDerived, Derived
<1>10. FlagKept'
  BY <1>3, <1>4, <1>5 DEF IInv, FlagKept, Addressed, Readers
<1> QED
  BY <1>6, <1>7, <1>8, <1>9, <1>10 DEF IInv

\* Steps that move the phases of processes with complete views.
LEMMA PhasesKeep ==
  ASSUME IInv, UNCHANGED <<svc, eps, nodes, changes, view, addr>>, faults' \in 0 .. MaxFaults,
         DOMAIN phase' = Readers,
         \/ phase'["server"] = phase["server"] /\ sans' = sans
         \/ /\ phase["server"] \in {"extract", "requested", "certified"}
            /\ phase'["server"] \in {"requested", "certified"}
            /\ ~ Found(view["server"]).err /\ sans' = Certifiable(view["server"]),
         \/ phase'["agent"] = phase["agent"]
         \/ Addressed /\ Addressed'
  PROVE  IInv'
<1>1. TypeOK'
  <2>1. phase'["server"] \in Reading \cup {"requested", "certified"}
    BY DEF IInv, TypeOK
  <2>2. phase'["agent"] \in Reading \cup {"addressed", "dialing", "connected"}
    BY DEF IInv, TypeOK, Addressed
  <2>3. Addressed' => addr' # NoAddr
    BY DEF IInv, TypeOK, Addressed
  <2> QED
    BY <2>1, <2>2, <2>3 DEF IInv, TypeOK
<1>2. ViewsComplete'
  <2>1. ASSUME NEW q \in Readers, Looks(q)
        PROVE  /\ phase'[q] # "service" => view'[q].svc \in Services
               /\ phase'[q] \notin {"service", "endpoints"} => view'[q].eps \in EndpointLists
    <3>1. /\ phase[q] # "service" => view[q].svc \in Services
          /\ phase[q] \notin {"service", "endpoints"} => view[q].eps \in EndpointLists
      BY <2>1 DEF IInv, ViewsComplete
    <3>2. phase'[q] = phase[q] \/ phase[q] \notin {"service", "endpoints"}
      BY DEF Readers, Addressed
    <3> QED
      BY <3>1, <3>2
  <2> QED
    BY <2>1 DEF ViewsComplete, Looks
<1>3. ServerDerived'
  BY DEF IInv, ServerDerived, Requested, Certifiable, Found
<1>4. AgentDerived' /\ FlagKept'
  BY DEF IInv, AgentDerived, FlagKept, Addressed, Derived
<1> QED
  BY <1>1, <1>2, <1>3, <1>4 DEF IInv

LEMMA RequestKeeps == ASSUME IInv, Request PROVE IInv'
<1>1. /\ phase["server"] = "extract" /\ ~ Found(view["server"]).err
      /\ sans' = Certifiable(view["server"])
      /\ phase' = [phase EXCEPT !["server"] = "requested"]
      /\ UNCHANGED <<svc, eps, nodes, changes, faults, view, addr>>
  BY DEF Request, resources, Certifiable
<1>2. /\ DOMAIN phase' = Readers /\ phase'["server"] = "requested"
      /\ phase'["agent"] = phase["agent"] /\ faults' \in 0 .. MaxFaults
  BY <1>1 DEF IInv, TypeOK, Readers
<1> QED
  BY <1>1, <1>2, PhasesKeep

LEMMA IssueKeeps == ASSUME IInv, Issue PROVE IInv'
<1>1. /\ phase["server"] = "requested"
      /\ phase' = [phase EXCEPT !["server"] = "certified"]
      /\ UNCHANGED <<svc, eps, nodes, changes, faults, view, sans, addr>>
  BY DEF Issue, resources
<1>2. /\ DOMAIN phase' = Readers /\ phase'["server"] = "certified"
      /\ phase'["agent"] = phase["agent"] /\ faults' \in 0 .. MaxFaults
  BY <1>1 DEF IInv, TypeOK, Readers
<1>3. ~ Found(view["server"]).err /\ sans' = Certifiable(view["server"])
  BY <1>1 DEF IInv, ServerDerived, Requested
<1> QED
  BY <1>1, <1>2, <1>3, PhasesKeep

\* The agent goes on from an address that it has.
LEMMA AgentMoves ==
  ASSUME IInv, NEW stage \in {"addressed", "dialing", "connected"}, Addressed,
         phase' = [phase EXCEPT !["agent"] = stage],
         UNCHANGED <<resources, faults, view, sans, addr>>
  PROVE  IInv'
<1>1. /\ DOMAIN phase' = Readers /\ phase'["agent"] = stage
      /\ phase'["server"] = phase["server"] /\ faults' \in 0 .. MaxFaults
  BY DEF IInv, TypeOK, Readers
<1>2. Addressed' /\ UNCHANGED <<svc, eps, nodes, changes, view, addr, sans>>
  BY <1>1 DEF Addressed, resources
<1> QED
  BY <1>1, <1>2, PhasesKeep

LEMMA DeriveKeeps == ASSUME IInv, Derive PROVE IInv'
<1>1. /\ phase["agent"] = "extract" /\ addr' = Derived(view["agent"]) /\ addr' # NoAddr
      /\ phase' = [phase EXCEPT !["agent"] = "addressed"]
      /\ UNCHANGED <<svc, eps, nodes, changes, faults, view, sans>>
  BY DEF Derive, resources, Derived
<1>2. /\ DOMAIN phase' = Readers /\ phase'["agent"] = "addressed"
      /\ phase'["server"] = phase["server"]
  BY <1>1 DEF IInv, TypeOK, Readers
<1>3. AgentFlag = NoAddr
  BY <1>1 DEF IInv, FlagKept, Addressed
<1>4. TypeOK'
  BY <1>1, <1>2 DEF IInv, TypeOK, Addressed
<1>5. ViewsComplete'
  <2>1. \A q \in Readers : phase'[q] = phase[q] \/ phase[q] = "extract"
    BY <1>1, <1>2 DEF Readers
  <2>2. ASSUME NEW q \in Readers, Looks(q)
        PROVE  /\ phase'[q] # "service" => view'[q].svc \in Services
               /\ phase'[q] \notin {"service", "endpoints"} => view'[q].eps \in EndpointLists
    BY <1>1, <2>1, <2>2 DEF IInv, ViewsComplete
  <2> QED
    BY <2>2 DEF ViewsComplete, Looks
<1>6. ServerDerived'
  BY <1>1, <1>2 DEF IInv, ServerDerived, Requested, Certifiable, Found
<1>7. AgentDerived' /\ FlagKept'
  BY <1>1, <1>3 DEF AgentDerived, FlagKept, Derived
<1> QED
  BY <1>4, <1>5, <1>6, <1>7 DEF IInv

\* The server loses what it has derived, and the agent its connection.
LEMMA RestartServerKeeps == ASSUME IInv, RestartServer PROVE IInv'
<1>1. /\ phase' = [phase EXCEPT !["server"] = Start["server"],
                                !["agent"] = IF @ = "connected" THEN "dialing" ELSE @]
      /\ view' = [view EXCEPT !["server"] = Nothing]
      /\ faults' \in 0 .. MaxFaults
      /\ UNCHANGED <<svc, eps, nodes, changes, addr>>
  BY BoundsAssumption DEF RestartServer, resources, Fault, IInv, TypeOK
<1>2. /\ DOMAIN phase = Readers /\ view \in [Readers -> View]
      /\ "server" \in Readers /\ "agent" \in Readers
  BY DEF IInv, TypeOK, Readers
<1>3. Start["server"] = "service"
  BY <1>2 DEF Start
<1>4. /\ DOMAIN phase' = Readers /\ phase'["server"] = "service"
      /\ phase'["agent"] = IF phase["agent"] = "connected" THEN "dialing" ELSE phase["agent"]
  BY <1>1, <1>2, <1>3
<1>5. Addressed' <=> Addressed
  BY <1>4 DEF Addressed
<1>6. view' \in [Readers -> View] /\ view'["agent"] = view["agent"]
  BY <1>1, <1>2 DEF Nothing, View
<1>7. TypeOK'
  <2>1. phase'["agent"] \in Reading \cup {"addressed", "dialing", "connected"}
    BY <1>4 DEF IInv, TypeOK
  <2> QED
    BY <1>1, <1>4, <1>5, <1>6, <2>1 DEF IInv, TypeOK, Reading
<1>8. ViewsComplete'
  <2>1. ASSUME NEW q \in Readers, Looks(q)
        PROVE  /\ phase'[q] # "service" => view'[q].svc \in Services
               /\ phase'[q] \notin {"service", "endpoints"} => view'[q].eps \in EndpointLists
    <3>1. /\ phase[q] # "service" => view[q].svc \in Services
          /\ phase[q] \notin {"service", "endpoints"} => view[q].eps \in EndpointLists
      BY <2>1 DEF IInv, ViewsComplete
    <3>2. CASE q = "server"
      BY <1>4, <3>2
    <3>3. CASE q = "agent"
      <4>1. phase'["agent"] = phase["agent"] \/ phase["agent"] = "connected"
        BY <1>4
      <4> QED
        BY <1>6, <3>1, <3>3, <4>1
    <3> QED
      BY <3>2, <3>3 DEF Readers
  <2> QED
    BY <2>1 DEF ViewsComplete, Looks
<1>9. ServerDerived'
  BY <1>4 DEF ServerDerived, Requested
<1>10. AgentDerived' /\ FlagKept'
  BY <1>1, <1>5, <1>6 DEF IInv, AgentDerived, FlagKept, Derived
<1> QED
  BY <1>7, <1>8, <1>9, <1>10 DEF IInv

LEMMA NextKeeps == ASSUME IInv, [Next]_vars PROVE IInv'
<1>0. /\ faults \in 0 .. MaxFaults /\ DOMAIN phase = Readers /\ view \in [Readers -> View]
      /\ svc \in Services /\ eps \in EndpointLists /\ nodes \in NodeLists
      /\ "server" \in Readers /\ "agent" \in Readers
  BY DEF IInv, TypeOK, Readers
<1>1. ASSUME NEW p \in Readers, ReadService(p) PROVE IInv'
  <2> DEFINE seen == [view[p] EXCEPT !.svc = svc]
  <2>1. phase[p] = "service" /\ Reads(p, seen, "endpoints")
    BY <1>1 DEF ReadService
  <2>2. seen \in View /\ seen.svc \in Services
    BY <1>0 DEF View
  <2> HIDE DEF seen
  <2> QED
    BY <2>1, <2>2, ReadKeeps DEF Reading
<1>2. ASSUME NEW p \in Readers, ReadEndpoints(p) PROVE IInv'
  <2> DEFINE seen == [view[p] EXCEPT !.eps = eps]
             next == IF view[p].svc.type = "NodePort" THEN "nodes" ELSE "extract"
  <2>1. phase[p] = "endpoints" /\ Reads(p, seen, next)
    BY <1>2 DEF ReadEndpoints
  <2>2. Looks(p) => view[p].svc \in Services
    BY <2>1 DEF IInv, ViewsComplete
  <2>3. /\ seen \in View /\ seen.eps \in EndpointLists
        /\ Looks(p) => seen.svc \in Services
    BY <1>0, <2>2 DEF View
  <2>4. next \in Reading \ {"service"} /\ phase[p] \in Reading
    BY <2>1 DEF Reading
  <2> HIDE DEF seen, next
  <2> QED
    BY <2>1, <2>3, <2>4, ReadKeeps
<1>3. ASSUME NEW p \in Readers, ReadNodes(p) PROVE IInv'
  <2> DEFINE seen == [view[p] EXCEPT !.nodes = nodes]
  <2>1. phase[p] = "nodes" /\ Reads(p, seen, "extract")
    BY <1>3 DEF ReadNodes
  <2>2. Looks(p) => view[p].svc \in Services /\ view[p].eps \in EndpointLists
    BY <2>1 DEF IInv, ViewsComplete
  <2>3. /\ seen \in View
        /\ Looks(p) => seen.svc \in Services /\ seen.eps \in EndpointLists
    BY <1>0, <2>2 DEF View
  <2> HIDE DEF seen
  <2> QED
    BY <2>1, <2>3, ReadKeeps DEF Reading
<1>4. ASSUME NEW p \in Readers, ReadFails(p) PROVE IInv'
  <2>1. Retry(p) /\ faults' \in 0 .. MaxFaults /\ addr' = addr
    BY <1>0, <1>4, BoundsAssumption DEF ReadFails, Fault
  <2> QED
    BY <2>1, RetryKeeps
<1>5. CASE ExtractFails
  <2>1. Retry("server") /\ faults' \in 0 .. MaxFaults /\ addr' = addr
    BY <1>0, <1>5 DEF ExtractFails
  <2> QED
    BY <1>0, <2>1, RetryKeeps
<1>6. CASE DeriveFails
  <2>1. Retry("agent") /\ faults' \in 0 .. MaxFaults /\ addr' = addr
    BY <1>0, <1>6 DEF DeriveFails
  <2> QED
    BY <1>0, <2>1, RetryKeeps
<1>7. CASE ConfigureFails
  <2>1. Retry("agent") /\ faults' \in 0 .. MaxFaults /\ addr' = AgentFlag
    BY <1>0, <1>7 DEF ConfigureFails
  <2> QED
    BY <1>0, <2>1, RetryKeeps
<1>8. CASE RestartAgent
  <2>1. Retry("agent") /\ faults' \in 0 .. MaxFaults /\ addr' = AgentFlag
    BY <1>0, <1>8, BoundsAssumption DEF RestartAgent, Fault
  <2> QED
    BY <1>0, <2>1, RetryKeeps
<1>9. CASE Configure
  <2>1. Addressed
    BY <1>9 DEF Configure, Addressed
  <2> QED
    BY <1>9, <2>1, AgentMoves DEF Configure
<1>10. CASE Connect
  <2>1. Addressed
    BY <1>10 DEF Connect, Addressed
  <2> QED
    BY <1>10, <2>1, AgentMoves DEF Connect
<1>11. CASE UNCHANGED vars
  BY <1>11 DEF vars, resources, IInv, TypeOK, ViewsComplete, ServerDerived, AgentDerived,
               FlagKept, Requested, Addressed, Certifiable, Found, Derived
<1> QED
  BY <1>1, <1>2, <1>3, <1>4, <1>5, <1>6, <1>7, <1>8, <1>9, <1>10, <1>11, ChangeKeeps,
     RequestKeeps, IssueKeeps, DeriveKeeps, RestartServerKeeps DEF Next

-----------------------------------------------------------------------------
\* Whatever the objects hold and become: what server and agent go by was derived
\* from a complete view (getTunnelServerResources, extractTunnelServerDNSandIPs).
THEOREM Invariance == Spec => []IInv
<1> QED
  BY InitInv, NextKeeps, PTL DEF Spec

\* Every variable keeps its type, and an agent that goes on has an address
\* (TunnelAgentOptions.run).
THEOREM TypeCorrect == Spec => []TypeOK
<1>1. IInv => TypeOK
  BY DEF IInv
<1> QED
  BY <1>1, Invariance, PTL

\* Server and agent derive the host to verify from different reads of the objects
\* (NewTunnelServerCertManager, GetTunnelServerAddr); where both saw the same service
\* and nodes, and the same endpoints if nothing else has an IP, the certificate
\* names the host, for services of every type and objects of any size.
THEOREM AgreementIsEnough == Spec => []AgreementVerifies
<1>1. IInv => AgreementVerifies
  <2> SUFFICES ASSUME IInv, AgentFlag = NoAddr, Agree PROVE addr.host \in sans
    BY DEF AgreementVerifies
  <2> DEFINE v == view["agent"]  w == view["server"]
  <2>1. /\ Requested /\ Addressed /\ w.svc = v.svc /\ w.nodes = v.nodes
        /\ NeedsEndpoints(v) => w.eps = v.eps
    BY DEF Agree
  <2>2. Complete(v) /\ Complete(w)
    BY <2>1, ViewComplete DEF Looks, Readers, Requested, Addressed
  <2>3. /\ ~ Found(w).err /\ sans = Certifiable(w)
        /\ addr = Derived(v) /\ Derived(v) # NoAddr
    BY <2>1 DEF IInv, ServerDerived, AgentDerived
  <2> HIDE DEF v, w
  <2>4. Derived(v).host \in Range(Found(w).dnsNames) \cup Range(Found(w).ips)
    BY <2>1, <2>2, <2>3, DerivedIsNamed
  <2> QED
    BY <2>3, <2>4 DEF Certifiable
<1> QED
  BY <1>1, Invariance, PTL

\* An agent without a flag dials an IP that the service is exposed by, if there is
\* one, and never port 0 (GetTunnelServerAddr).
THEOREM ExposedIsDialed == Spec => []DialsExposedIP
<1>1. IInv => DialsExposedIP
  <2> SUFFICES ASSUME IInv, AgentFlag = NoAddr, Addressed, Exposed(view["agent"])
               PROVE  /\ addr.host \in DialableIPs(view["agent"])
                      /\ addr.port = TcpPort(view["agent"].svc) /\ addr.port # 0
    BY DEF DialsExposedIP
  <2> DEFINE v == view["agent"]
  <2>1. Complete(v)
    BY ViewComplete DEF Looks, Readers, Addressed
  <2>2. addr = Derived(v) /\ Derived(v) # NoAddr
    BY DEF IInv, AgentDerived
  <2> HIDE DEF v
  <2>3. Exposed(v)
    BY DEF v
  <2>4. Derived(v).host \in DialableIPs(v)
    BY <2>1, <2>2, <2>3, DerivedIsExposed
  <2>5. Derived(v).port = TcpPort(v.svc) /\ TcpPort(v.svc) # 0
    BY <2>1, <2>2, DerivedIsFound
  <2> QED
    BY <2>2, <2>4, <2>5 DEF v
<1> QED
  BY <1>1, Invariance, PTL

\* Only an entry of --cert-ips can make a request that no one can sign: half-ready
\* objects never do (NewTunnelServerCertManager).
THEOREM ObjectsAreSignable == Spec => []UnsignableByFlagOnly
<1>1. IInv => UnsignableByFlagOnly
  <2> SUFFICES ASSUME IInv, Requested, NilIP \in sans
               PROVE  \E s \in Range(CertIPs) : ParseIP(s) = NilIP
    BY DEF UnsignableByFlagOnly
  <2> DEFINE w == view["server"]
  <2>1. Complete(w)
    BY ViewComplete DEF Looks, Readers, Requested
  <2>2. ~ Found(w).err /\ sans = Certifiable(w)
    BY DEF IInv, ServerDerived
  <2> HIDE DEF w
  <2>3. NilIP \notin Range(Found(w).dnsNames) \cup Range(Found(w).ips)
    BY <2>1, <2>2, FoundSignable
  <2>4. NilIP \notin Range(CertNames)
    <3>1. Range(CertNames) \subseteq STRING
      BY ObjectsAssumption, LenProperties, ElementOfSeq DEF Range
    <3> QED
      BY <3>1, HostsAssumption
  <2> QED
    BY <2>2, <2>3, <2>4 DEF Certifiable
<1> QED
  BY <1>1, Invariance, PTL
=============================================================================
