-------------------------- MODULE MCServerIdentity --------------------------
(* Small instances of ServerIdentity for TLC.                              *)
EXTENDS ServerIdentity

MCIPv4s == {Loopback, "10.96.0.1", "1.1.1.1", "2.2.2.2", "172.16.0.1", "172.16.0.2",
            "192.168.0.1", "192.168.0.2"}
MCIPv6s == {"fd00::1"}

MCPorts == <<[name |-> "reverseproxy", port |-> 10261, nodePort |-> 31501],
             [name |-> "tcp", port |-> 10262, nodePort |-> 31502]>>

MCService(type, clusterIP) ==
  [type |-> type, annotation |-> NoAddr, ingress |-> <<>>, clusterIP |-> clusterIP,
   ports |-> MCPorts]
MCBalanced(ingress) == [MCService("LoadBalancer", "10.96.0.1") EXCEPT !.ingress = ingress]
MCAnnotated(clusterIP, host) ==
  [MCService("ClusterIP", clusterIP) EXCEPT
     !.annotation = [host |-> host, port |-> 31502, splits |-> TRUE]]
MCIngress(ip, hostname) == [ip |-> ip, hostname |-> hostname]

\* A load balancer that is not ready, has one IP, a name only, or an IPv6 IP.
MCBalancers == {MCBalanced(<<>>), MCBalanced(<<MCIngress("1.1.1.1", Unset)>>),
                MCBalanced(<<MCIngress(Unset, "lb.example")>>),
                MCBalanced(<<MCIngress("fd00::1", Unset)>>)}

\* Headless or not, with and without an annotation, and one that is not "host:port".
MCAnnotations == {MCAnnotated("10.96.0.1", "1.1.1.1"), MCAnnotated("None", "tunnel.example"),
                  MCService("ClusterIP", "None"),
                  [MCAnnotated("10.96.0.1", "1.1.1.1") EXCEPT !.annotation.splits = FALSE]}

MCNodePort == {MCService("NodePort", "10.96.0.1")}
MCPortless == {[MCService("NodePort", "10.96.0.1") EXCEPT !.ports = <<MCPorts[1]>>],
               MCService("ExternalName", Unset)}

MCServices == MCBalancers \cup MCAnnotations \cup MCNodePort \cup MCPortless
MCTwoBalancers == {MCBalanced(<<MCIngress("1.1.1.1", Unset)>>),
                   MCBalanced(<<MCIngress("2.2.2.2", Unset)>>)}

MCNoEndpoints == {<<>>}
MCPods == <<[ip |-> "172.16.0.1", hostname |-> Unset],
            [ip |-> "172.16.0.2", hostname |-> "tunnel-0"]>>
MCEndpoints == {<<>>, MCPods}

MCNode(ip) ==
  <<[type |-> "Hostname", address |-> "node"], [type |-> "InternalIP", address |-> ip]>>
MCNoNodes == {<<>>}
MCNodes == {<<>>, <<MCNode("192.168.0.2"), MCNode("192.168.0.1")>>}

MCNoNames == <<>>
MCCertIPs == <<"2.2.2.2">>
=============================================================================
