----------------------------- MODULE HubCluster -----------------------------
(***************************************************************************)
(* What the tunnel server and the tunnel agents share: the certificate     *)
(* signing requests in the hub cluster's API server, the certificate       *)
(* manager that each of them runs (k8s.io/client-go/util/certificate, set  *)
(* up by pkg/tunnel/pki/certmanager/certmanager.go), and the ports that    *)
(* the server has open.  The CSR approver inside the server appears by     *)
(* what module CSRApproval says of it.                                     *)
(*                                                                         *)
(* A process waits for one CSR at a time; the CSR goes by the name of the  *)
(* process, and one that was given up is forgotten.                        *)
(***************************************************************************)
EXTENDS CSRObjects

CONSTANTS
  Server,        \* the tunnel server, all other processes are agents
  DirectAgents,  \* agents whose API server address is not the reverse proxy
  FaultKinds,    \* the kinds of fault that may occur ...
  MaxFaults      \* ... and the bound on their number

Agents == CSRs \ {Server}

AllFaultKinds ==
  {"crash",     \* a process dies and is started again
   "exit",      \* a step of a process fails, the process exits
   "roots",     \* a CA file yields no certificate, which is no error
   "listen",    \* the server cannot open a port
   "break",     \* the connection of an agent breaks
   "timeout",   \* a certificate manager gives a CSR up
   "deny",      \* somebody denies a CSR
   "age"}       \* a certificate reaches its rotation deadline

\* The subject of the requests of p, newCertManager's getTemplate.
Template(p) ==
  [format |-> "csr",
   orgs   |-> IF p = Server THEN <<TunnelServerCSROrg, TunnelCSROrg>> ELSE <<TunnelCSROrg>>]

ASSUME HubAssumption ==
  /\ Server \in CSRs
  /\ DirectAgents \subseteq Agents
  /\ FaultKinds \subseteq AllFaultKinds
  /\ MaxFaults \in Nat
  /\ \A p \in CSRs : Template(p) \in Requests

VARIABLES
  csr,          \* csr[p]: the CSR of p in the API server
  manager,      \* manager[p]: the rotation loop of p's certificate manager
  cert,         \* cert[p]: the certificate that the manager of p holds
  listening,    \* ports of the server that accept connections
  faults        \* number of faults so far

hubVars == <<csr, manager, cert, listening, faults>>

\* The ports of the constants, and net/http's default port.
Ports == {"proxy", "agents", "master", "insecure", "http"}

Hub == INSTANCE CSRApproval

HubInit ==
  /\ Hub!Init
  /\ manager = [p \in CSRs |-> "off"]
  /\ cert = [p \in CSRs |-> "none"]
  /\ listening = {}
  /\ faults = 0

HubTypeOK ==
  /\ csr \in [CSRs -> [req : Requests, conds : SUBSET Conditions] \cup {NoCSR}]
  /\ manager \in [CSRs -> {"off", "rotating", "waiting", "resting"}]
  /\ cert \in [CSRs -> {"none", "fresh", "aging", "expired"}]
  /\ listening \subseteq Ports
  /\ faults \in 0 .. MaxFaults

Fault(kind) ==
  /\ kind \in FaultKinds
  /\ faults < MaxFaults
  /\ faults' = faults + 1

-----------------------------------------------------------------------------
(* Connections.  The TLS callbacks look at Current() in each handshake and *)
(* present no certificate when it is nil.                                  *)

\* Current() is nil without a certificate and with one that is expired.
Current(p) == cert[p] \in {"fresh", "aging"}

\* Mutant: the reverse proxy takes over the tunnel's demand for a client
\* certificate.
ProxyDemandsCertificate(p) == "proxy" \in listening /\ Current(Server) /\ Current(p)

\* The reverse proxy asks for a client certificate but accepts none.
ProxyAccepts(p) == "proxy" \in listening /\ Current(Server)

\* The API server is there for the server and through the reverse proxy.
ReachesAPI(p) == p = Server \/ p \in DirectAgents \/ ProxyAccepts(p)

\* Mutual TLS: the tunnel's port demands a client certificate.
Handshake(p, port) == port \in listening /\ Current(Server) /\ Current(p)

-----------------------------------------------------------------------------
(* The certificate managers.                                               *)

\* rotateCerts creates a CSR; a call that fails is repeated.
CreateCSR(p) ==
  /\ manager[p] = "rotating"
  /\ ReachesAPI(p)
  /\ csr' = [csr EXCEPT ![p] = [req |-> Template(p), conds |-> {}]]
  /\ manager' = [manager EXCEPT ![p] = "waiting"]
  /\ UNCHANGED <<cert, listening, faults>>

\* An approved CSR is signed, and the manager receives the certificate.
Certify(p) ==
  /\ manager[p] = "waiting"
  /\ ReachesAPI(p)
  /\ csr[p] # NoCSR
  /\ checkCertApprovalCondition(csr[p].conds) = [approved |-> TRUE, denied |-> FALSE]
  /\ cert' = [cert EXCEPT ![p] = "fresh"]
  /\ manager' = [manager EXCEPT ![p] = "resting"]
  /\ UNCHANGED <<csr, listening, faults>>

\* The CSR is denied, or nothing has come of it for too long.
GiveUp(p) ==
  /\ manager[p] = "waiting"
  /\ \/ csr[p] # NoCSR /\ checkCertApprovalCondition(csr[p].conds).denied /\ UNCHANGED faults
     \/ Fault("timeout")
  /\ manager' = [manager EXCEPT ![p] = "rotating"]
  /\ UNCHANGED <<csr, cert, listening>>

\* The rotation deadline lies before the end of the certificate.
Age(p) ==
  /\ cert[p] = "fresh" /\ manager[p] = "resting"
  /\ Fault("age")
  /\ cert' = [cert EXCEPT ![p] = "aging"]
  /\ manager' = [manager EXCEPT ![p] = "rotating"]
  /\ UNCHANGED <<csr, listening>>

Expire(p) ==
  /\ cert[p] = "aging"
  /\ cert' = [cert EXCEPT ![p] = "expired"]
  /\ UNCHANGED <<csr, manager, listening, faults>>

Deny(p) ==
  /\ Fault("deny")
  /\ Hub!Decide(p, "Denied")
  /\ UNCHANGED <<manager, cert, listening>>

ManagerStep(p) == CreateCSR(p) \/ Certify(p) \/ GiveUp(p)

\* The process of p is gone, and with it the manager and, as the certificate
\* directory is in the container, the certificate.
ManagerDies(p) ==
  /\ manager' = [manager EXCEPT ![p] = "off"]
  /\ cert' = [cert EXCEPT ![p] = "none"]
  /\ UNCHANGED csr
=============================================================================
