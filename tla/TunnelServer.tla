---------------------------- MODULE TunnelServer ----------------------------
(***************************************************************************)
(* How the tunnel server starts: TunnelServerOptions.run in                *)
(* pkg/tunnel/server/cmd.go, step by step, with the Run methods of the     *)
(* reverse proxy and of the tunnel that it calls.                          *)
(***************************************************************************)
EXTENDS HubCluster

CONSTANT udsName   \* TRUE: the master's port is a unix domain socket

VARIABLES
  stage,      \* the step that run() is about to take
  approver    \* off, registered with the informers, or running on them

serverVars == <<stage, approver>>

ServerInit == stage = "manager" /\ approver = "off"

ServerTypeOK ==
  /\ stage \in {"manager", "tls", "informers", "certificate", "proxy", "tunnel", "serving"}
  /\ approver \in {"off", "registered", "running"}

\* Mutant: the manager is created and never started.
CreateCertManagerOnly ==
  /\ stage = "manager" /\ stage' = "tls"
  /\ approver' = "registered"
  /\ UNCHANGED hubVars

\* 2. The manager runs once there are addresses to certify; the approver's
\* informer is set up, but does not run yet.
StartCertManager ==
  /\ stage = "manager" /\ stage' = "tls"
  /\ manager' = [manager EXCEPT ![Server] = "rotating"]
  /\ approver' = "registered"
  /\ UNCHANGED <<csr, cert, listening, faults>>

\* 3.
GenTLSConfig ==
  /\ stage = "tls" /\ stage' = "informers"
  /\ UNCHANGED <<approver, hubVars>>

\* Mutant: the informers start after the wait for the certificate.
StartInformersLate ==
  /\ stage = "informers" /\ stage' = "certificate"
  /\ Current(Server)
  /\ approver' = IF approver = "registered" THEN "running" ELSE approver
  /\ UNCHANGED hubVars

\* 4. Only informers that are registered by now are started.
StartInformers ==
  /\ stage = "informers" /\ stage' = "certificate"
  /\ approver' = IF approver = "registered" THEN "running" ELSE approver
  /\ UNCHANGED hubVars

\* Mutant: the server does not wait for its certificate.
SkipCertificate ==
  /\ stage = "certificate" /\ stage' = "proxy"
  /\ UNCHANGED <<approver, hubVars>>

\* 5.
AwaitCertificate ==
  /\ stage = "certificate" /\ stage' = "proxy"
  /\ Current(Server)
  /\ UNCHANGED <<approver, hubVars>>

\* Ports that cannot be opened are a fault.
Listen(ports, failed) ==
  /\ listening' = listening \cup (ports \ failed)
  /\ IF failed = {} THEN UNCHANGED faults ELSE Fault("listen")

\* 6. A failure to listen is only logged.
RunReverseProxy ==
  /\ stage = "proxy" /\ stage' = "tunnel"
  /\ \E failed \in SUBSET {"proxy"} : Listen({"proxy"}, failed)
  /\ UNCHANGED <<approver, csr, manager, cert>>

\* complete leaves serverMasterInsecureAddr empty, which net/http takes for its
\* default port.
MasterPorts == IF udsName THEN {"master"} ELSE {"master", "http"}

\* 7. A failure to listen to the master over TCP is only logged.
RunTunnelServer ==
  /\ stage = "tunnel" /\ stage' = "serving"
  /\ \E failed \in SUBSET (IF udsName THEN {} ELSE MasterPorts) :
       Listen(MasterPorts \cup {"agents"}, failed)
  /\ UNCHANGED <<approver, csr, manager, cert>>

\* What is left of a server whose process is gone; it is started again.
ServerDies ==
  /\ stage' = "manager" /\ approver' = "off"
  /\ listening' = {}
  /\ ManagerDies(Server)

\* A kubeconfig cannot be read or there is no place for certificates, the root CA
\* cannot be read, the agents' port cannot be opened, or the goroutine that was to
\* serve the unix domain socket panics for want of it.
ServerExits ==
  /\ \/ stage \in {"manager", "tls"} /\ Fault("exit")
     \/ stage = "tunnel" /\ Fault("listen")
  /\ ServerDies

ServerCrashes == stage # "manager" /\ Fault("crash") /\ ServerDies

\* The approver inside the server, as module CSRApproval describes it.
AutoApprove(p) ==
  /\ approver = "running"
  /\ Hub!AutoApprove(p)
  /\ UNCHANGED <<manager, cert, listening, faults, serverVars>>

ServerStep ==
  \/ StartCertManager \/ GenTLSConfig \/ StartInformers \/ AwaitCertificate
  \/ RunReverseProxy \/ RunTunnelServer
=============================================================================
