---------------------------- MODULE TunnelSystem ----------------------------
(***************************************************************************)
(* The tunnel server and its agents together, from their first start       *)
(* through rotations of their certificates, failures and restarts.  Each   *)
(* depends on the others for its certificate: the server on the approver   *)
(* that it runs itself, an agent on the same approver and on the reverse   *)
(* proxy, which the server opens when it has a certificate of its own.     *)
(***************************************************************************)
EXTENDS TunnelServer, TunnelAgent

vars == <<hubVars, serverVars, agentVars>>

Init == HubInit /\ ServerInit /\ AgentInit

\* Mutant: an agent does not notice that the server is gone.
DroppedUnnoticed == UNCHANGED agent

\* The connections of a server that dies break.
Dropped == agent' = [a \in Agents |-> IF agent[a] = "connected" THEN "dialing" ELSE agent[a]]

\* A manager steps only while it has a client for the API server that trusts it.
HasClient(p) == p \in Agents => cloudClientSet[p] /\ "client" \in roots[p]

Manager(p) == HasClient(p) /\ ManagerStep(p) /\ UNCHANGED <<serverVars, agentVars>>

Environment(p) == (Age(p) \/ Expire(p) \/ Deny(p)) /\ UNCHANGED <<serverVars, agentVars>>

Approver(p) == AutoApprove(p) /\ UNCHANGED agentVars

ServerRuns == ServerStep /\ UNCHANGED agentVars

ServerFails ==
  /\ ServerExits \/ ServerCrashes
  /\ Dropped
  /\ UNCHANGED <<cloudClientSet, hookProvider, hooks, roots>>

AgentRuns(a) == AgentStep(a) /\ UNCHANGED serverVars

AgentFaults(a) ==
  (AgentExits(a) \/ AgentCrashes(a) \/ Disconnect(a)) /\ UNCHANGED serverVars

Next ==
  \/ \E p \in CSRs : Manager(p) \/ Environment(p) \/ Approver(p)
  \/ ServerRuns \/ ServerFails
  \/ \E a \in Agents : AgentRuns(a) \/ AgentFaults(a)

Spec == Init /\ [][Next]_vars

\* Processes, certificate managers and the approver go on, and the signer
\* signs; nothing makes a certificate age or expire or a fault happen.
FairSpec ==
  /\ Spec
  /\ WF_vars(ServerRuns)
  /\ \A p \in CSRs : WF_vars(Manager(p)) /\ WF_vars(Approver(p))
  /\ \A a \in Agents : WF_vars(AgentRuns(a))

-----------------------------------------------------------------------------
TypeOK == HubTypeOK /\ ServerTypeOK /\ AgentTypeOK

\* What the server has done by the time it is at a stage.
StageInv ==
  /\ stage \in {"tls", "informers"} => approver = "registered"
  /\ stage \in {"certificate", "proxy", "tunnel", "serving"} => approver = "running"
  /\ stage \in {"proxy", "tunnel", "serving"} => cert[Server] # "none"
  /\ stage # "manager" => manager[Server] # "off"
  /\ listening # {} => stage \in {"tunnel", "serving"}

\* A manager rests only on a fresh certificate.
RestInv == \A p \in CSRs : manager[p] = "resting" => cert[p] = "fresh"

\* What an agent has done by the time it is at a step.
StepInv ==
  \A a \in Agents :
    /\ agent[a] = "complete" => manager[a] = "off" /\ cert[a] = "none"
    /\ agent[a] \in {"tls", "certificate", "dialing", "connected"} => manager[a] # "off"
    /\ agent[a] \in {"dialing", "connected"} => cert[a] # "none"
    /\ cert[a] # "none" \/ manager[a] \in {"waiting", "resting"} => cloudClientSet[a]
    /\ agent[a] \notin {"complete", "address"} /\ NeedsAPI(a) => "client" \in roots[a]

\* The inductive invariant: what run() of server and agent has done so far is
\* what its next step and the safety properties below count on.
IInv == TypeOK /\ StageInv /\ RestInv /\ StepInv

\* Nobody waits in vain: while the server waits for its certificate its own
\* approver is running, and behind every wait without a certificate there is
\* a manager that asks for one (of no use to an agent that trusts nobody, see
\* Trusts).
NoFutileWait ==
  /\ stage = "certificate" => approver = "running"
  /\ stage = "certificate" /\ ~ Current(Server) => manager[Server] \in {"rotating", "waiting"}
  /\ \A a \in Agents :
       agent[a] = "certificate" /\ ~ Current(a) => manager[a] \in {"rotating", "waiting"}

\* No port is open before the server has had a certificate since its start,
\* so that a handshake fails for want of one only after it has expired.
PortsCertified == listening # {} => cert[Server] # "none"

\* Rotations and expired certificates, of the agent or of the server, cost no
\* connection: one that is lost is lost to a fault.
RotationKeepsConnections ==
  [][\A a \in Agents :
       agent[a] = "connected" /\ agent'[a] # "connected" => faults' = faults + 1]_vars

\* What is to be seen from outside: who has a certificate, is open, is connected.
ServerSeen ==
  IF "agents" \in listening THEN "open"
  ELSE IF cert[Server] # "none" THEN "certified" ELSE "unknown"
StatusSeen ==
  [a \in Agents |-> IF agent[a] = "connected" THEN "connected"
                    ELSE IF cert[a] # "none" THEN "certified" ELSE "unknown"]

Promise == INSTANCE Registration
             WITH Clusters <- Agents, server <- ServerSeen, status <- StatusSeen

\* Server and agents implement Registration: nothing is open or connected that
\* has no certificate, nobody is connected to a server that is not there, and a
\* renewal, at whatever time it comes, is not to be seen.
ImplementsRegistration == Promise!Spec

\* Once faults cease, the server serves agents for good and never stays without
\* a certificate, whatever was broken before.
ServerRecovers ==
  /\ <>[](stage = "serving" /\ "agents" \in listening)
  /\ []<>Current(Server)

\* An agent that found no CA certificates dials for good, or waits for good for
\* its certificate, and only a restart lets it look again; it exits by itself if
\* it has to ask the API server for the tunnel server's address.
Trusts(a) ==
  /\ agent[a] \in {"certificate", "dialing", "connected"} => "tunnel" \in roots[a]
  /\ a \in tunnelServerAddr /\ cloudClientSet[a] => "client" \in roots[a]

\* So does every agent that has a client, on condition that the way to the API
\* server that it is given stays open: the server may have failed to open it.
AgentsRecover ==
  \A a \in apiserverAddr :
    <>[]((a \in DirectAgents \/ "proxy" \in listening) /\ Trusts(a)) =>
      <>[](agent[a] = "connected") /\ []<>Current(a)

\* As if the server opened its ports or exited: once faults cease, all ports are
\* open and all agents connected.
TunnelsComeUp ==
  <>[](/\ listening = MasterPorts \cup {"proxy", "agents"}
       /\ \A a \in Agents : agent[a] = "connected")

(***************************************************************************)
(* What the comment on TunnelHookProvider says.                            *)
(***************************************************************************)

\* "after tunnel agent get started, PostStartTunnelAgent hook will refesh admin
\* token to cloud apiserver"
HooksExecuted ==
  \A a \in Agents :
    agent[a] \in {"dialing", "connected"} => "PostStartTunnelAgent" \in hooks[a]
=============================================================================
