---------------------------- MODULE TunnelAgent -----------------------------
(***************************************************************************)
(* How a tunnel agent starts: complete and run of TunnelAgentOptions in    *)
(* pkg/tunnel/agent/cmd.go, and the connection that anpTunnelAgent.Run     *)
(* keeps up.                                                               *)
(***************************************************************************)
EXTENDS HubCluster

CONSTANTS
  apiserverAddr,      \* agents that are given --apiserver-addr,
  tunnelServerAddr,   \* --tunnelserver-addr,
  kubeConfig          \* --kube-config

ASSUME OptionsAssumption ==
  /\ apiserverAddr \subseteq Agents
  /\ tunnelServerAddr \subseteq Agents
  /\ kubeConfig \subseteq Agents

VARIABLES
  agent,            \* agent[a]: the step that a is about to take
  cloudClientSet,   \* cloudClientSet[a]: whether it is set
  hookProvider,     \* hookProvider[a]: nil, or the one that main gives
  hooks,            \* hooks[a]: the hooks that a has executed
  roots             \* roots[a]: where a has CA certificates to verify others with

agentVars == <<agent, cloudClientSet, hookProvider, hooks, roots>>

AgentInit ==
  /\ agent = [a \in Agents |-> "complete"]
  /\ cloudClientSet = [a \in Agents |-> FALSE]
  /\ hookProvider = [a \in Agents |-> "nil"]
  /\ hooks = [a \in Agents |-> {}]
  /\ roots = [a \in Agents |-> {}]

AgentTypeOK ==
  /\ agent \in [Agents -> {"complete", "address", "manager", "tls", "certificate",
                           "dialing", "connected"}]
  /\ cloudClientSet \in [Agents -> BOOLEAN]
  /\ hookProvider \in [Agents -> {"nil", "given"}]
  /\ hooks \in [Agents -> SUBSET {"PreStartTunnelAgent", "PostStartTunnelAgent"}]
  /\ roots \in [Agents -> SUBSET {"client", "tunnel"}]

Enters(a, from, to) == agent[a] = from /\ agent' = [agent EXCEPT ![a] = to]

\* The CA file is read for a TLS configuration; without a certificate in it the
\* configuration trusts nobody in the hub cluster.
LoadRoots(a, config) ==
  \/ roots' = [roots EXCEPT ![a] = @ \cup {config}] /\ UNCHANGED faults
  \/ Fault("roots") /\ UNCHANGED roots

\* With an API server address, which alone sets the client for the hub
\* cluster, or a kubeconfig, complete returns early.  Otherwise the provider
\* is set, if there is one already.
complete(a) ==
  LET returns == a \in apiserverAddr \cup kubeConfig IN
  /\ Enters(a, "complete", "address")
  /\ cloudClientSet' = [cloudClientSet EXCEPT ![a] = a \in apiserverAddr]
  /\ hookProvider' = [hookProvider EXCEPT
                        ![a] = IF ~ returns /\ @ # "nil" THEN "given" ELSE @]
  /\ IF a \in apiserverAddr THEN LoadRoots(a, "client") ELSE UNCHANGED <<roots, faults>>
  /\ UNCHANGED <<hooks, csr, manager, cert, listening>>

Execute(a, hook) ==
  hooks' = [hooks EXCEPT ![a] = IF hookProvider[a] = "nil" THEN @ ELSE @ \cup {hook}]

NeedsAPI(a) == a \notin tunnelServerAddr

\* The client gets answers.
ClientWorks(a) == cloudClientSet[a] /\ "client" \in roots[a] /\ ReachesAPI(a)

\* 1. and 2.
GetAddress(a) ==
  /\ Enters(a, "address", "manager")
  /\ NeedsAPI(a) => ClientWorks(a)
  /\ Execute(a, "PreStartTunnelAgent")
  /\ UNCHANGED <<cloudClientSet, hookProvider, roots, hubVars>>

\* 3.
StartAgentCertManager(a) ==
  /\ Enters(a, "manager", "tls")
  /\ manager' = [manager EXCEPT ![a] = "rotating"]
  /\ UNCHANGED <<cloudClientSet, hookProvider, hooks, roots, csr, cert, listening, faults>>

\* 4.
GenAgentTLSConfig(a) ==
  /\ Enters(a, "tls", "certificate")
  /\ LoadRoots(a, "tunnel")
  /\ UNCHANGED <<cloudClientSet, hookProvider, hooks, csr, manager, cert, listening>>

\* Mutant: the agent does not wait for its certificate.
RunAgentUncertified(a) ==
  /\ Enters(a, "certificate", "dialing")
  /\ Execute(a, "PostStartTunnelAgent")
  /\ UNCHANGED <<cloudClientSet, hookProvider, roots, hubVars>>

\* 5., 6. and 7.: the connection is made in the background.
RunAgent(a) ==
  /\ Enters(a, "certificate", "dialing")
  /\ Current(a)
  /\ Execute(a, "PostStartTunnelAgent")
  /\ UNCHANGED <<cloudClientSet, hookProvider, roots, hubVars>>

\* The agent tries again until it is connected.
Connect(a) ==
  /\ Enters(a, "dialing", "connected")
  /\ Handshake(a, "agents") /\ "tunnel" \in roots[a]
  /\ UNCHANGED <<cloudClientSet, hookProvider, hooks, roots, hubVars>>

Disconnect(a) ==
  /\ Enters(a, "connected", "dialing")
  /\ Fault("break")
  /\ UNCHANGED <<cloudClientSet, hookProvider, hooks, roots, csr, manager, cert, listening>>

\* What is left of an agent whose process is gone; it is started again.
AgentDies(a) ==
  /\ agent' = [agent EXCEPT ![a] = "complete"]
  /\ cloudClientSet' = [cloudClientSet EXCEPT ![a] = FALSE]
  /\ hookProvider' = [hookProvider EXCEPT ![a] = "nil"]
  /\ hooks' = [hooks EXCEPT ![a] = {}]
  /\ roots' = [roots EXCEPT ![a] = {}]
  /\ ManagerDies(a)
  /\ UNCHANGED listening

\* Mutant: a manager that cannot reach the API server is not patient either.
AgentFailsUnreachable(a) ==
  /\ \/ agent[a] = "address" /\ NeedsAPI(a) /\ ~ ClientWorks(a)
     \/ manager[a] = "rotating" /\ ~ ClientWorks(a)
  /\ AgentDies(a)
  /\ UNCHANGED faults

\* The API server does not answer, or the client for it is nil: run returns an
\* error or panics, and so does a manager that is to create its CSR with nil.
AgentFails(a) ==
  /\ \/ agent[a] = "address" /\ NeedsAPI(a) /\ ~ ClientWorks(a)
     \/ manager[a] = "rotating" /\ ~ cloudClientSet[a]
  /\ AgentDies(a)
  /\ UNCHANGED faults

\* The token file or a kubeconfig cannot be read, POD_IP is not set or there is no
\* place for certificates, the CA file cannot be read.
AgentExits(a) ==
  /\ agent[a] \in {"complete", "manager", "tls"}
  /\ Fault("exit")
  /\ AgentDies(a)

AgentCrashes(a) == agent[a] # "complete" /\ Fault("crash") /\ AgentDies(a)

AgentStep(a) ==
  \/ complete(a) \/ GetAddress(a) \/ StartAgentCertManager(a) \/ GenAgentTLSConfig(a)
  \/ RunAgent(a) \/ Connect(a) \/ AgentFails(a)
=============================================================================
