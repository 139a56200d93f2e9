------------------------- MODULE TunnelSystemProofs -------------------------
(***************************************************************************)
(* Proofs about TunnelSystem: its type invariant, that nobody waits in     *)
(* vain for a certificate, that no port opens before there is one, and     *)
(* that rotations cost no connection.  The invariant they rest on is IInv: *)
(* a server's stage and an agent's step tell what it has done since it was *)
(* last started, and a manager rests only on a fresh certificate.          *)
(***************************************************************************)
EXTENDS TunnelSystem, TLAPS

-----------------------------------------------------------------------------
(* Types.                                                                  *)

LEMMA InitTyped == Init => TypeOK
  BY HubAssumption
  DEF Init, HubInit, ServerInit, AgentInit, Hub!Init, TypeOK, HubTypeOK, ServerTypeOK, AgentTypeOK

\* A request as the API server holds it.
Requested == [req : Requests, conds : SUBSET Conditions]

\* The steps that replace one CSR by another.
LEMMA CSRType ==
  ASSUME TypeOK, NEW p \in CSRs, NEW obj \in Requested, csr' = [csr EXCEPT ![p] = obj]
  PROVE  csr' \in [CSRs -> Requested \cup {NoCSR}]
  BY DEF TypeOK, HubTypeOK, Requested

LEMMA FaultType ==
  ASSUME TypeOK, NEW kind, Fault(kind)
  PROVE  faults' \in 0 .. MaxFaults
  BY HubAssumption DEF TypeOK, HubTypeOK, Fault

\* The CA file adds to what an agent verifies with, or is a fault.
LEMMA LoadRootsTyped ==
  ASSUME TypeOK, NEW a \in Agents, NEW config \in {"client", "tunnel"}, LoadRoots(a, config)
  PROVE  /\ roots' \in [Agents -> SUBSET {"client", "tunnel"}]
         /\ faults' \in 0 .. MaxFaults
         /\ \A b \in Agents : roots[b] \subseteq roots'[b]
  <1>1. roots \in [Agents -> SUBSET {"client", "tunnel"}] /\ faults \in 0 .. MaxFaults
    BY DEF TypeOK, HubTypeOK, AgentTypeOK
  <1>2. CASE Fault("roots") /\ UNCHANGED roots
    BY <1>1, <1>2, FaultType
  <1>3. CASE roots' = [roots EXCEPT ![a] = @ \cup {config}] /\ UNCHANGED faults
    BY ONLY <1>1, <1>3, a \in Agents, config \in {"client", "tunnel"}
  <1> QED
    BY <1>2, <1>3 DEF LoadRoots

\* A step of a certificate manager.
LEMMA ManagerTyped ==
  ASSUME TypeOK, NEW p \in CSRs, Manager(p)
  PROVE  TypeOK'
  <1> USE DEF TypeOK, HubTypeOK, ServerTypeOK, AgentTypeOK, Manager, serverVars, agentVars
  <1>1. CASE CreateCSR(p)
    <2>1. [req |-> Template(p), conds |-> {}] \in Requested
      BY HubAssumption DEF Requested
    <2>2. csr' \in [CSRs -> Requested \cup {NoCSR}]
      BY <1>1, <2>1, CSRType DEF CreateCSR
    <2> QED
      BY <1>1, <2>2 DEF CreateCSR, Requested
  <1>2. CASE Certify(p)
    BY <1>2 DEF Certify
  <1>3. CASE GiveUp(p)
    <2>1. faults' \in 0 .. MaxFaults
      BY <1>3, FaultType DEF GiveUp
    <2> QED
      BY <1>3, <2>1 DEF GiveUp
  <1> QED
    BY <1>1, <1>2, <1>3 DEF ManagerStep

LEMMA EnvironmentTyped ==
  ASSUME TypeOK, NEW p \in CSRs, Environment(p)
  PROVE  TypeOK'
  <1> USE DEF TypeOK, HubTypeOK, ServerTypeOK, AgentTypeOK, Environment, serverVars, agentVars
  <1>1. CASE Age(p)
    BY <1>1, FaultType DEF Age
  <1>2. CASE Expire(p)
    BY <1>2 DEF Expire
  <1>3. CASE Deny(p)
    <2>1. [csr[p] EXCEPT !.conds = @ \cup {"Denied"}] \in Requested
      BY <1>3 DEF Deny, Hub!Decide, Requested, Conditions
    <2>2. csr' = [csr EXCEPT ![p] = [csr[p] EXCEPT !.conds = @ \cup {"Denied"}]]
      BY <1>3 DEF Deny, Hub!Decide
    <2>3. csr' \in [CSRs -> Requested \cup {NoCSR}]
      BY <2>1, <2>2, CSRType
    <2> QED
      BY <1>3, <2>3, FaultType DEF Deny, Requested
  <1> QED
    BY <1>1, <1>2, <1>3 DEF Environment

LEMMA ApproverTyped ==
  ASSUME TypeOK, NEW p \in CSRs, Approver(p)
  PROVE  TypeOK'
  <1> USE DEF TypeOK, HubTypeOK, ServerTypeOK, AgentTypeOK, Approver, AutoApprove,
              serverVars, agentVars
  <1>1. [csr[p] EXCEPT !.conds = {"AutoApproved"}] \in Requested
    BY DEF Hub!AutoApprove, Requested, Conditions
  <1>2. csr' = [csr EXCEPT ![p] = [csr[p] EXCEPT !.conds = {"AutoApproved"}]]
    BY DEF Hub!AutoApprove
  <1>3. csr' \in [CSRs -> Requested \cup {NoCSR}]
    BY <1>1, <1>2, CSRType
  <1> QED
    BY <1>3 DEF Requested

LEMMA ServerTyped ==
  ASSUME TypeOK, ServerRuns \/ ServerFails
  PROVE  TypeOK'
  <1> USE DEF TypeOK, HubTypeOK, ServerTypeOK, AgentTypeOK, hubVars, serverVars, agentVars
  <1>1. CASE ServerRuns
    <2> USE <1>1 DEF ServerRuns
    <2>1. CASE StartCertManager
      BY <2>1 DEF StartCertManager
    <2>2. CASE GenTLSConfig
      BY <2>2 DEF GenTLSConfig
    <2>3. CASE StartInformers
      BY <2>3 DEF StartInformers
    <2>4. CASE AwaitCertificate
      BY <2>4 DEF AwaitCertificate
    <2>5. ASSUME NEW ports \in SUBSET Ports, NEW failed, Listen(ports, failed)
          PROVE  listening' \subseteq Ports /\ faults' \in 0 .. MaxFaults
      BY <2>5, FaultType DEF Listen
    <2>6. CASE RunReverseProxy
      BY <2>5, <2>6 DEF RunReverseProxy, Ports
    <2>7. CASE RunTunnelServer
      BY <2>5, <2>7 DEF RunTunnelServer, MasterPorts, Ports
    <2> QED
      BY <2>1, <2>2, <2>3, <2>4, <2>6, <2>7 DEF ServerStep
  <1>2. CASE ServerFails
    <2>1. faults' \in 0 .. MaxFaults
      BY <1>2, FaultType DEF ServerFails, ServerExits, ServerCrashes
    <2>2. ServerDies /\ Dropped /\ UNCHANGED <<cloudClientSet, hookProvider, hooks, roots>>
      BY <1>2 DEF ServerFails, ServerExits, ServerCrashes
    <2> QED
      BY <2>1, <2>2 DEF ServerDies, ManagerDies, Dropped
  <1> QED
    BY <1>1, <1>2

LEMMA AgentTyped ==
  ASSUME TypeOK, NEW a \in Agents, AgentRuns(a) \/ AgentFaults(a)
  PROVE  TypeOK'
  <1> USE DEF TypeOK, HubTypeOK, ServerTypeOK, AgentTypeOK, hubVars, serverVars, Agents, Enters
  <1>1. CASE complete(a) /\ UNCHANGED serverVars
    <2>1. /\ roots' \in [Agents -> SUBSET {"client", "tunnel"}]
          /\ faults' \in 0 .. MaxFaults
      BY <1>1, LoadRootsTyped DEF complete
    <2> QED
      BY <1>1, <2>1 DEF complete
  <1>2. ASSUME NEW hook \in {"PreStartTunnelAgent", "PostStartTunnelAgent"}, Execute(a, hook)
        PROVE  hooks' \in [Agents -> SUBSET {"PreStartTunnelAgent", "PostStartTunnelAgent"}]
    BY <1>2 DEF Execute
  <1>3. CASE GetAddress(a) /\ UNCHANGED serverVars
    BY <1>2, <1>3 DEF GetAddress
  <1>4. CASE StartAgentCertManager(a) /\ UNCHANGED serverVars
    BY <1>4 DEF StartAgentCertManager
  <1>5. CASE GenAgentTLSConfig(a) /\ UNCHANGED serverVars
    BY <1>5, LoadRootsTyped DEF GenAgentTLSConfig
  <1>6. CASE RunAgent(a) /\ UNCHANGED serverVars
    BY <1>2, <1>6 DEF RunAgent
  <1>7. CASE Connect(a) /\ UNCHANGED serverVars
    BY <1>7 DEF Connect
  <1>8. CASE Disconnect(a) /\ UNCHANGED serverVars
    BY <1>8, FaultType DEF Disconnect
  <1>9. CASE /\ AgentFails(a) \/ AgentExits(a) \/ AgentCrashes(a)
             /\ UNCHANGED serverVars
    <2>1. faults' \in 0 .. MaxFaults
      BY <1>9, FaultType DEF AgentFails, AgentExits, AgentCrashes
    <2>2. AgentDies(a)
      BY <1>9 DEF AgentFails, AgentExits, AgentCrashes
    <2> QED
      BY <1>9, <2>1, <2>2 DEF AgentDies, ManagerDies
  <1> QED
    BY <1>1, <1>3, <1>4, <1>5, <1>6, <1>7, <1>8, <1>9 DEF AgentRuns, AgentStep, AgentFaults

LEMMA StepTyped == TypeOK /\ [Next]_vars => TypeOK'
  <1> SUFFICES ASSUME TypeOK, [Next]_vars PROVE TypeOK'
    OBVIOUS
  <1>1. CASE UNCHANGED vars
    BY <1>1 DEF vars, hubVars, serverVars, agentVars,
                TypeOK, HubTypeOK, ServerTypeOK, AgentTypeOK
  <1>2. CASE Next
    BY <1>2, ManagerTyped, EnvironmentTyped, ApproverTyped, ServerTyped, AgentTyped DEF Next
  <1> QED
    BY <1>1, <1>2

\* Every state is well typed: the bound on faults holds, and no step leaves the
\* stages and certificates that the code goes through.
THEOREM TypeCorrect == Spec => []TypeOK
  BY InitTyped, StepTyped, PTL DEF Spec

-----------------------------------------------------------------------------
(* The invariant.                                                          *)

LEMMA InitInvariant == Init => StageInv /\ RestInv /\ StepInv
  BY HubAssumption
  DEF Init, HubInit, ServerInit, AgentInit, StageInv, RestInv, StepInv, Agents

\* The steps that touch nothing but the CSR, the manager and the certificate of p.
LEMMA ManagersInvariant ==
  ASSUME IInv, NEW p \in CSRs, Manager(p) \/ Environment(p) \/ Approver(p)
  PROVE  StageInv' /\ RestInv' /\ StepInv'
  <1> USE HubAssumption
      DEF IInv, TypeOK, HubTypeOK, StageInv, RestInv, StepInv, Agents, serverVars, agentVars
  <1>1. CASE Manager(p)
    <2> USE <1>1 DEF Manager, HasClient
    <2>1. CASE CreateCSR(p)
      BY <2>1 DEF CreateCSR
    <2>2. CASE Certify(p)
      BY <2>2 DEF Certify
    <2>3. CASE GiveUp(p)
      BY <2>3 DEF GiveUp
    <2> QED
      BY <2>1, <2>2, <2>3 DEF ManagerStep
  <1>2. CASE Environment(p)
    <2> USE <1>2 DEF Environment
    <2>1. CASE Age(p)
      BY <2>1 DEF Age
    <2>2. CASE Expire(p)
      BY <2>2 DEF Expire
    <2>3. CASE Deny(p)
      BY <2>3 DEF Deny
    <2> QED
      BY <2>1, <2>2, <2>3
  <1>3. CASE Approver(p)
    BY <1>3 DEF Approver, AutoApprove
  <1> QED
    BY <1>1, <1>2, <1>3

LEMMA ServerInvariant ==
  ASSUME IInv, ServerRuns \/ ServerFails
  PROVE  StageInv' /\ RestInv' /\ StepInv'
  <1> USE HubAssumption
      DEF IInv, TypeOK, HubTypeOK, StageInv, RestInv, StepInv, Agents,
          hubVars, serverVars, agentVars
  <1>1. CASE ServerRuns
    <2> USE <1>1 DEF ServerRuns
    <2>1. CASE StartCertManager
      BY <2>1 DEF StartCertManager
    <2>2. CASE GenTLSConfig
      BY <2>2 DEF GenTLSConfig
    <2>3. CASE StartInformers
      BY <2>3 DEF StartInformers
    <2>4. CASE AwaitCertificate
      BY <2>4 DEF AwaitCertificate, Current
    <2>5. CASE RunReverseProxy
      BY <2>5 DEF RunReverseProxy
    <2>6. CASE RunTunnelServer
      BY <2>6 DEF RunTunnelServer
    <2> QED
      BY <2>1, <2>2, <2>3, <2>4, <2>5, <2>6 DEF ServerStep
  <1>2. CASE ServerFails
    <2>1. ServerDies /\ Dropped /\ UNCHANGED <<cloudClientSet, hookProvider, hooks, roots>>
      BY <1>2 DEF ServerFails, ServerExits, ServerCrashes
    <2> QED
      BY <2>1 DEF ServerDies, ManagerDies, Dropped
  <1> QED
    BY <1>1, <1>2

LEMMA AgentInvariant ==
  ASSUME IInv, NEW a \in Agents, AgentRuns(a) \/ AgentFaults(a)
  PROVE  StageInv' /\ RestInv' /\ StepInv'
  <1> USE HubAssumption
      DEF IInv, TypeOK, HubTypeOK, AgentTypeOK, StageInv, RestInv, StepInv, Agents,
          hubVars, serverVars, Enters
  <1>1. CASE complete(a) /\ UNCHANGED serverVars
    <2>1. \A b \in Agents : roots[b] \subseteq roots'[b]
      BY <1>1, LoadRootsTyped DEF complete
    <2> QED
      BY <1>1, <2>1 DEF complete
  <1>2. CASE GetAddress(a) /\ UNCHANGED serverVars
    BY <1>2 DEF GetAddress, NeedsAPI, ClientWorks
  <1>3. CASE StartAgentCertManager(a) /\ UNCHANGED serverVars
    BY <1>3 DEF StartAgentCertManager
  <1>4. CASE GenAgentTLSConfig(a) /\ UNCHANGED serverVars
    <2>1. \A b \in Agents : roots[b] \subseteq roots'[b]
      BY <1>4, LoadRootsTyped DEF GenAgentTLSConfig
    <2> QED
      BY <1>4, <2>1 DEF GenAgentTLSConfig
  <1>5. CASE RunAgent(a) /\ UNCHANGED serverVars
    BY <1>5 DEF RunAgent, Current
  <1>6. CASE Connect(a) /\ UNCHANGED serverVars
    BY <1>6 DEF Connect
  <1>7. CASE Disconnect(a) /\ UNCHANGED serverVars
    BY <1>7 DEF Disconnect
  <1>8. CASE /\ AgentFails(a) \/ AgentExits(a) \/ AgentCrashes(a)
             /\ UNCHANGED serverVars
    <2>1. AgentDies(a)
      BY <1>8 DEF AgentFails, AgentExits, AgentCrashes
    <2> QED
      BY <1>8, <2>1 DEF AgentDies, ManagerDies
  <1> QED
    BY <1>1, <1>2, <1>3, <1>4, <1>5, <1>6, <1>7, <1>8 DEF AgentRuns, AgentStep, AgentFaults

LEMMA StepInvariant == IInv /\ [Next]_vars => IInv'
  <1> SUFFICES ASSUME IInv, [Next]_vars PROVE IInv'
    OBVIOUS
  <1>1. TypeOK'
    BY StepTyped DEF IInv
  <1>2. CASE UNCHANGED vars
    BY <1>1, <1>2 DEF vars, hubVars, serverVars, agentVars, IInv, StageInv, RestInv, StepInv
  <1>3. CASE Next
    BY <1>1, <1>3, ManagersInvariant, ServerInvariant, AgentInvariant DEF Next, IInv
  <1> QED
    BY <1>2, <1>3

\* The stages of the server and the steps of the agents are what IInv says of
\* them, through all restarts, rotations and faults.
THEOREM Invariance == Spec => []IInv
  <1>1. Init => IInv
    BY InitTyped, InitInvariant DEF IInv
  <1> QED
    BY <1>1, StepInvariant, PTL DEF Spec

-----------------------------------------------------------------------------
(* What follows from it.                                                   *)

LEMMA Waits == IInv => NoFutileWait
  <1> SUFFICES ASSUME IInv PROVE NoFutileWait
    OBVIOUS
  <1>1. ASSUME NEW p \in CSRs, manager[p] # "off", ~ Current(p)
        PROVE  manager[p] \in {"rotating", "waiting"}
    BY <1>1 DEF IInv, TypeOK, HubTypeOK, RestInv, Current
  <1> QED
    BY <1>1, HubAssumption DEF IInv, StageInv, StepInv, NoFutileWait, Agents

\* Whoever waits for a certificate has a manager that works on one, and a
\* server that waits runs the approver it waits for.
THEOREM NobodyWaitsInVain == Spec => []NoFutileWait
  BY Invariance, Waits, PTL

\* The server opens its ports only after it got a certificate.
THEOREM PortsOpenCertified == Spec => []PortsCertified
  <1>1. IInv => PortsCertified
    BY DEF IInv, StageInv, PortsCertified
  <1> QED
    BY <1>1, Invariance, PTL

LEMMA StepKeepsConnections ==
  ASSUME IInv, Next, NEW a \in Agents, agent[a] = "connected", agent'[a] # "connected"
  PROVE  faults' = faults + 1
  <1> USE DEF IInv, TypeOK, HubTypeOK, AgentTypeOK, hubVars, serverVars, agentVars
  <1>1. ASSUME NEW p \in CSRs, Manager(p) \/ Environment(p) \/ Approver(p) PROVE FALSE
    BY <1>1 DEF Manager, Environment, Approver
  <1>2. CASE ServerRuns
    BY <1>2 DEF ServerRuns
  <1>3. CASE ServerFails
    BY <1>3 DEF ServerFails, ServerExits, ServerCrashes, Fault
  <1>4. ASSUME NEW b \in Agents, AgentRuns(b), ~ AgentFails(b)
        PROVE  FALSE
    BY <1>4 DEF AgentRuns, AgentStep, complete, GetAddress, StartAgentCertManager,
                GenAgentTLSConfig, RunAgent, Connect, Enters
  <1>5. ASSUME NEW b \in Agents, AgentFails(b)
        PROVE  FALSE
    <2>1. b = a
      BY <1>5 DEF AgentFails, AgentDies
    <2>2. agent[a] # "address" /\ cloudClientSet[a]
      BY DEF StepInv
    <2> QED
      BY <1>5, <2>1, <2>2 DEF AgentFails
  <1>6. ASSUME NEW b \in Agents, AgentFaults(b)
        PROVE  faults' = faults + 1
    BY <1>6 DEF AgentFaults, AgentExits, AgentCrashes, Disconnect, Fault
  <1> QED
    BY <1>1, <1>2, <1>3, <1>4, <1>5, <1>6 DEF Next

\* Rotations and expired certificates cost no connection: the loss of one is
\* always a fault, of the agent, the server or the network between them.
THEOREM ConnectionsKept == Spec => RotationKeepsConnections
  <1>1. ASSUME IInv, [Next]_vars
        PROVE  [\A a \in Agents :
                  agent[a] = "connected" /\ agent'[a] # "connected" => faults' = faults + 1]_vars
    BY <1>1, StepKeepsConnections
  <1> QED
    BY <1>1, Invariance, PTL DEF Spec, RotationKeepsConnections

-----------------------------------------------------------------------------
(* The promise.                                                            *)

\* Nothing of a step is to be seen that keeps who has a certificate, who is
\* connected, and whether the agents' port is open.
LEMMA Unseen ==
  ASSUME \A p \in CSRs : cert'[p] = "none" <=> cert[p] = "none",
         \A a \in Agents : agent'[a] = "connected" <=> agent[a] = "connected",
         "agents" \in listening' <=> "agents" \in listening
  PROVE  UNCHANGED Promise!vars
  <1>1. ServerSeen' = ServerSeen
    BY HubAssumption DEF ServerSeen
  <1>2. StatusSeen' = StatusSeen
    BY DEF StatusSeen, Agents
  <1> QED
    BY <1>1, <1>2 DEF Promise!vars

\* A step that concerns a single agent.
LEMMA OneSeen ==
  ASSUME NEW a \in Agents,
         UNCHANGED listening, cert'[Server] = cert[Server],
         \A b \in Agents \ {a} : agent'[b] = agent[b] /\ cert'[b] = cert[b]
  PROVE  /\ ServerSeen' = ServerSeen
         /\ StatusSeen' = [StatusSeen EXCEPT ![a] = StatusSeen'[a]]
  BY DEF ServerSeen, StatusSeen

LEMMA ManagersSeen ==
  ASSUME IInv, NEW p \in CSRs, Manager(p) \/ Environment(p) \/ Approver(p)
  PROVE  [Promise!Next]_(Promise!vars)
  <1> USE HubAssumption
      DEF IInv, TypeOK, HubTypeOK, AgentTypeOK, StageInv, StepInv, serverVars, agentVars
  <1>1. CASE Certify(p) /\ cert[p] = "none"
    <2>1. /\ cert' = [cert EXCEPT ![p] = "fresh"]
          /\ UNCHANGED <<listening, agent>>
      BY <1>1 DEF Certify, Manager, Environment, Approver, AutoApprove, Age, Expire, Deny
    <2>2. CASE p = Server
      <3>1. ServerSeen = "unknown" /\ ServerSeen' = "certified"
        BY <1>1, <2>1, <2>2 DEF ServerSeen
      <3>2. StatusSeen' = StatusSeen
        BY <2>1, <2>2 DEF StatusSeen, Agents
      <3> QED
        BY <3>1, <3>2 DEF Promise!Next, Promise!CertifyServer
    <2>3. CASE p # Server
      <3>1. p \in Agents /\ agent[p] # "connected"
        BY <1>1, <2>3 DEF Agents
      <3>2. StatusSeen[p] = "unknown" /\ StatusSeen'[p] = "certified"
        BY <1>1, <2>1, <3>1 DEF StatusSeen
      <3>3. Promise!Certify(p)
        BY <2>1, <2>3, <3>1, <3>2, OneSeen DEF Promise!Certify, Promise!Becomes
      <3> QED
        BY <3>1, <3>3 DEF Promise!Next
    <2> QED
      BY <2>2, <2>3
  <1>2. CASE ~ (Certify(p) /\ cert[p] = "none")
    <2>1. UNCHANGED <<listening, agent>>
      BY DEF Manager, ManagerStep, Environment, Approver, AutoApprove,
             CreateCSR, Certify, GiveUp, Age, Expire, Deny
    <2>2. \A q \in CSRs : cert'[q] = "none" <=> cert[q] = "none"
      <3>1. CASE Manager(p)
        BY <1>2, <3>1 DEF Manager, ManagerStep, CreateCSR, Certify, GiveUp
      <3>2. CASE Environment(p)
        BY <3>2 DEF Environment, Age, Expire, Deny
      <3>3. CASE Approver(p)
        BY <3>3 DEF Approver, AutoApprove
      <3> QED
        BY <3>1, <3>2, <3>3
    <2> QED
      BY <2>1, <2>2, Unseen
  <1> QED
    BY <1>1, <1>2

LEMMA ServerStepsSeen ==
  ASSUME IInv, ServerRuns \/ ServerFails
  PROVE  [Promise!Next]_(Promise!vars)
  <1> USE HubAssumption
      DEF IInv, TypeOK, HubTypeOK, AgentTypeOK, StageInv, StepInv,
          hubVars, serverVars, agentVars
  <1>1. CASE RunTunnelServer /\ UNCHANGED agentVars
    <2>1. "agents" \in listening' /\ UNCHANGED <<cert, agent>>
      BY <1>1 DEF RunTunnelServer, Listen, MasterPorts
    <2>2. ServerSeen' = "open" /\ StatusSeen' = StatusSeen
      BY <2>1 DEF ServerSeen, StatusSeen
    <2>3. ServerSeen \in {"certified", "open"}
      BY <1>1 DEF RunTunnelServer, ServerSeen
    <2> QED
      BY <2>2, <2>3 DEF Promise!Next, Promise!Open, Promise!vars
  <1>2. CASE ServerRuns /\ ~ RunTunnelServer
    <2>1. UNCHANGED <<cert, agent>>
      BY <1>2 DEF ServerRuns, ServerStep, StartCertManager, GenTLSConfig, StartInformers,
                  AwaitCertificate, RunReverseProxy
    <2>2. "agents" \in listening' <=> "agents" \in listening
      BY <1>2 DEF ServerRuns, ServerStep, StartCertManager, GenTLSConfig, StartInformers,
                  AwaitCertificate, RunReverseProxy, Listen
    <2> QED
      BY <2>1, <2>2, Unseen
  <1>3. CASE ServerFails
    <2>1. /\ listening' = {} /\ Dropped
          /\ cert' = [cert EXCEPT ![Server] = "none"]
      BY <1>3 DEF ServerFails, ServerExits, ServerCrashes, ServerDies, ManagerDies
    <2>2. ServerSeen' = "unknown"
      BY <2>1 DEF ServerSeen
    <2>3. \A a \in Agents :
            StatusSeen'[a] = IF StatusSeen[a] = "connected" THEN "certified" ELSE StatusSeen[a]
      <3>1. \A a \in Agents : cert'[a] = cert[a]
        BY <2>1 DEF Agents
      <3>2. \A a \in Agents : agent'[a] = IF agent[a] = "connected" THEN "dialing" ELSE agent[a]
        BY <2>1 DEF Dropped
      <3>3. \A a \in Agents : agent[a] = "connected" => cert[a] # "none"
        OBVIOUS
      <3> QED
        BY ONLY <3>1, <3>2, <3>3 DEF StatusSeen
    <2>4. StatusSeen' = [a \in Agents |-> IF StatusSeen[a] = "connected" THEN "certified"
                                          ELSE StatusSeen[a]]
      BY <2>3 DEF StatusSeen
    <2> QED
      BY <2>2, <2>4 DEF Promise!Next, Promise!Close
  <1> QED
    BY <1>1, <1>2, <1>3 DEF ServerRuns

LEMMA AgentStepsSeen ==
  ASSUME IInv, NEW a \in Agents, AgentRuns(a) \/ AgentFaults(a)
  PROVE  [Promise!Next]_(Promise!vars)
  <1> USE HubAssumption
      DEF IInv, TypeOK, HubTypeOK, AgentTypeOK, StepInv, Agents, hubVars, serverVars, Enters
  <1>1. CASE Connect(a)
    <2>1. ServerSeen = "open"
      BY <1>1 DEF Connect, Handshake, ServerSeen
    <2>2. StatusSeen[a] = "certified" /\ StatusSeen'[a] = "connected"
      BY <1>1 DEF Connect, StatusSeen
    <2>3. Promise!Connect(a)
      BY <1>1, <2>1, <2>2, OneSeen DEF Connect, Promise!Connect, Promise!Becomes
    <2> QED
      BY <2>3 DEF Promise!Next
  <1>2. CASE Disconnect(a)
    <2>1. StatusSeen[a] = "connected" /\ StatusSeen'[a] = "certified"
      BY <1>2 DEF Disconnect, StatusSeen
    <2>2. Promise!Break(a)
      BY <1>2, <2>1, OneSeen DEF Disconnect, Promise!Break, Promise!Becomes
    <2> QED
      BY <2>2 DEF Promise!Next
  <1>3. CASE AgentFails(a) \/ AgentExits(a) \/ AgentCrashes(a)
    <2>1. AgentDies(a)
      BY <1>3 DEF AgentFails, AgentExits, AgentCrashes
    <2>2. StatusSeen'[a] = "unknown"
      BY <2>1 DEF AgentDies, ManagerDies, StatusSeen
    <2>3. Promise!Leave(a)
      BY <2>1, <2>2, OneSeen DEF AgentDies, ManagerDies, Promise!Leave
    <2> QED
      BY <2>3 DEF Promise!Next
  <1>4. CASE \/ complete(a) \/ GetAddress(a) \/ StartAgentCertManager(a)
             \/ GenAgentTLSConfig(a) \/ RunAgent(a)
    <2>1. UNCHANGED <<cert, listening>>
      BY <1>4 DEF complete, GetAddress, StartAgentCertManager, GenAgentTLSConfig, RunAgent
    <2>2. \A b \in Agents : agent'[b] = "connected" <=> agent[b] = "connected"
      BY <1>4 DEF complete, GetAddress, StartAgentCertManager, GenAgentTLSConfig, RunAgent
    <2> QED
      BY <2>1, <2>2, Unseen
  <1> QED
    BY <1>1, <1>2, <1>3, <1>4 DEF AgentRuns, AgentStep, AgentFaults

LEMMA StepSeen == IInv /\ [Next]_vars => [Promise!Next]_(Promise!vars)
  <1> SUFFICES ASSUME IInv, [Next]_vars PROVE [Promise!Next]_(Promise!vars)
    OBVIOUS
  <1>1. CASE UNCHANGED vars
    BY <1>1, Unseen DEF vars, hubVars, agentVars
  <1>2. CASE Next
    BY <1>2, ManagersSeen, ServerStepsSeen, AgentStepsSeen DEF Next
  <1> QED
    BY <1>1, <1>2

\* Server and agents, with all that they depend on each other for, implement
\* Registration: whatever is open or connected has had a certificate, connections
\* end with the server, and renewals are not to be seen.
THEOREM Refinement == Spec => ImplementsRegistration
  <1>1. Init => Promise!Init
    BY HubAssumption
    DEF Init, HubInit, AgentInit, Promise!Init, ServerSeen, StatusSeen, Agents
  <1> QED
    BY <1>1, Invariance, StepSeen, PTL DEF Spec, ImplementsRegistration, Promise!Spec
=============================================================================
