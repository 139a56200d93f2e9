------------------------- MODULE TKEStackHookProofs -------------------------
(***************************************************************************)
(* Proofs about TKEStackHook, for any number of clients, clusters,         *)
(* credentials, tokens and faults: no cluster's token gets into another's  *)
(* credential, and a hook that is done has written its token.              *)
(*                                                                         *)
(* The invariant follows a request through the proxy: what it was made     *)
(* from, what its result says, and that none left behind could do harm.    *)
(***************************************************************************)
EXTENDS TKEStackHook, MinLemmas

\* Name n was a's cluster's when a learned it, and is nobody else's since.
Owns(a, n) ==
  /\ n \in Names /\ credentials[n].exists # "never"
  /\ Existing(n) => credentials[n].cluster = a

\* The patch of a was executed and, if undone, by a request left behind.
Written(a) ==
  Existing(item[a]) => credentials[item[a]].token = value[a] \/ item[a] \in late

Pending(c) == call[c].at \in {"sent", "forwarded", "executed"}
Known(c) == call[c].at \in {"executed", "answered"} /\ call[c].result.ok

ResultTyped(res) == res.ok \in BOOLEAN /\ res.items \subseteq Names

ProxyTyped == serving \in BOOLEAN /\ faults \in 0 .. MaxFaults

\* What types leave open: calls and tokens are what they seem.
CallsTyped ==
  /\ call = [c \in Clients |-> Call(call[c].at, call[c].req, call[c].result)]
  /\ \A c \in Clients : ResultTyped(call[c].result)

TokensTyped ==
  /\ value = [a \in Agents |-> Token(a, value[a].number)]
  /\ tokenFile = [a \in Agents |-> Token(a, tokenFile[a].number)]

Credential(n) ==
  [exists |-> credentials[n].exists, cluster |-> credentials[n].cluster,
   token |-> credentials[n].token]

\* What is in a credential that is not there is as if it never had been.
CredentialsInv ==
  /\ credentials = [n \in Names |-> Credential(n)]
  /\ \A n \in Names : ~ Existing(n) => credentials[n].token = NoToken
  /\ OwnTokensOnly

HookInv(a) ==
  /\ hook[a] \in {"list", "read", "patch", "done"} => At(a, "none")
  /\ hook[a] \in {"read", "patch", "patching", "done"} => Owns(a, item[a])
  /\ hook[a] = "listing" /\ Pending(a) => call[a].req = ListRequest(a)
  /\ hook[a] = "listing" /\ Known(a) => \A n \in call[a].result.items : Owns(a, n)
  /\ hook[a] = "patching" /\ Pending(a) => call[a].req = PatchRequest(item[a], value[a])
  /\ hook[a] = "patching" /\ Known(a) => Written(a)
  /\ hook[a] = "done" => Written(a)

\* Of the other clients nobody touches credentials.
OthersInv == \A c \in Clients \ Agents : Pending(c) => call[c].req \in Calls

\* A request left behind is a patch, with a token of the agent that sent it.
Harmless(r) ==
  /\ r.path = Path /\ r.method = "PATCH"
  /\ \E a \in Agents : Owns(a, r.name) /\ r.token.cluster = a

OrphansInv == \A r \in orphans : Harmless(r)

IInv ==
  /\ TypeOK /\ CallsTyped /\ TokensTyped /\ CredentialsInv
  /\ \A a \in Agents : HookInv(a)
  /\ OthersInv /\ OrphansInv

-----------------------------------------------------------------------------
\* What a has learned of a name stays so, whatever becomes of the credential.
Kept(n) ==
  credentials[n].exists # "never" =>
    /\ credentials'[n].exists # "never"
    /\ credentials'[n].exists = "now" =>
         Existing(n) /\ credentials'[n].cluster = credentials[n].cluster

LEMMA OwnsKept ==
  ASSUME NEW a, NEW n, Owns(a, n), Kept(n)
  PROVE  Owns(a, n)'
  BY DEF Owns, Kept, Existing

\* The hook of an agent that takes no part in a step stays as it is.
LEMMA Bystander ==
  ASSUME NEW a \in Agents, HookInv(a), \A n \in Names : Kept(n),
         UNCHANGED <<hook[a], item[a], value[a], call[a]>>,
         Written(a) /\ Owns(a, item[a]) => Written(a)'
  PROVE  HookInv(a)'
<1>1. \A n \in Names : Owns(a, n) => Owns(a, n)'
  BY OwnsKept
<1>2. Owns(a, item[a]) => Owns(a, item[a])'
  BY <1>1 DEF Owns
<1>3. (\A n \in call[a].result.items : Owns(a, n)) => (\A n \in call[a].result.items : Owns(a, n))'
  BY <1>1 DEF Owns
<1>4. At(a, "none")' = At(a, "none") /\ Pending(a)' = Pending(a) /\ Known(a)' = Known(a)
  BY DEF At, Pending, Known
<1>5. /\ ListRequest(a)' = ListRequest(a)
      /\ PatchRequest(item[a], value[a])' = PatchRequest(item[a], value[a])
  BY DEF ListRequest, PatchRequest
<1> QED
  BY <1>2, <1>3, <1>4, <1>5 DEF HookInv

\* The first credential found is one of those found.
LEMMA FirstFound ==
  ASSUME NEW S \in SUBSET Names, S # {}
  PROVE  Min(S) \in S
  BY MinIsLeast, HookAssumption

\* In the beginning nobody calls, and there are no credentials.
LEMMA InitIInv == Init => IInv
<1> SUFFICES ASSUME Init PROVE IInv
  OBVIOUS
<1> USE HookAssumption, FaultsAssumption DEF Init, ProxyInit
<1>1. TypeOK
  BY DEF TypeOK, NoCall, Call, Token, Absent
<1>2. CallsTyped /\ OthersInv /\ OrphansInv
  BY DEF CallsTyped, ResultTyped, OthersInv, OrphansInv, NoCall, Call, Failed, Pending
<1>3. TokensTyped
  BY DEF TokensTyped, Token
<1>4. CredentialsInv
  BY DEF CredentialsInv, Credential, Absent, Existing, OwnTokensOnly
<1>5. \A a \in Agents : HookInv(a)
  BY DEF HookInv, At, Pending, Known, NoCall, Call
<1> QED
  BY <1>1, <1>2, <1>3, <1>4, <1>5 DEF IInv

\* What clients leave behind is harmless.
LEMMA LeftIsHarmless ==
  ASSUME IInv, NEW S \in SUBSET Clients, LeftBehind(S)
  PROVE  \A r \in orphans' : Harmless(r)
<1> SUFFICES ASSUME NEW c \in S, At(c, "forwarded"), call[c].req.method = "PATCH"
             PROVE  Harmless(call[c].req)
  BY DEF LeftBehind, IInv, OrphansInv
<1>1. c \in Agents /\ hook[c] \in {"listing", "patching"}
  BY DEF IInv, OthersInv, Pending, At, Calls, HookInv, TypeOK
<1>2. HookInv(c) /\ Pending(c)
  BY <1>1 DEF IInv, Pending, At
<1>3. hook[c] # "listing"
  BY <1>2 DEF HookInv, ListRequest
<1>4. call[c].req = PatchRequest(item[c], value[c]) /\ Owns(c, item[c])
  BY <1>1, <1>2, <1>3 DEF HookInv
<1>5. value[c].cluster = c
  BY <1>1 DEF IInv, TypeOK
<1> QED
  BY <1>1, <1>4, <1>5 DEF Harmless, PatchRequest

\* They stay so as long as names are kept.
LEMMA HarmlessKept ==
  ASSUME NEW r, Harmless(r), \A n \in Names : Kept(n)
  PROVE  Harmless(r)'
  BY OwnsKept DEF Harmless, Owns

\* A step that leaves credentials alone keeps names, and what was written.
LEMMA NothingWritten ==
  ASSUME UNCHANGED credentials
  PROVE  \A n \in Names : Kept(n)
  BY DEF Kept, Existing

\* A step of the proxy, with regard to what a call becomes: if that is right for
\* its client, the step keeps the invariant.
LEMMA CallStep ==
  ASSUME IInv, NEW c \in Clients, NEW at, NEW req, NEW result,
         call' = [call EXCEPT ![c] = Call(at, req, result)],
         at \in {"none", "sent", "forwarded", "executed", "answered"},
         ResultTyped(result),
         UNCHANGED hookVars,
         ProxyTyped', \A r \in orphans' : Harmless(r),
         c \in Agents => HookInv(c)',
         c \notin Agents /\ at \in {"sent", "forwarded", "executed"} => req \in Calls
  PROVE  IInv'
<1> USE HookAssumption
<1>1. /\ \A b \in Clients : b # c => call'[b] = call[b]
      /\ call'[c] = Call(at, req, result)
      /\ call' = [b \in Clients |-> call'[b]]
  BY DEF IInv, CallsTyped
<1>2. \A n \in Names : Kept(n)
  BY NothingWritten DEF hookVars
<1>3. TypeOK'
  BY <1>1 DEF IInv, TypeOK, ProxyTyped, Call, hookVars
<1>4. CallsTyped'
  BY <1>1 DEF IInv, CallsTyped, Call
<1>5. TokensTyped' /\ CredentialsInv'
  BY DEF IInv, TokensTyped, CredentialsInv, Credential, Existing, OwnTokensOnly, hookVars
<1>6. ASSUME NEW b \in Agents PROVE HookInv(b)'
  <2>1. CASE b = c
    BY <2>1
  <2>2. CASE b # c
    BY <1>1, <1>2, <2>2, Bystander DEF IInv, hookVars, Written, Existing
  <2> QED
    BY <2>1, <2>2
<1>7. OthersInv'
  BY <1>1 DEF IInv, OthersInv, Pending, Call, Calls
<1>8. OrphansInv'
  BY <1>2, HarmlessKept DEF OrphansInv
<1> QED
  BY <1>3, <1>4, <1>5, <1>6, <1>7, <1>8 DEF IInv

\* What Route does with the requests of the hook: they go to the API server.
LEMMA HookRoute ==
  ASSUME IInv, NEW a \in Agents, Pending(a)
  PROVE  Route(call[a].req) = "apiserver"
<1>1. call[a].req = ListRequest(a) \/ call[a].req = PatchRequest(item[a], value[a])
  BY DEF IInv, TypeOK, HookInv, Pending, At
<1>2. Route(ListRequest(a)) = "apiserver"
  BY DEF ListRequest, Path, Route
<1>3. Route(PatchRequest(item[a], value[a])) = "apiserver"
  BY DEF PatchRequest, Path, Route
<1> QED
  BY <1>1, <1>2, <1>3

\* The proxy's own variables and what was left behind before.
LEMMA ProxyUnchanged ==
  ASSUME IInv, UNCHANGED <<serving, orphans>>, faults' \in 0 .. MaxFaults
  PROVE  ProxyTyped' /\ \A r \in orphans' : Harmless(r)
  BY DEF IInv, TypeOK, ProxyTyped, OrphansInv

\* An answer that is an error tells its client nothing.
LEMMA ResultsTyped == ResultTyped(Failed) /\ ResultTyped(Succeeded({})) /\ ~ Failed.ok
  BY DEF ResultTyped, Failed, Succeeded

\* The call of c is answered, the result of it is right for c if it is an agent.
LEMMA AnswerIInv ==
  ASSUME IInv, NEW c \in Clients, NEW res, Answer(c, res), ResultTyped(res),
         UNCHANGED hookVars, ProxyTyped', \A r \in orphans' : Harmless(r), Pending(c),
         c \in Agents => ~ res.ok \/ (Known(c) /\ res = call[c].result)
  PROVE  IInv'
<1>1. call' = [call EXCEPT ![c] = Call("answered", NoRequest, res)]
  BY DEF Answer, Answered
<1>2. call'[c] = Call("answered", NoRequest, res)
  BY <1>1 DEF IInv, CallsTyped
<1>3. ASSUME c \in Agents PROVE HookInv(c)'
  <2>1. HookInv(c) /\ hook[c] \in {"listing", "patching"}
    BY <1>3 DEF IInv, TypeOK, HookInv, At, Pending
  <2>2. res.ok => Known(c) /\ res = call[c].result
    BY <1>3, ResultsTyped
  <2>3. /\ ~ Pending(c)' /\ (Known(c)' <=> res.ok) /\ call'[c].result = res
    BY <1>2, ResultsTyped DEF Call, Pending, Known, ResultTyped
  <2> QED
    BY <2>1, <2>2, <2>3 DEF HookInv, Written, Owns, Existing, hookVars
<1> QED
  BY ONLY <1>1, <1>3, CallStep, IInv, c \in Clients, ResultTyped(res), UNCHANGED hookVars,
     ProxyTyped', \A r \in orphans' : Harmless(r)

\* No agent asks for the health of the server.
LEMMA HealthzIInv == ASSUME IInv, NEW c \in Clients, healthz(c), UNCHANGED hookVars PROVE IInv'
<1>1. UNCHANGED <<serving, orphans, faults>> /\ Answer(c, Succeeded({})) /\ Pending(c)
  BY DEF healthz, At, Pending
<1>2. c \notin Agents
  BY <1>1, HookRoute DEF healthz
<1>3. faults' \in 0 .. MaxFaults
  BY <1>1 DEF IInv, TypeOK
<1> QED
  BY <1>1, <1>2, <1>3, AnswerIInv, ResultsTyped, ProxyUnchanged

\* A request is forwarded as it is.
LEMMA ForwardIInv == ASSUME IInv, NEW c \in Clients, Forward(c), UNCHANGED hookVars PROVE IInv'
<1>1. UNCHANGED <<serving, orphans, faults>> /\ At(c, "sent")
  BY DEF Forward, Moves
<1>2. call' = [call EXCEPT ![c] = Call("forwarded", call[c].req, call[c].result)]
  BY DEF Forward, Moves
<1>3. call'[c] = Call("forwarded", call[c].req, call[c].result)
  BY <1>2 DEF IInv, CallsTyped
<1>4. ASSUME c \in Agents PROVE HookInv(c)'
  <2>1. Pending(c) /\ ~ Known(c)' /\ call'[c].req = call[c].req /\ HookInv(c)
    BY <1>1, <1>3, <1>4 DEF IInv, Call, Pending, Known, At
  <2>2. hook[c] \notin {"list", "read", "patch", "done"}
    BY <2>1 DEF HookInv, At, Pending
  <2> QED
    BY <2>1, <2>2 DEF HookInv, Owns, Existing, hookVars, ListRequest, PatchRequest
<1>5. c \notin Agents => call[c].req \in Calls
  BY <1>1 DEF IInv, OthersInv, At, Pending
<1>6. ResultTyped(call[c].result) /\ faults' \in 0 .. MaxFaults
  BY <1>1 DEF IInv, CallsTyped, TypeOK
<1>7. ProxyTyped' /\ \A r \in orphans' : Harmless(r)
  BY <1>1, <1>6, ProxyUnchanged
<1> QED
  BY ONLY <1>2, <1>4, <1>5, <1>6, <1>7, CallStep, IInv, c \in Clients, UNCHANGED hookVars

\* A fault is counted up to its bound.
LEMMA FaultTyped == IInv /\ Fault => faults' \in 0 .. MaxFaults
  BY FaultsAssumption DEF IInv, TypeOK, Fault

\* The answer is what the backend said.
LEMMA ReplyIInv == ASSUME IInv, NEW c \in Clients, Reply(c), UNCHANGED hookVars PROVE IInv'
<1>1. UNCHANGED <<serving, orphans, faults>> /\ Answer(c, call[c].result) /\ At(c, "executed")
  BY DEF Reply
<1>2. ProxyTyped' /\ \A r \in orphans' : Harmless(r)
  BY DEF Reply, IInv, TypeOK, ProxyTyped, OrphansInv
<1>3. ResultTyped(call[c].result)
  BY DEF IInv, CallsTyped
<1>4. Pending(c) /\ (Known(c) \/ ~ call[c].result.ok)
  BY <1>1 DEF At, Pending, Known
<1> QED
  BY <1>1, <1>2, <1>3, <1>4, AnswerIInv

\* A call that fails leaves its patch behind, at most.
LEMMA FailsIInv ==
  ASSUME IInv, NEW c \in Clients, DialFails(c) \/ UpstreamBreaks(c), UNCHANGED hookVars
  PROVE  IInv'
<1>1. Answer(c, Failed) /\ Fault /\ UNCHANGED serving
  BY DEF DialFails, UpstreamBreaks
<1>2. Pending(c)
  BY DEF DialFails, UpstreamBreaks, At, Pending
<1>3. \A r \in orphans' : Harmless(r)
  BY LeftIsHarmless DEF DialFails, UpstreamBreaks, IInv, OrphansInv
<1>4. ProxyTyped'
  BY <1>1, FaultTyped DEF IInv, TypeOK, ProxyTyped
<1> QED
  BY <1>1, <1>2, <1>3, <1>4, AnswerIInv, ResultsTyped

\* Steps of the proxy that have no client.
LEMMA NoCallStep ==
  ASSUME IInv, UNCHANGED <<call, orphans, hookVars>>, ProxyTyped'
  PROVE  IInv'
<1>1. TypeOK' /\ CallsTyped' /\ TokensTyped' /\ CredentialsInv'
  BY DEF IInv, TypeOK, ProxyTyped, CallsTyped, TokensTyped, CredentialsInv, Credential,
         Existing, OwnTokensOnly, hookVars
<1>2. \A n \in Names : Kept(n)
  BY NothingWritten DEF hookVars
<1>3. \A a \in Agents : HookInv(a)'
  BY <1>2, Bystander DEF IInv, hookVars, Written, Existing
<1>4. OthersInv' /\ OrphansInv'
  BY <1>2, HarmlessKept DEF IInv, OthersInv, OrphansInv, Pending
<1> QED
  BY <1>1, <1>3, <1>4 DEF IInv

\* The server's death fails every call; what it leaves behind is harmless.
LEMMA ServerDiesIInv == ASSUME IInv, ServerDies, UNCHANGED hookVars PROVE IInv'
<1> USE HookAssumption
<1>1. /\ \A c \in Clients : call'[c] = IF At(c, "none") \/ At(c, "answered") THEN call[c]
                                       ELSE Answered(Failed)
      /\ call' = [c \in Clients |-> call'[c]]
  BY DEF ServerDies
<1>2. \A n \in Names : Kept(n)
  BY NothingWritten DEF hookVars
<1>3. serving' \in BOOLEAN /\ faults' \in 0 .. MaxFaults
  BY FaultTyped DEF ServerDies
<1>4. TypeOK'
  BY <1>1, <1>3 DEF IInv, TypeOK, Answered, Call, At, hookVars
<1>5. CallsTyped'
  <2> SUFFICES ASSUME NEW c \in Clients
               PROVE  /\ call'[c] = Call(call'[c].at, call'[c].req, call'[c].result)
                      /\ ResultTyped(call'[c].result)
    BY <1>1 DEF CallsTyped, ResultTyped
  <2>1. call[c] = Call(call[c].at, call[c].req, call[c].result) /\ ResultTyped(call[c].result)
    BY DEF IInv, CallsTyped
  <2> QED
    BY <1>1, <2>1, ResultsTyped DEF Answered, Call
<1>6. TokensTyped' /\ CredentialsInv'
  BY DEF IInv, TokensTyped, CredentialsInv, Credential, Existing, OwnTokensOnly, hookVars
<1>7. ASSUME NEW a \in Agents PROVE HookInv(a)'
  <2>1. CASE call'[a] = call[a]
    BY <1>2, <2>1, Bystander DEF IInv, hookVars, Written, Existing
  <2>2. CASE call'[a] # call[a]
    <3>1. Pending(a) /\ call'[a] = Call("answered", NoRequest, Failed)
      BY <1>1, <2>2 DEF IInv, TypeOK, At, Pending, Answered
    <3>2. ~ Pending(a)' /\ ~ Known(a)'
      BY <3>1, ResultsTyped DEF Call, Pending, Known
    <3>3. HookInv(a) /\ hook[a] \in {"listing", "patching"}
      BY <3>1 DEF IInv, TypeOK, HookInv, At, Pending
    <3> QED
      BY <3>2, <3>3 DEF HookInv, Owns, Existing, hookVars
  <2> QED
    BY <2>1, <2>2
<1>8. OthersInv'
  BY <1>1 DEF IInv, OthersInv, Pending, Answered, Call, At, Calls
<1>9. OrphansInv'
  BY <1>2, HarmlessKept, LeftIsHarmless DEF ServerDies, OrphansInv
<1> QED
  BY <1>4, <1>5, <1>6, <1>7, <1>8, <1>9 DEF IInv

-----------------------------------------------------------------------------
(* The API server.                                                         *)

\* The token of a credential that is there is replaced.
Replaces(n, t) == Existing(n) /\ credentials' = [credentials EXCEPT ![n].token = t]

\* A token that is written to a credential of its own cluster disturbs nothing.
LEMMA WriteOwn ==
  ASSUME CredentialsInv, NEW a \in Agents, NEW n, NEW t, t.cluster = a, Owns(a, n), Replaces(n, t)
  PROVE  /\ CredentialsInv' /\ \A m \in Names : Kept(m) /\ Existing(m)' = Existing(m)
         /\ credentials'[n].token = t /\ \A m \in Names : m # n => credentials'[m] = credentials[m]
         /\ \A m \in Names : credentials'[m].exists = credentials[m].exists
<1>1. n \in Names /\ credentials[n].cluster = a /\ Existing(n)
  BY DEF Owns, Replaces
<1>2. credentials[n] = Credential(n) /\ credentials = [m \in Names |-> Credential(m)]
  BY <1>1 DEF CredentialsInv
<1>3. credentials'[n] = [exists |-> credentials[n].exists, cluster |-> a, token |-> t]
  BY <1>1, <1>2 DEF Credential, Replaces
<1>4. \A m \in Names : m # n => credentials'[m] = credentials[m]
  BY <1>2 DEF Replaces
<1>5. credentials' = [m \in Names |-> credentials'[m]]
  BY <1>2 DEF Replaces
<1>6. CredentialsInv'
  <2>1. \A m \in Names : credentials'[m] = Credential(m)'
    BY <1>2, <1>3, <1>4 DEF Credential
  <2>2. \A m \in Names : ~ Existing(m)' => credentials'[m].token = NoToken
    BY <1>1, <1>3, <1>4 DEF CredentialsInv, Existing
  <2>3. OwnTokensOnly'
    BY <1>3, <1>4 DEF CredentialsInv, OwnTokensOnly
  <2> QED
    BY <1>5, <2>1, <2>2, <2>3 DEF CredentialsInv
<1> QED
  BY <1>1, <1>3, <1>4, <1>6 DEF Kept, Existing

\* A request of an agent that is executed is the one it is waiting for.
LEMMA AtBackend ==
  ASSUME IInv, NEW c \in Agents, At(c, "forwarded")
  PROVE  /\ HookInv(c) /\ value[c].cluster = c /\ call[c].req.path = Path
         /\ \/ hook[c] = "listing" /\ call[c].req = ListRequest(c)
            \/ hook[c] = "patching" /\ call[c].req = PatchRequest(item[c], value[c])
<1>1. HookInv(c) /\ Pending(c) /\ value[c].cluster = c
  BY DEF IInv, At, Pending, TypeOK
<1>2. \/ hook[c] = "listing" /\ call[c].req = ListRequest(c)
      \/ hook[c] = "patching" /\ call[c].req = PatchRequest(item[c], value[c])
  BY <1>1 DEF IInv, TypeOK, HookInv, At, Pending
<1>3. ListRequest(c).path = Path /\ PatchRequest(item[c], value[c]).path = Path
  BY DEF ListRequest, PatchRequest
<1> QED
  BY <1>1, <1>2, <1>3

\* A client that is no agent has nothing executed at the credentials.
LEMMA OthersAtBackend ==
  ASSUME IInv, NEW c \in Clients \ Agents, At(c, "forwarded")
  PROVE  call[c].req.path # Path /\ call[c].req \in Calls
  BY DEF IInv, OthersInv, At, Pending, Calls, Path

\* Execution that writes nothing.
LEMMA ExecuteReads ==
  ASSUME IInv, NEW c \in Clients, NEW res, Executed(c, res), ResultTyped(res), UNCHANGED hookVars,
         c \in Agents /\ hook[c] = "patching" => ~ res.ok,
         c \in Agents /\ hook[c] = "listing" => \A n \in res.items : Owns(c, n)
  PROVE  IInv'
<1>1. /\ At(c, "forwarded") /\ UNCHANGED <<serving, orphans, faults>>
      /\ call' = [call EXCEPT ![c] = Call("executed", call[c].req, res)]
  BY DEF Executed
<1>2. call'[c] = Call("executed", call[c].req, res)
  BY <1>1 DEF IInv, CallsTyped
<1>3. ASSUME c \in Agents PROVE HookInv(c)'
  <2>1. Pending(c) /\ (Known(c)' <=> res.ok) /\ call'[c].req = call[c].req /\ call'[c].result = res
    BY <1>1, <1>2 DEF Call, Pending, Known, At, ResultTyped
  <2>2. HookInv(c) /\ hook[c] \in {"listing", "patching"}
    BY <1>1, <1>3, AtBackend
  <2> QED
    BY <2>1, <2>2, <1>3 DEF HookInv, Owns, Existing, hookVars, ListRequest, PatchRequest
<1>4. c \notin Agents => call[c].req \in Calls
  BY <1>1, OthersAtBackend
<1>5. faults' \in 0 .. MaxFaults
  BY <1>1 DEF IInv, TypeOK
<1>6. ProxyTyped' /\ \A r \in orphans' : Harmless(r)
  BY <1>1, <1>5, ProxyUnchanged
<1> QED
  BY ONLY <1>1, <1>3, <1>4, <1>6, CallStep, IInv, c \in Clients, ResultTyped(res), UNCHANGED hookVars

\* The patch of an agent is executed.
LEMMA PatchIInv ==
  ASSUME IInv, NEW c \in Agents, hook[c] = "patching",
         call[c].req = PatchRequest(item[c], value[c]),
         Write(call[c].req, TRUE), Executed(c, Succeeded({})), late' = late \ {item[c]},
         UNCHANGED <<hook, item, value, tokenFile>>
  PROVE  IInv'
<1> USE HookAssumption
<1> DEFINE n == item[c]
<1>1. /\ At(c, "forwarded") /\ UNCHANGED <<serving, orphans, faults>>
      /\ call' = [call EXCEPT ![c] = Call("executed", call[c].req, Succeeded({}))]
  BY DEF Executed
<1>2. /\ call'[c] = Call("executed", call[c].req, Succeeded({}))
      /\ \A b \in Clients : b # c => call'[b] = call[b]
      /\ call' = [b \in Clients |-> call'[b]]
  BY <1>1 DEF IInv, CallsTyped
<1>3. Existing(n) /\ Replaces(n, value[c])
  BY DEF Write, PatchRequest, Replaces
<1>4. Owns(c, n) /\ value[c].cluster = c /\ HookInv(c)
  BY <1>1, AtBackend DEF HookInv
<1>5. /\ CredentialsInv' /\ \A m \in Names : Kept(m) /\ Existing(m)' = Existing(m)
      /\ credentials'[n].token = value[c] /\ \A m \in Names : m # n => credentials'[m] = credentials[m]
      /\ \A m \in Names : credentials'[m].exists = credentials[m].exists
  <2> HIDE DEF n
  <2> QED
    BY <1>3, <1>4, WriteOwn DEF IInv
<1>6. TypeOK'
  BY <1>1, <1>2, <1>5 DEF IInv, TypeOK, Call
<1>7. CallsTyped'
  BY <1>2, ResultsTyped DEF IInv, CallsTyped, Call, ResultTyped
<1>8. TokensTyped' /\ OthersInv'
  BY <1>2 DEF IInv, TokensTyped, OthersInv, Pending
<1>9. OrphansInv'
  BY <1>1, <1>5, HarmlessKept DEF IInv, OrphansInv
<1>10. ASSUME NEW a \in Agents PROVE HookInv(a)'
  <2>1. CASE a = c
    <3>1. Written(c)' /\ Owns(c, item[c])'
      <4>1. Written(c)'
        BY <1>5 DEF Written
      <4>2. credentials'[n].exists = credentials[n].exists /\ Kept(n) /\ n \in Names
        BY <1>4, <1>5 DEF Owns
      <4> QED
        BY <1>4, <4>1, <4>2 DEF Owns, Kept, Existing
    <3>2. At(c, "executed")' /\ call'[c].req = call[c].req
      BY <1>2 DEF At, Call
    <3> QED
      BY <2>1, <3>1, <3>2 DEF HookInv, At, Pending, PatchRequest
  <2>2. CASE a # c
    <3>1. ASSUME Written(a), Owns(a, item[a]) PROVE Written(a)'
      <4>1. CASE item[a] = n
        BY <1>3, <1>4, <2>2, <3>1, <4>1 DEF Owns
      <4>2. CASE item[a] # n
        BY <1>5, <3>1, <4>2 DEF Written, Owns
      <4> QED
        BY <4>1, <4>2
    <3> QED
      BY <1>2, <1>5, <2>2, <3>1, Bystander DEF IInv
  <2> QED
    BY <2>1, <2>2
<1> QED
  BY <1>5, <1>6, <1>7, <1>8, <1>9, <1>10 DEF IInv

\* The API server executes what is at it: lists, patches, or what else there is.
LEMMA ExecuteIInv == ASSUME IInv, NEW c \in Clients, Execute(c) PROVE IInv'
<1>1. At(c, "forwarded")
  BY DEF Execute, Executed
<1>2. CASE call[c].req.path # Path
  <2>1. Executed(c, Succeeded({})) /\ UNCHANGED hookVars /\ c \notin Agents
    BY <1>1, <1>2, AtBackend DEF Execute, hookVars
  <2> QED
    BY <2>1, ExecuteReads, ResultsTyped
<1>3. CASE call[c].req.path = Path
  <2>1. c \in Agents
    BY <1>1, <1>3, OthersAtBackend
  <2>2. CASE hook[c] = "listing"
    <3>1. call[c].req = ListRequest(c)
      BY <1>1, <2>1, <2>2, AtBackend
    <3>2. call[c].req.method = "GET" /\ call[c].req.clusterName = c
      BY <3>1 DEF ListRequest
    <3>3. Executed(c, Succeeded(Items(c))) /\ UNCHANGED hookVars
      BY <1>3, <3>2 DEF Execute, hookVars
    <3>4. ResultTyped(Succeeded(Items(c))) /\ \A n \in Succeeded(Items(c)).items : Owns(c, n)
      BY DEF ResultTyped, Succeeded, Items, Owns, Existing
    <3> QED
      BY <2>2, <3>3, <3>4, ExecuteReads
  <2>3. CASE hook[c] = "patching"
    <3>1. call[c].req = PatchRequest(item[c], value[c])
      BY <1>1, <2>1, <2>3, AtBackend
    <3>2. call[c].req.method = "PATCH" /\ call[c].req.name = item[c]
      BY <3>1 DEF PatchRequest
    <3>3. PICK ok \in BOOLEAN :
            /\ Write(call[c].req, ok)
            /\ Executed(c, IF ok THEN Succeeded({}) ELSE Failed)
            /\ late' = IF ok THEN late \ {item[c]} ELSE late
      BY <1>3, <3>2 DEF Execute
    <3>4. UNCHANGED <<hook, item, value, tokenFile>>
      BY DEF Execute
    <3>5. CASE ok = TRUE
      BY <2>1, <2>3, <3>1, <3>3, <3>4, <3>5, PatchIInv
    <3>6. CASE ok = FALSE
      <4>1. Executed(c, Failed) /\ UNCHANGED hookVars
        BY <3>3, <3>4, <3>6 DEF Write, hookVars
      <4> QED
        BY <2>3, <4>1, ExecuteReads, ResultsTyped
    <3> QED
      BY <3>5, <3>6
  <2> QED
    BY <1>1, <2>1, <2>2, <2>3, AtBackend
<1> QED
  BY <1>2, <1>3

\* Steps of the world: nothing that a call or a hook has come to know is undone.
LEMMA WorldStep ==
  ASSUME IInv, UNCHANGED <<serving, call, faults, hook, item, value>>,
         TypeOK', TokensTyped', CredentialsInv', \A n \in Names : Kept(n),
         \A r \in orphans' : r \in orphans,
         \A a \in Agents : Written(a) /\ Owns(a, item[a]) => Written(a)'
  PROVE  IInv'
<1>1. \A a \in Agents : HookInv(a)'
  BY Bystander DEF IInv
<1>2. CallsTyped' /\ OthersInv'
  BY DEF IInv, CallsTyped, OthersInv, Pending
<1>3. OrphansInv'
  BY HarmlessKept DEF IInv, OrphansInv
<1> QED
  BY <1>1, <1>2, <1>3 DEF IInv

\* A request left behind is executed, or forgotten: who is undone by it is told.
LEMMA OrphanIInv == ASSUME IInv, NEW r \in orphans, ExecuteOrphan(r) PROVE IInv'
<1>1. /\ UNCHANGED <<serving, call, faults, hook, item, value, tokenFile>>
      /\ \A q \in orphans' : q \in orphans
  BY DEF ExecuteOrphan
<1>2. TokensTyped'
  BY <1>1 DEF IInv, TokensTyped
<1>3. CASE UNCHANGED <<credentials, late>>
  <2>1. TypeOK' /\ CredentialsInv'
    BY <1>1, <1>3 DEF IInv, TypeOK, CredentialsInv, Credential, Existing, OwnTokensOnly
  <2>2. \A a \in Agents : Written(a) => Written(a)'
    BY <1>1, <1>3 DEF Written, Existing
  <2> QED
    BY <1>1, <1>2, <1>3, <2>1, <2>2, WorldStep, NothingWritten
<1>4. CASE Write(r, TRUE) /\ late' = late \cup {r.name}
  <2>1. PICK a \in Agents : Owns(a, r.name) /\ r.token.cluster = a
    BY DEF IInv, OrphansInv, Harmless
  <2>2. Existing(r.name) /\ Replaces(r.name, r.token)
    BY <1>4 DEF Write, Replaces
  <2> DEFINE n == r.name  t == r.token
  <2>3. /\ CredentialsInv' /\ \A m \in Names : Kept(m) /\ Existing(m)' = Existing(m)
        /\ \A m \in Names : m # n => credentials'[m] = credentials[m]
        /\ \A m \in Names : credentials'[m].exists = credentials[m].exists
    <3>1. t.cluster = a /\ Owns(a, n) /\ Replaces(n, t)
      BY <2>1, <2>2
    <3> HIDE DEF n, t
    <3> QED
      BY <3>1, WriteOwn DEF IInv
  <2>4. TypeOK'
    BY <1>1, <1>4, <2>1, <2>3 DEF IInv, TypeOK, Owns
  <2>5. \A b \in Agents : Written(b) /\ Owns(b, item[b]) => Written(b)'
    BY <1>1, <1>4, <2>3 DEF Written, Owns
  <2> QED
    BY <1>1, <1>2, <2>3, <2>4, <2>5, WorldStep
<1> QED
  BY <1>3, <1>4 DEF ExecuteOrphan

\* A new credential has a name that no agent has come to know.
LEMMA CreateIInv ==
  ASSUME IInv, NEW n \in Names, NEW c \in Clusters, NEW t \in {NoToken, Token(c, 0)},
         CreateCredential(n, c, t)
  PROVE  IInv'
<1>1. /\ credentials[n].exists = "never"
      /\ UNCHANGED <<serving, call, orphans, faults, hook, item, value, tokenFile, late>>
  BY DEF CreateCredential, Absent, proxyVars
<1>2. /\ credentials'[n] = [exists |-> "now", cluster |-> c, token |-> t]
      /\ \A m \in Names : m # n => credentials'[m] = credentials[m]
      /\ credentials' = [m \in Names |-> credentials'[m]]
  BY DEF CreateCredential, NewCredential, IInv, CredentialsInv
<1>3. TypeOK' /\ TokensTyped'
  BY <1>1, <1>2 DEF IInv, TypeOK, TokensTyped
<1>4. CredentialsInv'
  BY <1>2 DEF IInv, CredentialsInv, Credential, Existing, OwnTokensOnly, Token
<1>5. \A m \in Names : Kept(m)
  BY <1>1, <1>2 DEF Kept, Existing
<1>6. \A a \in Agents : Written(a) /\ Owns(a, item[a]) => Written(a)'
  BY <1>1, <1>2 DEF Written, Owns, Existing
<1> QED
  BY <1>1, <1>3, <1>4, <1>5, <1>6, WorldStep

\* A deleted credential takes its token with it, and its name is not used again.
LEMMA DeleteIInv == ASSUME IInv, NEW n \in Names, DeleteCredential(n) PROVE IInv'
<1>1. /\ late' = late \ {n}
      /\ UNCHANGED <<serving, call, orphans, faults, hook, item, value, tokenFile>>
  BY DEF DeleteCredential, proxyVars
<1>2. /\ credentials'[n] = [exists |-> "past", cluster |-> "nobody", token |-> NoToken]
      /\ \A m \in Names : m # n => credentials'[m] = credentials[m]
      /\ credentials' = [m \in Names |-> credentials'[m]]
  BY DEF DeleteCredential, Deleted, Absent, IInv, CredentialsInv
<1>3. TypeOK' /\ TokensTyped'
  BY <1>1, <1>2 DEF IInv, TypeOK, TokensTyped
<1>4. CredentialsInv'
  BY <1>2 DEF IInv, CredentialsInv, Credential, Existing, OwnTokensOnly
<1>5. \A m \in Names : Kept(m)
  BY <1>2 DEF Kept, Existing
<1>6. \A a \in Agents : Written(a) /\ Owns(a, item[a]) => Written(a)'
  BY <1>1, <1>2 DEF Written, Owns, Existing
<1> QED
  BY <1>1, <1>3, <1>4, <1>5, <1>6, WorldStep

\* A new token in the file is not the one that an agent has read.
LEMMA RotateIInv == ASSUME IInv, NEW a \in Agents, RotateToken(a) PROVE IInv'
<1>1. UNCHANGED <<serving, call, orphans, faults, hook, item, value, credentials, late>>
  BY DEF RotateToken, proxyVars
<1>2. tokenFile[a] = Token(a, tokenFile[a].number) /\ tokenFile[a].number \in 0 .. MaxTokens
  BY DEF IInv, TokensTyped, TypeOK
<1>3. /\ tokenFile'[a] = Token(a, tokenFile[a].number + 1)
      /\ \A b \in Agents : b # a => tokenFile'[b] = tokenFile[b]
      /\ tokenFile' = [b \in Agents |-> tokenFile'[b]]
  BY <1>2 DEF RotateToken, IInv, TokensTyped, Token
<1>4. tokenFile[a].number + 1 \in 0 .. MaxTokens
  BY <1>2, HookAssumption DEF RotateToken
<1>5. TypeOK' /\ TokensTyped'
  BY <1>1, <1>3, <1>4 DEF IInv, TypeOK, TokensTyped, Token
<1>6. CredentialsInv' /\ \A b \in Agents : Written(b) => Written(b)'
  BY <1>1 DEF IInv, CredentialsInv, Credential, Existing, OwnTokensOnly, Written
<1> QED
  BY <1>1, <1>5, <1>6, WorldStep, NothingWritten
-----------------------------------------------------------------------------
\* The hook.  A step of an agent that leaves the credentials alone.
LEMMA AgentStep ==
  ASSUME IInv, NEW a \in Agents, NEW at, NEW req, NEW result, NEW h, NEW i, NEW number,
         call' = [call EXCEPT ![a] = Call(at, req, result)],
         hook' = [hook EXCEPT ![a] = h],
         item' = [item EXCEPT ![a] = i],
         value' = [value EXCEPT ![a] = Token(a, number)],
         at \in {"none", "sent", "answered"}, ResultTyped(result),
         h \in {"list", "listing", "read", "patch", "patching", "done"},
         i \in Names \cup {0}, number \in 0 .. MaxTokens,
         UNCHANGED <<tokenFile, credentials, late>>,
         ProxyTyped', \A r \in orphans' : Harmless(r), HookInv(a)'
  PROVE  IInv'
<1> USE HookAssumption
<1>1. /\ \A b \in Clients : b # a => call'[b] = call[b]
      /\ call'[a] = Call(at, req, result)
      /\ call' = [b \in Clients |-> call'[b]]
  BY DEF IInv, CallsTyped
<1>2. /\ \A b \in Agents : b # a => UNCHANGED <<hook[b], item[b], value[b]>>
      /\ value' = [b \in Agents |-> value'[b]] /\ value'[a] = Token(a, number)
      /\ hook' \in [Agents -> {"list", "listing", "read", "patch", "patching", "done"}]
      /\ item' \in [Agents -> Names \cup {0}]
  BY DEF IInv, TypeOK, TokensTyped
<1>3. \A n \in Names : Kept(n)
  BY NothingWritten
<1>4. TypeOK'
  <2>1. \A c \in Clients : call'[c].at \in {"none", "sent", "forwarded", "executed", "answered"}
    BY <1>1 DEF IInv, TypeOK, Call
  <2>2. \A b \in Agents : \A t \in {value'[b], tokenFile'[b]} :
          t.cluster = b /\ t.number \in 0 .. MaxTokens
    BY <1>2 DEF IInv, TypeOK, Token
  <2> QED
    BY <1>2, <2>1, <2>2 DEF IInv, TypeOK, ProxyTyped
<1>5. CallsTyped'
  BY <1>1 DEF IInv, CallsTyped, Call
<1>6. TokensTyped' /\ CredentialsInv'
  BY <1>2 DEF IInv, TokensTyped, Token, CredentialsInv, Credential, Existing, OwnTokensOnly
<1>7. ASSUME NEW b \in Agents PROVE HookInv(b)'
  <2>1. CASE b = a
    BY <2>1
  <2>2. CASE b # a
    BY <1>1, <1>2, <1>3, <2>2, Bystander DEF IInv, Written, Existing
  <2> QED
    BY <2>1, <2>2
<1>8. OthersInv'
  BY <1>1 DEF IInv, OthersInv, Pending
<1>9. OrphansInv'
  BY <1>3, HarmlessKept DEF OrphansInv
<1> QED
  BY <1>4, <1>5, <1>6, <1>7, <1>8, <1>9 DEF IInv

\* What an agent has, as far as a step leaves it.
LEMMA Has ==
  ASSUME IInv, NEW a \in Agents
  PROVE  /\ call = [call EXCEPT ![a] = Call(call[a].at, call[a].req, call[a].result)]
         /\ item = [item EXCEPT ![a] = item[a]] /\ item[a] \in Names \cup {0}
         /\ value = [value EXCEPT ![a] = Token(a, value[a].number)]
         /\ value[a] = Token(a, value[a].number) /\ value[a].number \in 0 .. MaxTokens
         /\ tokenFile[a] = Token(a, tokenFile[a].number) /\ tokenFile[a].number \in 0 .. MaxTokens
         /\ call[a] = Call(call[a].at, call[a].req, call[a].result) /\ ResultTyped(call[a].result)
         /\ HookInv(a)
         /\ hook[a] \in {"list", "listing", "read", "patch", "patching", "done"}
<1>1. call[a] = Call(call[a].at, call[a].req, call[a].result) /\ ResultTyped(call[a].result)
  BY HookAssumption DEF IInv, CallsTyped
<1>2. call = [call EXCEPT ![a] = call[a]]
  BY HookAssumption DEF IInv, CallsTyped
<1>3. value[a] = Token(a, value[a].number) /\ tokenFile[a] = Token(a, tokenFile[a].number)
  BY DEF IInv, TokensTyped
<1>4. value = [value EXCEPT ![a] = value[a]]
  BY DEF IInv, TokensTyped
<1>5. /\ item = [item EXCEPT ![a] = item[a]] /\ item[a] \in Names \cup {0}
      /\ value[a].number \in 0 .. MaxTokens /\ tokenFile[a].number \in 0 .. MaxTokens
      /\ HookInv(a) /\ hook[a] \in {"list", "listing", "read", "patch", "patching", "done"}
  BY DEF IInv, TypeOK
<1> QED
  BY ONLY <1>1, <1>2, <1>3, <1>4, <1>5

\* Sending goes well or fails at once; neither tells the sender anything.
LEMMA Sent ==
  ASSUME IInv, NEW c \in Clients, NEW r, Send(c, r)
  PROVE  \E at \in {"sent", "answered"}, req \in {r, NoRequest} :
           /\ call' = [call EXCEPT ![c] = Call(at, req, Failed)]
           /\ at = "sent" => req = r
           /\ ProxyTyped' /\ \A q \in orphans' : Harmless(q)
<1>1. UNCHANGED <<serving, orphans, faults>> /\ faults' \in 0 .. MaxFaults
  BY DEF Send, IInv, TypeOK
<1>2. ProxyTyped' /\ \A q \in orphans' : Harmless(q)
  BY <1>1, ProxyUnchanged
<1>3. CASE serving
  BY <1>2, <1>3 DEF Send
<1>4. CASE ~ serving
  BY <1>2, <1>4 DEF Send, Answered
<1> QED
  BY <1>3, <1>4

\* An agent asks for the credentials of its cluster.
LEMMA ListIInv == ASSUME IInv, NEW a \in Agents, List(a) PROVE IInv'
<1>1. PICK at \in {"sent", "answered"}, req \in {ListRequest(a), NoRequest} :
        /\ call' = [call EXCEPT ![a] = Call(at, req, Failed)]
        /\ at = "sent" => req = ListRequest(a)
        /\ ProxyTyped' /\ \A q \in orphans' : Harmless(q)
  BY Sent, HookAssumption DEF List
<1>2. /\ hook' = [hook EXCEPT ![a] = "listing"] /\ UNCHANGED <<item, value, tokenFile, credentials, late>>
  BY DEF List, Goes
<1>3. HookInv(a)'
  <2>1. hook'[a] = "listing" /\ call'[a] = Call(at, req, Failed)
    BY <1>1, <1>2, HookAssumption DEF IInv, TypeOK, CallsTyped
  <2>2. ~ Known(a)' /\ (Pending(a)' => call'[a].req = ListRequest(a))
    BY <1>1, <2>1, ResultsTyped DEF Known, Pending, Call
  <2> QED
    BY <2>1, <2>2 DEF HookInv, ListRequest
<1> QED
  BY <1>1, <1>2, <1>3, AgentStep, Has, ResultsTyped

\* An agent sends the token it read to the credential it found.
LEMMA PatchSentIInv == ASSUME IInv, NEW a \in Agents, Patch(a) PROVE IInv'
<1> DEFINE r == PatchRequest(item[a], value[a])
<1>1. PICK at \in {"sent", "answered"}, req \in {r, NoRequest} :
        /\ call' = [call EXCEPT ![a] = Call(at, req, Failed)]
        /\ at = "sent" => req = r
        /\ ProxyTyped' /\ \A q \in orphans' : Harmless(q)
  BY Sent, HookAssumption DEF Patch
<1>2. /\ hook' = [hook EXCEPT ![a] = "patching"] /\ UNCHANGED <<item, value, tokenFile, credentials, late>>
      /\ hook[a] = "patch"
  BY DEF Patch, Goes
<1>3. HookInv(a)'
  <2>1. hook'[a] = "patching" /\ call'[a] = Call(at, req, Failed)
    BY <1>1, <1>2, HookAssumption DEF IInv, TypeOK, CallsTyped
  <2>2. ~ Known(a)' /\ (Pending(a)' => call'[a].req = r)
    BY <1>1, <2>1, ResultsTyped DEF Known, Pending, Call
  <2>3. Owns(a, item[a])
    BY <1>2, Has DEF HookInv
  <2>4. Owns(a, item[a])'
    BY <1>2, <2>3 DEF Owns, Existing
  <2>5. r = PatchRequest(item[a], value[a])'
    BY <1>2 DEF PatchRequest
  <2> HIDE DEF r
  <2> QED
    BY <2>1, <2>2, <2>4, <2>5 DEF HookInv
<1>4. /\ item' = [item EXCEPT ![a] = item[a]] /\ item[a] \in Names \cup {0}
      /\ value' = [value EXCEPT ![a] = Token(a, value[a].number)] /\ value[a].number \in 0 .. MaxTokens
  BY <1>2, Has
<1> HIDE DEF r
<1> QED
  BY <1>1, <1>2, <1>3, <1>4, AgentStep, ResultsTyped

\* What Takes leaves: no call.
LEMMA Taken ==
  ASSUME IInv, NEW c \in Clients, Takes(c)
  PROVE  /\ call' = [call EXCEPT ![c] = Call("none", NoRequest, Failed)]
         /\ call'[c] = Call("none", NoRequest, Failed)
         /\ At(c, "none")' /\ ~ Pending(c)' /\ ~ Known(c)'
         /\ ProxyTyped' /\ \A r \in orphans' : Harmless(r)
<1>1. UNCHANGED <<serving, orphans, faults>> /\ faults' \in 0 .. MaxFaults
  BY DEF Takes, IInv, TypeOK
<1>2. call' = [call EXCEPT ![c] = Call("none", NoRequest, Failed)]
  BY DEF Takes, NoCall
<1>3. call'[c] = Call("none", NoRequest, Failed)
  BY <1>2 DEF IInv, CallsTyped
<1>4. At(c, "none")' /\ ~ Pending(c)' /\ ~ Known(c)'
  BY <1>3 DEF At, Pending, Known, Call
<1> QED
  BY <1>1, <1>2, <1>3, <1>4, ProxyUnchanged

\* An agent takes one of the credentials that were found.
LEMMA ListedIInv == ASSUME IInv, NEW a \in Agents, Listed(a) PROVE IInv'
<1> DEFINE i == Min(call[a].result.items)
<1>1. /\ hook[a] = "listing" /\ hook' = [hook EXCEPT ![a] = "read"] /\ Takes(a)
      /\ call[a].result.ok /\ call[a].result.items # {} /\ item' = [item EXCEPT ![a] = i]
      /\ UNCHANGED <<value, tokenFile, credentials, late>>
  BY DEF Listed, Goes
<1>2. i \in call[a].result.items /\ i \in Names
  BY <1>1, Has, FirstFound DEF ResultTyped
<1>3. Owns(a, i)
  BY <1>1, <1>2, Has DEF HookInv, Known, At, Takes
<1> HIDE DEF i
<1>4. hook'[a] = "read" /\ item'[a] = i
  BY <1>1 DEF IInv, TypeOK
<1>5. HookInv(a)'
  BY <1>1, <1>3, <1>4, Taken, HookAssumption DEF HookInv, Owns, Existing
<1>6. value' = [value EXCEPT ![a] = Token(a, value[a].number)] /\ value[a].number \in 0 .. MaxTokens
  BY <1>1, Has
<1> QED
  BY <1>1, <1>2, <1>5, <1>6, AgentStep, Taken, ResultsTyped, HookAssumption

\* An agent reads the token of its own cluster.
LEMMA ReadFileIInv == ASSUME IInv, NEW a \in Agents, ReadFile(a) PROVE IInv'
<1>1. /\ hook[a] = "read" /\ hook' = [hook EXCEPT ![a] = "patch"]
      /\ value' = [value EXCEPT ![a] = tokenFile[a]]
      /\ UNCHANGED <<item, tokenFile, credentials, late, serving, call, orphans, faults>>
  BY DEF ReadFile, Goes, proxyVars
<1>2. hook'[a] = "patch"
  BY <1>1 DEF IInv, TypeOK
<1>3. HookInv(a)'
  BY <1>1, <1>2, Has DEF HookInv, Owns, Existing, At
<1>4. /\ call' = [call EXCEPT ![a] = Call("none", call[a].req, call[a].result)]
      /\ ResultTyped(call[a].result)
  BY <1>1, Has DEF HookInv, At
<1>5. /\ item' = [item EXCEPT ![a] = item[a]] /\ item[a] \in Names \cup {0}
      /\ value' = [value EXCEPT ![a] = Token(a, tokenFile[a].number)]
      /\ tokenFile[a].number \in 0 .. MaxTokens
  BY <1>1, Has
<1>6. ProxyTyped' /\ \A r \in orphans' : Harmless(r)
  BY <1>1, ProxyUnchanged DEF IInv, TypeOK
<1> QED
  BY <1>1, <1>3, <1>4, <1>5, <1>6, AgentStep

\* An agent whose patch has succeeded has written its token.
LEMMA PatchedIInv == ASSUME IInv, NEW a \in Agents, Patched(a) PROVE IInv'
<1>1. /\ hook[a] = "patching" /\ hook' = [hook EXCEPT ![a] = "done"] /\ Takes(a)
      /\ call[a].result.ok /\ UNCHANGED <<item, value, tokenFile, credentials, late>>
  BY DEF Patched, Goes
<1>2. hook'[a] = "done" /\ Written(a) /\ Owns(a, item[a])
  BY <1>1, Has DEF IInv, TypeOK, HookInv, Known, Takes, At
<1>3. HookInv(a)'
  BY <1>1, <1>2, Taken, HookAssumption DEF HookInv, Owns, Existing, Written
<1>4. /\ item' = [item EXCEPT ![a] = item[a]] /\ item[a] \in Names \cup {0}
      /\ value' = [value EXCEPT ![a] = Token(a, value[a].number)] /\ value[a].number \in 0 .. MaxTokens
  BY <1>1, Has
<1> QED
  BY <1>1, <1>3, <1>4, AgentStep, Taken, ResultsTyped, HookAssumption

\* An agent that dies forgets all; what it leaves behind is harmless.
LEMMA DiesIInv ==
  ASSUME IInv, NEW a \in Agents, Dies(a), faults' \in 0 .. MaxFaults
  PROVE  IInv'
<1>1. /\ hook' = [hook EXCEPT ![a] = "list"] /\ item' = [item EXCEPT ![a] = 0]
      /\ value' = [value EXCEPT ![a] = Token(a, 0)]
      /\ call' = [call EXCEPT ![a] = Call("none", NoRequest, Failed)]
      /\ LeftBehind({a}) /\ UNCHANGED <<serving, tokenFile, credentials, late>>
  BY DEF Dies, Leaves, NoCall
<1>2. hook'[a] = "list" /\ call'[a].at = "none"
  BY <1>1, HookAssumption DEF IInv, TypeOK, CallsTyped, Call
<1>3. HookInv(a)'
  BY <1>2 DEF HookInv, At, Pending, Known
<1>4. \A r \in orphans' : Harmless(r)
  BY <1>1, LeftIsHarmless, HookAssumption
<1>5. ProxyTyped'
  BY <1>1 DEF IInv, TypeOK, ProxyTyped
<1>6. 0 \in 0 .. MaxTokens
  BY HookAssumption
<1> QED
  BY <1>1, <1>3, <1>4, <1>5, <1>6, AgentStep, ResultsTyped

\* Another client makes calls of its own, which have no credential for their target.
LEMMA UseIInv == ASSUME IInv, NEW c \in Clients \ Agents, Use(c) PROVE IInv'
<1>1. UNCHANGED hookVars
  BY DEF Use
<1>2. CASE \E r \in Calls : Send(c, r)
  <2>1. PICK r \in Calls : Send(c, r)
    BY <1>2
  <2>2. PICK at \in {"sent", "answered"}, req \in {r, NoRequest} :
          /\ call' = [call EXCEPT ![c] = Call(at, req, Failed)]
          /\ at = "sent" => req = r
          /\ ProxyTyped' /\ \A q \in orphans' : Harmless(q)
    BY <2>1, Sent
  <2> QED
    BY <1>1, <2>2, CallStep, ResultsTyped
<1>3. CASE Takes(c)
  BY <1>1, <1>3, CallStep, Taken, ResultsTyped
<1> QED
  BY <1>2, <1>3 DEF Use

-----------------------------------------------------------------------------
\* Every step keeps the invariant.
LEMMA NextIInv == IInv /\ [Next]_vars => IInv'
<1> SUFFICES ASSUME IInv, [Next]_vars PROVE IInv'
  OBVIOUS
<1>1. ASSUME NEW c \in Clients, Proxy(c) PROVE IInv'
  BY <1>1, HealthzIInv, ForwardIInv, ReplyIInv DEF Proxy, ProxyStep
<1>2. ASSUME NEW c \in Clients, Breaks(c) PROVE IInv'
  BY <1>2, FailsIInv DEF Breaks, ProxyFault
<1>3. ASSUME NEW c \in Clients, Execute(c) PROVE IInv'
  BY <1>3, ExecuteIInv
<1>4. CASE ServerDies /\ UNCHANGED hookVars
  BY <1>4, ServerDiesIInv
<1>5. CASE Starts
  BY <1>5, NoCallStep DEF Starts, ServerStarts, IInv, TypeOK, ProxyTyped
<1>6. ASSUME NEW a \in Agents, HookStep(a) PROVE IInv'
  <2>1. CASE Exits(a)
    BY <2>1, DiesIInv DEF Exits, IInv, TypeOK
  <2> QED
    BY <1>6, <2>1, ListIInv, ListedIInv, ReadFileIInv, PatchSentIInv, PatchedIInv DEF HookStep
<1>7. ASSUME NEW a \in Agents, ReadFails(a) \/ Crashes(a) PROVE IInv'
  BY <1>7, DiesIInv, FaultTyped DEF ReadFails, Crashes
<1>8. ASSUME NEW a \in Agents, RotateToken(a) PROVE IInv'
  BY <1>8, RotateIInv
<1>9. ASSUME NEW r \in orphans, ExecuteOrphan(r) PROVE IInv'
  BY <1>9, OrphanIInv
<1>10. ASSUME NEW n \in Names, NEW c \in Clusters,
              CreateCredential(n, c, NoToken) \/ CreateCredential(n, c, Token(c, 0))
       PROVE  IInv'
  BY <1>10, CreateIInv
<1>11. ASSUME NEW n \in Names, DeleteCredential(n) PROVE IInv'
  BY <1>11, DeleteIInv
<1>12. ASSUME NEW c \in Clients \ Agents, Use(c) PROVE IInv'
  BY <1>12, UseIInv
<1>13. CASE UNCHANGED vars
  BY <1>13, NoCallStep DEF vars, proxyVars, IInv, TypeOK, ProxyTyped
<1> QED
  BY <1>1, <1>2, <1>3, <1>4, <1>5, <1>6, <1>7, <1>8, <1>9, <1>10, <1>11, <1>12, <1>13
  DEF Next

\* Every state that is reached satisfies the invariant.
THEOREM Invariance == Spec => []IInv
  BY InitIInv, NextIInv, PTL DEF Spec

\* Everything has its type, whatever fails and whoever dies.
THEOREM TypeCorrect == Spec => []TypeOK
  BY Invariance, PTL DEF IInv

\* No credential ever holds another cluster's token, although PostStartTunnelAgent
\* patches a name that it looked up before, and a patch may be late.
THEOREM TokensStayHome == Spec => []OwnTokensOnly
  BY Invariance, PTL DEF IInv, CredentialsInv

\* The hook of an agent is done only when the token it read is in the credential,
\* which nothing but a patch left behind by an earlier run can undo.
THEOREM DoneIsWritten == Spec => []DoneMeansWritten
<1>1. IInv => DoneMeansWritten
  BY DEF IInv, HookInv, Written, DoneMeansWritten
<1> QED
  BY <1>1, Invariance, PTL

=============================================================================
