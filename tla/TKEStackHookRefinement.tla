----------------------- MODULE TKEStackHookRefinement -----------------------
(***************************************************************************)
(* TKEStackHook implements CredentialUpdate, and tokens in credentials     *)
(* advance unless a request left behind undoes that.                       *)
(***************************************************************************)
EXTENDS TKEStackHookProofs

\* Where neither credentials nor runs change, nothing is to be seen.
LEMMA NothingSeen ==
  ASSUME \A a \in Agents : Seen(a)' = Seen(a), UNCHANGED <<credentials, tokenFile, orphans>>
  PROVE  UNCHANGED Promise!vars
  BY DEF Promise!vars, RunSeen, LeftSeen

\* One run goes on.
LEMMA OneSeen ==
  ASSUME NEW a \in Agents, \A b \in Agents : b # a => Seen(b)' = Seen(b)
  PROVE  RunSeen' = [RunSeen EXCEPT ![a] = Seen(a)']
  BY DEF RunSeen

\* An agent that takes no part in a step, or whose call only moves on, is seen as before.
LEMMA SeenBefore ==
  ASSUME NEW a \in Agents, UNCHANGED <<hook[a], item[a], value[a]>>,
         \/ call'[a] = call[a]
         \/ /\ call'[a].result = call[a].result
            /\ call[a].at \in {"sent", "forwarded"} <=> call'[a].at \in {"sent", "forwarded"}
         \/ hook[a] \notin {"patch", "patching", "done"}
  PROVE  Seen(a)' = Seen(a)
<1>1. StageSeen(a)' = StageSeen(a)
  BY DEF StageSeen, At
<1> QED
  BY <1>1 DEF Seen, UpdateSeen

\* What the stages are.
LEMMA Stages ==
  ASSUME NEW a \in Agents
  PROVE  /\ hook[a] \in {"list", "listing", "read"} => StageSeen(a) = "open"
         /\ hook[a] = "patch" => StageSeen(a) = "prepared"
         /\ hook[a] = "patching" /\ call[a].at \in {"sent", "forwarded"} => StageSeen(a) = "prepared"
         /\ hook[a] = "patching" /\ call[a].at \notin {"sent", "forwarded"} =>
              StageSeen(a) = IF call[a].result.ok THEN "written" ELSE "open"
         /\ hook[a] = "done" => StageSeen(a) = "done"
         /\ StageSeen(a) = "open" =>
              Seen(a) = [at |-> "open", update |-> [name |-> 0, token |-> NoToken]]
         /\ StageSeen(a) # "open" =>
              Seen(a) = [at |-> StageSeen(a), update |-> [name |-> item[a], token |-> value[a]]]
<1>1. /\ hook[a] \in {"list", "listing", "read"} => StageSeen(a) = "open"
      /\ hook[a] = "patch" => StageSeen(a) = "prepared"
      /\ hook[a] = "done" => StageSeen(a) = "done"
  BY DEF StageSeen
<1>2. hook[a] = "patching" =>
        StageSeen(a) = IF call[a].at \in {"sent", "forwarded"} THEN "prepared"
                       ELSE IF call[a].result.ok THEN "written" ELSE "open"
  BY DEF StageSeen, At
<1> QED
  BY <1>1, <1>2 DEF Seen, UpdateSeen

\* A request that a client leaves behind is the prepared update of an agent.
LEMMA LeftIsPrepared ==
  ASSUME IInv, NEW C \in SUBSET Clients, LeftBehind(C)
  PROVE  \E left :
           /\ orphans' = orphans \cup left
           /\ \A r \in left : \E a \in Agents \cap C :
                /\ At(a, "forwarded") /\ hook[a] = "patching" /\ StageSeen(a) = "prepared"
                /\ r.name = item[a] /\ r.token = value[a]
<1>1. PICK left \in SUBSET {r \in {call[c].req : c \in {d \in C : At(d, "forwarded")}} :
                              r.method = "PATCH"} : orphans' = orphans \cup left
  BY DEF LeftBehind
<1>2. ASSUME NEW r \in left
      PROVE  \E a \in Agents \cap C :
                /\ At(a, "forwarded") /\ hook[a] = "patching" /\ StageSeen(a) = "prepared"
                /\ r.name = item[a] /\ r.token = value[a]
  <2>1. PICK a \in C : At(a, "forwarded") /\ r = call[a].req /\ r.method = "PATCH"
    BY <1>1
  <2>2. a \in Agents
    BY <2>1 DEF IInv, OthersInv, Pending, At, Calls
  <2>3. hook[a] = "patching" /\ r = PatchRequest(item[a], value[a])
    <3>1. ListRequest(a).method = "GET"
      BY DEF ListRequest
    <3> QED
      BY <2>1, <2>2, <3>1, AtBackend
  <2>4. StageSeen(a) = "prepared"
    BY <2>1, <2>2, <2>3, Stages DEF At
  <2> QED
    BY <2>1, <2>2, <2>3, <2>4 DEF PatchRequest
<1> QED
  BY <1>1, <1>2

\* Agents whose run ends before its time give up, and leave at most what they prepared.
LEMMA GivenUp ==
  ASSUME IInv, NEW S \in SUBSET Agents, UNCHANGED <<credentials, tokenFile>>,
         \A a \in S : StageSeen(a)' = "open",
         \A a \in Agents : a \notin S => Seen(a)' = Seen(a),
         NEW left, orphans' = orphans \cup left,
         \A r \in left : \E a \in S :
            StageSeen(a) = "prepared" /\ r.name = item[a] /\ r.token = value[a]
  PROVE  Promise!Next
<1> DEFINE U == {[name |-> r.name, token |-> r.token] : r \in left}
<1>1. LeftSeen' = LeftSeen \cup U
  BY DEF LeftSeen
<1>2. U \subseteq {RunSeen[a].update : a \in {b \in S : RunSeen[b].at = "prepared"}}
  <2> SUFFICES ASSUME NEW r \in left
               PROVE  \E a \in S : RunSeen[a].at = "prepared"
                        /\ [name |-> r.name, token |-> r.token] = RunSeen[a].update
    OBVIOUS
  <2>1. PICK a \in S : StageSeen(a) = "prepared" /\ r.name = item[a] /\ r.token = value[a]
    OBVIOUS
  <2>2. Seen(a) = [at |-> "prepared", update |-> [name |-> item[a], token |-> value[a]]]
    BY <2>1, Stages
  <2> QED
    BY <2>1, <2>2 DEF RunSeen
<1>3. \A a \in S : Seen(a)' = [at |-> "open", update |-> [name |-> 0, token |-> NoToken]]
  BY DEF Seen, UpdateSeen
<1>4. RunSeen' = [a \in Agents |-> IF a \in S THEN Promise!Run("open", Promise!NoUpdate)
                                   ELSE RunSeen[a]]
  BY <1>3 DEF RunSeen, Promise!Run, Promise!NoUpdate, Promise!Update, Promise!NoToken,
              Promise!Token, NoToken, Token
<1> HIDE DEF U
<1>5. Promise!GiveUp(S)
  BY <1>1, <1>2, <1>4 DEF Promise!GiveUp
<1> QED
  BY <1>5 DEF Promise!Next

\* The same of one agent; what it leaves behind is its patch, if that was forwarded.
LEMMA OneGivenUp ==
  ASSUME IInv, NEW c \in Clients, UNCHANGED <<credentials, tokenFile>>,
         c \in Agents => StageSeen(c)' = "open",
         \A a \in Agents : a # c => Seen(a)' = Seen(a),
         UNCHANGED orphans \/ LeftBehind({c})
  PROVE  Promise!Next
<1> DEFINE S == Agents \cap {c}
           Left(left) == /\ orphans' = orphans \cup left
                         /\ \A r \in left : \E a \in S :
                              StageSeen(a) = "prepared" /\ r.name = item[a] /\ r.token = value[a]
<1>1. \E left : Left(left)
  <2>1. CASE UNCHANGED orphans
    <3>1. Left({})
      BY <2>1
    <3> HIDE DEF Left
    <3> QED
      BY <3>1
  <2>2. CASE LeftBehind({c})
    <3>1. PICK left :
            /\ orphans' = orphans \cup left
            /\ \A r \in left : \E a \in Agents \cap {c} :
                 /\ At(a, "forwarded") /\ hook[a] = "patching" /\ StageSeen(a) = "prepared"
                 /\ r.name = item[a] /\ r.token = value[a]
      <4>1. {c} \in SUBSET Clients
        OBVIOUS
      <4> QED
        BY <2>2, <4>1, LeftIsPrepared
    <3>2. Left(left)
      BY <3>1
    <3> HIDE DEF Left
    <3> QED
      BY <3>2
  <2> QED
    BY <2>1, <2>2
<1>2. PICK left : Left(left)
  BY <1>1
<1>3. S \in SUBSET Agents /\ \A a \in Agents : a \notin S => a # c
  OBVIOUS
<1>4. \A a \in S : StageSeen(a)' = "open"
  OBVIOUS
<1> HIDE DEF S
<1> QED
  BY <1>2, <1>3, <1>4, GivenUp

-----------------------------------------------------------------------------
\* The proxy.  What it does with requests is not to be seen, until it fails.
LEMMA ProxySeen ==
  ASSUME IInv, NEW c \in Clients, Proxy(c)
  PROVE  UNCHANGED Promise!vars
<1>1. UNCHANGED <<hook, item, value, tokenFile, credentials, orphans>>
  BY DEF Proxy, ProxyStep, healthz, Forward, Reply, hookVars
<1>2. ASSUME NEW a \in Agents PROVE Seen(a)' = Seen(a)
  <2>1. CASE a # c
    <3>1. call'[a] = call[a]
      BY <2>1, HookAssumption
      DEF Proxy, ProxyStep, healthz, Forward, Reply, Moves, Answer, IInv, CallsTyped
    <3> QED
      BY <1>1, <3>1, SeenBefore
  <2>2. CASE a = c
    <3>1. ~ healthz(c)
      <4>1. healthz(c) => Pending(c) /\ Route(call[c].req) = "healthz"
        BY DEF healthz, Pending, At
      <4> QED
        BY <2>2, <4>1, HookRoute
    <3>2. CASE Forward(c)
      <4>1. At(c, "sent") /\ call'[c] = Call("forwarded", call[c].req, call[c].result)
        BY <3>2 DEF Forward, Moves, IInv, CallsTyped
      <4> QED
        BY <1>1, <2>2, <4>1, SeenBefore DEF At, Call
    <3>3. CASE Reply(c)
      <4>1. At(c, "executed") /\ call'[c] = Call("answered", NoRequest, call[c].result)
        BY <3>3 DEF Reply, Answer, Answered, IInv, CallsTyped
      <4> QED
        BY <1>1, <2>2, <4>1, SeenBefore DEF At, Call
    <3> QED
      BY <3>1, <3>2, <3>3 DEF Proxy, ProxyStep
  <2> QED
    BY <2>1, <2>2
<1> QED
  BY <1>1, <1>2, NothingSeen

\* A call that fails on its way ends the run of its agent.
LEMMA BreaksSeen ==
  ASSUME IInv, NEW c \in Clients, Breaks(c)
  PROVE  Promise!Next
<1>1. /\ Pending(c) /\ call' = [call EXCEPT ![c] = Call("answered", NoRequest, Failed)]
      /\ UNCHANGED <<hook, item, value, tokenFile, credentials>>
      /\ UNCHANGED orphans \/ LeftBehind({c})
  BY DEF Breaks, ProxyFault, DialFails, UpstreamBreaks, Answer, Answered, Pending, At, hookVars
<1>2. call'[c] = Call("answered", NoRequest, Failed)
  BY <1>1 DEF IInv, CallsTyped
<1>3. ASSUME c \in Agents PROVE StageSeen(c)' = "open"
  <2>1. hook'[c] \in {"listing", "patching"}
    BY <1>1, <1>3 DEF IInv, TypeOK, HookInv, At, Pending
  <2> QED
    BY <1>2, <2>1 DEF StageSeen, At, Call, Failed
<1>4. ASSUME NEW a \in Agents, a # c PROVE Seen(a)' = Seen(a)
  <2>1. call'[a] = call[a]
    BY <1>1, <1>4, HookAssumption DEF IInv, CallsTyped
  <2> QED
    BY <1>1, <2>1, SeenBefore
<1> QED
  BY <1>1, <1>3, <1>4, OneGivenUp

\* The death of the server ends the run of every agent that waits for an answer.
LEMMA ServerDiesSeen ==
  ASSUME IInv, ServerDies, UNCHANGED hookVars
  PROVE  Promise!Next
<1> DEFINE S == {a \in Agents : Pending(a)}
<1>1. UNCHANGED <<hook, item, value, tokenFile, credentials>>
  BY DEF hookVars
<1>2. \A a \in Agents : call'[a] = IF At(a, "none") \/ At(a, "answered") THEN call[a]
                                   ELSE Answered(Failed)
  BY HookAssumption DEF ServerDies
<1>3. ASSUME NEW a \in S PROVE StageSeen(a)' = "open"
  <2>1. hook'[a] \in {"listing", "patching"}
    BY <1>1 DEF IInv, TypeOK, HookInv, At, Pending
  <2>2. call'[a] = Call("answered", NoRequest, Failed)
    BY <1>2 DEF Pending, At, Answered
  <2> QED
    BY <2>1, <2>2 DEF StageSeen, At, Call, Failed
<1>4. ASSUME NEW a \in Agents, a \notin S PROVE Seen(a)' = Seen(a)
  <2>1. call'[a] = call[a]
    BY <1>2, <1>4, HookAssumption DEF IInv, TypeOK, Pending, At
  <2> QED
    BY <1>1, <2>1, SeenBefore
<1>5. PICK left : /\ orphans' = orphans \cup left
                  /\ \A r \in left : \E a \in Agents \cap Clients :
                       /\ At(a, "forwarded") /\ hook[a] = "patching" /\ StageSeen(a) = "prepared"
                       /\ r.name = item[a] /\ r.token = value[a]
  <2>1. Clients \in SUBSET Clients /\ LeftBehind(Clients)
    BY DEF ServerDies
  <2> QED
    BY <2>1, LeftIsPrepared
<1>6. \A r \in left : \E a \in S :
        StageSeen(a) = "prepared" /\ r.name = item[a] /\ r.token = value[a]
  BY <1>5 DEF At, Pending
<1> HIDE DEF S
<1>7. S \in SUBSET Agents
  BY DEF S
<1> QED
  BY <1>1, <1>3, <1>4, <1>5, <1>6, <1>7, GivenUp

-----------------------------------------------------------------------------
\* The API server.  An execution that writes nothing is not to be seen, or is a patch
\* that fails, with which its run is over.
LEMMA ReadsSeen ==
  ASSUME IInv, NEW c \in Clients, NEW res, Executed(c, res), UNCHANGED hookVars,
         c \in Agents /\ hook[c] = "patching" => res = Failed
  PROVE  [Promise!Next]_(Promise!vars)
<1>1. /\ At(c, "forwarded") /\ UNCHANGED <<hook, item, value, tokenFile, credentials, orphans>>
      /\ call' = [call EXCEPT ![c] = Call("executed", call[c].req, res)]
  BY DEF Executed, hookVars
<1>2. call'[c] = Call("executed", call[c].req, res)
  BY <1>1 DEF IInv, CallsTyped
<1>3. ASSUME NEW a \in Agents, a # c PROVE Seen(a)' = Seen(a)
  <2>1. call'[a] = call[a]
    BY <1>1, <1>3, HookAssumption DEF IInv, CallsTyped
  <2> QED
    BY <1>1, <2>1, SeenBefore
<1>4. CASE c \in Agents /\ hook[c] = "patching"
  <2>1. StageSeen(c)' = "open"
    BY <1>1, <1>2, <1>4 DEF StageSeen, At, Call, Failed
  <2> QED
    BY <1>1, <1>3, <2>1, OneGivenUp
<1>5. CASE c \in Agents /\ hook[c] # "patching"
  <2>1. hook[c] = "listing"
    BY <1>1, <1>5, AtBackend
  <2>2. Seen(c)' = Seen(c)
    BY <1>1, <1>5, <2>1, SeenBefore
  <2> QED
    BY <1>1, <1>3, <2>2, NothingSeen
<1>6. CASE c \notin Agents
  BY <1>1, <1>3, <1>6, NothingSeen
<1> QED
  BY <1>4, <1>5, <1>6

\* A patch that is executed is the update that its agent has prepared.
LEMMA PatchSeen ==
  ASSUME IInv, NEW c \in Agents, hook[c] = "patching",
         call[c].req = PatchRequest(item[c], value[c]),
         Write(call[c].req, TRUE), Executed(c, Succeeded({})),
         UNCHANGED <<hook, item, value, tokenFile>>
  PROVE  Promise!Next
<1> DEFINE u == [name |-> item[c], token |-> value[c]]
<1>1. /\ At(c, "forwarded") /\ UNCHANGED orphans
      /\ call' = [call EXCEPT ![c] = Call("executed", call[c].req, Succeeded({}))]
  BY DEF Executed
<1>2. call'[c] = Call("executed", call[c].req, Succeeded({}))
  BY <1>1, HookAssumption DEF IInv, CallsTyped
<1>3. Seen(c) = [at |-> "prepared", update |-> u]
  BY <1>1, Stages DEF At
<1>4. Seen(c)' = [at |-> "written", update |-> u]
  <2>1. StageSeen(c)' = "written"
    BY <1>2 DEF StageSeen, At, Call, Succeeded
  <2> QED
    BY <2>1 DEF Seen, UpdateSeen
<1>5. RunSeen' = [RunSeen EXCEPT ![c] = Seen(c)']
  <2>1. ASSUME NEW a \in Agents, a # c PROVE Seen(a)' = Seen(a)
    <3>1. call'[a] = call[a]
      BY <1>1, <2>1, HookAssumption DEF IInv, CallsTyped
    <3> QED
      BY <3>1, SeenBefore
  <2> QED
    BY <2>1, OneSeen
<1>6. Existing(u.name) /\ credentials' = [credentials EXCEPT ![u.name].token = u.token]
  BY DEF Write, PatchRequest
<1>7. credentials[u.name].cluster = u.token.cluster
  BY <1>1, <1>6, AtBackend DEF HookInv, Owns
<1>8. RunSeen[c] = Seen(c)
  BY DEF RunSeen
<1>9. UNCHANGED LeftSeen
  BY <1>1 DEF LeftSeen
<1> HIDE DEF u
<1>10. Promise!Write(u)
  BY <1>6, <1>7 DEF Promise!Write, Promise!Existing, Existing
<1>11. Promise!MakeUpdate(c)
  BY <1>3, <1>4, <1>5, <1>8, <1>9, <1>10 DEF Promise!MakeUpdate, Promise!Run
<1> QED
  BY <1>11 DEF Promise!Next

\* An execution is the update that was prepared, the end of a run, or not to be seen.
LEMMA ExecuteSeen ==
  ASSUME IInv, NEW c \in Clients, Execute(c)
  PROVE  [Promise!Next]_(Promise!vars)
<1>1. At(c, "forwarded")
  BY DEF Execute, Executed
<1>2. CASE call[c].req.path # Path
  <2>1. Executed(c, Succeeded({})) /\ UNCHANGED hookVars /\ c \notin Agents
    BY <1>1, <1>2, AtBackend DEF Execute, hookVars
  <2> QED
    BY <2>1, ReadsSeen
<1>3. CASE call[c].req.path = Path
  <2>1. c \in Agents
    BY <1>1, <1>3, OthersAtBackend
  <2>2. CASE hook[c] = "listing"
    <3>1. call[c].req = ListRequest(c)
      BY <1>1, <2>1, <2>2, AtBackend
    <3>2. call[c].req.method = "GET"
      BY <3>1 DEF ListRequest
    <3>3. \E res : Executed(c, res) /\ UNCHANGED hookVars
      BY <1>3, <3>2 DEF Execute, hookVars
    <3> QED
      BY <2>2, <3>3, ReadsSeen
  <2>3. CASE hook[c] = "patching"
    <3>1. call[c].req = PatchRequest(item[c], value[c])
      BY <1>1, <2>1, <2>3, AtBackend
    <3>2. call[c].req.method = "PATCH"
      BY <3>1 DEF PatchRequest
    <3>3. PICK ok \in BOOLEAN :
            /\ Write(call[c].req, ok)
            /\ Executed(c, IF ok THEN Succeeded({}) ELSE Failed)
            /\ ok = FALSE => UNCHANGED late
      BY <1>3, <3>2 DEF Execute
    <3>4. UNCHANGED <<hook, item, value, tokenFile>>
      BY DEF Execute
    <3>5. CASE ok = TRUE
      BY <2>1, <2>3, <3>1, <3>3, <3>4, <3>5, PatchSeen
    <3>6. CASE ok = FALSE
      <4>1. Executed(c, Failed) /\ UNCHANGED hookVars
        BY <3>3, <3>4, <3>6 DEF Write, hookVars
      <4> QED
        BY <4>1, ReadsSeen
    <3> QED
      BY <3>5, <3>6
  <2> QED
    BY <1>1, <2>1, <2>2, <2>3, AtBackend
<1> QED
  BY <1>2, <1>3

-----------------------------------------------------------------------------
\* The rest of the world.  A patch left behind is made late.
LEMMA OrphanSeen ==
  ASSUME IInv, NEW r \in orphans, ExecuteOrphan(r)
  PROVE  Promise!Next
<1> DEFINE u == [name |-> r.name, token |-> r.token]
<1>1. UNCHANGED <<hook, item, value, call, tokenFile>> /\ orphans' \in {orphans, orphans \ {r}}
  BY DEF ExecuteOrphan
<1>2. UNCHANGED RunSeen
  BY <1>1, SeenBefore DEF RunSeen
<1>3. u \in LeftSeen /\ LeftSeen' \in {LeftSeen, LeftSeen \ {u}}
  BY <1>1 DEF LeftSeen
<1>4. UNCHANGED credentials \/ Promise!Write(u)
  <2>1. PICK a \in Agents : Owns(a, r.name) /\ r.token.cluster = a
    BY DEF IInv, OrphansInv, Harmless
  <2>2. CASE Write(r, TRUE)
    <3>1. Existing(u.name) /\ credentials' = [credentials EXCEPT ![u.name].token = u.token]
      BY <2>2 DEF Write
    <3>2. credentials[u.name].cluster = u.token.cluster
      BY <2>1, <3>1 DEF Owns
    <3> HIDE DEF u
    <3> QED
      BY <3>1, <3>2 DEF Promise!Write, Promise!Existing, Existing
  <2> QED
    BY <2>2 DEF ExecuteOrphan
<1> HIDE DEF u
<1>5. Promise!MakeLate(u)
  BY <1>1, <1>2, <1>3, <1>4 DEF Promise!MakeLate
<1> QED
  BY <1>3, <1>5 DEF Promise!Next

\* A credential is created, without a token of the file.
LEMMA CreateSeen ==
  ASSUME IInv, NEW n \in Names, NEW c \in Clusters, NEW t \in {NoToken, Token(c, 0)},
         CreateCredential(n, c, t)
  PROVE  Promise!Next
<1>1. UNCHANGED <<hook, item, value, call, tokenFile, orphans>>
  BY DEF CreateCredential, proxyVars
<1>2. UNCHANGED <<RunSeen, LeftSeen>>
  BY <1>1, SeenBefore DEF RunSeen, LeftSeen
<1>3. /\ credentials[n] = Promise!Absent
      /\ credentials' = [credentials EXCEPT ![n] = Promise!NewCredential(c, t)]
  BY DEF CreateCredential, NewCredential, Absent, NoToken, Token, Promise!NewCredential,
         Promise!Absent, Promise!NoToken, Promise!Token
<1>4. Promise!Create(n, c, t)
  BY <1>1, <1>2, <1>3 DEF Promise!Create
<1>5. t \in {Promise!NoToken, Promise!Token(c, 0)}
  BY DEF NoToken, Token, Promise!NoToken, Promise!Token
<1> QED
  BY <1>4, <1>5 DEF Promise!Next

\* A credential is deleted.
LEMMA DeleteSeen ==
  ASSUME IInv, NEW n \in Names, DeleteCredential(n)
  PROVE  Promise!Next
<1>1. UNCHANGED <<hook, item, value, call, tokenFile, orphans>>
  BY DEF DeleteCredential, proxyVars
<1>2. UNCHANGED <<RunSeen, LeftSeen>>
  BY <1>1, SeenBefore DEF RunSeen, LeftSeen
<1>3. Deleted = Promise!Deleted
  BY DEF Deleted, Absent, NoToken, Token, Promise!Deleted, Promise!Absent, Promise!NoToken,
         Promise!Token
<1>4. Promise!Delete(n)
  BY <1>1, <1>2, <1>3 DEF DeleteCredential, Existing, Promise!Delete, Promise!Existing
<1> QED
  BY <1>4 DEF Promise!Next

\* The file gets a new token.
LEMMA RotateSeen ==
  ASSUME IInv, NEW a \in Agents, RotateToken(a)
  PROVE  Promise!Next
<1>1. UNCHANGED <<hook, item, value, call, credentials, orphans>>
  BY DEF RotateToken, proxyVars
<1>2. UNCHANGED <<RunSeen, LeftSeen>>
  BY <1>1, SeenBefore DEF RunSeen, LeftSeen
<1>3. tokenFile' = [tokenFile EXCEPT ![a] = Promise!Token(a, tokenFile[a].number + 1)]
  <2>1. tokenFile[a] = [cluster |-> a, number |-> tokenFile[a].number]
    BY Has DEF Token
  <2>2. [tokenFile[a] EXCEPT !.number = @ + 1] = Promise!Token(a, tokenFile[a].number + 1)
    BY <2>1 DEF Promise!Token
  <2>3. tokenFile' = [tokenFile EXCEPT ![a] = [tokenFile[a] EXCEPT !.number = @ + 1]]
    BY DEF RotateToken
  <2> QED
    BY <2>2, <2>3
<1>4. Promise!Rotate(a)
  BY <1>1, <1>2, <1>3 DEF RotateToken, Promise!Rotate
<1> QED
  BY <1>4 DEF Promise!Next

\* The calls of other clients are not to be seen.
LEMMA UseSeen ==
  ASSUME IInv, NEW c \in Clients \ Agents, Use(c)
  PROVE  UNCHANGED Promise!vars
<1>1. UNCHANGED <<hook, item, value, tokenFile, credentials, orphans>>
  BY DEF Use, hookVars, Send, Takes
<1>2. ASSUME NEW a \in Agents PROVE Seen(a)' = Seen(a)
  <2>1. call'[a] = call[a]
    BY HookAssumption DEF Use, Send, Takes, IInv, CallsTyped
  <2> QED
    BY <1>1, <2>1, SeenBefore
<1> QED
  BY <1>1, <1>2, NothingSeen

-----------------------------------------------------------------------------
\* The hook.  A step of an agent leaves the other agents as they are.
LEMMA OthersSeen ==
  ASSUME IInv, NEW a \in Agents, HookStep(a) \/ Dies(a), NEW b \in Agents, b # a
  PROVE  Seen(b)' = Seen(b)
<1>1. UNCHANGED <<hook[b], item[b], value[b]>>
  BY DEF HookStep, List, Listed, ReadFile, Patch, Patched, Exits, Dies, Goes, IInv, TypeOK,
         TokensTyped
<1>2. call'[b] = call[b]
  BY HookAssumption DEF HookStep, List, Listed, ReadFile, Patch, Patched, Exits, Dies, Takes, Send,
     Leaves, proxyVars, IInv, CallsTyped
<1> QED
  BY <1>1, <1>2, SeenBefore

\* Until the token is read nothing is to be seen of a run.
LEMMA ListSeen ==
  ASSUME IInv, NEW a \in Agents, List(a) \/ Listed(a)
  PROVE  UNCHANGED Promise!vars
<1>1. UNCHANGED <<tokenFile, credentials, orphans>>
  BY DEF List, Listed, Send, Takes
<1>2. hook[a] \in {"list", "listing"} /\ hook'[a] \in {"listing", "read"}
  BY DEF List, Listed, Goes, IInv, TypeOK
<1>3. Seen(a)' = Seen(a)
  BY <1>2 DEF Seen, UpdateSeen, StageSeen
<1>4. \A b \in Agents : Seen(b)' = Seen(b)
  BY <1>3, OthersSeen DEF HookStep
<1> QED
  BY <1>1, <1>4, NothingSeen

\* The update is prepared when the token is read.
LEMMA ReadFileSeen ==
  ASSUME IInv, NEW a \in Agents, ReadFile(a)
  PROVE  Promise!Next
<1>1. /\ hook[a] = "read" /\ hook'[a] = "patch" /\ value'[a] = tokenFile[a]
      /\ UNCHANGED <<item, tokenFile, credentials, orphans>>
  BY DEF ReadFile, Goes, proxyVars, IInv, TypeOK, TokensTyped
<1>2. StageSeen(a) = "open" /\ StageSeen(a)' = "prepared"
  BY <1>1 DEF StageSeen
<1>3. Seen(a).at = "open"
  BY <1>2 DEF Seen
<1>4. Seen(a)' = Promise!Run("prepared", Promise!Update(item[a], tokenFile[a]))
  BY <1>1, <1>2 DEF Seen, UpdateSeen, Promise!Run, Promise!Update
<1>5. RunSeen' = [RunSeen EXCEPT ![a] = Seen(a)'] /\ RunSeen[a] = Seen(a)
  <2>1. \A b \in Agents : b # a => Seen(b)' = Seen(b)
    BY OthersSeen DEF HookStep
  <2> QED
    BY <2>1, OneSeen DEF RunSeen
<1>6. Owns(a, item[a])
  BY <1>1, Has DEF HookInv
<1>7. Promise!Prepare(a)
  BY <1>1, <1>3, <1>4, <1>5, <1>6
  DEF Promise!Prepare, Promise!Existing, Owns, Existing, LeftSeen
<1> QED
  BY <1>7 DEF Promise!Next

\* A patch is sent, or the run is over because nobody listens.
LEMMA PatchSentSeen ==
  ASSUME IInv, NEW a \in Agents, Patch(a)
  PROVE  [Promise!Next]_(Promise!vars)
<1>1. /\ hook[a] = "patch" /\ hook'[a] = "patching"
      /\ UNCHANGED <<item, value, tokenFile, credentials, orphans>>
      /\ call' = [call EXCEPT ![a] = IF serving THEN Call("sent", PatchRequest(item[a], value[a]), Failed)
                                     ELSE Answered(Failed)]
  BY DEF Patch, Goes, Send, IInv, TypeOK
<1>2. \A b \in Agents : b # a => Seen(b)' = Seen(b)
  BY OthersSeen DEF HookStep
<1>3. CASE serving
  <2>1. call'[a].at = "sent"
    BY <1>1, <1>3, HookAssumption DEF IInv, CallsTyped, Call
  <2>2. StageSeen(a) = "prepared" /\ StageSeen(a)' = "prepared"
    BY <1>1, <2>1 DEF StageSeen, At
  <2>3. Seen(a)' = Seen(a)
    BY <1>1, <2>2 DEF Seen, UpdateSeen
  <2> QED
    BY <1>1, <1>2, <2>3, NothingSeen
<1>4. CASE ~ serving
  <2>1. call'[a].at = "answered" /\ ~ call'[a].result.ok
    BY <1>1, <1>4, HookAssumption DEF IInv, CallsTyped, Answered, Call, Failed
  <2>2. StageSeen(a)' = "open"
    BY <1>1, <2>1 DEF StageSeen, At
  <2> QED
    BY <1>1, <1>2, <2>2, OneGivenUp, HookAssumption
<1> QED
  BY <1>3, <1>4

\* The run that learns that its patch was executed is done.
LEMMA PatchedSeen ==
  ASSUME IInv, NEW a \in Agents, Patched(a)
  PROVE  Promise!Next
<1>1. /\ hook[a] = "patching" /\ hook'[a] = "done" /\ call[a].at = "answered" /\ call[a].result.ok
      /\ UNCHANGED <<item, value, tokenFile, credentials, orphans>>
  BY DEF Patched, Goes, Takes, At, IInv, TypeOK
<1>2. StageSeen(a) = "written" /\ StageSeen(a)' = "done"
  BY <1>1 DEF StageSeen, At
<1>3. /\ Seen(a).at = "written"
      /\ Seen(a)' = Promise!Run("done", Seen(a).update)
  BY <1>1, <1>2 DEF Seen, UpdateSeen, Promise!Run
<1>4. RunSeen' = [RunSeen EXCEPT ![a] = Seen(a)'] /\ RunSeen[a] = Seen(a)
  <2>1. \A b \in Agents : b # a => Seen(b)' = Seen(b)
    BY OthersSeen DEF HookStep
  <2> QED
    BY <2>1, OneSeen DEF RunSeen
<1>5. Promise!Finish(a)
  BY <1>1, <1>3, <1>4 DEF Promise!Finish, LeftSeen
<1> QED
  BY <1>5 DEF Promise!Next

\* A run that dies gives up.
LEMMA DiesSeen ==
  ASSUME IInv, NEW a \in Agents, Dies(a)
  PROVE  Promise!Next
<1>1. hook'[a] = "list" /\ UNCHANGED <<tokenFile, credentials>> /\ LeftBehind({a})
  BY DEF Dies, Leaves, IInv, TypeOK
<1>2. StageSeen(a)' = "open"
  BY <1>1 DEF StageSeen
<1>3. \A b \in Agents : b # a => Seen(b)' = Seen(b)
  BY OthersSeen
<1> QED
  BY <1>1, <1>2, <1>3, OneGivenUp, HookAssumption

-----------------------------------------------------------------------------
\* Every step is one of CredentialUpdate, or is not to be seen.
LEMMA StepSeen == IInv /\ [Next]_vars => [Promise!Next]_(Promise!vars)
<1> SUFFICES ASSUME IInv, [Next]_vars PROVE [Promise!Next]_(Promise!vars)
  OBVIOUS
<1>1. ASSUME NEW c \in Clients, Proxy(c) \/ Breaks(c) \/ Execute(c)
      PROVE  [Promise!Next]_(Promise!vars)
  BY <1>1, ProxySeen, BreaksSeen, ExecuteSeen
<1>2. CASE Starts \/ UNCHANGED vars
  <2>1. UNCHANGED <<hook, item, value, call, tokenFile, credentials, orphans>>
    BY <1>2 DEF Starts, ServerStarts, hookVars, vars, proxyVars
  <2> QED
    BY <2>1, SeenBefore, NothingSeen
<1>3. CASE ServerDies /\ UNCHANGED hookVars
  BY <1>3, ServerDiesSeen
<1>4. ASSUME NEW a \in Agents, HookStep(a) \/ ReadFails(a) \/ Crashes(a) \/ RotateToken(a)
      PROVE  [Promise!Next]_(Promise!vars)
  <2>1. CASE Dies(a)
    BY <2>1, DiesSeen
  <2>2. Exits(a) \/ ReadFails(a) \/ Crashes(a) => Dies(a)
    BY DEF Exits, ReadFails, Crashes
  <2> QED
    BY <1>4, <2>1, <2>2, ListSeen, ReadFileSeen, PatchSentSeen, PatchedSeen, RotateSeen DEF HookStep
<1>5. ASSUME NEW r \in orphans, ExecuteOrphan(r) PROVE Promise!Next
  BY <1>5, OrphanSeen
<1>6. ASSUME NEW n \in Names, NEW c \in Clusters,
             CreateCredential(n, c, NoToken) \/ CreateCredential(n, c, Token(c, 0))
      PROVE  Promise!Next
  BY <1>6, CreateSeen
<1>7. ASSUME NEW n \in Names, DeleteCredential(n) PROVE Promise!Next
  BY <1>7, DeleteSeen
<1>8. ASSUME NEW c \in Clients \ Agents, Use(c) PROVE UNCHANGED Promise!vars
  BY <1>8, UseSeen
<1> QED
  BY <1>1, <1>2, <1>3, <1>4, <1>5, <1>6, <1>7, <1>8 DEF Next

\* PostStartTunnelAgent, through the proxy and with all that may fail on the way, makes
\* at most one update per run, to a credential of its cluster, with the token it read.
THEOREM Refinement == Spec => ImplementsPromise
<1>1. Init => Promise!Init
  BY DEF Init, ProxyInit, Absent, NoToken, Token, RunSeen, Seen, StageSeen, UpdateSeen, LeftSeen,
         Promise!Init, Promise!Absent, Promise!NoToken, Promise!Token, Promise!Run,
         Promise!NoUpdate, Promise!Update
<1> QED
  BY <1>1, Invariance, StepSeen, PTL DEF Spec, ImplementsPromise, Promise!Spec

-----------------------------------------------------------------------------
\* The token that a's next patch will have is at least this one.
Newest(a) == IF hook[a] \in {"patch", "patching"} THEN value[a].number ELSE tokenFile[a].number

\* No token of a is newer than that: none in a credential, none left behind.
Advance ==
  /\ \A n \in Names : credentials[n].token.number \in Nat
  /\ \A a \in Agents :
       /\ value[a].number <= tokenFile[a].number
       /\ \A n \in Names :
            credentials[n].token.cluster = a => credentials[n].token.number \in 0 .. Newest(a)
       /\ \A r \in orphans : r.token.cluster = a => r.token.number \in 0 .. Newest(a)

\* Only credential n is written.
Only(n) == n \in Names /\ \A m \in Names : m # n => credentials'[m] = credentials[m]

\* By an agent's patch, by one left behind, or by whoever creates and deletes credentials.
PatchWrites(c) ==
  /\ hook[c] = "patching" /\ credentials[item[c]].cluster = c
  /\ Only(item[c]) /\ credentials'[item[c]].token = value[c]
  /\ UNCHANGED <<hook, value, tokenFile, orphans>>

LateWrites(r) ==
  /\ r.name \in late' /\ Only(r.name) /\ credentials'[r.name].token = r.token
  /\ UNCHANGED <<hook, value, tokenFile>> /\ orphans' \subseteq orphans

OthersWrite(n) ==
  /\ Only(n) /\ ~ (Existing(n) /\ Existing(n)') /\ credentials'[n].token.number = 0
  /\ UNCHANGED <<hook, value, tokenFile, orphans>>

\* A write by an agent to its own credential.
LEMMA OneWrites ==
  ASSUME CredentialsInv, NEW a \in Agents, NEW n, NEW t, t.cluster = a, Owns(a, n), Replaces(n, t)
  PROVE  Only(n) /\ credentials'[n].token = t /\ credentials[n].cluster = a
<1>1. /\ credentials'[n].token = t
      /\ \A m \in Names : m # n => credentials'[m] = credentials[m]
  BY WriteOwn
<1> QED
  BY <1>1 DEF Only, Owns, Replaces

\* An agent's patch writes its token to its cluster's credential.
LEMMA ExecuteWrites ==
  ASSUME IInv, NEW c \in Clients, Execute(c), credentials' # credentials
  PROVE  c \in Agents /\ PatchWrites(c)
<1>1. At(c, "forwarded") /\ UNCHANGED <<hook, value, tokenFile, orphans>>
  BY DEF Execute, Executed
<1>2. /\ call[c].req.path = Path /\ call[c].req.method = "PATCH"
      /\ \E ok \in BOOLEAN : Write(call[c].req, ok)
  BY DEF Execute
<1>3. Write(call[c].req, TRUE)
  BY <1>2 DEF Write
<1>4. c \in Agents
  BY <1>1, <1>2, OthersAtBackend
<1>5. hook[c] = "patching" /\ call[c].req = PatchRequest(item[c], value[c]) /\ HookInv(c)
  <2>1. ListRequest(c).method = "GET"
    BY DEF ListRequest
  <2> QED
    BY <1>1, <1>2, <1>4, <2>1, AtBackend
<1>6. Owns(c, item[c]) /\ Replaces(item[c], value[c])
  BY <1>3, <1>5 DEF Write, PatchRequest, HookInv, Replaces
<1>7. /\ value[c].cluster = c /\ credentials[item[c]].cluster = c
      /\ credentials'[item[c]].token = value[c] /\ Only(item[c])
  <2>1. CredentialsInv /\ value[c].cluster = c
    BY <1>4 DEF IInv, TypeOK
  <2> DEFINE n == item[c]  t == value[c]
  <2>2. t.cluster = c /\ Owns(c, n) /\ Replaces(n, t)
    BY <1>6, <2>1
  <2> HIDE DEF n, t
  <2>3. Only(n) /\ credentials'[n].token = t /\ credentials[n].cluster = c
    BY <1>4, <2>1, <2>2, OneWrites
  <2> QED
    BY <2>1, <2>3 DEF n, t
<1> QED
  BY <1>1, <1>4, <1>5, <1>7 DEF PatchWrites

\* A patch left behind writes its token, and is marked as late.
LEMMA OrphanWrites ==
  ASSUME IInv, NEW r \in orphans, ExecuteOrphan(r), credentials' # credentials
  PROVE  LateWrites(r)
<1>1. /\ r.name \in late' /\ Replaces(r.name, r.token)
      /\ UNCHANGED <<hook, value, tokenFile>> /\ orphans' \subseteq orphans
  BY DEF ExecuteOrphan, Write, Replaces
<1>2. PICK a \in Agents : Owns(a, r.name) /\ r.token.cluster = a
  BY DEF IInv, OrphansInv, Harmless
<1>3. credentials'[r.name].token = r.token /\ Only(r.name)
  <2> DEFINE n == r.name  t == r.token
  <2>1. t.cluster = a /\ Owns(a, n) /\ Replaces(n, t)
    BY <1>1, <1>2
  <2>2. CredentialsInv
    BY DEF IInv
  <2> HIDE DEF n, t
  <2>3. credentials'[n].token = t /\ Only(n)
    BY <2>1, <2>2, OneWrites
  <2> QED
    BY <2>3 DEF n, t
<1> QED
  BY <1>1, <1>3 DEF LateWrites

\* A new credential has no token, or that of number 0.
LEMMA CreateWrites ==
  ASSUME IInv, NEW n \in Names, NEW c \in Clusters, NEW t \in {NoToken, Token(c, 0)},
         CreateCredential(n, c, t)
  PROVE  OthersWrite(n)
<1>1. /\ credentials[n].exists = "never" /\ credentials'[n] = NewCredential(c, t) /\ Only(n)
      /\ UNCHANGED <<hook, value, tokenFile, orphans>>
  BY DEF CreateCredential, Absent, proxyVars, IInv, CredentialsInv, Only
<1>2. NewCredential(c, t).token.number = 0
  BY DEF NewCredential, NoToken, Token
<1> QED
  BY <1>1, <1>2 DEF OthersWrite, Existing

\* A deleted one has none.
LEMMA DeleteWrites ==
  ASSUME IInv, NEW n \in Names, DeleteCredential(n)
  PROVE  OthersWrite(n)
<1>1. /\ credentials'[n] = Deleted /\ Only(n) /\ UNCHANGED <<hook, value, tokenFile, orphans>>
  BY DEF DeleteCredential, proxyVars, IInv, CredentialsInv, Only
<1>2. Deleted.exists = "past" /\ Deleted.token.number = 0
  BY DEF Deleted, Absent, NoToken, Token
<1> QED
  BY <1>1, <1>2 DEF OthersWrite, Existing

\* Nobody else writes.
LEMMA Writers ==
  ASSUME IInv, [Next]_vars
  PROVE  \/ UNCHANGED credentials
         \/ \E c \in Agents : PatchWrites(c)
         \/ \E r \in orphans : LateWrites(r)
         \/ \E n \in Names : OthersWrite(n)
<1>1. ASSUME NEW a \in Agents, HookStep(a) \/ ReadFails(a) \/ Crashes(a) \/ RotateToken(a)
      PROVE  UNCHANGED credentials
  BY <1>1 DEF HookStep, List, Listed, ReadFile, Patch, Patched, Exits, ReadFails, Crashes, Dies,
              RotateToken
<1>2. ASSUME NEW c \in Clients, Proxy(c) \/ Breaks(c) \/ Use(c) PROVE UNCHANGED credentials
  BY <1>2 DEF Proxy, Breaks, Use, hookVars
<1>3. CASE Starts \/ (ServerDies /\ UNCHANGED hookVars)
  BY <1>3 DEF Starts, hookVars
<1>4. CASE UNCHANGED vars
  BY <1>4 DEF vars, hookVars
<1>5. CASE \E n \in Names, c \in Clusters :
             CreateCredential(n, c, NoToken) \/ CreateCredential(n, c, Token(c, 0))
  BY <1>5, CreateWrites
<1>6. CASE \E n \in Names : DeleteCredential(n)
  BY <1>6, DeleteWrites
<1>7. CASE \E c \in Clients : Execute(c)
  BY <1>7, ExecuteWrites
<1>8. CASE \E r \in orphans : ExecuteOrphan(r)
  BY <1>8, OrphanWrites
<1> QED
  BY <1>1, <1>2, <1>3, <1>4, <1>5, <1>6, <1>7, <1>8 DEF Next

\* The orphans that a step adds are patches with the token that their agent has sent.
LEMMA NewOrphans ==
  ASSUME IInv, [Next]_vars, NEW r \in orphans', r \notin orphans
  PROVE  \E a \in Agents : hook[a] = "patching" /\ r.token = value[a] /\ UNCHANGED tokenFile
<1>1. ASSUME NEW C \in SUBSET Clients, LeftBehind(C)
      PROVE  \E a \in Agents : hook[a] = "patching" /\ r.token = value[a]
  BY <1>1, LeftIsPrepared
<1>2. ASSUME NEW c \in Clients, Breaks(c) PROVE LeftBehind({c}) /\ UNCHANGED tokenFile
  BY <1>2 DEF Breaks, ProxyFault, DialFails, UpstreamBreaks, hookVars
<1>3. ASSUME ServerDies /\ UNCHANGED hookVars PROVE LeftBehind(Clients) /\ UNCHANGED tokenFile
  BY <1>3 DEF ServerDies, hookVars
<1>4. ASSUME NEW a \in Agents, HookStep(a) \/ ReadFails(a) \/ Crashes(a) \/ RotateToken(a)
      PROVE  LeftBehind({a}) /\ UNCHANGED tokenFile
  BY <1>4 DEF HookStep, List, Listed, ReadFile, Patch, Patched, Exits, ReadFails, Crashes, Dies,
              Leaves, Send, Takes, RotateToken, proxyVars
<1>5. CASE \/ \E c \in Clients : Proxy(c) \/ Execute(c)
           \/ Starts
           \/ \E q \in orphans : ExecuteOrphan(q)
           \/ \E n \in Names, c \in Clusters :
                CreateCredential(n, c, NoToken) \/ CreateCredential(n, c, Token(c, 0))
           \/ \E n \in Names : DeleteCredential(n)
           \/ \E c \in Clients \ Agents : Use(c)
           \/ UNCHANGED vars
  BY <1>5 DEF Proxy, ProxyStep, healthz, Forward, Reply, Execute, Executed,
              Starts, ServerStarts, ExecuteOrphan, CreateCredential,
              DeleteCredential, Use, Send, Takes, proxyVars, vars
<1>6. Agents \subseteq Clients
  BY HookAssumption
<1> QED
  BY <1>1, <1>2, <1>3, <1>4, <1>5, <1>6 DEF Next

\* What is read from the file, or given up, makes the newest token no older.
LEMMA NewestGrows ==
  ASSUME IInv, Advance, [Next]_vars, NEW a \in Agents
  PROVE  /\ Newest(a) <= Newest(a)' /\ value'[a].number <= tokenFile'[a].number
         /\ Newest(a) \in Nat /\ Newest(a)' \in Nat
<1>1. /\ value[a].number <= tokenFile[a].number
      /\ value[a].number \in 0 .. MaxTokens /\ tokenFile[a].number \in 0 .. MaxTokens
      /\ MaxTokens \in Nat
  BY Has, HookAssumption DEF Advance
<1>2. CASE UNCHANGED <<hook[a], value[a], tokenFile[a]>>
  BY <1>1, <1>2 DEF Newest
<1>3. CASE ReadFile(a)
  <2>1. /\ hook[a] = "read" /\ hook'[a] = "patch"
        /\ value'[a] = tokenFile[a] /\ tokenFile'[a] = tokenFile[a]
    BY <1>3 DEF ReadFile, Goes, IInv, TypeOK, TokensTyped
  <2> QED
    BY <1>1, <2>1 DEF Newest
<1>4. CASE List(a) \/ Listed(a) \/ Patch(a) \/ Patched(a)
  <2>1. /\ value'[a] = value[a] /\ tokenFile'[a] = tokenFile[a]
        /\ hook'[a] \in {"patch", "patching"} => hook[a] \in {"patch", "patching"}
    BY <1>4 DEF List, Listed, Patch, Patched, Goes, IInv, TypeOK
  <2> QED
    BY <1>1, <2>1 DEF Newest
<1>5. CASE Dies(a)
  <2>1. hook'[a] = "list" /\ value'[a] = Token(a, 0) /\ tokenFile'[a] = tokenFile[a]
    BY <1>5 DEF Dies, IInv, TypeOK, TokensTyped
  <2> QED
    BY <1>1, <2>1 DEF Newest, Token
<1>6. CASE RotateToken(a)
  <2>1. hook'[a] = hook[a] /\ value'[a] = value[a]
    BY <1>6 DEF RotateToken
  <2>2. tokenFile'[a].number = tokenFile[a].number + 1
    <3>1. tokenFile[a] = [cluster |-> a, number |-> tokenFile[a].number]
      BY Has DEF Token
    <3>2. tokenFile'[a] = [tokenFile[a] EXCEPT !.number = @ + 1]
      BY <1>6 DEF RotateToken, IInv, TokensTyped
    <3> QED
      BY <3>1, <3>2
  <2> QED
    BY <1>1, <2>1, <2>2 DEF Newest
<1>7. ASSUME NEW b \in Agents, b # a, HookStep(b) \/ Dies(b) \/ RotateToken(b)
      PROVE  UNCHANGED <<hook[a], value[a], tokenFile[a]>>
  BY <1>7 DEF HookStep, List, Listed, ReadFile, Patch, Patched, Exits, Dies, Goes, RotateToken,
              IInv, TypeOK, TokensTyped
<1>8. ASSUME NEW b \in Agents, Exits(b) \/ ReadFails(b) \/ Crashes(b)
      PROVE  Dies(b)
  BY <1>8 DEF Exits, ReadFails, Crashes
<1>9. CASE \/ \E c \in Clients : Proxy(c) \/ Breaks(c) \/ Execute(c)
           \/ Starts
           \/ ServerDies /\ UNCHANGED hookVars
           \/ \E r \in orphans : ExecuteOrphan(r)
           \/ \E n \in Names, c \in Clusters :
                CreateCredential(n, c, NoToken) \/ CreateCredential(n, c, Token(c, 0))
           \/ \E n \in Names : DeleteCredential(n)
           \/ \E c \in Clients \ Agents : Use(c)
           \/ UNCHANGED vars
  <2>1. UNCHANGED <<hook, value, tokenFile>>
    BY <1>9 DEF Proxy, Breaks, Execute, Starts, ExecuteOrphan, CreateCredential,
                DeleteCredential, Use, hookVars, vars
  <2> QED
    BY <1>2, <2>1
<1>10. CASE \E b \in Agents : HookStep(b) \/ ReadFails(b) \/ Crashes(b) \/ RotateToken(b)
  BY <1>2, <1>3, <1>4, <1>5, <1>6, <1>7, <1>8, <1>10 DEF HookStep
<1> QED
  BY <1>9, <1>10 DEF Next

\* A number that is written is that of an agent's token, or zero.
LEMMA NumbersWritten ==
  ASSUME IInv, Advance, [Next]_vars, NEW n \in Names
  PROVE  credentials'[n].token.number \in Nat
<1>1. credentials[n].token.number \in Nat
  BY DEF Advance
<1>2. CASE \E c \in Agents : PatchWrites(c)
  BY <1>1, <1>2, Has DEF PatchWrites, Only
<1>3. CASE \E r \in orphans : LateWrites(r)
  <2>1. PICK r \in orphans : LateWrites(r)
    BY <1>3
  <2>2. PICK a \in Agents : r.token.cluster = a
    BY DEF IInv, OrphansInv, Harmless
  <2>3. r.token.number \in Nat
    BY <2>2, Has, HookAssumption DEF Advance, Newest
  <2> QED
    BY <1>1, <2>1, <2>3 DEF LateWrites, Only
<1>4. CASE \E m \in Names : OthersWrite(m)
  BY <1>1, <1>4 DEF OthersWrite, Only
<1> QED
  BY <1>1, <1>2, <1>3, <1>4, Writers

\* Advance is kept by every step.
LEMMA AdvanceInductive == IInv /\ Advance /\ [Next]_vars => Advance'
<1> SUFFICES ASSUME IInv, Advance, [Next]_vars, NEW a \in Agents
             PROVE  /\ value'[a].number <= tokenFile'[a].number
                    /\ \A n \in Names : credentials'[n].token.cluster = a =>
                         credentials'[n].token.number \in 0 .. Newest(a)'
                    /\ \A r \in orphans' : r.token.cluster = a =>
                         r.token.number \in 0 .. Newest(a)'
  BY NumbersWritten DEF Advance
<1>1. /\ value'[a].number <= tokenFile'[a].number /\ Newest(a) <= Newest(a)'
      /\ Newest(a) \in Nat /\ Newest(a)' \in Nat
  BY NewestGrows
<1>2. \A k \in 0 .. Newest(a) : k \in 0 .. Newest(a)'
  BY <1>1
<1>3. \A b \in Agents : hook[b] = "patching" /\ value[b].cluster = a =>
        value[b].number \in 0 .. Newest(a)
  BY Has DEF Newest, IInv, TypeOK
<1>4. ASSUME NEW r \in orphans', r.token.cluster = a PROVE r.token.number \in 0 .. Newest(a)
  BY <1>3, <1>4, NewOrphans DEF Advance
<1>5. ASSUME NEW n \in Names, credentials'[n].token.cluster = a
      PROVE  credentials'[n].token.number \in 0 .. Newest(a)
  <2>1. CASE credentials'[n] = credentials[n]
    BY <1>5, <2>1 DEF Advance
  <2>2. CASE \E c \in Agents : PatchWrites(c)
    BY <1>3, <1>5, <2>1, <2>2 DEF PatchWrites, Only
  <2>3. CASE \E r \in orphans : LateWrites(r)
    BY <1>5, <2>1, <2>3 DEF LateWrites, Only, Advance
  <2>4. CASE \E m \in Names : OthersWrite(m)
    BY <1>1, <1>5, <2>1, <2>4 DEF OthersWrite, Only
  <2> QED
    BY <2>1, <2>2, <2>3, <2>4, Writers
<1> QED
  BY <1>1, <1>2, <1>4, <1>5

\* No token in a credential is newer than the one that the agent's next patch has.
LEMMA NothingNewer == Spec => []Advance
<1>1. Init => Advance
  BY HookAssumption DEF Init, ProxyInit, Advance, Newest, Absent, NoToken, Token
<1> QED
  BY <1>1, AdvanceInductive, Invariance, PTL DEF Spec

\* An agent's patch never replaces a token by an older one, whatever was rotated while it
\* was slow and whatever earlier runs have written: only a patch left behind does that.
THEOREM NoStepBack == Spec => TokensAdvance
<1> DEFINE A == \A n \in Names : Existing(n) /\ Existing(n)' =>
                   credentials[n].token.number <= credentials'[n].token.number \/ n \in late'
<1>1. ASSUME IInv, Advance, [Next]_vars PROVE A
  <2> SUFFICES ASSUME NEW n \in Names, Existing(n), Existing(n)', n \notin late'
               PROVE  credentials[n].token.number <= credentials'[n].token.number
    OBVIOUS
  <2>1. CASE credentials'[n] = credentials[n]
    BY <1>1, <2>1 DEF Advance
  <2>2. ASSUME NEW c \in Agents, PatchWrites(c), n = item[c]
        PROVE  credentials[n].token.number <= credentials'[n].token.number
    <3>1. credentials'[n].token.number = Newest(c) /\ credentials[n].cluster = c
      BY <2>2 DEF PatchWrites, Newest
    <3>2. CASE credentials[n].token.cluster = c
      BY <1>1, <3>1, <3>2, NewestGrows DEF Advance
    <3>3. CASE credentials[n].token = NoToken
      BY <1>1, <3>1, <3>3, NewestGrows DEF NoToken, Token
    <3> QED
      BY <1>1, <3>1, <3>2, <3>3 DEF IInv, CredentialsInv, OwnTokensOnly
  <2> QED
    BY <1>1, <2>1, <2>2, Writers DEF PatchWrites, LateWrites, OthersWrite, Only
<1>2. IInv /\ Advance /\ [Next]_vars => [A]_vars
  BY <1>1
<1> QED
  BY <1>2, Invariance, NothingNewer, PTL DEF Spec, TokensAdvance

=============================================================================
