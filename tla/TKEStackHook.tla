---------------------------- MODULE TKEStackHook ----------------------------
(***************************************************************************)
(* PostStartTunnelAgent of the TKEStack provider, pkg/tunnel/hook/tkestack,*)
(* through the reverse proxy, as an agent executes it that has been given  *)
(* the provider: the token of its cluster is written to the credential     *)
(* that the hub cluster keeps for it.  An error makes the agent exit, and  *)
(* it is started again.  Other processes use the proxy at the same time.   *)
(***************************************************************************)
EXTENDS ReverseProxy, ClusterCredentials, FiniteSetsExt

ASSUME HookAssumption ==
  /\ Agents \subseteq Clients \cap Clusters
  /\ Names \subseteq Nat
  /\ MaxTokens \in Nat \ {0}

VARIABLES
  hook,         \* hook[a]: the step of PostStartTunnelAgent that a is at
  item,         \* item[a]: the name of the credential it found
  value,        \* value[a]: the token it read
  tokenFile,    \* tokenFile[a]: the token in the file
  credentials,  \* credentials[n]: the credential of name n in the API server
  late          \* names of credentials that an orphan was the last to write

hookVars == <<hook, item, value, tokenFile, credentials, late>>
vars == <<proxyVars, hookVars>>

Init ==
  /\ ProxyInit
  /\ hook = [a \in Agents |-> "list"]
  /\ item = [a \in Agents |-> 0]
  /\ value = [a \in Agents |-> Token(a, 0)]
  /\ tokenFile = [a \in Agents |-> Token(a, 1)]
  /\ credentials = [n \in Names |-> Absent]
  /\ late = {}

Existing(n) == credentials[n].exists = "now"

-----------------------------------------------------------------------------
(* The hook.                                                               *)

Path == "/apis/platform.tkestack.io/v1/clustercredentials"
ListRequest(a) == [method |-> "GET", path |-> Path, clusterName |-> a]
PatchRequest(n, v) == [method |-> "PATCH", path |-> Path, name |-> n, token |-> v]

Goes(a, from, to) == hook[a] = from /\ hook' = [hook EXCEPT ![a] = to]

List(a) ==
  /\ Goes(a, "list", "listing")
  /\ Send(a, ListRequest(a))
  /\ UNCHANGED <<item, value, tokenFile, credentials, late>>

Takes(a) ==
  /\ At(a, "answered")
  /\ call' = [call EXCEPT ![a] = NoCall]
  /\ UNCHANGED <<serving, orphans, faults>>

\* Several credentials are as good as one: the first is taken.
Listed(a) ==
  /\ Goes(a, "listing", "read")
  /\ Takes(a)
  /\ call[a].result.ok /\ call[a].result.items # {}
  /\ item' = [item EXCEPT ![a] = Min(call[a].result.items)]
  /\ UNCHANGED <<value, tokenFile, credentials, late>>

\* Mutant: the error of the read is not looked at, the token is empty.
ReadFileUnchecked(a) ==
  /\ Goes(a, "read", "patch")
  /\ \E token \in {tokenFile[a], Token(a, 0)} : value' = [value EXCEPT ![a] = token]
  /\ UNCHANGED <<item, tokenFile, credentials, late, proxyVars>>

ReadFile(a) ==
  /\ Goes(a, "read", "patch")
  /\ value' = [value EXCEPT ![a] = tokenFile[a]]
  /\ UNCHANGED <<item, tokenFile, credentials, late, proxyVars>>

Patch(a) ==
  /\ Goes(a, "patch", "patching")
  /\ Send(a, PatchRequest(item[a], value[a]))
  /\ UNCHANGED <<item, value, tokenFile, credentials, late>>

\* Mutant: the error of the patch is not looked at.
PatchedUnchecked(a) ==
  /\ Goes(a, "patching", "done")
  /\ Takes(a)
  /\ UNCHANGED <<item, value, tokenFile, credentials, late>>

Patched(a) ==
  /\ Goes(a, "patching", "done")
  /\ Takes(a) /\ call[a].result.ok
  /\ UNCHANGED <<item, value, tokenFile, credentials, late>>

\* The process of a ends, and is started again.
Dies(a) ==
  /\ hook' = [hook EXCEPT ![a] = "list"]
  /\ item' = [item EXCEPT ![a] = 0]
  /\ value' = [value EXCEPT ![a] = Token(a, 0)]
  /\ Leaves(a)
  /\ UNCHANGED <<tokenFile, credentials, late>>

\* Mutant: a patch that fails is tried again.
ExitsButRepatches(a) ==
  /\ At(a, "answered")
  /\ \/ hook[a] = "listing" /\ (~ call[a].result.ok \/ call[a].result.items = {})
        /\ Dies(a) /\ UNCHANGED faults
     \/ hook[a] = "patching" /\ ~ call[a].result.ok
        /\ hook' = [hook EXCEPT ![a] = "patch"] /\ Takes(a)
        /\ UNCHANGED <<item, value, tokenFile, credentials, late>>

\* The call failed, or there is no credential yet.
Exits(a) ==
  /\ At(a, "answered")
  /\ \/ hook[a] \in {"listing", "patching"} /\ ~ call[a].result.ok
     \/ hook[a] = "listing" /\ call[a].result.items = {}
  /\ Dies(a)
  /\ UNCHANGED faults

ReadFails(a) == hook[a] = "read" /\ Fault /\ Dies(a)

Crashes(a) == hook[a] # "list" /\ Fault /\ Dies(a)

HookStep(a) ==
  List(a) \/ Listed(a) \/ ReadFile(a) \/ Patch(a) \/ Patched(a) \/ Exits(a)

-----------------------------------------------------------------------------
(* The API server.                                                         *)

\* Mutant: the field selector is dropped.
ItemsOfAll(clusterName) == {n \in Names : Existing(n)}

\* The credentials of a cluster; they are listed in the order of their names.
Items(clusterName) == {n \in Names : Existing(n) /\ credentials[n].cluster = clusterName}

\* A "replace" of a token that is not there succeeds or fails, which has been
\* different in different versions of the API server.
Write(r, ok) ==
  /\ ok => Existing(r.name)
  /\ ~ ok => ~ Existing(r.name) \/ credentials[r.name].token = NoToken
  /\ credentials' = IF ok THEN [credentials EXCEPT ![r.name].token = r.token]
                    ELSE credentials

\* The request of client c is executed.
Execute(c) ==
  LET r == call[c].req IN
  /\ \/ /\ r.path # Path
        /\ Executed(c, Succeeded({}))
        /\ UNCHANGED <<credentials, late>>
     \/ /\ r.path = Path /\ r.method = "GET"
        /\ Executed(c, Succeeded(Items(r.clusterName)))
        /\ UNCHANGED <<credentials, late>>
     \/ /\ r.path = Path /\ r.method = "PATCH"
        /\ \E ok \in BOOLEAN :
             /\ Write(r, ok)
             /\ Executed(c, IF ok THEN Succeeded({}) ELSE Failed)
             /\ late' = IF ok THEN late \ {r.name} ELSE late
  /\ UNCHANGED <<hook, item, value, tokenFile>>

\* A request that nobody waits for is executed after all, or is not.  Several runs may
\* have left the same behind, which count as one that may be executed again.
ExecuteOrphan(r) ==
  /\ r \in orphans /\ orphans' \in {orphans, orphans \ {r}}
  /\ \/ UNCHANGED <<credentials, late>>
     \/ /\ r.path = Path /\ r.method = "PATCH"
        /\ Write(r, TRUE)
        /\ late' = late \cup {r.name}
  /\ UNCHANGED <<serving, call, faults, hook, item, value, tokenFile>>

\* Names are generated and never used again.
CreateCredential(n, c, token) ==
  /\ credentials[n] = Absent
  /\ credentials' = [credentials EXCEPT ![n] = NewCredential(c, token)]
  /\ UNCHANGED <<proxyVars, hook, item, value, tokenFile, late>>

DeleteCredential(n) ==
  /\ Existing(n)
  /\ credentials' = [credentials EXCEPT ![n] = Deleted]
  /\ late' = late \ {n}
  /\ UNCHANGED <<proxyVars, hook, item, value, tokenFile>>

\* The kubelet writes a new token.
RotateToken(a) ==
  /\ tokenFile[a].number < MaxTokens
  /\ tokenFile' = [tokenFile EXCEPT ![a].number = @ + 1]
  /\ UNCHANGED <<proxyVars, hook, item, value, credentials, late>>

-----------------------------------------------------------------------------
(* Other clients.                                                          *)

Calls == {[method |-> "GET", path |-> "/v1/healthz"], [method |-> "POST", path |-> "/norm/api"]}

Use(c) ==
  /\ \/ \E r \in Calls : Send(c, r)
     \/ At(c, "answered") /\ Takes(c)
  /\ UNCHANGED hookVars

Proxy(c) == ProxyStep(c) /\ UNCHANGED hookVars

Breaks(c) == ProxyFault(c) /\ UNCHANGED hookVars

Starts == ServerStarts /\ UNCHANGED hookVars

Next ==
  \/ \E c \in Clients : Proxy(c) \/ Breaks(c) \/ Execute(c)
  \/ ServerDies /\ UNCHANGED hookVars
  \/ Starts
  \/ \E a \in Agents : HookStep(a) \/ ReadFails(a) \/ Crashes(a) \/ RotateToken(a)
  \/ \E r \in orphans : ExecuteOrphan(r)
  \/ \E n \in Names, c \in Clusters :
       CreateCredential(n, c, NoToken) \/ CreateCredential(n, c, Token(c, 0))
  \/ \E n \in Names : DeleteCredential(n)
  \/ \E c \in Clients \ Agents : Use(c)

Spec == Init /\ [][Next]_vars

\* Goroutines run, server and agents are started again, and the API
\* server answers the agents.  Nobody else need be answered: a request that has
\* been forwarded is under no timeout.
FairSpec ==
  /\ Spec
  /\ WF_vars(Starts)
  /\ \A c \in Clients : WF_vars(Proxy(c))
  /\ \A a \in Agents : WF_vars(HookStep(a)) /\ WF_vars(Execute(a))

-----------------------------------------------------------------------------
TypeOK ==
  /\ serving \in BOOLEAN
  /\ \A c \in Clients : call[c].at \in {"none", "sent", "forwarded", "executed", "answered"}
  /\ faults \in 0 .. MaxFaults
  /\ hook \in [Agents -> {"list", "listing", "read", "patch", "patching", "done"}]
  /\ item \in [Agents -> Names \cup {0}]
  /\ \A a \in Agents : \A t \in {value[a], tokenFile[a]} :
       t.cluster = a /\ t.number \in 0 .. MaxTokens
  /\ \A n \in Names : credentials[n].exists \in {"never", "now", "past"}
  /\ late \subseteq Names

\* Whatever is deleted, created, or late: a credential has no other cluster's
\* token, although the patch names a credential that was looked up before.
OwnTokensOnly ==
  \A n \in Names : credentials[n].token # NoToken =>
    credentials[n].token.cluster = credentials[n].cluster

\* An agent whose hook is done has written the token it read; while the credential
\* is there, only a request left behind by an earlier run can have undone that.
DoneMeansWritten ==
  \A a \in Agents : hook[a] = "done" /\ Existing(item[a]) =>
    credentials[item[a]].token = value[a] \/ item[a] \in late

\* A token gives way to an older one only by a request left behind: neither a run that
\* is slow to patch what it has read nor one that starts afresh ever undoes a rotation.
TokensAdvance ==
  [][\A n \in Names : Existing(n) /\ Existing(n)' =>
       credentials[n].token.number <= credentials'[n].token.number \/ n \in late']_vars

\* How far the run of a is, seen from the credentials: what fails after the token was
\* read is given up, be the update made or not.
StageSeen(a) ==
  CASE hook[a] = "done"     -> "done"
    [] hook[a] = "patch"    -> "prepared"
    [] hook[a] = "patching" -> IF At(a, "sent") \/ At(a, "forwarded") THEN "prepared"
                               ELSE IF call[a].result.ok THEN "written" ELSE "open"
    [] OTHER                -> "open"

UpdateSeen(a) ==
  IF StageSeen(a) = "open" THEN [name |-> 0, token |-> NoToken]
  ELSE [name |-> item[a], token |-> value[a]]

Seen(a) == [at |-> StageSeen(a), update |-> UpdateSeen(a)]

RunSeen == [a \in Agents |-> Seen(a)]

LeftSeen == {[name |-> r.name, token |-> r.token] : r \in orphans}

Promise == INSTANCE CredentialUpdate WITH run <- RunSeen, left <- LeftSeen

\* The hook, with all that the proxy may do to its requests, implements
\* CredentialUpdate: each run makes at most one update, with the token it read.
ImplementsPromise == Promise!Spec

\* A health probe is answered although no backend answers it.
ProbesAnswered ==
  \A c \in Clients :
    At(c, "sent") /\ call[c].req = [method |-> "GET", path |-> "/v1/healthz"] ~>
      At(c, "answered")

\* If there comes to be a credential for a cluster, with a token, and it stays the
\* first, the agent's hook succeeds for good, whatever failed before.
HookSucceeds ==
  \A a \in Agents :
    <>[](Items(a) # {} /\ credentials[Min(Items(a))].token # NoToken) =>
      <>[](hook[a] = "done")
=============================================================================
