# TLA+ specifications of tke-excalibur

This directory specifies, checks and proves what the tunnel between a hub
cluster and its registered clusters depends on: that every process gets its
certificate, that server and agent agree on the server's identity, and that
the tunnel comes up again after whatever broke it.

## The system

    registered cluster                      hub cluster
    +-----------------+                     +------------------------------------------+
    |  tunnel agent   |---- 10262 tunnel -->|  tunnel server                           |
    |  cert manager   |---- 10261 proxy --->|    reverse proxy ---------> API server   |
    +-----------------+                     |    cert manager ----------> (CSRs,       |
                                            |    CSR approver <--------->  service,    |
       front / API server -- 10263, UDS --->|    ANP proxy server          endpoints)  |
                                            +------------------------------------------+

| Component | Source | State | Operations | Correct when |
|---|---|---|---|---|
| CSR approver | `pkg/tunnel/pki/certmanager/csrapprover.go` | informer cache, rate limited queue, two workers and the call each has pending | watch events, resync, `processNextItem`, `approveTunnelCSR`, `UpdateApproval` and its failures, stop | every tunnel CSR is approved unless somebody decided on it; nothing else is; no decision is overwritten |
| Certificate managers | `.../certmanager.go` | template (names, IPs), certificate, outstanding CSR | create a CSR, receive the certificate, rotate, give up | every process gets a certificate, and a new one in time |
| Server address | `pkg/tunnel/server/serveraddr/addr.go` | none; it reads service, endpoints and nodes | derive the names and IPs to certify, derive the address to dial | what the agent dials is what the certificate names |
| Tunnel server | `pkg/tunnel/server/{cmd,anpserver,server}.go` | step of its start, open ports, approver | `run`, step by step; failures to listen; crash | it comes up, although it waits for itself |
| Reverse proxy | `.../reverse_proxy_server.go` | its port; calls in flight; per request a transport with one connection | start; route, forward, answer | agents reach the API server before they have a certificate; every call is answered or fails, and none is made twice |
| Tunnel agent | `pkg/tunnel/agent/{cmd,anpagent}.go` | step of its start, client, hooks, connection | `complete`, `run`, connect, reconnect, crash | it connects and stays connected |
| TLS configuration | `pkg/tunnel/pki/pki.go` | what `Current()` returns in each handshake, the CA certificates read at the start | read the CA file, handshake | each side accepts the other |
| Clients | `pkg/tunnel/k8s/clientset.go` | none | build a client | the agent's client reaches the hub cluster |
| Hooks | `pkg/tunnel/hook/**` | step of the TKEStack hook, the credential it found and the token it read | execute before and after the start; look up a credential, patch its token | they are executed; a cluster's token gets into its own credential |
| Tunnel client | `cmd/excalibur-tunnel-client/client.go` | one connection, for all requests and a signal handler; the places that the transport keeps it idle for | dial, request, redirect, signal | its verdict on the tunnel is right, the transport has the connection once, and a signal ends it |

They interact through objects in the hub cluster's API server (CSRs, the
service and its endpoints), TCP connections with mutual TLS, channels that stop
them, and, within the server, the informer's cache and the work queue.

What is hard here: the approver changes objects of the informer's cache before
the API server has agreed, and its retries look at those same objects;
watch events race with workers; the server waits for a certificate that only
its own approver can approve; an agent gets its certificate through a proxy
that exists only once the server has one; certificates expire and processes
die at any step of all that; the identity that the server has certified is
read at another time than the address that the agent dials; a CA file that yields nothing is
no error; a patch whose agent
has died may be executed after that of its successor; and the test client's signal
handler reads a connection that another goroutine is about to make, and whose
transport may dial again while it has it. `PROJECT.json`
lists these hazards at their lines, with the properties that look for each.

## Modules

| Module | What it is |
|---|---|
| `CSRObjects` | CSR objects and the two predicates of the approver on them |
| `CSRApproval` | the promise of the approver: single approvals of undecided tunnel CSRs, among what other parties do |
| `CSRApprover` | the approver itself, with informer, queue, workers and API server |
| `CSRApproverProofs` | its theorems |
| `ServerAddr` | the operators of `addr.go` |
| `ServerAddrProofs` | what these operators return, for objects of any size |
| `ServerIdentity` | server and agent reading changing objects, and the handshake they are for |
| `ServerIdentityProofs` | theorems about `ServerIdentity` |
| `HubCluster` | what server and agents share: CSRs, certificate managers, open ports |
| `TunnelServer`, `TunnelAgent` | the steps of either side's start |
| `TunnelSystem` | both composed, with faults; the approver by `CSRApproval` |
| `Registration` | what server and agents promise, seen from outside: certified, open, connected |
| `TunnelSystemProofs` | theorems about `TunnelSystem`, that it implements `Registration` among them |
| `ReverseProxy` | routes, calls, the requests that calls leave behind at a backend, and their failures |
| `ClusterCredentials` | credentials and the tokens in them |
| `CredentialUpdate` | the promise of the hook: at most one update per run, of its own cluster's credential and with the token read |
| `TKEStackHook` | the TKEStack hook as a client of the proxy, the credentials and tokens it is about, and another client |
| `TKEStackHookProofs` | theorems about `TKEStackHook` and the proxy under it |
| `TKEStackHookRefinement` | the proof that `TKEStackHook` implements `CredentialUpdate`, and that tokens advance |
| `TunnelClient` | the test client: options, both dialers, requests and redirects, signal handler |
| `TunnelClientProofs` | theorems about `TunnelClient` |
| `MinLemmas` | least elements of sets of naturals, and induction as a statement about sets |
| `MC*` | values for the constants of `CSRApprover`, `ServerIdentity`, `TunnelSystem`, `TKEStackHook`, `TunnelClient` |

An operator whose comment starts with "Mutant" is a wrong version of the
definition after it, used to see that the properties can fail.

### CSRApprover

`cache[c]` is the one object that the lister hands to everybody, so `Approve`
(the code up to `UpdateApproval`) changes `cache` as well as `sent`, and the
outcome of the call is an action of its own: `UpdateSucceeds`,
`UpdateConflicts` (the version is not the current one), `UpdateDropped` (an error
and no effect), `UpdateReplyLost` (an error after the effect). `Retry` is the
error path: it enqueues the key and leaves the cached object as it is. `queue`,
`dirty` and `processing` are those of client-go's work queue; `waiting` holds
what `AddRateLimited` delays. Watch events deliver the current object
(`Deliver`), several changes as one; a broken watch is a new `List`. `Resync`
is the 10s resync, which hands out the same cached pointer again.

Reductions: the lookup in the lister, the checks and the append are one step,
`Skip` or `Approve`, as they touch no state of others but the cached object,
which `NoConcurrentApproval` shows to be the worker's own, and the informer
replaces pointers and never objects' contents. A call that was reported as failed
does not take effect later. Errors of the indexer and keys that are no strings
cannot occur. `Stop` is the closing of `stopCh`, which the programs as built
(`wait.NeverStop`) never do. Bounds: `MaxRev` stops other parties' writes (never
the approver's), `MaxFaults` each kind of fault.

### ServerAddr, ServerIdentity

The operators follow `addr.go` one by one on records for services, endpoints
and nodes; an IP is the string that parses to it, everything else parses to
`NilIP`, and an absent field is `Unset`. The loops that append what is set are `Only`, those that stop
at the first match `FirstIn`. `Service`, `Host` and `NodeAddress` say what the API server
admits and a kubelet reports: an ingress point or endpoint has an IP or none, a service of a type
that has a cluster IP has an IP there or "None", an `InternalIP` is one.
`Sprintf` says whether the result can be split again, which is false for
an IPv6 host. In `ServerIdentity` server and agent (`phase`, `view`) read service,
endpoints and nodes one at a time while `Change` alters them; `Request` fixes the
names of the certificate (`sans`) for the life of the process, `Derive` the
agent's address. `ReadFails`, `ExtractFails`, `DeriveFails` and `ConfigureFails`
are the error paths: the server polls again, the agent exits and is restarted.

### HubCluster, TunnelServer, TunnelAgent, TunnelSystem

`stage` and `agent[a]` name the next step of `run()`; the numbers in the comments
are those of the comments in the code. A certificate manager is `rotating` (about
to create a CSR), `waiting` for its certificate, or `resting`; a certificate is
`fresh`, `aging` once its rotation deadline has passed, or `expired`, when
`Current()` is nil. `ReachesAPI` and `Handshake` are evaluated anew for every call
and connection; a connection that stands is not affected by certificates.
Restarted containers have lost everything, the certificate directory included
(it is no volume in the manifests). `roots[a]` says for which TLS configurations agent `a`
found CA certificates in its file, which it reads twice: once for its client (`complete`), where a
failure is only logged, and once for the tunnel (`GenAgentTLSConfig`), where a file that
cannot be read makes it exit and one without a certificate goes unnoticed. A process has one CSR, named after it: one
that was given up concerns nobody. The approver is `CSRApproval`'s `AutoApprove`,
enabled while the server's informers run on a registered approver.

`Registration` looks at the same from outside: `ServerSeen` and `StatusSeen` forget
stages, steps, managers and the age of certificates, and what remains has seven
actions. An expired certificate, or one being renewed, is to be seen as little as
it disturbs a connection.

### ReverseProxy, TKEStackHook

`call[c]` is the call of client `c` (one at a time: HTTP/2 is switched off by the
empty `TLSNextProto`): `sent` to the handler, `forwarded` on a connection of a transport
made for it, `executed` at the backend, `answered`. What execution does is left to the
module that extends `ReverseProxy`. The transport of a call is not looked at: its connection
is dialed for the call alone, and whether it is then kept for 90s is of no consequence to any
other call, as there is a pool per request. How many idle connections that makes at a time
(`MaxIdleConns` bounds nothing) depends on the rate of the requests, and the model has no time.
`orphans` are patches that
were forwarded and whose client or proxy is gone: the API server may execute them later
or not at all. They are a set: if several runs have left the same patch behind, it stays and may be
executed again. net/http repeats a request only on a connection that was used
before, so a forwarded one is never repeated.

`hook[a]` is the step of `PostStartTunnelAgent`; its errors make `run` return, the
agent exits and is started again (`Exits`, `Dies`). The API server's list and JSON
patch are external: a "replace" of a token that is not there has failed or succeeded in
different versions, so both happen. Names of credentials are generated and not used
again. As `system_hooks` shows the programs as built never call the hook; the module
says what it does when it is called.

`CredentialUpdate` looks at the same from the credentials, without requests, answers, proxy and faults. A run
is `open` until the token is read, then `prepared`, `written` when the API server has
executed the patch, and `done`. `RunSeen` takes a run whose patch has failed, or whose answer was lost, for
given up at once, although its agent has yet to learn of it; `LeftSeen` takes the patches
at the API server for which nobody waits for updates that were given up.

### TunnelClient

`pc` walks through `run`: validate the options, read the TLS files, dial, send CONNECT
(or ask for a tunnel with grpc), build the client, then `testRequests` rounds of
request, answer and delay. `proxyConn` is the variable that the dialer's closure, the
requests and the signal goroutine share; `handler` is that goroutine. It is
there before the connection is, and the socket's dialer checks for nil where the mTLS
dialer does not. The read of `proxyConn` is not synchronized with its assignment, which writes
two words: what the race can yield is nil, the connection, or an interface that has its type and
no data. So the assignment is two steps, and between them `proxyConn` is `half`: the check for nil lets that
pass, and closing a nil pointer panics (that of a unix connection may also return an error).
`signal.Notify` without a list delivers every signal, the runtime's own included.

`Close` of a network connection releases whoever reads from it. In grpc mode the connection is
konnectivity-client's: `Close` asks the proxy and waits 10s, and the connection stays `closing`, with what is
blocked in a read on it, until the proxy's answer (`CloseResponse`), which the proxy also sends when
the target or the agent is gone.

The transport holds idle connections by scheme and host (`Places`); `idle` is the set of those
it has one for. A request to a place that has none makes it call the dialer, which has `handed` out the same
connection as before. `http.Client` follows redirects within `Do` (`Redirect`), to the
target again, to another of the `Hosts`, or with another scheme; after
`MaxRedirects` of them, or one that leads nowhere, the request fails. `Answerable` says when an
answer finds its request although connections share what they read: TLS on one of
them makes that impossible, and what is read where nobody asked for it closes the
connection (`Unsolicited`). A transport without
`IdleConnTimeout`, that of plain requests, keeps an idle connection for ever, the
Kubernetes client's for 90s: of the comment before the delay (`client.go:255`) only
the latter is true. `blame` records what happened that the client is not to blame for.

## Runs

| Run | Question and result |
|---|---|
| `approver_safety` | Two workers, two CSRs (symmetric), tunnel and foreign requests, three writes by others, every fault once: `TypeOK`, `NoConcurrentApproval`, `CacheCoherent`, `UpdateOverwritesNothing`, `NoLostWakeup` and the refinement `ImplementsApproval` hold. |
| `approver_liveness` | With a lost reply and a crash, but no call that fails without effect: `EveryTunnelCSRDecided`, `StopDrains` hold. |
| `approver_lost_approval` | One call that fails without effect: `EveryTunnelCSRDecided` is **violated**. The retry, and every resync, reads the condition that the failed attempt left in the cache, takes the CSR for approved, and leaves it so for ever. |
| `approver_no_organization` | `OnlyTunnelApproved` is **violated** by a request that has no organization at all. |
| `identity` | Eleven services of all types, endpoints and nodes, one change, one fault: `AgreementVerifies`, `DialsExposedIP`, `UnsignableByFlagOnly`, `IdentitySettles` hold: whatever mixture of old and new is read, and whatever fails, server and agent settle once the objects do. |
| `identity_stale` | `DerivedAddressConnects` is **violated**: the server reads its names once; after it was certified the load balancer's IP changes, and an agent that starts then dials the new IP, which no certificate of the running server names. |
| `system` | Server, an agent behind the proxy that derives its address and one without a client, three faults of any kind: `IInv`, `NoFutileWait`, `PortsCertified`, `RotationKeepsConnections`, the refinement `ImplementsRegistration`, and `ServerRecovers` and `AgentsRecover` hold: the server always comes back, and so does the agent unless the server has failed to open the reverse proxy's port, or the agent found no CA certificates (`Trusts`): then it dials, or waits, until somebody restarts it. |
| `system_listen_failure` | One port that cannot be opened: `TunnelsComeUp` is **violated**, as the error is only logged. |
| `system_hooks` | `HooksExecuted` is **violated**: `complete` sets the hook provider only if it is set. |
| `hook_via_proxy` | One agent's hook and one other client, credentials of two clusters under two names, two tokens, one fault besides any number of failing runs: `OwnTokensOnly`, `DoneMeansWritten`, `TokensAdvance`, the refinement `ImplementsPromise`, `ProbesAnswered`, `HookSucceeds` hold. |
| `client` | Every mode, up to three requests, delays round 90s, options at and past each limit, proxies of either mode, every failure, redirects to the target and elsewhere, and a signal at any step: `SharedElsewhereOnly`, `SuccessIsReal`, `FailureHasReason`, `PanicsOnlyUnconnected`, `LongDelayFails`, `SignalEnds`, `Finishes` hold. |
| `client_redirect` | Plain requests, one redirect: `NotShared` is **violated**. A redirect to another host makes the transport dial while it keeps the first connection, and the dialer hands it the same one, which the comment in `run` (`client.go:251-253`) excludes. |

Divergences met while modelling that have no run of their own: an annotation that
holds a DNS name is certified, but the agent takes an IP over every name and dials the cluster IP
(`addr.go:54-70`; `addr.go:94-95` and `161` say that the annotation is what is returned); a load balancer
with a hostname only makes the cluster IP the first IP (`addr.go:93` says
otherwise); an IPv6 address is derived without brackets (`addr.go:85`), and the
agent exits on it at every start (`ConfigureFails`); the annotation's port is
ignored, the service's is used; without `--apiserver-addr` the agent's hub client
is nil (`agent/cmd.go:126-133`, `AgentFails`); `--insecure-bind-address` has no effect, the
port without TLS is net/http's default (`MasterPorts`); a request for `/norm/api` arrives at the norm
service as `/norm/api/norm/api`, as the route's target repeats the prefix that the
proxy joins to it (`reverse_proxy_server.go:36,80`).

**Bounds.** Two workers and two CSRs are the code's `TunnelCSRApproverThreadiness`
and the least number of keys that can be confused; three writes by others let a CSR
be submitted, decided and withdrawn, or be submitted twice under one name, at any
point of a worker's step. In `identity` one change of one object between any two
reads makes every pair of views that differ in one object. In `system` three
faults let server and agent age together while one of them, or the network,
fails as well. Agents meet only in the server, so one that depends on the proxy and
one that never connects stand for more. In `hook_via_proxy` one fault leaves a patch behind
that overtakes that of the next run, or kills the server under a call; two names are the
least that can be confused. In `client` three requests make a first, a middle and a last round,
and two redirects (net/http follows ten) lead away and back or away twice, to one host that stands for all others; the
process is sequential but for one goroutine, and nothing of it grows. Where the bound is on safety alone, the theorems do without it.

**Deadlock** is checked for the approver, the hook and the client, whose end is a step of its own. The other systems come to rest once all
are connected, or the bounded changes are used up, so their runs do not check it;
that they do not rest earlier is what the liveness properties say.

**Fairness.** The Go scheduler runs every goroutine, timers fire, the watch
delivers, calls return, the signer signs, gRPC and the kubelet try again: the
corresponding actions are weakly fair, one conjunct per goroutine or timer. In the approver
`List` is fair only until the first list, as nothing makes a watch break. Nothing
makes another party write, a process stop or die, an object change, a
certificate age or expire, or a fault happen. In `TKEStackHook` the API server answers the
agents and need answer nobody else; in `TunnelClient` proxy and target need not answer at
all, and the properties that need answers have them as premises: of the proxy to the closing of the
connection in `SignalEnds` (in http-connect mode it is not needed), of both to everything in `Finishes`.

## Theorems

`CSRApproverProofs`, for all sets of workers, CSRs and requests and without a
bound on anything but what `MaxRev` and `MaxFaults` say (any numbers), from
`CSRApprover`'s `ConstantsAssumption` and the assumptions of `CSRObjects`:

- `TypeCorrect`, `NoRace`, `CacheStaysCoherent`, `NothingOverwritten`, `WakeupsKept`: the
  five invariants of `approver_safety`.
- `Refinement`: if every request names an organization, the approver implements
  `CSRApproval`. The premise is what `approver_no_organization` shows to be needed.

The invariants are not inductive. `IInv` adds what they rest on. `Versions`:
nobody holds a version newer than the API server's counter, so a write makes
every cached and pending version old. `Pending`: a pending call whose version is
still current is about a tunnel CSR without conditions; with `CacheCoherent` this gives
`UpdateOverwritesNothing` and the refinement. `KeysHeld` and `QueueDiscipline`: a
busy worker's key is in `processing`, the queue holds every dirty key that is not
processed, once, and no other; hence `Get` never hands out a key that is worked on
(`NoConcurrentApproval`), and a key that comes in meanwhile waits in `dirty` for
`Done` (`NoLostWakeup`). `WorkersStarted` excludes workers before the first list.

`TunnelSystemProofs`, for any set of agents, any options and any number of faults:

- `TypeCorrect`, `Invariance`: the inductive `IInv`. A server's stage tells what it has done
  since its last start (`StageInv`), so does an agent's step (`StepInv`), and a manager
  rests only on a fresh certificate (`RestInv`), so that whoever has none is being served.
- `NobodyWaitsInVain`, `PortsOpenCertified`, `ConnectionsKept`: `NoFutileWait`, `PortsCertified`
  and `RotationKeepsConnections`, from `IInv`.
  (That an agent which had to ask for the server's address trusts the API server is part of
  `StepInv`: it exits otherwise.)
- `Refinement`: `ImplementsRegistration`. Each action is a step of `Registration` or, if it keeps
  who has a certificate, who is connected and whether the agents' port is open (`Unseen`),
  not to be seen; `StageInv` and `StepInv` give the certificates that opening and
  connecting call for.

`TunnelClientProofs`, for any options and any proxy, from `CommandLinesAssumption`
and `RedirectsAssumption`:

- `TypeCorrect`, `Invariance`: the inductive `IInv`. `PcInv` is what the steps so far have
  settled: options validated, a proxy that serves them, a connection. `HandedInv` says that as long as the
  connection is open and no redirect has led elsewhere, the dialer has returned it once at most, and not at all only before the first
  request. `BlameInv` finds a cause for every connection that is lost, `DelayInv`
  follows the 90s of the Kubernetes client's transport.
- `SharedByRedirect`, `SuccessIsTrue`, `FailureIsTrue`, `PanicsExplained`, `OneAnswerAtMost`: the five
  safety properties of `client`, without its limits on rounds, ports, delays, hosts and redirects.

`ServerIdentityProofs` and `ServerAddrProofs`, for any services, endpoint lists and node lists that the
API server admits (`ObjectsAssumption`), any flags, and any number of changes and faults:

- `Invariance`: the inductive `IInv`. What a process goes by is a function of the view that it
  has read (`ServerDerived`, `AgentDerived`), and that view is complete (`ViewsComplete`), though its
  parts may be of different times; so it does not matter what the objects become, and
  the rest is about operators. An agent with a flag has read nothing and keeps its
  address (`FlagKept`).
- `TypeCorrect`, `AgreementIsEnough`, `ExposedIsDialed`, `ObjectsAreSignable`: the four invariants of
  `identity`. They follow from `IInv` and three lemmas: for each type of service
  the first IPs found are just those that it is exposed by (`FromExposes`); all that
  is found is an IP or a name, never nil (`FoundInOrder`, `FoundSignable`); and if a
  beginning of the list has an IP that the agent can dial, what follows does not
  change its choice (`DerivedFromPrefix`), which is why the endpoints matter only for a service
  without an IP of its own (`DerivedIsNamed`).
- `OnlyProperties`: the filter, a recursive function, returns just the elements asked for. The
  induction on the length of the sequence is one on a set of naturals
  (`NextReachesAll` in `MinLemmas`); that the recursive function has a value at all is
  `KeptExists`.

`StringsAssumption` says only that the default names are strings, which the provers do not see.
The properties speak of IPs other than the loopback address, because the code passes over it
wherever it comes from.

`TKEStackHookProofs`, for any agents, clusters, other clients and credentials, and any
number of tokens and faults, from `HookAssumption` and `FaultsAssumption`:

- `Invariance`: the inductive `IInv`, which follows a request through the proxy. What an agent's run
  has looked up is its own cluster's, if it is still there (`Owns`); its requests on
  their way, and the answers to them, are those of the hook's current step (`HookInv`), so that
  an answer is never taken for another's; every patch left behind carries a token of the cluster
  whose credential it names (`Harmless`, `OrphansInv`); other clients touch no
  credential (`OthersInv`); and a token that a run has had confirmed is written unless an
  orphan may come, or has come, later (`Written`).
- `TypeCorrect`, `TokensStayHome`, `DoneIsWritten`: the three invariants of `hook_via_proxy`.

`TKEStackHookRefinement`, from the same `IInv` and assumptions:

- `Refinement`: `ImplementsPromise`. The steps of the proxy and of listing are not to be seen
  (`ProxySeen`, `ListSeen`); a patch that is executed is the update that was prepared, because `HookInv` ties the
  request to what the run has looked up and read (`PatchSeen`); whatever fails is one `GiveUp`, also of several
  agents when the server dies, and leaves behind nothing that was not prepared (`LeftIsPrepared`, `GivenUp`);
  `Owns` and `Harmless` give the guard of every write, that the credential is of the token's cluster.
- `NoStepBack`: `TokensAdvance`. The tokens themselves are not ordered by `IInv`; `Advance` adds that no token of a
  cluster, in a credential or in a patch left behind, is newer than the one that its agent's next patch will
  have: what the file has, until it is read (`NewestGrows`). `Writers` lists who writes credentials at all.

Only model-checked: all liveness properties, as the prover handles neither fairness nor
ENABLED, and that the violations are there.

## Not modelled, and planned

Left out for good: flags and logging, the version package, the manifests, the
ANP library's proxying of requests, rate limiter delays, the umask round the
binding of the UDS socket (no file that the process creates meanwhile depends on it),
parsing of kubeconfigs, the replacement of the hub cluster's CA (agents read
it once and have to be restarted, the procedure is not in the code), the check of agent identifiers, which accepts or
rejects a command line.

Planned, in this order:

1. A composition in which `TunnelSystem` takes names and addresses from `ServerIdentity`.
2. Consequences of the abstract specifications, proved about them alone and carried over by
   the refinements.
