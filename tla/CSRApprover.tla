---------------------------- MODULE CSRApprover -----------------------------
(***************************************************************************)
(* The CSR approver of the tunnel server: TunnelCSRApprover in             *)
(* pkg/tunnel/pki/certmanager/csrapprover.go, with the shared informer and *)
(* the rate limited work queue of client-go it runs on and the API server  *)
(* it talks to, the latter three as far as the approver can tell.          *)
(*                                                                         *)
(* The lister hands out pointers into the informer's cache, and the        *)
(* approver appends its condition to the object behind the pointer before  *)
(* it calls UpdateApproval: cache[c] is that shared object, and it keeps   *)
(* the condition whatever becomes of the call.                             *)
(***************************************************************************)
EXTENDS CSRObjects, FiniteSets

CONSTANTS
  Workers,       \* goroutines running runWorker
  NoKey,         \* a worker that holds no key
  MaxRev,        \* bound: other parties write while rev < MaxRev
  MaxFaults      \* bound: how often each kind of fault may occur

Faults == {"dropped",   \* UpdateApproval fails and has no effect
           "lost",      \* UpdateApproval takes effect, its reply is lost
           "crash"}     \* the tunnel server dies and is started again

ASSUME ConstantsAssumption ==
  /\ NoKey \notin CSRs
  /\ MaxRev \in Nat
  /\ MaxFaults \in [Faults -> Nat]

VARIABLES
  api,          \* api[c]: the object the API server holds under c
  rev,          \* the API server's resource version counter
  cache,        \* cache[c]: the object in the informer's indexer
  listed,       \* the informer has delivered its first list (HasSynced)
  phase,        \* of Run: waiting for the cache, running, or stopped
  waiting,      \* keys given to AddRateLimited whose delay is running
  queue,        \* the work queue proper, its dirty set ...
  dirty,
  processing,   \* ... and its processing set
  pc,           \* pc[w]: where worker w is in processNextItem
  key,          \* key[w]: the key it got
  sent,         \* sent[w]: the object in its pending UpdateApproval
  faults        \* faults that have occurred so far

apiVars == <<api, rev>>
queueVars == <<queue, dirty, processing>>
workerVars == <<pc, key, sent>>
vars == <<apiVars, cache, listed, phase, waiting, queueVars, workerVars, faults>>

Version(obj) == IF obj = NoCSR THEN 0 ELSE obj.rv

Init ==
  /\ api = [c \in CSRs |-> NoCSR] /\ rev = 0
  /\ cache = [c \in CSRs |-> NoCSR] /\ listed = FALSE
  /\ phase = "syncing"
  /\ waiting = {} /\ queue = <<>> /\ dirty = {} /\ processing = {}
  /\ pc = [w \in Workers |-> "off"]
  /\ key = [w \in Workers |-> NoKey]
  /\ sent = [w \in Workers |-> NoCSR]
  /\ faults = [f \in Faults |-> 0]

-----------------------------------------------------------------------------
(* The API server and the parties that write CSRs beside the approver.     *)

NewVersion(req, conds) == [req |-> req, conds |-> conds, rv |-> rev + 1]

Write(c, obj) ==
  /\ api' = [api EXCEPT ![c] = obj]
  /\ rev' = rev + 1

ByOthers ==
  /\ rev < MaxRev
  /\ UNCHANGED <<cache, listed, phase, waiting, queueVars, workerVars, faults>>

\* A certificate manager (or any other client) creates a CSR.
Submit(c, r) ==
  /\ ByOthers
  /\ api[c] = NoCSR
  /\ Write(c, NewVersion(r, {}))

\* A CSR is deleted, by its owner or by the CSR cleaner.
Withdraw(c) ==
  /\ ByOthers
  /\ api[c] # NoCSR
  /\ Write(c, NoCSR)

\* An administrator or another controller approves or denies.
Decide(c, d) ==
  /\ ByOthers
  /\ api[c] # NoCSR /\ d \notin api[c].conds
  /\ Write(c, NewVersion(api[c].req, api[c].conds \cup {d}))

-----------------------------------------------------------------------------
(* The work queue.                                                         *)

\* AddRateLimited: the key is added when its delay is over; nothing is
\* added to a queue that is shut down.
Enqueue(S) == waiting' = IF phase = "stopped" THEN waiting ELSE waiting \cup S

\* Done: a key that was added while it was processed is queued again.
QueueDone(c) ==
  /\ processing' = processing \ {c}
  /\ queue' = IF c \in dirty THEN Append(queue, c) ELSE queue
  /\ UNCHANGED dirty

\* The delay of a key is over: Add, unless the key is queued already.
AddDelayed(c) ==
  /\ phase # "stopped" /\ c \in waiting
  /\ waiting' = waiting \ {c}
  /\ dirty' = dirty \cup {c}
  /\ queue' = IF c \in dirty \cup processing THEN queue ELSE Append(queue, c)
  /\ UNCHANGED <<apiVars, cache, listed, phase, processing, workerVars, faults>>

-----------------------------------------------------------------------------
(* The informer.  AddFunc and UpdateFunc enqueue the key; there is no      *)
(* handler for deletions.                                                  *)

Informer ==
  /\ phase # "stopped"
  /\ UNCHANGED <<apiVars, phase, queueVars, workerVars, faults>>

\* The first list, or a list after the watch broke: fresh objects for all.
List ==
  /\ Informer
  /\ cache' = api
  /\ listed' = TRUE
  /\ Enqueue({c \in CSRs : api[c] # NoCSR})

\* Mutant: no UpdateFunc, only new objects are enqueued.
DeliverAddsOnly(c) ==
  /\ Informer /\ listed
  /\ Version(cache[c]) # Version(api[c])
  /\ cache' = [cache EXCEPT ![c] = api[c]]
  /\ Enqueue(IF cache[c] = NoCSR THEN {c} ELSE {})
  /\ UNCHANGED listed

\* A watch event: the object replaces the cached one.
Deliver(c) ==
  /\ Informer /\ listed
  /\ Version(cache[c]) # Version(api[c])
  /\ cache' = [cache EXCEPT ![c] = api[c]]
  /\ Enqueue(IF api[c] = NoCSR THEN {} ELSE {c})
  /\ UNCHANGED listed

\* The 10s resync replays the cached object, the same pointer, as an update.
Resync(c) ==
  /\ Informer /\ listed
  /\ cache[c] # NoCSR
  /\ Enqueue({c})
  /\ UNCHANGED <<cache, listed>>

-----------------------------------------------------------------------------
(* Run and its workers.                                                    *)

\* WaitForCacheSync returns and Run starts its workers.
StartWorkers ==
  /\ phase = "syncing" /\ listed
  /\ phase' = "running"
  /\ pc' = [w \in Workers |-> "idle"]
  /\ UNCHANGED <<apiVars, cache, listed, waiting, queueVars, key, sent, faults>>

\* stopCh is closed: Run returns, and its deferred ShutDown stops the queue.
Stop ==
  /\ phase # "stopped"
  /\ phase' = "stopped"
  /\ waiting' = {}
  /\ UNCHANGED <<apiVars, cache, listed, queueVars, workerVars, faults>>

\* Mutant: Done is called at once instead of deferred.
GetAndDone(w) ==
  /\ pc[w] = "idle" /\ queue # <<>>
  /\ pc' = [pc EXCEPT ![w] = "got"]
  /\ key' = [key EXCEPT ![w] = Head(queue)]
  /\ queue' = Tail(queue)
  /\ dirty' = dirty \ {Head(queue)}
  /\ UNCHANGED <<apiVars, cache, listed, phase, waiting, processing, sent, faults>>

\* workqueue.Get.
Get(w) ==
  /\ pc[w] = "idle" /\ queue # <<>>
  /\ pc' = [pc EXCEPT ![w] = "got"]
  /\ key' = [key EXCEPT ![w] = Head(queue)]
  /\ queue' = Tail(queue)
  /\ dirty' = dirty \ {Head(queue)}
  /\ processing' = processing \cup {Head(queue)}
  /\ UNCHANGED <<apiVars, cache, listed, phase, waiting, sent, faults>>

\* Mutant: processNextItem returns true on quit, and runWorker calls it again.
QuitIgnored(w) ==
  /\ pc[w] = "idle" /\ queue = <<>> /\ phase = "stopped"
  /\ UNCHANGED vars

\* Get returns quit once the queue is shut down and drained.
Quit(w) ==
  /\ pc[w] = "idle" /\ queue = <<>> /\ phase = "stopped"
  /\ pc' = [pc EXCEPT ![w] = "quit"]
  /\ UNCHANGED <<apiVars, cache, listed, phase, waiting, queueVars, key, sent, faults>>

\* processNextItem returns, through its deferred Done.
Finish(w) ==
  /\ QueueDone(key[w])
  /\ pc' = [pc EXCEPT ![w] = "idle"]
  /\ key' = [key EXCEPT ![w] = NoKey]
  /\ sent' = [sent EXCEPT ![w] = NoCSR]
  /\ UNCHANGED <<listed, phase>>

\* The lister has the CSR, and approveTunnelCSR finds it in need of approval.
ToApprove(c) == cache[c] # NoCSR /\ NeedsApproval(cache[c])

\* The lister knows no such CSR, or there is nothing to approve.
Skip(w) ==
  /\ pc[w] = "got"
  /\ ~ ToApprove(key[w])
  /\ Finish(w)
  /\ UNCHANGED <<apiVars, cache, waiting, faults>>

\* approveTunnelCSR up to UpdateApproval: append to the cached object, send it.
Approve(w) ==
  LET c == key[w] IN
  /\ pc[w] = "got"
  /\ ToApprove(c)
  /\ cache' = [cache EXCEPT ![c].conds = @ \cup {"AutoApproved"}]
  /\ sent' = [sent EXCEPT ![w] = cache'[c]]
  /\ pc' = [pc EXCEPT ![w] = "update"]
  /\ UNCHANGED <<apiVars, listed, phase, waiting, queueVars, key, faults>>

\* The API server accepts an approval of the version it holds.
Accepts(w) ==
  /\ pc[w] = "update"
  /\ Version(api[key[w]]) = sent[w].rv
  /\ Write(key[w], NewVersion(api[key[w]].req, sent[w].conds))

Fault(f) ==
  /\ faults[f] < MaxFaults[f]
  /\ faults' = [faults EXCEPT ![f] = @ + 1]

UpdateSucceeds(w) ==
  /\ Accepts(w)
  /\ Finish(w)
  /\ UNCHANGED <<cache, waiting, faults>>

\* Mutant: the key is read after it was reset.
RetryWithoutKey(w) ==
  /\ Finish(w)
  /\ Enqueue({key'[w]})
  /\ UNCHANGED cache

\* Mutant: the appended condition is taken back, from whatever is cached now.
RetryAfterRollback(w) ==
  /\ Enqueue({key[w]})
  /\ Finish(w)
  /\ cache' = IF cache[key[w]] = NoCSR THEN cache
              ELSE [cache EXCEPT ![key[w]].conds = @ \ {"AutoApproved"}]

\* The call returned an error: the key is enqueued again.
Retry(w) ==
  /\ Enqueue({key[w]})
  /\ Finish(w)
  /\ UNCHANGED cache

\* The object was written or deleted since the informer saw it.
UpdateConflicts(w) ==
  /\ pc[w] = "update"
  /\ Version(api[key[w]]) # sent[w].rv
  /\ Retry(w)
  /\ UNCHANGED <<apiVars, faults>>

UpdateDropped(w) ==
  /\ pc[w] = "update"
  /\ Fault("dropped")
  /\ Retry(w)
  /\ UNCHANGED apiVars

UpdateReplyLost(w) ==
  /\ Accepts(w)
  /\ Fault("lost")
  /\ Retry(w)

\* The process dies; the kubelet starts it again with nothing in memory.
Crash ==
  /\ phase # "stopped"
  /\ Fault("crash")
  /\ cache' = [c \in CSRs |-> NoCSR] /\ listed' = FALSE
  /\ phase' = "syncing"
  /\ waiting' = {} /\ queue' = <<>> /\ dirty' = {} /\ processing' = {}
  /\ pc' = [w \in Workers |-> "off"]
  /\ key' = [w \in Workers |-> NoKey]
  /\ sent' = [w \in Workers |-> NoCSR]
  /\ UNCHANGED apiVars

\* A stopped approver whose workers are gone does nothing more.
Finished ==
  /\ phase = "stopped"
  /\ \A w \in Workers : pc[w] \in {"off", "quit"}
  /\ UNCHANGED vars

-----------------------------------------------------------------------------
UpdateReturns(w) ==
  \/ UpdateSucceeds(w)
  \/ UpdateConflicts(w)
  \/ UpdateDropped(w)
  \/ UpdateReplyLost(w)

Worker(w) == Get(w) \/ Quit(w) \/ Skip(w) \/ Approve(w) \/ UpdateReturns(w)

OtherParty(c) ==
  \/ \E r \in Requests : Submit(c, r)
  \/ Withdraw(c)
  \/ \E d \in {"Approved", "Denied"} : Decide(c, d)

Next ==
  \/ \E c \in CSRs : OtherParty(c) \/ AddDelayed(c) \/ Deliver(c) \/ Resync(c)
  \/ List \/ StartWorkers \/ Stop \/ Crash \/ Finished
  \/ \E w \in Workers : Worker(w)

Spec == Init /\ [][Next]_vars

(***************************************************************************)
(* The goroutines of the process and of the informer are scheduled, timers *)
(* fire, the watch delivers and every call to the API server returns.      *)
(* Nothing makes the watch break, so List is fair only while it is the     *)
(* first one; nothing makes another party write, stop or crash.            *)
(***************************************************************************)
Fairness ==
  /\ WF_vars(~ listed /\ List)
  /\ WF_vars(StartWorkers)
  /\ \A c \in CSRs : WF_vars(AddDelayed(c)) /\ WF_vars(Deliver(c)) /\ WF_vars(Resync(c))
  /\ \A w \in Workers : WF_vars(Worker(w))

FairSpec == Spec /\ Fairness

-----------------------------------------------------------------------------
(* Types.                                                                  *)

TypeOK ==
  /\ api \in [CSRs -> Object \cup {NoCSR}]
  /\ rev \in Nat
  /\ cache \in [CSRs -> Object \cup {NoCSR}]
  /\ listed \in BOOLEAN
  /\ phase \in {"syncing", "running", "stopped"}
  /\ waiting \subseteq CSRs
  /\ queue \in Seq(CSRs)
  /\ dirty \subseteq CSRs
  /\ processing \subseteq CSRs
  /\ pc \in [Workers -> {"off", "idle", "got", "update", "quit"}]
  /\ key \in [Workers -> CSRs \cup {NoKey}]
  /\ sent \in [Workers -> Object \cup {NoCSR}]
  /\ faults \in [Faults -> Nat]

Busy(w) == pc[w] \in {"got", "update"}

Elements(q) == {q[i] : i \in DOMAIN q}

Queued == Elements(queue)

(***************************************************************************)
(* Safety.                                                                 *)
(***************************************************************************)

\* Two workers are never at work on the same CSR: the append to the shared
\* cached object and the call that sends it are not raced by another worker.
NoConcurrentApproval ==
  \A v, w \in Workers : v # w /\ Busy(v) /\ Busy(w) => key[v] # key[w]

\* A cached copy of a version is what the API server holds for it, or that
\* with the approver's own condition added: the only thing an approver may
\* have done to the shared object.
CacheCoherent ==
  \A c \in CSRs :
    cache[c] # NoCSR /\ Version(api[c]) = cache[c].rv =>
      /\ api[c].req = cache[c].req
      /\ api[c].conds \subseteq cache[c].conds
      /\ cache[c].conds \subseteq api[c].conds \cup {"AutoApproved"}

\* What a pending UpdateApproval would overwrite, should the API server
\* accept it, is an undecided tunnel CSR: no denial is lost under it.
UpdateOverwritesNothing ==
  \A w \in Workers :
    pc[w] = "update" /\ Version(api[key[w]]) = sent[w].rv =>
      /\ isExcaliburtunelCSR(api[key[w]].req)
      /\ api[key[w]].conds = {}
      /\ sent[w].conds = {"AutoApproved"}

\* No wakeup is lost: a CSR whose cached copy needs approval is delayed,
\* queued, set down as dirty while a worker is at work on an older copy, or
\* was just taken by a worker that has not looked at it yet.
NoLostWakeup ==
  phase # "stopped" =>
    \A c \in CSRs :
      ToApprove(c) =>
        \/ c \in waiting
        \/ c \in Queued
        \/ c \in dirty /\ \E w \in Workers : Busy(w) /\ key[w] = c
        \/ \E w \in Workers : pc[w] = "got" /\ key[w] = c

\* Only tunnel related CSRs, in the words of isExcaliburtunelCSR's comment, are
\* auto approved.
OnlyTunnelApproved ==
  \A c \in CSRs :
    api[c] # NoCSR /\ "AutoApproved" \in api[c].conds => IsTunnelRequest(api[c].req)

\* What others see of a CSR: its object but for the version.
Content(obj) == IF obj = NoCSR THEN NoCSR ELSE [req |-> obj.req, conds |-> obj.conds]

Published == [c \in CSRs |-> Content(api[c])]

Promise == INSTANCE CSRApproval WITH csr <- Published

\* The approver implements the abstract specification: what others see of
\* it is single approvals of undecided tunnel CSRs.
ImplementsApproval == Promise!Spec

(***************************************************************************)
(* Liveness.                                                               *)
(***************************************************************************)

Undecided(c) == api[c] # NoCSR /\ IsTunnelRequest(api[c].req) /\ api[c].conds = {}

\* The controller auto approves all tunnel CSRs: none stays undecided while
\* the approver is not stopped.
EveryTunnelCSRDecided ==
  \A c \in CSRs : Undecided(c) ~> (~ Undecided(c) \/ phase = "stopped")

\* A stopped approver drains its queue and lets every worker go.
StopDrains ==
  phase = "stopped" ~> \A w \in Workers : pc[w] \in {"off", "quit"}
=============================================================================
