------------------------- MODULE CSRApproverProofs --------------------------
(***************************************************************************)
(* Proofs about CSRApprover, for all sets of CSRs, workers and requests    *)
(* and all bounds.                                                         *)
(*                                                                         *)
(* IInv is the inductive invariant.  The argument in one breath: versions  *)
(* only grow, so a cached copy or a pending call of a current version is   *)
(* about the object of that version (Versions, CacheCoherent, Pending);    *)
(* a worker takes a key only out of the queue, and the queue never holds   *)
(* a key that is being processed (QueueDiscipline), so no key has two      *)
(* workers (NoConcurrentApproval) and a wakeup for a busy key waits in     *)
(* dirty until that worker is Done (NoLostWakeup).                         *)
(***************************************************************************)
EXTENDS CSRApprover, TLAPS

Versions ==
  /\ \A c \in CSRs : Version(api[c]) <= rev /\ Version(cache[c]) <= rev
  /\ \A w \in Workers : Version(sent[w]) <= rev

Pending ==
  \A w \in Workers :
    pc[w] = "update" =>
      /\ sent[w].conds = {"AutoApproved"}
      /\ isExcaliburtunelCSR(sent[w].req)
      /\ Version(api[key[w]]) = sent[w].rv =>
           api[key[w]].req = sent[w].req /\ api[key[w]].conds = {}

WorkersStarted == phase = "syncing" => \A w \in Workers : pc[w] = "off"

KeysHeld ==
  \A w \in Workers : IF Busy(w) THEN key[w] \in processing ELSE key[w] = NoKey

NoDuplicates(q) == \A i, j \in DOMAIN q : q[i] = q[j] => i = j

QueueDiscipline ==
  /\ NoDuplicates(queue)
  /\ Queued = dirty \ processing
  /\ \A c \in processing : \E w \in Workers : Busy(w) /\ key[w] = c

\* TypeOK with what makes it inductive: a busy worker does hold a key.
Typed ==
  /\ TypeOK
  /\ \A w \in Workers : /\ Busy(w) => key[w] \in CSRs
                        /\ pc[w] = "update" => sent[w] \in Object

ObjectsInv == Versions /\ CacheCoherent /\ Pending

QueueInv == WorkersStarted /\ KeysHeld /\ QueueDiscipline /\ NoConcurrentApproval

IInv == Typed /\ ObjectsInv /\ QueueInv /\ NoLostWakeup
-----------------------------------------------------------------------------
(* Types.                                                                  *)

LEMMA InitTyped == Init => Typed
  <1> SUFFICES ASSUME Init PROVE Typed
    OBVIOUS
  <1>1. listed \in BOOLEAN
    BY DEF Init
  <1>2. TypeOK
    BY <1>1 DEF Init, TypeOK
  <1> QED
    BY <1>2 DEF Init, Typed, Busy

\* Done leaves the queue's three parts well typed, whatever the key.
LEMMA QueueDoneType ==
  ASSUME NEW c, QueueDone(c),
         queue \in Seq(CSRs), dirty \subseteq CSRs, processing \subseteq CSRs
  PROVE  queue' \in Seq(CSRs) /\ dirty' \subseteq CSRs /\ processing' \subseteq CSRs
  BY DEF QueueDone

LEMMA NewVersionType ==
  ASSUME rev \in Nat, NEW r \in Requests, NEW conds \in SUBSET Conditions
  PROVE  NewVersion(r, conds) \in Object
  BY DEF NewVersion, Object

LEMMA WriteType ==
  ASSUME TypeOK, NEW c \in CSRs, NEW obj \in Object \cup {NoCSR}, Write(c, obj)
  PROVE  api' \in [CSRs -> Object \cup {NoCSR}] /\ rev' \in Nat
  BY DEF TypeOK, Write

\* Adding the approver's condition to a cached object.
LEMMA AppendType ==
  ASSUME NEW obj \in Object
  PROVE  [obj EXCEPT !.conds = @ \cup {"AutoApproved"}] \in Object
  BY DEF Object, Conditions

\* A worker returns from processNextItem.
LEMMA FinishType ==
  ASSUME Typed, NEW w \in Workers, Finish(w)
  PROVE  /\ queue' \in Seq(CSRs) /\ dirty' \subseteq CSRs /\ processing' \subseteq CSRs
         /\ pc' \in [Workers -> {"off", "idle", "got", "update", "quit"}]
         /\ key' \in [Workers -> CSRs \cup {NoKey}]
         /\ sent' \in [Workers -> Object \cup {NoCSR}]
         /\ listed' \in BOOLEAN /\ phase' \in {"syncing", "running", "stopped"}
         /\ \A v \in Workers : /\ Busy(v)' => key'[v] \in CSRs
                               /\ pc'[v] = "update" => sent'[v] \in Object
  <1>1. queue' \in Seq(CSRs) /\ dirty' \subseteq CSRs /\ processing' \subseteq CSRs
    BY QueueDoneType DEF Typed, TypeOK, Finish
  <1>2. listed' \in BOOLEAN
    BY DEF Typed, TypeOK, Finish
  <1>3. /\ pc' \in [Workers -> {"off", "idle", "got", "update", "quit"}]
        /\ key' \in [Workers -> CSRs \cup {NoKey}]
        /\ sent' \in [Workers -> Object \cup {NoCSR}]
        /\ phase' \in {"syncing", "running", "stopped"}
    BY DEF Typed, TypeOK, Finish
  <1>4. ASSUME NEW v \in Workers
        PROVE  /\ Busy(v)' => key'[v] \in CSRs
               /\ pc'[v] = "update" => sent'[v] \in Object
    BY DEF Typed, TypeOK, Finish, Busy
  <1> QED
    BY <1>1, <1>2, <1>3, <1>4

LEMMA FaultType ==
  ASSUME faults \in [Faults -> Nat], NEW f \in {"dropped", "lost", "crash"}, Fault(f)
  PROVE  faults' \in [Faults -> Nat]
  <1>1. f \in Faults
    BY DEF Faults
  <1>2. faults[f] + 1 \in Nat
    BY <1>1
  <1> QED
    BY <1>1, <1>2 DEF Fault

\* The object that an accepted UpdateApproval writes.
LEMMA AcceptsType ==
  ASSUME Typed, NEW w \in Workers, Accepts(w)
  PROVE  /\ key[w] \in CSRs /\ sent[w] \in Object /\ api[key[w]] \in Object
         /\ api' \in [CSRs -> Object \cup {NoCSR}] /\ rev' \in Nat
  <1>1. key[w] \in CSRs /\ sent[w] \in Object
    BY DEF Typed, Accepts, Busy
  <1>2. api[key[w]] \in Object
    BY <1>1 DEF Typed, TypeOK, Accepts, Version, Object
  <1>3. NewVersion(api[key[w]].req, sent[w].conds) \in Object
    BY <1>1, <1>2, NewVersionType DEF Typed, TypeOK, Object
  <1> QED
    BY <1>1, <1>2, <1>3, WriteType DEF Accepts, Typed

LEMMA StepTyped == Typed /\ [Next]_vars => Typed'
  <1> SUFFICES ASSUME Typed, [Next]_vars PROVE Typed'
    OBVIOUS
  <1> USE DEF vars, apiVars, queueVars, workerVars
  <1>1. ASSUME NEW c \in CSRs, NEW r \in Requests, Submit(c, r) PROVE Typed'
    BY <1>1, WriteType, NewVersionType DEF Submit, ByOthers, Typed, TypeOK, Busy
  <1>2. ASSUME NEW c \in CSRs, Withdraw(c) PROVE Typed'
    BY <1>2, WriteType DEF Withdraw, ByOthers, Typed, TypeOK, Busy
  <1>3. ASSUME NEW c \in CSRs, NEW d \in {"Approved", "Denied"}, Decide(c, d) PROVE Typed'
    <2>1. api[c].req \in Requests /\ api[c].conds \cup {d} \in SUBSET Conditions
      BY <1>3 DEF Decide, Typed, TypeOK, Object, Conditions
    <2>2. NewVersion(api[c].req, api[c].conds \cup {d}) \in Object
      BY <2>1, NewVersionType DEF Typed, TypeOK
    <2> QED
      BY <1>3, <2>2, WriteType DEF Decide, ByOthers, Typed, TypeOK, Busy
  <1>4. ASSUME NEW c \in CSRs, AddDelayed(c) PROVE Typed'
    BY <1>4 DEF AddDelayed, Typed, TypeOK, Busy
  <1>5. ASSUME NEW c \in CSRs, Deliver(c) PROVE Typed'
    BY <1>5 DEF Deliver, Informer, Enqueue, Typed, TypeOK, Busy
  <1>6. ASSUME NEW c \in CSRs, Resync(c) PROVE Typed'
    BY <1>6 DEF Resync, Informer, Enqueue, Typed, TypeOK, Busy
  <1>7. CASE List
    BY <1>7 DEF List, Informer, Enqueue, Typed, TypeOK, Busy
  <1>8. CASE StartWorkers
    BY <1>8 DEF StartWorkers, Typed, TypeOK, Busy
  <1>9. CASE Stop
    BY <1>9 DEF Stop, Typed, TypeOK, Busy
  <1>10. CASE Crash
    <2>1. listed' \in BOOLEAN
      BY <1>10 DEF Crash
    <2>2. faults' \in [Faults -> Nat]
      BY <1>10, FaultType DEF Crash, Typed, TypeOK
    <2>3. TypeOK'
      BY <1>10, <2>1, <2>2 DEF Crash, Typed, TypeOK
    <2> QED
      BY <1>10, <2>3 DEF Crash, Typed, Busy
  <1>11. CASE Finished
    BY <1>11 DEF Finished, Typed, TypeOK, Busy
  <1>12. ASSUME NEW w \in Workers, Get(w) PROVE Typed'
    <2>1. Head(queue) \in CSRs /\ Tail(queue) \in Seq(CSRs)
      BY <1>12 DEF Get, Typed, TypeOK
    <2> QED
      BY <1>12, <2>1 DEF Get, Typed, TypeOK, Busy
  <1>13. ASSUME NEW w \in Workers, Quit(w) PROVE Typed'
    BY <1>13 DEF Quit, Typed, TypeOK, Busy
  <1>14. ASSUME NEW w \in Workers, Skip(w) PROVE Typed'
    BY <1>14, FinishType DEF Skip, Typed, TypeOK
  <1>15. ASSUME NEW w \in Workers, Approve(w) PROVE Typed'
    <2>1. key[w] \in CSRs /\ cache[key[w]] \in Object
      BY <1>15 DEF Approve, ToApprove, Typed, TypeOK, Busy
    <2>2. [cache[key[w]] EXCEPT !.conds = @ \cup {"AutoApproved"}] \in Object
      BY <2>1, AppendType
    <2>3. /\ cache' \in [CSRs -> Object \cup {NoCSR}]
          /\ cache'[key[w]] \in Object
      BY <1>15, <2>1, <2>2 DEF Approve, Typed, TypeOK
    <2>4. TypeOK'
      BY <1>15, <2>3 DEF Approve, Typed, TypeOK
    <2> QED
      BY <1>15, <2>3, <2>4 DEF Approve, Typed, TypeOK, Busy
  <1>16. ASSUME NEW w \in Workers, UpdateSucceeds(w) PROVE Typed'
    BY <1>16, FinishType, AcceptsType DEF UpdateSucceeds, Typed, TypeOK
  <1>17. ASSUME NEW w \in Workers, UpdateConflicts(w) PROVE Typed'
    BY <1>17, FinishType DEF UpdateConflicts, Retry, Enqueue, Typed, TypeOK, Busy
  <1>18. ASSUME NEW w \in Workers, UpdateDropped(w) PROVE Typed'
    BY <1>18, FinishType, FaultType DEF UpdateDropped, Retry, Enqueue, Typed, TypeOK, Busy
  <1>19. ASSUME NEW w \in Workers, UpdateReplyLost(w) PROVE Typed'
    BY <1>19, FinishType, FaultType, AcceptsType DEF UpdateReplyLost, Retry, Enqueue, Typed, TypeOK
  <1>20. CASE UNCHANGED vars
    BY <1>20 DEF Typed, TypeOK, Busy
  <1> QED
    BY <1>1, <1>2, <1>3, <1>4, <1>5, <1>6, <1>7, <1>8, <1>9, <1>10, <1>11, <1>12,
       <1>13, <1>14, <1>15, <1>16, <1>17, <1>18, <1>19, <1>20
    DEF Next, OtherParty, Worker, UpdateReturns

LEMMA AlwaysTyped == Spec => []Typed
  BY InitTyped, StepTyped, PTL DEF Spec

\* Every variable of the approver always has its type, whatever workers,
\* watch events, faults and other parties do.
THEOREM TypeCorrect == Spec => []TypeOK
  <1>1. Typed => TypeOK
    BY DEF Typed
  <1> QED
    BY <1>1, AlwaysTyped, PTL

-----------------------------------------------------------------------------
(* Objects: the API server's, the cached ones and those in pending calls.  *)

\* Steps that write nothing to the API server, refresh or drop cached
\* objects, and send no call.
LEMMA ObjectsFrame ==
  ASSUME Typed, ObjectsInv, UNCHANGED <<api, rev>>,
         \A c \in CSRs : cache'[c] \in {cache[c], api[c], NoCSR},
         \A w \in Workers :
           /\ sent'[w] \in {sent[w], NoCSR}
           /\ pc'[w] = "update" =>
                pc[w] = "update" /\ key'[w] = key[w] /\ sent'[w] = sent[w]
  PROVE  ObjectsInv'
  <1>1. Versions'
    BY DEF ObjectsInv, Versions, Version, Typed, TypeOK
  <1>2. CacheCoherent'
    BY DEF ObjectsInv, CacheCoherent, Version, Typed, TypeOK
  <1>3. Pending'
    BY SMTT(30) DEF ObjectsInv, Pending, Version, Typed, TypeOK, isExcaliburtunelCSR
  <1> QED
    BY <1>1, <1>2, <1>3 DEF ObjectsInv

\* A write to the API server makes a version that no copy is of.
LEMMA ObjectsWrite ==
  ASSUME Typed, ObjectsInv, NEW c \in CSRs, NEW obj \in Object \cup {NoCSR}, Write(c, obj),
         obj # NoCSR => obj.rv = rev + 1,
         UNCHANGED cache,
         \A w \in Workers :
           /\ sent'[w] \in {sent[w], NoCSR}
           /\ pc'[w] = "update" =>
                pc[w] = "update" /\ key'[w] = key[w] /\ sent'[w] = sent[w]
  PROVE  ObjectsInv'
  <1>1. Versions'
    <2>1. rev' = rev + 1 /\ rev \in Nat
      BY DEF Write, Typed, TypeOK
    <2>2. \A d \in CSRs : Version(api'[d]) <= rev' /\ Version(cache'[d]) <= rev'
      BY <2>1 DEF ObjectsInv, Versions, Version, Typed, TypeOK, Object, Write
    <2>3. \A w \in Workers : Version(sent'[w]) <= rev'
      BY <2>1 DEF ObjectsInv, Versions, Version, Typed, TypeOK, Object
    <2> QED
      BY <2>2, <2>3 DEF Versions, Version
  <1>2. CacheCoherent'
    <2>1. SUFFICES ASSUME NEW d \in CSRs, cache[d] # NoCSR, Version(api'[d]) = cache[d].rv
                   PROVE  d # c
      BY DEF ObjectsInv, CacheCoherent, Version, Typed, TypeOK, Write
    <2>2. cache[d].rv <= rev /\ cache[d].rv > 0
      BY <2>1 DEF ObjectsInv, Versions, Version, Typed, TypeOK, Object
    <2> QED
      BY <2>1, <2>2 DEF Version, Typed, TypeOK, Write
  <1>3. Pending'
    <2>1. SUFFICES ASSUME NEW w \in Workers, pc'[w] = "update",
                          Version(api'[key[w]]) = sent[w].rv
                   PROVE  key[w] # c
      BY DEF ObjectsInv, Pending, Version, Typed, TypeOK, Busy, Write
    <2>2. sent[w].rv <= rev /\ sent[w].rv > 0
      BY <2>1, NoCSRAssumption DEF ObjectsInv, Versions, Version, Typed, TypeOK, Object
    <2> QED
      BY <2>1, <2>2 DEF Version, Typed, TypeOK, Write
  <1> QED
    BY <1>1, <1>2, <1>3 DEF ObjectsInv

\* What a worker sends is the cached object with the approval as its only
\* condition; a current version is undecided at the API server as well.
LEMMA ObjectsApprove ==
  ASSUME Typed, ObjectsInv, NEW w \in Workers, Approve(w)
  PROVE  ObjectsInv'
  <1> DEFINE c == key[w]
             obj == [cache[c] EXCEPT !.conds = @ \cup {"AutoApproved"}]
  <1>1. c \in CSRs /\ cache[c] \in Object /\ cache[c].conds = {}
    <2>1. c \in CSRs /\ cache[c] \in Object
      BY DEF Approve, ToApprove, Typed, TypeOK, Busy
    <2>2. NeedsApproval(cache[c])
      BY DEF Approve, ToApprove
    <2> QED
      BY <2>1, <2>2 DEF NeedsApproval, checkCertApprovalCondition, Object, Conditions
  <1>2. /\ obj \in Object /\ obj.req = cache[c].req /\ obj.rv = cache[c].rv
        /\ obj.conds = {"AutoApproved"}
    BY <1>1, AppendType DEF Object
  <1>3. /\ cache' = [cache EXCEPT ![c] = obj]
        /\ sent' = [sent EXCEPT ![w] = obj]
        /\ UNCHANGED <<api, rev, key>>
        /\ pc' = [pc EXCEPT ![w] = "update"]
    BY <1>1 DEF Approve, Typed, TypeOK, apiVars
  <1> HIDE DEF obj
  <1>4. Version(obj) <= rev
    BY <1>1, <1>2, NoCSRAssumption DEF ObjectsInv, Versions, Version, Object
  <1>5. Versions'
    BY <1>1, <1>3, <1>4 DEF ObjectsInv, Versions, Version, Typed, TypeOK
  <1>6. CacheCoherent'
    BY <1>1, <1>2, <1>3, NoCSRAssumption DEF ObjectsInv, CacheCoherent, Version, Typed, TypeOK
  <1>7. Pending'
    <2>1. isExcaliburtunelCSR(obj.req)
      BY <1>2 DEF Approve, ToApprove, NeedsApproval
    <2>2. Version(api[c]) = obj.rv => api[c].req = obj.req /\ api[c].conds = {}
      BY <1>1, <1>2, NoCSRAssumption DEF ObjectsInv, CacheCoherent
    <2> QED
      BY <1>2, <1>3, <2>1, <2>2, SMTT(30) DEF ObjectsInv, Pending, Version, Typed, TypeOK, isExcaliburtunelCSR
  <1> QED
    BY <1>5, <1>6, <1>7 DEF ObjectsInv

LEMMA InitObjects == Init => ObjectsInv
  BY DEF Init, ObjectsInv, Versions, CacheCoherent, Pending, Version

LEMMA StepObjects == Typed /\ ObjectsInv /\ [Next]_vars => ObjectsInv'
  <1> SUFFICES ASSUME Typed, ObjectsInv, [Next]_vars PROVE ObjectsInv'
    OBVIOUS
  <1> USE DEF vars, apiVars, queueVars, workerVars
  <1>1. ASSUME NEW c \in CSRs, NEW r \in Requests, Submit(c, r) PROVE ObjectsInv'
    <2>1. NewVersion(r, {}) \in Object /\ NewVersion(r, {}).rv = rev + 1
      BY NewVersionType DEF Typed, TypeOK, NewVersion
    <2> QED
      BY <1>1, <2>1, ObjectsWrite DEF Submit, ByOthers
  <1>2. ASSUME NEW c \in CSRs, Withdraw(c) PROVE ObjectsInv'
    BY <1>2, ObjectsWrite DEF Withdraw, ByOthers
  <1>3. ASSUME NEW c \in CSRs, NEW d \in {"Approved", "Denied"}, Decide(c, d) PROVE ObjectsInv'
    <2> DEFINE new == NewVersion(api[c].req, api[c].conds \cup {d})
    <2>1. api[c].req \in Requests /\ api[c].conds \cup {d} \in SUBSET Conditions
      BY <1>3 DEF Decide, Typed, TypeOK, Object, Conditions
    <2>2. new \in Object /\ new.rv = rev + 1
      BY <2>1, NewVersionType DEF Typed, TypeOK, NewVersion
    <2> QED
      BY <1>3, <2>2, ObjectsWrite DEF Decide, ByOthers
  <1>4. ASSUME NEW c \in CSRs, Deliver(c) PROVE ObjectsInv'
    BY <1>4, ObjectsFrame DEF Deliver, Informer, Typed, TypeOK
  <1>5. CASE List
    BY <1>5, ObjectsFrame DEF List, Informer
  <1>6. CASE Crash
    BY <1>6, ObjectsFrame DEF Crash
  <1>7. ASSUME NEW w \in Workers, Approve(w) PROVE ObjectsInv'
    BY <1>7, ObjectsApprove
  <1>8. ASSUME NEW w \in Workers, Accepts(w), Finish(w), UNCHANGED cache PROVE ObjectsInv'
    <2> DEFINE new == NewVersion(api[key[w]].req, sent[w].conds)
    <2>1. api[key[w]].req \in Requests /\ sent[w].conds \in SUBSET Conditions /\ key[w] \in CSRs
      BY <1>8, AcceptsType DEF Object
    <2>2. new \in Object /\ new.rv = rev + 1
      BY <2>1, NewVersionType DEF Typed, TypeOK, NewVersion
    <2> QED
      BY <1>8, <2>1, <2>2, ObjectsWrite DEF Accepts, Finish, Typed, TypeOK
  <1>9. ASSUME NEW w \in Workers, UpdateSucceeds(w) \/ UpdateReplyLost(w) PROVE ObjectsInv'
    BY <1>8, <1>9 DEF UpdateSucceeds, UpdateReplyLost, Retry
  <1>10. ASSUME NEW w \in Workers, Finish(w), UNCHANGED <<api, rev, cache>> PROVE ObjectsInv'
    BY <1>10, ObjectsFrame DEF Finish, Typed, TypeOK
  <1>11. ASSUME NEW w \in Workers, Skip(w) \/ UpdateConflicts(w) \/ UpdateDropped(w)
         PROVE  ObjectsInv'
    BY <1>10, <1>11 DEF Skip, UpdateConflicts, UpdateDropped, Retry
  <1>12. ASSUME NEW w \in Workers, Get(w) \/ Quit(w) PROVE ObjectsInv'
    BY <1>12, ObjectsFrame DEF Get, Quit, Typed, TypeOK
  <1>13. ASSUME NEW c \in CSRs, AddDelayed(c) \/ Resync(c) PROVE ObjectsInv'
    BY <1>13, ObjectsFrame DEF AddDelayed, Resync, Informer
  <1>14. CASE StartWorkers \/ Stop \/ Finished \/ UNCHANGED vars
    BY <1>14, ObjectsFrame DEF StartWorkers, Stop, Finished, Typed, TypeOK
  <1> QED
    BY <1>1, <1>2, <1>3, <1>4, <1>5, <1>6, <1>7, <1>9, <1>11, <1>12, <1>13, <1>14
    DEF Next, OtherParty, Worker, UpdateReturns

-----------------------------------------------------------------------------
(* The work queue and its workers.                                         *)

LEMMA AppendElements ==
  ASSUME NEW q \in Seq(CSRs), NEW c \in CSRs
  PROVE  /\ Elements(Append(q, c)) = Elements(q) \cup {c}
         /\ NoDuplicates(q) /\ c \notin Elements(q) => NoDuplicates(Append(q, c))
  <1> DEFINE r == Append(q, c)
  <1>1. /\ DOMAIN r = DOMAIN q \cup {Len(q) + 1}
        /\ Len(q) + 1 \notin DOMAIN q
        /\ \A i \in DOMAIN q : r[i] = q[i]
        /\ r[Len(q) + 1] = c
    OBVIOUS
  <1> HIDE DEF r
  <1> QED
    BY <1>1 DEF Elements, NoDuplicates, r

LEMMA TailElements ==
  ASSUME NEW q \in Seq(CSRs), q # <<>>, NoDuplicates(q)
  PROVE  /\ Head(q) \in Elements(q)
         /\ Elements(Tail(q)) = Elements(q) \ {Head(q)}
         /\ NoDuplicates(Tail(q))
  <1> DEFINE t == Tail(q)
  <1>1. /\ Len(q) \in Nat \ {0} /\ DOMAIN q = 1 .. Len(q)
        /\ DOMAIN t = 1 .. (Len(q) - 1)
        /\ \A i \in DOMAIN t : t[i] = q[i + 1]
        /\ Head(q) = q[1]
    OBVIOUS
  <1> HIDE DEF t
  <1>2. Elements(t) \subseteq Elements(q) \ {Head(q)}
    BY <1>1 DEF Elements, NoDuplicates
  <1>3. ASSUME NEW i \in DOMAIN q, q[i] # Head(q) PROVE q[i] \in Elements(t)
    <2>1. i - 1 \in DOMAIN t /\ t[i - 1] = q[i]
      BY <1>1, <1>3
    <2> QED
      BY <2>1 DEF Elements
  <1>4. NoDuplicates(t)
    BY <1>1 DEF NoDuplicates
  <1>5. Head(q) \in Elements(q)
    BY <1>1 DEF Elements
  <1>6. Elements(q) \ {Head(q)} \subseteq Elements(t)
    BY <1>3 DEF Elements
  <1> QED
    BY <1>2, <1>4, <1>5, <1>6 DEF t

\* Steps that leave the queue and what every worker holds alone.
LEMMA QueueFrame ==
  ASSUME Typed, QueueInv, UNCHANGED queueVars, UNCHANGED key,
         \A w \in Workers : Busy(w)' <=> Busy(w),
         phase' = "syncing" => \A w \in Workers : pc'[w] = "off"
  PROVE  QueueInv'
  <1>1. WorkersStarted'
    BY DEF WorkersStarted
  <1>2. KeysHeld'
    BY DEF QueueInv, KeysHeld, queueVars
  <1>3. QueueDiscipline'
    BY DEF QueueInv, QueueDiscipline, queueVars, Queued, Elements, NoDuplicates
  <1>4. NoConcurrentApproval'
    BY DEF QueueInv, NoConcurrentApproval
  <1> QED
    BY <1>1, <1>2, <1>3, <1>4 DEF QueueInv

\* A worker takes the head of the queue, which nobody is processing.
LEMMA QueueGet ==
  ASSUME Typed, QueueInv, NEW w \in Workers, Get(w)
  PROVE  QueueInv'
  <1> DEFINE c == Head(queue)
  <1>1. /\ c \in Queued /\ Queued' = Queued \ {c}
        /\ NoDuplicates(queue')
    BY TailElements DEF Get, Queued, Typed, TypeOK, QueueInv, QueueDiscipline
  <1>2. c \in dirty /\ c \notin processing /\ c \in CSRs
    BY <1>1 DEF QueueInv, QueueDiscipline, Typed, TypeOK
  <1>3. /\ ~ Busy(w) /\ Busy(w)' /\ key'[w] = c
        /\ \A v \in Workers : v # w => Busy(v)' = Busy(v) /\ key'[v] = key[v]
    BY DEF Get, Busy, Typed, TypeOK
  <1>4. processing' = processing \cup {c} /\ dirty' = dirty \ {c}
    BY DEF Get
  <1>5. WorkersStarted'
    BY DEF Get, QueueInv, WorkersStarted, Typed, TypeOK
  <1>6. KeysHeld'
    BY <1>3, <1>4 DEF QueueInv, KeysHeld
  <1>7. QueueDiscipline'
    BY <1>1, <1>2, <1>3, <1>4 DEF QueueInv, QueueDiscipline
  <1>8. NoConcurrentApproval'
    BY <1>2, <1>3 DEF QueueInv, NoConcurrentApproval, KeysHeld
  <1> QED
    BY <1>5, <1>6, <1>7, <1>8 DEF QueueInv

\* A worker gives its key back, and it is queued again if it is dirty.
LEMMA QueueFinish ==
  ASSUME Typed, QueueInv, NEW w \in Workers, Busy(w), Finish(w)
  PROVE  QueueInv'
  <1> DEFINE c == key[w]
  <1>1. c \in processing /\ c \in CSRs
    BY DEF QueueInv, KeysHeld, Typed
  <1>2. /\ ~ Busy(w)' /\ key'[w] = NoKey
        /\ \A v \in Workers : v # w => Busy(v)' = Busy(v) /\ key'[v] = key[v]
    BY DEF Finish, Busy, Typed, TypeOK
  <1>3. processing' = processing \ {c} /\ dirty' = dirty
    BY DEF Finish, QueueDone
  <1>4. c \notin Queued
    BY <1>1 DEF QueueInv, QueueDiscipline
  <1>5. Queued' = dirty' \ processing' /\ NoDuplicates(queue')
    <2>1. CASE c \in dirty
      BY <2>1, <1>1, <1>3, <1>4, AppendElements
      DEF Finish, QueueDone, Queued, QueueInv, QueueDiscipline, Typed, TypeOK
    <2>2. CASE c \notin dirty
      BY <2>2, <1>3 DEF Finish, QueueDone, Queued, QueueInv, QueueDiscipline
    <2> QED
      BY <2>1, <2>2
  <1>6. WorkersStarted'
    BY DEF Finish, QueueInv, WorkersStarted, Busy
  <1>7. \A v \in Workers : v # w /\ Busy(v) => key[v] # c
    BY DEF QueueInv, NoConcurrentApproval
  <1>8. KeysHeld'
    BY <1>2, <1>3, <1>7 DEF QueueInv, KeysHeld
  <1>9. \A d \in processing' : \E v \in Workers : Busy(v)' /\ key'[v] = d
    BY <1>2, <1>3 DEF QueueInv, QueueDiscipline
  <1>10. QueueDiscipline'
    BY <1>5, <1>9 DEF QueueDiscipline
  <1>11. NoConcurrentApproval'
    BY <1>2 DEF QueueInv, NoConcurrentApproval
  <1> QED
    BY <1>6, <1>8, <1>10, <1>11 DEF QueueInv

LEMMA QueueAddDelayed ==
  ASSUME Typed, QueueInv, NEW c \in CSRs, AddDelayed(c)
  PROVE  QueueInv'
  <1>1. UNCHANGED <<pc, key, phase, processing>> /\ dirty' = dirty \cup {c}
    BY DEF AddDelayed, workerVars
  <1>2. Queued' = dirty' \ processing' /\ NoDuplicates(queue')
    <2>1. CASE c \in dirty \cup processing
      BY <2>1, <1>1 DEF AddDelayed, Queued, QueueInv, QueueDiscipline
    <2>2. CASE c \notin dirty \cup processing
      BY <2>2, <1>1, AppendElements
      DEF AddDelayed, Queued, QueueInv, QueueDiscipline, Typed, TypeOK
    <2> QED
      BY <2>1, <2>2
  <1>3. QueueDiscipline'
    BY <1>1, <1>2 DEF QueueInv, QueueDiscipline, Busy
  <1>4. WorkersStarted' /\ KeysHeld' /\ NoConcurrentApproval'
    BY <1>1 DEF QueueInv, WorkersStarted, KeysHeld, NoConcurrentApproval, Busy
  <1> QED
    BY <1>3, <1>4 DEF QueueInv

\* A process that has just started holds nothing.
LEMMA QueueEmpty ==
  ASSUME queue = <<>>, dirty = {}, processing = {},
         pc = [w \in Workers |-> "off"], key = [w \in Workers |-> NoKey]
  PROVE  QueueInv
  BY DEF QueueInv, WorkersStarted, KeysHeld, QueueDiscipline, NoDuplicates, Queued, Elements,
         NoConcurrentApproval, Busy

LEMMA InitQueue == Init => QueueInv
  BY QueueEmpty DEF Init

LEMMA StepQueue == Typed /\ QueueInv /\ [Next]_vars => QueueInv'
  <1> SUFFICES ASSUME Typed, QueueInv, [Next]_vars PROVE QueueInv'
    OBVIOUS
  <1>1. ASSUME NEW c \in CSRs, OtherParty(c) \/ Deliver(c) \/ Resync(c) PROVE QueueInv'
    <2>1. UNCHANGED <<phase, queueVars, workerVars>>
      BY <1>1 DEF OtherParty, Submit, Withdraw, Decide, ByOthers, Deliver, Resync, Informer
    <2> QED
      BY <2>1, QueueFrame DEF workerVars, Busy, QueueInv, WorkersStarted
  <1>2. CASE List \/ Finished \/ UNCHANGED vars
    <2>1. UNCHANGED <<phase, queueVars, workerVars>>
      BY <1>2 DEF List, Informer, Finished, vars
    <2> QED
      BY <2>1, QueueFrame DEF workerVars, Busy, QueueInv, WorkersStarted
  <1>3. CASE StartWorkers
    <2>1. \A w \in Workers : ~ Busy(w) /\ ~ Busy(w)'
      BY <1>3 DEF StartWorkers, QueueInv, WorkersStarted, Busy
    <2> QED
      BY <1>3, <2>1, QueueFrame DEF StartWorkers
  <1>4. CASE Stop
    BY <1>4, QueueFrame DEF Stop, workerVars, Busy
  <1>5. CASE Crash
    <2>1. /\ queue' = <<>> /\ dirty' = {} /\ processing' = {}
          /\ pc' = [w \in Workers |-> "off"] /\ key' = [w \in Workers |-> NoKey]
      BY <1>5 DEF Crash
    <2> QED
      BY <2>1 DEF QueueInv, WorkersStarted, KeysHeld, QueueDiscipline, NoDuplicates,
                  Queued, Elements, NoConcurrentApproval, Busy
  <1>6. ASSUME NEW c \in CSRs, AddDelayed(c) PROVE QueueInv'
    BY <1>6, QueueAddDelayed
  <1>7. ASSUME NEW w \in Workers, Get(w) PROVE QueueInv'
    BY <1>7, QueueGet
  <1>8. ASSUME NEW w \in Workers, Quit(w) PROVE QueueInv'
    BY <1>8, QueueFrame DEF Quit, Busy, Typed, TypeOK
  <1>9. ASSUME NEW w \in Workers, Approve(w) PROVE QueueInv'
    <2>1. \A v \in Workers : Busy(v)' <=> Busy(v)
      BY <1>9 DEF Approve, Busy, Typed, TypeOK
    <2>2. phase' # "syncing"
      BY <1>9 DEF Approve, QueueInv, WorkersStarted
    <2> QED
      BY <1>9, <2>1, <2>2, QueueFrame DEF Approve
  <1>10. ASSUME NEW w \in Workers, Skip(w) \/ UpdateReturns(w) PROVE QueueInv'
    BY <1>10, QueueFinish
    DEF Skip, UpdateReturns, UpdateSucceeds, UpdateConflicts, UpdateDropped, UpdateReplyLost,
        Accepts, Retry, Busy
  <1> QED
    BY <1>1, <1>2, <1>3, <1>4, <1>5, <1>6, <1>7, <1>8, <1>9, <1>10 DEF Next, Worker

-----------------------------------------------------------------------------
(* Wakeups.                                                                *)

\* Where the wakeup of a CSR is.
Awaited(c) ==
  \/ c \in waiting
  \/ c \in Queued
  \/ c \in dirty /\ \E w \in Workers : Busy(w) /\ key[w] = c
  \/ \E w \in Workers : pc[w] = "got" /\ key[w] = c

\* A wakeup survives a step of which the same can be said.
LEMMA WakeupKept ==
  ASSUME NoLostWakeup,
         phase' # "stopped" => phase # "stopped",
         \A c \in CSRs : phase' # "stopped" /\ ToApprove(c)' =>
                         Awaited(c)' \/ (ToApprove(c) /\ (Awaited(c) => Awaited(c)'))
  PROVE  NoLostWakeup'
  BY DEF NoLostWakeup, Awaited

LEMMA InitWakeup == Init => NoLostWakeup
  BY DEF Init, NoLostWakeup, ToApprove

LEMMA StepWakeup == Typed /\ QueueInv /\ NoLostWakeup /\ [Next]_vars => NoLostWakeup'
  <1> SUFFICES ASSUME Typed, QueueInv, NoLostWakeup, [Next]_vars PROVE NoLostWakeup'
    OBVIOUS
  <1> USE DEF vars, apiVars, queueVars, workerVars
  <1>1. ASSUME NEW c \in CSRs, OtherParty(c) PROVE NoLostWakeup'
    BY <1>1, WakeupKept
    DEF OtherParty, Submit, Withdraw, Decide, ByOthers, ToApprove, Awaited, Queued, Busy,
        NeedsApproval, isExcaliburtunelCSR
  <1>2. ASSUME NEW c \in CSRs, AddDelayed(c) PROVE NoLostWakeup'
    <2>1. Queued \subseteq Queued'
      BY <1>2, AppendElements DEF AddDelayed, Queued, Typed, TypeOK
    <2>2. Awaited(c)'
      <3>1. CASE c \in processing
        BY <3>1, <1>2 DEF AddDelayed, Awaited, QueueInv, QueueDiscipline, Busy
      <3>2. CASE c \in dirty \ processing
        BY <3>2, <2>1 DEF Awaited, QueueInv, QueueDiscipline
      <3>3. CASE c \notin dirty \cup processing
        BY <3>3, <1>2, AppendElements DEF AddDelayed, Awaited, Queued, Typed, TypeOK
      <3> QED
        BY <3>1, <3>2, <3>3
    <2>3. \A d \in CSRs : d # c /\ Awaited(d) => Awaited(d)'
      BY <1>2, <2>1 DEF AddDelayed, Awaited, Busy
    <2>4. UNCHANGED <<phase, cache>>
      BY <1>2 DEF AddDelayed
    <2> QED
      BY <2>2, <2>3, <2>4, WakeupKept DEF ToApprove, NeedsApproval, isExcaliburtunelCSR
  <1>3. ASSUME NEW c \in CSRs, Deliver(c) PROVE NoLostWakeup'
    <2>1. /\ UNCHANGED <<phase, queueVars, workerVars>> /\ phase # "stopped"
          /\ waiting \subseteq waiting' /\ (cache'[c] # NoCSR => c \in waiting')
          /\ \A d \in CSRs : d # c => cache'[d] = cache[d]
      BY <1>3 DEF Deliver, Informer, Enqueue, Typed, TypeOK
    <2> QED
      BY <2>1, WakeupKept
      DEF ToApprove, Awaited, Queued, Busy, NeedsApproval, isExcaliburtunelCSR
  <1>4. CASE List
    <2>1. /\ phase' = phase /\ phase # "stopped"
          /\ \A d \in CSRs : cache'[d] # NoCSR => d \in waiting'
      BY <1>4 DEF List, Informer, Enqueue
    <2> QED
      BY <2>1, WakeupKept DEF ToApprove, Awaited
  <1>5. ASSUME NEW c \in CSRs, Resync(c) PROVE NoLostWakeup'
    <2>1. UNCHANGED <<phase, cache, queueVars, workerVars>> /\ waiting \subseteq waiting'
      BY <1>5 DEF Resync, Informer, Enqueue
    <2> QED
      BY <2>1, WakeupKept
      DEF ToApprove, Awaited, Queued, Busy, NeedsApproval, isExcaliburtunelCSR
  <1>6. CASE StartWorkers
    <2>1. UNCHANGED <<cache, waiting, queueVars, key>> /\ phase # "stopped"
      BY <1>6 DEF StartWorkers
    <2>2. \A w \in Workers : ~ Busy(w)
      BY <1>6 DEF StartWorkers, QueueInv, WorkersStarted, Busy
    <2> QED
      BY <2>1, <2>2, WakeupKept
      DEF ToApprove, Awaited, Queued, Busy, NeedsApproval, isExcaliburtunelCSR
  <1>7. CASE Stop
    BY <1>7 DEF Stop, NoLostWakeup
  <1>8. CASE Crash
    BY <1>8 DEF Crash, NoLostWakeup, ToApprove
  <1>9. ASSUME NEW w \in Workers, Get(w) PROVE NoLostWakeup'
    <2> DEFINE c == Head(queue)
    <2>1. /\ UNCHANGED <<phase, cache, waiting>>
          /\ pc'[w] = "got" /\ key'[w] = c /\ ~ Busy(w)
          /\ \A v \in Workers : v # w => pc'[v] = pc[v] /\ key'[v] = key[v]
      BY <1>9 DEF Get, Busy, Typed, TypeOK
    <2>2. Queued' = Queued \ {c} /\ dirty' = dirty \ {c}
      BY <1>9, TailElements DEF Get, Queued, Typed, TypeOK, QueueInv, QueueDiscipline
    <2>3. \A d \in CSRs : Awaited(d) => Awaited(d)'
      BY <2>1, <2>2 DEF Awaited, Busy
    <2> QED
      BY <2>1, <2>3, WakeupKept DEF ToApprove, NeedsApproval, isExcaliburtunelCSR
  <1>10. ASSUME NEW w \in Workers, Quit(w) PROVE NoLostWakeup'
    BY <1>10 DEF Quit, NoLostWakeup
  <1>11. ASSUME NEW w \in Workers, Finish(w), Busy(w), waiting \subseteq waiting',
                UNCHANGED cache, pc[w] = "got" => ~ ToApprove(key[w])
         PROVE  NoLostWakeup'
    <2> DEFINE c == key[w]
    <2>1. /\ UNCHANGED <<phase, dirty>> /\ Queued \subseteq Queued'
          /\ c \in dirty => c \in Queued'
          /\ c \in CSRs
      BY <1>11, AppendElements DEF Finish, QueueDone, Queued, Typed, TypeOK
    <2>2. \A v \in Workers : v # w => pc'[v] = pc[v] /\ key'[v] = key[v]
      BY <1>11 DEF Finish, Typed, TypeOK
    <2>3. \A d \in CSRs : d # c /\ Awaited(d) => Awaited(d)'
      BY <1>11, <2>1, <2>2 DEF Awaited, Busy
    <2>4. \A d \in CSRs : d = c /\ ToApprove(d) /\ Awaited(d) => Awaited(d)'
      BY <1>11, <2>1, <2>2 DEF Awaited, Busy
    <2> QED
      BY <1>11, <2>1, <2>3, <2>4, WakeupKept DEF ToApprove, NeedsApproval, isExcaliburtunelCSR
  <1>12. ASSUME NEW w \in Workers, Skip(w) \/ UpdateReturns(w) PROVE NoLostWakeup'
    BY <1>11, <1>12
    DEF Skip, UpdateReturns, UpdateSucceeds, UpdateConflicts, UpdateDropped, UpdateReplyLost,
        Accepts, Retry, Enqueue, Busy
  <1>13. ASSUME NEW w \in Workers, Approve(w) PROVE NoLostWakeup'
    <2> DEFINE c == key[w]
    <2>1. /\ UNCHANGED <<phase, waiting, queueVars, key>> /\ c \in CSRs
          /\ \A v \in Workers : v # w => pc'[v] = pc[v]
          /\ Busy(w) /\ Busy(w)'
      BY <1>13 DEF Approve, Busy, Typed, TypeOK
    <2>2. /\ \A d \in CSRs : d # c => cache'[d] = cache[d]
          /\ "AutoApproved" \in cache'[c].conds
      <3> DEFINE obj == [cache[c] EXCEPT !.conds = @ \cup {"AutoApproved"}]
      <3>1. cache[c] \in Object
        BY <1>13, <2>1 DEF Approve, ToApprove, Typed, TypeOK
      <3>2. "AutoApproved" \in obj.conds
        BY <3>1 DEF Object
      <3>3. cache' = [cache EXCEPT ![c] = obj]
        BY <1>13 DEF Approve
      <3> QED
        BY <2>1, <3>2, <3>3 DEF Typed, TypeOK
    <2>3. ~ ToApprove(c)'
      <3>1. checkCertApprovalCondition(cache'[c].conds).approved
        BY <2>2 DEF checkCertApprovalCondition
      <3> QED
        BY <2>1, <3>1 DEF ToApprove, NeedsApproval, checkCertApprovalCondition
    <2>4. \A d \in CSRs : d # c /\ Awaited(d) => Awaited(d)'
      BY <2>1 DEF Awaited, Queued, Busy
    <2> QED
      BY <2>1, <2>2, <2>3, <2>4, WakeupKept, SMTT(30) DEF ToApprove, NeedsApproval, isExcaliburtunelCSR
  <1>14. CASE Finished \/ UNCHANGED vars
    BY <1>14 DEF Finished, NoLostWakeup, ToApprove, NeedsApproval, isExcaliburtunelCSR, Queued, Busy
  <1> QED
    BY <1>1, <1>2, <1>3, <1>4, <1>5, <1>6, <1>7, <1>8, <1>9, <1>10, <1>12, <1>13, <1>14
    DEF Next, Worker

-----------------------------------------------------------------------------
(* The invariant and what follows from it.                                 *)

\* The inductive invariant holds throughout, the facts about versions, pending
\* calls and the queue that the properties below follow from.
THEOREM Invariance == Spec => []IInv
  <1>1. Init => IInv
    BY InitTyped, InitObjects, InitQueue, InitWakeup DEF IInv
  <1>2. IInv /\ [Next]_vars => IInv'
    BY StepTyped, StepObjects, StepQueue, StepWakeup DEF IInv
  <1> QED
    BY <1>1, <1>2, PTL DEF Spec

\* No two workers are ever at work on the same CSR, for any number of
\* workers: the cached object that approveTunnelCSR appends to is not raced.
THEOREM NoRace == Spec => []NoConcurrentApproval
  <1>1. IInv => NoConcurrentApproval
    BY DEF IInv, QueueInv
  <1> QED
    BY <1>1, Invariance, PTL

\* What the approver does to shared cached objects never makes a cached copy
\* differ from its version by more than the approver's own condition.
THEOREM CacheStaysCoherent == Spec => []CacheCoherent
  <1>1. IInv => CacheCoherent
    BY DEF IInv, ObjectsInv
  <1> QED
    BY <1>1, Invariance, PTL

\* An UpdateApproval that the API server accepts never overwrites a decision
\* of another party.
THEOREM NothingOverwritten == Spec => []UpdateOverwritesNothing
  <1>1. IInv => UpdateOverwritesNothing
    BY DEF IInv, ObjectsInv, Pending, UpdateOverwritesNothing
  <1> QED
    BY <1>1, Invariance, PTL

\* Informer, queue and workers never lose the wakeup of a CSR whose cached
\* copy needs approval.
THEOREM WakeupsKept == Spec => []NoLostWakeup
  <1>1. IInv => NoLostWakeup
    BY DEF IInv
  <1> QED
    BY <1>1, Invariance, PTL

-----------------------------------------------------------------------------
(* Refinement.                                                             *)

\* What isExcaliburtunelCSR accepts: tunnel requests, and requests without
\* any organization.
LEMMA TunnelRequests ==
  ASSUME NEW req \in Requests
  PROVE  isExcaliburtunelCSR(req) <=>
           req.format = "csr" /\ (req.orgs = <<>> \/ IsTunnelRequest(req))
  <1>1. req.orgs \in Seq(STRING)
    BY RequestsAssumption
  <1>2. CASE req.orgs = <<>>
    BY <1>2 DEF isExcaliburtunelCSR
  <1>3. CASE req.orgs # <<>>
    <2>1. Len(req.orgs) \in DOMAIN req.orgs /\ DOMAIN req.orgs = 1 .. Len(req.orgs)
      BY <1>1, <1>3
    <2> QED
      BY <1>3, <2>1 DEF isExcaliburtunelCSR, IsTunnelRequest
  <1> QED
    BY <1>2, <1>3

\* A write of one object changes what is published of that object alone.
LEMMA PublishedWrite ==
  ASSUME Typed, NEW c \in CSRs, NEW obj \in Object \cup {NoCSR}, Write(c, obj)
  PROVE  /\ Published \in [CSRs -> [req : Requests, conds : SUBSET Conditions] \cup {NoCSR}]
         /\ Published' = [Published EXCEPT ![c] = Content(obj)]
         /\ Published[c] = Content(api[c])
  BY DEF Typed, TypeOK, Published, Content, Write, Object

\* An accepted UpdateApproval is an AutoApprove of the abstract specification.
LEMMA AcceptsRefines ==
  ASSUME \A r \in Requests : r.orgs # <<>>,
         IInv, NEW w \in Workers, Accepts(w)
  PROVE  Promise!Next
  <1> DEFINE c == key[w]
             old == api[c]
             new == NewVersion(old.req, sent[w].conds)
  <1>1. Typed /\ Pending
    BY DEF IInv, ObjectsInv
  <1>2. c \in CSRs /\ old \in Object /\ sent[w] \in Object
    BY <1>1, AcceptsType
  <1>3. /\ old.conds = {} /\ sent[w].conds = {"AutoApproved"}
        /\ isExcaliburtunelCSR(old.req) /\ old.req \in Requests
    BY <1>1, <1>2, NoCSRAssumption DEF Pending, Accepts, Object
  <1>4. IsTunnelRequest(old.req)
    BY <1>3, TunnelRequests
  <1>5. new \in Object /\ new.req = old.req /\ new.conds = {"AutoApproved"}
    <2>1. new \in Object
      BY <1>1, <1>2, <1>3, NewVersionType DEF Typed, TypeOK, Object
    <2> QED
      BY <1>3, <2>1 DEF NewVersion
  <1> HIDE DEF new, old, c
  <1>6. /\ Published' = [Published EXCEPT ![c] = [req |-> old.req, conds |-> {"AutoApproved"}]]
        /\ Published[c] = [req |-> old.req, conds |-> {}]
        /\ Published \in [CSRs -> [req : Requests, conds : SUBSET Conditions] \cup {NoCSR}]
    <2>1. Write(c, new) /\ new # NoCSR /\ old # NoCSR
      BY <1>2, <1>5, NoCSRAssumption DEF Accepts, new, old, c
    <2>2. /\ Published \in [CSRs -> [req : Requests, conds : SUBSET Conditions] \cup {NoCSR}]
          /\ Published' = [Published EXCEPT ![c] = Content(new)]
          /\ Published[c] = Content(old)
      BY <1>1, <1>2, <1>5, <2>1, PublishedWrite DEF old
    <2> QED
      BY <1>3, <1>5, <2>1, <2>2 DEF Content
  <1>7. [Published EXCEPT ![c].conds = {"AutoApproved"}]
          = [Published EXCEPT ![c] = [req |-> old.req, conds |-> {"AutoApproved"}]]
    <2>1. [Published[c] EXCEPT !.conds = {"AutoApproved"}]
            = [req |-> old.req, conds |-> {"AutoApproved"}]
      <3>1. Published[c] = [req |-> old.req, conds |-> {}]
        BY <1>6
      <3> QED
        BY ONLY <3>1
    <2> QED
      BY <2>1
  <1>8. Published[c] # NoCSR
    BY <1>3, <1>6, NoCSRAssumption
  <1>9. Promise!AutoApprove(c)
    BY <1>4, <1>6, <1>7, <1>8 
    DEF Promise!AutoApprove, IsTunnelRequest, TunnelCSROrg,
        Promise!IsTunnelRequest, Promise!TunnelCSROrg
  <1> QED
    BY <1>2, <1>9 DEF Promise!Next

\* A step of another party is the same step of the abstract specification.
LEMMA OthersRefine ==
  ASSUME Typed, NEW c \in CSRs, OtherParty(c)
  PROVE  Promise!Next
  <1>1. ASSUME NEW r \in Requests, Submit(c, r) PROVE Promise!Submit(c, r)
    <2> DEFINE new == NewVersion(r, {})
    <2>1. new \in Object /\ new # NoCSR /\ Content(new) = [req |-> r, conds |-> {}]
      BY NewVersionType, NoCSRAssumption DEF Typed, TypeOK, NewVersion, Content
    <2>2. Write(c, new) /\ Published[c] = NoCSR
      BY <1>1 DEF Submit, Published, Content
    <2> HIDE DEF new
    <2> QED
      BY <2>1, <2>2, PublishedWrite DEF Promise!Submit
  <1>2. CASE Withdraw(c)
    <2>1. Published[c] # NoCSR
      BY <1>2, NoCSRAssumption DEF Withdraw, Published, Content, Typed, TypeOK, Object
    <2> QED
      BY <1>2, <2>1, PublishedWrite DEF Withdraw, Content, Promise!Withdraw, Promise!Next
  <1>3. ASSUME NEW d \in {"Approved", "Denied"}, Decide(c, d) PROVE Promise!Decide(c, d)
    <2> DEFINE old == api[c]
               new == NewVersion(old.req, old.conds \cup {d})
    <2>1. /\ old \in Object /\ old.req \in Requests
          /\ old.conds \cup {d} \in SUBSET Conditions
      BY <1>3 DEF Decide, Typed, TypeOK, Object, Conditions
    <2>2. new \in Object /\ new.req = old.req /\ new.conds = old.conds \cup {d}
      BY <2>1, NewVersionType DEF Typed, TypeOK, NewVersion
    <2>3. Write(c, new)
      BY <1>3 DEF Decide
    <2> HIDE DEF new, old
    <2>4. old # NoCSR /\ new # NoCSR
      BY <2>1, <2>2, NoCSRAssumption
    <2>5. /\ Published' = [Published EXCEPT ![c] = [req |-> old.req, conds |-> old.conds \cup {d}]]
          /\ Published[c] = [req |-> old.req, conds |-> old.conds]
      BY <2>2, <2>3, <2>4, PublishedWrite DEF Content, old
    <2>6. [Published[c] EXCEPT !.conds = @ \cup {d}]
            = [req |-> old.req, conds |-> old.conds \cup {d}]
      <3>1. Published[c] = [req |-> old.req, conds |-> old.conds]
        BY <2>5
      <3> QED
        BY ONLY <3>1
    <2>7. Published[c] # NoCSR
      BY <2>1, <2>5, NoCSRAssumption DEF Object
    <2> QED
      BY <2>5, <2>6, <2>7 DEF Promise!Decide
  <1> QED
    BY <1>1, <1>2, <1>3 DEF OtherParty, Promise!Next

\* If every request names an organization, the approver does nothing but what
\* CSRApproval allows: it approves undecided tunnel CSRs, one step each.
\* (Without the premise it does not: see TunnelRequests.)
THEOREM Refinement ==
  ASSUME \A r \in Requests : r.orgs # <<>>
  PROVE  Spec => ImplementsApproval
  <1>1. Init => Promise!Init
    BY DEF Init, Promise!Init, Published, Content
  <1>2. IInv /\ [Next]_vars => [Promise!Next]_Published
    <2> SUFFICES ASSUME IInv, [Next]_vars PROVE Promise!Next \/ Published' = Published
      OBVIOUS
    <2>1. ASSUME NEW c \in CSRs, OtherParty(c) PROVE Promise!Next
      BY <2>1, OthersRefine DEF IInv
    <2>2. ASSUME NEW w \in Workers, Accepts(w) PROVE Promise!Next
      BY <2>2, AcceptsRefines
    <2>3. CASE UNCHANGED api
      BY <2>3 DEF Published, Content
    <2> QED
      BY <2>1, <2>2, <2>3
      DEF Next, Worker, UpdateReturns, UpdateSucceeds, UpdateReplyLost, UpdateConflicts,
          UpdateDropped, AddDelayed, Deliver, Resync, Informer, List, StartWorkers, Stop, Crash,
          Finished, Get, Quit, Skip, Approve, vars, apiVars
  <1> QED
    BY <1>1, <1>2, Invariance, PTL DEF Spec, ImplementsApproval, Promise!Spec
=============================================================================
