-------------------------- MODULE CredentialUpdate --------------------------
(***************************************************************************)
(* What PostStartTunnelAgent promises to whoever looks at credentials: a   *)
(* run of an agent prepares one update, to a credential of its cluster and *)
(* with the token that is then in the file; it makes that update once and  *)
(* finishes, or gives up.  An update that was given up may be made later,  *)
(* and nobody else writes a token.                                         *)
(***************************************************************************)
EXTENDS ClusterCredentials

VARIABLES
  credentials,   \* credentials[n]: the credential of name n
  tokenFile,     \* tokenFile[a]: the token in the file of a
  run,           \* run[a]: open, prepared, written or done, and the update
  left           \* updates that were given up

vars == <<credentials, tokenFile, run, left>>

Existing(n) == credentials[n].exists = "now"

Update(n, t) == [name |-> n, token |-> t]
NoUpdate == Update(0, NoToken)
Run(at, u) == [at |-> at, update |-> u]

Init ==
  /\ credentials = [n \in Names |-> Absent]
  /\ tokenFile = [a \in Agents |-> Token(a, 1)]
  /\ run = [a \in Agents |-> Run("open", NoUpdate)]
  /\ left = {}

\* The credential is still there, and is that of the token's cluster.
Write(u) ==
  /\ Existing(u.name) /\ credentials[u.name].cluster = u.token.cluster
  /\ credentials' = [credentials EXCEPT ![u.name].token = u.token]

\* A credential of the cluster; it may be gone by now.
Prepare(a) ==
  /\ run[a].at = "open"
  /\ \E n \in Names :
       /\ credentials[n].exists # "never"
       /\ Existing(n) => credentials[n].cluster = a
       /\ run' = [run EXCEPT ![a] = Run("prepared", Update(n, tokenFile[a]))]
  /\ UNCHANGED <<credentials, tokenFile, left>>

MakeUpdate(a) ==
  /\ run[a].at = "prepared"
  /\ Write(run[a].update)
  /\ run' = [run EXCEPT ![a] = Run("written", run[a].update)]
  /\ UNCHANGED <<tokenFile, left>>

Finish(a) ==
  /\ run[a].at = "written"
  /\ run' = [run EXCEPT ![a] = Run("done", run[a].update)]
  /\ UNCHANGED <<credentials, tokenFile, left>>

\* Of several agents at once, if it is for the proxy that they share.
GiveUp(S) ==
  /\ run' = [a \in Agents |-> IF a \in S THEN Run("open", NoUpdate) ELSE run[a]]
  /\ \E U \in SUBSET {run[a].update : a \in {b \in S : run[b].at = "prepared"}} :
       left' = left \cup U
  /\ UNCHANGED <<credentials, tokenFile>>

\* Several runs may have given up the same update.
MakeLate(u) ==
  /\ left' \in {left, left \ {u}}
  /\ UNCHANGED credentials \/ Write(u)
  /\ UNCHANGED <<tokenFile, run>>

Create(n, c, t) ==
  /\ credentials[n] = Absent
  /\ credentials' = [credentials EXCEPT ![n] = NewCredential(c, t)]
  /\ UNCHANGED <<tokenFile, run, left>>

Delete(n) ==
  /\ Existing(n)
  /\ credentials' = [credentials EXCEPT ![n] = Deleted]
  /\ UNCHANGED <<tokenFile, run, left>>

Rotate(a) ==
  /\ tokenFile[a].number < MaxTokens
  /\ tokenFile' = [tokenFile EXCEPT ![a] = Token(a, tokenFile[a].number + 1)]
  /\ UNCHANGED <<credentials, run, left>>

Next ==
  \/ \E a \in Agents : Prepare(a) \/ MakeUpdate(a) \/ Finish(a) \/ Rotate(a)
  \/ \E S \in SUBSET Agents : GiveUp(S)
  \/ \E u \in left : MakeLate(u)
  \/ \E n \in Names, c \in Clusters : \E t \in {NoToken, Token(c, 0)} : Create(n, c, t)
  \/ \E n \in Names : Delete(n)

Spec == Init /\ [][Next]_vars
=============================================================================
