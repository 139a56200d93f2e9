---------------------------- MODULE Registration ----------------------------
(***************************************************************************)
(* What the tunnel promises to whoever looks at it from outside: a server  *)
(* that is open to registered clusters only with a certificate, clusters   *)
(* that are connected to it only with one of their own, and connections    *)
(* that last until one of the two sides or the network fails.  Renewals of *)
(* certificates are not to be seen.                                        *)
(***************************************************************************)
CONSTANT Clusters

VARIABLES
  server,   \* unknown, certified, or open to clusters
  status    \* status[c]: unknown, certified, or connected

vars == <<server, status>>

Init ==
  /\ server = "unknown"
  /\ status = [c \in Clusters |-> "unknown"]

TypeOK ==
  /\ server \in {"unknown", "certified", "open"}
  /\ status \in [Clusters -> {"unknown", "certified", "connected"}]

Becomes(c, from, to) == status[c] = from /\ status' = [status EXCEPT ![c] = to]

CertifyServer == server = "unknown" /\ server' = "certified" /\ UNCHANGED status

Open == server = "certified" /\ server' = "open" /\ UNCHANGED status

\* The server is gone, and every connection with it.
Close ==
  /\ server' = "unknown"
  /\ status' = [c \in Clusters |-> IF status[c] = "connected" THEN "certified" ELSE status[c]]

Certify(c) == Becomes(c, "unknown", "certified") /\ UNCHANGED server

Connect(c) == server = "open" /\ Becomes(c, "certified", "connected") /\ UNCHANGED server

Break(c) == Becomes(c, "connected", "certified") /\ UNCHANGED server

Leave(c) == status' = [status EXCEPT ![c] = "unknown"] /\ UNCHANGED server

Next ==
  \/ CertifyServer \/ Open \/ Close
  \/ \E c \in Clusters : Certify(c) \/ Connect(c) \/ Break(c) \/ Leave(c)

Spec == Init /\ [][Next]_vars
=============================================================================
