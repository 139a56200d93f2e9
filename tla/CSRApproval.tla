----------------------------- MODULE CSRApproval ----------------------------
(***************************************************************************)
(* What the CSR approver promises, without informer, queue or workers:     *)
(* clients submit and withdraw CSRs and other parties decide on them at    *)
(* will; the tunnel server adds its approval, in one step, to a tunnel CSR *)
(* that nobody has decided on, and touches nothing else.                   *)
(***************************************************************************)
EXTENDS CSRObjects

VARIABLE csr   \* csr[c]: what the API server holds under the name c

Submit(c, r) ==
  /\ csr[c] = NoCSR
  /\ csr' = [csr EXCEPT ![c] = [req |-> r, conds |-> {}]]

Withdraw(c) ==
  /\ csr[c] # NoCSR
  /\ csr' = [csr EXCEPT ![c] = NoCSR]

Decide(c, d) ==
  /\ csr[c] # NoCSR
  /\ csr' = [csr EXCEPT ![c].conds = @ \cup {d}]

AutoApprove(c) ==
  /\ csr[c] # NoCSR
  /\ IsTunnelRequest(csr[c].req)
  /\ csr[c].conds = {}
  /\ csr' = [csr EXCEPT ![c].conds = {"AutoApproved"}]

Init == csr = [c \in CSRs |-> NoCSR]

Next == \E c \in CSRs :
          \/ \E r \in Requests : Submit(c, r)
          \/ Withdraw(c)
          \/ \E d \in {"Approved", "Denied"} : Decide(c, d)
          \/ AutoApprove(c)

Spec == Init /\ [][Next]_csr
=============================================================================
