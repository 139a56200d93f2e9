----------------------------- MODULE CSRObjects -----------------------------
(***************************************************************************)
(* The certificate signing request (CSR) objects of the hub cluster's API  *)
(* server and the two predicates that the approver of the tunnel server    *)
(* evaluates on them (pkg/tunnel/pki/certmanager/csrapprover.go).          *)
(***************************************************************************)
EXTENDS Naturals, Sequences

CONSTANTS
  CSRs,          \* names of CSR objects, the keys of the work queue
  Requests,      \* contents of Spec.Request that clients may submit
  NoCSR          \* "there is no object of this name"

TunnelCSROrg == "excalibur:tunnel"
TunnelServerCSROrg == "system:masters"

(***************************************************************************)
(* The conditions of a CSR's status.  An approval by the tunnel server has *)
(* the reason AutoApproved, which tells it from an approval by another     *)
(* controller or by an administrator.                                      *)
(***************************************************************************)
Conditions == {"AutoApproved", "Approved", "Denied"}

Object == [req : Requests, conds : SUBSET Conditions, rv : Nat \ {0}]

ASSUME NoCSRAssumption ==
  /\ NoCSR \notin Object
  /\ NoCSR \notin [req : Requests, conds : SUBSET Conditions]

ASSUME RequestsAssumption == Requests \subseteq [format : STRING, orgs : Seq(STRING)]

checkCertApprovalCondition(conds) ==
  [approved |-> conds \cap {"AutoApproved", "Approved"} # {},
   denied   |-> "Denied" \in conds]

(***************************************************************************)
(* A tunnel related CSR, as the comment of isExcaliburtunelCSR defines it: *)
(* the organizations' list contains TunnelCSROrg.  Both certificate        *)
(* managers of this program send such requests.                            *)
(***************************************************************************)
IsTunnelRequest(req) ==
  /\ req.format = "csr"
  /\ \E i \in DOMAIN req.orgs : req.orgs[i] = TunnelCSROrg

\* Mutant: the loop returns false at the first organization that does not match.
EveryOrganizationMatches(req) ==
  /\ req.format = "csr"
  /\ \A i \in DOMAIN req.orgs : req.orgs[i] = TunnelCSROrg

(***************************************************************************)
(* The code returns false for what is not a PEM block of the right type    *)
(* holding a parsable request.  Its loop over the organizations stops at a *)
(* match, and returns false when it is at the last one without a match.    *)
(***************************************************************************)
isExcaliburtunelCSR(req) ==
  /\ req.format = "csr"
  /\ ~ \E last \in DOMAIN req.orgs :
         /\ last = Len(req.orgs)
         /\ \A i \in 1 .. last : req.orgs[i] # TunnelCSROrg

\* Mutant: a denial does not keep the approver from approving.
NeedsApprovalUnlessApproved(csr) ==
  /\ isExcaliburtunelCSR(csr.req)
  /\ ~ checkCertApprovalCondition(csr.conds).approved

\* approveTunnelCSR goes on to UpdateApproval exactly for these objects.
NeedsApproval(csr) ==
  /\ isExcaliburtunelCSR(csr.req)
  /\ ~ checkCertApprovalCondition(csr.conds).approved
  /\ ~ checkCertApprovalCondition(csr.conds).denied
=============================================================================
