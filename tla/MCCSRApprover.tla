--------------------------- MODULE MCCSRApprover ----------------------------
(* Small instances of CSRApprover for TLC.                                 *)
EXTENDS CSRApprover, TLC

MCServerRequest == [format |-> "csr", orgs |-> <<TunnelServerCSROrg, TunnelCSROrg>>]
MCForeignRequest == [format |-> "csr", orgs |-> <<TunnelServerCSROrg>>]
MCGarbage == [format |-> "garbled", orgs |-> <<>>]
MCNoOrgRequest == [format |-> "csr", orgs |-> <<>>]

MCRequests == {MCServerRequest, MCForeignRequest}
MCOrglessRequests == {MCServerRequest, MCNoOrgRequest}
MCNoFaults == [dropped |-> 0, lost |-> 0, crash |-> 0]
MCAllFaults == [dropped |-> 1, lost |-> 1, crash |-> 1]
MCLiveFaults == [dropped |-> 0, lost |-> 1, crash |-> 1]
MCDropped == [dropped |-> 1, lost |-> 0, crash |-> 0]

MCSymmetry == Permutations(CSRs) \cup Permutations(Workers)
=============================================================================
