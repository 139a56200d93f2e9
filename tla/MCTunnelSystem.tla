--------------------------- MODULE MCTunnelSystem ---------------------------
(* Small instances of TunnelSystem for TLC.                                *)
EXTENDS TunnelSystem

MCRequests == {[format |-> "csr", orgs |-> <<TunnelServerCSROrg, TunnelCSROrg>>],
               [format |-> "csr", orgs |-> <<TunnelCSROrg>>]}
MCFaults == AllFaultKinds
MCFaultsButListen == AllFaultKinds \ {"listen"}
MCOnlyListen == {"listen"}
=============================================================================
