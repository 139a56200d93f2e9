------------------------- MODULE ClusterCredentials -------------------------
(***************************************************************************)
(* The credentials that the hub cluster keeps for registered clusters, and *)
(* the tokens in them.                                                     *)
(***************************************************************************)
EXTENDS Naturals

CONSTANTS
  Agents,      \* clients that execute the hook, and names of their clusters
  Clusters,    \* all clusters that have credentials
  Names,       \* names of credentials, numbers for their order
  MaxTokens    \* bound on the tokens that a cluster ever has

\* Tokens are told apart by their cluster and by their number; number 0 is
\* what a credential is created with, if it has a token at all.
Token(c, n) == [cluster |-> c, number |-> n]
NoToken == Token("nobody", 0)

NewCredential(c, t) == [exists |-> "now", cluster |-> c, token |-> t]
Absent == [exists |-> "never", cluster |-> "nobody", token |-> NoToken]
Deleted == [Absent EXCEPT !.exists = "past"]
=============================================================================
