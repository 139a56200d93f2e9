--------------------------- MODULE MCTKEStackHook ---------------------------
(* A small instance of TKEStackHook for TLC.                               *)
EXTENDS TKEStackHook

CONSTANTS agent, addon, other   \* model values

MCAgents == {agent}
MCClients == {agent, addon}
MCClusters == {agent, other}
MCNames == 1 .. 2
=============================================================================
