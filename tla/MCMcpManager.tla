---------------------------- MODULE MCMcpManager ----------------------------
(***************************************************************************)
(* Instances of McpManager: the health checks alone, and with a caller.    *)
(***************************************************************************)
EXTENDS McpManager, TLC

CONSTANTS c1, c2, hc

Symm == Permutations(Callers)
=============================================================================
