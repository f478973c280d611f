------------------------------- MODULE MCPush -------------------------------
(***************************************************************************)
(* A small instance of Push for TLC: one user writes to another who has    *)
(* several sockets.                                                        *)
(***************************************************************************)
EXTENDS Push, TLC

CONSTANTS a, b

MCOwner == [s \in Sockets |-> b]

MCSymmetry == Permutations(Processes) \cup Permutations(Sockets) \cup Permutations(Messages)
============================================================================
