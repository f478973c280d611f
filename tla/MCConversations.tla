-------------------------- MODULE MCConversations --------------------------
(***************************************************************************)
(* A small instance of Conversations for TLC.                              *)
(***************************************************************************)
EXTENDS Conversations, TLC

MCSymmetry == Permutations(Requests)
============================================================================
