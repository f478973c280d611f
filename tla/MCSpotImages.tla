---------------------------- MODULE MCSpotImages ----------------------------
(***************************************************************************)
(* A small instance of SpotImages for TLC.                                 *)
(***************************************************************************)
EXTENDS SpotImages, TLC

MCSymmetry == Permutations(Keys) \cup Permutations(Images) \cup Permutations(Requests)
============================================================================
