----------------------------- MODULE MCReviews -----------------------------
(***************************************************************************)
(* A small instance of Reviews for TLC.                                    *)
(***************************************************************************)
EXTENDS Reviews, TLC

MCSymmetry == Permutations(Users) \cup Permutations(Reviews) \cup Permutations(Txs)
============================================================================
