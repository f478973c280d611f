----------------------------- MODULE MCExplore -----------------------------
(***************************************************************************)
(* A small instance of Explore for TLC: three spots of two kinds           *)
(* and one client.                                                         *)
(***************************************************************************)
EXTENDS Explore, TLC

MCKind(at, score, rating, category) ==
  [public |-> TRUE, at |-> at, score |-> score, rating |-> rating, category |-> category]

MCCatalogue == {MCKind("nowhere", 1, 1, Codes), MCKind("inside", 1, 2, {})}

MCSymmetry == Permutations(Requests)
============================================================================
