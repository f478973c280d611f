-------------------------- MODULE MCSpotPipeline --------------------------
(***************************************************************************)
(* A small instance of SpotPipeline for TLC.                               *)
(***************************************************************************)
EXTENDS SpotPipeline, TLC

MCStatuses == {"ENRICHED", "CURATED", "PUBLISHED"}
MCSymmetry == Permutations(Spots) \cup Permutations(Staff) \cup Permutations(Requests)
============================================================================
