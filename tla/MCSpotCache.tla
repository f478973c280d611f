---------------------------- MODULE MCSpotCache ----------------------------
(***************************************************************************)
(* A small instance of SpotCache for TLC.                                  *)
(***************************************************************************)
EXTENDS SpotCache

============================================================================
