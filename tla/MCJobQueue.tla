---------------------------- MODULE MCJobQueue ----------------------------
(***************************************************************************)
(* A small instance of JobQueue for TLC: two server processes, as the      *)
(* Dockerfile starts them, and one job of each kind of effect.             *)
(***************************************************************************)
EXTENDS JobQueue

MCJobs == 1..3
MCKind ==
  [j \in MCJobs |-> CASE j = 1 -> "spots" [] j = 2 -> "dump" [] j = 3 -> "business"]
============================================================================
