--------------------------- MODULE JobExecution ---------------------------
(***************************************************************************)
(* What the job queue promises about one execution of a job, whatever the  *)
(* number of server processes and whatever fails: a job is taken from the  *)
(* queue once, is settled once, and its effect (the rows of a bulk upsert, *)
(* the uploaded file of a dump) becomes durable at most once, never before *)
(* the job is taken and never after it is settled.                         *)
(*                                                                         *)
(* JobQueue is shown to implement this specification.                      *)
(***************************************************************************)
EXTENDS Naturals

CONSTANT Jobs

VARIABLES
  phase,      \* phase[j]: "absent", "queued", "taken" or "settled"
  effects     \* effects[j]: how often the effect of j has become durable

vars == <<phase, effects>>

Init ==
  /\ phase = [j \in Jobs |-> "absent"]
  /\ effects = [j \in Jobs |-> 0]

Submit(j) ==
  /\ phase[j] = "absent"
  /\ phase' = [phase EXCEPT ![j] = "queued"]
  /\ UNCHANGED effects

Take(j) ==
  /\ phase[j] = "queued"
  /\ phase' = [phase EXCEPT ![j] = "taken"]
  /\ UNCHANGED effects

\* An effect outside the database becomes durable while the job is worked on.
Perform(j) ==
  /\ phase[j] = "taken"
  /\ effects[j] = 0
  /\ effects' = [effects EXCEPT ![j] = 1]
  /\ UNCHANGED phase

\* The job is given up or finished; an effect in the database becomes
\* durable in this very step or never.
Settle(j) ==
  /\ phase[j] = "taken"
  /\ phase' = [phase EXCEPT ![j] = "settled"]
  /\ \/ UNCHANGED effects
     \/ /\ effects[j] = 0
        /\ effects' = [effects EXCEPT ![j] = 1]

Next == \E j \in Jobs : Submit(j) \/ Take(j) \/ Perform(j) \/ Settle(j)

Spec == Init /\ [][Next]_vars
============================================================================
