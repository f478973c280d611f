-------------------------- MODULE JobQueueProofs --------------------------
(***************************************************************************)
(* Theorems about JobQueue, for any number of processes, jobs and faults.  *)
(*                                                                         *)
(* Everything rests on one inductive invariant.  The safety properties are *)
(* not inductive: they say nothing of what a worker that holds a job may   *)
(* still commit.  HolderInv says it: who holds a job holds it alone, the   *)
(* job is still pending (row lock) or running or given up by some boot     *)
(* (claimed), and nothing of it is durable yet, except an uploaded file.   *)
(***************************************************************************)
EXTENDS JobQueue, TLAPS

\* What is true of the job that worker w holds, by where w stands.
Holding(w) ==
  /\ pc[w] \in {"down", "idle"} <=> holds[w] = NoJob
  /\ pc[w] = "claiming" => status[holds[w]] = "pending"
  /\ pc[w] \in Processing => status[holds[w]] \in {"running", "failed"}
  /\ pc[w] = "bumping" => verdict[w] = "applied"
  /\ pc[w] = "ending" <=> verdict[w] # "none" /\ pc[w] # "bumping"
  /\ holds[w] # NoJob =>
       /\ result[holds[w]] = "none"
       /\ error[holds[w]] # "cause"
       /\ effects[holds[w]] = IF verdict[w] = "uploaded" THEN 1 ELSE 0

HolderInv == \A w \in Workers : Holding(w)

\* A job that was never claimed has left no trace, and one that is not
\* finished has no cause of failure.
FreshInv ==
  \A j \in Jobs :
    /\ status[j] \in {"unborn", "pending"} => effects[j] = 0
    /\ status[j] \in {"unborn", "pending", "running"} => error[j] = "none"

IInv ==
  /\ TypeOK
  /\ OneHolder
  /\ HolderInv
  /\ FreshInv
  /\ EffectAtMostOnce
  /\ OutcomeMatchesEffect
---------------------------------------------------------------------------

LEMMA InvInit == Init => IInv
<1> SUFFICES ASSUME Init PROVE IInv
  OBVIOUS
<1> USE JobsAssumption, FaultAssumption DEF Init
<1>1. TypeOK
  BY DEF TypeOK, Status, Outcome, Verdict, Processing
<1>2. OneHolder /\ HolderInv
  BY DEF OneHolder, HolderInv, Holding, Processing
<1>3. FreshInv /\ EffectAtMostOnce /\ OutcomeMatchesEffect
  BY DEF FreshInv, EffectAtMostOnce, OutcomeMatchesEffect
<1>4. QED
  BY <1>1, <1>2, <1>3 DEF IInv

\* A worker between its claim and its last commit holds a job.
LEMMA WorkingHolds ==
  ASSUME IInv, NEW w \in Workers, pc[w] \notin {"down", "idle"}
  PROVE  holds[w] \in Jobs
BY DEF IInv, TypeOK, HolderInv, Holding

LEMMA EnqueueStep ==
  ASSUME IInv, NEW j \in Jobs, Enqueue(j)
  PROVE  IInv'
<1> USE JobsAssumption, FaultAssumption
    DEF IInv, TypeOK, Status, Outcome, Verdict, Processing, table, worker,
        Enqueue
<1>1. TypeOK'
  OBVIOUS
<1>2. OneHolder'
  BY DEF OneHolder
<1>3. HolderInv'
  BY DEF OneHolder, HolderInv, Holding
<1>4. FreshInv'
  BY DEF FreshInv, HolderInv, Holding
<1>5. EffectAtMostOnce' /\ OutcomeMatchesEffect'
  BY DEF HolderInv, Holding, FreshInv, EffectAtMostOnce, OutcomeMatchesEffect
<1>6. QED
  BY <1>1, <1>2, <1>3, <1>4, <1>5

LEMMA BootStep ==
  ASSUME IInv, NEW w \in Workers, Boot(w)
  PROVE  IInv'
<1> USE JobsAssumption, FaultAssumption
    DEF IInv, TypeOK, Status, Outcome, Verdict, Processing, table, worker,
        Boot
<1>1. TypeOK'
  OBVIOUS
<1>2. OneHolder'
  BY DEF OneHolder
<1>3. HolderInv'
  BY DEF OneHolder, HolderInv, Holding
<1>4. FreshInv'
  BY DEF FreshInv, HolderInv, Holding
<1>5. EffectAtMostOnce' /\ OutcomeMatchesEffect'
  BY DEF HolderInv, Holding, FreshInv, EffectAtMostOnce, OutcomeMatchesEffect
<1>6. QED
  BY <1>1, <1>2, <1>3, <1>4, <1>5

LEMMA LockStep ==
  ASSUME IInv, NEW w \in Workers, LockNext(w)
  PROVE  IInv'
<1> USE JobsAssumption
    DEF IInv, TypeOK, Status, Outcome, Verdict, Processing, table
<1>1. PICK j \in Claimable : holds' = [holds EXCEPT ![w] = j]
  BY DEF LockNext
<1>2. /\ j \in Jobs /\ status[j] = "pending" /\ pc[w] = "idle"
      /\ pc' = [pc EXCEPT ![w] = "claiming"]
      /\ UNCHANGED <<table, verdict, faults>>
  BY <1>1 DEF LockNext, Claimable
<1>3. \A v \in Workers : holds[v] # j
  \* A claiming worker has a lock on its job, a processing one has a job that
  \* is not pending.
  <2> SUFFICES ASSUME NEW v \in Workers, holds[v] = j PROVE FALSE
    OBVIOUS
  <2>1. pc[v] = "claiming"
    BY <1>2, JobsAssumption DEF HolderInv, Holding
  <2>2. QED
    BY <1>1, <2>1 DEF Claimable, Locked
<1>4. TypeOK'
  BY <1>1, <1>2
<1>5. OneHolder'
  BY <1>1, <1>2, <1>3 DEF OneHolder
<1>6. HolderInv'
  <2> SUFFICES ASSUME NEW v \in Workers PROVE Holding(v)'
    BY DEF HolderInv
  <2>1. CASE v = w
    <3>1. result[j] = "none" /\ error[j] = "none" /\ effects[j] = 0
      BY <1>2 DEF FreshInv, OutcomeMatchesEffect
    <3>2. verdict[w] = "none"
      BY <1>2 DEF HolderInv, Holding
    <3>3. j # NoJob
      BY <1>2, JobsAssumption
    <3>4. QED
      BY <1>1, <1>2, <2>1, <3>1, <3>2, <3>3 DEF Holding
  <2>2. CASE v # w
    BY <1>1, <1>2, <2>2 DEF HolderInv, Holding
  <2>3. QED
    BY <2>1, <2>2
<1>7. FreshInv' /\ EffectAtMostOnce' /\ OutcomeMatchesEffect'
  BY <1>2 DEF FreshInv, EffectAtMostOnce, OutcomeMatchesEffect
<1>8. QED
  BY <1>4, <1>5, <1>6, <1>7

LEMMA ClaimStep ==
  ASSUME IInv, NEW w \in Workers, CommitClaim(w)
  PROVE  IInv'
<1> USE JobsAssumption, FaultAssumption
    DEF IInv, TypeOK, Status, Outcome, Verdict, Processing, table, worker,
        CommitClaim
<1>0. holds[w] \in Jobs
  BY WorkingHolds DEF CommitClaim
<1>1. TypeOK'
  BY <1>0
<1>2. OneHolder'
  BY <1>0 DEF OneHolder
<1>3. HolderInv'
  BY <1>0 DEF OneHolder, HolderInv, Holding
<1>4. FreshInv'
  BY <1>0 DEF FreshInv, HolderInv, Holding
<1>5. EffectAtMostOnce' /\ OutcomeMatchesEffect'
  BY <1>0 DEF HolderInv, Holding, FreshInv, EffectAtMostOnce, OutcomeMatchesEffect
<1>6. QED
  BY <1>1, <1>2, <1>3, <1>4, <1>5

LEMMA StartStep ==
  ASSUME IInv, NEW w \in Workers, StartHandler(w)
  PROVE  IInv'
<1> USE JobsAssumption, FaultAssumption
    DEF IInv, TypeOK, Status, Outcome, Verdict, Processing, table, worker,
        StartHandler
<1>0. holds[w] \in Jobs
  BY WorkingHolds DEF StartHandler
<1>1. TypeOK'
  BY <1>0
<1>2. OneHolder'
  BY <1>0 DEF OneHolder
<1>3. HolderInv'
  BY <1>0 DEF OneHolder, HolderInv, Holding
<1>4. FreshInv'
  BY <1>0 DEF FreshInv, HolderInv, Holding
<1>5. EffectAtMostOnce' /\ OutcomeMatchesEffect'
  BY <1>0 DEF HolderInv, Holding, FreshInv, EffectAtMostOnce, OutcomeMatchesEffect
<1>6. QED
  BY <1>1, <1>2, <1>3, <1>4, <1>5

LEMMA RejectsStep ==
  ASSUME IInv, NEW w \in Workers, HandlerRejects(w)
  PROVE  IInv'
<1> USE JobsAssumption, FaultAssumption
    DEF IInv, TypeOK, Status, Outcome, Verdict, Processing, table, worker,
        HandlerRejects, HandlerEnds
<1>0. holds[w] \in Jobs
  BY WorkingHolds DEF HandlerRejects
<1>1. TypeOK'
  BY <1>0
<1>2. OneHolder'
  BY <1>0 DEF OneHolder
<1>3. HolderInv'
  BY <1>0 DEF OneHolder, HolderInv, Holding
<1>4. FreshInv'
  BY <1>0 DEF FreshInv, HolderInv, Holding
<1>5. EffectAtMostOnce' /\ OutcomeMatchesEffect'
  BY <1>0 DEF HolderInv, Holding, FreshInv, EffectAtMostOnce, OutcomeMatchesEffect
<1>6. QED
  BY <1>1, <1>2, <1>3, <1>4, <1>5

LEMMA AppliesStep ==
  ASSUME IInv, NEW w \in Workers, HandlerApplies(w)
  PROVE  IInv'
<1> USE JobsAssumption, FaultAssumption
    DEF IInv, TypeOK, Status, Outcome, Verdict, Processing, table, worker,
        HandlerApplies, HandlerEnds
<1>0. holds[w] \in Jobs
  BY WorkingHolds DEF HandlerApplies
<1>1. TypeOK'
  BY <1>0
<1>2. OneHolder'
  BY <1>0 DEF OneHolder
<1>3. HolderInv'
  BY <1>0 DEF OneHolder, HolderInv, Holding
<1>4. FreshInv'
  BY <1>0 DEF FreshInv, HolderInv, Holding
<1>5. EffectAtMostOnce' /\ OutcomeMatchesEffect'
  BY <1>0 DEF HolderInv, Holding, FreshInv, EffectAtMostOnce, OutcomeMatchesEffect
<1>6. QED
  BY <1>1, <1>2, <1>3, <1>4, <1>5

LEMMA UploadsStep ==
  ASSUME IInv, NEW w \in Workers, HandlerUploads(w)
  PROVE  IInv'
<1> USE JobsAssumption, FaultAssumption
    DEF IInv, TypeOK, Status, Outcome, Verdict, Processing, table, worker,
        HandlerUploads, HandlerEnds
<1>0. holds[w] \in Jobs
  BY WorkingHolds DEF HandlerUploads
<1>1. TypeOK'
  <2>1. effects[holds[w]] \in Nat
    BY <1>0
  <2>2. effects' \in [Jobs -> Nat]
    BY <1>0, <2>1
  <2>3. QED
    BY <1>0, <2>2
<1>2. OneHolder'
  BY <1>0 DEF OneHolder
<1>3. HolderInv'
  BY <1>0 DEF OneHolder, HolderInv, Holding
<1>4. FreshInv'
  BY <1>0 DEF FreshInv, HolderInv, Holding
<1>5. EffectAtMostOnce' /\ OutcomeMatchesEffect'
  BY <1>0 DEF HolderInv, Holding, FreshInv, EffectAtMostOnce, OutcomeMatchesEffect
<1>6. QED
  BY <1>1, <1>2, <1>3, <1>4, <1>5

LEMMA RaisesStep ==
  ASSUME IInv, NEW w \in Workers, HandlerRaises(w)
  PROVE  IInv'
<1> USE JobsAssumption, FaultAssumption
    DEF IInv, TypeOK, Status, Outcome, Verdict, Processing, table, worker,
        HandlerRaises, HandlerEnds
<1>0. holds[w] \in Jobs
  BY WorkingHolds DEF HandlerRaises
<1>1. TypeOK'
  BY <1>0
<1>2. OneHolder'
  BY <1>0 DEF OneHolder
<1>3. HolderInv'
  BY <1>0 DEF OneHolder, HolderInv, Holding
<1>4. FreshInv'
  BY <1>0 DEF FreshInv, HolderInv, Holding
<1>5. EffectAtMostOnce' /\ OutcomeMatchesEffect'
  BY <1>0 DEF HolderInv, Holding, FreshInv, EffectAtMostOnce, OutcomeMatchesEffect
<1>6. QED
  BY <1>1, <1>2, <1>3, <1>4, <1>5

LEMMA BumpStep ==
  ASSUME IInv, NEW w \in Workers, BumpCache(w)
  PROVE  IInv'
<1> USE JobsAssumption, FaultAssumption
    DEF IInv, TypeOK, Status, Outcome, Verdict, Processing, table, worker,
        BumpCache
<1>0. holds[w] \in Jobs
  BY WorkingHolds DEF BumpCache
<1>1. TypeOK'
  BY <1>0
<1>2. OneHolder'
  BY <1>0 DEF OneHolder
<1>3. HolderInv'
  BY <1>0 DEF OneHolder, HolderInv, Holding
<1>4. FreshInv'
  BY <1>0 DEF FreshInv, HolderInv, Holding
<1>5. EffectAtMostOnce' /\ OutcomeMatchesEffect'
  BY <1>0 DEF HolderInv, Holding, FreshInv, EffectAtMostOnce, OutcomeMatchesEffect
<1>6. QED
  BY <1>1, <1>2, <1>3, <1>4, <1>5

LEMMA EndStep ==
  ASSUME IInv, NEW w \in Workers, EndJob(w)
  PROVE  IInv'
<1> USE JobsAssumption, FaultAssumption
    DEF IInv, TypeOK, Status, Outcome, Verdict, Processing, table, worker,
        EndJob, Released
<1>0. holds[w] \in Jobs
  BY WorkingHolds DEF EndJob
<1>1. TypeOK'
  <2>1. effects[holds[w]] \in Nat
    BY <1>0
  <2>2. effects' \in [Jobs -> Nat]
    BY <1>0, <2>1
  <2>3. QED
    BY <1>0, <2>2
<1>2. OneHolder'
  BY <1>0 DEF OneHolder
<1>3. HolderInv'
  BY <1>0 DEF OneHolder, HolderInv, Holding
<1>4. FreshInv'
  BY <1>0 DEF FreshInv, HolderInv, Holding
<1>5. EffectAtMostOnce' /\ OutcomeMatchesEffect'
  BY <1>0 DEF HolderInv, Holding, FreshInv, EffectAtMostOnce, OutcomeMatchesEffect
<1>6. QED
  BY <1>1, <1>2, <1>3, <1>4, <1>5

LEMMA CycleErrorStep ==
  ASSUME IInv, NEW w \in Workers, CycleError(w)
  PROVE  IInv'
<1> USE JobsAssumption, FaultAssumption
    DEF IInv, TypeOK, Status, Outcome, Verdict, Processing, table, worker,
        CycleError, Released, Fault
<1>0. holds[w] \in Jobs
  BY WorkingHolds DEF CycleError
<1>1. TypeOK'
  BY <1>0
<1>2. OneHolder'
  BY <1>0 DEF OneHolder
<1>3. HolderInv'
  BY <1>0 DEF OneHolder, HolderInv, Holding
<1>4. FreshInv'
  BY <1>0 DEF FreshInv, HolderInv, Holding
<1>5. EffectAtMostOnce' /\ OutcomeMatchesEffect'
  BY <1>0 DEF HolderInv, Holding, FreshInv, EffectAtMostOnce, OutcomeMatchesEffect
<1>6. QED
  BY <1>1, <1>2, <1>3, <1>4, <1>5

LEMMA StopStep ==
  ASSUME IInv, NEW w \in Workers, Stop(w)
  PROVE  IInv'
<1> USE JobsAssumption, FaultAssumption
    DEF IInv, TypeOK, Status, Outcome, Verdict, Processing, table, worker,
        Stop, Released, Fault
<1>1. TypeOK'
  OBVIOUS
<1>2. OneHolder'
  BY DEF OneHolder
<1>3. HolderInv'
  BY DEF OneHolder, HolderInv, Holding
<1>4. FreshInv'
  BY DEF FreshInv, HolderInv, Holding
<1>5. EffectAtMostOnce' /\ OutcomeMatchesEffect'
  BY DEF HolderInv, Holding, FreshInv, EffectAtMostOnce, OutcomeMatchesEffect
<1>6. QED
  BY <1>1, <1>2, <1>3, <1>4, <1>5

LEMMA CancelStep ==
  ASSUME IInv, NEW w \in Workers, CancelWhileBumping(w)
  PROVE  IInv'
<1> USE JobsAssumption, FaultAssumption
    DEF IInv, TypeOK, Status, Outcome, Verdict, Processing, table, worker,
        CancelWhileBumping, Released, Fault
<1>0. holds[w] \in Jobs
  BY WorkingHolds DEF CancelWhileBumping
<1>1. TypeOK'
  <2>1. effects[holds[w]] \in Nat
    BY <1>0
  <2>2. effects' \in [Jobs -> Nat]
    BY <1>0, <2>1
  <2>3. QED
    BY <1>0, <2>2
<1>2. OneHolder'
  BY <1>0 DEF OneHolder
<1>3. HolderInv'
  BY <1>0 DEF OneHolder, HolderInv, Holding
<1>4. FreshInv'
  BY <1>0 DEF FreshInv, HolderInv, Holding
<1>5. EffectAtMostOnce' /\ OutcomeMatchesEffect'
  BY <1>0 DEF HolderInv, Holding, FreshInv, EffectAtMostOnce, OutcomeMatchesEffect
<1>6. QED
  BY <1>1, <1>2, <1>3, <1>4, <1>5

LEMMA InvStep == IInv /\ [Next]_vars => IInv'
<1> SUFFICES ASSUME IInv, [Next]_vars PROVE IInv'
  OBVIOUS
<1>1. CASE UNCHANGED vars
  BY <1>1 DEF vars, IInv, TypeOK, OneHolder, HolderInv, Holding, FreshInv,
              EffectAtMostOnce, OutcomeMatchesEffect
<1>2. CASE Next
  BY <1>2, EnqueueStep, BootStep, LockStep, ClaimStep, StartStep,
     RejectsStep, AppliesStep, UploadsStep, RaisesStep, BumpStep, EndStep,
     CycleErrorStep, StopStep, CancelStep DEF Next, WorkerStep
<1>3. QED
  BY <1>1, <1>2

LEMMA Invariance == Spec => []IInv
BY InvInit, InvStep, PTL DEF Spec

\* Every reachable table row and worker state has its type; a result is never
\* stored for a handler that raised (process_job).
THEOREM TypeCorrect == Spec => []TypeOK
<1>1. IInv => TypeOK
  BY DEF IInv
<1>2. QED
  BY <1>1, Invariance, PTL

\* However many processes claim concurrently, and whatever fails, no two of
\* them ever hold the same job (claim_next_job, FOR UPDATE SKIP LOCKED).
THEOREM ClaimsAreExclusive == Spec => []OneHolder
<1>1. IInv => OneHolder
  BY DEF IInv
<1>2. QED
  BY <1>1, Invariance, PTL

\* No history of crashes, cancellations, lost commits and boots makes the
\* effect of a job durable twice (cleanup_orphaned_jobs never requeues).
THEOREM EffectsAreNotRepeated == Spec => []EffectAtMostOnce
<1>1. IInv => EffectAtMostOnce
  BY DEF IInv
<1>2. QED
  BY <1>1, Invariance, PTL

\* What the job row reports agrees with what became durable (process_job's one
\* last commit, the outer SAVEPOINT of the bulk handlers).
THEOREM ReportsAreTrue == Spec => []OutcomeMatchesEffect
<1>1. IInv => OutcomeMatchesEffect
  BY DEF IInv
<1>2. QED
  BY <1>1, Invariance, PTL

---------------------------------------------------------------------------
(* The refinement of JobExecution.                                         *)

LEMMA SameFunction ==
  ASSUME NEW S, NEW T, NEW f \in [S -> T], NEW g \in [S -> T],
         \A x \in S : f[x] = g[x]
  PROVE  f = g
OBVIOUS

\* A job on which some worker is processing is taken.
LEMMA ProcessedIsTaken ==
  ASSUME IInv, NEW w \in Workers, pc[w] \in Processing
  PROVE  holds[w] \in Jobs /\ phase[holds[w]] = "taken"
<1>1. holds[w] \in Jobs
  BY WorkingHolds DEF Processing
<1>2. status[holds[w]] \in {"running", "failed"}
  BY DEF IInv, HolderInv, Holding
<1>3. QED
  BY <1>1, <1>2 DEF phase

\* Nothing moves in the abstract specification as long as no job is taken or
\* dropped by a processing worker and no job enters or leaves the queue.
LEMMA PhaseKept ==
  ASSUME IInv,
         \A j \in Jobs :
           /\ status'[j] = "unborn" <=> status[j] = "unborn"
           /\ status'[j] = "pending" <=> status[j] = "pending"
           /\ status[j] \notin {"unborn", "pending"} =>
                ((\E w \in Workers : holds'[w] = j)
                   <=> (\E w \in Workers : holds[w] = j))
  PROVE  phase' = phase
BY DEF phase

\* The one holder of a job lets go of it: the job is settled.
LEMMA ReleaseSettles ==
  ASSUME IInv, NEW w \in Workers, pc[w] \in Processing,
         Released(w),
         \A j \in Jobs : j # holds[w] => status'[j] = status[j],
         status'[holds[w]] \notin {"unborn", "pending"}
  PROVE  phase' = [phase EXCEPT ![holds[w]] = "settled"]
<1> DEFINE h == holds[w]
<1>1. h \in Jobs /\ h # NoJob
  BY WorkingHolds, JobsAssumption DEF Processing
<1>2. holds \in [Workers -> Jobs \cup {NoJob}]
  BY DEF IInv, TypeOK
<1>3. \A v \in Workers : holds'[v] # h
  BY <1>1, <1>2 DEF Released, IInv, OneHolder
<1>4. \A j \in Jobs \ {h}, v \in Workers : holds'[v] = j <=> holds[v] = j
  BY <1>1, <1>2, JobsAssumption DEF Released
<1>5. phase'[h] = "settled"
  BY <1>1, <1>3 DEF phase
<1>6. \A j \in Jobs \ {h} : phase'[j] = phase[j]
  <2> SUFFICES ASSUME NEW j \in Jobs \ {h} PROVE phase'[j] = phase[j]
    OBVIOUS
  <2>1. (\E v \in Workers : holds'[v] = j) <=> (\E v \in Workers : holds[v] = j)
    BY <1>4
  <2>2. status'[j] = status[j]
    OBVIOUS
  <2>3. QED
    BY <2>1, <2>2 DEF phase
<1>7. phase \in [Jobs -> {"absent", "queued", "taken", "settled"}]
      /\ phase' = [j \in Jobs |-> phase'[j]]
  BY DEF phase
<1>8. QED
  BY <1>1, <1>5, <1>6, <1>7

LEMMA RefinementStep ==
  IInv /\ IInv' /\ [Next]_vars => [Execution!Next]_(Execution!vars)
<1> SUFFICES ASSUME IInv, IInv', [Next]_vars
             PROVE  [Execution!Next]_(Execution!vars)
  OBVIOUS
<1> DEFINE AStep(j) == Execution!Submit(j) \/ Execution!Take(j)
                         \/ Execution!Perform(j) \/ Execution!Settle(j)
           AStutter == UNCHANGED Execution!vars
<1>0. /\ (\E j \in Jobs : AStep(j)) => [Execution!Next]_(Execution!vars)
      /\ phase' = phase /\ effects' = effects => AStutter
      /\ AStutter => [Execution!Next]_(Execution!vars)
  BY DEF Execution!Next, Execution!vars
<1> HIDE DEF AStep, AStutter
<1> USE DEF IInv, TypeOK, table, worker
<1>1. ASSUME NEW j \in Jobs, Enqueue(j) PROVE AStep(j)
  <2>1. phase[j] = "absent" /\ phase' = [phase EXCEPT ![j] = "queued"]
    BY <1>1 DEF Enqueue, phase
  <2>2. QED
    BY <1>1, <2>1 DEF Enqueue, AStep, Execution!Submit
<1>2. ASSUME NEW w \in Workers, Boot(w) PROVE AStutter
  <2>1. phase' = phase
    BY <1>2, PhaseKept DEF Boot
  <2>2. QED
    BY <1>2, <2>1, <1>0 DEF Boot
<1>3. ASSUME NEW w \in Workers, LockNext(w) PROVE AStutter
  <2>1. PICK j \in Claimable : holds' = [holds EXCEPT ![w] = j]
    BY <1>3 DEF LockNext
  <2>2. holds[w] = NoJob
    BY <1>3 DEF LockNext, HolderInv, Holding
  <2>3. \A k \in Jobs : k # j =>
          ((\E v \in Workers : holds'[v] = k) <=> (\E v \in Workers : holds[v] = k))
    BY <2>1, <2>2, JobsAssumption
  <2>4. phase' = phase
    BY <1>3, <2>1, <2>3, PhaseKept DEF LockNext, Claimable
  <2>5. QED
    BY <1>3, <2>4, <1>0 DEF LockNext
<1>4. ASSUME NEW w \in Workers, CommitClaim(w) PROVE AStep(holds[w])
  <2>1. holds[w] \in Jobs /\ status[holds[w]] = "pending"
    BY <1>4, WorkingHolds DEF CommitClaim, HolderInv, Holding
  <2>2. phase[holds[w]] = "queued"
        /\ phase' = [phase EXCEPT ![holds[w]] = "taken"]
    BY <1>4, <2>1 DEF CommitClaim, phase
  <2>3. QED
    BY <1>4, <2>2 DEF CommitClaim, AStep, Execution!Take
<1>5. ASSUME NEW w \in Workers,
             \/ StartHandler(w) \/ HandlerRejects(w) \/ HandlerApplies(w)
             \/ HandlerRaises(w) \/ BumpCache(w)
      PROVE  AStutter
  <2>1. UNCHANGED <<status, holds, effects>>
    BY <1>5 DEF StartHandler, HandlerRejects, HandlerApplies, HandlerRaises,
                HandlerEnds, BumpCache
  <2>2. phase' = phase
    BY <2>1, PhaseKept
  <2>3. QED
    BY <2>1, <2>2, <1>0
<1>6. ASSUME NEW w \in Workers, HandlerUploads(w) PROVE AStep(holds[w])
  <2>1. UNCHANGED <<status, holds>> /\ pc[w] = "handling"
        /\ effects' = [effects EXCEPT ![holds[w]] = @ + 1]
    BY <1>6 DEF HandlerUploads, HandlerEnds
  <2>2. phase' = phase
    BY <2>1, PhaseKept
  <2>3. holds[w] \in Jobs /\ phase[holds[w]] = "taken"
    BY <2>1, ProcessedIsTaken DEF Processing
  <2>4. effects[holds[w]] = 0
    BY <2>1, <2>3, JobsAssumption DEF HolderInv, Holding
  <2>5. QED
    BY <2>1, <2>2, <2>3, <2>4 DEF AStep, Execution!Perform
<1>7. ASSUME NEW w \in Workers, EndJob(w) PROVE AStep(holds[w])
  <2>1. pc[w] = "ending" /\ holds[w] \in Jobs /\ phase[holds[w]] = "taken"
    BY <1>7, ProcessedIsTaken DEF EndJob, Processing
  <2>2. phase' = [phase EXCEPT ![holds[w]] = "settled"]
    BY <1>7, <2>1, ReleaseSettles DEF EndJob, Processing
  <2>3. \/ effects' = effects
        \/ /\ effects[holds[w]] = 0
           /\ effects' = [effects EXCEPT ![holds[w]] = 1]
    <3> DEFINE e == IF verdict[w] = "applied"
                      THEN effects[holds[w]] + 1 ELSE effects[holds[w]]
    <3>1. effects' = [effects EXCEPT ![holds[w]] = e]
      BY <1>7 DEF EndJob
    <3>2. CASE verdict[w] = "applied"
      <4>1. effects[holds[w]] = 0
        BY <2>1, <3>2, JobsAssumption DEF HolderInv, Holding
      <4>2. e = 1
        BY <3>2, <4>1
      <4>3. QED
        BY <3>1, <4>1, <4>2
    <3>3. CASE verdict[w] # "applied"
      <4>1. e = effects[holds[w]]
        BY <3>3
      <4> HIDE DEF e
      <4>2. \A j \in Jobs : effects'[j] = effects[j]
        BY <3>1, <4>1
      <4>3. effects' = effects
        BY <4>2, SameFunction
      <4>4. QED
        BY <4>3
    <3>4. QED
      BY <3>2, <3>3
  <2>4. QED
    BY <2>1, <2>2, <2>3 DEF AStep, Execution!Settle
<1>8. ASSUME NEW w \in Workers, CycleError(w) \/ Stop(w)
      PROVE  AStutter \/ (holds[w] \in Jobs /\ AStep(holds[w]))
  <2>1. Released(w) /\ UNCHANGED table
    BY <1>8 DEF CycleError, Stop
  <2>2. CASE pc[w] \in Processing
    <3>1. holds[w] \in Jobs /\ phase[holds[w]] = "taken"
      BY <2>2, ProcessedIsTaken
    <3>2. status'[holds[w]] \notin {"unborn", "pending"}
      BY <2>1, <2>2 DEF HolderInv, Holding
    <3>3. phase' = [phase EXCEPT ![holds[w]] = "settled"]
      BY <2>1, <2>2, <3>2, ReleaseSettles
    <3>4. QED
      BY <2>1, <3>1, <3>3 DEF AStep, Execution!Settle
  <2>3. CASE pc[w] \notin Processing
    <3>1. holds[w] = NoJob \/ status[holds[w]] = "pending"
      BY <2>3 DEF HolderInv, Holding, Processing
    <3>2. \A k \in Jobs : status[k] # "pending" =>
            ((\E v \in Workers : holds'[v] = k) <=> (\E v \in Workers : holds[v] = k))
      BY <2>1, <3>1, JobsAssumption DEF Released
    <3>3. phase' = phase
      BY <2>1, <3>2, PhaseKept
    <3>4. QED
      BY <2>1, <3>3, <1>0
  <2>4. QED
    BY <2>2, <2>3
<1>9. ASSUME NEW w \in Workers, CancelWhileBumping(w) PROVE AStep(holds[w])
  <2>1. pc[w] = "bumping" /\ holds[w] \in Jobs /\ phase[holds[w]] = "taken"
    BY <1>9, ProcessedIsTaken DEF CancelWhileBumping, Processing
  <2>2. status'[holds[w]] \notin {"unborn", "pending"}
    BY <1>9, <2>1 DEF CancelWhileBumping, HolderInv, Holding, Processing
  <2>3. phase' = [phase EXCEPT ![holds[w]] = "settled"]
    BY <1>9, <2>1, <2>2, ReleaseSettles DEF CancelWhileBumping, Processing
  <2>4. effects[holds[w]] = 0 /\ effects' = [effects EXCEPT ![holds[w]] = 1]
    <3>1. effects[holds[w]] = 0
      BY <2>1, JobsAssumption DEF HolderInv, Holding
    <3>2. effects' = [effects EXCEPT ![holds[w]] = effects[holds[w]] + 1]
      BY <1>9 DEF CancelWhileBumping
    <3>3. QED
      BY <3>1, <3>2
  <2>5. QED
    BY <2>1, <2>3, <2>4 DEF AStep, Execution!Settle
<1>10. ASSUME UNCHANGED vars PROVE AStutter
  <2>1. phase' = phase
    BY <1>10, PhaseKept DEF vars
  <2>2. QED
    BY <1>10, <2>1, <1>0 DEF vars
<1>11. ASSUME NEW w \in Workers,
              \/ CommitClaim(w) \/ HandlerUploads(w) \/ EndJob(w)
              \/ CancelWhileBumping(w)
       PROVE  holds[w] \in Jobs
  BY <1>11, WorkingHolds DEF CommitClaim, HandlerUploads, EndJob,
                             CancelWhileBumping
<1>12. QED
  BY <1>0, <1>1, <1>2, <1>3, <1>4, <1>5, <1>6, <1>7, <1>8, <1>9, <1>10, <1>11
     DEF Next, WorkerStep

\* The job queue, with any number of processes and faults, executes each job as
\* JobExecution describes: taken once, its effect durable at most once and only
\* while it is taken, and nothing after it is settled.
THEOREM QueueImplementsJobExecution == Spec => ImplementsJobExecution
<1>1. Init => Execution!Init
  BY DEF Init, Execution!Init, phase
<1>2. QED
  BY <1>1, RefinementStep, Invariance, PTL
     DEF Spec, ImplementsJobExecution, Execution!Spec
============================================================================
