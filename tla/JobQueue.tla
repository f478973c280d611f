----------------------------- MODULE JobQueue -----------------------------
(***************************************************************************)
(* The background job queue (vivacapi/workers/job_worker.py): a jobs table *)
(* in PostgreSQL, HTTP handlers that insert PENDING rows, and one worker   *)
(* loop inside each server process.  A process runs startup_orphan_cleanup *)
(* when it boots and then claims and processes jobs until it is cancelled  *)
(* or killed.  Several processes share the table.                          *)
(*                                                                         *)
(* Each action is one database transaction, or one step of a worker        *)
(* between two awaits at which it can be stopped.  A transaction that does *)
(* not commit leaves the table as it was.                                  *)
(***************************************************************************)
EXTENDS Naturals

CONSTANTS
  Workers,    \* the server processes, each with one worker loop
  Jobs,       \* the jobs, numbered in the order of their created_at
  Kind,       \* Kind[j]: the JobType of j
  NoJob,      \* a worker that holds no job
  MaxFaults   \* how many kills, cancellations and database errors happen

JobKind == {"spots", "business", "dump"}

ASSUME JobsAssumption == Jobs \subseteq Nat /\ NoJob \notin Jobs
ASSUME KindAssumption == Kind \in [Jobs -> JobKind]
ASSUME FaultAssumption == MaxFaults \in Nat

VARIABLES
  status,     \* status[j]: jobs.status, or "unborn" before the INSERT
  error,      \* error[j]: jobs.error: absent, the cleanup's, or a cause
  result,     \* result[j]: jobs.result: absent, or what the handler returned
  effects,    \* effects[j]: how often the job's effect has become durable
  pc,         \* pc[w]: where the worker loop of process w stands
  holds,      \* holds[w]: the job w has locked or claimed
  verdict,    \* verdict[w]: what the handler did, uncommitted
  faults      \* faults so far

table == <<status, error, result, effects>>
worker == <<pc, holds, verdict>>
vars == <<status, error, result, effects, pc, holds, verdict, faults>>

Status == {"unborn", "pending", "running", "succeeded", "failed"}
Settled == {"succeeded", "failed"}
Outcome == {"applied", "rejected", "uploaded"}
Verdict == Outcome \cup {"none", "raised"}

\* Between a committed claim and the last commit of process_job.
Processing == {"claimed", "handling", "bumping", "ending"}

TypeOK ==
  /\ status \in [Jobs -> Status]
  /\ error \in [Jobs -> {"none", "orphaned", "cause"}]
  /\ result \in [Jobs -> Outcome \cup {"none"}]
  /\ effects \in [Jobs -> Nat]
  /\ pc \in [Workers -> {"down", "idle", "claiming"} \cup Processing]
  /\ holds \in [Workers -> Jobs \cup {NoJob}]
  /\ verdict \in [Workers -> Verdict]
  /\ faults \in 0..MaxFaults

Init ==
  /\ status = [j \in Jobs |-> "unborn"]
  /\ error = [j \in Jobs |-> "none"]
  /\ result = [j \in Jobs |-> "none"]
  /\ effects = [j \in Jobs |-> 0]
  /\ pc = [w \in Workers |-> "down"]
  /\ holds = [w \in Workers |-> NoJob]
  /\ verdict = [w \in Workers |-> "none"]
  /\ faults = 0

---------------------------------------------------------------------------

\* POST .../bulk and POST /db-dumps: one INSERT, committed at once, served by
\* any process that is up.
Enqueue(j) ==
  /\ status[j] = "unborn"
  /\ \E w \in Workers : pc[w] # "down"
  /\ status' = [status EXCEPT ![j] = "pending"]
  /\ UNCHANGED <<error, result, effects, worker, faults>>

\* Faulty form: the process starts without the cleanup.
BootWithoutCleanup(w) ==
  /\ pc[w] = "down"
  /\ pc' = [pc EXCEPT ![w] = "idle"]
  /\ UNCHANGED <<table, holds, verdict, faults>>

\* Faulty form: the cleanup puts the jobs it finds back in the queue.
BootRequeues(w) ==
  /\ pc[w] = "down"
  /\ status' = [j \in Jobs |->
                  IF status[j] = "running" THEN "pending" ELSE status[j]]
  /\ pc' = [pc EXCEPT ![w] = "idle"]
  /\ UNCHANGED <<error, result, effects, holds, verdict, faults>>

\* lifespan: one UPDATE fails every RUNNING job, whoever runs it; then the
\* worker loop starts.
Boot(w) ==
  /\ pc[w] = "down"
  /\ status' = [j \in Jobs |->
                  IF status[j] = "running" THEN "failed" ELSE status[j]]
  /\ error' = [j \in Jobs |->
                  IF status[j] = "running" THEN "orphaned" ELSE error[j]]
  /\ pc' = [pc EXCEPT ![w] = "idle"]
  /\ UNCHANGED <<result, effects, holds, verdict, faults>>

\* The rows a claiming transaction holds FOR UPDATE.
Locked == {holds[w] : w \in {v \in Workers : pc[v] = "claiming"}}

\* Faulty form: the SELECT takes no row lock.
AnyPending == {j \in Jobs : status[j] = "pending"}

\* What SELECT ... FOR UPDATE SKIP LOCKED may return to a claim.
Claimable == {j \in Jobs : status[j] = "pending" /\ j \notin Locked}

\* Faulty form: one job at a time over all processes, by looking at the table.
LockNextIfNoneRunning(w) ==
  /\ pc[w] = "idle"
  /\ \A j \in Jobs : status[j] # "running"
  /\ \E j \in Claimable :
       /\ \A k \in Claimable : j <= k
       /\ holds' = [holds EXCEPT ![w] = j]
  /\ pc' = [pc EXCEPT ![w] = "claiming"]
  /\ UNCHANGED <<table, verdict, faults>>

\* claim_next_job, first half: the oldest claimable row is locked.
LockNext(w) ==
  /\ pc[w] = "idle"
  /\ \E j \in Claimable :
       /\ \A k \in Claimable : j <= k
       /\ holds' = [holds EXCEPT ![w] = j]
  /\ pc' = [pc EXCEPT ![w] = "claiming"]
  /\ UNCHANGED <<table, verdict, faults>>

\* claim_next_job, second half: RUNNING is written and committed.
CommitClaim(w) ==
  /\ pc[w] = "claiming"
  /\ status' = [status EXCEPT ![holds[w]] = "running"]
  /\ pc' = [pc EXCEPT ![w] = "claimed"]
  /\ UNCHANGED <<error, result, effects, holds, verdict, faults>>

\* A second session reloads the job by uid (its status is not looked at
\* again) and process_job calls the handler.
StartHandler(w) ==
  /\ pc[w] = "claimed"
  /\ pc' = [pc EXCEPT ![w] = "handling"]
  /\ UNCHANGED <<table, holds, verdict, faults>>

HandlerEnds(w, v, next) ==
  /\ pc' = [pc EXCEPT ![w] = next]
  /\ verdict' = [verdict EXCEPT ![w] = v]
  /\ UNCHANGED <<status, error, result, holds, faults>>

\* Faulty form: the bulk handlers keep the good rows of a batch that has
\* failed rows.
HandlerKeepsGoodRows(w) ==
  /\ pc[w] = "handling"
  /\ Kind[holds[w]] # "dump"
  /\ effects' = [effects EXCEPT ![holds[w]] = @ + 1]
  /\ HandlerEnds(w, "rejected", "ending")

\* A bulk handler whose batch has a failed row, or is a dry run: the outer
\* SAVEPOINT is rolled back and the counts are returned as the result.
HandlerRejects(w) ==
  /\ pc[w] = "handling"
  /\ Kind[holds[w]] # "dump"
  /\ HandlerEnds(w, "rejected", "ending")
  /\ UNCHANGED effects

\* A bulk handler whose rows all succeed: the SAVEPOINT is released into the
\* transaction.  The spots handler goes on to the cache before it returns.
HandlerApplies(w) ==
  /\ pc[w] = "handling"
  /\ Kind[holds[w]] # "dump"
  /\ HandlerEnds(w, "applied",
                 IF Kind[holds[w]] = "spots" THEN "bumping" ELSE "ending")
  /\ UNCHANGED effects

\* The awaits on Redis, whose errors are swallowed.
BumpCache(w) ==
  /\ pc[w] = "bumping"
  /\ pc' = [pc EXCEPT ![w] = "ending"]
  /\ UNCHANGED <<table, holds, verdict, faults>>

\* db_dump_handler: the file is in S3 before anything is written to the job.
HandlerUploads(w) ==
  /\ pc[w] = "handling"
  /\ Kind[holds[w]] = "dump"
  /\ effects' = [effects EXCEPT ![holds[w]] = @ + 1]
  /\ HandlerEnds(w, "uploaded", "ending")

\* The handler raises: an invalid payload, pg_dump or the upload failing.
HandlerRaises(w) ==
  /\ pc[w] = "handling"
  /\ HandlerEnds(w, "raised", "ending")
  /\ UNCHANGED effects

Released(w) ==
  /\ holds' = [holds EXCEPT ![w] = NoJob]
  /\ verdict' = [verdict EXCEPT ![w] = "none"]

\* Faulty form: the result is stored whether or not the handler raised.
EndJobAlwaysStoresResult(w) ==
  LET j == holds[w]
      v == verdict[w]
  IN  /\ pc[w] = "ending"
      /\ status' = [status EXCEPT ![j] =
                      IF v = "raised" THEN "failed" ELSE "succeeded"]
      /\ error' = [error EXCEPT ![j] = IF v = "raised" THEN "cause" ELSE @]
      /\ result' = [result EXCEPT ![j] = v]
      /\ effects' = [effects EXCEPT ![j] = IF v = "applied" THEN @ + 1 ELSE @]
      /\ pc' = [pc EXCEPT ![w] = "idle"]
      /\ Released(w)
      /\ UNCHANGED faults

\* The last commit of process_job: the status, the result or the cause, and
\* the handler's rows become durable together.  error is left alone on
\* success.
EndJob(w) ==
  LET j == holds[w]
      v == verdict[w]
  IN  /\ pc[w] = "ending"
      /\ status' = [status EXCEPT ![j] =
                      IF v = "raised" THEN "failed" ELSE "succeeded"]
      /\ error' = [error EXCEPT ![j] = IF v = "raised" THEN "cause" ELSE @]
      /\ result' = [result EXCEPT ![j] = IF v = "raised" THEN @ ELSE v]
      /\ effects' = [effects EXCEPT ![j] = IF v = "applied" THEN @ + 1 ELSE @]
      /\ pc' = [pc EXCEPT ![w] = "idle"]
      /\ Released(w)
      /\ UNCHANGED faults

Fault ==
  /\ faults < MaxFaults
  /\ faults' = faults + 1

\* A database error outside the handler, at the claim, at the reload or at
\* the last commit: job_worker_loop logs it and goes on with the next job.
CycleError(w) ==
  /\ Fault
  /\ pc[w] \in {"claiming", "claimed", "ending"}
  /\ pc' = [pc EXCEPT ![w] = "idle"]
  /\ Released(w)
  /\ UNCHANGED table

\* The process is killed, or is cancelled where nothing gets committed any
\* more: the open transaction is rolled back.
Stop(w) ==
  /\ Fault
  /\ pc[w] # "down"
  /\ pc' = [pc EXCEPT ![w] = "down"]
  /\ Released(w)
  /\ UNCHANGED table

\* lifespan cancels the worker at an await on Redis: CancelledError is no
\* Exception, so status stays as it is, and finally commits the rows.
CancelWhileBumping(w) ==
  /\ Fault
  /\ pc[w] = "bumping"
  /\ effects' = [effects EXCEPT ![holds[w]] = @ + 1]
  /\ pc' = [pc EXCEPT ![w] = "down"]
  /\ Released(w)
  /\ UNCHANGED <<status, error, result>>

\* What the loop of process w does unless it is stopped.
WorkerStep(w) ==
  \/ LockNext(w)
  \/ CommitClaim(w)
  \/ StartHandler(w)
  \/ HandlerRejects(w)
  \/ HandlerApplies(w)
  \/ HandlerUploads(w)
  \/ HandlerRaises(w)
  \/ BumpCache(w)
  \/ EndJob(w)

Next ==
  \/ \E j \in Jobs : Enqueue(j)
  \/ \E w \in Workers :
       \/ Boot(w)
       \/ WorkerStep(w)
       \/ CycleError(w)
       \/ Stop(w)
       \/ CancelWhileBumping(w)

Spec == Init /\ [][Next]_vars

\* Requests may stop and faults need not happen.  A process that is down is
\* started again (the container restarts always, uvicorn respawns its
\* workers) and a worker loop that is up goes on.
FairSpec ==
  /\ Spec
  /\ \A w \in Workers : WF_vars(Boot(w)) /\ WF_vars(WorkerStep(w))
---------------------------------------------------------------------------
(* Properties.                                                             *)

\* FOR UPDATE SKIP LOCKED hands a job to one worker: no two worker loops ever
\* hold the same job, whether still locked or already claimed
\* (claim_next_job's "distributed one by one without conflict").
OneHolder ==
  \A v, w \in Workers : holds[v] = holds[w] /\ holds[v] # NoJob => v = w

\* No history of claims, crashes, cancellations, failed commits and reboots
\* makes the effect of a job durable twice: cleanup_orphaned_jobs gives a job
\* up and never hands it out again.
EffectAtMostOnce == \A j \in Jobs : effects[j] <= 1

\* The job row never claims more or less than what became durable: a result
\* is there exactly when the job succeeded, a rejected or dry-run batch left
\* no row behind, an applied or uploaded one left its effect, and a handler
\* that raised left no rows (process_job's single last commit and the outer
\* SAVEPOINT of the bulk handlers).
OutcomeMatchesEffect ==
  \A j \in Jobs :
    /\ result[j] # "none" <=> status[j] = "succeeded"
    /\ result[j] = "rejected" => effects[j] = 0
    /\ result[j] \in {"applied", "uploaded"} => effects[j] = 1
    /\ error[j] = "cause" => status[j] = "failed" /\ effects[j] = 0

\* Where a job is, as JobExecution sees it: a row lock is not yet a claim,
\* and a job is settled once no worker has it.
phase ==
  [j \in Jobs |->
    CASE status[j] = "unborn" -> "absent"
      [] status[j] = "pending" -> "queued"
      [] OTHER -> IF \E w \in Workers : holds[w] = j THEN "taken" ELSE "settled"]

Execution ==
  INSTANCE JobExecution WITH Jobs <- Jobs, phase <- phase, effects <- effects

\* The queue, with all its processes and faults, implements one execution per
\* job: taken once, effect durable at most once and only while taken, and
\* nothing after it is settled.
ImplementsJobExecution == Execution!Spec

\* A queued job does not wait for ever and no worker keeps it for ever: it
\* ends up out of the queue with nobody working on it (POLL loop, restart
\* policy).
EveryJobIsServed ==
  \A j \in Jobs :
    status[j] = "pending" ~>
      /\ status[j] \notin {"unborn", "pending"}
      /\ \A w \in Workers : holds[w] # j

\* A job left RUNNING when a process went down does not stay RUNNING: the boot
\* of that process settles it, if nothing else did
\* (startup_orphan_cleanup in lifespan).
BootClearsRunning ==
  \A j \in Jobs :
    status[j] = "running" /\ (\E w \in Workers : pc[w] = "down")
      ~> status[j] \in Settled
============================================================================
