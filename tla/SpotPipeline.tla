---------------------------- MODULE SpotPipeline ----------------------------
(***************************************************************************)
(* Spots on their way from RAW to PUBLISHED: the queue in which staff      *)
(* verify them, the edits of the console, and the batch that lets the      *)
(* trust tier of old ones decay (vivacapi/crud/spot.py and                 *)
(* api/v1/endpoints/internal_spots.py).                                    *)
(*                                                                         *)
(* Transactions run under READ COMMITTED.  Picking spots takes row locks   *)
(* (FOR UPDATE SKIP LOCKED) that last until the commit; an UPDATE waits    *)
(* for a locked row and then looks at it again.  A request that does one   *)
(* UPDATE and commits is one step; one that reads first, or updates twice, *)
(* is two.  Every request can also die, which rolls it back.               *)
(***************************************************************************)
EXTENDS Integers, FiniteSets

CONSTANTS
  Spots,
  Staff,       \* staff below SUPERUSER
  Superuser,   \* any SUPERUSER
  Nobody,      \* no user, no request
  Keep,        \* in an edit: the column is not in the payload
  Requests,    \* requests and batch runs in flight together
  Statuses,    \* the pipeline statuses that are explored
  Tiers,       \* the tiers that are written, 0 for NULL
  MaxPick      \* the largest count asked for

PipelineStatus == {"RAW", "ENRICHED", "CURATED", "REVIEWED", "PUBLISHED", "REJECTED"}

ASSUME UsersAssumption ==
  /\ Superuser \notin Staff
  /\ Nobody \notin Staff \cup {Superuser} \cup Requests
ASSUME KeepAssumption ==
  Keep \notin Staff \cup {Nobody} /\ Keep \notin PipelineStatus /\ Keep \notin 0..3
ASSUME StatusesAssumption == Statuses \subseteq PipelineStatus
ASSUME TiersAssumption == Tiers \subseteq 0..3
ASSUME PickAssumption == MaxPick \in Nat

\* ALLOWED_PIPELINE_TRANSITIONS: what STAFF may make of a status.
AllowedTransitions == {<<"ENRICHED", "CURATED">>, <<"ENRICHED", "REJECTED">>}

\* A row of spots.  "stale": last_verified_at is NULL or older than the
\* threshold; tier 0 is NULL.
Row == [status : PipelineStatus, assignee : Staff \cup {Nobody}, tier : 0..3,
        deleted : BOOLEAN, stale : BOOLEAN]

\* What a payload sets: exclude_unset leaves the other columns alone.
Edit == [status : PipelineStatus \cup {Keep}, tier : 0..3 \cup {Keep},
         assignee : Staff \cup {Nobody, Keep}]
NoEdit == [status |-> Keep, tier |-> Keep, assignee |-> Keep]

VARIABLES
  row,     \* the committed rows
  lock,    \* lock[s]: the request whose open transaction has locked s, or Nobody
  pc,      \* each request: where it stands ...
  picked,  \* ... the spots its SELECT or first UPDATE has returned ...
  by,      \* ... who sent it ...
  from,    \* ... whose spots it has picked, Nobody for unassigned ones ...
  to,      \* ... who gets them ...
  edit,    \* ... and the edit it has checked, of
  target,  \* this spot
  spent    \* history: how often s has decayed since it last grew stale

vars == <<row, lock, pc, picked, by, from, to, edit, target, spent>>
request == <<picked, by, from, to, edit, target>>

\* The columns of an edit, written into a row.
Edited(r, e) ==
  [r EXCEPT !.status   = IF e.status = Keep THEN @ ELSE e.status,
            !.tier     = IF e.tier = Keep THEN @ ELSE e.tier,
            !.assignee = IF e.assignee = Keep THEN @ ELSE e.assignee]

\* The ORM writes the columns that differ from the loaded row, no others.
Changes(r, e) ==
  [status   |-> IF e.status = r.status THEN Keep ELSE e.status,
   tier     |-> IF e.tier = r.tier THEN Keep ELSE e.tier,
   assignee |-> IF e.assignee = r.assignee THEN Keep ELSE e.assignee]

TypeOK ==
  /\ row \in [Spots -> Row]
  /\ lock \in [Spots -> Requests \cup {Nobody}]
  /\ pc \in [Requests -> {"idle", "picked", "loaded", "lowered"}]
  /\ picked \in [Requests -> SUBSET Spots]
  /\ by \in [Requests -> Staff \cup {Superuser, Nobody}]
  /\ from \in [Requests -> Staff \cup {Nobody}]
  /\ to \in [Requests -> Staff \cup {Nobody}]
  /\ edit \in [Requests -> Edit]
  /\ target \in [Requests -> Spots \cup {Nobody}]
  /\ spent \in [Spots -> Nat]
  /\ \A q \in Requests, s \in Spots : lock[s] = q <=> s \in picked[q]
  /\ \A q \in Requests : picked[q] # {} => pc[q] \in {"picked", "lowered"}
  /\ \A q \in Requests : pc[q] = "loaded" => target[q] \in Spots

\* Spots as a bulk job has left them, never verified.
Init ==
  /\ row \in [Spots -> {r \in Row : /\ r.status \in Statuses /\ r.tier \in Tiers
                                    /\ r.assignee = Nobody /\ ~r.deleted /\ r.stale}]
  /\ lock = [s \in Spots |-> Nobody]
  /\ pc = [q \in Requests |-> "idle"]
  /\ picked = [q \in Requests |-> {}]
  /\ by = [q \in Requests |-> Nobody]
  /\ from = [q \in Requests |-> Nobody]
  /\ to = [q \in Requests |-> Nobody]
  /\ edit = [q \in Requests |-> NoEdit]
  /\ target = [q \in Requests |-> Nobody]
  /\ spent = [s \in Spots |-> 0]

Goto(q, place) == pc' = [pc EXCEPT ![q] = place]

\* The request is over: nothing of it is left.
Finish(q) ==
  /\ Goto(q, "idle")
  /\ picked' = [picked EXCEPT ![q] = {}]
  /\ by' = [by EXCEPT ![q] = Nobody]
  /\ from' = [from EXCEPT ![q] = Nobody]
  /\ to' = [to EXCEPT ![q] = Nobody]
  /\ edit' = [edit EXCEPT ![q] = NoEdit]
  /\ target' = [target EXCEPT ![q] = Nobody]

Unlocked(q) == [s \in Spots |-> IF lock[s] = q THEN Nobody ELSE lock[s]]

\* Time passes: the threshold of decay_stale_trust_tiers is reached.
GrowStale(s) ==
  /\ ~row[s].stale
  /\ row' = [row EXCEPT ![s].stale = TRUE]
  /\ spent' = [spent EXCEPT ![s] = 0]
  /\ UNCHANGED <<lock, pc, request>>

---------------------------------------------------------------------------
(* Handing out the queue.                                                  *)

\* What the SELECT of assign_spots and transfer_spot_assignments offers.
InQueueOf(u) == {s \in Spots : row[s].status = "ENRICHED" /\ row[s].assignee = u}

\* What LIMIT n makes of it: n rows, fewer only when there are no more.
Batches(S, n) ==
  {B \in SUBSET S : Cardinality(B) = IF Cardinality(S) < n THEN Cardinality(S) ELSE n}

\* Faulty form: the SELECT is made without FOR UPDATE.
PickUnlocked(q, u, v) ==
  /\ pc[q] = "idle"
  /\ \E n \in 1..MaxPick : \E S \in Batches(InQueueOf(u), n) :
       S # {} /\ picked' = [picked EXCEPT ![q] = S]
  /\ from' = [from EXCEPT ![q] = u]
  /\ to' = [to EXCEPT ![q] = v]
  /\ Goto(q, "picked")
  /\ UNCHANGED <<row, lock, by, edit, target, spent>>

\* assign_spots (u is Nobody) and transfer_spot_assignments: spots that no other
\* transaction has locked.  When there are none, nothing is done.
Pick(q, u, v) ==
  /\ pc[q] = "idle"
  /\ \E n \in 1..MaxPick : \E S \in Batches({s \in InQueueOf(u) : lock[s] = Nobody}, n) :
       /\ S # {}
       /\ picked' = [picked EXCEPT ![q] = S]
       /\ lock' = [s \in Spots |-> IF s \in S THEN q ELSE lock[s]]
  /\ from' = [from EXCEPT ![q] = u]
  /\ to' = [to EXCEPT ![q] = v]
  /\ Goto(q, "picked")
  /\ UNCHANGED <<row, by, edit, target, spent>>

\* Their UPDATE and commit.
WriteAssignment(q) ==
  /\ pc[q] = "picked"
  /\ \A s \in picked[q] : lock[s] \in {q, Nobody}
  /\ row' = [s \in Spots |-> IF s \in picked[q] THEN [row[s] EXCEPT !.assignee = to[q]]
                             ELSE row[s]]
  /\ lock' = Unlocked(q)
  /\ Finish(q)
  /\ UNCHANGED spent

\* assign_spots_bulk: the named spots, whoever has them.
AssignBulk(S, v) ==
  /\ \A s \in S : lock[s] = Nobody
  /\ row' = [s \in Spots |-> IF s \in S THEN [row[s] EXCEPT !.assignee = v] ELSE row[s]]
  /\ UNCHANGED <<lock, pc, request, spent>>

---------------------------------------------------------------------------
(* Edits of the console.                                                   *)

\* PATCH /{uid}: what a staff member below SUPERUSER may do with the row.
MayPatch(u, r, e) ==
  /\ r.status = "ENRICHED" => r.assignee = u
  /\ e.status # Keep => <<r.status, e.status>> \in AllowedTransitions

\* Faulty form: the transition is not looked at.
LoadPatchOfOwn(q, u, s, e) ==
  /\ pc[q] = "idle"
  /\ e.assignee = Keep
  /\ u # Superuser => (row[s].status = "ENRICHED" => row[s].assignee = u)
  /\ by' = [by EXCEPT ![q] = u]
  /\ edit' = [edit EXCEPT ![q] = Changes(row[s], e)]
  /\ target' = [target EXCEPT ![q] = s]
  /\ Goto(q, "loaded")
  /\ UNCHANGED <<row, lock, picked, from, to, spent>>

\* PATCH /{uid} loads the row and checks the edit against it.
LoadPatch(q, u, s, e) ==
  /\ pc[q] = "idle"
  /\ e.assignee = Keep
  /\ u # Superuser => MayPatch(u, row[s], e)
  /\ by' = [by EXCEPT ![q] = u]
  /\ edit' = [edit EXCEPT ![q] = Changes(row[s], e)]
  /\ target' = [target EXCEPT ![q] = s]
  /\ Goto(q, "loaded")
  /\ UNCHANGED <<row, lock, picked, from, to, spent>>

\* PATCH /{uid}/assignment, by a manager: a new assignee, or none.
LoadReassignment(q, s, v) ==
  /\ pc[q] = "idle"
  /\ edit' = [edit EXCEPT ![q] = Changes(row[s], [NoEdit EXCEPT !.assignee = v])]
  /\ target' = [target EXCEPT ![q] = s]
  /\ Goto(q, "loaded")
  /\ UNCHANGED <<row, lock, picked, by, from, to, spent>>

\* crud update_spot: it reads the spot again, but gets the row it has loaded
\* (identity map); the UPDATE changes the columns of the edit in whatever the
\* row has become.
SaveEdit(q) ==
  /\ pc[q] = "loaded"
  /\ lock[target[q]] = Nobody
  /\ row' = [row EXCEPT ![target[q]] = Edited(@, edit[q])]
  /\ Finish(q)
  /\ UNCHANGED <<lock, spent>>

\* update_pipeline_status_bulk, by a superuser: any status, no whitelist.
SetStatusBulk(S, x) ==
  /\ \A s \in S : lock[s] = Nobody
  /\ row' = [s \in Spots |-> IF s \in S THEN [row[s] EXCEPT !.status = x] ELSE row[s]]
  /\ UNCHANGED <<lock, pc, request, spent>>

\* delete_spot and restore_spot.
SetDeleted(s, d) ==
  /\ lock[s] = Nobody
  /\ row' = [row EXCEPT ![s].deleted = d]
  /\ UNCHANGED <<lock, pc, request, spent>>

\* _upsert_spot_row of a bulk job: the columns the file has.
UpsertRow(s, e) ==
  /\ lock[s] = Nobody
  /\ e.assignee = Keep
  /\ row' = [row EXCEPT ![s] = Edited(@, e)]
  /\ UNCHANGED <<lock, pc, request, spent>>

---------------------------------------------------------------------------
(* decay_stale_trust_tiers.                                                *)

\* The condition both UPDATEs share; tiers are told apart by each of them.
Decays(s) ==
  row[s].status = "PUBLISHED" /\ ~row[s].deleted /\ row[s].stale /\ row[s].tier # 0

\* The first UPDATE: tiers 1 and 2 go down by one.  It waits for locked rows and
\* looks at them again; what it writes shows at the commit.
ToLower == {s \in Spots : Decays(s) /\ row[s].tier < 3}
Lower(q) ==
  /\ pc[q] = "idle"
  /\ \A s \in ToLower : lock[s] = Nobody
  /\ picked' = [picked EXCEPT ![q] = ToLower]
  /\ lock' = [s \in Spots |-> IF s \in ToLower THEN q ELSE lock[s]]
  /\ Goto(q, "lowered")
  /\ UNCHANGED <<row, by, from, to, edit, target, spent>>

\* What the batch does to s: the rows it has lowered, and, by the second UPDATE,
\* those of tier 3, which lose their assignee.
Decayed(q, s) == s \in picked[q] \/ (Decays(s) /\ row[s].tier = 3)
AfterDecay(q, s) ==
  CASE s \in picked[q] -> [row[s] EXCEPT !.tier = @ + 1, !.stale = FALSE]
    [] s \notin picked[q] /\ Decayed(q, s) ->
         [row[s] EXCEPT !.assignee = Nobody, !.stale = FALSE]
    [] OTHER -> row[s]

\* Faulty form: last_verified_at is left as it was.
RequeueWithoutWatermark(q) ==
  /\ pc[q] = "lowered"
  /\ \A s \in Spots : Decayed(q, s) => lock[s] \in {q, Nobody}
  /\ row' = [s \in Spots |-> [AfterDecay(q, s) EXCEPT !.stale = row[s].stale]]
  /\ spent' = [s \in Spots |-> spent[s] + (IF Decayed(q, s) THEN 1 ELSE 0)]
  /\ lock' = Unlocked(q)
  /\ Finish(q)

\* The second UPDATE and the commit.  A row the first one has lowered to tier 3
\* is no longer stale in this transaction.
Requeue(q) ==
  /\ pc[q] = "lowered"
  /\ \A s \in Spots : Decayed(q, s) => lock[s] \in {q, Nobody}
  /\ row' = [s \in Spots |-> AfterDecay(q, s)]
  /\ spent' = [s \in Spots |-> spent[s] + (IF Decayed(q, s) THEN 1 ELSE 0)]
  /\ lock' = Unlocked(q)
  /\ Finish(q)

---------------------------------------------------------------------------

\* Faulty form: the connection goes back to the pool with its transaction open.
AbortKeepsLocks(q) ==
  /\ pc[q] # "idle"
  /\ Finish(q)
  /\ UNCHANGED <<row, lock, spent>>

\* The request fails or its process dies: PostgreSQL rolls it back.
Abort(q) ==
  /\ pc[q] # "idle"
  /\ lock' = Unlocked(q)
  /\ Finish(q)
  /\ UNCHANGED <<row, spent>>

\* The payloads explored: one or both of the columns the pipeline is about.
Payloads == [status : Statuses \cup {Keep}, tier : Tiers \cup {Keep}, assignee : {Keep}]
              \ {NoEdit}

Request(q) ==
  \/ \E u \in Staff \cup {Nobody}, v \in Staff : Pick(q, u, v)
  \/ WriteAssignment(q)
  \/ \E u \in Staff \cup {Superuser}, s \in Spots, e \in Payloads : LoadPatch(q, u, s, e)
  \/ \E s \in Spots, v \in Staff \cup {Nobody} : LoadReassignment(q, s, v)
  \/ SaveEdit(q)
  \/ Lower(q)
  \/ Requeue(q)
  \/ Abort(q)

OneStepRequest ==
  \/ \E S \in SUBSET Spots, v \in Staff : AssignBulk(S, v)
  \/ \E S \in SUBSET Spots, x \in Statuses : SetStatusBulk(S, x)
  \/ \E s \in Spots, d \in BOOLEAN : SetDeleted(s, d)
  \/ \E s \in Spots, e \in Payloads : UpsertRow(s, e)

Next ==
  \/ \E q \in Requests : Request(q)
  \/ OneStepRequest
  \/ \E s \in Spots : GrowStale(s)

Spec == Init /\ [][Next]_vars

---------------------------------------------------------------------------
(* Properties.                                                             *)

\* assign_spots: concurrent requests do not give a spot to two people.  What a
\* request has picked is still waiting, and still its source's, when it writes.
PickedIsHeld ==
  \A q \in Requests : pc[q] = "picked" =>
    \A s \in picked[q] : row[s].status = "ENRICHED" /\ row[s].assignee = from[q]

\* decay_stale_trust_tiers: one decay per period, however often the batch runs,
\* is killed, or overlaps with another run and with edits.
DecayOncePerPeriod == \A s \in Spots : spent[s] <= 1

\* PATCH /{uid} checks a row that another request may change before it writes.
\* What is left of the rules: staff below SUPERUSER never publish a spot, nor
\* take it from or give it to someone; the worst they do is to submit or reject.
StaffReachIsBounded ==
  [][\A q \in Requests : SaveEdit(q) /\ by[q] \in Staff =>
       \A s \in Spots :
         /\ row'[s].assignee = row[s].assignee
         /\ row'[s].status \in {row[s].status, "CURATED", "REJECTED"}]_vars
============================================================================
