------------------------------ MODULE Reviews ------------------------------
(***************************************************************************)
(* The reviews of one spot and the rating the spot row carries             *)
(* (vivacapi/crud/spot_review.py).  rating_avg and review_count are        *)
(* derived: every transaction that changes reviews reads all the active    *)
(* ones again and writes the two columns before it commits.                *)
(*                                                                         *)
(* Transactions are cut at every statement, under READ COMMITTED: a        *)
(* statement sees what is committed and what its own transaction wrote.    *)
(* PostgreSQL makes a statement wait for the row lock of another           *)
(* transaction: on a review row, on the spot row, and on the entry of      *)
(* uq_spot_user_review_active that an uncommitted INSERT has made.         *)
(***************************************************************************)
EXTENDS Integers, FiniteSets

CONSTANTS
  Users,     \* reviewers
  Reviews,   \* review rows that can be created
  Ratings,   \* ratings given
  Txs,       \* requests in flight together
  Nobody,    \* no user, no transaction, no row
  FromFile   \* what a bulk upsert writes into the rating columns

ASSUME NamesAssumption == Nobody \notin Users \cup Reviews \cup Txs

\* A row of spot_reviews; "unborn" rows are not in the table.
Row == [state : {"unborn", "active", "deleted"}, user : Users \cup {Nobody},
        rating : Ratings \cup {0}]
Unborn == [state |-> "unborn", user |-> Nobody, rating |-> 0]

VARIABLES
  row,      \* row[i]: the committed review row i
  rated,    \* the active reviews the committed rating of the spot was made of
  lock,     \* the transaction that has written the spot row, or Nobody
  pc,       \* each request: where it stands ...
  op,       \* ... what it does ...
  review,   \* ... the row it has loaded or made ...
  draft,    \* ... that row as it writes it ...
  counted,  \* ... and the active reviews it has counted
  behind    \* history: requests whose count another commit has overtaken

vars == <<row, rated, lock, pc, op, review, draft, counted, behind>>

Ops == {"create", "update", "same", "delete"}

\* The active reviews, with what they say.
Active(rows) ==
  {[id |-> i, rating |-> rows[i].rating] : i \in {j \in Reviews : rows[j].state = "active"}}

\* What t's statements see: the committed rows and its own.
Visible(t) == IF review[t] = Nobody THEN row ELSE [row EXCEPT ![review[t]] = draft[t]]

\* The last statement of t that has changed reviews is not committed.
Dirty(t) == pc[t] \in {"flushed", "counted", "written"}

TypeOK ==
  /\ row \in [Reviews -> Row]
  /\ rated \in (SUBSET [id : Reviews, rating : Ratings]) \cup {FromFile}
  /\ lock \in Txs \cup {Nobody}
  /\ pc \in [Txs -> {"idle", "loaded", "flushed", "counted", "written"}]
  /\ op \in [Txs -> Ops \cup {"none"}]
  /\ review \in [Txs -> Reviews \cup {Nobody}]
  /\ draft \in [Txs -> Row]
  /\ counted \in [Txs -> SUBSET [id : Reviews, rating : Ratings]]
  /\ behind \subseteq Txs
  /\ \A t \in Txs : lock = t <=> pc[t] = "written"

Init ==
  /\ row = [i \in Reviews |-> Unborn]
  /\ rated = {}
  /\ lock = Nobody
  /\ pc = [t \in Txs |-> "idle"]
  /\ op = [t \in Txs |-> "none"]
  /\ review = [t \in Txs |-> Nobody]
  /\ draft = [t \in Txs |-> Unborn]
  /\ counted = [t \in Txs |-> {}]
  /\ behind = {}

Goto(t, place) == pc' = [pc EXCEPT ![t] = place]

---------------------------------------------------------------------------
(* Loading and deciding.                                                   *)

Start(t, o, i, d) ==
  /\ pc[t] = "idle"
  /\ op' = [op EXCEPT ![t] = o]
  /\ review' = [review EXCEPT ![t] = i]
  /\ draft' = [draft EXCEPT ![t] = d]
  /\ Goto(t, "loaded")
  /\ UNCHANGED <<row, rated, lock, counted, behind>>

\* create_review: get_active_review finds none of this user.
LoadForCreate(t, i, u, n) ==
  /\ row[i].state = "unborn" /\ \A s \in Txs : review[s] # i
  /\ \A j \in Reviews : ~(row[j].state = "active" /\ row[j].user = u)
  /\ Start(t, "create", i, [state |-> "active", user |-> u, rating |-> n])

\* _get_active_review_or_404, then update_review of a new rating.
LoadForUpdate(t, i, n) ==
  /\ row[i].state = "active" /\ row[i].rating # n
  /\ Start(t, "update", i, [row[i] EXCEPT !.rating = n])

\* update_review of the rating the loaded row has: no UPDATE, only the count.
LoadForSame(t, i) ==
  /\ row[i].state = "active"
  /\ Start(t, "same", Nobody, Unborn)

\* _get_active_review_or_404, then soft_delete_review by its author or staff.
LoadForDelete(t, i) ==
  /\ row[i].state = "active"
  /\ Start(t, "delete", i, [row[i] EXCEPT !.state = "deleted"])

---------------------------------------------------------------------------
(* Writing.                                                                *)

\* Faulty form: the whole loaded row is written back, by one UPDATE.
FlushLoadedRow(t) ==
  /\ pc[t] = "loaded" /\ op[t] # "same"
  /\ \A s \in Txs \ {t} : Dirty(s) => review[s] # review[t]
  /\ Goto(t, "flushed")
  /\ UNCHANGED <<row, rated, lock, op, review, draft, counted, behind>>

\* There is nothing to write.
FlushNothing(t) ==
  /\ pc[t] = "loaded" /\ op[t] = "same"
  /\ Goto(t, "flushed")
  /\ UNCHANGED <<row, rated, lock, op, review, draft, counted, behind>>

\* The review is written and locked.  An UPDATE changes one column of the row
\* as it is now; a second active review of a user is refused by the index.
Flush(t) ==
  LET i == review[t]
      now == row[i]
  IN  /\ pc[t] = "loaded" /\ op[t] # "same"
      /\ \A s \in Txs \ {t} : Dirty(s) =>
           review[s] # i /\ ~(op[s] = "create" /\ op[t] = "create"
                                /\ draft[s].user = draft[t].user)
      /\ op[t] = "create" =>
           \A j \in Reviews : ~(row[j].state = "active" /\ row[j].user = draft[t].user)
      /\ draft' = [draft EXCEPT ![t] =
                     CASE op[t] = "create" -> @
                       [] op[t] = "update" -> [now EXCEPT !.rating = draft[t].rating]
                       [] op[t] = "delete" -> [now EXCEPT !.state = "deleted"]]
      /\ Goto(t, "flushed")
      /\ UNCHANGED <<row, rated, lock, op, review, counted, behind>>

\* Faulty form: the count is not filtered by deleted_at.
RecountAll(t) ==
  /\ pc[t] = "flushed"
  /\ counted' = [counted EXCEPT ![t] =
                   {[id |-> i, rating |-> Visible(t)[i].rating] :
                      i \in {j \in Reviews : Visible(t)[j].state # "unborn"}}]
  /\ Goto(t, "counted")
  /\ UNCHANGED <<row, rated, lock, op, review, draft, behind>>

\* _recalculate_spot_rating, the SELECT.
Recount(t) ==
  /\ pc[t] = "flushed"
  /\ counted' = [counted EXCEPT ![t] = Active(Visible(t))]
  /\ Goto(t, "counted")
  /\ UNCHANGED <<row, rated, lock, op, review, draft, behind>>

\* _recalculate_spot_rating, the UPDATE: it waits for the spot row.
WriteRating(t) ==
  /\ pc[t] = "counted"
  /\ lock = Nobody
  /\ lock' = t
  /\ Goto(t, "written")
  /\ UNCHANGED <<row, rated, op, review, draft, counted, behind>>

Finish(t) ==
  /\ Goto(t, "idle")
  /\ op' = [op EXCEPT ![t] = "none"]
  /\ review' = [review EXCEPT ![t] = Nobody]
  /\ draft' = [draft EXCEPT ![t] = Unborn]
  /\ counted' = [counted EXCEPT ![t] = {}]

\* The commit of the review and the rating; whoever has counted without it is
\* behind.  (The detail cache is invalidated then: SpotCache, "review".)
Commit(t) ==
  /\ pc[t] = "written"
  /\ row' = Visible(t)
  /\ rated' = counted[t]
  /\ lock' = Nobody
  /\ behind' = (behind \ {t}) \cup {s \in Txs \ {t} : pc[s] = "counted"}
  /\ Finish(t)

\* Faulty form: the connection goes back to the pool with its transaction open.
AbortKeepsLock(t) ==
  /\ pc[t] # "idle"
  /\ behind' = behind \ {t}
  /\ Finish(t)
  /\ UNCHANGED <<row, rated, lock>>

\* A check or a statement fails, or the process dies: all is rolled back.
Abort(t) ==
  /\ pc[t] # "idle"
  /\ lock' = IF lock = t THEN Nobody ELSE lock
  /\ behind' = behind \ {t}
  /\ Finish(t)
  /\ UNCHANGED <<row, rated>>

\* The bulk upsert job rewrites the spot row, the rating columns included
\* (_upsert_spot_row: they have defaults, so every row of a file has them).
BulkUpsert ==
  /\ lock = Nobody
  /\ rated' = FromFile
  /\ UNCHANGED <<row, lock, pc, op, review, draft, counted, behind>>

---------------------------------------------------------------------------

Request(t) ==
  \/ \E i \in Reviews, u \in Users, n \in Ratings : LoadForCreate(t, i, u, n)
  \/ \E i \in Reviews, n \in Ratings : LoadForUpdate(t, i, n)
  \/ \E i \in Reviews : LoadForSame(t, i)
  \/ \E i \in Reviews : LoadForDelete(t, i)
  \/ FlushNothing(t)
  \/ Flush(t)
  \/ Recount(t)
  \/ WriteRating(t)
  \/ Commit(t)
  \/ Abort(t)

Next ==
  \/ \E t \in Txs : Request(t)
  \/ BulkUpsert

Spec == Init /\ [][Next]_vars

---------------------------------------------------------------------------
(* Properties.                                                             *)

\* create_review of spot_reviews.py: the rating is recomputed at once with
\* every review.  Bulk upserts aside, it is that of the active reviews.
RatingIsRecalculated == rated \in {Active(row), FromFile}

\* A transaction whose count nobody has overtaken leaves the rating exact,
\* whatever drift it found: lost updates and bulk upserts heal with the next
\* undisturbed review.
UndisturbedReviewHeals ==
  [][\A t \in Txs : Commit(t) /\ t \notin behind => rated' = Active(row)']_vars

\* A deleted review never becomes active again: the author may be updating it while
\* staff delete it.  Its other columns may still change: an update that has loaded it
\* before writes its new rating to the deleted row.
DeletedStaysOut ==
  [][\A i \in Reviews : row[i].state = "deleted" => row'[i].state = "deleted"]_vars

\* A user has one active review of a spot, however requests interleave.
OneActiveReview ==
  \A i, j \in Reviews :
    row[i].state = "active" /\ row[j].state = "active" /\ row[i].user = row[j].user
      => i = j
============================================================================
