--------------------------- MODULE ReviewsProofs ---------------------------
(***************************************************************************)
(* Theorems about Reviews, for any number of users, reviews and            *)
(* transactions.                                                           *)
(*                                                                         *)
(* The invariant says what the row locks protect between a transaction's   *)
(* UPDATE or INSERT and its commit: the row is still as it was changed     *)
(* from, no other transaction is changing it, and no other active review   *)
(* of the user has come.  The count needs one more fact: who has not been  *)
(* overtaken still holds the count of what it will have committed.         *)
(***************************************************************************)
EXTENDS Reviews, TLAPS

\* The row of a transaction exists, or is its own to create.
OwnRow(t) ==
  /\ pc[t] # "idle" <=> op[t] # "none"
  /\ op[t] \notin {"none", "same"} => review[t] \in Reviews
  /\ op[t] \in {"none", "same"} => review[t] = Nobody
  /\ op[t] = "create" =>
       /\ row[review[t]].state = "unborn"
       /\ draft[t].state = "active"
       /\ \A s \in Txs \ {t} : review[s] # review[t]
  /\ op[t] \in {"update", "delete"} => row[review[t]].state # "unborn"

\* What a transaction has written and not committed follows from the row.
OwnDraft(t) ==
  Dirty(t) =>
    /\ op[t] = "create" =>
         \A j \in Reviews : row[j].state = "active" => row[j].user # draft[t].user
    /\ op[t] = "update" => draft[t].state = row[review[t]].state
    /\ op[t] = "delete" => draft[t].state = "deleted"
    /\ op[t] \in {"update", "delete"} => draft[t].user = row[review[t]].user

\* Two transactions do not write the same row, nor create for the same user.
Locked(s, t) ==
  Dirty(s) /\ Dirty(t) =>
    /\ review[s] # Nobody => review[s] # review[t]
    /\ op[s] = "create" /\ op[t] = "create" => draft[s].user # draft[t].user

\* The rating a transaction is about to commit is that of the table with its own
\* review, as long as nobody has overtaken its count.
CountIsRight(t) ==
  pc[t] \in {"counted", "written"} /\ t \notin behind => counted[t] = Active(Visible(t))

\* A row of the table, and one about to be written, has a rating.
HasRating ==
  /\ \A i \in Reviews : row[i].state # "unborn" => row[i].rating \in Ratings
  /\ \A t \in Txs : review[t] # Nobody => draft[t].rating \in Ratings

IInv ==
  /\ TypeOK
  /\ HasRating
  /\ OneActiveReview
  /\ \A t \in Txs : OwnRow(t) /\ OwnDraft(t) /\ CountIsRight(t)
  /\ \A s, t \in Txs : s # t => Locked(s, t)

---------------------------------------------------------------------------

\* An overwritten entry is read back, and the other entries are as they were.
LEMMA Overwritten ==
  ASSUME NEW S, NEW T, NEW f \in [S -> T], NEW a \in S, NEW v \in T
  PROVE  /\ [f EXCEPT ![a] = v] \in [S -> T]
         /\ [f EXCEPT ![a] = v][a] = v
         /\ \A b \in S \ {a} : [f EXCEPT ![a] = v][b] = f[b]
OBVIOUS

\* A transaction sees its own row and the committed others.
LEMMA VisibleRows ==
  ASSUME IInv, NEW t \in Txs, pc[t] # "idle"
  PROVE  /\ Visible(t) \in [Reviews -> Row]
         /\ review[t] # Nobody => Visible(t)[review[t]] = draft[t]
         /\ \A j \in Reviews \ {review[t]} : Visible(t)[j] = row[j]
<1>1. review[t] \in Reviews \cup {Nobody}
  BY DEF IInv, TypeOK
<1>2. row \in [Reviews -> Row] /\ draft[t] \in Row
  BY DEF IInv, TypeOK
<1>3. CASE review[t] = Nobody
  <2>1. Visible(t) = row
    BY <1>3 DEF Visible
  <2> QED
    BY <1>2, <1>3, <2>1
<1>4. CASE review[t] # Nobody
  <2>1. Visible(t) = [row EXCEPT ![review[t]] = draft[t]]
    BY <1>4 DEF Visible
  <2> QED
    BY <1>1, <1>2, <1>4, <2>1, Overwritten
<1> QED
  BY <1>3, <1>4

\* Every active row a transaction sees has a rating.
LEMMA VisibleRatings ==
  ASSUME IInv, NEW t \in Txs, pc[t] # "idle"
  PROVE  Active(Visible(t)) \subseteq [id : Reviews, rating : Ratings]
<1>1. \A j \in Reviews : Visible(t)[j].state = "active" => Visible(t)[j].rating \in Ratings
  BY VisibleRows, NamesAssumption DEF IInv, HasRating
<1> QED
  BY <1>1 DEF Active

LEMMA InvInit == ASSUME Init PROVE IInv
<1>1. Unborn \in Row
  BY DEF Unborn, Row
<1>2. TypeOK
  BY <1>1, NamesAssumption DEF Init, TypeOK, Ops
<1>3. HasRating /\ OneActiveReview
  BY DEF Init, HasRating, OneActiveReview, Unborn
<1>4. \A t \in Txs : OwnRow(t) /\ OwnDraft(t) /\ CountIsRight(t)
  BY DEF Init, OwnRow, OwnDraft, CountIsRight, Dirty
<1>5. \A s, t \in Txs : Locked(s, t)
  BY DEF Init, Locked, Dirty
<1> QED
  BY <1>2, <1>3, <1>4, <1>5 DEF IInv

---------------------------------------------------------------------------
(* One lemma for each kind of step.                                        *)

\* A load takes a row that exists, or a new one nobody else holds.
LEMMA LoadStep ==
  ASSUME IInv, NEW t \in Txs, NEW o \in Ops, NEW i \in Reviews \cup {Nobody},
         NEW d \in Row, Start(t, o, i, d),
         i = Nobody <=> o = "same", i # Nobody => d.rating \in Ratings,
         o = "create" => /\ row[i].state = "unborn" /\ d.state = "active"
                         /\ \A s \in Txs : review[s] # i,
         o \in {"update", "delete"} => row[i].state # "unborn"
  PROVE  IInv'
<1> USE DEF IInv, TypeOK, Start, Goto
<1>1. /\ pc' \in [Txs -> {"idle", "loaded", "flushed", "counted", "written"}]
      /\ pc'[t] = "loaded" /\ \A s \in Txs \ {t} : pc'[s] = pc[s]
  BY Overwritten
<1>2. /\ op' \in [Txs -> Ops \cup {"none"}]
      /\ op'[t] = o /\ \A s \in Txs \ {t} : op'[s] = op[s]
  BY Overwritten
<1>3. /\ review' \in [Txs -> Reviews \cup {Nobody}]
      /\ review'[t] = i /\ \A s \in Txs \ {t} : review'[s] = review[s]
  BY Overwritten
<1>4. /\ draft' \in [Txs -> Row]
      /\ draft'[t] = d /\ \A s \in Txs \ {t} : draft'[s] = draft[s]
  BY Overwritten
<1>5. TypeOK'
  BY <1>1, <1>2, <1>3, <1>4
<1>6. HasRating' /\ OneActiveReview'
  BY <1>1, <1>4 DEF HasRating, OneActiveReview
<1>7. \A s \in Txs : OwnRow(s)'
  BY <1>1, <1>2, <1>3, <1>4 DEF OwnRow, Ops
<1>8. \A s \in Txs : OwnDraft(s)'
  BY <1>1, <1>2, <1>3, <1>4 DEF OwnDraft, Dirty
<1>9. \A s \in Txs : CountIsRight(s)'
  <2>1. ASSUME NEW s \in Txs \ {t} PROVE Visible(s)' = Visible(s)
    BY <1>3, <1>4, <2>1 DEF Visible
  <2>2. ASSUME NEW s \in Txs \ {t} PROVE Active(Visible(s))' = Active(Visible(s))
    BY <2>1 DEF Active
  <2> QED
    BY <1>1, <2>2 DEF CountIsRight
<1>10. \A r, s \in Txs : r # s => Locked(r, s)'
  BY <1>1, <1>2, <1>3, <1>4 DEF Locked, Dirty
<1> QED
  BY <1>5, <1>6, <1>7, <1>8, <1>9, <1>10

\* The three requests load as LoadStep asks.
LEMMA LoadsStep ==
  ASSUME IInv, NEW t \in Txs, NEW i \in Reviews,
         \/ \E u \in Users, n \in Ratings : LoadForCreate(t, i, u, n)
         \/ \E n \in Ratings : LoadForUpdate(t, i, n)
         \/ LoadForSame(t, i)
         \/ LoadForDelete(t, i)
  PROVE  IInv'
<1>0. row[i] \in Row
  BY DEF IInv, TypeOK
<1>1. ASSUME NEW u \in Users, NEW n \in Ratings, LoadForCreate(t, i, u, n) PROVE IInv'
  <2> DEFINE d == [state |-> "active", user |-> u, rating |-> n]
  <2>1. d \in Row /\ d.rating \in Ratings /\ d.state = "active" /\ "create" \in Ops
    BY DEF Row, Ops
  <2>2. Start(t, "create", i, d) /\ row[i].state = "unborn" /\ \A s \in Txs : review[s] # i
    BY <1>1 DEF LoadForCreate
  <2> HIDE DEF d
  <2> QED
    BY <2>1, <2>2, LoadStep, NamesAssumption
<1>2. ASSUME NEW n \in Ratings, LoadForUpdate(t, i, n) PROVE IInv'
  <2> DEFINE d == [row[i] EXCEPT !.rating = n]
  <2>1. d \in Row /\ d.rating \in Ratings /\ "update" \in Ops
    BY <1>0 DEF Row, Ops
  <2>2. Start(t, "update", i, d) /\ row[i].state # "unborn"
    BY <1>2 DEF LoadForUpdate
  <2> HIDE DEF d
  <2> QED
    BY <2>1, <2>2, LoadStep, NamesAssumption
<1>3. ASSUME LoadForDelete(t, i) PROVE IInv'
  <2> DEFINE d == [row[i] EXCEPT !.state = "deleted"]
  <2>1. row[i].state # "unborn" /\ Start(t, "delete", i, d) /\ "delete" \in Ops
    BY <1>3 DEF LoadForDelete, Ops
  <2>2. d \in Row /\ d.rating \in Ratings
    BY <1>0, <2>1 DEF Row, IInv, HasRating
  <2> HIDE DEF d
  <2> QED
    BY <2>1, <2>2, LoadStep, NamesAssumption
<1>4. ASSUME LoadForSame(t, i) PROVE IInv'
  <2>1. Start(t, "same", Nobody, Unborn) /\ Unborn \in Row /\ "same" \in Ops
    BY <1>4 DEF LoadForSame, Unborn, Row, Ops
  <2> QED
    BY <2>1, LoadStep
<1> QED
  BY <1>1, <1>2, <1>3, <1>4

\* A write takes the lock on its row and, for a new review, its place in the
\* index; what it has loaded is brought up to the row as it is now.
LEMMA FlushStep ==
  ASSUME IInv, NEW t \in Txs, Flush(t) PROVE IInv'
<1> DEFINE i == review[t]
           d == draft'[t]
<1>0. /\ pc[t] = "loaded" /\ i \in Reviews /\ row[i] \in Row /\ draft[t] \in Row
      /\ op[t] \in {"create", "update", "delete"} /\ draft[t].rating \in Ratings
  BY NamesAssumption DEF IInv, TypeOK, OwnRow, Flush, HasRating, Ops
<1>1. /\ pc' \in [Txs -> {"idle", "loaded", "flushed", "counted", "written"}]
      /\ pc'[t] = "flushed" /\ \A s \in Txs \ {t} : pc'[s] = pc[s]
  BY Overwritten DEF IInv, TypeOK, Flush, Goto
<1>2. /\ row' = row /\ rated' = rated /\ lock' = lock /\ op' = op
      /\ review' = review /\ counted' = counted /\ behind' = behind
  BY DEF Flush
<1>3. /\ draft' \in [Txs -> Row]
      /\ \A s \in Txs \ {t} : draft'[s] = draft[s]
      /\ d.rating \in Ratings
      /\ op[t] = "create" => d = draft[t]
      /\ op[t] = "update" => d.state = row[i].state /\ d.user = row[i].user
      /\ op[t] = "delete" => d.state = "deleted" /\ d.user = row[i].user
  <2>1. CASE op[t] = "create"
    <3>1. draft' = [draft EXCEPT ![t] = draft[t]]
      BY <2>1 DEF Flush
    <3> QED
      BY <3>1, <2>1, <1>0, Overwritten DEF IInv, TypeOK
  <2>2. CASE op[t] = "update"
    <3>1. draft' = [draft EXCEPT ![t] = [row[i] EXCEPT !.rating = draft[t].rating]]
      BY <2>2 DEF Flush
    <3>2. [row[i] EXCEPT !.rating = draft[t].rating] \in Row
      BY <1>0 DEF Row
    <3>3. d = [row[i] EXCEPT !.rating = draft[t].rating]
      BY <3>1, <3>2, Overwritten DEF IInv, TypeOK
    <3>4. d.rating \in Ratings /\ d.state = row[i].state /\ d.user = row[i].user
      BY <3>3, <1>0 DEF Row
    <3>5. draft' \in [Txs -> Row] /\ \A s \in Txs \ {t} : draft'[s] = draft[s]
      BY <3>1, <3>2, Overwritten DEF IInv, TypeOK
    <3> QED
      BY <3>4, <3>5, <2>2
  <2>3. CASE op[t] = "delete"
    <3>1. draft' = [draft EXCEPT ![t] = [row[i] EXCEPT !.state = "deleted"]]
      BY <2>3 DEF Flush
    <3>2. [row[i] EXCEPT !.state = "deleted"] \in Row
      BY <1>0 DEF Row
    <3>3. d = [row[i] EXCEPT !.state = "deleted"]
      BY <3>1, <3>2, Overwritten DEF IInv, TypeOK
    <3>4. row[i].rating \in Ratings
      BY <2>3, <1>0 DEF IInv, OwnRow, HasRating
    <3>5. d.rating \in Ratings /\ d.state = "deleted" /\ d.user = row[i].user
      BY <3>3, <3>4, <1>0 DEF Row
    <3>6. draft' \in [Txs -> Row] /\ \A s \in Txs \ {t} : draft'[s] = draft[s]
      BY <3>1, <3>2, Overwritten DEF IInv, TypeOK
    <3> QED
      BY <3>5, <3>6, <2>3
  <2> QED
    BY <1>0, <2>1, <2>2, <2>3 DEF Ops
<1> HIDE DEF d
<1>4. TypeOK'
  BY <1>0, <1>1, <1>2, <1>3 DEF IInv, TypeOK
<1>5. HasRating' /\ OneActiveReview'
  BY <1>0, <1>1, <1>2, <1>3 DEF IInv, HasRating, OneActiveReview, d
<1>6. \A s \in Txs : OwnRow(s)'
  BY <1>0, <1>1, <1>2, <1>3 DEF IInv, OwnRow, Ops, d
<1>7. \A s \in Txs : OwnDraft(s)'
  BY <1>0, <1>1, <1>2, <1>3 DEF IInv, OwnDraft, Dirty, Flush, d
<1>8. \A s \in Txs : CountIsRight(s)'
  <2>1. ASSUME NEW s \in Txs \ {t} PROVE Active(Visible(s))' = Active(Visible(s))
    <3>1. Visible(s)' = Visible(s)
      BY <1>2, <1>3, <2>1 DEF Visible
    <3> QED
      BY <3>1 DEF Active
  <2> QED
    BY <1>1, <1>2, <2>1 DEF IInv, CountIsRight
<1>9. \A r, s \in Txs : r # s => Locked(r, s)'
  BY <1>0, <1>1, <1>2, <1>3 DEF IInv, Locked, Dirty, Flush, d
<1> QED
  BY <1>4, <1>5, <1>6, <1>7, <1>8, <1>9 DEF IInv

\* Having nothing to write, counting and taking the lock of the spot row change no row and no draft.
LEMMA CountAndWriteStep ==
  ASSUME IInv, NEW t \in Txs, FlushNothing(t) \/ Recount(t) \/ WriteRating(t)
  PROVE  IInv'
<1>1. UNCHANGED <<row, rated, op, review, draft, behind>>
  BY DEF FlushNothing, Recount, WriteRating
<1>2. /\ pc[t] \in {"loaded", "flushed", "counted"}
      /\ pc'[t] \in {"flushed", "counted", "written"}
      /\ pc' \in [Txs -> {"idle", "loaded", "flushed", "counted", "written"}]
      /\ \A s \in Txs \ {t} : pc'[s] = pc[s]
      /\ pc[t] = "loaded" => op[t] = "same" /\ pc'[t] = "flushed"
  BY Overwritten DEF IInv, TypeOK, FlushNothing, Recount, WriteRating, Goto
<1>3. \A s \in Txs : Active(Visible(s))' = Active(Visible(s))
  BY <1>1 DEF Active, Visible
<1>4. TypeOK' /\ \A s \in Txs : CountIsRight(s)'
  <2>1. CASE Recount(t)
    <3>1. /\ counted' \in [Txs -> SUBSET [id : Reviews, rating : Ratings]]
          /\ counted'[t] = Active(Visible(t))
          /\ \A s \in Txs \ {t} : counted'[s] = counted[s]
      BY <2>1, VisibleRatings, Overwritten DEF IInv, TypeOK, Recount
    <3>2. lock' = lock /\ pc'[t] = "counted" /\ pc[t] = "flushed"
      BY <2>1 DEF Recount, Goto, IInv, TypeOK
    <3> QED
      BY <1>1, <1>2, <1>3, <3>1, <3>2 DEF IInv, TypeOK, CountIsRight
  <2>2. CASE WriteRating(t)
    <3>1. lock = Nobody /\ lock' = t /\ counted' = counted /\ pc[t] = "counted" /\ pc'[t] = "written"
      BY <2>2 DEF WriteRating, Goto, IInv, TypeOK
    <3> QED
      BY <1>1, <1>2, <1>3, <3>1, NamesAssumption DEF IInv, TypeOK, CountIsRight
  <2>3. CASE FlushNothing(t)
    <3>1. lock' = lock /\ counted' = counted /\ pc[t] = "loaded" /\ pc'[t] = "flushed"
      BY <2>3 DEF FlushNothing, Goto, IInv, TypeOK
    <3> QED
      BY <1>1, <1>2, <1>3, <3>1 DEF IInv, TypeOK, CountIsRight
  <2> QED
    BY <2>1, <2>2, <2>3
<1>5. HasRating' /\ OneActiveReview'
  BY <1>1, <1>2 DEF IInv, HasRating, OneActiveReview
<1>6. \A s \in Txs : OwnRow(s)' /\ OwnDraft(s)'
  BY <1>1, <1>2 DEF IInv, OwnRow, OwnDraft, Dirty
<1>7. \A r, s \in Txs : r # s => Locked(r, s)'
  BY <1>1, <1>2 DEF IInv, OwnRow, Locked, Dirty
<1> QED
  BY <1>4, <1>5, <1>6, <1>7 DEF IInv

\* What both ends of a transaction leave: t is idle, the others are as they were.
LEMMA Ended ==
  ASSUME TypeOK, NEW t \in Txs, Finish(t)
  PROVE  /\ pc' \in [Txs -> {"idle", "loaded", "flushed", "counted", "written"}]
         /\ op' \in [Txs -> Ops \cup {"none"}]
         /\ review' \in [Txs -> Reviews \cup {Nobody}]
         /\ draft' \in [Txs -> Row]
         /\ counted' \in [Txs -> SUBSET [id : Reviews, rating : Ratings]]
         /\ pc'[t] = "idle" /\ op'[t] = "none" /\ review'[t] = Nobody
         /\ \A s \in Txs \ {t} :
              /\ pc'[s] = pc[s] /\ op'[s] = op[s] /\ review'[s] = review[s]
              /\ draft'[s] = draft[s] /\ counted'[s] = counted[s]
<1>1. Unborn \in Row
  BY DEF Unborn, Row
<1> QED
  BY <1>1, Overwritten DEF TypeOK, Finish, Goto

\* A commit replaces the rows by what the transaction sees of them.
LEMMA CommitRows ==
  ASSUME IInv, NEW t \in Txs, Commit(t)
  PROVE  /\ pc[t] = "written" /\ op[t] \in Ops /\ row' \in [Reviews -> Row]
         /\ \/ review[t] \in Reviews /\ op[t] # "same"
            \/ review[t] = Nobody /\ op[t] = "same"
         /\ review[t] # Nobody => row'[review[t]] = draft[t]
         /\ \A j \in Reviews \ {review[t]} : row'[j] = row[j]
BY VisibleRows, NamesAssumption DEF IInv, TypeOK, OwnRow, Commit, Ops

\* After a commit a user still has one active review: the new one met no other,
\* and a changed one is of the same user as before.
LEMMA CommitKeepsOne ==
  ASSUME IInv, NEW t \in Txs, Commit(t) PROVE OneActiveReview'
<1> DEFINE i == review[t]
<1>1. /\ pc[t] = "written"
      /\ i \in Reviews => row'[i] = draft[t]
      /\ \A j \in Reviews \ {i} : row'[j] = row[j]
      /\ i \in Reviews => op[t] \in {"create", "update", "delete"}
  BY CommitRows, NamesAssumption DEF Ops
<1>2. ASSUME NEW j \in Reviews \ {i}, i \in Reviews,
             row'[j].state = "active", draft[t].state = "active"
      PROVE  row[j].user # draft[t].user
  BY <1>1, <1>2 DEF IInv, OwnDraft, Dirty, OneActiveReview
<1> HIDE DEF i
<1> QED
  BY <1>1, <1>2 DEF IInv, OneActiveReview

\* A deleted row is not written active again.
LEMMA CommitKeepsDeleted ==
  ASSUME IInv, NEW t \in Txs, Commit(t), NEW j \in Reviews, row[j].state = "deleted"
  PROVE  row'[j].state = "deleted"
<1>1. /\ pc[t] = "written"
      /\ j = review[t] => row'[j] = draft[t] /\ op[t] \in {"create", "update", "delete"}
      /\ j # review[t] => row'[j] = row[j]
  BY CommitRows, NamesAssumption DEF Ops
<1> QED
  BY <1>1 DEF IInv, OwnRow, OwnDraft, Dirty

LEMMA CommitStep ==
  ASSUME IInv, NEW t \in Txs, Commit(t) PROVE IInv'
<1> DEFINE i == review[t]
<1>1. /\ pc[t] = "written" /\ op[t] \in Ops /\ row' \in [Reviews -> Row]
      /\ i \in Reviews => row'[i] = draft[t] /\ op[t] \in {"create", "update", "delete"}
      /\ i \notin Reviews => i = Nobody /\ op[t] = "same"
      /\ \A j \in Reviews \ {i} : row'[j] = row[j]
  BY CommitRows, NamesAssumption DEF Ops
<1>2. /\ pc' \in [Txs -> {"idle", "loaded", "flushed", "counted", "written"}]
      /\ op' \in [Txs -> Ops \cup {"none"}]
      /\ review' \in [Txs -> Reviews \cup {Nobody}]
      /\ draft' \in [Txs -> Row]
      /\ counted' \in [Txs -> SUBSET [id : Reviews, rating : Ratings]]
      /\ pc'[t] = "idle" /\ op'[t] = "none" /\ review'[t] = Nobody
      /\ \A s \in Txs \ {t} :
           /\ pc'[s] = pc[s] /\ op'[s] = op[s] /\ review'[s] = review[s]
           /\ draft'[s] = draft[s] /\ counted'[s] = counted[s]
  BY Ended DEF IInv, Commit
<1>3. lock = t
  BY <1>1 DEF IInv, TypeOK
<1>4. TypeOK'
  <2>1. rated' = counted[t] /\ lock' = Nobody /\ behind' \subseteq Txs
    BY DEF Commit, IInv, TypeOK
  <2>2. counted[t] \in SUBSET [id : Reviews, rating : Ratings]
    BY DEF IInv, TypeOK
  <2>3. rated' \in (SUBSET [id : Reviews, rating : Ratings]) \cup {FromFile}
    BY <2>1, <2>2
  <2>4. \A s \in Txs : lock' = s <=> pc'[s] = "written"
    BY <1>2, <1>3, <2>1, NamesAssumption DEF IInv, TypeOK
  <2> QED
    BY <1>1, <1>2, <2>1, <2>3, <2>4 DEF TypeOK
<1>5. HasRating'
  BY <1>1, <1>2, NamesAssumption DEF IInv, HasRating
<1>6. \A s \in Txs : OwnRow(s)'
  <2>1. i \in Reviews => draft[t].state # "unborn"
    BY <1>1 DEF IInv, OwnRow, OwnDraft, Dirty
  <2> QED
    BY <1>1, <1>2, <2>1, NamesAssumption DEF IInv, OwnRow, Ops
<1>7. \A s \in Txs : OwnDraft(s)'
  <2> SUFFICES ASSUME NEW s \in Txs \ {t}, Dirty(s) PROVE OwnDraft(s)'
    BY <1>2 DEF OwnDraft, Dirty
  <2>1. op[s] \in {"create", "update", "delete"} => review[s] \in Reviews \ {i}
    BY <1>1, NamesAssumption DEF IInv, OwnRow, Locked, Dirty
  <2>2. op[s] \in {"create", "update", "delete"} => row'[review[s]] = row[review[s]]
    BY <1>1, <2>1
  <2>3. ASSUME i \in Reviews, op[s] = "create", draft[t].state = "active"
        PROVE  draft[t].user # draft[s].user
    <3>1. CASE op[t] = "create"
      BY <3>1, <2>3, <1>1 DEF IInv, Locked, Dirty
    <3>2. CASE op[t] # "create"
      BY <3>2, <2>3, <1>1 DEF IInv, OwnDraft, Dirty
    <3> QED
      BY <3>1, <3>2
  <2>4. ASSUME op[s] = "create", NEW j \in Reviews, row'[j].state = "active"
        PROVE  row'[j].user # draft[s].user
    BY <2>3, <2>4, <1>1 DEF IInv, OwnDraft
  <2> QED
    BY <1>2, <2>2, <2>4 DEF IInv, OwnDraft, Dirty
<1>8. \A s \in Txs : CountIsRight(s)'
  <2> SUFFICES ASSUME NEW s \in Txs, pc'[s] \in {"counted", "written"}, s \notin behind'
               PROVE  FALSE
    BY DEF CountIsRight
  <2>1. s # t /\ pc[s] = pc'[s]
    BY <1>2
  <2>2. pc[s] # "written"
    BY <1>3, <2>1 DEF IInv, TypeOK
  <2> QED
    BY <2>1, <2>2 DEF Commit
<1>9. \A r, s \in Txs : r # s => Locked(r, s)'
  BY <1>2 DEF IInv, Locked, Dirty
<1> QED
  BY <1>4, <1>5, <1>6, <1>7, <1>8, <1>9, CommitKeepsOne DEF IInv

LEMMA AbortStep ==
  ASSUME IInv, NEW t \in Txs, Abort(t) PROVE IInv'
<1>1. /\ pc' \in [Txs -> {"idle", "loaded", "flushed", "counted", "written"}]
      /\ op' \in [Txs -> Ops \cup {"none"}]
      /\ review' \in [Txs -> Reviews \cup {Nobody}]
      /\ draft' \in [Txs -> Row]
      /\ counted' \in [Txs -> SUBSET [id : Reviews, rating : Ratings]]
      /\ pc'[t] = "idle" /\ op'[t] = "none" /\ review'[t] = Nobody
      /\ \A s \in Txs \ {t} :
           /\ pc'[s] = pc[s] /\ op'[s] = op[s] /\ review'[s] = review[s]
           /\ draft'[s] = draft[s] /\ counted'[s] = counted[s]
  BY Ended DEF IInv, Abort
<1>2. row' = row /\ rated' = rated /\ behind' = behind \ {t}
  BY DEF Abort
<1>3. TypeOK'
  <2>1. lock' \in Txs \cup {Nobody} /\ \A s \in Txs : lock' = s <=> pc'[s] = "written"
    BY <1>1, NamesAssumption DEF IInv, TypeOK, Abort
  <2> QED
    BY <1>1, <1>2, <2>1 DEF IInv, TypeOK
<1>4. HasRating' /\ OneActiveReview'
  BY <1>1, <1>2 DEF IInv, HasRating, OneActiveReview
<1>5. \A s \in Txs : OwnRow(s)' /\ OwnDraft(s)'
  BY <1>1, <1>2, NamesAssumption DEF IInv, OwnRow, OwnDraft, Dirty, Ops
<1>6. \A s \in Txs : CountIsRight(s)'
  <2>1. ASSUME NEW s \in Txs \ {t} PROVE Active(Visible(s))' = Active(Visible(s))
    <3>1. Visible(s)' = Visible(s)
      BY <1>1, <1>2, <2>1 DEF Visible
    <3> QED
      BY <3>1 DEF Active
  <2> QED
    BY <1>1, <1>2, <2>1 DEF IInv, CountIsRight
<1>7. \A r, s \in Txs : r # s => Locked(r, s)'
  BY <1>1 DEF IInv, Locked, Dirty
<1> QED
  BY <1>3, <1>4, <1>5, <1>6, <1>7 DEF IInv

\* The rating column is no part of what the locks protect.
LEMMA RatingStep ==
  ASSUME IInv, BulkUpsert \/ UNCHANGED vars PROVE IInv'
<1>1. /\ UNCHANGED <<row, lock, pc, op, review, draft, counted, behind>>
      /\ rated' \in {rated, FromFile}
  BY DEF BulkUpsert, vars
<1>2. TypeOK' /\ HasRating' /\ OneActiveReview'
  BY <1>1 DEF IInv, TypeOK, HasRating, OneActiveReview
<1>3. \A s \in Txs : Active(Visible(s))' = Active(Visible(s))
  BY <1>1 DEF Active, Visible
<1>4. \A s \in Txs : OwnRow(s)' /\ OwnDraft(s)' /\ CountIsRight(s)'
  BY <1>1, <1>3 DEF IInv, OwnRow, OwnDraft, CountIsRight, Dirty
<1>5. \A r, s \in Txs : r # s => Locked(r, s)'
  BY <1>1 DEF IInv, Locked, Dirty
<1> QED
  BY <1>2, <1>4, <1>5 DEF IInv

LEMMA InvStep == ASSUME IInv, [Next]_vars PROVE IInv'
<1>1. ASSUME NEW t \in Txs, Request(t) PROVE IInv'
  BY <1>1, LoadsStep, FlushStep, CountAndWriteStep, CommitStep, AbortStep DEF Request
<1> QED
  BY <1>1, RatingStep DEF Next

LEMMA InvAlways == Spec => []IInv
BY InvInit, InvStep, PTL DEF Spec

---------------------------------------------------------------------------
(* Theorems.                                                               *)

\* Every variable keeps its type, and the spot row is locked by the transaction
\* that has written it and by no other.
THEOREM ReviewsTypeCorrect == Spec => []TypeOK
BY InvAlways, PTL DEF IInv

\* A user never has two active reviews of a spot: the check of create_review is
\* not enough against a second request, the partial unique index is.
THEOREM OneReviewPerUser == Spec => []OneActiveReview
BY InvAlways, PTL DEF IInv

\* An update in flight never brings back a review that was deleted meanwhile.
THEOREM NoResurrection == Spec => DeletedStaysOut
<1>1. ASSUME IInv, [Next]_vars, NEW j \in Reviews, row[j].state = "deleted"
      PROVE  row'[j].state = "deleted"
  <2>1. ASSUME NEW t \in Txs, Request(t) PROVE row' = row \/ Commit(t)
    BY <2>1 DEF Request, LoadForCreate, LoadForUpdate, LoadForSame, LoadForDelete, Start,
                FlushNothing, Flush, Recount, WriteRating, Abort
  <2>2. row' = row \/ \E t \in Txs : Commit(t)
    BY <1>1, <2>1 DEF Next, BulkUpsert, vars
  <2> QED
    BY <1>1, <2>2, CommitKeepsDeleted
<1>2. IInv /\ [Next]_vars =>
        [\A i \in Reviews : row[i].state = "deleted" => row'[i].state = "deleted"]_vars
  BY <1>1
<1> QED
  BY <1>2, InvAlways, PTL DEF Spec, DeletedStaysOut

\* A commit whose count no other commit has overtaken leaves the rating of the
\* spot equal to that of its active reviews, whatever it was before.
THEOREM RatingHeals == Spec => UndisturbedReviewHeals
<1>1. ASSUME IInv, NEW t \in Txs, Commit(t), t \notin behind
      PROVE  rated' = Active(row)'
  <2>1. pc[t] = "written" /\ row' = Visible(t) /\ rated' = counted[t]
    BY <1>1 DEF Commit
  <2>2. counted[t] = Active(Visible(t))
    BY <1>1, <2>1 DEF IInv, CountIsRight
  <2>3. Active(row)' = Active(Visible(t))
    BY <2>1 DEF Active
  <2> QED
    BY <2>1, <2>2, <2>3
<1>2. IInv /\ [Next]_vars =>
        [\A t \in Txs : Commit(t) /\ t \notin behind => rated' = Active(row)']_vars
  BY <1>1
<1> QED
  BY <1>2, InvAlways, PTL DEF Spec, UndisturbedReviewHeals
============================================================================
