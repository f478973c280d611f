------------------------- MODULE SpotPipelineProofs -------------------------
(***************************************************************************)
(* Theorems about SpotPipeline, for any number of spots, staff and         *)
(* requests.                                                               *)
(*                                                                         *)
(* The invariant says what a row lock is for: as long as a request holds a *)
(* spot, the row is as the request has found it.  Edits hold no lock; what *)
(* they may still write was fixed when they were checked.                  *)
(***************************************************************************)
EXTENDS SpotPipeline, TLAPS

\* What the first UPDATE of the batch has lowered is still to be decayed.
LoweredIsHeld ==
  \A q \in Requests : pc[q] = "lowered" =>
    \A s \in picked[q] : row[s].stale /\ row[s].tier \in 1..2

\* A spot that waits for its decay has not decayed in this period.
SpentInv == \A s \in Spots : spent[s] <= 1 /\ (row[s].stale => spent[s] = 0)

\* The edits that staff below SUPERUSER have got past the checks of PATCH.
CheckedEdit(q) ==
  /\ pc[q] = "idle" => by[q] = Nobody
  /\ pc[q] = "loaded" /\ by[q] \in Staff =>
       edit[q].assignee = Keep /\ edit[q].status \in {Keep, "CURATED", "REJECTED"}

IInv ==
  /\ TypeOK
  /\ PickedIsHeld
  /\ LoweredIsHeld
  /\ SpentInv
  /\ \A q \in Requests : CheckedEdit(q)

---------------------------------------------------------------------------
(* Rows and edits.                                                         *)

\* An overwritten entry is read back, and the other entries are as they were.
LEMMA Replaced ==
  ASSUME NEW S, NEW T, NEW f \in [S -> T], NEW a \in S, NEW v \in T
  PROVE  /\ [f EXCEPT ![a] = v] \in [S -> T]
         /\ \A b \in S : [f EXCEPT ![a] = v][b] = IF b = a THEN v ELSE f[b]
OBVIOUS

\* An edit makes a row of a row and does not touch its last verification.
LEMMA EditedRow ==
  ASSUME NEW r \in Row, NEW e \in Edit
  PROVE  Edited(r, e) \in Row /\ Edited(r, e).stale = r.stale
BY KeepAssumption DEF Row, Edit, Edited

\* One column written: still a row, and of the same last verification.
LEMMA AssignedRow ==
  ASSUME NEW r \in Row, NEW v \in Staff \cup {Nobody}
  PROVE  [r EXCEPT !.assignee = v] \in Row /\ [r EXCEPT !.assignee = v].stale = r.stale
BY DEF Row

LEMMA StatusRow ==
  ASSUME NEW r \in Row, NEW x \in PipelineStatus
  PROVE  [r EXCEPT !.status = x] \in Row /\ [r EXCEPT !.status = x].stale = r.stale
BY DEF Row

LEMMA DeletedRow ==
  ASSUME NEW r \in Row, NEW d \in BOOLEAN
  PROVE  [r EXCEPT !.deleted = d] \in Row /\ [r EXCEPT !.deleted = d].stale = r.stale
BY DEF Row

LEMMA RowsAreRows == ASSUME IInv, NEW s \in Spots PROVE row[s] \in Row
BY DEF IInv, TypeOK

\* What differs from a row is an edit.
LEMMA ChangesEdit ==
  ASSUME NEW r \in Row, NEW e \in Edit
  PROVE  Changes(r, e) \in Edit
BY KeepAssumption DEF Row, Edit, Changes

\* The payloads are edits that leave the assignee alone.
LEMMA PayloadsAreEdits == \A e \in Payloads : e \in Edit /\ e.assignee = Keep
BY StatusesAssumption, TiersAssumption DEF Payloads, Edit

LEMMA NoEditIsEdit == NoEdit \in Edit
BY DEF NoEdit, Edit

LEMMA InvInit == ASSUME Init PROVE IInv
<1>1. TypeOK
  BY NoEditIsEdit, UsersAssumption DEF Init, TypeOK
<1>2. PickedIsHeld /\ LoweredIsHeld
  BY DEF Init, PickedIsHeld, LoweredIsHeld
<1>3. SpentInv
  BY DEF Init, SpentInv
<1>4. \A q \in Requests : CheckedEdit(q)
  BY DEF Init, CheckedEdit
<1> QED
  BY <1>1, <1>2, <1>3, <1>4 DEF IInv

---------------------------------------------------------------------------
(* The two ways of writing rows.                                           *)

\* A statement of its own: it writes rows that nobody has locked, and not their
\* last verification.
LEMMA StatementStep ==
  ASSUME IInv, UNCHANGED <<lock, pc, request, spent>>,
         row' \in [Spots -> Row],
         \A s \in Spots : row'[s].stale = row[s].stale,
         \A s \in Spots : lock[s] # Nobody => row'[s] = row[s]
  PROVE  IInv'
<1>1. \A q \in Requests, s \in Spots : s \in picked[q] => row'[s] = row[s]
  BY UsersAssumption DEF IInv, TypeOK
<1>2. TypeOK'
  BY DEF IInv, TypeOK, request
<1>3. PickedIsHeld'
  BY <1>1 DEF IInv, TypeOK, PickedIsHeld, request
<1>4. LoweredIsHeld'
  BY <1>1 DEF IInv, TypeOK, LoweredIsHeld, request
<1>5. SpentInv'
  BY DEF IInv, SpentInv
<1>6. \A q \in Requests : CheckedEdit(q)'
  BY DEF IInv, CheckedEdit, request
<1> QED
  BY <1>2, <1>3, <1>4, <1>5, <1>6 DEF IInv

\* Nothing is left of a finished request, and the others are as they were.
LEMMA Finished ==
  ASSUME TypeOK, NEW q \in Requests, Finish(q)
  PROVE  /\ pc' \in [Requests -> {"idle", "picked", "loaded", "lowered"}]
         /\ picked' \in [Requests -> SUBSET Spots]
         /\ by' \in [Requests -> Staff \cup {Superuser, Nobody}]
         /\ from' \in [Requests -> Staff \cup {Nobody}]
         /\ to' \in [Requests -> Staff \cup {Nobody}]
         /\ edit' \in [Requests -> Edit]
         /\ target' \in [Requests -> Spots \cup {Nobody}]
         /\ pc'[q] = "idle" /\ picked'[q] = {} /\ by'[q] = Nobody
         /\ \A p \in Requests \ {q} :
              /\ pc'[p] = pc[p] /\ picked'[p] = picked[p] /\ by'[p] = by[p]
              /\ from'[p] = from[p] /\ edit'[p] = edit[p] /\ target'[p] = target[p]
<1>1. /\ pc' \in [Requests -> {"idle", "picked", "loaded", "lowered"}]
      /\ pc'[q] = "idle"
      /\ \A p \in Requests \ {q} : pc'[p] = pc[p]
  BY Replaced DEF TypeOK, Finish, Goto
<1>2. /\ picked' \in [Requests -> SUBSET Spots]
      /\ picked'[q] = {}
      /\ \A p \in Requests \ {q} : picked'[p] = picked[p]
  BY Replaced DEF TypeOK, Finish
<1>3. /\ by' \in [Requests -> Staff \cup {Superuser, Nobody}]
      /\ by'[q] = Nobody
      /\ \A p \in Requests \ {q} : by'[p] = by[p]
  BY Replaced DEF TypeOK, Finish
<1>4. /\ from' \in [Requests -> Staff \cup {Nobody}]
      /\ to' \in [Requests -> Staff \cup {Nobody}]
      /\ \A p \in Requests \ {q} : from'[p] = from[p]
  BY Replaced DEF TypeOK, Finish
<1>5. /\ edit' \in [Requests -> Edit]
      /\ target' \in [Requests -> Spots \cup {Nobody}]
      /\ \A p \in Requests \ {q} : edit'[p] = edit[p] /\ target'[p] = target[p]
  BY Replaced, NoEditIsEdit DEF TypeOK, Finish
<1> QED
  BY <1>1, <1>2, <1>3, <1>4, <1>5

\* The end of a request: it writes rows that nobody else has locked.
LEMMA FinishStep ==
  ASSUME IInv, NEW q \in Requests, Finish(q), lock' = Unlocked(q),
         row' \in [Spots -> Row], spent' \in [Spots -> Nat], SpentInv',
         \A s \in Spots : lock[s] \notin {q, Nobody} => row'[s] = row[s]
  PROVE  IInv'
<1> USE Finished DEF IInv
<1>1. \A p \in Requests \ {q}, s \in Spots : s \in picked[p] => row'[s] = row[s]
  BY UsersAssumption DEF TypeOK
<1>2. lock' \in [Spots -> Requests \cup {Nobody}]
  BY DEF TypeOK, Unlocked
<1>3. \A p \in Requests, s \in Spots : lock'[s] = p <=> s \in picked'[p]
  BY UsersAssumption DEF TypeOK, Unlocked
<1>4. \A p \in Requests : pc'[p] # "idle" => p # q
  OBVIOUS
<1>5. /\ \A p \in Requests : picked'[p] # {} => pc'[p] \in {"picked", "lowered"}
      /\ \A p \in Requests : pc'[p] = "loaded" => target'[p] \in Spots
  BY DEF TypeOK
<1>6. TypeOK'
  BY <1>2, <1>3, <1>5 DEF TypeOK
<1>7. PickedIsHeld'
  BY <1>1, <1>4 DEF PickedIsHeld, TypeOK
<1>8. LoweredIsHeld'
  BY <1>1, <1>4 DEF LoweredIsHeld, TypeOK
<1>9. \A p \in Requests : CheckedEdit(p)'
  BY DEF CheckedEdit
<1> QED
  BY <1>6, <1>7, <1>8, <1>9

---------------------------------------------------------------------------
(* The actions.                                                            *)

LEMMA GrowStaleStep == ASSUME IInv, NEW s \in Spots, GrowStale(s) PROVE IInv'
<1> DEFINE r == [row[s] EXCEPT !.stale = TRUE]
<1>1. /\ r \in Row /\ r.stale = TRUE
      /\ r.status = row[s].status /\ r.assignee = row[s].assignee /\ r.tier = row[s].tier
  <2>1. row[s] \in Row
    BY DEF IInv, TypeOK
  <2> QED
    BY <2>1 DEF Row
<1>2. row' = [row EXCEPT ![s] = r]
  BY DEF GrowStale
<1> HIDE DEF r
<1>3. row' \in [Spots -> Row] /\ \A z \in Spots : row'[z] = IF z = s THEN r ELSE row[z]
  BY <1>1, <1>2, Replaced DEF IInv, TypeOK
<1>4. spent' \in [Spots -> Nat] /\ \A z \in Spots : spent'[z] = IF z = s THEN 0 ELSE spent[z]
  BY Replaced DEF GrowStale, IInv, TypeOK
<1>5. TypeOK'
  BY <1>3, <1>4 DEF GrowStale, IInv, TypeOK, request
<1>6. PickedIsHeld'
  BY <1>1, <1>3 DEF GrowStale, IInv, TypeOK, PickedIsHeld, request
<1>7. LoweredIsHeld'
  BY <1>1, <1>3 DEF GrowStale, IInv, TypeOK, LoweredIsHeld, request
<1>8. SpentInv'
  BY <1>3, <1>4 DEF IInv, SpentInv
<1>9. \A q \in Requests : CheckedEdit(q)'
  BY DEF GrowStale, IInv, CheckedEdit, request
<1> QED
  BY <1>5, <1>6, <1>7, <1>8, <1>9 DEF IInv

LEMMA PickStep ==
  ASSUME IInv, NEW q \in Requests, NEW u \in Staff \cup {Nobody}, NEW v \in Staff,
         Pick(q, u, v)
  PROVE  IInv'
<1>1. PICK S \in SUBSET {s \in InQueueOf(u) : lock[s] = Nobody} :
        /\ picked' = [picked EXCEPT ![q] = S]
        /\ lock' = [s \in Spots |-> IF s \in S THEN q ELSE lock[s]]
  BY DEF Pick, Batches
<1>2. \A s \in S : s \in Spots /\ lock[s] = Nobody
                   /\ row[s].status = "ENRICHED" /\ row[s].assignee = u
  BY DEF InQueueOf
<1>3. /\ picked' \in [Requests -> SUBSET Spots]
      /\ \A p \in Requests : picked'[p] = IF p = q THEN S ELSE picked[p]
  BY <1>1, <1>2, Replaced DEF IInv, TypeOK
<1>4. /\ pc' \in [Requests -> {"idle", "picked", "loaded", "lowered"}]
      /\ \A p \in Requests : pc'[p] = IF p = q THEN "picked" ELSE pc[p]
  BY Replaced DEF Pick, Goto, IInv, TypeOK
<1>5. /\ from' \in [Requests -> Staff \cup {Nobody}]
      /\ to' \in [Requests -> Staff \cup {Nobody}]
      /\ \A p \in Requests : from'[p] = IF p = q THEN u ELSE from[p]
  BY Replaced DEF Pick, IInv, TypeOK
<1>6. lock' \in [Spots -> Requests \cup {Nobody}]
  BY <1>1 DEF IInv, TypeOK
<1>7. pc[q] = "idle" /\ picked[q] = {} /\ UNCHANGED <<row, by, edit, target, spent>>
  BY DEF Pick, IInv, TypeOK
<1>8. \A p \in Requests, s \in Spots : lock'[s] = p <=> s \in picked'[p]
  BY <1>1, <1>2, <1>3, <1>7, UsersAssumption DEF IInv, TypeOK
<1>9. TypeOK'
  BY <1>3, <1>4, <1>5, <1>6, <1>7, <1>8 DEF IInv, TypeOK
<1>10. PickedIsHeld'
  BY <1>2, <1>3, <1>4, <1>5, <1>7 DEF IInv, PickedIsHeld
<1>11. LoweredIsHeld'
  BY <1>3, <1>4, <1>7 DEF IInv, LoweredIsHeld
<1>12. SpentInv'
  BY <1>7 DEF IInv, SpentInv
<1>13. \A p \in Requests : CheckedEdit(p)'
  BY <1>4, <1>7 DEF IInv, CheckedEdit
<1> QED
  BY <1>9, <1>10, <1>11, <1>12, <1>13 DEF IInv

LEMMA WriteAssignmentStep ==
  ASSUME IInv, NEW q \in Requests, WriteAssignment(q)
  PROVE  IInv'
<1>1. \A s \in Spots : s \in picked[q] =>
        /\ [row[s] EXCEPT !.assignee = to[q]] \in Row
        /\ [row[s] EXCEPT !.assignee = to[q]].stale = row[s].stale
  <2>1. to[q] \in Staff \cup {Nobody}
    BY DEF IInv, TypeOK
  <2> QED
    BY <2>1, RowsAreRows, AssignedRow
<1>2. row' \in [Spots -> Row] /\ \A s \in Spots : row'[s].stale = row[s].stale
  BY <1>1 DEF WriteAssignment, IInv, TypeOK
<1>3. \A s \in Spots : lock[s] \notin {q, Nobody} => row'[s] = row[s]
  BY DEF WriteAssignment, IInv, TypeOK
<1>4. SpentInv' /\ spent' \in [Spots -> Nat]
  BY <1>2 DEF WriteAssignment, SpentInv, IInv, TypeOK
<1> QED
  BY <1>2, <1>3, <1>4, FinishStep DEF WriteAssignment

LEMMA LoadedStep ==
  ASSUME IInv, NEW q \in Requests, pc[q] = "idle", Goto(q, "loaded"),
         NEW u \in Staff \cup {Superuser, Nobody}, by' = [by EXCEPT ![q] = u],
         NEW e \in Edit, edit' = [edit EXCEPT ![q] = e],
         NEW s \in Spots, target' = [target EXCEPT ![q] = s],
         UNCHANGED <<row, lock, picked, from, to, spent>>,
         u \in Staff => e.assignee = Keep /\ e.status \in {Keep, "CURATED", "REJECTED"}
  PROVE  IInv'
<1>1. /\ pc' \in [Requests -> {"idle", "picked", "loaded", "lowered"}]
      /\ \A p \in Requests : pc'[p] = IF p = q THEN "loaded" ELSE pc[p]
  BY Replaced DEF Goto, IInv, TypeOK
<1>2. /\ by' \in [Requests -> Staff \cup {Superuser, Nobody}]
      /\ \A p \in Requests : by'[p] = IF p = q THEN u ELSE by[p]
  BY Replaced DEF IInv, TypeOK
<1>3. /\ edit' \in [Requests -> Edit]
      /\ \A p \in Requests : edit'[p] = IF p = q THEN e ELSE edit[p]
  BY Replaced DEF IInv, TypeOK
<1>4. /\ target' \in [Requests -> Spots \cup {Nobody}]
      /\ \A p \in Requests : target'[p] = IF p = q THEN s ELSE target[p]
  BY Replaced DEF IInv, TypeOK
<1>5. picked[q] = {}
  BY DEF IInv, TypeOK
<1>6. TypeOK'
  BY <1>1, <1>2, <1>3, <1>4, <1>5 DEF IInv, TypeOK
<1>7. PickedIsHeld' /\ LoweredIsHeld'
  BY <1>1 DEF IInv, PickedIsHeld, LoweredIsHeld
<1>8. SpentInv'
  BY DEF IInv, SpentInv
<1>9. \A p \in Requests : CheckedEdit(p)'
  BY <1>1, <1>2, <1>3 DEF IInv, CheckedEdit
<1> QED
  BY <1>6, <1>7, <1>8, <1>9 DEF IInv

\* STAFF get past PATCH with a transition of the whitelist or none.
LEMMA LoadPatchStep ==
  ASSUME IInv, NEW q \in Requests, NEW u \in Staff \cup {Superuser}, NEW s \in Spots,
         NEW e \in Payloads, LoadPatch(q, u, s, e)
  PROVE  IInv'
<1>1. row[s] \in Row /\ e \in Edit /\ e.assignee = Keep
  BY PayloadsAreEdits DEF IInv, TypeOK
<1>2. Changes(row[s], e) \in Edit
  BY <1>1, ChangesEdit
<1>3. u \in Staff => e.status \in {Keep, "CURATED", "REJECTED"}
  BY UsersAssumption DEF LoadPatch, MayPatch, AllowedTransitions
<1>4. u \in Staff => /\ Changes(row[s], e).assignee = Keep
                     /\ Changes(row[s], e).status \in {Keep, "CURATED", "REJECTED"}
  BY <1>1, <1>3 DEF Changes
<1> QED
  BY <1>2, <1>4, LoadedStep DEF LoadPatch

LEMMA LoadReassignmentStep ==
  ASSUME IInv, NEW q \in Requests, NEW s \in Spots, NEW v \in Staff \cup {Nobody},
         LoadReassignment(q, s, v)
  PROVE  IInv'
<1>1. [NoEdit EXCEPT !.assignee = v] \in Edit
  BY DEF NoEdit, Edit
<1>2. Changes(row[s], [NoEdit EXCEPT !.assignee = v]) \in Edit
  BY <1>1, ChangesEdit DEF IInv, TypeOK
<1>3. by[q] = Nobody /\ by' = [by EXCEPT ![q] = Nobody]
  BY DEF LoadReassignment, IInv, CheckedEdit, TypeOK
<1> QED
  BY <1>2, <1>3, LoadedStep, UsersAssumption DEF LoadReassignment

\* What SaveEdit makes of the row, and of no other.
LEMMA SavedRow ==
  ASSUME IInv, NEW q \in Requests, SaveEdit(q)
  PROVE  /\ target[q] \in Spots
         /\ row' \in [Spots -> Row]
         /\ \A s \in Spots : row'[s] = IF s = target[q] THEN Edited(row[s], edit[q]) ELSE row[s]
         /\ \A s \in Spots : row'[s].stale = row[s].stale
<1>1. target[q] \in Spots /\ row[target[q]] \in Row /\ edit[q] \in Edit
  BY DEF SaveEdit, IInv, TypeOK
<1>2. /\ Edited(row[target[q]], edit[q]) \in Row
      /\ Edited(row[target[q]], edit[q]).stale = row[target[q]].stale
  BY <1>1, EditedRow
<1>3. row' = [row EXCEPT ![target[q]] = Edited(row[target[q]], edit[q])]
  BY DEF SaveEdit
<1> QED
  BY <1>1, <1>2, <1>3, Replaced DEF IInv, TypeOK

LEMMA SaveEditStep == ASSUME IInv, NEW q \in Requests, SaveEdit(q) PROVE IInv'
<1>1. \A s \in Spots : lock[s] # q
  BY DEF SaveEdit, IInv, TypeOK
<1>2. lock' = Unlocked(q)
  BY <1>1 DEF SaveEdit, Unlocked, IInv, TypeOK
<1>3. \A s \in Spots : lock[s] \notin {q, Nobody} => row'[s] = row[s]
  BY SavedRow DEF SaveEdit
<1>4. SpentInv' /\ spent' \in [Spots -> Nat]
  BY SavedRow DEF SaveEdit, SpentInv, IInv, TypeOK
<1> QED
  BY <1>2, <1>3, <1>4, SavedRow, FinishStep DEF SaveEdit

LEMMA LowerStep == ASSUME IInv, NEW q \in Requests, Lower(q) PROVE IInv'
<1>1. \A s \in ToLower : s \in Spots /\ row[s].stale /\ row[s].tier \in 1..2
  BY DEF ToLower, Decays, IInv, TypeOK, Row
<1>2. /\ picked' \in [Requests -> SUBSET Spots]
      /\ \A p \in Requests : picked'[p] = IF p = q THEN ToLower ELSE picked[p]
  BY <1>1, Replaced DEF Lower, IInv, TypeOK
<1>3. /\ pc' \in [Requests -> {"idle", "picked", "loaded", "lowered"}]
      /\ \A p \in Requests : pc'[p] = IF p = q THEN "lowered" ELSE pc[p]
  BY Replaced DEF Lower, Goto, IInv, TypeOK
<1>4. /\ pc[q] = "idle" /\ picked[q] = {}
      /\ UNCHANGED <<row, by, from, to, edit, target, spent>>
      /\ lock' = [s \in Spots |-> IF s \in ToLower THEN q ELSE lock[s]]
      /\ \A s \in ToLower : lock[s] = Nobody
  BY DEF Lower, IInv, TypeOK
<1>5. lock' \in [Spots -> Requests \cup {Nobody}]
  BY <1>4 DEF IInv, TypeOK
<1>6. \A p \in Requests, s \in Spots : lock'[s] = p <=> s \in picked'[p]
  BY <1>1, <1>2, <1>4, UsersAssumption DEF IInv, TypeOK
<1>7. TypeOK'
  BY <1>2, <1>3, <1>4, <1>5, <1>6 DEF IInv, TypeOK
<1>8. PickedIsHeld'
  BY <1>2, <1>3, <1>4 DEF IInv, PickedIsHeld
<1>9. LoweredIsHeld'
  BY <1>1, <1>2, <1>3, <1>4 DEF IInv, LoweredIsHeld
<1>10. SpentInv'
  BY <1>4 DEF IInv, SpentInv
<1>11. \A p \in Requests : CheckedEdit(p)'
  BY <1>3, <1>4 DEF IInv, CheckedEdit
<1> QED
  BY <1>7, <1>8, <1>9, <1>10, <1>11 DEF IInv

\* The batch lowers a row that has not decayed in this period, and leaves it fresh.
LEMMA DecayedRow ==
  ASSUME IInv, NEW q \in Requests, pc[q] = "lowered", NEW s \in Spots
  PROVE  /\ AfterDecay(q, s) \in Row
         /\ Decayed(q, s) => spent[s] = 0 /\ AfterDecay(q, s).stale = FALSE
         /\ ~Decayed(q, s) => AfterDecay(q, s) = row[s]
<1>1. row[s] \in Row /\ (row[s].stale => spent[s] = 0)
  BY DEF IInv, TypeOK, SpentInv
<1>2. CASE s \in picked[q]
  <2>1. row[s].stale /\ row[s].tier \in 1..2
    BY <1>2 DEF IInv, LoweredIsHeld
  <2>2. AfterDecay(q, s) = [row[s] EXCEPT !.tier = @ + 1, !.stale = FALSE]
    BY <1>2 DEF AfterDecay
  <2>3. row[s].tier + 1 \in 0..3
    BY <2>1
  <2>4. AfterDecay(q, s) \in Row
    BY <1>1, <2>2, <2>3 DEF Row
  <2>5. AfterDecay(q, s).stale = FALSE
    BY <1>1, <2>2 DEF Row
  <2>6. Decayed(q, s)
    BY <1>2 DEF Decayed
  <2> QED
    BY <1>1, <2>1, <2>4, <2>5, <2>6
<1>3. CASE s \notin picked[q] /\ Decayed(q, s)
  <2>1. AfterDecay(q, s) = [row[s] EXCEPT !.assignee = Nobody, !.stale = FALSE]
    BY <1>3 DEF AfterDecay
  <2>2. AfterDecay(q, s) \in Row /\ AfterDecay(q, s).stale = FALSE
    BY <1>1, <2>1 DEF Row
  <2>3. row[s].stale
    BY <1>3 DEF Decayed, Decays
  <2> QED
    BY <1>1, <1>3, <2>2, <2>3
<1>4. CASE ~Decayed(q, s)
  BY <1>1, <1>4 DEF AfterDecay, Decayed
<1> QED
  BY <1>2, <1>3, <1>4

LEMMA RequeueStep == ASSUME IInv, NEW q \in Requests, Requeue(q) PROVE IInv'
<1>1. /\ pc[q] = "lowered" /\ Finish(q) /\ lock' = Unlocked(q)
      /\ row' = [s \in Spots |-> AfterDecay(q, s)]
      /\ spent' = [s \in Spots |-> spent[s] + (IF Decayed(q, s) THEN 1 ELSE 0)]
      /\ \A s \in Spots : Decayed(q, s) => lock[s] \in {q, Nobody}
  BY DEF Requeue
<1>2. row' \in [Spots -> Row]
  BY <1>1, DecayedRow
<1>3. spent' \in [Spots -> Nat]
  BY <1>1 DEF IInv, TypeOK
<1>4. \A s \in Spots : lock[s] \notin {q, Nobody} => row'[s] = row[s]
  BY <1>1, DecayedRow
<1>5. SpentInv'
  <2> SUFFICES ASSUME NEW s \in Spots
               PROVE  spent'[s] <= 1 /\ (row'[s].stale => spent'[s] = 0)
    BY DEF SpentInv
  <2>1. CASE Decayed(q, s)
    <3>1. spent[s] = 0 /\ row'[s].stale = FALSE
      BY <1>1, <2>1, DecayedRow
    <3>2. spent'[s] = 1
      BY <1>1, <2>1, <3>1
    <3>3. ~row'[s].stale
      BY <3>1
    <3> QED
      BY <3>2, <3>3
  <2>2. CASE ~Decayed(q, s)
    <3>1. row'[s] = row[s]
      BY <1>1, <2>2, DecayedRow
    <3>2. spent'[s] = spent[s]
      BY <1>1, <2>2 DEF IInv, TypeOK
    <3> QED
      BY <3>1, <3>2 DEF IInv, SpentInv
  <2> QED
    BY <2>1, <2>2
<1> QED
  BY <1>1, <1>2, <1>3, <1>4, <1>5, FinishStep

LEMMA AbortStep == ASSUME IInv, NEW q \in Requests, Abort(q) PROVE IInv'
<1>1. /\ row' \in [Spots -> Row] /\ spent' \in [Spots -> Nat] /\ SpentInv'
      /\ \A s \in Spots : row'[s] = row[s]
  BY DEF Abort, IInv, TypeOK, SpentInv
<1> QED
  BY <1>1, FinishStep DEF Abort

LEMMA OneStepRequestStep == ASSUME IInv, OneStepRequest PROVE IInv'
<1>1. ASSUME NEW S \in SUBSET Spots, NEW v \in Staff, AssignBulk(S, v) PROVE IInv'
  <2>1. \A s \in Spots : /\ [row[s] EXCEPT !.assignee = v] \in Row
                         /\ [row[s] EXCEPT !.assignee = v].stale = row[s].stale
    BY RowsAreRows, AssignedRow
  <2>2. row' \in [Spots -> Row] /\ \A s \in Spots : row'[s].stale = row[s].stale
    BY <1>1, <2>1 DEF AssignBulk, IInv, TypeOK
  <2>3. \A s \in Spots : lock[s] # Nobody => row'[s] = row[s]
    BY <1>1 DEF AssignBulk
  <2> QED
    BY <1>1, <2>2, <2>3, StatementStep DEF AssignBulk
<1>2. ASSUME NEW S \in SUBSET Spots, NEW x \in Statuses, SetStatusBulk(S, x) PROVE IInv'
  <2>1. ASSUME NEW s \in Spots
        PROVE  /\ [row[s] EXCEPT !.status = x] \in Row
               /\ [row[s] EXCEPT !.status = x].stale = row[s].stale
    BY RowsAreRows, StatusRow, StatusesAssumption
  <2>2. row' \in [Spots -> Row] /\ \A s \in Spots : row'[s].stale = row[s].stale
    BY <1>2, <2>1 DEF SetStatusBulk, IInv, TypeOK
  <2>3. \A s \in Spots : lock[s] # Nobody => row'[s] = row[s]
    BY <1>2 DEF SetStatusBulk
  <2> QED
    BY <1>2, <2>2, <2>3, StatementStep DEF SetStatusBulk
<1>3. ASSUME NEW s \in Spots, NEW d \in BOOLEAN, SetDeleted(s, d) PROVE IInv'
  <2>1. /\ [row[s] EXCEPT !.deleted = d] \in Row
        /\ [row[s] EXCEPT !.deleted = d].stale = row[s].stale
    BY RowsAreRows, DeletedRow
  <2>2. row' = [row EXCEPT ![s] = [row[s] EXCEPT !.deleted = d]]
    BY <1>3 DEF SetDeleted
  <2>3. /\ row' \in [Spots -> Row] /\ \A z \in Spots : row'[z].stale = row[z].stale
        /\ \A z \in Spots \ {s} : row'[z] = row[z]
    BY <2>1, <2>2, Replaced DEF IInv, TypeOK
  <2>4. \A z \in Spots : lock[z] # Nobody => row'[z] = row[z]
    BY <1>3, <2>3 DEF SetDeleted
  <2> QED
    BY <1>3, <2>3, <2>4, StatementStep DEF SetDeleted
<1>4. ASSUME NEW s \in Spots, NEW e \in Payloads, UpsertRow(s, e) PROVE IInv'
  <2>1. Edited(row[s], e) \in Row /\ Edited(row[s], e).stale = row[s].stale
    BY EditedRow, PayloadsAreEdits DEF IInv, TypeOK
  <2>2. row' = [row EXCEPT ![s] = Edited(row[s], e)]
    BY <1>4 DEF UpsertRow
  <2>3. /\ row' \in [Spots -> Row] /\ \A z \in Spots : row'[z].stale = row[z].stale
        /\ \A z \in Spots \ {s} : row'[z] = row[z]
    BY <2>1, <2>2, Replaced DEF IInv, TypeOK
  <2>4. \A z \in Spots : lock[z] # Nobody => row'[z] = row[z]
    BY <1>4, <2>3 DEF UpsertRow
  <2> QED
    BY <1>4, <2>3, <2>4, StatementStep DEF UpsertRow
<1> QED
  BY <1>1, <1>2, <1>3, <1>4 DEF OneStepRequest

LEMMA InvStep == ASSUME IInv, [Next]_vars PROVE IInv'
<1>1. ASSUME NEW q \in Requests, Request(q) PROVE IInv'
  BY <1>1, PickStep, WriteAssignmentStep, LoadPatchStep, LoadReassignmentStep, SaveEditStep,
     LowerStep, RequeueStep, AbortStep DEF Request
<1>2. ASSUME UNCHANGED vars PROVE IInv'
  BY <1>2, StatementStep DEF vars, request, IInv, TypeOK
<1> QED
  BY <1>1, <1>2, OneStepRequestStep, GrowStaleStep DEF Next

LEMMA InvAlways == Spec => []IInv
BY InvInit, InvStep, PTL DEF Spec

---------------------------------------------------------------------------
(* Theorems.                                                               *)

\* Every variable keeps its type, and a row is locked by the request that has
\* picked it and by no other.
THEOREM PipelineTypeCorrect == Spec => []TypeOK
BY InvAlways, PTL DEF IInv

\* However many requests assign, transfer and edit at once, and whichever die, the
\* spots a request has picked are still waiting, and still their source's, when it
\* gives them away (FOR UPDATE SKIP LOCKED in assign_spots).
THEOREM PickedSpotsAreHeld == Spec => []PickedIsHeld
BY InvAlways, PTL DEF IInv

\* Any number of runs of decay_stale_trust_tiers, overlapping, repeated or killed,
\* lower a tier once per period.
THEOREM TiersDecayOnce == Spec => []DecayOncePerPeriod
<1>1. IInv => DecayOncePerPeriod
  BY DEF IInv, SpentInv, DecayOncePerPeriod
<1> QED
  BY <1>1, InvAlways, PTL

\* Even with a stale row under its check, PATCH lets staff below SUPERUSER neither
\* publish a spot nor change who has it.
THEOREM StaffStayWithinReach == Spec => StaffReachIsBounded
<1>1. ASSUME IInv, NEW q \in Requests, SaveEdit(q), by[q] \in Staff, NEW s \in Spots
      PROVE  /\ row'[s].assignee = row[s].assignee
             /\ row'[s].status \in {row[s].status, "CURATED", "REJECTED"}
  <2>1. edit[q].assignee = Keep /\ edit[q].status \in {Keep, "CURATED", "REJECTED"}
    BY <1>1 DEF SaveEdit, IInv, CheckedEdit
  <2>2. row[s] \in Row
    BY <1>1 DEF IInv, TypeOK
  <2>3. /\ Edited(row[s], edit[q]).assignee = row[s].assignee
        /\ Edited(row[s], edit[q]).status \in {row[s].status, "CURATED", "REJECTED"}
    BY <2>1, <2>2, KeepAssumption DEF Edited, Row
  <2> QED
    BY <1>1, <2>3, SavedRow
<1>2. IInv /\ [Next]_vars =>
        [\A q \in Requests : SaveEdit(q) /\ by[q] \in Staff =>
           \A s \in Spots :
             /\ row'[s].assignee = row[s].assignee
             /\ row'[s].status \in {row[s].status, "CURATED", "REJECTED"}]_vars
  BY <1>1
<1> QED
  BY <1>2, InvAlways, PTL DEF Spec, StaffReachIsBounded
============================================================================
