-------------------------- MODULE SpotImagesProofs --------------------------
(***************************************************************************)
(* Theorems about SpotImages, for any number of keys, rows and             *)
(* registrations.                                                          *)
(*                                                                         *)
(* The invariant follows a key through the saga: who works on it, what of  *)
(* it is in S3 and what in the table.  A key that two registrations have   *)
(* met on is marked, and so is every other event the promises exclude.     *)
(***************************************************************************)
EXTENDS SpotImages, FiniteSetTheorems, TLAPS

\* Two registrations of one key: the later one has found it in use.
TogetherInv ==
  \A q, p \in Requests :
    q # p /\ key[q] = key[p] /\ key[q] # NoKey => "again" \in past[key[q]]

\* As long as a registration may delete the final object, no row has it.
RowInv ==
  \A q \in Requests, i \in Images :
    pc[q] \in {"counted", "large", "headed", "copied", "undoing"} /\ image[i].key = key[q]
      => past[key[q]] \cap {"again", "refresh"} # {}

\* What was copied is there.
CopyInv ==
  \A q \in Requests :
    pc[q] \in {"copied", "undoing", "committed"} /\ "again" \notin past[key[q]]
      => final[key[q]] # "none"

\* An object without a row has a registration that sees to it.
LeftInv ==
  \A k \in Keys :
    final[k] # "none" /\ "left" \notin past[k] =>
      \/ \E i \in Images : image[i].key = k
      \/ \E q \in Requests : key[q] = k /\ pc[q] \in {"copied", "undoing"}

\* What was found small enough is not large.
HeadInv ==
  \A q \in Requests :
    pc[q] = "headed" /\ "replaced" \notin past[key[q]] => pending[key[q]] # "large"

\* Originals are deleted after the row is there.
CommittedInv ==
  \A q \in Requests : pc[q] = "committed" => \E i \in Images : image[i].key = key[q]

\* The registrations that have found room and not used it yet.
Counting == {q \in Requests : pc[q] \in {"counted", "headed", "copied"}}

\* Whoever counts finds room for one row, so with the rows of all who count now the
\* maximum is exceeded by one row less than there are registrations.
RoomInv ==
  /\ IsFiniteSet(Active)
  /\ Cardinality(Active) + Cardinality(Counting) < MaxImages + Cardinality(Requests)

KeyInv == TogetherInv /\ RowInv /\ CopyInv /\ LeftInv /\ HeadInv /\ CommittedInv
Promises == RowsHaveObjects /\ SizeIsBounded
IInv == TypeOK /\ KeyInv /\ Promises /\ RoomInv

---------------------------------------------------------------------------
(* Reading what a step has written.                                        *)

LEMMA Replaced ==
  ASSUME NEW S, NEW T, NEW f \in [S -> T], NEW a \in S, NEW v \in T
  PROVE  /\ [f EXCEPT ![a] = v] \in [S -> T]
         /\ \A b \in S : [f EXCEPT ![a] = v][b] = IF b = a THEN v ELSE f[b]
OBVIOUS

Places == {"idle", "counted", "large", "headed", "copied", "undoing", "committed"}
Row == [state : {"none", "active", "deleted"}, key : Keys \cup {NoKey}]

LEMMA GotoTypes ==
  ASSUME TypeOK, NEW q \in Requests, NEW x \in Places, Goto(q, x)
  PROVE  /\ pc' \in [Requests -> Places]
         /\ \A p \in Requests : pc'[p] = IF p = q THEN x ELSE pc[p]
BY DEF TypeOK, Goto, Places

LEMMA FinishTypes ==
  ASSUME TypeOK, NEW q \in Requests, Finish(q)
  PROVE  /\ pc' \in [Requests -> Places]
         /\ key' \in [Requests -> Keys \cup {NoKey}]
         /\ \A p \in Requests : /\ pc'[p] = IF p = q THEN "idle" ELSE pc[p]
                                /\ key'[p] = IF p = q THEN NoKey ELSE key[p]
<1>1. Goto(q, "idle") /\ key' = [key EXCEPT ![q] = NoKey]
  BY DEF Finish
<1>2. "idle" \in Places
  BY DEF Places
<1> QED
  BY <1>1, <1>2, GotoTypes DEF TypeOK

\* Which key a request that has begun works on.
LEMMA KeyIsThere ==
  ASSUME TypeOK, NEW q \in Requests, pc[q] # "idle"
  PROVE  key[q] \in Keys
BY DEF TypeOK

LEMMA HappenedTypes ==
  ASSUME TypeOK, NEW k \in Keys, NEW e \in Events, Happened(k, e)
  PROVE  /\ past' \in [Keys -> SUBSET Events]
         /\ \A j \in Keys : past'[j] = IF j = k THEN past[j] \cup {e} ELSE past[j]
<1>1. past \in [Keys -> SUBSET Events] /\ past[k] \cup {e} \in SUBSET Events
  BY DEF TypeOK
<1> QED
  BY <1>1, Replaced DEF Happened

---------------------------------------------------------------------------
(* The counts.                                                             *)

LEMMA CountTypes ==
  /\ IsFiniteSet(Counting) /\ Cardinality(Counting) \in Nat
  /\ Cardinality(Counting) <= Cardinality(Requests)
  /\ Cardinality(Requests) \in Nat
BY CountAssumption, FS_Subset, FS_CardinalityType DEF Counting

\* The rows and the requests that count are the same, or fewer.
LEMMA CountStep ==
  ASSUME IInv, Active' \in SUBSET Active,
         \A q \in Requests :
           pc'[q] \in {"counted", "headed", "copied"} => pc[q] \in {"counted", "headed", "copied"}
  PROVE  RoomInv'
<1>1. /\ IsFiniteSet(Active)
      /\ Cardinality(Active) + Cardinality(Counting) < MaxImages + Cardinality(Requests)
  BY DEF IInv, RoomInv
<1>2. /\ IsFiniteSet(Active') /\ Cardinality(Active') <= Cardinality(Active)
      /\ Cardinality(Active') \in Nat /\ Cardinality(Active) \in Nat
  BY <1>1, FS_Subset, FS_CardinalityType
<1>3. Counting' \in SUBSET Counting
  BY DEF Counting
<1>4. /\ Cardinality(Counting') <= Cardinality(Counting)
      /\ Cardinality(Counting') \in Nat /\ Cardinality(Counting) \in Nat
  BY <1>3, CountTypes, FS_Subset, FS_CardinalityType
<1>5. Cardinality(Requests) \in Nat /\ MaxImages \in Nat
  BY CountTypes, CountAssumption
<1>6. Cardinality(Active') + Cardinality(Counting') < MaxImages + Cardinality(Requests)
  BY <1>1, <1>2, <1>4, <1>5
<1> QED
  BY <1>2, <1>6 DEF RoomInv

\* One row more, by a request that counted and does so no longer.
LEMMA CountInsert ==
  ASSUME IInv, NEW q \in Requests, NEW i \in Images, Stored(q, i),
         NEW x \in {"committed", "undoing"}, Goto(q, x)
  PROVE  RoomInv'
<1>1. \A p \in Requests : pc'[p] = IF p = q THEN x ELSE pc[p]
  BY GotoTypes DEF IInv, Places
<1>2. Active' = Active \cup {i}
  BY DEF IInv, TypeOK, Stored, Active
<1>3. i \notin Active /\ pc[q] = "copied"
  BY DEF Stored, Active
<1>4. /\ IsFiniteSet(Active') /\ Cardinality(Active') = Cardinality(Active) + 1
      /\ Cardinality(Active) \in Nat
  BY <1>2, <1>3, FS_AddElement, FS_CardinalityType DEF IInv, RoomInv
<1>5. Counting' = Counting \ {q} /\ q \in Counting
  BY <1>1, <1>3 DEF Counting
<1>6. Cardinality(Counting') = Cardinality(Counting) - 1 /\ Cardinality(Counting) \in Nat
  BY <1>5, CountTypes, FS_RemoveElement
<1>7. Cardinality(Active) + Cardinality(Counting) < MaxImages + Cardinality(Requests)
  BY DEF IInv, RoomInv
<1>8. Cardinality(Requests) \in Nat /\ MaxImages \in Nat
  BY CountTypes, CountAssumption
<1>9. Cardinality(Active') + Cardinality(Counting') < MaxImages + Cardinality(Requests)
  BY <1>4, <1>6, <1>7, <1>8
<1> QED
  BY <1>4, <1>9 DEF RoomInv

\* No registration commits, and no row loses its key.
LEMMA StillCommitted ==
  ASSUME IInv,
         \A i \in Images : image[i].key \in Keys => image'[i].key = image[i].key,
         \A q \in Requests : pc'[q] = "committed" => pc[q] = "committed" /\ key'[q] = key[q]
  PROVE  CommittedInv'
BY KeyIsThere DEF IInv, KeyInv, CommittedInv

---------------------------------------------------------------------------
(* The client and S3.                                                      *)

\* Only URLs or states of rows change.
LEMMA QuietStep ==
  ASSUME IInv, UNCHANGED <<pending, final, pc, key, past>>,
         url' \in [Keys -> {"none", "valid", "expired"}],
         image' \in [Images -> Row],
         \A i \in Images : /\ image'[i].key = image[i].key
                           /\ image'[i].state = "none" <=> image[i].state = "none"
                           /\ image'[i].state = "active" => image[i].state = "active"
  PROVE  IInv'
<1>1. TypeOK'
  BY DEF IInv, TypeOK, Row
<1>2. KeyInv'
  BY DEF IInv, KeyInv, TogetherInv, RowInv, CopyInv, LeftInv, HeadInv, CommittedInv
<1>3. Promises'
  BY DEF IInv, Promises, RowsHaveObjects, SizeIsBounded
<1>4. Active' \in SUBSET Active
  BY DEF Active
<1>5. RoomInv'
  BY <1>4, CountStep
<1> QED
  BY <1>1, <1>2, <1>3, <1>5 DEF IInv

LEMMA UrlStep ==
  ASSUME IInv, NEW k \in Keys, Presign(k) \/ ExpireUrl(k)
  PROVE  IInv'
<1>1. url' \in [Keys -> {"none", "valid", "expired"}]
  BY DEF IInv, TypeOK, Presign, ExpireUrl
<1>2. UNCHANGED <<pending, final, image, pc, key, past>>
  BY DEF Presign, ExpireUrl
<1>3. image' \in [Images -> Row]
  BY <1>2 DEF IInv, TypeOK, Row
<1> QED
  BY <1>1, <1>2, <1>3, QuietStep

LEMMA DeleteStep ==
  ASSUME IInv, NEW i \in Images, DeleteImage(i)
  PROVE  IInv'
<1>1. image \in [Images -> Row] /\ image[i] \in Row
  BY DEF IInv, TypeOK, Row
<1>2. [image[i] EXCEPT !.state = "deleted"] \in Row
  BY <1>1 DEF Row
<1>3. /\ image' \in [Images -> Row]
      /\ \A j \in Images :
           image'[j] = IF j = i THEN [image[i] EXCEPT !.state = "deleted"] ELSE image[j]
  BY <1>1, <1>2, Replaced DEF DeleteImage
<1>4. [image[i] EXCEPT !.state = "deleted"].key = image[i].key
  BY <1>1 DEF Row
<1>5. [image[i] EXCEPT !.state = "deleted"].state = "deleted"
  BY <1>1 DEF Row
<1>6. \A j \in Images : /\ image'[j].key = image[j].key
                        /\ image'[j].state = "none" <=> image[j].state = "none"
                        /\ image'[j].state = "active" => image[j].state = "active"
  BY <1>3, <1>4, <1>5 DEF DeleteImage
<1>7. url' \in [Keys -> {"none", "valid", "expired"}]
  BY DEF DeleteImage, IInv, TypeOK, s3
<1> QED
  BY <1>3, <1>6, <1>7, QuietStep DEF DeleteImage, s3

LEMMA UploadStep ==
  ASSUME IInv, NEW k \in Keys, NEW size \in {"small", "large"}, Upload(k, size)
  PROVE  IInv'
<1>1. TypeOK /\ UNCHANGED <<url, final, image, pc, key>>
  BY DEF IInv, Upload
<1>2. /\ pending' \in [Keys -> Object]
      /\ \A j \in Keys : pending'[j] = IF j = k THEN size ELSE pending[j]
  BY <1>1 DEF Upload, TypeOK, Object
<1> DEFINE busy == \E q \in Requests : key[q] = k /\ pc[q] # "counted"
<1>3. /\ past' \in [Keys -> SUBSET Events]
      /\ \A j \in Keys : past[j] \subseteq past'[j] /\ past'[j] \subseteq past[j] \cup {"replaced"}
      /\ busy => "replaced" \in past'[k]
  <2>1. CASE busy
    <3>1. Happened(k, "replaced")
      BY <2>1 DEF Upload
    <3>2. "replaced" \in Events
      BY DEF Events
    <3>3. /\ past' \in [Keys -> SUBSET Events]
          /\ \A j \in Keys : past'[j] = IF j = k THEN past[j] \cup {"replaced"} ELSE past[j]
      BY <1>1, <3>1, <3>2, HappenedTypes
    <3>4. "replaced" \in past'[k]
      BY <3>3
    <3>5. \A j \in Keys : past[j] \subseteq past'[j] /\ past'[j] \subseteq past[j] \cup {"replaced"}
      BY <3>3
    <3> QED
      BY <3>3, <3>4, <3>5
  <2>2. CASE ~busy
    <3>1. past' = past
      BY <2>2 DEF Upload
    <3> QED
      BY <1>1, <2>2, <3>1 DEF TypeOK
  <2> QED
    BY <2>1, <2>2
<1>4. \A q \in Requests : key[q] = k /\ pc[q] # "counted" => "replaced" \in past'[k]
  BY <1>3
<1> HIDE DEF busy
<1>5. TypeOK'
  BY <1>1, <1>2, <1>3 DEF TypeOK
<1>6. TogetherInv' /\ RowInv' /\ CopyInv' /\ LeftInv'
  BY <1>1, <1>3, KeyIsThere DEF IInv, KeyInv, TogetherInv, RowInv, CopyInv, LeftInv, TypeOK
<1>7. HeadInv'
  BY <1>1, <1>2, <1>3, <1>4, KeyIsThere DEF IInv, KeyInv, HeadInv
<1>8. RowsHaveObjects' /\ SizeIsBounded'
  BY <1>1, <1>3 DEF IInv, Promises, RowsHaveObjects, SizeIsBounded, TypeOK
<1>9. RoomInv'
  BY <1>1, CountStep DEF Active
<1>10. CommittedInv'
  BY <1>1, StillCommitted
<1> QED
  BY <1>5, <1>6, <1>7, <1>8, <1>9, <1>10 DEF IInv, KeyInv, Promises

LEMMA SweepStep ==
  ASSUME IInv, NEW k \in Keys, Sweep(k)
  PROVE  IInv'
<1>1. TypeOK /\ UNCHANGED <<url, final, image, pc, key, past>>
  BY DEF IInv, Sweep
<1>2. /\ pending' \in [Keys -> Object]
      /\ \A j \in Keys : pending'[j] = IF j = k THEN "none" ELSE pending[j]
  BY <1>1 DEF Sweep, TypeOK, Object
<1>3. TypeOK'
  BY <1>1, <1>2 DEF TypeOK
<1>4. TogetherInv' /\ RowInv' /\ CopyInv' /\ LeftInv' /\ CommittedInv'
  BY <1>1 DEF IInv, KeyInv, TogetherInv, RowInv, CopyInv, LeftInv, CommittedInv
<1>5. HeadInv'
  BY <1>1, <1>2, KeyIsThere DEF IInv, KeyInv, HeadInv
<1>6. Promises'
  BY <1>1 DEF IInv, Promises, RowsHaveObjects, SizeIsBounded
<1>7. RoomInv'
  BY <1>1, CountStep DEF Active
<1> QED
  BY <1>3, <1>4, <1>5, <1>6, <1>7 DEF IInv, KeyInv

---------------------------------------------------------------------------
(* register_image.                                                         *)

LEMMA BeginStep ==
  ASSUME IInv, NEW q \in Requests, NEW k \in Keys, BeginRegister(q, k)
  PROVE  IInv'
<1>1. /\ TypeOK /\ UNCHANGED <<url, pending, final, image>> /\ pc[q] = "idle"
      /\ Cardinality(Active) < MaxImages
  BY DEF IInv, BeginRegister, Begin, s3
<1>2. /\ pc' \in [Requests -> Places]
      /\ \A p \in Requests : pc'[p] = IF p = q THEN "counted" ELSE pc[p]
  BY <1>1, GotoTypes DEF BeginRegister, Begin, Places
<1>3. /\ key' \in [Requests -> Keys \cup {NoKey}]
      /\ \A p \in Requests : key'[p] = IF p = q THEN k ELSE key[p]
  BY <1>1 DEF BeginRegister, Begin, TypeOK
<1> DEFINE used == Others(q, k) # {} \/ \E i \in Images : image[i].key = k
<1>4. /\ past' \in [Keys -> SUBSET Events]
      /\ \A j \in Keys : past[j] \subseteq past'[j] /\ past'[j] \subseteq past[j] \cup {"again"}
      /\ used => "again" \in past'[k]
  <2>1. CASE used
    <3>1. Happened(k, "again")
      BY <2>1 DEF BeginRegister, Begin
    <3>2. "again" \in Events
      BY DEF Events
    <3>3. /\ past' \in [Keys -> SUBSET Events]
          /\ \A j \in Keys : past'[j] = IF j = k THEN past[j] \cup {"again"} ELSE past[j]
      BY <1>1, <3>1, <3>2, HappenedTypes
    <3>4. "again" \in past'[k]
      BY <3>3
    <3>5. \A j \in Keys : past[j] \subseteq past'[j] /\ past'[j] \subseteq past[j] \cup {"again"}
      BY <3>3
    <3> QED
      BY <3>3, <3>4, <3>5
  <2>2. CASE ~used
    <3>1. past' = past
      BY <2>2 DEF BeginRegister, Begin
    <3> QED
      BY <1>1, <2>2, <3>1 DEF TypeOK
  <2> QED
    BY <2>1, <2>2
<1>5. \A p \in Requests \ {q} : key[p] = k => "again" \in past'[k]
  BY <1>4 DEF Others
<1>6. \A i \in Images : image[i].key = k => "again" \in past'[k]
  BY <1>4
<1> HIDE DEF used
<1>7. TypeOK'
  BY <1>1, <1>2, <1>3, <1>4, KeysAssumption DEF TypeOK, Places
<1>8. TogetherInv'
  BY <1>1, <1>3, <1>4, <1>5 DEF IInv, KeyInv, TogetherInv, TypeOK
<1>9. RowInv'
  BY <1>1, <1>2, <1>3, <1>4, <1>6, KeyIsThere DEF IInv, KeyInv, RowInv
<1>10. CopyInv' /\ HeadInv'
  BY <1>1, <1>2, <1>3, <1>4, KeyIsThere DEF IInv, KeyInv, CopyInv, HeadInv
<1>11. LeftInv'
  BY <1>1, <1>2, <1>3, <1>4 DEF IInv, KeyInv, LeftInv
<1>12. RowsHaveObjects' /\ SizeIsBounded'
  BY <1>1, <1>4 DEF IInv, Promises, RowsHaveObjects, SizeIsBounded, TypeOK
<1>13. Active' = Active
  BY <1>1 DEF Active
<1>14. RoomInv'
  <2>1. /\ IsFiniteSet(Active') /\ Cardinality(Active') \in Nat
        /\ Cardinality(Active') < MaxImages
    BY <1>1, <1>13, FS_CardinalityType DEF IInv, RoomInv
  <2>2. Counting' \in SUBSET Requests /\ IsFiniteSet(Requests)
    BY CountAssumption DEF Counting
  <2>3. /\ Cardinality(Counting') \in Nat /\ Cardinality(Requests) \in Nat
        /\ Cardinality(Counting') <= Cardinality(Requests)
    BY <2>2, FS_Subset, FS_CardinalityType
  <2>4. MaxImages \in Nat
    BY CountAssumption
  <2>5. Cardinality(Active') + Cardinality(Counting') < MaxImages + Cardinality(Requests)
    BY <2>1, <2>3, <2>4
  <2> QED
    BY <2>1, <2>5 DEF RoomInv
<1>15. CommittedInv'
  BY <1>1, <1>2, <1>3, StillCommitted
<1> QED
  BY <1>7, <1>8, <1>9, <1>10, <1>11, <1>12, <1>14, <1>15 DEF IInv, KeyInv, Promises

LEMMA HeadStep ==
  ASSUME IInv, NEW q \in Requests, Head(q)
  PROVE  IInv'
<1>1. /\ TypeOK /\ UNCHANGED <<url, pending, final, image, key, past>>
      /\ pc[q] = "counted"
  BY DEF IInv, Head, s3
<1>2. PICK x \in {"headed", "large"} :
        Goto(q, x) /\ (x = "headed" => pending[key[q]] = "small")
  BY DEF Head
<1>3. /\ pc' \in [Requests -> Places]
      /\ \A p \in Requests : pc'[p] = IF p = q THEN x ELSE pc[p]
  BY <1>1, <1>2, GotoTypes DEF Places
<1>4. TypeOK'
  BY <1>1, <1>3 DEF TypeOK, Places
<1>5. TogetherInv' /\ RowInv' /\ CopyInv' /\ LeftInv'
  BY <1>1, <1>3 DEF IInv, KeyInv, TogetherInv, RowInv, CopyInv, LeftInv
<1>6. HeadInv'
  BY <1>1, <1>2, <1>3 DEF IInv, KeyInv, HeadInv
<1>7. Promises'
  BY <1>1, <1>2, <1>3
     DEF IInv, Promises, RowsHaveObjects, SizeIsBounded
<1>8. RoomInv'
  BY <1>1, <1>3, CountStep DEF Active
<1>9. CommittedInv'
  BY <1>1, <1>2, <1>3, StillCommitted
<1> QED
  BY <1>4, <1>5, <1>6, <1>7, <1>8, <1>9 DEF IInv, KeyInv

\* A request ends that has deleted the pending object of its key (or not), and
\* leaves no copy behind.
LEMMA FinishStep ==
  ASSUME IInv, NEW q \in Requests, pc[q] \in {"large", "committed"}, Finish(q),
         pending' = [pending EXCEPT ![key[q]] = "none"],
         UNCHANGED <<url, final, image, past>>
  PROVE  IInv'
<1>1. TypeOK /\ key[q] \in Keys
  BY KeyIsThere DEF IInv
<1>2. /\ pc' \in [Requests -> Places]
      /\ key' \in [Requests -> Keys \cup {NoKey}]
      /\ \A p \in Requests : /\ pc'[p] = IF p = q THEN "idle" ELSE pc[p]
                             /\ key'[p] = IF p = q THEN NoKey ELSE key[p]
  BY <1>1, FinishTypes
<1>3. /\ pending' \in [Keys -> Object]
      /\ \A j \in Keys : pending'[j] = IF j = key[q] THEN "none" ELSE pending[j]
  BY <1>1 DEF TypeOK, Object
<1>4. TypeOK'
  BY <1>1, <1>2, <1>3 DEF TypeOK, Places
<1>5. TogetherInv' /\ RowInv' /\ CopyInv'
  BY <1>1, <1>2 DEF IInv, KeyInv, TogetherInv, RowInv, CopyInv
<1>6. LeftInv'
  BY <1>2 DEF IInv, KeyInv, LeftInv
<1>7. HeadInv'
  BY <1>1, <1>2, <1>3, KeyIsThere DEF IInv, KeyInv, HeadInv
<1>8. RowsHaveObjects' /\ SizeIsBounded'
  BY DEF IInv, Promises, RowsHaveObjects, SizeIsBounded
<1>9. \A p \in Requests : pc'[p] # "idle" /\ key[p] = key[q] => "again" \in past[key[p]]
  BY <1>1, <1>2, KeysAssumption DEF IInv, KeyInv, TogetherInv
<1>10. RoomInv'
  BY <1>2, CountStep DEF Active
<1>11. CommittedInv'
  BY <1>2, StillCommitted
<1> QED
  BY <1>4, <1>5, <1>6, <1>7, <1>8, <1>10, <1>11 DEF IInv, KeyInv, Promises

LEMMA CopyStep ==
  ASSUME IInv, NEW q \in Requests, Copy(q)
  PROVE  IInv'
<1>1. /\ TypeOK /\ UNCHANGED <<url, pending, image, key, past>>
      /\ pc[q] = "headed" /\ pending[key[q]] # "none" /\ key[q] \in Keys
  BY KeyIsThere DEF IInv, Copy
<1>2. /\ pc' \in [Requests -> Places]
      /\ \A p \in Requests : pc'[p] = IF p = q THEN "copied" ELSE pc[p]
  BY <1>1, GotoTypes DEF Copy, Places
<1>3. /\ final' \in [Keys -> Object]
      /\ \A j \in Keys : final'[j] = IF j = key[q] THEN pending[j] ELSE final[j]
  BY <1>1 DEF Copy, TypeOK
<1>4. TypeOK'
  BY <1>1, <1>2, <1>3 DEF TypeOK, Places
<1>5. TogetherInv' /\ RowInv' /\ HeadInv'
  BY <1>1, <1>2 DEF IInv, KeyInv, TogetherInv, RowInv, HeadInv
<1>6. CopyInv'
  BY <1>1, <1>2, <1>3, KeyIsThere DEF IInv, KeyInv, CopyInv
<1>7. LeftInv'
  BY <1>1, <1>2, <1>3 DEF IInv, KeyInv, LeftInv
<1>8. RowsHaveObjects'
  BY <1>1, <1>3 DEF IInv, Promises, RowsHaveObjects, TypeOK
<1>9. SizeIsBounded'
  BY <1>1, <1>3 DEF IInv, Promises, SizeIsBounded, KeyInv, HeadInv
<1>10. RoomInv'
  BY <1>1, <1>2, CountStep DEF Active
<1>11. CommittedInv'
  BY <1>1, <1>2, StillCommitted
<1> QED
  BY <1>4, <1>5, <1>6, <1>7, <1>8, <1>9, <1>10, <1>11 DEF IInv, KeyInv, Promises
\* The new row, and the others as they were.
LEMMA StoredTypes ==
  ASSUME TypeOK, NEW q \in Requests, NEW i \in Images, Stored(q, i)
  PROVE  /\ key[q] \in Keys
         /\ image' \in [Images -> Row]
         /\ \A j \in Images :
              image'[j] = IF j = i THEN [state |-> "active", key |-> key[q]] ELSE image[j]
<1>1. key[q] \in Keys /\ image \in [Images -> Row]
  BY KeyIsThere DEF Stored, TypeOK, Row
<1>2. [state |-> "active", key |-> key[q]] \in Row
  BY <1>1 DEF Row
<1> QED
  BY <1>1, <1>2, Replaced DEF Stored

LEMMA InsertStep ==
  ASSUME IInv, NEW q \in Requests, NEW i \in Images, Insert(q, i)
  PROVE  IInv'
<1>1. /\ TypeOK /\ UNCHANGED <<url, pending, final, key, past>>
      /\ pc[q] = "copied" /\ image[i].state = "none" /\ image[i].key = NoKey
  BY DEF IInv, Insert, Stored, s3, TypeOK
<1>2. /\ pc' \in [Requests -> Places]
      /\ \A p \in Requests : pc'[p] = IF p = q THEN "committed" ELSE pc[p]
  BY <1>1, GotoTypes DEF Insert, Places
<1>3. /\ key[q] \in Keys
      /\ image' \in [Images -> Row]
      /\ \A j \in Images :
           image'[j] = IF j = i THEN [state |-> "active", key |-> key[q]] ELSE image[j]
  BY <1>1, StoredTypes DEF Insert
<1>4. /\ \A j \in Images : image'[j].key = IF j = i THEN key[q] ELSE image[j].key
      /\ \A j \in Images : image'[j].state = IF j = i THEN "active" ELSE image[j].state
  BY <1>3
<1>5. TypeOK'
  BY <1>1, <1>2, <1>3, <1>4, KeysAssumption DEF TypeOK, Places, Row
<1>6. TogetherInv' /\ CopyInv' /\ HeadInv'
  BY <1>1, <1>2 DEF IInv, KeyInv, TogetherInv, CopyInv, HeadInv
<1>7. RowInv'
  BY <1>1, <1>2, <1>3, <1>4 DEF IInv, KeyInv, RowInv, TogetherInv, TypeOK
<1>8. LeftInv'
  BY <1>1, <1>2, <1>4, KeysAssumption DEF IInv, KeyInv, LeftInv
<1>9. RowsHaveObjects'
  BY <1>1, <1>4 DEF IInv, KeyInv, CopyInv, Promises, RowsHaveObjects
<1>10. SizeIsBounded'
  BY <1>1, <1>2 DEF IInv, Promises, SizeIsBounded
<1>11. RoomInv'
  BY <1>1, CountInsert DEF Insert
<1>12. CommittedInv'
  <2> SUFFICES ASSUME NEW p \in Requests, pc'[p] = "committed"
               PROVE  \E j \in Images : image'[j].key = key[p]
    BY <1>1 DEF CommittedInv
  <2>1. CASE p = q
    BY <1>4, <2>1
  <2>2. CASE p # q
    <3>1. pc[p] = "committed" /\ key[p] \in Keys
      BY <1>1, <1>2, <2>2, KeyIsThere
    <3>2. PICK j \in Images : image[j].key = key[p]
      BY <1>1, <3>1 DEF IInv, KeyInv, CommittedInv
    <3>3. j # i
      BY <1>1, <3>1, <3>2, KeysAssumption
    <3> QED
      BY <1>4, <3>2, <3>3
  <2> QED
    BY <2>1, <2>2
<1> QED
  BY <1>5, <1>6, <1>7, <1>8, <1>9, <1>10, <1>11, <1>12 DEF IInv, KeyInv, Promises

LEMMA InsertFailsStep ==
  ASSUME IInv, NEW q \in Requests, InsertFails(q)
  PROVE  IInv'
<1>1. /\ TypeOK /\ UNCHANGED <<url, pending, final, image, key, past>>
      /\ pc[q] = "copied"
  BY DEF IInv, InsertFails, s3
<1>2. /\ pc' \in [Requests -> Places]
      /\ \A p \in Requests : pc'[p] = IF p = q THEN "undoing" ELSE pc[p]
  BY <1>1, GotoTypes DEF InsertFails, Places
<1>3. TypeOK'
  BY <1>1, <1>2 DEF TypeOK, Places
<1>4. TogetherInv' /\ RowInv' /\ CopyInv' /\ LeftInv' /\ HeadInv'
  BY <1>1, <1>2 DEF IInv, KeyInv, TogetherInv, RowInv, CopyInv, LeftInv, HeadInv
<1>5. Promises'
  BY <1>1, <1>2
     DEF IInv, Promises, RowsHaveObjects, SizeIsBounded
<1>6. RoomInv'
  BY <1>1, <1>2, CountStep DEF Active
<1>7. CommittedInv'
  BY <1>1, <1>2, StillCommitted
<1> QED
  BY <1>3, <1>4, <1>5, <1>6, <1>7 DEF IInv, KeyInv

LEMMA RefreshFailsStep ==
  ASSUME IInv, NEW q \in Requests, NEW i \in Images, RefreshFails(q, i)
  PROVE  IInv'
<1>1. /\ TypeOK /\ UNCHANGED <<url, pending, final, key>>
      /\ pc[q] = "copied" /\ image[i].state = "none" /\ image[i].key = NoKey
  BY DEF IInv, RefreshFails, Stored, s3, TypeOK
<1>2. /\ pc' \in [Requests -> Places]
      /\ \A p \in Requests : pc'[p] = IF p = q THEN "undoing" ELSE pc[p]
  BY <1>1, GotoTypes DEF RefreshFails, Places
<1>3. /\ key[q] \in Keys
      /\ image' \in [Images -> Row]
      /\ \A j \in Images :
           image'[j] = IF j = i THEN [state |-> "active", key |-> key[q]] ELSE image[j]
  BY <1>1, StoredTypes DEF RefreshFails
<1>4. /\ \A j \in Images : image'[j].key = IF j = i THEN key[q] ELSE image[j].key
      /\ \A j \in Images : image'[j].state = IF j = i THEN "active" ELSE image[j].state
  BY <1>3
<1>5. /\ past' \in [Keys -> SUBSET Events]
      /\ \A j \in Keys : past'[j] = IF j = key[q] THEN past[j] \cup {"refresh"} ELSE past[j]
  BY <1>1, <1>3, HappenedTypes DEF RefreshFails, Events
<1>6. TypeOK'
  BY <1>1, <1>2, <1>3, <1>4, <1>5, KeysAssumption DEF TypeOK, Places, Row
<1>7. TogetherInv'
  BY <1>1, <1>3, <1>5 DEF IInv, KeyInv, TogetherInv, TypeOK
<1>8. CopyInv' /\ HeadInv'
  BY <1>1, <1>2, <1>3, <1>5, KeyIsThere DEF IInv, KeyInv, CopyInv, HeadInv
<1>9. RowInv'
  BY <1>1, <1>2, <1>3, <1>4, <1>5, KeyIsThere DEF IInv, KeyInv, RowInv
<1>10. LeftInv'
  <2>1. \A j \in Keys : past[j] \subseteq past'[j]
    BY <1>5
  <2>2. \A j \in Images : image[j].key \in Keys => image'[j].key = image[j].key
    BY <1>1, <1>4, KeysAssumption
  <2>3. \A p \in Requests : pc[p] \in {"copied", "undoing"} => pc'[p] \in {"copied", "undoing"}
    BY <1>2
  <2> QED
    BY <1>1, <2>1, <2>2, <2>3 DEF IInv, KeyInv, LeftInv
<1>11. RowsHaveObjects'
  <2>1. "refresh" \in past'[key[q]]
    BY <1>3, <1>5
  <2>2. \A j \in Images \ {i} : image'[j].key = image[j].key /\ image'[j].state = image[j].state
    BY <1>4
  <2>3. \A j \in Images : image[j].state # "none" => past[image[j].key] \subseteq past'[image[j].key]
    BY <1>1, <1>5 DEF TypeOK
  <2>4. image'[i].key = key[q]
    BY <1>4
  <2> QED
    BY <1>1, <2>1, <2>2, <2>3, <2>4 DEF IInv, Promises, RowsHaveObjects
<1>12. SizeIsBounded'
  BY <1>1, <1>5 DEF IInv, Promises, SizeIsBounded
<1>13. RoomInv'
  BY <1>1, CountInsert DEF RefreshFails
<1>14. CommittedInv'
  BY <1>1, <1>2, <1>4, KeysAssumption, StillCommitted
<1> QED
  BY <1>6, <1>7, <1>8, <1>9, <1>10, <1>11, <1>12, <1>13, <1>14 DEF IInv, KeyInv, Promises

\* The rollback takes no object that a row has, unless the key is marked.
LEMMA UndoStep ==
  ASSUME IInv, NEW q \in Requests, Undo(q)
  PROVE  IInv'
<1>1. /\ TypeOK /\ UNCHANGED <<url, pending, image, past>>
      /\ pc[q] = "undoing" /\ key[q] \in Keys
  BY KeyIsThere DEF IInv, Undo
<1>2. /\ pc' \in [Requests -> Places]
      /\ key' \in [Requests -> Keys \cup {NoKey}]
      /\ \A p \in Requests : /\ pc'[p] = IF p = q THEN "idle" ELSE pc[p]
                             /\ key'[p] = IF p = q THEN NoKey ELSE key[p]
  BY <1>1, FinishTypes DEF Undo
<1>3. /\ final' \in [Keys -> Object]
      /\ \A j \in Keys : final'[j] = IF j = key[q] THEN "none" ELSE final[j]
  BY <1>1 DEF Undo, TypeOK, Object
<1>4. TypeOK'
  BY <1>1, <1>2, <1>3 DEF TypeOK, Places
<1>5. TogetherInv' /\ RowInv' /\ HeadInv'
  BY <1>1, <1>2 DEF IInv, KeyInv, TogetherInv, RowInv, HeadInv
<1>6. \A p \in Requests : pc'[p] # "idle" /\ key[p] = key[q] => "again" \in past[key[p]]
  BY <1>1, <1>2, KeysAssumption DEF IInv, KeyInv, TogetherInv
<1>7. CopyInv'
  BY <1>1, <1>2, <1>3, <1>6, KeyIsThere DEF IInv, KeyInv, CopyInv
<1>8. LeftInv'
  BY <1>1, <1>2, <1>3 DEF IInv, KeyInv, LeftInv
<1>9. \A i \in Images : image[i].key = key[q] => past[key[q]] \cap {"again", "refresh"} # {}
  BY <1>1 DEF IInv, KeyInv, RowInv
<1>10. RowsHaveObjects'
  BY <1>1, <1>3, <1>9 DEF IInv, Promises, RowsHaveObjects, TypeOK
<1>11. SizeIsBounded'
  BY <1>1, <1>3 DEF IInv, Promises, SizeIsBounded
<1>12. RoomInv'
  BY <1>1, <1>2, CountStep DEF Active
<1>13. CommittedInv'
  BY <1>1, <1>2, StillCommitted
<1> QED
  BY <1>4, <1>5, <1>7, <1>8, <1>10, <1>11, <1>12, <1>13 DEF IInv, KeyInv, Promises

LEMMA EndStep ==
  ASSUME IInv, NEW q \in Requests, End(q)
  PROVE  IInv'
<1>1. /\ TypeOK /\ UNCHANGED <<url, pending, final, image>>
      /\ pc[q] # "idle" /\ key[q] \in Keys
  BY KeyIsThere DEF IInv, End, s3
<1>2. /\ pc' \in [Requests -> Places]
      /\ key' \in [Requests -> Keys \cup {NoKey}]
      /\ \A p \in Requests : /\ pc'[p] = IF p = q THEN "idle" ELSE pc[p]
                             /\ key'[p] = IF p = q THEN NoKey ELSE key[p]
  BY <1>1, FinishTypes DEF End
<1>3. /\ past' \in [Keys -> SUBSET Events]
      /\ \A j \in Keys : past[j] \subseteq past'[j] /\ past'[j] \subseteq past[j] \cup {"left"}
      /\ pc[q] \in {"copied", "undoing"} => "left" \in past'[key[q]]
  <2>1. CASE pc[q] \in {"copied", "undoing"}
    <3>1. Happened(key[q], "left") /\ "left" \in Events
      BY <2>1 DEF End, Events
    <3>2. /\ past' \in [Keys -> SUBSET Events]
          /\ \A j \in Keys : past'[j] = IF j = key[q] THEN past[j] \cup {"left"} ELSE past[j]
      BY <1>1, <3>1, HappenedTypes
    <3>3. "left" \in past'[key[q]]
      BY <1>1, <3>2
    <3>4. \A j \in Keys : past[j] \subseteq past'[j] /\ past'[j] \subseteq past[j] \cup {"left"}
      BY <3>2
    <3> QED
      BY <3>2, <3>3, <3>4
  <2>2. CASE pc[q] \notin {"copied", "undoing"}
    <3>1. past' = past
      BY <2>2 DEF End
    <3> QED
      BY <1>1, <2>2, <3>1 DEF TypeOK
  <2> QED
    BY <2>1, <2>2
<1>4. TypeOK'
  BY <1>1, <1>2, <1>3 DEF TypeOK, Places
<1>5. TogetherInv'
  BY <1>1, <1>2, <1>3 DEF IInv, KeyInv, TogetherInv, TypeOK
<1>6. RowInv'
  BY <1>1, <1>2, <1>3, KeyIsThere DEF IInv, KeyInv, RowInv
<1>7. CopyInv' /\ HeadInv'
  BY <1>1, <1>2, <1>3, KeyIsThere DEF IInv, KeyInv, CopyInv, HeadInv
<1>8. LeftInv'
  BY <1>1, <1>2, <1>3 DEF IInv, KeyInv, LeftInv
<1>9. RowsHaveObjects' /\ SizeIsBounded'
  BY <1>1, <1>3 DEF IInv, Promises, RowsHaveObjects, SizeIsBounded, TypeOK
<1>10. RoomInv'
  BY <1>1, <1>2, CountStep DEF Active
<1>11. CommittedInv'
  BY <1>1, <1>2, StillCommitted
<1> QED
  BY <1>4, <1>5, <1>6, <1>7, <1>8, <1>9, <1>10, <1>11 DEF IInv, KeyInv, Promises

---------------------------------------------------------------------------
(* The invariant and the theorems.                                         *)

LEMMA InvInit == ASSUME Init PROVE IInv
<1>1. TypeOK
  BY DEF Init, TypeOK, Object
<1>2. KeyInv /\ Promises
  BY DEF Init, KeyInv, TogetherInv, RowInv, CopyInv, LeftInv, HeadInv, CommittedInv, Promises,
     RowsHaveObjects, SizeIsBounded
<1>3. Active = {}
  BY DEF Init, Active
<1>4. Counting = {}
  BY DEF Init, Counting
<1>5. IsFiniteSet(Active) /\ Cardinality(Active) = 0 /\ Cardinality(Counting) = 0
  BY <1>3, <1>4, FS_EmptySet
<1>6. RoomInv
  BY <1>5, CountTypes, CountAssumption DEF RoomInv
<1> QED
  BY <1>1, <1>2, <1>6 DEF IInv

LEMMA InvStep == ASSUME IInv, [Next]_vars PROVE IInv'
<1>1. ASSUME NEW q \in Requests, DeleteTooLarge(q) \/ DeleteOriginal(q) PROVE IInv'
  BY <1>1, FinishStep DEF DeleteTooLarge, DeleteOriginal
<1>2. ASSUME NEW q \in Requests, Registration(q) PROVE IInv'
  BY <1>1, <1>2, BeginStep, HeadStep, CopyStep, InsertStep, RefreshFailsStep,
     InsertFailsStep, UndoStep, EndStep DEF Registration
<1>3. ASSUME NEW k \in Keys,
             \/ Presign(k) \/ ExpireUrl(k) \/ Sweep(k)
             \/ \E size \in {"small", "large"} : Upload(k, size)
      PROVE  IInv'
  BY <1>3, UrlStep, SweepStep, UploadStep
<1>4. ASSUME NEW i \in Images, DeleteImage(i) PROVE IInv'
  BY <1>4, DeleteStep
<1>5. CASE UNCHANGED vars
  <2>1. image' \in [Images -> Row]
    BY <1>5 DEF IInv, TypeOK, Row, vars
  <2> QED
    BY <1>5, <2>1, QuietStep DEF vars, IInv, TypeOK
<1> QED
  BY <1>2, <1>3, <1>4, <1>5 DEF Next

LEMMA ImagesInvariant == Spec => []IInv
<1>1. Init => IInv
  BY InvInit
<1>2. IInv /\ [Next]_vars => IInv'
  BY InvStep
<1> QED
  BY <1>1, <1>2, PTL DEF Spec

\* Keys, rows and registrations keep their types.
THEOREM ImagesTypeCorrect == Spec => []TypeOK
<1>1. IInv => TypeOK
  BY DEF IInv
<1> QED
  BY <1>1, ImagesInvariant, PTL

\* A row of spot_images keeps its object whatever step of register_image fails
\* (create_image, rollback), save for the two events the property names.
THEOREM RowsKeepObjects == Spec => []RowsHaveObjects
<1>1. IInv => RowsHaveObjects
  BY DEF IInv, Promises
<1> QED
  BY <1>1, ImagesInvariant, PTL

\* No registration leaves an object without a row behind, unless it was stopped
\* between copy and commit (the rollback of register_image).
THEOREM ObjectsKeepRows == Spec => []ObjectsHaveRows
<1>1. IInv => ObjectsHaveRows
  BY DEF IInv, KeyInv, LeftInv, ObjectsHaveRows
<1> QED
  BY <1>1, ImagesInvariant, PTL

\* The original of a registration outlives its failure, its rollback and the end of
\* any other registration: only its own commit, its size and the lifecycle rule
\* take it (delete_object in register_image).
THEOREM OriginalsSurvive == Spec => OriginalsAreKept
<1> DEFINE Taken(k) ==
      \/ \E q \in Requests : key[q] = k /\ pc[q] = "large"
      \/ /\ \E q \in Requests : key[q] = k /\ pc[q] = "committed"
         /\ \E i \in Images : image[i].key = k
      \/ Sweep(k)
<1>1. ASSUME IInv, [Next]_vars, NEW k \in Keys, pending[k] # "none", pending'[k] = "none"
      PROVE  Taken(k)
  <2>1. pending' # pending
    BY <1>1
  <2>2. pending \in [Keys -> Object]
    BY <1>1 DEF IInv, TypeOK
  <2>3. ASSUME NEW q \in Requests, Registration(q)
        PROVE  /\ pc[q] \in {"large", "committed"}
               /\ pending' = [pending EXCEPT ![key[q]] = "none"]
    BY <2>1, <2>3 DEF Registration, BeginRegister, Begin, Head, DeleteTooLarge, Copy, Insert,
       RefreshFails, InsertFails, Undo, DeleteOriginal, End, s3
  <2>4. ASSUME NEW q \in Requests, Registration(q) PROVE Taken(k)
    <3>1. key[q] = k /\ pc[q] \in {"large", "committed"}
      BY <1>1, <2>2, <2>3, <2>4
    <3>2. pc[q] = "committed" => \E i \in Images : image[i].key = k
      BY <1>1, <3>1 DEF IInv, KeyInv, CommittedInv
    <3> QED
      BY <3>1, <3>2
  <2>5. ASSUME NEW j \in Keys, Sweep(j) PROVE Taken(k)
    <3>1. j = k
      BY <1>1, <2>2, <2>5 DEF Sweep
    <3> QED
      BY <2>5, <3>1
  <2>6. ASSUME NEW j \in Keys, NEW size \in {"small", "large"}, Upload(j, size) PROVE FALSE
    BY <1>1, <2>2, <2>6 DEF Upload
  <2>7. ASSUME NEW j \in Keys, Presign(j) \/ ExpireUrl(j) PROVE FALSE
    BY <2>1, <2>7 DEF Presign, ExpireUrl
  <2>8. ASSUME NEW i \in Images, DeleteImage(i) PROVE FALSE
    BY <2>1, <2>8 DEF DeleteImage, s3
  <2>9. Next
    BY <1>1, <2>1 DEF vars
  <2> HIDE DEF Taken
  <2> QED
    BY <2>4, <2>5, <2>6, <2>7, <2>8, <2>9 DEF Next
<1>2. IInv /\ [Next]_vars =>
        [\A k \in Keys : pending[k] # "none" /\ pending'[k] = "none" => Taken(k)]_vars
  BY <1>1
<1> QED
  BY <1>2, ImagesInvariant, PTL DEF Spec, OriginalsAreKept

\* IMAGE_MAX_BYTES holds for every final object that was not replaced behind the
\* check of head_object.
THEOREM LargeObjectsStayOut == Spec => []SizeIsBounded
<1>1. IInv => SizeIsBounded
  BY DEF IInv, Promises
<1> QED
  BY <1>1, ImagesInvariant, PTL

\* IMAGE_MAX_COUNT_PER_SPOT is exceeded by fewer rows than there are registrations
\* in flight, however they overlap, fail and repeat.
THEOREM CountStaysBounded == Spec => []CountIsBounded
<1>1. ASSUME IInv PROVE CountIsBounded
  <2>1. Cardinality(Active) \in Nat
    BY <1>1, FS_CardinalityType DEF IInv, RoomInv
  <2>2. Cardinality(Active) + Cardinality(Counting) < MaxImages + Cardinality(Requests)
    BY <1>1 DEF IInv, RoomInv
  <2> QED
    BY <2>1, <2>2, CountTypes, CountAssumption DEF CountIsBounded
<1>2. IInv => CountIsBounded
  BY <1>1
<1> QED
  BY <1>2, ImagesInvariant, PTL
=============================================================================
