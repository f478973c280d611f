----------------------------- MODULE SpotImages -----------------------------
(***************************************************************************)
(* The images of a spot, between a client, S3 and PostgreSQL               *)
(* (api/v1/endpoints/internal_spot_images.py, crud/spot_image.py).         *)
(*                                                                         *)
(* A client gets a presigned URL for a key under the pending prefix, puts  *)
(* an object there, once or several times, and asks to register it.  The   *)
(* handler checks count and size, copies the object to its final key,      *)
(* commits a row and deletes the original: steps of two systems that know  *)
(* no common transaction.  Every step can fail and the process can stop    *)
(* after each.  A final key is named by its pending key, and images of two *)
(* spots never meet: one spot stands for all.                              *)
(***************************************************************************)
EXTENDS Integers, FiniteSets

CONSTANTS
  Keys,       \* keys that are presigned
  Images,     \* rows that can be created
  Requests,   \* registrations in flight together
  NoKey,      \* a row or request without a key
  MaxImages   \* IMAGE_MAX_COUNT_PER_SPOT

ASSUME KeysAssumption == NoKey \notin Keys
ASSUME CountAssumption == MaxImages \in Nat \ {0} /\ IsFiniteSet(Requests)

\* What is under a key: nothing, an object within IMAGE_MAX_BYTES, or above it.
Object == {"none", "small", "large"}

VARIABLES
  url,       \* url[k]: the presigned URL: "none", "valid" or "expired"
  pending,   \* pending[k]: the object under uploads/pending
  final,     \* final[k]: the object under spots
  image,     \* the rows of spot_images
  pc,        \* each request: where it stands
  key,       \* the key each request registers
  past       \* history of each key: see Events

s3 == <<url, pending, final>>
vars == <<url, pending, final, image, pc, key, past>>

\* "again": registered while a row or another request has it.  "refresh": an error
\* came after the commit.  "replaced": uploaded again after its size was looked at.
\* "left": a request stopped between copy and commit.
Events == {"again", "refresh", "replaced", "left"}

TypeOK ==
  /\ url \in [Keys -> {"none", "valid", "expired"}]
  /\ pending \in [Keys -> Object]
  /\ final \in [Keys -> Object]
  /\ image \in [Images -> [state : {"none", "active", "deleted"}, key : Keys \cup {NoKey}]]
  /\ pc \in [Requests -> {"idle", "counted", "large", "headed", "copied", "undoing",
                          "committed"}]
  /\ key \in [Requests -> Keys \cup {NoKey}]
  /\ past \in [Keys -> SUBSET Events]
  /\ \A q \in Requests : pc[q] = "idle" <=> key[q] = NoKey
  /\ \A i \in Images : image[i].state = "none" <=> image[i].key = NoKey

Init ==
  /\ url = [k \in Keys |-> "none"]
  /\ pending = [k \in Keys |-> "none"]
  /\ final = [k \in Keys |-> "none"]
  /\ image = [i \in Images |-> [state |-> "none", key |-> NoKey]]
  /\ pc = [q \in Requests |-> "idle"]
  /\ key = [q \in Requests |-> NoKey]
  /\ past = [k \in Keys |-> {}]

Active == {i \in Images : image[i].state = "active"}

\* The requests that work on k, q aside.
Others(q, k) == {p \in Requests \ {q} : key[p] = k}

Goto(q, place) == pc' = [pc EXCEPT ![q] = place]
Finish(q) == Goto(q, "idle") /\ key' = [key EXCEPT ![q] = NoKey]
Happened(k, e) == past' = [past EXCEPT ![k] = @ \cup {e}]

---------------------------------------------------------------------------
(* The client and S3.                                                      *)

\* presign_image_upload: a new key.
Presign(k) ==
  /\ url[k] = "none"
  /\ url' = [url EXCEPT ![k] = "valid"]
  /\ UNCHANGED <<pending, final, image, pc, key, past>>

\* The client puts an object of any size, again if it likes.
Upload(k, size) ==
  /\ url[k] = "valid"
  /\ pending' = [pending EXCEPT ![k] = size]
  /\ IF \E q \in Requests : key[q] = k /\ pc[q] # "counted" THEN Happened(k, "replaced")
     ELSE UNCHANGED past
  /\ UNCHANGED <<url, final, image, pc, key>>

\* S3_PRESIGN_EXPIRE_SECONDS are over.
ExpireUrl(k) ==
  /\ url[k] = "valid"
  /\ url' = [url EXCEPT ![k] = "expired"]
  /\ UNCHANGED <<pending, final, image, pc, key, past>>

\* The lifecycle rule deletes old objects under the pending prefix.
Sweep(k) ==
  /\ url[k] = "expired" /\ pending[k] # "none"
  /\ pending' = [pending EXCEPT ![k] = "none"]
  /\ UNCHANGED <<url, final, image, pc, key, past>>

---------------------------------------------------------------------------
(* register_image.                                                         *)

Begin(q, k) ==
  /\ pc[q] = "idle"
  /\ Goto(q, "counted")
  /\ key' = [key EXCEPT ![q] = k]
  /\ IF Others(q, k) # {} \/ \E i \in Images : image[i].key = k
     THEN Happened(k, "again") ELSE UNCHANGED past
  /\ UNCHANGED <<s3, image>>

\* Faulty form: one image more than the limit.
BeginOneTooMany(q, k) == Cardinality(Active) <= MaxImages /\ Begin(q, k)

\* The key belongs to the spot, and the spot has room for one more.
BeginRegister(q, k) == Cardinality(Active) < MaxImages /\ Begin(q, k)

\* Faulty form: any object will do.
HeadAnySize(q) ==
  /\ pc[q] = "counted"
  /\ pending[key[q]] # "none"
  /\ Goto(q, "headed")
  /\ UNCHANGED <<s3, image, key, past>>

\* head_object: the size of what is there now.
Head(q) ==
  /\ pc[q] = "counted"
  /\ \/ pending[key[q]] = "small" /\ Goto(q, "headed")
     \/ pending[key[q]] = "large" /\ Goto(q, "large")
  /\ UNCHANGED <<s3, image, key, past>>

\* What is too large is deleted, and the request is refused.
DeleteTooLarge(q) ==
  /\ pc[q] = "large"
  /\ pending' = [pending EXCEPT ![key[q]] = "none"]
  /\ Finish(q)
  /\ UNCHANGED <<url, final, image, past>>

\* copy_object: the pending object stays.
Copy(q) ==
  /\ pc[q] = "headed"
  /\ pending[key[q]] # "none"
  /\ final' = [final EXCEPT ![key[q]] = pending[key[q]]]
  /\ Goto(q, "copied")
  /\ UNCHANGED <<url, pending, image, key, past>>

Stored(q, i) ==
  /\ pc[q] = "copied"
  /\ image[i].state = "none"
  /\ image' = [image EXCEPT ![i] = [state |-> "active", key |-> key[q]]]

\* create_image; it goes on to the caches (SpotCache, "spot").
Insert(q, i) ==
  /\ Stored(q, i)
  /\ Goto(q, "committed")
  /\ UNCHANGED <<s3, key, past>>

\* create_image fails.
InsertFails(q) ==
  /\ pc[q] = "copied"
  /\ Goto(q, "undoing")
  /\ UNCHANGED <<s3, image, key, past>>

\* The row is committed and its refresh fails: for the handler, create_image fails.
RefreshFails(q, i) ==
  /\ Stored(q, i)
  /\ Goto(q, "undoing")
  /\ Happened(key[q], "refresh")
  /\ UNCHANGED <<s3, key>>

\* Faulty form: the copy is left where it is.
UndoNothing(q) ==
  /\ pc[q] = "undoing"
  /\ Finish(q)
  /\ UNCHANGED <<s3, image, past>>

\* Faulty form: the rollback deletes the original too.
UndoBoth(q) ==
  /\ pc[q] = "undoing"
  /\ final' = [final EXCEPT ![key[q]] = "none"]
  /\ pending' = [pending EXCEPT ![key[q]] = "none"]
  /\ Finish(q)
  /\ UNCHANGED <<url, image, past>>

\* After an exception of create_image the copy is deleted.
Undo(q) ==
  /\ pc[q] = "undoing"
  /\ final' = [final EXCEPT ![key[q]] = "none"]
  /\ Finish(q)
  /\ UNCHANGED <<url, pending, image, past>>

\* Faulty form: the wrong one of the two keys is deleted.
DeleteFinal(q) ==
  /\ pc[q] = "committed"
  /\ final' = [final EXCEPT ![key[q]] = "none"]
  /\ Finish(q)
  /\ UNCHANGED <<url, pending, image, past>>

\* The original is deleted, and the request is answered.
DeleteOriginal(q) ==
  /\ pc[q] = "committed"
  /\ pending' = [pending EXCEPT ![key[q]] = "none"]
  /\ Finish(q)
  /\ UNCHANGED <<url, final, image, past>>

\* Faulty form: the request does not end.
EndKeepsKey(q) ==
  /\ pc[q] # "idle"
  /\ Goto(q, "idle")
  /\ UNCHANGED <<s3, image, key, past>>

\* A check or a call of S3 fails, the handler is cancelled, or the process stops:
\* what is done stays.
End(q) ==
  /\ pc[q] # "idle"
  /\ Finish(q)
  /\ IF pc[q] \in {"copied", "undoing"} THEN Happened(key[q], "left") ELSE UNCHANGED past
  /\ UNCHANGED <<s3, image>>

\* delete_image: row and object stay.
DeleteImage(i) ==
  /\ image[i].state = "active"
  /\ image' = [image EXCEPT ![i].state = "deleted"]
  /\ UNCHANGED <<s3, pc, key, past>>

---------------------------------------------------------------------------

Registration(q) ==
  \/ \E k \in Keys : BeginRegister(q, k)
  \/ Head(q)
  \/ DeleteTooLarge(q)
  \/ Copy(q)
  \/ \E i \in Images : Insert(q, i) \/ RefreshFails(q, i)
  \/ InsertFails(q)
  \/ Undo(q)
  \/ DeleteOriginal(q)
  \/ End(q)

Next ==
  \/ \E q \in Requests : Registration(q)
  \/ \E k \in Keys :
       \/ Presign(k)
       \/ \E size \in {"small", "large"} : Upload(k, size)
       \/ ExpireUrl(k)
       \/ Sweep(k)
  \/ \E i \in Images : DeleteImage(i)

Spec == Init /\ [][Next]_vars

---------------------------------------------------------------------------
(* Properties.                                                             *)

\* register_image: a row, deleted ones included (they can be restored), has its
\* object, whatever fails or stops, unless its key is registered a second time or
\* the error comes after the commit.
RowsHaveObjects ==
  \A i \in Images :
    image[i].state # "none" /\ past[image[i].key] \cap {"again", "refresh"} = {}
      => final[image[i].key] # "none"

\* The rollback of register_image: once nobody works on a key, an object outside
\* the pending prefix has a row, unless a request stopped before it could undo.
ObjectsHaveRows ==
  \A k \in Keys :
    final[k] # "none" /\ "left" \notin past[k] /\ (\A q \in Requests : key[q] # k)
      => \E i \in Images : image[i].key = k

\* "The pending original is not deleted yet, so that register can be retried":
\* neither a failure nor the rollback, nor another registration that ends, takes
\* an original.  It goes with the registration whose row is committed, as too
\* large, or when the lifecycle rule finds it old.
OriginalsAreKept ==
  [][\A k \in Keys :
       pending[k] # "none" /\ pending'[k] = "none" =>
         \/ \E q \in Requests : key[q] = k /\ pc[q] = "large"
         \/ /\ \E q \in Requests : key[q] = k /\ pc[q] = "committed"
            /\ \E i \in Images : image[i].key = k
         \/ Sweep(k)]_vars

\* IMAGE_MAX_BYTES is checked when an image is registered: nothing larger gets to
\* a final key, unless the client replaces the object behind the check.
SizeIsBounded ==
  \A k \in Keys : "replaced" \notin past[k] => final[k] # "large"

\* IMAGE_MAX_COUNT_PER_SPOT: registrations that have counted before one of them
\* commits can exceed it, each by its own row, and no sequence of them by more.
CountIsBounded == Cardinality(Active) < MaxImages + Cardinality(Requests)
============================================================================
